---------------------------- MODULE Facts_proofs ----------------------------
(***************************************************************************)
(* What the proofs of several modules cite: least elements, sums over      *)
(* finite sets, and the value last_completed_height returns for a batch.   *)
(* The sums are by smallest counterexample, as no theorem with a predicate *)
(* as its parameter can be used.                                           *)
(***************************************************************************)
EXTENDS BatchProgress, FiniteSetsExt, FiniteSetTheorems, WellFoundedInduction, TLAPS

Sum(f, S) == MapThenSumSet(LAMBDA x : f[x], S)

\* it is the recursive function of which Sum takes the value for S.
SumsUp(f, S, it) ==
  it = [T \in SUBSET S |-> IF T = {} THEN 0
                           ELSE LET x == CHOOSE x \in T : TRUE IN f[x] + it[T \ {x}]]

(* Sum is defined by a choice of that function.                            *)
LEMMA SumIsChosen ==
  ASSUME NEW f, NEW S
  PROVE  Sum(f, S) = (CHOOSE it : SumsUp(f, S, it))[S]
BY DEF Sum, MapThenSumSet, MapThenFoldSet, SumsUp

(* A set of naturals that is not empty has a least element.                *)
LEMMA LeastOf ==
  ASSUME NEW N \in SUBSET Nat, N # {}
  PROVE  \E m \in N : \A n \in N : m <= n
<1> DEFINE R == OpToRel(<, Nat)
<1>1. IsWellFoundedOn(R, Nat)
  BY NatLessThanWellFounded
<1>2. \A x, y \in Nat : <<y, x>> \in R <=> y < x
  BY DEF OpToRel
<1> HIDE DEF R
<1>3. PICK m \in N : \A y \in N : ~ (<<y, m>> \in R)
  BY <1>1, WFMin
<1>4. \A n \in N : m <= n
  <2> TAKE n \in N
  <2>1. ~ (<<n, m>> \in R)
    BY <1>3
  <2>2. ~ (n < m)
    BY <1>2, <2>1, Zenon
  <2> QED  BY <2>2
<1> QED  BY <1>4

(* Of the finite sets in a collection one has the fewest elements.         *)
LEMMA SmallestOf ==
  ASSUME NEW C, C # {}, \A T \in C : IsFiniteSet(T)
  PROVE  \E T \in C : \A U \in C : Cardinality(T) <= Cardinality(U)
<1> DEFINE N == {Cardinality(T) : T \in C}
<1>1. N \in SUBSET Nat /\ N # {}
  BY FS_CardinalityType
<1>2. PICK m \in N : \A n \in N : m <= n
  BY <1>1, LeastOf
<1> QED  BY <1>2

(* Without any of its elements a finite set is smaller.                    *)
LEMMA WithoutIsSmaller ==
  ASSUME NEW T, IsFiniteSet(T), NEW x \in T
  PROVE  /\ IsFiniteSet(T \ {x}) /\ T \ {x} \subseteq T
         /\ Cardinality(T \ {x}) < Cardinality(T)
<1>1. IsFiniteSet(T \ {x}) /\ Cardinality(T \ {x}) = Cardinality(T) - 1
  BY FS_RemoveElement
<1> QED  BY <1>1, FS_CardinalityType

(* Two such recursions agree where both are defined.                       *)
LEMMA SumsAgree ==
  ASSUME NEW f, NEW S, NEW S2, NEW it, NEW it2, IsFiniteSet(S),
         SumsUp(f, S, it), SumsUp(f, S2, it2), S \subseteq S2
  PROVE  \A T \in SUBSET S : it[T] = it2[T]
<1> DEFINE C == {T \in SUBSET S : it[T] # it2[T]}
<1> SUFFICES ASSUME C # {} PROVE FALSE
  OBVIOUS
<1>1. \A T \in C : IsFiniteSet(T)
  BY FS_Subset
<1>2. PICK T \in C : \A U \in C : Cardinality(T) <= Cardinality(U)
  BY <1>1, SmallestOf
<1>3. T # {}
  BY DEF SumsUp
<1> DEFINE x == CHOOSE x \in T : TRUE
<1>4. x \in T
  BY <1>3
<1>5. it[T] = f[x] + it[T \ {x}] /\ it2[T] = f[x] + it2[T \ {x}]
  BY <1>3 DEF SumsUp
<1>6. T \ {x} \in SUBSET S /\ Cardinality(T \ {x}) < Cardinality(T) /\ IsFiniteSet(T)
  BY <1>1, <1>4, WithoutIsSmaller
<1>7. T \ {x} \notin C
  BY <1>2, <1>6, FS_CardinalityType, FS_Subset
<1> QED  BY <1>5, <1>6, <1>7

(* The recursion is defined for every finite set.                          *)
LEMMA SumsUpExists ==
  ASSUME NEW f, NEW S, IsFiniteSet(S)
  PROVE  \E it : SumsUp(f, S, it)
<1> DEFINE C == {T \in SUBSET S : ~ \E it : SumsUp(f, T, it)}
<1> SUFFICES ASSUME C # {} PROVE FALSE
  OBVIOUS
<1>1. \A T \in C : IsFiniteSet(T)
  BY FS_Subset
<1>2. PICK T \in C : \A U \in C : Cardinality(T) <= Cardinality(U)
  BY <1>1, SmallestOf
<1>3. IsFiniteSet(T) /\ T \subseteq S
  BY <1>1
<1> DEFINE first(U) == CHOOSE x \in U : TRUE
           g == [U \in SUBSET T |-> IF U = {} THEN 0 ELSE f[first(U)] + Sum(f, U \ {first(U)})]
<1>4. ASSUME NEW V \in SUBSET T, V # T
      PROVE  Sum(f, V) = g[V]
  <2>1. Cardinality(V) < Cardinality(T) /\ IsFiniteSet(V)
    <3>1. IsFiniteSet(V) /\ Cardinality(V) <= Cardinality(T) /\ Cardinality(V) # Cardinality(T)
      BY <1>3, <1>4, FS_Subset
    <3> QED  BY <1>3, <3>1, FS_CardinalityType
  <2>2. ASSUME NEW U \in SUBSET V
        PROVE  SumsUp(f, U, CHOOSE it : SumsUp(f, U, it))
    <3>1. Cardinality(U) < Cardinality(T)
      BY <1>3, <2>1, FS_Subset, FS_CardinalityType
    <3>2. U \notin C
      BY <1>2, <1>3, <2>1, <3>1, FS_CardinalityType, FS_Subset
    <3> QED  BY <1>3, <3>2
  <2> DEFINE it(U) == CHOOSE it : SumsUp(f, U, it)
             W == V \ {first(V)}
  <2>3. \A U \in SUBSET V : SumsUp(f, U, it(U)) /\ Sum(f, U) = it(U)[U]
    BY <2>2, SumIsChosen
  <2> HIDE DEF it
  <2>4. CASE V = {}
    BY <2>3, <2>4 DEF SumsUp
  <2>5. CASE V # {}
    <3>1. W \in SUBSET V /\ IsFiniteSet(W)
      BY <2>1, FS_Subset
    <3>2. it(V)[V] = f[first(V)] + it(V)[W]
      BY <2>3, <2>5, <3>1 DEF SumsUp
    <3>3. it(W)[W] = it(V)[W]
      BY <2>3, <3>1, SumsAgree
    <3> QED  BY <2>3, <2>5, <3>1, <3>2, <3>3
  <2> QED  BY <2>4, <2>5
<1>5. SumsUp(f, T, g)
  <2>1. ASSUME NEW U \in SUBSET T, U # {}
        PROVE  Sum(f, U \ {first(U)}) = g[U \ {first(U)}]
    <3>0. first(U) \in U
      BY <2>1
    <3>1. U \ {first(U)} \in SUBSET T /\ U \ {first(U)} # T
      BY <3>0
    <3> HIDE DEF g, first
    <3> QED  BY <1>4, <3>1
  <2>2. g = [U \in SUBSET T |-> IF U = {} THEN 0 ELSE f[first(U)] + g[U \ {first(U)}]]
    <3> HIDE DEF first
    <3>1. \A U \in SUBSET T : U # {} => Sum(f, U \ {first(U)}) = g[U \ {first(U)}]
      BY <2>1
    <3>2. \A U \in SUBSET T : (IF U = {} THEN 0 ELSE f[first(U)] + Sum(f, U \ {first(U)}))
                                 = (IF U = {} THEN 0 ELSE f[first(U)] + g[U \ {first(U)}])
      <4> HIDE DEF g
      <4> QED  BY <3>1
    <3> QED  BY <3>2, Zenon
  <2> HIDE DEF g
  <2> QED  BY <2>2 DEF SumsUp
<1> QED  BY <1>2, <1>5

(* The sum over no element is 0; otherwise it is the value of the element  *)
(* that is chosen first and the sum over the others.                       *)
LEMMA SumFirst ==
  ASSUME NEW f, NEW S, IsFiniteSet(S)
  PROVE  Sum(f, S) = IF S = {} THEN 0
                     ELSE f[CHOOSE x \in S : TRUE] + Sum(f, S \ {CHOOSE x \in S : TRUE})
<1> DEFINE it(U) == CHOOSE it : SumsUp(f, U, it)
<1>1. \A U \in SUBSET S : IsFiniteSet(U) /\ SumsUp(f, U, it(U)) /\ Sum(f, U) = it(U)[U]
  BY SumsUpExists, SumIsChosen, FS_Subset
<1> HIDE DEF it
<1>2. CASE S = {}
  BY <1>1, <1>2 DEF SumsUp
<1>3. CASE S # {}
  <2> DEFINE x == CHOOSE x \in S : TRUE
             W == S \ {x}
  <2>1. it(S)[S] = f[x] + it(S)[W]
    BY <1>1, <1>3 DEF SumsUp
  <2>2. it(W)[W] = it(S)[W]
    BY <1>1, SumsAgree
  <2> QED  BY <1>1, <1>3, <2>1, <2>2
<1> QED  BY <1>2, <1>3

(* Any element may be taken out, and the sum is an integer.                *)
LEMMA SumWithout ==
  ASSUME NEW f, NEW S, IsFiniteSet(S), \A x \in S : f[x] \in Int
  PROVE  /\ Sum(f, S) \in Int
         /\ \A y \in S : Sum(f, S) = f[y] + Sum(f, S \ {y})
<1> DEFINE Right(T) == Sum(f, T) \in Int /\ \A y \in T : Sum(f, T) = f[y] + Sum(f, T \ {y})
           C == {T \in SUBSET S : ~ Right(T)}
<1> SUFFICES ASSUME C # {} PROVE FALSE
  OBVIOUS
<1>1. \A T \in C : IsFiniteSet(T)
  BY FS_Subset
<1>2. PICK T \in C : \A U \in C : Cardinality(T) <= Cardinality(U)
  BY <1>1, SmallestOf
<1>3. IsFiniteSet(T) /\ T \subseteq S
  BY <1>1
<1>4. ASSUME NEW y \in T PROVE Right(T \ {y})
  <2>1. Cardinality(T \ {y}) < Cardinality(T) /\ IsFiniteSet(T \ {y})
    BY <1>3, WithoutIsSmaller
  <2>2. T \ {y} \notin C
    <3> HIDE DEF C
    <3> QED  BY <1>2, <1>3, <2>1, FS_CardinalityType
  <2> HIDE DEF Right
  <2> QED  BY <1>3, <2>2
<1>5. T # {}
  <2>1. Sum(f, {}) = 0
    BY SumFirst, FS_EmptySet
  <2>2. Right({})
    BY <2>1
  <2> HIDE DEF Right
  <2> QED  BY <1>2, <2>2
<1> DEFINE x == CHOOSE x \in T : TRUE
<1>6. x \in T /\ Sum(f, T) = f[x] + Sum(f, T \ {x})
  BY <1>3, <1>5, SumFirst
<1>7. \A y \in T : f[y] \in Int
  BY <1>3
<1>8. ASSUME NEW y \in T PROVE Sum(f, T) = f[y] + Sum(f, T \ {y})
  <2>1. CASE y = x
    BY <1>6, <2>1
  <2>2. CASE y # x
    <3>1. /\ Sum(f, T \ {x}) = f[y] + Sum(f, (T \ {x}) \ {y})
          /\ Sum(f, T \ {y}) = f[x] + Sum(f, (T \ {y}) \ {x})
          /\ Sum(f, T \ {x}) \in Int /\ Sum(f, T \ {y}) \in Int
      BY <1>4, <1>6, <2>2
    <3>2. (T \ {x}) \ {y} = (T \ {y}) \ {x}
      OBVIOUS
    <3>3. Sum(f, (T \ {y}) \ {x}) \in Int
      <4>1. IsFiniteSet(T \ {y}) /\ IsFiniteSet((T \ {y}) \ {x})
            /\ Cardinality((T \ {y}) \ {x}) < Cardinality(T)
        BY <1>3, <1>6, <1>8, <2>2, WithoutIsSmaller, FS_CardinalityType
      <4> QED  BY <1>2, <1>3, <4>1, FS_CardinalityType
    <3>4. f[x] \in Int /\ f[y] \in Int
      BY <1>6, <1>7
    <3> DEFINE rest == Sum(f, (T \ {y}) \ {x})
    <3>5. Sum(f, T) = f[x] + (f[y] + rest) /\ Sum(f, T \ {y}) = f[x] + rest
      BY <1>6, <3>1, <3>2
    <3> HIDE DEF x, rest
    <3>6. rest \in Int
      BY <3>3 DEF rest
    <3> QED  BY <3>4, <3>5, <3>6
  <2> QED  BY <2>1, <2>2
<1>9. Sum(f, T) \in Int
  <2>1. Sum(f, T \ {x}) \in Int /\ f[x] \in Int
    BY <1>4, <1>6, <1>7
  <2> HIDE DEF x
  <2> QED  BY <1>6, <2>1
<1> QED  BY <1>8, <1>9

(* There is nothing to add.                                                *)
LEMMA EmptySum == ASSUME NEW f PROVE Sum(f, {}) = 0
BY SumFirst, FS_EmptySet

(* Only the values on the set count.                                       *)
LEMMA SumEqual ==
  ASSUME NEW f, NEW g, NEW S, IsFiniteSet(S), \A x \in S : f[x] \in Int /\ g[x] = f[x]
  PROVE  Sum(g, S) = Sum(f, S)
<1> DEFINE C == {T \in SUBSET S : Sum(g, T) # Sum(f, T)}
<1> SUFFICES ASSUME C # {} PROVE FALSE
  OBVIOUS
<1>1. \A T \in C : IsFiniteSet(T)
  BY FS_Subset
<1>2. PICK T \in C : \A U \in C : Cardinality(T) <= Cardinality(U)
  BY <1>1, SmallestOf
<1>3. PICK x \in T : TRUE
  BY EmptySum
<1>4. T \ {x} \in SUBSET S /\ IsFiniteSet(T) /\ IsFiniteSet(T \ {x})
      /\ Cardinality(T \ {x}) < Cardinality(T)
  BY <1>1, WithoutIsSmaller
<1>5. T \ {x} \notin C
  <2> HIDE DEF C
  <2> QED  BY <1>2, <1>4, FS_CardinalityType
<1>6. \A y \in T : f[y] \in Int /\ g[y] \in Int
  BY <1>4
<1>7. Sum(g, T) = g[x] + Sum(g, T \ {x}) /\ Sum(f, T) = f[x] + Sum(f, T \ {x})
  BY <1>3, <1>4, <1>6, SumWithout
<1> QED  BY <1>4, <1>5, <1>7

(* Zeros add up to zero.                                                   *)
LEMMA SumOfZeros ==
  ASSUME NEW f, NEW S, IsFiniteSet(S), \A x \in S : f[x] = 0
  PROVE  Sum(f, S) = 0
<1> DEFINE C == {T \in SUBSET S : Sum(f, T) # 0}
<1> SUFFICES ASSUME C # {} PROVE FALSE
  OBVIOUS
<1>1. \A T \in C : IsFiniteSet(T)
  BY FS_Subset
<1>2. PICK T \in C : \A U \in C : Cardinality(T) <= Cardinality(U)
  BY <1>1, SmallestOf
<1>3. PICK x \in T : TRUE
  BY EmptySum
<1>4. T \ {x} \in SUBSET S /\ IsFiniteSet(T) /\ IsFiniteSet(T \ {x})
      /\ Cardinality(T \ {x}) < Cardinality(T)
  BY <1>1, WithoutIsSmaller
<1>5. T \ {x} \notin C
  <2> HIDE DEF C
  <2> QED  BY <1>2, <1>4, FS_CardinalityType
<1>6. Sum(f, T) = f[x] + Sum(f, T \ {x}) /\ f[x] = 0
  <2>1. \A y \in T : f[y] \in Int
    BY <1>4
  <2> QED  BY <1>4, <2>1, SumWithout
<1> QED  BY <1>4, <1>5, <1>6

(* One value changes: the sum changes by as much.                          *)
LEMMA SumUpdate ==
  ASSUME NEW f, NEW g, NEW S, IsFiniteSet(S), NEW y \in S, NEW k \in Int,
         \A x \in S : f[x] \in Int, g[y] = f[y] + k, \A x \in S \ {y} : g[x] = f[x]
  PROVE  Sum(g, S) = Sum(f, S) + k
<1>1. IsFiniteSet(S \ {y})
  BY WithoutIsSmaller
<1>2. Sum(g, S \ {y}) = Sum(f, S \ {y})
  BY <1>1, SumEqual
<1>3. \A x \in S : g[x] \in Int
  OBVIOUS
<1>4. Sum(g, S) = g[y] + Sum(g, S \ {y}) /\ Sum(f, S) = f[y] + Sum(f, S \ {y})
      /\ Sum(f, S \ {y}) \in Int
  BY <1>1, <1>3, SumWithout
<1> QED  BY <1>2, <1>4

(* Of values that are not negative, a part adds up to no more than all.    *)
LEMMA SumOfPart ==
  ASSUME NEW f, NEW S, IsFiniteSet(S), \A x \in S : f[x] \in Nat, NEW P \in SUBSET S
  PROVE  Sum(f, P) \in Nat /\ Sum(f, S) \in Nat /\ Sum(f, P) <= Sum(f, S)
<1> DEFINE Right(T) == Sum(f, T) \in Nat /\ Sum(f, P \cap T) \in Nat
                       /\ Sum(f, P \cap T) <= Sum(f, T)
           C == {T \in SUBSET S : ~ Right(T)}
<1>1. ASSUME C # {} PROVE FALSE
  <2>1. \A T \in C : IsFiniteSet(T)
    BY FS_Subset
  <2>2. PICK T \in C : \A U \in C : Cardinality(T) <= Cardinality(U)
    BY <1>1, <2>1, SmallestOf
  <2>3. Right({})
    BY EmptySum
  <2>4. PICK x \in T : TRUE
    <3> HIDE DEF Right
    <3> QED  BY <2>3
  <2>5. T \in SUBSET S /\ T \ {x} \in SUBSET S /\ IsFiniteSet(T) /\ IsFiniteSet(T \ {x})
        /\ Cardinality(T \ {x}) < Cardinality(T)
    BY <2>1, WithoutIsSmaller
  <2>6. T \ {x} \notin C
    <3> HIDE DEF C
    <3> QED  BY <2>2, <2>5, FS_CardinalityType
  <2>7. Right(T \ {x})
    <3> HIDE DEF Right
    <3> QED  BY <2>5, <2>6
  <2>8. \A y \in T : f[y] \in Int
    BY <2>5
  <2>9. Sum(f, T) = f[x] + Sum(f, T \ {x}) /\ f[x] \in Nat
    BY <2>5, <2>8, SumWithout
  <2>10. CASE x \in P
    <3>1. P \cap (T \ {x}) = (P \cap T) \ {x} /\ IsFiniteSet(P \cap T) /\ x \in P \cap T
      BY <2>5, <2>10, FS_Subset
    <3>2. Sum(f, P \cap T) = f[x] + Sum(f, (P \cap T) \ {x})
      BY <2>8, <3>1, SumWithout
    <3>3. Right(T)
      BY <2>7, <2>9, <3>1, <3>2
    <3> HIDE DEF Right
    <3> QED  BY <3>3
  <2>11. CASE x \notin P
    <3>1. P \cap (T \ {x}) = P \cap T
      BY <2>11
    <3>2. Right(T)
      BY <2>7, <2>9, <3>1
    <3> HIDE DEF Right
    <3> QED  BY <3>2
  <2> QED  BY <2>10, <2>11
<1>2. Right(S)
  <2> HIDE DEF Right
  <2> QED  BY <1>1
<1>3. P \cap S = P
  OBVIOUS
<1> QED  BY <1>2, <1>3

(* Values that count parts of a finite set which do not overlap add up to  *)
(* no more than the set has elements.                                      *)
LEMMA SumOfApart ==
  ASSUME NEW f, NEW part, NEW S, IsFiniteSet(S), NEW T, IsFiniteSet(T),
         \A x \in S : part[x] \subseteq T /\ f[x] \in Nat /\ f[x] <= Cardinality(part[x]),
         \A x, y \in S : x # y => part[x] \cap part[y] = {}
  PROVE  Sum(f, S) <= Cardinality(T)
<1> DEFINE Of(R) == UNION {part[x] : x \in R}
           Right(R) == Sum(f, R) <= Cardinality(Of(R))
           C == {R \in SUBSET S : ~ Right(R)}
<1>1. \A R \in SUBSET S : Of(R) \subseteq T /\ IsFiniteSet(Of(R)) /\ Cardinality(Of(R)) \in Nat
                          /\ Cardinality(Of(R)) <= Cardinality(T)
  <2> TAKE R \in SUBSET S
  <2>1. Of(R) \subseteq T
    OBVIOUS
  <2> HIDE DEF Of
  <2> QED  BY <2>1, FS_Subset, FS_CardinalityType
<1>2. ASSUME C # {} PROVE FALSE
  <2>1. \A R \in C : IsFiniteSet(R)
    BY FS_Subset
  <2>2. PICK R \in C : \A U \in C : Cardinality(R) <= Cardinality(U)
    <3> HIDE DEF C
    <3> QED  BY <1>2, <2>1, SmallestOf
  <2>3. Right({})
    <3>1. Of({}) = {}
      OBVIOUS
    <3> HIDE DEF Of
    <3> QED  BY <3>1, EmptySum, FS_EmptySet
  <2>4. PICK x \in R : TRUE
    <3> HIDE DEF Right
    <3> QED  BY <2>3
  <2> DEFINE W == R \ {x}
  <2>5. R \in SUBSET S /\ W \in SUBSET S /\ IsFiniteSet(R) /\ IsFiniteSet(W)
        /\ Cardinality(W) < Cardinality(R)
    BY <2>1, WithoutIsSmaller
  <2>6. Right(W)
    <3>1. W \notin C
      <4> HIDE DEF C
      <4> QED  BY <2>2, <2>5, FS_CardinalityType
    <3> HIDE DEF Right, W
    <3> QED  BY <2>5, <3>1
  <2>7. Of(R) = Of(W) \cup part[x] /\ Of(W) \cap part[x] = {} /\ part[x] \subseteq T
    BY <2>5
  <2>8. Sum(f, R) = f[x] + Sum(f, W) /\ f[x] \in Nat /\ f[x] <= Cardinality(part[x])
        /\ Sum(f, W) \in Int
    <3>1. \A y \in R : f[y] \in Int
      BY <2>5
    <3>2. \A y \in W : f[y] \in Int
      BY <2>5
    <3> QED  BY <2>5, <3>1, <3>2, SumWithout
  <2>9. Cardinality(Of(R)) = Cardinality(Of(W)) + Cardinality(part[x])
        /\ Cardinality(part[x]) \in Nat /\ Cardinality(Of(W)) \in Nat
    <3>1. IsFiniteSet(Of(W)) /\ IsFiniteSet(part[x])
      <4> HIDE DEF Of, W
      <4> QED  BY <1>1, <2>5, <2>7, FS_Subset
    <3> DEFINE A == Of(W)
               B == part[x]
    <3> HIDE DEF Of, W
    <3>2. Of(R) = A \cup B /\ A \cap B = {} /\ IsFiniteSet(A) /\ IsFiniteSet(B)
      BY <2>7, <3>1
    <3> HIDE DEF A, B
    <3>3. Cardinality(A \cup B) = Cardinality(A) + Cardinality(B) - Cardinality({})
      BY <3>2, FS_Union
    <3>4. Cardinality({}) = 0 /\ Cardinality(A) \in Nat /\ Cardinality(B) \in Nat
      BY <3>2, FS_EmptySet, FS_CardinalityType
    <3>5. Cardinality(Of(R)) = Cardinality(A) + Cardinality(B)
      BY <3>2, <3>3, <3>4
    <3> QED  BY <3>4, <3>5 DEF A, B
  <2>10. Right(R)
    <3> HIDE DEF Of, W
    <3> QED  BY <2>6, <2>8, <2>9
  <2> HIDE DEF Right
  <2> QED  BY <2>10
<1>3. Right(S)
  <2> HIDE DEF Right
  <2> QED  BY <1>2
<1>4. Sum(f, S) \in Int
  BY SumWithout
<1> HIDE DEF Of
<1> QED  BY <1>1, <1>3, <1>4, FS_CardinalityType
-----------------------------------------------------------------------------
(* A set of integers with an upper bound has a greatest element, which Max *)
(* returns.                                                                *)
LEMMA GreatestOf ==
  ASSUME NEW S \in SUBSET Int, S # {}, NEW hi \in Int, \A s \in S : s <= hi
  PROVE  Max(S) \in S /\ \A s \in S : s <= Max(S)
<1> DEFINE N == {hi - s : s \in S}
<1>1. N \in SUBSET Nat /\ N # {}
  <2>1. \A s \in S : hi - s \in Nat
    OBVIOUS
  <2> QED  BY <2>1
<1>2. PICK m \in N : \A n \in N : m <= n
  BY <1>1, LeastOf
<1>3. PICK x \in S : m = hi - x
  BY <1>2
<1>4. \A s \in S : hi - s \in N
  OBVIOUS
<1>5. \A s \in S : x >= s
  BY <1>2, <1>3, <1>4
<1> HIDE DEF N
<1>6. Max(S) \in S /\ \A s \in S : Max(S) >= s
  BY <1>5 DEF Max
<1> QED  BY <1>6

(* The smaller of two.                                                     *)
LEMMA MinOfTwo ==
  ASSUME NEW a \in Int, NEW b \in Int
  PROVE  Min({a, b}) = IF a <= b THEN a ELSE b
BY DEF Min

(* The greater of two.                                                     *)
LEMMA MaxOfTwo ==
  ASSUME NEW a \in Int, NEW b \in Int
  PROVE  Max({a, b}) = IF a <= b THEN b ELSE a
BY DEF Max

(* So has one that is finite.                                              *)
LEMMA GreatestOfFinite ==
  ASSUME NEW S \in SUBSET Int, S # {}, IsFiniteSet(S)
  PROVE  Max(S) \in S /\ \A s \in S : s <= Max(S)
<1> DEFINE C == {T \in SUBSET S : T # {} /\ ~ \E x \in T : \A s \in T : s <= x}
<1>1. ASSUME C # {} PROVE FALSE
  <2>1. \A T \in C : IsFiniteSet(T)
    BY FS_Subset
  <2>2. PICK T \in C : \A U \in C : Cardinality(T) <= Cardinality(U)
    BY <1>1, <2>1, SmallestOf
  <2>3. PICK x \in T : TRUE
    OBVIOUS
  <2>4. T \ {x} \notin C
    <3>1. Cardinality(T \ {x}) < Cardinality(T) /\ IsFiniteSet(T \ {x})
      BY <2>1, WithoutIsSmaller
    <3>2. Cardinality(T \ {x}) \in Nat /\ Cardinality(T) \in Nat
      BY <2>1, <3>1, FS_CardinalityType
    <3>3. T \ {x} \in C => Cardinality(T) <= Cardinality(T \ {x})
      BY <2>2
    <3> HIDE DEF C
    <3> QED  BY <3>1, <3>2, <3>3
  <2>5. CASE T \ {x} = {}
    BY <2>5
  <2>6. CASE T \ {x} # {}
    <3>1. PICK y \in T \ {x} : \A s \in T \ {x} : s <= y
      BY <2>4, <2>6
    <3>2. x \in Int /\ y \in Int
      OBVIOUS
    <3>3. IF x <= y THEN \A s \in T : s <= y ELSE \A s \in T : s <= x
      BY <3>1, <3>2
    <3> QED  BY <3>3
  <2> QED  BY <2>5, <2>6
<1>2. PICK x \in S : \A s \in S : s <= x
  BY <1>1
<1> QED  BY <1>2, GreatestOf

(* What Min returns of naturals.                                           *)
LEMMA LeastIsMin ==
  ASSUME NEW S \in SUBSET Nat, S # {}
  PROVE  Min(S) \in S /\ \A n \in S : Min(S) <= n
<1>1. PICK m \in S : \A n \in S : m <= n
  BY LeastOf
<1> QED  BY <1>1 DEF Min
-----------------------------------------------------------------------------
(* The loop of last_completed_height stops somewhere: for any heights seen *)
(* and failed there is a completed height.                                 *)
LEMMA CompletedExists ==
  ASSUME NEW p, p.start \in Nat, p.end \in Int, p.unmapped \in BOOLEAN
  PROVE  \E c \in {p.start - 1} \cup (p.start .. p.end) : IsLastCompleted(p, c)
<1>1. CASE p.unmapped
  BY <1>1 DEF IsLastCompleted
<1>2. CASE ~ p.unmapped
  <2> DEFINE Stops == {h \in Nat : h >= p.start /\ ~ (h <= p.end /\ Succeeded(p, h))}
  <2>1. Stops \in SUBSET Nat
    OBVIOUS
  <2>2. Stops # {}
    <3>1. CASE p.end < p.start
      BY <3>1, p.start \in Stops
    <3>2. CASE p.end >= p.start
      BY <3>2, p.end + 1 \in Stops
    <3> QED  BY <3>1, <3>2
  <2>3. PICK m \in Stops : \A n \in Stops : m <= n
    BY <2>1, <2>2, LeastOf
  <2>4. \A h \in p.start .. m - 1 : h <= p.end /\ Succeeded(p, h)
    <3> SUFFICES ASSUME NEW h \in p.start .. m - 1
                 PROVE  h <= p.end /\ Succeeded(p, h)
      OBVIOUS
    <3>1. h \in Nat /\ h >= p.start /\ h < m
      BY <2>3
    <3>2. h \notin Stops
      BY <2>3, <3>1
    <3> QED  BY <3>1, <3>2
  <2>5. m - 1 \in {p.start - 1} \cup (p.start .. p.end)
    <3>1. CASE m = p.start
      BY <3>1
    <3>2. CASE m # p.start
      <4>1. m \in Nat /\ m > p.start /\ m - 1 \in p.start .. m - 1
        BY <2>3, <3>2
      <4> QED  BY <2>4, <4>1
    <3> QED  BY <3>1, <3>2
  <2>6. m \in p.start .. p.end => ~ Succeeded(p, m)
    BY <2>3
  <2>7. (m - 1) + 1 = m
    BY <2>3
  <2> HIDE DEF Stops
  <2>8. IsLastCompleted(p, m - 1)
    BY <1>2, <2>4, <2>5, <2>6, <2>7 DEF IsLastCompleted
  <2> QED  BY <2>5, <2>8
<1> QED  BY <1>1, <1>2

(* The property last_completed_height returns a height the loop can stop   *)
(* at, and it is the only one: the relation used by the other modules and  *)
(* the value the source computes are the same.                             *)
THEOREM LastCompletedWellDefined ==
  ASSUME NEW p, p.start \in Nat, p.end \in Int, p.unmapped \in BOOLEAN
  PROVE  /\ IsLastCompleted(p, LastCompletedHeight(p))
         /\ LastCompletedHeight(p) \in {p.start - 1} \cup (p.start .. p.end)
         /\ \A c : IsLastCompleted(p, c) => c = LastCompletedHeight(p)
<1> DEFINE R == {p.start - 1} \cup (p.start .. p.end)
<1> DEFINE d == LastCompletedHeight(p)
<1>1. IsLastCompleted(p, d) /\ d \in R
  BY CompletedExists DEF LastCompletedHeight
<1>2. ASSUME NEW c, IsLastCompleted(p, c)
      PROVE  c = d
  <2>1. CASE p.unmapped
    BY <1>1, <1>2, <2>1 DEF IsLastCompleted
  <2>2. CASE ~ p.unmapped
    <3>1. c \in R
      BY <1>2, <2>2 DEF IsLastCompleted
    <3> HIDE DEF d
    <3>2. ~ (c < d)
      <4> SUFFICES ASSUME c < d PROVE FALSE
        OBVIOUS
      <4>1. c + 1 \in p.start .. d /\ c + 1 \in p.start .. p.end
        BY <1>1, <3>1
      <4> QED  BY <1>1, <1>2, <2>2, <4>1 DEF IsLastCompleted
    <3>3. ~ (d < c)
      <4> SUFFICES ASSUME d < c PROVE FALSE
        OBVIOUS
      <4>1. d + 1 \in p.start .. c /\ d + 1 \in p.start .. p.end
        BY <1>1, <3>1
      <4> QED  BY <1>1, <1>2, <2>2, <4>1 DEF IsLastCompleted
    <3> QED  BY <1>1, <3>1, <3>2, <3>3
  <2> QED  BY <2>1, <2>2
<1> QED  BY <1>1, <1>2

(* The mark methods keep the batch and record only heights of the batch.   *)
LEMMA MarksKeepBatch ==
  ASSUME NEW s \in Nat, NEW e \in Int, NEW p \in ProgressOf(s, e), NEW h
  PROVE  MarkSeen(p, h) \in ProgressOf(s, e) /\ MarkFailed(p, h) \in ProgressOf(s, e)
BY DEF ProgressOf, MarkSeen, MarkFailed, Contains
=============================================================================
