---------------------------- MODULE HsArrayProofs ----------------------------
(***************************************************************************)
(* What the operations on arrays do, for every set of ids and every array. *)
(***************************************************************************)
EXTENDS HsArray, FiniteSetTheorems, TLAPS

\* Arrays over the ids S.
Arrays(S) == [S -> Nat \cup {Absent}]

\* Counting: elements of distinct indices in a..b are at most b-a+1.
LEMMA CountRange ==
  ASSUME NEW E, NEW f, NEW a \in Int, NEW b \in Int,
         \A e \in E : f[e] \in a..b,
         \A d, e \in E : f[d] = f[e] => d = e
  PROVE  /\ IsFiniteSet(E)
         /\ Cardinality(E) \in Nat
         /\ a <= b + 1 => Cardinality(E) <= b - a + 1
<1> DEFINE g == [e \in E |-> f[e]]
<1>1. g \in Injection(E, a..b)
  BY DEF Injection, IsInjective
<1>2. IsFiniteSet(a..b) /\ Cardinality(a..b) = IF a > b THEN 0 ELSE b-a+1
  BY FS_Interval
<1>3. IsFiniteSet(E) /\ Cardinality(E) <= Cardinality(a..b)
  <2> HIDE DEF g
  <2> QED BY <1>1, <1>2, FS_Injection
<1>4. Cardinality(E) \in Nat
  BY <1>3, FS_CardinalityType
<1> QED
  BY <1>2, <1>3, <1>4

\* A live id is one with an index.
LEMMA LiveIndex ==
  ASSUME NEW S, NEW at \in Arrays(S)
  PROVE  /\ Live(at) \subseteq S
         /\ \A x \in S : x \in Live(at) <=> at[x] \in Nat
         /\ \A x \in S : x \in Live(at) <=> at[x] # Absent
BY DEF Live, Arrays, Absent

\* push gives the new element the next index and leaves the others alone.
LEMMA PushElements ==
  ASSUME NEW S, NEW at \in Arrays(S), Dense(at), NEW x \in S
  PROVE  /\ Push(at, x) \in Arrays(S)
         /\ Live(Push(at, x)) = Live(at) \cup {x}
         /\ Push(at, x)[x] = Cardinality(Live(at))
         /\ \A y \in S \ {x} : Push(at, x)[y] = at[y]
<1>1. Cardinality(Live(at)) \in Nat
  BY FS_CardinalityType DEF Dense
<1>2. Push(at, x) \in Arrays(S)
  BY <1>1 DEF Push, Arrays
<1>3. /\ Push(at, x)[x] = Cardinality(Live(at))
      /\ \A y \in S \ {x} : Push(at, x)[y] = at[y]
  BY DEF Push, Arrays
<1> QED
  BY <1>1, <1>2, <1>3, LiveIndex DEF Absent

\* push of a new element keeps an array an array.
LEMMA PushDense ==
  ASSUME NEW S, NEW at \in Arrays(S), Dense(at), NEW x \in S, x \notin Live(at)
  PROVE  Dense(Push(at, x))
<1>1. IsFiniteSet(Live(at)) /\ Cardinality(Live(at)) \in Nat
  BY FS_CardinalityType DEF Dense
<1>2. /\ IsFiniteSet(Live(at) \cup {x})
      /\ Cardinality(Live(at) \cup {x}) = Cardinality(Live(at)) + 1
  BY <1>1, FS_AddElement
<1>3. /\ Live(Push(at, x)) = Live(at) \cup {x}
      /\ Push(at, x)[x] = Cardinality(Live(at))
      /\ \A y \in S \ {x} : Push(at, x)[y] = at[y]
  BY PushElements
<1>4. Live(at) \subseteq S
  BY LiveIndex
<1>5. \A y \in Live(at) : Push(at, x)[y] = at[y] /\ at[y] \in 0..(Cardinality(Live(at)) - 1)
  BY <1>3, <1>4 DEF Dense
<1>6. \A y \in Live(Push(at, x)) : Push(at, x)[y] \in 0..(Cardinality(Live(Push(at, x))) - 1)
  BY <1>1, <1>2, <1>3, <1>5
<1>7. \A y, z \in Live(Push(at, x)) : Push(at, x)[y] = Push(at, x)[z] => y = z
  BY <1>1, <1>3, <1>5 DEF Dense
<1> QED
  BY <1>2, <1>3, <1>6, <1>7 DEF Dense

\* Of the elements removed, as many stand before index at[y] as there is room
\* for, and a later survivor has no more of them between it and y than indices.
LEMMA BeforeBounds ==
  ASSUME NEW S, NEW at \in Arrays(S), Dense(at), NEW D \in SUBSET Live(at),
         NEW y \in Live(at) \ D
  PROVE  /\ Before(at, D, y) \in 0..at[y]
         /\ Cardinality(D) \in Nat
         /\ Cardinality(D) - Before(at, D, y) <= Cardinality(Live(at)) - 1 - at[y]
         /\ \A z \in Live(at) \ D : at[y] < at[z] =>
              Before(at, D, z) - Before(at, D, y) <= at[z] - at[y] - 1
<1> DEFINE B(z) == {d \in D : at[d] < at[z]}
           n == Cardinality(Live(at))
<1>1. IsFiniteSet(D) /\ Cardinality(D) \in Nat /\ n \in Nat
  BY FS_Subset, FS_CardinalityType DEF Dense
<1>2. \A x \in Live(at) : at[x] \in Nat /\ at[x] \in 0..(n - 1)
  BY LiveIndex DEF Dense
<1>3. \A z \in Live(at) : IsFiniteSet(B(z)) /\ Cardinality(B(z)) \in Nat
  <2> TAKE z \in Live(at)
  <2>1. B(z) \in SUBSET D
    OBVIOUS
  <2> QED BY <1>1, <2>1, FS_Subset, FS_CardinalityType
<1>4. Cardinality(B(y)) <= at[y]
  <2> DEFINE E == B(y)
             a == 0
             b == at[y] - 1
  <2>1. \A e \in E : at[e] \in a..b
    BY <1>2
  <2>2. \A d, e \in E : at[d] = at[e] => d = e
    BY DEF Dense
  <2>3. a \in Int /\ b \in Int /\ a <= b + 1
    BY <1>2
  <2> HIDE DEF E, a, b
  <2>4. Cardinality(E) <= b - a + 1 /\ Cardinality(E) \in Nat
    BY <2>1, <2>2, <2>3, CountRange
  <2>5. Cardinality(E) <= at[y]
    BY <1>2, <2>4 DEF a, b
  <2> QED BY <2>5 DEF E
<1>5. Cardinality(D) - Cardinality(B(y)) <= n - 1 - at[y]
  <2> DEFINE A == D \ B(y)
  <2>1. \A e \in A : at[e] \in (at[y] + 1)..(n - 1)
    <3> TAKE e \in A
    <3>1. at[e] # at[y]
      BY DEF Dense
    <3> QED BY <1>1, <1>2, <3>1
  <2>2. \A d, e \in A : at[d] = at[e] => d = e
    BY DEF Dense
  <2>3. Cardinality(A) = Cardinality(D) - Cardinality(D \cap B(y))
    BY <1>1, FS_Difference
  <2>4. D \cap B(y) = B(y)
    OBVIOUS
  <2>5. at[y] + 1 \in Int /\ n - 1 \in Int /\ at[y] + 1 <= (n - 1) + 1
    BY <1>1, <1>2
  <2> HIDE DEF A
  <2>6. Cardinality(A) <= (n - 1) - (at[y] + 1) + 1
    BY <2>1, <2>2, <2>5, CountRange
  <2> HIDE DEF B, n
  <2> QED BY <1>1, <1>2, <1>3, <2>3, <2>4, <2>6
<1>6. ASSUME NEW z \in Live(at) \ D, at[y] < at[z]
      PROVE  Cardinality(B(z)) - Cardinality(B(y)) <= at[z] - at[y] - 1
  <2> DEFINE A == B(z) \ B(y)
  <2>1. \A e \in A : at[e] \in (at[y] + 1)..(at[z] - 1)
    <3> TAKE e \in A
    <3>1. at[e] # at[y]
      BY DEF Dense
    <3> QED BY <1>2, <3>1
  <2>2. \A d, e \in A : at[d] = at[e] => d = e
    BY DEF Dense
  <2>3. Cardinality(A) = Cardinality(B(z)) - Cardinality(B(z) \cap B(y))
    BY <1>3, FS_Difference
  <2>4. B(z) \cap B(y) = B(y)
    BY <1>2, <1>6
  <2>5. at[y] + 1 \in Int /\ at[z] - 1 \in Int /\ at[y] + 1 <= (at[z] - 1) + 1
    BY <1>2, <1>6
  <2> HIDE DEF A
  <2>6. Cardinality(A) <= (at[z] - 1) - (at[y] + 1) + 1
    BY <2>1, <2>2, <2>5, CountRange
  <2>7. Cardinality(A) = Cardinality(B(z)) - Cardinality(B(y))
    BY <2>3, <2>4
  <2>8. at[y] \in Nat /\ at[z] \in Nat /\ Cardinality(B(z)) \in Nat /\ Cardinality(B(y)) \in Nat
    BY <1>2, <1>3
  <2> HIDE DEF B, n
  <2> QED BY <2>6, <2>7, <2>8
<1>7. \A z : Before(at, D, z) = Cardinality(B(z))
  BY DEF Before
<1> HIDE DEF B, n
<1>8. Before(at, D, y) \in 0..at[y]
  BY <1>2, <1>3, <1>4, <1>7
<1>9. Cardinality(D) - Before(at, D, y) <= Cardinality(Live(at)) - 1 - at[y]
  BY <1>5, <1>7 DEF n
<1> QED
  BY <1>1, <1>6, <1>7, <1>8, <1>9

\* Removal takes the ids of D out; no element left moves up.
LEMMA DropElements ==
  ASSUME NEW S, NEW at \in Arrays(S), Dense(at), NEW D \in SUBSET Live(at)
  PROVE  /\ Drop(at, D) \in Arrays(S)
         /\ Live(Drop(at, D)) = Live(at) \ D
         /\ \A x \in Live(at) \ D : Drop(at, D)[x] = at[x] - Before(at, D, x)
         /\ \A x \in Live(at) \ D : Drop(at, D)[x] <= at[x]
<1>1. \A x \in S : x \in Live(at) <=> at[x] # Absent
  BY LiveIndex
<1>2. \A x \in Live(at) : x \in S /\ at[x] \in Nat
  BY LiveIndex
<1>3. DOMAIN at = S
  BY DEF Arrays
<1>4. \A x \in Live(at) \ D : Before(at, D, x) \in 0..at[x]
  BY BeforeBounds
<1>5. \A x \in Live(at) \ D : Drop(at, D)[x] = at[x] - Before(at, D, x)
  BY <1>1, <1>2, <1>3 DEF Drop
<1>6. \A x \in S : x \notin Live(at) \ D => Drop(at, D)[x] = Absent
  BY <1>1, <1>3 DEF Drop
<1>7. \A x \in Live(at) \ D : Drop(at, D)[x] \in Nat /\ Drop(at, D)[x] <= at[x]
  BY <1>2, <1>4, <1>5
<1>8. Drop(at, D) = [x \in S |-> Drop(at, D)[x]]
  BY <1>3 DEF Drop
<1>9. Drop(at, D) \in Arrays(S)
  BY <1>2, <1>6, <1>7, <1>8 DEF Arrays
<1>10. Live(Drop(at, D)) = Live(at) \ D
  BY <1>2, <1>6, <1>7, <1>9, LiveIndex DEF Absent
<1> QED
  BY <1>5, <1>7, <1>9, <1>10

\* Removal keeps an array an array: the gaps are closed, the order is kept.
LEMMA DropDense ==
  ASSUME NEW S, NEW at \in Arrays(S), Dense(at), NEW D \in SUBSET Live(at)
  PROVE  Dense(Drop(at, D))
<1> DEFINE n == Cardinality(Live(at))
           L == Live(at) \ D
<1>1. IsFiniteSet(Live(at)) /\ n \in Nat /\ IsFiniteSet(D) /\ Cardinality(D) \in Nat
  BY FS_CardinalityType, FS_Subset DEF Dense
<1>2. IsFiniteSet(L) /\ Cardinality(L) = n - Cardinality(D)
  <2>1. Live(at) \cap D = D
    OBVIOUS
  <2> QED BY <1>1, <2>1, FS_Difference
<1>3. /\ Live(Drop(at, D)) = L
      /\ \A x \in L : Drop(at, D)[x] = at[x] - Before(at, D, x)
  BY DropElements
<1>4. \A x \in L : at[x] \in Nat
  BY LiveIndex
<1>5. \A x \in L : /\ Before(at, D, x) \in 0..at[x]
                   /\ Cardinality(D) - Before(at, D, x) <= n - 1 - at[x]
  BY BeforeBounds
<1>6. \A x, z \in L : at[x] < at[z] => Before(at, D, z) - Before(at, D, x) <= at[z] - at[x] - 1
  BY BeforeBounds
<1>7. \A x, z \in L : at[x] = at[z] => x = z
  BY DEF Dense
<1> HIDE DEF n, L
<1>8. \A x \in L : Drop(at, D)[x] \in 0..(Cardinality(L) - 1)
  BY <1>1, <1>2, <1>3, <1>4, <1>5
<1>9. \A x, z \in L : at[x] < at[z] => Drop(at, D)[x] < Drop(at, D)[z]
  BY <1>3, <1>4, <1>5, <1>6
<1>10. \A x, z \in L : Drop(at, D)[x] = Drop(at, D)[z] => x = z
  <2> TAKE x \in L, z \in L
  <2>1. at[x] < at[z] \/ at[z] < at[x] \/ at[x] = at[z]
    BY <1>4
  <2>2. Drop(at, D)[x] \in Int /\ Drop(at, D)[z] \in Int
    BY <1>2, <1>8
  <2> QED BY <1>7, <1>9, <2>1, <2>2
<1> QED
  BY <1>2, <1>3, <1>8, <1>10 DEF Dense

\* Every index of an array that is not empty is that of an element.
LEMMA IndexTaken ==
  ASSUME NEW S, NEW at \in Arrays(S), Dense(at), Live(at) # {}
  PROVE  /\ Cardinality(Live(at)) \in Nat \ {0}
         /\ \A i \in 0..(Cardinality(Live(at)) - 1) : \E x \in Live(at) : at[x] = i
<1> DEFINE n == Cardinality(Live(at))
           f == [x \in Live(at) |-> at[x]]
<1>1. IsFiniteSet(Live(at)) /\ n \in Nat
  BY FS_CardinalityType DEF Dense
<1>2. n # 0
  BY <1>1, FS_EmptySet
<1>3. f \in Injection(Live(at), 0..(n - 1))
  BY DEF Dense, Injection, IsInjective
<1>4. IsFiniteSet(0..(n - 1)) /\ Cardinality(0..(n - 1)) = n
  <2>1. /\ IsFiniteSet(0..(n - 1))
        /\ Cardinality(0..(n - 1)) = IF 0 > n - 1 THEN 0 ELSE (n - 1) - 0 + 1
    BY <1>1, FS_Interval
  <2> HIDE DEF n
  <2> QED BY <1>1, <1>2, <2>1
<1>5. f \in Surjection(Live(at), 0..(n - 1))
  <2> HIDE DEF f
  <2> QED BY <1>1, <1>3, <1>4, FS_Injection
<1>6. \A i \in 0..(n - 1) : \E x \in Live(at) : at[x] = i
  BY <1>5 DEF Surjection
<1> QED
  BY <1>1, <1>2, <1>6

\* A lookup in an array that is not empty returns one of its elements.
LEMMA LookupLive ==
  ASSUME NEW S, NEW at \in Arrays(S), Dense(at), Live(at) # {}, NEW id
  PROVE  /\ Lookup(at, id) \in Live(at)
         /\ id \notin Live(at) => at[Lookup(at, id)] = 0
<1>1. \E x \in Live(at) : at[x] = 0
  BY IndexTaken
<1> QED
  BY <1>1 DEF Lookup

\* Counting gives the elements of a part D of an array places of their own, in
\* the order of the array.
LEMMA BeforeOrder ==
  ASSUME NEW S, NEW at \in Arrays(S), Dense(at), NEW D \in SUBSET Live(at)
  PROVE  /\ IsFiniteSet(D) /\ Cardinality(D) \in Nat
         /\ \A x \in D : Before(at, D, x) \in 0..(Cardinality(D) - 1)
         /\ \A x, y \in D : at[x] < at[y] => Before(at, D, x) < Before(at, D, y)
         /\ \A x, y \in D : Before(at, D, x) = Before(at, D, y) => x = y
<1> DEFINE B(z) == {d \in D : at[d] < at[z]}
<1>1. IsFiniteSet(D) /\ Cardinality(D) \in Nat
  BY FS_Subset, FS_CardinalityType DEF Dense
<1>2. \A x \in D : at[x] \in Nat
  BY LiveIndex
<1>3. \A x \in D : /\ IsFiniteSet(B(x)) /\ Cardinality(B(x)) \in Nat
                   /\ IsFiniteSet(B(x) \cup {x})
                   /\ Cardinality(B(x) \cup {x}) = Cardinality(B(x)) + 1
  <2> TAKE x \in D
  <2>1. B(x) \in SUBSET D /\ x \notin B(x)
    BY <1>2
  <2> HIDE DEF B
  <2>2. IsFiniteSet(B(x)) /\ Cardinality(B(x)) \in Nat
    BY <1>1, <2>1, FS_Subset, FS_CardinalityType
  <2> QED BY <2>1, <2>2, FS_AddElement
<1>4. \A x \in D : Cardinality(B(x)) + 1 <= Cardinality(D)
  <2> TAKE x \in D
  <2>1. B(x) \cup {x} \in SUBSET D
    OBVIOUS
  <2> HIDE DEF B
  <2>2. Cardinality(B(x) \cup {x}) <= Cardinality(D)
    BY <1>1, <2>1, FS_Subset
  <2> QED BY <1>3, <2>2
<1>5. ASSUME NEW x \in D, NEW y \in D, at[x] < at[y]
      PROVE  Cardinality(B(x)) < Cardinality(B(y))
  <2>1. B(x) \cup {x} \in SUBSET B(y)
    BY <1>2, <1>5
  <2> HIDE DEF B
  <2>2. Cardinality(B(x) \cup {x}) <= Cardinality(B(y))
    BY <1>3, <2>1, FS_Subset
  <2>3. /\ Cardinality(B(x)) \in Nat /\ Cardinality(B(y)) \in Nat
        /\ Cardinality(B(x) \cup {x}) = Cardinality(B(x)) + 1
    BY <1>3
  <2> QED BY <2>2, <2>3
<1>6. \A x : Before(at, D, x) = Cardinality(B(x))
  BY DEF Before
<1> HIDE DEF B
<1>7. \A x \in D : Before(at, D, x) \in 0..(Cardinality(D) - 1)
  <2> TAKE x \in D
  <2> DEFINE n == Cardinality(D)
             b == Cardinality(B(x))
  <2>1. n \in Nat /\ b \in Nat /\ b + 1 <= n /\ Before(at, D, x) = b
    BY <1>1, <1>3, <1>4, <1>6
  <2> HIDE DEF n, b
  <2>2. Before(at, D, x) \in 0..(n - 1)
    BY <2>1
  <2> QED BY <2>2 DEF n
<1>8. \A x, y \in D : at[x] < at[y] => Before(at, D, x) < Before(at, D, y)
  BY <1>5, <1>6
<1>9. \A x, y \in D : Before(at, D, x) = Before(at, D, y) => x = y
  <2> TAKE x \in D, y \in D
  <2>1. at[x] = at[y] => x = y
    BY DEF Dense
  <2>2. Before(at, D, x) \in Int /\ Before(at, D, y) \in Int
    BY <1>1, <1>7
  <2> QED BY <1>2, <1>8, <2>1, <2>2
<1> QED
  BY <1>1, <1>7, <1>8, <1>9

\* No place is left out.
LEMMA PlacesTaken ==
  ASSUME NEW S, NEW at \in Arrays(S), Dense(at), NEW D \in SUBSET Live(at),
         NEW i \in 0..(Cardinality(D) - 1)
  PROVE  \E x \in D : Before(at, D, x) = i
<1> DEFINE n == Cardinality(D)
           f == [x \in D |-> Before(at, D, x)]
<1>1. IsFiniteSet(D) /\ n \in Nat /\ n # 0
  BY BeforeOrder
<1>2. f \in Injection(D, 0..(n - 1))
  <2>1. /\ \A x \in D : Before(at, D, x) \in 0..(n - 1)
        /\ \A x, y \in D : Before(at, D, x) = Before(at, D, y) => x = y
    BY BeforeOrder
  <2> HIDE DEF n
  <2>2. f \in [D -> 0..(n - 1)]
    BY <2>1
  <2>3. \A x, y \in D : f[x] = f[y] => x = y
    BY <2>1
  <2> HIDE DEF f
  <2> QED BY <2>2, <2>3 DEF Injection, IsInjective
<1>3. IsFiniteSet(0..(n - 1)) /\ Cardinality(0..(n - 1)) = n
  <2> HIDE DEF n
  <2>1. n - 1 \in Int /\ 0 \in Int
    BY <1>1
  <2>2. /\ IsFiniteSet(0..(n - 1))
        /\ Cardinality(0..(n - 1)) = IF 0 > n - 1 THEN 0 ELSE (n - 1) - 0 + 1
    BY ONLY <2>1, FS_Interval
  <2> QED BY ONLY <1>1, <2>2
<1>4. f \in Surjection(D, 0..(n - 1))
  <2> HIDE DEF f
  <2> QED BY <1>1, <1>2, <1>3, FS_Injection
<1>5. \E x \in D : f[x] = i
  <2> HIDE DEF f
  <2> QED BY <1>4 DEF Surjection
<1> QED
  BY <1>5

\* A part of an array that is not empty has a first element and a last one.
LEMMA Ends ==
  ASSUME NEW S, NEW at \in Arrays(S), Dense(at), NEW D \in SUBSET Live(at), D # {}
  PROVE  /\ \E x \in D : \A y \in D : at[x] <= at[y]
         /\ \E x \in D : \A y \in D : at[y] <= at[x]
<1> DEFINE n == Cardinality(D)
<1>1. IsFiniteSet(D) /\ n \in Nat /\ n # 0
  BY BeforeOrder, FS_EmptySet
<1>2. 0 \in 0..(n - 1) /\ n - 1 \in 0..(n - 1)
  <2> HIDE DEF n
  <2> QED BY <1>1
<1>3. /\ \E x \in D : Before(at, D, x) = 0
      /\ \E x \in D : Before(at, D, x) = n - 1
  BY <1>2, PlacesTaken
<1>4. \A y \in D : at[y] \in Nat /\ Before(at, D, y) \in 0..(n - 1)
  BY LiveIndex, BeforeOrder
<1>5. \A x, y \in D : at[x] < at[y] => Before(at, D, x) < Before(at, D, y)
  BY BeforeOrder
<1> HIDE DEF n
<1>6. ASSUME NEW x \in D, Before(at, D, x) = 0
      PROVE  \A y \in D : at[x] <= at[y]
  <2> TAKE y \in D
  <2>1. ~ Before(at, D, y) < Before(at, D, x)
    BY <1>1, <1>4, <1>6
  <2> QED BY <1>4, <1>5, <2>1
<1>7. ASSUME NEW x \in D, Before(at, D, x) = n - 1
      PROVE  \A y \in D : at[y] <= at[x]
  <2> TAKE y \in D
  <2>1. ~ Before(at, D, x) < Before(at, D, y)
    BY <1>1, <1>4, <1>7
  <2> QED BY <1>4, <1>5, <2>1
<1> QED
  BY <1>3, <1>6, <1>7
==============================================================================
