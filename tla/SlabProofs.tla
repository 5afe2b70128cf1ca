----------------------------- MODULE SlabProofs -----------------------------
(***************************************************************************)
(* FreeChain, ListedIffPartial and StatsAgree for any number of slabs and  *)
(* allocators and any number of objects to a slab.  What makes the first   *)
(* two inductive is that a slab in use is never in the page allocator's    *)
(* pool and that its count stays below the number of its objects; the      *)
(* counters are compared with a sum over the slabs of each allocator.      *)
(***************************************************************************)
EXTENDS Kmalloc, FiniteSetTheorems, TLAPS

-----------------------------------------------------------------------------
(* Sums over finite sets. *)

\* A family of subsets of a finite set that is not empty has a member with no other
\* member inside it.
LEMMA LeastSubset ==
  ASSUME NEW S, IsFiniteSet(S), NEW F \in SUBSET SUBSET S, F # {}
  PROVE  \E T \in F : \A U \in F : U \subseteq T => U = T
  <1>1. IsWellFoundedOn(StrictSubsetOrdering(S), SUBSET S)
    BY FS_StrictSubsetOrderingWellFounded, FS_FiniteSubsetsOfFinite, Zenon
  <1>2. PICK T \in F : \A U \in F : ~(<<U, T>> \in StrictSubsetOrdering(S))
    BY <1>1, WFMin
  <1>3. ASSUME NEW U \in F, U \subseteq T, U # T PROVE FALSE
    <2>1. <<U, T>> \in StrictSubsetOrdering(S)
      BY <1>3 DEF StrictSubsetOrdering
    <2> QED BY <1>2, <2>1
  <1> QED BY <1>3

SumOf(g, S) == MapThenSumSet(LAMBDA s : g[s], S)

\* m measures the subsets of S by adding up g.
Measures(m, g, S) ==
  /\ m \in [SUBSET S -> Nat] /\ m[{}] = 0
  /\ \A T \in SUBSET S : \A x \in S \ T : m[T \cup {x}] = m[T] + g[x]

\* Every g has a measure.
LEMMA MeasureExists ==
  ASSUME NEW S, IsFiniteSet(S), NEW g, \A x \in S : g[x] \in Nat
  PROVE  \E m : Measures(m, g, S)
  <1> DEFINE F == {T \in SUBSET S : ~\E m : Measures(m, g, T)}
  <1> SUFFICES ASSUME F # {} PROVE FALSE
    OBVIOUS
  <1>1. PICK T \in F : \A U \in F : U \subseteq T => U = T
    <2> HIDE DEF F
    <2>1. F \in SUBSET SUBSET S
      BY DEF F
    <2> QED BY <2>1, LeastSubset
  <1>2. CASE T = {}
    <2> DEFINE m == [s \in SUBSET T |-> 0]
    <2>1. Measures(m, g, T)
      BY <1>2 DEF Measures
    <2> QED BY <2>1
  <1>3. ASSUME NEW x \in T PROVE FALSE
    <2>1. T \ {x} \notin F /\ T \ {x} \in SUBSET S
      BY <1>1
    <2>2. PICK k : Measures(k, g, T \ {x})
      BY <2>1
    <2> DEFINE m == [s \in SUBSET T |-> k[s \ {x}] + (IF x \in s THEN g[x] ELSE 0)]
    <2>3. g[x] \in Nat /\ \A s \in SUBSET T : k[s \ {x}] \in Nat
      BY <2>2 DEF Measures
    <2>4. m \in [SUBSET T -> Nat]
      BY <2>3
    <2>5. m[{}] = 0
      <3>1. {} \ {x} = {} /\ {} \in SUBSET T
        OBVIOUS
      <3> QED BY <2>2, <3>1 DEF Measures
    <2>6. ASSUME NEW U \in SUBSET T, NEW y \in T \ U
          PROVE  m[U \cup {y}] = m[U] + g[y]
      <3>1. U \cup {y} \in SUBSET T
        OBVIOUS
      <3>2. k[U \ {x}] \in Nat /\ g[x] \in Nat /\ g[y] \in Nat
        BY <2>3
      <3>3. CASE y = x
        <4>1. (U \cup {y}) \ {x} = U /\ U \ {x} = U
          BY <3>3
        <4>2. m[U \cup {y}] = k[U] + g[x] /\ m[U] = k[U] + 0
          BY <3>1, <3>3, <4>1
        <4> QED BY <3>2, <3>3, <4>1, <4>2
      <3>4. CASE y # x
        <4>1. (U \cup {y}) \ {x} = (U \ {x}) \cup {y} /\ y \in (T \ {x}) \ (U \ {x})
          BY <3>4
        <4>2. k[(U \ {x}) \cup {y}] = k[U \ {x}] + g[y]
          BY <2>2, <4>1, Zenon DEF Measures
        <4>3. x \in U \cup {y} <=> x \in U
          BY <3>4
        <4>4. m[U \cup {y}] = k[U \ {x}] + g[y] + (IF x \in U THEN g[x] ELSE 0)
          BY <3>1, <4>1, <4>2, <4>3
        <4> QED BY <3>2, <4>4
      <3> QED BY <3>3, <3>4
    <2>7. Measures(m, g, T)
      <3> HIDE DEF m
      <3> QED BY <2>4, <2>5, <2>6 DEF Measures
    <2> QED BY <2>7
  <1> QED BY <1>2, <1>3

\* The fold of MapThenSumSet is the measure of the whole set.
LEMMA SumIsMeasure ==
  ASSUME NEW S, IsFiniteSet(S), NEW g, \A x \in S : g[x] \in Nat, NEW m, Measures(m, g, S)
  PROVE  SumOf(g, S) = m[S]
  <1> DEFINE Sums(h) == h = [s \in SUBSET S |-> IF s = {} THEN 0
                                                ELSE LET x == CHOOSE x \in s : TRUE
                                                     IN  g[x] + h[s \ {x}]]
             iter == CHOOSE h : Sums(h)
  <1>1. SumOf(g, S) = iter[S]
    BY DEF SumOf, MapThenSumSet, MapThenFoldSet
  <1>2. \A T \in SUBSET S : IsFiniteSet(T)
    BY FS_Subset
  <1>3. Sums(m)
    <2>1. \A s \in SUBSET S : m[s] = IF s = {} THEN 0
                                     ELSE LET x == CHOOSE x \in s : TRUE IN g[x] + m[s \ {x}]
      <3> TAKE s \in SUBSET S
      <3>1. CASE s = {}
        BY <3>1 DEF Measures
      <3>2. CASE s # {}
        <4> DEFINE x == CHOOSE x \in s : TRUE
        <4>1. x \in s
          BY <3>2
        <4> HIDE DEF x
        <4>2. s \ {x} \in SUBSET S /\ x \in S \ (s \ {x}) /\ (s \ {x}) \cup {x} = s
          BY <4>1
        <4>3. m[s] = m[s \ {x}] + g[x]
          BY <4>2, Zenon DEF Measures
        <4>4. m[s] = g[x] + m[s \ {x}]
          BY <4>1, <4>2, <4>3 DEF Measures
        <4> QED BY <3>2, <4>4 DEF x
      <3> QED BY <3>1, <3>2
    <2>2. m = [s \in SUBSET S |-> m[s]]
      BY DEF Measures
    <2> QED BY <2>1, <2>2, Zenon
  <1> HIDE DEF Sums
  <1>4. Sums(iter)
    BY <1>3
  <1> HIDE DEF iter
  <1>5. \A s \in SUBSET S : iter[s] = m[s]
    <2> DEFINE F == {s \in SUBSET S : iter[s] # m[s]}
    <2> SUFFICES ASSUME F # {} PROVE FALSE
      OBVIOUS
    <2>1. PICK s \in F : \A U \in F : U \subseteq s => U = s
      <3> HIDE DEF F
      <3>1. F \in SUBSET SUBSET S
        BY DEF F
      <3> QED BY <3>1, LeastSubset
    <2>2. CASE s = {}
      BY <1>3, <1>4, <2>2 DEF Sums
    <2>3. CASE s # {}
      <3> DEFINE x == CHOOSE x \in s : TRUE
      <3>1. x \in s
        BY <2>3
      <3>2. /\ iter[s] = g[x] + iter[s \ {x}]
            /\ m[s] = g[x] + m[s \ {x}]
        BY <1>3, <1>4, <2>3 DEF Sums
      <3> HIDE DEF x
      <3>3. s \ {x} \in SUBSET S /\ s \ {x} \notin F
        BY <2>1, <3>1
      <3>4. iter[s \ {x}] = m[s \ {x}]
        BY <3>3
      <3> QED BY <3>2, <3>4
    <2> QED BY <2>2, <2>3
  <1> QED BY <1>1, <1>5

\* The empty sum, and a sum with one more term.
LEMMA SumEmpty ==
  ASSUME NEW g
  PROVE  SumOf(g, {}) = 0
  <1>1. IsFiniteSet({})
    BY FS_EmptySet
  <1>2. PICK m : Measures(m, g, {})
    BY <1>1, MeasureExists
  <1> QED BY <1>1, <1>2, SumIsMeasure DEF Measures

\* The sum over a set with one more element.
LEMMA SumAdd ==
  ASSUME NEW S, IsFiniteSet(S), NEW x, x \notin S, NEW g, \A y \in S \cup {x} : g[y] \in Nat
  PROVE  SumOf(g, S) \in Nat /\ SumOf(g, S \cup {x}) = SumOf(g, S) + g[x]
  <1>1. IsFiniteSet(S \cup {x})
    BY FS_AddElement
  <1>2. PICK m : Measures(m, g, S \cup {x})
    BY <1>1, MeasureExists
  <1> DEFINE k == [T \in SUBSET S |-> m[T]]
  <1>3. Measures(k, g, S)
    <2>1. k \in [SUBSET S -> Nat] /\ k[{}] = 0
      BY <1>2 DEF Measures
    <2>2. ASSUME NEW T \in SUBSET S, NEW y \in S \ T
          PROVE  k[T \cup {y}] = k[T] + g[y]
      <3>1. m[T \cup {y}] = m[T] + g[y]
        BY <1>2 DEF Measures
      <3>2. T \cup {y} \in SUBSET S
        OBVIOUS
      <3> QED BY <3>1, <3>2
    <2> HIDE DEF k
    <2> QED BY <2>1, <2>2 DEF Measures
  <1>4. SumOf(g, S) = m[S] /\ m[S] \in Nat
    <2>1. SumOf(g, S) = k[S] /\ k[S] = m[S]
      BY <1>3, SumIsMeasure
    <2>2. m[S] \in Nat
      BY <1>2 DEF Measures
    <2> QED BY <2>1, <2>2
  <1>5. SumOf(g, S \cup {x}) = m[S \cup {x}]
    BY <1>1, <1>2, SumIsMeasure
  <1>6. m[S \cup {x}] = m[S] + g[x]
    BY <1>2 DEF Measures
  <1> QED BY <1>4, <1>5, <1>6

\* Only the values on the set count.
LEMMA SumSame ==
  ASSUME NEW S, IsFiniteSet(S), NEW g, NEW h, \A y \in S : g[y] \in Nat /\ h[y] = g[y]
  PROVE  SumOf(h, S) = SumOf(g, S)
  <1>1. PICK m : Measures(m, g, S)
    BY MeasureExists
  <1>2. Measures(m, h, S)
    BY <1>1 DEF Measures
  <1> QED BY <1>1, <1>2, SumIsMeasure

\* A sum after the term of x has changed.
LEMMA SumChanged ==
  ASSUME NEW S, IsFiniteSet(S), NEW x \in S, NEW g, NEW h,
         \A y \in S : g[y] \in Nat /\ h[y] \in Nat, \A y \in S \ {x} : h[y] = g[y]
  PROVE  SumOf(g, S) \in Nat /\ SumOf(h, S) = SumOf(g, S) - g[x] + h[x]
  <1> DEFINE R == S \ {x}
  <1>1. IsFiniteSet(R) /\ x \notin R /\ R \cup {x} = S
    BY FS_RemoveElement
  <1> HIDE DEF R
  <1>2. SumOf(g, R) \in Nat /\ SumOf(g, S) = SumOf(g, R) + g[x]
    BY <1>1, SumAdd, Zenon
  <1>3. SumOf(h, S) = SumOf(h, R) + h[x]
    BY <1>1, SumAdd, Zenon
  <1>4. SumOf(h, R) = SumOf(g, R)
    BY <1>1, SumSame DEF R
  <1> QED BY <1>2, <1>3, <1>4

-----------------------------------------------------------------------------
(* The slab allocators. *)

\* A slab in use belongs to an allocator, lies outside the pool, hands out only
\* objects it has, and keeps at least one of them in use.
InUseWell ==
  \A s \in InUse : /\ s \notin pool
                   /\ \A i \in Index : <<s, i>> \in live => i \in Of(owner[s])
                   /\ count[s] < Objects[owner[s]]

IInv == TypeOK /\ InUseWell /\ FreeChain /\ ListedIffPartial

\* The number of objects of an allocator, and where its indices lie.
LEMMA Indices ==
  ASSUME NEW a \in Allocator
  PROVE  /\ Objects[a] \in Nat /\ Objects[a] >= 2
         /\ Of(a) \subseteq Index
         /\ \A i : i \in Of(a) <=> i \in Nat /\ i < Objects[a]
         /\ Index \subseteq Nat
         /\ Null \notin Index
<1>1. Objects[a] \in Nat /\ Objects[a] >= 2
  BY ObjectsAssumption
<1>2. \A b \in Allocator : Objects[b] \in Nat /\ Objects[b] >= 2
  BY ObjectsAssumption
<1>3. Index \subseteq Nat
  BY <1>2 DEF Index, Of
<1>4. Null \notin Index
  BY <1>3 DEF Null
<1> QED
  BY <1>1, <1>3, <1>4 DEF Index, Of

\* The slabs of the four steps are in use; two facts about them used everywhere.
LEMMA OwnedIndex ==
  ASSUME IInv, NEW s \in InUse
  PROVE  /\ owner[s] \in Allocator
         /\ FreeIn(s) \subseteq Of(owner[s])
         /\ count[s] \in Nat /\ count[s] < Objects[owner[s]]
         /\ s \in Slab /\ s \notin pool
<1>1. s \in Slab
  BY DEF InUse
<1>2. FreeIn(s) \subseteq Of(owner[s])
  BY DEF FreeIn
<1> QED
  BY <1>1, <1>2 DEF IInv, TypeOK, InUseWell

\* The sizes of the intervals that depths and indices range over.
LEMMA Interval ==
  ASSUME NEW n \in Nat
  PROVE  /\ IsFiniteSet(1 .. n) /\ Cardinality(1 .. n) = n
         /\ IsFiniteSet(0 .. (n - 1)) /\ Cardinality(0 .. (n - 1)) = n
<1>1. /\ IsFiniteSet(1 .. n)
      /\ Cardinality(1 .. n) = IF 1 > n THEN 0 ELSE n - 1 + 1
  BY FS_Interval, 1 \in Int, n \in Int
<1>2. n - 1 \in Int
  OBVIOUS
<1>3. /\ IsFiniteSet(0 .. (n - 1))
      /\ Cardinality(0 .. (n - 1)) = IF 0 > n - 1 THEN 0 ELSE (n - 1) - 0 + 1
  BY <1>2, FS_Interval, 0 \in Int
<1> QED
  BY <1>1, <1>3

\* Fewer depths than objects: some object of the slab is in use.
LEMMA SomeLive ==
  ASSUME NEW a \in Allocator, NEW F \in SUBSET Of(a), NEW n \in Nat, n < Objects[a],
         NEW d, \A i \in F : d[i] \in 1 .. n, \A i, j \in F : d[i] = d[j] => i = j
  PROVE  \E i \in Of(a) : i \notin F
<1> SUFFICES ASSUME F = Of(a) PROVE FALSE
  OBVIOUS
<1> DEFINE f == [i \in F |-> d[i]]
<1>1. IsFiniteSet(F) /\ Cardinality(F) = Objects[a]
  BY Indices, Interval DEF Of
<1>2. IsFiniteSet(1 .. n) /\ Cardinality(1 .. n) = n
  BY Interval
<1>3. f \in [F -> 1 .. n]
  OBVIOUS
<1>4. \E x, y \in F : x # y /\ f[x] = f[y]
  <2> HIDE DEF f
  <2> QED BY <1>1, <1>2, <1>3, FS_PigeonHole
<1> QED
  BY <1>4

\* As many depths as there are other objects: all the others are free.
LEMMA AllFree ==
  ASSUME NEW a \in Allocator, NEW F \in SUBSET Of(a), NEW i \in Of(a), i \notin F,
         NEW d, \A j \in F : d[j] \in 1 .. (Objects[a] - 1),
         \A n \in 1 .. (Objects[a] - 1) : \E j \in F : d[j] = n
  PROVE  Of(a) = F \cup {i}
<1> SUFFICES ASSUME NEW k \in Of(a), k \notin F, k # i PROVE FALSE
  OBVIOUS
<1> DEFINE T == (Of(a) \ {i}) \ {k}
           f == [j \in F |-> d[j]]
<1>1. Objects[a] \in Nat /\ Objects[a] >= 2
  BY Indices
<1>2. IsFiniteSet(Of(a)) /\ Cardinality(Of(a)) = Objects[a]
  BY <1>1, Interval, Zenon DEF Of
<1>3. IsFiniteSet(Of(a) \ {i}) /\ Cardinality(Of(a) \ {i}) = Objects[a] - 1
  BY <1>2, FS_RemoveElement
<1>4. IsFiniteSet(T) /\ Cardinality(T) = Objects[a] - 1 - 1
  BY <1>3, FS_RemoveElement
<1>5. F \in SUBSET T
  OBVIOUS
<1>6. IsFiniteSet(F) /\ Cardinality(F) <= Cardinality(T)
  <2> HIDE DEF T
  <2> QED BY <1>4, <1>5, FS_Subset
<1>7. f \in Surjection(F, 1 .. (Objects[a] - 1))
  BY DEF Surjection
<1>8. Cardinality(1 .. (Objects[a] - 1)) <= Cardinality(F)
  <2> HIDE DEF f
  <2> QED BY <1>6, <1>7, FS_Surjection
<1>9. Cardinality(1 .. (Objects[a] - 1)) = Objects[a] - 1
  BY <1>1, Interval, Objects[a] - 1 \in Nat
<1>10. Cardinality(F) \in Nat
  BY <1>6, FS_CardinalityType
<1> QED
  BY <1>1, <1>4, <1>6, <1>8, <1>9, <1>10

\* A slab that a step leaves alone keeps its chain.
LEMMA ChainKept ==
  ASSUME NEW s \in Slab, NEW d, ChainDepth(s, d),
         owner'[s] = owner[s], count'[s] = count[s], first'[s] = first[s],
         next'[s] = next[s], \A i \in Index : <<s, i>> \in live' <=> <<s, i>> \in live,
         owner[s] \in Allocator
  PROVE  ChainDepth(s, d)'
<1>1. \A i \in Of(owner[s]) : i \in Index
  BY Indices
<1>2. FreeIn(s)' = FreeIn(s)
  BY <1>1 DEF FreeIn
<1> QED
  BY <1>2 DEF ChainDepth

\* Taking the head of a chain leaves the rest of it a chain.
LEMMA AllocFromListedStep ==
  ASSUME IInv, NEW a \in Allocator, NEW s \in Slab, AllocFromListed(a, s)
  PROVE  IInv' /\ InUse' = InUse
<1> USE DEF AllocFromListed
<1>1. s \in InUse /\ count[s] > 0
  BY DEF IInv, ListedIffPartial
<1>2. /\ owner[s] = a /\ count[s] \in Nat /\ count[s] < Objects[a] /\ s \notin pool
  BY <1>1, OwnedIndex
<1>3. PICK d \in [Of(a) -> 0 .. Objects[a]] : ChainDepth(s, d)
  BY <1>1, <1>2, Zenon DEF IInv, FreeChain
<1>4. /\ first[s] \in FreeIn(s) /\ d[first[s]] = count[s]
      /\ first[s] \in Of(a) /\ first[s] \in Index /\ first[s] # Null
  BY <1>1, <1>2, <1>3, Indices DEF ChainDepth, FreeIn
<1>5. live' = live \cup {<<s, first[s]>>} /\ first' = [first EXCEPT ![s] = next[s][first[s]]]
  BY <1>4
<1>6. InUse' = InUse
  BY <1>1, <1>4, <1>5, Zenon DEF InUse
<1>7. TypeOK'
  <2>1. count' \in [Slab -> Nat]
    BY <1>1, <1>2 DEF IInv, TypeOK
  <2>2. first' \in [Slab -> Index \cup {Null}]
    BY <1>4, <1>5 DEF IInv, TypeOK
  <2> QED
    BY <1>4, <1>5, <1>6, <2>1, <2>2 DEF IInv, TypeOK
<1>8. InUseWell'
  <2> SUFFICES ASSUME NEW t \in InUse
               PROVE  /\ t \notin pool
                      /\ \A i \in Index : <<t, i>> \in live' => i \in Of(owner[t])
                      /\ count'[t] < Objects[owner[t]]
    BY <1>6 DEF InUseWell
  <2>1. /\ t \notin pool /\ t \in Slab /\ count[t] \in Nat
        /\ count[t] < Objects[owner[t]] /\ Objects[owner[t]] \in Nat
    BY OwnedIndex, Indices
  <2>2. count'[t] < Objects[owner[t]]
    BY <1>1, <1>2, <2>1 DEF IInv, TypeOK
  <2>3. \A i \in Index : <<t, i>> \in live' => i \in Of(owner[t])
    BY <1>2, <1>4, <1>5 DEF IInv, InUseWell
  <2> QED
    BY <2>1, <2>2, <2>3
<1>9. FreeChain'
  <2> SUFFICES ASSUME NEW t \in InUse
               PROVE  \E e \in [Of(owner[t]) -> 0 .. Objects[owner[t]]] : ChainDepth(t, e)'
    BY <1>6, Zenon DEF FreeChain
  <2>1. CASE t # s
    <3>1. PICK e \in [Of(owner[t]) -> 0 .. Objects[owner[t]]] : ChainDepth(t, e)
      BY Zenon DEF IInv, FreeChain
    <3>2. t \in Slab /\ owner[t] \in Allocator
      BY OwnedIndex
    <3>3. ChainDepth(t, e)'
      BY <1>5, <2>1, <3>1, <3>2, ChainKept DEF IInv, TypeOK
    <3> QED BY <3>3
  <2>2. CASE t = s
    <3>1. FreeIn(s)' = FreeIn(s) \ {first[s]}
      BY <1>2, <1>5 DEF FreeIn
    <3>2. count'[s] = count[s] - 1 /\ first'[s] = next[s][first[s]]
      BY <1>5 DEF IInv, TypeOK
    <3>3. \A i \in FreeIn(s)' : d[i] \in 1 .. count'[s]
      BY <1>1, <1>2, <1>3, <1>4, <3>1, <3>2 DEF ChainDepth
    <3>4. \A i, j \in FreeIn(s)' : d[i] = d[j] => i = j
      BY <1>3, <3>1, Zenon DEF ChainDepth
    <3>5. \A n \in 1 .. count'[s] : \E i \in FreeIn(s)' : d[i] = n
      BY <1>1, <1>2, <1>3, <1>4, <3>1, <3>2 DEF ChainDepth
    <3>6. IF count'[s] = 0 THEN first'[s] = Null
          ELSE first'[s] \in FreeIn(s)' /\ d[first'[s]] = count'[s]
      BY <1>1, <1>2, <1>3, <1>4, <3>1, <3>2 DEF ChainDepth
    <3>7. \A i \in FreeIn(s)' : IF d[i] = 1 THEN next[s][i] = Null
             ELSE next[s][i] \in FreeIn(s)' /\ d[next[s][i]] = d[i] - 1
      BY <1>1, <1>2, <1>3, <1>4, <3>1, <3>2, <3>3 DEF ChainDepth
    <3>8. ChainDepth(s, d)'
      BY <3>3, <3>4, <3>5, <3>6, <3>7, Zenon DEF ChainDepth
    <3> QED BY <1>2, <2>2, <3>8, Zenon
  <2> QED BY <2>1, <2>2
<1>10. ListedIffPartial'
  <2>1. \A t \in InUse : t \in Slab /\ count[t] \in Nat
    BY OwnedIndex
  <2>2. \A t \in InUse : count'[t] = IF t = s THEN count[s] - 1 ELSE count[t]
    BY <2>1 DEF IInv, TypeOK
  <2> QED
    BY <1>1, <1>2, <1>6, <2>1, <2>2 DEF IInv, ListedIffPartial
<1> QED
  BY <1>6, <1>7, <1>8, <1>9, <1>10 DEF IInv

\* The objects of a fresh block are chained in order, the first one handed out.
LEMMA AllocFromNewStep ==
  ASSUME IInv, NEW a \in Allocator, NEW s \in Slab, AllocFromNew(a, s)
  PROVE  IInv' /\ InUse' = InUse \cup {s}
<1> USE DEF AllocFromNew
<1>1. s \notin InUse /\ \A i \in Index : <<s, i>> \notin live
  BY DEF IInv, InUseWell, InUse
<1>2. /\ Objects[a] \in Nat /\ Objects[a] >= 2 /\ 0 \in Of(a) /\ 1 \in Of(a)
      /\ Of(a) \subseteq Index /\ 0 \in Index /\ 1 \in Index
      /\ \A i : i \in Of(a) <=> i \in Nat /\ i < Objects[a]
      /\ Index \subseteq Nat
  BY Indices
<1>3. InUse' = InUse \cup {s}
  BY <1>2 DEF InUse
<1>4. /\ owner'[s] = a /\ count'[s] = Objects[a] - 1 /\ first'[s] = 1
      /\ \A i \in Of(a) : next'[s][i] = IF i # Objects[a] - 1 THEN i + 1 ELSE Null
      /\ \A t \in Slab \ {s} : /\ owner'[t] = owner[t] /\ count'[t] = count[t]
                               /\ first'[t] = first[t] /\ next'[t] = next[t]
  BY <1>2 DEF IInv, TypeOK
<1>5. TypeOK'
  <2>1. next' \in [Slab -> [Index -> Index \cup {Null}]]
    <3>1. \A i \in Index : i \in Of(a) /\ i # Objects[a] - 1 => i + 1 \in Index
      BY <1>2
    <3>2. next[s] \in [Index -> Index \cup {Null}]
      BY DEF IInv, TypeOK
    <3>3. [i \in Index |-> IF i \in Of(a) /\ i # Objects[a] - 1 THEN i + 1
                           ELSE IF i = Objects[a] - 1 THEN Null ELSE next[s][i]]
             \in [Index -> Index \cup {Null}]
      BY <3>1, <3>2
    <3> QED
      BY <3>3, Zenon DEF IInv, TypeOK
  <2>2. /\ count' \in [Slab -> Nat] /\ first' \in [Slab -> Index \cup {Null}]
        /\ owner' \in [Slab -> Allocator \cup {NoOwner}]
    BY <1>2 DEF IInv, TypeOK
  <2>3. /\ listed' \subseteq Slab /\ corrupt' \subseteq Slab /\ pool' \subseteq Slab
        /\ live' \subseteq Slab \X Index
    BY <1>2 DEF IInv, TypeOK
  <2>4. \A t \in InUse' : owner'[t] \in Allocator
    BY <1>3, <1>4, OwnedIndex
  <2> QED
    BY <2>1, <2>2, <2>3, <2>4 DEF TypeOK
<1>6. InUseWell'
  <2> SUFFICES ASSUME NEW t \in InUse'
               PROVE  /\ t \notin pool'
                      /\ \A i \in Index : <<t, i>> \in live' => i \in Of(owner'[t])
                      /\ count'[t] < Objects[owner'[t]]
    BY DEF InUseWell, Of
  <2>1. CASE t = s
    BY <1>1, <1>2, <1>4, <2>1
  <2>2. CASE t # s
    BY <1>3, <1>4, <2>2, OwnedIndex DEF IInv, InUseWell
  <2> QED BY <2>1, <2>2
<1>7. FreeChain'
  <2> SUFFICES ASSUME NEW t \in InUse'
               PROVE  \E e \in [Of(owner'[t]) -> 0 .. Objects[owner'[t]]] : ChainDepth(t, e)'
    BY DEF FreeChain, Of
  <2>1. CASE t # s
    <3>1. t \in InUse
      BY <1>3, <2>1
    <3>2. PICK e \in [Of(owner[t]) -> 0 .. Objects[owner[t]]] : ChainDepth(t, e)
      BY <3>1, Zenon DEF IInv, FreeChain
    <3>3. t \in Slab /\ owner[t] \in Allocator
      BY <3>1, OwnedIndex
    <3>4. ChainDepth(t, e)'
      BY <1>4, <2>1, <3>2, <3>3, ChainKept, Zenon
    <3> QED BY <1>4, <2>1, <3>3, <3>4
  <2>2. CASE t = s
    <3> DEFINE e == [i \in Of(a) |-> Objects[a] - i]
    <3>1. e \in [Of(a) -> 0 .. Objects[a]]
      BY <1>2
    <3>2. FreeIn(s)' = Of(a) \ {0}
      BY <1>1, <1>2, <1>4, Zenon DEF FreeIn, Of
    <3>3. \A i \in Of(a) \ {0} : i \in Nat /\ i >= 1 /\ i < Objects[a] /\ e[i] = Objects[a] - i
      BY <1>2
    <3> HIDE DEF e
    <3>4. \A i \in FreeIn(s)' : e[i] \in 1 .. count'[s]
      BY <1>2, <1>4, <3>2, <3>3
    <3>5. \A i, j \in FreeIn(s)' : e[i] = e[j] => i = j
      BY <1>2, <3>2, <3>3
    <3>6. \A n \in 1 .. count'[s] : \E i \in FreeIn(s)' : e[i] = n
      <4> TAKE n \in 1 .. count'[s]
      <4>1. Objects[a] - n \in Of(a) \ {0}
        BY <1>2, <1>4
      <4>2. e[Objects[a] - n] = n
        BY <1>2, <1>4, <3>3, <4>1
      <4> QED BY <3>2, <4>1, <4>2
    <3>7. count'[s] # 0 /\ first'[s] \in FreeIn(s)' /\ e[first'[s]] = count'[s]
      BY <1>2, <1>4, <3>2, <3>3
    <3>8. \A i \in FreeIn(s)' : IF e[i] = 1 THEN next'[s][i] = Null
             ELSE next'[s][i] \in FreeIn(s)' /\ e[next'[s][i]] = e[i] - 1
      <4> SUFFICES ASSUME NEW i \in Of(a) \ {0}
                   PROVE  IF e[i] = 1 THEN next'[s][i] = Null
                          ELSE next'[s][i] \in Of(a) \ {0} /\ e[next'[s][i]] = e[i] - 1
        BY <3>2, Zenon
      <4> DEFINE k == Objects[a]
      <4>0. k \in Nat /\ k >= 2 /\ i \in Nat /\ i >= 1 /\ i < k /\ e[i] = k - i
        BY <1>2, <3>3, Zenon
      <4>1. CASE i = k - 1
        <5>1. next'[s][i] = Null
          BY <1>4, <4>1, Zenon
        <5>2. e[i] = 1
          <6> HIDE DEF k
          <6> QED BY <4>0, <4>1
        <5> QED BY <5>1, <5>2, Zenon
      <4>2. CASE i # k - 1
        <5>1. next'[s][i] = i + 1
          BY <1>4, <4>2, Zenon
        <5>2. i + 1 \in Nat /\ i + 1 < k /\ i + 1 # 0
          BY <4>0, <4>2
        <5>3. i + 1 \in Of(a) \ {0}
          BY <1>2, <5>2
        <5>4. e[i + 1] = k - (i + 1)
          BY <3>3, <5>3, Zenon
        <5>5. e[i] # 1 /\ k - (i + 1) = e[i] - 1
          <6> HIDE DEF k
          <6> QED BY <4>0, <4>2
        <5> QED BY <5>1, <5>3, <5>4, <5>5, Zenon
      <4> QED BY <4>1, <4>2, Zenon
    <3>9. ChainDepth(s, e)'
      BY <3>4, <3>5, <3>6, <3>7, <3>8, Zenon DEF ChainDepth
    <3> QED BY <1>4, <2>2, <3>1, <3>9, Zenon
  <2> QED BY <2>1, <2>2
<1>8. ListedIffPartial'
  <2>1. corrupt' = {}
    BY <1>1, Zenon DEF IInv, ListedIffPartial
  <2>2. \A t \in InUse' : t = s \/ t \in InUse
    BY <1>3
  <2>3. count'[s] > 0 /\ \A t \in InUse : count'[t] = count[t]
    BY <1>1, <1>2, <1>4, OwnedIndex
  <2> QED
    BY <1>3, <2>1, <2>2, <2>3, Zenon DEF IInv, ListedIffPartial
<1> QED
  BY <1>3, <1>5, <1>6, <1>7, <1>8, Zenon DEF IInv

\* An object in use belongs to a slab in use, and its index to the owner's range.
LEMMA LiveObject ==
  ASSUME IInv, NEW s, NEW i, <<s, i>> \in live
  PROVE  /\ s \in Slab /\ i \in Index /\ s \in InUse
         /\ owner[s] \in Allocator /\ i \in Of(owner[s])
<1>1. s \in Slab /\ i \in Index
  BY DEF IInv, TypeOK
<1>2. s \in InUse
  BY <1>1 DEF InUse
<1> QED
  BY <1>1, <1>2, OwnedIndex, Zenon DEF IInv, InUseWell

\* What the depth one above those in use is, among the depths.
LEMMA OneMore ==
  ASSUME NEW n \in Nat, NEW m \in Nat, n + 1 < m
  PROVE  /\ n + 1 \in 0 .. m /\ n + 1 \in 1 .. (n + 1) /\ n + 1 \in Nat /\ n + 1 # 0
         /\ \A k \in 1 .. n : k \in 1 .. (n + 1) /\ k # n + 1
         /\ \A k \in 1 .. (n + 1) : k # n + 1 => k \in 1 .. n
         /\ n = 0 => n + 1 = 1
         /\ n # 0 => n + 1 # 1 /\ n = (n + 1) - 1
  OBVIOUS

\* The freed object becomes the head of the chain; the count stays below the
\* number of objects, so another object is still in use.
LEMMA FreeToSlabStep ==
  ASSUME IInv, NEW s, NEW i, FreeToSlab(s, i)
  PROVE  IInv' /\ InUse' = InUse
<1> DEFINE a == owner[s]
<1>1. /\ <<s, i>> \in live /\ (count[s] + 1 = 1 \/ count[s] + 1 # Objects[a])
      /\ count' = [count EXCEPT ![s] = @ + 1]
      /\ listed' = IF count[s] = 0 THEN listed \cup {s} ELSE listed
      /\ corrupt' = IF count[s] = 0 THEN corrupt \cup (listed \cap {s}) ELSE corrupt
      /\ next' = [next EXCEPT ![s] = [@ EXCEPT ![i] = first[s]]]
      /\ first' = [first EXCEPT ![s] = i]
      /\ live' = live \ {<<s, i>>}
      /\ owner' = owner /\ pool' = pool
  BY Zenon DEF FreeToSlab
<1>2. /\ s \in Slab /\ i \in Index /\ s \in InUse /\ a \in Allocator /\ i \in Of(a)
      /\ Objects[a] \in Nat /\ Objects[a] >= 2 /\ Of(a) \subseteq Index
      /\ i # Null /\ count[s] \in Nat /\ count[s] < Objects[a] /\ s \notin pool
  BY <1>1, LiveObject, OwnedIndex, Indices, Zenon
<1>3. count'[s] = count[s] + 1 /\ count[s] + 1 < Objects[a] /\ first'[s] = i
  <2>1. count[s] + 1 < Objects[a]
    BY <1>1, <1>2
  <2> QED BY <1>1, <1>2, <2>1, Zenon DEF IInv, TypeOK
<1>up. /\ count[s] + 1 \in 0 .. Objects[a] /\ count[s] + 1 \in 1 .. (count[s] + 1)
       /\ count[s] + 1 \in Nat /\ count[s] + 1 # 0
       /\ \A k \in 1 .. count[s] : k \in 1 .. (count[s] + 1) /\ k # count[s] + 1
       /\ \A k \in 1 .. (count[s] + 1) : k # count[s] + 1 => k \in 1 .. count[s]
       /\ count[s] = 0 => count[s] + 1 = 1
       /\ count[s] # 0 => count[s] + 1 # 1 /\ count[s] = (count[s] + 1) - 1
  BY <1>2, <1>3, OneMore, Zenon
<1>4. /\ \A t \in Slab \ {s} : count'[t] = count[t] /\ first'[t] = first[t] /\ next'[t] = next[t]
      /\ next'[s] = [next[s] EXCEPT ![i] = first[s]] /\ next[s] \in [Index -> Index \cup {Null}]
  BY <1>1, <1>2, Zenon DEF IInv, TypeOK
<1>5. PICK d \in [Of(a) -> 0 .. Objects[a]] : ChainDepth(s, d)
  BY <1>2, Zenon DEF IInv, FreeChain
<1>6. i \notin FreeIn(s) /\ FreeIn(s)' = FreeIn(s) \cup {i} /\ FreeIn(s) \subseteq Of(a)
  BY <1>1, <1>2, Zenon DEF FreeIn
<1>7. PICK e \in [Of(a) -> 0 .. Objects[a]] :
         e[i] = count[s] + 1 /\ \A j \in FreeIn(s) : e[j] = d[j]
  <2>1. [d EXCEPT ![i] = count[s] + 1] \in [Of(a) -> 0 .. Objects[a]]
    BY <1>2, <1>5, <1>up, Zenon
  <2> QED BY <1>2, <1>5, <1>6, <2>1, Zenon
<1>8. ChainDepth(s, e)'
  <2>1. \A j \in FreeIn(s) : d[j] \in 1 .. count[s]
    BY <1>5, Zenon DEF ChainDepth
  <2>2. \A j \in FreeIn(s)' : e[j] \in 1 .. count'[s]
    BY <1>3, <1>6, <1>7, <1>up, <2>1, Zenon
  <2>3. \A j, k \in FreeIn(s)' : e[j] = e[k] => j = k
    <3>1. \A j \in FreeIn(s) : e[j] # e[i]
      BY <1>7, <1>up, <2>1, Zenon
    <3>2. \A j, k \in FreeIn(s) : e[j] = e[k] => j = k
      BY <1>5, <1>7, Zenon DEF ChainDepth
    <3> QED BY <1>6, <3>1, <3>2, Zenon
  <2>4. \A n \in 1 .. count'[s] : \E j \in FreeIn(s)' : e[j] = n
    <3> SUFFICES ASSUME NEW n \in 1 .. count'[s] PROVE \E j \in FreeIn(s)' : e[j] = n
      BY Zenon
    <3>1. CASE n = count[s] + 1
      BY <1>6, <1>7, <3>1, Zenon
    <3>2. CASE n # count[s] + 1
      <4>1. n \in 1 .. count[s]
        BY <1>3, <1>up, <3>2, Zenon
      <4>2. PICK j \in FreeIn(s) : d[j] = n
        BY <1>5, <4>1, Zenon DEF ChainDepth
      <4> QED BY <1>6, <1>7, <4>2, Zenon
    <3> QED BY <3>1, <3>2, Zenon
  <2>5. count'[s] # 0 /\ first'[s] \in FreeIn(s)' /\ e[first'[s]] = count'[s]
    BY <1>3, <1>6, <1>7, <1>up, Zenon
  <2>6. \A j \in FreeIn(s)' : IF e[j] = 1 THEN next'[s][j] = Null
            ELSE next'[s][j] \in FreeIn(s)' /\ e[next'[s][j]] = e[j] - 1
    <3>1. IF e[i] = 1 THEN next'[s][i] = Null
          ELSE next'[s][i] \in FreeIn(s)' /\ e[next'[s][i]] = e[i] - 1
      <4>1. next'[s][i] = first[s]
        BY <1>2, <1>4, Zenon
      <4>2. CASE count[s] = 0
        BY <1>5, <1>7, <1>up, <4>1, <4>2, Zenon DEF ChainDepth
      <4>3. CASE count[s] # 0
        <5>1. first[s] \in FreeIn(s) /\ d[first[s]] = count[s]
          BY <1>5, <4>3, Zenon DEF ChainDepth
        <5>2. e[i] # 1 /\ count[s] = e[i] - 1
          BY <1>7, <1>up, <4>3, Zenon
        <5> QED BY <1>6, <1>7, <4>1, <5>1, <5>2, Zenon
      <4> QED BY <4>2, <4>3, Zenon
    <3>2. ASSUME NEW j \in FreeIn(s)
          PROVE  IF e[j] = 1 THEN next'[s][j] = Null
                 ELSE next'[s][j] \in FreeIn(s)' /\ e[next'[s][j]] = e[j] - 1
      <4>1. next'[s][j] = next[s][j]
        BY <1>2, <1>4, <1>6, Zenon
      <4>2. IF d[j] = 1 THEN next[s][j] = Null
            ELSE next[s][j] \in FreeIn(s) /\ d[next[s][j]] = d[j] - 1
        BY <1>5, Zenon DEF ChainDepth
      <4> QED BY <1>6, <1>7, <4>1, <4>2, Zenon
    <3> QED BY <1>6, <3>1, <3>2, Zenon
  <2> QED BY <2>2, <2>3, <2>4, <2>5, <2>6, Zenon DEF ChainDepth
<1>9. InUse' = InUse
  <2>1. \E j \in Of(a) : j \notin FreeIn(s)'
    <3> DEFINE F == FreeIn(s)'
               n == count[s] + 1
    <3>1. /\ F \in SUBSET Of(a) /\ n \in Nat /\ n < Objects[a]
          /\ \A j \in F : e[j] \in 1 .. n
          /\ \A j, k \in F : e[j] = e[k] => j = k
      <4>1. /\ \A j \in F : e[j] \in 1 .. count'[s]
            /\ \A j, k \in F : e[j] = e[k] => j = k
        BY <1>8, Zenon DEF ChainDepth
      <4>2. F \in SUBSET Of(a) /\ n \in Nat /\ n < Objects[a] /\ count'[s] = n
        BY <1>2, <1>3, <1>6, <1>up, Zenon
      <4> HIDE DEF F, n
      <4> QED BY <4>1, <4>2, Zenon
    <3> HIDE DEF F, n
    <3> QED BY <1>2, <3>1, SomeLive, Zenon DEF F
  <2>2. PICK j \in Of(a) : j \notin FreeIn(s)'
    BY <2>1, Zenon
  <2>3. <<s, j>> \in live'
    BY <1>1, <2>2, Zenon DEF FreeIn
  <2>4. s \in InUse'
    BY <1>2, <2>2, <2>3, Zenon DEF InUse
  <2>5. \A t \in Slab \ {s} : t \in InUse' <=> t \in InUse
    BY <1>1, Zenon DEF InUse
  <2>6. InUse' \subseteq Slab /\ InUse \subseteq Slab
    BY Zenon DEF InUse
  <2>7. \A t \in Slab : t \in InUse' <=> t \in InUse
    BY <1>2, <2>4, <2>5, Zenon
  <2> QED BY <2>6, <2>7, Zenon
<1>10. TypeOK'
  <2>1. next' \in [Slab -> [Index -> Index \cup {Null}]]
    BY <1>1, <1>2, <1>4, Zenon DEF IInv, TypeOK
  <2>2. count' \in [Slab -> Nat] /\ first' \in [Slab -> Index \cup {Null}]
    BY <1>1, <1>2 DEF IInv, TypeOK
  <2> QED
    BY <1>1, <1>2, <1>9, <2>1, <2>2, Zenon DEF IInv, TypeOK
<1>11. InUseWell'
  <2> SUFFICES ASSUME NEW t \in InUse
               PROVE  /\ t \notin pool
                      /\ \A j \in Index : <<t, j>> \in live' => j \in Of(owner[t])
                      /\ count'[t] < Objects[owner[t]]
    BY <1>1, <1>9, Zenon DEF InUseWell
  <2>1. CASE t = s
    BY <1>1, <1>2, <1>3, <2>1, Zenon DEF IInv, InUseWell
  <2>2. CASE t # s
    <3>1. count'[t] = count[t]
      BY <1>4, <2>2, OwnedIndex, Zenon
    <3> QED BY <1>1, <3>1, Zenon DEF IInv, InUseWell
  <2> QED BY <2>1, <2>2, Zenon
<1>12. FreeChain'
  <2> SUFFICES ASSUME NEW t \in InUse
               PROVE  \E f \in [Of(owner[t]) -> 0 .. Objects[owner[t]]] : ChainDepth(t, f)'
    BY <1>1, <1>9, Zenon DEF FreeChain
  <2>1. CASE t # s
    <3>1. PICK f \in [Of(owner[t]) -> 0 .. Objects[owner[t]]] : ChainDepth(t, f)
      BY Zenon DEF IInv, FreeChain
    <3>2. t \in Slab /\ owner[t] \in Allocator
      BY OwnedIndex, Zenon
    <3>3. ChainDepth(t, f)'
      BY <1>1, <1>4, <2>1, <3>1, <3>2, ChainKept, Zenon
    <3> QED BY <3>3, Zenon
  <2>2. CASE t = s
    BY <1>7, <1>8, <2>2, Zenon
  <2> QED BY <2>1, <2>2, Zenon
<1>13. ListedIffPartial'
  <2>1. corrupt' = {}
    BY <1>1 DEF IInv, ListedIffPartial
  <2>2. \A t \in InUse \ {s} : count'[t] = count[t]
    BY <1>4, OwnedIndex, Zenon
  <2>3. listed' = listed \cup {s} /\ count'[s] > 0
    BY <1>1, <1>2, <1>3 DEF IInv, ListedIffPartial
  <2> QED
    BY <1>2, <1>9, <2>1, <2>2, <2>3 DEF IInv, ListedIffPartial
<1> QED
  BY <1>9, <1>10, <1>11, <1>12, <1>13 DEF IInv

\* When the last object of a slab is freed all the others are on the chain, so
\* the slab leaves use as it leaves the list.
LEMMA FreeWholeSlabStep ==
  ASSUME IInv, NEW s, NEW i, FreeWholeSlab(s, i)
  PROVE  IInv' /\ InUse' = InUse \ {s}
<1> DEFINE a == owner[s]
<1>1. /\ <<s, i>> \in live /\ count[s] + 1 # 1 /\ count[s] + 1 = Objects[a]
      /\ count' = [count EXCEPT ![s] = @ + 1]
      /\ listed' = listed \ {s} /\ corrupt' = corrupt \cup ({s} \ listed)
      /\ live' = live \ {<<s, i>>} /\ pool' \in {pool, pool \cup {s}}
      /\ owner' = owner /\ first' = first /\ next' = next
  BY Zenon DEF FreeWholeSlab
<1>2. /\ s \in Slab /\ i \in Index /\ s \in InUse /\ a \in Allocator /\ i \in Of(a)
      /\ Objects[a] \in Nat /\ Objects[a] >= 2 /\ Of(a) \subseteq Index
      /\ count[s] \in Nat
  BY <1>1, LiveObject, OwnedIndex, Indices, Zenon
<1>3. PICK d \in [Of(a) -> 0 .. Objects[a]] : ChainDepth(s, d)
  BY <1>2, Zenon DEF IInv, FreeChain
<1>4. Of(a) = FreeIn(s) \cup {i}
  <2>1. count[s] = Objects[a] - 1
    BY <1>1, <1>2
  <2>2. FreeIn(s) \in SUBSET Of(a) /\ i \notin FreeIn(s)
    BY <1>1, Zenon DEF FreeIn
  <2>3. /\ \A j \in FreeIn(s) : d[j] \in 1 .. (Objects[a] - 1)
        /\ \A n \in 1 .. (Objects[a] - 1) : \E j \in FreeIn(s) : d[j] = n
    BY <1>3, <2>1, Zenon DEF ChainDepth
  <2> HIDE DEF a
  <2> QED BY <1>2, <2>2, <2>3, AllFree
<1>5. s \notin InUse' /\ InUse' = InUse \ {s}
  <2>1. \A j \in Index : <<s, j>> \notin live'
    <3> SUFFICES ASSUME NEW j \in Index, <<s, j>> \in live' PROVE FALSE
      BY Zenon
    <3>1. <<s, j>> \in live /\ j # i
      BY <1>1, Zenon
    <3>2. j \in Of(a)
      BY <3>1, LiveObject, Zenon
    <3> QED BY <1>4, <3>1, <3>2, Zenon DEF FreeIn
  <2>2. \A t \in Slab \ {s} : t \in InUse' <=> t \in InUse
    BY <1>1, Zenon DEF InUse
  <2>3. InUse' \subseteq Slab /\ InUse \subseteq Slab /\ s \notin InUse'
    BY <2>1, Zenon DEF InUse
  <2> QED BY <2>2, <2>3, Zenon
<1>6. \A t \in InUse' : t \in InUse /\ t # s /\ t \in Slab /\ count'[t] = count[t]
  BY <1>1, <1>5, OwnedIndex, Zenon DEF IInv, TypeOK
<1>7. TypeOK'
  <2>1. count' \in [Slab -> Nat]
    BY <1>1, <1>2, Zenon DEF IInv, TypeOK
  <2> QED
    BY <1>1, <1>2, <1>6, <2>1, Zenon DEF IInv, TypeOK
<1>8. InUseWell'
  <2> SUFFICES ASSUME NEW t \in InUse'
               PROVE  /\ t \notin pool'
                      /\ \A j \in Index : <<t, j>> \in live' => j \in Of(owner[t])
                      /\ count'[t] < Objects[owner[t]]
    BY <1>1, Zenon DEF InUseWell
  <2> QED
    BY <1>1, <1>6, Zenon DEF IInv, InUseWell
<1>9. FreeChain'
  <2> SUFFICES ASSUME NEW t \in InUse'
               PROVE  \E f \in [Of(owner[t]) -> 0 .. Objects[owner[t]]] : ChainDepth(t, f)'
    BY <1>1, Zenon DEF FreeChain
  <2>1. PICK f \in [Of(owner[t]) -> 0 .. Objects[owner[t]]] : ChainDepth(t, f)
    BY <1>6, Zenon DEF IInv, FreeChain
  <2>2. owner[t] \in Allocator
    BY <1>6, OwnedIndex, Zenon
  <2>3. ChainDepth(t, f)'
    BY <1>1, <1>6, <2>1, <2>2, ChainKept, Zenon
  <2> QED BY <2>3
<1>10. ListedIffPartial'
  <2>1. s \in listed
    BY <1>1, <1>2 DEF IInv, ListedIffPartial
  <2> QED
    BY <1>1, <1>5, <1>6, <2>1, Zenon DEF IInv, ListedIffPartial
<1> QED
  BY <1>5, <1>7, <1>8, <1>9, <1>10, Zenon DEF IInv

\* Before the first allocation no slab is in use and no slab is listed.
LEMMA SlabInit == Init => IInv
<1> SUFFICES ASSUME Init PROVE IInv
  OBVIOUS
<1>1. InUse = {}
  BY DEF Init, InUse
<1>2. TypeOK
  BY <1>1 DEF Init, TypeOK
<1> QED
  BY <1>1, <1>2 DEF Init, IInv, InUseWell, FreeChain, ListedIffPartial

\* Each of slab_alloc's and slab_free's paths preserves the inductive invariant.
LEMMA SlabStep == IInv /\ [Next]_slabVars => IInv'
<1> SUFFICES ASSUME IInv, [Next]_slabVars PROVE IInv'
  OBVIOUS
<1>1. ASSUME NEW a \in Allocator, slab_alloc(a) PROVE IInv'
  BY <1>1, AllocFromListedStep, AllocFromNewStep DEF slab_alloc
<1>2. ASSUME UNCHANGED slabVars PROVE IInv'
  <2> USE <1>2 DEF slabVars
  <2>1. InUse' = InUse /\ \A s : FreeIn(s)' = FreeIn(s)
    BY DEF InUse, FreeIn
  <2>2. \A s, d : ChainDepth(s, d) => ChainDepth(s, d)'
    BY <2>1 DEF ChainDepth
  <2>3. FreeChain'
    BY <2>1, <2>2, Zenon DEF IInv, FreeChain
  <2>4. TypeOK' /\ InUseWell' /\ ListedIffPartial'
    BY <2>1, Zenon DEF IInv, TypeOK, InUseWell, ListedIffPartial
  <2> QED
    BY <2>3, <2>4 DEF IInv
<1>3. ASSUME NEW o \in live, slab_free(o[1], o[2]) PROVE IInv'
  BY <1>3, FreeToSlabStep, FreeWholeSlabStep DEF slab_free
<1>4. ASSUME NEW a \in Allocator, AllocFails(a) PROVE IInv'
  BY <1>2, <1>4 DEF AllocFails
<1> QED
  BY <1>1, <1>2, <1>3, <1>4 DEF Next

\* The inductive invariant holds throughout.
THEOREM SlabInvariant == Spec => []IInv
<1> QED BY SlabInit, SlabStep, PTL DEF Spec

\* The counters and links of slab.c keep their ranges.
THEOREM SlabTypes == Spec => []TypeOK
<1>1. IInv => TypeOK BY DEF IInv
<1> QED BY <1>1, SlabInvariant, PTL

\* slab_alloc and slab_free keep the free objects of every slab exactly on its chain,
\* whatever the number of slabs, allocators and objects.
THEOREM SlabFreeChain == Spec => []FreeChain
<1>1. IInv => FreeChain BY DEF IInv
<1> QED BY <1>1, SlabInvariant, PTL

\* slab_alloc and slab_free link and unlink every slab exactly once per passage
\* between full, partial and empty.
THEOREM SlabListed == Spec => []ListedIffPartial
<1>1. IInv => ListedIffPartial BY DEF IInv
<1> QED BY <1>1, SlabInvariant, PTL
-----------------------------------------------------------------------------
(* The statistics of the allocators. *)
Mine(a) == {s \in InUse : owner[s] = a}

\* The counters of allocator a against its slabs.
StatsOf(a) ==
  /\ slab_count[a] = Cardinality(Mine(a))
  /\ free_obj_count[a] = SumOf(count, Mine(a))

\* Finitely many slabs are in use, for each was taken by one call.
StatsInv ==
  /\ IsFiniteSet(InUse)
  /\ free_obj_count \in [Allocator -> Int] /\ slab_count \in [Allocator -> Int]
  /\ \A a \in Allocator : StatsOf(a)

\* The counters agree with the slabs when each slab is counted right.
LEMMA StatsInvAgree == StatsInv <=> /\ IsFiniteSet(InUse)
                                    /\ free_obj_count \in [Allocator -> Int]
                                    /\ slab_count \in [Allocator -> Int]
                                    /\ StatsAgree
<1> QED BY DEF StatsInv, StatsAgree, StatsOf, Mine, SumOf

\* The slabs of one allocator are finitely many and have counts.
LEMMA MineFinite ==
  ASSUME IInv, StatsInv, NEW a
  PROVE  /\ IsFiniteSet(Mine(a)) /\ Cardinality(Mine(a)) \in Nat
         /\ \A s \in Mine(a) : s \in InUse /\ s \in Slab /\ owner[s] = a /\ count[s] \in Nat
<1>1. IsFiniteSet(InUse) /\ Mine(a) \subseteq InUse
  BY DEF StatsInv, Mine
<1>2. IsFiniteSet(Mine(a)) /\ Cardinality(Mine(a)) \in Nat
  BY <1>1, FS_Subset, FS_CardinalityType
<1> QED BY <1>2, OwnedIndex DEF Mine

\* An allocator whose slabs and counters a step leaves alone.
LEMMA StatsKept ==
  ASSUME IInv, StatsInv, NEW a \in Allocator, Mine(a)' = Mine(a),
         \A s \in Mine(a) : count'[s] = count[s],
         slab_count'[a] = slab_count[a], free_obj_count'[a] = free_obj_count[a]
  PROVE  StatsOf(a)'
<1>1. SumOf(count', Mine(a)) = SumOf(count, Mine(a))
  BY MineFinite, SumSame, Zenon
<1> QED BY <1>1, Zenon DEF StatsInv, StatsOf

\* An allocator whose slab s changes its count.
LEMMA StatsChanged ==
  ASSUME IInv, StatsInv, NEW a \in Allocator, NEW s \in Mine(a), Mine(a)' = Mine(a),
         count' \in [Slab -> Nat], \A t \in Mine(a) \ {s} : count'[t] = count[t],
         slab_count'[a] = slab_count[a],
         free_obj_count'[a] = free_obj_count[a] - count[s] + count'[s]
  PROVE  StatsOf(a)'
<1>1. \A t \in Mine(a) : count[t] \in Nat /\ count'[t] \in Nat
  BY MineFinite, Zenon
<1>2. IsFiniteSet(Mine(a))
  BY MineFinite
<1>3. SumOf(count', Mine(a)) = SumOf(count, Mine(a)) - count[s] + count'[s]
  BY <1>1, <1>2, SumChanged
<1> QED BY <1>3, Zenon DEF StatsInv, StatsOf

\* An object from a listed slab: one free object less.
LEMMA AllocFromListedStats ==
  ASSUME IInv, StatsInv, NEW a \in Allocator, NEW s \in Slab, AllocFromListed(a, s)
  PROVE  StatsInv'
<1>1. IInv' /\ InUse' = InUse
  BY AllocFromListedStep
<1>2. s \in InUse /\ owner[s] = a
  BY DEF AllocFromListed, IInv, ListedIffPartial
<1>3. /\ owner' = owner /\ slab_count' = slab_count
      /\ free_obj_count' = [free_obj_count EXCEPT ![a] = @ - 1]
      /\ count' = [count EXCEPT ![s] = @ - 1] /\ count' \in [Slab -> Nat]
  BY <1>1, Zenon DEF AllocFromListed, IInv, TypeOK
<1>4. \A b \in Allocator : Mine(b)' = Mine(b)
  BY <1>1, <1>3 DEF Mine
<1>5. /\ count'[s] = count[s] - 1 /\ count[s] \in Nat
      /\ \A t \in Slab \ {s} : count'[t] = count[t]
      /\ free_obj_count'[a] = free_obj_count[a] - 1 /\ free_obj_count[a] \in Int
      /\ \A b \in Allocator \ {a} : free_obj_count'[b] = free_obj_count[b]
      /\ free_obj_count' \in [Allocator -> Int]
  BY <1>3 DEF IInv, TypeOK, StatsInv
<1>6. StatsOf(a)'
  <2>1. s \in Mine(a)
    BY <1>2 DEF Mine
  <2>2. \A t \in Mine(a) \ {s} : count'[t] = count[t]
    BY <1>5, MineFinite, Zenon
  <2> QED BY <1>3, <1>4, <1>5, <2>1, <2>2, StatsChanged
<1>7. ASSUME NEW b \in Allocator, b # a PROVE StatsOf(b)'
  <2>1. \A t \in Mine(b) : count'[t] = count[t]
    BY <1>2, <1>5, <1>7, MineFinite, Zenon DEF Mine
  <2> QED BY <1>3, <1>4, <1>5, <1>7, <2>1, StatsKept, Zenon
<1> QED BY <1>1, <1>3, <1>5, <1>6, <1>7 DEF StatsInv

\* An object back to a slab that stays: one free object more.
LEMMA FreeToSlabStats ==
  ASSUME IInv, StatsInv, NEW s, NEW i, FreeToSlab(s, i)
  PROVE  StatsInv'
<1>0. PICK a \in Allocator : a = owner[s]
  BY LiveObject DEF FreeToSlab
<1>1. IInv' /\ InUse' = InUse
  BY FreeToSlabStep
<1>2. s \in InUse /\ s \in Slab
  BY LiveObject DEF FreeToSlab
<1>3. /\ owner' = owner /\ slab_count' = slab_count
      /\ free_obj_count' = [free_obj_count EXCEPT ![a] = @ + 1]
      /\ count' = [count EXCEPT ![s] = @ + 1] /\ count' \in [Slab -> Nat]
  BY <1>0, <1>1, Zenon DEF FreeToSlab, IInv, TypeOK
<1>4. \A b \in Allocator : Mine(b)' = Mine(b)
  BY <1>1, <1>3, Zenon DEF Mine
<1>5. /\ count'[s] = count[s] + 1 /\ count[s] \in Nat
      /\ \A t \in Slab \ {s} : count'[t] = count[t]
      /\ free_obj_count'[a] = free_obj_count[a] + 1 /\ free_obj_count[a] \in Int
      /\ \A b \in Allocator \ {a} : free_obj_count'[b] = free_obj_count[b]
      /\ free_obj_count' \in [Allocator -> Int]
  BY <1>2, <1>3 DEF IInv, TypeOK, StatsInv
<1>6. s \in Mine(a)
  BY <1>0, <1>2 DEF Mine
<1>7. StatsOf(a)'
  <2>1. \A t \in Mine(a) \ {s} : count'[t] = count[t]
    BY <1>5, MineFinite, Zenon
  <2> QED BY <1>2, <1>3, <1>4, <1>5, <1>6, <2>1, StatsChanged
<1>8. ASSUME NEW b \in Allocator, b # a PROVE StatsOf(b)'
  <2>1. \A t \in Mine(b) : count'[t] = count[t]
    BY <1>0, <1>2, <1>5, <1>8, MineFinite, Zenon DEF Mine
  <2> QED BY <1>3, <1>4, <1>5, <1>8, <2>1, StatsKept
<1> QED BY <1>1, <1>3, <1>5, <1>7, <1>8 DEF StatsInv

\* A new slab: its objects are counted, less the one handed out.
LEMMA AllocFromNewStats ==
  ASSUME IInv, StatsInv, NEW a \in Allocator, NEW s \in Slab, AllocFromNew(a, s)
  PROVE  StatsInv'
<1>1. IInv' /\ InUse' = InUse \cup {s}
  BY AllocFromNewStep
<1>2. s \notin InUse
  BY Zenon DEF AllocFromNew, IInv, InUseWell
<1>3. /\ owner' = [owner EXCEPT ![s] = a]
      /\ slab_count' = [slab_count EXCEPT ![a] = @ + 1]
      /\ free_obj_count' = [free_obj_count EXCEPT ![a] = @ + Objects[a] - 1]
      /\ count' = [count EXCEPT ![s] = Objects[a] - 1] /\ count' \in [Slab -> Nat]
      /\ Objects[a] \in Nat
  BY <1>1, Indices, Zenon DEF AllocFromNew, IInv, TypeOK
<1>4. /\ count'[s] = Objects[a] - 1 /\ owner'[s] = a
      /\ \A t \in Slab \ {s} : count'[t] = count[t] /\ owner'[t] = owner[t]
  BY <1>3, Zenon DEF IInv, TypeOK
<1>5. /\ free_obj_count'[a] = free_obj_count[a] + (Objects[a] - 1)
      /\ slab_count'[a] = slab_count[a] + 1
      /\ \A b \in Allocator \ {a} : /\ free_obj_count'[b] = free_obj_count[b]
                                    /\ slab_count'[b] = slab_count[b]
      /\ free_obj_count' \in [Allocator -> Int] /\ slab_count' \in [Allocator -> Int]
  BY <1>3 DEF StatsInv
<1>6. InUse \subseteq Slab
  BY DEF InUse
<1>7. s \notin Mine(a) /\ Mine(a)' = Mine(a) \cup {s}
  BY <1>1, <1>2, <1>4, <1>6, Zenon DEF Mine
<1>8. StatsOf(a)'
  <2>1. /\ IsFiniteSet(Mine(a)) /\ \A t \in Mine(a) : count[t] \in Nat /\ count'[t] = count[t]
    BY <1>4, <1>7, MineFinite, Zenon
  <2>2. SumOf(count', Mine(a)) = SumOf(count, Mine(a))
    BY <2>1, SumSame, Zenon
  <2>3. \A t \in Mine(a) \cup {s} : count'[t] \in Nat
    BY <1>3, <2>1
  <2>4. SumOf(count', Mine(a) \cup {s}) = SumOf(count', Mine(a)) + count'[s]
    BY <1>7, <2>1, <2>3, SumAdd, Zenon
  <2>5. Cardinality(Mine(a) \cup {s}) = Cardinality(Mine(a)) + 1
    BY <1>7, <2>1, FS_AddElement, Zenon
  <2>6. free_obj_count[a] = SumOf(count, Mine(a)) /\ slab_count[a] = Cardinality(Mine(a))
    BY Zenon DEF StatsInv, StatsOf
  <2>7. /\ free_obj_count'[a] = SumOf(count', Mine(a) \cup {s})
        /\ slab_count'[a] = Cardinality(Mine(a) \cup {s})
    BY <1>4, <1>5, <2>2, <2>4, <2>5, <2>6, Zenon
  <2> QED BY <1>7, <2>7, Zenon DEF StatsOf
<1>9. ASSUME NEW b \in Allocator, b # a PROVE StatsOf(b)'
  <2>1. Mine(b)' = Mine(b)
    BY <1>1, <1>2, <1>4, <1>6, <1>9 DEF Mine
  <2>2. \A t \in Mine(b) : count'[t] = count[t]
    BY <1>2, <1>4, MineFinite, Zenon
  <2> QED BY <1>5, <1>9, <2>1, <2>2, StatsKept, Zenon
<1>10. IsFiniteSet(InUse')
  BY <1>1, FS_AddElement DEF StatsInv
<1> QED BY <1>5, <1>8, <1>9, <1>10 DEF StatsInv

\* The last object of a slab: the slab and all its objects go.
LEMMA FreeWholeSlabStats ==
  ASSUME IInv, StatsInv, NEW s, NEW i, FreeWholeSlab(s, i)
  PROVE  StatsInv'
<1>0. PICK a \in Allocator : a = owner[s]
  BY LiveObject, Zenon DEF FreeWholeSlab
<1>1. IInv' /\ InUse' = InUse \ {s}
  BY FreeWholeSlabStep
<1>2. s \in InUse /\ s \in Slab
  BY LiveObject, Zenon DEF FreeWholeSlab
<1>3. /\ owner' = owner
      /\ slab_count' = [slab_count EXCEPT ![a] = @ - 1]
      /\ free_obj_count' = [free_obj_count EXCEPT ![a] = @ + 1 - Objects[a]]
      /\ count' = [count EXCEPT ![s] = @ + 1] /\ count[s] + 1 = Objects[a]
      /\ Objects[a] \in Nat
  BY <1>0, Indices, Zenon DEF FreeWholeSlab
<1>4. \A t \in Slab \ {s} : count'[t] = count[t]
  BY <1>3 DEF IInv, TypeOK
<1>5. count[s] \in Nat
  BY <1>2 DEF IInv, TypeOK
<1>6. /\ free_obj_count'[a] = free_obj_count[a] - count[s] /\ free_obj_count[a] \in Int
      /\ slab_count'[a] = slab_count[a] - 1
      /\ \A b \in Allocator \ {a} : /\ free_obj_count'[b] = free_obj_count[b]
                                    /\ slab_count'[b] = slab_count[b]
      /\ free_obj_count' \in [Allocator -> Int] /\ slab_count' \in [Allocator -> Int]
  BY <1>3, <1>5 DEF StatsInv
<1>7. s \in Mine(a) /\ Mine(a)' = Mine(a) \ {s}
  BY <1>0, <1>1, <1>2, <1>3, Zenon DEF Mine
<1>8. StatsOf(a)'
  <2> DEFINE R == Mine(a) \ {s}
  <2>1. IsFiniteSet(Mine(a)) /\ \A t \in Mine(a) : t \in Slab /\ count[t] \in Nat
    BY MineFinite, Zenon
  <2>2. /\ IsFiniteSet(R) /\ Cardinality(R) = Cardinality(Mine(a)) - 1
        /\ s \notin R /\ R \cup {s} = Mine(a)
    BY <1>7, <2>1, FS_RemoveElement, Zenon
  <2>3. \A t \in R : count[t] \in Nat /\ count'[t] = count[t]
    BY <1>4, <2>1, Zenon
  <2> HIDE DEF R
  <2>4. SumOf(count', R) = SumOf(count, R)
    BY <2>2, <2>3, SumSame, Zenon
  <2>5. SumOf(count, R) \in Nat /\ SumOf(count, Mine(a)) = SumOf(count, R) + count[s]
    <3>1. \A t \in R \cup {s} : count[t] \in Nat
      BY <2>1, <2>2, Zenon
    <3>2. IsFiniteSet(R) /\ s \notin R
      BY <2>2, Zenon
    <3>3. SumOf(count, R) \in Nat /\ SumOf(count, R \cup {s}) = SumOf(count, R) + count[s]
      BY <3>1, <3>2, SumAdd, Zenon
    <3> QED BY <2>2, <3>3, Zenon
  <2>6. free_obj_count[a] = SumOf(count, Mine(a)) /\ slab_count[a] = Cardinality(Mine(a))
    BY DEF StatsInv, StatsOf
  <2>7. free_obj_count'[a] = SumOf(count', R) /\ slab_count'[a] = Cardinality(R)
    <3>1. \A x, y \in Nat : (x + y) - y = x
      OBVIOUS
    <3>2. free_obj_count'[a] = (SumOf(count, R) + count[s]) - count[s]
      BY <1>6, <2>5, <2>6, Zenon
    <3> QED BY <1>5, <1>6, <2>2, <2>4, <2>5, <2>6, <3>1, <3>2, Zenon
  <2> QED BY <1>7, <2>7, Zenon DEF StatsOf, R
<1>9. ASSUME NEW b \in Allocator, b # a PROVE StatsOf(b)'
  <2>1. Mine(b)' = Mine(b)
    BY <1>0, <1>1, <1>3, <1>9 DEF Mine
  <2>2. \A t \in Mine(b) : count'[t] = count[t]
    BY <1>0, <1>4, <1>9, MineFinite, Zenon
  <2> QED BY <1>6, <1>9, <2>1, <2>2, StatsKept, Zenon
<1>10. IsFiniteSet(InUse')
  BY <1>1, FS_RemoveElement DEF StatsInv
<1> QED BY <1>6, <1>8, <1>9, <1>10 DEF StatsInv

\* Every step keeps the counters right.
LEMMA StatsStep == IInv /\ StatsInv /\ [Next]_slabVars => StatsInv'
<1> SUFFICES ASSUME IInv, StatsInv, [Next]_slabVars PROVE StatsInv'
  OBVIOUS
<1>1. ASSUME NEW a \in Allocator, slab_alloc(a) PROVE StatsInv'
  BY <1>1, AllocFromListedStats, AllocFromNewStats DEF slab_alloc
<1>2. ASSUME UNCHANGED slabVars PROVE StatsInv'
  <2>1. /\ owner' = owner /\ count' = count /\ free_obj_count' = free_obj_count
        /\ slab_count' = slab_count /\ live' = live
    BY <1>2, Zenon DEF slabVars
  <2>2. InUse' = InUse
    BY <2>1, Zenon DEF InUse
  <2>3. ASSUME NEW a PROVE Mine(a)' = Mine(a)
    BY <2>1, <2>2, Zenon DEF Mine
  <2> QED BY <2>1, <2>2, <2>3, Zenon DEF StatsInv, StatsOf
<1>3. ASSUME NEW o \in live, slab_free(o[1], o[2]) PROVE StatsInv'
  BY <1>3, FreeToSlabStats, FreeWholeSlabStats DEF slab_free
<1>4. ASSUME NEW a \in Allocator, AllocFails(a) PROVE StatsInv'
  BY <1>2, <1>4 DEF AllocFails
<1> QED
  BY <1>1, <1>2, <1>3, <1>4 DEF Next

\* free_obj_count and slab_count of an allocator stay the sums over its slabs that
\* slab_alloc and slab_free update them towards.
THEOREM SlabStats == Spec => []StatsAgree
<1>1. Init => StatsInv
  <2> SUFFICES ASSUME Init PROVE StatsInv
    OBVIOUS
  <2>1. InUse = {} /\ \A a \in Allocator : Mine(a) = {}
    BY DEF Init, InUse, Mine
  <2>2. IsFiniteSet({}) /\ Cardinality({}) = 0
    BY FS_EmptySet
  <2>3. \A a \in Allocator : StatsOf(a)
    BY <2>1, <2>2, SumEmpty DEF Init, StatsOf
  <2> QED BY <2>1, <2>2, <2>3 DEF Init, StatsInv
<1>2. StatsInv => StatsAgree
  BY StatsInvAgree
<1> QED BY <1>1, <1>2, StatsStep, SlabInvariant, PTL DEF Spec

-----------------------------------------------------------------------------
(***************************************************************************)
(* kmalloc, krealloc and kfree for every set of requests, any number of    *)
(* slabs and any interleaving of calls.  The invariant of the slab         *)
(* allocators carries over, because a step of kmalloc is one of theirs; it *)
(* is what makes the object that krealloc moves to one that nobody holds.  *)
(* ObjectsHoldBuffers is not inductive without saying that the object a    *)
(* move goes to still holds what was asked, even on the last page of its   *)
(* slab: nobody resizes an object while it is being moved.                 *)
(***************************************************************************)

NewHolds == \A m \in moving : asked[m.new] <= SizeOf(m.new)

KInv == IInv /\ KTypeOK /\ HoldsWhatWasAsked /\ CopyCoversBuffer /\ NewHolds

\* The sixteen sizes after slab_allocator_init has rounded them.
LEMMA ClassSizes ==
  /\ DOMAIN SizeArgs = 1 .. 16
  /\ object_size(1) = 16 /\ object_size(2) = 32 /\ object_size(3) = 64 /\ object_size(4) = 96
  /\ object_size(5) = 128 /\ object_size(6) = 192 /\ object_size(7) = 256 /\ object_size(8) = 384
  /\ object_size(9) = 512 /\ object_size(10) = 768 /\ object_size(11) = 1024 /\ object_size(12) = 1536
  /\ object_size(13) = 2048 /\ object_size(14) = 4096 /\ object_size(15) = 6112 /\ object_size(16) = 8192
  BY DEF SizeArgs, object_size

\* The largest class is what kmalloc serves at most.
LEMMA LargestClass == object_size(16) = KMALLOC_MAX
  BY DEF SizeArgs, object_size, KMALLOC_MAX

\* There are sixteen size classes.
LEMMA ClassDomain == DOMAIN SizeArgs = 1 .. 16
  BY DEF SizeArgs

\* Sizes are numbers, whatever their class.
LEMMA SizesNat ==
  ASSUME NEW a \in DOMAIN SizeArgs
  PROVE  object_size(a) \in Nat /\ object_size(a) <= KMALLOC_MAX
  <1>1. a \in 1 .. 16
    BY ClassSizes
  <1>2. \/ a = 1 \/ a = 2 \/ a = 3 \/ a = 4 \/ a = 5 \/ a = 6 \/ a = 7 \/ a = 8
        \/ a = 9 \/ a = 10 \/ a = 11 \/ a = 12 \/ a = 13 \/ a = 14 \/ a = 15 \/ a = 16
    BY <1>1
  <1> QED BY <1>2, ClassSizes DEF KMALLOC_MAX

\* The largest size kmalloc serves is a number.
LEMMA LargestNat == KMALLOC_MAX \in Nat
  BY DEF KMALLOC_MAX

\* So is every size up to a number.
LEMMA Between == \A n \in Nat : \A i \in 1 .. n : i \in Nat
  OBVIOUS

\* kmalloc's loop ends at an allocator whose objects hold the request.
LEMMA ClassHolds ==
  ASSUME NEW size \in 1 .. KMALLOC_MAX
  PROVE  ClassOf(size) \in DOMAIN SizeArgs /\ size <= object_size(ClassOf(size))
  <1> DEFINE P(a) == object_size(a) >= size /\ \A b \in 1 .. (a - 1) : object_size(b) < size
  <1>0. KMALLOC_MAX \in Nat /\ size \in Nat
    BY LargestNat, Between, Zenon
  <1>1. \E a \in 1 .. 16 : P(a)
    <2>1. ASSUME NEW a \in 1 .. 16 PROVE object_size(a) \in Nat
      <3>1. a \in DOMAIN SizeArgs
        BY ClassDomain
      <3> QED BY <3>1, SizesNat
    <2>2. object_size(16) >= size
      <3>1. object_size(16) = KMALLOC_MAX
        BY LargestClass, Zenon
      <3> QED BY <1>0, <3>1
    <2> DEFINE S == {a \in 1 .. 16 : object_size(a) >= size}
    <2>3. 16 \in S /\ S \subseteq Nat
      BY <2>2
    <2>4. PICK a \in S : \A b \in S : ~(<<b, a>> \in OpToRel(<, Nat))
      <3> HIDE DEF S
      <3> QED BY <2>3, NatLessThanWellFounded, WFMin, Zenon
    <2>5. a \in 1 .. 16 /\ object_size(a) >= size
      OBVIOUS
    <2>6. ASSUME NEW b \in 1 .. (a - 1) PROVE object_size(b) < size
      <3>1. b \in 1 .. 16 /\ b < a /\ b \in Nat /\ a \in Nat
        BY <2>5
      <3>2. b \notin S
        BY <2>4, <3>1, Zenon DEF OpToRel
      <3>3. ~(object_size(b) >= size) /\ object_size(b) \in Nat
        BY <2>1, <3>1, <3>2
      <3> QED BY <1>0, <3>3
    <2> QED BY <2>5, <2>6
  <1>2. \E a \in DOMAIN SizeArgs : P(a)
    BY <1>1, ClassSizes
  <1>3. ClassOf(size) = CHOOSE a \in DOMAIN SizeArgs : P(a)
    BY DEF ClassOf
  <1> HIDE DEF P
  <1>4. ClassOf(size) \in DOMAIN SizeArgs /\ P(ClassOf(size))
    BY <1>2, <1>3
  <1>5. object_size(ClassOf(size)) >= size
    BY <1>4 DEF P
  <1>6. object_size(ClassOf(size)) \in Nat
    BY <1>4, SizesNat
  <1> QED BY <1>0, <1>4, <1>5, <1>6

\* slab_alloc returns an object nobody holds, of the allocator that was asked, and the
\* objects in use keep theirs.
LEMMA AllocGives ==
  ASSUME IInv, NEW a \in Allocator, slab_alloc(a)
  PROVE  \E o \in Slab \X Index :
           /\ o \notin live /\ live' = live \cup {o} /\ owner'[o[1]] = a
           /\ \A p \in live : owner'[p[1]] = owner[p[1]]
  <1>0. PICK s \in Slab : AllocFromListed(a, s) \/ AllocFromNew(a, s)
    BY DEF slab_alloc
  <1>1. CASE AllocFromListed(a, s)
    <2>1. s \in InUse /\ count[s] > 0 /\ owner[s] = a
      BY <1>1, Zenon DEF AllocFromListed, IInv, ListedIffPartial
    <2>2. PICK d \in [Of(a) -> 0 .. Objects[a]] : ChainDepth(s, d)
      BY <2>1, Zenon DEF IInv, FreeChain
    <2>3. first[s] \in FreeIn(s) /\ count[s] \in Nat
      <3>1. count[s] \in Nat /\ count[s] # 0
        BY <2>1, OwnedIndex
      <3> QED BY <2>2, <3>1, Zenon DEF ChainDepth
    <2>4. first[s] \in Of(a) /\ <<s, first[s]>> \notin live
      BY <2>1, <2>3, Zenon DEF FreeIn
    <2>5. first[s] \in Index /\ first[s] # Null
      BY <2>4, Indices
    <2>6. live' = live \cup {<<s, first[s]>>} /\ owner' = owner
      BY <1>1, <2>5, Zenon DEF AllocFromListed
    <2>7. <<s, first[s]>> \in Slab \X Index
      BY <2>5
    <2> QED BY <2>1, <2>4, <2>6, <2>7, Zenon
  <1>2. CASE AllocFromNew(a, s)
    <2>1. s \notin InUse
      BY <1>2, Zenon DEF AllocFromNew, IInv, InUseWell
    <2>2. 0 \in Index
      <3>1. 0 \in Of(a) /\ Of(a) \subseteq Index
        BY Indices
      <3> QED BY <3>1
    <2>3. live' = live \cup {<<s, 0>>} /\ owner' = [owner EXCEPT ![s] = a]
      BY <1>2, Zenon DEF AllocFromNew
    <2>4. \A p \in live : p[1] \in Slab /\ p[2] \in Index /\ p[1] # s /\ p # <<s, 0>>
      <3> TAKE p \in live
      <3>1. p[1] \in Slab /\ p[2] \in Index /\ p = <<p[1], p[2]>>
        BY DEF IInv, TypeOK
      <3>2. p[1] \in InUse
        BY <3>1 DEF InUse
      <3> QED BY <2>1, <3>1, <3>2
    <2>5. owner'[s] = a /\ \A p \in live : owner'[p[1]] = owner[p[1]]
      BY <2>3, <2>4 DEF IInv, TypeOK
    <2>6. <<s, 0>> \in Slab \X Index
      BY <2>2
    <2> QED BY <2>3, <2>4, <2>5, <2>6, Zenon
  <1> QED BY <1>0, <1>1, <1>2, Zenon

\* slab_free takes exactly the object it is given out of use.
LEMMA FreeTakes ==
  ASSUME IInv, NEW o \in live, slab_free(o[1], o[2])
  PROVE  live' = live \ {o} /\ owner' = owner
  <1>1. o = <<o[1], o[2]>>
    BY DEF IInv, TypeOK
  <1> QED BY <1>1, Zenon DEF slab_free, FreeToSlab, FreeWholeSlab

\* The size and the page of an object depend on the owner of its slab alone.
LEMMA SameObject ==
  ASSUME NEW o, owner'[o[1]] = owner[o[1]]
  PROVE  SizeOf(o)' = SizeOf(o) /\ OnLastPage(o)' = OnLastPage(o)
  BY Zenon DEF SizeOf, OnLastPage

\* Objects in use have a class, hence a size.
LEMMA LiveSize ==
  ASSUME RealClasses, IInv, NEW o \in live
  PROVE  SizeOf(o) \in Nat
  <1>1. o[1] \in Slab /\ o[2] \in Index /\ o = <<o[1], o[2]>>
    BY DEF IInv, TypeOK
  <1>2. owner[o[1]] \in Allocator
    BY <1>1, LiveObject
  <1> QED BY <1>2, SizesNat DEF RealClasses, SizeOf

\* What a successful allocation for size does to the state of kmalloc.
LEMMA AllocateGives ==
  ASSUME RealClasses, RequestsServed, IInv, KTypeOK, NEW size \in Requests, Allocate(size)
  PROVE  \E n : /\ n \notin live /\ live' = live \cup {n} /\ IInv'
                /\ \A p \in live : owner'[p[1]] = owner[p[1]] /\ asked'[p] = asked[p]
                /\ DOMAIN asked' = live' /\ asked'[n] = size /\ size \in Nat \ {0}
                /\ size <= SizeOf(n)' /\ SizeOf(n)' \in Nat
  <1>1. size \in 1 .. KMALLOC_MAX /\ ClassOf(size) \in Allocator /\ slab_alloc(ClassOf(size))
    BY DEF Allocate, RequestsServed
  <1>2. PICK n \in Slab \X Index :
           /\ n \notin live /\ live' = live \cup {n} /\ owner'[n[1]] = ClassOf(size)
           /\ \A p \in live : owner'[p[1]] = owner[p[1]]
    BY <1>1, AllocGives, Zenon
  <1>3. IInv'
    BY <1>1, SlabStep DEF Next
  <1>4. /\ DOMAIN asked' = live' /\ asked'[n] = size
        /\ \A p \in live : asked'[p] = asked[p]
    BY <1>2, Zenon DEF Allocate
  <1>5. size <= SizeOf(n)' /\ SizeOf(n)' \in Nat
    BY <1>1, <1>2, ClassHolds, SizesNat, Zenon DEF SizeOf
  <1>6. size \in Nat \ {0}
    <2>1. KMALLOC_MAX \in Nat
      BY DEF KMALLOC_MAX
    <2> QED BY <1>1, <2>1
  <1> QED BY <1>2, <1>3, <1>4, <1>5, <1>6, Zenon

\* An object that is taken for a step of krealloc or kfree is in use and not being moved.
LEMMA IdleObject ==
  ASSUME KTypeOK, NEW o \in Idle
  PROVE  o \in live /\ \A m \in moving : m.old # o /\ m.new # o
  BY DEF Idle

\* A successful allocation keeps what is said of the objects in use and of the moves
\* under way.
LEMMA AllocateKeeps ==
  ASSUME RealClasses, RequestsServed, KInv, NEW size \in Requests, NEW n, n \notin live,
         live' = live \cup {n}, IInv', DOMAIN asked' = live', asked'[n] = size, size \in Nat \ {0},
         \A p \in live : owner'[p[1]] = owner[p[1]] /\ asked'[p] = asked[p], size <= SizeOf(n)'
  PROVE  /\ \A o \in live' : asked'[o] \in Nat \ {0}
         /\ HoldsWhatWasAsked'
         /\ \A m \in moving : /\ m.old \in live /\ m.new \in live /\ m.old # n /\ m.new # n
                              /\ \/ OnLastPage(m.old)'
                                 \/ /\ asked'[m.old] <= m.copied /\ m.copied <= SizeOf(m.old)'
                                    /\ m.copied < SizeOf(m.new)'
                              /\ asked'[m.new] <= SizeOf(m.new)'
  <1>1. \A p \in live : SizeOf(p)' = SizeOf(p) /\ OnLastPage(p)' = OnLastPage(p) /\ asked'[p] = asked[p]
    BY SameObject, Zenon
  <1>2. HoldsWhatWasAsked'
    <2> SUFFICES ASSUME NEW o \in live' PROVE OnLastPage(o)' \/ asked'[o] <= SizeOf(o)'
      BY DEF HoldsWhatWasAsked
    <2>1. CASE o = n
      BY <2>1, Zenon
    <2>2. CASE o \in live
      BY <1>1, <2>2, Zenon DEF KInv, HoldsWhatWasAsked
    <2> QED BY <2>1, <2>2, Zenon
  <1>3. \A o \in live' : asked'[o] \in Nat \ {0}
    BY <1>1, Zenon DEF KInv, KTypeOK
  <1>4. \A m \in moving : m.old \in live /\ m.new \in live /\ m.old # n /\ m.new # n
    BY DEF KInv, KTypeOK
  <1>5. ASSUME NEW m \in moving
        PROVE  /\ \/ OnLastPage(m.old)'
                  \/ /\ asked'[m.old] <= m.copied /\ m.copied <= SizeOf(m.old)'
                     /\ m.copied < SizeOf(m.new)'
               /\ asked'[m.new] <= SizeOf(m.new)'
    BY <1>1, <1>4, Zenon DEF KInv, CopyCoversBuffer, NewHolds
  <1> QED BY <1>2, <1>3, <1>4, <1>5, Zenon

\* Freeing an object that no move holds, or the old one of a move that ends, keeps what
\* is said of the other objects and moves.
LEMMA KfreeKeeps ==
  ASSUME RealClasses, KInv, NEW o \in live, kfree(o), NEW M \in SUBSET moving, moving' = M,
         \A m \in M : m.old # o /\ m.new # o
  PROVE  KInv' /\ live' = live \ {o} /\ \A p \in live' : SizeOf(p)' = SizeOf(p) /\ asked'[p] = asked[p]
  <1>1. live' = live \ {o} /\ owner' = owner
    BY FreeTakes DEF kfree, KInv
  <1>2. IInv'
    BY SlabStep DEF kfree, KInv, Next
  <1>3. DOMAIN asked' = live' /\ \A p \in live' : asked'[p] = asked[p]
    BY DEF kfree
  <1>4. \A p : SizeOf(p)' = SizeOf(p) /\ OnLastPage(p)' = OnLastPage(p)
    BY <1>1, SameObject, Zenon
  <1>5. KTypeOK'
    BY <1>1, <1>3, Zenon DEF KInv, KTypeOK
  <1>6. HoldsWhatWasAsked'
    BY <1>1, <1>3, <1>4, Zenon DEF KInv, HoldsWhatWasAsked
  <1>7. \A m \in M : m.old \in live' /\ m.new \in live'
    BY <1>1, Zenon DEF KInv, KTypeOK
  <1>8. CopyCoversBuffer' /\ NewHolds'
    BY <1>3, <1>4, <1>7, Zenon DEF KInv, CopyCoversBuffer, NewHolds
  <1> QED BY <1>1, <1>2, <1>3, <1>4, <1>5, <1>6, <1>8, Zenon DEF KInv

\* Before the first call nothing is in use.
LEMMA KInitInv == KInit => KInv
  <1> SUFFICES ASSUME KInit PROVE KInv
    OBVIOUS
  <1>1. IInv /\ live = {} /\ asked = <<>> /\ moving = {}
    BY SlabInit DEF KInit, Init
  <1> QED BY <1>1 DEF KInv, KTypeOK, HoldsWhatWasAsked, CopyCoversBuffer, NewHolds

\* Every call, and every step of krealloc, keeps the invariant.
LEMMA KStep ==
  ASSUME RealClasses, RequestsServed, KInv, [KNext]_kmallocVars
  PROVE  KInv'
  <1>0. IInv /\ KTypeOK /\ HoldsWhatWasAsked /\ CopyCoversBuffer /\ NewHolds
    BY DEF KInv
  <1>1. ASSUME UNCHANGED kmallocVars PROVE KInv'
    <2>1. IInv'
      BY <1>0, <1>1, SlabStep DEF kmallocVars
    <2>2. /\ owner' = owner /\ live' = live /\ asked' = asked /\ moving' = moving
      BY <1>1 DEF kmallocVars, slabVars
    <2>3. \A o : SizeOf(o)' = SizeOf(o) /\ OnLastPage(o)' = OnLastPage(o)
      BY <2>2, SameObject
    <2> QED BY <1>0, <2>1, <2>2, <2>3, Zenon DEF KInv, KTypeOK, HoldsWhatWasAsked, CopyCoversBuffer, NewHolds
  <1>2. ASSUME NEW size \in Requests, kmalloc(size) PROVE KInv'
    <2>1. PICK n : /\ n \notin live /\ live' = live \cup {n} /\ IInv'
                   /\ \A p \in live : owner'[p[1]] = owner[p[1]] /\ asked'[p] = asked[p]
                   /\ DOMAIN asked' = live' /\ asked'[n] = size /\ size \in Nat \ {0}
                   /\ size <= SizeOf(n)' /\ SizeOf(n)' \in Nat
      BY <1>0, <1>2, AllocateGives, Zenon DEF kmalloc
    <2>2. moving' = moving
      BY <1>2 DEF kmalloc
    <2>3. /\ \A o \in live' : asked'[o] \in Nat \ {0}
          /\ HoldsWhatWasAsked'
          /\ \A m \in moving : /\ m.old \in live /\ m.new \in live /\ m.old # n /\ m.new # n
                               /\ \/ OnLastPage(m.old)'
                                  \/ /\ asked'[m.old] <= m.copied /\ m.copied <= SizeOf(m.old)'
                                     /\ m.copied < SizeOf(m.new)'
                               /\ asked'[m.new] <= SizeOf(m.new)'
      BY <2>1, AllocateKeeps, Zenon
    <2>4. KTypeOK'
      BY <1>0, <2>1, <2>2, <2>3, Zenon DEF KTypeOK
    <2>5. CopyCoversBuffer' /\ NewHolds'
      BY <2>2, <2>3, Zenon DEF CopyCoversBuffer, NewHolds
    <2> QED BY <2>1, <2>3, <2>4, <2>5, Zenon DEF KInv
  <1>3. ASSUME NEW size \in Requests, Refused(size) PROVE KInv'
    BY <1>1, <1>3 DEF Refused
  <1>4. ASSUME NEW o \in Idle, kfree(o), UNCHANGED moving PROVE KInv'
    <2>1. o \in live /\ \A m \in moving : m.old # o /\ m.new # o
      BY <1>0, IdleObject
    <2> QED BY <1>4, <2>1, KfreeKeeps, Zenon
  <1>5. ASSUME NEW o \in Idle, NEW size \in Requests, KreallocInPlace(o, size) PROVE KInv'
    <2>1. o \in live /\ \A m \in moving : m.old # o /\ m.new # o
      BY <1>0, IdleObject
    <2>2. /\ size \in Nat \ {0} /\ asked' = [asked EXCEPT ![o] = size] /\ UNCHANGED slabVars
          /\ owner' = owner /\ live' = live /\ moving' = moving /\ DOMAIN asked = live
      BY <1>0, <1>5 DEF KreallocInPlace, slabVars, RequestsServed, KTypeOK
    <2>3. IInv'
      BY <1>0, <2>2, SlabStep
    <2>4. \A p : SizeOf(p)' = SizeOf(p) /\ OnLastPage(p)' = OnLastPage(p)
      BY <2>2, SameObject, Zenon
    <2>5. DOMAIN asked' = live /\ asked'[o] = size /\ \A p \in live \ {o} : asked'[p] = asked[p]
      BY <2>1, <2>2
    <2>6. OnLastPage(o) \/ size <= SizeOf(o)
      BY <1>5 DEF KreallocInPlace, slab_object_size
    <2>7. KTypeOK'
      BY <1>0, <2>2, <2>5, Zenon DEF KTypeOK
    <2>8. HoldsWhatWasAsked'
      BY <1>0, <2>2, <2>4, <2>5, <2>6 DEF HoldsWhatWasAsked
    <2>9. \A m \in moving : asked'[m.old] = asked[m.old] /\ asked'[m.new] = asked[m.new]
      BY <1>0, <2>1, <2>5, Zenon DEF KTypeOK
    <2>10. CopyCoversBuffer' /\ NewHolds'
      BY <1>0, <2>2, <2>4, <2>9, Zenon DEF CopyCoversBuffer, NewHolds
    <2> QED BY <2>3, <2>7, <2>8, <2>10 DEF KInv
  <1>6. ASSUME NEW o \in Idle, NEW size \in Requests, KreallocMove(o, size) PROVE KInv'
    <2>1. o \in live /\ \A m \in moving : m.old # o /\ m.new # o
      BY <1>0, IdleObject
    <2>2. PICK buffer_size \in slab_object_size(o) :
            /\ size > buffer_size /\ Allocate(size)
            /\ moving' = moving \cup {[old |-> o, new |-> n, copied |-> buffer_size] : n \in live' \ live}
      BY <1>6, Zenon DEF KreallocMove
    <2>3. PICK n : /\ n \notin live /\ live' = live \cup {n} /\ IInv'
                   /\ \A p \in live : owner'[p[1]] = owner[p[1]] /\ asked'[p] = asked[p]
                   /\ DOMAIN asked' = live' /\ asked'[n] = size /\ size \in Nat \ {0}
                   /\ size <= SizeOf(n)' /\ SizeOf(n)' \in Nat
      BY <1>0, <2>2, AllocateGives, Zenon
    <2>4. /\ \A p \in live' : asked'[p] \in Nat \ {0}
          /\ HoldsWhatWasAsked'
          /\ \A m \in moving : /\ m.old \in live /\ m.new \in live /\ m.old # n /\ m.new # n
                               /\ \/ OnLastPage(m.old)'
                                  \/ /\ asked'[m.old] <= m.copied /\ m.copied <= SizeOf(m.old)'
                                     /\ m.copied < SizeOf(m.new)'
                               /\ asked'[m.new] <= SizeOf(m.new)'
      BY <2>3, AllocateKeeps, Zenon
    <2> DEFINE new == [old |-> o, new |-> n, copied |-> buffer_size]
    <2>5. moving' = moving \cup {new} /\ new.old = o /\ new.new = n /\ new.copied = buffer_size
      <3>1. live' \ live = {n}
        BY <2>3, Zenon
      <3>2. moving' = moving \cup {[old |-> o, new |-> k, copied |-> buffer_size] : k \in {n}}
        BY <2>2, <3>1, Zenon
      <3> QED BY <3>2, Zenon
    <2> HIDE DEF new
    <2>6. KTypeOK'
      <3>1. DOMAIN asked' = live' /\ \A p \in live' : asked'[p] \in Nat \ {0}
        BY <2>3, <2>4, Zenon
      <3>2. \A m \in moving' : m.old \in live' /\ m.new \in live' /\ m.old # m.new
        BY <1>0, <2>1, <2>3, <2>5, Zenon DEF KTypeOK
      <3>3. \A m \in moving : {m.old, m.new} \cap {new.old, new.new} = {}
        BY <2>1, <2>4, <2>5, Zenon
      <3>4. \A m, k \in moving' : m # k => {m.old, m.new} \cap {k.old, k.new} = {}
        BY <1>0, <2>5, <3>3, Zenon DEF KTypeOK
      <3> QED BY <3>1, <3>2, <3>4, Zenon DEF KTypeOK
    <2>7. \/ OnLastPage(o)'
          \/ /\ asked'[o] <= buffer_size /\ buffer_size <= SizeOf(o)'
             /\ buffer_size < SizeOf(n)'
      <3>1. OnLastPage(o)' = OnLastPage(o) /\ SizeOf(o)' = SizeOf(o) /\ asked'[o] = asked[o]
        BY <2>1, <2>3, SameObject, Zenon
      <3>2. CASE OnLastPage(o)
        BY <3>1, <3>2
      <3>3. CASE ~OnLastPage(o)
        <4>1. buffer_size = SizeOf(o) /\ asked[o] <= SizeOf(o)
          BY <1>0, <2>1, <3>3, Zenon DEF slab_object_size, HoldsWhatWasAsked
        <4>2. SizeOf(o) \in Nat /\ SizeOf(n)' \in Nat
          <5>1. SizeOf(o) \in Nat
            BY <1>0, <2>1, LiveSize
          <5>2. SizeOf(n)' \in Nat
            BY <2>3, Zenon
          <5> QED BY <5>1, <5>2
        <4>3. buffer_size < size /\ size <= SizeOf(n)' /\ size \in Nat
          BY <2>2, <2>3, <4>1, <4>2, Zenon
        <4>4. buffer_size < SizeOf(n)'
          BY <4>1, <4>2, <4>3
        <4> QED BY <3>1, <4>1, <4>2, <4>4
      <3> QED BY <3>2, <3>3
    <2>8. CopyCoversBuffer' /\ NewHolds'
      <3>1. SizeOf(n)' >= size /\ asked'[n] = size
        BY <2>3, Zenon
      <3>2. CopyCoversBuffer'
        BY <2>4, <2>5, <2>7, Zenon DEF CopyCoversBuffer
      <3>3. NewHolds'
        BY <2>3, <2>4, <2>5, Zenon DEF NewHolds
      <3> QED BY <3>2, <3>3
    <2> QED BY <2>3, <2>4, <2>6, <2>8, Zenon DEF KInv
  <1>7. ASSUME NEW m \in moving, KreallocFinish(m) PROVE KInv'
    <2>1. m.old \in live /\ \A k \in moving \ {m} : k.old # m.old /\ k.new # m.old
      BY <1>0, Zenon DEF KTypeOK
    <2>2. kfree(m.old) /\ moving' = moving \ {m}
      BY <1>7 DEF KreallocFinish
    <2> QED BY <2>1, <2>2, KfreeKeeps, Zenon
  <1> QED BY <1>1, <1>2, <1>3, <1>4, <1>5, <1>6, <1>7 DEF KNext

\* For any requests, slabs and interleaving of calls: every object in use holds what
\* was asked for it, and krealloc copies all that was stored and nothing beyond either
\* object, unless the object starts on the last page of its slab (slab_object_size).
THEOREM BuffersHeld == RealClasses /\ RequestsServed /\ KSpec => []ObjectsHoldBuffers
  <1> SUFFICES ASSUME RealClasses, RequestsServed PROVE KSpec => []ObjectsHoldBuffers
    OBVIOUS
  <1>1. KInit => KInv
    BY KInitInv
  <1>2. KInv /\ [KNext]_kmallocVars => KInv'
    BY KStep
  <1>3. KInv => ObjectsHoldBuffers
    BY DEF KInv, ObjectsHoldBuffers
  <1> QED BY <1>1, <1>2, <1>3, PTL DEF KSpec

\* krealloc gives up an object only when the one it moved the contents to is in use and
\* as large as what was asked for: the memcpy comes before the kfree, and nobody frees
\* or resizes the new object in between.
THEOREM MovesKeepBuffers == RealClasses /\ RequestsServed /\ KSpec => MoveKeepsBuffer
  <1> SUFFICES ASSUME RealClasses, RequestsServed PROVE KSpec => MoveKeepsBuffer
    OBVIOUS
  <1>1. KInit => KInv
    BY KInitInv
  <1>2. KInv /\ [KNext]_kmallocVars => KInv'
    BY KStep
  <1>3. ASSUME KInv, KNext
        PROVE  \A m \in moving : m \notin moving' =>
                 /\ m.old \notin live' /\ m.new \in live' /\ asked'[m.new] <= SizeOf(m.new)
    <2> TAKE m \in moving
    <2>1. CASE m \in moving'
      BY <2>1
    <2>2. CASE KreallocFinish(m) /\ m \notin moving'
      <3>1. m.old \in live /\ m.new \in live /\ m.old # m.new
        BY <1>3 DEF KInv, KTypeOK
      <3>2. \A k \in moving \ {m} : k.old # m.old /\ k.new # m.old
        BY <1>3, Zenon DEF KInv, KTypeOK
      <3>3. live' = live \ {m.old} /\ \A p \in live' : asked'[p] = asked[p]
        <4>1. kfree(m.old) /\ moving' = moving \ {m} /\ KInv
          BY <1>3, <2>2, Zenon DEF KreallocFinish
        <4> QED BY <3>1, <3>2, <4>1, KfreeKeeps, Zenon
      <3> QED BY <1>3, <3>1, <3>3 DEF KInv, NewHolds
    <2>3. \/ m \in moving' \/ KreallocFinish(m)
      <3>1. ASSUME NEW size \in Requests, kmalloc(size) \/ Refused(size) PROVE moving' = moving
        BY <3>1 DEF kmalloc, Refused, kmallocVars
      <3>2. ASSUME NEW o \in Idle, NEW size \in Requests, KreallocInPlace(o, size) \/ KreallocMove(o, size)
            PROVE  moving \subseteq moving'
        BY <3>2 DEF KreallocInPlace, KreallocMove
      <3>3. ASSUME NEW k \in moving, KreallocFinish(k)
            PROVE  m \in moving' \/ KreallocFinish(m)
        <4>1. moving' = moving \ {k}
          BY <3>3 DEF KreallocFinish
        <4>2. CASE k = m
          BY <3>3, <4>2
        <4>3. CASE k # m
          BY <4>1, <4>3
        <4> QED BY <4>2, <4>3
      <3> QED BY <1>3, <3>1, <3>2, <3>3 DEF KNext
    <2> QED BY <2>1, <2>2, <2>3
  <1>4. ASSUME KInv, [KNext]_kmallocVars
        PROVE  [\A m \in moving : m \notin moving' =>
                  /\ m.old \notin live' /\ m.new \in live' /\ asked'[m.new] <= SizeOf(m.new)]_kmallocVars
    BY <1>3, <1>4
  <1> QED BY <1>1, <1>2, <1>4, PTL DEF KSpec, MoveKeepsBuffer
=============================================================================
