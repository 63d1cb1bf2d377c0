------------------------------ MODULE Induction ------------------------------
(***************************************************************************)
(* Induction stated about sets, so that it can be cited for a set that a   *)
(* proof defines: over the natural numbers, over 0..N, and over the        *)
(* subsets of a finite set; and what follows from it about orders and sums *)
(* over finite sets, and about sequences of sequences.                     *)
(***************************************************************************)
EXTENDS Integers, SequencesExt, FiniteSetTheorems, SequenceTheorems,
        WellFoundedInduction, TLAPS

\* A set of natural numbers has a least element.
LEMMA LeastElement ==
  ASSUME NEW T, T \subseteq Nat, T # {}
  PROVE  \E n \in T : \A m \in T : n <= m
<1> DEFINE R == OpToRel(<, Nat)
<1>1. IsWellFoundedOn(R, Nat)
  BY NatLessThanWellFounded
<1>2. PICK n \in T : \A m \in T : <<m, n>> \notin R
  <2> HIDE DEF R
  <2> QED
    BY <1>1, WFMin
<1>3. \A m \in T : ~(m < n)
  BY <1>2 DEF OpToRel
<1> QED
  BY <1>3

\* Induction over the natural numbers.
LEMMA SetInduction ==
  ASSUME NEW T, 0 \in T, \A n \in Nat : n \in T => n + 1 \in T
  PROVE  \A n \in Nat : n \in T
<1> DEFINE U == {n \in Nat : n \notin T}
<1> SUFFICES ASSUME U # {} PROVE FALSE
  OBVIOUS
<1>1. PICK n \in U : \A m \in U : n <= m
  <2>1. U \subseteq Nat
    OBVIOUS
  <2> HIDE DEF U
  <2> QED
    BY <2>1, LeastElement
<1>2. n # 0 /\ n \in Nat /\ n \notin T
  BY <1>1
<1>3. n - 1 \in Nat /\ n - 1 \in T
  BY <1>1, <1>2
<1> QED
  BY <1>2, <1>3

\* Induction over 0..N.
LEMMA UpToInduction ==
  ASSUME NEW N \in Nat, NEW T, 0 \in T,
         \A n \in 0..(N - 1) : n \in T => n + 1 \in T
  PROVE  \A n \in 0..N : n \in T
<1> DEFINE U == {n \in Nat : n <= N => n \in T}
<1>1. 0 \in U /\ \A n \in Nat : n \in U => n + 1 \in U
  OBVIOUS
<1>2. \A n \in Nat : n \in U
  <2> HIDE DEF U
  <2> QED
    BY <1>1, SetInduction
<1> QED
  BY <1>2

\* Induction over the subsets of a finite set.
LEMMA SubsetInduction ==
  ASSUME NEW S, IsFiniteSet(S), NEW P, {} \in P,
         \A T \in SUBSET S : \A x \in S \ T : T \in P => T \cup {x} \in P
  PROVE  \A T \in SUBSET S : T \in P
<1> DEFINE N == {n \in Nat : \A T \in SUBSET S : Cardinality(T) = n => T \in P}
<1>1. \A T \in SUBSET S : IsFiniteSet(T) /\ Cardinality(T) \in Nat
  BY FS_Subset, FS_CardinalityType
<1>2. 0 \in N
  BY <1>1, FS_EmptySet
<1>3. ASSUME NEW n \in Nat, n \in N PROVE n + 1 \in N
  <2> SUFFICES ASSUME NEW T \in SUBSET S, Cardinality(T) = n + 1 PROVE T \in P
    OBVIOUS
  <2>1. IsFiniteSet(T) /\ T # {}
    BY <1>1, FS_EmptySet
  <2>2. PICK x \in T : TRUE
    BY <2>1
  <2>3. Cardinality(T \ {x}) = Cardinality(T) - 1
    BY <2>1, FS_RemoveElement
  <2>4. T \ {x} \in P
    BY <1>3, <2>3
  <2>5. T = (T \ {x}) \cup {x} /\ x \in S \ (T \ {x}) /\ T \ {x} \in SUBSET S
    BY <2>2
  <2> QED
    BY <2>4, <2>5
<1>4. \A n \in Nat : n \in N
  <2> HIDE DEF N
  <2> QED
    BY <1>2, <1>3, SetInduction
<1> QED
  BY <1>1, <1>4

\* A finite set that is not empty has a first element in every total order,
\* given as a set of pairs.
LEMMA FirstElement ==
  ASSUME NEW S, IsFiniteSet(S), NEW R,
         \A x, y \in S : <<x, y>> \in R \/ <<y, x>> \in R,
         \A x, y, z \in S : <<x, y>> \in R /\ <<y, z>> \in R => <<x, z>> \in R
  PROVE  \A T \in SUBSET S : T # {} => \E x \in T : \A y \in T : <<x, y>> \in R
<1> DEFINE P == {T \in SUBSET S : T # {} => \E x \in T : \A y \in T : <<x, y>> \in R}
<1>1. {} \in P
  OBVIOUS
<1>2. ASSUME NEW T \in SUBSET S, NEW z \in S \ T, T \in P
      PROVE  T \cup {z} \in P
  <2>1. CASE T = {}
    BY <2>1
  <2>2. CASE T # {}
    <3>1. PICK x \in T : \A y \in T : <<x, y>> \in R
      BY <1>2, <2>2
    <3>2. CASE <<x, z>> \in R
      BY <3>1, <3>2
    <3>3. CASE <<z, x>> \in R
      <4>1. \A y \in T : <<z, y>> \in R
        BY <3>1, <3>3
      <4>2. <<z, z>> \in R
        OBVIOUS
      <4> QED
        BY <4>1, <4>2
    <3> QED
      BY <3>2, <3>3
  <2> QED
    BY <2>1, <2>2
<1>3. \A T \in SUBSET S : T \in P
  <2> HIDE DEF P
  <2> QED
    BY <1>1, <1>2, SubsetInduction
<1> QED
  BY <1>3

-----------------------------------------------------------------------------
(* Folds over finite sets *)

\* Induction along the elements a choice c takes away.
LEMMA RemovalInduction ==
  ASSUME NEW S, IsFiniteSet(S), NEW c, \A T \in SUBSET S : T # {} => c[T] \in T,
         NEW P, {} \in P,
         \A T \in SUBSET S : T # {} /\ T \ {c[T]} \in P => T \in P
  PROVE  \A T \in SUBSET S : T \in P
<1> DEFINE N == {n \in Nat : \A T \in SUBSET S : Cardinality(T) = n => T \in P}
<1>1. \A T \in SUBSET S : IsFiniteSet(T) /\ Cardinality(T) \in Nat
  BY FS_Subset, FS_CardinalityType
<1>2. 0 \in N
  BY <1>1, FS_EmptySet
<1>3. ASSUME NEW n \in Nat, n \in N PROVE n + 1 \in N
  <2> SUFFICES ASSUME NEW T \in SUBSET S, Cardinality(T) = n + 1 PROVE T \in P
    OBVIOUS
  <2>1. IsFiniteSet(T) /\ T # {} /\ c[T] \in T
    BY <1>1, FS_EmptySet
  <2>2. Cardinality(T \ {c[T]}) = Cardinality(T) - 1
    BY <2>1, FS_RemoveElement
  <2>3. T \ {c[T]} \in P
    BY <1>3, <2>2
  <2> QED
    BY <2>1, <2>3
<1>4. \A n \in Nat : n \in N
  <2> HIDE DEF N
  <2> QED
    BY <1>2, <1>3, SetInduction
<1> QED
  BY <1>1, <1>4

\* A choice of an element of every set, an operation on a set of values A, and
\* the fold of the operation.
Chooses(c, S) == \A T \in SUBSET S : T # {} => c[T] \in T
Operates(step, S, A) == \A x \in S : \A a \in A : step[<<x, a>>] \in A
IsFold(g, S, c, base, step) ==
  \A T \in SUBSET S :
    g[T] = IF T = {} THEN base ELSE step[<<c[T], g[T \ {c[T]}]>>]

\* P holds along the elements that c takes away.
Removes(P, S, c) ==
  {} \in P /\ \A T \in SUBSET S : T # {} /\ T \ {c[T]} \in P => T \in P

LEMMA FoldInduction ==
  ASSUME NEW S, IsFiniteSet(S), NEW c, Chooses(c, S), NEW P, Removes(P, S, c)
  PROVE  S \in P
<1>1. \A T \in SUBSET S : T # {} => c[T] \in T
  BY DEF Chooses
<1>2. {} \in P /\ \A T \in SUBSET S : T # {} /\ T \ {c[T]} \in P => T \in P
  BY DEF Removes
<1>3. \A T \in SUBSET S : T \in P
  BY <1>1, <1>2, RemovalInduction
<1> QED
  BY <1>3

\* The function that MapThenFoldSet chooses exists when the operation is total
\* on some set of values.
LEMMA FoldExists ==
  ASSUME NEW S, IsFiniteSet(S), NEW c, Chooses(c, S), NEW A, NEW base \in A,
         NEW step, Operates(step, S, A)
  PROVE  \E g \in [SUBSET S -> A] : IsFold(g, S, c, base, step)
<1> USE DEF Chooses, Operates
<1> DEFINE Next(g) == [T \in SUBSET S |->
                         IF T = {} THEN base ELSE step[<<c[T], g[T \ {c[T]}]>>]]
           UpTo(g, n) == \A T \in SUBSET S : Cardinality(T) <= n =>
                           g[T] = Next(g)[T] /\ g[T] \in A
           N == {n \in Nat : \E g : UpTo(g, n)}
<1>1. \A T \in SUBSET S : IsFiniteSet(T) /\ Cardinality(T) \in Nat
  BY FS_Subset, FS_CardinalityType
<1>2. 0 \in N
  <2> DEFINE g == [T \in SUBSET S |-> base]
  <2>1. \A T \in SUBSET S : Cardinality(T) <= 0 => T = {}
    BY <1>1, FS_EmptySet
  <2>2. UpTo(g, 0)
    BY <2>1
  <2> QED
    BY <2>2
<1>3. ASSUME NEW n \in Nat, n \in N PROVE n + 1 \in N
  <2>1. PICK g : UpTo(g, n)
    BY <1>3
  <2> DEFINE h == Next(g)
  <2>2. ASSUME NEW T \in SUBSET S, Cardinality(T) <= n + 1, T # {}
        PROVE  h[T] = Next(h)[T] /\ h[T] \in A
    <3> DEFINE U == T \ {c[T]}
    <3>1. U \in SUBSET S /\ Cardinality(U) <= n /\ c[T] \in S
      BY <1>1, <2>2, FS_RemoveElement
    <3>2. g[U] = Next(g)[U] /\ g[U] \in A
      BY <2>1, <3>1
    <3>3. h[T] = step[<<c[T], g[U]>>] /\ Next(h)[T] = step[<<c[T], h[U]>>]
      BY <2>2
    <3> QED
      BY <3>1, <3>2, <3>3
  <2>3. h[{}] = base /\ Next(h)[{}] = base
    OBVIOUS
  <2>4. UpTo(h, n + 1)
    BY <2>2, <2>3
  <2> HIDE DEF UpTo
  <2> QED
    BY <2>4
<1>4. \A n \in Nat : n \in N
  <2> HIDE DEF N
  <2> QED
    BY <1>2, <1>3, SetInduction
<1>5. PICK g : UpTo(g, Cardinality(S))
  BY <1>1, <1>4
<1> DEFINE h == Next(g)
<1>6. \A T \in SUBSET S : Cardinality(T) <= Cardinality(S)
  BY FS_Subset
<1>7. \A T \in SUBSET S : g[T] = h[T] /\ g[T] \in A
  BY <1>5, <1>6
<1>8. ASSUME NEW T \in SUBSET S
      PROVE  h[T] = IF T = {} THEN base ELSE step[<<c[T], h[T \ {c[T]}]>>]
  <2>1. T # {} => g[T \ {c[T]}] = h[T \ {c[T]}]
    BY <1>7
  <2>2. h[T] = IF T = {} THEN base ELSE step[<<c[T], g[T \ {c[T]}]>>]
    OBVIOUS
  <2> QED
    BY <2>1, <2>2
<1>9. h \in [SUBSET S -> A]
  BY <1>7
<1> HIDE DEF h
<1> QED
  BY <1>8, <1>9 DEF IsFold

\* The function on 1..N that starts with base and goes on with step.
IsRecursion(g, N, base, step) ==
  \A i \in 1..N : g[i] = IF i = 1 THEN base ELSE step[<<i, g[i - 1]>>]

\* It exists when the operation is total on some set of values.
LEMMA RecursionExists ==
  ASSUME NEW N \in Nat, NEW A, NEW base \in A, NEW step, Operates(step, 1..N, A)
  PROVE  \E g \in [1..N -> A] : IsRecursion(g, N, base, step)
<1> DEFINE P == {n \in 0..N : \E g \in [1..n -> A] : IsRecursion(g, n, base, step)}
<1>1. 0 \in P
  <2> DEFINE g == [i \in 1..0 |-> base]
  <2>1. g \in [1..0 -> A] /\ IsRecursion(g, 0, base, step)
    BY DEF IsRecursion
  <2>2. \E f \in [1..0 -> A] : IsRecursion(f, 0, base, step)
    BY <2>1, Zenon
  <2>3. 0 \in 0..N
    OBVIOUS
  <2> QED
    BY <2>2, <2>3, Zenon
<1>2. ASSUME NEW n \in 0..(N - 1), n \in P PROVE n + 1 \in P
  <2>1. PICK g \in [1..n -> A] : IsRecursion(g, n, base, step)
    BY <1>2
  <2> DEFINE last == IF n = 0 THEN base ELSE step[<<n + 1, g[n]>>]
             h == [i \in 1..(n + 1) |-> IF i = n + 1 THEN last ELSE g[i]]
  <2>2. last \in A
    BY <2>1 DEF Operates
  <2> HIDE DEF last
  <2>3. h \in [1..(n + 1) -> A] /\ h[n + 1] = last /\ \A i \in 1..n : h[i] = g[i]
    BY <2>1, <2>2
  <2> HIDE DEF h
  <2>4. ASSUME NEW i \in 1..(n + 1)
        PROVE  h[i] = IF i = 1 THEN base ELSE step[<<i, h[i - 1]>>]
    <3>1. CASE i = n + 1
      BY <2>3, <3>1 DEF last
    <3>2. CASE i # n + 1
      <4>1. i \in 1..n /\ (i # 1 => i - 1 \in 1..n)
        BY <3>2
      <4>2. h[i] = g[i] /\ (i # 1 => h[i - 1] = g[i - 1])
        BY <2>3, <4>1
      <4> QED
        BY <2>1, <4>1, <4>2 DEF IsRecursion
    <3> QED
      BY <3>1, <3>2
  <2>5. IsRecursion(h, n + 1, base, step)
    BY <2>4 DEF IsRecursion
  <2> QED
    BY <2>3, <2>5
<1>3. \A n \in 0..N : n \in P
  <2> HIDE DEF P
  <2> QED
    BY <1>1, <1>2, UpToInduction
<1> QED
  BY <1>3

-----------------------------------------------------------------------------
(* Sums over finite sets *)

LEMMA SumIsFold ==
  ASSUME NEW f, NEW S
  PROVE  SumFunctionOnSet(f, S) =
           (CHOOSE g : g = [T \in SUBSET S |->
              IF T = {} THEN 0
              ELSE f[CHOOSE x \in T : TRUE] + g[T \ {CHOOSE x \in T : TRUE}]])[S]
BY DEF SumFunctionOnSet, FoldFunctionOnSet, MapThenFoldSet

\* The sum of nothing; a sum without the element that is chosen first.
LEMMA SumUnfolds ==
  ASSUME NEW S, IsFiniteSet(S), NEW f, \A x \in S : f[x] \in Int
  PROVE  /\ SumFunctionOnSet(f, S) \in Int
         /\ S = {} => SumFunctionOnSet(f, S) = 0
         /\ S # {} => LET x == CHOOSE x \in S : TRUE
                      IN  SumFunctionOnSet(f, S) = f[x] + SumFunctionOnSet(f, S \ {x})
<1> DEFINE c == [T \in SUBSET S |-> CHOOSE x \in T : TRUE]
           step == [p \in S \X Int |-> f[p[1]] + p[2]]
           Right(g, U) == g = [T \in SUBSET U |->
             IF T = {} THEN 0
             ELSE f[CHOOSE x \in T : TRUE] + g[T \ {CHOOSE x \in T : TRUE}]]
<1>1. \A T \in SUBSET S : T # {} => c[T] \in T /\ c[T] = CHOOSE x \in T : TRUE
  OBVIOUS
<1>2. \A x \in S : \A a \in Int : step[<<x, a>>] \in Int /\ step[<<x, a>>] = f[x] + a
  OBVIOUS
<1>3. ASSUME NEW U \in SUBSET S
      PROVE  \E g : Right(g, U) /\ \A T \in SUBSET U : g[T] \in Int
  <2> DEFINE Z == Int
  <2>1. /\ IsFiniteSet(U) /\ \A T \in SUBSET U : T # {} => c[T] \in T
        /\ 0 \in Z /\ Operates(step, U, Z) /\ Chooses(c, U)
    BY <1>1, <1>2, FS_Subset DEF Operates, Chooses
  <2>2. PICK g \in [SUBSET U -> Z] : IsFold(g, U, c, 0, step)
    <3> HIDE DEF c, step, Z, Right
    <3> QED
      BY <2>1, FoldExists
  <2> HIDE DEF c, step
  <2>3. ASSUME NEW T \in SUBSET U, T # {}
        PROVE  step[<<c[T], g[T \ {c[T]}]>>] =
                 f[CHOOSE x \in T : TRUE] + g[T \ {CHOOSE x \in T : TRUE}]
    BY <1>1, <1>2, <2>1, <2>2, <2>3
  <2>4. Right(g, U)
    BY <2>2, <2>3 DEF IsFold
  <2> QED
    BY <2>2, <2>4
<1>4. ASSUME NEW V \in SUBSET S, NEW U \in SUBSET V, NEW g, NEW h,
             Right(g, V), Right(h, U)
      PROVE  \A T \in SUBSET U : g[T] = h[T]
  <2> DEFINE P == {T \in SUBSET U : g[T] = h[T]}
  <2>1. {} \in P
    BY <1>4
  <2>2. ASSUME NEW T \in SUBSET U, T # {}, T \ {c[T]} \in P PROVE T \in P
    <3> DEFINE x == CHOOSE x \in T : TRUE
    <3>1. c[T] = x
      BY <1>1, <2>2
    <3>2. g[T] = f[x] + g[T \ {x}]
      BY <1>4, <2>2
    <3>3. h[T] = f[x] + h[T \ {x}]
      BY <1>4, <2>2
    <3> QED
      BY <2>2, <3>1, <3>2, <3>3
  <2>3. IsFiniteSet(U) /\ \A T \in SUBSET U : T # {} => c[T] \in T
    BY <1>1, FS_Subset
  <2>4. \A T \in SUBSET U : T \in P
    <3> HIDE DEF P, c, Right
    <3>1. \A T \in SUBSET U : T # {} /\ T \ {c[T]} \in P => T \in P
      BY <2>2
    <3> QED
      BY <2>1, <2>3, <3>1, RemovalInduction
  <2> QED
    BY <2>4
<1>5. PICK g : Right(g, S) /\ \A T \in SUBSET S : g[T] \in Int
  BY <1>3
<1>6. ASSUME NEW U \in SUBSET S PROVE SumFunctionOnSet(f, U) = g[U]
  <2> DEFINE h == CHOOSE h : Right(h, U)
  <2>1. SumFunctionOnSet(f, U) = h[U]
    BY SumIsFold
  <2>2. Right(h, U)
    <3> HIDE DEF Right
    <3> QED
      BY <1>3
  <2> HIDE DEF h, Right
  <2> QED
    BY <1>4, <1>5, <2>1, <2>2
<1>7. SumFunctionOnSet(f, S) \in Int /\ (S = {} => SumFunctionOnSet(f, S) = 0)
  BY <1>5, <1>6
<1>8. ASSUME S # {}
      PROVE  LET x == CHOOSE x \in S : TRUE
             IN  SumFunctionOnSet(f, S) = f[x] + SumFunctionOnSet(f, S \ {x})
  <2> DEFINE x == CHOOSE x \in S : TRUE
  <2>1. g[S] = f[x] + g[S \ {x}]
    BY <1>5, <1>8
  <2> QED
    BY <1>5, <1>6, <2>1
<1> QED
  BY <1>7, <1>8

\* Any element can be taken out of a sum.
LEMMA SumRemove ==
  ASSUME NEW S, IsFiniteSet(S), NEW f, \A x \in S : f[x] \in Int, NEW e \in S
  PROVE  /\ SumFunctionOnSet(f, S) = f[e] + SumFunctionOnSet(f, S \ {e})
         /\ SumFunctionOnSet(f, S) \in Int /\ SumFunctionOnSet(f, S \ {e}) \in Int
<1> DEFINE N == {n \in Nat : \A T \in SUBSET S : Cardinality(T) = n =>
                   \A x \in T : SumFunctionOnSet(f, T) = f[x] + SumFunctionOnSet(f, T \ {x})}
<1>1. \A T \in SUBSET S : /\ IsFiniteSet(T) /\ Cardinality(T) \in Nat
                          /\ SumFunctionOnSet(f, T) \in Int
  BY FS_Subset, FS_CardinalityType, SumUnfolds
<1>2. 0 \in N
  BY <1>1, FS_EmptySet
<1>3. ASSUME NEW n \in Nat, n \in N PROVE n + 1 \in N
  <2> SUFFICES ASSUME NEW T \in SUBSET S, Cardinality(T) = n + 1, NEW x \in T
               PROVE  SumFunctionOnSet(f, T) = f[x] + SumFunctionOnSet(f, T \ {x})
    OBVIOUS
  <2> DEFINE y == CHOOSE y \in T : TRUE
  <2>1. y \in T /\ SumFunctionOnSet(f, T) = f[y] + SumFunctionOnSet(f, T \ {y})
    <3>1. IsFiniteSet(T) /\ T # {} /\ \A z \in T : f[z] \in Int
      BY <1>1
    <3> QED
      BY <3>1, SumUnfolds
  <2> HIDE DEF y
  <2>2. CASE x = y
    BY <2>1, <2>2
  <2>3. CASE x # y
    <3>1. Cardinality(T \ {x}) = n /\ Cardinality(T \ {y}) = n
      <4>1. /\ Cardinality(T \ {x}) = Cardinality(T) - 1
            /\ Cardinality(T \ {y}) = Cardinality(T) - 1
        BY <1>1, <2>1, FS_RemoveElement
      <4> QED
        BY <4>1
    <3>2. SumFunctionOnSet(f, T \ {y}) = f[x] + SumFunctionOnSet(f, (T \ {y}) \ {x})
      BY <1>3, <2>3, <3>1
    <3>3. SumFunctionOnSet(f, T \ {x}) = f[y] + SumFunctionOnSet(f, (T \ {x}) \ {y})
      BY <1>3, <2>1, <2>3, <3>1
    <3>4. (T \ {y}) \ {x} = (T \ {x}) \ {y}
      OBVIOUS
    <3> DEFINE rest == SumFunctionOnSet(f, (T \ {x}) \ {y})
    <3>5. f[x] \in Int /\ f[y] \in Int /\ rest \in Int
      BY <1>1, <2>1
    <3>6. /\ SumFunctionOnSet(f, T \ {y}) = f[x] + rest
          /\ SumFunctionOnSet(f, T \ {x}) = f[y] + rest
      BY <3>2, <3>3, <3>4
    <3> HIDE DEF rest
    <3> QED
      BY <2>1, <3>5, <3>6
  <2> QED
    BY <2>2, <2>3
<1>4. \A n \in Nat : n \in N
  <2> HIDE DEF N
  <2> QED
    BY <1>2, <1>3, SetInduction
<1> QED
  BY <1>1, <1>4

\* A sum depends on the values in its set only.
LEMMA SumEqual ==
  ASSUME NEW S, IsFiniteSet(S), NEW f, NEW g,
         \A x \in S : f[x] \in Int /\ f[x] = g[x]
  PROVE  SumFunctionOnSet(f, S) = SumFunctionOnSet(g, S)
<1> DEFINE P == {T \in SUBSET S : SumFunctionOnSet(f, T) = SumFunctionOnSet(g, T)}
<1>1. \A T \in SUBSET S : IsFiniteSet(T) /\ \A x \in T : f[x] \in Int /\ g[x] \in Int
  BY FS_Subset
<1>2. {} \in P
  BY <1>1, SumUnfolds
<1>3. ASSUME NEW T \in SUBSET S, NEW x \in S \ T, T \in P PROVE T \cup {x} \in P
  <2> DEFINE U == T \cup {x}
  <2>1. U \in SUBSET S /\ x \in U /\ U \ {x} = T
    OBVIOUS
  <2> HIDE DEF U
  <2>2. /\ SumFunctionOnSet(f, U) = f[x] + SumFunctionOnSet(f, T)
        /\ SumFunctionOnSet(g, U) = g[x] + SumFunctionOnSet(g, T)
    BY <1>1, <2>1, SumRemove
  <2> QED
    BY <1>3, <2>1, <2>2 DEF U
<1>4. \A T \in SUBSET S : T \in P
  <2> HIDE DEF P
  <2>1. \A T \in SUBSET S : \A x \in S \ T : T \in P => T \cup {x} \in P
    BY <1>3
  <2> QED
    BY <1>2, <2>1, SubsetInduction
<1> QED
  BY <1>4

\* Elements that count nothing can be left out.
LEMMA SumWithoutZeros ==
  ASSUME NEW S, IsFiniteSet(S), NEW f, \A x \in S : f[x] \in Int,
         NEW V \in SUBSET S, \A x \in S \ V : f[x] = 0
  PROVE  SumFunctionOnSet(f, S) = SumFunctionOnSet(f, V)
<1> DEFINE P == {T \in SUBSET S : SumFunctionOnSet(f, T) = SumFunctionOnSet(f, T \cap V)}
<1>1. \A T \in SUBSET S : IsFiniteSet(T) /\ \A x \in T : f[x] \in Int
  BY FS_Subset
<1>2. {} \in P
  OBVIOUS
<1>3. ASSUME NEW T \in SUBSET S, NEW x \in S \ T, T \in P PROVE T \cup {x} \in P
  <2> DEFINE U == T \cup {x}
  <2>1. U \in SUBSET S /\ x \in U /\ U \ {x} = T
    OBVIOUS
  <2> DEFINE W == U \cap V
  <2>2. SumFunctionOnSet(f, U) = f[x] + SumFunctionOnSet(f, T)
    <3> HIDE DEF U
    <3> QED
      BY <1>1, <2>1, SumRemove
  <2>3. SumFunctionOnSet(f, T) \in Int /\ SumFunctionOnSet(f, T) = SumFunctionOnSet(f, T \cap V)
    BY <1>1, <1>3, SumUnfolds
  <2>4. CASE x \in V
    <3>1. W \in SUBSET S /\ x \in W /\ W \ {x} = T \cap V
      BY <2>4
    <3> HIDE DEF W, U
    <3>2. SumFunctionOnSet(f, W) = f[x] + SumFunctionOnSet(f, T \cap V)
      BY <1>1, <3>1, SumRemove
    <3>3. SumFunctionOnSet(f, U) = SumFunctionOnSet(f, W)
      BY <2>2, <2>3, <3>2
    <3> QED
      BY <2>1, <3>3 DEF U, W
  <2>5. CASE x \notin V
    <3>1. W = T \cap V /\ f[x] = 0
      BY <2>5
    <3> HIDE DEF W, U
    <3>2. SumFunctionOnSet(f, U) = SumFunctionOnSet(f, W)
      BY <2>2, <2>3, <3>1
    <3> QED
      BY <2>1, <3>2 DEF U, W
  <2> QED
    BY <2>4, <2>5
<1>4. \A T \in SUBSET S : T \in P
  <2> HIDE DEF P
  <2>1. \A T \in SUBSET S : \A x \in S \ T : T \in P => T \cup {x} \in P
    BY <1>3
  <2> QED
    BY <1>2, <2>1, SubsetInduction
<1>5. S \cap V = V
  OBVIOUS
<1> QED
  BY <1>4, <1>5

-----------------------------------------------------------------------------
(* Sequences of sequences *)

\* g[n] is the concatenation of the first n of the sequences.
IsConcatenation(g, seqs) ==
  \A n \in 1..Len(seqs) : g[n] = IF n = 1 THEN seqs[n] ELSE g[n - 1] \o seqs[n]

LEMMA FlattenUnfolds ==
  ASSUME NEW A, NEW seqs \in Seq(Seq(A)), Len(seqs) # 0
  PROVE  \E g \in [1..Len(seqs) -> Seq(A)] :
           IsConcatenation(g, seqs) /\ FlattenSeq(seqs) = g[Len(seqs)]
<1> DEFINE N == Len(seqs)
           S == Seq(A)
           step == [p \in (1..N) \X S |-> p[2] \o seqs[p[1]]]
           Right(g) == g = [n \in 1..N |-> IF n = 1 THEN seqs[n] ELSE g[n - 1] \o seqs[n]]
<1>1. N \in Nat /\ N # 0 /\ \A n \in 1..N : seqs[n] \in S
  OBVIOUS
<1>2. FlattenSeq(seqs) = (CHOOSE g : Right(g))[N]
  BY DEF FlattenSeq
<1>3. \A a, b \in S : a \o b \in S
  OBVIOUS
<1>4. Operates(step, 1..N, S)
  BY <1>1, <1>3 DEF Operates
<1>5. PICK g \in [1..N -> S] : IsRecursion(g, N, seqs[1], step)
  <2>1. seqs[1] \in S
    BY <1>1
  <2> HIDE DEF N, S, step
  <2> QED
    BY <1>1, <1>4, <2>1, RecursionExists
<1>6. ASSUME NEW n \in 1..N
      PROVE  g[n] = IF n = 1 THEN seqs[n] ELSE g[n - 1] \o seqs[n]
  <2>1. n # 1 => n - 1 \in 1..N
    BY <1>1
  <2>2. g[n] = IF n = 1 THEN seqs[1] ELSE step[<<n, g[n - 1]>>]
    BY <1>5 DEF IsRecursion
  <2> HIDE DEF S
  <2>3. n # 1 => g[n - 1] \in S
    BY <1>5, <2>1
  <2> QED
    BY <2>2, <2>3
<1>7. Right(g)
  <2> HIDE DEF N, S
  <2> QED
    BY <1>5, <1>6
<1> DEFINE h == CHOOSE h : Right(h)
<1>8. Right(h)
  <2> HIDE DEF Right
  <2> QED
    BY <1>7
<1> HIDE DEF h, N, S
<1>9. \A n \in 1..N : h[n] = IF n = 1 THEN seqs[n] ELSE h[n - 1] \o seqs[n]
  BY <1>8
<1> DEFINE P == {n \in 0..N : n # 0 => h[n] \in S}
<1>10. 0 \in P
  BY <1>1
<1>11. ASSUME NEW n \in 0..(N - 1), n \in P PROVE n + 1 \in P
  <2>1. n + 1 \in 1..N /\ seqs[n + 1] \in S
    BY <1>1
  <2>2. h[n + 1] = IF n + 1 = 1 THEN seqs[n + 1] ELSE h[n] \o seqs[n + 1]
    <3>1. (n + 1) - 1 = n
      OBVIOUS
    <3> QED
      BY <1>9, <2>1, <3>1
  <2>3. h[n + 1] \in S
    BY <1>1, <1>3, <1>11, <2>1, <2>2
  <2> QED
    BY <1>1, <2>1, <2>3
<1>12. \A n \in 0..N : n \in P
  <2> HIDE DEF P
  <2> QED
    BY <1>1, <1>10, <1>11, UpToInduction
<1>13. h \in [1..N -> S]
  <2>1. \A n \in 1..N : h[n] \in S
    BY <1>1, <1>12
  <2>2. h = [n \in 1..N |-> h[n]]
    BY <1>8
  <2> QED
    BY <2>1, <2>2
<1>14. IsConcatenation(h, seqs) /\ FlattenSeq(seqs) = h[N]
  BY <1>2, <1>9 DEF IsConcatenation, h, N
<1> QED
  BY <1>13, <1>14 DEF N, S

LEMMA FlattenTyped ==
  ASSUME NEW A, NEW seqs \in Seq(Seq(A))
  PROVE  FlattenSeq(seqs) \in Seq(A)
<1>1. CASE Len(seqs) = 0
  <2>1. FlattenSeq(seqs) = seqs /\ seqs = <<>>
    BY <1>1 DEF FlattenSeq
  <2> QED
    BY <2>1
<1>2. CASE Len(seqs) # 0
  <2> DEFINE S == Seq(A)
  <2>1. PICK g \in [1..Len(seqs) -> S] : FlattenSeq(seqs) = g[Len(seqs)]
    BY <1>2, FlattenUnfolds
  <2>2. Len(seqs) \in 1..Len(seqs)
    BY <1>2
  <2> HIDE DEF S
  <2>3. FlattenSeq(seqs) \in S
    BY <2>1, <2>2
  <2> QED
    BY <2>3 DEF S
<1> QED
  BY <1>1, <1>2

\* One more sequence at the end.
LEMMA FlattenAppend ==
  ASSUME NEW A, NEW seqs \in Seq(Seq(A)), NEW last \in Seq(A)
  PROVE  FlattenSeq(Append(seqs, last)) = FlattenSeq(seqs) \o last
<1> DEFINE N == Len(seqs)
           more == Append(seqs, last)
<1>1. /\ N \in Nat /\ more \in Seq(Seq(A)) /\ Len(more) = N + 1 /\ more[N + 1] = last
      /\ \A n \in 1..N : more[n] = seqs[n]
  OBVIOUS
<1> HIDE DEF more
<1>2. PICK h \in [1..(N + 1) -> Seq(A)] :
        IsConcatenation(h, more) /\ FlattenSeq(more) = h[N + 1]
  BY <1>1, FlattenUnfolds
<1>3. CASE N = 0
  <2>1. FlattenSeq(seqs) = <<>>
    <3>1. seqs = <<>>
      BY <1>3
    <3> QED
      BY <1>3, <3>1 DEF FlattenSeq
  <2>2. h[N + 1] = last
    BY <1>1, <1>2, <1>3 DEF IsConcatenation
  <2> QED
    BY <1>2, <2>1, <2>2 DEF more
<1>4. CASE N # 0
  <2>1. PICK g \in [1..N -> Seq(A)] : IsConcatenation(g, seqs) /\ FlattenSeq(seqs) = g[N]
    BY <1>4, FlattenUnfolds
  <2> DEFINE P == {n \in 0..N : n # 0 => h[n] = g[n]}
  <2>2. 0 \in P
    BY <1>1
  <2>3. ASSUME NEW n \in 0..(N - 1), n \in P PROVE n + 1 \in P
    <3>1. n + 1 \in 1..N /\ n + 1 \in 1..(N + 1) /\ (n + 1) - 1 = n
      BY <1>1
    <3>2. h[n + 1] = IF n + 1 = 1 THEN seqs[n + 1] ELSE h[n] \o seqs[n + 1]
      BY <1>1, <1>2, <3>1 DEF IsConcatenation
    <3>3. g[n + 1] = IF n + 1 = 1 THEN seqs[n + 1] ELSE g[n] \o seqs[n + 1]
      BY <2>1, <3>1 DEF IsConcatenation
    <3> QED
      BY <1>1, <2>3, <3>1, <3>2, <3>3
  <2>4. \A n \in 0..N : n \in P
    <3> HIDE DEF P, N
    <3> QED
      BY <1>1, <2>2, <2>3, UpToInduction
  <2>5. h[N] = g[N]
    BY <1>1, <1>4, <2>4
  <2>6. h[N + 1] = h[N] \o last
    <3>1. N + 1 \in 1..Len(more) /\ N + 1 # 1 /\ (N + 1) - 1 = N
      BY <1>1, <1>4
    <3> QED
      BY <1>1, <1>2, <3>1 DEF IsConcatenation
  <2> QED
    BY <1>2, <2>1, <2>5, <2>6 DEF more
<1> QED
  BY <1>3, <1>4

\* A sequence that is not empty has a last element.
LEMMA LastElement ==
  ASSUME NEW S, NEW t \in Seq(S), NEW n \in Nat, Len(t) = n + 1
  PROVE  \E u \in Seq(S), x \in S : t = Append(u, x) /\ Len(u) = n
<1> DEFINE u == SubSeq(t, 1, n)
<1>1. u \in Seq(S) /\ t[n + 1] \in S /\ Len(u) = n /\ t = Append(u, t[n + 1])
  OBVIOUS
<1> QED
  BY <1>1

\* Concatenation is associative.
Joins(s, a, b) == s = a \o b

LEMMA Associative ==
  ASSUME NEW S, NEW a \in Seq(S), NEW b \in Seq(S), NEW c \in Seq(S),
         NEW ab, Joins(ab, a, b), NEW bc, Joins(bc, b, c), NEW abc, Joins(abc, ab, c)
  PROVE  Joins(abc, a, bc)
BY ConcatAssociative DEF Joins

\* A sequence around one of its elements.
IsSplit(t, n, u, v) == t = Append(u, t[n]) \o v

LEMMA SplitAt ==
  ASSUME NEW S, NEW t \in Seq(S), NEW n \in 1..Len(t)
  PROVE  \E u \in Seq(S), v \in Seq(S) : IsSplit(t, n, u, v)
<1> DEFINE u == [k \in 1..(n - 1) |-> t[k]]
           v == [k \in 1..(Len(t) - n) |-> t[n + k]]
<1>1. u \in Seq(S) /\ v \in Seq(S) /\ Len(u) = n - 1 /\ Len(v) = Len(t) - n
  OBVIOUS
<1>2. /\ \A k \in 1..(n - 1) : u[k] = t[k]
      /\ \A k \in 1..(Len(t) - n) : v[k] = t[n + k]
  OBVIOUS
<1> HIDE DEF u, v
<1> DEFINE w == Append(u, t[n])
<1>3. /\ w \in Seq(S) /\ Len(w) = n
      /\ \A k \in 1..n : w[k] = t[k]
  BY <1>1, <1>2
<1> HIDE DEF w
<1>4. /\ w \o v \in Seq(S) /\ Len(w \o v) = Len(t)
      /\ \A k \in 1..Len(t) : (w \o v)[k] = t[k]
  <2>1. w \o v \in Seq(S) /\ Len(w \o v) = Len(t)
    <3>1. w \o v \in Seq(S) /\ Len(w \o v) = Len(w) + Len(v)
      BY <1>1, <1>3, ConcatProperties
    <3>2. Len(t) \in Nat
      OBVIOUS
    <3> QED
      BY <1>1, <1>3, <3>1, <3>2
  <2>2. ASSUME NEW k \in 1..Len(t), k <= n PROVE (w \o v)[k] = t[k]
    BY <1>1, <1>3, <2>2
  <2>3. ASSUME NEW k \in 1..Len(t), k > n PROVE (w \o v)[k] = t[k]
    <3>1. k - n \in 1..(Len(t) - n) /\ n + (k - n) = k
      BY <2>3
    <3>2. (w \o v)[k] = v[k - n]
      BY <1>1, <1>3, <2>3, <3>1
    <3> QED
      BY <1>2, <3>1, <3>2
  <2>4. Len(t) \in Nat
    OBVIOUS
  <2> QED
    BY <2>1, <2>2, <2>3, <2>4
<1>5. w \o v = t
  BY <1>4, SeqEqual
<1> QED
  BY <1>1, <1>5 DEF w, IsSplit

LEMMA FlattenConcat ==
  ASSUME NEW A, NEW s \in Seq(Seq(A)), NEW t \in Seq(Seq(A))
  PROVE  FlattenSeq(s \o t) = FlattenSeq(s) \o FlattenSeq(t)
<1> DEFINE S == Seq(A)
           P == {n \in Nat : \A r \in Seq(S) : Len(r) = n =>
                               FlattenSeq(s \o r) = FlattenSeq(s) \o FlattenSeq(r)}
<1>1. \A r \in Seq(S) : FlattenSeq(r) \in Seq(A) /\ s \o r \in Seq(S)
  BY FlattenTyped
<1>2. 0 \in P
  <2>1. ASSUME NEW r \in Seq(S), Len(r) = 0
        PROVE  FlattenSeq(s \o r) = FlattenSeq(s) \o FlattenSeq(r)
    <3>1. r = <<>> /\ s \o r = s
      BY <2>1
    <3>2. FlattenSeq(r) = <<>>
      BY <2>1, <3>1 DEF FlattenSeq
    <3> QED
      BY <1>1, <3>1, <3>2
  <2> QED
    BY <2>1
<1>3. ASSUME NEW n \in Nat, n \in P PROVE n + 1 \in P
  <2> SUFFICES ASSUME NEW r \in Seq(S), Len(r) = n + 1
               PROVE  FlattenSeq(s \o r) = FlattenSeq(s) \o FlattenSeq(r)
    OBVIOUS
  <2>1. PICK u \in Seq(S), x \in S : r = Append(u, x) /\ Len(u) = n
    BY LastElement
  <2>2. s \o r = Append(s \o u, x)
    BY <2>1
  <2>3. /\ FlattenSeq(s \o r) = FlattenSeq(s \o u) \o x
        /\ FlattenSeq(r) = FlattenSeq(u) \o x
    BY <1>1, <2>1, <2>2, FlattenAppend
  <2>4. FlattenSeq(s \o u) = FlattenSeq(s) \o FlattenSeq(u)
    BY <1>3, <2>1
  <2>5. FlattenSeq(s) \in Seq(A) /\ FlattenSeq(u) \in Seq(A) /\ x \in Seq(A)
    BY <1>1, <2>1
  <2> DEFINE left == FlattenSeq(s)
             right == FlattenSeq(u)
             whole == FlattenSeq(s \o r)
             extended == FlattenSeq(r)
  <2>6. whole = (left \o right) \o x /\ extended = right \o x
    BY <2>3, <2>4
  <2>7. left \in Seq(A) /\ right \in Seq(A) /\ x \in Seq(A)
    BY <2>5
  <2> HIDE DEF left, right, whole, extended
  <2>8. Joins(left \o right, left, right) /\ Joins(extended, right, x)
        /\ Joins(whole, left \o right, x)
    BY <2>6 DEF Joins
  <2>9. Joins(whole, left, extended)
    BY <2>7, <2>8, Associative
  <2> QED
    BY <2>9 DEF Joins, left, whole, extended
<1>4. \A n \in Nat : n \in P
  <2> HIDE DEF P
  <2> QED
    BY <1>2, <1>3, SetInduction
<1> QED
  BY <1>4

\* Every element of the sequences is one of the whole.
LEMMA FlattenElements ==
  ASSUME NEW A, NEW seqs \in Seq(Seq(A)), NEW n \in 1..Len(seqs),
         NEW k \in 1..Len(seqs[n])
  PROVE  \E m \in 1..Len(FlattenSeq(seqs)) : FlattenSeq(seqs)[m] = seqs[n][k]
<1> DEFINE S == Seq(A)
           x == seqs[n]
<1>1. x \in S /\ seqs \in Seq(S)
  OBVIOUS
<1>2. PICK before \in Seq(S), after \in Seq(S) : seqs = Append(before, x) \o after
  <2>1. \E u \in Seq(S), v \in Seq(S) : IsSplit(seqs, n, u, v)
    <3> HIDE DEF S
    <3> QED
      BY <1>1, SplitAt
  <2> QED
    BY <2>1 DEF IsSplit
<1> HIDE DEF x
<1>3. FlattenSeq(seqs) = (FlattenSeq(before) \o x) \o FlattenSeq(after)
  <2>1. FlattenSeq(Append(before, x) \o after) = FlattenSeq(Append(before, x)) \o FlattenSeq(after)
    <3>1. Append(before, x) \in Seq(S)
      BY <1>1, <1>2
    <3> QED
      BY <1>2, <3>1, FlattenConcat
  <2>2. FlattenSeq(Append(before, x)) = FlattenSeq(before) \o x
    BY <1>1, <1>2, FlattenAppend
  <2> QED
    BY <1>2, <2>1, <2>2
<1>4. /\ FlattenSeq(before) \in Seq(A) /\ x \in Seq(A) /\ FlattenSeq(after) \in Seq(A)
      /\ k \in 1..Len(x)
  BY <1>1, <1>2, FlattenTyped DEF x
<1> DEFINE m == Len(FlattenSeq(before)) + k
<1>5. m \in 1..Len(FlattenSeq(seqs)) /\ FlattenSeq(seqs)[m] = x[k]
  BY <1>3, <1>4
<1> QED
  BY <1>5 DEF x

\* Every element of the whole is one of the sequences'.
LEMMA FlattenOrigin ==
  ASSUME NEW A, NEW seqs \in Seq(Seq(A)), NEW m \in 1..Len(FlattenSeq(seqs))
  PROVE  \E n \in 1..Len(seqs) : \E k \in 1..Len(seqs[n]) : FlattenSeq(seqs)[m] = seqs[n][k]
<1> DEFINE B == {x \in A : \E n \in 1..Len(seqs) : \E k \in 1..Len(seqs[n]) : x = seqs[n][k]}
           S == Seq(A)
           T == Seq(B)
<1>1. \A n \in 1..Len(seqs) : seqs[n] \in S
  BY DEF S
<1>2. ASSUME NEW n \in 1..Len(seqs) PROVE seqs[n] \in T
  <2> DEFINE x == seqs[n]
             L == Len(x)
  <2>1. x \in Seq(A) /\ L \in Nat /\ \A k \in 1..L : x[k] \in A
    BY <1>1
  <2>2. x = [k \in 1..L |-> x[k]] /\ \A k \in 1..L : x[k] \in B
    BY <2>1
  <2> HIDE DEF x, L, B
  <2>3. x \in Seq(B)
    <3>1. x \in [1..L -> B]
      BY <2>2
    <3> QED
      BY <2>1, <3>1, SeqDef
  <2> QED
    BY <2>3 DEF x, T
<1>3. seqs \in Seq(T)
  <2> DEFINE L == Len(seqs)
  <2>1. L \in Nat /\ seqs = [n \in 1..L |-> seqs[n]]
    OBVIOUS
  <2>2. \A n \in 1..L : seqs[n] \in T
    BY <1>2
  <2> HIDE DEF L, S, T
  <2>3. seqs \in [1..L -> T]
    BY <2>1, <2>2
  <2> QED
    BY <2>1, <2>3, SeqDef
<1> HIDE DEF B
<1>4. FlattenSeq(seqs) \in Seq(B)
  BY <1>3, FlattenTyped DEF T
<1>5. FlattenSeq(seqs)[m] \in B
  BY <1>4
<1> QED
  BY <1>5 DEF B
=============================================================================
