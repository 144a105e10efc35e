---------------------------- MODULE SumTheorems ----------------------------
(***************************************************************************)
(* Sums of the values of a function over a finite set, the operator        *)
(* SumFunctionOnSet of the community module Functions.  The invariants of  *)
(* the money modules are equations between such sums; the lemmas here say  *)
(* how a sum changes when one value or the set changes.                    *)
(*                                                                         *)
(* Induction over finite sets is stated with a SET of sets as its          *)
(* parameter, not with an operator, so that first-order provers can        *)
(* instantiate it: a minimal counterexample exists because strict          *)
(* inclusion is well founded on the subsets of a finite set.               *)
(***************************************************************************)
EXTENDS Integers, Functions, FiniteSets, FiniteSetTheorems,
        WellFoundedInduction, TLAPS

\* A set P of subsets of the finite set D that holds a set whenever it holds
\* all of its strict subsets holds every subset of D.
LEMMA StrongSetInduction ==
    ASSUME NEW D, IsFiniteSet(D), NEW P,
           \A S \in SUBSET D : (\A U \in SUBSET S : U # S => U \in P) => S \in P
    PROVE  \A S \in SUBSET D : S \in P
<1> DEFINE T == {S \in SUBSET D : S \notin P}
<1>1. SUFFICES ASSUME T # {} PROVE FALSE
  OBVIOUS
<1>2. IsWellFoundedOn(StrictSubsetOrdering(D), SUBSET D)
  BY FS_StrictSubsetOrderingWellFounded, FS_FiniteSubsetsOfFinite
<1>3. T \subseteq SUBSET D
  OBVIOUS
<1> HIDE DEF T
<1>4. PICK S \in T : \A U \in T : ~(<<U, S>> \in StrictSubsetOrdering(D))
  BY <1>1, <1>2, <1>3, WFMin
<1>5. S \in SUBSET D /\ S \notin P
  BY <1>4 DEF T
<1>6. \A U \in SUBSET S : U # S => U \in P
  <2>1. SUFFICES ASSUME NEW U \in SUBSET S, U # S, U \notin P PROVE FALSE
    OBVIOUS
  <2>2. U \in T
    BY <1>5, <2>1 DEF T
  <2>3. <<U, S>> \in StrictSubsetOrdering(D)
    BY <1>5, <2>1 DEF StrictSubsetOrdering
  <2> QED BY <1>4, <2>2, <2>3
<1> QED BY <1>5, <1>6

\* A set P that holds the empty set and, with any subset of the finite set D,
\* that subset and one more element of D, holds every subset of D.
LEMMA SetInduction ==
    ASSUME NEW D, IsFiniteSet(D), NEW P, {} \in P,
           \A S \in SUBSET D : S \in P => \A x \in D \ S : S \cup {x} \in P
    PROVE  \A S \in SUBSET D : S \in P
<1>1. ASSUME NEW S \in SUBSET D, \A U \in SUBSET S : U # S => U \in P
      PROVE  S \in P
  <2>1. CASE S = {}
    BY <2>1
  <2>2. CASE S # {}
    <3>1. PICK x \in S : TRUE
      BY <2>2
    <3>2. S \ {x} \in P /\ S \ {x} \in SUBSET D /\ x \in D \ (S \ {x})
      BY <1>1, <3>1
    <3>3. (S \ {x}) \cup {x} \in P
      BY <3>2
    <3>4. (S \ {x}) \cup {x} = S
      BY <3>1
    <3> QED BY <3>3, <3>4
  <2> QED BY <2>1, <2>2
<1> QED BY <1>1, StrongSetInduction

-----------------------------------------------------------------------------

\* The equation that defines the recursive function inside SumFunctionOnSet.
Recursion(f, D, g) ==
    g = [s \in SUBSET D |-> IF s = {} THEN 0
            ELSE f[CHOOSE x \in s : TRUE] + g[s \ {CHOOSE x \in s : TRUE}]]

\* t gives every subset of D the sum of f over it, element by element.
Additive(f, D, t) ==
    /\ t \in [SUBSET D -> Int]
    /\ t[{}] = 0
    /\ \A S \in SUBSET D : \A x \in D \ S : t[S \cup {x}] = t[S] + f[x]

\* SumFunctionOnSet is a solution of its recursion, applied to the whole set.
LEMMA SumUnfold ==
    ASSUME NEW f, NEW S
    PROVE  SumFunctionOnSet(f, S) = (CHOOSE g : Recursion(f, S, g))[S]
BY DEF SumFunctionOnSet, FoldFunctionOnSet, MapThenFoldSet, Recursion

\* An additive function exists on the subsets of every finite set.
LEMMA AdditiveExists ==
    ASSUME NEW D, IsFiniteSet(D), NEW f, \A x \in D : f[x] \in Int
    PROVE  \E t : Additive(f, D, t)
<1> DEFINE P == {S \in SUBSET D : \E t : Additive(f, S, t)}
<1>1. {} \in P
  <2>1. Additive(f, {}, [s \in SUBSET {} |-> 0])
    BY DEF Additive
  <2> QED BY <2>1
<1>2. ASSUME NEW S \in SUBSET D, S \in P, NEW x \in D \ S
      PROVE  S \cup {x} \in P
  <2>1. PICK t : Additive(f, S, t)
    BY <1>2
  <2> DEFINE u == [s \in SUBSET (S \cup {x}) |->
                      IF x \in s THEN t[s \ {x}] + f[x] ELSE t[s]]
  <2>2. /\ t \in [SUBSET S -> Int]
        /\ t[{}] = 0
        /\ \A U \in SUBSET S : \A y \in S \ U : t[U \cup {y}] = t[U] + f[y]
    BY <2>1 DEF Additive
  <2>3. u \in [SUBSET (S \cup {x}) -> Int]
    <3>1. ASSUME NEW s \in SUBSET (S \cup {x})
          PROVE  (IF x \in s THEN t[s \ {x}] + f[x] ELSE t[s]) \in Int
      <4>1. f[x] \in Int
        OBVIOUS
      <4>2. CASE x \in s
        <5>1. s \ {x} \in SUBSET S
          OBVIOUS
        <5> QED BY <2>2, <4>1, <4>2, <5>1
      <4>3. CASE x \notin s
        <5>1. s \in SUBSET S
          BY <4>3
        <5> QED BY <2>2, <4>3, <5>1
      <4> QED BY <4>2, <4>3
    <3> QED BY <3>1
  <2>4. u[{}] = 0
    BY <2>2
  <2>5. ASSUME NEW U \in SUBSET (S \cup {x}), NEW y \in (S \cup {x}) \ U
        PROVE  u[U \cup {y}] = u[U] + f[y]
    <3>0. U \cup {y} \in SUBSET (S \cup {x})
      OBVIOUS
    <3>1. CASE y = x
      <4>1. x \notin U /\ (U \cup {y}) \ {x} = U
        BY <3>1
      <4> QED BY <3>0, <3>1, <4>1
    <3>2. CASE y # x /\ x \notin U
      <4>1. U \in SUBSET S /\ y \in S \ U /\ x \notin U \cup {y}
        BY <3>2
      <4> QED BY <2>2, <3>0, <3>2, <4>1
    <3>3. CASE y # x /\ x \in U
      <4>1. U \ {x} \in SUBSET S /\ y \in S \ (U \ {x})
        BY <3>3
      <4>2. (U \cup {y}) \ {x} = (U \ {x}) \cup {y}
        BY <3>3
      <4>3. t[(U \ {x}) \cup {y}] = t[U \ {x}] + f[y]
        BY <2>2, <4>1
      <4>4. t[U \ {x}] \in Int /\ f[y] \in Int /\ f[x] \in Int
        BY <2>2, <4>1
      <4>5. u[U \cup {y}] = t[(U \ {x}) \cup {y}] + f[x]
        BY <3>0, <3>3, <4>2
      <4>6. u[U] = t[U \ {x}] + f[x]
        BY <3>3
      <4> HIDE DEF u
      <4> QED BY <4>3, <4>4, <4>5, <4>6
    <3> QED BY <3>1, <3>2, <3>3
  <2>6. Additive(f, S \cup {x}, u)
    <3> HIDE DEF u
    <3> QED BY <2>3, <2>4, <2>5 DEF Additive
  <2> HIDE DEF u
  <2> QED BY <2>6
<1> HIDE DEF P
<1>3. D \in P
  BY <1>1, <1>2, SetInduction
<1> QED BY <1>3 DEF P

\* An additive function solves the recursion, and is its only solution.
LEMMA AdditiveUnique ==
    ASSUME NEW D, IsFiniteSet(D), NEW f, \A x \in D : f[x] \in Int,
           NEW t, Additive(f, D, t)
    PROVE  /\ Recursion(f, D, t)
           /\ \A g : Recursion(f, D, g) => \A S \in SUBSET D : g[S] = t[S]
<1>1. ASSUME NEW S \in SUBSET D, NEW x \in S
      PROVE  t[S] = f[x] + t[S \ {x}] /\ t[S \ {x}] \in Int
  <2>1. S \ {x} \in SUBSET D /\ x \in D \ (S \ {x}) /\ (S \ {x}) \cup {x} = S
    OBVIOUS
  <2>2. t[S] = t[S \ {x}] + f[x] /\ t[S \ {x}] \in Int
    BY <2>1 DEF Additive
  <2> QED BY <2>1, <2>2
<1>2. Recursion(f, D, t)
  <2>1. ASSUME NEW s \in SUBSET D
        PROVE  t[s] = IF s = {} THEN 0
            ELSE f[CHOOSE x \in s : TRUE] + t[s \ {CHOOSE x \in s : TRUE}]
    <3>1. CASE s = {}
      BY <3>1 DEF Additive
    <3>2. CASE s # {}
      <4>1. (CHOOSE x \in s : TRUE) \in s
        BY <3>2
      <4> QED BY <1>1, <3>2, <4>1
    <3> QED BY <3>1, <3>2
  <2>2. t \in [SUBSET D -> Int]
    BY DEF Additive
  <2> QED BY <2>1, <2>2 DEF Recursion
<1>3. ASSUME NEW g, Recursion(f, D, g)
      PROVE  \A S \in SUBSET D : g[S] = t[S]
  <2> DEFINE P == {S \in SUBSET D : g[S] = t[S]}
  <2>1. ASSUME NEW S \in SUBSET D, \A U \in SUBSET S : U # S => U \in P
        PROVE  S \in P
    <3>1. g[S] = IF S = {} THEN 0
            ELSE f[CHOOSE x \in S : TRUE] + g[S \ {CHOOSE x \in S : TRUE}]
      BY <1>3 DEF Recursion
    <3>2. CASE S = {}
      BY <3>1, <3>2 DEF Additive
    <3>3. CASE S # {}
      <4> DEFINE c == CHOOSE x \in S : TRUE
      <4>1. c \in S
        BY <3>3
      <4>2. g[S] = f[c] + g[S \ {c}]
        BY <3>1, <3>3
      <4> HIDE DEF c
      <4>3. S \ {c} \in P
        BY <2>1, <4>1
      <4>4. g[S \ {c}] = t[S \ {c}]
        BY <4>3
      <4>5. t[S] = f[c] + t[S \ {c}]
        BY <1>1, <4>1
      <4> QED BY <4>2, <4>4, <4>5
    <3> QED BY <3>2, <3>3
  <2> HIDE DEF P
  <2>2. \A S \in SUBSET D : S \in P
    BY <2>1, StrongSetInduction
  <2> QED BY <2>2 DEF P
<1> QED BY <1>2, <1>3

\* On every subset of a finite set, SumFunctionOnSet is the additive function.
LEMMA SumIsAdditive ==
    ASSUME NEW D, IsFiniteSet(D), NEW f, \A x \in D : f[x] \in Int,
           NEW t, Additive(f, D, t),
           NEW S \in SUBSET D
    PROVE  SumFunctionOnSet(f, S) = t[S]
<1> DEFINE u == [s \in SUBSET S |-> t[s]]
<1>1. Additive(f, S, u)
  <2>1. u \in [SUBSET S -> Int] /\ u[{}] = 0
    BY DEF Additive
  <2>2. ASSUME NEW U \in SUBSET S, NEW x \in S \ U
        PROVE  u[U \cup {x}] = u[U] + f[x]
    <3>1. U \in SUBSET D /\ x \in D \ U /\ U \cup {x} \in SUBSET S
      OBVIOUS
    <3> QED BY <3>1 DEF Additive
  <2> HIDE DEF u
  <2> QED BY <2>1, <2>2 DEF Additive
<1>2. u[S] = t[S]
  OBVIOUS
<1>3. IsFiniteSet(S)
  BY FS_Subset
<1> HIDE DEF u
<1> DEFINE g == CHOOSE g : Recursion(f, S, g)
<1>4. Recursion(f, S, g)
  BY <1>1, <1>3, AdditiveUnique
<1>5. SumFunctionOnSet(f, S) = g[S]
  BY SumUnfold
<1> HIDE DEF g
<1>6. g[S] = u[S]
  BY <1>1, <1>3, <1>4, AdditiveUnique
<1> QED BY <1>2, <1>5, <1>6

-----------------------------------------------------------------------------

\* The empty sum is zero.
LEMMA SumEmpty ==
    ASSUME NEW f
    PROVE  SumFunctionOnSet(f, {}) = 0
<1>1. Additive(f, {}, [s \in SUBSET {} |-> 0])
  BY DEF Additive
<1>2. IsFiniteSet({})
  BY FS_EmptySet
<1> QED BY <1>1, <1>2, SumIsAdditive

\* A sum of integers is an integer.
LEMMA SumInt ==
    ASSUME NEW S, IsFiniteSet(S), NEW f, \A x \in S : f[x] \in Int
    PROVE  SumFunctionOnSet(f, S) \in Int
<1>1. PICK t : Additive(f, S, t)
  BY AdditiveExists
<1>2. SumFunctionOnSet(f, S) = t[S]
  BY <1>1, SumIsAdditive
<1> QED BY <1>1, <1>2 DEF Additive

\* One more element adds its value to the sum.
LEMMA SumAdd ==
    ASSUME NEW S, IsFiniteSet(S), NEW x, x \notin S,
           NEW f, \A y \in S \cup {x} : f[y] \in Int
    PROVE  SumFunctionOnSet(f, S \cup {x}) = SumFunctionOnSet(f, S) + f[x]
<1>1. IsFiniteSet(S \cup {x})
  BY FS_AddElement
<1>2. PICK t : Additive(f, S \cup {x}, t)
  BY <1>1, AdditiveExists
<1>3. SumFunctionOnSet(f, S \cup {x}) = t[S \cup {x}]
  BY <1>1, <1>2, SumIsAdditive
<1>4. SumFunctionOnSet(f, S) = t[S]
  BY <1>1, <1>2, SumIsAdditive
<1>5. t[S \cup {x}] = t[S] + f[x]
  BY <1>2 DEF Additive
<1> QED BY <1>3, <1>4, <1>5

\* A sum is one of its values and the sum of the others.
LEMMA SumSplit ==
    ASSUME NEW S, IsFiniteSet(S), NEW x \in S,
           NEW f, \A y \in S : f[y] \in Int
    PROVE  /\ SumFunctionOnSet(f, S) = SumFunctionOnSet(f, S \ {x}) + f[x]
           /\ SumFunctionOnSet(f, S \ {x}) \in Int
<1>1. IsFiniteSet(S \ {x}) /\ (S \ {x}) \cup {x} = S /\ x \notin S \ {x}
  BY FS_RemoveElement
<1>2. SumFunctionOnSet(f, (S \ {x}) \cup {x}) = SumFunctionOnSet(f, S \ {x}) + f[x]
  BY <1>1, SumAdd
<1>3. SumFunctionOnSet(f, S \ {x}) \in Int
  BY <1>1, SumInt
<1> QED BY <1>1, <1>2, <1>3

\* g is f on the finite set S, where f has integer values.
SameOn(f, g, S) == IsFiniteSet(S) /\ \A x \in S : f[x] \in Int /\ g[x] = f[x]

\* Functions that agree on a set have the same sum over it.
LEMMA SumSame ==
    ASSUME NEW S, NEW f, NEW g, SameOn(f, g, S)
    PROVE  SumFunctionOnSet(g, S) = SumFunctionOnSet(f, S)
<1> USE DEF SameOn
<1> DEFINE P == {T \in SUBSET S : SumFunctionOnSet(g, T) = SumFunctionOnSet(f, T)}
<1>1. {} \in P
  BY SumEmpty
<1>2. ASSUME NEW T \in SUBSET S, T \in P, NEW x \in S \ T
      PROVE  T \cup {x} \in P
  <2>1. IsFiniteSet(T)
    BY FS_Subset
  <2>2. SumFunctionOnSet(g, T \cup {x}) = SumFunctionOnSet(g, T) + g[x]
    BY <2>1, SumAdd
  <2>3. SumFunctionOnSet(f, T \cup {x}) = SumFunctionOnSet(f, T) + f[x]
    BY <2>1, SumAdd
  <2> QED BY <1>2, <2>2, <2>3
<1> HIDE DEF P
<1>3. S \in P
  BY <1>1, <1>2, SetInduction
<1> QED BY <1>3 DEF P

\* A sum of natural numbers is a natural number, and at least each of them.
LEMMA SumNat ==
    ASSUME NEW S, IsFiniteSet(S), NEW f, \A x \in S : f[x] \in Nat
    PROVE  /\ SumFunctionOnSet(f, S) \in Nat
           /\ \A x \in S : f[x] <= SumFunctionOnSet(f, S)
<1> DEFINE P == {T \in SUBSET S : SumFunctionOnSet(f, T) \in Nat}
<1>1. {} \in P
  BY SumEmpty
<1>2. ASSUME NEW T \in SUBSET S, T \in P, NEW x \in S \ T
      PROVE  T \cup {x} \in P
  <2>1. IsFiniteSet(T)
    BY FS_Subset
  <2>2. SumFunctionOnSet(f, T \cup {x}) = SumFunctionOnSet(f, T) + f[x]
    <3>1. \A y \in T \cup {x} : f[y] \in Int
      OBVIOUS
    <3> QED BY <2>1, <3>1, SumAdd
  <2>3. T \cup {x} \in SUBSET S
    OBVIOUS
  <2> QED BY <1>2, <2>2, <2>3
<1> HIDE DEF P
<1>3. \A T \in SUBSET S : T \in P
  BY <1>1, <1>2, SetInduction
<1>4. \A T \in SUBSET S : SumFunctionOnSet(f, T) \in Nat
  BY <1>3 DEF P
<1>5. ASSUME NEW x \in S PROVE f[x] <= SumFunctionOnSet(f, S)
  <2>1. SumFunctionOnSet(f, S) = SumFunctionOnSet(f, S \ {x}) + f[x]
    BY SumSplit
  <2>2. SumFunctionOnSet(f, S \ {x}) \in Nat /\ f[x] \in Nat
    BY <1>4
  <2> QED BY <2>1, <2>2
<1> QED BY <1>4, <1>5

\* h is f + g on the finite set S, where f and g have integer values.
IsSumOn(h, f, g, S) ==
    IsFiniteSet(S) /\ \A x \in S : f[x] \in Int /\ g[x] \in Int /\ h[x] = f[x] + g[x]

\* The sum of two functions is the sum of their sums.
LEMMA SumOfSums ==
    ASSUME NEW S, NEW f, NEW g, NEW h, IsSumOn(h, f, g, S)
    PROVE  /\ SumFunctionOnSet(h, S) = SumFunctionOnSet(f, S) + SumFunctionOnSet(g, S)
           /\ SumFunctionOnSet(f, S) \in Int /\ SumFunctionOnSet(g, S) \in Int
<1> USE DEF IsSumOn
<1> DEFINE P == {T \in SUBSET S : SumFunctionOnSet(h, T)
                        = SumFunctionOnSet(f, T) + SumFunctionOnSet(g, T)}
<1>1. {} \in P
  BY SumEmpty
<1>2. ASSUME NEW T \in SUBSET S, T \in P, NEW x \in S \ T
      PROVE  T \cup {x} \in P
  <2>1. IsFiniteSet(T)
    BY FS_Subset
  <2>2. SumFunctionOnSet(h, T \cup {x}) = SumFunctionOnSet(h, T) + h[x]
    <3>1. \A y \in T \cup {x} : h[y] \in Int
      OBVIOUS
    <3> QED BY <2>1, <3>1, SumAdd
  <2>3. SumFunctionOnSet(f, T \cup {x}) = SumFunctionOnSet(f, T) + f[x]
    BY <2>1, SumAdd
  <2>4. SumFunctionOnSet(g, T \cup {x}) = SumFunctionOnSet(g, T) + g[x]
    BY <2>1, SumAdd
  <2>5. SumFunctionOnSet(f, T) \in Int /\ SumFunctionOnSet(g, T) \in Int
    BY <2>1, SumInt
  <2>6. f[x] \in Int /\ g[x] \in Int /\ h[x] = f[x] + g[x]
    OBVIOUS
  <2> QED BY <1>2, <2>2, <2>3, <2>4, <2>5, <2>6
<1> HIDE DEF P
<1>3. S \in P
  BY <1>1, <1>2, SetInduction
<1>4. SumFunctionOnSet(f, S) \in Int /\ SumFunctionOnSet(g, S) \in Int
  BY SumInt
<1> QED BY <1>3, <1>4 DEF P

\* A sum of zeros is zero.
LEMMA SumZero ==
    ASSUME NEW S, IsFiniteSet(S), NEW f, \A x \in S : f[x] = 0
    PROVE  SumFunctionOnSet(f, S) = 0
<1> DEFINE P == {T \in SUBSET S : SumFunctionOnSet(f, T) = 0}
<1>1. {} \in P
  BY SumEmpty
<1>2. ASSUME NEW T \in SUBSET S, T \in P, NEW x \in S \ T
      PROVE  T \cup {x} \in P
  <2>1. IsFiniteSet(T) /\ \A y \in T \cup {x} : f[y] \in Int
    BY FS_Subset
  <2>2. SumFunctionOnSet(f, T \cup {x}) = SumFunctionOnSet(f, T) + f[x]
    BY <2>1, SumAdd
  <2> QED BY <1>2, <2>2
<1> HIDE DEF P
<1>3. S \in P
  BY <1>1, <1>2, SetInduction
<1> QED BY <1>3 DEF P

\* Integer functions f on S and g on T that differ at most in x, as S and T do.
DifferAt(x, f, S, g, T) ==
    /\ IsFiniteSet(S) /\ S \ {x} = T \ {x}
    /\ \A y \in S : f[y] \in Int
    /\ \A y \in T : g[y] \in Int
    /\ \A y \in S \ {x} : g[y] = f[y]

\* What a step that changes one row does to a sum over the rows.
LEMMA SumStep ==
    ASSUME NEW x, NEW f, NEW S, NEW g, NEW T, DifferAt(x, f, S, g, T)
    PROVE  /\ SumFunctionOnSet(g, T) = SumFunctionOnSet(f, S)
                 - (IF x \in S THEN f[x] ELSE 0) + (IF x \in T THEN g[x] ELSE 0)
           /\ SumFunctionOnSet(f, S) \in Int
           /\ SumFunctionOnSet(g, T) \in Int
<1> USE DEF DifferAt
<1> DEFINE R == S \ {x}
<1>1. IsFiniteSet(R)
  BY FS_RemoveElement
<1>2. IsFiniteSet(T)
  <2>1. IsFiniteSet(R \cup {x})
    BY <1>1, FS_AddElement
  <2>2. T \in SUBSET (R \cup {x})
    OBVIOUS
  <2> HIDE DEF R
  <2> QED BY <2>1, <2>2, FS_Subset
<1>3. SumFunctionOnSet(g, R) = SumFunctionOnSet(f, R)
  BY <1>1, SumSame DEF SameOn
<1>4. SumFunctionOnSet(f, R) \in Int
  BY <1>1, SumInt
<1>5. SumFunctionOnSet(f, S) = SumFunctionOnSet(f, R) + (IF x \in S THEN f[x] ELSE 0)
  <2>1. CASE x \in S
    BY <2>1, SumSplit
  <2>2. CASE x \notin S
    <3>1. R = S
      BY <2>2
    <3> HIDE DEF R
    <3> QED BY <1>4, <2>2, <3>1
  <2> QED BY <2>1, <2>2
<1>6. SumFunctionOnSet(g, T) = SumFunctionOnSet(g, R) + (IF x \in T THEN g[x] ELSE 0)
  <2>1. CASE x \in T
    <3>1. R = T \ {x}
      OBVIOUS
    <3> QED BY <1>2, <2>1, <3>1, SumSplit
  <2>2. CASE x \notin T
    <3>1. R = T
      BY <2>2
    <3> HIDE DEF R
    <3> QED BY <1>3, <1>4, <2>2, <3>1
  <2> QED BY <2>1, <2>2
<1>7. (x \in S => f[x] \in Int) /\ (x \in T => g[x] \in Int)
  OBVIOUS
<1> HIDE DEF R
<1> QED BY <1>3, <1>4, <1>5, <1>6, <1>7

\* f has natural values on the finite set S, and T is a part of S.
NatPart(f, T, S) == IsFiniteSet(S) /\ T \subseteq S /\ \A x \in S : f[x] \in Nat

\* Natural values: the sum over a part is at most the sum over the whole.
LEMMA SumPart ==
    ASSUME NEW f, NEW T, NEW S, NatPart(f, T, S)
    PROVE  /\ SumFunctionOnSet(f, T) <= SumFunctionOnSet(f, S)
           /\ SumFunctionOnSet(f, T) \in Nat /\ SumFunctionOnSet(f, S) \in Nat
<1> USE DEF NatPart
<1> DEFINE P == {U \in SUBSET S : SumFunctionOnSet(f, T) <= SumFunctionOnSet(f, T \cup U)}
<1>1. \A U \in SUBSET S : SumFunctionOnSet(f, U) \in Nat /\ IsFiniteSet(U)
  BY FS_Subset, SumNat
<1>2. {} \in P
  <2>1. T \cup {} = T /\ SumFunctionOnSet(f, T) \in Nat
    BY <1>1
  <2> QED BY <2>1
<1>3. ASSUME NEW U \in SUBSET S, U \in P, NEW x \in S \ U
      PROVE  U \cup {x} \in P
  <2>1. CASE x \in T
    <3>1. T \cup (U \cup {x}) = T \cup U
      BY <2>1
    <3> QED BY <1>3, <3>1
  <2>2. CASE x \notin T
    <3>1. T \cup (U \cup {x}) = (T \cup U) \cup {x} /\ x \notin T \cup U
      BY <2>2
    <3>2. /\ IsFiniteSet(T \cup U) /\ \A y \in (T \cup U) \cup {x} : f[y] \in Int
          /\ SumFunctionOnSet(f, T \cup U) \in Nat /\ SumFunctionOnSet(f, T) \in Nat
      BY <1>1
    <3>3. SumFunctionOnSet(f, (T \cup U) \cup {x}) = SumFunctionOnSet(f, T \cup U) + f[x]
      BY <3>1, <3>2, SumAdd
    <3>4. f[x] \in Nat /\ U \cup {x} \in SUBSET S
      OBVIOUS
    <3>5. SumFunctionOnSet(f, T) <= SumFunctionOnSet(f, T \cup U)
      BY <1>3
    <3>6. SumFunctionOnSet(f, T) <= SumFunctionOnSet(f, (T \cup U) \cup {x})
      BY <3>2, <3>3, <3>4, <3>5
    <3>7. SumFunctionOnSet(f, T) <= SumFunctionOnSet(f, T \cup (U \cup {x}))
      BY <3>1, <3>6
    <3> QED BY <3>4, <3>7
  <2> QED BY <2>1, <2>2
<1> HIDE DEF P
<1>4. S \in P
  BY <1>2, <1>3, SetInduction
<1>5. T \cup S = S
  OBVIOUS
<1> QED BY <1>1, <1>4, <1>5 DEF P

\* f is zero on S outside its part T.
ZeroOutside(f, T, S) ==
    /\ IsFiniteSet(S) /\ T \subseteq S
    /\ \A x \in S : f[x] \in Int
    /\ \A x \in S \ T : f[x] = 0

\* Elements of value zero may be left out of a sum.
LEMMA SumSupport ==
    ASSUME NEW f, NEW T, NEW S, ZeroOutside(f, T, S)
    PROVE  SumFunctionOnSet(f, T) = SumFunctionOnSet(f, S)
<1> USE DEF ZeroOutside
<1> DEFINE P == {U \in SUBSET S : SumFunctionOnSet(f, T) = SumFunctionOnSet(f, T \cup U)}
<1>1. \A U \in SUBSET S : SumFunctionOnSet(f, U) \in Int /\ IsFiniteSet(U)
  BY FS_Subset, SumInt
<1>2. {} \in P
  <2>1. T \cup {} = T
    OBVIOUS
  <2> QED BY <2>1
<1>3. ASSUME NEW U \in SUBSET S, U \in P, NEW x \in S \ U
      PROVE  U \cup {x} \in P
  <2>1. CASE x \in T
    <3>1. T \cup (U \cup {x}) = T \cup U
      BY <2>1
    <3> QED BY <1>3, <3>1
  <2>2. CASE x \notin T
    <3>1. T \cup (U \cup {x}) = (T \cup U) \cup {x} /\ x \notin T \cup U
      BY <2>2
    <3>2. /\ IsFiniteSet(T \cup U) /\ \A y \in (T \cup U) \cup {x} : f[y] \in Int
          /\ SumFunctionOnSet(f, T \cup U) \in Int /\ f[x] = 0
      BY <1>1, <2>2
    <3>3. SumFunctionOnSet(f, (T \cup U) \cup {x}) = SumFunctionOnSet(f, T \cup U) + f[x]
      BY <3>1, <3>2, SumAdd
    <3>4. SumFunctionOnSet(f, T) = SumFunctionOnSet(f, (T \cup U) \cup {x})
      BY <1>3, <3>2, <3>3
    <3>5. SumFunctionOnSet(f, T) = SumFunctionOnSet(f, T \cup (U \cup {x}))
      BY <3>1, <3>4
    <3> QED BY <3>5
  <2> QED BY <2>1, <2>2
<1> HIDE DEF P
<1>4. S \in P
  BY <1>2, <1>3, SetInduction
<1>5. T \cup S = S
  OBVIOUS
<1> QED BY <1>4, <1>5 DEF P

-----------------------------------------------------------------------------

\* Values of at most m sum up to at most m times their number.
LEMMA SumBound ==
    ASSUME NEW S, IsFiniteSet(S), NEW f, NEW m \in Nat, NEW k \in Nat,
           \A x \in S : f[x] \in 0 .. m, Cardinality(S) <= k
    PROVE  SumFunctionOnSet(f, S) <= k * m
<1> DEFINE P == {T \in SUBSET S : SumFunctionOnSet(f, T) <= Cardinality(T) * m}
<1>1. {} \in P
  BY SumEmpty, FS_EmptySet
<1>2. ASSUME NEW T \in SUBSET S, T \in P, NEW x \in S \ T
      PROVE  T \cup {x} \in P
  <2>1. IsFiniteSet(T) /\ Cardinality(T) \in Nat
    BY FS_Subset, FS_CardinalityType
  <2>2. Cardinality(T \cup {x}) = Cardinality(T) + 1
    BY <2>1, FS_AddElement
  <2>3. /\ SumFunctionOnSet(f, T \cup {x}) = SumFunctionOnSet(f, T) + f[x]
        /\ SumFunctionOnSet(f, T) \in Int
    <3>1. \A y \in T \cup {x} : f[y] \in Int
      OBVIOUS
    <3> QED BY <2>1, <3>1, SumAdd, SumInt
  <2>4. \A n \in Nat : (n + 1) * m = n * m + m /\ n * m \in Nat
    OBVIOUS
  <2>5. f[x] <= m /\ f[x] \in Int /\ SumFunctionOnSet(f, T) <= Cardinality(T) * m
    BY <1>2
  <2>6. /\ (Cardinality(T) + 1) * m = Cardinality(T) * m + m /\ Cardinality(T) * m \in Nat
    BY <2>1, <2>4
  <2>7. SumFunctionOnSet(f, T \cup {x}) <= (Cardinality(T) + 1) * m
    <3> PICK c, d, s : c = Cardinality(T) * m /\ d = (Cardinality(T) + 1) * m /\ s = SumFunctionOnSet(f, T)
      OBVIOUS
    <3>1. c \in Nat /\ d = c + m /\ s \in Int /\ s <= c /\ f[x] \in Int /\ f[x] <= m
      BY <2>3, <2>5, <2>6
    <3>2. s + f[x] <= d
      BY <3>1
    <3> QED BY <2>3, <3>2
  <2> QED BY <2>2, <2>7
<1>3. S \in P
  <2> HIDE DEF P
  <2> QED BY <1>1, <1>2, SetInduction
<1>4. SumFunctionOnSet(f, S) <= Cardinality(S) * m /\ Cardinality(S) \in Nat /\ SumFunctionOnSet(f, S) \in Int
  BY <1>3, FS_CardinalityType, SumInt
<1>5. \A n \in Nat : n <= k => n * m <= k * m /\ n * m \in Nat /\ k * m \in Nat
  OBVIOUS
<1> QED BY <1>4, <1>5

\* A set that holds 0 and the successor of each of its natural numbers holds
\* every natural number.
LEMMA NatSetInduction ==
    ASSUME NEW P, 0 \in P, \A n \in Nat : n \in P => n + 1 \in P
    PROVE  \A n \in Nat : n \in P
<1> DEFINE T == {n \in Nat : n \notin P}
           Less == {ss \in Nat \X Nat : ss[1] < ss[2]}
<1>1. SUFFICES ASSUME T # {} PROVE FALSE
  OBVIOUS
<1>2. T \subseteq Nat
  OBVIOUS
<1>0. IsWellFoundedOn(Less, Nat)
  BY NatLessThanWellFounded DEF OpToRel
<1> HIDE DEF T, Less
<1>3. PICK n \in T : \A m \in T : ~(<<m, n>> \in Less)
  BY <1>0, <1>1, <1>2, WFMin
<1>4. n \in Nat \ {0} /\ n \notin P
  BY <1>3 DEF T
<1>5. n - 1 \in Nat /\ n - 1 \notin P
  BY <1>4
<1>6. n - 1 \in T
  BY <1>5 DEF T
<1>7. <<n - 1, n>> \in Less
  BY <1>4, <1>5 DEF Less
<1> QED BY <1>3, <1>6, <1>7

=============================================================================
