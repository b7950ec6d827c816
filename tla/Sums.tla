--------------------------------- MODULE Sums ---------------------------------
(***************************************************************************)
(* Induction in a form the provers can use, and sums over finite sets.     *)
(***************************************************************************)
EXTENDS Integers, FiniteSetTheorems, Functions, TLAPS

(* Induction over the natural numbers, for a set instead of a predicate:   *)
(* were n missing from a set closed under successor, the predecessor would *)
(* map the finite set of the numbers up to n that are missing into itself, *)
(* one to one and yet not onto.                                            *)
LEMMA NatSetInduction ==
  ASSUME NEW T, 0 \in T, \A n \in Nat : n \in T => n + 1 \in T
  PROVE  Nat \subseteq T
<1> SUFFICES ASSUME NEW n \in Nat, n \notin T PROVE FALSE
  OBVIOUS
<1> DEFINE S == (0..n) \ T
           before == [m \in S |-> m - 1]
<1>1. IsFiniteSet(S)
  <2>1. IsFiniteSet(0..n) BY FS_Interval
  <2> QED BY <2>1, FS_Subset
<1>2. before \in Injection(S, S)
  BY DEF Injection, IsInjective
<1>3. before \in Surjection(S, S)
  BY <1>1, <1>2, FS_Injection
<1>4. n \in S
  OBVIOUS
<1>5. PICK m \in S : before[m] = n
  <2> HIDE DEF S, before
  <2> QED BY <1>3, <1>4 DEF Surjection
<1> QED BY <1>5

----------------------------------------------------------------------------
(* The first element a sum takes, and what it means that g gives the sums  *)
(* of f over the subsets of S of size n or less.                           *)
OneOf(s) == CHOOSE x \in s : TRUE
Adds(g, f, D) ==
    g = [s \in D |-> IF s = {} THEN 0 ELSE f[OneOf(s)] + g[s \ {OneOf(s)}]]
UpTo(S, n) == {s \in SUBSET S : Cardinality(s) <= n}

(* A set that is not empty has the element taken from it, and one less     *)
(* without it.                                                             *)
LEMMA AnyIn ==
  ASSUME NEW S, IsFiniteSet(S), NEW s \in SUBSET S, s # {}
  PROVE  /\ OneOf(s) \in s /\ s \ {OneOf(s)} \in SUBSET S
         /\ IsFiniteSet(s) /\ Cardinality(s) \in Nat \ {0}
         /\ \A x \in s : Cardinality(s \ {x}) = Cardinality(s) - 1
<1>1. OneOf(s) \in s
  BY DEF OneOf
<1>2. IsFiniteSet(s)
  BY FS_Subset
<1>3. Cardinality(s) \in Nat /\ Cardinality(s) # 0
  BY <1>2, FS_CardinalityType, FS_EmptySet
<1>4. \A x \in s : Cardinality(s \ {x}) = Cardinality(s) - 1
  BY <1>2, FS_RemoveElement
<1> QED BY <1>1, <1>2, <1>3, <1>4

(* Sums exist, by induction on the size of the subsets.                    *)
LEMMA SumsExist ==
  ASSUME NEW S, IsFiniteSet(S), NEW f, \A x \in S : f[x] \in Int
  PROVE  \E g \in [SUBSET S -> Int] : Adds(g, f, SUBSET S)
<1> DEFINE T == {n \in Nat : \E g \in [UpTo(S, n) -> Int] : Adds(g, f, UpTo(S, n))}
<1>1. \A s \in SUBSET S : IsFiniteSet(s) /\ Cardinality(s) \in Nat
  BY FS_Subset, FS_CardinalityType
<1>2. 0 \in T
  <2>1. UpTo(S, 0) = {{}}
    BY <1>1, FS_EmptySet DEF UpTo
  <2>2. Adds([s \in {{}} |-> 0], f, {{}})
    BY DEF Adds
  <2>3. \E g \in [{{}} -> Int] : Adds(g, f, {{}})
    <3>1. [s \in {{}} |-> 0] \in [{{}} -> Int]
      OBVIOUS
    <3> QED BY <3>1, <2>2
  <2> QED BY <2>1, <2>3
<1>3. ASSUME NEW n \in Nat, n \in T PROVE n + 1 \in T
  <2>1. PICK g \in [UpTo(S, n) -> Int] : Adds(g, f, UpTo(S, n))
    BY <1>3
  <2> DEFINE D == UpTo(S, n + 1)
             h == [s \in D |-> IF s = {} THEN 0 ELSE f[OneOf(s)] + g[s \ {OneOf(s)}]]
  <2>2. \A s \in D : s # {} => /\ OneOf(s) \in S /\ s \ {OneOf(s)} \in UpTo(S, n)
                               /\ s \ {OneOf(s)} \in D
    <3> SUFFICES ASSUME NEW s \in D, s # {}
                 PROVE  OneOf(s) \in S /\ s \ {OneOf(s)} \in UpTo(S, n) /\ s \ {OneOf(s)} \in D
      OBVIOUS
    <3>1. s \in SUBSET S /\ Cardinality(s) <= n + 1
      BY DEF UpTo
    <3> HIDE DEF D
    <3>2. /\ OneOf(s) \in s /\ s \ {OneOf(s)} \in SUBSET S /\ Cardinality(s) \in Nat \ {0}
          /\ Cardinality(s \ {OneOf(s)}) = Cardinality(s) - 1
      BY <3>1, AnyIn
    <3> QED BY <3>1, <3>2 DEF UpTo, D
  <2>3. h \in [D -> Int]
    BY <2>2
  <2>4. \A s \in UpTo(S, n) : s \in D /\ h[s] = g[s]
    <3>1. UpTo(S, n) \subseteq D
      BY <1>1 DEF UpTo
    <3> HIDE DEF D
    <3> QED BY <3>1, <2>1 DEF Adds
  <2>5. Adds(h, f, D)
    <3> HIDE DEF D
    <3> QED BY <2>2, <2>4 DEF Adds
  <2>6. \E e \in [D -> Int] : Adds(e, f, D)
    <3> HIDE DEF D, h
    <3> QED BY <2>3, <2>5
  <2> QED BY <2>6
<1>4. Cardinality(S) \in T
  <2>1. Nat \subseteq T
    <3> HIDE DEF T
    <3> QED BY <1>2, <1>3, NatSetInduction
  <2> QED BY <2>1, FS_CardinalityType
<1>5. UpTo(S, Cardinality(S)) = SUBSET S
  BY <1>1, FS_Subset DEF UpTo
<1> QED BY <1>4, <1>5

(* What a sum is made of: any function that adds up gives the sums of the  *)
(* library.                                                                *)
LEMMA AddsUnique ==
  ASSUME NEW S, IsFiniteSet(S), NEW f, NEW D, D = SUBSET S, NEW g, NEW h,
         Adds(g, f, D), Adds(h, f, D)
  PROVE  g = h
<1> DEFINE T == {n \in Nat : \A s \in SUBSET S : Cardinality(s) = n => g[s] = h[s]}
<1>1. \A s \in SUBSET S : IsFiniteSet(s) /\ Cardinality(s) \in Nat
  BY FS_Subset, FS_CardinalityType
<1>2. \A s \in SUBSET S : /\ g[s] = IF s = {} THEN 0 ELSE f[OneOf(s)] + g[s \ {OneOf(s)}]
                          /\ h[s] = IF s = {} THEN 0 ELSE f[OneOf(s)] + h[s \ {OneOf(s)}]
  BY DEF Adds
<1>3. 0 \in T
  BY <1>1, <1>2, FS_EmptySet
<1>4. ASSUME NEW n \in Nat, n \in T PROVE n + 1 \in T
  <2> SUFFICES ASSUME NEW s \in SUBSET S, Cardinality(s) = n + 1 PROVE g[s] = h[s]
    OBVIOUS
  <2>1. s # {}
    <3>1. Cardinality({}) = 0
      BY FS_EmptySet
    <3> QED BY <3>1
  <2>2. s \ {OneOf(s)} \in SUBSET S /\ Cardinality(s \ {OneOf(s)}) = n
    BY <2>1, AnyIn
  <2>3. g[s \ {OneOf(s)}] = h[s \ {OneOf(s)}]
    BY <2>2, <1>4
  <2> QED BY <2>1, <2>3, <1>2
<1>5. Nat \subseteq T
  <2> HIDE DEF T
  <2> QED BY <1>3, <1>4, NatSetInduction
<1>6. \A s \in SUBSET S : g[s] = h[s]
  BY <1>1, <1>5
<1>7. g = [s \in D |-> g[s]] /\ h = [s \in D |-> h[s]]
  BY DEF Adds
<1> QED BY <1>6, <1>7

(* Any function that adds f up gives the sum of the library.               *)
LEMMA SumIs ==
  ASSUME NEW S, IsFiniteSet(S), NEW f, \A x \in S : f[x] \in Int,
         NEW g, Adds(g, f, SUBSET S)
  PROVE  SumFunctionOnSet(f, S) = g[S]
<1> DEFINE iter == CHOOSE e : Adds(e, f, SUBSET S)
<1>1. Adds(iter, f, SUBSET S)
  OBVIOUS
<1>2. iter = g
  <2> HIDE DEF iter
  <2> QED BY <1>1, AddsUnique
<1>3. SumFunctionOnSet(f, S) = iter[S]
  BY DEF SumFunctionOnSet, FoldFunctionOnSet, MapThenFoldSet, Adds, OneOf
<1> QED BY <1>2, <1>3

(* Induction over a finite set: a family of its subsets that has the empty *)
(* set, and with a set any set of one element more, has all of it.         *)
LEMMA SubsetInduction ==
  ASSUME NEW S, IsFiniteSet(S), NEW F, {} \in F,
         \A s \in SUBSET S : \A x \in S \ s : s \in F => s \cup {x} \in F
  PROVE  S \in F
<1> DEFINE T == {n \in Nat : \A s \in SUBSET S : Cardinality(s) = n => s \in F}
<1>1. 0 \in T
  <2>1. \A s \in SUBSET S : IsFiniteSet(s)
    BY FS_Subset
  <2> QED BY <2>1, FS_EmptySet
<1>2. ASSUME NEW n \in Nat, n \in T PROVE n + 1 \in T
  <2> SUFFICES ASSUME NEW s \in SUBSET S, Cardinality(s) = n + 1 PROVE s \in F
    OBVIOUS
  <2>1. s # {}
    <3>1. Cardinality({}) = 0
      BY FS_EmptySet
    <3> QED BY <3>1
  <2>2. /\ OneOf(s) \in s /\ s \ {OneOf(s)} \in SUBSET S /\ Cardinality(s \ {OneOf(s)}) = n
    BY <2>1, AnyIn
  <2>3. s \ {OneOf(s)} \in F
    BY <2>2, <1>2
  <2>4. s = (s \ {OneOf(s)}) \cup {OneOf(s)} /\ OneOf(s) \in S \ (s \ {OneOf(s)})
    BY <2>2
  <2> QED BY <2>2, <2>3, <2>4
<1>3. Nat \subseteq T
  <2> HIDE DEF T
  <2> QED BY <1>1, <1>2, NatSetInduction
<1> QED BY <1>3, FS_CardinalityType

(* It does not matter which element a sum takes first.                     *)
LEMMA AnyOrder ==
  ASSUME NEW S, IsFiniteSet(S), NEW f, \A x \in S : f[x] \in Int,
         NEW g \in [SUBSET S -> Int], Adds(g, f, SUBSET S)
  PROVE  \A s \in SUBSET S : \A x \in s : g[s] = f[x] + g[s \ {x}]
<1> DEFINE T == {n \in Nat : \A s \in SUBSET S : Cardinality(s) = n =>
                                \A x \in s : g[s] = f[x] + g[s \ {x}]}
<1>1. 0 \in T
  <2>1. \A s \in SUBSET S : IsFiniteSet(s)
    BY FS_Subset
  <2> QED BY <2>1, FS_EmptySet
<1>2. ASSUME NEW n \in Nat, n \in T PROVE n + 1 \in T
  <2> SUFFICES ASSUME NEW s \in SUBSET S, Cardinality(s) = n + 1, NEW x \in s
               PROVE  g[s] = f[x] + g[s \ {x}]
    OBVIOUS
  <2> DEFINE c == OneOf(s)
  <2>1. c \in s /\ Cardinality(s \ {c}) = n /\ Cardinality(s \ {x}) = n
    <3>1. s # {}
      OBVIOUS
    <3>2. \A y \in s : Cardinality(s \ {y}) = Cardinality(s) - 1
      BY <3>1, AnyIn
    <3> QED BY <3>1, <3>2, AnyIn
  <2>2. g[s] = f[c] + g[s \ {c}]
    BY DEF Adds
  <2> HIDE DEF c
  <2>3. CASE c = x
    BY <2>2, <2>3
  <2>4. CASE c # x
    <3>1. g[s \ {c}] = f[x] + g[(s \ {c}) \ {x}]
      BY <2>1, <2>4, <1>2
    <3>2. g[s \ {x}] = f[c] + g[(s \ {x}) \ {c}]
      BY <2>1, <2>4, <1>2
    <3>3. g[(s \ {c}) \ {x}] = g[(s \ {x}) \ {c}]
      <4>1. (s \ {c}) \ {x} = (s \ {x}) \ {c}
        OBVIOUS
      <4> QED BY <4>1
    <3>4. f[x] \in Int /\ f[c] \in Int /\ g[(s \ {x}) \ {c}] \in Int
      BY <2>1
    <3> QED BY <2>2, <3>1, <3>2, <3>3, <3>4
  <2> QED BY <2>3, <2>4
<1>3. Nat \subseteq T
  <2> HIDE DEF T
  <2> QED BY <1>1, <1>2, NatSetInduction
<1>4. \A s \in SUBSET S : Cardinality(s) \in Nat
  BY FS_Subset, FS_CardinalityType
<1> QED BY <1>3, <1>4

----------------------------------------------------------------------------
(* The facts about sums that proofs cite, first of the empty sum.          *)
LEMMA SumEmpty == \A f : SumFunctionOnSet(f, {}) = 0
<1> SUFFICES ASSUME NEW f PROVE SumFunctionOnSet(f, {}) = 0
  OBVIOUS
<1>1. IsFiniteSet({})
  BY FS_EmptySet
<1>2. PICK g \in [SUBSET {} -> Int] : Adds(g, f, SUBSET {})
  BY <1>1, SumsExist
<1>3. SumFunctionOnSet(f, {}) = g[{}]
  BY <1>1, <1>2, SumIs
<1> QED BY <1>2, <1>3 DEF Adds

(* A sum over one element more.                                            *)
LEMMA SumAdd ==
  ASSUME NEW S, IsFiniteSet(S), NEW x, x \notin S,
         NEW f, \A y \in S \cup {x} : f[y] \in Int
  PROVE  /\ SumFunctionOnSet(f, S) \in Int
         /\ SumFunctionOnSet(f, S \cup {x}) = f[x] + SumFunctionOnSet(f, S)
<1> DEFINE U == S \cup {x}
<1>1. IsFiniteSet(U)
  BY FS_AddElement
<1> HIDE DEF U
<1>2. S \subseteq U /\ x \in U /\ \A y \in U : f[y] \in Int
  BY DEF U
<1>3. PICK g \in [SUBSET U -> Int] : Adds(g, f, SUBSET U)
  BY <1>1, <1>2, SumsExist
<1>4. SumFunctionOnSet(f, U) = g[U]
  BY <1>1, <1>2, <1>3, SumIs
<1> DEFINE h == [s \in SUBSET S |-> g[s]]
<1>5. h \in [SUBSET S -> Int]
  BY <1>2
<1>6. Adds(h, f, SUBSET S)
  <2>1. \A s \in SUBSET S : s \in SUBSET U /\ (s # {} => s \ {OneOf(s)} \in SUBSET S)
    BY <1>2
  <2>2. \A s \in SUBSET S : h[s] = IF s = {} THEN 0 ELSE f[OneOf(s)] + h[s \ {OneOf(s)}]
    BY <1>3, <2>1 DEF Adds
  <2>3. h = [s \in SUBSET S |-> h[s]]
    OBVIOUS
  <2> HIDE DEF h
  <2> QED BY <2>2, <2>3 DEF Adds
<1>7. SumFunctionOnSet(f, S) = h[S]
  <2> HIDE DEF h
  <2> QED BY <1>2, <1>6, SumIs
<1>8. g[U] = f[x] + g[U \ {x}]
  BY <1>1, <1>2, <1>3, AnyOrder
<1>9. U \ {x} = S /\ h[S] = g[S] /\ h[S] \in Int
  BY <1>5 DEF U
<1> QED BY <1>4, <1>7, <1>8, <1>9 DEF U

(* A sum of integers is an integer.                                        *)
LEMMA SumInt ==
  ASSUME NEW S, IsFiniteSet(S), NEW f, \A x \in S : f[x] \in Int
  PROVE  SumFunctionOnSet(f, S) \in Int
<1>1. PICK g \in [SUBSET S -> Int] : Adds(g, f, SUBSET S)
  BY SumsExist
<1> QED BY <1>1, SumIs

(* A sum, one of its elements taken out.                                   *)
LEMMA SumRemove ==
  ASSUME NEW S, IsFiniteSet(S), NEW x \in S, NEW f, \A y \in S : f[y] \in Int
  PROVE  SumFunctionOnSet(f, S) = f[x] + SumFunctionOnSet(f, S \ {x})
<1>1. IsFiniteSet(S \ {x}) /\ (S \ {x}) \cup {x} = S
  BY FS_RemoveElement
<1>2. x \notin S \ {x} /\ \A y \in (S \ {x}) \cup {x} : f[y] \in Int
  OBVIOUS
<1>3. SumFunctionOnSet(f, (S \ {x}) \cup {x}) = f[x] + SumFunctionOnSet(f, S \ {x})
  BY <1>1, <1>2, SumAdd
<1> QED BY <1>1, <1>3

(* Sums of functions that agree on the set are equal.                      *)
LEMMA SumEqual ==
  ASSUME NEW S, IsFiniteSet(S), NEW f, NEW h,
         \A x \in S : f[x] \in Int /\ h[x] = f[x]
  PROVE  SumFunctionOnSet(h, S) = SumFunctionOnSet(f, S)
<1>1. PICK g \in [SUBSET S -> Int] : Adds(g, f, SUBSET S)
  BY SumsExist
<1>2. Adds(g, h, SUBSET S)
  <2>1. \A s \in SUBSET S : s # {} => OneOf(s) \in S
    BY DEF OneOf
  <2> QED BY <1>1, <2>1 DEF Adds
<1> QED BY <1>1, <1>2, SumIs

(* One value changes.                                                      *)
LEMMA SumChange ==
  ASSUME NEW S, IsFiniteSet(S), NEW x \in S, NEW f, NEW h,
         \A y \in S : f[y] \in Int /\ h[y] \in Int,
         \A y \in S \ {x} : h[y] = f[y]
  PROVE  SumFunctionOnSet(h, S) = SumFunctionOnSet(f, S) + h[x] - f[x]
<1>1. IsFiniteSet(S \ {x})
  BY FS_RemoveElement
<1>2. SumFunctionOnSet(h, S \ {x}) = SumFunctionOnSet(f, S \ {x})
  BY <1>1, SumEqual
<1>3. /\ SumFunctionOnSet(h, S) = h[x] + SumFunctionOnSet(h, S \ {x})
      /\ SumFunctionOnSet(f, S) = f[x] + SumFunctionOnSet(f, S \ {x})
  BY SumRemove
<1>4. SumFunctionOnSet(f, S \ {x}) \in Int
  BY <1>1, SumInt
<1> QED BY <1>2, <1>3, <1>4

(* A sum of natural numbers is one.                                        *)
LEMMA SumNat ==
  ASSUME NEW S, IsFiniteSet(S), NEW f, \A x \in S : f[x] \in Nat
  PROVE  SumFunctionOnSet(f, S) \in Nat
<1> DEFINE F == {s \in SUBSET S : SumFunctionOnSet(f, s) \in Nat}
<1>1. {} \in F
  BY SumEmpty
<1>2. ASSUME NEW s \in SUBSET S, NEW x \in S \ s, s \in F PROVE s \cup {x} \in F
  <2>1. SumFunctionOnSet(f, s \cup {x}) = f[x] + SumFunctionOnSet(f, s)
    <3>1. IsFiniteSet(s) /\ \A y \in s \cup {x} : f[y] \in Int
      BY FS_Subset
    <3> QED BY <3>1, SumAdd
  <2> QED BY <1>2, <2>1
<1> HIDE DEF F
<1>3. S \in F
  BY <1>1, <1>2, SubsetInduction
<1> QED BY <1>3 DEF F

(* A sum of zeros.                                                         *)
LEMMA SumZero ==
  ASSUME NEW S, IsFiniteSet(S), NEW f, \A x \in S : f[x] = 0
  PROVE  SumFunctionOnSet(f, S) = 0
<1> DEFINE F == {s \in SUBSET S : SumFunctionOnSet(f, s) = 0}
<1>1. {} \in F
  BY SumEmpty
<1>2. ASSUME NEW s \in SUBSET S, NEW x \in S \ s, s \in F PROVE s \cup {x} \in F
  <2>1. SumFunctionOnSet(f, s \cup {x}) = f[x] + SumFunctionOnSet(f, s)
    <3>1. IsFiniteSet(s) /\ \A y \in s \cup {x} : f[y] \in Int
      BY <1>2, FS_Subset
    <3> QED BY <3>1, <1>2, SumAdd
  <2> QED BY <2>1, <1>2
<1>3. S \in F
  <2> HIDE DEF F
  <2> QED BY <1>1, <1>2, SubsetInduction
<1> QED BY <1>3

(* A sum of natural numbers over a set that has nothing to count outside T *)
(* is no greater than the one over T.                                      *)
LEMMA SumMono ==
  ASSUME NEW S, IsFiniteSet(S), NEW T, IsFiniteSet(T),
         NEW f, \A x \in S \cup T : f[x] \in Nat, \A x \in S \ T : f[x] = 0
  PROVE  SumFunctionOnSet(f, S) <= SumFunctionOnSet(f, T)
<1> DEFINE Sum(s) == SumFunctionOnSet(f, s)
<1>1. ASSUME NEW s, NEW x \in S \cup T, s \subseteq S \cup T, x \notin s
      PROVE  Sum(s \cup {x}) = f[x] + Sum(s) /\ Sum(s) \in Int
  <2>1. IsFiniteSet(s)
    BY <1>1, FS_Union, FS_Subset
  <2>2. \A y \in s \cup {x} : f[y] \in Int
    BY <1>1
  <2> QED BY <1>1, <2>1, <2>2, SumAdd
<1> HIDE DEF Sum
<1>2. Sum(S) <= Sum(S \cap T)
  <2> DEFINE F == {s \in SUBSET S : Sum(s) <= Sum(s \cap T)}
  <2>1. {} \in F
    <3>1. Sum({}) = 0
      BY SumEmpty DEF Sum
    <3> QED BY <3>1
  <2>2. ASSUME NEW s \in SUBSET S, NEW x \in S \ s, s \in F PROVE s \cup {x} \in F
    <3>1. Sum(s \cup {x}) = f[x] + Sum(s) /\ Sum(s) \in Int
      BY <1>1
    <3>2. Sum(s \cap T) \in Int
      <4>1. IsFiniteSet(s \cap T) /\ \A y \in s \cap T : f[y] \in Int
        BY FS_Subset
      <4> QED BY <4>1, SumInt DEF Sum
    <3>0. f[x] \in Nat /\ Sum(s) <= Sum(s \cap T)
      BY <2>2
    <3>3. CASE x \in T
      <4>1. (s \cup {x}) \cap T = (s \cap T) \cup {x}
        BY <3>3
      <4>2. Sum((s \cap T) \cup {x}) = f[x] + Sum(s \cap T)
        BY <1>1
      <4>3. Sum((s \cup {x}) \cap T) = f[x] + Sum(s \cap T)
        BY <4>1, <4>2
      <4> QED BY <3>0, <3>1, <3>2, <4>3
    <3>4. CASE x \notin T
      <4>1. (s \cup {x}) \cap T = s \cap T /\ f[x] = 0
        BY <3>4
      <4>2. Sum((s \cup {x}) \cap T) = Sum(s \cap T)
        BY <4>1
      <4>3. Sum(s \cup {x}) = Sum(s)
        BY <3>1, <4>1
      <4> QED BY <3>0, <4>2, <4>3
    <3> QED BY <3>3, <3>4
  <2> HIDE DEF F
  <2>3. S \in F
    BY <2>1, <2>2, SubsetInduction
  <2> QED BY <2>3 DEF F
<1>3. Sum(S \cap T) <= Sum(T)
  <2> DEFINE R == T \ S
             F == {s \in SUBSET R : Sum(S \cap T) <= Sum((S \cap T) \cup s)}
  <2>0. IsFiniteSet(R) /\ IsFiniteSet(S \cap T) /\ (S \cap T) \cup R = T
    BY FS_Subset
  <2>1. {} \in F
    <3>1. Sum(S \cap T) \in Int
      <4>1. \A y \in S \cap T : f[y] \in Int
        OBVIOUS
      <4> QED BY <2>0, <4>1, SumInt DEF Sum
    <3>2. (S \cap T) \cup {} = S \cap T
      OBVIOUS
    <3> QED BY <3>1, <3>2
  <2>2. ASSUME NEW s \in SUBSET R, NEW x \in R \ s, s \in F PROVE s \cup {x} \in F
    <3>1. (S \cap T) \cup (s \cup {x}) = ((S \cap T) \cup s) \cup {x}
      OBVIOUS
    <3>2. Sum(((S \cap T) \cup s) \cup {x}) = f[x] + Sum((S \cap T) \cup s)
          /\ Sum((S \cap T) \cup s) \in Int
      BY <1>1
    <3>3. f[x] \in Nat
      OBVIOUS
    <3>4. Sum(S \cap T) \in Int
      <4>1. \A y \in S \cap T : f[y] \in Int
        OBVIOUS
      <4> QED BY <2>0, <4>1, SumInt DEF Sum
    <3> QED BY <2>2, <3>1, <3>2, <3>3, <3>4
  <2> HIDE DEF F, R
  <2>3. R \in F
    BY <2>0, <2>1, <2>2, SubsetInduction
  <2> QED BY <2>0, <2>3 DEF F
<1>4. Sum(S) \in Int /\ Sum(S \cap T) \in Int /\ Sum(T) \in Int
  <2>1. IsFiniteSet(S \cap T) /\ \A y \in S \cup T : f[y] \in Int
    BY FS_Subset
  <2> QED BY <2>1, SumInt DEF Sum
<1> QED BY <1>2, <1>3, <1>4 DEF Sum
=============================================================================
