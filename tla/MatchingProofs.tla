-------------------------- MODULE MatchingProofs ---------------------------
(***************************************************************************)
(* Proofs about Hungarian, for every matrix of integers, and about         *)
(* Matching, for every cost function of at least one chair and one ride    *)
(* and every budget.                                                       *)
(***************************************************************************)
EXTENDS Matching, FiniteSetTheorems, WellFoundedInduction, TLAPS

-----------------------------------------------------------------------------
(* Induction, stated with sets, from the library's theorem that a set of numbers has a
   least element. *)

LEMMA LeastNumber ==
  ASSUME NEW T \in SUBSET Nat, T # {}
  PROVE  \E n \in T : \A m \in T : n <= m
<1>1. \E n \in T : \A m \in T : ~(<<m, n>> \in OpToRel(<, Nat))
  BY NatLessThanWellFounded, WFMin
<1>2. \E n \in T : \A m \in T : ~(m < n)
  BY <1>1 DEF OpToRel
<1> QED
  BY <1>2

(* The numbers that have a property are all of them. *)
LEMMA NumberInduction ==
  ASSUME NEW Good, 0 \in Good,
         \A n \in Nat : n \in Good => n + 1 \in Good
  PROVE  Nat \subseteq Good
<1> DEFINE Bad == Nat \ Good
<1>1. SUFFICES ASSUME Bad # {} PROVE FALSE
  OBVIOUS
<1>2. Bad \in SUBSET Nat
  OBVIOUS
<1>3. PICK n \in Bad : \A m \in Bad : n <= m
  BY <1>1, <1>2, LeastNumber
<1>4. n \in Nat /\ n # 0 /\ n - 1 \in Nat
  BY <1>3
<1>5. n - 1 \in Good
  BY <1>3, <1>4
<1>6. (n - 1) + 1 = n
  BY <1>4
<1> QED
  BY <1>3, <1>4, <1>5, <1>6

(* The same for the subsets of a finite set. *)
LEMMA SetInduction ==
  ASSUME NEW S, IsFiniteSet(S), NEW Good, {} \in Good,
         \A T \in SUBSET S, x \in S : T \in Good /\ x \notin T => T \cup {x} \in Good
  PROVE  S \in Good
<1> DEFINE Sizes == {n \in Nat : \A T \in SUBSET S : Cardinality(T) = n => T \in Good}
<1>1. 0 \in Sizes
  <2> SUFFICES ASSUME NEW T \in SUBSET S, Cardinality(T) = 0 PROVE T \in Good
    OBVIOUS
  <2>1. IsFiniteSet(T)
    BY FS_Subset
  <2>2. T = {}
    BY <2>1, FS_EmptySet
  <2> QED
    BY <2>2
<1>2. ASSUME NEW n \in Nat, n \in Sizes PROVE n + 1 \in Sizes
  <2> SUFFICES ASSUME NEW T \in SUBSET S, Cardinality(T) = n + 1 PROVE T \in Good
    OBVIOUS
  <2>1. IsFiniteSet(T)
    BY FS_Subset
  <2>2. T # {}
    BY <2>1, FS_EmptySet
  <2>3. PICK x \in T : TRUE
    BY <2>2
  <2>4. Cardinality(T \ {x}) = n
    <3>1. Cardinality(T \ {x}) = Cardinality(T) - 1
      BY <2>1, <2>3, FS_RemoveElement
    <3> QED
      BY <3>1
  <2>5. T \ {x} \in Good /\ T \ {x} \in SUBSET S
    BY <1>2, <2>4
  <2>6. (T \ {x}) \cup {x} \in Good
    BY <2>5, <2>3
  <2>7. (T \ {x}) \cup {x} = T
    BY <2>3
  <2> QED
    BY <2>6, <2>7
<1> HIDE DEF Sizes
<1>3. Nat \subseteq Sizes
  BY <1>1, <1>2, NumberInduction
<1>4. Cardinality(S) \in Sizes
  BY <1>3, FS_CardinalityType
<1> QED
  BY <1>4 DEF Sizes

-----------------------------------------------------------------------------
(* Sums over finite sets. *)

First(s) == CHOOSE x \in s : TRUE

(* The function by which the library defines a sum, on the subsets of S in D. *)
SumsUp(g, f, D) ==
  g = [s \in D |-> IF s = {} THEN 0 ELSE f[First(s)] + g[s \ {First(s)}]]

Sum(f, S) == SumFunctionOnSet(f, S)

(* There is such a function, and only one: what the library's CHOOSE stands for. *)
LEMMA SumIsChosen ==
  ASSUME NEW f, NEW S
  PROVE  Sum(f, S) = (CHOOSE g : SumsUp(g, f, SUBSET S))[S]
BY DEF Sum, SumFunctionOnSet, FoldFunctionOnSet, MapThenFoldSet, SumsUp, First

LEMMA SomeSumsUp ==
  ASSUME NEW f, NEW S, IsFiniteSet(S)
  PROVE  \E g : SumsUp(g, f, SUBSET S)
<1> DEFINE D(n) == {s \in SUBSET S : Cardinality(s) <= n}
           Sizes == {n \in Nat : \E g : SumsUp(g, f, D(n))}
<1>0. \A s \in SUBSET S : IsFiniteSet(s) /\ Cardinality(s) \in Nat
  BY FS_Subset, FS_CardinalityType
<1>1. 0 \in Sizes
  <2>1. \A s \in D(0) : s = {}
    BY <1>0, FS_EmptySet
  <2> DEFINE g == [s \in D(0) |-> 0]
  <2>2. g = [s \in D(0) |-> IF s = {} THEN 0 ELSE f[First(s)] + g[s \ {First(s)}]]
    BY <2>1
  <2> QED
    BY <2>2 DEF SumsUp
<1>2. ASSUME NEW n \in Nat, n \in Sizes PROVE n + 1 \in Sizes
  <2>1. PICK g : SumsUp(g, f, D(n))
    BY <1>2
  <2> DEFINE h == [s \in D(n + 1) |-> IF s = {} THEN 0 ELSE f[First(s)] + g[s \ {First(s)}]]
  <2>2. ASSUME NEW s \in D(n + 1), s # {}
        PROVE  h[s \ {First(s)}] = g[s \ {First(s)}]
    <3> DEFINE t == s \ {First(s)}
    <3>1. First(s) \in s
      BY <2>2 DEF First
    <3>2. t \in SUBSET S /\ Cardinality(t) = Cardinality(s) - 1
      BY <3>1, <1>0, FS_RemoveElement
    <3>3. t \in D(n) /\ t \in D(n + 1)
      BY <3>2, <1>0
    <3>4. g[t] = IF t = {} THEN 0 ELSE f[First(t)] + g[t \ {First(t)}]
      BY <2>1, <3>3 DEF SumsUp
    <3>5. h[t] = IF t = {} THEN 0 ELSE f[First(t)] + g[t \ {First(t)}]
      BY <3>3
    <3> QED
      BY <3>4, <3>5
  <2>3. h = [s \in D(n + 1) |-> IF s = {} THEN 0 ELSE f[First(s)] + h[s \ {First(s)}]]
    BY <2>2
  <2>4. SumsUp(h, f, D(n + 1))
    BY <2>3 DEF SumsUp
  <2> HIDE DEF h
  <2>5. \E k : SumsUp(k, f, D(n + 1))
    BY <2>4, Zenon
  <2>6. n + 1 \in Nat
    OBVIOUS
  <2> QED
    BY <2>5, <2>6, Zenon
<1>3. Nat \subseteq Sizes
  <2> HIDE DEF Sizes
  <2> QED
    BY <1>1, <1>2, NumberInduction
<1>4. PICK g : SumsUp(g, f, D(Cardinality(S)))
  BY <1>3, FS_CardinalityType
<1>5. D(Cardinality(S)) = SUBSET S
  BY FS_Subset
<1> QED
  BY <1>4, <1>5

LEMMA SumsUpAlike ==
  ASSUME NEW f, NEW S, NEW T \in SUBSET S, NEW g, NEW h, IsFiniteSet(S),
         SumsUp(g, f, SUBSET S), SumsUp(h, f, SUBSET T)
  PROVE  g[T] = h[T]
<1> DEFINE Sizes == {n \in Nat : \A s \in SUBSET T : Cardinality(s) = n => g[s] = h[s]}
<1>0. \A s \in SUBSET T : IsFiniteSet(s) /\ Cardinality(s) \in Nat
  BY FS_Subset, FS_CardinalityType
<1>a. \A s \in SUBSET T :
        /\ g[s] = IF s = {} THEN 0 ELSE f[First(s)] + g[s \ {First(s)}]
        /\ h[s] = IF s = {} THEN 0 ELSE f[First(s)] + h[s \ {First(s)}]
  BY DEF SumsUp
<1>1. 0 \in Sizes
  BY <1>0, <1>a, FS_EmptySet
<1>2. ASSUME NEW n \in Nat, n \in Sizes PROVE n + 1 \in Sizes
  <2> SUFFICES ASSUME NEW s \in SUBSET T, Cardinality(s) = n + 1 PROVE g[s] = h[s]
    OBVIOUS
  <2>1. s # {}
    BY <1>0, FS_EmptySet
  <2>2. First(s) \in s
    BY <2>1 DEF First
  <2>3. Cardinality(s \ {First(s)}) = n
    <3>1. Cardinality(s \ {First(s)}) = Cardinality(s) - 1
      BY <1>0, <2>2, FS_RemoveElement
    <3> QED
      BY <3>1
  <2>4. g[s \ {First(s)}] = h[s \ {First(s)}]
    BY <1>2, <2>3
  <2> QED
    BY <1>a, <2>1, <2>4
<1> HIDE DEF Sizes
<1>3. Nat \subseteq Sizes
  BY <1>1, <1>2, NumberInduction
<1>4. Cardinality(T) \in Sizes
  BY <1>3, <1>0
<1> QED
  BY <1>4 DEF Sizes

(* The equation of the definition holds. *)
LEMMA SumEquation ==
  ASSUME NEW f, NEW S, IsFiniteSet(S)
  PROVE  Sum(f, S) = IF S = {} THEN 0 ELSE f[First(S)] + Sum(f, S \ {First(S)})
<1>1. /\ S \ {First(S)} \in SUBSET S
      /\ IsFiniteSet(S \ {First(S)})
  BY FS_RemoveElement
<1>2. PICK g : g = CHOOSE k : SumsUp(k, f, SUBSET S)
  OBVIOUS
<1>3. PICK h : h = CHOOSE k : SumsUp(k, f, SUBSET (S \ {First(S)}))
  OBVIOUS
<1>4. SumsUp(g, f, SUBSET S)
  BY <1>2, SomeSumsUp, Zenon
<1>5. SumsUp(h, f, SUBSET (S \ {First(S)}))
  BY <1>1, <1>3, SomeSumsUp, Zenon
<1>6. Sum(f, S) = g[S] /\ Sum(f, S \ {First(S)}) = h[S \ {First(S)}]
  BY <1>2, <1>3, SumIsChosen
<1>7. g[S] = IF S = {} THEN 0 ELSE f[First(S)] + g[S \ {First(S)}]
  BY <1>4 DEF SumsUp
<1>8. g[S \ {First(S)}] = h[S \ {First(S)}]
  <2>1. ASSUME NEW T \in SUBSET S, SumsUp(h, f, SUBSET T) PROVE g[T] = h[T]
    BY <1>4, <2>1, SumsUpAlike
  <2> QED
    BY <1>1, <1>5, <2>1, Zenon
<1> QED
  BY <1>6, <1>7, <1>8

(* A sum of integers is one. *)
LEMMA SumType ==
  ASSUME NEW f, NEW S, IsFiniteSet(S), \A x \in S : f[x] \in Int
  PROVE  Sum(f, S) \in Int
<1> DEFINE Sizes ==
             {n \in Nat : \A T \in SUBSET S : Cardinality(T) = n => Sum(f, T) \in Int}
<1>0. \A T \in SUBSET S : IsFiniteSet(T) /\ Cardinality(T) \in Nat
  BY FS_Subset, FS_CardinalityType
<1>1. 0 \in Sizes
  <2>1. Sum(f, {}) = 0
    BY SumEquation, FS_EmptySet
  <2> QED
    BY <1>0, <2>1, FS_EmptySet
<1>2. ASSUME NEW n \in Nat, n \in Sizes PROVE n + 1 \in Sizes
  <2> SUFFICES ASSUME NEW T \in SUBSET S, Cardinality(T) = n + 1 PROVE Sum(f, T) \in Int
    OBVIOUS
  <2>1. IsFiniteSet(T) /\ T # {}
    BY <1>0, FS_EmptySet
  <2>2. First(T) \in T
    BY <2>1 DEF First
  <2>3. Cardinality(T \ {First(T)}) = Cardinality(T) - 1
    BY <2>1, <2>2, FS_RemoveElement
  <2>4. Sum(f, T \ {First(T)}) \in Int
    BY <1>2, <2>3
  <2>5. Sum(f, T) = f[First(T)] + Sum(f, T \ {First(T)})
    BY <2>1, SumEquation
  <2> QED
    BY <2>2, <2>4, <2>5
<1> HIDE DEF Sizes
<1>3. Nat \subseteq Sizes
  BY <1>1, <1>2, NumberInduction
<1>4. Cardinality(S) \in Sizes
  BY <1>3, FS_CardinalityType
<1> QED
  BY <1>4 DEF Sizes

(* Any element may be taken first. *)
LEMMA SumRemove ==
  ASSUME NEW f, NEW S, IsFiniteSet(S), \A x \in S : f[x] \in Int
  PROVE  \A x \in S : Sum(f, S) = f[x] + Sum(f, S \ {x})
<1> DEFINE Right(T) == \A x \in T : Sum(f, T) = f[x] + Sum(f, T \ {x})
           Sizes == {n \in Nat : \A T \in SUBSET S : Cardinality(T) = n => Right(T)}
<1>0. \A T \in SUBSET S :
        IsFiniteSet(T) /\ Cardinality(T) \in Nat /\ Sum(f, T) \in Int
  BY FS_Subset, FS_CardinalityType, SumType
<1>1. 0 \in Sizes
  BY <1>0, FS_EmptySet
<1>2. ASSUME NEW n \in Nat, n \in Sizes PROVE n + 1 \in Sizes
  <2> SUFFICES ASSUME NEW T \in SUBSET S, Cardinality(T) = n + 1, NEW x \in T
               PROVE  Sum(f, T) = f[x] + Sum(f, T \ {x})
    OBVIOUS
  <2>1. IsFiniteSet(T) /\ T # {}
    BY <1>0, FS_EmptySet
  <2>2. PICK c : c = First(T)
    OBVIOUS
  <2>3. c \in T
    BY <2>1, <2>2 DEF First
  <2>4. Sum(f, T) = f[c] + Sum(f, T \ {c})
    BY <2>1, <2>2, SumEquation
  <2>5. CASE x = c
    BY <2>4, <2>5
  <2>6. CASE x # c
    <3>1. \A y \in T : Right(T \ {y})
      <4> TAKE y \in T
      <4>1. Cardinality(T \ {y}) = Cardinality(T) - 1
        BY <2>1, FS_RemoveElement
      <4> QED
        BY <1>2, <4>1
    <3>2. x \in T \ {c} /\ c \in T \ {x}
      BY <2>3, <2>6
    <3>3. Sum(f, T \ {c}) = f[x] + Sum(f, (T \ {c}) \ {x})
      BY <2>3, <3>1, <3>2
    <3>4. Sum(f, T \ {x}) = f[c] + Sum(f, (T \ {x}) \ {c})
      BY <3>1, <3>2
    <3>5. (T \ {c}) \ {x} = (T \ {x}) \ {c}
      OBVIOUS
    <3>6. Sum(f, (T \ {c}) \ {x}) \in Int /\ f[x] \in Int /\ f[c] \in Int
      BY <1>0, <2>3
    <3>7. Sum(f, T \ {x}) = f[c] + Sum(f, (T \ {c}) \ {x})
      BY <3>4, <3>5, Zenon
    <3> QED
      BY <2>4, <3>3, <3>6, <3>7
  <2> QED
    BY <2>5, <2>6
<1> HIDE DEF Sizes
<1>3. Nat \subseteq Sizes
  BY <1>1, <1>2, NumberInduction
<1>4. Cardinality(S) \in Sizes
  BY <1>3, FS_CardinalityType
<1> QED
  BY <1>4 DEF Sizes

(* One element more. *)
LEMMA SumEmpty == ASSUME NEW f PROVE Sum(f, {}) = 0
  BY SumEquation, FS_EmptySet

LEMMA SumAdd ==
  ASSUME NEW f, NEW S, NEW T \in SUBSET S, NEW x \in S, IsFiniteSet(S),
         \A y \in S : f[y] \in Int, x \notin T
  PROVE  Sum(f, T \cup {x}) = f[x] + Sum(f, T)
<1>1. IsFiniteSet(T \cup {x})
  BY FS_Subset
<1>2. (T \cup {x}) \ {x} = T
  OBVIOUS
<1>3. \A y \in T \cup {x} : f[y] \in Int
  OBVIOUS
<1>4. \A y \in T \cup {x} : Sum(f, T \cup {x}) = f[y] + Sum(f, (T \cup {x}) \ {y})
  BY <1>1, <1>3, SumRemove
<1> QED
  BY <1>2, <1>4

(* The sums over the subsets are integers too. *)
LEMMA SubSums ==
  ASSUME NEW f, NEW S, IsFiniteSet(S), \A x \in S : f[x] \in Int
  PROVE  \A T \in SUBSET S : Sum(f, T) \in Int
<1> TAKE T \in SUBSET S
<1>1. IsFiniteSet(T) /\ \A x \in T : f[x] \in Int
  BY FS_Subset
<1> QED
  BY <1>1, SumType

(* Larger summands, larger sums. *)
LEMMA SumMonotone ==
  ASSUME NEW f, NEW g, NEW S, IsFiniteSet(S),
         \A x \in S : f[x] \in Int /\ g[x] \in Int /\ f[x] <= g[x]
  PROVE  Sum(f, S) <= Sum(g, S)
<1> DEFINE Good == {T \in SUBSET S : Sum(f, T) <= Sum(g, T)}
<1>1. {} \in Good
  BY SumEmpty
<1>2. ASSUME NEW T \in SUBSET S, NEW x \in S, T \in Good, x \notin T
      PROVE  T \cup {x} \in Good
  <2>1. Sum(f, T \cup {x}) = f[x] + Sum(f, T) /\ Sum(g, T \cup {x}) = g[x] + Sum(g, T)
    BY <1>2, SumAdd
  <2>2. Sum(f, T) \in Int /\ Sum(g, T) \in Int
    BY SubSums
  <2>3. f[x] \in Int /\ g[x] \in Int /\ f[x] <= g[x] /\ Sum(f, T) <= Sum(g, T)
    BY <1>2
  <2> QED
    BY <2>1, <2>2, <2>3
<1> HIDE DEF Good
<1>3. S \in Good
  BY <1>1, <1>2, SetInduction
<1> QED
  BY <1>3 DEF Good

(* The sum of two functions. *)
LEMMA SumPlus ==
  ASSUME NEW f, NEW g, NEW h, NEW S, IsFiniteSet(S),
         \A x \in S : f[x] \in Int /\ g[x] \in Int /\ h[x] = f[x] + g[x]
  PROVE  Sum(h, S) = Sum(f, S) + Sum(g, S)
<1> DEFINE Good == {T \in SUBSET S : Sum(h, T) = Sum(f, T) + Sum(g, T)}
<1>1. {} \in Good
  BY SumEmpty
<1>2. ASSUME NEW T \in SUBSET S, NEW x \in S, T \in Good, x \notin T
      PROVE  T \cup {x} \in Good
  <2>1. \A y \in S : h[y] \in Int
    OBVIOUS
  <2>2. /\ Sum(f, T \cup {x}) = f[x] + Sum(f, T) /\ Sum(g, T \cup {x}) = g[x] + Sum(g, T)
        /\ Sum(h, T \cup {x}) = h[x] + Sum(h, T)
    BY <1>2, <2>1, SumAdd
  <2>3. Sum(f, T) \in Int /\ Sum(g, T) \in Int
    BY SubSums
  <2>4. /\ f[x] \in Int /\ g[x] \in Int /\ h[x] = f[x] + g[x]
        /\ Sum(h, T) = Sum(f, T) + Sum(g, T)
    BY <1>2
  <2> QED
    BY <2>2, <2>3, <2>4
<1> HIDE DEF Good
<1>3. S \in Good
  BY <1>1, <1>2, SetInduction
<1> QED
  BY <1>3 DEF Good

(* What is left out adds nothing, or takes something away. *)
LEMMA SumPart ==
  ASSUME NEW f, NEW S, NEW T \in SUBSET S, IsFiniteSet(S),
         \A x \in S : f[x] \in Int, \A x \in S \ T : f[x] <= 0
  PROVE  /\ Sum(f, S) <= Sum(f, T)
         /\ (\A x \in S \ T : f[x] = 0) => Sum(f, S) = Sum(f, T)
<1> DEFINE R == S \ T
           Good == {U \in SUBSET R :
                      /\ Sum(f, T \cup U) <= Sum(f, T)
                      /\ (\A x \in R : f[x] = 0) => Sum(f, T \cup U) = Sum(f, T)}
<1>0. IsFiniteSet(R)
  BY FS_Subset
<1>a. \A U \in SUBSET S : Sum(f, U) \in Int
  BY SubSums
<1>1. {} \in Good
  <2>1. T \cup {} = T
    OBVIOUS
  <2> QED
    BY <1>a, <2>1
<1>2. ASSUME NEW U \in SUBSET R, NEW x \in R, U \in Good, x \notin U
      PROVE  U \cup {x} \in Good
  <2>1. T \cup (U \cup {x}) = (T \cup U) \cup {x}
    OBVIOUS
  <2>2. T \cup U \in SUBSET S /\ x \in S /\ x \notin T \cup U
    BY <1>2
  <2>a. Sum(f, (T \cup U) \cup {x}) = f[x] + Sum(f, T \cup U)
    BY <2>2, SumAdd
  <2>3. Sum(f, T \cup (U \cup {x})) = f[x] + Sum(f, T \cup U)
    BY <2>1, <2>a, Zenon
  <2>4. Sum(f, T \cup U) \in Int /\ Sum(f, T) \in Int /\ f[x] \in Int /\ f[x] <= 0
    BY <1>a, <2>2
  <2>5. /\ Sum(f, T \cup U) <= Sum(f, T)
        /\ (\A y \in R : f[y] = 0) => Sum(f, T \cup U) = Sum(f, T)
    BY <1>2
  <2>6. Sum(f, T \cup (U \cup {x})) <= Sum(f, T)
    BY <2>3, <2>4, <2>5
  <2>7. ASSUME \A y \in R : f[y] = 0 PROVE Sum(f, T \cup (U \cup {x})) = Sum(f, T)
    <3>1. f[x] = 0
      BY <2>7
    <3> QED
      BY <2>3, <2>4, <2>5, <2>7, <3>1
  <2> QED
    BY <2>6, <2>7
<1> HIDE DEF Good
<1>3. R \in Good
  BY <1>0, <1>1, <1>2, SetInduction
<1>4. T \cup R = S
  OBVIOUS
<1> QED
  BY <1>3, <1>4 DEF Good

(* A sum over other names. *)
LEMMA SumRenamed ==
  ASSUME NEW f, NEW g, NEW k, NEW S, NEW R, IsFiniteSet(S), k \in Injection(S, R),
         \A x \in S : f[x] \in Int /\ g[k[x]] = f[x]
  PROVE  Sum(f, S) = Sum(g, {k[x] : x \in S})
<1> DEFINE Image(T) == {k[x] : x \in T}
           Good == {T \in SUBSET S : Sum(f, T) = Sum(g, Image(T))}
<1>0. k \in [S -> R] /\ \A x, y \in S : k[x] = k[y] => x = y
  BY DEF Injection, IsInjective
<1>1. {} \in Good
  <2>1. Image({}) = {}
    OBVIOUS
  <2> QED
    BY <2>1, SumEmpty
<1>2. ASSUME NEW T \in SUBSET S, NEW x \in S, T \in Good, x \notin T
      PROVE  T \cup {x} \in Good
  <2>1. Image(T \cup {x}) = Image(T) \cup {k[x]}
    OBVIOUS
  <2>2. k[x] \notin Image(T)
    BY <1>0, <1>2
  <2>3. IsFiniteSet(Image(S)) /\ Image(T) \in SUBSET Image(S) /\ k[x] \in Image(S)
    <3>1. [y \in S |-> k[y]] \in Surjection(S, Image(S))
      BY DEF Surjection
    <3>2. IsFiniteSet(Image(S))
      BY <3>1, FS_Surjection
    <3> QED
      BY <3>2
  <2>4. \A y \in Image(S) : g[y] \in Int
    OBVIOUS
  <2> HIDE DEF Image
  <2>5. Sum(g, Image(T) \cup {k[x]}) = g[k[x]] + Sum(g, Image(T))
    BY <2>2, <2>3, <2>4, SumAdd
  <2>6. Sum(f, T \cup {x}) = f[x] + Sum(f, T)
    BY <1>2, SumAdd
  <2> QED
    BY <1>2, <2>1, <2>5, <2>6
<1> HIDE DEF Good
<1>3. S \in Good
  BY <1>1, <1>2, SetInduction
<1> QED
  BY <1>3 DEF Good

-----------------------------------------------------------------------------
(* Ranks in a finite set under a strict total order. *)

Orders(R, S) ==
  /\ \A x \in S : <<x, x>> \notin R
  /\ \A x, y, z \in S : <<x, y>> \in R /\ <<y, z>> \in R => <<x, z>> \in R
  /\ \A x, y \in S : x = y \/ <<x, y>> \in R \/ <<y, x>> \in R

Rank(x, S, R) == Cardinality({y \in S : <<y, x>> \in R})

(* A rank tells the elements apart, and in their order. *)
LEMMA RankOrder ==
  ASSUME NEW S, NEW R, IsFiniteSet(S), Orders(R, S)
  PROVE  /\ \A x \in S : Rank(x, S, R) \in 0 .. Cardinality(S) - 1
         /\ \A x, y \in S : <<x, y>> \in R => Rank(x, S, R) < Rank(y, S, R)
         /\ \A x, y \in S : Rank(x, S, R) < Rank(y, S, R) => <<x, y>> \in R
         /\ \A x, y \in S : Rank(x, S, R) = Rank(y, S, R) => x = y
<1> DEFINE Below(x) == {y \in S : <<y, x>> \in R}
<1>1. Cardinality(S) \in Nat
  BY FS_CardinalityType
<1>2. ASSUME NEW T \in SUBSET S
      PROVE  Cardinality(T) \in Nat /\ IsFiniteSet(T)
  BY FS_Subset, FS_CardinalityType
<1>3. ASSUME NEW T \in SUBSET S, NEW U \in SUBSET T, T # U
      PROVE  Cardinality(U) < Cardinality(T)
  <2>1. IsFiniteSet(T) /\ Cardinality(T) \in Nat /\ Cardinality(U) \in Nat
    BY <1>2
  <2>2. Cardinality(U) <= Cardinality(T) /\ Cardinality(T) # Cardinality(U)
    BY <1>3, <2>1, FS_Subset
  <2> QED
    BY <2>1, <2>2
<1>4. \A x \in S : Rank(x, S, R) = Cardinality(Below(x))
  BY DEF Rank
<1>5. ASSUME NEW x \in S PROVE Rank(x, S, R) \in 0 .. Cardinality(S) - 1
  <2>1. Below(x) \in SUBSET S /\ Below(x) # S
    BY DEF Orders
  <2>2. Cardinality(Below(x)) < Cardinality(S) /\ Cardinality(Below(x)) \in Nat
    BY <1>2, <1>3, <2>1
  <2> QED
    BY <1>1, <1>4, <2>2
<1>6. ASSUME NEW x \in S, NEW y \in S, <<x, y>> \in R
      PROVE  Rank(x, S, R) < Rank(y, S, R)
  <2>1. Below(x) \in SUBSET Below(y)
    BY <1>6 DEF Orders
  <2>2. Below(y) \in SUBSET S /\ Below(y) # Below(x)
    BY <1>6 DEF Orders
  <2> QED
    BY <1>3, <1>4, <2>1, <2>2
<1>7. ASSUME NEW x \in S, NEW y \in S
      PROVE  /\ Rank(x, S, R) < Rank(y, S, R) => <<x, y>> \in R
             /\ Rank(x, S, R) = Rank(y, S, R) => x = y
  <2>1. x = y \/ <<x, y>> \in R \/ <<y, x>> \in R
    BY DEF Orders
  <2>2. Rank(x, S, R) \in Int /\ Rank(y, S, R) \in Int
    BY <1>1, <1>5
  <2> QED
    BY <1>6, <2>1, <2>2
<1> QED
  BY <1>5, <1>6, <1>7

(* Every rank is taken. *)
LEMMA RankTaken ==
  ASSUME NEW S, NEW R, IsFiniteSet(S), Orders(R, S)
  PROVE  \A n \in 0 .. Cardinality(S) - 1 : \E x \in S : Rank(x, S, R) = n
<1> DEFINE T == 0 .. Cardinality(S) - 1
           f == [x \in S |-> Rank(x, S, R)]
<1>1. f \in Injection(S, T)
  BY RankOrder DEF Injection, IsInjective
<1>2. Cardinality(S) \in Nat
  BY FS_CardinalityType
<1>3. IsFiniteSet(T) /\ Cardinality(T) = Cardinality(S)
  BY <1>2, FS_Interval
<1> HIDE DEF T
<1>4. f \in Surjection(S, T)
  BY <1>1, <1>3, FS_Injection
<1> QED
  BY <1>4 DEF Surjection, T

(* There are k elements of a rank below k, unless there are fewer in all. *)
LEMMA RankBelow ==
  ASSUME NEW S, NEW R, NEW k \in Nat, IsFiniteSet(S), Orders(R, S)
  PROVE  LET Low == {x \in S : Rank(x, S, R) < k} IN
         /\ IsFiniteSet(Low)
         /\ k <= Cardinality(S) => Cardinality(Low) = k
         /\ k >= Cardinality(S) => Low = S
<1> DEFINE Low == {x \in S : Rank(x, S, R) < k}
           f == [x \in Low |-> Rank(x, S, R)]
<1>1. Cardinality(S) \in Nat
  BY FS_CardinalityType
<1>2. IsFiniteSet(Low)
  BY FS_Subset
<1>3. ASSUME k <= Cardinality(S) PROVE Cardinality(Low) = k
  <2>1. ASSUME NEW n \in 0 .. k - 1 PROVE \E x \in Low : f[x] = n
    <3>1. n \in 0 .. Cardinality(S) - 1
      BY <1>1, <1>3
    <3>2. PICK x \in S : Rank(x, S, R) = n
      BY <3>1, RankTaken
    <3> QED
      BY <3>2
  <2>2. f \in Injection(Low, 0 .. k - 1)
    <3>1. \A x \in S : Rank(x, S, R) \in 0 .. Cardinality(S) - 1
      BY RankOrder
    <3>2. \A x, y \in S : Rank(x, S, R) = Rank(y, S, R) => x = y
      BY RankOrder
    <3>3. f \in [Low -> 0 .. k - 1]
      BY <1>1, <3>1
    <3> QED
      BY <3>2, <3>3 DEF Injection, IsInjective
  <2>3. f \in Surjection(Low, 0 .. k - 1)
    BY <2>1, <2>2 DEF Surjection, Injection
  <2>4. Cardinality(0 .. k - 1) = k
    BY FS_Interval
  <2> HIDE DEF f, Low
  <2> QED
    BY <1>2, <2>2, <2>3, <2>4, FS_Surjection
<1>4. ASSUME k >= Cardinality(S) PROVE Low = S
  <2>1. \A x \in S : Rank(x, S, R) \in 0 .. Cardinality(S) - 1
    BY RankOrder
  <2> QED
    BY <1>1, <1>4, <2>1
<1> QED
  BY <1>2, <1>3, <1>4

-----------------------------------------------------------------------------
(* The costs, the pairs and their order. *)

(* What MatchingAssumption says of costOf. *)
CostTyped ==
  /\ cost \in Seq(Seq(Int)) /\ cost # <<>> /\ cost[1] # <<>>
  /\ \A c \in 1 .. Len(cost) : Len(cost[c]) = Len(cost[1])

(* Before as a set of pairs of pairs. *)
Earlier == {z \in Pair \X Pair : Before(z[1], z[2])}

(* The pairs of a chair. *)
PairsOf(c) == [ride : 1 .. rides, chair : {c}]

LEMMA SizesTyped ==
  ASSUME CostTyped
  PROVE  /\ chairs \in Nat \ {0} /\ rides \in Nat \ {0}
         /\ \A c \in 1 .. chairs, r \in 1 .. rides : cost[c][r] \in Int
         /\ \A x \in Pair : Cost(x) \in Int
<1>1. chairs \in Nat \ {0} /\ cost[1] \in Seq(Int)
  BY DEF CostTyped, chairs
<1>2. rides \in Nat \ {0}
  BY <1>1 DEF CostTyped, rides
<1>3. ASSUME NEW c \in 1 .. chairs, NEW r \in 1 .. rides PROVE cost[c][r] \in Int
  <2>1. cost[c] \in Seq(Int) /\ Len(cost[c]) = rides
    BY DEF CostTyped, chairs, rides
  <2> QED
    BY <2>1
<1> QED
  BY <1>1, <1>2, <1>3 DEF Cost, Pair

LEMMA PairsFinite ==
  ASSUME CostTyped
  PROVE  /\ IsFiniteSet(Pair)
         /\ \A c \in 1 .. chairs : /\ PairsOf(c) \in SUBSET Pair
                                   /\ IsFiniteSet(PairsOf(c))
                                   /\ Cardinality(PairsOf(c)) = rides
<1>1. chairs \in Nat /\ rides \in Nat
  BY SizesTyped
<1>2. /\ IsFiniteSet(1 .. rides) /\ IsFiniteSet(1 .. chairs)
      /\ Cardinality(1 .. rides) = rides
  BY <1>1, FS_Interval
<1>3. IsFiniteSet((1 .. rides) \X (1 .. chairs))
  BY <1>2, FS_Product
<1>4. [x \in Pair |-> <<x.ride, x.chair>>] \in Injection(Pair, (1 .. rides) \X (1 .. chairs))
  BY DEF Pair, Injection, IsInjective
<1>5. IsFiniteSet(Pair)
  BY <1>3, <1>4, FS_Injection
<1>6. ASSUME NEW c \in 1 .. chairs
      PROVE  /\ PairsOf(c) \in SUBSET Pair /\ IsFiniteSet(PairsOf(c))
             /\ Cardinality(PairsOf(c)) = rides
  <2> DEFINE f == [r \in 1 .. rides |-> [ride |-> r, chair |-> c]]
  <2>1. PairsOf(c) \in SUBSET Pair
    BY DEF PairsOf, Pair
  <2>2. IsFiniteSet(PairsOf(c))
    BY <1>5, <2>1, FS_Subset
  <2>3. f \in Injection(1 .. rides, PairsOf(c))
    BY DEF PairsOf, Injection, IsInjective
  <2>4. f \in Surjection(1 .. rides, PairsOf(c))
    <3>1. \A x \in PairsOf(c) : x.ride \in 1 .. rides /\ f[x.ride] = x
      BY DEF PairsOf
    <3> QED
      BY <2>3, <3>1 DEF Surjection, Injection
  <2> HIDE DEF f
  <2>5. Cardinality(PairsOf(c)) = Cardinality(1 .. rides)
    BY <1>2, <2>3, <2>4, FS_Surjection
  <2> QED
    BY <1>2, <2>1, <2>2, <2>5
<1> QED
  BY <1>5, <1>6

(* comparePair is a strict total order. *)
LEMMA PairsOrdered ==
  ASSUME CostTyped, NEW S \in SUBSET Pair
  PROVE  /\ IsFiniteSet(S) /\ Orders(Earlier, S)
         /\ \A x, y \in S : <<x, y>> \in Earlier <=> Before(x, y)
         /\ \A x \in S : Rank(x, S, Earlier) = Cardinality({y \in S : Before(y, x)})
<1>1. IsFiniteSet(S)
  BY PairsFinite, FS_Subset
<1>2. \A x, y \in S : <<x, y>> \in Earlier <=> Before(x, y)
  BY DEF Earlier
<1>3. \A x \in S : x.ride \in Int /\ x.chair \in Int /\ Cost(x) \in Int
  BY SizesTyped DEF Pair
<1>4. \A x \in S : ~Before(x, x)
  BY <1>3 DEF Before
<1>5. \A x, y, z \in S : Before(x, y) /\ Before(y, z) => Before(x, z)
  BY <1>3 DEF Before
<1>6. \A x, y \in S : x.ride = y.ride /\ x.chair = y.chair => x = y
  BY DEF Pair
<1>7. \A x, y \in S : x = y \/ Before(x, y) \/ Before(y, x)
  BY <1>3, <1>6 DEF Before
<1>8. Orders(Earlier, S)
  BY <1>2, <1>4, <1>5, <1>7 DEF Orders
<1>9. ASSUME NEW x \in S
      PROVE  Rank(x, S, Earlier) = Cardinality({y \in S : Before(y, x)})
  <2>1. {y \in S : <<y, x>> \in Earlier} = {y \in S : Before(y, x)}
    BY <1>2
  <2> QED
    BY <2>1 DEF Rank
<1> QED
  BY <1>1, <1>2, <1>8, <1>9

(* What a chair keeps: the pairs that come first, as many as there are chairs. *)
LEMMA CandidatesFirst ==
  ASSUME CostTyped, NEW c \in 1 .. chairs
  PROVE  /\ Candidates(c) \in SUBSET PairsOf(c) /\ IsFiniteSet(Candidates(c))
         /\ chairs <= rides => Cardinality(Candidates(c)) = chairs
         /\ chairs >= rides => Candidates(c) = PairsOf(c)
         /\ \A x \in Candidates(c), y \in PairsOf(c) \ Candidates(c) : Before(x, y)
<1> DEFINE S == PairsOf(c)
           Low == {x \in S : Rank(x, S, Earlier) < chairs}
<1>1. S \in SUBSET Pair /\ IsFiniteSet(S) /\ Cardinality(S) = rides
  BY PairsFinite
<1>2. chairs \in Nat /\ rides \in Nat
  BY SizesTyped
<1>3. /\ Orders(Earlier, S)
      /\ \A x, y \in S : <<x, y>> \in Earlier <=> Before(x, y)
      /\ \A x \in S : Rank(x, S, Earlier) = Cardinality({y \in S : Before(y, x)})
  BY <1>1, PairsOrdered
<1>4. Candidates(c) = {x \in S : Cardinality({y \in S : Before(y, x)}) < chairs}
  BY DEF Candidates, PairsOf, Kept
<1>5. Candidates(c) = Low
  BY <1>3, <1>4
<1> HIDE DEF S
<1>6. /\ IsFiniteSet(Low)
      /\ chairs <= Cardinality(S) => Cardinality(Low) = chairs
      /\ chairs >= Cardinality(S) => Low = S
  BY <1>1, <1>2, <1>3, RankBelow
<1>7. ASSUME NEW x \in Low, NEW y \in S \ Low PROVE Before(x, y)
  <2>1. /\ \A z \in S : Rank(z, S, Earlier) \in 0 .. Cardinality(S) - 1
        /\ \A z, t \in S : Rank(z, S, Earlier) < Rank(t, S, Earlier) => <<z, t>> \in Earlier
    BY <1>1, <1>3, RankOrder
  <2>2. Rank(x, S, Earlier) < Rank(y, S, Earlier)
    BY <1>1, <1>2, <2>1
  <2> QED
    BY <1>3, <2>1, <2>2
<1> QED
  BY <1>1, <1>5, <1>6, <1>7 DEF S

-----------------------------------------------------------------------------
(* The greedy assignment. *)

Conflict(x, y) == y.ride = x.ride \/ y.chair = x.chair

(* A pair is planned unless one that comes before it takes its ride or its chair. *)
IsGreedy(P, S) ==
  /\ P \in SUBSET S
  /\ \A x \in S : x \in P <=> ~\E y \in P : Before(y, x) /\ Conflict(x, y)

(* The function by which Greedy is defined, up to n. *)
PlansUp(g, S, n) ==
  g = [k \in 0 .. n |-> IF k = 0 THEN {} ELSE AddPlan(g[k - 1], Nth(S, k))]

LEMMA GreedyIsChosen ==
  ASSUME NEW S
  PROVE  Greedy(S) = (CHOOSE g : PlansUp(g, S, Cardinality(S)))[Cardinality(S)]
BY DEF Greedy, PlansUp

LEMMA SomePlansUp ==
  ASSUME NEW S, NEW n \in Nat
  PROVE  \E g : PlansUp(g, S, n)
<1> DEFINE Good == {m \in Nat : \E g : PlansUp(g, S, m)}
<1>1. 0 \in Good
  <2> DEFINE g == [k \in 0 .. 0 |-> {}]
  <2>1. g = [k \in 0 .. 0 |-> IF k = 0 THEN {} ELSE AddPlan(g[k - 1], Nth(S, k))]
    OBVIOUS
  <2>2. PlansUp(g, S, 0)
    BY <2>1 DEF PlansUp
  <2> HIDE DEF g
  <2>3. \E h : PlansUp(h, S, 0)
    BY <2>2, Zenon
  <2> QED
    BY <2>3, Zenon
<1>2. ASSUME NEW m \in Nat, m \in Good PROVE m + 1 \in Good
  <2>1. PICK g : PlansUp(g, S, m)
    BY <1>2
  <2> DEFINE h == [k \in 0 .. m + 1 |-> IF k = 0 THEN {} ELSE AddPlan(g[k - 1], Nth(S, k))]
  <2>2. ASSUME NEW k \in 0 .. m PROVE h[k] = g[k]
    <3>1. g[k] = IF k = 0 THEN {} ELSE AddPlan(g[k - 1], Nth(S, k))
      BY <2>1 DEF PlansUp
    <3> QED
      BY <3>1
  <2>3. ASSUME NEW k \in 0 .. m + 1, k # 0 PROVE h[k - 1] = g[k - 1]
    <3>1. k - 1 \in 0 .. m
      BY <2>3
    <3> HIDE DEF h
    <3> QED
      BY <2>2, <3>1
  <2>4. h = [k \in 0 .. m + 1 |-> IF k = 0 THEN {} ELSE AddPlan(h[k - 1], Nth(S, k))]
    BY <2>3
  <2>5. PlansUp(h, S, m + 1)
    BY <2>4 DEF PlansUp
  <2> HIDE DEF h
  <2>6. \E k : PlansUp(k, S, m + 1)
    BY <2>5, Zenon
  <2>7. m + 1 \in Nat
    OBVIOUS
  <2> QED
    BY <2>6, <2>7, Zenon
<1> HIDE DEF Good
<1>3. Nat \subseteq Good
  BY <1>1, <1>2, NumberInduction
<1> QED
  BY <1>3 DEF Good

(* The n-th pair is the one of rank n - 1. *)
LEMMA NthRank ==
  ASSUME CostTyped, NEW S \in SUBSET Pair, NEW n \in 1 .. Cardinality(S)
  PROVE  Nth(S, n) \in S /\ Rank(Nth(S, n), S, Earlier) = n - 1
<1>1. /\ IsFiniteSet(S) /\ Orders(Earlier, S)
      /\ \A x \in S : Rank(x, S, Earlier) = Cardinality({y \in S : Before(y, x)})
  BY PairsOrdered
<1>2. n - 1 \in 0 .. Cardinality(S) - 1
  BY <1>1, FS_CardinalityType
<1>3. \E x \in S : Rank(x, S, Earlier) = n - 1
  BY <1>1, <1>2, RankTaken
<1>4. \E x \in S : Cardinality({y \in S : Before(y, x)}) = n - 1
  BY <1>1, <1>3
<1>5. Nth(S, n) \in S /\ Cardinality({y \in S : Before(y, Nth(S, n))}) = n - 1
  BY <1>4, Zenon DEF Nth
<1> QED
  BY <1>1, <1>5

(* What Greedy returns is greedy. *)
LEMMA GreedyIs ==
  ASSUME CostTyped, NEW S \in SUBSET Pair
  PROVE  IsGreedy(Greedy(S), S)
<1> DEFINE size == Cardinality(S)
           R(x) == Rank(x, S, Earlier)
<1>1. /\ IsFiniteSet(S) /\ Orders(Earlier, S)
      /\ \A x, y \in S : <<x, y>> \in Earlier <=> Before(x, y)
  BY PairsOrdered
<1>2. size \in Nat
  BY <1>1, FS_CardinalityType
<1>3. /\ \A x \in S : R(x) \in 0 .. size - 1
      /\ \A x, y \in S : Before(x, y) <=> R(x) < R(y)
      /\ \A x, y \in S : R(x) = R(y) => x = y
  BY <1>1, RankOrder
<1>4. PICK g : g = CHOOSE h : PlansUp(h, S, size)
  OBVIOUS
<1>5. PlansUp(g, S, size)
  BY <1>2, <1>4, SomePlansUp, Zenon
<1>6. Greedy(S) = g[size]
  BY <1>4, GreedyIsChosen
<1> DEFINE Good == {n \in Nat : n <= size =>
             /\ g[n] \in SUBSET S
             /\ \A x \in g[n] : R(x) < n
             /\ \A x \in S : R(x) < n =>
                  (x \in g[n] <=> ~\E y \in g[n] : R(y) < R(x) /\ Conflict(x, y))}
<1> HIDE DEF R, size
<1>7. 0 \in Good
  <2>1. g[0] = {}
    BY <1>2, <1>5 DEF PlansUp
  <2> QED
    BY <1>2, <1>3, <2>1
<1>8. ASSUME NEW n \in Nat, n \in Good PROVE n + 1 \in Good
  <2> SUFFICES ASSUME n + 1 <= size
               PROVE  /\ g[n + 1] \in SUBSET S
                      /\ \A x \in g[n + 1] : R(x) < n + 1
                      /\ \A x \in S : R(x) < n + 1 =>
                           (x \in g[n + 1] <=>
                              ~\E y \in g[n + 1] : R(y) < R(x) /\ Conflict(x, y))
    OBVIOUS
  <2>1. PICK z : z = Nth(S, n + 1)
    OBVIOUS
  <2>2. z \in S /\ R(z) = n
    <3>1. n + 1 \in 1 .. size
      BY <1>2
    <3> QED
      BY <2>1, <3>1, NthRank DEF R, size
  <2>3. g[n + 1] = AddPlan(g[n], z)
    <3>1. n + 1 \in 0 .. size /\ n + 1 # 0 /\ (n + 1) - 1 = n
      BY <1>2
    <3> QED
      BY <1>5, <2>1, <3>1 DEF PlansUp
  <2>4. /\ g[n] \in SUBSET S
        /\ \A x \in g[n] : R(x) < n
        /\ \A x \in S : R(x) < n =>
             (x \in g[n] <=> ~\E y \in g[n] : R(y) < R(x) /\ Conflict(x, y))
    BY <1>2, <1>8
  <2>5. \A x \in S : R(x) \in Int
    BY <1>2, <1>3
  <2>6. \A x \in S : R(x) < n + 1 => R(x) < n \/ x = z
    BY <1>3, <2>2, <2>5
  <2>7. CASE \E y \in g[n] : Conflict(z, y)
    <3>1. g[n + 1] = g[n]
      BY <2>3, <2>7 DEF AddPlan, Conflict
    <3>2. z \notin g[n] /\ \E y \in g[n] : R(y) < R(z) /\ Conflict(z, y)
      BY <2>2, <2>4, <2>7
    <3> QED
      BY <2>2, <2>4, <2>5, <2>6, <3>1, <3>2
  <2>8. CASE ~\E y \in g[n] : Conflict(z, y)
    <3>1. g[n + 1] = g[n] \cup {z}
      BY <2>3, <2>8 DEF AddPlan, Conflict
    <3>2. ASSUME NEW x \in S, R(x) < n
          PROVE  /\ x \in g[n + 1] <=> x \in g[n]
                 /\ (\E y \in g[n + 1] : R(y) < R(x) /\ Conflict(x, y))
                      <=> \E y \in g[n] : R(y) < R(x) /\ Conflict(x, y)
      BY <2>2, <2>5, <3>1, <3>2
    <3>3. ~\E y \in g[n + 1] : R(y) < R(z) /\ Conflict(z, y)
      BY <2>2, <2>8, <3>1
    <3>4. g[n + 1] \in SUBSET S /\ \A x \in g[n + 1] : R(x) < n + 1
      BY <2>2, <2>4, <2>5, <3>1
    <3>5. ASSUME NEW x \in S, R(x) < n + 1
          PROVE  x \in g[n + 1] <=> ~\E y \in g[n + 1] : R(y) < R(x) /\ Conflict(x, y)
      <4>1. CASE R(x) < n
        BY <2>4, <3>2, <4>1
      <4>2. CASE x = z
        BY <3>1, <3>3, <4>2
      <4> QED
        BY <2>6, <3>5, <4>1, <4>2
    <3> QED
      BY <3>4, <3>5
  <2> QED
    BY <2>7, <2>8
<1> HIDE DEF Good
<1>9. Nat \subseteq Good
  BY <1>7, <1>8, NumberInduction
<1>10. /\ g[size] \in SUBSET S
       /\ \A x \in S : R(x) < size =>
            (x \in g[size] <=> ~\E y \in g[size] : R(y) < R(x) /\ Conflict(x, y))
  BY <1>2, <1>9 DEF Good
<1>11. \A x \in S : R(x) < size
  BY <1>2, <1>3
<1> QED
  BY <1>3, <1>6, <1>10, <1>11 DEF IsGreedy

(* That says which pairs are planned. *)
LEMMA GreedyUnique ==
  ASSUME CostTyped, NEW S \in SUBSET Pair, NEW P, NEW Q, IsGreedy(P, S), IsGreedy(Q, S)
  PROVE  P = Q
<1> DEFINE R(x) == Rank(x, S, Earlier)
           Good == {n \in Nat : \A x \in S : R(x) < n => (x \in P <=> x \in Q)}
<1>1. /\ IsFiniteSet(S) /\ Orders(Earlier, S)
      /\ \A x, y \in S : <<x, y>> \in Earlier <=> Before(x, y)
  BY PairsOrdered
<1>2. Cardinality(S) \in Nat
  BY <1>1, FS_CardinalityType
<1>3. /\ \A x \in S : R(x) \in 0 .. Cardinality(S) - 1
      /\ \A x, y \in S : Before(x, y) <=> R(x) < R(y)
  BY <1>1, RankOrder
<1> HIDE DEF R
<1>4. 0 \in Good
  BY <1>2, <1>3
<1>5. ASSUME NEW n \in Nat, n \in Good PROVE n + 1 \in Good
  <2> SUFFICES ASSUME NEW x \in S, R(x) < n + 1 PROVE x \in P <=> x \in Q
    OBVIOUS
  <2>1. \A y \in S : Before(y, x) => (y \in P <=> y \in Q)
    BY <1>2, <1>3, <1>5
  <2>2. P \in SUBSET S /\ Q \in SUBSET S
    BY DEF IsGreedy
  <2>3. /\ x \in P <=> ~\E y \in P : Before(y, x) /\ Conflict(x, y)
        /\ x \in Q <=> ~\E y \in Q : Before(y, x) /\ Conflict(x, y)
    BY DEF IsGreedy
  <2> QED
    BY <2>1, <2>2, <2>3
<1> HIDE DEF Good
<1>6. Nat \subseteq Good
  BY <1>4, <1>5, NumberInduction
<1>7. \A x \in S : x \in P <=> x \in Q
  BY <1>2, <1>3, <1>6 DEF Good
<1> QED
  BY <1>7 DEF IsGreedy

(* Every ride and every chair is planned once. *)
LEMMA GreedyMatches ==
  ASSUME CostTyped, NEW S \in SUBSET Pair, NEW P, IsGreedy(P, S)
  PROVE  \A x, y \in P : Conflict(x, y) => x = y
<1> SUFFICES ASSUME NEW x \in P, NEW y \in P, Conflict(x, y), x # y PROVE FALSE
  OBVIOUS
<1>1. x \in S /\ y \in S
  BY DEF IsGreedy
<1>2. Before(x, y) \/ Before(y, x)
  <2>1. /\ Orders(Earlier, S)
        /\ \A z, t \in S : <<z, t>> \in Earlier <=> Before(z, t)
    BY PairsOrdered
  <2> QED
    BY <1>1, <2>1 DEF Orders
<1>3. Conflict(y, x)
  BY DEF Conflict
<1> QED
  BY <1>1, <1>2, <1>3 DEF IsGreedy

LEMMA WithoutOne ==
  ASSUME NEW n \in Nat, NEW k \in 1 .. n
  PROVE  IsFiniteSet((1 .. n) \ {k}) /\ Cardinality((1 .. n) \ {k}) = n - 1
<1>1. IsFiniteSet(1 .. n) /\ Cardinality(1 .. n) = n
  BY FS_Interval
<1> QED
  BY <1>1, FS_RemoveElement

LEMMA PairsAre ==
  ASSUME CostTyped
  PROVE  /\ Pairs \in SUBSET Pair
         /\ \A x \in Pair : /\ x.chair \in 1 .. chairs /\ x.ride \in 1 .. rides
                            /\ x \in PairsOf(x.chair)
                            /\ x \in Pairs <=> x \in Candidates(x.chair)
<1>1. \A c \in 1 .. chairs : /\ Candidates(c) \in SUBSET PairsOf(c)
                             /\ PairsOf(c) \in SUBSET Pair
                             /\ \A x \in PairsOf(c) : x.chair = c
  BY CandidatesFirst, PairsFinite DEF PairsOf
<1>2. \A x \in Pair : /\ x.chair \in 1 .. chairs /\ x.ride \in 1 .. rides
                      /\ x \in PairsOf(x.chair)
  BY DEF PairsOf, Pair
<1> QED
  BY <1>1, <1>2 DEF Pairs

(* If a pair that a chair does not keep were planned, the chair would have lost all those
   it keeps, to chairs that are not enough for that. *)
LEMMA PrunedAlike ==
  ASSUME CostTyped, NEW P, IsGreedy(P, Pairs)
  PROVE  IsGreedy(P, Pair)
<1>1. P \in SUBSET Pairs /\ Pairs \in SUBSET Pair
  BY PairsAre DEF IsGreedy
<1>2. SUFFICES ASSUME NEW x \in Pair, x \notin Pairs,
                      ~\E y \in P : Before(y, x) /\ Conflict(x, y)
               PROVE  FALSE
  BY <1>1 DEF IsGreedy
<1>3. PICK c \in 1 .. chairs : c = x.chair
  BY PairsAre
<1>4. x \in PairsOf(c) \ Candidates(c)
  BY <1>2, <1>3, PairsAre
<1>5. chairs \in Nat /\ rides \in Nat
  BY SizesTyped
<1>6. /\ Candidates(c) \in SUBSET PairsOf(c) /\ IsFiniteSet(Candidates(c))
      /\ Cardinality(Candidates(c)) = chairs
      /\ \A z \in Candidates(c) : Before(z, x)
  BY <1>4, <1>5, CandidatesFirst
<1>7. ASSUME NEW z \in Candidates(c)
      PROVE  \E y \in P : y.ride = z.ride /\ y.chair \in (1 .. chairs) \ {c}
  <2>1. z \in Pair /\ z.chair = c /\ Before(z, x)
    BY <1>6, PairsFinite DEF PairsOf
  <2>2. z \in Pairs /\ Conflict(x, z)
    BY <1>3, <2>1, PairsAre DEF Conflict
  <2>3. z \notin P
    BY <1>2, <2>1, <2>2
  <2>4. PICK y \in P : Before(y, z) /\ Conflict(z, y)
    BY <2>2, <2>3 DEF IsGreedy
  <2>5. y \in Pair
    BY <1>1
  <2>6. Before(y, x)
    <3>1. /\ Orders(Earlier, Pair)
          /\ \A s, t \in Pair : <<s, t>> \in Earlier <=> Before(s, t)
      BY PairsOrdered
    <3> QED
      BY <2>1, <2>4, <2>5, <3>1 DEF Orders
  <2>7. y.chair # c
    BY <1>2, <1>3, <2>6 DEF Conflict
  <2>8. y.ride = z.ride
    BY <2>1, <2>4, <2>7 DEF Conflict
  <2>9. y.chair \in 1 .. chairs
    BY <2>5, PairsAre
  <2> QED
    BY <2>7, <2>8, <2>9
<1> DEFINE Taker(z) == CHOOSE y \in P : y.ride = z.ride /\ y.chair \in (1 .. chairs) \ {c}
           f == [z \in Candidates(c) |-> Taker(z).chair]
<1>8. \A z \in Candidates(c) : /\ Taker(z) \in P /\ Taker(z).ride = z.ride
                               /\ Taker(z).chair \in (1 .. chairs) \ {c}
  BY <1>7
<1> HIDE DEF Taker
<1>9. f \in [Candidates(c) -> (1 .. chairs) \ {c}]
  BY <1>8
<1>10. /\ IsFiniteSet((1 .. chairs) \ {c})
       /\ Cardinality((1 .. chairs) \ {c}) < Cardinality(Candidates(c))
  <2>1. /\ IsFiniteSet((1 .. chairs) \ {c})
        /\ Cardinality((1 .. chairs) \ {c}) = chairs - 1
    BY <1>5, WithoutOne
  <2> QED
    BY <1>5, <1>6, <2>1
<1>11. PICK z, t \in Candidates(c) : z # t /\ f[z] = f[t]
  <2> HIDE DEF f
  <2> QED
    BY <1>6, <1>9, <1>10, FS_PigeonHole
<1>12. Taker(z) = Taker(t)
  <2>1. Conflict(Taker(z), Taker(t))
    BY <1>11 DEF Conflict
  <2> QED
    BY <1>1, <1>8, <2>1, GreedyMatches
<1>13. z.ride = t.ride
  BY <1>8, <1>12
<1> QED
  BY <1>6, <1>11, <1>13 DEF PairsOf

(* No ride is left over beside a chair. *)
LEMMA GreedyCovers ==
  ASSUME CostTyped, NEW P, IsGreedy(P, Pair)
  PROVE  P \in Assignments
<1>1. P \in SUBSET Pair /\ \A x, y \in P : Conflict(x, y) => x = y
  BY GreedyMatches DEF IsGreedy
<1>2. ASSUME NEW x \in Pair PROVE \E y \in P : Conflict(x, y)
  BY DEF IsGreedy, Conflict
<1>3. chairs \in Nat /\ rides \in Nat
  BY SizesTyped
<1>4. /\ IsFiniteSet(1 .. chairs) /\ Cardinality(1 .. chairs) = chairs
      /\ IsFiniteSet(1 .. rides) /\ Cardinality(1 .. rides) = rides
  BY <1>3, FS_Interval
<1>5. CASE chairs <= rides
  <2>1. ASSUME NEW c \in 1 .. chairs PROVE \E x \in P : x.chair = c
    <3>1. SUFFICES ASSUME \A x \in P : x.chair # c PROVE FALSE
      OBVIOUS
    <3>2. ASSUME NEW r \in 1 .. rides
          PROVE  \E y \in P : y.ride = r /\ y.chair \in (1 .. chairs) \ {c}
      <4>1. [ride |-> r, chair |-> c] \in Pair
        BY DEF Pair
      <4>2. PICK y \in P : Conflict([ride |-> r, chair |-> c], y)
        BY <1>2, <4>1
      <4> QED
        BY <1>1, <3>1, <4>2 DEF Conflict, Pair
    <3> DEFINE Taker(r) == CHOOSE y \in P : y.ride = r /\ y.chair \in (1 .. chairs) \ {c}
               f == [r \in 1 .. rides |-> Taker(r).chair]
    <3>3. \A r \in 1 .. rides : /\ Taker(r) \in P /\ Taker(r).ride = r
                                /\ Taker(r).chair \in (1 .. chairs) \ {c}
      BY <3>2
    <3> HIDE DEF Taker
    <3>4. f \in [1 .. rides -> (1 .. chairs) \ {c}]
      BY <3>3
    <3>5. /\ IsFiniteSet((1 .. chairs) \ {c})
          /\ Cardinality((1 .. chairs) \ {c}) < Cardinality(1 .. rides)
      <4>1. /\ IsFiniteSet((1 .. chairs) \ {c})
            /\ Cardinality((1 .. chairs) \ {c}) = chairs - 1
        BY <1>3, WithoutOne
      <4> QED
        BY <1>3, <1>4, <1>5, <4>1
    <3>6. PICK r, q \in 1 .. rides : r # q /\ f[r] = f[q]
      <4> HIDE DEF f
      <4> QED
        BY <1>4, <3>4, <3>5, FS_PigeonHole
    <3> QED
      BY <1>1, <3>3, <3>6 DEF Conflict
  <2> DEFINE X(c) == CHOOSE x \in P : x.chair = c
             g == [c \in 1 .. chairs |-> X(c).ride]
  <2>2. \A c \in 1 .. chairs : X(c) \in P /\ X(c).chair = c
    BY <2>1
  <2>3. \A c \in 1 .. chairs : X(c) = [ride |-> g[c], chair |-> c] /\ g[c] \in 1 .. rides
    BY <1>1, <2>2 DEF Pair
  <2>4. \A x \in P : x.chair \in 1 .. chairs /\ x = X(x.chair)
    BY <1>1, <2>2 DEF Conflict, Pair
  <2> HIDE DEF X
  <2>5. g \in Injection(1 .. chairs, 1 .. rides)
    <3>1. ASSUME NEW c \in 1 .. chairs, NEW d \in 1 .. chairs, g[c] = g[d] PROVE c = d
      <4>1. Conflict(X(c), X(d))
        BY <3>1 DEF Conflict
      <4>2. X(c) = X(d)
        BY <1>1, <2>2, <4>1
      <4> QED
        BY <2>2, <4>2
    <3> QED
      BY <2>3, <3>1 DEF Injection, IsInjective
  <2> HIDE DEF g
  <2>6. P = {[ride |-> g[c], chair |-> c] : c \in 1 .. chairs}
    <3>1. \A c \in 1 .. chairs : [ride |-> g[c], chair |-> c] \in P
      BY <2>2, <2>3
    <3>2. \A x \in P : \E c \in 1 .. chairs : x = [ride |-> g[c], chair |-> c]
      BY <2>3, <2>4
    <3> QED
      BY <3>1, <3>2
  <2> QED
    BY <1>5, <2>5, <2>6 DEF Assignments
<1>6. CASE ~(chairs <= rides)
  <2>1. ASSUME NEW r \in 1 .. rides PROVE \E x \in P : x.ride = r
    <3>1. SUFFICES ASSUME \A x \in P : x.ride # r PROVE FALSE
      OBVIOUS
    <3>2. ASSUME NEW c \in 1 .. chairs
          PROVE  \E y \in P : y.chair = c /\ y.ride \in (1 .. rides) \ {r}
      <4>1. [ride |-> r, chair |-> c] \in Pair
        BY DEF Pair
      <4>2. PICK y \in P : Conflict([ride |-> r, chair |-> c], y)
        BY <1>2, <4>1
      <4> QED
        BY <1>1, <3>1, <4>2 DEF Conflict, Pair
    <3> DEFINE Taker(c) == CHOOSE y \in P : y.chair = c /\ y.ride \in (1 .. rides) \ {r}
               f == [c \in 1 .. chairs |-> Taker(c).ride]
    <3>3. \A c \in 1 .. chairs : /\ Taker(c) \in P /\ Taker(c).chair = c
                                 /\ Taker(c).ride \in (1 .. rides) \ {r}
      BY <3>2
    <3> HIDE DEF Taker
    <3>4. f \in [1 .. chairs -> (1 .. rides) \ {r}]
      BY <3>3
    <3>5. /\ IsFiniteSet((1 .. rides) \ {r})
          /\ Cardinality((1 .. rides) \ {r}) < Cardinality(1 .. chairs)
      <4>1. /\ IsFiniteSet((1 .. rides) \ {r})
            /\ Cardinality((1 .. rides) \ {r}) = rides - 1
        BY <1>3, WithoutOne
      <4> QED
        BY <1>3, <1>4, <1>6, <4>1
    <3>6. PICK c, d \in 1 .. chairs : c # d /\ f[c] = f[d]
      <4> HIDE DEF f
      <4> QED
        BY <1>4, <3>4, <3>5, FS_PigeonHole
    <3> QED
      BY <1>1, <3>3, <3>6 DEF Conflict
  <2> DEFINE X(r) == CHOOSE x \in P : x.ride = r
             g == [r \in 1 .. rides |-> X(r).chair]
  <2>2. \A r \in 1 .. rides : X(r) \in P /\ X(r).ride = r
    BY <2>1
  <2>3. \A r \in 1 .. rides : X(r) = [ride |-> r, chair |-> g[r]] /\ g[r] \in 1 .. chairs
    BY <1>1, <2>2 DEF Pair
  <2>4. \A x \in P : x.ride \in 1 .. rides /\ x = X(x.ride)
    BY <1>1, <2>2 DEF Conflict, Pair
  <2> HIDE DEF X
  <2>5. g \in Injection(1 .. rides, 1 .. chairs)
    <3>1. ASSUME NEW r \in 1 .. rides, NEW q \in 1 .. rides, g[r] = g[q] PROVE r = q
      <4>1. Conflict(X(r), X(q))
        BY <3>1 DEF Conflict
      <4>2. X(r) = X(q)
        BY <1>1, <2>2, <4>1
      <4> QED
        BY <2>2, <4>2
    <3> QED
      BY <2>3, <3>1 DEF Injection, IsInjective
  <2> HIDE DEF g
  <2>6. P = {[ride |-> r, chair |-> g[r]] : r \in 1 .. rides}
    <3>1. \A r \in 1 .. rides : [ride |-> r, chair |-> g[r]] \in P
      BY <2>2, <2>3
    <3>2. \A x \in P : \E r \in 1 .. rides : x = [ride |-> r, chair |-> g[r]]
      BY <2>3, <2>4
    <3> QED
      BY <3>1, <3>2
  <2> QED
    BY <1>6, <2>5, <2>6 DEF Assignments
<1> QED
  BY <1>5, <1>6

-----------------------------------------------------------------------------
(* The method of hungarian: the inductive invariant. *)

(* No row is matched to two columns of S. *)
MatchedOnce(S) == \A j, k \in S : p[j] = p[k] /\ p[j] # 0 => j = k

(* Between two rows: the rows before i are matched. *)
RowInv ==
  step \in {"row", "done"} => MatchedOnce(Cols) /\ \A j \in Cols : p[j] < i

(* minv is not negative, and no more than the reduced costs from the columns seen. *)
MinvIsLeast ==
  \A j \in Cols \ used :
    minv[j] >= 0 /\ \A k \in used : minv[j] <= a[p[k]][j] - u[p[k]] - v[j]

(* The search sees matched columns only, and is at one that it has not seen. *)
SearchInv ==
  step = "search" =>
    /\ i <= N /\ p[0] = i
    /\ MatchedOnce(Cols) /\ \A j \in Cols : p[j] < i
    /\ \/ used = {} /\ j0 = 0
       \/ /\ 0 \in used /\ j0 \in Cols \ used /\ p[j0] # 0
          /\ \A k \in used : p[k] # 0
          /\ MinvIsLeast

(* While a path is shifted its end is the only column without a row of its own. *)
AugmentInv ==
  step = "augment" =>
    /\ i <= N /\ used # {}
    /\ MatchedOnce(Cols0 \ {j0}) /\ \A j \in Cols0 : p[j] <= i

IInv == HungarianTypeOK /\ RowInv /\ SearchInv /\ AugmentInv /\ DualFeasible

-----------------------------------------------------------------------------
(* The sizes and the entries of the matrix. *)
LEMMA MatrixType ==
  ASSUME HungarianTypeOK
  PROVE  /\ N \in Nat \ {0} /\ M \in Nat /\ N <= M
         /\ Rows \subseteq 0 .. N /\ Cols \subseteq Cols0 /\ 0 \in Cols0 \ Cols
         /\ \A r \in Rows, j \in Cols : a[r][j] \in Int
<1> USE DEF HungarianTypeOK
<1>1. N \in Nat \ {0} /\ 1 \in DOMAIN a
  BY DEF N
<1>2. a[1] \in Seq(Int) /\ M \in Nat
  BY <1>1 DEF M
<1>3. \A r \in Rows, j \in Cols : a[r][j] \in Int
  <2> TAKE r \in Rows, j \in Cols
  <2>1. a[r] \in Seq(Int) /\ Len(a[r]) = M
    BY <1>1 DEF Rows, N
  <2> QED BY <1>2, <2>1 DEF Cols
<1>4. /\ Rows \subseteq 0 .. N /\ Cols \subseteq Cols0 /\ 0 \in Cols0 \ Cols
  <2> HIDE DEF HungarianTypeOK
  <2> QED BY <1>1, <1>2 DEF Rows, Cols, Cols0
<1> QED BY <1>1, <1>2, <1>3, <1>4

(* Among finitely many columns there is a first one of those that cost least. *)
LEMMA ClosestExists ==
  ASSUME NEW m \in Nat, NEW U \in SUBSET (1 .. m), U # {},
         NEW f \in [U -> Int]
  PROVE  \E j \in U : \A k \in U : f[j] < f[k] \/ (f[j] = f[k] /\ j <= k)
<1> DEFINE Least(S, j) == \A k \in S : f[j] < f[k] \/ (f[j] = f[k] /\ j <= k)
           Below(n) == U \cap (1 .. n)
           Bad == {n \in Nat : Below(n) # {} /\ \A j \in Below(n) : ~Least(Below(n), j)}
<1> SUFFICES ASSUME \A j \in U : ~Least(U, j) PROVE FALSE
  OBVIOUS
<1>1. m \in Bad
  <2>1. Below(m) = U
    OBVIOUS
  <2> QED BY <2>1
<1>2. PICK n \in Bad : \A l \in Bad : ~(l < n)
  <2>1. \E n \in Bad : \A l \in Bad : ~(<<l, n>> \in OpToRel(<, Nat))
    BY <1>1, NatLessThanWellFounded, WFMin
  <2> QED BY <2>1 DEF OpToRel
<1>3. n # 0 /\ n - 1 \in Nat /\ n - 1 \notin Bad
  <2>1. n \in Nat /\ Below(n) # {}
    BY <1>2
  <2>2. n # 0 /\ n - 1 \in Nat
    BY <2>1
  <2>3. n - 1 < n
    BY <2>1
  <2> HIDE DEF Bad
  <2> QED BY <1>2, <2>2, <2>3
<1>4. Below(n) \subseteq Below(n - 1) \cup {n}
  BY <1>3
<1>5. CASE Below(n - 1) = {}
  <2>1. n \in Below(n) /\ Below(n) = {n}
    BY <1>2, <1>4, <1>5
  <2>2. Least(Below(n), n)
    BY <2>1
  <2> QED BY <1>2, <2>1, <2>2
<1>6. CASE Below(n - 1) # {}
  <2>1. PICK j \in Below(n - 1) : Least(Below(n - 1), j)
    BY <1>3, <1>6
  <2>2. j \in Below(n)
    BY <1>3
  <2>3. CASE n \in U /\ f[n] < f[j]
    <3>1. Least(Below(n), n)
      BY <1>4, <2>1, <2>3
    <3> QED BY <1>2, <1>3, <2>3, <3>1
  <2>4. CASE ~(n \in U /\ f[n] < f[j])
    <3>1. Least(Below(n), j)
      BY SMTT(30), <1>3, <1>4, <2>1, <2>4
    <3> QED BY <1>2, <2>2, <3>1
  <2> QED BY <2>3, <2>4
<1> QED BY <1>5, <1>6

LEMMA ClosestIsLeast ==
  ASSUME HungarianTypeOK, Unseen # {}, \A j \in Unseen : LeastCost(j) \in Int
  PROVE  Closest \in Unseen /\ \A k \in Unseen : LeastCost(Closest) <= LeastCost(k)
<1> DEFINE f == [j \in Unseen |-> LeastCost(j)]
<1>1. M \in Nat /\ Unseen \in SUBSET (1 .. M)
  BY MatrixType DEF Unseen, Cols
<1>2. \E j \in Unseen : \A k \in Unseen : f[j] < f[k] \/ (f[j] = f[k] /\ j <= k)
  <2>1. f \in [Unseen -> Int]
    OBVIOUS
  <2> HIDE DEF f
  <2> QED BY <1>1, <2>1, ClosestExists
<1>3. /\ Closest \in Unseen
      /\ \A k \in Unseen : LeastCost(Closest) < LeastCost(k)
                              \/ (LeastCost(Closest) = LeastCost(k) /\ Closest <= k)
  BY <1>2 DEF Closest
<1> QED BY <1>3

(* The columns seen are matched to different rows before i: as there are at least
   as many columns as rows, one is unseen. *)
LEMMA SomeUnseen ==
  ASSUME IInv, step = "search"
  PROVE  Unseen # {}
<1> SUFFICES ASSUME Cols \subseteq Seen PROVE FALSE
  BY DEF Unseen
<1> USE DEF IInv, HungarianTypeOK
<1>1. /\ N \in Nat /\ M \in Nat /\ N <= M /\ i \in 1 .. N
      /\ MatchedOnce(Cols)
  BY SMTT(30), MatrixType DEF SearchInv
<1>2. \A j \in Cols : p[j] \in 1 .. i - 1
  <2> TAKE j \in Cols
  <2>1. p[j] # 0 /\ p[j] < i
    BY MatrixType DEF SearchInv, Seen
  <2>2. p[j] \in 0 .. N
    BY MatrixType
  <2> HIDE DEF IInv, HungarianTypeOK
  <2> QED BY <1>1, <2>1, <2>2
<1> DEFINE f == [j \in Cols |-> p[j]]
<1>3. f \in [Cols -> 1 .. i - 1]
  BY <1>2
<1>4. IsFiniteSet(Cols) /\ Cardinality(Cols) = M
  BY <1>1, FS_Interval DEF Cols
<1>5. IsFiniteSet(1 .. i - 1) /\ Cardinality(1 .. i - 1) = i - 1
  <2>1. i - 1 \in Int /\ 1 \in Int /\ ~(1 > i - 1 /\ i - 1 # 0)
    BY <1>1
  <2>2. i - 1 - 1 + 1 = i - 1
    BY <1>1
  <2> HIDE DEF IInv, HungarianTypeOK
  <2> QED BY <2>1, <2>2, FS_Interval
<1>6. i - 1 < M
  BY <1>1
<1>7. \E j, k \in Cols : j # k /\ f[j] = f[k]
  <2> HIDE DEF f, HungarianTypeOK, IInv
  <2> QED BY <1>3, <1>4, <1>5, <1>6, FS_PigeonHole
<1> QED BY <1>1, <1>2, <1>7 DEF MatchedOnce

(* What the search knows at the beginning of a pass, the column j0 included. *)
LEMMA CostsSeen ==
  ASSUME IInv, step = "search"
  PROVE  /\ \A k \in Seen : k \in Cols0 /\ p[k] \in Rows /\ p[k] <= i
         /\ \A j \in Unseen : j \in Cols /\ LeastCost(j) \in Int
         /\ \A j \in Unseen, k \in Seen : LeastCost(j) <= a[p[k]][j] - u[p[k]] - v[j]
         /\ j0 = 0 => used = {}
         /\ j0 # 0 => \A j \in Unseen : LeastCost(j) >= 0
         /\ j0 # 0 => 0 \in used /\ i \in Added
<1> USE DEF IInv, HungarianTypeOK
<1>1. /\ N \in Nat \ {0} /\ M \in Nat /\ i \in Rows /\ Cols \subseteq Cols0
      /\ \A r \in Rows, j \in Cols : a[r][j] \in Int
  BY SMTT(30), MatrixType DEF SearchInv, Rows
<1>2. \A k \in Seen : k \in Cols0 /\ p[k] \in Rows /\ p[k] <= i
  <2> TAKE k \in Seen
  <2>1. k \in Cols0 /\ p[k] \in 0 .. N
    BY DEF Seen
  <2>2. k = 0 \/ k \in Cols
    BY <2>1, <1>1 DEF Cols0, Cols
  <2>3. p[k] # 0
    <3>1. p[0] = i /\ i # 0
      BY <1>1 DEF SearchInv, Rows
    <3>2. \/ used = {} /\ j0 = 0
          \/ p[j0] # 0 /\ \A x \in used : p[x] # 0
      BY DEF SearchInv
    <3>3. k \in used \/ k = j0
      BY DEF Seen
    <3> HIDE DEF IInv, HungarianTypeOK
    <3> QED BY <3>1, <3>2, <3>3
  <2>4. p[k] <= i
    <3>1. p[0] = i /\ \A j \in Cols : p[j] < i
      BY DEF SearchInv
    <3>2. i \in Nat /\ p[k] \in Nat
      BY <1>1, <2>1 DEF Rows
    <3> HIDE DEF IInv, HungarianTypeOK
    <3> QED BY <2>2, <3>1, <3>2
  <2> QED BY <2>1, <2>3, <2>4 DEF Rows
<1>3. \A j \in Unseen : /\ j \in Cols /\ minv[j] \in Int /\ v[j] \in Int
                         /\ ReducedCost(j) \in Int
  <2> TAKE j \in Unseen
  <2>1. j \in Cols /\ j \in Cols0 /\ j0 \in Seen
    BY <1>1 DEF Unseen, Seen
  <2>2. u[p[j0]] \in Int /\ a[p[j0]][j] \in Int
    BY <1>1, <1>2, <2>1 DEF Rows
  <2>3. minv[j] \in Int /\ v[j] \in Int
    BY <2>1
  <2> HIDE DEF IInv, HungarianTypeOK
  <2> QED BY <2>1, <2>2, <2>3 DEF ReducedCost
<1>4. \A j \in Unseen : LeastCost(j) \in Int
  BY <1>3 DEF LeastCost
<1>5. CASE used = {} /\ j0 = 0
  <2>1. Seen = {0}
    BY <1>5 DEF Seen
  <2>2. \A j \in Unseen, k \in Seen : LeastCost(j) <= a[p[k]][j] - u[p[k]] - v[j]
    BY <1>3, <1>5, <2>1 DEF LeastCost, Reached, ReducedCost
  <2> QED BY <1>2, <1>3, <1>4, <1>5, <2>2
<1>6. CASE /\ 0 \in used /\ j0 \in Cols \ used /\ p[j0] # 0
           /\ \A k \in used : p[k] # 0
           /\ MinvIsLeast
  <2>1. p[j0] \in Added /\ i \in Added /\ j0 # 0
    <3>1. p[j0] \in Rows /\ p[j0] < i
      BY <1>2, <1>6 DEF SearchInv, Seen
    <3>2. j0 # 0
      BY <1>6, <1>1 DEF Cols
    <3> QED BY <1>1, <1>6, <3>1, <3>2 DEF Added
  <2>2. \A j \in Unseen : ReducedCost(j) >= 0
    <3> TAKE j \in Unseen
    <3>1. u[p[j0]] + v[j] <= a[p[j0]][j]
      BY <1>3, <2>1 DEF DualFeasible
    <3>2. u[p[j0]] \in Int /\ v[j] \in Int /\ a[p[j0]][j] \in Int
      BY <1>1, <1>3, <2>1 DEF Added, Rows
    <3> HIDE DEF IInv, HungarianTypeOK
    <3> QED BY <3>1, <3>2 DEF ReducedCost
  <2>3. \A j \in Unseen : LeastCost(j) >= 0 /\ LeastCost(j) <= ReducedCost(j)
                            /\ LeastCost(j) <= minv[j]
    <3> TAKE j \in Unseen
    <3>1. minv[j] >= 0
      BY <1>6 DEF MinvIsLeast, Unseen, Seen
    <3> QED BY SMTT(30), <1>3, <2>1, <2>2, <3>1 DEF LeastCost, Reached
  <2>4. \A j \in Unseen, k \in Seen : LeastCost(j) <= a[p[k]][j] - u[p[k]] - v[j]
    <3> TAKE j \in Unseen, k \in Seen
    <3>1. CASE k = j0
      BY <2>3, <3>1 DEF ReducedCost
    <3>2. CASE k # j0
      <4>1. k \in used /\ j \in Cols \ used
        BY <3>2 DEF Seen, Unseen
      <4>2. minv[j] <= a[p[k]][j] - u[p[k]] - v[j]
        BY <1>6, <4>1 DEF MinvIsLeast
      <4>3. u[p[k]] \in Int /\ a[p[k]][j] \in Int
        BY <1>1, <1>2, <1>3 DEF Rows
      <4>4. LeastCost(j) \in Int /\ minv[j] \in Int /\ v[j] \in Int
        BY <1>3, <1>4
      <4>5. LeastCost(j) <= minv[j]
        BY <2>3
      <4> HIDE DEF IInv, HungarianTypeOK
      <4> QED BY <4>2, <4>3, <4>4, <4>5
    <3> QED BY <3>1, <3>2
  <2> QED BY <1>2, <1>3, <1>4, <1>6, <2>1, <2>3, <2>4
<1> QED BY <1>5, <1>6 DEF SearchInv

(* A pass raises the rows of the columns seen and lowers these columns by the same
   amount, the least reduced cost of an unseen column. *)
LEMMA Pass ==
  ASSUME IInv, Search
  PROVE  LET delta == LeastCost(Closest)
         IN /\ Closest \in Unseen /\ delta \in Int
            /\ \A j \in Unseen : delta <= LeastCost(j)
            /\ j0 # 0 => delta >= 0
            /\ \A k \in Seen : u'[p[k]] = u[p[k]] + delta /\ v'[k] = v[k] - delta
            /\ \A j \in Unseen : v'[j] = v[j] /\ minv'[j] = LeastCost(j) - delta
            /\ \A r \in Rows : (\A k \in Seen : p[k] # r) => u'[r] = u[r]
            /\ HungarianTypeOK'
<1> DEFINE delta == LeastCost(Closest)
<1>1. step = "search"
  BY DEF Search
<1>2. /\ N \in Nat \ {0} /\ M \in Nat /\ N <= M
      /\ Rows \subseteq 0 .. N /\ Cols \subseteq Cols0 /\ 0 \in Cols0 \ Cols
      /\ \A r \in Rows, j \in Cols : a[r][j] \in Int
  BY MatrixType DEF IInv
<1>3. /\ \A k \in Seen : k \in Cols0 /\ p[k] \in Rows /\ p[k] <= i
      /\ \A j \in Unseen : j \in Cols /\ LeastCost(j) \in Int
      /\ \A j \in Unseen, k \in Seen : LeastCost(j) <= a[p[k]][j] - u[p[k]] - v[j]
      /\ j0 = 0 => used = {}
      /\ j0 # 0 => \A j \in Unseen : LeastCost(j) >= 0
      /\ j0 # 0 => 0 \in used /\ i \in Added
  BY <1>1, CostsSeen
<1>4. /\ Closest \in Unseen /\ delta \in Int
      /\ \A k \in Unseen : delta <= LeastCost(k)
  BY <1>1, <1>3, SomeUnseen, ClosestIsLeast DEF IInv
<1>5. /\ a' = a /\ p' = p /\ i' = i /\ used' = Seen /\ j0' = Closest
      /\ way' = [j \in Cols0 |-> IF j \in Unseen /\ Reached(j) THEN j0 ELSE way[j]]
      /\ u' = [r \in 0 .. N |-> RaisedRow(r, delta)]
      /\ v' = [j \in Cols0 |-> LoweredColumn(j, delta)]
      /\ minv' = [j \in Cols0 |->
                    IF j \in Unseen THEN LeastCost(j) - delta ELSE minv[j]]
      /\ step' = IF p[Closest] = 0 THEN "augment" ELSE "search"
  BY DEF Search
<1>6. N' = N /\ M' = M /\ Rows' = Rows /\ Cols' = Cols /\ Cols0' = Cols0
  BY <1>5 DEF N, M, Rows, Cols, Cols0
<1>7. HungarianTypeOK
  BY DEF IInv
<1> HIDE DEF delta
<1>8. HungarianTypeOK'
  <2>1. \A r \in 0 .. N : RaisedRow(r, delta) \in Int
    <3> TAKE r \in 0 .. N
    <3>1. u[r] \in Int
      BY <1>7 DEF HungarianTypeOK
    <3> QED BY <1>4, <3>1 DEF RaisedRow
  <2>2. \A j \in Cols0 : LoweredColumn(j, delta) \in Int
    BY <1>4, <1>7 DEF LoweredColumn, HungarianTypeOK
  <2>3. minv' \in [Cols0 -> Int]
    BY <1>3, <1>4, <1>5, <1>7 DEF HungarianTypeOK
  <2>4. Closest \in Cols0 /\ Seen \subseteq Cols0
    BY <1>2, <1>3, <1>4
  <2>5. way' \in [Cols0 -> Cols0]
    BY <1>5, <1>7 DEF HungarianTypeOK
  <2> QED BY <1>5, <1>6, <1>7, <2>1, <2>2, <2>3, <2>4, <2>5 DEF HungarianTypeOK
<1>9. \A k \in Seen : u'[p[k]] = u[p[k]] + delta /\ v'[k] = v[k] - delta
  <2> TAKE k \in Seen
  <2>1. p[k] \in 0 .. N /\ k \in Cols0
    BY <1>2, <1>3
  <2> QED BY <1>5, <2>1 DEF RaisedRow, LoweredColumn
<1>10. \A j \in Unseen : v'[j] = v[j] /\ minv'[j] = LeastCost(j) - delta
  BY <1>2, <1>3, <1>5 DEF LoweredColumn, Unseen
<1>11. j0 # 0 => delta >= 0
  BY <1>3, <1>4 DEF delta
<1>12. \A r \in Rows : (\A k \in Seen : p[k] # r) => u'[r] = u[r]
  BY <1>2, <1>5 DEF RaisedRow
<1> USE DEF delta
<1> QED BY <1>4, <1>8, <1>9, <1>10, <1>11, <1>12

LEMMA SearchStep == IInv /\ Search => IInv'
<1> SUFFICES ASSUME IInv, Search PROVE IInv'
  OBVIOUS
<1> DEFINE delta == LeastCost(Closest)
<1>1. step = "search"
  BY DEF Search
<1>2. /\ N \in Nat \ {0} /\ M \in Nat /\ N <= M
      /\ Rows \subseteq 0 .. N /\ Cols \subseteq Cols0 /\ 0 \in Cols0 \ Cols
      /\ \A r \in Rows, j \in Cols : a[r][j] \in Int
  BY MatrixType DEF IInv
<1>3. /\ \A k \in Seen : k \in Cols0 /\ p[k] \in Rows /\ p[k] <= i
      /\ \A j \in Unseen : j \in Cols /\ LeastCost(j) \in Int
      /\ \A j \in Unseen, k \in Seen : LeastCost(j) <= a[p[k]][j] - u[p[k]] - v[j]
      /\ j0 = 0 => used = {}
      /\ j0 # 0 => \A j \in Unseen : LeastCost(j) >= 0
      /\ j0 # 0 => 0 \in used /\ i \in Added
  BY <1>1, CostsSeen
<1>4. /\ Closest \in Unseen /\ delta \in Int
      /\ \A j \in Unseen : delta <= LeastCost(j)
      /\ j0 # 0 => delta >= 0
      /\ \A k \in Seen : u'[p[k]] = u[p[k]] + delta /\ v'[k] = v[k] - delta
      /\ \A j \in Unseen : v'[j] = v[j] /\ minv'[j] = LeastCost(j) - delta
      /\ \A r \in Rows : (\A k \in Seen : p[k] # r) => u'[r] = u[r]
      /\ HungarianTypeOK'
  BY Pass
<1>5. /\ a' = a /\ p' = p /\ i' = i /\ used' = Seen /\ j0' = Closest
      /\ step' = IF p[Closest] = 0 THEN "augment" ELSE "search"
  BY DEF Search
<1>6. N' = N /\ M' = M /\ Rows' = Rows /\ Cols' = Cols /\ Cols0' = Cols0
  BY <1>5 DEF N, M, Rows, Cols, Cols0
<1>7. HungarianTypeOK
  BY DEF IInv
<1> HIDE DEF delta
<1>8. DualFeasible'
  <2> SUFFICES ASSUME NEW r \in Added', NEW j \in Cols PROVE u'[r] + v'[j] <= a[r][j]
    BY <1>5, <1>6 DEF DualFeasible
  <2>1. r \in Rows /\ (r \in Added \/ (r = i /\ j0 = 0))
    <3>1. r \in Rows /\ (r < i \/ r = i)
      BY <1>5, <1>6 DEF Added
    <3>2. r < i => r \in Added
      BY <3>1 DEF Added
    <3> QED BY <3>1, <3>2, <1>3
  <2>2. u[r] \in Int /\ v[j] \in Int /\ a[r][j] \in Int /\ j \in Cols0
    BY <1>2, <1>7, <2>1 DEF HungarianTypeOK
  <2>3. r \in Added => u[r] + v[j] <= a[r][j]
    BY DEF IInv, DualFeasible
  <2>4. CASE \E k \in Seen : p[k] = r
    <3> PICK k \in Seen : p[k] = r
      BY <2>4
    <3>1. u'[r] = u[r] + delta
      BY <1>4
    <3>2. CASE j \in Seen
      <4>1. v'[j] = v[j] - delta
        BY <1>4, <3>2
      <4>2. r \in Added
        <5>1. j # 0
          BY <1>2
        <5>2. j0 # 0
          BY <1>3, <3>2, <5>1 DEF Seen
        <5> QED BY <1>3, <2>1, <5>2
      <4> QED BY <1>4, <2>2, <2>3, <3>1, <4>1, <4>2
    <3>3. CASE j \notin Seen
      <4>1. j \in Unseen /\ v'[j] = v[j]
        BY <1>4, <3>3 DEF Unseen
      <4>2. delta <= LeastCost(j) /\ LeastCost(j) <= a[r][j] - u[r] - v[j]
        BY <1>3, <1>4, <4>1
      <4>3. LeastCost(j) \in Int
        BY <1>3, <4>1
      <4> QED BY <1>4, <2>2, <3>1, <4>1, <4>2, <4>3
    <3> QED BY <3>2, <3>3
  <2>5. CASE ~\E k \in Seen : p[k] = r
    <3>1. u'[r] = u[r]
      BY <1>4, <2>1, <2>5
    <3>2. r \in Added
      <4>1. r # i \/ j0 # 0
        BY <1>1, <2>5 DEF IInv, SearchInv, Seen
      <4> QED BY <2>1, <4>1
    <3>3. CASE j \in Seen
      <4>1. v'[j] = v[j] - delta
        BY <1>4, <3>3
      <4>2. delta >= 0
        <5>1. j # 0
          BY <1>2
        <5>2. j0 # 0
          BY <1>3, <3>3, <5>1 DEF Seen
        <5> QED BY <1>4, <5>2
      <4> QED BY <1>4, <2>2, <2>3, <3>1, <3>2, <4>1, <4>2
    <3>4. CASE j \notin Seen
      <4>1. v'[j] = v[j]
        BY <1>4, <3>4 DEF Unseen
      <4> QED BY <2>2, <2>3, <3>1, <3>2, <4>1
    <3> QED BY <3>3, <3>4
  <2> QED BY <2>4, <2>5
<1>9. MinvIsLeast'
  <2> SUFFICES ASSUME NEW j \in Unseen
               PROVE  /\ minv'[j] >= 0
                      /\ \A k \in Seen : minv'[j] <= a[p[k]][j] - u'[p[k]] - v'[j]
    BY <1>5, <1>6 DEF MinvIsLeast, Unseen
  <2>1. minv'[j] = LeastCost(j) - delta /\ v'[j] = v[j]
    BY <1>4
  <2>2. minv'[j] >= 0
    BY <1>3, <1>4, <2>1
  <2>3. ASSUME NEW k \in Seen PROVE minv'[j] <= a[p[k]][j] - u'[p[k]] - v'[j]
    <3>1. u'[p[k]] = u[p[k]] + delta
      BY <1>4
    <3>2. LeastCost(j) <= a[p[k]][j] - u[p[k]] - v[j] /\ LeastCost(j) \in Int
      BY <1>3
    <3>3. a[p[k]][j] \in Int /\ u[p[k]] \in Int /\ v[j] \in Int
      BY <1>2, <1>3, <1>7 DEF HungarianTypeOK
    <3> QED BY <1>4, <2>1, <3>1, <3>2, <3>3
  <2> QED BY <2>2, <2>3
<1>10. /\ i <= N /\ p[0] = i /\ MatchedOnce(Cols) /\ \A j \in Cols : p[j] < i
  BY <1>1 DEF IInv, SearchInv
<1>11. 0 \in Seen /\ Closest \in Cols \ Seen /\ \A k \in Seen : p[k] # 0
  <2>1. 0 \in Seen
    BY <1>3 DEF Seen
  <2>2. \A k \in Seen : p[k] # 0
    BY <1>3 DEF Rows
  <2> QED BY <1>4, <2>1, <2>2 DEF Unseen
<1>12. RowInv' /\ SearchInv'
  BY <1>5, <1>6, <1>9, <1>10, <1>11 DEF RowInv, SearchInv, MatchedOnce
<1>13. AugmentInv'
  <2>1. \A j \in Cols0 : j = 0 \/ j \in Cols
    BY <1>2 DEF Cols0, Cols
  <2>2. \A j \in Cols0 : p[j] <= i /\ (p[j] = i => j = 0)
    <3> TAKE j \in Cols0
    <3>1. p[j] \in Nat /\ i \in Nat
      BY <1>2, <1>7 DEF HungarianTypeOK
    <3>2. j \in Cols => p[j] < i
      BY <1>10
    <3> QED BY <1>10, <2>1, <3>1, <3>2
  <2>3. MatchedOnce(Cols0)
    BY <1>10, <2>1, <2>2 DEF MatchedOnce
  <2> QED BY <1>5, <1>6, <1>10, <1>11, <2>2, <2>3 DEF AugmentInv, MatchedOnce
<1> QED BY <1>4, <1>8, <1>12, <1>13 DEF IInv

(* The row i stands at column 0, and is the only one there. *)
LEMMA StartRowStep == IInv /\ StartRow => IInv'
<1> SUFFICES ASSUME IInv, StartRow PROVE IInv'
  OBVIOUS
<1>1. /\ N \in Nat \ {0} /\ M \in Nat /\ 0 \in Cols0 \ Cols /\ Cols \subseteq Cols0
  BY MatrixType DEF IInv
<1>2. /\ a' = a /\ u' = u /\ v' = v /\ i' = i /\ used' = {} /\ j0' = 0
      /\ step = "row" /\ step' = "search" /\ i <= N
      /\ p' = [p EXCEPT ![0] = i] /\ way' = way /\ minv' = minv
  BY DEF StartRow
<1>3. N' = N /\ M' = M /\ Rows' = Rows /\ Cols' = Cols /\ Cols0' = Cols0
  BY <1>2 DEF N, M, Rows, Cols, Cols0
<1>4. HungarianTypeOK'
  <2>1. HungarianTypeOK
    BY DEF IInv
  <2>2. i \in 0 .. N /\ p \in [Cols0 -> 0 .. N]
    BY <1>1, <1>2, <2>1 DEF HungarianTypeOK
  <2>3. p' \in [Cols0 -> 0 .. N]
    BY <1>2, <2>2
  <2> QED BY <1>1, <1>2, <1>3, <2>1, <2>3 DEF HungarianTypeOK
<1>5. p'[0] = i /\ \A j \in Cols : p'[j] = p[j]
  BY <1>1, <1>2 DEF IInv, HungarianTypeOK
<1>6. RowInv' /\ SearchInv' /\ AugmentInv'
  BY <1>2, <1>3, <1>5 DEF IInv, RowInv, SearchInv, AugmentInv, MatchedOnce
<1>7. DualFeasible'
  BY <1>2, <1>3 DEF IInv, DualFeasible, Added
<1> QED BY <1>4, <1>6, <1>7 DEF IInv

(* Shifting a row along the path moves the column without one. *)
LEMMA AugmentStep == IInv /\ Augment => IInv'
<1> SUFFICES ASSUME IInv, Augment PROVE IInv'
  OBVIOUS
<1>1. /\ N \in Nat \ {0} /\ M \in Nat /\ 0 \in Cols0 \ Cols /\ Cols \subseteq Cols0
      /\ Cols0 \ {0} = Cols
  BY MatrixType DEF IInv, Cols, Cols0
<1>2. /\ a' = a /\ u' = u /\ v' = v /\ used' = used /\ j0' = way[j0]
      /\ p' = [p EXCEPT ![j0] = p[way[j0]]] /\ way' = way /\ minv' = minv
      /\ step = "augment"
      /\ IF way[j0] = 0 THEN step' = "row" /\ i' = i + 1 ELSE step' = step /\ i' = i
  BY DEF Augment
<1>3. N' = N /\ M' = M /\ Rows' = Rows /\ Cols' = Cols /\ Cols0' = Cols0
  BY <1>2 DEF N, M, Rows, Cols, Cols0
<1>4. /\ i \in 1 .. N /\ used # {} /\ j0 \in Cols0 /\ way[j0] \in Cols0
      /\ MatchedOnce(Cols0 \ {j0}) /\ \A j \in Cols0 : p[j] <= i
  BY <1>1, <1>2 DEF IInv, HungarianTypeOK, AugmentInv
<1>5. HungarianTypeOK'
  <2>1. p' \in [Cols0 -> 0 .. N]
    BY <1>2, <1>4 DEF IInv, HungarianTypeOK
  <2>2. i' \in 1 .. N + 1 /\ step' \in {"row", "augment"}
    BY <1>1, <1>2, <1>4
  <2> QED BY <1>2, <1>3, <1>4, <2>1, <2>2 DEF IInv, HungarianTypeOK
<1>6. \A j \in Cols0 : p'[j] = IF j = j0 THEN p[way[j0]] ELSE p[j]
  BY <1>2 DEF IInv, HungarianTypeOK
<1>7. /\ \A j, k \in Cols0 \ {way[j0]} : p'[j] = p'[k] /\ p'[j] # 0 => j = k
      /\ \A j \in Cols0 : p'[j] <= i
  BY <1>4, <1>6 DEF MatchedOnce
<1>8. CASE way[j0] = 0
  <2>1. step' = "row" /\ i' = i + 1
    BY <1>2, <1>8
  <2>2. \A j \in Cols : p'[j] < i'
    <3>1. \A j \in Cols : p'[j] <= i /\ p'[j] \in 0 .. N
      BY <1>1, <1>3, <1>5, <1>7 DEF HungarianTypeOK
    <3> TAKE j \in Cols
    <3> QED BY <1>4, <2>1, <3>1
  <2>3. MatchedOnce(Cols)'
    BY <1>1, <1>3, <1>7, <1>8 DEF MatchedOnce
  <2>4. RowInv' /\ SearchInv' /\ AugmentInv'
    BY <1>3, <2>1, <2>2, <2>3 DEF RowInv, SearchInv, AugmentInv, MatchedOnce
  <2>5. Added' = Added
    BY <1>2, <1>3, <1>4, <2>1 DEF Added, Rows
  <2>6. DualFeasible'
    BY <1>2, <1>3, <2>5 DEF IInv, DualFeasible
  <2> QED BY <1>5, <2>4, <2>6 DEF IInv
<1>9. CASE way[j0] # 0
  <2>1. step' = "augment" /\ i' = i
    BY <1>2, <1>9
  <2>2. RowInv' /\ SearchInv' /\ AugmentInv'
    BY <1>2, <1>3, <1>4, <1>7, <2>1 DEF RowInv, SearchInv, AugmentInv, MatchedOnce
  <2>3. DualFeasible'
    BY <1>2, <1>3, <2>1 DEF IInv, DualFeasible, Added
  <2> QED BY <1>5, <2>2, <2>3 DEF IInv
<1> QED BY <1>8, <1>9

LEMMA FinishStep == IInv /\ Finish => IInv'
<1> SUFFICES ASSUME IInv, Finish PROVE IInv'
  OBVIOUS
<1>1. /\ UNCHANGED <<a, u, v, p, way, minv, used, i, j0>>
      /\ step = "row" /\ step' = "done"
  BY DEF Finish
<1>2. N' = N /\ M' = M /\ Rows' = Rows /\ Cols' = Cols /\ Cols0' = Cols0
  BY <1>1 DEF N, M, Rows, Cols, Cols0
<1>3. HungarianTypeOK'
  BY <1>1, <1>2 DEF IInv, HungarianTypeOK
<1>4. RowInv' /\ SearchInv' /\ AugmentInv'
  BY <1>1, <1>2 DEF IInv, RowInv, SearchInv, AugmentInv, MatchedOnce
<1>5. DualFeasible'
  BY <1>1, <1>2 DEF IInv, DualFeasible, Added
<1> QED BY <1>3, <1>4, <1>5 DEF IInv

-----------------------------------------------------------------------------
(* The second part of the invariant: what makes the potentials a proof that the
   assignment is the cheapest. *)

Tight(r, j) == u[r] + v[j] = a[r][j]

MatchedTight(S) == \A j \in S : p[j] # 0 => Tight(p[j], j)

AllMatched(n, S) == \A r \in 1 .. n : \E j \in S : p[j] = r

ColumnsLow == \A j \in Cols : v[j] <= 0 /\ (v[j] # 0 => p[j] # 0)

RowTight ==
  step \in {"row", "done"} =>
    AllMatched(i - 1, Cols) /\ MatchedTight(Cols) /\ (step = "done" => i = N + 1)

(* The columns seen form a tree of tight edges, rank being the order in which they
   were seen; minv of the others is the cost of their edge to the tree. *)
Tree(rank, n) ==
  /\ \A k \in used : rank[k] < n
  /\ \A k \in used \ {0} :
       way[k] \in used /\ rank[way[k]] < rank[k] /\ Tight(p[way[k]], k)
  /\ \A j \in Cols \ used :
       way[j] \in used /\ minv[j] = a[p[way[j]]][j] - u[p[way[j]]] - v[j]

SearchTight ==
  step = "search" =>
    /\ AllMatched(i - 1, Cols) /\ MatchedTight(Cols)
    /\ used # {} => /\ minv[j0] = 0
                    /\ \E rank \in [Cols0 -> Nat], n \in Nat : Tree(rank, n)

(* The path from j0 back to column 0 consists of tight edges between rows that
   are not shifted yet. *)
Path(rank) ==
  \A k \in (used \cup {j0}) \ {0} : rank[k] <= rank[j0] =>
    /\ way[k] \in used /\ rank[way[k]] < rank[k]
    /\ p[way[k]] # 0 /\ Tight(p[way[k]], k)

AugmentTight ==
  step = "augment" =>
    /\ j0 \in Cols
    /\ AllMatched(i, Cols0 \ {j0}) /\ MatchedTight(Cols \ {j0})
    /\ \E rank \in [Cols0 -> Nat] : Path(rank)

TightInv == ColumnsLow /\ RowTight /\ SearchTight /\ AugmentTight

FullInv == IInv /\ TightInv

LEMMA SearchTightStep == FullInv /\ Search => TightInv'
<1> SUFFICES ASSUME IInv, TightInv, Search PROVE TightInv'
  BY DEF FullInv
<1> DEFINE delta == LeastCost(Closest)
<1>1. step = "search"
  BY DEF Search
<1>2. /\ N \in Nat \ {0} /\ M \in Nat /\ N <= M
      /\ Rows \subseteq 0 .. N /\ Cols \subseteq Cols0 /\ 0 \in Cols0 \ Cols
      /\ \A r \in Rows, j \in Cols : a[r][j] \in Int
  BY MatrixType DEF IInv
<1>3. /\ \A k \in Seen : k \in Cols0 /\ p[k] \in Rows
      /\ \A j \in Unseen : j \in Cols /\ LeastCost(j) \in Int
      /\ j0 = 0 => used = {}
  BY <1>1, CostsSeen
<1>4. /\ Closest \in Unseen /\ delta \in Int
      /\ j0 # 0 => delta >= 0
      /\ \A k \in Seen : u'[p[k]] = u[p[k]] + delta /\ v'[k] = v[k] - delta
      /\ \A j \in Unseen : v'[j] = v[j] /\ minv'[j] = LeastCost(j) - delta
      /\ \A r \in Rows : (\A k \in Seen : p[k] # r) => u'[r] = u[r]
  BY Pass
<1>5. /\ a' = a /\ p' = p /\ i' = i /\ used' = Seen /\ j0' = Closest
      /\ way' = [j \in Cols0 |-> IF j \in Unseen /\ Reached(j) THEN j0 ELSE way[j]]
      /\ step' = IF p[Closest] = 0 THEN "augment" ELSE "search"
  BY DEF Search
<1>6. N' = N /\ M' = M /\ Rows' = Rows /\ Cols' = Cols /\ Cols0' = Cols0
  BY <1>5 DEF N, M, Rows, Cols, Cols0
<1>7. /\ \A r \in Rows : u[r] \in Int
      /\ \A j \in Cols0 : v[j] \in Int /\ minv[j] \in Int /\ p[j] \in 0 .. N
      /\ used \subseteq Cols0 /\ j0 \in Cols0 /\ way \in [Cols0 -> Cols0]
  BY <1>2 DEF IInv, HungarianTypeOK
<1>8. /\ i \in 1 .. N /\ p[0] = i /\ MatchedOnce(Cols) /\ \A j \in Cols : p[j] < i
      /\ AllMatched(i - 1, Cols) /\ MatchedTight(Cols)
  BY <1>1 DEF IInv, HungarianTypeOK, SearchInv, TightInv, SearchTight
<1> HIDE DEF delta
<1>9. ColumnsLow'
  <2> SUFFICES ASSUME NEW j \in Cols PROVE v'[j] <= 0 /\ (v'[j] # 0 => p[j] # 0)
    BY <1>5, <1>6 DEF ColumnsLow
  <2>1. v[j] <= 0 /\ (v[j] # 0 => p[j] # 0) /\ v[j] \in Int
    BY <1>2, <1>7 DEF TightInv, ColumnsLow
  <2>2. CASE j \in Seen
    <3>1. j # 0 /\ j0 # 0
      BY <1>2, <1>3, <2>2 DEF Seen
    <3>2. p[j] # 0
      BY <1>3, <2>2 DEF Rows
    <3> QED BY <1>4, <2>1, <2>2, <3>1, <3>2
  <2>3. CASE j \notin Seen
    BY <1>4, <2>1, <2>3 DEF Unseen
  <2> QED BY <2>2, <2>3
<1>10. MatchedTight(Cols)'
  <2> SUFFICES ASSUME NEW j \in Cols, p[j] # 0 PROVE u'[p[j]] + v'[j] = a[p[j]][j]
    BY <1>5, <1>6 DEF MatchedTight, Tight
  <2>1. p[j] \in Rows /\ j \in Cols0
    BY <1>2, <1>7 DEF Rows
  <2>2. u[p[j]] + v[j] = a[p[j]][j] /\ u[p[j]] \in Int /\ v[j] \in Int
    BY <1>7, <1>8, <2>1 DEF MatchedTight, Tight
  <2>3. CASE j \in Seen
    <3>1. u'[p[j]] = u[p[j]] + delta /\ v'[j] = v[j] - delta
      BY <1>4, <2>3
    <3> QED BY <1>4, <2>2, <3>1
  <2>4. CASE j \notin Seen
    <3>1. \A k \in Seen : p[k] # p[j]
      <4> SUFFICES ASSUME NEW k \in Seen, p[k] = p[j] PROVE FALSE
        OBVIOUS
      <4>1. k # 0
        BY <1>7, <1>8, <2>1 DEF Rows
      <4>2. k \in Cols
        BY <1>2, <1>3, <4>1 DEF Cols, Cols0
      <4> QED BY <1>8, <2>4, <4>2 DEF MatchedOnce
    <3>2. u'[p[j]] = u[p[j]]
      BY <1>4, <2>1, <3>1
    <3>3. v'[j] = v[j]
      BY <1>4, <2>4 DEF Unseen
    <3> QED BY <2>2, <3>2, <3>3
  <2> QED BY <2>3, <2>4
<1>11. \A j \in Unseen :
         way'[j] \in Seen /\ minv'[j] = a[p[way'[j]]][j] - u'[p[way'[j]]] - v'[j]
  <2> SUFFICES ASSUME NEW j \in Unseen
               PROVE  way'[j] \in Seen
                        /\ minv'[j] = a[p[way'[j]]][j] - u'[p[way'[j]]] - v'[j]
    OBVIOUS
  <2>1. j \in Cols /\ j \in Cols0 /\ v[j] \in Int /\ minv[j] \in Int
    BY <1>2, <1>3, <1>7
  <2>2. way'[j] \in Seen /\ LeastCost(j) = a[p[way'[j]]][j] - u[p[way'[j]]] - v[j]
    <3>1. CASE Reached(j)
      BY <1>5, <2>1, <3>1 DEF LeastCost, ReducedCost, Seen
    <3>2. CASE ~Reached(j)
      <4>1. j0 # 0
        BY <3>2 DEF Reached
      <4>2. used # {}
        BY <1>1, <4>1 DEF IInv, SearchInv
      <4>3. j \in Cols \ used
        BY <2>1 DEF Unseen, Seen
      <4>4. way[j] \in used /\ minv[j] = a[p[way[j]]][j] - u[p[way[j]]] - v[j]
        BY <1>1, <4>2, <4>3 DEF TightInv, SearchTight, Tree
      <4> QED BY <1>5, <2>1, <3>2, <4>4 DEF LeastCost, Seen
    <3> QED BY <3>1, <3>2
  <2>3. p[way'[j]] \in Rows /\ u'[p[way'[j]]] = u[p[way'[j]]] + delta
    BY <1>3, <1>4, <2>2
  <2>4. a[p[way'[j]]][j] \in Int /\ u[p[way'[j]]] \in Int
    BY <1>2, <1>7, <2>1, <2>3
  <2>5. v'[j] = v[j] /\ minv'[j] = LeastCost(j) - delta
    BY <1>4
  <2> QED BY <1>4, <2>1, <2>2, <2>3, <2>4, <2>5
<1>12. minv'[Closest] = 0
  BY <1>3, <1>4 DEF delta
<1>13. PICK rank \in [Cols0 -> Nat], n \in Nat :
         /\ \A k \in used : rank[k] < n
         /\ \A k \in used \ {0} :
              way[k] \in used /\ rank[way[k]] < rank[k] /\ Tight(p[way[k]], k)
  <2>1. CASE used = {}
    <3>1. [k \in Cols0 |-> 0] \in [Cols0 -> Nat]
      OBVIOUS
    <3> QED BY <2>1, <3>1
  <2>2. CASE used # {}
    BY <1>1, <2>2 DEF TightInv, SearchTight, Tree
  <2> QED BY <2>1, <2>2
<1>14. j0 # 0 => /\ j0 \in Cols \ used /\ way[j0] \in used /\ Tight(p[way[j0]], j0)
  <2> SUFFICES ASSUME j0 # 0
               PROVE  j0 \in Cols \ used /\ way[j0] \in used /\ Tight(p[way[j0]], j0)
    OBVIOUS
  <2>1. j0 \in Cols \ used /\ used # {}
    BY <1>1 DEF IInv, SearchInv
  <2>2. /\ way[j0] \in used /\ minv[j0] = 0
        /\ minv[j0] = a[p[way[j0]]][j0] - u[p[way[j0]]] - v[j0]
    BY <1>1, <2>1 DEF TightInv, SearchTight, Tree
  <2>3. p[way[j0]] \in Rows
    BY <1>3, <2>2 DEF Seen
  <2>4. a[p[way[j0]]][j0] \in Int /\ u[p[way[j0]]] \in Int /\ v[j0] \in Int
    BY <1>2, <1>7, <2>1, <2>3
  <2> QED BY <2>1, <2>2, <2>4 DEF Tight
<1>15. PICK order \in [Cols0 -> Nat] :
       /\ \A k \in Seen : order[k] < n + 1
       /\ \A k \in Seen \ {0} : /\ way'[k] = way[k] /\ way[k] \in Seen
                                /\ order[way[k]] < order[k] /\ Tight(p[way[k]], k)
  <2> DEFINE order == [rank EXCEPT ![j0] = n]
  <2>1. order \in [Cols0 -> Nat] /\ order[j0] = n
    BY <1>7, <1>13
  <2>2. \A k \in used : k # j0 => order[k] = rank[k] /\ rank[k] \in Nat
    BY <1>7, <1>13
  <2>3. j0 \notin used
    BY <1>1 DEF IInv, SearchInv
  <2>4. \A k \in Seen : order[k] < n + 1
    BY <1>13, <2>1, <2>2 DEF Seen
  <2>5. ASSUME NEW k \in Seen \ {0}
        PROVE  /\ way'[k] = way[k] /\ way[k] \in Seen
               /\ order[way[k]] < order[k] /\ Tight(p[way[k]], k)
    <3>1. way'[k] = way[k]
      BY <1>3, <1>5 DEF Unseen
    <3>2. CASE k = j0
      <4>1. way[k] \in used /\ Tight(p[way[k]], k)
        BY <1>14, <3>2
      <4> HIDE DEF order
      <4> QED BY <1>13, <2>1, <2>2, <2>3, <3>1, <3>2, <4>1 DEF Seen
    <3>3. CASE k # j0
      <4>1. k \in used \ {0}
        BY <3>3 DEF Seen
      <4>2. way[k] \in used /\ rank[way[k]] < rank[k] /\ Tight(p[way[k]], k)
        BY <1>13, <4>1
      <4> HIDE DEF order
      <4> QED BY <2>2, <2>3, <3>1, <4>1, <4>2 DEF Seen
    <3> QED BY <3>2, <3>3
  <2> HIDE DEF order
  <2>6. \A k \in Seen \ {0} : /\ way'[k] = way[k] /\ way[k] \in Seen
                              /\ order[way[k]] < order[k] /\ Tight(p[way[k]], k)
    BY <2>5
  <2> QED BY <2>1, <2>4, <2>6
<1>16. \A k \in Seen \ {0} : Tight(p[way[k]], k)'
  <2> TAKE k \in Seen \ {0}
  <2>1. k \in Cols /\ k \in Cols0
    BY <1>2, <1>3 DEF Cols, Cols0
  <2>2. way'[k] = way[k] /\ way[k] \in Seen /\ u[p[way[k]]] + v[k] = a[p[way[k]]][k]
    BY <1>15 DEF Tight
  <2>3. p[way[k]] \in Rows
    BY <1>3, <2>2
  <2>4. u[p[way[k]]] \in Int /\ v[k] \in Int
    BY <1>7, <2>1, <2>3
  <2>5. u'[p[way[k]]] = u[p[way[k]]] + delta /\ v'[k] = v[k] - delta
    BY <1>4, <2>2
  <2>6. u'[p[way[k]]] + v'[k] = a[p[way[k]]][k]
    BY <1>4, <2>2, <2>4, <2>5
  <2> QED BY <1>5, <2>2, <2>6 DEF Tight
<1>17. Tree(order, n + 1)'
  <2>1. \A j \in Cols \ Seen : j \in Unseen
    BY DEF Unseen
  <2>2. used' = Seen /\ a' = a /\ p' = p /\ Cols' = Cols
    BY <1>5, <1>6
  <2>3. \A k \in Seen : order[k] < n + 1
    BY <1>15
  <2>4. \A k \in Seen \ {0} :
          /\ way'[k] \in Seen /\ order[way'[k]] < order[k]
          /\ u'[p'[way'[k]]] + v'[k] = a'[p'[way'[k]]][k]
    BY <1>15, <1>16 DEF Tight
  <2>5. \A j \in Cols \ Seen :
          way'[j] \in Seen /\ minv'[j] = a'[p'[way'[j]]][j] - u'[p'[way'[j]]] - v'[j]
    BY <1>11, <2>1, <2>2
  <2> QED BY <2>2, <2>3, <2>4, <2>5 DEF Tree, Tight
<1>18. SearchTight'
  <2>1. n + 1 \in Nat
    BY <1>13
  <2>2. AllMatched(i - 1, Cols)'
    BY <1>5, <1>6, <1>8 DEF AllMatched
  <2> QED BY <1>5, <1>6, <1>10, <1>12, <1>15, <1>17, <2>1, <2>2 DEF SearchTight
<1>19. AugmentTight'
  <2> SUFFICES ASSUME p[Closest] = 0 PROVE AugmentTight'
    BY <1>5 DEF AugmentTight
  <2>1. Closest \in Cols \ Seen /\ Closest # 0
    BY <1>2, <1>3, <1>4 DEF Unseen
  <2>2. \A r \in 1 .. i : \E j \in Cols0 \ {Closest} : p[j] = r
    <3> TAKE r \in 1 .. i
    <3>1. CASE r = i
      BY <1>2, <1>8, <2>1, <3>1
    <3>2. CASE r # i
      <4>1. r \in 1 .. i - 1 /\ r # 0
        BY <1>8, <3>2
      <4>2. PICK j \in Cols : p[j] = r
        BY <1>8, <4>1 DEF AllMatched
      <4> QED BY <1>2, <4>1, <4>2
    <3> QED BY <3>1, <3>2
  <2>3. /\ way'[Closest] \in Seen
        /\ u'[p[way'[Closest]]] + v'[Closest] = a[p[way'[Closest]]][Closest]
    <3>1. way'[Closest] \in Seen
      BY <1>4, <1>11
    <3>2. 0 = a[p[way'[Closest]]][Closest] - u'[p[way'[Closest]]] - v'[Closest]
      BY <1>4, <1>11, <1>12
    <3>3. p[way'[Closest]] \in Rows /\ Closest \in Cols0
      BY <1>2, <1>3, <2>1, <3>1
    <3>4. /\ a[p[way'[Closest]]][Closest] \in Int
          /\ u'[p[way'[Closest]]] \in Int /\ v'[Closest] \in Int
      <4>1. HungarianTypeOK'
        BY Pass
      <4>2. u' \in [0 .. N -> Int] /\ v' \in [Cols0 -> Int]
        BY <1>6, <4>1 DEF HungarianTypeOK
      <4> QED BY <1>2, <2>1, <3>3, <4>2
    <3>5. u'[p[way'[Closest]]] + v'[Closest] = a[p[way'[Closest]]][Closest]
      BY <3>2, <3>4
    <3> QED BY <3>1, <3>5
  <2>4. PICK last \in [Cols0 -> Nat] :
          /\ last[Closest] = n + 1
          /\ \A k \in Seen : last[k] = order[k] /\ order[k] \in Nat /\ order[k] < n + 1
    <3> DEFINE last == [order EXCEPT ![Closest] = n + 1]
    <3>1. last \in [Cols0 -> Nat] /\ last[Closest] = n + 1
      BY <1>2, <1>13, <2>1
    <3>2. \A k \in Seen : last[k] = order[k] /\ order[k] \in Nat /\ order[k] < n + 1
      BY <1>3, <1>15, <2>1
    <3> HIDE DEF last
    <3> QED BY <3>1, <3>2
  <2>5. Path(last)'
    <3> SUFFICES ASSUME NEW k \in (Seen \cup {Closest}) \ {0}
                 PROVE  /\ way'[k] \in Seen /\ last[way'[k]] < last[k]
                        /\ p[way'[k]] # 0 /\ Tight(p[way[k]], k)'
      BY <1>5 DEF Path
    <3>1. CASE k = Closest
      <4>1. p[way'[k]] # 0
        BY <1>3, <2>3, <3>1 DEF Rows
      <4>2. way'[k] \in Seen /\ last[way'[k]] < last[k]
        BY <2>3, <2>4, <3>1
      <4>3. Tight(p[way[k]], k)'
        BY <2>3, <3>1, <1>5 DEF Tight
      <4> QED BY <4>1, <4>2, <4>3
    <3>2. CASE k # Closest
      <4>1. k \in Seen \ {0}
        BY <3>2
      <4>2. way'[k] = way[k] /\ way[k] \in Seen /\ order[way[k]] < order[k]
        BY <1>15, <4>1
      <4>3. p[way[k]] # 0
        BY <1>3, <4>2 DEF Rows
      <4> QED BY <1>16, <2>4, <4>1, <4>2, <4>3
    <3> QED BY <3>1, <3>2
  <2>6. AllMatched(i, Cols0 \ {j0})' /\ MatchedTight(Cols \ {j0})'
    <3>1. AllMatched(i, Cols0 \ {j0})'
      BY <1>5, <1>6, <2>2 DEF AllMatched
    <3>2. MatchedTight(Cols \ {j0})'
      BY <1>10 DEF MatchedTight
    <3> QED BY <3>1, <3>2
  <2> QED BY <1>5, <1>6, <2>1, <2>4, <2>5, <2>6 DEF AugmentTight
<1>20. RowTight'
  BY <1>5 DEF RowTight
<1> QED BY <1>9, <1>18, <1>19, <1>20 DEF TightInv

LEMMA StartRowTight == FullInv /\ StartRow => TightInv'
<1> SUFFICES ASSUME IInv, TightInv, StartRow PROVE TightInv'
  BY DEF FullInv
<1>1. 0 \in Cols0 \ Cols /\ Cols \subseteq Cols0
  BY MatrixType DEF IInv
<1>2. /\ a' = a /\ u' = u /\ v' = v /\ i' = i /\ used' = {} /\ j0' = 0
      /\ step = "row" /\ step' = "search" /\ p' = [p EXCEPT ![0] = i]
  BY DEF StartRow
<1>3. Cols' = Cols
  BY <1>2 DEF M, Cols
<1>4. \A j \in Cols : p'[j] = p[j]
  BY <1>1, <1>2 DEF IInv, HungarianTypeOK
<1>5. ColumnsLow'
  BY <1>2, <1>3, <1>4 DEF TightInv, ColumnsLow
<1>6. AllMatched(i - 1, Cols)' /\ MatchedTight(Cols)'
  <2>1. AllMatched(i - 1, Cols) /\ MatchedTight(Cols)
    BY <1>2 DEF TightInv, RowTight
  <2> QED BY <1>2, <1>3, <1>4, <2>1 DEF AllMatched, MatchedTight, Tight
<1> QED BY <1>2, <1>3, <1>5, <1>6 DEF TightInv, RowTight, SearchTight, AugmentTight

LEMMA AugmentTightStep == FullInv /\ Augment => TightInv'
<1> SUFFICES ASSUME IInv, TightInv, Augment PROVE TightInv'
  BY DEF FullInv
<1>1. /\ N \in Nat \ {0} /\ M \in Nat /\ 0 \in Cols0 \ Cols /\ Cols \subseteq Cols0
      /\ Cols0 \ {0} = Cols
  BY MatrixType DEF IInv, Cols, Cols0
<1>2. /\ a' = a /\ u' = u /\ v' = v /\ used' = used /\ j0' = way[j0]
      /\ p' = [p EXCEPT ![j0] = p[way[j0]]] /\ way' = way
      /\ step = "augment"
      /\ IF way[j0] = 0 THEN step' = "row" /\ i' = i + 1 ELSE step' = step /\ i' = i
  BY DEF Augment
<1>3. N' = N /\ Cols' = Cols /\ Cols0' = Cols0
  BY <1>2 DEF N, M, Cols, Cols0
<1>4. /\ i \in 1 .. N /\ way[j0] \in Cols0 /\ used \subseteq Cols0
      /\ j0 \in Cols /\ AllMatched(i, Cols0 \ {j0}) /\ MatchedTight(Cols \ {j0})
  BY <1>1, <1>2
     DEF IInv, HungarianTypeOK, AugmentInv, TightInv, AugmentTight
<1>5. PICK rank \in [Cols0 -> Nat] : Path(rank)
  BY <1>2 DEF TightInv, AugmentTight
<1>6. /\ way[j0] \in used /\ rank[way[j0]] < rank[j0] /\ way[j0] # j0
      /\ p[way[j0]] # 0 /\ Tight(p[way[j0]], j0)
  <2>1. rank[j0] \in Nat /\ j0 # 0
    BY <1>1, <1>4
  <2> QED BY <1>5, <2>1 DEF Path
<1>7. \A j \in Cols0 : p'[j] = IF j = j0 THEN p[way[j0]] ELSE p[j]
  BY <1>2 DEF IInv, HungarianTypeOK
<1>8. ColumnsLow'
  BY <1>1, <1>2, <1>3, <1>6, <1>7 DEF TightInv, ColumnsLow
<1>9. \A j \in Cols \ {way[j0]} : p'[j] # 0 => Tight(p'[j], j)
  BY <1>1, <1>4, <1>6, <1>7 DEF MatchedTight
<1>10. \A r \in 1 .. i : \E j \in Cols0 \ {way[j0]} : p'[j] = r
  <2> TAKE r \in 1 .. i
  <2>1. PICK j \in Cols0 \ {j0} : p[j] = r
    BY <1>4 DEF AllMatched
  <2>2. CASE j = way[j0]
    <3>1. j0 \in Cols0 \ {way[j0]} /\ p'[j0] = r
      BY <1>1, <1>4, <1>6, <1>7, <2>1, <2>2
    <3> QED BY <3>1
  <2>3. CASE j # way[j0]
    BY <1>7, <2>1, <2>3
  <2> QED BY <2>2, <2>3
<1>11. CASE way[j0] = 0
  <2>1. step' = "row" /\ i' = i + 1 /\ i' - 1 = i
    BY <1>2, <1>4, <1>11
  <2>2. AllMatched(i - 1, Cols)' /\ MatchedTight(Cols)'
    <3>1. Cols \ {way[j0]} = Cols /\ Cols0 \ {way[j0]} = Cols
      BY <1>1, <1>11
    <3> QED BY <1>2, <1>3, <1>9, <1>10, <2>1, <3>1 DEF AllMatched, MatchedTight, Tight
  <2> QED BY <1>8, <2>1, <2>2
          DEF TightInv, RowTight, SearchTight, AugmentTight
<1>12. CASE way[j0] # 0
  <2>1. step' = "augment" /\ i' = i /\ way[j0] \in Cols
    BY <1>1, <1>2, <1>4, <1>12
  <2>2. AllMatched(i, Cols0 \ {j0})' /\ MatchedTight(Cols \ {j0})'
    BY <1>2, <1>3, <1>9, <1>10, <2>1 DEF AllMatched, MatchedTight, Tight
  <2>3. Path(rank)'
    <3> SUFFICES ASSUME NEW k \in (used \cup {way[j0]}) \ {0}, rank[k] <= rank[way[j0]]
                 PROVE  /\ way[k] \in used /\ rank[way[k]] < rank[k]
                        /\ p'[way[k]] # 0 /\ u[p'[way[k]]] + v[k] = a[p'[way[k]]][k]
      BY <1>2 DEF Path, Tight
    <3>1. k \in used \ {0} /\ k \in Cols0
      BY <1>4, <1>6
    <3>2. /\ rank[k] \in Nat /\ rank[j0] \in Nat /\ rank[way[j0]] \in Nat
      BY <1>1, <1>4, <3>1
    <3>3. rank[k] <= rank[j0]
      BY <1>6, <3>2
    <3>4. /\ way[k] \in used /\ rank[way[k]] < rank[k]
          /\ p[way[k]] # 0 /\ Tight(p[way[k]], k)
      BY <1>5, <3>1, <3>3 DEF Path
    <3>5. way[k] \in Cols0 /\ rank[way[k]] \in Nat
      BY <1>4, <3>4
    <3>6. way[k] # j0
      BY <1>6, <3>2, <3>4, <3>5
    <3>7. p'[way[k]] = p[way[k]]
      BY <1>7, <3>5, <3>6
    <3> QED BY <3>4, <3>7 DEF Tight
  <2> QED BY <1>2, <1>3, <1>8, <2>1, <2>2, <2>3
          DEF TightInv, RowTight, SearchTight, AugmentTight
<1> QED BY <1>11, <1>12

LEMMA FinishTight == FullInv /\ Finish => TightInv'
<1> SUFFICES ASSUME IInv, TightInv, Finish PROVE TightInv'
  BY DEF FullInv
<1>1. /\ UNCHANGED <<a, u, v, p, way, minv, used, i, j0>>
      /\ step = "row" /\ step' = "done" /\ i > N
  BY DEF Finish
<1>2. N' = N /\ Cols' = Cols
  BY <1>1 DEF N, M, Cols
<1>3. i = N + 1
  BY SMTT(30), <1>1, MatrixType DEF IInv, HungarianTypeOK
<1>4. AllMatched(i - 1, Cols) /\ MatchedTight(Cols) /\ ColumnsLow
  BY <1>1 DEF TightInv, RowTight
<1>5. AllMatched(i - 1, Cols)' /\ MatchedTight(Cols)' /\ ColumnsLow'
  BY <1>1, <1>2, <1>4 DEF AllMatched, MatchedTight, ColumnsLow, Tight
<1> QED BY <1>1, <1>2, <1>3, <1>5
        DEF TightInv, RowTight, SearchTight, AugmentTight

LEMMA Initially == HungarianInit => FullInv
<1> SUFFICES ASSUME NEW matrix \in Matrices, Start(matrix) PROVE FullInv
  BY DEF HungarianInit
<1>1. a \in Seq(Seq(Int)) /\ a # <<>> /\ N <= M /\ \A r \in Rows : Len(a[r]) = M
  BY DEF Start, Matrices, N, M, Rows
<1>2. N \in Nat \ {0} /\ M \in Nat
  <2>1. N \in Nat \ {0} /\ 1 \in DOMAIN a
    BY <1>1 DEF N
  <2>2. a[1] \in Seq(Int)
    BY <1>1, <2>1
  <2> QED BY <2>1, <2>2 DEF M
<1>3. HungarianTypeOK
  BY <1>1, <1>2 DEF Start, HungarianTypeOK, Cols0
<1>4. RowInv /\ SearchInv /\ AugmentInv
  BY <1>2 DEF Start, RowInv, SearchInv, AugmentInv, MatchedOnce, Cols, Cols0
<1>5. DualFeasible
  BY <1>2 DEF Start, DualFeasible, Added, Rows
<1>6. TightInv
  <2>1. ColumnsLow /\ AllMatched(i - 1, Cols) /\ MatchedTight(Cols)
    BY <1>2 DEF Start, ColumnsLow, AllMatched, MatchedTight, Cols, Cols0
  <2> QED BY <2>1 DEF Start, TightInv, RowTight, SearchTight, AugmentTight
<1> QED BY <1>3, <1>4, <1>5, <1>6 DEF IInv, FullInv

LEMMA Inductive == FullInv /\ [HungarianNext]_hungarianVars => FullInv'
<1> SUFFICES ASSUME FullInv, [HungarianNext]_hungarianVars PROVE FullInv'
  OBVIOUS
<1>1. CASE HungarianNext
  <2>1. IInv'
    BY <1>1, StartRowStep, SearchStep, AugmentStep, FinishStep DEF HungarianNext, FullInv
  <2>2. TightInv'
    BY <1>1, StartRowTight, SearchTightStep, AugmentTightStep, FinishTight
       DEF HungarianNext
  <2> QED BY <2>1, <2>2 DEF FullInv
<1>2. CASE UNCHANGED hungarianVars
  <2>1. UNCHANGED <<a, u, v, p, way, minv, used, i, j0, step>>
    BY <1>2 DEF hungarianVars
  <2>2. IInv'
    BY <2>1 DEF FullInv, IInv, HungarianTypeOK, RowInv, SearchInv, AugmentInv,
                DualFeasible, MatchedOnce, MinvIsLeast, Added, Rows, Cols, Cols0, N, M
  <2>3. TightInv'
    BY <2>1 DEF FullInv, TightInv, ColumnsLow, RowTight, SearchTight, AugmentTight,
                AllMatched, MatchedTight, Tight, Tree, Path, Cols, Cols0, N, M
  <2> QED BY <2>2, <2>3 DEF FullInv
<1> QED BY <1>1, <1>2

LEMMA Invariant == HungarianSpec => []FullInv
BY Initially, Inductive, PTL DEF HungarianSpec

(* What the invariant says of the end. *)
LEMMA EndProves == FullInv => ProvedCheapest
<1> SUFFICES ASSUME FullInv, step = "done"
             PROVE  /\ \A r \in Rows : /\ Assign[r] \in Cols /\ p[Assign[r]] = r
                                       /\ u[r] + v[Assign[r]] = a[r][Assign[r]]
                    /\ \A j \in Cols :
                         v[j] <= 0 /\ (v[j] < 0 => \E r \in Rows : Assign[r] = j)
  BY DEF FullInv, IInv, ProvedCheapest
<1>1. /\ N \in Nat \ {0} /\ M \in Nat /\ i = N + 1
      /\ AllMatched(i - 1, Cols) /\ MatchedTight(Cols) /\ ColumnsLow
      /\ MatchedOnce(Cols) /\ \A j \in Cols : p[j] \in 0 .. N /\ v[j] \in Int
  BY MatrixType
     DEF FullInv, IInv, HungarianTypeOK, RowInv, TightInv, RowTight
<1>2. \A r \in Rows : Assign[r] \in Cols /\ p[Assign[r]] = r
  <2> TAKE r \in Rows
  <2>1. \E j \in Cols : p[j] = r
    BY <1>1 DEF AllMatched, Rows
  <2> QED BY <2>1 DEF Assign
<1>3. \A r \in Rows : u[r] + v[Assign[r]] = a[r][Assign[r]]
  BY <1>1, <1>2 DEF MatchedTight, Tight, Rows
<1>4. \A j \in Cols : v[j] <= 0 /\ (v[j] < 0 => \E r \in Rows : Assign[r] = j)
  <2> TAKE j \in Cols
  <2>1. v[j] <= 0 /\ (v[j] # 0 => p[j] # 0)
    BY <1>1 DEF ColumnsLow
  <2>2. ASSUME v[j] < 0 PROVE p[j] \in Rows /\ Assign[p[j]] = j
    <3>1. p[j] \in Rows
      BY <1>1, <2>1, <2>2 DEF Rows
    <3>2. Assign[p[j]] \in Cols /\ p[Assign[p[j]]] = p[j] /\ p[j] # 0
      BY <1>2, <3>1 DEF Rows
    <3> QED BY <1>1, <3>1, <3>2 DEF MatchedOnce
  <2> QED BY <2>1, <2>2
<1> QED BY <1>2, <1>3, <1>4

-----------------------------------------------------------------------------
(* The indices that hungarian uses stay within its slices. *)
THEOREM HungarianTypeCorrect == HungarianSpec => []HungarianTypeOK
<1>1. FullInv => HungarianTypeOK
  BY DEF FullInv, IInv
<1> QED BY <1>1, Invariant, PTL

(* For every matrix, hungarian gives each row a column of its own, and its
   potentials, feasible in every pass of the search, prove that this is the
   cheapest way to do so (internal_handlers.go:84-156). *)
THEOREM ProvedCheapestCorrect == HungarianSpec => []ProvedCheapest
BY EndProves, Invariant, PTL

-----------------------------------------------------------------------------
(* Potentials that prove an assignment the cheapest do prove it: duality. *)

RowCost(g) == [r \in Rows |-> a[r][g[r]]]

LEMMA RowCostTyped ==
  ASSUME HungarianTypeOK, NEW g \in [Rows -> Cols]
  PROVE  /\ \A r \in Rows : RowCost(g)[r] \in Int
         /\ IsFiniteSet(Rows) /\ IsFiniteSet(Cols)
<1>1. /\ N \in Nat /\ M \in Nat
      /\ \A r \in Rows, j \in Cols : a[r][j] \in Int
  BY MatrixType
<1>2. IsFiniteSet(Rows) /\ IsFiniteSet(Cols)
  BY <1>1, FS_Interval DEF Rows, Cols
<1> QED
  BY <1>1, <1>2 DEF RowCost

LEMMA AssignInjective ==
  ASSUME ProvedCheapest, step = "done"
  PROVE  Assign \in Injection(Rows, Cols)
<1>1. \A r \in Rows : Assign[r] \in Cols /\ p[Assign[r]] = r
  BY DEF ProvedCheapest
<1>2. Assign \in [Rows -> Cols]
  BY <1>1 DEF Assign
<1> QED
  BY <1>1, <1>2 DEF Injection, IsInjective

(* The potentials of the end bound every assignment from below, and are met by one. *)
LEMMA CheapestByPotentials ==
  ASSUME FullInv, step = "done", NEW g \in Injection(Rows, Cols)
  PROVE  Sum(RowCost(Assign), Rows) <= Sum(RowCost(g), Rows)
<1> DEFINE U == [r \in Rows |-> u[r]]
           V(h) == [r \in Rows |-> v[h[r]]]
           Bound == [r \in Rows |-> u[r] + v[g[r]]]
           Taken(h) == {h[r] : r \in Rows}
<1>1. HungarianTypeOK /\ ProvedCheapest
  BY EndProves DEF FullInv, IInv
<1>2. Assign \in Injection(Rows, Cols)
  BY <1>1, AssignInjective
<1>3. Assign \in [Rows -> Cols] /\ g \in [Rows -> Cols]
  BY <1>2 DEF Injection
<1>4. /\ IsFiniteSet(Rows) /\ IsFiniteSet(Cols)
      /\ \A r \in Rows : RowCost(g)[r] \in Int /\ RowCost(Assign)[r] \in Int
  BY <1>1, <1>3, RowCostTyped
<1>5. /\ \A r \in Rows : u[r] \in Int
      /\ \A j \in Cols : v[j] \in Int
  BY <1>1, MatrixType DEF HungarianTypeOK
<1>6. /\ \A r \in Rows : u[r] + v[Assign[r]] = a[r][Assign[r]]
      /\ \A j \in Cols : v[j] <= 0 /\ (v[j] < 0 => \E r \in Rows : Assign[r] = j)
  BY <1>1 DEF ProvedCheapest
<1>7. \A r \in Rows : u[r] + v[g[r]] <= a[r][g[r]]
  <2>1. i = N + 1 /\ N \in Nat
    BY MatrixType DEF FullInv, IInv, TightInv, RowTight
  <2>2. Rows \subseteq Added
    BY <2>1 DEF Added, Rows
  <2> QED
    BY <1>1, <1>3, <2>2 DEF ProvedCheapest, DualFeasible
<1>8. Sum(RowCost(Assign), Rows) = Sum(U, Rows) + Sum(V(Assign), Rows)
  <2>1. \A r \in Rows : /\ U[r] \in Int /\ V(Assign)[r] \in Int
                        /\ RowCost(Assign)[r] = U[r] + V(Assign)[r]
    BY <1>3, <1>5, <1>6 DEF RowCost
  <2> HIDE DEF U, V
  <2> QED
    BY <1>4, <2>1, SumPlus
<1>9. Sum(Bound, Rows) = Sum(U, Rows) + Sum(V(g), Rows)
  <2>1. \A r \in Rows : /\ U[r] \in Int /\ V(g)[r] \in Int
                        /\ Bound[r] = U[r] + V(g)[r]
    BY <1>3, <1>5
  <2> HIDE DEF U, V, Bound
  <2> QED
    BY <1>4, <2>1, SumPlus
<1>10. Sum(Bound, Rows) <= Sum(RowCost(g), Rows)
  <2>1. \A r \in Rows : /\ Bound[r] \in Int /\ RowCost(g)[r] \in Int
                        /\ Bound[r] <= RowCost(g)[r]
    BY <1>3, <1>4, <1>5, <1>7 DEF RowCost
  <2> HIDE DEF Bound
  <2> QED
    BY <1>4, <2>1, SumMonotone
<1>11. ASSUME NEW h \in Injection(Rows, Cols)
       PROVE  Sum(V(h), Rows) = Sum(v, Taken(h)) /\ Taken(h) \in SUBSET Cols
  <2>1. h \in [Rows -> Cols]
    BY DEF Injection
  <2>2. \A r \in Rows : V(h)[r] \in Int /\ v[h[r]] = V(h)[r]
    BY <1>5, <2>1
  <2> HIDE DEF V
  <2>3. Sum(V(h), Rows) = Sum(v, {h[r] : r \in Rows})
    BY <1>4, <2>2, SumRenamed
  <2> QED
    BY <2>1, <2>3
<1>12. Sum(v, Cols) = Sum(v, Taken(Assign))
  <2>1. Taken(Assign) \in SUBSET Cols
    BY <1>2, <1>11
  <2>2. \A j \in Cols \ Taken(Assign) : v[j] = 0
    BY <1>5, <1>6
  <2> HIDE DEF Taken
  <2>3. \A j \in Cols \ Taken(Assign) : v[j] <= 0
    BY <2>2
  <2> QED
    BY <1>4, <1>5, <2>1, <2>2, <2>3, SumPart
<1>13. Sum(v, Cols) <= Sum(v, Taken(g))
  <2>1. Taken(g) \in SUBSET Cols
    BY <1>11
  <2>2. \A j \in Cols \ Taken(g) : v[j] <= 0
    BY <1>6
  <2> HIDE DEF Taken
  <2> QED
    BY <1>4, <1>5, <2>1, <2>2, SumPart
<1>14. Sum(V(Assign), Rows) <= Sum(V(g), Rows)
  BY <1>2, <1>11, <1>12, <1>13
<1>15. /\ Sum(U, Rows) \in Int /\ Sum(V(g), Rows) \in Int /\ Sum(V(Assign), Rows) \in Int
       /\ Sum(RowCost(g), Rows) \in Int
  <2>1. \A r \in Rows : U[r] \in Int /\ V(g)[r] \in Int /\ V(Assign)[r] \in Int
    BY <1>3, <1>5
  <2> HIDE DEF U, V
  <2> QED
    BY <1>4, <2>1, SumType
<1> HIDE DEF U, V, Bound
<1> QED
  BY <1>8, <1>9, <1>10, <1>14, <1>15

-----------------------------------------------------------------------------
(* The rides among the candidates, and the matrix. *)

RideOrder == {z \in CandRides \X CandRides : z[1] < z[2]}

(* candRides lists the rides among the candidates, each once. *)
LEMMA CandRidesSorted ==
  ASSUME CostTyped
  PROVE  LET n == Cardinality(CandRides) IN
         /\ n \in Nat \ {0} /\ IsFiniteSet(CandRides) /\ CandRides \in SUBSET (1 .. rides)
         /\ candRides \in Injection(1 .. n, 1 .. rides)
         /\ CandRides = {candRides[k] : k \in 1 .. n}
<1> DEFINE n == Cardinality(CandRides)
           Least(k, r) == Cardinality({q \in CandRides : q < r}) = k - 1
<1>1. CandRides \in SUBSET (1 .. rides)
  BY PairsAre DEF CandRides
<1>2. IsFiniteSet(CandRides)
  <2>1. IsFiniteSet(1 .. rides)
    BY SizesTyped, FS_Interval
  <2> QED
    BY <1>1, <2>1, FS_Subset
<1>3. CandRides # {}
  <2>1. chairs \in Nat \ {0} /\ rides \in Nat \ {0} /\ 1 \in 1 .. chairs
    BY SizesTyped
  <2>2. Candidates(1) # {}
    <3>1. CASE chairs <= rides
      <4>1. Cardinality(Candidates(1)) # 0 /\ IsFiniteSet(Candidates(1))
        BY <2>1, <3>1, CandidatesFirst
      <4> QED
        BY <4>1, FS_EmptySet
    <3>2. CASE chairs >= rides
      <4>1. Candidates(1) = PairsOf(1)
        BY <2>1, <3>2, CandidatesFirst
      <4>2. [ride |-> 1, chair |-> 1] \in PairsOf(1)
        BY <2>1 DEF PairsOf
      <4> QED
        BY <4>1, <4>2
    <3> QED
      BY <2>1, <3>1, <3>2
  <2> QED
    BY <2>1, <2>2 DEF CandRides, Pairs
<1>4. n \in Nat \ {0}
  BY <1>2, <1>3, FS_CardinalityType, FS_EmptySet
<1>5. /\ Orders(RideOrder, CandRides)
      /\ \A r \in CandRides : {q \in CandRides : <<q, r>> \in RideOrder}
                                = {q \in CandRides : q < r}
  <2>1. \A r \in CandRides : r \in Int
    BY <1>1
  <2>2. \A q, r \in CandRides : <<q, r>> \in RideOrder <=> q < r
    BY DEF RideOrder
  <2> QED
    BY <2>1, <2>2 DEF Orders
<1>6. \A r \in CandRides : Rank(r, CandRides, RideOrder) = Cardinality({q \in CandRides : q < r})
  BY <1>5 DEF Rank
<1>7. \A k \in 1 .. n : candRides[k] \in CandRides /\ Least(k, candRides[k])
  <2> TAKE k \in 1 .. n
  <2>1. k - 1 \in 0 .. n - 1
    BY <1>4
  <2>2. \E r \in CandRides : Rank(r, CandRides, RideOrder) = k - 1
    BY <1>2, <1>5, <2>1, RankTaken
  <2>3. \E r \in CandRides : Least(k, r)
    BY <1>6, <2>2
  <2>4. candRides[k] = CHOOSE r \in CandRides : Least(k, r)
    BY DEF candRides
  <2> HIDE DEF Least
  <2> QED
    BY <2>3, <2>4
<1>8. candRides \in [1 .. n -> CandRides]
  BY <1>7 DEF candRides
<1>9. ASSUME NEW k \in 1 .. n, NEW l \in 1 .. n, candRides[k] = candRides[l] PROVE k = l
  <2>1. k - 1 = l - 1
    BY <1>7, <1>9, Zenon
  <2> QED
    BY <2>1
<1>10. candRides \in Injection(1 .. n, CandRides)
  BY <1>8, <1>9 DEF Injection, IsInjective
<1>11. candRides \in Surjection(1 .. n, CandRides)
  <2>1. Cardinality(1 .. n) = Cardinality(CandRides)
    BY <1>4, FS_Interval
  <2> QED
    BY <1>2, <1>10, <2>1, FS_Injection
<1>12. CandRides = {candRides[k] : k \in 1 .. n}
  BY <1>11 DEF Surjection
<1>13. candRides \in Injection(1 .. n, 1 .. rides)
  BY <1>1, <1>10 DEF Injection, IsInjective
<1> QED
  BY <1>1, <1>2, <1>4, <1>12, <1>13

(* There are as many candidates as the smaller side needs. *)
LEMMA EnoughCandidates ==
  ASSUME CostTyped
  PROVE  /\ RowsAreChairs <=> chairs <= rides
         /\ chairs > rides => CandRides = 1 .. rides /\ Cardinality(CandRides) = rides
<1>1. chairs \in Nat \ {0} /\ rides \in Nat \ {0} /\ 1 \in 1 .. chairs
  BY SizesTyped
<1>2. Cardinality(CandRides) \in Nat /\ IsFiniteSet(CandRides)
  BY CandRidesSorted
<1>3. ASSUME chairs <= rides PROVE RowsAreChairs
  <2>1. /\ Cardinality(Candidates(1)) = chairs
        /\ Candidates(1) \in SUBSET PairsOf(1)
    BY <1>1, <1>3, CandidatesFirst
  <2>2. [x \in Candidates(1) |-> x.ride] \in Injection(Candidates(1), CandRides)
    <3>1. \A x \in Candidates(1) : x.ride \in CandRides
      BY <1>1 DEF CandRides, Pairs
    <3>2. \A x, y \in Candidates(1) : x.ride = y.ride => x = y
      BY <2>1 DEF PairsOf
    <3> QED
      BY <3>1, <3>2 DEF Injection, IsInjective
  <2>3. Cardinality(Candidates(1)) <= Cardinality(CandRides)
    BY <1>2, <2>2, FS_Injection
  <2> QED
    BY <2>1, <2>3 DEF RowsAreChairs
<1>4. ASSUME chairs > rides
      PROVE  CandRides = 1 .. rides /\ Cardinality(CandRides) = rides
  <2>1. Candidates(1) = PairsOf(1)
    BY <1>1, <1>4, CandidatesFirst
  <2>2. \A r \in 1 .. rides : [ride |-> r, chair |-> 1] \in Pairs
    BY <1>1, <2>1 DEF PairsOf, Pairs
  <2>3. \A r \in 1 .. rides : \E x \in Pairs : r = x.ride
    BY <2>2
  <2>4. CandRides \in SUBSET (1 .. rides)
    BY CandRidesSorted
  <2>5. CandRides = 1 .. rides
    BY <2>3, <2>4 DEF CandRides
  <2> QED
    BY <1>1, <2>5, FS_Interval
<1> QED
  BY <1>1, <1>2, <1>3, <1>4 DEF RowsAreChairs

(* The matrix is one that hungarian takes: it has no more rows than columns. *)
LEMMA MatrixIs ==
  ASSUME CostTyped
  PROVE  LET n == Cardinality(CandRides) IN
         /\ Matrix \in Matrices
         /\ RowsAreChairs =>
              /\ Len(Matrix) = chairs /\ Len(Matrix[1]) = n
              /\ \A c \in 1 .. chairs, k \in 1 .. n : Matrix[c][k] = cost[c][candRides[k]]
         /\ ~RowsAreChairs =>
              /\ Len(Matrix) = n /\ Len(Matrix[1]) = chairs
              /\ \A c \in 1 .. chairs, k \in 1 .. n : Matrix[k][c] = cost[c][candRides[k]]
<1> DEFINE n == Cardinality(CandRides)
<1>1. chairs \in Nat \ {0} /\ n \in Nat \ {0}
  BY SizesTyped, CandRidesSorted
<1>2. DOMAIN candRides = 1 .. n /\ \A k \in 1 .. n : candRides[k] \in 1 .. rides
  BY CandRidesSorted DEF Injection
<1>3. \A c \in 1 .. chairs, k \in 1 .. n : cost[c][candRides[k]] \in Int
  BY <1>2, SizesTyped
<1> HIDE DEF n
<1>4. CASE RowsAreChairs
  <2>1. Matrix = [c \in 1 .. chairs |-> [k \in 1 .. n |-> cost[c][candRides[k]]]]
    BY <1>2, <1>4 DEF Matrix
  <2>2. \A c \in 1 .. chairs : Matrix[c] \in Seq(Int) /\ Len(Matrix[c]) = n
    BY <1>1, <1>3, <2>1
  <2>3. Matrix \in Seq(Seq(Int)) /\ Len(Matrix) = chairs
    BY <1>1, <2>1, <2>2
  <2>4. Matrix # <<>> /\ Len(Matrix[1]) = n
    BY <1>1, <2>2, <2>3
  <2>5. chairs <= n
    BY <1>4 DEF RowsAreChairs, n
  <2>6. Matrix \in Matrices
    BY <2>2, <2>3, <2>4, <2>5 DEF Matrices
  <2> QED
    BY <1>4, <2>1, <2>3, <2>4, <2>6 DEF n
<1>5. CASE ~RowsAreChairs
  <2>1. Matrix = [k \in 1 .. n |-> [c \in 1 .. chairs |-> cost[c][candRides[k]]]]
    BY <1>2, <1>5 DEF Matrix
  <2>2. \A k \in 1 .. n : Matrix[k] \in Seq(Int) /\ Len(Matrix[k]) = chairs
    BY <1>1, <1>3, <2>1
  <2>3. Matrix \in Seq(Seq(Int)) /\ Len(Matrix) = n
    BY <1>1, <2>1, <2>2
  <2>4. Matrix # <<>> /\ Len(Matrix[1]) = chairs
    BY <1>1, <2>2, <2>3
  <2>5. n <= chairs
    BY <1>1, <1>5 DEF RowsAreChairs, n
  <2>6. Matrix \in Matrices
    BY <2>2, <2>3, <2>4, <2>5 DEF Matrices
  <2> QED
    BY <1>5, <2>1, <2>3, <2>4, <2>6 DEF n
<1> QED
  BY <1>4, <1>5

-----------------------------------------------------------------------------
(* Assignments of columns to rows as sets of pairs. *)

PlanBy(g, row) ==
  IF RowsAreChairs THEN [ride |-> candRides[g[row]], chair |-> row]
                   ELSE [ride |-> candRides[row], chair |-> g[row]]

PlansBy(g) == {PlanBy(g, row) : row \in Rows}

LEMMA RowsAndColumns ==
  ASSUME CostTyped, a = Matrix
  PROVE  LET n == Cardinality(CandRides) IN
         /\ RowsAreChairs => /\ Rows = 1 .. chairs /\ Cols = 1 .. n
                             /\ \A c \in Rows, k \in Cols : a[c][k] = cost[c][candRides[k]]
         /\ ~RowsAreChairs => /\ Rows = 1 .. n /\ Cols = 1 .. chairs
                              /\ \A k \in Rows, c \in Cols : a[k][c] = cost[c][candRides[k]]
BY MatrixIs DEF Rows, Cols, N, M

(* The plans cost what the assignment costs in the matrix. *)
LEMMA PlansByCost ==
  ASSUME CostTyped, HungarianTypeOK, a = Matrix, NEW g \in Injection(Rows, Cols)
  PROVE  /\ PlansBy(g) \in SUBSET Pair
         /\ TotalCost(PlansBy(g)) = Sum(RowCost(g), Rows)
<1> DEFINE k == [row \in Rows |-> PlanBy(g, row)]
           f == [x \in PlansBy(g) |-> Cost(x)]
           n == Cardinality(CandRides)
<1>1. g \in [Rows -> Cols] /\ \A r, s \in Rows : g[r] = g[s] => r = s
  BY DEF Injection, IsInjective
<1>2. /\ \A l \in 1 .. n : candRides[l] \in 1 .. rides
      /\ \A l, m \in 1 .. n : candRides[l] = candRides[m] => l = m
  BY CandRidesSorted DEF Injection, IsInjective
<1> HIDE DEF n
<1>3. ASSUME NEW r \in Rows
      PROVE  PlanBy(g, r) \in Pair /\ Cost(PlanBy(g, r)) = a[r][g[r]]
  <2>1. CASE RowsAreChairs
    <3>1. Rows = 1 .. chairs /\ Cols = 1 .. n /\ a[r][g[r]] = cost[r][candRides[g[r]]]
      BY <1>1, <2>1, RowsAndColumns DEF n
    <3> QED
      BY <1>1, <1>2, <2>1, <3>1 DEF PlanBy, Pair, Cost
  <2>2. CASE ~RowsAreChairs
    <3>1. Rows = 1 .. n /\ Cols = 1 .. chairs /\ a[r][g[r]] = cost[g[r]][candRides[r]]
      BY <1>1, <2>2, RowsAndColumns DEF n
    <3> QED
      BY <1>1, <1>2, <2>2, <3>1 DEF PlanBy, Pair, Cost
  <2> QED
    BY <2>1, <2>2
<1>4. ASSUME NEW r \in Rows, NEW s \in Rows, PlanBy(g, r) = PlanBy(g, s) PROVE r = s
  <2>1. CASE RowsAreChairs
    BY <1>4, <2>1 DEF PlanBy
  <2>2. CASE ~RowsAreChairs
    <3>1. g[r] = g[s]
      BY <1>4, <2>2 DEF PlanBy
    <3> QED
      BY <1>1, <3>1
  <2> QED
    BY <2>1, <2>2
<1>5. k \in Injection(Rows, Pair)
  BY <1>3, <1>4 DEF Injection, IsInjective
<1>6. \A r \in Rows : RowCost(g)[r] \in Int /\ f[k[r]] = RowCost(g)[r]
  <2>1. \A r \in Rows : RowCost(g)[r] \in Int
    BY <1>1, RowCostTyped
  <2>2. \A r \in Rows : k[r] \in PlansBy(g)
    BY DEF PlansBy
  <2> QED
    BY <1>3, <2>1, <2>2 DEF RowCost
<1>7. PlansBy(g) = {k[r] : r \in Rows}
  BY DEF PlansBy
<1>8. TotalCost(PlansBy(g)) = Sum(f, PlansBy(g))
  BY DEF TotalCost, SumFunction, Sum
<1>9. IsFiniteSet(Rows)
  BY <1>1, RowCostTyped
<1>10. Sum(RowCost(g), Rows) = Sum(f, {k[r] : r \in Rows})
  <2> HIDE DEF k, f
  <2> QED
    BY <1>5, <1>6, <1>9, SumRenamed
<1>11. PlansBy(g) \in SUBSET Pair
  BY <1>3 DEF PlansBy
<1> HIDE DEF k, f
<1> QED
  BY <1>7, <1>8, <1>10, <1>11

(* They use the smaller side up. *)
LEMMA PlansByAssigns ==
  ASSUME CostTyped, a = Matrix, NEW g \in Injection(Rows, Cols)
  PROVE  PlansBy(g) \in Assignments
<1> DEFINE n == Cardinality(CandRides)
<1>1. g \in [Rows -> Cols] /\ \A r, s \in Rows : g[r] = g[s] => r = s
  BY DEF Injection, IsInjective
<1>2. /\ \A l \in 1 .. n : candRides[l] \in 1 .. rides
      /\ \A l, m \in 1 .. n : candRides[l] = candRides[m] => l = m
      /\ CandRides = {candRides[l] : l \in 1 .. n}
  BY CandRidesSorted DEF Injection, IsInjective
<1>3. chairs \in Nat /\ rides \in Nat
  BY SizesTyped
<1> HIDE DEF n
<1>4. CASE chairs <= rides
  <2>1. RowsAreChairs
    BY <1>4, EnoughCandidates
  <2>2. Rows = 1 .. chairs /\ Cols = 1 .. n
    BY <2>1, RowsAndColumns DEF n
  <2> DEFINE f == [c \in 1 .. chairs |-> candRides[g[c]]]
  <2>3. f \in Injection(1 .. chairs, 1 .. rides)
    BY <1>1, <1>2, <2>2 DEF Injection, IsInjective
  <2>4. PlansBy(g) = {[ride |-> f[c], chair |-> c] : c \in 1 .. chairs}
    BY <2>1, <2>2 DEF PlansBy, PlanBy
  <2> HIDE DEF f
  <2> QED
    BY <1>4, <2>3, <2>4 DEF Assignments
<1>5. CASE ~(chairs <= rides)
  <2>1. ~RowsAreChairs /\ CandRides = 1 .. rides
    BY <1>3, <1>5, EnoughCandidates
  <2>2. Rows = 1 .. n /\ Cols = 1 .. chairs
    BY <2>1, RowsAndColumns DEF n
  <2> DEFINE Place(r) == CHOOSE l \in 1 .. n : candRides[l] = r
             f == [r \in 1 .. rides |-> g[Place(r)]]
  <2>3. \A r \in 1 .. rides : Place(r) \in 1 .. n /\ candRides[Place(r)] = r
    BY <1>2, <2>1
  <2>4. \A l \in 1 .. n : Place(candRides[l]) = l
    BY <1>2, <2>3
  <2> HIDE DEF Place
  <2>5. f \in Injection(1 .. rides, 1 .. chairs)
    <3>1. f \in [1 .. rides -> 1 .. chairs]
      BY <1>1, <2>2, <2>3
    <3>2. \A r, s \in 1 .. rides : f[r] = f[s] => r = s
      BY <1>1, <2>2, <2>3
    <3> QED
      BY <3>1, <3>2 DEF Injection, IsInjective
  <2>6. PlansBy(g) = {[ride |-> r, chair |-> f[r]] : r \in 1 .. rides}
    <3>1. \A l \in 1 .. n : /\ PlanBy(g, l) = [ride |-> candRides[l], chair |-> g[l]]
                            /\ candRides[l] \in 1 .. rides /\ f[candRides[l]] = g[l]
      BY <1>2, <2>1, <2>4 DEF PlanBy
    <3>2. \A r \in 1 .. rides : [ride |-> r, chair |-> f[r]] = PlanBy(g, Place(r))
      BY <2>1, <2>3 DEF PlanBy
    <3> HIDE DEF f
    <3>3. \A x \in PlansBy(g) : \E r \in 1 .. rides : x = [ride |-> r, chair |-> f[r]]
      BY <2>2, <3>1 DEF PlansBy
    <3>4. \A r \in 1 .. rides : [ride |-> r, chair |-> f[r]] \in PlansBy(g)
      BY <2>2, <2>3, <3>2 DEF PlansBy
    <3> QED
      BY <3>3, <3>4
  <2> HIDE DEF f
  <2> QED
    BY <1>5, <2>5, <2>6 DEF Assignments
<1> QED
  BY <1>4, <1>5

(* One chair after the other gets a ride that it keeps, and that is not taken, at no
   higher cost. *)
LEMMA Exchange ==
  ASSUME CostTyped, chairs <= rides, NEW f \in Injection(1 .. chairs, 1 .. rides)
  PROVE  \E h \in Injection(1 .. chairs, 1 .. rides) :
           \A c \in 1 .. chairs : /\ [ride |-> h[c], chair |-> c] \in Candidates(c)
                                  /\ cost[c][h[c]] <= cost[c][f[c]]
<1> DEFINE I == Injection(1 .. chairs, 1 .. rides)
           Improves(h, T) ==
             /\ \A c \in T : [ride |-> h[c], chair |-> c] \in Candidates(c)
             /\ \A c \in 1 .. chairs : cost[c][h[c]] <= cost[c][f[c]]
           Good == {T \in SUBSET (1 .. chairs) : \E h \in I : Improves(h, T)}
<1>1. /\ chairs \in Nat /\ rides \in Nat
      /\ \A c \in 1 .. chairs, r \in 1 .. rides : cost[c][r] \in Int
  BY SizesTyped
<1>2. IsFiniteSet(1 .. chairs)
  BY <1>1, FS_Interval
<1>3. \A h \in I : h \in [1 .. chairs -> 1 .. rides]
                   /\ \A c, d \in 1 .. chairs : h[c] = h[d] => c = d
  BY DEF Injection, IsInjective
<1>4. {} \in Good
  <2>1. Improves(f, {})
    BY <1>1, <1>3
  <2> QED
    BY <2>1
<1>5. ASSUME NEW T \in SUBSET (1 .. chairs), NEW c \in 1 .. chairs, T \in Good, c \notin T
      PROVE  T \cup {c} \in Good
  <2>1. PICK h \in I : Improves(h, T)
    BY <1>5
  <2>2. h \in [1 .. chairs -> 1 .. rides] /\ \A d, e \in 1 .. chairs : h[d] = h[e] => d = e
    BY <1>3
  <2>3. CASE [ride |-> h[c], chair |-> c] \in Candidates(c)
    <3>1. Improves(h, T \cup {c})
      BY <2>1, <2>3
    <3> QED
      BY <3>1
  <2>4. CASE [ride |-> h[c], chair |-> c] \notin Candidates(c)
    <3> DEFINE Others == (1 .. chairs) \ {c}
    <3>1. /\ Candidates(c) \in SUBSET PairsOf(c) /\ IsFiniteSet(Candidates(c))
          /\ Cardinality(Candidates(c)) = chairs
          /\ \A x \in Candidates(c), y \in PairsOf(c) \ Candidates(c) : Before(x, y)
      BY <1>1, CandidatesFirst
    <3>2. IsFiniteSet(Others) /\ Cardinality(Others) = chairs - 1
      BY <1>1, WithoutOne
    <3>3. \E x \in Candidates(c) : \A d \in Others : h[d] # x.ride
      <4>1. SUFFICES ASSUME \A x \in Candidates(c) : \E d \in Others : h[d] = x.ride
                     PROVE  FALSE
        OBVIOUS
      <4> DEFINE By(x) == CHOOSE d \in Others : h[d] = x.ride
                 b == [x \in Candidates(c) |-> By(x)]
      <4>2. \A x \in Candidates(c) : By(x) \in Others /\ h[By(x)] = x.ride
        BY <4>1
      <4> HIDE DEF By, Others
      <4>3. b \in [Candidates(c) -> Others]
        BY <4>2
      <4>4. Cardinality(Others) < Cardinality(Candidates(c))
        BY <1>1, <3>1, <3>2
      <4>5. PICK x, y \in Candidates(c) : x # y /\ b[x] = b[y]
        <5> HIDE DEF b
        <5> QED
          BY <3>1, <3>2, <4>3, <4>4, FS_PigeonHole
      <4>6. x.ride = y.ride
        BY <4>2, <4>5
      <4> QED
        BY <3>1, <4>5, <4>6 DEF PairsOf
    <3>4. PICK x \in Candidates(c) : \A d \in Others : h[d] # x.ride
      BY <3>3
    <3>5. x \in PairsOf(c) /\ x.ride \in 1 .. rides /\ x = [ride |-> x.ride, chair |-> c]
      BY <3>1 DEF PairsOf
    <3>6. cost[c][x.ride] <= cost[c][h[c]]
      <4>1. [ride |-> h[c], chair |-> c] \in PairsOf(c)
        BY <2>2 DEF PairsOf
      <4>2. Before(x, [ride |-> h[c], chair |-> c])
        BY <2>4, <3>1, <4>1
      <4>3. Cost(x) = cost[c][x.ride] /\ Cost([ride |-> h[c], chair |-> c]) = cost[c][h[c]]
        BY <3>5 DEF Cost
      <4>4. Cost(x) \in Int /\ cost[c][h[c]] \in Int
        BY <1>1, <2>2, <3>5, <4>3
      <4> QED
        BY <4>2, <4>3, <4>4 DEF Before
    <3> DEFINE k == [h EXCEPT ![c] = x.ride]
    <3>7. k \in I
      <4>1. k \in [1 .. chairs -> 1 .. rides]
        BY <2>2, <3>5
      <4>2. \A d, e \in 1 .. chairs : k[d] = k[e] => d = e
        BY <2>2, <3>4
      <4> HIDE DEF k
      <4> QED
        BY <4>1, <4>2 DEF Injection, IsInjective
    <3>8. Improves(k, T \cup {c})
      <4>1. \A d \in T : k[d] = h[d]
        BY <1>5, <2>2
      <4>2. k[c] = x.ride
        BY <2>2
      <4>3. \A d \in T \cup {c} : [ride |-> k[d], chair |-> d] \in Candidates(d)
        BY <2>1, <3>5, <4>1, <4>2
      <4>4. ASSUME NEW d \in 1 .. chairs PROVE cost[d][k[d]] <= cost[d][f[d]]
        <5>1. CASE d = c
          <6>1. cost[c][h[c]] <= cost[c][f[c]]
            BY <2>1
          <6>2. /\ cost[c][h[c]] \in Int /\ cost[c][f[c]] \in Int
                /\ cost[c][x.ride] \in Int
            BY <1>1, <1>3, <2>2, <3>5
          <6> QED
            BY <3>6, <4>2, <5>1, <6>1, <6>2
        <5>2. CASE d # c
          <6>1. k[d] = h[d]
            BY <2>2, <5>2
          <6> QED
            BY <2>1, <6>1
        <5> QED
          BY <5>1, <5>2
      <4> QED
        BY <4>3, <4>4
    <3> HIDE DEF k, Improves
    <3>9. \E e \in I : Improves(e, T \cup {c})
      BY <3>7, <3>8
    <3> QED
      BY <3>9
  <2> QED
    BY <2>3, <2>4
<1> HIDE DEF Good
<1>6. 1 .. chairs \in Good
  BY <1>2, <1>4, <1>5, SetInduction
<1> QED
  BY <1>6 DEF Good

(* The matrix depends on costOf alone. *)
LEMMA SameMatrix == cost' = cost => /\ Matrix' = Matrix /\ Pairs' = Pairs
                                    /\ chairs' = chairs /\ rides' = rides
                                    /\ candRides' = candRides /\ CandRides' = CandRides
                                    /\ RowsAreChairs' = RowsAreChairs
<1> SUFFICES ASSUME cost' = cost PROVE /\ Matrix' = Matrix /\ Pairs' = Pairs
                                    /\ chairs' = chairs /\ rides' = rides
                                    /\ candRides' = candRides /\ CandRides' = CandRides
                                    /\ RowsAreChairs' = RowsAreChairs
  OBVIOUS
<1>1. chairs' = chairs /\ rides' = rides
  BY DEF chairs, rides
<1>2. Pairs' = Pairs
  BY <1>1 DEF Pairs, Candidates, Kept, Before, Cost
<1>3. CandRides' = CandRides
  BY <1>2 DEF CandRides
<1>4. candRides' = candRides
  BY <1>3 DEF candRides
<1>5. RowsAreChairs' = RowsAreChairs
  BY <1>1, <1>3 DEF RowsAreChairs
<1>6. Matrix' = Matrix
  BY <1>1, <1>4, <1>5 DEF Matrix
<1> QED
  BY <1>1, <1>2, <1>3, <1>4, <1>5, <1>6

(* No assignment, of candidates or not, costs less than what hungarian found. *)
LEMMA NoneCheaper ==
  ASSUME CostTyped, FullInv, step = "done", a = Matrix, NEW P \in Assignments
  PROVE  TotalCost(PlansBy(Assign)) <= TotalCost(P)
<1> DEFINE n == Cardinality(CandRides)
<1>1. HungarianTypeOK /\ ProvedCheapest
  BY EndProves DEF FullInv, IInv
<1>2. Assign \in Injection(Rows, Cols)
  BY <1>1, AssignInjective
<1>3. TotalCost(PlansBy(Assign)) = Sum(RowCost(Assign), Rows)
  BY <1>1, <1>2, PlansByCost
<1>4. /\ chairs \in Nat /\ rides \in Nat
      /\ \A c \in 1 .. chairs, r \in 1 .. rides : cost[c][r] \in Int
  BY SizesTyped
<1>5. /\ \A l \in 1 .. n : candRides[l] \in 1 .. rides
      /\ \A l, m \in 1 .. n : candRides[l] = candRides[m] => l = m
      /\ CandRides = {candRides[l] : l \in 1 .. n}
  BY CandRidesSorted DEF Injection, IsInjective
<1> HIDE DEF n
<1>6. CASE chairs <= rides
  <2>1. RowsAreChairs
    BY <1>6, EnoughCandidates
  <2>2. /\ Rows = 1 .. chairs /\ Cols = 1 .. n
        /\ \A c \in Rows, k \in Cols : a[c][k] = cost[c][candRides[k]]
    BY <2>1, RowsAndColumns DEF n
  <2>3. PICK f \in Injection(1 .. chairs, 1 .. rides) :
          P = {[ride |-> f[c], chair |-> c] : c \in 1 .. chairs}
    BY <1>6 DEF Assignments
  <2>4. PICK h \in Injection(1 .. chairs, 1 .. rides) :
          \A c \in 1 .. chairs : /\ [ride |-> h[c], chair |-> c] \in Candidates(c)
                                 /\ cost[c][h[c]] <= cost[c][f[c]]
    BY <1>6, <2>3, Exchange
  <2>5. /\ f \in [1 .. chairs -> 1 .. rides] /\ h \in [1 .. chairs -> 1 .. rides]
        /\ \A c, d \in 1 .. chairs : h[c] = h[d] => c = d
    BY <2>3, <2>4 DEF Injection, IsInjective
  <2> DEFINE Place(r) == CHOOSE l \in 1 .. n : candRides[l] = r
             g == [c \in Rows |-> Place(h[c])]
             F == [c \in Rows |-> cost[c][f[c]]]
             k == [c \in Rows |-> [ride |-> f[c], chair |-> c]]
             C == [x \in P |-> Cost(x)]
  <2>6. \A c \in 1 .. chairs : h[c] \in CandRides
    <3> TAKE c \in 1 .. chairs
    <3>1. [ride |-> h[c], chair |-> c] \in Pairs
      BY <2>4 DEF Pairs
    <3> QED
      BY <3>1 DEF CandRides
  <2>7. \A c \in 1 .. chairs : Place(h[c]) \in 1 .. n /\ candRides[Place(h[c])] = h[c]
    BY <1>5, <2>6
  <2> HIDE DEF Place
  <2>8. g \in Injection(Rows, Cols)
    <3>1. g \in [Rows -> Cols]
      BY <2>2, <2>7
    <3>2. \A c, d \in Rows : g[c] = g[d] => c = d
      BY <2>2, <2>5, <2>7
    <3> QED
      BY <3>1, <3>2 DEF Injection, IsInjective
  <2>9. Sum(RowCost(Assign), Rows) <= Sum(RowCost(g), Rows)
    BY <2>8, CheapestByPotentials
  <2>10. IsFiniteSet(Rows) /\ \A c \in Rows : RowCost(g)[c] \in Int
    BY <1>1, <2>8, RowCostTyped DEF Injection
  <2>11. \A c \in Rows : F[c] \in Int /\ RowCost(g)[c] <= F[c]
    <3> TAKE c \in Rows
    <3>1. g[c] \in Cols /\ candRides[g[c]] = h[c]
      BY <2>2, <2>7
    <3>2. a[c][g[c]] = cost[c][h[c]]
      BY <2>2, <3>1
    <3> QED
      BY <1>4, <2>2, <2>4, <2>5, <3>2 DEF RowCost
  <2>12. Sum(RowCost(g), Rows) <= Sum(F, Rows)
    <3> HIDE DEF F, g
    <3> QED
      BY <2>10, <2>11, SumMonotone
  <2>13. k \in Injection(Rows, P)
    BY <2>2, <2>3 DEF Injection, IsInjective
  <2>14. \A c \in Rows : F[c] \in Int /\ C[k[c]] = F[c]
    BY <2>2, <2>3, <2>11 DEF Cost
  <2>15. P = {k[c] : c \in Rows}
    BY <2>2, <2>3
  <2>16. Sum(F, Rows) = Sum(C, {k[c] : c \in Rows})
    <3> HIDE DEF F, k, C
    <3> QED
      BY <2>10, <2>13, <2>14, SumRenamed
  <2>17. TotalCost(P) = Sum(C, P)
    BY DEF TotalCost, SumFunction, Sum
  <2>18. Sum(RowCost(g), Rows) \in Int /\ Sum(F, Rows) \in Int
         /\ Sum(RowCost(Assign), Rows) \in Int
    <3>1. \A c \in Rows : RowCost(Assign)[c] \in Int
      BY <1>1, <1>2, RowCostTyped DEF Injection
    <3> HIDE DEF F, g
    <3> QED
      BY <2>10, <2>11, <3>1, SumType
  <2> HIDE DEF F, g, k, C
  <2>19. TotalCost(P) = Sum(F, Rows)
    BY <2>15, <2>16, <2>17
  <2> QED
    BY <1>3, <2>9, <2>12, <2>18, <2>19
<1>7. CASE ~(chairs <= rides)
  <2>1. ~RowsAreChairs /\ CandRides = 1 .. rides
    BY <1>4, <1>7, EnoughCandidates
  <2>2. Rows = 1 .. n /\ Cols = 1 .. chairs
    BY <2>1, RowsAndColumns DEF n
  <2>3. PICK f \in Injection(1 .. rides, 1 .. chairs) :
          P = {[ride |-> r, chair |-> f[r]] : r \in 1 .. rides}
    BY <1>7 DEF Assignments
  <2> DEFINE g == [l \in Rows |-> f[candRides[l]]]
  <2>4. g \in Injection(Rows, Cols)
    BY <1>5, <2>2, <2>3 DEF Injection, IsInjective
  <2>5. PlansBy(g) = P
    <3>1. \A l \in 1 .. n : PlanBy(g, l) = [ride |-> candRides[l], chair |-> f[candRides[l]]]
      BY <2>1, <2>2 DEF PlanBy
    <3>2. \A l \in 1 .. n : PlanBy(g, l) \in P
      BY <1>5, <2>3, <3>1
    <3>3. ASSUME NEW x \in P PROVE \E l \in 1 .. n : x = PlanBy(g, l)
      <4>1. PICK r \in 1 .. rides : x = [ride |-> r, chair |-> f[r]]
        BY <2>3
      <4>2. PICK l \in 1 .. n : candRides[l] = r
        BY <1>5, <2>1
      <4> QED
        BY <3>1, <4>1, <4>2
    <3> HIDE DEF g
    <3> QED
      BY <2>2, <3>2, <3>3 DEF PlansBy
  <2> HIDE DEF g
  <2>6. Sum(RowCost(Assign), Rows) <= Sum(RowCost(g), Rows)
    BY <2>4, CheapestByPotentials
  <2>7. TotalCost(PlansBy(g)) = Sum(RowCost(g), Rows)
    BY <1>1, <2>4, PlansByCost
  <2> QED
    BY <1>3, <2>5, <2>6, <2>7
<1> QED
  BY <1>6, <1>7

-----------------------------------------------------------------------------
(* The inductive invariant of the matching. *)

(* No plans before the end, and then those of hungarian or a greedy assignment. *)
PlanInv ==
  /\ pc = "snapshot" => step # "done" /\ plans = {}
  /\ pc = "minimise" => plans = {}
  /\ pc = "done" => IF step = "done" THEN plans = PlansBy(Assign)
                                     ELSE IsGreedy(plans, Pairs)

MatchingInv ==
  /\ cost \in Inputs /\ hungarianBudget \in Budgets
  /\ pc \in {"snapshot", "minimise", "done"}
  /\ FullInv /\ a = Matrix /\ PlanInv

LEMMA CostIsTyped == cost \in Inputs => CostTyped
  BY MatchingAssumption DEF CostTyped

LEMMA MatchingInit == Init => MatchingInv
<1> SUFFICES ASSUME Init PROVE MatchingInv
  OBVIOUS
<1>1. CostTyped /\ Start(Matrix) /\ cost \in Inputs /\ hungarianBudget \in Budgets
  BY CostIsTyped DEF Init
<1>2. Matrix \in Matrices
  BY <1>1, MatrixIs
<1>3. FullInv
  BY <1>1, <1>2, Initially DEF HungarianInit
<1>4. a = Matrix /\ step = "row"
  BY <1>1 DEF Start
<1> QED
  BY <1>1, <1>3, <1>4 DEF Init, MatchingInv, PlanInv

LEMMA MatchingStep == MatchingInv /\ [Next]_vars => MatchingInv'
<1> SUFFICES ASSUME MatchingInv, [Next]_vars PROVE MatchingInv'
  OBVIOUS
<1>1. /\ cost \in Inputs /\ hungarianBudget \in Budgets /\ a = Matrix
      /\ FullInv /\ PlanInv /\ CostTyped
  BY CostIsTyped DEF MatchingInv
<1>2. /\ UNCHANGED <<cost, hungarianBudget>>
      /\ [HungarianNext]_hungarianVars
  BY DEF Next, vars, ChooseHungarian, Minimise, PlanCheapest, PlanGreedy
<1>3. FullInv'
  BY <1>1, <1>2, Inductive
<1>4. a' = a
  BY <1>2 DEF HungarianNext, hungarianVars, StartRow, Search, Augment, Finish
<1>5. Matrix' = Matrix /\ Pairs' = Pairs /\ RowsAreChairs' = RowsAreChairs
      /\ candRides' = candRides
  BY <1>2, SameMatrix
<1>6. pc' \in {"snapshot", "minimise", "done"}
  BY DEF MatchingInv, Next, vars, ChooseHungarian, Minimise, PlanCheapest, PlanGreedy
<1>7. PlanInv'
  <2>1. CASE ChooseHungarian
    BY <1>1, <2>1 DEF ChooseHungarian, PlanInv
  <2>2. CASE Minimise
    BY <1>1, <2>2 DEF Minimise, PlanInv
  <2>3. CASE PlanCheapest
    <3>1. plans' = {PlanOf(row) : row \in Rows} /\ step' = "done" /\ pc' = "done"
          /\ UNCHANGED hungarianVars
      BY <2>3 DEF PlanCheapest, hungarianVars
    <3>2. {PlanOf(row) : row \in Rows} = PlansBy(Assign)
      BY DEF PlansBy, PlanBy, PlanOf
    <3>3. PlansBy(Assign)' = PlansBy(Assign)
      BY <1>5, <3>1 DEF PlansBy, PlanBy, Assign, Rows, Cols, N, M, hungarianVars
    <3> QED
      BY <3>1, <3>2, <3>3 DEF PlanInv
  <2>4. CASE PlanGreedy
    <3>1. /\ plans' = Greedy(Pairs) /\ pc' = "done" /\ step' = step /\ step # "done"
      BY <1>1, <2>4 DEF PlanGreedy, PlanInv, hungarianVars
    <3>2. IsGreedy(plans', Pairs)
      BY <1>1, <3>1, PairsAre, GreedyIs
    <3>3. IsGreedy(plans, Pairs)'
      BY <1>2, <1>5, <3>2 DEF IsGreedy, Before, Cost, Conflict
    <3> QED
      BY <3>1, <3>3 DEF PlanInv
  <2>5. CASE UNCHANGED vars
    <3>1. UNCHANGED <<plans, pc, step, hungarianVars>>
      BY <2>5 DEF vars, hungarianVars
    <3>2. PlansBy(Assign)' = PlansBy(Assign)
      BY <1>5, <3>1 DEF PlansBy, PlanBy, Assign, Rows, Cols, N, M, hungarianVars
    <3>3. IsGreedy(plans, Pairs)' = IsGreedy(plans, Pairs)
      BY <1>2, <1>5, <3>1 DEF IsGreedy, Before, Cost, Conflict
    <3> QED
      BY <1>1, <3>1, <3>2, <3>3 DEF PlanInv
  <2> QED
    BY <2>1, <2>2, <2>3, <2>4, <2>5 DEF Next
<1> QED
  BY <1>1, <1>2, <1>3, <1>4, <1>5, <1>6, <1>7 DEF MatchingInv

LEMMA MatchingAlways == Spec => []MatchingInv
  BY MatchingInit, MatchingStep, PTL DEF Spec

(* The variables keep their types; in particular plans are pairs of a waiting ride and a
   free chair, and the indices of hungarian stay within its slices. *)
THEOREM TypeCorrect == Spec => []TypeOK
<1>1. MatchingInv => TypeOK
  <2> SUFFICES ASSUME MatchingInv PROVE TypeOK
    OBVIOUS
  <2>1. HungarianTypeOK /\ CostTyped /\ a = Matrix
    BY CostIsTyped DEF MatchingInv, FullInv, IInv
  <2>2. plans \in SUBSET Pair
    <3>1. CASE pc = "done" /\ step = "done"
      <4>1. Assign \in Injection(Rows, Cols)
        BY <3>1, AssignInjective, EndProves DEF MatchingInv
      <4> QED
        BY <2>1, <3>1, <4>1, PlansByCost DEF MatchingInv, PlanInv
    <3>2. CASE pc = "done" /\ step # "done"
      BY <2>1, <3>2, PairsAre DEF MatchingInv, PlanInv, IsGreedy
    <3>3. CASE pc # "done"
      BY <3>3 DEF MatchingInv, PlanInv
    <3> QED
      BY <3>1, <3>2, <3>3
  <2> QED
    BY <2>1, <2>2 DEF MatchingInv, TypeOK
<1> QED
  BY <1>1, MatchingAlways, PTL

(* On the matrix of the candidates hungarian gives each row a column of its own, with
   potentials that prove the assignment the cheapest one (internal_handlers.go:83-156). *)
THEOREM CheapestProvedCorrect == Spec => []ProvedCheapest
<1>1. MatchingInv => ProvedCheapest
  BY EndProves DEF MatchingInv
<1> QED
  BY <1>1, MatchingAlways, PTL

(* Keeping only len(chairs) rides of each chair changes nothing about the greedy assignment,
   which uses the smaller side up (internal_handlers.go:219-222). *)
THEOREM GreedyNeedsNoMoreCorrect == Spec => []GreedyNeedsNoMore
<1>1. MatchingInv => GreedyNeedsNoMore
  <2> SUFFICES ASSUME MatchingInv, pc = "done", step # "done"
               PROVE  plans = Greedy(Pair) /\ plans \in Assignments
    BY DEF GreedyNeedsNoMore
  <2>1. CostTyped /\ IsGreedy(plans, Pairs)
    BY CostIsTyped DEF MatchingInv, PlanInv
  <2>2. IsGreedy(plans, Pair)
    BY <2>1, PrunedAlike
  <2>3. IsGreedy(Greedy(Pair), Pair)
    BY <2>1, GreedyIs
  <2>4. plans = Greedy(Pair)
    BY <2>1, <2>2, <2>3, GreedyUnique
  <2> QED
    BY <2>1, <2>2, <2>4, GreedyCovers
<1> QED
  BY <1>1, MatchingAlways, PTL

(* What hungarian finds among the candidates uses the smaller side up and costs no more
   than any assignment of all the rides (internal_handlers.go:270-272). *)
THEOREM CheapestOfAllCorrect == Spec => []CheapestOfAll
<1>1. MatchingInv => CheapestOfAll
  <2> SUFFICES ASSUME MatchingInv, pc = "done", step = "done"
               PROVE  /\ plans \in Assignments
                      /\ \A P \in Assignments : TotalCost(plans) <= TotalCost(P)
    BY DEF CheapestOfAll
  <2>1. CostTyped /\ FullInv /\ a = Matrix /\ plans = PlansBy(Assign)
    BY CostIsTyped DEF MatchingInv, PlanInv
  <2>2. Assign \in Injection(Rows, Cols)
    BY <2>1, AssignInjective, EndProves
  <2>3. PlansBy(Assign) \in Assignments
    BY <2>1, <2>2, PlansByAssigns
  <2>4. \A P \in Assignments : TotalCost(PlansBy(Assign)) <= TotalCost(P)
    BY <2>1, NoneCheaper
  <2> QED
    BY <2>1, <2>3, <2>4, Zenon
<1> QED
  BY <1>1, MatchingAlways, PTL
=============================================================================
