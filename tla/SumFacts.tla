------------------------------ MODULE SumFacts ------------------------------
(***************************************************************************)
(* The sums that stock, receipts and tills are kept with: what adding a     *)
(* term, changing one or taking more of them makes of the sum of a function  *)
(* over a finite set, for any function and any set.                         *)
(***************************************************************************)
EXTENDS Integers, FiniteSets, Functions, FiniteSetTheorems, TLAPS

-----------------------------------------------------------------------------
(* Least elements, and what holds of finite sets.                           *)

(* A set of numbers that is not empty has a first one.                      *)
LEMMA FirstExists ==
    ASSUME NEW T, T \subseteq Nat, T # {}
    PROVE  \E p \in T : \A q \in T : p <= q
<1>1. PICK p \in T : \A q \in T : ~(<<q, p>> \in OpToRel(<, Nat))
  BY WFMin, NatLessThanWellFounded, Zenon
<1>2. \A q \in T : ~(q < p)
  BY <1>1 DEF OpToRel
<1>3. QED
  BY <1>2

(* Of some finite sets one is smallest.                                     *)
LEMMA SmallestExists ==
    ASSUME NEW F, F # {}, \A s \in F : IsFiniteSet(s)
    PROVE  \E s \in F : \A t \in F : Cardinality(s) <= Cardinality(t)
<1> DEFINE Sizes == {Cardinality(s) : s \in F}
<1>1. Sizes \subseteq Nat /\ Sizes # {}
  BY FS_CardinalityType
<1>2. \E n \in Sizes : \A m \in Sizes : n <= m
  <2> HIDE DEF Sizes
  <2>1. QED
    BY <1>1, FirstExists
<1>3. QED
  BY <1>2

(* What holds of the empty set, and of a set with one more element if of    *)
(* the set, holds of every finite set.  P holds the sets it is true of.      *)
LEMMA SetByOne ==
    ASSUME NEW D, NEW P,
           {} \in P,
           \A s \in P : \A x \in D \ s : s \cup {x} \in P
    PROVE  \A s \in SUBSET D : IsFiniteSet(s) => s \in P
<1> DEFINE Bad == {s \in SUBSET D : IsFiniteSet(s) /\ s \notin P}
<1> SUFFICES ASSUME Bad # {} PROVE FALSE
  OBVIOUS
<1>1. PICK t \in Bad : \A u \in Bad : Cardinality(t) <= Cardinality(u)
  BY SmallestExists
<1>2. PICK x \in t : TRUE
  OBVIOUS
<1>3. t \ {x} \in P
  <2>1. /\ IsFiniteSet(t \ {x})
        /\ Cardinality(t \ {x}) = Cardinality(t) - 1
        /\ Cardinality(t) \in Nat
    BY FS_RemoveElement, FS_CardinalityType
  <2>2. QED
    BY <1>1, <2>1
<1>4. t = (t \ {x}) \cup {x} /\ x \in D \ (t \ {x})
  OBVIOUS
<1>5. QED
  BY <1>3, <1>4

-----------------------------------------------------------------------------
(* The sums of Functions.tla, which add the terms of a finite set one by one *)
(* in no order of theirs.                                                   *)

FirstOf(s) == CHOOSE x \in s : TRUE

\* g holds the sums of f over the subsets of S, adding the first of each last.
Sums(g, f, S) ==
    g = [s \in SUBSET S |-> IF s = {} THEN 0 ELSE f[FirstOf(s)] + g[s \ {FirstOf(s)}]]

LEMMA SumIsRecursive ==
    ASSUME NEW f, NEW S
    PROVE  SumFunctionOnSet(f, S) = (CHOOSE g : Sums(g, f, S))[S]
BY DEF SumFunctionOnSet, FoldFunctionOnSet, MapThenFoldSet, Sums, FirstOf

LEMMA FirstIn == ASSUME NEW s, s # {} PROVE FirstOf(s) \in s
BY DEF FirstOf

(* There is such a function, by the size of the sets it is defined on.      *)
LEMMA SumsExist ==
    ASSUME NEW f, NEW S, IsFiniteSet(S)
    PROVE  \E g : Sums(g, f, S)
<1> DEFINE Upto(n) == {s \in SUBSET S : Cardinality(s) <= n}
           Next(g, n) == [s \in Upto(n) |-> IF s = {} THEN 0 ELSE f[FirstOf(s)] + g[s \ {FirstOf(s)}]]
           Good == {n \in Nat : \E g : g = Next(g, n)}
<1>1. \A s \in SUBSET S : IsFiniteSet(s) /\ Cardinality(s) \in Nat
  BY FS_Subset, FS_CardinalityType
<1>2. \A s \in SUBSET S : s # {} =>
        /\ s \ {FirstOf(s)} \in SUBSET S
        /\ Cardinality(s \ {FirstOf(s)}) = Cardinality(s) - 1
  BY <1>1, FS_RemoveElement, FirstIn
<1>3. 0 \in Good
  <2> DEFINE g == [s \in Upto(0) |-> 0]
  <2>1. \A s \in Upto(0) : s = {}
    BY <1>1, FS_EmptySet
  <2>2. g = Next(g, 0)
    BY <2>1
  <2> HIDE DEF Next, g
  <2>3. QED
    BY <2>2
<1>4. ASSUME NEW n \in Good PROVE n + 1 \in Good
  <2>1. PICK g : g = Next(g, n)
    OBVIOUS
  <2> DEFINE h == Next(g, n + 1)
  <2>2. ASSUME NEW s \in Upto(n) PROVE h[s] = g[s]
    <3>1. s \in Upto(n + 1)
      BY <1>1
    <3>2. h[s] = IF s = {} THEN 0 ELSE f[FirstOf(s)] + g[s \ {FirstOf(s)}]
      BY <3>1
    <3>3. g[s] = IF s = {} THEN 0 ELSE f[FirstOf(s)] + g[s \ {FirstOf(s)}]
      BY <2>1
    <3>4. QED
      BY <3>2, <3>3
  <2>3. ASSUME NEW s \in Upto(n + 1), s # {}
        PROVE  s \ {FirstOf(s)} \in Upto(n)
    BY <1>1, <1>2, <2>3
  <2>4. h = Next(h, n + 1)
    <3>1. \A s \in Upto(n + 1) : h[s] = IF s = {} THEN 0 ELSE f[FirstOf(s)] + h[s \ {FirstOf(s)}]
      BY <2>2, <2>3
    <3>2. QED
      BY <3>1
  <2> HIDE DEF Next, h
  <2>5. QED
    BY <2>4
<1>5. \A n \in Nat : n \in Good
  <2> DEFINE Bad == {n \in Nat : n \notin Good}
  <2> HIDE DEF Good
  <2>1. SUFFICES ASSUME Bad # {} PROVE FALSE
    OBVIOUS
  <2>2. PICK n \in Bad : \A m \in Bad : n <= m
    BY <2>1, FirstExists
  <2>3. n # 0 /\ n - 1 \in Nat /\ n - 1 \notin Bad
    BY <1>3, <2>2
  <2>4. QED
    BY <1>4, <2>3
<1>6. PICK g : g = Next(g, Cardinality(S))
  BY <1>1, <1>5
<1>7. Upto(Cardinality(S)) = SUBSET S
  BY <1>1, FS_Subset
<1>8. QED
  BY <1>6, <1>7 DEF Sums

(* The sums of a set are those of its subsets.                              *)
LEMMA SumsAgree ==
    ASSUME NEW f, NEW S, IsFiniteSet(S), NEW T \in SUBSET S,
           NEW g, Sums(g, f, S), NEW h, Sums(h, f, T)
    PROVE  g[T] = h[T]
<1> DEFINE Bad == {t \in SUBSET T : g[t] # h[t]}
<1> SUFFICES ASSUME Bad # {} PROVE FALSE
  OBVIOUS
<1>1. \A t \in SUBSET T : IsFiniteSet(t)
  BY FS_Subset
<1>2. PICK t \in Bad : \A u \in Bad : Cardinality(t) <= Cardinality(u)
  BY <1>1, SmallestExists
<1>3. /\ g[t] = IF t = {} THEN 0 ELSE f[FirstOf(t)] + g[t \ {FirstOf(t)}]
      /\ h[t] = IF t = {} THEN 0 ELSE f[FirstOf(t)] + h[t \ {FirstOf(t)}]
  <2>1. t \in SUBSET S /\ t \in SUBSET T
    OBVIOUS
  <2>2. QED
    BY <2>1 DEF Sums
<1>4. t # {} /\ g[t \ {FirstOf(t)}] # h[t \ {FirstOf(t)}]
  BY <1>3
<1>5. t \ {FirstOf(t)} \in Bad
  BY <1>4
<1>6. Cardinality(t \ {FirstOf(t)}) = Cardinality(t) - 1 /\ Cardinality(t) \in Nat
  BY <1>1, <1>4, FirstIn, FS_RemoveElement, FS_CardinalityType
<1>7. QED
  BY <1>2, <1>5, <1>6

LEMMA SumUnfolds ==
    ASSUME NEW f, NEW S, IsFiniteSet(S)
    PROVE  SumFunctionOnSet(f, S) =
               IF S = {} THEN 0
               ELSE f[FirstOf(S)] + SumFunctionOnSet(f, S \ {FirstOf(S)})
<1>1. PICK g : Sums(g, f, S) /\ SumFunctionOnSet(f, S) = g[S]
  BY SumsExist, SumIsRecursive
<1>2. g[S] = IF S = {} THEN 0 ELSE f[FirstOf(S)] + g[S \ {FirstOf(S)}]
  BY <1>1 DEF Sums
<1>3. ASSUME S # {} PROVE g[S \ {FirstOf(S)}] = SumFunctionOnSet(f, S \ {FirstOf(S)})
  <2> DEFINE T == S \ {FirstOf(S)}
  <2>1. IsFiniteSet(T) /\ T \in SUBSET S
    BY FS_Subset
  <2> HIDE DEF T
  <2>2. PICK h : Sums(h, f, T) /\ SumFunctionOnSet(f, T) = h[T]
    BY <2>1, SumsExist, SumIsRecursive
  <2>3. g[T] = SumFunctionOnSet(f, T)
    BY <1>1, <2>1, <2>2, SumsAgree
  <2>4. QED
    BY <2>3 DEF T
<1>4. QED
  BY <1>1, <1>2, <1>3

(* Sums do not depend on the order of their terms.                          *)
LEMMA SumAdds ==
    ASSUME NEW D, NEW f \in [D -> Int], NEW S \in SUBSET D, IsFiniteSet(S)
    PROVE  /\ SumFunctionOnSet(f, {}) = 0
           /\ SumFunctionOnSet(f, S) \in Int
           /\ \A x \in D \ S : SumFunctionOnSet(f, S \cup {x}) = SumFunctionOnSet(f, S) + f[x]
<1> DEFINE Sum(s) == SumFunctionOnSet(f, s)
           Bad == {s \in SUBSET D : /\ IsFiniteSet(s)
                                    /\ ~(/\ Sum(s) \in Int
                                         /\ \A x \in s : Sum(s) = Sum(s \ {x}) + f[x])}
<1>1. Sum({}) = 0
  BY SumUnfolds, FS_EmptySet
<1>2. Bad = {}
  <2> SUFFICES ASSUME Bad # {} PROVE FALSE
    OBVIOUS
  <2>1. PICK s \in Bad : \A t \in Bad : Cardinality(s) <= Cardinality(t)
    BY SmallestExists
  <2>2. \A t \in SUBSET s : IsFiniteSet(t) /\ Cardinality(t) \in Nat
    BY FS_Subset, FS_CardinalityType
  <2>3. ASSUME NEW t \in SUBSET s, t # s
        PROVE  Sum(t) \in Int /\ \A x \in t : Sum(t) = Sum(t \ {x}) + f[x]
    <3>1. Cardinality(t) <= Cardinality(s) /\ Cardinality(t) # Cardinality(s)
      BY <2>3, FS_Subset
    <3>2. t \notin Bad
      BY <2>1, <2>2, <3>1
    <3>3. QED
      BY <2>2, <3>2
  <2> DEFINE c == FirstOf(s)
  <2>4. s # {}
    <3>1. s = {} => s \notin Bad
      BY <1>1
    <3>2. QED
      BY <3>1
  <2>5. c \in s /\ f[c] \in Int
    BY <2>4, FirstIn
  <2> HIDE DEF c
  <2>6. Sum(s) = f[c] + Sum(s \ {c})
    BY <2>4, SumUnfolds DEF c
  <2>7. Sum(s \ {c}) \in Int
    BY <2>3, <2>5
  <2>8. ASSUME NEW x \in s PROVE Sum(s) = Sum(s \ {x}) + f[x]
    <3>1. CASE x = c
      BY <2>5, <2>6, <2>7, <3>1
    <3>2. CASE x # c
      <4>1. Sum(s \ {c}) = Sum((s \ {c}) \ {x}) + f[x]
        BY <2>3, <2>5, <3>2
      <4>2. Sum(s \ {x}) = Sum((s \ {x}) \ {c}) + f[c]
        BY <2>3, <2>5, <3>2
      <4>3. (s \ {c}) \ {x} = (s \ {x}) \ {c}
        OBVIOUS
      <4>4. Sum((s \ {x}) \ {c}) \in Int
        BY <2>3, <2>5, <3>2
      <4>5. f[x] \in Int
        OBVIOUS
      <4> DEFINE u == Sum((s \ {x}) \ {c})
      <4>6. /\ Sum(s) = f[c] + (u + f[x])
            /\ Sum(s \ {x}) = u + f[c]
        BY <2>6, <4>1, <4>2, <4>3
      <4> HIDE DEF Sum, u
      <4>7. QED
        BY <2>5, <4>4, <4>5, <4>6 DEF u
    <3>3. QED
      BY <3>1, <3>2
  <2>9. Sum(s) \in Int
    BY <2>5, <2>6, <2>7
  <2>10. QED
    BY <2>8, <2>9
<1>3. \A s \in SUBSET D : IsFiniteSet(s) =>
         Sum(s) \in Int /\ \A x \in s : Sum(s) = Sum(s \ {x}) + f[x]
  BY <1>2
<1>4. ASSUME NEW x \in D \ S PROVE Sum(S \cup {x}) = Sum(S) + f[x]
  <2>1. IsFiniteSet(S \cup {x}) /\ S \cup {x} \in SUBSET D /\ (S \cup {x}) \ {x} = S
    BY FS_AddElement
  <2>2. QED
    BY <1>3, <2>1
<1>5. QED
  BY <1>1, <1>3, <1>4

(* Sums of the same terms are the same.                                     *)
LEMMA SumSame ==
    ASSUME NEW D, NEW f \in [D -> Int], NEW E, NEW g \in [E -> Int],
           NEW S \in SUBSET (D \cap E), IsFiniteSet(S),
           \A x \in S : f[x] = g[x]
    PROVE  SumFunctionOnSet(f, S) = SumFunctionOnSet(g, S)
<1> DEFINE P == {s \in SUBSET S : SumFunctionOnSet(f, s) = SumFunctionOnSet(g, s)}
<1>1. {} \in P
  BY SumUnfolds, FS_EmptySet
<1>2. ASSUME NEW s \in P, NEW x \in S \ s PROVE s \cup {x} \in P
  <2>1. IsFiniteSet(s) /\ s \in SUBSET D /\ s \in SUBSET E
    BY FS_Subset
  <2>2. SumFunctionOnSet(f, s \cup {x}) = SumFunctionOnSet(f, s) + f[x]
    BY <2>1, SumAdds
  <2>3. SumFunctionOnSet(g, s \cup {x}) = SumFunctionOnSet(g, s) + g[x]
    BY <2>1, SumAdds
  <2>4. QED
    BY <2>2, <2>3
<1>3. S \in P
  <2> HIDE DEF P
  <2>1. QED
    BY <1>1, <1>2, SetByOne
<1>4. QED
  BY <1>3

(* The sum of a function with one more term.                                *)
LEMMA SumOfMore ==
    ASSUME NEW R, IsFiniteSet(R), NEW f \in [R -> Int], NEW x, x \notin R,
           NEW g \in [R \cup {x} -> Int], \A y \in R : g[y] = f[y]
    PROVE  SumFunction(g) = SumFunction(f) + g[x]
<1>1. SumFunctionOnSet(g, R \cup {x}) = SumFunctionOnSet(g, R) + g[x]
  BY SumAdds
<1>2. SumFunctionOnSet(g, R) = SumFunctionOnSet(f, R)
  BY SumSame
<1>3. QED
  BY <1>1, <1>2 DEF SumFunction

(* The sum of a function of which one term changes.                         *)
LEMMA SumOfChanged ==
    ASSUME NEW R, IsFiniteSet(R), NEW f \in [R -> Int], NEW g \in [R -> Int], NEW x \in R,
           \A y \in R \ {x} : g[y] = f[y]
    PROVE  SumFunction(g) = SumFunction(f) - f[x] + g[x]
<1> DEFINE T == R \ {x}
<1>1. IsFiniteSet(T) /\ T \in SUBSET R /\ R = T \cup {x} /\ x \in R \ T
  BY FS_Subset
<1> HIDE DEF T
<1>2. /\ SumFunctionOnSet(f, R) = SumFunctionOnSet(f, T) + f[x]
      /\ SumFunctionOnSet(g, R) = SumFunctionOnSet(g, T) + g[x]
      /\ SumFunctionOnSet(f, T) \in Int
  BY <1>1, SumAdds
<1>3. SumFunctionOnSet(f, T) = SumFunctionOnSet(g, T)
  BY <1>1, SumSame DEF T
<1>4. f[x] \in Int /\ g[x] \in Int
  OBVIOUS
<1>5. QED
  BY <1>2, <1>3, <1>4 DEF SumFunction

LEMMA SumOfNone == ASSUME NEW f, DOMAIN f = {} PROVE SumFunction(f) = 0
BY SumUnfolds, FS_EmptySet DEF SumFunction

(* A set with more terms, none of them negative, has a sum that is larger   *)
(* by each of them at least.                                                *)
LEMMA SumGrows ==
    ASSUME NEW D, NEW f \in [D -> Nat], NEW T \in SUBSET D, IsFiniteSet(T), NEW S \in SUBSET T
    PROVE  /\ SumFunctionOnSet(f, S) \in Int
           /\ SumFunctionOnSet(f, T) \in Int
           /\ SumFunctionOnSet(f, S) <= SumFunctionOnSet(f, T)
           /\ \A x \in T \ S : SumFunctionOnSet(f, S) + f[x] <= SumFunctionOnSet(f, T)
<1> DEFINE Sum(s) == SumFunctionOnSet(f, s)
           Large(s) == Sum(S) <= Sum(S \cup s) /\ \A x \in s : Sum(S) + f[x] <= Sum(S \cup s)
           P == {s \in SUBSET (T \ S) : Large(s)}
<1>1. f \in [D -> Int]
  OBVIOUS
<1>2. \A s \in SUBSET T : IsFiniteSet(s) /\ s \in SUBSET D
  BY FS_Subset
<1>3. \A s \in SUBSET T : Sum(s) \in Int /\ \A x \in D \ s : Sum(s \cup {x}) = Sum(s) + f[x]
  BY <1>1, <1>2, SumAdds
<1> HIDE DEF Sum
<1>4. {} \in P
  <2>1. S \cup {} = S
    OBVIOUS
  <2>2. Sum(S) \in Int
    BY <1>3
  <2>3. QED
    BY <2>1, <2>2
<1>5. ASSUME NEW s \in P, NEW x \in (T \ S) \ s PROVE s \cup {x} \in P
  <2>1. /\ S \cup (s \cup {x}) = (S \cup s) \cup {x}
        /\ S \cup s \in SUBSET T /\ x \in D \ (S \cup s)
    OBVIOUS
  <2>2. /\ Sum(S \cup (s \cup {x})) = Sum(S \cup s) + f[x]
        /\ Sum(S) \in Int /\ Sum(S \cup s) \in Int /\ f[x] \in Nat
    BY <1>3, <2>1
  <2>3. \A y \in s : f[y] \in Nat
    OBVIOUS
  <2>4. Large(s)
    OBVIOUS
  <2>5. Large(s \cup {x})
    BY <2>2, <2>3, <2>4
  <2>6. QED
    BY <2>5
<1>6. T \ S \in P
  <2> HIDE DEF P
  <2>1. IsFiniteSet(T \ S)
    BY <1>2
  <2> DEFINE R == T \ S
  <2>2. \A s \in P : \A x \in R \ s : s \cup {x} \in P
    BY <1>5
  <2>3. IsFiniteSet(R)
    BY <2>1
  <2> HIDE DEF R
  <2>4. R \in P
    BY <1>4, <2>2, <2>3, SetByOne
  <2>5. QED
    BY <2>4 DEF R
<1>7. S \cup (T \ S) = T
  OBVIOUS
<1>8. QED
  BY <1>3, <1>6, <1>7 DEF Sum

LEMMA SumOfZeros ==
    ASSUME NEW R, IsFiniteSet(R), NEW f \in [R -> Int], \A x \in R : f[x] = 0
    PROVE  SumFunction(f) = 0
<1> DEFINE P == {s \in SUBSET R : SumFunctionOnSet(f, s) = 0}
<1>1. {} \in P
  BY SumAdds, FS_EmptySet
<1>2. ASSUME NEW s \in P, NEW x \in R \ s PROVE s \cup {x} \in P
  <2>1. IsFiniteSet(s) /\ s \in SUBSET R
    BY FS_Subset
  <2>2. SumFunctionOnSet(f, s \cup {x}) = SumFunctionOnSet(f, s) + f[x]
    BY <2>1, SumAdds
  <2>3. QED
    BY <2>2
<1>3. R \in P
  <2> HIDE DEF P
  <2>1. QED
    BY <1>1, <1>2, SetByOne
<1>4. QED
  BY <1>3 DEF SumFunction
=============================================================================
