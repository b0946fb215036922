---------------------------- MODULE SumTheorems ----------------------------
(***************************************************************************)
(* What the sums of the models compute: SumFunctionOnSet of the community  *)
(* module Functions, for every finite set.  The modules add up recalled    *)
(* lots (backtest/engine.py), open quantities (scripts/live_cycle.py) and  *)
(* recorded fills (live/reconcile.py).                                     *)
(*                                                                         *)
(* Induction is stated over a SET of naturals, or of sets, that is closed  *)
(* under the step; it rests on the well-foundedness of the naturals.       *)
(***************************************************************************)
EXTENDS Integers, FiniteSets, Functions, FiniteSetTheorems, WellFoundedInduction, TLAPS

-----------------------------------------------------------------------------
(* Induction.                                                              *)

\* A non-empty set of naturals has a least element.
LEMMA LeastNatural ==
    ASSUME NEW K \in SUBSET Nat, K # {}
    PROVE  \E b \in K : \A k \in K : b <= k
<1>1. PICK b \in K : \A k \in K : ~(<<k, b>> \in OpToRel(<, Nat))
  BY NatLessThanWellFounded, WFMin
<1>2. ASSUME NEW k \in K, k < b PROVE <<k, b>> \in OpToRel(<, Nat)
  <2>1. <<k, b>> \in Nat \X Nat  OBVIOUS
  <2>2. <<k, b>>[1] = k /\ <<k, b>>[2] = b  OBVIOUS
  <2> QED  BY <1>2, <2>1, <2>2, Zenon DEF OpToRel
<1>3. \A k \in K : ~(k < b)  BY <1>1, <1>2
<1>4. \A k \in K : b <= k  BY <1>3
<1> QED  BY <1>4

\* A set with 0 and the successor of each of its naturals has all of them.
LEMMA NaturalInduction ==
    ASSUME NEW A, 0 \in A, \A n \in Nat : n \in A => n + 1 \in A
    PROVE  \A n \in Nat : n \in A
<1> SUFFICES ASSUME NEW m \in Nat, m \notin A PROVE FALSE
  OBVIOUS
<1> DEFINE K == {n \in Nat : n \notin A}
<1>1. K \in SUBSET Nat /\ K # {}  OBVIOUS
<1>2. PICK b \in K : \A k \in K : b <= k
  <2> HIDE DEF K
  <2> QED  BY <1>1, LeastNatural
<1>3. b \in Nat /\ b # 0  OBVIOUS
<1>4. b - 1 \in Nat /\ (b - 1) + 1 = b  BY <1>3
<1>5. b - 1 \notin K  BY <1>2, <1>4
<1> QED  BY <1>4, <1>5

\* A set that has T as soon as it has T without any one of its elements has
\* every subset of a finite set.
LEMMA FiniteInduction ==
    ASSUME NEW S, IsFiniteSet(S), NEW G,
           \A T \in SUBSET S : (\A x \in T : T \ {x} \in G) => T \in G
    PROVE  \A T \in SUBSET S : T \in G
<1> DEFINE A == {n \in Nat : \A T \in SUBSET S : Cardinality(T) = n => T \in G}
<1>1. \A T \in SUBSET S : IsFiniteSet(T) /\ Cardinality(T) \in Nat
  BY FS_Subset, FS_CardinalityType
<1>2. 0 \in A
  <2> SUFFICES ASSUME NEW T \in SUBSET S, Cardinality(T) = 0 PROVE T \in G
    OBVIOUS
  <2>1. T = {}  BY <1>1, FS_EmptySet
  <2> QED  BY <2>1
<1>3. ASSUME NEW n \in Nat, n \in A PROVE n + 1 \in A
  <2> SUFFICES ASSUME NEW T \in SUBSET S, Cardinality(T) = n + 1, NEW x \in T
               PROVE  T \ {x} \in G
    OBVIOUS
  <2>1. Cardinality(T \ {x}) = (n + 1) - 1  BY <1>1, FS_RemoveElement
  <2>2. Cardinality(T \ {x}) = n  BY <2>1
  <2> QED  BY <1>3, <2>2
<1>4. \A n \in Nat : n \in A
  <2> HIDE DEF A
  <2> QED  BY <1>2, <1>3, NaturalInduction
<1> QED  BY <1>1, <1>4

-----------------------------------------------------------------------------
(* The recursion that defines a sum.                                       *)

Chosen(s) == CHOOSE x \in s : TRUE

\* One unfolding of the sum over s, the smaller sums being those of g.
Unfold(f, g, s) == IF s = {} THEN 0 ELSE f[Chosen(s)] + g[s \ {Chosen(s)}]

\* The function a sum over S evaluates on the subsets of S.
Partial(f, S) == CHOOSE g : g = [s \in SUBSET S |-> Unfold(f, g, s)]

LEMMA SumIsPartial ==
    ASSUME NEW f, NEW S
    PROVE  SumFunctionOnSet(f, S) = Partial(f, S)[S]
BY DEF SumFunctionOnSet, FoldFunctionOnSet, MapThenFoldSet, Partial, Unfold, Chosen

LEMMA ChosenElement ==
    ASSUME NEW s, s # {}
    PROVE  Chosen(s) \in s
BY DEF Chosen

\* The recursive equation has a solution: correct up to sets of n elements
\* for every n, and S has finitely many.
LEMMA PartialExists ==
    ASSUME NEW f, NEW S, IsFiniteSet(S)
    PROVE  \E g : g = [s \in SUBSET S |-> Unfold(f, g, s)]
<1> DEFINE Good(g, n) == /\ g = [s \in SUBSET S |-> g[s]]
                         /\ \A s \in SUBSET S : Cardinality(s) <= n => g[s] = Unfold(f, g, s)
           A == {n \in Nat : \E g : Good(g, n)}
<1>1. \A s \in SUBSET S : /\ IsFiniteSet(s) /\ Cardinality(s) \in Nat
                          /\ Cardinality(s) <= Cardinality(S)
                          /\ Cardinality(s) = 0 <=> s = {}
  BY FS_Subset, FS_CardinalityType, FS_EmptySet
<1>2. 0 \in A
  <2> DEFINE g == [s \in SUBSET S |-> 0]
  <2>1. \A s \in SUBSET S : Cardinality(s) <= 0 => s = {}  BY <1>1
  <2>2. Good(g, 0)  BY <2>1 DEF Unfold
  <2> QED  BY <2>2
<1>3. ASSUME NEW n \in Nat, n \in A PROVE n + 1 \in A
  <2>1. PICK g : Good(g, n)  BY <1>3
  <2> DEFINE h == [s \in SUBSET S |-> Unfold(f, g, s)]
  <2>2. ASSUME NEW s \in SUBSET S, Cardinality(s) <= n + 1
        PROVE  h[s] = Unfold(f, h, s)
    <3>1. CASE s = {}  BY <3>1 DEF Unfold
    <3>2. CASE s # {}
      <4> DEFINE t == s \ {Chosen(s)}
      <4>1. Chosen(s) \in s /\ t \in SUBSET S  BY <3>2, ChosenElement
      <4>2. Cardinality(t) = Cardinality(s) - 1  BY <1>1, <4>1, FS_RemoveElement
      <4>3. Cardinality(t) <= n  BY <1>1, <2>2, <4>2
      <4>4. h[t] = g[t]  BY <2>1, <4>1, <4>3
      <4>5. h[s] = f[Chosen(s)] + g[t]  BY <3>2 DEF Unfold
      <4> HIDE DEF h
      <4>6. Unfold(f, h, s) = f[Chosen(s)] + h[t]  BY <3>2 DEF Unfold
      <4> QED  BY <4>4, <4>5, <4>6
    <3> QED  BY <3>1, <3>2
  <2>3. h = [s \in SUBSET S |-> h[s]]  OBVIOUS
  <2> HIDE DEF h
  <2>4. Good(h, n + 1)  BY <2>2, <2>3
  <2> HIDE DEF Good
  <2>5. \E k : Good(k, n + 1)  BY <2>4
  <2>6. n + 1 \in Nat  OBVIOUS
  <2> QED  BY <2>5, <2>6, Zenon
<1>4. \A n \in Nat : n \in A
  <2> HIDE DEF A
  <2> QED  BY <1>2, <1>3, NaturalInduction
<1>5. Cardinality(S) \in Nat  BY <1>1
<1>6. PICK g : Good(g, Cardinality(S))  BY <1>4, <1>5
<1>7. \A s \in SUBSET S : g[s] = Unfold(f, g, s)  BY <1>1, <1>6
<1>8. g = [s \in SUBSET S |-> Unfold(f, g, s)]  BY <1>6, <1>7
<1> QED  BY <1>8

LEMMA PartialUnfolds ==
    ASSUME NEW f, NEW S, IsFiniteSet(S), NEW s \in SUBSET S
    PROVE  Partial(f, S)[s] = Unfold(f, Partial(f, S), s)
<1>1. Partial(f, S) = [t \in SUBSET S |-> Unfold(f, Partial(f, S), t)]
  BY PartialExists DEF Partial
<1> QED  BY <1>1

\* The recursion of a larger set computes the sum of each of its subsets.
LEMMA PartialIsSum ==
    ASSUME NEW f, NEW S, IsFiniteSet(S)
    PROVE  \A T \in SUBSET S : Partial(f, S)[T] = SumFunctionOnSet(f, T)
<1> DEFINE G == {T \in SUBSET S : \A R \in SUBSET S :
                   T \subseteq R => Partial(f, R)[T] = Partial(f, T)[T]}
<1>1. \A R \in SUBSET S : IsFiniteSet(R)  BY FS_Subset
<1>2. ASSUME NEW T \in SUBSET S, \A x \in T : T \ {x} \in G PROVE T \in G
  <2> SUFFICES ASSUME NEW R \in SUBSET S, T \subseteq R
               PROVE  Partial(f, R)[T] = Partial(f, T)[T]
    OBVIOUS
  <2>1. /\ Partial(f, R)[T] = Unfold(f, Partial(f, R), T)
        /\ Partial(f, T)[T] = Unfold(f, Partial(f, T), T)
    BY <1>1, PartialUnfolds
  <2>2. CASE T = {}  BY <2>1, <2>2 DEF Unfold
  <2>3. CASE T # {}
    <3> DEFINE t == T \ {Chosen(T)}
    <3>1. t \in G /\ t \subseteq R /\ t \subseteq T  BY <1>2, <2>3, ChosenElement
    <3>2. Partial(f, R)[t] = Partial(f, t)[t] /\ Partial(f, T)[t] = Partial(f, t)[t]
      BY <3>1
    <3> QED  BY <2>1, <2>3, <3>2 DEF Unfold
  <2> QED  BY <2>2, <2>3
<1>3. \A T \in SUBSET S : T \in G
  <2> HIDE DEF G
  <2> QED  BY <1>2, FiniteInduction
<1> QED  BY <1>3, SumIsPartial

-----------------------------------------------------------------------------
(* The sums themselves.                                                    *)

LEMMA SumEmpty ==
    ASSUME NEW f
    PROVE  SumFunctionOnSet(f, {}) = 0
<1>1. IsFiniteSet({})  BY FS_EmptySet
<1>2. Partial(f, {})[{}] = Unfold(f, Partial(f, {}), {})  BY <1>1, PartialUnfolds
<1> QED  BY <1>2, SumIsPartial DEF Unfold

\* The sum the definition takes apart: with the element it chooses.
LEMMA SumChosen ==
    ASSUME NEW f, NEW S, IsFiniteSet(S), S # {}
    PROVE  SumFunctionOnSet(f, S) = f[Chosen(S)] + SumFunctionOnSet(f, S \ {Chosen(S)})
<1>1. Partial(f, S)[S] = Unfold(f, Partial(f, S), S)  BY PartialUnfolds
<1>2. Partial(f, S)[S \ {Chosen(S)}] = SumFunctionOnSet(f, S \ {Chosen(S)})
  BY PartialIsSum
<1> QED  BY <1>1, <1>2, SumIsPartial DEF Unfold

LEMMA SumInt ==
    ASSUME NEW f, NEW S, IsFiniteSet(S), \A x \in S : f[x] \in Int
    PROVE  \A T \in SUBSET S : SumFunctionOnSet(f, T) \in Int
<1> DEFINE G == {T \in SUBSET S : SumFunctionOnSet(f, T) \in Int}
<1>1. ASSUME NEW T \in SUBSET S, \A x \in T : T \ {x} \in G PROVE T \in G
  <2>1. IsFiniteSet(T)  BY FS_Subset
  <2>2. CASE T = {}  BY <2>2, SumEmpty
  <2>3. CASE T # {}
    <3>1. Chosen(T) \in T /\ f[Chosen(T)] \in Int  BY <2>3, ChosenElement
    <3>2. SumFunctionOnSet(f, T \ {Chosen(T)}) \in Int  BY <1>1, <3>1
    <3>3. SumFunctionOnSet(f, T) = f[Chosen(T)] + SumFunctionOnSet(f, T \ {Chosen(T)})
      BY <2>1, <2>3, SumChosen
    <3> QED  BY <3>1, <3>2, <3>3
  <2> QED  BY <2>2, <2>3
<1>2. \A T \in SUBSET S : T \in G
  <2> HIDE DEF G
  <2> QED  BY <1>1, FiniteInduction
<1> QED  BY <1>2

\* Whatever element is taken out, the rest is summed the same way: the sum does
\* not depend on the order the community module chooses elements in, as the sums
\* of the code do not depend on the order of rows and orders.
LEMMA SumSplits ==
    ASSUME NEW f, NEW S, IsFiniteSet(S), \A x \in S : f[x] \in Int
    PROVE  \A T \in SUBSET S : \A x \in T :
             SumFunctionOnSet(f, T) = f[x] + SumFunctionOnSet(f, T \ {x})
<1> DEFINE sum(T) == SumFunctionOnSet(f, T)
           G == {T \in SUBSET S : \A x \in T : sum(T) = f[x] + sum(T \ {x})}
<1>1. \A T \in SUBSET S : IsFiniteSet(T) /\ sum(T) \in Int  BY FS_Subset, SumInt
<1>2. ASSUME NEW T \in SUBSET S, \A x \in T : T \ {x} \in G PROVE T \in G
  <2> SUFFICES ASSUME NEW x \in T PROVE sum(T) = f[x] + sum(T \ {x})
    OBVIOUS
  <2> DEFINE c == Chosen(T)
  <2>1. c \in T  BY ChosenElement
  <2>2. sum(T) = f[c] + sum(T \ {c})  BY <1>1, SumChosen
  <2>3. CASE x = c  BY <2>2, <2>3
  <2>4. CASE x # c
    <3>1. sum(T \ {c}) = f[x] + sum((T \ {c}) \ {x})  BY <1>2, <2>1, <2>4
    <3>2. sum(T \ {x}) = f[c] + sum((T \ {x}) \ {c})  BY <1>2, <2>1, <2>4
    <3>3. (T \ {c}) \ {x} = (T \ {x}) \ {c}  OBVIOUS
    <3> DEFINE both == sum((T \ {c}) \ {x})
    <3>4. f[x] \in Int /\ f[c] \in Int /\ both \in Int  BY <1>1, <2>1
    <3>5. sum(T \ {c}) = f[x] + both /\ sum(T \ {x}) = f[c] + both  BY <3>1, <3>2, <3>3
    <3> HIDE DEF both, sum
    <3>6. f[c] + (f[x] + both) = f[x] + (f[c] + both)  BY <3>4
    <3> QED  BY <2>2, <3>5, <3>6
  <2> QED  BY <2>3, <2>4
<1>3. \A T \in SUBSET S : T \in G
  <2> HIDE DEF G
  <2> QED  BY <1>2, FiniteInduction
<1> QED  BY <1>3

\* An element taken out of a sum takes its value with it.
LEMMA SumRemove ==
    ASSUME NEW f, NEW S, IsFiniteSet(S), \A x \in S : f[x] \in Int, NEW x \in S
    PROVE  /\ SumFunctionOnSet(f, S) \in Int
           /\ SumFunctionOnSet(f, S \ {x}) \in Int
           /\ SumFunctionOnSet(f, S) = f[x] + SumFunctionOnSet(f, S \ {x})
BY SumInt, SumSplits

\* The same, for a set that is known by its two parts.
LEMMA SumExtends ==
    ASSUME NEW f, NEW S, IsFiniteSet(S), \A x \in S : f[x] \in Int,
           NEW T, NEW x \in S, S \ {x} = T
    PROVE  SumFunctionOnSet(f, S) = f[x] + SumFunctionOnSet(f, T)
BY SumRemove

\* A sum depends on its summands only.
LEMMA SumEqual ==
    ASSUME NEW S, IsFiniteSet(S), NEW f, NEW g, \A x \in S : f[x] = g[x]
    PROVE  \A T \in SUBSET S : SumFunctionOnSet(f, T) = SumFunctionOnSet(g, T)
<1> DEFINE G == {T \in SUBSET S : SumFunctionOnSet(f, T) = SumFunctionOnSet(g, T)}
<1>1. ASSUME NEW T \in SUBSET S, \A x \in T : T \ {x} \in G PROVE T \in G
  <2>1. IsFiniteSet(T)  BY FS_Subset
  <2>2. CASE T = {}  BY <2>2, SumEmpty
  <2>3. CASE T # {}
    <3>1. Chosen(T) \in T  BY <2>3, ChosenElement
    <3>2. T \ {Chosen(T)} \in G  BY <1>1, <3>1
    <3> QED  BY <2>1, <2>3, <3>1, <3>2, SumChosen
  <2> QED  BY <2>2, <2>3
<1>2. \A T \in SUBSET S : T \in G
  <2> HIDE DEF G
  <2> QED  BY <1>1, FiniteInduction
<1> QED  BY <1>2

\* A sum of smaller summands is smaller.
LEMMA SumAtMost ==
    ASSUME NEW S, IsFiniteSet(S), NEW f, NEW g,
           \A x \in S : f[x] \in Int /\ g[x] \in Int /\ f[x] <= g[x]
    PROVE  \A T \in SUBSET S : SumFunctionOnSet(f, T) <= SumFunctionOnSet(g, T)
<1> DEFINE G == {T \in SUBSET S : SumFunctionOnSet(f, T) <= SumFunctionOnSet(g, T)}
<1>1. ASSUME NEW T \in SUBSET S, \A x \in T : T \ {x} \in G PROVE T \in G
  <2>1. IsFiniteSet(T)  BY FS_Subset
  <2>2. CASE T = {}  BY <2>2, SumEmpty
  <2>3. CASE T # {}
    <3> DEFINE c == Chosen(T)
               a == SumFunctionOnSet(f, T \ {c})
               b == SumFunctionOnSet(g, T \ {c})
    <3>1. c \in T  BY <2>3, ChosenElement
    <3>2. a \in Int /\ b \in Int /\ a <= b  BY <1>1, <3>1, SumInt
    <3>3. SumFunctionOnSet(f, T) = f[c] + a /\ SumFunctionOnSet(g, T) = g[c] + b
      BY <2>1, <2>3, SumChosen
    <3>4. f[c] \in Int /\ g[c] \in Int /\ f[c] <= g[c]  BY <3>1
    <3> HIDE DEF a, b, c
    <3>5. f[c] + a <= g[c] + b  BY <3>2, <3>4
    <3> QED  BY <3>3, <3>5
  <2> QED  BY <2>2, <2>3
<1>2. \A T \in SUBSET S : T \in G
  <2> HIDE DEF G
  <2> QED  BY <1>1, FiniteInduction
<1> QED  BY <1>2

\* A sum of zeros is zero, and a sum of naturals a natural.
LEMMA SumZero ==
    ASSUME NEW S, IsFiniteSet(S), NEW f, \A x \in S : f[x] = 0
    PROVE  SumFunctionOnSet(f, S) = 0
<1> DEFINE G == {T \in SUBSET S : SumFunctionOnSet(f, T) = 0}
<1>1. ASSUME NEW T \in SUBSET S, \A x \in T : T \ {x} \in G PROVE T \in G
  <2>1. IsFiniteSet(T)  BY FS_Subset
  <2>2. CASE T = {}  BY <2>2, SumEmpty
  <2>3. CASE T # {}
    <3>1. Chosen(T) \in T  BY <2>3, ChosenElement
    <3>2. T \ {Chosen(T)} \in G  BY <1>1, <3>1
    <3> QED  BY <2>1, <2>3, <3>1, <3>2, SumChosen
  <2> QED  BY <2>2, <2>3
<1>2. \A T \in SUBSET S : T \in G
  <2> HIDE DEF G
  <2> QED  BY <1>1, FiniteInduction
<1> QED  BY <1>2

\* What is zero outside of T is summed over T alone.
LEMMA SumSupport ==
    ASSUME NEW S, IsFiniteSet(S), NEW f, \A x \in S : f[x] \in Int,
           NEW T \in SUBSET S, \A x \in S \ T : f[x] = 0
    PROVE  SumFunctionOnSet(f, T) = SumFunctionOnSet(f, S)
<1> DEFINE G == {R \in SUBSET S : SumFunctionOnSet(f, R \cap T) = SumFunctionOnSet(f, R)}
<1>1. ASSUME NEW R \in SUBSET S, \A x \in R : R \ {x} \in G PROVE R \in G
  <2>1. IsFiniteSet(R) /\ IsFiniteSet(R \cap T)  BY FS_Subset
  <2>4. \A x \in R : f[x] \in Int  OBVIOUS
  <2>2. CASE R = {}  BY <2>2
  <2>3. CASE R # {}
    <3> DEFINE c == Chosen(R)
               rest == SumFunctionOnSet(f, R \ {c})
    <3>1. c \in R  BY <2>3, ChosenElement
    <3>2. rest = SumFunctionOnSet(f, (R \ {c}) \cap T)  BY <1>1, <3>1
    <3>3. SumFunctionOnSet(f, R) = f[c] + rest /\ rest \in Int
      BY ONLY <2>1, <2>4, <3>1, SumRemove
    <3> HIDE DEF c
    <3>4. CASE c \in T
      <4>1. (R \cap T) \ {c} = (R \ {c}) \cap T /\ c \in R \cap T  BY <3>1, <3>4
      <4>2. \A x \in R \cap T : f[x] \in Int  BY <2>4
      <4>3. SumFunctionOnSet(f, R \cap T) = f[c] + SumFunctionOnSet(f, (R \cap T) \ {c})
        BY ONLY <2>1, <4>1, <4>2, SumRemove
      <4> QED  BY <3>2, <3>3, <4>1, <4>3
    <3>5. CASE c \notin T
      <4>1. R \cap T = (R \ {c}) \cap T /\ f[c] = 0  BY <3>1, <3>5
      <4>2. 0 + rest = rest  BY <3>3
      <4> QED  BY <3>2, <3>3, <4>1, <4>2
    <3> QED  BY <3>4, <3>5
  <2> QED  BY <2>2, <2>3
<1>2. \A R \in SUBSET S : R \in G
  <2> HIDE DEF G
  <2> QED  BY <1>1, FiniteInduction
<1>3. S \cap T = T  OBVIOUS
<1> QED  BY <1>2, <1>3

LEMMA SumNat ==
    ASSUME NEW f, NEW S, IsFiniteSet(S), \A x \in S : f[x] \in Nat
    PROVE  SumFunctionOnSet(f, S) \in Nat
<1> DEFINE z == [x \in S |-> 0]
<1>1. \A x \in S : z[x] \in Int /\ f[x] \in Int /\ z[x] <= f[x] /\ z[x] = 0  OBVIOUS
<1> HIDE DEF z
<1>2. SumFunctionOnSet(z, S) <= SumFunctionOnSet(f, S)  BY <1>1, SumAtMost
<1>3. SumFunctionOnSet(z, S) = 0  BY <1>1, SumZero
<1>4. SumFunctionOnSet(f, S) \in Int  BY <1>1, SumInt
<1> QED  BY <1>2, <1>3, <1>4

\* Two functions that differ in one place differ by as much in their sums.
LEMMA SumChange ==
    ASSUME NEW S, IsFiniteSet(S), NEW f, NEW g, NEW x \in S,
           \A y \in S : f[y] \in Int /\ g[y] \in Int,
           \A y \in S \ {x} : f[y] = g[y]
    PROVE  /\ SumFunctionOnSet(f, S) \in Int /\ SumFunctionOnSet(g, S) \in Int
           /\ SumFunctionOnSet(g, S) = SumFunctionOnSet(f, S) + g[x] - f[x]
<1> DEFINE R == S \ {x}
<1>1. IsFiniteSet(R)  BY FS_Subset
<1>2. SumFunctionOnSet(f, R) = SumFunctionOnSet(g, R)  BY <1>1, SumEqual
<1>a. (\A y \in S : f[y] \in Int) /\ (\A y \in S : g[y] \in Int)  OBVIOUS
<1>3. SumFunctionOnSet(f, S) = f[x] + SumFunctionOnSet(f, R) /\ SumFunctionOnSet(f, R) \in Int
  BY <1>a, SumRemove
<1>4. SumFunctionOnSet(g, S) = g[x] + SumFunctionOnSet(g, R)
  BY <1>a, SumRemove
<1>5. f[x] \in Int /\ g[x] \in Int  OBVIOUS
<1> HIDE DEF R
<1> QED  BY <1>2, <1>3, <1>4, <1>5

\* The sum of sums.
LEMMA SumPlus ==
    ASSUME NEW S, IsFiniteSet(S), NEW f, NEW g, NEW h,
           \A x \in S : f[x] \in Int /\ g[x] \in Int /\ h[x] = f[x] + g[x]
    PROVE  \A T \in SUBSET S :
             SumFunctionOnSet(h, T) = SumFunctionOnSet(f, T) + SumFunctionOnSet(g, T)
<1> DEFINE G == {T \in SUBSET S :
                   SumFunctionOnSet(h, T) = SumFunctionOnSet(f, T) + SumFunctionOnSet(g, T)}
<1>1. ASSUME NEW T \in SUBSET S, \A x \in T : T \ {x} \in G PROVE T \in G
  <2>1. IsFiniteSet(T)  BY FS_Subset
  <2>2. CASE T = {}  BY <2>2, SumEmpty
  <2>3. CASE T # {}
    <3> DEFINE c == Chosen(T)
               a == SumFunctionOnSet(f, T \ {c})
               b == SumFunctionOnSet(g, T \ {c})
               d == SumFunctionOnSet(h, T \ {c})
    <3>1. c \in T  BY <2>3, ChosenElement
    <3>2. a \in Int /\ b \in Int /\ d = a + b  BY <1>1, <3>1, SumInt
    <3>3. /\ SumFunctionOnSet(f, T) = f[c] + a
          /\ SumFunctionOnSet(g, T) = g[c] + b
          /\ SumFunctionOnSet(h, T) = h[c] + d
      BY <2>1, <2>3, SumChosen
    <3>4. f[c] \in Int /\ g[c] \in Int /\ h[c] = f[c] + g[c]  BY <3>1
    <3> HIDE DEF a, b, c, d
    <3>5. h[c] + d = (f[c] + a) + (g[c] + b)  BY <3>2, <3>4
    <3> QED  BY <3>3, <3>5
  <2> QED  BY <2>2, <2>3
<1>2. \A T \in SUBSET S : T \in G
  <2> HIDE DEF G
  <2> QED  BY <1>1, FiniteInduction
<1> QED  BY <1>2

=============================================================================
