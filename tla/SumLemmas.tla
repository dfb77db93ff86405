----------------------------- MODULE SumLemmas ------------------------------
(***************************************************************************)
(* Folds and sums over finite sets: what MapThenSumSet of the community    *)
(* modules computes, for every set.  Its recursion takes the elements in   *)
(* the order in which CHOOSE yields them; the lemmas here say that the     *)
(* order is irrelevant.                                                    *)
(***************************************************************************)
EXTENDS Integers, FiniteSetsExt, FiniteSetTheorems, WellFoundedInduction, TLAPS

(* A set of numbers that has 0 and every successor has them all.           *)
LEMMA Induction ==
  ASSUME NEW T, T \subseteq Nat, 0 \in T, \A n \in T : n + 1 \in T
  PROVE  T = Nat
<1>. DEFINE R == {ss \in Nat \X Nat : ss[1] < ss[2]}
<1>1. IsWellFoundedOn(R, Nat)
  BY NatLessThanWellFounded DEF OpToRel
<1>. HIDE DEF R
<1>. SUFFICES ASSUME Nat \ T # {} PROVE FALSE
  OBVIOUS
<1>2. PICK m \in Nat \ T : \A k \in Nat \ T : ~ (<<k, m>> \in R)
  BY <1>1, WFMin
<1>3. m # 0 /\ m - 1 \in Nat
  BY <1>2
<1>4. <<m - 1, m>> \in R
  BY <1>3 DEF R
<1>5. m - 1 \in T
  BY <1>2, <1>3, <1>4
<1>6. (m - 1) + 1 \in T
  BY <1>5
<1>. QED
  BY <1>2, <1>6

(* Finite sets that are not empty get smaller when an element is taken.    *)
LEMMA Shrinks ==
  ASSUME NEW S, IsFiniteSet(S), NEW n \in Nat, Cardinality(S) <= n + 1, NEW x \in S
  PROVE  IsFiniteSet(S \ {x}) /\ Cardinality(S \ {x}) <= n
<1>1. IsFiniteSet(S \ {x}) /\ Cardinality(S \ {x}) = Cardinality(S) - 1
  BY FS_RemoveElement
<1>2. Cardinality(S) \in Nat
  BY FS_CardinalityType
<1>. QED
  BY <1>1, <1>2

(* When a subset of S is good as soon as all that lack one element of it   *)
(* are, all subsets are good.                                              *)
Inherited(Good, S) == \A s \in SUBSET S : (\A x \in s : s \ {x} \in Good) => s \in Good

(* Then they are, by induction over their size.                            *)
LEMMA SmallSets ==
  ASSUME NEW S, IsFiniteSet(S), NEW Good, Inherited(Good, S)
  PROVE  SUBSET S \subseteq Good
<1>. DEFINE T == {n \in Nat : \A s \in SUBSET S : Cardinality(s) <= n => s \in Good}
<1>1. \A s \in SUBSET S : IsFiniteSet(s) /\ Cardinality(s) \in Nat
  BY FS_Subset, FS_CardinalityType
<1>2. 0 \in T
  <2>1. \A s \in SUBSET S : Cardinality(s) <= 0 => s = {}
    BY <1>1, FS_EmptySet
  <2>. QED
    BY <2>1 DEF Inherited
<1>3. \A n \in T : n + 1 \in T
  <2>. SUFFICES ASSUME NEW n \in T, NEW s \in SUBSET S, Cardinality(s) <= n + 1
                PROVE  s \in Good
    OBVIOUS
  <2>1. \A x \in s : s \ {x} \in Good
    BY <1>1, Shrinks
  <2>. QED
    BY <2>1 DEF Inherited
<1>4. T = Nat
  <2>. HIDE DEF T
  <2>1. T \subseteq Nat
    BY DEF T
  <2>. QED
    BY <1>2, <1>3, <2>1, Induction
<1>. QED
  BY <1>1, <1>4

(* A recursion that takes one element after the other.                     *)
Chooses(pick, S) == \A s \in SUBSET S : s # {} => pick[s] \in s
StaysIn(step, S, V) == \A x \in S : \A v \in V : step[<<x, v>>] \in V
IsFold(f, base, pick, step, S) ==
  \A s \in SUBSET S : f[s] = IF s = {} THEN base ELSE step[<<pick[s], f[s \ {pick[s]}]>>]

(* Any such recursion has a solution.                                      *)
LEMMA FoldExists ==
  ASSUME NEW S, IsFiniteSet(S), NEW V, NEW base \in V, NEW pick, Chooses(pick, S),
         NEW step, StaysIn(step, S, V)
  PROVE  \E f \in [SUBSET S -> V] : IsFold(f, base, pick, step, S)
<1>. DEFINE Small(n) == {s \in SUBSET S : Cardinality(s) <= n}
            Adds(f, n) == \A s \in Small(n) :
               f[s] = IF s = {} THEN base ELSE step[<<pick[s], f[s \ {pick[s]}]>>]
            T == {n \in Nat : \E f \in [Small(n) -> V] : Adds(f, n)}
<1>1. \A s \in SUBSET S : IsFiniteSet(s) /\ Cardinality(s) \in Nat
  BY FS_Subset, FS_CardinalityType
<1>2. \A s \in SUBSET S : Cardinality(s) <= 0 => s = {}
  BY <1>1, FS_EmptySet
<1>3. 0 \in T
  <2>. DEFINE f == [s \in Small(0) |-> base]
  <2>1. f \in [Small(0) -> V] /\ Adds(f, 0)
    BY <1>2
  <2>. QED
    BY <2>1
<1>4. \A n \in T : n + 1 \in T
  <2>. SUFFICES ASSUME NEW n \in Nat, NEW f \in [Small(n) -> V], Adds(f, n)
                PROVE  n + 1 \in T
    OBVIOUS
  <2>. DEFINE h == [s \in Small(n + 1) |->
                      IF s = {} THEN base ELSE step[<<pick[s], f[s \ {pick[s]}]>>]]
  <2>1. \A s \in Small(n + 1) : s # {} => pick[s] \in S /\ s \ {pick[s]} \in Small(n)
    BY <1>1, Shrinks DEF Chooses
  <2>2. \A s \in Small(n) : s \in Small(n + 1) /\ h[s] = f[s]
    BY <1>1
  <2>3. h \in [Small(n + 1) -> V]
    BY <2>1 DEF StaysIn
  <2>4. Adds(h, n + 1)
    BY <2>1, <2>2
  <2>. HIDE DEF h, Small, Adds
  <2>5. n + 1 \in Nat /\ \E k \in [Small(n + 1) -> V] : Adds(k, n + 1)
    BY <2>3, <2>4
  <2>. QED
    BY <2>5
<1>5. T = Nat
  <2>. HIDE DEF T
  <2>1. T \subseteq Nat
    BY DEF T
  <2>. QED
    BY <1>3, <1>4, <2>1, Induction
<1>6. PICK f \in [Small(Cardinality(S)) -> V] : Adds(f, Cardinality(S))
  BY <1>1, <1>5
<1>7. Small(Cardinality(S)) = SUBSET S
  BY FS_Subset
<1>. QED
  BY <1>6, <1>7 DEF IsFold

(* That two of them take every step alike.                                 *)
SameSteps(f, h, pick, S) ==
  \A s \in SUBSET S : (s # {} => f[s \ {pick[s]}] = h[s \ {pick[s]}]) => f[s] = h[s]

(* Two that do are the same.                                               *)
LEMMA FoldsAgree ==
  ASSUME NEW S, IsFiniteSet(S), NEW pick, Chooses(pick, S), NEW f, NEW h,
         SameSteps(f, h, pick, S)
  PROVE  \A s \in SUBSET S : f[s] = h[s]
<1>. DEFINE Good == {s \in SUBSET S : f[s] = h[s]}
<1>1. ASSUME NEW s \in SUBSET S, \A x \in s : s \ {x} \in Good
      PROVE  s \in Good
  BY <1>1 DEF Chooses, SameSteps
<1>2. Inherited(Good, S)
  BY <1>1 DEF Inherited
<1>. HIDE DEF Good
<1>3. SUBSET S \subseteq Good
  BY ONLY <1>2, IsFiniteSet(S), SmallSets
<1>. QED
  BY <1>3 DEF Good

-----------------------------------------------------------------------------
(* The recursion: f is the sum of g over every subset of S.                *)

Pick(S) == CHOOSE x \in S : TRUE
Sums(f, g, S) ==
  f = [s \in SUBSET S |-> IF s = {} THEN 0 ELSE g[Pick(s)] + f[s \ {Pick(s)}]]
SumOf(g, S) == (CHOOSE f : Sums(f, g, S))[S]

Summable(g, S) == IsFiniteSet(S) /\ \A x \in S : g[x] \in Int

(* Something is picked.                                                    *)
LEMMA Picked ==
  ASSUME NEW S, S # {}
  PROVE  Pick(S) \in S
BY DEF Pick

(* There is such an f.                                                     *)
LEMMA SumsExist ==
  ASSUME NEW S, NEW g, Summable(g, S)
  PROVE  \E f \in [SUBSET S -> Int] : Sums(f, g, S)
<1>. DEFINE pick == [s \in SUBSET S |-> Pick(s)]
            step == [xv \in S \X Int |-> g[xv[1]] + xv[2]]
<1>1. Chooses(pick, S) /\ StaysIn(step, S, Int)
  BY Picked DEF Chooses, StaysIn, Summable
<1>2. PICK f \in [SUBSET S -> Int] : IsFold(f, 0, pick, step, S)
  <2>. HIDE DEF pick, step
  <2>1. IsFiniteSet(S) /\ 0 \in Int
    BY DEF Summable
  <2>. QED
    BY ONLY <1>1, <2>1, FoldExists
<1>3. Sums(f, g, S)
  <2>1. \A s \in SUBSET S : s # {} => Pick(s) \in S
    BY Picked
  <2>. QED
    BY <1>2, <2>1 DEF IsFold, Sums
<1>. QED
  BY <1>3

(* All of them are the same, also on a part of the set, and for another    *)
(* function that agrees on it.                                             *)
LEMMA SumsAgree ==
  ASSUME NEW S, IsFiniteSet(S), NEW T \in SUBSET S, NEW f, NEW g, NEW h, NEW k,
         Sums(f, g, S), Sums(h, k, T), \A x \in T : g[x] = k[x]
  PROVE  \A s \in SUBSET T : f[s] = h[s]
<1>. DEFINE Good == {s \in SUBSET T : f[s] = h[s]}
<1>1. ASSUME NEW s \in SUBSET T, \A x \in s : s \ {x} \in Good
      PROVE  s \in Good
  <2>1. /\ f[s] = IF s = {} THEN 0 ELSE g[Pick(s)] + f[s \ {Pick(s)}]
        /\ h[s] = IF s = {} THEN 0 ELSE k[Pick(s)] + h[s \ {Pick(s)}]
    BY DEF Sums
  <2>2. CASE s = {}
    BY <2>1, <2>2
  <2>3. CASE s # {}
    <3>1. Pick(s) \in s
      BY <2>3, Picked
    <3>2. f[s \ {Pick(s)}] = h[s \ {Pick(s)}] /\ g[Pick(s)] = k[Pick(s)]
      BY <1>1, <3>1
    <3>. QED
      BY <2>1, <2>3, <3>2
  <2>. QED
    BY <2>2, <2>3
<1>2. IsFiniteSet(T)
  BY FS_Subset
<1>3. Inherited(Good, T)
  BY <1>1 DEF Inherited
<1>. HIDE DEF Good
<1>4. SUBSET T \subseteq Good
  BY ONLY <1>2, <1>3, SmallSets
<1>. QED
  BY <1>4 DEF Good

(* So the sum over a set can be read off any of them.                      *)
LEMMA SumIs ==
  ASSUME NEW S, NEW g, Summable(g, S), NEW T \in SUBSET S, NEW f, NEW k, Sums(f, k, S),
         \A x \in T : g[x] = k[x]
  PROVE  SumOf(g, T) = f[T]
<1>1. Summable(g, T) /\ IsFiniteSet(S)
  BY FS_Subset DEF Summable
<1>2. Sums(CHOOSE h : Sums(h, g, T), g, T)
  BY <1>1, SumsExist
<1>. QED
  BY <1>1, <1>2, SumsAgree DEF SumOf

-----------------------------------------------------------------------------
(* The laws.                                                               *)

(* Nothing adds up to 0.                                                   *)
LEMMA SumEmpty ==
  ASSUME NEW g
  PROVE  SumOf(g, {}) = 0
<1>1. Summable(g, {})
  BY FS_EmptySet DEF Summable
<1>2. PICK f : Sums(f, g, {})
  BY <1>1, SumsExist
<1>3. SumOf(g, {}) = f[{}]
  BY <1>1, <1>2, SumIs
<1>. QED
  BY <1>2, <1>3 DEF Sums

(* A sum of integers is one.                                               *)
LEMMA SumType ==
  ASSUME NEW S, NEW g, Summable(g, S)
  PROVE  SumOf(g, S) \in Int
<1>1. PICK f \in [SUBSET S -> Int] : Sums(f, g, S)
  BY SumsExist
<1>2. SumOf(g, S) = f[S]
  BY <1>1, SumIs
<1>. QED
  BY <1>1, <1>2

(* Functions that agree on the set have the same sum over it.              *)
LEMMA SumSame ==
  ASSUME NEW S, NEW g, NEW h, Summable(g, S), \A x \in S : g[x] = h[x]
  PROVE  SumOf(g, S) = SumOf(h, S)
<1>1. Summable(h, S)
  BY DEF Summable
<1>2. PICK f \in [SUBSET S -> Int] : Sums(f, h, S)
  BY <1>1, SumsExist
<1>3. SumOf(g, S) = f[S] /\ SumOf(h, S) = f[S]
  BY <1>1, <1>2, SumIs
<1>. QED
  BY <1>3

(* Another element adds its value, in whichever order they are taken.      *)
LEMMA SumAdd ==
  ASSUME NEW S, NEW g, NEW e \in S, Summable(g, S)
  PROVE  SumOf(g, S) = SumOf(g, S \ {e}) + g[e]
<1>1. PICK f \in [SUBSET S -> Int] : Sums(f, g, S)
  BY SumsExist
<1>. DEFINE Good == {s \in SUBSET S : \A x \in s : f[s] = f[s \ {x}] + g[x]}
<1>2. ASSUME NEW s \in SUBSET S, \A x \in s : s \ {x} \in Good
      PROVE  s \in Good
  <2>. SUFFICES ASSUME NEW x \in s PROVE f[s] = f[s \ {x}] + g[x]
    OBVIOUS
  <2>. DEFINE p == Pick(s)
  <2>1. p \in s /\ f[s] = g[p] + f[s \ {p}]
    BY <1>1, Picked DEF Sums
  <2>. HIDE DEF p
  <2>2. /\ g[p] \in Int /\ g[x] \in Int
        /\ f[s \ {p}] \in Int /\ f[s \ {x}] \in Int /\ f[(s \ {p}) \ {x}] \in Int
    BY <1>1, <2>1 DEF Summable
  <2>3. CASE p = x
    BY <2>1, <2>2, <2>3
  <2>4. CASE p # x
    <3>1. f[s \ {p}] = f[(s \ {p}) \ {x}] + g[x]
      BY <1>2, <2>1, <2>4
    <3>2. f[s \ {x}] = f[(s \ {x}) \ {p}] + g[p]
      BY <1>2, <2>1, <2>4
    <3>3. (s \ {x}) \ {p} = (s \ {p}) \ {x}
      OBVIOUS
    <3>4. f[s \ {x}] = f[(s \ {p}) \ {x}] + g[p]
      BY <3>2, <3>3
    <3>. QED
      BY <2>1, <2>2, <3>1, <3>4
  <2>. QED
    BY <2>3, <2>4
<1>3. PICK G : G = Good
  OBVIOUS
<1>4. Inherited(G, S)
  BY <1>2, <1>3 DEF Inherited
<1>. HIDE DEF Good
<1>5. SUBSET S \subseteq G
  <2>1. IsFiniteSet(S)
    BY DEF Summable
  <2>. QED
    BY ONLY <1>4, <2>1, SmallSets
<1>6. S \in Good
  BY <1>3, <1>5
<1>7. SumOf(g, S) = f[S] /\ SumOf(g, S \ {e}) = f[S \ {e}]
  BY <1>1, SumIs
<1>. QED
  BY <1>6, <1>7 DEF Good

(* What is at most half a unit more for every element is at most half a    *)
(* unit more per element in total.                                         *)
LEMMA SumBound ==
  ASSUME NEW S, NEW g, NEW h, NEW k \in Int, Summable(g, S), Summable(h, S),
         \A x \in S : 2 * g[x] <= 2 * h[x] + k
  PROVE  2 * SumOf(g, S) <= 2 * SumOf(h, S) + k * Cardinality(S)
<1>. DEFINE Good == {s \in SUBSET S : 2 * SumOf(g, s) <= 2 * SumOf(h, s) + k * Cardinality(s)}
<1>1. \A s \in SUBSET S : /\ Summable(g, s) /\ Summable(h, s)
                          /\ IsFiniteSet(s) /\ Cardinality(s) \in Nat
                          /\ SumOf(g, s) \in Int /\ SumOf(h, s) \in Int
  BY FS_Subset, FS_CardinalityType, SumType DEF Summable
<1>2. ASSUME NEW s \in SUBSET S, \A x \in s : s \ {x} \in Good
      PROVE  s \in Good
  <2>1. CASE s = {}
    BY <2>1, SumEmpty, FS_EmptySet
  <2>2. CASE s # {}
    <3>1. PICK e \in s : TRUE
      BY <2>2
    <3>. DEFINE r == s \ {e}
                n == Cardinality(r)
    <3>2. /\ n \in Nat /\ Cardinality(s) = n + 1
      BY <1>1, <3>1, FS_RemoveElement
    <3>3. SumOf(g, s) = SumOf(g, r) + g[e] /\ SumOf(h, s) = SumOf(h, r) + h[e]
      BY <1>1, SumAdd
    <3>4. 2 * SumOf(g, r) <= 2 * SumOf(h, r) + k * n
      BY <1>2
    <3>5. /\ SumOf(g, r) \in Int /\ SumOf(h, r) \in Int /\ g[e] \in Int /\ h[e] \in Int
          /\ 2 * g[e] <= 2 * h[e] + k
      BY <1>1 DEF Summable
    <3>. HIDE DEF r, n
    <3>6. k * (n + 1) = k * n + k /\ k * n \in Int
      BY <3>2
    <3>7. 2 * SumOf(g, s) <= 2 * SumOf(h, s) + k * (n + 1)
      BY <3>3, <3>4, <3>5, <3>6
    <3>. QED
      BY <3>2, <3>7
  <2>. QED
    BY <2>1, <2>2
<1>3. S \in Good
  <2>. HIDE DEF Good
  <2>1. IsFiniteSet(S)
    BY DEF Summable
  <2>2. Inherited(Good, S)
    BY <1>2 DEF Inherited
  <2>3. SUBSET S \subseteq Good
    BY <2>1, <2>2, SmallSets
  <2>. QED
    BY <2>3
<1>. QED
  BY <1>3

(* Positive numbers have a positive sum.                                   *)
LEMMA SumPositive ==
  ASSUME NEW S, NEW g, IsFiniteSet(S), S # {}, \A x \in S : g[x] \in Nat \ {0}
  PROVE  SumOf(g, S) \in Nat \ {0}
<1>. DEFINE Good == {s \in SUBSET S : s = {} \/ SumOf(g, s) \in Nat \ {0}}
<1>1. \A s \in SUBSET S : Summable(g, s)
  BY FS_Subset DEF Summable
<1>2. ASSUME NEW s \in SUBSET S, \A x \in s : s \ {x} \in Good
      PROVE  s \in Good
  <2>. SUFFICES ASSUME NEW e \in s PROVE SumOf(g, s) \in Nat \ {0}
    OBVIOUS
  <2>1. SumOf(g, s) = SumOf(g, s \ {e}) + g[e]
    BY <1>1, SumAdd
  <2>2. SumOf(g, s \ {e}) \in Nat
    BY <1>2, SumEmpty
  <2>. QED
    BY <2>1, <2>2
<1>3. S \in Good
  <2>. HIDE DEF Good
  <2>1. Inherited(Good, S)
    BY <1>2 DEF Inherited
  <2>2. SUBSET S \subseteq Good
    BY ONLY <2>1, IsFiniteSet(S), SmallSets
  <2>. QED
    BY <2>2
<1>. QED
  BY <1>3

(* A sum is the sum of its parts.                                          *)
LEMMA SumSplit ==
  ASSUME NEW S, NEW g, Summable(g, S), NEW T \in SUBSET S
  PROVE  SumOf(g, S) = SumOf(g, T) + SumOf(g, S \ T)
<1>. DEFINE Good == {s \in SUBSET S : SumOf(g, s) = SumOf(g, s \cap T) + SumOf(g, s \ T)}
<1>1. \A s \in SUBSET S : Summable(g, s) /\ SumOf(g, s) \in Int
  BY FS_Subset, SumType DEF Summable
<1>2. ASSUME NEW s \in SUBSET S, \A x \in s : s \ {x} \in Good
      PROVE  s \in Good
  <2>1. CASE s = {}
    <3>1. s \cap T = {} /\ s \ T = {}
      BY <2>1
    <3>. QED
      BY <2>1, <3>1, SumEmpty
  <2>2. CASE s # {}
    <3>1. PICK e \in s : TRUE
      BY <2>2
    <3>. DEFINE r == s \ {e}
    <3>2. SumOf(g, s) = SumOf(g, r) + g[e]
      BY <1>1, SumAdd
    <3>3. SumOf(g, r) = SumOf(g, r \cap T) + SumOf(g, r \ T)
      BY <1>2
    <3>4. /\ g[e] \in Int
          /\ SumOf(g, r \cap T) \in Int /\ SumOf(g, r \ T) \in Int
          /\ SumOf(g, s \cap T) \in Int /\ SumOf(g, s \ T) \in Int
      <4>1. r \cap T \in SUBSET S /\ r \ T \in SUBSET S /\ s \cap T \in SUBSET S /\ s \ T \in SUBSET S
        OBVIOUS
      <4>. QED
        BY <1>1, <4>1 DEF Summable
    <3>5. CASE e \in T
      <4>1. r \cap T = (s \cap T) \ {e} /\ r \ T = s \ T
        BY <3>5
      <4>2. SumOf(g, s \cap T) = SumOf(g, (s \cap T) \ {e}) + g[e]
        BY <1>1, <3>5, SumAdd
      <4>3. /\ SumOf(g, s \cap T) = SumOf(g, r \cap T) + g[e]
            /\ SumOf(g, s \ T) = SumOf(g, r \ T)
        BY <4>1, <4>2
      <4>. QED
        BY <1>1, <3>2, <3>3, <3>4, <4>3
    <3>6. CASE e \notin T
      <4>1. r \cap T = s \cap T /\ r \ T = (s \ T) \ {e}
        BY <3>6
      <4>2. SumOf(g, s \ T) = SumOf(g, (s \ T) \ {e}) + g[e]
        BY <1>1, <3>6, SumAdd
      <4>3. /\ SumOf(g, s \cap T) = SumOf(g, r \cap T)
            /\ SumOf(g, s \ T) = SumOf(g, r \ T) + g[e]
        BY <4>1, <4>2
      <4>. QED
        BY <1>1, <3>2, <3>3, <3>4, <4>3
    <3>. QED
      BY <3>5, <3>6
  <2>. QED
    BY <2>1, <2>2
<1>3. S \in Good
  <2>. HIDE DEF Good
  <2>1. IsFiniteSet(S)
    BY DEF Summable
  <2>2. Inherited(Good, S)
    BY <1>2 DEF Inherited
  <2>3. SUBSET S \subseteq Good
    BY ONLY <2>1, <2>2, SmallSets
  <2>. QED
    BY <2>3
<1>4. S \cap T = T
  OBVIOUS
<1>. QED
  BY <1>3, <1>4

(* What is at least k for every element is at least k per element.         *)
LEMMA SumAtLeast ==
  ASSUME NEW S, NEW g, NEW k \in Int, Summable(g, S), \A x \in S : g[x] >= k
  PROVE  SumOf(g, S) >= k * Cardinality(S)
<1>. DEFINE Good == {s \in SUBSET S : SumOf(g, s) >= k * Cardinality(s)}
<1>1. \A s \in SUBSET S : /\ Summable(g, s) /\ SumOf(g, s) \in Int
                          /\ IsFiniteSet(s) /\ Cardinality(s) \in Nat
  BY FS_Subset, FS_CardinalityType, SumType DEF Summable
<1>2. ASSUME NEW s \in SUBSET S, \A x \in s : s \ {x} \in Good
      PROVE  s \in Good
  <2>1. CASE s = {}
    BY <2>1, SumEmpty, FS_EmptySet
  <2>2. CASE s # {}
    <3>1. PICK e \in s : TRUE
      BY <2>2
    <3>. DEFINE r == s \ {e}
                n == Cardinality(r)
    <3>2. n \in Nat /\ Cardinality(s) = n + 1
      BY <1>1, <3>1, FS_RemoveElement
    <3>3. SumOf(g, s) = SumOf(g, r) + g[e]
      BY <1>1, SumAdd
    <3>4. SumOf(g, r) >= k * n
      BY <1>2
    <3>5. SumOf(g, r) \in Int /\ g[e] \in Int /\ g[e] >= k
      BY <1>1 DEF Summable
    <3>. HIDE DEF r, n
    <3>6. k * (n + 1) = k * n + k /\ k * n \in Int
      BY <3>2
    <3>7. SumOf(g, s) >= k * (n + 1)
      BY <3>3, <3>4, <3>5, <3>6
    <3>. QED
      BY <3>2, <3>7
  <2>. QED
    BY <2>1, <2>2
<1>3. S \in Good
  <2>. HIDE DEF Good
  <2>1. IsFiniteSet(S)
    BY DEF Summable
  <2>2. Inherited(Good, S)
    BY <1>2 DEF Inherited
  <2>3. SUBSET S \subseteq Good
    BY ONLY <2>1, <2>2, SmallSets
  <2>. QED
    BY <2>3
<1>. QED
  BY <1>3

(* Elements that count nothing may be left out.                            *)
LEMMA SumSkips ==
  ASSUME NEW S, NEW g, Summable(g, S), NEW T \in SUBSET S, \A x \in S \ T : g[x] = 0
  PROVE  SumOf(g, S) = SumOf(g, T)
<1>. DEFINE Good == {s \in SUBSET (S \ T) : SumOf(g, s) = 0}
<1>1. \A s \in SUBSET S : Summable(g, s) /\ SumOf(g, s) \in Int
  BY FS_Subset, SumType DEF Summable
<1>2. ASSUME NEW s \in SUBSET (S \ T), \A x \in s : s \ {x} \in Good
      PROVE  s \in Good
  <2>1. CASE s = {}
    BY <2>1, SumEmpty
  <2>2. CASE s # {}
    <3>1. PICK e \in s : TRUE
      BY <2>2
    <3>2. SumOf(g, s) = SumOf(g, s \ {e}) + g[e]
      BY <1>1, SumAdd
    <3>3. SumOf(g, s \ {e}) = 0 /\ g[e] = 0
      BY <1>2
    <3>. QED
      BY <3>2, <3>3
  <2>. QED
    BY <2>1, <2>2
<1>3. S \ T \in Good
  <2>. HIDE DEF Good
  <2>1. IsFiniteSet(S \ T)
    BY FS_Difference DEF Summable
  <2>2. Inherited(Good, S \ T)
    BY <1>2 DEF Inherited
  <2>3. SUBSET (S \ T) \subseteq Good
    BY ONLY <2>1, <2>2, SmallSets
  <2>. QED
    BY <2>3
<1>. QED
  BY <1>1, <1>3, SumSplit
=============================================================================
