----------------------------- MODULE SumTheorems -----------------------------
(***************************************************************************)
(* Sums over finite sets, as the accounts of the Server's store and of the *)
(* client's journal use them.  SumFunction is a fold, defined by a         *)
(* recursive function over the subsets of its domain.  Its facts are       *)
(* proved without an induction rule: a set of subsets that lacks one of    *)
(* them would have a smallest element, because strict inclusion is well    *)
(* founded on finite sets, and that element cannot lack it.                *)
(***************************************************************************)
EXTENDS Integers, Functions, FiniteSetTheorems, WellFoundedInduction, TLAPS

\* The element that the fold takes out of a set first.
Pick(s) == CHOOSE x \in s : TRUE

\* g is the recursive function by which a sum over the subsets of S is defined.
Unfolds(f, S, g) ==
  g = [s \in SUBSET S |-> IF s = {} THEN 0 ELSE f[Pick(s)] + g[s \ {Pick(s)}]]

\* The function the definition means.
Iter(f, S) == CHOOSE g : Unfolds(f, S, g)

\* A property of the finite sets below S that each of them inherits from its
\* strict subsets holds of all of them: otherwise a smallest one lacks it.
LEMMA SubsetInduction ==
  ASSUME NEW S, IsFiniteSet(S), NEW Q,
         \A T \in SUBSET S : (\A U \in SUBSET T : U # T => U \in Q) => T \in Q
  PROVE  S \in Q
<1> DEFINE Bad == {T \in SUBSET S : T \notin Q}
<1>1. SUFFICES ASSUME S \notin Q PROVE FALSE
  OBVIOUS
<1>2. Bad # {} /\ Bad \subseteq SUBSET S
  BY <1>1
<1> HIDE DEF Bad
<1>3. IsWellFoundedOn(StrictSubsetOrdering(S), SUBSET S)
  BY FS_StrictSubsetOrderingWellFounded, FS_FiniteSubsetsOfFinite, Zenon
<1>4. \A R, W : (IsWellFoundedOn(R, W) /\ Bad \subseteq W)
                 => \E T \in Bad : \A U \in Bad : ~(<<U, T>> \in R)
  BY <1>2, WFMin
<1>5. PICK T \in Bad : \A U \in Bad : ~(<<U, T>> \in StrictSubsetOrdering(S))
  BY <1>2, <1>3, <1>4
<1>6. \A U \in SUBSET T : U # T => U \in Q
  <2> SUFFICES ASSUME NEW U \in SUBSET T, U # T, U \notin Q PROVE FALSE
    OBVIOUS
  <2>1. T \in SUBSET S
    BY <1>2
  <2>2. U \in Bad
    BY <2>1 DEF Bad
  <2>3. <<U, T>> \in StrictSubsetOrdering(S)
    BY <2>1 DEF StrictSubsetOrdering
  <2> QED
    BY <1>5, <2>2, <2>3
<1> QED
  BY <1>6 DEF Bad

\* The library's sum is the value of that function at the whole set.
LEMMA SumIter ==
  ASSUME NEW f, NEW S
  PROVE  SumFunctionOnSet(f, S) = Iter(f, S)[S]
BY Zenon DEF SumFunctionOnSet, FoldFunctionOnSet, MapThenFoldSet, Iter, Unfolds, Pick

\* One unfolding of such a function.
LEMMA UnfoldsAt ==
  ASSUME NEW f, NEW S, NEW g, Unfolds(f, S, g), NEW s \in SUBSET S
  PROVE  g[s] = IF s = {} THEN 0 ELSE f[Pick(s)] + g[s \ {Pick(s)}]
BY DEF Unfolds

\* What is left when an element is taken out is a strict subset.
LEMMA PickIn ==
  ASSUME NEW s, s # {}
  PROVE  /\ Pick(s) \in s
         /\ s \ {Pick(s)} \in SUBSET s
         /\ s \ {Pick(s)} # s
BY DEF Pick

\* Two such functions agree wherever both are defined.
LEMMA UnfoldsAgree ==
  ASSUME NEW f, NEW S, NEW T, NEW g, NEW h, Unfolds(f, S, g), Unfolds(f, T, h),
         NEW s, s \subseteq S, s \subseteq T, IsFiniteSet(s)
  PROVE  g[s] = h[s]
<1> DEFINE Q == {u \in SUBSET s : g[u] = h[u]}
<1>1. ASSUME NEW u \in SUBSET s, \A v \in SUBSET u : v # u => v \in Q
      PROVE  u \in Q
  <2>1. u \in SUBSET S /\ u \in SUBSET T
    OBVIOUS
  <2>2. g[u] = IF u = {} THEN 0 ELSE f[Pick(u)] + g[u \ {Pick(u)}]
    BY <2>1 DEF Unfolds
  <2>5. h[u] = IF u = {} THEN 0 ELSE f[Pick(u)] + h[u \ {Pick(u)}]
    BY <2>1 DEF Unfolds
  <2>3. CASE u = {}
    BY <2>2, <2>5, <2>3
  <2>4. CASE u # {}
    <3>1. u \ {Pick(u)} \in Q
      BY <1>1, <2>4, PickIn
    <3> QED
      BY <2>2, <2>5, <2>4, <3>1
  <2> QED
    BY <2>3, <2>4
<1> HIDE DEF Q
<1>2. s \in Q
  BY <1>1, SubsetInduction
<1> QED
  BY <1>2 DEF Q

\* The recursive function of a finite set exists.
LEMMA IterUnfolds ==
  ASSUME NEW f, NEW S, IsFiniteSet(S)
  PROVE  Unfolds(f, S, Iter(f, S))
<1> DEFINE Q == {T \in SUBSET S : Unfolds(f, T, Iter(f, T))}
<1>1. ASSUME NEW T \in SUBSET S, \A U \in SUBSET T : U # T => U \in Q
      PROVE  T \in Q
  <2> DEFINE V(u) == Iter(f, u)[u]
             g == [s \in SUBSET T |-> IF s = {} THEN 0 ELSE f[Pick(s)] + V(s \ {Pick(s)})]
  <2>1. ASSUME NEW u \in SUBSET T, u # T
        PROVE  g[u] = V(u)
    <3>1. Unfolds(f, u, Iter(f, u))
      BY <1>1, <2>1
    <3>2. V(u) = IF u = {} THEN 0 ELSE f[Pick(u)] + Iter(f, u)[u \ {Pick(u)}]
      BY <3>1, UnfoldsAt
    <3>3. CASE u = {}
      BY <3>2, <3>3
    <3>4. CASE u # {}
      <4> DEFINE w == u \ {Pick(u)}
      <4>1. w \in SUBSET u /\ w \in SUBSET T /\ w # T
        BY <3>4, <2>1, PickIn
      <4>2. Unfolds(f, w, Iter(f, w))
        BY <1>1, <4>1
      <4>3. IsFiniteSet(w)
        BY <4>1, FS_Subset
      <4> HIDE DEF w
      <4>4. Iter(f, u)[w] = Iter(f, w)[w]
        BY <3>1, <4>1, <4>2, <4>3, UnfoldsAgree
      <4>5. V(u) = f[Pick(u)] + Iter(f, u)[w]
        BY <3>2, <3>4 DEF w
      <4>6. g[u] = f[Pick(u)] + Iter(f, w)[w]
        BY <3>4 DEF w
      <4> QED
        BY <4>4, <4>5, <4>6
    <3> QED
      BY <3>3, <3>4
  <2>2. ASSUME NEW s \in SUBSET T, s # {}
        PROVE  g[s \ {Pick(s)}] = V(s \ {Pick(s)})
    <3>1. s \ {Pick(s)} \in SUBSET T /\ s \ {Pick(s)} # T
      BY <2>2, PickIn
    <3> QED
      BY <2>1, <3>1
  <2>3. g = [s \in SUBSET T |-> IF s = {} THEN 0 ELSE f[Pick(s)] + g[s \ {Pick(s)}]]
    <3> DEFINE h == [s \in SUBSET T |-> IF s = {} THEN 0 ELSE f[Pick(s)] + g[s \ {Pick(s)}]]
    <3>1. ASSUME NEW s \in SUBSET T PROVE g[s] = h[s]
      BY <2>2
    <3> QED
      BY <3>1
  <2>4. Unfolds(f, T, g)
    BY <2>3 DEF Unfolds
  <2> HIDE DEF g
  <2>5. Unfolds(f, T, Iter(f, T))
    BY <2>4, Zenon DEF Iter
  <2> QED
    BY <2>5
<1> HIDE DEF Q
<1>2. S \in Q
  BY <1>1, SubsetInduction
<1> QED
  BY <1>2 DEF Q

-----------------------------------------------------------------------------
(* Facts about sums over finite sets                                       *)

\* A sum over a finite set, unfolded once.
LEMMA SumUnfold ==
  ASSUME NEW f, NEW S, IsFiniteSet(S)
  PROVE  SumFunctionOnSet(f, S) =
           IF S = {} THEN 0
           ELSE f[Pick(S)] + SumFunctionOnSet(f, S \ {Pick(S)})
<1>1. Unfolds(f, S, Iter(f, S))
  BY IterUnfolds
<1>2. Iter(f, S)[S] = IF S = {} THEN 0 ELSE f[Pick(S)] + Iter(f, S)[S \ {Pick(S)}]
  BY <1>1, UnfoldsAt
<1>3. CASE S = {}
  BY <1>2, <1>3, SumIter
<1>4. CASE S # {}
  <2> DEFINE u == S \ {Pick(S)}
  <2>1. u \in SUBSET S /\ IsFiniteSet(u)
    BY FS_Subset
  <2>2. Unfolds(f, u, Iter(f, u))
    BY <2>1, IterUnfolds
  <2> HIDE DEF u
  <2>3. Iter(f, S)[u] = Iter(f, u)[u]
    BY <1>1, <2>1, <2>2, UnfoldsAgree
  <2>4. SumFunctionOnSet(f, u) = Iter(f, u)[u] /\ SumFunctionOnSet(f, S) = Iter(f, S)[S]
    BY SumIter
  <2> QED
    BY <1>2, <1>4, <2>3, <2>4 DEF u
<1> QED
  BY <1>3, <1>4

\* The empty sum.
LEMMA SumEmpty ==
  ASSUME NEW f
  PROVE  SumFunctionOnSet(f, {}) = 0
<1>1. IsFiniteSet({})
  BY FS_EmptySet
<1> QED
  BY <1>1, SumUnfold

\* A sum of integers is an integer.
LEMMA SumInt ==
  ASSUME NEW f, NEW S, IsFiniteSet(S), \A x \in S : f[x] \in Int
  PROVE  SumFunctionOnSet(f, S) \in Int
<1> DEFINE Q == {T \in SUBSET S : SumFunctionOnSet(f, T) \in Int}
<1>1. ASSUME NEW T \in SUBSET S, \A U \in SUBSET T : U # T => U \in Q
      PROVE  T \in Q
  <2>1. IsFiniteSet(T)
    BY FS_Subset
  <2>2. CASE T = {}
    BY <2>2, SumEmpty
  <2>3. CASE T # {}
    <3>1. T \ {Pick(T)} \in Q /\ Pick(T) \in S
      BY <1>1, <2>3, PickIn
    <3>2. SumFunctionOnSet(f, T) = f[Pick(T)] + SumFunctionOnSet(f, T \ {Pick(T)})
      BY <2>1, <2>3, SumUnfold
    <3> QED
      BY <3>1, <3>2
  <2> QED
    BY <2>2, <2>3
<1> HIDE DEF Q
<1>2. S \in Q
  BY <1>1, SubsetInduction
<1> QED
  BY <1>2 DEF Q

\* A sum of naturals is a natural.
LEMMA SumNat ==
  ASSUME NEW f, NEW S, IsFiniteSet(S), \A x \in S : f[x] \in Nat
  PROVE  SumFunctionOnSet(f, S) \in Nat
<1> DEFINE Q == {T \in SUBSET S : SumFunctionOnSet(f, T) \in Nat}
<1>1. ASSUME NEW T \in SUBSET S, \A U \in SUBSET T : U # T => U \in Q
      PROVE  T \in Q
  <2>1. IsFiniteSet(T)
    BY FS_Subset
  <2>2. CASE T = {}
    BY <2>2, SumEmpty
  <2>3. CASE T # {}
    <3>1. T \ {Pick(T)} \in Q /\ Pick(T) \in S
      BY <1>1, <2>3, PickIn
    <3>2. SumFunctionOnSet(f, T) = f[Pick(T)] + SumFunctionOnSet(f, T \ {Pick(T)})
      BY <2>1, <2>3, SumUnfold
    <3> QED
      BY <3>1, <3>2
  <2> QED
    BY <2>2, <2>3
<1> HIDE DEF Q
<1>2. S \in Q
  BY <1>1, SubsetInduction
<1> QED
  BY <1>2 DEF Q

\* Any element can be taken out first: the order of the sum does not matter.
LEMMA SumRemove ==
  ASSUME NEW f, NEW S, IsFiniteSet(S), \A x \in S : f[x] \in Int, NEW x \in S
  PROVE  SumFunctionOnSet(f, S) = f[x] + SumFunctionOnSet(f, S \ {x})
<1> DEFINE Q == {T \in SUBSET S : \A y \in T :
                   SumFunctionOnSet(f, T) = f[y] + SumFunctionOnSet(f, T \ {y})}
<1>1. ASSUME NEW T \in SUBSET S, \A U \in SUBSET T : U # T => U \in Q
      PROVE  T \in Q
  <2> SUFFICES ASSUME NEW y \in T
               PROVE  SumFunctionOnSet(f, T) = f[y] + SumFunctionOnSet(f, T \ {y})
    OBVIOUS
  <2> DEFINE p == Pick(T)
  <2>1. IsFiniteSet(T) /\ T # {} /\ p \in T
    BY FS_Subset, PickIn
  <2>2. SumFunctionOnSet(f, T) = f[p] + SumFunctionOnSet(f, T \ {p})
    BY <2>1, SumUnfold
  <2> HIDE DEF p
  <2>3. CASE y = p
    BY <2>2, <2>3
  <2>4. CASE y # p
    <3> DEFINE w == T \ {p, y}
    <3>1. T \ {p} \in Q /\ y \in T \ {p} /\ (T \ {p}) \ {y} = w
      BY <1>1, <2>1, <2>4
    <3>2. T \ {y} \in Q /\ p \in T \ {y} /\ (T \ {y}) \ {p} = w
      BY <1>1, <2>1, <2>4
    <3>3. SumFunctionOnSet(f, T \ {p}) = f[y] + SumFunctionOnSet(f, w)
      BY <3>1
    <3>4. SumFunctionOnSet(f, T \ {y}) = f[p] + SumFunctionOnSet(f, w)
      BY <3>2
    <3>5. IsFiniteSet(w) /\ w \subseteq S
      BY FS_Subset
    <3> HIDE DEF w
    <3>6. SumFunctionOnSet(f, w) \in Int
      BY <3>5, SumInt
    <3>7. f[p] \in Int /\ f[y] \in Int
      BY <2>1
    <3> QED
      BY <2>2, <3>3, <3>4, <3>6, <3>7
  <2> QED
    BY <2>3, <2>4
<1> HIDE DEF Q
<1>2. S \in Q
  BY <1>1, SubsetInduction
<1> QED
  BY <1>2 DEF Q

\* One more element adds its value.
LEMMA SumAdd ==
  ASSUME NEW f, NEW S, IsFiniteSet(S), NEW x, x \notin S,
         \A y \in S \cup {x} : f[y] \in Int
  PROVE  SumFunctionOnSet(f, S \cup {x}) = f[x] + SumFunctionOnSet(f, S)
<1>1. IsFiniteSet(S \cup {x}) /\ x \in S \cup {x} /\ (S \cup {x}) \ {x} = S
  BY FS_AddElement
<1> QED
  BY <1>1, SumRemove

\* A sum depends only on the values at the elements summed.
LEMMA SumAgree ==
  ASSUME NEW f, NEW g, NEW S, IsFiniteSet(S), \A x \in S : f[x] = g[x]
  PROVE  SumFunctionOnSet(f, S) = SumFunctionOnSet(g, S)
<1> DEFINE Q == {T \in SUBSET S : SumFunctionOnSet(f, T) = SumFunctionOnSet(g, T)}
<1>1. ASSUME NEW T \in SUBSET S, \A U \in SUBSET T : U # T => U \in Q
      PROVE  T \in Q
  <2>1. IsFiniteSet(T)
    BY FS_Subset
  <2>2. CASE T = {}
    BY <2>2, SumEmpty
  <2>3. CASE T # {}
    <3>1. T \ {Pick(T)} \in Q /\ Pick(T) \in S
      BY <1>1, <2>3, PickIn
    <3>2. SumFunctionOnSet(f, T) = f[Pick(T)] + SumFunctionOnSet(f, T \ {Pick(T)})
      BY <2>1, <2>3, SumUnfold
    <3>3. SumFunctionOnSet(g, T) = g[Pick(T)] + SumFunctionOnSet(g, T \ {Pick(T)})
      BY <2>1, <2>3, SumUnfold
    <3> QED
      BY <3>1, <3>2, <3>3
  <2> QED
    BY <2>2, <2>3
<1> HIDE DEF Q
<1>2. S \in Q
  BY <1>1, SubsetInduction
<1> QED
  BY <1>2 DEF Q

\* A sum of zeros is zero.
LEMMA SumZero ==
  ASSUME NEW f, NEW S, IsFiniteSet(S), \A x \in S : f[x] = 0
  PROVE  SumFunctionOnSet(f, S) = 0
<1> DEFINE Q == {T \in SUBSET S : SumFunctionOnSet(f, T) = 0}
<1>1. ASSUME NEW T \in SUBSET S, \A U \in SUBSET T : U # T => U \in Q
      PROVE  T \in Q
  <2>1. IsFiniteSet(T)
    BY FS_Subset
  <2>2. CASE T = {}
    BY <2>2, SumEmpty
  <2>3. CASE T # {}
    <3>1. T \ {Pick(T)} \in Q /\ Pick(T) \in S
      BY <1>1, <2>3, PickIn
    <3>2. SumFunctionOnSet(f, T) = f[Pick(T)] + SumFunctionOnSet(f, T \ {Pick(T)})
      BY <2>1, <2>3, SumUnfold
    <3> QED
      BY <3>1, <3>2
  <2> QED
    BY <2>2, <2>3
<1> HIDE DEF Q
<1>2. S \in Q
  BY <1>1, SubsetInduction
<1> QED
  BY <1>2 DEF Q

\* A sum of smaller naturals is smaller.
LEMMA SumAtMost ==
  ASSUME NEW f, NEW g, NEW S, IsFiniteSet(S),
         \A x \in S : f[x] \in Nat /\ g[x] \in Nat /\ f[x] <= g[x]
  PROVE  SumFunctionOnSet(f, S) <= SumFunctionOnSet(g, S)
<1> DEFINE Q == {T \in SUBSET S : SumFunctionOnSet(f, T) <= SumFunctionOnSet(g, T)}
<1>1. ASSUME NEW T \in SUBSET S, \A U \in SUBSET T : U # T => U \in Q
      PROVE  T \in Q
  <2>1. IsFiniteSet(T)
    BY FS_Subset
  <2>2. CASE T = {}
    BY <2>2, SumEmpty
  <2>3. CASE T # {}
    <3> DEFINE p == Pick(T)
               w == T \ {p}
    <3>1. w \in Q /\ p \in S /\ w \subseteq S /\ IsFiniteSet(w)
      BY <1>1, <2>1, <2>3, PickIn, FS_Subset
    <3>2. SumFunctionOnSet(f, T) = f[p] + SumFunctionOnSet(f, w)
      BY <2>1, <2>3, SumUnfold
    <3>3. SumFunctionOnSet(g, T) = g[p] + SumFunctionOnSet(g, w)
      BY <2>1, <2>3, SumUnfold
    <3> HIDE DEF p, w
    <3>4. SumFunctionOnSet(f, w) \in Nat /\ SumFunctionOnSet(g, w) \in Nat
      <4>1. /\ \A x \in w : f[x] \in Nat
            /\ \A x \in w : g[x] \in Nat
        BY <3>1
      <4> QED
        BY <3>1, <4>1, SumNat
    <3>5. SumFunctionOnSet(f, w) <= SumFunctionOnSet(g, w)
      BY <3>1
    <3>6. f[p] \in Nat /\ g[p] \in Nat /\ f[p] <= g[p]
      BY <3>1
    <3> QED
      BY <3>2, <3>3, <3>4, <3>5, <3>6
  <2> QED
    BY <2>2, <2>3
<1> HIDE DEF Q
<1>2. S \in Q
  BY <1>1, SubsetInduction
<1> QED
  BY <1>2 DEF Q

\* The sum over two disjoint sets is the sum of the two sums.
LEMMA SumDisjointUnion ==
  ASSUME NEW f, NEW S, NEW T, IsFiniteSet(S), IsFiniteSet(T), S \cap T = {},
         \A x \in S \cup T : f[x] \in Int
  PROVE  SumFunctionOnSet(f, S \cup T) = SumFunctionOnSet(f, S) + SumFunctionOnSet(f, T)
<1> DEFINE Q == {U \in SUBSET T :
                   SumFunctionOnSet(f, S \cup U) = SumFunctionOnSet(f, S) + SumFunctionOnSet(f, U)}
<1>1. ASSUME NEW U \in SUBSET T, \A V \in SUBSET U : V # U => V \in Q
      PROVE  U \in Q
  <2>1. IsFiniteSet(U) /\ SumFunctionOnSet(f, S) \in Int
    BY FS_Subset, SumInt
  <2>2. CASE U = {}
    <3>1. S \cup U = S
      BY <2>2
    <3> QED
      BY <2>1, <2>2, <3>1, SumEmpty
  <2>3. CASE U # {}
    <3> DEFINE x == Pick(U)
               w == U \ {x}
    <3>1. x \in U /\ w \in SUBSET U /\ w # U
      BY <2>3, PickIn
    <3> HIDE DEF x
    <3>2. w \in Q /\ IsFiniteSet(w) /\ IsFiniteSet(S \cup w)
      BY <1>1, <2>1, <3>1, FS_Subset, FS_Union
    <3>3. /\ x \notin w /\ w \cup {x} = U
          /\ x \notin S \cup w /\ (S \cup w) \cup {x} = S \cup U
      BY <3>1
    <3> HIDE DEF w
    <3>4. f[x] \in Int /\ (\A y \in w \cup {x} : f[y] \in Int)
          /\ (\A y \in (S \cup w) \cup {x} : f[y] \in Int)
      BY <3>3
    <3>5. SumFunctionOnSet(f, U) = f[x] + SumFunctionOnSet(f, w)
      BY <3>2, <3>3, <3>4, SumAdd
    <3>6. SumFunctionOnSet(f, S \cup U) = f[x] + SumFunctionOnSet(f, S \cup w)
      BY <3>2, <3>3, <3>4, SumAdd
    <3>7. SumFunctionOnSet(f, w) \in Int
      BY <3>2, <3>4, SumInt
    <3> QED
      BY <2>1, <3>2, <3>4, <3>5, <3>6, <3>7
  <2> QED
    BY <2>2, <2>3
<1> HIDE DEF Q
<1>2. T \in Q
  BY <1>1, SubsetInduction
<1> QED
  BY <1>2 DEF Q

\* A set can be split into a subset and the rest.
LEMMA SumSplit ==
  ASSUME NEW f, NEW S, IsFiniteSet(S), \A x \in S : f[x] \in Int, NEW T \in SUBSET S
  PROVE  SumFunctionOnSet(f, S) = SumFunctionOnSet(f, T) + SumFunctionOnSet(f, S \ T)
<1>1. IsFiniteSet(T) /\ IsFiniteSet(S \ T) /\ T \cap (S \ T) = {} /\ T \cup (S \ T) = S
  BY FS_Subset
<1> QED
  BY <1>1, SumDisjointUnion

\* Fewer naturals sum to less.
LEMMA SumMonotonic ==
  ASSUME NEW f, NEW S, IsFiniteSet(S), \A x \in S : f[x] \in Nat, NEW T \in SUBSET S
  PROVE  SumFunctionOnSet(f, T) <= SumFunctionOnSet(f, S)
<1>1. SumFunctionOnSet(f, S) = SumFunctionOnSet(f, T) + SumFunctionOnSet(f, S \ T)
  BY SumSplit
<1>2. IsFiniteSet(T) /\ IsFiniteSet(S \ T)
  BY FS_Subset
<1>3. SumFunctionOnSet(f, T) \in Nat /\ SumFunctionOnSet(f, S \ T) \in Nat
  BY <1>2, SumNat
<1> QED
  BY <1>1, <1>3

\* The values of g over T are those of f, where S has none the others are 0,
\* except that x may have grown by b.
Raised(f, g, S, T, x, b) ==
  /\ S \subseteq T /\ IsFiniteSet(T)
  /\ \A y \in T : f[y] \in Nat /\ g[y] \in Nat
  /\ \A y \in T \ S : f[y] = 0
  /\ \A y \in T \ {x} : g[y] <= f[y]
  /\ x \in T => g[x] <= f[x] + b

\* Then so may the sum.
LEMMA SumRaised ==
  ASSUME NEW f, NEW g, NEW S, NEW T, NEW x, NEW b \in Nat, Raised(f, g, S, T, x, b)
  PROVE  /\ SumFunctionOnSet(f, S) \in Nat /\ SumFunctionOnSet(g, T) \in Nat
         /\ SumFunctionOnSet(g, T) <= SumFunctionOnSet(f, S) + b
<1>1. /\ S \in SUBSET T /\ IsFiniteSet(T) /\ IsFiniteSet(S) /\ IsFiniteSet(T \ S)
      /\ IsFiniteSet(T \ {x})
  BY FS_Subset DEF Raised
<1>2. /\ \A y \in T : f[y] \in Nat
      /\ \A y \in T : f[y] \in Int
      /\ \A y \in T : g[y] \in Nat
      /\ \A y \in T : g[y] \in Int
      /\ \A y \in T \ S : f[y] = 0
      /\ \A y \in T \ {x} : f[y] \in Nat
      /\ \A y \in T \ {x} : g[y] \in Nat
      /\ \A y \in T \ {x} : g[y] \in Nat /\ f[y] \in Nat /\ g[y] <= f[y]
      /\ \A y \in S : f[y] \in Nat
      /\ x \in T => g[x] <= f[x] + b
  BY DEF Raised
<1>3. SumFunctionOnSet(f, S) \in Nat /\ SumFunctionOnSet(f, T) \in Nat /\ SumFunctionOnSet(g, T) \in Nat
  BY <1>1, <1>2, SumNat
<1>4. SumFunctionOnSet(f, T) = SumFunctionOnSet(f, S)
  <2>1. SumFunctionOnSet(f, T) = SumFunctionOnSet(f, S) + SumFunctionOnSet(f, T \ S)
    BY <1>1, <1>2, SumSplit
  <2>2. SumFunctionOnSet(f, T \ S) = 0
    BY <1>1, <1>2, SumZero
  <2> QED
    BY <2>1, <2>2, <1>3
<1>5. CASE x \notin T
  <2>1. T \ {x} = T
    BY <1>5
  <2>2. \A y \in T : g[y] \in Nat /\ f[y] \in Nat /\ g[y] <= f[y]
    BY <2>1, <1>2
  <2>3. SumFunctionOnSet(g, T) <= SumFunctionOnSet(f, T)
    BY <2>2, <1>1, SumAtMost
  <2> QED
    BY <2>3, <1>3, <1>4
<1>6. CASE x \in T
  <2>1. SumFunctionOnSet(g, T) = g[x] + SumFunctionOnSet(g, T \ {x})
    BY <1>1, <1>2, <1>6, SumRemove
  <2>2. SumFunctionOnSet(f, T) = f[x] + SumFunctionOnSet(f, T \ {x})
    BY <1>1, <1>2, <1>6, SumRemove
  <2>3. SumFunctionOnSet(g, T \ {x}) <= SumFunctionOnSet(f, T \ {x})
    BY <1>1, <1>2, SumAtMost
  <2>4. SumFunctionOnSet(g, T \ {x}) \in Nat /\ SumFunctionOnSet(f, T \ {x}) \in Nat
    BY <1>1, <1>2, SumNat
  <2>5. g[x] \in Nat /\ f[x] \in Nat /\ g[x] <= f[x] + b
    BY <1>2, <1>6
  <2> QED
    BY <2>1, <2>2, <2>3, <2>4, <2>5, <1>3, <1>4
<1> QED
  BY <1>3, <1>5, <1>6

\* A finite family of finite, pairwise disjoint sets, and the sums over each.
DisjointFamily(I, P) ==
  /\ IsFiniteSet(I)
  /\ \A i \in I : IsFiniteSet(P[i])
  /\ \A i, j \in I : i # j => P[i] \cap P[j] = {}
FamilySums(I, P, f, g) ==
  \A i \in I : /\ \A x \in P[i] : f[x] \in Int
              /\ g[i] = SumFunctionOnSet(f, P[i])

\* The sum over a family of disjoint sets is the sum of their sums.
LEMMA SumNested ==
  ASSUME NEW I, NEW P, NEW f, NEW g, DisjointFamily(I, P), FamilySums(I, P, f, g)
  PROVE  /\ IsFiniteSet(UNION {P[i] : i \in I})
         /\ SumFunctionOnSet(g, I) = SumFunctionOnSet(f, UNION {P[i] : i \in I})
<1>3. IsFiniteSet(I) /\ \A i \in I : IsFiniteSet(P[i])
  BY DEF DisjointFamily
<1>4. \A i, j \in I : i # j => P[i] \cap P[j] = {}
  BY DEF DisjointFamily
<1>5. \A i \in I : (\A x \in P[i] : f[x] \in Int) /\ g[i] = SumFunctionOnSet(f, P[i])
  BY DEF FamilySums
<1> DEFINE U(J) == UNION {P[i] : i \in J}
           Q == {J \in SUBSET I : /\ IsFiniteSet(U(J))
                                  /\ SumFunctionOnSet(g, J) = SumFunctionOnSet(f, U(J))}
<1>1. ASSUME NEW J \in SUBSET I, \A K \in SUBSET J : K # J => K \in Q
      PROVE  J \in Q
  <2>1. IsFiniteSet(J)
    BY <1>3, FS_Subset
  <2>2. CASE J = {}
    <3>1. U(J) = {}
      BY <2>2
    <3> HIDE DEF U
    <3>2. IsFiniteSet(U(J)) /\ SumFunctionOnSet(g, J) = SumFunctionOnSet(f, U(J))
      BY <2>2, <3>1, FS_EmptySet, SumEmpty
    <3> QED
      BY <3>2
  <2>3. CASE J # {}
    <3> DEFINE x == Pick(J)
               w == J \ {x}
    <3>1. x \in J /\ w \in SUBSET J /\ w # J
      BY <2>3, PickIn
    <3> HIDE DEF x
    <3>2. w \in Q /\ IsFiniteSet(w)
      BY <1>1, <2>1, <3>1, FS_Subset
    <3>3. x \notin w /\ w \cup {x} = J /\ w \subseteq I /\ x \in I
      BY <3>1
    <3> HIDE DEF w
    <3>4. U(J) = U(w) \cup P[x]
      BY <3>3
    <3>5. U(w) \cap P[x] = {}
      BY <3>3, <1>4
    <3>6. \A y \in U(w) \cup P[x] : f[y] \in Int
      BY <3>3, <1>5
    <3>10. IsFiniteSet(U(w)) /\ SumFunctionOnSet(g, w) = SumFunctionOnSet(f, U(w))
      BY <3>2
    <3> HIDE DEF U
    <3>7. IsFiniteSet(P[x]) /\ IsFiniteSet(U(w) \cup P[x])
      BY <3>3, <3>10, <1>3, FS_Union
    <3>8. SumFunctionOnSet(f, U(J)) = SumFunctionOnSet(f, U(w)) + SumFunctionOnSet(f, P[x])
      BY <3>4, <3>5, <3>6, <3>7, <3>10, SumDisjointUnion
    <3>9. \A i \in I : g[i] \in Int
      <4> SUFFICES ASSUME NEW i \in I PROVE SumFunctionOnSet(f, P[i]) \in Int
        BY <1>5
      <4> QED
        BY <1>3, <1>5, SumInt
    <3>11. SumFunctionOnSet(g, J) = g[x] + SumFunctionOnSet(g, w)
      BY <3>2, <3>3, <3>9, SumAdd
    <3>12. g[x] = SumFunctionOnSet(f, P[x])
      BY <3>3, <1>5
    <3>13. SumFunctionOnSet(f, P[x]) \in Int /\ SumFunctionOnSet(f, U(w)) \in Int
      BY <3>6, <3>7, <3>10, SumInt
    <3>14. IsFiniteSet(U(J)) /\ SumFunctionOnSet(g, J) = SumFunctionOnSet(f, U(J))
      BY <3>4, <3>7, <3>8, <3>10, <3>11, <3>12, <3>13
    <3> QED
      BY <3>14
  <2> QED
    BY <2>2, <2>3
<1>2. I \in Q
  <2> HIDE DEF Q
  <2> QED
    BY <1>1, <1>3, SubsetInduction
<1> QED
  BY <1>2

\* The sum over one element.
LEMMA SumOne ==
  ASSUME NEW f, NEW x, f[x] \in Int
  PROVE  SumFunctionOnSet(f, {x}) = f[x]
<1>1. IsFiniteSet({x}) /\ \A y \in {x} : f[y] \in Int
  BY FS_Singleton
<1>2. SumFunctionOnSet(f, {x}) = f[x] + SumFunctionOnSet(f, {x} \ {x})
  BY <1>1, SumRemove
<1>3. {x} \ {x} = {}
  OBVIOUS
<1> QED
  BY <1>2, <1>3, SumEmpty

\* h renames the elements of S, each to one that counts as much.
Renames(S, h, f, g) ==
  /\ \A x, y \in S : h[x] = h[y] => x = y
  /\ \A x \in S : g[h[x]] \in Int /\ f[x] = g[h[x]]

\* Renaming the elements keeps the sum.
LEMMA SumRenamed ==
  ASSUME NEW f, NEW g, NEW h, NEW S, IsFiniteSet(S), Renames(S, h, f, g)
  PROVE  /\ IsFiniteSet({h[x] : x \in S})
         /\ SumFunctionOnSet(f, S) = SumFunctionOnSet(g, {h[x] : x \in S})
<1> DEFINE P == [x \in S |-> {h[x]}]
<1>1. DisjointFamily(S, P)
  <2>1. \A x \in S : IsFiniteSet(P[x])
    BY FS_Singleton
  <2>2. \A x, y \in S : x # y => P[x] \cap P[y] = {}
    BY DEF Renames
  <2> QED
    BY <2>1, <2>2 DEF DisjointFamily
<1>2. FamilySums(S, P, g, f)
  <2>1. \A x \in S : g[h[x]] \in Int /\ f[x] = g[h[x]]
    BY DEF Renames
  <2>2. ASSUME NEW x \in S PROVE SumFunctionOnSet(g, {h[x]}) = g[h[x]]
    BY <2>1, SumOne
  <2> QED
    BY <2>1, <2>2 DEF FamilySums
<1>3. UNION {P[x] : x \in S} = {h[x] : x \in S}
  OBVIOUS
<1> HIDE DEF P
<1>4. /\ IsFiniteSet(UNION {P[x] : x \in S})
      /\ SumFunctionOnSet(f, S) = SumFunctionOnSet(g, UNION {P[x] : x \in S})
  BY <1>1, <1>2, SumNested
<1> QED
  BY <1>3, <1>4, Zenon

\* A sum over a function is the sum over its domain.
LEMMA SumOverDomain ==
  ASSUME NEW f
  PROVE  SumFunction(f) = SumFunctionOnSet(f, DOMAIN f)
BY DEF SumFunction
=============================================================================
