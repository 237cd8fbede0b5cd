---------------------------- MODULE CountingTheorems ---------------------------
(****************************************************************************)
(* Sums over finite sets: units of orders, memory of hashes, lines of       *)
(* carts, requests let through; places in a finite order: rows of pages;    *)
(* and induction over numbers: steps of a walk.  The community modules      *)
(* define a sum by a function on the subsets of the set, which is taken     *)
(* apart one chosen element after the other.                                *)
(*                                                                          *)
(* That such a function exists, and that the order in which the elements    *)
(* are taken makes no difference, is shown by induction over the subsets,   *)
(* stated, as induction over numbers is, for a set instead of a predicate.  *)
(****************************************************************************)
EXTENDS Integers, FiniteSets, Functions, FiniteSetTheorems, FunctionTheorems, WellFoundedInduction,
        TLAPS

\* What holds of a subset of a finite set whenever it holds of all that are smaller holds
\* of every subset.
LEMMA SubsetInduction ==
  ASSUME NEW S, IsFiniteSet(S), NEW T,
         \A U \in SUBSET S : (\A V \in SUBSET U : V # U => V \in T) => U \in T
  PROVE  \A U \in SUBSET S : U \in T
<1>. SUFFICES ASSUME {U \in SUBSET S : U \notin T} # {}  PROVE FALSE
  OBVIOUS
<1>. DEFINE Bad == {U \in SUBSET S : U \notin T}
<1>1. Bad \subseteq FiniteSubsetsOf(S) /\ Bad # {}
  BY FS_FiniteSubsetsOfFinite
<1>2. PICK U \in Bad : \A V \in Bad : ~(<<V, U>> \in StrictSubsetOrdering(S))
  <2>. HIDE DEF Bad
  <2>. QED  BY <1>1, FS_StrictSubsetOrderingWellFounded, WFMin
<1>3. \A V \in SUBSET U : V # U => V \in T
  BY <1>2 DEF StrictSubsetOrdering
<1>. QED  BY <1>2, <1>3

Chosen(S) == CHOOSE x \in S : TRUE

\* g says of every subset of S what its elements add up to.
AddsUp(f, S, g) ==
  g = [s \in SUBSET S |-> IF s = {} THEN 0 ELSE f[Chosen(s)] + g[s \ {Chosen(s)}]]

\* A sum is what one such function says of the whole set.
LEMMA SumIsChosen ==
  \A f, S : SumFunctionOnSet(f, S) = (CHOOSE g : AddsUp(f, S, g))[S]
BY DEF SumFunctionOnSet, FoldFunctionOnSet, MapThenFoldSet, AddsUp, Chosen

\* An element is chosen from a set that has one.
LEMMA ChosenIn == \A S : S # {} => Chosen(S) \in S
BY DEF Chosen

\* A subset adds up to the same whichever set it is taken from.
LEMMA AddsUpUnique ==
  ASSUME NEW f, NEW h, NEW S, NEW R, NEW g, NEW k, AddsUp(f, S, g), AddsUp(h, R, k),
         NEW W, IsFiniteSet(W), W \subseteq S, W \subseteq R, \A x \in W : f[x] = h[x]
  PROVE  g[W] = k[W]
<1>. DEFINE T == {U \in SUBSET W : g[U] = k[U]}
<1>1. ASSUME NEW U \in SUBSET W, \A V \in SUBSET U : V # U => V \in T
      PROVE  U \in T
  <2>1. CASE U = {}
    BY <2>1 DEF AddsUp
  <2>2. CASE U # {}
    <3>1. Chosen(U) \in U
      BY <2>2, ChosenIn
    <3>2. U \ {Chosen(U)} \in T
      BY <1>1, <3>1
    <3>3. g[U] = f[Chosen(U)] + g[U \ {Chosen(U)}]
      BY <2>2 DEF AddsUp
    <3>4. k[U] = h[Chosen(U)] + k[U \ {Chosen(U)}]
      BY <2>2 DEF AddsUp
    <3>. QED  BY <3>1, <3>2, <3>3, <3>4
  <2>. QED  BY <2>1, <2>2
<1>2. \A U \in SUBSET W : U \in T
  <2>. HIDE DEF T
  <2>. QED  BY <1>1, SubsetInduction
<1>. QED  BY <1>2

\* Every finite set adds up.
LEMMA AddsUpExists ==
  ASSUME NEW f, NEW S, IsFiniteSet(S)
  PROVE  \E g : AddsUp(f, S, g)
<1>. DEFINE T == {U \in SUBSET S : \E g : AddsUp(f, U, g)}
            G(U) == CHOOSE g : AddsUp(f, U, g)
<1>1. ASSUME NEW U \in SUBSET S, \A V \in SUBSET U : V # U => V \in T
      PROVE  U \in T
  <2>. DEFINE h == [s \in SUBSET U |-> IF s = {} THEN 0
                                       ELSE f[Chosen(s)] + G(s \ {Chosen(s)})[s \ {Chosen(s)}]]
  <2>1. \A V \in SUBSET U : V # U => AddsUp(f, V, G(V))
    BY <1>1
  <2>2. ASSUME NEW V \in SUBSET U, V # U  PROVE h[V] = G(V)[V]
    <3>0. AddsUp(f, V, G(V))
      BY <2>1, <2>2
    <3>1. CASE V = {}
      <4>1. G(V)[V] = 0
        <5>. HIDE DEF G
        <5>. QED  BY <3>0, <3>1 DEF AddsUp
      <4>. QED  BY <3>1, <4>1
    <3>2. CASE V # {}
      <4>. DEFINE W == V \ {Chosen(V)}
      <4>0. Chosen(V) \in V
        BY <3>2, ChosenIn
      <4>1. AddsUp(f, W, G(W)) /\ IsFiniteSet(W)
        <5>1. W \in SUBSET U /\ W # U /\ W \in SUBSET S
          BY <4>0
        <5>. HIDE DEF G
        <5>. QED  BY <2>1, <5>1, FS_Subset
      <4>2. G(W)[W] = G(V)[W]
        <5>. HIDE DEF G
        <5>. QED  BY <3>0, <4>1, AddsUpUnique
      <4>3. G(V)[V] = f[Chosen(V)] + G(V)[W]
        <5>. HIDE DEF G
        <5>. QED  BY <3>0, <3>2 DEF AddsUp
      <4>4. h[V] = f[Chosen(V)] + G(W)[W]
        <5>. HIDE DEF G
        <5>. QED  BY <3>2
      <4>. HIDE DEF G, h
      <4>. QED  BY <4>2, <4>3, <4>4
    <3>. QED  BY <3>1, <3>2
  <2>3. AddsUp(f, U, h)
    <3>1. ASSUME NEW s \in SUBSET U
          PROVE  h[s] = IF s = {} THEN 0 ELSE f[Chosen(s)] + h[s \ {Chosen(s)}]
      <4>1. CASE s = {}
        BY <4>1
      <4>2. CASE s # {}
        <5>1. Chosen(s) \in s
          BY <4>2, ChosenIn
        <5>2. h[s \ {Chosen(s)}] = G(s \ {Chosen(s)})[s \ {Chosen(s)}]
          <6>. HIDE DEF h, G
          <6>. QED  BY <2>2, <5>1
        <5>3. h[s] = f[Chosen(s)] + G(s \ {Chosen(s)})[s \ {Chosen(s)}]
          <6>. HIDE DEF G
          <6>. QED  BY <4>2
        <5>. HIDE DEF h, G
        <5>. QED  BY <4>2, <5>2, <5>3
      <4>. QED  BY <4>1, <4>2
    <3>2. h = [s \in SUBSET U |-> h[s]]
      OBVIOUS
    <3>. HIDE DEF h
    <3>. QED  BY <3>1, <3>2 DEF AddsUp
  <2>. HIDE DEF h
  <2>. QED  BY <2>3
<1>2. \A U \in SUBSET S : U \in T
  <2>. HIDE DEF T
  <2>. QED  BY <1>1, SubsetInduction
<1>. QED  BY <1>2

\* So there is one sum, whatever the elements are.
LEMMA SumAddsUp ==
  ASSUME NEW f, NEW S, IsFiniteSet(S)
  PROVE  \E g : AddsUp(f, S, g) /\ SumFunctionOnSet(f, S) = g[S]
BY AddsUpExists, SumIsChosen

\* The sum depends on the elements of the set alone.
THEOREM SumSame ==
  ASSUME NEW f, NEW h, NEW S, IsFiniteSet(S), \A x \in S : f[x] = h[x]
  PROVE  SumFunctionOnSet(f, S) = SumFunctionOnSet(h, S)
<1>1. PICK g : AddsUp(f, S, g) /\ SumFunctionOnSet(f, S) = g[S]
  BY SumAddsUp
<1>2. PICK k : AddsUp(h, S, k) /\ SumFunctionOnSet(h, S) = k[S]
  BY SumAddsUp
<1>. QED  BY <1>1, <1>2, AddsUpUnique

\* Nothing adds up to nothing.
THEOREM SumEmpty == \A f : SumFunctionOnSet(f, {}) = 0
<1>. TAKE f
<1>1. PICK g : AddsUp(f, {}, g) /\ SumFunctionOnSet(f, {}) = g[{}]
  BY SumAddsUp, FS_EmptySet
<1>. QED  BY <1>1 DEF AddsUp

\* The sum of a subset is what the function of the whole set says of it.
LEMMA SumOfSubset ==
  ASSUME NEW f, NEW S, IsFiniteSet(S), NEW g, AddsUp(f, S, g), NEW W \in SUBSET S
  PROVE  SumFunctionOnSet(f, W) = g[W]
<1>1. IsFiniteSet(W)
  BY FS_Subset
<1>2. PICK k : AddsUp(f, W, k) /\ SumFunctionOnSet(f, W) = k[W]
  BY <1>1, SumAddsUp
<1>. QED  BY <1>1, <1>2, AddsUpUnique

\* The sum of a set that is not empty takes its chosen element first.
LEMMA SumTakesChosen ==
  ASSUME NEW f, NEW S, IsFiniteSet(S), S # {}
  PROVE  SumFunctionOnSet(f, S) = f[Chosen(S)] + SumFunctionOnSet(f, S \ {Chosen(S)})
<1>1. PICK g : AddsUp(f, S, g) /\ SumFunctionOnSet(f, S) = g[S]
  BY SumAddsUp
<1>2. SumFunctionOnSet(f, S \ {Chosen(S)}) = g[S \ {Chosen(S)}]
  BY <1>1, SumOfSubset
<1>. QED  BY <1>1, <1>2 DEF AddsUp

\* Integers add up to an integer ...
THEOREM SumInt ==
  ASSUME NEW f, NEW S, IsFiniteSet(S), \A x \in S : f[x] \in Int
  PROVE  SumFunctionOnSet(f, S) \in Int
<1>. DEFINE T == {U \in SUBSET S : SumFunctionOnSet(f, U) \in Int}
<1>1. ASSUME NEW U \in SUBSET S, \A V \in SUBSET U : V # U => V \in T
      PROVE  U \in T
  <2>1. CASE U = {}
    BY <2>1, SumEmpty
  <2>2. CASE U # {}
    <3>1. Chosen(U) \in U /\ IsFiniteSet(U)
      BY <2>2, ChosenIn, FS_Subset
    <3>2. SumFunctionOnSet(f, U \ {Chosen(U)}) \in Int
      BY <1>1, <3>1
    <3>. QED  BY <2>2, <3>1, <3>2, SumTakesChosen
  <2>. QED  BY <2>1, <2>2
<1>2. \A U \in SUBSET S : U \in T
  <2>. HIDE DEF T
  <2>. QED  BY <1>1, SubsetInduction
<1>. QED  BY <1>2

\* Every element may be taken out first.
THEOREM SumRemove ==
  ASSUME NEW f, NEW S, IsFiniteSet(S), \A x \in S : f[x] \in Int, NEW y \in S
  PROVE  SumFunctionOnSet(f, S) = f[y] + SumFunctionOnSet(f, S \ {y})
<1>. DEFINE Total(U) == SumFunctionOnSet(f, U)
            T == {U \in SUBSET S : \A z \in U : Total(U) = f[z] + Total(U \ {z})}
<1>1. ASSUME NEW U \in SUBSET S, \A V \in SUBSET U : V # U => V \in T
      PROVE  U \in T
  <2>. SUFFICES ASSUME NEW z \in U  PROVE Total(U) = f[z] + Total(U \ {z})
    OBVIOUS
  <2>. DEFINE c == Chosen(U)
  <2>1. c \in U /\ IsFiniteSet(U) /\ IsFiniteSet(U \ {c}) /\ Total(U) = f[c] + Total(U \ {c})
    BY ChosenIn, FS_Subset, SumTakesChosen
  <2>. HIDE DEF c
  <2>2. CASE z = c
    BY <2>1, <2>2
  <2>3. CASE z # c
    <3>1. U \ {c} \in T /\ U \ {z} \in T
      BY <1>1, <2>1
    <3>2. Total(U \ {c}) = f[z] + Total((U \ {c}) \ {z})
      BY <2>3, <3>1
    <3>3. Total(U \ {z}) = f[c] + Total((U \ {z}) \ {c})
      BY <2>1, <2>3, <3>1
    <3>4. (U \ {c}) \ {z} = (U \ {z}) \ {c}
      OBVIOUS
    <3>5. Total((U \ {c}) \ {z}) \in Int
      <4>1. IsFiniteSet((U \ {c}) \ {z}) /\ (U \ {c}) \ {z} \subseteq S
        BY FS_Subset
      <4>. QED  BY <4>1, SumInt
    <3>6. f[c] \in Int /\ f[z] \in Int
      BY <2>1
    <3>7. Total(U \ {z}) = f[c] + Total((U \ {c}) \ {z})
      BY <3>3, <3>4
    <3>. DEFINE rest == Total((U \ {c}) \ {z})
    <3>8. Total(U) = f[c] + (f[z] + rest) /\ Total(U \ {z}) = f[c] + rest /\ rest \in Int
      BY <2>1, <3>2, <3>5, <3>7
    <3>. HIDE DEF Total, rest
    <3>. QED  BY <3>6, <3>8
  <2>. QED  BY <2>2, <2>3
<1>2. \A U \in SUBSET S : U \in T
  <2>. HIDE DEF T
  <2>. QED  BY <1>1, SubsetInduction
<1>. QED  BY <1>2

\* An element that joins adds what it counts.
THEOREM SumAdd ==
  ASSUME NEW f, NEW S, IsFiniteSet(S), NEW y, y \notin S, \A x \in S \cup {y} : f[x] \in Int
  PROVE  SumFunctionOnSet(f, S \cup {y}) = SumFunctionOnSet(f, S) + f[y]
<1>1. IsFiniteSet(S \cup {y}) /\ (S \cup {y}) \ {y} = S
  BY FS_AddElement
<1>2. SumFunctionOnSet(f, S \cup {y}) = f[y] + SumFunctionOnSet(f, S)
  BY <1>1, SumRemove
<1>. QED  BY <1>2, SumInt

\* ... and so does one that counts anew.
THEOREM SumUpdate ==
  ASSUME NEW f, NEW h, NEW S, IsFiniteSet(S), NEW y \in S,
         \A x \in S : f[x] \in Int /\ h[x] \in Int,
         \A x \in S \ {y} : h[x] = f[x]
  PROVE  SumFunctionOnSet(h, S) = SumFunctionOnSet(f, S) - f[y] + h[y]
<1>1. IsFiniteSet(S \ {y})
  BY FS_RemoveElement
<1>2. SumFunctionOnSet(h, S \ {y}) = SumFunctionOnSet(f, S \ {y})
  BY <1>1, SumSame
<1>3. SumFunctionOnSet(f, S) = f[y] + SumFunctionOnSet(f, S \ {y})
  BY SumRemove
<1>4. SumFunctionOnSet(h, S) = h[y] + SumFunctionOnSet(h, S \ {y})
  BY SumRemove
<1>5. SumFunctionOnSet(f, S \ {y}) \in Int
  BY <1>1, SumInt
<1>. QED  BY <1>2, <1>3, <1>4, <1>5

\* What is nowhere more adds up to no more.
THEOREM SumMonotone ==
  ASSUME NEW f, NEW h, NEW S, IsFiniteSet(S), \A x \in S : f[x] \in Int /\ h[x] \in Int /\ f[x] <= h[x]
  PROVE  SumFunctionOnSet(f, S) <= SumFunctionOnSet(h, S)
<1>. DEFINE T == {U \in SUBSET S : SumFunctionOnSet(f, U) <= SumFunctionOnSet(h, U)}
<1>1. ASSUME NEW U \in SUBSET S, \A V \in SUBSET U : V # U => V \in T
      PROVE  U \in T
  <2>1. CASE U = {}
    BY <2>1, SumEmpty
  <2>2. CASE U # {}
    <3>. PICK c \in U : TRUE
      BY <2>2
    <3>1. U \ {c} \in T /\ IsFiniteSet(U) /\ IsFiniteSet(U \ {c})
      BY <1>1, FS_Subset
    <3>2. SumFunctionOnSet(f, U) = f[c] + SumFunctionOnSet(f, U \ {c})
      BY <3>1, SumRemove
    <3>3. SumFunctionOnSet(h, U) = h[c] + SumFunctionOnSet(h, U \ {c})
      BY <3>1, SumRemove
    <3>4. SumFunctionOnSet(f, U \ {c}) \in Int /\ SumFunctionOnSet(h, U \ {c}) \in Int
      BY <3>1, SumInt
    <3>. QED  BY <3>1, <3>2, <3>3, <3>4
  <2>. QED  BY <2>1, <2>2
<1>2. \A U \in SUBSET S : U \in T
  <2>. HIDE DEF T
  <2>. QED  BY <1>1, SubsetInduction
<1>. QED  BY <1>2

\* If none counts more than n, the sum is at most n for each.
THEOREM SumBounded ==
  ASSUME NEW f, NEW S, IsFiniteSet(S), NEW n \in Nat, \A x \in S : f[x] \in Int /\ f[x] <= n
  PROVE  SumFunctionOnSet(f, S) <= Cardinality(S) * n
<1>. DEFINE T == {U \in SUBSET S : SumFunctionOnSet(f, U) <= Cardinality(U) * n}
<1>1. ASSUME NEW U \in SUBSET S, \A V \in SUBSET U : V # U => V \in T
      PROVE  U \in T
  <2>1. CASE U = {}
    BY <2>1, SumEmpty, FS_EmptySet
  <2>2. CASE U # {}
    <3>. PICK c \in U : TRUE
      BY <2>2
    <3>1. U \ {c} \in T /\ IsFiniteSet(U) /\ IsFiniteSet(U \ {c})
      BY <1>1, FS_Subset
    <3>2. SumFunctionOnSet(f, U) = f[c] + SumFunctionOnSet(f, U \ {c})
      BY <3>1, SumRemove
    <3>3. Cardinality(U \ {c}) = Cardinality(U) - 1 /\ Cardinality(U) \in Nat
      BY <3>1, FS_RemoveElement, FS_CardinalityType
    <3>4. SumFunctionOnSet(f, U \ {c}) \in Int /\ f[c] \in Int /\ f[c] <= n
      BY <3>1, SumInt
    <3>5. (Cardinality(U) - 1) * n + n = Cardinality(U) * n
      BY <3>3
    <3>6. (Cardinality(U) - 1) * n \in Int /\ Cardinality(U) * n \in Int
      BY <3>3
    <3>. QED  BY <3>1, <3>2, <3>3, <3>4, <3>5, <3>6
  <2>. QED  BY <2>1, <2>2
<1>2. \A U \in SUBSET S : U \in T
  <2>. HIDE DEF T
  <2>. QED  BY <1>1, SubsetInduction
<1>. QED  BY <1>2

\* If none counts less than n, the sum is at least n for each.
THEOREM SumAtLeast ==
  ASSUME NEW f, NEW S, IsFiniteSet(S), NEW n \in Int, \A x \in S : f[x] \in Int /\ n <= f[x]
  PROVE  Cardinality(S) * n <= SumFunctionOnSet(f, S)
<1>. DEFINE T == {U \in SUBSET S : Cardinality(U) * n <= SumFunctionOnSet(f, U)}
<1>1. ASSUME NEW U \in SUBSET S, \A V \in SUBSET U : V # U => V \in T
      PROVE  U \in T
  <2>1. CASE U = {}
    BY <2>1, SumEmpty, FS_EmptySet
  <2>2. CASE U # {}
    <3>. PICK c \in U : TRUE
      BY <2>2
    <3>1. U \ {c} \in T /\ IsFiniteSet(U) /\ IsFiniteSet(U \ {c})
      BY <1>1, FS_Subset
    <3>2. SumFunctionOnSet(f, U) = f[c] + SumFunctionOnSet(f, U \ {c})
      BY <3>1, SumRemove
    <3>3. Cardinality(U \ {c}) = Cardinality(U) - 1 /\ Cardinality(U) \in Nat
      BY <3>1, FS_RemoveElement, FS_CardinalityType
    <3>4. SumFunctionOnSet(f, U \ {c}) \in Int /\ f[c] \in Int /\ n <= f[c]
      BY <3>1, SumInt
    <3>5. (Cardinality(U) - 1) * n + n = Cardinality(U) * n
      BY <3>3
    <3>6. (Cardinality(U) - 1) * n \in Int /\ Cardinality(U) * n \in Int
      BY <3>3
    <3>. QED  BY <3>1, <3>2, <3>3, <3>4, <3>5, <3>6
  <2>. QED  BY <2>1, <2>2
<1>2. \A U \in SUBSET S : U \in T
  <2>. HIDE DEF T
  <2>. QED  BY <1>1, SubsetInduction
<1>. QED  BY <1>2

\* What counts nothing may be left out.
THEOREM SumOfPart ==
  ASSUME NEW f, NEW S, IsFiniteSet(S), NEW R \in SUBSET S,
         \A x \in S : f[x] \in Int, \A x \in S \ R : f[x] = 0
  PROVE  SumFunctionOnSet(f, S) = SumFunctionOnSet(f, R)
<1>. DEFINE T == {U \in SUBSET S : SumFunctionOnSet(f, U) = SumFunctionOnSet(f, U \cap R)}
<1>1. ASSUME NEW U \in SUBSET S, \A V \in SUBSET U : V # U => V \in T
      PROVE  U \in T
  <2>1. CASE U \subseteq R
    <3>1. U \cap R = U
      BY <2>1
    <3>. QED  BY <3>1
  <2>2. CASE ~(U \subseteq R)
    <3>. PICK c \in U : c \notin R
      BY <2>2
    <3>1. U \ {c} \in T /\ IsFiniteSet(U) /\ IsFiniteSet(U \ {c})
      BY <1>1, FS_Subset
    <3>2. SumFunctionOnSet(f, U) = f[c] + SumFunctionOnSet(f, U \ {c}) /\ f[c] = 0
      BY <3>1, SumRemove
    <3>3. SumFunctionOnSet(f, U \ {c}) \in Int
      BY <3>1, SumInt
    <3>4. PICK V : V = U \ {c}
      OBVIOUS
    <3>5. V \cap R = U \cap R /\ V \in T
      BY <3>1, <3>4
    <3>6. SumFunctionOnSet(f, V) = SumFunctionOnSet(f, U \cap R)
      BY <3>5
    <3>7. SumFunctionOnSet(f, U) = SumFunctionOnSet(f, V)
      BY <3>2, <3>3, <3>4
    <3>. QED  BY <3>6, <3>7
  <2>. QED  BY <2>1, <2>2
<1>2. \A U \in SUBSET S : U \in T
  <2>. HIDE DEF T
  <2>. QED  BY <1>1, SubsetInduction
<1>3. S \cap R = R
  OBVIOUS
<1>. QED  BY <1>2, <1>3

\* What counts nothing everywhere adds up to nothing.
THEOREM SumZero ==
  ASSUME NEW f, NEW S, IsFiniteSet(S), \A x \in S : f[x] = 0
  PROVE  SumFunctionOnSet(f, S) = 0
<1>. DEFINE T == {U \in SUBSET S : SumFunctionOnSet(f, U) = 0}
<1>1. ASSUME NEW U \in SUBSET S, \A V \in SUBSET U : V # U => V \in T
      PROVE  U \in T
  <2>1. CASE U = {}
    BY <2>1, SumEmpty
  <2>2. CASE U # {}
    <3>. PICK c \in U : TRUE
      BY <2>2
    <3>1. U \ {c} \in T /\ IsFiniteSet(U)
      BY <1>1, FS_Subset
    <3>2. SumFunctionOnSet(f, U) = f[c] + SumFunctionOnSet(f, U \ {c})
      BY <3>1, SumRemove
    <3>. QED  BY <3>1, <3>2
  <2>. QED  BY <2>1, <2>2
<1>2. \A U \in SUBSET S : U \in T
  <2>. HIDE DEF T
  <2>. QED  BY <1>1, SubsetInduction
<1>. QED  BY <1>2

\* Natural numbers add up to one.
THEOREM SumNat ==
  ASSUME NEW f, NEW S, IsFiniteSet(S), \A x \in S : f[x] \in Nat
  PROVE  SumFunctionOnSet(f, S) \in Nat
<1>. DEFINE zero == [x \in S |-> 0]
<1>1. SumFunctionOnSet(zero, S) = 0
  BY SumZero
<1>2. SumFunctionOnSet(zero, S) <= SumFunctionOnSet(f, S)
  BY SumMonotone
<1>. QED  BY <1>1, <1>2, SumInt

\* As many or fewer of the same size come to as much or less.
LEMMA ProductMonotone ==
  ASSUME NEW m \in Nat, NEW n \in Nat, NEW k \in Nat, m <= n
  PROVE  m * k \in Nat /\ n * k \in Nat /\ m * k <= n * k
<1>. DEFINE d == n - m
<1>1. d \in Nat /\ n = m + d
  OBVIOUS
<1>. HIDE DEF d
<1>2. m * k \in Nat /\ d * k \in Nat /\ n * k = m * k + d * k
  BY <1>1
<1>. QED  BY <1>2

-----------------------------------------------------------------------------
\* A finite set in a strict order, given as a set of pairs <<before, after>>: each element
\* has as many before it as its place says, and every place from 0 on is somebody's.
Before(R, S, x) == {q \in S : <<q, x>> \in R}

Ordered(R, S) ==
  /\ \A x \in S : <<x, x>> \notin R
  /\ \A x, y, z \in S : <<x, y>> \in R /\ <<y, z>> \in R => <<x, z>> \in R
  /\ \A x, y \in S : x # y => <<x, y>> \in R \/ <<y, x>> \in R

\* Who comes later has more before them.
LEMMA RankMonotone ==
  ASSUME NEW R, NEW S, IsFiniteSet(S), Ordered(R, S)
  PROVE  \A x, y \in S : <<x, y>> \in R => Cardinality(Before(R, S, x)) < Cardinality(Before(R, S, y))
<1>. SUFFICES ASSUME NEW x \in S, NEW y \in S, <<x, y>> \in R
              PROVE  Cardinality(Before(R, S, x)) < Cardinality(Before(R, S, y))
  OBVIOUS
<1>1. PICK X : X = Before(R, S, x)
  OBVIOUS
<1>2. PICK Y : Y = Before(R, S, y)
  OBVIOUS
<1>3. X \subseteq Y /\ x \in Y /\ x \notin X /\ Y \subseteq S
  BY <1>1, <1>2 DEF Before, Ordered
<1>4. IsFiniteSet(Y) /\ IsFiniteSet(X)
  BY <1>3, FS_Subset
<1>5. Cardinality(X) <= Cardinality(Y) /\ Cardinality(X) # Cardinality(Y)
  BY <1>3, <1>4, FS_Subset
<1>6. Cardinality(X) \in Nat /\ Cardinality(Y) \in Nat
  BY <1>4, FS_CardinalityType
<1>. QED  BY <1>1, <1>2, <1>5, <1>6

\* The places are those from 0 to the last.
THEOREM Ranks ==
  ASSUME NEW R, NEW S, IsFiniteSet(S), Ordered(R, S)
  PROVE  /\ \A x \in S : Cardinality(Before(R, S, x)) \in 0..(Cardinality(S) - 1)
         /\ \A x, y \in S : Cardinality(Before(R, S, x)) = Cardinality(Before(R, S, y)) => x = y
         /\ \A n \in 0..(Cardinality(S) - 1) : \E x \in S : Cardinality(Before(R, S, x)) = n
<1>. DEFINE place == [x \in S |-> Cardinality(Before(R, S, x))]
            T == 0..(Cardinality(S) - 1)
<1>1. Cardinality(S) \in Nat
  BY FS_CardinalityType
<1>2. ASSUME NEW x \in S  PROVE Cardinality(Before(R, S, x)) \in T
  <2>1. PICK X : X = Before(R, S, x)
    OBVIOUS
  <2>2. X \subseteq S /\ x \notin X
    BY <2>1 DEF Before, Ordered
  <2>3. Cardinality(X) <= Cardinality(S) /\ Cardinality(X) # Cardinality(S) /\ IsFiniteSet(X)
    BY <2>2, FS_Subset
  <2>4. Cardinality(X) \in Nat
    BY <2>3, FS_CardinalityType
  <2>. QED  BY <1>1, <2>1, <2>3, <2>4
<1>3. ASSUME NEW x \in S, NEW y \in S, place[x] = place[y]  PROVE x = y
  <2>1. CASE <<x, y>> \in R
    BY <1>2, <1>3, <2>1, RankMonotone
  <2>2. CASE <<y, x>> \in R
    BY <1>2, <1>3, <2>2, RankMonotone
  <2>. QED  BY <2>1, <2>2 DEF Ordered
<1>4. place \in Injection(S, T)
  BY <1>2, <1>3, Fun_IsInj
<1>5. IsFiniteSet(T) /\ Cardinality(T) = Cardinality(S)
  BY <1>1, FS_Interval
<1>6. place \in Surjection(S, T)
  BY <1>4, <1>5, FS_Injection
<1>7. \A n \in T : \E x \in S : place[x] = n
  <2>. HIDE DEF place, T
  <2>. QED  BY <1>6, Fun_SurjectionProperties
<1>. QED  BY <1>2, <1>3, <1>7

\* The first n of a finite ordered set are n, or all of them.
THEOREM FirstOnes ==
  ASSUME NEW R, NEW S, IsFiniteSet(S), Ordered(R, S), NEW n \in Nat
  PROVE  LET First == {x \in S : Cardinality(Before(R, S, x)) < n} IN
         /\ n <= Cardinality(S) => Cardinality(First) = n
         /\ Cardinality(S) <= n => First = S
<1>. DEFINE First == {x \in S : Cardinality(Before(R, S, x)) < n}
            place == [x \in First |-> Cardinality(Before(R, S, x))]
<1>1. Cardinality(S) \in Nat
  BY FS_CardinalityType
<1>2. Cardinality(S) <= n => First = S
  BY <1>1, Ranks
<1>3. ASSUME n <= Cardinality(S)  PROVE Cardinality(First) = n
  <2>1. place \in [First -> 0..(n - 1)]
    BY Ranks
  <2>2. \A x, y \in First : place[x] = place[y] => x = y
    BY Ranks
  <2>3. \A k \in 0..(n - 1) : \E x \in First : place[x] = k
    BY <1>1, <1>3, Ranks
  <2>4. place \in Injection(First, 0..(n - 1)) /\ place \in Surjection(First, 0..(n - 1))
    BY <2>1, <2>2, <2>3, Fun_IsInj, Fun_IsSurj
  <2>5. IsFiniteSet(First)
    BY FS_Subset
  <2>6. IsFiniteSet(0..(n - 1)) /\ Cardinality(0..(n - 1)) = n
    BY FS_Interval
  <2>. QED  BY <2>4, <2>5, <2>6, FS_Injection
<1>. QED  BY <1>2, <1>3

-----------------------------------------------------------------------------
\* What holds of 0, and of the next number whenever it holds of one, holds of all.
THEOREM NumberInduction ==
  ASSUME NEW T, 0 \in T, \A n \in Nat : n \in T => n + 1 \in T
  PROVE  \A n \in Nat : n \in T
<1>. SUFFICES ASSUME NEW n \in Nat, n \notin T  PROVE FALSE
  OBVIOUS
<1>. DEFINE Least(U) == \E m \in U : \A k \in U : m <= k
            L == {U \in SUBSET (0..n) : U # {} => Least(U)}
            Bad == {k \in 0..n : k \notin T}
<1>1. ASSUME NEW U \in SUBSET (0..n), \A V \in SUBSET U : V # U => V \in L
      PROVE  U \in L
  <2>. SUFFICES ASSUME U # {}  PROVE Least(U)
    OBVIOUS
  <2>. PICK c \in U : TRUE
    OBVIOUS
  <2>1. CASE U \ {c} = {}
    BY <2>1
  <2>2. CASE U \ {c} # {}
    <3>1. U \ {c} \in L
      BY <1>1
    <3>2. PICK m \in U \ {c} : \A k \in U \ {c} : m <= k
      BY <2>2, <3>1
    <3>. QED  BY <3>2
  <2>. QED  BY <2>1, <2>2
<1>2. \A U \in SUBSET (0..n) : U \in L
  <2>1. PICK S : S = 0..n
    OBVIOUS
  <2>2. IsFiniteSet(S)
    BY <2>1, FS_Interval
  <2>. HIDE DEF L
  <2>3. \A U \in SUBSET S : (\A V \in SUBSET U : V # U => V \in L) => U \in L
    BY <1>1, <2>1
  <2>4. \A U \in SUBSET S : U \in L
    BY <2>2, <2>3, SubsetInduction
  <2>. QED  BY <2>1, <2>4
<1>3. Bad \in L /\ Bad # {}
  <2>. HIDE DEF L
  <2>. QED  BY <1>2
<1>4. PICK m \in Bad : \A k \in Bad : m <= k
  BY <1>3
<1>5. m # 0 /\ m - 1 \in 0..n /\ m - 1 \notin Bad
  BY <1>4
<1>. QED  BY <1>4, <1>5

\* Induction from 1 on.
THEOREM CountingInduction ==
  ASSUME NEW T, 1 \in T, \A n \in Nat \ {0} : n \in T => n + 1 \in T
  PROVE  \A n \in Nat \ {0} : n \in T
<1>. DEFINE U == {0} \cup T
<1>1. ASSUME NEW n \in Nat, n \in U  PROVE n + 1 \in U
  BY <1>1
<1>2. \A n \in Nat : n \in U
  <2>1. 0 \in U
    OBVIOUS
  <2>. HIDE DEF U
  <2>. QED  BY <1>1, <2>1, NumberInduction
<1>. QED  BY <1>2
===============================================================================
