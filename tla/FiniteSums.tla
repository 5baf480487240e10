----------------------------- MODULE FiniteSums -----------------------------
(***************************************************************************)
(* What the proofs need of sums over finite sets: the totals that the      *)
(* tools of the SDK keep in a counter and the specifications state as a    *)
(* sum over a set.                                                         *)
(*                                                                         *)
(* The values to add are a function w.  A sum is a function g on the       *)
(* subsets of a set that takes one element away at a time, as the fold of  *)
(* the community modules does.  Induction is by minimal counterexample:    *)
(* WFMin speaks of sets, which the provers can instantiate.                *)
(***************************************************************************)
EXTENDS Integers, FiniteSets, FiniteSetTheorems, WellFoundedInduction, TLAPS

IsSum(w, S, g) ==
    g = [s \in SUBSET S |->
            IF s = {} THEN 0
            ELSE w[CHOOSE x \in s : TRUE] + g[s \ {CHOOSE x \in s : TRUE}]]

\* the sum of w over the finite set S
Sum(w, S) == (CHOOSE g : IsSum(w, S, g))[S]

-----------------------------------------------------------------------------

\* A property of the empty set that a set has when it has lost one element
\* and still has it: a property of all finite sets.
LEMMA SubsetInduction ==
    ASSUME NEW S, IsFiniteSet(S), NEW P,
           \A s \in SUBSET S : (\A x \in s : s \ {x} \in P) => s \in P
    PROVE  \A s \in SUBSET S : s \in P
<1> DEFINE T == (SUBSET S) \ P
<1> SUFFICES ASSUME T # {} PROVE FALSE
  OBVIOUS
<1>1. IsWellFoundedOn(StrictSubsetOrdering(S), SUBSET S)
  <2>1. IsWellFoundedOn(StrictSubsetOrdering(S), FiniteSubsetsOf(S))
    BY FS_StrictSubsetOrderingWellFounded
  <2>2. FiniteSubsetsOf(S) = SUBSET S
    BY FS_FiniteSubsetsOfFinite
  <2> QED
    BY <2>1, <2>2
<1>2. T \subseteq SUBSET S
  OBVIOUS
<1> HIDE DEF T
<1>3. PICK s \in T : \A t \in T : <<t, s>> \notin StrictSubsetOrdering(S)
  BY <1>1, <1>2, WFMin
<1>4. ASSUME NEW x \in s PROVE s \ {x} \in P
  <2>1. s \ {x} \in SUBSET S /\ s \ {x} \subseteq s /\ s \ {x} # s
    BY <1>2
  <2>2. s \in SUBSET S
    BY <1>2
  <2>3. <<s \ {x}, s>> \in StrictSubsetOrdering(S)
    BY <2>1, <2>2 DEF StrictSubsetOrdering
  <2>4. s \ {x} \notin T
    BY <2>3, <1>3
  <2> QED
    BY <2>1, <2>4 DEF T
<1> QED
  BY <1>2, <1>4 DEF T

LEMMA CountUpTo ==
    ASSUME NEW n \in Nat
    PROVE  IsFiniteSet(1..n) /\ Cardinality(1..n) = n
<1>1. IsFiniteSet(1..n) /\ Cardinality(1..n) = IF 1 > n THEN 0 ELSE n - 1 + 1
  BY FS_Interval
<1> QED
  BY <1>1

\* Two sums agree on the sets that both know.
LEMMA SumsAgree ==
    ASSUME NEW w, NEW A, NEW B, NEW g, NEW h, IsSum(w, A, g), IsSum(w, B, h),
           NEW S, IsFiniteSet(S), S \subseteq A, S \subseteq B
    PROVE  g[S] = h[S]
<1> DEFINE P == {s \in SUBSET S : g[s] = h[s]}
<1>1. ASSUME NEW s \in SUBSET S, \A x \in s : s \ {x} \in P
      PROVE  s \in P
  <2>1. s \in SUBSET A /\ s \in SUBSET B
    OBVIOUS
  <2>2. CASE s = {}
    <3>1. g[s] = 0 /\ h[s] = 0
      BY <2>1, <2>2 DEF IsSum
    <3> QED
      BY <3>1
  <2>3. CASE s # {}
    <3> DEFINE c == CHOOSE x \in s : TRUE
    <3>1. c \in s
      BY <2>3
    <3>2. g[s] = w[c] + g[s \ {c}]
      BY <2>1, <2>3 DEF IsSum
    <3>3. h[s] = w[c] + h[s \ {c}]
      BY <2>1, <2>3 DEF IsSum
    <3>4. s \ {c} \in P
      BY <1>1, <3>1
    <3> QED
      BY <3>2, <3>3, <3>4
  <2> QED
    BY <2>2, <2>3
<1>2. S \in P
  <2> HIDE DEF P
  <2>1. \A s \in SUBSET S : s \in P
    BY <1>1, SubsetInduction
  <2> QED
    BY <2>1
<1> QED
  BY <1>2

\* Every finite set has a sum.
LEMMA SumExists ==
    ASSUME NEW w, NEW S, IsFiniteSet(S)
    PROVE  \E g : IsSum(w, S, g)
<1> DEFINE P == {s \in SUBSET S : \E g : IsSum(w, s, g)}
<1>1. ASSUME NEW s \in SUBSET S, \A x \in s : s \ {x} \in P
      PROVE  s \in P
  <2> DEFINE G == [x \in s |-> CHOOSE g : IsSum(w, s \ {x}, g)]
             Out(t) == CHOOSE x \in s : x \notin t
             first == CHOOSE x \in s : TRUE
             g == [t \in SUBSET s |->
                      IF t # s THEN G[Out(t)][t]
                      ELSE IF s = {} THEN 0 ELSE w[first] + G[first][s \ {first}]]
  <2>1. \A x \in s : IsSum(w, s \ {x}, G[x])
    BY <1>1
  <2>2. \A t \in SUBSET s : t # s => Out(t) \in s /\ t \subseteq s \ {Out(t)}
    OBVIOUS
  <2>3. \A t \in SUBSET s : IsFiniteSet(t)
    BY FS_Subset
  <2>4. ASSUME NEW t \in SUBSET s, NEW x \in s, x \notin t
        PROVE  g[t] = G[x][t]
    <3>0. t # s
      BY <2>4
    <3>1. t # s /\ g[t] = G[Out(t)][t]
      BY <3>0
    <3>2. Out(t) \in s /\ t \subseteq s \ {Out(t)} /\ t \subseteq s \ {x}
      BY <3>1, <2>2, <2>4
    <3> HIDE DEF G, Out, g
    <3>3. IsSum(w, s \ {Out(t)}, G[Out(t)]) /\ IsSum(w, s \ {x}, G[x]) /\ IsFiniteSet(t)
      BY <3>2, <2>1, <2>3
    <3>4. G[Out(t)][t] = G[x][t]
      <4> HIDE DEF P
      <4> QED
        BY <3>2, <3>3, SumsAgree
    <3> QED
      BY <3>1, <3>4
  <2>5. ASSUME NEW t \in SUBSET s
        PROVE  g[t] = IF t = {} THEN 0
                      ELSE w[CHOOSE x \in t : TRUE] + g[t \ {CHOOSE x \in t : TRUE}]
    <3> DEFINE c == CHOOSE x \in t : TRUE
    <3>1. CASE t # s
      <4> DEFINE y == Out(t)
      <4>1. y \in s /\ t \subseteq s \ {y} /\ y \notin t
        BY <3>1, <2>2
      <4>2. g[t] = G[y][t] /\ g[t \ {c}] = G[y][t \ {c}]
        <5> HIDE DEF g, G, y, c
        <5> QED
          BY <4>1, <2>4
      <4>3. G[y][t] = IF t = {} THEN 0 ELSE w[c] + G[y][t \ {c}]
        <5>1. IsSum(w, s \ {y}, G[y]) /\ t \in SUBSET (s \ {y})
          BY <4>1, <2>1
        <5> HIDE DEF G, y
        <5> QED
          BY <5>1 DEF IsSum
      <4> QED
        BY <4>2, <4>3
    <3>2. CASE t = s /\ s = {}
      BY <3>2
    <3>3. CASE t = s /\ s # {}
      <4>1. c = first /\ c \in s
        BY <3>3
      <4>2. g[t] = w[first] + G[first][s \ {first}]
        BY <3>3
      <4>3. g[s \ {c}] = G[c][s \ {c}]
        <5> HIDE DEF g, G, c
        <5> QED
          BY <4>1, <2>4
      <4> QED
        BY <3>3, <4>1, <4>2, <4>3
    <3> QED
      BY <3>1, <3>2, <3>3
  <2>6. IsSum(w, s, g)
    <3>1. g = [t \in SUBSET s |-> g[t]]
      OBVIOUS
    <3> HIDE DEF g
    <3> QED
      BY <3>1, <2>5 DEF IsSum
  <2> QED
    BY <2>6
<1>2. S \in P
  <2> HIDE DEF P
  <2>1. \A s \in SUBSET S : s \in P
    BY <1>1, SubsetInduction
  <2> QED
    BY <2>1
<1> QED
  BY <1>2

\* The value of any function that adds up is the sum.
LEMMA SumIs ==
    ASSUME NEW w, NEW S, IsFiniteSet(S), NEW g, IsSum(w, S, g)
    PROVE  g[S] = Sum(w, S)
<1> DEFINE h == CHOOSE f : IsSum(w, S, f)
<1>1. IsSum(w, S, h)
  OBVIOUS
<1>2. h[S] = Sum(w, S)
  BY DEF Sum
<1> HIDE DEF h
<1> QED
  BY <1>1, <1>2, SumsAgree

LEMMA SumOfNothing == \A w : Sum(w, {}) = 0
<1> TAKE w
<1>1. IsFiniteSet({})
  BY FS_EmptySet
<1>2. PICK g : IsSum(w, {}, g)
  BY <1>1, SumExists
<1>3. g[{}] = 0
  BY <1>2 DEF IsSum
<1> QED
  BY <1>1, <1>2, <1>3, SumIs

\* The fold takes away the element that CHOOSE names.
LEMMA SumChosen ==
    ASSUME NEW w, NEW S, IsFiniteSet(S), S # {}
    PROVE  Sum(w, S) = w[CHOOSE x \in S : TRUE] + Sum(w, S \ {CHOOSE x \in S : TRUE})
<1> DEFINE c == CHOOSE x \in S : TRUE
<1>1. IsFiniteSet(S \ {c})
  BY FS_RemoveElement
<1>2. PICK g : IsSum(w, S, g)
  BY SumExists
<1>3. PICK h : IsSum(w, S \ {c}, h)
  BY <1>1, SumExists
<1>4. g[S] = w[c] + g[S \ {c}]
  BY <1>2 DEF IsSum
<1>5. g[S \ {c}] = h[S \ {c}]
  <2> HIDE DEF c
  <2> QED
    BY <1>1, <1>2, <1>3, SumsAgree
<1>6. g[S] = Sum(w, S) /\ h[S \ {c}] = Sum(w, S \ {c})
  <2> HIDE DEF c
  <2> QED
    BY <1>1, <1>2, <1>3, SumIs
<1> QED
  BY <1>4, <1>5, <1>6

LEMMA SumType ==
    ASSUME NEW S, IsFiniteSet(S), NEW w, \A x \in S : w[x] \in Nat
    PROVE  Sum(w, S) \in Nat
<1> DEFINE P == {s \in SUBSET S : Sum(w, s) \in Nat}
<1>1. ASSUME NEW s \in SUBSET S, \A x \in s : s \ {x} \in P
      PROVE  s \in P
  <2>1. CASE s = {}
    BY <2>1, SumOfNothing
  <2>2. CASE s # {}
    <3> DEFINE c == CHOOSE x \in s : TRUE
    <3>1. c \in s
      BY <2>2
    <3>2. Sum(w, s) = w[c] + Sum(w, s \ {c})
      BY <2>2, FS_Subset, SumChosen
    <3>3. w[c] \in Nat /\ Sum(w, s \ {c}) \in Nat
      BY <1>1, <3>1
    <3> HIDE DEF c
    <3> QED
      BY <3>2, <3>3
  <2> QED
    BY <2>1, <2>2
<1>2. \A s \in SUBSET S : s \in P
  <2> HIDE DEF P
  <2> QED
    BY <1>1, SubsetInduction
<1> QED
  BY <1>2

\* Any element may be taken away first.
LEMMA SumRemove ==
    ASSUME NEW S, IsFiniteSet(S), NEW w, \A x \in S : w[x] \in Nat, NEW e \in S
    PROVE  Sum(w, S) = Sum(w, S \ {e}) + w[e]
<1> DEFINE P == {s \in SUBSET S : \A x \in s : Sum(w, s) = Sum(w, s \ {x}) + w[x]}
<1>1. ASSUME NEW s \in SUBSET S, \A x \in s : s \ {x} \in P
      PROVE  s \in P
  <2> SUFFICES ASSUME NEW x \in s PROVE Sum(w, s) = Sum(w, s \ {x}) + w[x]
    OBVIOUS
  <2> DEFINE c == CHOOSE y \in s : TRUE
             r == s \ {c, x}
  <2>1. c \in s /\ x \in s /\ w[c] \in Nat /\ w[x] \in Nat
    OBVIOUS
  <2>2. Sum(w, s) = w[c] + Sum(w, s \ {c})
    BY FS_Subset, SumChosen
  <2>3. \A t \in SUBSET S : Sum(w, t) \in Nat
    BY FS_Subset, SumType
  <2> HIDE DEF c
  <2>4. CASE c = x
    BY <2>1, <2>2, <2>3, <2>4
  <2>5. CASE c # x
    <3>1. s \ {c} \in P /\ s \ {x} \in P
      BY <1>1, <2>1
    <3>2. (s \ {c}) \ {x} = r /\ (s \ {x}) \ {c} = r
      OBVIOUS
    <3>3. Sum(w, s \ {c}) = Sum(w, r) + w[x]
      BY <2>1, <2>5, <3>1, <3>2
    <3>4. Sum(w, s \ {x}) = Sum(w, r) + w[c]
      BY <2>1, <2>5, <3>1, <3>2
    <3>5. Sum(w, r) \in Nat
      BY <2>3
    <3> HIDE DEF r
    <3> QED
      BY <2>1, <2>2, <3>3, <3>4, <3>5
  <2> QED
    BY <2>4, <2>5
<1>2. \A s \in SUBSET S : s \in P
  <2> HIDE DEF P
  <2> QED
    BY <1>1, SubsetInduction
<1> QED
  BY <1>2

LEMMA SumAdd ==
    ASSUME NEW S, IsFiniteSet(S), NEW w, \A x \in S : w[x] \in Nat,
           NEW e, e \notin S, w[e] \in Nat
    PROVE  Sum(w, S \cup {e}) = Sum(w, S) + w[e]
<1>1. IsFiniteSet(S \cup {e})
  BY FS_AddElement
<1>2. (S \cup {e}) \ {e} = S
  OBVIOUS
<1>3. Sum(w, S \cup {e}) = Sum(w, (S \cup {e}) \ {e}) + w[e]
  <2> DEFINE T == S \cup {e}
  <2>1. e \in T /\ IsFiniteSet(T) /\ \A x \in T : w[x] \in Nat
    BY <1>1
  <2> HIDE DEF T
  <2>2. Sum(w, T) = Sum(w, T \ {e}) + w[e]
    BY <2>1, SumRemove
  <2> QED
    BY <2>2 DEF T
<1> QED
  BY <1>2, <1>3

\* A part adds up to no more than the whole.
LEMMA SumOfPart ==
    ASSUME NEW S, IsFiniteSet(S), NEW w, \A x \in S : w[x] \in Nat,
           NEW T \in SUBSET S
    PROVE  Sum(w, T) <= Sum(w, S)
<1> DEFINE P == {s \in SUBSET S : T \subseteq s => Sum(w, T) <= Sum(w, s)}
<1>1. ASSUME NEW s \in SUBSET S, \A x \in s : s \ {x} \in P
      PROVE  s \in P
  <2>1. \A t \in SUBSET S : IsFiniteSet(t) /\ Sum(w, t) \in Nat
    BY FS_Subset, SumType
  <2>2. CASE T = s
    BY <2>1, <2>2
  <2>3. CASE T \subseteq s /\ T # s
    <3>1. PICK e \in s : e \notin T
      BY <2>3
    <3>2. Sum(w, T) <= Sum(w, s \ {e})
      BY <1>1, <2>3, <3>1
    <3>3. Sum(w, s) = Sum(w, s \ {e}) + w[e]
      BY <2>1, SumRemove
    <3>4. /\ Sum(w, s \ {e}) \in Nat /\ w[e] \in Nat
          /\ Sum(w, s) \in Nat /\ Sum(w, T) \in Nat
      BY <2>1
    <3>5. Sum(w, T) <= Sum(w, s)
      BY <3>2, <3>3, <3>4
    <3> QED
      BY <3>5
  <2> QED
    BY <2>2, <2>3
<1>2. \A s \in SUBSET S : s \in P
  <2> HIDE DEF P
  <2> QED
    BY <1>1, SubsetInduction
<1> QED
  BY <1>2
=============================================================================
