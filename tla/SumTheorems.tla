---------------------------- MODULE SumTheorems ----------------------------
(***************************************************************************)
(* Facts about SumFunctionOnSet, the sum of a function's values over a     *)
(* finite set, that the books of the escrow, the node and the spending     *)
(* limits are stated with.  The sum is defined by recursion over subsets;  *)
(* what follows is proved by induction over the subsets of a finite set,   *)
(* the induction hypothesis being the set of subsets it holds of.          *)
(***************************************************************************)
EXTENDS Integers, FiniteSetsExt, FiniteSetTheorems, WellFoundedInduction, TLAPS

\* Induction over the subsets of a finite set: what holds of the empty set, and
\* of a set with one more element if it held without, holds of all of it.
LEMMA SubsetInduction ==
  ASSUME NEW S, IsFiniteSet(S), NEW Good,
         {} \in Good,
         \A T \in SUBSET S : \A x \in S \ T : T \in Good => T \cup {x} \in Good
  PROVE  S \in Good
<1> DEFINE R == StrictSubsetOrdering(S)
           Bad == (SUBSET S) \ Good
<1>1. IsWellFoundedOn(R, SUBSET S)
  BY FS_FiniteSubsetsOfFinite, FS_StrictSubsetOrderingWellFounded, Zenon
<1> HIDE DEF R
<1>2. ASSUME Bad # {} PROVE FALSE
  <2>1. Bad \subseteq SUBSET S
    OBVIOUS
  <2> HIDE DEF Bad
  <2>2. PICK T \in Bad : \A U \in Bad : ~ (<<U, T>> \in R)
    BY <1>1, <1>2, <2>1, WFMin, Zenon
  <2>3. T \in SUBSET S /\ T \notin Good
    BY <2>2 DEF Bad
  <2>4. PICK x \in T : TRUE
    BY <2>3
  <2>5. T \ {x} \in SUBSET S /\ x \in S \ (T \ {x}) /\ (T \ {x}) \cup {x} = T
    BY <2>3, <2>4
  <2>6. T \ {x} \notin Good
    BY <2>3, <2>5
  <2>7. <<T \ {x}, T>> \in R
    BY <2>3, <2>4, <2>5 DEF R, StrictSubsetOrdering
  <2> QED
    BY <2>2, <2>5, <2>6, <2>7 DEF Bad
<1> QED
  BY <1>2

---------------------------------------------------------------------------
(* The sum conforms to the equation it is defined by.                        *)

\* The element the sum takes out of a set first.
Chosen(s) == CHOOSE x \in s : TRUE

\* it sums f over every subset of S, one chosen element at a time.
Sums(f, S, it) ==
  it = [s \in SUBSET S |-> IF s = {} THEN 0 ELSE f[Chosen(s)] + it[s \ {Chosen(s)}]]

LEMMA ChosenIn == ASSUME NEW s, s # {} PROVE Chosen(s) \in s
BY DEF Chosen

\* The equation has a solution: built up one size of subset after the other.
LEMMA SumsExists ==
  ASSUME NEW f, NEW S, IsFiniteSet(S)
  PROVE  \E it : Sums(f, S, it)
<1> DEFINE Upto(T) == {s \in SUBSET S : Cardinality(s) <= Cardinality(T)}
           Solves(T, it) ==
             it = [s \in Upto(T) |-> IF s = {} THEN 0 ELSE f[Chosen(s)] + it[s \ {Chosen(s)}]]
           Good == {T \in SUBSET S : \E it : Solves(T, it)}
<1>0. \A s \in SUBSET S : IsFiniteSet(s) /\ Cardinality(s) \in Nat
  BY FS_Subset, FS_CardinalityType
<1>1. {} \in Good
  <2> DEFINE it == [s \in {{}} |-> 0]
  <2>1. Upto({}) = {{}}
    BY <1>0, FS_EmptySet
  <2>2. Solves({}, it)
    BY <2>1
  <2> QED
    BY <2>2
<1>2. ASSUME NEW T \in SUBSET S, NEW x \in S \ T, T \in Good
      PROVE  T \cup {x} \in Good
  <2>1. PICK h : Solves(T, h)
    BY <1>2
  <2> DEFINE Body(s) == IF s = {} THEN 0 ELSE f[Chosen(s)] + h[s \ {Chosen(s)}]
             g == [s \in Upto(T \cup {x}) |-> Body(s)]
  <2>2. Cardinality(T \cup {x}) = Cardinality(T) + 1 /\ Cardinality(T) \in Nat
    BY <1>0, FS_AddElement
  <2>3. ASSUME NEW s \in Upto(T \cup {x}), s # {}
        PROVE  g[s \ {Chosen(s)}] = h[s \ {Chosen(s)}]
    <3> DEFINE u == s \ {Chosen(s)}
    <3>1. Cardinality(u) = Cardinality(s) - 1 /\ Cardinality(s) \in Nat
      BY <1>0, <2>3, ChosenIn, FS_RemoveElement
    <3>2. u \in Upto(T) /\ u \in Upto(T \cup {x})
      BY <2>2, <3>1
    <3> HIDE DEF u
    <3>3. g[u] = Body(u)
      BY <3>2
    <3>4. h[u] = Body(u)
      BY <2>1, <3>2
    <3> QED
      BY <3>3, <3>4 DEF u
  <2>4. Solves(T \cup {x}, g)
    BY <2>3
  <2> QED
    BY <2>4
<1>3. S \in Good
  <2> HIDE DEF Good
  <2> QED
    BY <1>1, <1>2, SubsetInduction
<1>4. Upto(S) = SUBSET S
  BY FS_Subset
<1> QED
  BY <1>3, <1>4 DEF Sums

\* Two such functions agree where both are defined.
LEMMA SumsAgree ==
  ASSUME NEW f, NEW S, NEW T, NEW g, NEW h, Sums(f, S, g), Sums(f, T, h),
         NEW U \in SUBSET (S \cap T), IsFiniteSet(U)
  PROVE  g[U] = h[U]
<1> DEFINE Good == {s \in SUBSET U : \A t \in SUBSET U : Cardinality(t) <= Cardinality(s) => g[t] = h[t]}
<1>0. \A s \in SUBSET U : IsFiniteSet(s) /\ Cardinality(s) \in Nat
  BY FS_Subset, FS_CardinalityType
<1>1. {} \in Good
  BY <1>0, FS_EmptySet DEF Sums
<1>2. ASSUME NEW s \in SUBSET U, NEW x \in U \ s, s \in Good
      PROVE  s \cup {x} \in Good
  <2>1. Cardinality(s \cup {x}) = Cardinality(s) + 1
    BY <1>0, FS_AddElement
  <2>2. ASSUME NEW t \in SUBSET U, Cardinality(t) <= Cardinality(s) + 1, t # {}
        PROVE  g[t] = h[t]
    <3>1. Cardinality(t \ {Chosen(t)}) = Cardinality(t) - 1 /\ Cardinality(t) \in Nat
      BY <1>0, <2>2, ChosenIn, FS_RemoveElement
    <3>2. g[t \ {Chosen(t)}] = h[t \ {Chosen(t)}]
      BY <1>0, <1>2, <2>2, <3>1
    <3> QED
      BY <2>2, <3>2 DEF Sums
  <2>3. g[{}] = h[{}]
    BY DEF Sums
  <2> QED
    BY <2>1, <2>2, <2>3
<1>3. U \in Good
  <2> HIDE DEF Good
  <2> QED
    BY <1>1, <1>2, SubsetInduction
<1> QED
  BY <1>0, <1>3

LEMMA SumIsSums ==
  ASSUME NEW f, NEW S, IsFiniteSet(S)
  PROVE  \E it : Sums(f, S, it) /\ SumFunctionOnSet(f, S) = it[S]
<1> DEFINE it == CHOOSE it : Sums(f, S, it)
<1>1. Sums(f, S, it)
  BY SumsExists
<1>2. SumFunctionOnSet(f, S) = it[S]
  BY DEF SumFunctionOnSet, FoldFunctionOnSet, MapThenFoldSet, Sums, Chosen
<1> QED
  BY <1>1, <1>2

\* The definition, as an equation.
LEMMA SumUnfolds ==
  ASSUME NEW f, NEW S, IsFiniteSet(S)
  PROVE  SumFunctionOnSet(f, S) =
           IF S = {} THEN 0
           ELSE f[Chosen(S)] + SumFunctionOnSet(f, S \ {Chosen(S)})
<1> DEFINE T == S \ {Chosen(S)}
<1>1. IsFiniteSet(T)
  BY FS_RemoveElement
<1>2. PICK g : Sums(f, S, g) /\ SumFunctionOnSet(f, S) = g[S]
  BY SumIsSums
<1>3. PICK h : Sums(f, T, h) /\ SumFunctionOnSet(f, T) = h[T]
  BY <1>1, SumIsSums
<1>4. g[T] = h[T]
  BY <1>1, <1>2, <1>3, SumsAgree
<1>5. g[S] = IF S = {} THEN 0 ELSE f[Chosen(S)] + g[T]
  BY <1>2 DEF Sums
<1> QED
  BY <1>2, <1>3, <1>4, <1>5

---------------------------------------------------------------------------
(* What the sum of a function is.                                            *)

\* Nothing adds up to nothing.
LEMMA SumEmpty == ASSUME NEW f PROVE SumFunctionOnSet(f, {}) = 0
BY SumUnfolds, FS_EmptySet

\* Any element may be taken out first.
LEMMA SumRemove ==
  ASSUME NEW S, IsFiniteSet(S), NEW f, \A s \in S : f[s] \in Int, NEW x \in S
  PROVE  /\ SumFunctionOnSet(f, S) \in Int
         /\ SumFunctionOnSet(f, S) = f[x] + SumFunctionOnSet(f, S \ {x})
<1> DEFINE Sum(T) == SumFunctionOnSet(f, T)
           Any(T) == Sum(T) \in Int /\ \A y \in T : Sum(T) = f[y] + Sum(T \ {y})
           Good == {T \in SUBSET S : \A U \in SUBSET S : Cardinality(U) <= Cardinality(T) => Any(U)}
<1>0. \A T \in SUBSET S : IsFiniteSet(T) /\ Cardinality(T) \in Nat
  BY FS_Subset, FS_CardinalityType
<1>1. {} \in Good
  <2>1. \A U \in SUBSET S : Cardinality(U) <= Cardinality({}) => U = {}
    BY <1>0, FS_EmptySet
  <2>2. Any({})
    BY SumEmpty
  <2> HIDE DEF Any
  <2> QED
    BY <2>1, <2>2
<1>2. ASSUME NEW T \in SUBSET S, NEW z \in S \ T, T \in Good
      PROVE  T \cup {z} \in Good
  <2>1. Cardinality(T \cup {z}) = Cardinality(T) + 1
    BY <1>0, FS_AddElement
  <2>2. ASSUME NEW U \in SUBSET S, Cardinality(U) <= Cardinality(T) + 1, U # {}
        PROVE  Any(U)
    <3> DEFINE c == Chosen(U)
    <3>1. c \in U
      BY <2>2, ChosenIn
    <3> HIDE DEF c
    <3>2. \A y \in U : U \ {y} \in SUBSET S /\ Cardinality(U \ {y}) <= Cardinality(T)
      BY <1>0, <2>2, FS_RemoveElement
    <3>3. \A y \in U : Any(U \ {y})
      BY <1>2, <3>2
    <3>4. Sum(U) = f[c] + Sum(U \ {c})
      BY <1>0, <2>2, SumUnfolds DEF c
    <3>5. f[c] \in Int /\ Sum(U \ {c}) \in Int
      BY <3>1, <3>3
    <3>6. ASSUME NEW y \in U, y # c PROVE Sum(U) = f[y] + Sum(U \ {y})
      <4> DEFINE V == (U \ {c}) \ {y}
      <4>1. Sum(U \ {c}) = f[y] + Sum(V)
        BY <3>1, <3>3, <3>6
      <4>2. V = (U \ {y}) \ {c}
        OBVIOUS
      <4>3. V \in SUBSET S /\ Cardinality(V) <= Cardinality(T)
        <5>1. V = (U \ {c}) \cap (U \ {y}) /\ IsFiniteSet(U \ {c})
          BY <1>0, <3>1, <3>2
        <5>2. Cardinality(V) <= Cardinality(U \ {c}) /\ V \in SUBSET S
          BY <5>1, <3>2, FS_Subset
        <5> QED
          BY <1>0, <3>1, <3>2, <5>2
      <4>4. Sum(V) \in Int
        BY <1>2, <4>3
      <4> HIDE DEF V
      <4>5. Sum(U \ {y}) = f[c] + Sum(V)
        BY <3>1, <3>3, <3>6, <4>2
      <4>6. f[y] \in Int
        OBVIOUS
      <4> HIDE DEF Sum
      <4> QED
        BY <3>4, <3>5, <4>1, <4>4, <4>5, <4>6
    <3> QED
      BY <3>1, <3>4, <3>5, <3>6
  <2>3. Any({})
    BY SumEmpty
  <2> HIDE DEF Any
  <2> QED
    BY <2>1, <2>2, <2>3
<1>3. S \in Good
  <2> HIDE DEF Good
  <2> QED
    BY <1>1, <1>2, SubsetInduction
<1> QED
  BY <1>0, <1>3

\* A sum of integers is an integer, and one of natural numbers natural.
LEMMA SumInt ==
  ASSUME NEW S, IsFiniteSet(S), NEW f, \A s \in S : f[s] \in Int
  PROVE  SumFunctionOnSet(f, S) \in Int
<1>1. CASE S = {}
  BY <1>1, SumEmpty
<1>2. CASE S # {}
  BY <1>2, SumRemove
<1> QED
  BY <1>1, <1>2

LEMMA SumType ==
  ASSUME NEW S, IsFiniteSet(S), NEW f, \A s \in S : f[s] \in Nat
  PROVE  SumFunctionOnSet(f, S) \in Nat
<1> DEFINE Good == {T \in SUBSET S : SumFunctionOnSet(f, T) \in Nat}
<1>1. {} \in Good
  BY SumEmpty
<1>2. ASSUME NEW T \in SUBSET S, NEW x \in S \ T, T \in Good
      PROVE  T \cup {x} \in Good
  <2>1. IsFiniteSet(T \cup {x}) /\ (T \cup {x}) \ {x} = T
    BY FS_Subset, FS_AddElement
  <2>2. SumFunctionOnSet(f, T \cup {x}) = f[x] + SumFunctionOnSet(f, T)
    BY <2>1, SumRemove
  <2> QED
    BY <1>2, <2>2
<1>3. S \in Good
  <2> HIDE DEF Good
  <2> QED
    BY <1>1, <1>2, SubsetInduction
<1> QED
  BY <1>3

\* What each value moves by, the sum moves by.
LEMMA SumPointwise ==
  ASSUME NEW S, IsFiniteSet(S), NEW f, NEW g, NEW h,
         \A s \in S : f[s] \in Int /\ g[s] \in Int /\ h[s] = f[s] + g[s]
  PROVE  SumFunctionOnSet(h, S) = SumFunctionOnSet(f, S) + SumFunctionOnSet(g, S)
<1> DEFINE Good == {T \in SUBSET S : SumFunctionOnSet(h, T) = SumFunctionOnSet(f, T) + SumFunctionOnSet(g, T)}
<1>1. {} \in Good
  BY SumEmpty
<1>2. ASSUME NEW T \in SUBSET S, NEW x \in S \ T, T \in Good
      PROVE  T \cup {x} \in Good
  <2>1. IsFiniteSet(T) /\ IsFiniteSet(T \cup {x}) /\ (T \cup {x}) \ {x} = T
    BY FS_Subset, FS_AddElement
  <2>2. /\ SumFunctionOnSet(f, T \cup {x}) = f[x] + SumFunctionOnSet(f, T)
        /\ SumFunctionOnSet(f, T) \in Int /\ f[x] \in Int
    BY <2>1, SumRemove, SumInt
  <2>3. /\ SumFunctionOnSet(g, T \cup {x}) = g[x] + SumFunctionOnSet(g, T)
        /\ SumFunctionOnSet(g, T) \in Int /\ g[x] \in Int
    BY <2>1, SumRemove, SumInt
  <2>4. SumFunctionOnSet(h, T \cup {x}) = h[x] + SumFunctionOnSet(h, T) /\ h[x] = f[x] + g[x]
    BY <2>1, SumRemove
  <2>5. SumFunctionOnSet(h, T) = SumFunctionOnSet(f, T) + SumFunctionOnSet(g, T)
    BY <1>2
  <2> QED
    BY <2>2, <2>3, <2>4, <2>5
<1>3. S \in Good
  <2> HIDE DEF Good
  <2> QED
    BY <1>1, <1>2, SubsetInduction
<1> QED
  BY <1>3

\* Only the values on the set count.
LEMMA SumSame ==
  ASSUME NEW S, IsFiniteSet(S), NEW f, NEW g, \A s \in S : f[s] \in Int /\ f[s] = g[s]
  PROVE  SumFunctionOnSet(f, S) = SumFunctionOnSet(g, S)
<1> DEFINE Good == {T \in SUBSET S : SumFunctionOnSet(f, T) = SumFunctionOnSet(g, T)}
<1>1. {} \in Good
  BY SumEmpty
<1>2. ASSUME NEW T \in SUBSET S, NEW x \in S \ T, T \in Good
      PROVE  T \cup {x} \in Good
  <2>1. IsFiniteSet(T \cup {x}) /\ (T \cup {x}) \ {x} = T
    BY FS_Subset, FS_AddElement
  <2>2. \A k \in {f, g} : SumFunctionOnSet(k, T \cup {x}) = k[x] + SumFunctionOnSet(k, T)
    BY <2>1, SumRemove
  <2> QED
    BY <1>2, <2>2
<1>3. S \in Good
  <2> HIDE DEF Good
  <2> QED
    BY <1>1, <1>2, SubsetInduction
<1> QED
  BY <1>3

\* Zeros add up to nothing.
LEMMA SumZero ==
  ASSUME NEW S, IsFiniteSet(S), NEW f, \A s \in S : f[s] = 0
  PROVE  SumFunctionOnSet(f, S) = 0
<1>1. SumFunctionOnSet(f, S) = SumFunctionOnSet(f, S) + SumFunctionOnSet(f, S)
  BY SumPointwise
<1>2. SumFunctionOnSet(f, S) \in Int
  BY SumInt
<1>3. \A m \in Int : m = m + m => m = 0
  OBVIOUS
<1> QED
  BY <1>1, <1>2, <1>3

\* A function changed at one place.
LEMMA SumUpdate ==
  ASSUME NEW S, IsFiniteSet(S), NEW f, NEW g, \A s \in S : f[s] \in Int /\ g[s] \in Int,
         NEW x \in S, \A s \in S \ {x} : g[s] = f[s]
  PROVE  SumFunctionOnSet(g, S) = SumFunctionOnSet(f, S) + (g[x] - f[x])
<1>1. IsFiniteSet(S \ {x})
  BY FS_RemoveElement
<1>2. SumFunctionOnSet(f, S \ {x}) = SumFunctionOnSet(g, S \ {x})
  BY <1>1, SumSame
<1>3. SumFunctionOnSet(f, S) = f[x] + SumFunctionOnSet(f, S \ {x})
  BY SumRemove
<1>4. SumFunctionOnSet(g, S) = g[x] + SumFunctionOnSet(g, S \ {x})
  BY SumRemove
<1>5. SumFunctionOnSet(f, S \ {x}) \in Int /\ f[x] \in Int /\ g[x] \in Int
  BY <1>1, SumInt
<1> QED
  BY <1>2, <1>3, <1>4, <1>5

\* Where a function is nothing it need not be summed.
LEMMA SumPart ==
  ASSUME NEW S, IsFiniteSet(S), NEW f, \A s \in S : f[s] \in Int,
         NEW T \in SUBSET S, \A s \in S \ T : f[s] = 0
  PROVE  SumFunctionOnSet(f, T) = SumFunctionOnSet(f, S)
<1> DEFINE Good == {U \in SUBSET S :
                      SumFunctionOnSet(f, U) = SumFunctionOnSet(f, U \cap T)}
<1>1. {} \in Good
  BY Zenon
<1>2. ASSUME NEW U \in SUBSET S, NEW x \in S \ U, U \in Good
      PROVE  U \cup {x} \in Good
  <2>1. IsFiniteSet(U \cup {x}) /\ (U \cup {x}) \ {x} = U
    BY FS_Subset, FS_AddElement
  <2>2. SumFunctionOnSet(f, U \cup {x}) = f[x] + SumFunctionOnSet(f, U)
    BY <2>1, SumRemove
  <2>3. SumFunctionOnSet(f, U) = SumFunctionOnSet(f, U \cap T)
        /\ SumFunctionOnSet(f, U) \in Int
    <3>1. IsFiniteSet(U)
      BY FS_Subset
    <3> QED
      BY <1>2, <3>1, SumInt
  <2>4. CASE x \in T
    <3>1. (U \cup {x}) \cap T = (U \cap T) \cup {x}
      BY <2>4
    <3>2. IsFiniteSet((U \cap T) \cup {x}) /\ ((U \cap T) \cup {x}) \ {x} = U \cap T
      <4>1. U \cap T \in SUBSET S
        OBVIOUS
      <4>2. IsFiniteSet(U \cap T)
        BY <4>1, FS_Subset
      <4>3. ((U \cap T) \cup {x}) \ {x} = U \cap T
        OBVIOUS
      <4> QED
        BY <4>2, <4>3, FS_AddElement
    <3>3. SumFunctionOnSet(f, (U \cap T) \cup {x}) = f[x] + SumFunctionOnSet(f, U \cap T)
      <4>1. \A s \in (U \cap T) \cup {x} : f[s] \in Int
        OBVIOUS
      <4>2. x \in (U \cap T) \cup {x}
        OBVIOUS
      <4> QED
        BY <3>2, <4>1, <4>2, SumRemove
    <3> QED
      BY <2>2, <2>3, <3>1, <3>3
  <2>5. CASE x \notin T
    <3>1. (U \cup {x}) \cap T = U \cap T /\ f[x] = 0
      BY <2>5
    <3>2. SumFunctionOnSet(f, U \cup {x}) = SumFunctionOnSet(f, U)
      BY <2>2, <2>3, <3>1
    <3> QED
      BY <2>3, <3>1, <3>2
  <2> QED
    BY <2>4, <2>5
<1>3. S \in Good
  <2> HIDE DEF Good
  <2> QED
    BY <1>1, <1>2, SubsetInduction
<1>4. S \cap T = T
  OBVIOUS
<1> QED
  BY <1>3, <1>4

\* A sum over part of a set, of values no greater, is no greater.
LEMMA SumAtMost ==
  ASSUME NEW S, IsFiniteSet(S), NEW g, \A s \in S : g[s] \in Nat,
         NEW T \in SUBSET S, NEW f, \A t \in T : f[t] \in Nat /\ f[t] <= g[t]
  PROVE  /\ SumFunctionOnSet(f, T) \in Nat /\ SumFunctionOnSet(g, S) \in Nat
         /\ SumFunctionOnSet(f, T) <= SumFunctionOnSet(g, S)
<1> DEFINE h == [s \in S |-> IF s \in T THEN f[s] ELSE 0]
           rest == [s \in S |-> g[s] - h[s]]
<1>1. /\ \A s \in S : h[s] \in Nat /\ rest[s] \in Nat /\ g[s] = h[s] + rest[s]
      /\ \A s \in S \ T : h[s] = 0
      /\ \A t \in T : f[t] = h[t]
  OBVIOUS
<1> HIDE DEF h, rest
<1>2. IsFiniteSet(T)
  BY FS_Subset
<1>3. SumFunctionOnSet(f, T) = SumFunctionOnSet(h, T)
  BY <1>1, <1>2, SumSame
<1>4. SumFunctionOnSet(h, T) = SumFunctionOnSet(h, S)
  BY <1>1, SumPart
<1>5. SumFunctionOnSet(g, S) = SumFunctionOnSet(h, S) + SumFunctionOnSet(rest, S)
  BY <1>1, SumPointwise
<1>6. SumFunctionOnSet(h, S) \in Nat /\ SumFunctionOnSet(rest, S) \in Nat
  BY <1>1, SumType
<1> QED
  BY <1>3, <1>4, <1>5, <1>6

---------------------------------------------------------------------------
(* Sums along a sequence.                                                    *)

\* The last term of a sum over an interval.
LEMMA SumLast ==
  ASSUME NEW n \in Nat, NEW m \in Int, NEW f, \A k \in m..(n + 1) : f[k] \in Int, m <= n + 1
  PROVE  SumFunctionOnSet(f, m..(n + 1)) = SumFunctionOnSet(f, m..n) + f[n + 1]
<1>1. IsFiniteSet(m..(n + 1)) /\ n + 1 \in m..(n + 1) /\ (m..(n + 1)) \ {n + 1} = m..n
  BY FS_Interval
<1>2. SumFunctionOnSet(f, m..(n + 1)) = f[n + 1] + SumFunctionOnSet(f, (m..(n + 1)) \ {n + 1})
  BY <1>1, SumRemove
<1>3. SumFunctionOnSet(f, m..n) \in Int
  <2>1. IsFiniteSet(m..n) /\ \A k \in m..n : f[k] \in Int
    BY FS_Interval
  <2> QED
    BY <2>1, SumInt
<1>4. f[n + 1] \in Int
  BY <1>1
<1>5. SumFunctionOnSet(f, m..(n + 1)) = f[n + 1] + SumFunctionOnSet(f, m..n)
  BY <1>1, <1>2
<1> QED
  BY <1>3, <1>4, <1>5

\* The steps from one value to the next add up to the way from first to last.
LEMMA SumTelescopes ==
  ASSUME NEW n \in Nat, NEW f, NEW g, \A k \in 0..n : g[k] \in Int,
         \A k \in 1..n : f[k] = g[k] - g[k - 1]
  PROVE  SumFunctionOnSet(f, 1..n) = g[n] - g[0]
<1> DEFINE Upto(m) == SumFunctionOnSet(f, 1..m) = g[m] - g[0]
           Good == {T \in SUBSET (1..n) : \A m \in 0..n : m <= Cardinality(T) => Upto(m)}
<1>0. IsFiniteSet(1..n) /\ Cardinality(1..n) = n
  BY FS_Interval
<1>1. {} \in Good
  <2>1. Upto(0)
    <3>1. 1..0 = {} /\ g[0] \in Int
      OBVIOUS
    <3> QED
      BY <3>1, SumEmpty
  <2> HIDE DEF Upto
  <2> QED
    BY <2>1, FS_EmptySet
<1>2. ASSUME NEW T \in SUBSET (1..n), NEW x \in (1..n) \ T, T \in Good
      PROVE  T \cup {x} \in Good
  <2>1. Cardinality(T \cup {x}) = Cardinality(T) + 1 /\ Cardinality(T) \in Nat
    BY <1>0, FS_Subset, FS_AddElement, FS_CardinalityType
  <2>2. ASSUME NEW m \in 0..n, m = Cardinality(T) + 1 PROVE Upto(m)
    <3> DEFINE k == Cardinality(T)
    <3>1. k \in 0..n /\ m = k + 1 /\ k \in Nat /\ k <= k
      BY <2>1, <2>2
    <3>2. Upto(k)
      BY <1>2, <3>1
    <3> HIDE DEF k
    <3>3. \A j \in 1..(k + 1) : f[j] \in Int
      <4>1. ASSUME NEW j \in 1..(k + 1) PROVE f[j] \in Int
        <5>1. j \in 1..n /\ j \in 0..n /\ j - 1 \in 0..n
          BY <3>1
        <5> QED
          BY <5>1
      <4> QED
        BY <4>1
    <3>4. SumFunctionOnSet(f, 1..(k + 1)) = SumFunctionOnSet(f, 1..k) + f[k + 1]
      <4>1. 1 <= k + 1 /\ 1 \in Int
        BY <3>1
      <4> QED
        BY <3>1, <3>3, <4>1, SumLast
    <3>5. f[k + 1] = g[k + 1] - g[k] /\ g[k + 1] \in Int /\ g[k] \in Int /\ g[0] \in Int
      <4>1. k + 1 \in 1..n /\ k + 1 \in 0..n /\ 0 \in 0..n /\ (k + 1) - 1 = k
        BY <3>1
      <4> QED
        BY <3>1, <4>1
    <3> QED
      BY <3>1, <3>2, <3>4, <3>5
  <2> HIDE DEF Upto
  <2> QED
    BY <1>2, <2>1, <2>2
<1>3. 1..n \in Good
  <2> HIDE DEF Good
  <2> QED
    BY <1>0, <1>1, <1>2, SubsetInduction
<1> QED
  BY <1>0, <1>3

\* A sum without its first term, counted from one again.
LEMMA SumShift ==
  ASSUME NEW n \in Nat, NEW f, \A k \in 1..(n + 1) : f[k] \in Int,
         NEW g, \A k \in 1..n : g[k] = f[k + 1]
  PROVE  SumFunctionOnSet(f, 1..(n + 1)) = f[1] + SumFunctionOnSet(g, 1..n)
<1> PICK h : h = [m \in 0..n |-> SumFunctionOnSet(f, 2..(m + 1))]
  OBVIOUS
<1>1. ASSUME NEW m \in 0..n PROVE h[m] \in Int
  <2>1. IsFiniteSet(2..(m + 1)) /\ \A k \in 2..(m + 1) : f[k] \in Int
    BY FS_Interval
  <2> QED
    BY <2>1, SumInt
<1>2. ASSUME NEW k \in 1..n PROVE g[k] = h[k] - h[k - 1]
  <2>1. k \in 0..n /\ k - 1 \in 0..n /\ (k - 1) + 1 = k /\ k \in Nat
    OBVIOUS
  <2>2. \A j \in 2..(k + 1) : f[j] \in Int
    OBVIOUS
  <2>3. SumFunctionOnSet(f, 2..(k + 1)) = SumFunctionOnSet(f, 2..k) + f[k + 1]
    <3>1. 2 <= k + 1 /\ 2 \in Int
      OBVIOUS
    <3> QED
      BY <2>1, <2>2, <3>1, SumLast
  <2>4. h[k] = h[k - 1] + f[k + 1]
    BY <2>1, <2>3
  <2>5. h[k - 1] \in Int /\ f[k + 1] \in Int
    <3>1. k + 1 \in 1..(n + 1)
      OBVIOUS
    <3> QED
      BY <1>1, <2>1, <3>1
  <2> QED
    BY <2>4, <2>5
<1>3. SumFunctionOnSet(g, 1..n) = h[n] - h[0]
  <2>1. \A k \in 0..n : h[k] \in Int
    BY <1>1
  <2>2. \A k \in 1..n : g[k] = h[k] - h[k - 1]
    BY <1>2
  <2> QED
    BY ONLY <2>1, <2>2, n \in Nat, SumTelescopes
<1>4. h[0] = 0 /\ h[n] = SumFunctionOnSet(f, 2..(n + 1))
  <2>1. 2..(0 + 1) = {}
    OBVIOUS
  <2> QED
    BY <2>1, SumEmpty
<1>5. SumFunctionOnSet(f, 1..(n + 1)) = f[1] + SumFunctionOnSet(f, 2..(n + 1))
  <2>1. (1..(n + 1)) \ {1} = 2..(n + 1) /\ 1 \in 1..(n + 1)
    OBVIOUS
  <2>3. IsFiniteSet(1..(n + 1))
    <3>1. n + 1 \in Int /\ 1 \in Int
      OBVIOUS
    <3> QED
      BY <3>1, FS_Interval
  <2>2. SumFunctionOnSet(f, 1..(n + 1)) = f[1] + SumFunctionOnSet(f, (1..(n + 1)) \ {1})
    BY <2>1, <2>3, SumRemove
  <2> QED
    BY <2>1, <2>2
<1>6. h[n] \in Int
  BY <1>1
<1> QED
  BY <1>3, <1>4, <1>5, <1>6
=============================================================================
