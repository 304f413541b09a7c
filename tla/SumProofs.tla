------------------------------- MODULE SumProofs -------------------------------
(***************************************************************************)
(* Sums over finite sets, SumFunctionOnSet of the community modules, for   *)
(* the proofs about counters and ledgers.                                  *)
(*                                                                         *)
(* The induction theorems of the library take a predicate as a parameter.  *)
(* Here induction is over a set instead: if the numbers or the subsets for *)
(* which something fails were not empty, there would be a least one.       *)
(***************************************************************************)
EXTENDS Functions, FiniteSetTheorems, TLAPS

-----------------------------------------------------------------------------
(* Induction *)

\* A set of naturals that has 0 and the successor of each of its members has all.
LEMMA NaturalsByStep ==
  ASSUME NEW G, 0 \in G, \A n \in Nat : n \in G => n + 1 \in G
  PROVE  Nat \subseteq G
<1> SUFFICES ASSUME Nat \ G # {} PROVE FALSE
  OBVIOUS
<1>1. PICK x \in Nat \ G : \A y \in Nat \ G : <<y, x>> \notin OpToRel(<, Nat)
  BY NatLessThanWellFounded, WFMin
<1>2. \A y \in Nat \ G : ~(y < x)
  BY <1>1 DEF OpToRel
<1>3. x # 0 /\ x - 1 \in Nat /\ x - 1 < x /\ (x - 1) + 1 = x
  OBVIOUS
<1> QED BY <1>2, <1>3

\* A non-empty set of subsets of a finite set has one that no longer belongs to it
\* when any of its elements is taken away.
LEMMA MinimalSubset ==
  ASSUME NEW S, IsFiniteSet(S), NEW G \in SUBSET (SUBSET S), G # {}
  PROVE  \E T \in G : \A x \in T : T \ {x} \notin G
<1>1. IsWellFoundedOn(StrictSubsetOrdering(S), SUBSET S)
  BY FS_StrictSubsetOrderingWellFounded, FS_FiniteSubsetsOfFinite
<1>2. PICK T \in G : \A U \in G : <<U, T>> \notin StrictSubsetOrdering(S)
  BY <1>1, WFMin
<1>3. \A x \in T : T \ {x} \in G => <<T \ {x}, T>> \in StrictSubsetOrdering(S)
  BY DEF StrictSubsetOrdering
<1> QED BY <1>2, <1>3

-----------------------------------------------------------------------------
(* The recursion behind a sum *)

\* The sum of f over s when the sums over the smaller sets are those of g.
Unfolded(f, g, s) ==
  IF s = {} THEN 0 ELSE f[CHOOSE x \in s : TRUE] + g[s \ {CHOOSE x \in s : TRUE}]

\* g has the sums of f over the subsets of S.
SumsUpTo(f, g, S) == g = [s \in SUBSET S |-> Unfolded(f, g, s)]

Iterated(f, S) == CHOOSE g : SumsUpTo(f, g, S)

LEMMA SumIterated ==
  ASSUME NEW f, NEW S
  PROVE  SumFunctionOnSet(f, S) = Iterated(f, S)[S]
BY DEF SumFunctionOnSet, FoldFunctionOnSet, MapThenFoldSet, Iterated, SumsUpTo, Unfolded

\* The recursion has a solution over a finite set: one over the subsets with at most n
\* elements extends to those with one more.
LEMMA SumsExist ==
  ASSUME NEW f, NEW S, IsFiniteSet(S)
  PROVE  SumsUpTo(f, Iterated(f, S), S)
<1> DEFINE Small(n) == {s \in SUBSET S : Cardinality(s) <= n}
           Solved(n) == \E g : g = [s \in Small(n) |-> Unfolded(f, g, s)]
           G == {n \in Nat : Solved(n)}
<1>0. \A s \in SUBSET S : /\ IsFiniteSet(s) /\ Cardinality(s) \in Nat
                          /\ Cardinality(s) <= Cardinality(S)
  BY FS_Subset, FS_CardinalityType
<1>s. \A n \in Nat : \A s \in Small(n + 1) : s # {} => s \ {CHOOSE x \in s : TRUE} \in Small(n)
  <2> TAKE n \in Nat
  <2> TAKE s \in Small(n + 1)
  <2> HAVE s # {}
  <2>1. (CHOOSE x \in s : TRUE) \in s
    OBVIOUS
  <2>2. Cardinality(s \ {CHOOSE x \in s : TRUE}) = Cardinality(s) - 1
    BY <1>0, <2>1, FS_RemoveElement
  <2> QED BY <1>0, <2>2
<1>1. 0 \in G
  <2>1. \A s \in Small(0) : s = {}
    BY <1>0, FS_EmptySet
  <2>2. [s \in Small(0) |-> 0] = [s \in Small(0) |-> Unfolded(f, [u \in Small(0) |-> 0], s)]
    BY <2>1 DEF Unfolded
  <2>3. Solved(0)
    BY <2>2
  <2> QED BY <2>3
<1>2. \A n \in Nat : n \in G => n + 1 \in G
  <2> HIDE DEF Solved
  <2> SUFFICES ASSUME NEW n \in Nat, Solved(n) PROVE Solved(n + 1)
    OBVIOUS
  <2> USE DEF Solved
  <2>1. PICK g : g = [s \in Small(n) |-> Unfolded(f, g, s)]
    OBVIOUS
  <2> DEFINE h == [s \in Small(n + 1) |-> Unfolded(f, g, s)]
  <2>2. \A s \in Small(n) : h[s] = g[s]
    <3>1. \A s \in Small(n) : s \in Small(n + 1)
      BY <1>0
    <3>2. \A s \in Small(n) : g[s] = Unfolded(f, g, s)
      BY <2>1
    <3> QED BY <3>1, <3>2
  <2>3. \A s \in Small(n + 1) : Unfolded(f, g, s) = Unfolded(f, h, s)
    <3> HIDE DEF h, Small
    <3> QED BY <1>s, <2>2 DEF Unfolded
  <2>4. h = [s \in Small(n + 1) |-> Unfolded(f, h, s)]
    BY <2>3
  <2> QED BY <2>4
<1>3. Solved(Cardinality(S))
  <2> HIDE DEF Solved
  <2> QED BY <1>1, <1>2, FS_CardinalityType, NaturalsByStep
<1>4. Small(Cardinality(S)) = SUBSET S
  BY <1>0
<1>5. \E g : SumsUpTo(f, g, S)
  BY <1>3, <1>4 DEF SumsUpTo
<1> QED BY <1>5 DEF Iterated

\* The sums over the subsets of T do not depend on the set they are computed for.
LEMMA SumsAgree ==
  ASSUME NEW f, NEW g, NEW h, NEW S, NEW T \in SUBSET S, IsFiniteSet(S),
         SumsUpTo(f, g, S), SumsUpTo(f, h, T)
  PROVE  g[T] = h[T]
<1> DEFINE G == {s \in SUBSET T : g[s] # h[s]}
<1> SUFFICES G = {}
  OBVIOUS
<1>1. SUFFICES ASSUME G # {} PROVE FALSE
  OBVIOUS
<1>2. IsFiniteSet(T)
  BY FS_Subset
<1>3. PICK s \in G : \A x \in s : s \ {x} \notin G
  BY <1>1, <1>2, MinimalSubset
<1>4. s # {} => (CHOOSE x \in s : TRUE) \in s
  OBVIOUS
<1>5. g[s] = Unfolded(f, g, s) /\ h[s] = Unfolded(f, h, s)
  BY DEF SumsUpTo
<1>6. Unfolded(f, g, s) = Unfolded(f, h, s)
  BY <1>3, <1>4 DEF Unfolded
<1> QED BY <1>5, <1>6

-----------------------------------------------------------------------------
(* Facts to cite *)

\* The sum over no elements.
LEMMA SumEmpty ==
  ASSUME NEW f
  PROVE  SumFunctionOnSet(f, {}) = 0
<1>1. SumsUpTo(f, Iterated(f, {}), {})
  BY SumsExist, FS_EmptySet
<1>2. Iterated(f, {})[{}] = 0
  BY <1>1 DEF SumsUpTo, Unfolded
<1> QED BY <1>2, SumIterated

LEMMA SumUnfolds ==
  ASSUME NEW f, NEW S, IsFiniteSet(S), S # {}
  PROVE  LET x == CHOOSE x \in S : TRUE
         IN  SumFunctionOnSet(f, S) = f[x] + SumFunctionOnSet(f, S \ {x})
<1> DEFINE x == CHOOSE x \in S : TRUE
           T == S \ {x}
<1>1. IsFiniteSet(T) /\ T \in SUBSET S
  BY FS_RemoveElement
<1>2. SumsUpTo(f, Iterated(f, S), S) /\ SumsUpTo(f, Iterated(f, T), T)
  BY <1>1, SumsExist
<1>3. Iterated(f, S)[T] = Iterated(f, T)[T]
  BY <1>1, <1>2, SumsAgree
<1>4. Iterated(f, S)[S] = f[x] + Iterated(f, S)[T]
  BY <1>2 DEF SumsUpTo, Unfolded
<1> QED BY <1>3, <1>4, SumIterated

\* A sum of integers is an integer.
LEMMA SumInt ==
  ASSUME NEW f, NEW S, IsFiniteSet(S), \A x \in S : f[x] \in Int
  PROVE  SumFunctionOnSet(f, S) \in Int
<1> DEFINE G == {s \in SUBSET S : SumFunctionOnSet(f, s) \notin Int}
<1> SUFFICES ASSUME G # {} PROVE FALSE
  OBVIOUS
<1>1. PICK s \in G : \A x \in s : s \ {x} \notin G
  BY MinimalSubset
<1>2. s # {}
  BY SumEmpty
<1>3. (CHOOSE x \in s : TRUE) \in s /\ IsFiniteSet(s)
  BY <1>2, FS_Subset
<1>4. SumFunctionOnSet(f, s)
        = f[CHOOSE x \in s : TRUE] + SumFunctionOnSet(f, s \ {CHOOSE x \in s : TRUE})
  BY <1>2, <1>3, SumUnfolds
<1>5. f[CHOOSE x \in s : TRUE] \in Int
  BY <1>3
<1>6. SumFunctionOnSet(f, s \ {CHOOSE x \in s : TRUE}) \in Int
  BY <1>1, <1>3
<1>7. SumFunctionOnSet(f, s) \in Int
  BY <1>4, <1>5, <1>6
<1> QED BY <1>7

\* A sum of naturals is a natural.
LEMMA SumNat ==
  ASSUME NEW f, NEW S, IsFiniteSet(S), \A x \in S : f[x] \in Nat
  PROVE  SumFunctionOnSet(f, S) \in Nat
<1> DEFINE G == {s \in SUBSET S : SumFunctionOnSet(f, s) \notin Nat}
<1> SUFFICES ASSUME G # {} PROVE FALSE
  OBVIOUS
<1>1. PICK s \in G : \A x \in s : s \ {x} \notin G
  BY MinimalSubset
<1>2. s # {}
  BY SumEmpty
<1>3. (CHOOSE x \in s : TRUE) \in s /\ IsFiniteSet(s)
  BY <1>2, FS_Subset
<1>4. SumFunctionOnSet(f, s)
        = f[CHOOSE x \in s : TRUE] + SumFunctionOnSet(f, s \ {CHOOSE x \in s : TRUE})
  BY <1>2, <1>3, SumUnfolds
<1>5. f[CHOOSE x \in s : TRUE] \in Nat
  BY <1>3
<1>6. SumFunctionOnSet(f, s \ {CHOOSE x \in s : TRUE}) \in Nat
  BY <1>1, <1>3
<1>7. SumFunctionOnSet(f, s) \in Nat
  BY <1>4, <1>5, <1>6
<1> QED BY <1>7

\* Any element may be taken out of a sum.
LEMMA SumTake ==
  ASSUME NEW f, NEW S, IsFiniteSet(S), \A x \in S : f[x] \in Int, NEW a \in S
  PROVE  SumFunctionOnSet(f, S) = f[a] + SumFunctionOnSet(f, S \ {a})
<1> DEFINE Sum(s) == SumFunctionOnSet(f, s)
           G == {s \in SUBSET S : \E e \in s : Sum(s) # f[e] + Sum(s \ {e})}
<1> SUFFICES ASSUME G # {} PROVE FALSE
  OBVIOUS
<1>1. PICK s \in G : \A x \in s : s \ {x} \notin G
  BY MinimalSubset
<1>2. PICK e \in s : Sum(s) # f[e] + Sum(s \ {e})
  OBVIOUS
<1> DEFINE c == CHOOSE x \in s : TRUE
<1>3. c \in s
  BY <1>2
<1>4. \A u \in SUBSET S : IsFiniteSet(u) /\ Sum(u) \in Int
  BY FS_Subset, SumInt
<1>5. Sum(s) = f[c] + Sum(s \ {c})
  BY <1>3, <1>4, SumUnfolds
<1>6. e # c
  BY <1>2, <1>5
<1>7. Sum(s \ {c}) = f[e] + Sum((s \ {c}) \ {e})
  BY <1>1, <1>3, <1>6
<1>8. Sum(s \ {e}) = f[c] + Sum((s \ {e}) \ {c})
  BY <1>1, <1>2, <1>3, <1>6
<1>9. Sum((s \ {c}) \ {e}) = Sum((s \ {e}) \ {c})
  <2>1. (s \ {c}) \ {e} = (s \ {e}) \ {c}
    OBVIOUS
  <2> HIDE DEF Sum
  <2> QED BY <2>1
<1>10. /\ f[c] \in Int /\ f[e] \in Int
       /\ Sum((s \ {e}) \ {c}) \in Int
  BY <1>3, <1>4
<1>11. Sum(s) = f[e] + Sum(s \ {e})
  <2> HIDE DEF Sum
  <2> QED BY <1>5, <1>7, <1>8, <1>9, <1>10
<1> QED BY <1>2, <1>11

\* A sum with one element more.
LEMMA SumAdd ==
  ASSUME NEW f, NEW S, IsFiniteSet(S), NEW a, a \notin S,
         \A x \in S \cup {a} : f[x] \in Int
  PROVE  SumFunctionOnSet(f, S \cup {a}) = f[a] + SumFunctionOnSet(f, S)
<1>1. (S \cup {a}) \ {a} = S
  OBVIOUS
<1>2. IsFiniteSet(S \cup {a})
  BY FS_AddElement
<1> QED BY <1>1, <1>2, SumTake

\* Only the summands matter.
LEMMA SumSame ==
  ASSUME NEW f, NEW g, NEW S, IsFiniteSet(S), \A x \in S : f[x] = g[x]
  PROVE  SumFunctionOnSet(f, S) = SumFunctionOnSet(g, S)
<1> DEFINE G == {s \in SUBSET S : SumFunctionOnSet(f, s) # SumFunctionOnSet(g, s)}
<1> SUFFICES ASSUME G # {} PROVE FALSE
  OBVIOUS
<1>1. PICK s \in G : \A x \in s : s \ {x} \notin G
  BY MinimalSubset
<1>2. s # {}
  BY SumEmpty
<1>3. (CHOOSE x \in s : TRUE) \in s /\ IsFiniteSet(s)
  BY <1>2, FS_Subset
<1>4. /\ SumFunctionOnSet(f, s)
           = f[CHOOSE x \in s : TRUE] + SumFunctionOnSet(f, s \ {CHOOSE x \in s : TRUE})
      /\ SumFunctionOnSet(g, s)
           = g[CHOOSE x \in s : TRUE] + SumFunctionOnSet(g, s \ {CHOOSE x \in s : TRUE})
  BY <1>2, <1>3, SumUnfolds
<1> QED BY <1>1, <1>3, <1>4

\* A sum in which one summand changed.
LEMMA SumChange ==
  ASSUME NEW f, NEW g, NEW S, IsFiniteSet(S), NEW a \in S,
         \A x \in S : f[x] \in Int /\ g[x] \in Int,
         \A x \in S \ {a} : g[x] = f[x]
  PROVE  SumFunctionOnSet(g, S) = SumFunctionOnSet(f, S) + g[a] - f[a]
<1>1. IsFiniteSet(S \ {a})
  BY FS_RemoveElement
<1>2. SumFunctionOnSet(f, S \ {a}) = SumFunctionOnSet(g, S \ {a})
  BY <1>1, SumSame
<1>3. /\ SumFunctionOnSet(f, S) = f[a] + SumFunctionOnSet(f, S \ {a})
      /\ SumFunctionOnSet(g, S) = g[a] + SumFunctionOnSet(g, S \ {a})
  BY SumTake
<1>4. SumFunctionOnSet(f, S \ {a}) \in Int
  BY <1>1, SumInt
<1> QED BY <1>2, <1>3, <1>4

\* A part of a sum of naturals is no more than the whole.
LEMMA SumPart ==
  ASSUME NEW f, NEW S, IsFiniteSet(S), \A x \in S : f[x] \in Nat, NEW T \in SUBSET S
  PROVE  SumFunctionOnSet(f, T) <= SumFunctionOnSet(f, S)
<1> DEFINE Sum(s) == SumFunctionOnSet(f, s)
           D == S \ T
           G == {s \in SUBSET D : ~(Sum(T) <= Sum(T \cup s))}
<1>1. T \cup D = S /\ D \in SUBSET D /\ IsFiniteSet(D)
  BY FS_Subset
<1> SUFFICES ASSUME G # {} PROVE FALSE
  BY <1>1
<1>2. PICK s \in G : \A x \in s : s \ {x} \notin G
  BY <1>1, MinimalSubset
<1>3. \A u \in SUBSET S : IsFiniteSet(u) /\ Sum(u) \in Nat
  BY FS_Subset, SumNat
<1>4. s # {}
  <2>1. T \cup {} = T /\ Sum(T) <= Sum(T)
    BY <1>3
  <2> QED BY <2>1
<1>5. PICK x \in s : TRUE
  BY <1>4
<1>6. T \cup s \in SUBSET S /\ x \in T \cup s /\ (T \cup s) \ {x} = T \cup (s \ {x}) /\ x \in S
  BY <1>5
<1>7. Sum(T \cup s) = f[x] + Sum((T \cup s) \ {x})
  BY <1>3, <1>6, SumTake
<1>8. Sum(T) <= Sum(T \cup (s \ {x}))
  BY <1>2, <1>5
<1>9. /\ f[x] \in Nat /\ Sum(T) \in Nat /\ Sum(T \cup s) \in Nat
      /\ Sum(T \cup (s \ {x})) \in Nat
  <2>1. T \cup (s \ {x}) \in SUBSET S
    BY <1>6
  <2> QED BY <1>3, <1>6, <2>1
<1>10. Sum((T \cup s) \ {x}) = Sum(T \cup (s \ {x}))
  <2> HIDE DEF Sum
  <2> QED BY <1>6
<1>11. Sum(T) <= Sum(T \cup s)
  <2> HIDE DEF Sum
  <2> QED BY <1>7, <1>8, <1>9, <1>10
<1> QED BY <1>2, <1>11

================================================================================
