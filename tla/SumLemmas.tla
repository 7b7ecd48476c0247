----------------------------- MODULE SumLemmas -----------------------------
(***************************************************************************)
(* What a sum over a finite set is worth, for the sums the specifications  *)
(* are built from.  SumFunctionOnSet is a recursive function on subsets;   *)
(* the facts below are by induction on the size of a set, which is stated  *)
(* for sets of good subsets, since the provers take no predicate for a     *)
(* parameter.                                                              *)
(***************************************************************************)
EXTENDS Functions, FiniteSetsExt, FiniteSetTheorems, WellFoundedInduction, TLAPS

-----------------------------------------------------------------------------
(* Induction.                                                              *)

(* A set of natural numbers has a least element.                           *)
LEMMA LeastNumber ==
  ASSUME NEW T \in SUBSET Nat, T # {}
  PROVE  \E x \in T : \A y \in T : x <= y
<1> DEFINE R == OpToRel(<, Nat)
<1>1. IsWellFoundedOn(R, Nat)
  BY NatLessThanWellFounded
<1>2. \A x, y \in Nat : x < y => <<x, y>> \in R
  BY DEF OpToRel
<1> HIDE DEF R
<1>3. PICK x \in T : \A y \in T : ~ (<<y, x>> \in R)
  BY <1>1, WFMin
<1>4. \A y \in T : ~ (y < x)
  BY <1>2, <1>3
<1>5. \A y \in T : y \in Nat /\ x \in Nat
  BY <1>3
<1>6. \A y \in T : x <= y
  BY <1>4, <1>5
<1> QED BY <1>3, <1>6

(* A set of numbers with zero and the successor of each is all of them.    *)
LEMMA NumberInduction ==
  ASSUME NEW P \in SUBSET Nat, 0 \in P, \A n \in P : n + 1 \in P
  PROVE  P = Nat
<1> SUFFICES ASSUME Nat \ P # {} PROVE FALSE
  OBVIOUS
<1>1. PICK m \in Nat \ P : \A n \in Nat \ P : m <= n
  BY LeastNumber, Nat \ P \in SUBSET Nat
<1>2. m # 0 /\ m - 1 \in Nat /\ m - 1 + 1 = m
  BY <1>1
<1>3. m - 1 \in P
  BY <1>1, <1>2
<1> QED BY <1>1, <1>2, <1>3

(* Subsets that are good whenever all smaller ones are good.               *)
LEMMA SubsetInduction ==
  ASSUME NEW S, IsFiniteSet(S), NEW P \in SUBSET SUBSET S, {} \in P,
         \A T \in SUBSET S : T # {} /\ (\A x \in T : T \ {x} \in P) => T \in P
  PROVE  P = SUBSET S
<1> DEFINE N == {n \in Nat : \A T \in SUBSET S : Cardinality(T) = n => T \in P}
<1>1. \A T \in SUBSET S : IsFiniteSet(T) /\ Cardinality(T) \in Nat
  BY FS_Subset, FS_CardinalityType
<1>2. 0 \in N
  BY <1>1, FS_EmptySet
<1>3. ASSUME NEW n \in N PROVE n + 1 \in N
  <2>1. SUFFICES ASSUME NEW T \in SUBSET S, Cardinality(T) = n + 1 PROVE T \in P
    BY <1>3
  <2>2. n \in Nat
    OBVIOUS
  <2>3. T # {}
    BY <2>1, <2>2, FS_EmptySet
  <2>4. ASSUME NEW x \in T PROVE T \ {x} \in P
    <3>1. Cardinality(T \ {x}) = n
      BY <2>1, <2>2, <1>1, FS_RemoveElement
    <3> QED BY <3>1, <1>3
  <2> QED BY <2>3, <2>4
<1> HIDE DEF N
<1>4. N = Nat
  BY <1>2, <1>3, NumberInduction DEF N
<1> QED BY <1>1, <1>4 DEF N

-----------------------------------------------------------------------------
(* The recursive function behind a sum.                                    *)

Pick(s) == CHOOSE x \in s : TRUE
Adds(g, f, S) ==
  g = [s \in SUBSET S |-> IF s = {} THEN 0 ELSE f[Pick(s)] + g[s \ {Pick(s)}]]

(* An element is picked from the set.                                      *)
LEMMA PickIn ==
  ASSUME NEW s, s # {}
  PROVE  Pick(s) \in s
BY DEF Pick

(* SumFunctionOnSet is the recursive function's value at the whole set.    *)
LEMMA SumIs ==
  ASSUME NEW f, NEW S
  PROVE  SumFunctionOnSet(f, S) = (CHOOSE g : Adds(g, f, S))[S]
BY DEF SumFunctionOnSet, FoldFunctionOnSet, MapThenFoldSet, Adds, Pick

(* It exists: it is built up to sets of each size.                         *)
LEMMA AddsExists ==
  ASSUME NEW f, NEW S, IsFiniteSet(S)
  PROVE  \E g : Adds(g, f, S)
<1> DEFINE Small(n) == {s \in SUBSET S : Cardinality(s) <= n}
           Up(g, n) == g = [s \in Small(n) |->
                              IF s = {} THEN 0 ELSE f[Pick(s)] + g[s \ {Pick(s)}]]
           N == {n \in Nat : \E g : Up(g, n)}
<1>1. \A T \in SUBSET S : IsFiniteSet(T) /\ Cardinality(T) \in Nat
  BY FS_Subset, FS_CardinalityType
<1>2. \A s \in SUBSET S : s # {} => s \ {Pick(s)} \in SUBSET S /\ Cardinality(s \ {Pick(s)}) = Cardinality(s) - 1
  BY <1>1, PickIn, FS_RemoveElement
<1>3. 0 \in N
  <2> DEFINE g == [s \in Small(0) |-> 0]
  <2>1. \A s \in Small(0) : s = {}
    BY <1>1, FS_EmptySet
  <2>2. Up(g, 0)
    BY <2>1
  <2> QED BY <2>2
<1>4. ASSUME NEW n \in N PROVE n + 1 \in N
  <2>1. PICK g : Up(g, n)
    BY <1>4
  <2> DEFINE h == [s \in Small(n + 1) |->
                     IF s = {} THEN 0 ELSE f[Pick(s)] + g[s \ {Pick(s)}]]
  <2>2. \A s \in Small(n + 1) : s # {} => s \ {Pick(s)} \in Small(n)
    BY <1>1, <1>2, <1>4
  <2>3. \A s \in Small(n) : s \in Small(n + 1)
    BY <1>1, <1>4
  <2>4. \A s \in Small(n) : g[s] = h[s]
    BY <2>1, <2>3
  <2>5. \A s \in Small(n + 1) : s # {} => g[s \ {Pick(s)}] = h[s \ {Pick(s)}]
    BY <2>2, <2>4
  <2>6. h = [s \in Small(n + 1) |->
                     IF s = {} THEN 0 ELSE f[Pick(s)] + h[s \ {Pick(s)}]]
    BY <2>5
  <2>7. Up(h, n + 1)
    BY <2>6
  <2> HIDE DEF h, Up
  <2> QED BY <1>4, <2>7
<1> HIDE DEF N
<1>5. N = Nat
  BY <1>3, <1>4, NumberInduction DEF N
<1>6. PICK g : Up(g, Cardinality(S))
  BY <1>1, <1>5 DEF N
<1>7. Small(Cardinality(S)) = SUBSET S
  BY <1>1, FS_Subset
<1>8. Adds(g, f, S)
  BY <1>6, <1>7 DEF Adds
<1> QED BY <1>8

(* It is unique, for smaller sets and functions with the same values too.  *)
LEMMA AddsAgree ==
  ASSUME NEW S, IsFiniteSet(S), NEW T \in SUBSET S, NEW f, NEW e,
         \A x \in T : f[x] = e[x],
         NEW g, Adds(g, f, T), NEW h, Adds(h, e, S)
  PROVE  \A s \in SUBSET T : g[s] = h[s]
<1> DEFINE P == {s \in SUBSET T : g[s] = h[s]}
<1>1. \A s \in SUBSET T : g[s] = IF s = {} THEN 0 ELSE f[Pick(s)] + g[s \ {Pick(s)}]
  BY DEF Adds
<1>2. \A s \in SUBSET T : h[s] = IF s = {} THEN 0 ELSE e[Pick(s)] + h[s \ {Pick(s)}]
  BY DEF Adds
<1>3. {} \in P
  BY <1>1, <1>2
<1>4. ASSUME NEW s \in SUBSET T, s # {}, \A x \in s : s \ {x} \in P PROVE s \in P
  <2>1. Pick(s) \in s /\ g[s \ {Pick(s)}] = h[s \ {Pick(s)}]
    BY <1>4, PickIn
  <2> QED BY <2>1, <1>1, <1>2, <1>4
<1>5. IsFiniteSet(T) /\ P \in SUBSET SUBSET T
  BY FS_Subset
<1> HIDE DEF P
<1>6. P = SUBSET T
  BY <1>3, <1>4, <1>5, SubsetInduction
<1> QED BY <1>6 DEF P

(* So a sum is what any such function says.                                *)
LEMMA SumByAdds ==
  ASSUME NEW S, IsFiniteSet(S), NEW T \in SUBSET S, NEW f, NEW g, Adds(g, f, S)
  PROVE  SumFunctionOnSet(f, T) = g[T]
<1> DEFINE h == CHOOSE x : Adds(x, f, T)
<1>1. IsFiniteSet(T)
  BY FS_Subset
<1>2. Adds(h, f, T)
  BY <1>1, AddsExists
<1> HIDE DEF h
<1>3. h[T] = g[T]
  BY <1>2, AddsAgree
<1> QED BY <1>3, SumIs DEF h

(* Functions with the same values on a set have the same sum.              *)
LEMMA SumSame ==
  ASSUME NEW S, IsFiniteSet(S), NEW f, NEW e, \A x \in S : f[x] = e[x]
  PROVE  SumFunctionOnSet(f, S) = SumFunctionOnSet(e, S)
<1>1. PICK g : Adds(g, f, S)
  BY AddsExists
<1>2. PICK h : Adds(h, e, S)
  BY AddsExists
<1>3. g[S] = h[S]
  BY <1>1, <1>2, AddsAgree
<1> QED BY <1>1, <1>2, <1>3, SumByAdds

(* The sum over no elements.                                               *)
LEMMA SumEmpty ==
  ASSUME NEW f
  PROVE  SumFunctionOnSet(f, {}) = 0
<1>1. PICK g : Adds(g, f, {})
  BY AddsExists, FS_EmptySet
<1>2. g[{}] = 0
  BY <1>1 DEF Adds
<1> QED BY <1>1, <1>2, SumByAdds, FS_EmptySet

(* The sum takes out the element picked.                                   *)
LEMMA SumPick ==
  ASSUME NEW S, IsFiniteSet(S), S # {}, NEW f
  PROVE  SumFunctionOnSet(f, S) = f[Pick(S)] + SumFunctionOnSet(f, S \ {Pick(S)})
<1>1. PICK g : Adds(g, f, S)
  BY AddsExists
<1>2. g[S] = f[Pick(S)] + g[S \ {Pick(S)}]
  BY <1>1 DEF Adds
<1>3. g[S] = SumFunctionOnSet(f, S) /\ g[S \ {Pick(S)}] = SumFunctionOnSet(f, S \ {Pick(S)})
  BY <1>1, SumByAdds
<1> QED BY <1>2, <1>3

-----------------------------------------------------------------------------
(* Sums of integers.                                                       *)

(* A sum of integers is one.                                               *)
LEMMA SumType ==
  ASSUME NEW S, IsFiniteSet(S), NEW f, \A x \in S : f[x] \in Int
  PROVE  SumFunctionOnSet(f, S) \in Int
<1> DEFINE P == {s \in SUBSET S : SumFunctionOnSet(f, s) \in Int}
<1>1. {} \in P
  BY SumEmpty
<1>2. ASSUME NEW s \in SUBSET S, s # {}, \A x \in s : s \ {x} \in P PROVE s \in P
  <2>1. Pick(s) \in s /\ SumFunctionOnSet(f, s \ {Pick(s)}) \in Int
    BY <1>2, PickIn
  <2>2. SumFunctionOnSet(f, s) = f[Pick(s)] + SumFunctionOnSet(f, s \ {Pick(s)})
    BY <1>2, SumPick, FS_Subset
  <2> QED BY <2>1, <2>2
<1>3. P \in SUBSET SUBSET S
  OBVIOUS
<1> HIDE DEF P
<1>4. P = SUBSET S
  BY <1>1, <1>2, <1>3, SubsetInduction
<1> QED BY <1>4 DEF P

(* Nothing adds up to nothing.                                             *)
LEMMA SumZero ==
  ASSUME NEW S, IsFiniteSet(S), NEW f, \A x \in S : f[x] = 0
  PROVE  SumFunctionOnSet(f, S) = 0
<1> DEFINE P == {s \in SUBSET S : SumFunctionOnSet(f, s) = 0}
<1>1. {} \in P
  BY SumEmpty
<1>2. ASSUME NEW s \in SUBSET S, s # {}, \A x \in s : s \ {x} \in P PROVE s \in P
  <2>1. Pick(s) \in s /\ SumFunctionOnSet(f, s \ {Pick(s)}) = 0
    BY <1>2, PickIn
  <2>2. SumFunctionOnSet(f, s) = f[Pick(s)] + SumFunctionOnSet(f, s \ {Pick(s)})
    BY <1>2, SumPick, FS_Subset
  <2> QED BY <2>1, <2>2
<1>3. P \in SUBSET SUBSET S
  OBVIOUS
<1> HIDE DEF P
<1>4. P = SUBSET S
  BY <1>1, <1>2, <1>3, SubsetInduction
<1> QED BY <1>4 DEF P

(* Any element may be taken out first.                                     *)
LEMMA SumOut ==
  ASSUME NEW S, IsFiniteSet(S), NEW f, \A x \in S : f[x] \in Int, NEW a \in S
  PROVE  SumFunctionOnSet(f, S) = f[a] + SumFunctionOnSet(f, S \ {a})
<1> DEFINE Sum(s) == SumFunctionOnSet(f, s)
           P == {s \in SUBSET S : \A x \in s : Sum(s) = f[x] + Sum(s \ {x})}
<1>1. {} \in P
  OBVIOUS
<1>2. \A s \in SUBSET S : IsFiniteSet(s) /\ Sum(s) \in Int
  BY FS_Subset, SumType
<1>3. ASSUME NEW s \in SUBSET S, s # {}, \A x \in s : s \ {x} \in P PROVE s \in P
  <2> DEFINE p == Pick(s)
  <2>1. p \in s /\ Sum(s) = f[p] + Sum(s \ {p})
    BY <1>2, <1>3, PickIn, SumPick
  <2> HIDE DEF p, Sum
  <2>2. ASSUME NEW x \in s, x # p PROVE Sum(s) = f[x] + Sum(s \ {x})
    <3>1. Sum(s \ {p}) = f[x] + Sum((s \ {p}) \ {x})
      BY <1>3, <2>1, <2>2
    <3>2. Sum(s \ {x}) = f[p] + Sum((s \ {x}) \ {p})
      BY <1>3, <2>1, <2>2
    <3>3. (s \ {x}) \ {p} = (s \ {p}) \ {x}
      OBVIOUS
    <3>4. Sum((s \ {p}) \ {x}) \in Int /\ f[x] \in Int /\ f[p] \in Int
      BY <1>2, <2>1, <2>2
    <3>5. f[p] + (f[x] + Sum((s \ {p}) \ {x})) = f[x] + (f[p] + Sum((s \ {p}) \ {x}))
      BY <3>4
    <3> QED BY <2>1, <3>1, <3>2, <3>3, <3>5
  <2> QED BY <2>1, <2>2
<1>4. P \in SUBSET SUBSET S
  OBVIOUS
<1> HIDE DEF P, Sum
<1>5. P = SUBSET S
  BY <1>1, <1>3, <1>4, SubsetInduction
<1> QED BY <1>5 DEF P, Sum

(* A sum of naturals grows with its set.                                   *)
LEMMA SumGrows ==
  ASSUME NEW S, IsFiniteSet(S), NEW f, \A x \in S : f[x] \in Nat, NEW T \in SUBSET S
  PROVE  SumFunctionOnSet(f, T) \in Nat /\ SumFunctionOnSet(f, T) <= SumFunctionOnSet(f, S)
<1> DEFINE Sum(s) == SumFunctionOnSet(f, s)
           P == {s \in SUBSET S : \A t \in SUBSET s : Sum(t) \in Nat /\ Sum(t) <= Sum(s)}
<1>1. {} \in P
  BY SumEmpty
<1>2. \A s \in SUBSET S : IsFiniteSet(s) /\ Sum(s) \in Int
  BY FS_Subset, SumType
<1>3. ASSUME NEW s \in SUBSET S, s # {}, \A x \in s : s \ {x} \in P PROVE s \in P
  <2>1. \A x \in s : Sum(s) = f[x] + Sum(s \ {x})
    BY <1>2, SumOut
  <2> HIDE DEF Sum
  <2>2. PICK x \in s : TRUE
    BY <1>3
  <2>3. Sum(s \ {x}) \in Nat /\ f[x] \in Nat
    BY <1>3
  <2>4. Sum(s) \in Nat
    BY <2>1, <2>3
  <2>5. ASSUME NEW t \in SUBSET s, t # s PROVE Sum(t) \in Nat /\ Sum(t) <= Sum(s)
    <3>1. PICK y \in s : y \notin t
      BY <2>5
    <3>2. Sum(t) \in Nat /\ Sum(t) <= Sum(s \ {y}) /\ f[y] \in Nat /\ Sum(s \ {y}) \in Int
      BY <1>2, <1>3, <3>1
    <3> QED BY <2>1, <3>2
  <2> QED BY <2>4, <2>5
<1>4. P \in SUBSET SUBSET S
  OBVIOUS
<1> HIDE DEF P, Sum
<1>5. P = SUBSET S
  BY <1>1, <1>3, <1>4, SubsetInduction
<1> QED BY <1>5 DEF P, Sum

(* A sum in which one value changes changes by as much.                    *)
LEMMA SumChanges ==
  ASSUME NEW S, IsFiniteSet(S), NEW f, NEW e, NEW a \in S,
         \A x \in S : f[x] \in Int /\ e[x] \in Int,
         \A x \in S \ {a} : f[x] = e[x]
  PROVE  SumFunctionOnSet(e, S) = SumFunctionOnSet(f, S) - f[a] + e[a]
<1>1. IsFiniteSet(S \ {a})
  BY FS_RemoveElement
<1>2. SumFunctionOnSet(e, S \ {a}) = SumFunctionOnSet(f, S \ {a})
  BY <1>1, SumSame
<1>3. SumFunctionOnSet(f, S \ {a}) \in Int
  BY <1>1, SumType
<1> QED BY <1>2, <1>3, SumOut

(* Sums of the same length add up.                                         *)
LEMMA SumPlus ==
  ASSUME NEW S, IsFiniteSet(S), NEW f, NEW e, NEW g,
         \A x \in S : f[x] \in Int /\ e[x] \in Int /\ g[x] = f[x] + e[x]
  PROVE  SumFunctionOnSet(g, S) = SumFunctionOnSet(f, S) + SumFunctionOnSet(e, S)
<1> DEFINE F(s) == SumFunctionOnSet(f, s)
           E(s) == SumFunctionOnSet(e, s)
           G(s) == SumFunctionOnSet(g, s)
           P == {s \in SUBSET S : G(s) = F(s) + E(s)}
<1>1. {} \in P
  BY SumEmpty
<1>2. \A s \in SUBSET S : IsFiniteSet(s) /\ F(s) \in Int /\ E(s) \in Int
  BY FS_Subset, SumType
<1>3. ASSUME NEW s \in SUBSET S, s # {}, \A x \in s : s \ {x} \in P PROVE s \in P
  <2> DEFINE p == Pick(s)
  <2>1. /\ p \in s
        /\ F(s) = f[p] + F(s \ {p}) /\ E(s) = e[p] + E(s \ {p}) /\ G(s) = g[p] + G(s \ {p})
    BY <1>2, <1>3, PickIn, SumPick
  <2> HIDE DEF p, F, E, G
  <2>2. G(s \ {p}) = F(s \ {p}) + E(s \ {p}) /\ F(s \ {p}) \in Int /\ E(s \ {p}) \in Int
    BY <1>2, <1>3, <2>1
  <2>3. f[p] \in Int /\ e[p] \in Int /\ g[p] = f[p] + e[p]
    BY <2>1
  <2>4. G(s) = F(s) + E(s)
    BY <2>1, <2>2, <2>3
  <2> QED BY <2>4
<1>4. P \in SUBSET SUBSET S
  OBVIOUS
<1> HIDE DEF P, F, E, G
<1>5. P = SUBSET S
  BY <1>1, <1>3, <1>4, SubsetInduction
<1> QED BY <1>5 DEF P, F, E, G

(* A sum over a part is one over the whole with nothing for the rest.      *)
LEMMA SumPart ==
  ASSUME NEW S, IsFiniteSet(S), NEW T \in SUBSET S, NEW f, NEW g,
         \A x \in T : f[x] \in Int /\ g[x] = f[x], \A x \in S \ T : g[x] = 0
  PROVE  SumFunctionOnSet(g, S) = SumFunctionOnSet(f, T)
<1> DEFINE F(s) == SumFunctionOnSet(f, s)
           G(s) == SumFunctionOnSet(g, s)
           P == {s \in SUBSET S : G(s) = F(s \cap T)}
<1>1. {} \in P
  BY SumEmpty
<1>2. \A s \in SUBSET S : IsFiniteSet(s) /\ (\A x \in s : G(s) = g[x] + G(s \ {x})) /\ G(s) \in Int
  BY FS_Subset, SumOut, SumType
<1>3. ASSUME NEW s \in SUBSET S PROVE \A x \in s \cap T : F(s \cap T) = f[x] + F((s \cap T) \ {x})
  BY FS_Subset, SumOut
<1> HIDE DEF F, G
<1>4. ASSUME NEW s \in SUBSET S, s # {}, \A x \in s : s \ {x} \in P PROVE s \in P
  <2>1. PICK x \in s : TRUE
    BY <1>4
  <2>2. G(s) = g[x] + G(s \ {x}) /\ G(s \ {x}) = F((s \ {x}) \cap T) /\ G(s \ {x}) \in Int
    BY <1>2, <1>4
  <2>3. CASE x \in T
    <3>1. (s \ {x}) \cap T = (s \cap T) \ {x}
      OBVIOUS
    <3>2. F(s \cap T) = f[x] + F((s \cap T) \ {x}) /\ g[x] = f[x]
      BY <1>3, <2>3
    <3>3. G(s) = F(s \cap T)
      BY <2>2, <3>1, <3>2
    <3> QED BY <3>3
  <2>4. CASE x \notin T
    <3>1. (s \ {x}) \cap T = s \cap T /\ g[x] = 0
      BY <2>4
    <3>2. F((s \ {x}) \cap T) = F(s \cap T)
      BY <3>1
    <3>3. G(s) = F(s \cap T)
      BY <2>2, <3>1, <3>2
    <3> QED BY <3>3
  <2> QED BY <2>3, <2>4
<1>5. P \in SUBSET SUBSET S /\ S \cap T = T
  OBVIOUS
<1> HIDE DEF P
<1>6. P = SUBSET S
  BY <1>1, <1>4, <1>5, SubsetInduction
<1>7. G(S) = F(S \cap T)
  BY <1>6 DEF P
<1> QED BY <1>5, <1>7 DEF F, G

(* No sum exceeds its largest value as often as it has terms.              *)
LEMMA SumBound ==
  ASSUME NEW S, IsFiniteSet(S), NEW c \in Int, NEW f, \A x \in S : f[x] \in Int /\ f[x] <= c
  PROVE  SumFunctionOnSet(f, S) <= Cardinality(S) * c
<1> DEFINE F(s) == SumFunctionOnSet(f, s)
           P == {s \in SUBSET S : F(s) <= Cardinality(s) * c}
<1>1. {} \in P
  BY SumEmpty, FS_EmptySet
<1>2. \A s \in SUBSET S : IsFiniteSet(s) /\ (\A x \in s : F(s) = f[x] + F(s \ {x})) /\ F(s) \in Int
  BY FS_Subset, SumOut, SumType
<1> HIDE DEF F
<1>3. ASSUME NEW s \in SUBSET S, s # {}, \A x \in s : s \ {x} \in P PROVE s \in P
  <2>1. PICK x \in s : TRUE
    BY <1>3
  <2>2. F(s) = f[x] + F(s \ {x}) /\ F(s \ {x}) <= Cardinality(s \ {x}) * c /\ F(s \ {x}) \in Int
    BY <1>2, <1>3
  <2>3. PICK n \in Nat : n = Cardinality(s \ {x}) /\ Cardinality(s) = n + 1
    <3>1. IsFiniteSet(s) /\ IsFiniteSet(s \ {x})
      BY <1>2
    <3>2. Cardinality(s) \in Nat /\ Cardinality(s \ {x}) \in Nat
      BY <3>1, FS_CardinalityType
    <3>3. Cardinality(s \ {x}) = Cardinality(s) - 1
      BY <2>1, <3>1, FS_RemoveElement
    <3> QED BY <3>2, <3>3
  <2>4. (n + 1) * c = n * c + c /\ n * c \in Int
    OBVIOUS
  <2>5. f[x] \in Int /\ f[x] <= c
    OBVIOUS
  <2>6. f[x] + F(s \ {x}) <= n * c + c
    BY <2>2, <2>3, <2>4, <2>5
  <2> QED BY <2>2, <2>3, <2>4, <2>6
<1>4. P \in SUBSET SUBSET S
  OBVIOUS
<1> HIDE DEF P
<1>5. P = SUBSET S
  BY <1>1, <1>3, <1>4, SubsetInduction
<1> QED BY <1>5 DEF P, F

(* When the terms of one sum that count have each a term of another to     *)
(* themselves that is no less, the first is no more than the second.       *)
LEMMA SumInto ==
  ASSUME NEW S, IsFiniteSet(S), NEW K, IsFiniteSet(K), NEW f, NEW g, NEW m,
         \A x \in S : f[x] \in Int, \A k \in K : g[k] \in Nat,
         NEW G \in SUBSET S, \A x \in S \ G : f[x] <= 0,
         \A x \in G : m[x] \in K /\ f[x] <= g[m[x]],
         \A x, y \in G : m[x] = m[y] => x = y
  PROVE  SumFunctionOnSet(f, S) <= SumFunctionOnSet(g, K)
<1> DEFINE F(s) == SumFunctionOnSet(f, s)
           H(t) == SumFunctionOnSet(g, t)
           Into(s) == {m[x] : x \in s \cap G}
           P == {s \in SUBSET S : F(s) <= H(Into(s))}
<1>1. {} \in P
  <2>1. Into({}) = {}
    OBVIOUS
  <2> QED BY <2>1, SumEmpty
<1>2. \A s \in SUBSET S : IsFiniteSet(s) /\ (\A x \in s : F(s) = f[x] + F(s \ {x})) /\ F(s) \in Int
  BY FS_Subset, SumOut, SumType
<1>3. \A t \in SUBSET K : (\A k \in t : H(t) = g[k] + H(t \ {k})) /\ H(t) \in Nat
  <2>1. ASSUME NEW t \in SUBSET K PROVE IsFiniteSet(t) /\ \A k \in t : g[k] \in Int
    BY FS_Subset
  <2>2. \A t \in SUBSET K : \A k \in t : H(t) = g[k] + H(t \ {k})
    BY <2>1, SumOut
  <2>3. \A t \in SUBSET K : H(t) \in Nat
    BY SumGrows
  <2> QED BY <2>2, <2>3
<1>4. \A s \in SUBSET S : Into(s) \in SUBSET K
  OBVIOUS
<1> HIDE DEF F, H
<1>5. ASSUME NEW s \in SUBSET S, s # {}, \A x \in s : s \ {x} \in P PROVE s \in P
  <2>1. PICK x \in s : TRUE
    BY <1>5
  <2>2. F(s) = f[x] + F(s \ {x}) /\ F(s \ {x}) <= H(Into(s \ {x})) /\ F(s \ {x}) \in Int /\ f[x] \in Int
    BY <1>2, <1>5
  <2>3. CASE x \in G
    <3>1. m[x] \in Into(s) /\ Into(s) \ {m[x]} = Into(s \ {x})
      BY <2>3
    <3>2. Into(s) \in SUBSET K
      BY <1>4
    <3> HIDE DEF Into
    <3>3. H(Into(s)) = g[m[x]] + H(Into(s \ {x})) /\ H(Into(s \ {x})) \in Nat
      BY <1>3, <1>4, <3>1, <3>2
    <3>4. f[x] <= g[m[x]] /\ g[m[x]] \in Nat
      BY <2>3
    <3>5. F(s) <= H(Into(s))
      BY <2>2, <3>3, <3>4
    <3> QED BY <3>5
  <2>4. CASE x \notin G
    <3>1. Into(s \ {x}) = Into(s) /\ f[x] <= 0
      BY <2>4
    <3> HIDE DEF Into
    <3>2. H(Into(s)) \in Nat
      BY <1>3, <1>4
    <3>3. F(s) <= H(Into(s))
      BY <2>2, <3>1, <3>2
    <3> QED BY <3>3
  <2> QED BY <2>3, <2>4
<1>6. P \in SUBSET SUBSET S
  OBVIOUS
<1> HIDE DEF P
<1>7. P = SUBSET S
  BY <1>1, <1>5, <1>6, SubsetInduction
<1>8. F(S) <= H(Into(S)) /\ F(S) \in Int
  BY <1>2, <1>7 DEF P
<1>9. Into(S) \in SUBSET K /\ H(Into(S)) \in Nat
  BY <1>3, <1>4
<1> HIDE DEF Into
<1>10. H(Into(S)) <= H(K) /\ H(K) \in Nat
  BY <1>9, SumGrows DEF H
<1> QED BY <1>8, <1>9, <1>10 DEF F, H

-----------------------------------------------------------------------------
(* Finite images and extremes.                                             *)

(* The values of a function on a finite set.                               *)
LEMMA ImageFinite ==
  ASSUME NEW S, IsFiniteSet(S), NEW f, f = [x \in S |-> f[x]]
  PROVE  IsFiniteSet({f[x] : x \in S})
<1>1. f \in Surjection(S, {f[x] : x \in S})
  <2>1. f \in [S -> {f[x] : x \in S}]
    BY DEF Surjection
  <2> QED BY <2>1 DEF Surjection
<1> QED BY <1>1, FS_Surjection

(* The largest number of a finite set.                                     *)
LEMMA Largest ==
  ASSUME NEW S, IsFiniteSet(S), S # {}, \A x \in S : x \in Nat
  PROVE  Max(S) \in S /\ \A x \in S : x <= Max(S)
<1> DEFINE P == {T \in SUBSET S : T = {} \/ \E x \in T : \A y \in T : x >= y}
<1>1. ASSUME NEW T \in SUBSET S, T # {}, \A x \in T : T \ {x} \in P PROVE T \in P
  <2>1. PICK x \in T : TRUE
    BY <1>1
  <2>2. CASE T = {x}
    BY <2>2
  <2>3. CASE T # {x}
    <3>1. PICK z \in T \ {x} : \A y \in T \ {x} : z >= y
      BY <1>1, <2>1, <2>3
    <3>2. x \in Nat /\ z \in Nat /\ \A y \in T : y \in Nat
      BY <2>1, <3>1
    <3>3. CASE z >= x
      BY <3>1, <3>2, <3>3
    <3>4. CASE x >= z
      <4>1. \A y \in T : x >= y
        BY <3>1, <3>2, <3>4
      <4> QED BY <2>1, <4>1
    <3> QED BY <3>2, <3>3, <3>4
  <2> QED BY <2>2, <2>3
<1>2. {} \in P /\ P \in SUBSET SUBSET S
  OBVIOUS
<1> HIDE DEF P
<1>3. P = SUBSET S
  BY <1>1, <1>2, SubsetInduction
<1>4. PICK x \in S : \A y \in S : x >= y
  BY <1>3 DEF P
<1>5. Max(S) \in S /\ \A y \in S : Max(S) >= y
  BY <1>4 DEF Max
<1> QED BY <1>5

(* The least one.                                                          *)
LEMMA Smallest ==
  ASSUME NEW S, S # {}, \A x \in S : x \in Nat
  PROVE  Min(S) \in S /\ \A x \in S : Min(S) <= x
<1>1. S \in SUBSET Nat
  OBVIOUS
<1>2. \E x \in S : \A y \in S : x <= y
  BY <1>1, LeastNumber
<1> QED BY <1>2 DEF Min
=============================================================================
