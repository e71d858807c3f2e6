-------------------------------- MODULE Sums --------------------------------
(***************************************************************************)
(* What the proofs need of the sum of a function over a finite set, the    *)
(* library's SumFunctionOnSet: its value does not depend on the order in   *)
(* which the library takes the elements, it grows by one summand with each *)
(* element, and it keeps the summands' sign.                               *)
(*                                                                         *)
(* Facts about every finite set are proved by a smallest counterexample:   *)
(* strict inclusion is well founded on the subsets of a finite set.        *)
(***************************************************************************)
EXTENDS Integers, Functions, FiniteSetTheorems, TLAPS

(* The element the library's sum takes first. *)
First(s) == CHOOSE x \in s : TRUE

(* g sums f over every subset of S. *)
AddsUp(g, f, S) ==
    g = [s \in SUBSET S |-> IF s = {} THEN 0 ELSE f[First(s)] + g[s \ {First(s)}]]

LEMMA FirstElement == ASSUME NEW s, s # {} PROVE First(s) \in s
BY DEF First

(* The library's sum is a function that sums, at the whole set.               *)
LEMMA SumIsFold ==
    ASSUME NEW f, NEW S
    PROVE  SumFunctionOnSet(f, S) = (CHOOSE g : AddsUp(g, f, S))[S]
BY DEF SumFunctionOnSet, FoldFunctionOnSet, MapThenFoldSet, AddsUp, First

(* Among sets of subsets of a finite set there is a smallest one.             *)
LEMMA SmallestSubset ==
    ASSUME NEW S, IsFiniteSet(S), NEW T, T \subseteq SUBSET S, T # {}
    PROVE  \E s \in T : \A r \in T : r \subseteq s => r = s
<1>1. IsWellFoundedOn(StrictSubsetOrdering(S), SUBSET S)
  BY FS_StrictSubsetOrderingWellFounded, FS_FiniteSubsetsOfFinite
<1>2. PICK s \in T : \A r \in T : <<r, s>> \notin StrictSubsetOrdering(S)
  BY <1>1, WFMin
<1> QED BY <1>2 DEF StrictSubsetOrdering

(* Two functions that sum f agree on the subsets both are defined at.         *)
LEMMA AddsUpUnique ==
    ASSUME NEW f, NEW S, IsFiniteSet(S), NEW R \in SUBSET S,
           NEW g, AddsUp(g, f, S), NEW h, AddsUp(h, f, R)
    PROVE  \A s \in SUBSET R : g[s] = h[s]
<1> DEFINE Bad == {s \in SUBSET R : g[s] # h[s]}
<1> SUFFICES ASSUME Bad # {} PROVE FALSE  OBVIOUS
<1>1. IsFiniteSet(R)  BY FS_Subset
<1>2. PICK s \in Bad : \A r \in Bad : r \subseteq s => r = s
  <2>1. Bad \subseteq SUBSET R  OBVIOUS
  <2> HIDE DEF Bad
  <2> QED BY <1>1, <2>1, SmallestSubset
<1>3. \A r \in SUBSET S : g[r] = IF r = {} THEN 0 ELSE f[First(r)] + g[r \ {First(r)}]
  BY DEF AddsUp
<1>4. \A r \in SUBSET R : h[r] = IF r = {} THEN 0 ELSE f[First(r)] + h[r \ {First(r)}]
  BY DEF AddsUp
<1>5. s # {}  BY <1>3, <1>4
<1>6. First(s) \in s  BY <1>5, FirstElement
<1>7. s \ {First(s)} \notin Bad  BY <1>2, <1>6
<1>8. g[s \ {First(s)}] = h[s \ {First(s)}]  BY <1>7
<1> QED BY <1>3, <1>4, <1>5, <1>8

(* Over a finite set there is a function that sums.                           *)
LEMMA AddsUpExists ==
    ASSUME NEW f, NEW S, IsFiniteSet(S)
    PROVE  \E g : AddsUp(g, f, S)
<1> DEFINE Bad == {s \in SUBSET S : ~\E g : AddsUp(g, f, s)}
<1> SUFFICES ASSUME Bad # {} PROVE FALSE  OBVIOUS
<1>1. PICK s \in Bad : \A r \in Bad : r \subseteq s => r = s
  <2>1. Bad \subseteq SUBSET S  OBVIOUS
  <2> HIDE DEF Bad
  <2> QED BY <2>1, SmallestSubset
<1> DEFINE Of(r) == CHOOSE g : AddsUp(g, f, r)
           G == [r \in SUBSET s |-> IF r = {} THEN 0
                                    ELSE f[First(r)] + Of(r \ {First(r)})[r \ {First(r)}]]
<1>2. \A r \in SUBSET s : r # s => AddsUp(Of(r), f, r)
  <2> SUFFICES ASSUME NEW r \in SUBSET s, r # s  PROVE \E g : AddsUp(g, f, r)  OBVIOUS
  <2> QED BY <1>1
<1>3. \A r \in SUBSET s : r # {} => G[r \ {First(r)}] = Of(r \ {First(r)})[r \ {First(r)}]
  <2> SUFFICES ASSUME NEW r \in SUBSET s, r # {}
               PROVE  G[r \ {First(r)}] = Of(r \ {First(r)})[r \ {First(r)}]
    OBVIOUS
  <2> DEFINE q == r \ {First(r)}
  <2>1. q \in SUBSET s /\ q # s  BY FirstElement
  <2>2. AddsUp(Of(q), f, q)  BY <1>2, <2>1
  <2>3. \A p \in SUBSET q :
            Of(q)[p] = IF p = {} THEN 0 ELSE f[First(p)] + Of(q)[p \ {First(p)}]
    <3> HIDE DEF Of, q
    <3> QED BY <2>2 DEF AddsUp
  <2>4. CASE q = {}
    <3>1. Of(q)[q] = 0  BY <2>3, <2>4
    <3>2. G[q] = 0  BY <2>1, <2>4
    <3> QED BY <3>1, <3>2
  <2>5. CASE q # {}
    <3> DEFINE p == q \ {First(q)}
    <3>1. Of(q)[q] = f[First(q)] + Of(q)[p]  BY <2>3, <2>5
    <3>2. G[q] = f[First(q)] + Of(p)[p]  BY <2>1, <2>5
    <3>3. p \in SUBSET q /\ p \in SUBSET s /\ p # s  BY <2>1
    <3>4. IsFiniteSet(q)  BY <2>1, FS_Subset
    <3>5. AddsUp(Of(p), f, p)  BY <1>2, <3>3
    <3>6. Of(q)[p] = Of(p)[p]
      <4> HIDE DEF Of, p, q
      <4> QED BY <2>2, <3>3, <3>4, <3>5, AddsUpUnique
    <3> QED BY <3>1, <3>2, <3>6
  <2> QED BY <2>4, <2>5
<1>4. AddsUp(G, f, s)
  <2>1. \A r \in SUBSET s : G[r] = IF r = {} THEN 0 ELSE f[First(r)] + G[r \ {First(r)}]
    <3> SUFFICES ASSUME NEW r \in SUBSET s
                 PROVE  G[r] = IF r = {} THEN 0 ELSE f[First(r)] + G[r \ {First(r)}]
      OBVIOUS
    <3>1. G[r] = IF r = {} THEN 0 ELSE f[First(r)] + Of(r \ {First(r)})[r \ {First(r)}]
      OBVIOUS
    <3> HIDE DEF G, Of
    <3> QED BY <1>3, <3>1
  <2>2. G = [r \in SUBSET s |-> G[r]]  OBVIOUS
  <2> HIDE DEF G
  <2> QED BY <2>1, <2>2 DEF AddsUp
<1> QED BY <1>1, <1>4

(* The library's sum takes the first element and sums the others.             *)
LEMMA SumUnfolds ==
    ASSUME NEW f, NEW S, IsFiniteSet(S)
    PROVE  SumFunctionOnSet(f, S) =
               IF S = {} THEN 0 ELSE f[First(S)] + SumFunctionOnSet(f, S \ {First(S)})
<1> DEFINE Of(r) == CHOOSE g : AddsUp(g, f, r)
           R == S \ {First(S)}
<1>1. IsFiniteSet(R)  BY FS_Subset
<1>2. AddsUp(Of(S), f, S) /\ AddsUp(Of(R), f, R)
  <2> HIDE DEF R
  <2> QED BY <1>1, AddsUpExists
<1>3. Of(S)[S] = IF S = {} THEN 0 ELSE f[First(S)] + Of(S)[R]
  <2>1. S \in SUBSET S  OBVIOUS
  <2> HIDE DEF Of
  <2> QED BY <1>2, <2>1 DEF AddsUp
<1>4. Of(S)[R] = Of(R)[R]
  <2>1. R \in SUBSET S /\ R \in SUBSET R  OBVIOUS
  <2> HIDE DEF Of, R
  <2> QED BY <1>2, <2>1, AddsUpUnique
<1>5. SumFunctionOnSet(f, S) = Of(S)[S] /\ SumFunctionOnSet(f, R) = Of(R)[R]
  BY SumIsFold
<1> HIDE DEF Of
<1> QED BY <1>3, <1>4, <1>5

LEMMA SumEmpty == ASSUME NEW f PROVE SumFunctionOnSet(f, {}) = 0
BY SumUnfolds, FS_EmptySet

(* Whole summands have a whole sum.                                           *)
LEMMA SumInt ==
    ASSUME NEW f, NEW S, IsFiniteSet(S), \A x \in S : f[x] \in Int
    PROVE  SumFunctionOnSet(f, S) \in Int
<1> DEFINE Bad == {s \in SUBSET S : SumFunctionOnSet(f, s) \notin Int}
<1> SUFFICES ASSUME Bad # {} PROVE FALSE  OBVIOUS
<1>1. PICK s \in Bad : \A r \in Bad : r \subseteq s => r = s
  <2>1. Bad \subseteq SUBSET S  OBVIOUS
  <2> HIDE DEF Bad
  <2> QED BY <2>1, SmallestSubset
<1>2. IsFiniteSet(s)  BY FS_Subset
<1>3. s # {}  BY SumEmpty
<1>4. First(s) \in s  BY <1>3, FirstElement
<1>5. SumFunctionOnSet(f, s \ {First(s)}) \in Int
  <2>1. s \ {First(s)} \notin Bad  BY <1>1, <1>4
  <2> QED BY <2>1
<1>6. SumFunctionOnSet(f, s) = f[First(s)] + SumFunctionOnSet(f, s \ {First(s)})
  BY <1>2, <1>3, SumUnfolds
<1> QED BY <1>4, <1>5, <1>6

(* Any element may be the one taken first.                                    *)
LEMMA SumRemove ==
    ASSUME NEW f, NEW S, IsFiniteSet(S), \A x \in S : f[x] \in Int
    PROVE  \A x \in S : SumFunctionOnSet(f, S) = f[x] + SumFunctionOnSet(f, S \ {x})
<1> DEFINE Sum(s) == SumFunctionOnSet(f, s)
           Bad == {s \in SUBSET S : ~\A x \in s : Sum(s) = f[x] + Sum(s \ {x})}
<1> SUFFICES ASSUME Bad # {} PROVE FALSE  OBVIOUS
<1>1. PICK s \in Bad : \A r \in Bad : r \subseteq s => r = s
  <2>1. Bad \subseteq SUBSET S  OBVIOUS
  <2> HIDE DEF Bad
  <2> QED BY <2>1, SmallestSubset
<1>2. PICK x \in s : Sum(s) # f[x] + Sum(s \ {x})  OBVIOUS
<1> DEFINE y == First(s)
<1>3. y \in s  BY FirstElement
<1>4. \A r \in SUBSET S : r # {} => Sum(r) = f[First(r)] + Sum(r \ {First(r)})
  BY FS_Subset, SumUnfolds
<1>5. Sum(s) = f[y] + Sum(s \ {y})  BY <1>4
<1>6. x # y  BY <1>2, <1>5
<1> DEFINE rest == s \ {x, y}
<1>7. Sum(s \ {y}) = f[x] + Sum(rest)
  <2>1. s \ {y} \notin Bad  BY <1>1, <1>3
  <2>2. x \in s \ {y}  BY <1>6
  <2>3. (s \ {y}) \ {x} = rest  OBVIOUS
  <2> QED BY <2>1, <2>2, <2>3
<1>8. Sum(s \ {x}) = f[y] + Sum(rest)
  <2>1. s \ {x} \notin Bad  BY <1>1
  <2>2. y \in s \ {x}  BY <1>3, <1>6
  <2>3. (s \ {x}) \ {y} = rest  OBVIOUS
  <2> QED BY <2>1, <2>2, <2>3
<1>9. Sum(rest) \in Int
  <2>1. rest \in SUBSET S  OBVIOUS
  <2> HIDE DEF rest
  <2> QED BY <2>1, FS_Subset, SumInt
<1>10. f[x] \in Int /\ f[y] \in Int  BY <1>3
<1>11. Sum(s) = f[x] + Sum(s \ {x})
  <2> HIDE DEF Sum, y, rest, Bad
  <2> QED BY <1>5, <1>7, <1>8, <1>9, <1>10
<1> QED BY <1>2, <1>11

(* A sum grows by the summand of a new element.                               *)
LEMMA SumAdd ==
    ASSUME NEW f, NEW S, IsFiniteSet(S), NEW x, x \notin S, \A y \in S \cup {x} : f[y] \in Int
    PROVE  SumFunctionOnSet(f, S \cup {x}) = f[x] + SumFunctionOnSet(f, S)
<1>1. IsFiniteSet(S \cup {x})  BY FS_AddElement
<1>2. (S \cup {x}) \ {x} = S  OBVIOUS
<1>3. x \in S \cup {x}  OBVIOUS
<1> QED BY <1>1, <1>2, <1>3, SumRemove

(* Only the summands at the elements count.                                   *)
LEMMA SumAgree ==
    ASSUME NEW f, NEW g, NEW S, IsFiniteSet(S), \A x \in S : f[x] = g[x]
    PROVE  SumFunctionOnSet(f, S) = SumFunctionOnSet(g, S)
<1> DEFINE Bad == {s \in SUBSET S : SumFunctionOnSet(f, s) # SumFunctionOnSet(g, s)}
<1> SUFFICES ASSUME Bad # {} PROVE FALSE  OBVIOUS
<1>1. PICK s \in Bad : \A r \in Bad : r \subseteq s => r = s
  <2>1. Bad \subseteq SUBSET S  OBVIOUS
  <2> HIDE DEF Bad
  <2> QED BY <2>1, SmallestSubset
<1>2. IsFiniteSet(s)  BY FS_Subset
<1>3. s # {}  BY SumEmpty
<1>4. First(s) \in s  BY <1>3, FirstElement
<1>5. SumFunctionOnSet(f, s \ {First(s)}) = SumFunctionOnSet(g, s \ {First(s)})
  <2>1. s \ {First(s)} \notin Bad  BY <1>1, <1>4
  <2> QED BY <2>1
<1>6. /\ SumFunctionOnSet(f, s) = f[First(s)] + SumFunctionOnSet(f, s \ {First(s)})
      /\ SumFunctionOnSet(g, s) = g[First(s)] + SumFunctionOnSet(g, s \ {First(s)})
  BY <1>2, <1>3, SumUnfolds
<1>7. f[First(s)] = g[First(s)]  BY <1>4
<1> QED BY <1>5, <1>6, <1>7

(* A sum is the sum over a part and the sum over the rest.                    *)
LEMMA SumSplit ==
    ASSUME NEW f, NEW S, IsFiniteSet(S), \A x \in S : f[x] \in Int, NEW R \in SUBSET S
    PROVE  SumFunctionOnSet(f, S) = SumFunctionOnSet(f, R) + SumFunctionOnSet(f, S \ R)
<1> DEFINE Sum(s) == SumFunctionOnSet(f, s)
           Bad == {s \in SUBSET R : Sum(S) # Sum(S \ s) + Sum(s)}
<1> SUFFICES ASSUME Bad # {} PROVE FALSE
  <2>1. Sum(S) = Sum(S \ R) + Sum(R)  OBVIOUS
  <2>2. Sum(S \ R) \in Int /\ Sum(R) \in Int
    <3>1. IsFiniteSet(S \ R) /\ IsFiniteSet(R)  BY FS_Subset
    <3> QED BY <3>1, SumInt
  <2> HIDE DEF Sum
  <2>3. Sum(S) = Sum(R) + Sum(S \ R)  BY <2>1, <2>2
  <2> QED BY <2>3 DEF Sum
<1>0. \A r \in SUBSET S : IsFiniteSet(r) /\ Sum(r) \in Int  BY FS_Subset, SumInt
<1>1. PICK s \in Bad : \A r \in Bad : r \subseteq s => r = s
  <2>1. Bad \subseteq SUBSET R /\ IsFiniteSet(R)  BY <1>0
  <2> HIDE DEF Bad
  <2> QED BY <2>1, SmallestSubset
<1>2. s # {}
  <2>1. Sum({}) = 0  BY SumEmpty
  <2>2. S \ {} = S  OBVIOUS
  <2>3. Sum(S) \in Int  BY <1>0
  <2> HIDE DEF Sum
  <2>4. Sum(S) = Sum(S \ {}) + Sum({})  BY <2>1, <2>2, <2>3
  <2>5. s \in Bad  OBVIOUS
  <2> QED BY <2>4, <2>5
<1>3. PICK x : x \in s  BY <1>2
<1>4. x \in S /\ f[x] \in Int  BY <1>3
<1>5. Sum(S) = Sum(S \ (s \ {x})) + Sum(s \ {x})
  <2>1. s \ {x} \notin Bad  BY <1>1, <1>3
  <2> QED BY <2>1
<1>6. Sum(s) = f[x] + Sum(s \ {x})
  <2>1. IsFiniteSet(s)  BY <1>0
  <2> QED BY <1>3, <2>1, SumRemove
<1>7. Sum(S \ (s \ {x})) = f[x] + Sum(S \ s)
  <2>1. S \ (s \ {x}) = (S \ s) \cup {x}  BY <1>4
  <2>2. IsFiniteSet(S \ s)  BY <1>0
  <2>3. x \notin S \ s  BY <1>3
  <2>4. Sum((S \ s) \cup {x}) = f[x] + Sum(S \ s)  BY <1>4, <2>2, <2>3, SumAdd
  <2> QED BY <2>1, <2>4
<1>8. Sum(S \ s) \in Int /\ Sum(s \ {x}) \in Int
  <2>1. S \ s \in SUBSET S /\ s \ {x} \in SUBSET S  OBVIOUS
  <2> QED BY <1>0, <2>1
<1>9. Sum(S) # Sum(S \ s) + Sum(s)  BY <1>1
<1> HIDE DEF Sum, Bad
<1> QED BY <1>4, <1>5, <1>6, <1>7, <1>8, <1>9

(* A sum of summands that are not negative is not negative.                   *)
LEMMA SumNonNegative ==
    ASSUME NEW f, NEW S, IsFiniteSet(S), \A x \in S : f[x] \in Int /\ f[x] >= 0
    PROVE  SumFunctionOnSet(f, S) >= 0
<1> DEFINE Bad == {s \in SUBSET S : ~(SumFunctionOnSet(f, s) >= 0)}
<1> SUFFICES ASSUME Bad # {} PROVE FALSE  OBVIOUS
<1>1. PICK s \in Bad : \A r \in Bad : r \subseteq s => r = s
  <2>1. Bad \subseteq SUBSET S  OBVIOUS
  <2> HIDE DEF Bad
  <2> QED BY <2>1, SmallestSubset
<1>2. IsFiniteSet(s)  BY FS_Subset
<1>3. s # {}  BY SumEmpty
<1>4. PICK x : x \in s  BY <1>3
<1>5. SumFunctionOnSet(f, s \ {x}) >= 0
  <2>1. s \ {x} \notin Bad  BY <1>1, <1>4
  <2> QED BY <2>1
<1>6. SumFunctionOnSet(f, s) = f[x] + SumFunctionOnSet(f, s \ {x})
  BY <1>2, <1>4, SumRemove
<1>7. SumFunctionOnSet(f, s \ {x}) \in Int  BY <1>2, FS_Subset, SumInt
<1>8. f[x] \in Int /\ f[x] >= 0  BY <1>4
<1>9. ~(SumFunctionOnSet(f, s) >= 0)  BY <1>1
<1> QED BY <1>5, <1>6, <1>7, <1>8, <1>9

(* The sum over all of a function's arguments when it gets one more.          *)
LEMMA SumExtends ==
    ASSUME NEW f, NEW g, IsFiniteSet(DOMAIN f), NEW x, x \notin DOMAIN f,
           DOMAIN g = DOMAIN f \cup {x}, \A y \in DOMAIN f : g[y] = f[y],
           \A y \in DOMAIN g : g[y] \in Int
    PROVE  SumFunction(g) = g[x] + SumFunction(f)
<1>1. SumFunctionOnSet(g, DOMAIN f \cup {x}) = g[x] + SumFunctionOnSet(g, DOMAIN f)
  BY SumAdd
<1>2. SumFunctionOnSet(g, DOMAIN f) = SumFunctionOnSet(f, DOMAIN f)  BY SumAgree
<1> QED BY <1>1, <1>2 DEF SumFunction
=============================================================================
