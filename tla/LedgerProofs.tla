----------------------------- MODULE LedgerProofs -----------------------------
(***************************************************************************)
(* Theorems about Ledger, for every value of its constants.                *)
(*                                                                         *)
(* The first part holds lemmas about the operators of LedgerData (the      *)
(* calendar stays within the horizon, the rows the handlers insert are     *)
(* well formed, what a sum over rows does when rows come and go) and the   *)
(* theorem that the tables stay well formed.                               *)
(*                                                                         *)
(* The second part is about the links: a refund keeps its original and the *)
(* refunds of an expense stay within it, a bill keeps its payment and is   *)
(* settled when the bills are listed, and the catch-up of a rule remembers *)
(* the dates it handled, makes none beyond its bounds and misses none,     *)
(* whatever is edited, voided, deleted or generated around them.           *)
(*                                                                         *)
(* The third part is about the rows: every transaction ever written keeps  *)
(* the shape its type promises, nothing in use names an archived           *)
(* dependency, the figures of the dashboard are what those shapes amount   *)
(* to, and the members of a composite transaction (a transfer and its fee, *)
(* a loan payment and its interest and fee) live, are voided and are       *)
(* deleted together.                                                       *)
(***************************************************************************)
EXTENDS Ledger, TLAPS, WellFoundedInduction, FiniteSetTheorems

-----------------------------------------------------------------------------
(* Minima and maxima.                                                      *)

(* A non-empty set of natural numbers has a smallest member.               *)
LEMMA NatMin ==
  ASSUME NEW S \in SUBSET Nat, S # {}
  PROVE  \E x \in S : \A y \in S : x =< y
<1> DEFINE R == OpToRel(<, Nat)
<1>1. \A x, y \in Nat : <<x, y>> \in R <=> x < y
  BY DEF OpToRel
<1>2. IsWellFoundedOn(R, Nat)
  BY NatLessThanWellFounded
<1> HIDE DEF R
<1>3. \E x \in S : \A y \in S : <<y, x>> \notin R
  BY <1>2, WFMin
<1>4. PICK x \in S : \A y \in S : <<y, x>> \notin R
  BY <1>3
<1>5. ASSUME NEW y \in S
      PROVE  x =< y
  <2>1. x \in Nat /\ y \in Nat
    OBVIOUS
  <2>2. ~(y < x)
    BY <2>1, <1>1, <1>4
  <2>3. QED
    BY <2>1, <2>2
<1>6. QED
  BY <1>5

(* A non-empty set of natural numbers up to n has a largest member.        *)
LEMMA NatMax ==
  ASSUME NEW n \in Nat, NEW S \in SUBSET (0 .. n), S # {}
  PROVE  \E x \in S : \A y \in S : x >= y
<1> DEFINE T == {n - x : x \in S}
<1>1. T \in SUBSET Nat
  OBVIOUS
<1>2. T # {}
  <2>1. PICK x : x \in S
    OBVIOUS
  <2>2. n - x \in T
    BY <2>1
  <2>3. QED
    BY <2>2
<1>3. \E m \in T : \A y \in T : m =< y
  <2> HIDE DEF T
  <2>1. QED
    BY <1>1, <1>2, NatMin
<1>4. PICK m \in T : \A y \in T : m =< y
  BY <1>3
<1>5. PICK x \in S : m = n - x
  BY <1>4
<1>6. ASSUME NEW y \in S
      PROVE  x >= y
  <2>1. n - x =< n - y
    BY <1>4, <1>5
  <2>2. x \in 0 .. n /\ y \in 0 .. n
    OBVIOUS
  <2>3. QED
    BY <2>1, <2>2
<1>7. QED
  BY <1>6

(* Min and Max of a set of dates are members of it.                        *)
LEMMA MinMaxOfDates ==
  ASSUME NEW S \in SUBSET Dates, S # {}
  PROVE  /\ Min(S) \in S /\ \A y \in S : Min(S) =< y
         /\ Max(S) \in S /\ \A y \in S : Max(S) >= y
<1>1. LastDate \in Nat
  BY BoundsAssumption
<1>2. S \in SUBSET Nat /\ S \in SUBSET (0 .. LastDate)
  BY <1>1 DEF Dates
<1>3. \E x \in S : \A y \in S : x =< y
  BY <1>2, NatMin
<1>4. \E x \in S : \A y \in S : x >= y
  BY <1>1, <1>2, NatMax
<1>5. QED
  BY <1>3, <1>4 DEF Min, Max

(* A non-empty set of subsets of a finite set has a minimal member.        *)
LEMMA SubsetMin ==
  ASSUME NEW S, IsFiniteSet(S), NEW T, T \subseteq SUBSET S, T # {}
  PROVE  \E s \in T : \A r \in T : r \subseteq s => r = s
<1>1. FiniteSubsetsOf(S) = SUBSET S
  BY FS_FiniteSubsetsOfFinite
<1>2. IsWellFoundedOn(StrictSubsetOrdering(S), SUBSET S)
  BY <1>1, FS_StrictSubsetOrderingWellFounded
<1>3. PICK s \in T : \A r \in T : ~ (<<r, s>> \in StrictSubsetOrdering(S))
  BY <1>2, WFMin
<1>4. QED
  BY <1>3 DEF StrictSubsetOrdering

-----------------------------------------------------------------------------
(* Sums over finite sets.  MapThenSumSet is a recursive function that      *)
(* removes a chosen element; a proof by induction would need an operator   *)
(* as a parameter, so each lemma looks at a minimal counterexample.        *)

Chosen(s) == CHOOSE x \in s : TRUE

(* f gives every subset of S the sum of its weights.                       *)
IsSum(f, w, S) ==
  f = [s \in SUBSET S |-> IF s = {} THEN 0 ELSE w[Chosen(s)] + f[s \ {Chosen(s)}]]

Total(w, S) == (CHOOSE f : IsSum(f, w, S))[S]

LEMMA ChosenIn == ASSUME NEW s, s # {} PROVE Chosen(s) \in s
BY DEF Chosen

LEMMA SumAt ==
  ASSUME NEW S, NEW w, NEW f, IsSum(f, w, S), NEW s \in SUBSET S
  PROVE  f[s] = IF s = {} THEN 0 ELSE w[Chosen(s)] + f[s \ {Chosen(s)}]
<1> DEFINE F == [r \in SUBSET S |-> IF r = {} THEN 0 ELSE w[Chosen(r)] + f[r \ {Chosen(r)}]]
<1>1. f = F
  BY DEF IsSum
<1>2. F[s] = IF s = {} THEN 0 ELSE w[Chosen(s)] + f[s \ {Chosen(s)}]
  OBVIOUS
<1>3. QED
  <2> HIDE DEF F
  <2>1. QED
    BY <1>1, <1>2

(* Sums of the same weights agree.                                         *)
LEMMA SumAgree ==
  ASSUME NEW S, IsFiniteSet(S), NEW R \in SUBSET S, NEW w, NEW v,
         \A x \in R : w[x] = v[x],
         NEW f, IsSum(f, w, S), NEW g, IsSum(g, v, R)
  PROVE  \A s \in SUBSET R : f[s] = g[s]
<1> DEFINE T == {s \in SUBSET R : f[s] # g[s]}
<1>1. SUFFICES ASSUME T # {}
               PROVE  FALSE
  OBVIOUS
<1>2. IsFiniteSet(R)
  BY FS_Subset
<1>3. \E s \in T : \A r \in T : r \subseteq s => r = s
  <2>1. T \subseteq SUBSET R
    OBVIOUS
  <2> HIDE DEF T
  <2>2. QED
    BY <1>1, <1>2, <2>1, SubsetMin
<1>4. PICK s \in T : \A r \in T : r \subseteq s => r = s
  BY <1>3
<1>5. s \in SUBSET R /\ s \in SUBSET S /\ f[s] # g[s]
  OBVIOUS
<1>6. CASE s = {}
  BY <1>5, <1>6, SumAt
<1>7. CASE s # {}
  <2> DEFINE x == Chosen(s)
  <2>1. x \in s
    BY <1>7, ChosenIn
  <2> HIDE DEF x
  <2>2. s \ {x} \notin T
    BY <1>4, <2>1
  <2>3. f[s \ {x}] = g[s \ {x}]
    BY <2>2, <1>5
  <2>4. f[s] = w[x] + f[s \ {x}] /\ g[s] = v[x] + g[s \ {x}]
    BY <1>5, <1>7, SumAt DEF x
  <2>5. w[x] = v[x]
    BY <2>1, <1>5
  <2>6. QED
    BY <2>3, <2>4, <2>5, <1>5
<1>8. QED
  BY <1>6, <1>7

(* Every finite set has its sums.                                          *)
LEMMA SumExists ==
  ASSUME NEW S, IsFiniteSet(S), NEW w
  PROVE  IsSum([s \in SUBSET S |-> Total(w, s)], w, S)
<1> DEFINE G(r) == [s \in SUBSET r |-> Total(w, s)]
           T == {r \in SUBSET S : ~IsSum(G(r), w, r)}
<1>1. SUFFICES ASSUME T # {}
               PROVE  FALSE
  OBVIOUS
<1>2. \E s \in T : \A r \in T : r \subseteq s => r = s
  <2>1. T \subseteq SUBSET S
    OBVIOUS
  <2> HIDE DEF T
  <2>2. QED
    BY <1>1, <2>1, SubsetMin
<1>3. PICK s \in T : \A r \in T : r \subseteq s => r = s
  BY <1>2
<1>4. s \in SUBSET S /\ ~IsSum(G(s), w, s) /\ \A r \in SUBSET s : r # s => IsSum(G(r), w, r)
  BY <1>3
<1> HIDE DEF T
<1>5. \A r \in SUBSET s : IsFiniteSet(r)
  BY <1>4, FS_Subset
<1>6. ASSUME NEW r \in SUBSET s, r # s
      PROVE  Total(w, r) = IF r = {} THEN 0 ELSE w[Chosen(r)] + Total(w, r \ {Chosen(r)})
  <2>1. IsSum(G(r), w, r)
    BY <1>4, <1>6
  <2>2. G(r)[r] = IF r = {} THEN 0 ELSE w[Chosen(r)] + G(r)[r \ {Chosen(r)}]
    <3> HIDE DEF G
    <3>1. QED
      BY <2>1, SumAt
  <2>3. QED
    BY <2>2
<1> DEFINE y == Chosen(s)
           last == IF s = {} THEN 0 ELSE w[y] + Total(w, s \ {y})
           h == [r \in SUBSET s |-> IF r = s THEN last ELSE Total(w, r)]
<1>7. IsSum(h, w, s)
  <2> DEFINE H == [r \in SUBSET s |-> IF r = {} THEN 0 ELSE w[Chosen(r)] + h[r \ {Chosen(r)}]]
  <2>1. ASSUME NEW r \in SUBSET s
        PROVE  h[r] = IF r = {} THEN 0 ELSE w[Chosen(r)] + h[r \ {Chosen(r)}]
    <3>1. r # {} => Chosen(r) \in r
      BY ChosenIn
    <3>2. r # {} => h[r \ {Chosen(r)}] = Total(w, r \ {Chosen(r)})
      BY <3>1
    <3>3. CASE r = s
      BY <3>2, <3>3
    <3>4. CASE r # s
      BY <3>2, <3>4, <1>6
    <3>5. QED
      BY <3>3, <3>4
  <2>2. h = H
    <3>1. DOMAIN h = DOMAIN H /\ \A r \in DOMAIN h : h[r] = H[r]
      BY <2>1
    <3>2. QED
      BY <3>1
  <2>3. QED
    <3> HIDE DEF h
    <3>1. QED
      BY <2>2 DEF IsSum
<1>8. Total(w, s) = h[s]
  <2> HIDE DEF h
  <2> DEFINE c == CHOOSE f : IsSum(f, w, s)
  <2>1. IsSum(c, w, s)
    BY <1>7
  <2>2. c[s] = h[s]
    <3> HIDE DEF c
    <3>1. QED
      BY <2>1, <1>7, <1>5, SumAgree
  <2>3. QED
    BY <2>2 DEF Total
<1>9. G(s) = h
  BY <1>8
<1>10. QED
  <2> HIDE DEF h, G
  <2>1. QED
    BY <1>7, <1>9, <1>4

(* The equations of a sum.                                                 *)
LEMMA TotalStep ==
  ASSUME NEW S, IsFiniteSet(S), NEW w
  PROVE  Total(w, S) = IF S = {} THEN 0 ELSE w[Chosen(S)] + Total(w, S \ {Chosen(S)})
<1> DEFINE g == [s \in SUBSET S |-> Total(w, s)]
<1>1. IsSum(g, w, S)
  BY SumExists
<1>2. g[S] = IF S = {} THEN 0 ELSE w[Chosen(S)] + g[S \ {Chosen(S)}]
  <2> HIDE DEF g
  <2>1. QED
    BY <1>1, SumAt
<1>3. QED
  BY <1>2

LEMMA TotalEmpty == ASSUME NEW w PROVE Total(w, {}) = 0
BY TotalStep, FS_EmptySet

(* Only the weights of the members count.                                  *)
LEMMA TotalSame ==
  ASSUME NEW S, IsFiniteSet(S), NEW w, NEW v, \A x \in S : w[x] = v[x]
  PROVE  Total(w, S) = Total(v, S)
<1> DEFINE f == [s \in SUBSET S |-> Total(w, s)]
           g == [s \in SUBSET S |-> Total(v, s)]
<1>1. IsSum(f, w, S) /\ IsSum(g, v, S)
  BY SumExists
<1>2. f[S] = g[S]
  <2> HIDE DEF f, g
  <2>1. \A s \in SUBSET S : f[s] = g[s]
    BY <1>1, SumAgree
  <2>2. QED
    BY <2>1
<1>3. QED
  BY <1>2

(* What SumFunction computes is the total.                                 *)
LEMMA SumIsTotal ==
  ASSUME NEW w, IsFiniteSet(DOMAIN w)
  PROVE  SumFunction(w) = Total(w, DOMAIN w)
<1> DEFINE S == DOMAIN w
           Eq(f) == f = [s \in SUBSET S |-> IF s = {} THEN 0
                       ELSE w[CHOOSE x \in s : TRUE] + f[s \ {CHOOSE x \in s : TRUE}]]
           f0 == [s \in SUBSET S |-> Total(w, s)]
           c == CHOOSE f : Eq(f)
<1>1. SumFunction(w) = c[S]
  BY DEF SumFunction, SumFunctionOnSet, FoldFunctionOnSet, MapThenFoldSet
<1>2. IsSum(f0, w, S)
  BY SumExists
<1>3. \A f : Eq(f) <=> IsSum(f, w, S)
  BY DEF IsSum, Chosen
<1>4. Eq(c)
  <2>1. Eq(f0)
    BY <1>2, <1>3
  <2> HIDE DEF Eq, f0
  <2>2. QED
    BY <2>1
<1>5. IsSum(c, w, S)
  BY <1>3, <1>4
<1>6. c[S] = f0[S]
  <2> HIDE DEF c, f0
  <2>1. S \subseteq S /\ \A x \in S : w[x] = w[x]
    OBVIOUS
  <2>2. \A s \in SUBSET S : c[s] = f0[s]
    BY <1>2, <1>5, <2>1, SumAgree
  <2>3. QED
    BY <2>2
<1>7. QED
  BY <1>1, <1>6

(* A sum of numbers is a number; any member may be taken out of it.        *)
LEMMA TotalInt ==
  ASSUME NEW S, IsFiniteSet(S), NEW w, \A x \in S : w[x] \in Int
  PROVE  Total(w, S) \in Int
<1> DEFINE T == {s \in SUBSET S : Total(w, s) \notin Int}
<1>1. SUFFICES ASSUME T # {}
               PROVE  FALSE
  OBVIOUS
<1>2. \E s \in T : \A r \in T : r \subseteq s => r = s
  <2>1. T \subseteq SUBSET S
    OBVIOUS
  <2> HIDE DEF T
  <2>2. QED
    BY <1>1, <2>1, SubsetMin
<1>3. PICK s \in T : \A r \in T : r \subseteq s => r = s
  BY <1>2
<1>4. IsFiniteSet(s)
  BY FS_Subset
<1> DEFINE x == Chosen(s)
<1>5. Total(w, s) = IF s = {} THEN 0 ELSE w[x] + Total(w, s \ {x})
  BY <1>4, TotalStep
<1>6. s # {} => x \in s
  BY ChosenIn
<1> HIDE DEF x
<1>7. s # {} => Total(w, s \ {x}) \in Int /\ w[x] \in Int
  BY <1>3, <1>6
<1>8. QED
  BY <1>5, <1>7

LEMMA TotalRemove ==
  ASSUME NEW S, IsFiniteSet(S), NEW w, \A y \in S : w[y] \in Int, NEW x \in S
  PROVE  Total(w, S) = w[x] + Total(w, S \ {x})
<1> DEFINE T == {s \in SUBSET S : \E z \in s : Total(w, s) # w[z] + Total(w, s \ {z})}
<1>1. SUFFICES ASSUME T # {}
               PROVE  FALSE
  OBVIOUS
<1>2. \E s \in T : \A r \in T : r \subseteq s => r = s
  <2>1. T \subseteq SUBSET S
    OBVIOUS
  <2> HIDE DEF T
  <2>2. QED
    BY <1>1, <2>1, SubsetMin
<1>3. PICK s \in T : \A r \in T : r \subseteq s => r = s
  BY <1>2
<1>4. PICK z \in s : Total(w, s) # w[z] + Total(w, s \ {z})
  BY <1>3
<1>5. \A r \in SUBSET s : r # s =>
        \A u \in r : Total(w, r) = w[u] + Total(w, r \ {u})
  BY <1>3
<1>6. \A r \in SUBSET s : IsFiniteSet(r) /\ Total(w, r) \in Int
  BY FS_Subset, TotalInt
<1> DEFINE y == Chosen(s)
<1>7. y \in s /\ Total(w, s) = w[y] + Total(w, s \ {y})
  BY <1>4, <1>6, ChosenIn, TotalStep
<1> HIDE DEF y, T
<1>8. y # z
  BY <1>4, <1>7
<1>9. Total(w, s \ {y}) = w[z] + Total(w, (s \ {y}) \ {z})
  BY <1>5, <1>7, <1>8
<1>10. Total(w, s \ {z}) = w[y] + Total(w, (s \ {z}) \ {y})
  BY <1>5, <1>7, <1>8
<1>11. (s \ {z}) \ {y} = (s \ {y}) \ {z}
  OBVIOUS
<1>12. w[y] \in Int /\ w[z] \in Int /\ Total(w, (s \ {y}) \ {z}) \in Int
  <2>1. s \in SUBSET S
    BY <1>3 DEF T
  <2>2. y \in S /\ z \in S /\ (s \ {y}) \ {z} \in SUBSET s
    BY <1>4, <1>7, <2>1
  <2>3. QED
    BY <1>6, <2>2
<1>13. QED
  <2> DEFINE a == w[y]
             b == w[z]
             c == Total(w, (s \ {y}) \ {z})
  <2>1. Total(w, s) = a + (b + c) /\ Total(w, s \ {z}) = a + c /\ Total(w, s) # b + (a + c)
    BY <1>4, <1>7, <1>9, <1>10, <1>11
  <2>2. a \in Int /\ b \in Int /\ c \in Int
    BY <1>12
  <2> HIDE DEF a, b, c
  <2>3. QED
    BY <2>1, <2>2

LEMMA TotalAdd ==
  ASSUME NEW S, IsFiniteSet(S), NEW x, x \notin S,
         NEW w, \A y \in S \cup {x} : w[y] \in Int
  PROVE  Total(w, S \cup {x}) = w[x] + Total(w, S)
<1>1. IsFiniteSet(S \cup {x}) /\ (S \cup {x}) \ {x} = S
  BY FS_AddElement
<1>2. QED
  BY <1>1, TotalRemove

(* With weights that are not negative, fewer members weigh no more.        *)
LEMMA TotalSubset ==
  ASSUME NEW S, IsFiniteSet(S), NEW R \in SUBSET S, NEW w, \A y \in S : w[y] \in Nat
  PROVE  Total(w, R) =< Total(w, S)
<1> DEFINE T == {s \in SUBSET S : R \subseteq s /\ ~(Total(w, R) =< Total(w, s))}
<1>1. SUFFICES ASSUME T # {}
               PROVE  FALSE
  BY DEF T
<1>2. \E s \in T : \A r \in T : r \subseteq s => r = s
  <2>1. T \subseteq SUBSET S
    OBVIOUS
  <2> HIDE DEF T
  <2>2. QED
    BY <1>1, <2>1, SubsetMin
<1>3. PICK s \in T : \A r \in T : r \subseteq s => r = s
  BY <1>2
<1>4. \A r \in SUBSET S : IsFiniteSet(r) /\ Total(w, r) \in Int
  BY FS_Subset, TotalInt
<1>5. R # s
  BY <1>3, <1>4
<1>6. PICK x \in s : x \notin R
  BY <1>3, <1>5
<1>7. Total(w, R) =< Total(w, s \ {x})
  BY <1>3, <1>6
<1>8. Total(w, s) = w[x] + Total(w, s \ {x})
  <2>1. IsFiniteSet(s) /\ \A y \in s : w[y] \in Int
    BY <1>3, <1>4
  <2>2. QED
    BY <1>6, <2>1, TotalRemove
<1>9. w[x] \in Nat /\ Total(w, R) \in Int /\ Total(w, s \ {x}) \in Int /\ Total(w, s) \in Int
  BY <1>3, <1>4, <1>6
<1>10. ~(Total(w, R) =< Total(w, s))
  BY <1>3
<1>11. QED
  <2> HIDE DEF T
  <2>1. QED
    BY <1>7, <1>8, <1>9, <1>10

(* Members that weigh nothing may be left out.                             *)
LEMMA TotalRest ==
  ASSUME NEW S, IsFiniteSet(S), NEW R \in SUBSET S, NEW w, \A y \in S : w[y] \in Int,
         \A y \in S \ R : w[y] = 0
  PROVE  Total(w, S) = Total(w, R)
<1> DEFINE T == {s \in SUBSET S : R \subseteq s /\ Total(w, s) # Total(w, R)}
<1>1. SUFFICES ASSUME T # {}
               PROVE  FALSE
  BY DEF T
<1>2. \E s \in T : \A r \in T : r \subseteq s => r = s
  <2>1. T \subseteq SUBSET S
    OBVIOUS
  <2> HIDE DEF T
  <2>2. QED
    BY <1>1, <2>1, SubsetMin
<1>3. PICK s \in T : \A r \in T : r \subseteq s => r = s
  BY <1>2
<1>4. PICK x \in s : x \notin R
  BY <1>3
<1>5. Total(w, s \ {x}) = Total(w, R)
  BY <1>3, <1>4
<1>6. IsFiniteSet(s) /\ IsFiniteSet(s \ {x}) /\ \A y \in s : w[y] \in Int
  BY <1>3, FS_Subset
<1>7. Total(w, s) = w[x] + Total(w, s \ {x}) /\ Total(w, s \ {x}) \in Int
  BY <1>4, <1>6, TotalRemove, TotalInt
<1>8. w[x] = 0 /\ Total(w, s) # Total(w, R)
  BY <1>3, <1>4
<1>9. QED
  <2> HIDE DEF T
  <2>1. QED
    BY <1>5, <1>7, <1>8

LEMMA TotalZero ==
  ASSUME NEW S, IsFiniteSet(S), NEW w, \A y \in S : w[y] = 0
  PROVE  Total(w, S) = 0
<1>1. {} \in SUBSET S /\ \A y \in S : w[y] \in Int
  OBVIOUS
<1>2. Total(w, S) = Total(w, {})
  BY <1>1, TotalRest
<1>3. QED
  BY <1>2, TotalEmpty

(* At most two members that weigh something.                               *)
LEMMA TotalPair ==
  ASSUME NEW S, IsFiniteSet(S), NEW w, \A y \in S : w[y] \in Int,
         NEW a \in S, NEW b \in S, a # b, \A y \in S \ {a, b} : w[y] = 0
  PROVE  Total(w, S) = w[a] + w[b]
<1>1. IsFiniteSet(S \ {a}) /\ IsFiniteSet((S \ {a}) \ {b})
  BY FS_Subset
<1>2. Total(w, S) = w[a] + Total(w, S \ {a})
  BY TotalRemove
<1>3. Total(w, S \ {a}) = w[b] + Total(w, (S \ {a}) \ {b})
  BY <1>1, TotalRemove
<1>4. Total(w, (S \ {a}) \ {b}) = 0
  BY <1>1, TotalZero
<1>5. QED
  BY <1>2, <1>3, <1>4

LEMMA TotalSingle ==
  ASSUME NEW S, IsFiniteSet(S), NEW w, \A y \in S : w[y] \in Int,
         NEW a \in S, \A y \in S \ {a} : w[y] = 0
  PROVE  Total(w, S) = w[a]
<1>1. IsFiniteSet(S \ {a})
  BY FS_Subset
<1>2. Total(w, S) = w[a] + Total(w, S \ {a})
  BY TotalRemove
<1>3. Total(w, S \ {a}) = 0
  BY <1>1, TotalZero
<1>4. QED
  BY <1>2, <1>3

(* A sum of sums is the sum of what is added up member by member.          *)
LEMMA TotalPlus ==
  ASSUME NEW S, IsFiniteSet(S), NEW u, NEW v, NEW w,
         \A y \in S : u[y] \in Int /\ v[y] \in Int /\ w[y] = u[y] + v[y]
  PROVE  Total(w, S) = Total(u, S) + Total(v, S)
<1> DEFINE T == {s \in SUBSET S : Total(w, s) # Total(u, s) + Total(v, s)}
<1>1. SUFFICES ASSUME T # {}
               PROVE  FALSE
  BY DEF T
<1>2. \E s \in T : \A r \in T : r \subseteq s => r = s
  <2>1. T \subseteq SUBSET S
    OBVIOUS
  <2> HIDE DEF T
  <2>2. QED
    BY <1>1, <2>1, SubsetMin
<1>3. PICK s \in T : \A r \in T : r \subseteq s => r = s
  BY <1>2
<1>4. s # {}
  <2>1. Total(w, {}) = 0 /\ Total(u, {}) = 0 /\ Total(v, {}) = 0
    BY TotalEmpty
  <2>2. Total(w, s) # Total(u, s) + Total(v, s)
    BY <1>3
  <2> HIDE DEF T
  <2>3. ASSUME s = {}
        PROVE  FALSE
    <3>1. Total(w, s) = 0 /\ Total(u, s) = 0 /\ Total(v, s) = 0
      BY <2>1, <2>3
    <3>2. QED
      BY <2>2, <3>1
  <2>4. QED
    BY <2>3
<1>5. PICK x \in s : TRUE
  BY <1>4
<1>6. Total(w, s \ {x}) = Total(u, s \ {x}) + Total(v, s \ {x})
  BY <1>3, <1>5
<1>7. /\ IsFiniteSet(s) /\ IsFiniteSet(s \ {x})
      /\ \A y \in s : u[y] \in Int /\ v[y] \in Int /\ w[y] \in Int
  BY <1>3, FS_Subset
<1>8. /\ Total(u, s) = u[x] + Total(u, s \ {x}) /\ Total(u, s \ {x}) \in Int
      /\ Total(v, s) = v[x] + Total(v, s \ {x}) /\ Total(v, s \ {x}) \in Int
      /\ Total(w, s) = w[x] + Total(w, s \ {x})
  BY <1>5, <1>7, TotalRemove, TotalInt
<1>9. /\ u[x] \in Int /\ v[x] \in Int /\ w[x] = u[x] + v[x]
      /\ Total(w, s) # Total(u, s) + Total(v, s)
  BY <1>3, <1>5
<1>10. QED
  <2> HIDE DEF T
  <2>1. QED
    BY <1>6, <1>8, <1>9

LEMMA TotalNegative ==
  ASSUME NEW S, IsFiniteSet(S), NEW u, NEW w,
         \A y \in S : u[y] \in Int /\ w[y] = -u[y]
  PROVE  Total(w, S) = -Total(u, S)
<1> DEFINE z == [y \in S |-> 0]
<1>1. \A y \in S : u[y] \in Int /\ w[y] \in Int /\ z[y] = u[y] + w[y] /\ z[y] = 0
  OBVIOUS
<1> HIDE DEF z
<1>2. Total(z, S) = Total(u, S) + Total(w, S)
  BY <1>1, TotalPlus
<1>3. Total(z, S) = 0 /\ Total(u, S) \in Int /\ Total(w, S) \in Int
  BY <1>1, TotalZero, TotalInt
<1>4. QED
  BY <1>2, <1>3

(* Rows first or columns first.                                            *)
LEMMA TotalExchange ==
  ASSUME NEW A, IsFiniteSet(A), NEW S, IsFiniteSet(S), NEW m,
         \A a \in A : \A i \in S : m[a][i] \in Int,
         NEW r, \A a \in A : r[a] = Total(m[a], S),
         NEW c, \A i \in S : \A a \in A : c[i][a] = m[a][i],
         NEW k, \A i \in S : k[i] = Total(c[i], A)
  PROVE  Total(r, A) = Total(k, S)
<1> DEFINE Cols(s) == [i \in S |-> Total(c[i], s)]
           T == {s \in SUBSET A : Total(r, s) # Total(Cols(s), S)}
<1>1. Total(Cols(A), S) = Total(k, S)
  <2>1. \A i \in S : Cols(A)[i] = k[i]
    OBVIOUS
  <2> HIDE DEF Cols
  <2>2. QED
    BY <2>1, TotalSame
<1>2. SUFFICES ASSUME T # {}
               PROVE  FALSE
  <2> HIDE DEF Cols
  <2>1. T = {} => Total(r, A) = Total(Cols(A), S)
    OBVIOUS
  <2>2. QED
    BY <1>1, <1>2, <2>1
<1>3. \E s \in T : \A q \in T : q \subseteq s => q = s
  <2>1. T \subseteq SUBSET A
    OBVIOUS
  <2> HIDE DEF T
  <2>2. QED
    BY <1>2, <2>1, SubsetMin
<1>4. PICK s \in T : \A q \in T : q \subseteq s => q = s
  BY <1>3
<1>5. s \in SUBSET A /\ IsFiniteSet(s) /\ Total(r, s) # Total(Cols(s), S)
  <2> HIDE DEF Cols
  <2>1. QED
    BY <1>4, FS_Subset
<1>6. s # {}
  <2>1. SUFFICES ASSUME s = {}
                 PROVE  FALSE
    OBVIOUS
  <2>2. \A i \in S : Cols(s)[i] = 0
    BY <2>1, TotalEmpty
  <2> HIDE DEF Cols, T
  <2>3. Total(Cols(s), S) = 0
    BY <2>2, TotalZero
  <2>4. QED
    BY <1>5, <2>1, <2>3, TotalEmpty
<1>7. PICK x \in s : TRUE
  BY <1>6
<1> DEFINE p == s \ {x}
<1>8. p \in SUBSET A /\ p \subseteq s /\ p # s /\ IsFiniteSet(p)
  BY <1>5, <1>7, FS_Subset
<1>9. Total(r, p) = Total(Cols(p), S)
  <2> HIDE DEF Cols, p
  <2>1. QED
    BY <1>4, <1>8
<1>10. \A a \in A : r[a] \in Int
  BY TotalInt
<1>11. Total(r, s) = r[x] + Total(r, p) /\ r[x] = Total(m[x], S)
  <2>1. \A y \in s : r[y] \in Int
    BY <1>5, <1>10
  <2>2. Total(r, s) = r[x] + Total(r, s \ {x})
    BY <1>5, <1>7, <2>1, TotalRemove
  <2>3. QED
    BY <2>2, <1>5, <1>7
<1>12. ASSUME NEW i \in S
       PROVE  m[x][i] \in Int /\ Cols(p)[i] \in Int /\ Cols(s)[i] = m[x][i] + Cols(p)[i]
  <2> DEFINE g == c[i]
  <2>1. \A y \in s : g[y] \in Int
    BY <1>5
  <2>2. g[x] = m[x][i] /\ m[x][i] \in Int
    BY <1>5, <1>7
  <2>3. Cols(p)[i] = Total(g, p) /\ Cols(s)[i] = Total(g, s)
    OBVIOUS
  <2> HIDE DEF g, Cols
  <2>4. Total(g, s) = g[x] + Total(g, s \ {x})
    BY <1>5, <1>7, <2>1, TotalRemove
  <2>5. Total(g, p) \in Int
    BY <1>8, <2>1, TotalInt
  <2>6. QED
    BY <2>2, <2>3, <2>4, <2>5
<1> HIDE DEF Cols, p, T
<1>13. Total(Cols(s), S) = Total(m[x], S) + Total(Cols(p), S)
  BY <1>12, TotalPlus
<1>14. QED
  BY <1>5, <1>9, <1>11, <1>13

-----------------------------------------------------------------------------
(* The calendar.                                                           *)

(* Day number day of any month is a date, or the day after the horizon.    *)
LEMMA OccurrenceInType ==
  ASSUME NEW m, NEW day \in RuleDays
  PROVE  OccurrenceIn(m, day) \in 1 .. LastDate + 1
<1>1. LastDate \in Nat /\ day \in Nat \ {0}
  BY BoundsAssumption, CalendarAssumption
<1>2. CASE DaysIn(m) = {}
  BY <1>1, <1>2 DEF OccurrenceIn
<1>3. CASE DaysIn(m) # {}
  <2>1. Min(DaysIn(m)) \in Dates /\ Max(DaysIn(m)) \in Dates
    BY <1>3, MinMaxOfDates DEF DaysIn
  <2>2. QED
    BY <1>1, <1>3, <2>1 DEF OccurrenceIn, Dates
<1>4. QED
  BY <1>2, <1>3

(* ... and is a date of that month when the month has dates.               *)
LEMMA OccurrenceInMonth ==
  ASSUME NEW m \in Months, NEW day \in RuleDays
  PROVE  OccurrenceIn(m, day) \in Dates /\ Month[OccurrenceIn(m, day)] = m
<1>1. LastDate \in Nat /\ day \in Nat \ {0} /\ Month \in [Dates -> Nat]
  BY BoundsAssumption, CalendarAssumption DEF Dates
<1>2. DaysIn(m) # {} /\ DaysIn(m) \subseteq Dates
  BY DEF Months, DaysIn
<1> DEFINE first == Min(DaysIn(m))
           last == Max(DaysIn(m))
           d == OccurrenceIn(m, day)
<1>3. first \in DaysIn(m) /\ last \in DaysIn(m) /\ first =< last
  BY <1>2, MinMaxOfDates
<1>4. /\ first \in Dates /\ last \in Dates
      /\ Month[first] = m /\ Month[last] = m
  BY <1>3 DEF DaysIn
<1>5. d = IF first + day - 1 > last THEN last ELSE first + day - 1
  BY <1>2 DEF OccurrenceIn
<1> HIDE DEF first, last, d
<1>6. d \in Dates /\ first =< d /\ d =< last
  BY <1>1, <1>3, <1>4, <1>5 DEF Dates
<1>7. Month[first] =< Month[d] /\ Month[d] =< Month[last]
  BY <1>4, <1>6, MonthsAssumption DEF Dates
<1>8. Month[d] \in Nat /\ m \in Nat
  BY <1>1, <1>4, <1>6
<1>9. QED
  BY <1>4, <1>6, <1>7, <1>8 DEF d

(* The day of a later month is later.                                      *)
LEMMA LaterOccurrence ==
  ASSUME NEW m \in Months, NEW n \in Months, NEW day \in RuleDays
  PROVE  m < n <=> OccurrenceIn(m, day) < OccurrenceIn(n, day)
<1> DEFINE d == OccurrenceIn(m, day)
           e == OccurrenceIn(n, day)
<1>1. /\ d \in Dates /\ Month[d] = m
      /\ e \in Dates /\ Month[e] = n
  BY OccurrenceInMonth
<1>2. LastDate \in Nat /\ m \in Nat /\ n \in Nat
  BY <1>1, BoundsAssumption, CalendarAssumption DEF Dates
<1>3. m = n => d = e
  OBVIOUS
<1> HIDE DEF d, e
<1>4. (d =< e => m =< n) /\ (e =< d => n =< m)
  BY <1>1, MonthsAssumption DEF Dates
<1>5. d \in Int /\ e \in Int
  BY <1>1, <1>2 DEF Dates
<1>6. m < n <=> d < e
  BY <1>2, <1>3, <1>4, <1>5
<1>7. QED
  BY <1>6 DEF d, e

(* Between two months with dates there is none without.                    *)
LEMMA NoGapInMonths ==
  ASSUME NEW m \in Months, NEW n \in Months, m < n
  PROVE  m + 1 \in Months
<1>1. PICK d \in Dates, e \in Dates : Month[d] = m /\ Month[e] = n
  BY DEF Months
<1>2. LastDate \in Nat /\ Month \in [Dates -> Nat]
  BY BoundsAssumption, CalendarAssumption DEF Dates
<1> DEFINE S == {x \in Dates : Month[x] > m}
<1>3. S \in SUBSET Nat /\ e \in S
  BY <1>1, <1>2 DEF Dates
<1>4. PICK x \in S : \A y \in S : x =< y
  <2> HIDE DEF S
  <2>1. QED
    BY <1>3, NatMin
<1>5. x \in Dates /\ Month[x] > m /\ \A y \in Dates : Month[y] > m => x =< y
  BY <1>4
<1>6. d < x
  <2>1. ~(x =< d)
    <3>1. x =< d => Month[x] =< Month[d]
      BY <1>5, MonthsAssumption DEF Dates
    <3>2. QED
      BY <1>1, <1>2, <1>5, <3>1
  <2>2. QED
    BY <1>2, <1>5, <2>1 DEF Dates
<1> DEFINE y == x - 1
<1>7. y \in Dates /\ y \in 1 .. LastDate - 1 /\ y + 1 = x /\ d =< y /\ ~(x =< y)
  BY <1>2, <1>5, <1>6 DEF Dates
<1> HIDE DEF y
<1>8. Month[d] =< Month[y] /\ Month[x] =< Month[y] + 1
  BY <1>7, MonthsAssumption DEF Dates
<1>9. ~(Month[y] > m)
  BY <1>5, <1>7
<1>10. Month[x] \in Nat /\ Month[y] \in Nat /\ m \in Nat
  BY <1>1, <1>2, <1>5, <1>7
<1>11. Month[x] = m + 1
  BY <1>1, <1>5, <1>8, <1>9, <1>10
<1>12. QED
  BY <1>5, <1>11 DEF Months

LEMMA MonthOfMonotone ==
  ASSUME NEW d \in 1 .. LastDate + 1, NEW e \in 1 .. LastDate + 1, d =< e
  PROVE  MonthOf(d) \in Nat /\ MonthOf(e) \in Nat /\ MonthOf(d) =< MonthOf(e)
<1>1. LastDate \in Nat /\ LastDate \in 1 .. LastDate /\ Month \in [1 .. LastDate -> Nat]
  BY BoundsAssumption, CalendarAssumption
<1>2. \A x, y \in 1 .. LastDate : x =< y => Month[x] =< Month[y]
  BY MonthsAssumption
<1>3. \A x \in 1 .. LastDate + 1 : x \in 1 .. LastDate \/ x = LastDate + 1
  BY <1>1
<1>4. LastDate + 1 \notin 1 .. LastDate
  BY <1>1
<1>5. MonthOf(d) \in Nat /\ MonthOf(e) \in Nat
  BY <1>1, <1>3 DEF MonthOf, Dates
<1>6. CASE e \in 1 .. LastDate
  <2>1. d \in 1 .. LastDate
    BY <1>1, <1>6
  <2>2. QED
    BY <1>2, <1>5, <1>6, <2>1 DEF MonthOf, Dates
<1>7. CASE e = LastDate + 1 /\ d \in 1 .. LastDate
  <2>1. Month[d] =< Month[LastDate] /\ Month[d] \in Nat /\ Month[LastDate] \in Nat
    BY <1>1, <1>2, <1>7
  <2>2. MonthOf(d) = Month[d] /\ MonthOf(e) = Month[LastDate] + 1
    BY <1>4, <1>7 DEF MonthOf, Dates
  <2>3. QED
    BY <2>1, <2>2
<1>8. CASE e = LastDate + 1 /\ d = LastDate + 1
  BY <1>5, <1>8
<1>9. QED
  BY <1>3, <1>6, <1>7, <1>8

(* No occurrence lies between a date and the next occurrence from it on.   *)
LEMMA NextOccurrenceIsNext ==
  ASSUME NEW from \in Dates, NEW m \in Months, NEW day \in RuleDays,
         OccurrenceIn(m, day) >= from
  PROVE  OccurrenceIn(m, day) >= NextOccurrence(from, day)
<1> DEFINE mf == MonthOf(from)
           d == OccurrenceIn(m, day)
           c == OccurrenceIn(mf, day)
<1>1. LastDate \in Nat /\ mf = Month[from] /\ mf \in Months /\ mf \in Nat
  BY BoundsAssumption, CalendarAssumption DEF MonthOf, Months, Dates
<1>2. d \in Dates /\ Month[d] = m /\ c \in Dates /\ Month[c] = mf
  BY <1>1, OccurrenceInMonth
<1>3. m \in Nat /\ d \in Int /\ c \in Int /\ from \in Int
  BY <1>1, <1>2, CalendarAssumption DEF Dates
<1>4. mf =< m
  <2> HIDE DEF d, mf
  <2>1. from =< d
    BY <1>3 DEF d
  <2>2. QED
    BY <1>1, <1>2, <2>1, MonthsAssumption DEF Dates
<1>5. NextOccurrence(from, day) = IF c < from THEN OccurrenceIn(mf + 1, day) ELSE c
  BY DEF NextOccurrence
<1>6. CASE c >= from
  <2>1. NextOccurrence(from, day) = c
    BY <1>3, <1>5, <1>6
  <2>2. ~(m < mf) => ~(d < c)
    BY <1>1, LaterOccurrence
  <2>3. QED
    <3> HIDE DEF c, mf, d
    <3>1. d >= c
      BY <1>1, <1>3, <1>4, <2>2
    <3>2. QED
      BY <2>1, <3>1 DEF d
<1>7. CASE c < from
  <2>1. m # mf
    BY <1>3, <1>7
  <2>2. mf < m
    BY <1>1, <1>3, <1>4, <2>1
  <2>3. mf + 1 \in Months
    BY <1>1, <2>2, NoGapInMonths
  <2>4. ~(m < mf + 1) => ~(d < OccurrenceIn(mf + 1, day))
    BY <2>3, LaterOccurrence
  <2>5. OccurrenceIn(mf + 1, day) \in Int
    BY <1>1, <2>3, OccurrenceInMonth DEF Dates
  <2>6. NextOccurrence(from, day) = OccurrenceIn(mf + 1, day)
    BY <1>5, <1>7
  <2>7. QED
    <3> HIDE DEF mf, d
    <3>1. d >= OccurrenceIn(mf + 1, day)
      BY <1>1, <1>3, <2>2, <2>4, <2>5
    <3>2. QED
      BY <2>6, <3>1 DEF d
<1>8. QED
  BY <1>3, <1>6, <1>7

LEMMA NextOccurrenceType ==
  ASSUME NEW from, NEW day \in RuleDays
  PROVE  NextOccurrence(from, day) \in 1 .. LastDate + 1
BY OccurrenceInType DEF NextOccurrence

-----------------------------------------------------------------------------
(* Rows.                                                                   *)

Deltas == -MaxMoney .. MaxMoney

LEMMA MoneyTypes ==
  /\ MaxMoney \in Nat \ {0}
  /\ 0 \in Deltas
  /\ \A n \in Amounts : n \in Deltas /\ -n \in Deltas /\ n \in 0 .. MaxMoney
BY BoundsAssumption DEF Deltas, Amounts

LEMMA LegsType ==
  ASSUME NEW a, NEW b, NEW x \in Deltas, NEW y \in Deltas
  PROVE  /\ OneLeg(a, x) \in [Accounts -> Deltas]
         /\ TwoLegs(a, x, b, y) \in [Accounts -> Deltas]
BY MoneyTypes DEF OneLeg, TwoLegs

LEMMA SplitsType ==
  ASSUME NEW c, NEW n \in Amounts
  PROVE  /\ NoSplit \in [Categories -> 0 .. MaxMoney]
         /\ OneSplit(c, n) \in [Categories -> 0 .. MaxMoney]
BY MoneyTypes DEF NoSplit, OneSplit

LEMMA SignsType ==
  ASSUME NEW a, NEW n \in Amounts
  PROVE  Spend(a, n) \in Deltas /\ GetBack(a, n) \in Deltas
BY MoneyTypes DEF Spend, GetBack

LEMMA TransactionType ==
  ASSUME NEW type \in Types, NEW status \in Statuses, NEW n \in Amounts,
         NEW date \in Dates, NEW legs \in [Accounts -> Deltas],
         NEW splits \in [Categories -> 0 .. MaxMoney]
  PROVE  Transaction(type, status, n, date, legs, splits) \in TxRow
BY DEF Transaction, TxRow, Deltas

LEMMA SimpleRowType ==
  ASSUME NEW status \in Statuses, NEW n \in Amounts, NEW date \in Dates,
         NEW a, NEW c
  PROVE  /\ ExpenseRow(status, n, date, a, c) \in TxRow
         /\ IncomeRow(status, n, date, a, c) \in TxRow
<1>1. /\ OneLeg(a, Spend(a, n)) \in [Accounts -> Deltas]
      /\ OneLeg(a, n) \in [Accounts -> Deltas]
      /\ OneSplit(c, n) \in [Categories -> 0 .. MaxMoney]
  BY LegsType, SplitsType, SignsType, MoneyTypes
<1>2. "EXPENSE" \in Types /\ "INCOME" \in Types
  BY DEF Types
<1>3. QED
  BY <1>1, <1>2, TransactionType DEF ExpenseRow, IncomeRow

-----------------------------------------------------------------------------
(* Tables.                                                                 *)

(* Inserting well-formed rows with new ids.                                *)
LEMMA InsertType ==
  ASSUME NEW Row, NEW t, t \in [DOMAIN t -> Row],
         NEW new, new \in [DOMAIN new -> Row]
  PROVE  /\ DOMAIN Insert(t, new) = DOMAIN t \cup DOMAIN new
         /\ Insert(t, new) \in [DOMAIN Insert(t, new) -> Row]
BY DEF Insert

LEMMA InsertOneType ==
  ASSUME NEW Row, NEW t, t \in [DOMAIN t -> Row], NEW i, NEW row \in Row
  PROVE  /\ DOMAIN Insert(t, [x \in {i} |-> row]) = DOMAIN t \cup {i}
         /\ Insert(t, [x \in {i} |-> row]) \in [DOMAIN t \cup {i} -> Row]
BY DEF Insert

LEMMA UnpaidStatusType ==
  ASSUME NEW due, NEW now
  PROVE  UnpaidStatus(due, now) \in UnpaidStatuses
BY DEF UnpaidStatus, UnpaidStatuses

(* Following payments changes no due date, no link and no set of bills.    *)
LEMMA StatusTypes ==
  /\ \A t, row, now : ReconciledStatus(t, row, now) \in UnpaidStatuses \cup {"PAID", "SKIPPED"}
  /\ \A row \in BillRow, s \in UnpaidStatuses \cup {"PAID", "SKIPPED"} :
       /\ [row EXCEPT !.status = s] \in BillRow
       /\ [row EXCEPT !.status = s, !.payment = None] \in BillRow
<1>1. \A t, row, now : ReconciledStatus(t, row, now) \in UnpaidStatuses \cup {"PAID", "SKIPPED"}
  BY UnpaidStatusType DEF ReconciledStatus
<1>2. QED
  BY <1>1 DEF BillRow

LEMMA ReconciledBillsType ==
  ASSUME NEW t, NEW b, b \in [DOMAIN b -> BillRow], NEW p, NEW now
  PROVE  /\ DOMAIN ReconcileBills(t, b, p, now) = DOMAIN b
         /\ ReconcileBills(t, b, p, now) \in [DOMAIN b -> BillRow]
BY StatusTypes DEF ReconcileBills

LEMMA ReopenBillsType ==
  ASSUME NEW b, b \in [DOMAIN b -> BillRow], NEW gone, NEW now
  PROVE  /\ DOMAIN ReopenBills(b, gone, now) = DOMAIN b
         /\ ReopenBills(b, gone, now) \in [DOMAIN b -> BillRow]
BY StatusTypes, UnpaidStatusType DEF ReopenBills

-----------------------------------------------------------------------------
(* Type correctness, one lemma per group of actions.                       *)

LEMMA InitType == Init => TypeOK
<1> SUFFICES ASSUME Init
             PROVE  TypeOK
  OBVIOUS
<1>1. DOMAIN Empty = {}
  BY DEF Empty
<1>2. \A S : Empty \in [DOMAIN Empty -> S]
  BY DEF Empty
<1>3. QED
  BY <1>1, <1>2, SeedAssumption
     DEF Init, TypeOK, CatalogTypeOK, TxTypeOK, BillTypeOK, RuleTypeOK, BudgetTypeOK

(* Inserting well-formed transactions.                                     *)
LEMMA InsertTx ==
  ASSUME TxTypeOK,
         NEW new, DOMAIN new \subseteq Slots, new \in [DOMAIN new -> TxRow],
         tx' = Insert(tx, new)
  PROVE  TxTypeOK'
<1>1. tx \in [DOMAIN tx -> TxRow] /\ DOMAIN tx \subseteq Slots
  BY DEF TxTypeOK
<1>2. /\ DOMAIN Insert(tx, new) = DOMAIN tx \cup DOMAIN new
      /\ Insert(tx, new) \in [DOMAIN Insert(tx, new) -> TxRow]
  BY <1>1, InsertType
<1>3. DOMAIN tx' = DOMAIN tx \cup DOMAIN new /\ tx' \in [DOMAIN tx' -> TxRow]
  BY <1>2
<1>4. QED
  BY <1>1, <1>3 DEF TxTypeOK

(* ... in one row, and in a group.                                         *)
LEMMA InsertOne ==
  ASSUME TxTypeOK, NEW i \in Slots, NEW row \in TxRow,
         tx' = Insert(tx, [j \in {i} |-> row])
  PROVE  TxTypeOK'
BY InsertTx

LEMMA InsertGroup ==
  ASSUME TxTypeOK, NEW i \in Slots,
         NEW rows, DOMAIN rows \subseteq Slots, rows \in [DOMAIN rows -> TxRow],
         tx' = Insert(tx, Grouped(rows, i))
  PROVE  TxTypeOK'
<1> DEFINE new == Grouped(rows, i)
<1>1. DOMAIN new = DOMAIN rows
  BY DEF Grouped
<1>2. ASSUME NEW j \in DOMAIN rows
      PROVE  new[j] \in TxRow
  BY DEF Grouped, TxRow
<1>3. new \in [DOMAIN new -> TxRow]
  BY <1>1, <1>2 DEF Grouped
<1>4. QED
  BY <1>1, <1>3, InsertTx

(* Rows in the state the action starts from.                               *)
LEMMA TransferRowType ==
  ASSUME NEW n \in Amounts, NEW date \in Dates, NEW a, NEW b
  PROVE  TransferRow(n, date, a, b) \in TxRow
<1>1. "TRANSFER" \in Types /\ "POSTED" \in Statuses
  BY DEF Types, Statuses
<1>2. QED
  BY <1>1, TransactionType, MoneyTypes, LegsType, SplitsType DEF TransferRow, NoSplit

LEMMA RefundRowType ==
  ASSUME TxTypeOK, NEW o \in DOMAIN tx, NEW n \in Amounts, NEW date \in Dates, NEW a
  PROVE  RefundRow(o, n, date, a) \in TxRow
<1> DEFINE splits == [c \in Categories |-> IF tx[o].splits[c] # 0 THEN n ELSE 0]
           plain == Transaction("REFUND", "POSTED", n, date, OneLeg(a, GetBack(a, n)), splits)
<1>1. "REFUND" \in Types /\ "POSTED" \in Statuses
  BY DEF Types, Statuses
<1>2. splits \in [Categories -> 0 .. MaxMoney]
  BY MoneyTypes
<1>3. OneLeg(a, GetBack(a, n)) \in [Accounts -> Deltas]
  BY SignsType, LegsType
<1>4. plain \in TxRow
  <2> HIDE DEF splits
  <2>1. QED
    BY <1>1, <1>2, <1>3, TransactionType
<1>5. o \in Slots
  BY DEF TxTypeOK
<1>6. [plain EXCEPT !.original = o] \in TxRow
  <2> HIDE DEF plain
  <2>1. QED
    BY <1>4, <1>5 DEF TxRow
<1>7. QED
  BY <1>6 DEF RefundRow

LEMMA EditedRowType ==
  ASSUME TxTypeOK, NEW i \in DOMAIN tx, NEW n \in Amounts, NEW date \in Dates,
         NEW a, NEW c
  PROVE  EditedRow(i, n, date, a, c) \in TxRow
<1>1. tx[i].status \in Statuses
  BY DEF TxTypeOK, TxRow
<1>2. QED
  BY <1>1, SimpleRowType DEF EditedRow

-----------------------------------------------------------------------------
(* The actions that record transactions.                                   *)

LEMMA RecordType ==
  ASSUME TypeOK, NEW i \in Free, Record(i)
  PROVE  TypeOK'
<1> SUFFICES ASSUME NEW n \in Amounts, NEW date \in Dates,
                    \/ \E s \in {"POSTED", "DRAFT"}, a \in Accounts, c \in Categories :
                         CreateExpense(i, s, n, date, a, c) \/ CreateIncome(i, s, n, date, a, c)
                    \/ \E a, b \in Accounts :
                         \/ CreateTransfer(i, n, date, a, b)
                         \/ CreateCreditCardPayment(i, n, date, a, b)
                         \/ CreateLoanDisbursement(i, n, date, a, b)
                    \/ \E a \in Accounts, o \in DOMAIN tx : CreateRefund(i, o, n, date, a)
                    \/ \E a \in Accounts, c \in ExpenseCategories, b \in Bills :
                         PayBill(b, i, n, date, a, c)
             PROVE  TypeOK'
  BY DEF Record
<1>0. i \in Slots /\ TxTypeOK /\ {"POSTED", "DRAFT"} \subseteq Statuses
  BY DEF Free, TypeOK, Statuses
<1> USE DEF TypeOK, CatalogTypeOK, BillTypeOK, RuleTypeOK, BudgetTypeOK, catalog, planning
<1>1. ASSUME NEW s \in {"POSTED", "DRAFT"}, NEW a \in Accounts, NEW c \in Categories,
             CreateExpense(i, s, n, date, a, c) \/ CreateIncome(i, s, n, date, a, c)
      PROVE  TypeOK'
  <2>1. ExpenseRow(s, n, date, a, c) \in TxRow /\ IncomeRow(s, n, date, a, c) \in TxRow
    BY <1>0, SimpleRowType
  <2>2. TxTypeOK'
    BY <1>0, <1>1, <2>1, InsertOne DEF CreateExpense, CreateIncome
  <2>3. QED
    BY <1>1, <2>2 DEF CreateExpense, CreateIncome
<1>2. ASSUME NEW a \in Accounts, NEW b \in Accounts,
             \/ CreateTransfer(i, n, date, a, b)
             \/ CreateCreditCardPayment(i, n, date, a, b)
             \/ CreateLoanDisbursement(i, n, date, a, b)
      PROVE  TypeOK'
  <2>1. TransferRow(n, date, a, b) \in TxRow
    BY TransferRowType
  <2>2. /\ TwoLegs(a, -n, b, -n) \in [Accounts -> Deltas]
        /\ TwoLegs(a, n, b, n) \in [Accounts -> Deltas]
        /\ NoSplit \in [Categories -> 0 .. MaxMoney]
    BY LegsType, MoneyTypes, SplitsType
  <2>3. /\ Transaction("CREDIT_CARD_PAYMENT", "POSTED", n, date,
                       TwoLegs(a, -n, b, -n), NoSplit) \in TxRow
        /\ Transaction("LOAN_DISBURSEMENT", "POSTED", n, date,
                       TwoLegs(a, n, b, n), NoSplit) \in TxRow
    BY <1>0, <2>2, TransactionType DEF Types
  <2>4. TxTypeOK'
    BY <1>0, <1>2, <2>1, <2>3, InsertOne
       DEF CreateTransfer, CreateCreditCardPayment, CreateLoanDisbursement
  <2>5. QED
    BY <1>2, <2>4 DEF CreateTransfer, CreateCreditCardPayment, CreateLoanDisbursement
<1>3. ASSUME NEW a \in Accounts, NEW o \in DOMAIN tx, CreateRefund(i, o, n, date, a)
      PROVE  TypeOK'
  <2>1. RefundRow(o, n, date, a) \in TxRow
    BY <1>0, RefundRowType
  <2>2. TxTypeOK'
    BY <1>0, <1>3, <2>1, InsertOne DEF CreateRefund
  <2>3. BillTypeOK'
    <3>1. /\ DOMAIN ReconcileBills(tx', bill, o, date) = DOMAIN bill
          /\ ReconcileBills(tx', bill, o, date) \in [DOMAIN bill -> BillRow]
      <4>1. bill \in [DOMAIN bill -> BillRow]
        BY <1>0
      <4>2. PICK t : t = tx'
        OBVIOUS
      <4>3. /\ DOMAIN ReconcileBills(t, bill, o, date) = DOMAIN bill
            /\ ReconcileBills(t, bill, o, date) \in [DOMAIN bill -> BillRow]
        BY <4>1, ReconciledBillsType
      <4>4. QED
        BY <4>2, <4>3
    <3>2. bill' = ReconcileBills(tx', bill, o, date)
      BY <1>3 DEF CreateRefund
    <3>3. QED
      BY <3>1, <3>2
  <2>4. QED
    BY <1>3, <2>2, <2>3 DEF CreateRefund
<1>4. ASSUME NEW a \in Accounts, NEW c \in ExpenseCategories, NEW b \in Bills,
             PayBill(b, i, n, date, a, c)
      PROVE  TypeOK'
  <2>1. ExpenseRow("POSTED", n, date, a, c) \in TxRow
    BY <1>0, SimpleRowType
  <2>2. TxTypeOK'
    BY <1>0, <1>4, <2>1, InsertOne DEF PayBill
  <2>3. BillTypeOK'
    BY <1>0, <1>4 DEF PayBill, BillRow
  <2>4. QED
    BY <1>4, <2>2, <2>3 DEF PayBill
<1>5. QED
  BY <1>1, <1>2, <1>3, <1>4

LEMMA RecordGroupType ==
  ASSUME TypeOK, NEW i \in Free, RecordGroup(i)
  PROVE  TypeOK'
<1>0. i \in Slots /\ Free \subseteq Slots /\ TxTypeOK /\ "POSTED" \in Statuses
  BY DEF Free, TypeOK, Statuses
<1>1. ASSUME NEW n \in Amounts, NEW date \in Dates, NEW a \in Accounts, NEW b \in Accounts,
             NEW k \in Free, NEW fee \in Amounts,
             CreateTransferWithFee(i, k, n, fee, date, a, b)
      PROVE  TypeOK'
  <2> DEFINE rows == [j \in {i, k} |-> IF j = i THEN TransferRow(n, date, a, b)
                                       ELSE ExpenseRow("POSTED", fee, date, a, TransferFee)]
  <2>1. rows \in [DOMAIN rows -> TxRow] /\ DOMAIN rows \subseteq Slots
    BY <1>0, TransferRowType, SimpleRowType
  <2>2. tx' = Insert(tx, Grouped(rows, i))
    BY <1>1 DEF CreateTransferWithFee
  <2>3. TxTypeOK'
    <3> HIDE DEF rows
    <3>1. QED
      BY <1>0, <2>1, <2>2, InsertGroup
  <2>4. QED
    BY <1>1, <2>3 DEF CreateTransferWithFee, TypeOK, CatalogTypeOK, BillTypeOK,
                      RuleTypeOK, BudgetTypeOK, catalog, planning
<1>2. ASSUME NEW n \in Amounts, NEW date \in Dates, NEW a \in Accounts, NEW b \in Accounts,
             NEW c \in ExpenseCategories, NEW ids \in SUBSET (Free \ {i}),
             NEW children \in [ids -> Amounts],
             CreateLoanPayment(i, children, n, date, a, b, c)
      PROVE  TypeOK'
  <2> DEFINE primary == Transaction("LOAN_PAYMENT", "POSTED", n, date,
                                    TwoLegs(a, -n, b, -n), NoSplit)
             rows == [j \in {i} \cup DOMAIN children |->
                        IF j = i THEN primary
                        ELSE ExpenseRow("POSTED", children[j], date, a, c)]
  <2>1. primary \in TxRow
    <3>1. TwoLegs(a, -n, b, -n) \in [Accounts -> Deltas] /\ "LOAN_PAYMENT" \in Types
      BY LegsType, MoneyTypes DEF Types
    <3>2. NoSplit \in [Categories -> 0 .. MaxMoney]
      BY MoneyTypes DEF NoSplit
    <3>3. QED
      BY <1>0, <3>1, <3>2, TransactionType
  <2>2. \A j \in ids : ExpenseRow("POSTED", children[j], date, a, c) \in TxRow
    BY <1>0, SimpleRowType
  <2>3. rows \in [DOMAIN rows -> TxRow] /\ DOMAIN rows \subseteq Slots
    <3> HIDE DEF primary
    <3>1. QED
      BY <1>0, <2>1, <2>2
  <2>4. tx' = Insert(tx, Grouped(rows, i))
    BY <1>2 DEF CreateLoanPayment
  <2>5. TxTypeOK'
    <3> HIDE DEF rows
    <3>1. QED
      BY <1>0, <2>3, <2>4, InsertGroup
  <2>6. QED
    BY <1>2, <2>5 DEF CreateLoanPayment, TypeOK, CatalogTypeOK, BillTypeOK,
                      RuleTypeOK, BudgetTypeOK, catalog, planning
<1>3. QED
  BY <1>1, <1>2 DEF RecordGroup

LEMMA AdjustType ==
  ASSUME TypeOK, NEW i \in Free, Adjust(i)
  PROVE  TypeOK'
<1>1. PICK delta \in Deltas, date \in Dates, a \in Accounts :
        ReconcileAccount(i, delta, date, a)
  BY DEF Adjust, Deltas
<1> DEFINE n == IF delta < 0 THEN -delta ELSE delta
           row == Transaction("ADJUSTMENT", "POSTED", n, date, OneLeg(a, delta), NoSplit)
<1>2. n \in Amounts
  BY <1>1, BoundsAssumption DEF ReconcileAccount, Deltas, Amounts
<1>3. /\ "ADJUSTMENT" \in Types /\ "POSTED" \in Statuses /\ i \in Slots
      /\ OneLeg(a, delta) \in [Accounts -> Deltas]
      /\ NoSplit \in [Categories -> 0 .. MaxMoney]
  BY LegsType, MoneyTypes DEF NoSplit, Types, Statuses, Free
<1>4. row \in TxRow
  <2> HIDE DEF n
  <2>1. QED
    BY <1>2, <1>3, TransactionType
<1>5. tx' = Insert(tx, [j \in {i} |-> row])
  BY <1>1 DEF ReconcileAccount
<1>6. TxTypeOK'
  <2> HIDE DEF row
  <2>1. QED
    BY <1>3, <1>4, <1>5, InsertOne DEF TypeOK
<1>7. QED
  BY <1>1, <1>6 DEF ReconcileAccount, TypeOK, CatalogTypeOK, BillTypeOK,
                    RuleTypeOK, BudgetTypeOK, catalog, planning

-----------------------------------------------------------------------------
(* The actions that change transactions.                                   *)

(* Deleting or voiding members of gone: bills are reopened and reconciled. *)
LEMMA ReopenedBillsType ==
  ASSUME BillTypeOK, NEW t, NEW gone, NEW p, NEW d,
         bill' = ReconcileBills(t, ReopenBills(bill, gone, d), p, d)
  PROVE  BillTypeOK'
<1> DEFINE b == ReopenBills(bill, gone, d)
<1>1. bill \in [DOMAIN bill -> BillRow]
  BY DEF BillTypeOK
<1>2. DOMAIN b = DOMAIN bill /\ b \in [DOMAIN b -> BillRow]
  BY <1>1, ReopenBillsType
<1>3. /\ DOMAIN ReconcileBills(t, b, p, d) = DOMAIN bill
      /\ ReconcileBills(t, b, p, d) \in [DOMAIN bill -> BillRow]
  <2> HIDE DEF b
  <2>1. QED
    BY <1>2, ReconciledBillsType
<1>4. QED
  BY <1>3 DEF BillTypeOK

LEMMA ChangeType ==
  ASSUME TypeOK, NEW i \in DOMAIN tx, Change(i)
  PROVE  TypeOK'
<1>0. TxTypeOK /\ BillTypeOK /\ \A j \in DOMAIN tx : tx[j] \in TxRow
  BY DEF TypeOK, TxTypeOK
<1> USE DEF TypeOK, CatalogTypeOK, RuleTypeOK, BudgetTypeOK, catalog, planning
<1>1. ASSUME NEW n \in Amounts, NEW date \in Dates, NEW a \in Accounts, NEW c \in Categories,
             UpdateSimpleTransaction(i, n, date, a, c)
      PROVE  TypeOK'
  <2>1. EditedRow(i, n, date, a, c) \in TxRow
    BY <1>0, EditedRowType
  <2>2. TxTypeOK'
    BY <1>0, <1>1, <2>1 DEF UpdateSimpleTransaction, TxTypeOK
  <2>3. QED
    BY <1>1, <2>2 DEF UpdateSimpleTransaction, BillTypeOK
<1>2. ASSUME PostDraftTransaction(i)
      PROVE  TypeOK'
  <2>1. [tx[i] EXCEPT !.status = "POSTED"] \in TxRow
    BY <1>0 DEF TxRow, Statuses
  <2>2. TxTypeOK'
    BY <1>0, <1>2, <2>1 DEF PostDraftTransaction, TxTypeOK
  <2>3. QED
    BY <1>2, <2>2 DEF PostDraftTransaction, BillTypeOK
<1>3. ASSUME DeleteTransaction(i)
      PROVE  TypeOK'
  <2>1. TxTypeOK'
    BY <1>0, <1>3 DEF DeleteTransaction, Remove, TxTypeOK
  <2>2. BillTypeOK'
    BY <1>0, <1>3, ReopenedBillsType DEF DeleteTransaction
  <2>3. RuleTypeOK'
    BY <1>3 DEF DeleteTransaction, DetachOccurrences
  <2>4. QED
    BY <1>3, <2>1, <2>2, <2>3 DEF DeleteTransaction
<1>4. ASSUME VoidTransaction(i)
      PROVE  TypeOK'
  <2>1. \A j \in DOMAIN tx : [tx[j] EXCEPT !.status = "VOIDED"] \in TxRow
    BY <1>0 DEF TxRow, Statuses
  <2>2. TxTypeOK'
    BY <1>0, <1>4, <2>1 DEF VoidTransaction, TxTypeOK
  <2>3. BillTypeOK'
    BY <1>0, <1>4, ReopenedBillsType DEF VoidTransaction
  <2>4. QED
    BY <1>4, <2>2, <2>3 DEF VoidTransaction
<1>5. QED
  BY <1>1, <1>2, <1>3, <1>4 DEF Change

-----------------------------------------------------------------------------
(* The catalog, bills and rules.                                           *)

LEMMA ChangeCatalogType ==
  ASSUME TypeOK, ChangeCatalog
  PROVE  TypeOK'
<1>0. TxTypeOK
  BY DEF TypeOK
<1> USE DEF TypeOK, CatalogTypeOK, BillTypeOK, RuleTypeOK, catalog, planning
<1>1. ASSUME NEW a \in Accounts, CreateAccount(a)
      PROVE  TypeOK'
  <2>1. TxTypeOK'
    <3>1. CASE tx' = tx
      BY <1>0, <3>1 DEF TxTypeOK
    <3>2. ASSUME NEW i \in Free, NEW n \in Amounts,
                 tx' = Insert(tx, [j \in {i} |->
                         Transaction("OPENING_BALANCE", "POSTED", n, today,
                                     OneLeg(a, n), NoSplit)])
          PROVE  TxTypeOK'
      <4>1. /\ OneLeg(a, n) \in [Accounts -> Deltas]
            /\ NoSplit \in [Categories -> 0 .. MaxMoney]
            /\ "OPENING_BALANCE" \in Types /\ "POSTED" \in Statuses
        BY LegsType, SplitsType, MoneyTypes DEF Types, Statuses
      <4>2. Transaction("OPENING_BALANCE", "POSTED", n, today, OneLeg(a, n), NoSplit) \in TxRow
        BY <4>1, TransactionType
      <4>3. i \in Slots
        BY DEF Free
      <4>4. QED
        BY <1>0, <3>2, <4>2, <4>3, InsertOne
    <3>3. QED
      BY <1>1, <3>1, <3>2 DEF CreateAccount
  <2>2. QED
    BY <1>1, <2>1 DEF CreateAccount, BudgetTypeOK
<1>2. ASSUME NEW a \in Accounts, ArchiveAccount(a)
      PROVE  TypeOK'
  BY <1>2 DEF ArchiveAccount, TxTypeOK, BudgetTypeOK
<1>3. ASSUME NEW c \in Categories, ArchiveCategory(c)
      PROVE  TypeOK'
  BY <1>3 DEF ArchiveCategory, TxTypeOK, BudgetTypeOK
<1>4. ASSUME NEW b \in Budgets, CreateBudget(b)
      PROVE  TypeOK'
  <2>1. PICK c \in (ExpenseCategories \cap openCategories) \cup {None} :
          budget' = Insert(budget, [x \in {b} |-> [category |-> c, archived |-> FALSE]])
    BY <1>4 DEF CreateBudget
  <2> DEFINE row == [category |-> c, archived |-> FALSE]
  <2>2. row \in BudgetRow
    BY DEF BudgetRow
  <2>3. budget' = Insert(budget, [x \in {b} |-> row])
    BY <2>1
  <2>4. BudgetTypeOK'
    <3> HIDE DEF row
    <3>1. /\ DOMAIN Insert(budget, [x \in {b} |-> row]) = DOMAIN budget \cup {b}
          /\ Insert(budget, [x \in {b} |-> row]) \in [DOMAIN budget \cup {b} -> BudgetRow]
      BY <2>2, InsertOneType DEF BudgetTypeOK
    <3>2. QED
      BY <2>3, <3>1 DEF BudgetTypeOK
  <2>5. QED
    BY <1>4, <2>4 DEF CreateBudget, TxTypeOK
<1>5. ASSUME NEW b \in Budgets, ArchiveBudget(b)
      PROVE  TypeOK'
  <2>1. BudgetTypeOK'
    BY <1>5 DEF ArchiveBudget, BudgetTypeOK, BudgetRow
  <2>2. QED
    BY <1>5, <2>1 DEF ArchiveBudget, TxTypeOK
<1>6. QED
  BY <1>1, <1>2, <1>3, <1>4, <1>5 DEF ChangeCatalog

LEMMA ChangeBillType ==
  ASSUME TypeOK, ChangeBill
  PROVE  TypeOK'
<1> USE DEF TypeOK, CatalogTypeOK, TxTypeOK, RuleTypeOK, BudgetTypeOK, catalog
<1>1. ASSUME NEW b \in Bills, SkipBill(b)
      PROVE  TypeOK'
  <2>1. BillTypeOK'
    BY <1>1 DEF SkipBill, BillTypeOK, BillRow
  <2>2. QED
    BY <1>1, <2>1 DEF SkipBill
<1>2. ASSUME NEW b \in Bills, NEW due \in Dates, CreateBill(b, due)
      PROVE  TypeOK'
  <2> DEFINE row == [due |-> due, status |-> UnpaidStatus(due, today), payment |-> None]
  <2>1. row \in BillRow
    BY UnpaidStatusType DEF BillRow
  <2>2. bill' = Insert(bill, [x \in {b} |-> row])
    BY <1>2 DEF CreateBill
  <2>3. BillTypeOK'
    <3> HIDE DEF row
    <3>1. /\ DOMAIN Insert(bill, [x \in {b} |-> row]) = DOMAIN bill \cup {b}
          /\ Insert(bill, [x \in {b} |-> row]) \in [DOMAIN bill \cup {b} -> BillRow]
      BY <2>1, InsertOneType DEF BillTypeOK
    <3>2. QED
      BY <2>2, <3>1 DEF BillTypeOK
  <2>4. QED
    BY <1>2, <2>3 DEF CreateBill
<1>3. QED
  BY <1>1, <1>2 DEF ChangeBill

LEMMA ListBillsType ==
  ASSUME TypeOK, ListBills
  PROVE  TypeOK'
<1>1. \A row \in BillRow : RefreshedStatus(row) \in UnpaidStatuses \cup {"PAID", "SKIPPED"}
  BY UnpaidStatusType DEF RefreshedStatus, ReconciledStatus, BillRow
<1>2. \A row \in BillRow : [row EXCEPT !.status = RefreshedStatus(row)] \in BillRow
  BY <1>1 DEF BillRow
<1>3. BillTypeOK'
  BY <1>2 DEF ListBills, TypeOK, BillTypeOK
<1>4. QED
  BY <1>3 DEF ListBills, TypeOK, CatalogTypeOK, TxTypeOK, RuleTypeOK, BudgetTypeOK, catalog

LEMMA ChangeRuleType ==
  ASSUME TypeOK, ChangeRule
  PROVE  TypeOK'
<1> USE DEF TypeOK, CatalogTypeOK, TxTypeOK, BillTypeOK, BudgetTypeOK, catalog
<1>1. ASSUME NEW r \in Rules, NEW active \in BOOLEAN, SetRecurringActive(r, active)
      PROVE  TypeOK'
  <2>1. RuleTypeOK'
    BY <1>1 DEF SetRecurringActive, RuleTypeOK, RuleRow
  <2>2. QED
    BY <1>1, <2>1 DEF SetRecurringActive
<1>2. ASSUME NEW r \in Rules, NEW a \in Accounts, NEW c \in ExpenseCategories,
             NEW n \in Amounts, NEW day \in RuleDays,
             CreateRecurringExpenseDraft(r, a, c, n, day)
      PROVE  TypeOK'
  <2> DEFINE row == [account |-> a, category |-> c, amount |-> n, day |-> day,
                     nextRun |-> NextOccurrence(today, day), active |-> TRUE]
  <2>1. row \in RuleRow
    BY NextOccurrenceType DEF RuleRow
  <2>2. rule' = Insert(rule, [x \in {r} |-> row]) /\ occ' = occ
    BY <1>2 DEF CreateRecurringExpenseDraft
  <2>3. RuleTypeOK'
    <3> HIDE DEF row
    <3>1. /\ DOMAIN Insert(rule, [x \in {r} |-> row]) = DOMAIN rule \cup {r}
          /\ Insert(rule, [x \in {r} |-> row]) \in [DOMAIN rule \cup {r} -> RuleRow]
      BY <2>1, InsertOneType DEF RuleTypeOK
    <3>2. QED
      BY <2>2, <3>1 DEF RuleTypeOK
  <2>4. QED
    BY <1>2, <2>3 DEF CreateRecurringExpenseDraft
<1>3. QED
  BY <1>1, <1>2 DEF ChangeRule

-----------------------------------------------------------------------------
(* generateDueRecurring.                                                   *)

(* The dates of one call are dates up to today, and every cursor stays     *)
(* within the horizon.                                                     *)
LEMMA CursorTypes ==
  ASSUME today \in Dates, NEW row \in RuleRow, NEW early
  PROVE  /\ HealedCursor(row) \in 1 .. LastDate + 1
         /\ ScheduledDates(row, early) \subseteq Dates
         /\ CursorAfter(row, early) \in 1 .. LastDate + 1
<1>1. row.day \in RuleDays /\ row.nextRun \in 1 .. LastDate + 1 /\ LastDate \in Nat
  BY BoundsAssumption DEF RuleRow
<1>2. \A m : OccurrenceIn(m, row.day) \in 1 .. LastDate + 1
  BY <1>1, OccurrenceInType
<1>3. HealedCursor(row) \in 1 .. LastDate + 1
  BY <1>1, <1>2 DEF HealedCursor
<1>4. FirstScheduled(row) \in 1 .. LastDate + 1
  BY <1>2, <1>3 DEF FirstScheduled
<1>5. ScheduledDates(row, early) \subseteq Dates
  <2> SUFFICES ASSUME NEW d \in ScheduledDates(row, early)
               PROVE  d \in Dates
    OBVIOUS
  <2>1. d = FirstScheduled(row) \/ \E m \in Months : d = OccurrenceIn(m, row.day)
    BY DEF ScheduledDates
  <2>2. d \in 1 .. LastDate + 1
    BY <1>2, <1>4, <2>1
  <2>3. d < today \/ d = today
    BY DEF ScheduledDates
  <2>4. QED
    BY <1>1, <2>2, <2>3 DEF Dates
<1>6. CursorAfter(row, early) \in 1 .. LastDate + 1
  BY <1>1, <1>4, NextOccurrenceType DEF CursorAfter
<1>7. QED
  BY <1>3, <1>5, <1>6

LEMMA RunRecurringType ==
  ASSUME TypeOK, RunRecurring
  PROVE  TypeOK'
<1>1. PICK early \in BOOLEAN : \E moved \in SUBSET DueRules :
        \E done \in SUBSET Keys(DueRules, early) :
          \E slot \in FreshSlots(Unmade(done)) :
            GenerateDueRecurring(done, moved, early, slot)
  BY DEF RunRecurring
<1>2. PICK moved \in SUBSET DueRules, done \in SUBSET Keys(DueRules, early) :
        \E slot \in FreshSlots(Unmade(done)) :
          GenerateDueRecurring(done, moved, early, slot)
  BY <1>1
<1>3. PICK slot \in FreshSlots(Unmade(done)) :
        GenerateDueRecurring(done, moved, early, slot)
  BY <1>2
<1>4. today \in Dates /\ \A r \in DOMAIN rule : rule[r] \in RuleRow
  BY DEF TypeOK, RuleTypeOK
<1>5. slot \in [Unmade(done) -> Free] /\ DOMAIN slot = Unmade(done)
  BY DEF FreshSlots
<1>6. ASSUME NEW k \in Unmade(done)
      PROVE  k \in (DOMAIN rule) \X Dates
  <2>1. PICK r \in DueRules : k \in {r} \X ScheduledDates(rule[r], early)
    BY DEF Unmade, Keys
  <2>2. r \in DOMAIN rule
    BY DEF DueRules
  <2>3. ScheduledDates(rule[r], early) \subseteq Dates
    BY <1>4, <2>2, CursorTypes
  <2>4. QED
    BY <2>1, <2>2, <2>3
<1>7. \A k \in Unmade(done) : DraftFor(k) \in TxRow
  <2> SUFFICES ASSUME NEW k \in Unmade(done)
               PROVE  DraftFor(k) \in TxRow
    OBVIOUS
  <2>1. k[1] \in DOMAIN rule /\ k[2] \in Dates
    BY <1>6
  <2>2. rule[k[1]].amount \in Amounts /\ "DRAFT" \in Statuses
    BY <1>4, <2>1 DEF RuleRow, Statuses
  <2>3. QED
    BY <2>1, <2>2, SimpleRowType DEF DraftFor
<1>8. TxTypeOK'
  <2> DEFINE ids == {slot[k] : k \in DOMAIN slot}
             keyOf(i) == CHOOSE k \in DOMAIN slot : slot[k] = i
             new == [i \in ids |-> DraftFor(keyOf(i))]
  <2>1. \A i \in ids : keyOf(i) \in Unmade(done)
    BY <1>5
  <2>2. \A i \in ids : DraftFor(keyOf(i)) \in TxRow
    <3> HIDE DEF keyOf, ids
    <3>1. QED
      BY <1>7, <2>1
  <2>3. DOMAIN new \subseteq Slots
    BY <1>5 DEF Free
  <2>4. new \in [DOMAIN new -> TxRow]
    <3> HIDE DEF keyOf, ids
    <3>1. QED
      BY <2>2
  <2>5. tx' = Insert(tx, new)
    BY <1>3 DEF GenerateDueRecurring
  <2>6. QED
    <3> HIDE DEF new
    <3>1. QED
      BY <2>3, <2>4, <2>5, InsertTx DEF TypeOK
<1>9. DOMAIN rule' = DOMAIN rule /\ rule' \in [DOMAIN rule -> RuleRow]
  <2>1. ASSUME NEW r \in DOMAIN rule
        PROVE  [rule[r] EXCEPT !.nextRun = IF r \in moved THEN CursorAfter(rule[r], early)
                                           ELSE HealedCursor(rule[r])] \in RuleRow
    <3>1. /\ HealedCursor(rule[r]) \in 1 .. LastDate + 1
          /\ CursorAfter(rule[r], early) \in 1 .. LastDate + 1
          /\ rule[r] \in RuleRow
      BY <1>4, CursorTypes
    <3>2. QED
      BY <3>1 DEF RuleRow
  <2>2. QED
    BY <1>3, <2>1 DEF GenerateDueRecurring
<1>10. /\ DOMAIN occ' \subseteq (DOMAIN rule) \X Dates
      /\ occ' \in [DOMAIN occ' -> Slots \cup {None}]
  <2>1. occ \in [DOMAIN occ -> Slots \cup {None}] /\ DOMAIN occ \subseteq (DOMAIN rule) \X Dates
    BY DEF TypeOK, RuleTypeOK
  <2>2. slot \in [DOMAIN slot -> Slots \cup {None}]
    BY <1>5 DEF Free
  <2>3. /\ DOMAIN Insert(occ, slot) = DOMAIN occ \cup DOMAIN slot
        /\ Insert(occ, slot) \in [DOMAIN Insert(occ, slot) -> Slots \cup {None}]
    BY <2>1, <2>2, InsertType
  <2>4. occ' = Insert(occ, slot)
    BY <1>3 DEF GenerateDueRecurring
  <2>5. QED
    BY <1>5, <1>6, <2>1, <2>3, <2>4
<1>11. RuleTypeOK'
  BY <1>9, <1>10 DEF TypeOK, RuleTypeOK
<1>12. QED
  BY <1>3, <1>8, <1>11 DEF GenerateDueRecurring, TypeOK, CatalogTypeOK, BillTypeOK,
                          BudgetTypeOK, catalog

-----------------------------------------------------------------------------
LEMMA NextType ==
  ASSUME TypeOK, [Next]_vars
  PROVE  TypeOK'
<1> USE DEF TypeOK, CatalogTypeOK, TxTypeOK, BillTypeOK, RuleTypeOK, BudgetTypeOK,
            catalog, planning
<1>1. ASSUME NEW d \in Dates, SetClock(d)
      PROVE  TypeOK'
  BY <1>1 DEF SetClock
<1>2. ASSUME WipeLocalFinanceData
      PROVE  TypeOK'
  <2>1. DOMAIN Empty = {} /\ \A S : Empty \in [{} -> S]
    BY DEF Empty
  <2>2. QED
    BY <1>2, <2>1, SeedAssumption DEF WipeLocalFinanceData
<1>3. ASSUME UNCHANGED vars
      PROVE  TypeOK'
  BY <1>3 DEF vars
<1>4. QED
  BY <1>1, <1>2, <1>3, RecordType, RecordGroupType, AdjustType, ChangeType,
     ChangeCatalogType, ChangeBillType, ListBillsType, ChangeRuleType,
     RunRecurringType
     DEF Next

(* Whatever operations run, in whatever order and with whatever clock, the *)
(* tables hold well-formed rows: legs and amounts within the money limit,  *)
(* dates on the calendar, occurrences of existing rules only, and no       *)
(* account open and archived at once.                                      *)
THEOREM TypeCorrect == Spec => []TypeOK
<1>1. Init => TypeOK
  BY InitType
<1>2. TypeOK /\ [Next]_vars => TypeOK'
  BY NextType
<1>3. QED
  BY <1>1, <1>2, PTL DEF Spec

-----------------------------------------------------------------------------
(* The links between rows.                                                 *)

-----------------------------------------------------------------------------
(* RefundsHaveOriginal speaks of refunds in effect only.  It is inductive  *)
(* together with what is kept of voided refunds: their original is still   *)
(* there, and is an expense.                                               *)
OriginalLinks ==
  \A i \in DOMAIN tx :
    /\ tx[i].type # "REFUND" => tx[i].original = None
    /\ tx[i].type = "REFUND" =>
         /\ tx[i].original \in DOMAIN tx
         /\ tx[tx[i].original].type = "EXPENSE"
         /\ tx[i].status = "POSTED" => tx[tx[i].original].status = "POSTED"

Unlinked(row) == row.type # "REFUND" /\ row.original = None

(* Every row but a refund is made without an original.                     *)
LEMMA UnlinkedRows ==
  ASSUME NEW type, type # "REFUND", NEW s, NEW n, NEW d, NEW l, NEW p, NEW a, NEW c
  PROVE  /\ Unlinked(Transaction(type, s, n, d, l, p))
         /\ Unlinked(ExpenseRow(s, n, d, a, c))
         /\ Unlinked(IncomeRow(s, n, d, a, c))
         /\ Unlinked(TransferRow(n, d, a, c))
BY DEF Unlinked, Transaction, ExpenseRow, IncomeRow, TransferRow

LEMMA InsertUnlinked ==
  ASSUME OriginalLinks, NEW new, DOMAIN new \cap DOMAIN tx = {},
         \A j \in DOMAIN new : Unlinked(new[j]),
         tx' = Insert(tx, new)
  PROVE  OriginalLinks'
BY DEF OriginalLinks, Insert, Unlinked

LEMMA InsertOneUnlinked ==
  ASSUME OriginalLinks, NEW i \in Free, NEW row, Unlinked(row),
         tx' = Insert(tx, [j \in {i} |-> row])
  PROVE  OriginalLinks'
<1>1. i \notin DOMAIN tx
  BY DEF Free
<1>2. QED
  BY <1>1, InsertUnlinked

LEMMA InsertGroupUnlinked ==
  ASSUME OriginalLinks, NEW i, NEW rows, DOMAIN rows \subseteq Free,
         \A j \in DOMAIN rows : rows[j] \in TxRow /\ Unlinked(rows[j]),
         tx' = Insert(tx, Grouped(rows, i))
  PROVE  OriginalLinks'
<1> DEFINE new == Grouped(rows, i)
<1>1. DOMAIN new = DOMAIN rows /\ DOMAIN new \cap DOMAIN tx = {}
  BY DEF Grouped, Free
<1>2. \A j \in DOMAIN new : Unlinked(new[j])
  BY DEF Grouped, Unlinked, TxRow
<1>3. QED
  BY <1>1, <1>2, InsertUnlinked

LEMMA RecordOriginals ==
  ASSUME TypeOK, OriginalLinks, NEW i \in Free, Record(i)
  PROVE  OriginalLinks'
<1>1. ASSUME NEW n, NEW date, NEW s, NEW a, NEW c,
             CreateExpense(i, s, n, date, a, c) \/ CreateIncome(i, s, n, date, a, c)
      PROVE  OriginalLinks'
  <2>1. Unlinked(ExpenseRow(s, n, date, a, c)) /\ Unlinked(IncomeRow(s, n, date, a, c))
    BY DEF Unlinked, Transaction, ExpenseRow, IncomeRow
  <2>2. QED
    BY <1>1, <2>1, InsertOneUnlinked DEF CreateExpense, CreateIncome
<1>2. ASSUME NEW n, NEW date, NEW a, NEW b,
             \/ CreateTransfer(i, n, date, a, b)
             \/ CreateCreditCardPayment(i, n, date, a, b)
             \/ CreateLoanDisbursement(i, n, date, a, b)
      PROVE  OriginalLinks'
  <2>1. /\ Unlinked(TransferRow(n, date, a, b))
        /\ Unlinked(Transaction("CREDIT_CARD_PAYMENT", "POSTED", n, date,
                                TwoLegs(a, -n, b, -n), NoSplit))
        /\ Unlinked(Transaction("LOAN_DISBURSEMENT", "POSTED", n, date,
                                TwoLegs(a, n, b, n), NoSplit))
    BY DEF Unlinked, Transaction, TransferRow
  <2>2. QED
    BY <1>2, <2>1, InsertOneUnlinked
       DEF CreateTransfer, CreateCreditCardPayment, CreateLoanDisbursement
<1>3. ASSUME NEW n, NEW date, NEW a, NEW o \in DOMAIN tx, CreateRefund(i, o, n, date, a)
      PROVE  OriginalLinks'
  <2> DEFINE row == RefundRow(o, n, date, a)
  <2>1. row.type = "REFUND" /\ row.original = o
    BY DEF RefundRow, Transaction
  <2>2. o # i /\ i \notin DOMAIN tx /\ tx[o].type = "EXPENSE" /\ tx[o].status = "POSTED"
    BY <1>3 DEF Free, CreateRefund, Posted
  <2>3. tx' = Insert(tx, [j \in {i} |-> row])
    BY <1>3 DEF CreateRefund
  <2>4. QED
    <3> HIDE DEF row
    <3>1. QED
      BY <2>1, <2>2, <2>3 DEF OriginalLinks, Insert
<1>4. ASSUME NEW n, NEW date, NEW a, NEW b, NEW c, PayBill(b, i, n, date, a, c)
      PROVE  OriginalLinks'
  <2>1. Unlinked(ExpenseRow("POSTED", n, date, a, c))
    BY DEF Unlinked, Transaction, ExpenseRow
  <2>2. QED
    BY <1>4, <2>1, InsertOneUnlinked DEF PayBill
<1>5. QED
  BY <1>1, <1>2, <1>3, <1>4 DEF Record

LEMMA RecordGroupOriginals ==
  ASSUME TypeOK, OriginalLinks, NEW i \in Free, RecordGroup(i)
  PROVE  OriginalLinks'
<1>0. "POSTED" \in Statuses
  BY DEF Statuses
<1>1. ASSUME NEW n \in Amounts, NEW date \in Dates, NEW a \in Accounts, NEW b \in Accounts,
             NEW k \in Free, NEW fee \in Amounts,
             CreateTransferWithFee(i, k, n, fee, date, a, b)
      PROVE  OriginalLinks'
  <2> DEFINE rows == [j \in {i, k} |-> IF j = i THEN TransferRow(n, date, a, b)
                                       ELSE ExpenseRow("POSTED", fee, date, a, TransferFee)]
  <2>1. /\ TransferRow(n, date, a, b) \in TxRow
        /\ ExpenseRow("POSTED", fee, date, a, TransferFee) \in TxRow
    BY <1>0, TransferRowType, SimpleRowType
  <2>2. /\ Unlinked(TransferRow(n, date, a, b))
        /\ Unlinked(ExpenseRow("POSTED", fee, date, a, TransferFee))
    BY DEF Unlinked, Transaction, TransferRow, ExpenseRow
  <2>3. DOMAIN rows \subseteq Free /\ \A j \in DOMAIN rows : rows[j] \in TxRow /\ Unlinked(rows[j])
    BY <2>1, <2>2
  <2>4. tx' = Insert(tx, Grouped(rows, i))
    BY <1>1 DEF CreateTransferWithFee
  <2>5. QED
    <3> HIDE DEF rows
    <3>1. QED
      BY <2>3, <2>4, InsertGroupUnlinked
<1>2. ASSUME NEW n \in Amounts, NEW date \in Dates, NEW a \in Accounts, NEW b \in Accounts,
             NEW c \in ExpenseCategories, NEW ids \in SUBSET (Free \ {i}),
             NEW children \in [ids -> Amounts],
             CreateLoanPayment(i, children, n, date, a, b, c)
      PROVE  OriginalLinks'
  <2> DEFINE primary == Transaction("LOAN_PAYMENT", "POSTED", n, date,
                                    TwoLegs(a, -n, b, -n), NoSplit)
             rows == [j \in {i} \cup DOMAIN children |->
                        IF j = i THEN primary
                        ELSE ExpenseRow("POSTED", children[j], date, a, c)]
  <2>1. primary \in TxRow
    <3>1. TwoLegs(a, -n, b, -n) \in [Accounts -> Deltas] /\ "LOAN_PAYMENT" \in Types
      BY LegsType, MoneyTypes DEF Types
    <3>2. NoSplit \in [Categories -> 0 .. MaxMoney]
      BY MoneyTypes DEF NoSplit
    <3>3. QED
      BY <1>0, <3>1, <3>2, TransactionType
  <2>2. Unlinked(primary)
    BY DEF Unlinked, Transaction
  <2>3. \A j \in ids : /\ ExpenseRow("POSTED", children[j], date, a, c) \in TxRow
                       /\ Unlinked(ExpenseRow("POSTED", children[j], date, a, c))
    BY <1>0, SimpleRowType DEF Unlinked, Transaction, ExpenseRow
  <2>4. DOMAIN rows \subseteq Free /\ \A j \in DOMAIN rows : rows[j] \in TxRow /\ Unlinked(rows[j])
    <3> HIDE DEF primary
    <3>1. QED
      BY <2>1, <2>2, <2>3
  <2>5. tx' = Insert(tx, Grouped(rows, i))
    BY <1>2 DEF CreateLoanPayment
  <2>6. QED
    <3> HIDE DEF rows
    <3>1. QED
      BY <2>4, <2>5, InsertGroupUnlinked
<1>3. QED
  BY <1>1, <1>2 DEF RecordGroup

LEMMA AdjustOriginals ==
  ASSUME OriginalLinks, NEW i \in Free, Adjust(i)
  PROVE  OriginalLinks'
<1>1. PICK delta, date, a : ReconcileAccount(i, delta, date, a)
  BY DEF Adjust
<1> DEFINE row == Transaction("ADJUSTMENT", "POSTED", IF delta < 0 THEN -delta ELSE delta,
                              date, OneLeg(a, delta), NoSplit)
<1>2. Unlinked(row)
  BY DEF Unlinked, Transaction
<1>3. tx' = Insert(tx, [j \in {i} |-> row])
  BY <1>1 DEF ReconcileAccount
<1>4. QED
  <2> HIDE DEF row
  <2>1. QED
    BY <1>2, <1>3, InsertOneUnlinked

(* Edits keep types, originals and effect; a delete takes voided refunds   *)
(* along; neither a delete nor a void passes a refund in effect.           *)
LEMMA ChangeOriginals ==
  ASSUME TypeOK, OriginalLinks, NEW i \in DOMAIN tx, Change(i)
  PROVE  OriginalLinks'
<1>0. \A j \in DOMAIN tx : tx[j] \in TxRow
  BY DEF TypeOK, TxTypeOK
<1>1. ASSUME NEW n, NEW date, NEW a, NEW c, UpdateSimpleTransaction(i, n, date, a, c)
      PROVE  OriginalLinks'
  <2> DEFINE row == EditedRow(i, n, date, a, c)
  <2>1. tx[i].type \in {"EXPENSE", "INCOME"}
    BY <1>1 DEF UpdateSimpleTransaction
  <2>2. row.type = tx[i].type /\ row.status = tx[i].status /\ row.original = None
    BY <2>1 DEF EditedRow, ExpenseRow, IncomeRow, Transaction
  <2>3. tx' = [tx EXCEPT ![i] = row]
    BY <1>1 DEF UpdateSimpleTransaction
  <2>4. QED
    <3> HIDE DEF row
    <3>1. QED
      BY <2>1, <2>2, <2>3 DEF OriginalLinks
<1>2. ASSUME PostDraftTransaction(i)
      PROVE  OriginalLinks'
  <2>1. tx[i].type \in {"EXPENSE", "INCOME"} /\ tx' = [tx EXCEPT ![i].status = "POSTED"]
    BY <1>2 DEF PostDraftTransaction
  <2>2. \A j \in DOMAIN tx : /\ tx'[j].type = tx[j].type
                             /\ tx'[j].original = tx[j].original
                             /\ j # i => tx'[j].status = tx[j].status
                             /\ j = i => tx'[j].status = "POSTED"
    BY <1>0, <2>1 DEF TxRow
  <2>3. DOMAIN tx' = DOMAIN tx
    BY <2>1
  <2>4. QED
    BY <2>1, <2>2, <2>3 DEF OriginalLinks
<1>3. ASSUME DeleteTransaction(i)
      PROVE  OriginalLinks'
  <2> DEFINE ids == Members(tx, i)
             removed == RemovedWith(ids)
  <2>1. DOMAIN tx' = DOMAIN tx \ removed /\ \A j \in DOMAIN tx' : tx'[j] = tx[j]
    BY <1>3 DEF DeleteTransaction, Remove
  <2>2. ASSUME NEW j \in DOMAIN tx \ removed, tx[j].type = "REFUND"
        PROVE  tx[j].original \notin removed
    <3>1. tx[j].original \notin ids
      BY <2>2 DEF RemovedWith, RefundsOf
    <3>2. tx[tx[j].original].type = "EXPENSE"
      BY <2>2 DEF OriginalLinks
    <3>3. QED
      BY <3>1, <3>2 DEF RemovedWith, RefundsOf
  <2>3. QED
    <3> HIDE DEF removed, ids
    <3>1. QED
      BY <2>1, <2>2 DEF OriginalLinks
<1>4. ASSUME VoidTransaction(i)
      PROVE  OriginalLinks'
  <2> DEFINE ids == Members(tx, i)
  <2>1. \A j \in DOMAIN tx : /\ tx'[j].type = tx[j].type
                             /\ tx'[j].original = tx[j].original
                             /\ j \in ids => tx'[j].status = "VOIDED"
                             /\ j \notin ids => tx'[j].status = tx[j].status
    BY <1>0, <1>4 DEF VoidTransaction, TxRow
  <2>2. DOMAIN tx' = DOMAIN tx
    BY <1>4 DEF VoidTransaction
  <2>3. \A j \in DOMAIN tx : tx[j].type = "REFUND" /\ tx[j].status = "POSTED"
                              => tx[j].original \notin ids
    BY <1>4 DEF VoidTransaction, HasActiveRefund, ActiveRefunds, RefundsOf
  <2>4. QED
    <3> HIDE DEF ids
    <3>1. QED
      BY <2>1, <2>2, <2>3 DEF OriginalLinks
<1>5. QED
  BY <1>1, <1>2, <1>3, <1>4 DEF Change

LEMMA RunRecurringOriginals ==
  ASSUME OriginalLinks, RunRecurring
  PROVE  OriginalLinks'
<1>1. PICK early \in BOOLEAN : \E moved \in SUBSET DueRules :
        \E done \in SUBSET Keys(DueRules, early) :
          \E slot \in FreshSlots(Unmade(done)) :
            GenerateDueRecurring(done, moved, early, slot)
  BY DEF RunRecurring
<1>2. PICK moved, done : \E slot \in FreshSlots(Unmade(done)) :
        GenerateDueRecurring(done, moved, early, slot)
  BY <1>1
<1>3. PICK slot \in FreshSlots(Unmade(done)) : GenerateDueRecurring(done, moved, early, slot)
  BY <1>2
<1> DEFINE ids == {slot[k] : k \in DOMAIN slot}
           keyOf(j) == CHOOSE k \in DOMAIN slot : slot[k] = j
           new == [j \in ids |-> DraftFor(keyOf(j))]
<1>4. tx' = Insert(tx, new)
  BY <1>3 DEF GenerateDueRecurring
<1>5. DOMAIN new \cap DOMAIN tx = {}
  BY DEF FreshSlots, Free
<1>6. \A k : Unlinked(DraftFor(k))
  BY DEF Unlinked, DraftFor, ExpenseRow, Transaction
<1>7. \A j \in DOMAIN new : Unlinked(new[j])
  BY <1>6
<1>8. QED
  <2> HIDE DEF new
  <2>1. QED
    BY <1>4, <1>5, <1>7, InsertUnlinked

LEMMA NextOriginals ==
  ASSUME TypeOK, OriginalLinks, [Next]_vars
  PROVE  OriginalLinks'
<1>1. ASSUME NEW a, CreateAccount(a)
      PROVE  OriginalLinks'
  <2>1. CASE tx' = tx
    BY <2>1 DEF OriginalLinks
  <2>2. ASSUME NEW i \in Free, NEW n,
               tx' = Insert(tx, [j \in {i} |->
                       Transaction("OPENING_BALANCE", "POSTED", n, today, OneLeg(a, n), NoSplit)])
        PROVE  OriginalLinks'
    <3>1. Unlinked(Transaction("OPENING_BALANCE", "POSTED", n, today, OneLeg(a, n), NoSplit))
      BY DEF Unlinked, Transaction
    <3>2. QED
      BY <2>2, <3>1, InsertOneUnlinked
  <2>3. QED
    BY <1>1, <2>1, <2>2 DEF CreateAccount
<1>2. ASSUME tx' = tx
      PROVE  OriginalLinks'
  BY <1>2 DEF OriginalLinks
<1>3. ASSUME ChangeCatalog
      PROVE  OriginalLinks'
  BY <1>1, <1>2, <1>3
     DEF ChangeCatalog, ArchiveAccount, ArchiveCategory, CreateBudget, ArchiveBudget
<1>4. ASSUME ChangeBill \/ ListBills \/ ChangeRule \/ (\E d \in Dates : SetClock(d)) \/ UNCHANGED vars
      PROVE  OriginalLinks'
  BY <1>2, <1>4 DEF ChangeBill, SkipBill, CreateBill, ListBills, ChangeRule, SetRecurringActive,
                    CreateRecurringExpenseDraft, SetClock, vars
<1>5. ASSUME WipeLocalFinanceData
      PROVE  OriginalLinks'
  BY <1>5 DEF WipeLocalFinanceData, Empty, OriginalLinks
<1>6. QED
  BY <1>3, <1>4, <1>5, RecordOriginals, RecordGroupOriginals, AdjustOriginals,
     ChangeOriginals, RunRecurringOriginals
     DEF Next

LEMMA AlwaysOriginalLinks == Spec => []OriginalLinks
<1>1. Init => OriginalLinks
  BY DEF Init, Empty, OriginalLinks
<1>2. TypeOK /\ OriginalLinks /\ [Next]_vars => OriginalLinks'
  BY NextOriginals
<1>3. QED
  BY <1>1, <1>2, TypeCorrect, PTL DEF Spec

(* No operation leaves a refund in effect without the expense it gives     *)
(* back: the firewall's queries on original links never count a row.       *)
THEOREM RefundsKeepOriginal == Spec => []RefundsHaveOriginal
<1>1. OriginalLinks => RefundsHaveOriginal
  BY DEF OriginalLinks, RefundsHaveOriginal, OriginalLinksValid, Posted
<1>2. QED
  BY <1>1, AlwaysOriginalLinks, PTL

-----------------------------------------------------------------------------
(* What is refunded of an expense.                                         *)

AmountsOf(t) == [r \in DOMAIN t |-> t[r].amount]

LEMMA RefundedIsTotal ==
  ASSUME NEW t, IsFiniteSet(DOMAIN t), NEW i
  PROVE  /\ ActiveRefunds(t, i) \subseteq DOMAIN t
         /\ IsFiniteSet(ActiveRefunds(t, i))
         /\ Refunded(t, i) = Total(AmountsOf(t), ActiveRefunds(t, i))
<1> DEFINE S == ActiveRefunds(t, i)
           w == [r \in S |-> t[r].amount]
<1>1. S \subseteq DOMAIN t
  BY DEF ActiveRefunds, RefundsOf
<1>2. IsFiniteSet(S)
  BY <1>1, FS_Subset
<1>3. Refunded(t, i) = Total(w, S)
  <2>1. DOMAIN w = S
    OBVIOUS
  <2>2. Refunded(t, i) = SumFunction(w)
    BY DEF Refunded
  <2> HIDE DEF w, S
  <2>3. QED
    BY <1>2, <2>1, <2>2, SumIsTotal
<1>4. \A r \in S : w[r] = AmountsOf(t)[r]
  BY <1>1 DEF AmountsOf
<1>5. Total(w, S) = Total(AmountsOf(t), S)
  <2> HIDE DEF w, S
  <2>1. QED
    BY <1>2, <1>4, TotalSame
<1>6. QED
  BY <1>1, <1>2, <1>3, <1>5

(* A table of well-formed rows.                                            *)
Table(t) == IsFiniteSet(DOMAIN t) /\ \A r \in DOMAIN t : t[r].amount \in Nat

LEMMA RefundedIsInt ==
  ASSUME NEW t, Table(t), NEW i
  PROVE  Refunded(t, i) \in Int
<1>1. \A r \in ActiveRefunds(t, i) : AmountsOf(t)[r] \in Int
  BY RefundedIsTotal DEF Table, AmountsOf
<1>2. QED
  BY <1>1, RefundedIsTotal, TotalInt DEF Table

LEMMA NothingRefunded ==
  ASSUME NEW t, Table(t), NEW i, ActiveRefunds(t, i) = {}
  PROVE  Refunded(t, i) = 0
BY RefundedIsTotal, TotalEmpty DEF Table

LEMMA FewerRefunds ==
  ASSUME NEW t, Table(t), NEW u, Table(u), NEW i,
         ActiveRefunds(u, i) \subseteq ActiveRefunds(t, i),
         \A r \in ActiveRefunds(u, i) : u[r].amount = t[r].amount
  PROVE  Refunded(u, i) =< Refunded(t, i)
<1> DEFINE R == ActiveRefunds(u, i)
           S == ActiveRefunds(t, i)
<1>1. /\ Refunded(t, i) = Total(AmountsOf(t), S) /\ S \subseteq DOMAIN t /\ IsFiniteSet(S)
      /\ Refunded(u, i) = Total(AmountsOf(u), R) /\ R \subseteq DOMAIN u /\ IsFiniteSet(R)
  BY RefundedIsTotal DEF Table
<1>2. \A r \in R : AmountsOf(u)[r] = AmountsOf(t)[r]
  BY <1>1 DEF AmountsOf
<1>3. \A r \in S : AmountsOf(t)[r] \in Nat
  BY <1>1 DEF AmountsOf, Table
<1> HIDE DEF R, S
<1>4. Total(AmountsOf(u), R) = Total(AmountsOf(t), R)
  BY <1>1, <1>2, TotalSame
<1>5. R \in SUBSET S
  BY DEF R, S
<1>6. Total(AmountsOf(t), R) =< Total(AmountsOf(t), S)
  BY <1>1, <1>3, <1>5, TotalSubset
<1>7. QED
  BY <1>1, <1>4, <1>6

LEMMA OneMoreRefund ==
  ASSUME NEW t, Table(t), NEW u, Table(u), NEW i, NEW x, x \notin DOMAIN t,
         ActiveRefunds(u, i) = ActiveRefunds(t, i) \cup {x},
         \A r \in ActiveRefunds(t, i) : u[r].amount = t[r].amount
  PROVE  Refunded(u, i) = u[x].amount + Refunded(t, i)
<1> DEFINE S == ActiveRefunds(t, i)
<1>1. /\ Refunded(t, i) = Total(AmountsOf(t), S) /\ S \subseteq DOMAIN t /\ IsFiniteSet(S)
      /\ Refunded(u, i) = Total(AmountsOf(u), S \cup {x}) /\ S \cup {x} \subseteq DOMAIN u
  BY RefundedIsTotal DEF Table
<1>2. \A r \in S : AmountsOf(u)[r] = AmountsOf(t)[r]
  BY <1>1 DEF AmountsOf
<1>3. \A r \in S \cup {x} : AmountsOf(u)[r] \in Int
  BY <1>1 DEF AmountsOf, Table
<1> HIDE DEF S
<1>4. x \notin S
  BY <1>1
<1>5. Total(AmountsOf(u), S \cup {x}) = AmountsOf(u)[x] + Total(AmountsOf(u), S)
  BY <1>1, <1>3, <1>4, TotalAdd
<1>6. Total(AmountsOf(u), S) = Total(AmountsOf(t), S)
  BY <1>1, <1>2, TotalSame
<1>7. AmountsOf(u)[x] = u[x].amount
  BY <1>1 DEF AmountsOf
<1>8. QED
  BY <1>1, <1>5, <1>6, <1>7

LEMMA TxIsTable ==
  ASSUME NEW t, DOMAIN t \subseteq Slots, t \in [DOMAIN t -> TxRow]
  PROVE  Table(t)
<1>1. IsFiniteSet(Slots) /\ MaxMoney \in Nat
  BY SlotsAssumption, BoundsAssumption
<1>2. QED
  BY <1>1, FS_Subset DEF Table, TxRow, Amounts

-----------------------------------------------------------------------------
(* Refunds stay within their expense.  An expense that is new, or that was *)
(* a draft, has no refund yet; no other operation but CreateRefund and     *)
(* UpdateSimpleTransaction, which look at the sum, adds to a sum or makes  *)
(* an amount smaller.                                                      *)

LEMMA KeepWithin ==
  ASSUME NEW t, Table(t), NEW u, Table(u), RefundTotalsValid(t),
         \A i \in DOMAIN u : u[i].type = "EXPENSE" /\ u[i].status = "POSTED" =>
           \/ ActiveRefunds(u, i) = {}
           \/ /\ i \in DOMAIN t /\ t[i].type = "EXPENSE" /\ t[i].status = "POSTED"
              /\ u[i].amount = t[i].amount
              /\ ActiveRefunds(u, i) \subseteq ActiveRefunds(t, i)
              /\ \A r \in ActiveRefunds(u, i) : u[r].amount = t[r].amount
  PROVE  RefundTotalsValid(u)
<1> SUFFICES ASSUME NEW i \in DOMAIN u, u[i].type = "EXPENSE", u[i].status = "POSTED"
             PROVE  Refunded(u, i) =< u[i].amount
  BY DEF RefundTotalsValid
<1>1. CASE ActiveRefunds(u, i) = {}
  <2>1. Refunded(u, i) = 0 /\ u[i].amount \in Nat
    BY <1>1, NothingRefunded DEF Table
  <2>2. QED
    BY <2>1
<1>2. CASE ActiveRefunds(u, i) # {}
  <2>1. /\ i \in DOMAIN t /\ t[i].type = "EXPENSE" /\ t[i].status = "POSTED"
        /\ u[i].amount = t[i].amount
        /\ ActiveRefunds(u, i) \subseteq ActiveRefunds(t, i)
        /\ \A r \in ActiveRefunds(u, i) : u[r].amount = t[r].amount
    BY <1>2
  <2>2. Refunded(u, i) =< Refunded(t, i) /\ Refunded(t, i) =< t[i].amount
    BY <2>1, FewerRefunds DEF RefundTotalsValid
  <2>3. Refunded(u, i) \in Int /\ Refunded(t, i) \in Int /\ t[i].amount \in Int
    BY <2>1, RefundedIsInt DEF Table
  <2>4. QED
    BY <2>1, <2>2, <2>3
<1>3. QED
  BY <1>1, <1>2

Within == RefundTotalsValid(tx)

(* Rows that are no refunds, under fresh ids.                              *)
LEMMA InsertWithin ==
  ASSUME TypeOK, TypeOK', OriginalLinks, Within,
         NEW new, DOMAIN new \cap DOMAIN tx = {},
         \A j \in DOMAIN new : new[j].type # "REFUND",
         tx' = Insert(tx, new)
  PROVE  Within'
<1> DEFINE u == Insert(tx, new)
<1>1. Table(tx) /\ Table(u)
  <2>1. Table(tx) /\ Table(tx')
    BY TxIsTable DEF TypeOK, TxTypeOK
  <2>2. QED
    BY <2>1
<1>2. /\ DOMAIN u = DOMAIN tx \cup DOMAIN new
      /\ \A j \in DOMAIN new : u[j] = new[j]
      /\ \A j \in DOMAIN tx : j \notin DOMAIN new /\ u[j] = tx[j]
  BY DEF Insert
<1> HIDE DEF u
<1>3. \A i : ActiveRefunds(u, i) = ActiveRefunds(tx, i)
  BY <1>2 DEF ActiveRefunds, RefundsOf
<1>4. \A i \in DOMAIN new : ActiveRefunds(tx, i) = {}
  BY <1>2 DEF ActiveRefunds, RefundsOf, OriginalLinks
<1>5. \A r \in DOMAIN tx : u[r].amount = tx[r].amount
  BY <1>2
<1>6. \A i : \A r \in ActiveRefunds(tx, i) : r \in DOMAIN tx
  BY DEF ActiveRefunds, RefundsOf
<1>7. RefundTotalsValid(u)
  BY <1>1, <1>2, <1>3, <1>4, <1>5, <1>6, KeepWithin DEF Within
<1>8. QED
  BY <1>7 DEF Within, u

LEMMA InsertOneWithin ==
  ASSUME TypeOK, TypeOK', OriginalLinks, Within, NEW i \in Free,
         NEW row, row.type # "REFUND",
         tx' = Insert(tx, [j \in {i} |-> row])
  PROVE  Within'
<1>1. i \notin DOMAIN tx
  BY DEF Free
<1>2. QED
  BY <1>1, InsertWithin

LEMMA InsertGroupWithin ==
  ASSUME TypeOK, TypeOK', OriginalLinks, Within, NEW i,
         NEW rows, DOMAIN rows \subseteq Free,
         \A j \in DOMAIN rows : rows[j] \in TxRow /\ rows[j].type # "REFUND",
         tx' = Insert(tx, Grouped(rows, i))
  PROVE  Within'
<1> DEFINE new == Grouped(rows, i)
<1>1. DOMAIN new = DOMAIN rows /\ DOMAIN new \cap DOMAIN tx = {}
  BY DEF Grouped, Free
<1>2. \A j \in DOMAIN new : new[j].type # "REFUND"
  BY DEF Grouped, TxRow
<1>3. QED
  <2> HIDE DEF new
  <2>1. tx' = Insert(tx, new)
    BY DEF new
  <2>2. QED
    BY <1>1, <1>2, <2>1, InsertWithin

(* The new refund fits into what is left.                                  *)
LEMMA RefundWithin ==
  ASSUME TypeOK, TypeOK', OriginalLinks, Within, NEW i \in Free,
         NEW o \in DOMAIN tx, NEW n \in Amounts, NEW date, NEW a,
         CreateRefund(i, o, n, date, a)
  PROVE  Within'
<1> DEFINE row == RefundRow(o, n, date, a)
           u == Insert(tx, [j \in {i} |-> row])
<1>1. /\ row.type = "REFUND" /\ row.original = o /\ row.status = "POSTED" /\ row.amount = n
  BY DEF RefundRow, Transaction
<1> HIDE DEF row
<1>2. tx' = u /\ Refunded(tx, o) + n =< tx[o].amount
  BY <1>1 DEF row, CreateRefund, RefundFits
<1>3. Table(tx) /\ Table(u)
  <2>1. Table(tx) /\ Table(tx')
    BY TxIsTable DEF TypeOK, TxTypeOK
  <2>2. QED
    BY <2>1, <1>2
<1>4. /\ i \notin DOMAIN tx
      /\ DOMAIN u = DOMAIN tx \cup {i}
      /\ u[i] = row
      /\ \A j \in DOMAIN tx : u[j] = tx[j]
  BY DEF Free, Insert
<1> HIDE DEF u
<1>5. /\ ActiveRefunds(u, o) = ActiveRefunds(tx, o) \cup {i}
      /\ \A j : j # o => ActiveRefunds(u, j) = ActiveRefunds(tx, j)
  BY <1>1, <1>4 DEF ActiveRefunds, RefundsOf
<1>6. \A j : ActiveRefunds(tx, j) \subseteq DOMAIN tx
  BY DEF ActiveRefunds, RefundsOf
<1>7. Refunded(u, o) = n + Refunded(tx, o)
  <2>1. \A r \in ActiveRefunds(tx, o) : u[r].amount = tx[r].amount
    BY <1>4, <1>6
  <2>2. QED
    BY <1>1, <1>3, <1>4, <1>5, <2>1, OneMoreRefund
<1>8. ASSUME NEW j \in DOMAIN u, u[j].type = "EXPENSE", u[j].status = "POSTED"
      PROVE  Refunded(u, j) =< u[j].amount
  <2>1. j \in DOMAIN tx /\ u[j] = tx[j]
    BY <1>1, <1>4, <1>8
  <2>2. CASE j = o
    <3>1. Refunded(tx, o) \in Int /\ n \in Int /\ tx[o].amount \in Int
      BY <1>3, RefundedIsInt, BoundsAssumption DEF Amounts, Table
    <3>2. QED
      BY <1>2, <1>7, <2>1, <2>2, <3>1
  <2>3. CASE j # o
    <3>1. ActiveRefunds(u, j) = ActiveRefunds(tx, j)
      BY <1>5, <2>3
    <3>2. \A r \in ActiveRefunds(u, j) : u[r].amount = tx[r].amount
      BY <3>1, <1>4, <1>6
    <3>3. Refunded(u, j) =< Refunded(tx, j)
      BY <1>3, <3>1, <3>2, FewerRefunds
    <3>4. Refunded(tx, j) =< tx[j].amount
      BY <1>8, <2>1 DEF Within, RefundTotalsValid
    <3>5. Refunded(tx, j) \in Int /\ Refunded(u, j) \in Int /\ tx[j].amount \in Int
      BY <1>3, <2>1, RefundedIsInt DEF Table
    <3>6. QED
      BY <2>1, <3>3, <3>4, <3>5
  <2>4. QED
    BY <2>2, <2>3
<1>9. QED
  BY <1>2, <1>8 DEF Within, RefundTotalsValid

LEMMA RecordWithin ==
  ASSUME TypeOK, TypeOK', OriginalLinks, Within, NEW i \in Free, Record(i)
  PROVE  Within'
<1>1. ASSUME NEW n, NEW date, NEW s, NEW a, NEW c,
             CreateExpense(i, s, n, date, a, c) \/ CreateIncome(i, s, n, date, a, c)
      PROVE  Within'
  <2>1. ExpenseRow(s, n, date, a, c).type # "REFUND" /\ IncomeRow(s, n, date, a, c).type # "REFUND"
    BY DEF Transaction, ExpenseRow, IncomeRow
  <2>2. QED
    BY <1>1, <2>1, InsertOneWithin DEF CreateExpense, CreateIncome
<1>2. ASSUME NEW n, NEW date, NEW a, NEW b,
             \/ CreateTransfer(i, n, date, a, b)
             \/ CreateCreditCardPayment(i, n, date, a, b)
             \/ CreateLoanDisbursement(i, n, date, a, b)
      PROVE  Within'
  <2>1. /\ TransferRow(n, date, a, b).type # "REFUND"
        /\ Transaction("CREDIT_CARD_PAYMENT", "POSTED", n, date,
                       TwoLegs(a, -n, b, -n), NoSplit).type # "REFUND"
        /\ Transaction("LOAN_DISBURSEMENT", "POSTED", n, date,
                       TwoLegs(a, n, b, n), NoSplit).type # "REFUND"
    BY DEF Transaction, TransferRow
  <2>2. QED
    BY <1>2, <2>1, InsertOneWithin
       DEF CreateTransfer, CreateCreditCardPayment, CreateLoanDisbursement
<1>3. ASSUME NEW n, NEW date, NEW a, NEW b, NEW c, PayBill(b, i, n, date, a, c)
      PROVE  Within'
  <2>1. ExpenseRow("POSTED", n, date, a, c).type # "REFUND"
    BY DEF Transaction, ExpenseRow
  <2>2. QED
    BY <1>3, <2>1, InsertOneWithin DEF PayBill
<1>4. QED
  BY <1>1, <1>2, <1>3, RefundWithin DEF Record

LEMMA RecordGroupWithin ==
  ASSUME TypeOK, TypeOK', OriginalLinks, Within, NEW i \in Free, RecordGroup(i)
  PROVE  Within'
<1>0. "POSTED" \in Statuses
  BY DEF Statuses
<1>1. ASSUME NEW n \in Amounts, NEW date \in Dates, NEW a \in Accounts, NEW b \in Accounts,
             NEW k \in Free, NEW fee \in Amounts,
             CreateTransferWithFee(i, k, n, fee, date, a, b)
      PROVE  Within'
  <2> DEFINE rows == [j \in {i, k} |-> IF j = i THEN TransferRow(n, date, a, b)
                                       ELSE ExpenseRow("POSTED", fee, date, a, TransferFee)]
  <2>1. /\ TransferRow(n, date, a, b) \in TxRow
        /\ ExpenseRow("POSTED", fee, date, a, TransferFee) \in TxRow
    BY <1>0, TransferRowType, SimpleRowType
  <2>2. /\ TransferRow(n, date, a, b).type # "REFUND"
        /\ ExpenseRow("POSTED", fee, date, a, TransferFee).type # "REFUND"
    BY DEF Transaction, TransferRow, ExpenseRow
  <2>3. /\ DOMAIN rows \subseteq Free
        /\ \A j \in DOMAIN rows : rows[j] \in TxRow /\ rows[j].type # "REFUND"
    BY <2>1, <2>2
  <2>4. tx' = Insert(tx, Grouped(rows, i))
    BY <1>1 DEF CreateTransferWithFee
  <2>5. QED
    <3> HIDE DEF rows
    <3>1. QED
      BY <2>3, <2>4, InsertGroupWithin
<1>2. ASSUME NEW n \in Amounts, NEW date \in Dates, NEW a \in Accounts, NEW b \in Accounts,
             NEW c \in ExpenseCategories, NEW ids \in SUBSET (Free \ {i}),
             NEW children \in [ids -> Amounts],
             CreateLoanPayment(i, children, n, date, a, b, c)
      PROVE  Within'
  <2> DEFINE primary == Transaction("LOAN_PAYMENT", "POSTED", n, date,
                                    TwoLegs(a, -n, b, -n), NoSplit)
             rows == [j \in {i} \cup DOMAIN children |->
                        IF j = i THEN primary
                        ELSE ExpenseRow("POSTED", children[j], date, a, c)]
  <2>1. primary \in TxRow
    <3>1. TwoLegs(a, -n, b, -n) \in [Accounts -> Deltas] /\ "LOAN_PAYMENT" \in Types
      BY LegsType, MoneyTypes DEF Types
    <3>2. NoSplit \in [Categories -> 0 .. MaxMoney]
      BY MoneyTypes DEF NoSplit
    <3>3. QED
      BY <1>0, <3>1, <3>2, TransactionType
  <2>2. primary.type # "REFUND"
    BY DEF Transaction
  <2>3. \A j \in ids : /\ ExpenseRow("POSTED", children[j], date, a, c) \in TxRow
                       /\ ExpenseRow("POSTED", children[j], date, a, c).type # "REFUND"
    BY <1>0, SimpleRowType DEF Transaction, ExpenseRow
  <2>4. /\ DOMAIN rows \subseteq Free
        /\ \A j \in DOMAIN rows : rows[j] \in TxRow /\ rows[j].type # "REFUND"
    <3> HIDE DEF primary
    <3>1. QED
      BY <2>1, <2>2, <2>3
  <2>5. tx' = Insert(tx, Grouped(rows, i))
    BY <1>2 DEF CreateLoanPayment
  <2>6. QED
    <3> HIDE DEF rows
    <3>1. QED
      BY <2>4, <2>5, InsertGroupWithin
<1>3. QED
  BY <1>1, <1>2 DEF RecordGroup

LEMMA AdjustWithin ==
  ASSUME TypeOK, TypeOK', OriginalLinks, Within, NEW i \in Free, Adjust(i)
  PROVE  Within'
<1>1. PICK delta, date, a : ReconcileAccount(i, delta, date, a)
  BY DEF Adjust
<1> DEFINE row == Transaction("ADJUSTMENT", "POSTED", IF delta < 0 THEN -delta ELSE delta,
                              date, OneLeg(a, delta), NoSplit)
<1>2. row.type # "REFUND"
  BY DEF Transaction
<1>3. tx' = Insert(tx, [j \in {i} |-> row])
  BY <1>1 DEF ReconcileAccount
<1>4. QED
  <2> HIDE DEF row
  <2>1. QED
    BY <1>2, <1>3, InsertOneWithin

(* A new amount covers the refunds; an expense that was a draft has none;  *)
(* deleting and voiding take refunds away.                                 *)
LEMMA ChangeWithin ==
  ASSUME TypeOK, TypeOK', OriginalLinks, Within, NEW i \in DOMAIN tx, Change(i)
  PROVE  Within'
<1>0. /\ \A j \in DOMAIN tx : tx[j] \in TxRow
      /\ Table(tx) /\ Table(tx')
  BY TxIsTable DEF TypeOK, TxTypeOK
<1>1. ASSUME NEW n \in Amounts, NEW date, NEW a, NEW c,
             UpdateSimpleTransaction(i, n, date, a, c)
      PROVE  Within'
  <2> DEFINE row == EditedRow(i, n, date, a, c)
             u == [tx EXCEPT ![i] = row]
  <2>1. tx[i].type \in {"EXPENSE", "INCOME"} /\ Refunded(tx, i) =< n
    BY <1>1 DEF UpdateSimpleTransaction, CoversRefunds
  <2>2. row.type = tx[i].type /\ row.status = tx[i].status /\ row.amount = n
    BY <2>1 DEF EditedRow, ExpenseRow, IncomeRow, Transaction
  <2> HIDE DEF row
  <2>3. tx' = u
    BY <1>1 DEF row, UpdateSimpleTransaction
  <2>4. DOMAIN u = DOMAIN tx /\ u[i] = row /\ \A j \in DOMAIN tx \ {i} : u[j] = tx[j]
    OBVIOUS
  <2> HIDE DEF u
  <2>5. \A j : ActiveRefunds(u, j) = ActiveRefunds(tx, j)
    BY <2>1, <2>2, <2>4 DEF ActiveRefunds, RefundsOf
  <2>6. \A j : \A r \in ActiveRefunds(tx, j) : u[r].amount = tx[r].amount
    BY <2>1, <2>4 DEF ActiveRefunds, RefundsOf
  <2>7. ASSUME NEW j \in DOMAIN u, u[j].type = "EXPENSE", u[j].status = "POSTED"
        PROVE  Refunded(u, j) =< u[j].amount
    <3>1. Refunded(u, j) =< Refunded(tx, j)
      BY <1>0, <2>3, <2>5, <2>6, FewerRefunds
    <3>2. Refunded(u, j) \in Int /\ Refunded(tx, j) \in Int /\ u[j].amount \in Int
      BY <1>0, <2>3, RefundedIsInt DEF Table
    <3>3. Refunded(tx, j) =< u[j].amount
      BY <2>1, <2>2, <2>4, <2>7 DEF Within, RefundTotalsValid
    <3>4. QED
      BY <3>1, <3>2, <3>3
  <2>8. QED
    BY <2>3, <2>7 DEF Within, RefundTotalsValid
<1>2. ASSUME PostDraftTransaction(i)
      PROVE  Within'
  <2>1. /\ tx[i].type \in {"EXPENSE", "INCOME"} /\ tx[i].status = "DRAFT"
        /\ tx' = [tx EXCEPT ![i].status = "POSTED"]
    BY <1>2 DEF PostDraftTransaction
  <2>2. PICK u : u = tx'
    OBVIOUS
  <2>3. /\ DOMAIN u = DOMAIN tx
        /\ \A j \in DOMAIN tx : /\ u[j].type = tx[j].type
                                /\ u[j].amount = tx[j].amount
                                /\ u[j].original = tx[j].original
                                /\ j # i => u[j].status = tx[j].status
    BY <1>0, <2>1, <2>2 DEF TxRow
  <2>4. \A j : ActiveRefunds(u, j) = ActiveRefunds(tx, j)
    BY <2>1, <2>3 DEF ActiveRefunds, RefundsOf
  <2>5. ActiveRefunds(tx, i) = {}
    BY <2>1 DEF ActiveRefunds, RefundsOf, OriginalLinks
  <2>6. \A j : \A r \in ActiveRefunds(tx, j) : u[r].amount = tx[r].amount
    BY <2>3 DEF ActiveRefunds, RefundsOf
  <2>7. RefundTotalsValid(u)
    BY <1>0, <2>2, <2>3, <2>4, <2>5, <2>6, KeepWithin DEF Within
  <2>8. QED
    BY <2>2, <2>7 DEF Within
<1>3. ASSUME DeleteTransaction(i)
      PROVE  Within'
  <2>1. PICK u : u = tx'
    OBVIOUS
  <2>2. DOMAIN u \subseteq DOMAIN tx /\ \A j \in DOMAIN u : u[j] = tx[j]
    BY <1>3, <2>1 DEF DeleteTransaction, Remove
  <2>3. \A j : /\ ActiveRefunds(u, j) \subseteq ActiveRefunds(tx, j)
               /\ ActiveRefunds(u, j) \subseteq DOMAIN u
    BY <2>2 DEF ActiveRefunds, RefundsOf
  <2>4. RefundTotalsValid(u)
    BY <1>0, <2>1, <2>2, <2>3, KeepWithin DEF Within
  <2>5. QED
    BY <2>1, <2>4 DEF Within
<1>4. ASSUME VoidTransaction(i)
      PROVE  Within'
  <2>1. PICK u : u = tx'
    OBVIOUS
  <2>2. /\ DOMAIN u = DOMAIN tx
        /\ \A j \in DOMAIN tx : /\ u[j].type = tx[j].type
                                /\ u[j].amount = tx[j].amount
                                /\ u[j].original = tx[j].original
                                /\ u[j].status \in {tx[j].status, "VOIDED"}
    BY <1>0, <1>4, <2>1 DEF VoidTransaction, TxRow
  <2>3. \A j : ActiveRefunds(u, j) \subseteq ActiveRefunds(tx, j)
    BY <2>2 DEF ActiveRefunds, RefundsOf
  <2>4. \A j : \A r \in ActiveRefunds(u, j) : u[r].amount = tx[r].amount
    BY <2>2 DEF ActiveRefunds, RefundsOf
  <2>5. RefundTotalsValid(u)
    BY <1>0, <2>1, <2>2, <2>3, <2>4, KeepWithin DEF Within
  <2>6. QED
    BY <2>1, <2>5 DEF Within
<1>5. QED
  BY <1>1, <1>2, <1>3, <1>4 DEF Change

LEMMA RunRecurringWithin ==
  ASSUME TypeOK, TypeOK', OriginalLinks, Within, RunRecurring
  PROVE  Within'
<1>1. PICK early \in BOOLEAN : \E moved \in SUBSET DueRules :
        \E done \in SUBSET Keys(DueRules, early) :
          \E slot \in FreshSlots(Unmade(done)) :
            GenerateDueRecurring(done, moved, early, slot)
  BY DEF RunRecurring
<1>2. PICK moved, done : \E slot \in FreshSlots(Unmade(done)) :
        GenerateDueRecurring(done, moved, early, slot)
  BY <1>1
<1>3. PICK slot \in FreshSlots(Unmade(done)) : GenerateDueRecurring(done, moved, early, slot)
  BY <1>2
<1> DEFINE ids == {slot[k] : k \in DOMAIN slot}
           keyOf(j) == CHOOSE k \in DOMAIN slot : slot[k] = j
           new == [j \in ids |-> DraftFor(keyOf(j))]
<1>4. tx' = Insert(tx, new)
  BY <1>3 DEF GenerateDueRecurring
<1>5. DOMAIN new \cap DOMAIN tx = {}
  BY DEF FreshSlots, Free
<1>6. \A k : DraftFor(k).type = "EXPENSE"
  BY DEF DraftFor, ExpenseRow, Transaction
<1>7. \A j \in DOMAIN new : new[j].type # "REFUND"
  BY <1>6
<1>8. QED
  <2> HIDE DEF new
  <2>1. QED
    BY <1>4, <1>5, <1>7, InsertWithin

LEMMA NextWithin ==
  ASSUME TypeOK, TypeOK', OriginalLinks, Within, [Next]_vars
  PROVE  Within'
<1>1. ASSUME NEW a, CreateAccount(a)
      PROVE  Within'
  <2>1. CASE tx' = tx
    BY <2>1 DEF Within
  <2>2. ASSUME NEW i \in Free, NEW n,
               tx' = Insert(tx, [j \in {i} |->
                       Transaction("OPENING_BALANCE", "POSTED", n, today, OneLeg(a, n), NoSplit)])
        PROVE  Within'
    <3>1. Transaction("OPENING_BALANCE", "POSTED", n, today, OneLeg(a, n), NoSplit).type # "REFUND"
      BY DEF Transaction
    <3>2. QED
      BY <2>2, <3>1, InsertOneWithin
  <2>3. QED
    BY <1>1, <2>1, <2>2 DEF CreateAccount
<1>2. ASSUME tx' = tx
      PROVE  Within'
  BY <1>2 DEF Within
<1>3. ASSUME ChangeCatalog
      PROVE  Within'
  BY <1>1, <1>2, <1>3
     DEF ChangeCatalog, ArchiveAccount, ArchiveCategory, CreateBudget, ArchiveBudget
<1>4. ASSUME ChangeBill \/ ListBills \/ ChangeRule \/ (\E d \in Dates : SetClock(d)) \/ UNCHANGED vars
      PROVE  Within'
  BY <1>2, <1>4 DEF ChangeBill, SkipBill, CreateBill, ListBills, ChangeRule, SetRecurringActive,
                    CreateRecurringExpenseDraft, SetClock, vars
<1>5. ASSUME WipeLocalFinanceData
      PROVE  Within'
  BY <1>5 DEF WipeLocalFinanceData, Empty, Within, RefundTotalsValid
<1>6. QED
  BY <1>3, <1>4, <1>5, RecordWithin, RecordGroupWithin, AdjustWithin, ChangeWithin,
     RunRecurringWithin
     DEF Next

(* The refunds in effect of an expense in effect never add up to more than *)
(* the expense, in whatever order refunds are made and voided and the      *)
(* expense is edited: the firewall's query on refund totals never counts a *)
(* row.                                                                    *)
THEOREM RefundsNeverExceed == Spec => []RefundsWithinOriginal
<1>1. Init => Within
  BY DEF Init, Empty, Within, RefundTotalsValid
<1>2. TypeOK /\ TypeOK' /\ OriginalLinks /\ Within /\ [Next]_vars => Within'
  BY NextWithin
<1>3. Within => RefundsWithinOriginal
  BY DEF Within, RefundsWithinOriginal
<1>4. QED
  BY <1>1, <1>2, <1>3, TypeCorrect, AlwaysOriginalLinks, PTL DEF Spec

-----------------------------------------------------------------------------
(* BillPaymentsInEffect is inductive together with: whatever a bill is     *)
(* linked to is an expense, so that no cleanup of refunds removes it.      *)
PaidBy(t, row) ==
  /\ row.payment # None => row.payment \in DOMAIN t /\ t[row.payment].type = "EXPENSE"
  /\ row.status = "PAID" => row.payment # None /\ t[row.payment].status = "POSTED"

OnePayment(b) ==
  \A x, y \in DOMAIN b : x # y /\ b[x].payment # None => b[y].payment # b[x].payment

BillLinks == OnePayment(bill) /\ \A x \in DOMAIN bill : PaidBy(tx, bill[x])

(* Reconciling a bill with its payment leaves a PAID bill paid.            *)
LEMMA ReconciledLinks ==
  ASSUME NEW t, NEW b, b \in [DOMAIN b -> BillRow], NEW p, NEW d,
         OnePayment(b), \A x \in DOMAIN b : PaidBy(t, b[x])
  PROVE  /\ OnePayment(ReconcileBills(t, b, p, d))
         /\ DOMAIN ReconcileBills(t, b, p, d) = DOMAIN b
         /\ \A x \in DOMAIN b : PaidBy(t, ReconcileBills(t, b, p, d)[x])
<1> DEFINE r == ReconcileBills(t, b, p, d)
<1>1. DOMAIN r = DOMAIN b /\ \A x \in DOMAIN b : r[x].payment = b[x].payment
  BY DEF ReconcileBills, BillRow
<1>2. OnePayment(r)
  BY <1>1 DEF OnePayment
<1>3. ASSUME NEW x \in DOMAIN b
      PROVE  PaidBy(t, r[x])
  <2>1. CASE p # None /\ b[x].payment = p
    <3>1. r[x].status = ReconciledStatus(t, b[x], d)
      BY <2>1 DEF ReconcileBills, BillRow
    <3>2. r[x].status = "PAID" => Posted(t, p)
      BY <2>1, <3>1, UnpaidStatusType DEF ReconciledStatus, FullyRefunded, UnpaidStatuses
    <3>3. QED
      BY <1>1, <2>1, <3>2 DEF PaidBy, Posted
  <2>2. CASE ~(p # None /\ b[x].payment = p)
    <3>1. r[x] = b[x]
      BY <2>2 DEF ReconcileBills
    <3>2. QED
      BY <3>1
  <2>3. QED
    BY <2>1, <2>2
<1>4. QED
  BY <1>1, <1>2, <1>3

(* Reopening the bills paid by gone, when nothing but gone and refunds     *)
(* loses its effect.                                                       *)
LEMMA ReopenedLinks ==
  ASSUME TypeOK, BillLinks, NEW t, NEW gone, NEW p, NEW d,
         \A j \in DOMAIN tx \ gone : tx[j].type = "EXPENSE" =>
           j \in DOMAIN t /\ t[j].type = tx[j].type /\ t[j].status = tx[j].status,
         None \notin gone,
         tx' = t, bill' = ReconcileBills(t, ReopenBills(bill, gone, d), p, d)
  PROVE  BillLinks'
<1> DEFINE b == ReopenBills(bill, gone, d)
<1>0. bill \in [DOMAIN bill -> BillRow]
  BY DEF TypeOK, BillTypeOK
<1>1. DOMAIN b = DOMAIN bill /\ b \in [DOMAIN b -> BillRow]
  BY <1>0, ReopenBillsType
<1>2. \A x \in DOMAIN bill : b[x].payment = IF bill[x].payment \in gone THEN None
                                            ELSE bill[x].payment
  BY <1>0 DEF ReopenBills, BillRow
<1>3. OnePayment(b)
  <2> HIDE DEF b
  <2>1. QED
    BY <1>1, <1>2 DEF BillLinks, OnePayment
<1>4. ASSUME NEW x \in DOMAIN b
      PROVE  PaidBy(t, b[x])
  <2>1. CASE bill[x].payment \in gone
    <3>1. b[x].status \in UnpaidStatuses
      BY <1>0, <1>1, <2>1, UnpaidStatusType DEF ReopenBills, BillRow
    <3>2. b[x].payment = None /\ b[x].status # "PAID"
      BY <1>1, <1>2, <2>1, <3>1 DEF UnpaidStatuses
    <3>3. QED
      BY <3>2 DEF PaidBy
  <2>2. CASE bill[x].payment \notin gone
    <3>1. b[x] = bill[x]
      BY <1>1, <2>2 DEF ReopenBills
    <3>2. PaidBy(tx, bill[x])
      BY <1>1 DEF BillLinks
    <3>3. QED
      BY <2>2, <3>1, <3>2 DEF PaidBy
  <2>3. QED
    BY <2>1, <2>2
<1>5. /\ OnePayment(bill')
      /\ DOMAIN bill' = DOMAIN b
      /\ \A x \in DOMAIN b : PaidBy(t, bill'[x])
  <2> HIDE DEF b
  <2>1. /\ OnePayment(ReconcileBills(t, b, p, d))
        /\ DOMAIN ReconcileBills(t, b, p, d) = DOMAIN b
        /\ \A x \in DOMAIN b : PaidBy(t, ReconcileBills(t, b, p, d)[x])
    BY <1>1, <1>3, <1>4, ReconciledLinks
  <2>2. bill' = ReconcileBills(t, b, p, d)
    BY DEF b
  <2>3. QED
    BY <2>1, <2>2
<1>6. QED
  BY <1>5 DEF BillLinks

(* A step that leaves bills alone and keeps every expense and its effect.  *)
LEMMA KeptLinks ==
  ASSUME BillLinks, bill' = bill,
         \A j \in DOMAIN tx : tx[j].type = "EXPENSE" =>
           /\ j \in DOMAIN tx' /\ tx'[j].type = "EXPENSE"
           /\ tx[j].status = "POSTED" => tx'[j].status = "POSTED"
  PROVE  BillLinks'
BY DEF BillLinks, PaidBy, OnePayment

(* New transactions pay no bill of theirs.                                 *)
LEMMA InsertKeepsLinks ==
  ASSUME BillLinks, bill' = bill, NEW new, DOMAIN new \subseteq Free,
         tx' = Insert(tx, new)
  PROVE  BillLinks'
<1>1. \A j \in DOMAIN tx : j \in DOMAIN tx' /\ tx'[j] = tx[j]
  BY DEF Insert, Free
<1>2. QED
  BY <1>1, KeptLinks

LEMMA RecordBills ==
  ASSUME TypeOK, BillLinks, NEW i \in Free, Record(i) \/ RecordGroup(i) \/ Adjust(i)
  PROVE  BillLinks'
<1>1. ASSUME bill' = bill, NEW row, tx' = Insert(tx, [j \in {i} |-> row])
      PROVE  BillLinks'
  BY <1>1, InsertKeepsLinks
<1>2. ASSUME bill' = bill, NEW rows, NEW k, DOMAIN rows \subseteq Free,
             tx' = Insert(tx, Grouped(rows, k))
      PROVE  BillLinks'
  <2>1. DOMAIN Grouped(rows, k) = DOMAIN rows
    BY DEF Grouped
  <2>2. QED
    BY <1>2, <2>1, InsertKeepsLinks
<1>3. ASSUME NEW n, NEW date, NEW s, NEW a, NEW b, NEW c,
             \/ CreateExpense(i, s, n, date, a, c) \/ CreateIncome(i, s, n, date, a, c)
             \/ CreateTransfer(i, n, date, a, b)
             \/ CreateCreditCardPayment(i, n, date, a, b)
             \/ CreateLoanDisbursement(i, n, date, a, b)
             \/ ReconcileAccount(i, s, date, a)
      PROVE  BillLinks'
  BY <1>1, <1>3 DEF CreateExpense, CreateIncome, CreateTransfer, CreateCreditCardPayment,
                    CreateLoanDisbursement, ReconcileAccount, planning
<1>4. ASSUME NEW n, NEW date, NEW a, NEW b, NEW c,
             \/ \E k \in Free, fee \in Amounts : CreateTransferWithFee(i, k, n, fee, date, a, b)
             \/ \E ids \in SUBSET (Free \ {i}) : \E children \in [ids -> Amounts] :
                  CreateLoanPayment(i, children, n, date, a, b, c)
      PROVE  BillLinks'
  <2>1. ASSUME NEW k \in Free, NEW fee, CreateTransferWithFee(i, k, n, fee, date, a, b)
        PROVE  BillLinks'
    <3> DEFINE rows == [j \in {i, k} |-> IF j = i THEN TransferRow(n, date, a, b)
                                         ELSE ExpenseRow("POSTED", fee, date, a, TransferFee)]
    <3>1. bill' = bill /\ DOMAIN rows \subseteq Free /\ tx' = Insert(tx, Grouped(rows, i))
      BY <2>1 DEF CreateTransferWithFee, planning
    <3>2. QED
      <4> HIDE DEF rows
      <4>1. QED
        BY <1>2, <3>1
  <2>2. ASSUME NEW ids \in SUBSET (Free \ {i}), NEW children \in [ids -> Amounts],
               CreateLoanPayment(i, children, n, date, a, b, c)
        PROVE  BillLinks'
    <3> DEFINE rows == [j \in {i} \cup DOMAIN children |->
                 IF j = i THEN Transaction("LOAN_PAYMENT", "POSTED", n, date,
                                           TwoLegs(a, -n, b, -n), NoSplit)
                 ELSE ExpenseRow("POSTED", children[j], date, a, c)]
    <3>1. bill' = bill /\ DOMAIN rows \subseteq Free /\ tx' = Insert(tx, Grouped(rows, i))
      BY <2>2 DEF CreateLoanPayment, planning
    <3>2. QED
      <4> HIDE DEF rows
      <4>1. QED
        BY <1>2, <3>1
  <2>3. QED
    BY <1>4, <2>1, <2>2
<1>5. ASSUME NEW n, NEW date, NEW a, NEW o, CreateRefund(i, o, n, date, a)
      PROVE  BillLinks'
  <2> DEFINE t == tx'
             r == ReconcileBills(t, bill, o, date)
  <2>1. \A j \in DOMAIN tx : j \in DOMAIN tx' /\ tx'[j] = tx[j]
    BY <1>5 DEF CreateRefund, Insert, Free
  <2>2. OnePayment(bill) /\ \A x \in DOMAIN bill : PaidBy(t, bill[x])
    BY <2>1 DEF BillLinks, PaidBy
  <2>3. bill \in [DOMAIN bill -> BillRow]
    BY DEF TypeOK, BillTypeOK
  <2>4. OnePayment(r) /\ DOMAIN r = DOMAIN bill /\ \A x \in DOMAIN bill : PaidBy(t, r[x])
    <3> HIDE DEF t
    <3>1. QED
      BY <2>2, <2>3, ReconciledLinks
  <2>5. bill' = r
    BY <1>5 DEF CreateRefund
  <2>6. QED
    <3> HIDE DEF r
    <3>1. QED
      BY <2>4, <2>5 DEF BillLinks
<1>6. ASSUME NEW n, NEW date, NEW a, NEW b, NEW c, PayBill(b, i, n, date, a, c)
      PROVE  BillLinks'
  <2>1. \A j \in DOMAIN tx : j \in DOMAIN tx' /\ tx'[j] = tx[j]
    BY <1>6 DEF PayBill, Insert, Free
  <2>2. i \in DOMAIN tx' /\ tx'[i].type = "EXPENSE" /\ tx'[i].status = "POSTED" /\ i \notin DOMAIN tx
    BY <1>6 DEF PayBill, Insert, Free, ExpenseRow, Transaction
  <2>3. i # None
    BY NoneAssumption DEF Free
  <2>4. /\ DOMAIN bill' = DOMAIN bill
        /\ bill'[b].payment = i /\ bill'[b].status = "PAID"
        /\ \A x \in DOMAIN bill \ {b} : bill'[x] = bill[x]
    BY <1>6 DEF PayBill, TypeOK, BillTypeOK, BillRow
  <2>5. \A x \in DOMAIN bill : bill[x].payment # i
    BY <2>2, <2>3 DEF BillLinks, PaidBy
  <2>6. QED
    BY <2>1, <2>2, <2>3, <2>4, <2>5 DEF BillLinks, PaidBy, OnePayment
<1>7. QED
  BY <1>3, <1>4, <1>5, <1>6 DEF Record, RecordGroup, Adjust

LEMMA ChangeBills ==
  ASSUME TypeOK, BillLinks, NEW i \in DOMAIN tx, Change(i)
  PROVE  BillLinks'
<1>0. \A j \in DOMAIN tx : tx[j] \in TxRow /\ j # None
  BY NoneAssumption DEF TypeOK, TxTypeOK
<1>1. ASSUME NEW n, NEW date, NEW a, NEW c, UpdateSimpleTransaction(i, n, date, a, c)
      PROVE  BillLinks'
  <2> DEFINE row == EditedRow(i, n, date, a, c)
  <2>1. row.status = tx[i].status /\ (tx[i].type = "EXPENSE" => row.type = "EXPENSE")
    BY DEF EditedRow, ExpenseRow, IncomeRow, Transaction
  <2>2. tx' = [tx EXCEPT ![i] = row] /\ bill' = bill
    BY <1>1 DEF UpdateSimpleTransaction, planning
  <2>3. QED
    <3> HIDE DEF row
    <3>1. QED
      BY <2>1, <2>2, KeptLinks
<1>2. ASSUME PostDraftTransaction(i)
      PROVE  BillLinks'
  <2>1. tx' = [tx EXCEPT ![i].status = "POSTED"] /\ bill' = bill
    BY <1>2 DEF PostDraftTransaction, planning
  <2>2. \A j \in DOMAIN tx : /\ tx'[j].type = tx[j].type
                             /\ tx[j].status = "POSTED" => tx'[j].status = "POSTED"
    BY <1>0, <2>1 DEF TxRow
  <2>3. DOMAIN tx' = DOMAIN tx
    BY <2>1
  <2>4. QED
    BY <2>1, <2>2, <2>3, KeptLinks
<1>3. None \notin Members(tx, i)
  BY <1>0 DEF Members
<1>4. ASSUME DeleteTransaction(i)
      PROVE  BillLinks'
  <2> DEFINE t == Remove(tx, RemovedWith(Members(tx, i)))
             gone == Members(tx, i)
             p == tx[i].original
  <2>1. \A j \in DOMAIN tx \ gone : tx[j].type = "EXPENSE" => j \in DOMAIN t /\ t[j] = tx[j]
    BY DEF Remove, RemovedWith, RefundsOf
  <2>2. tx' = t /\ bill' = ReconcileBills(t, ReopenBills(bill, gone, today), p, today)
    BY <1>4 DEF DeleteTransaction
  <2>3. QED
    <3> HIDE DEF t, gone, p
    <3>1. None \notin gone
      BY <1>3 DEF gone
    <3>2. QED
      BY <2>1, <2>2, <3>1, ReopenedLinks
<1>5. ASSUME VoidTransaction(i)
      PROVE  BillLinks'
  <2> DEFINE t == tx'
             gone == Members(tx, i)
             p == tx[i].original
  <2>1. \A j \in DOMAIN tx \ gone : j \in DOMAIN t /\ t[j] = tx[j]
    BY <1>5 DEF VoidTransaction
  <2>2. bill' = ReconcileBills(t, ReopenBills(bill, gone, today), p, today)
    BY <1>5 DEF VoidTransaction
  <2>3. tx' = t /\ None \notin gone
    BY <1>3
  <2>4. QED
    <3> HIDE DEF t, gone, p
    <3>1. QED
      BY <2>1, <2>2, <2>3, ReopenedLinks
<1>6. QED
  BY <1>1, <1>2, <1>4, <1>5 DEF Change

(* listBills pays a bill only by a payment in effect.                      *)
LEMMA ListedBills ==
  ASSUME TypeOK, BillLinks, ListBills
  PROVE  BillLinks'
<1>1. tx' = tx /\ DOMAIN bill' = DOMAIN bill
  BY DEF ListBills
<1>2. ASSUME NEW x \in DOMAIN bill
      PROVE  /\ bill'[x].payment = bill[x].payment
             /\ PaidBy(tx, bill'[x])
  <2>0. bill[x] \in BillRow /\ PaidBy(tx, bill[x])
    BY DEF TypeOK, BillTypeOK, BillLinks
  <2>1. bill'[x].payment = bill[x].payment /\ bill'[x].status = RefreshedStatus(bill[x])
    BY <2>0 DEF ListBills, BillRow
  <2>2. RefreshedStatus(bill[x]) = "PAID" => bill[x].payment # None /\ Posted(tx, bill[x].payment)
    <3>1. CASE bill[x].payment = None
      BY <2>0, <3>1, UnpaidStatusType DEF RefreshedStatus, PaidBy, UnpaidStatuses
    <3>2. CASE bill[x].payment # None
      BY <3>2, UnpaidStatusType
         DEF RefreshedStatus, ReconciledStatus, FullyRefunded, UnpaidStatuses
    <3>3. QED
      BY <3>1, <3>2
  <2>3. QED
    BY <2>0, <2>1, <2>2 DEF PaidBy, Posted
<1>3. QED
  BY <1>1, <1>2 DEF BillLinks, OnePayment

LEMMA ChangedBills ==
  ASSUME TypeOK, BillLinks, ChangeBill
  PROVE  BillLinks'
<1>1. ASSUME NEW b, SkipBill(b)
      PROVE  BillLinks'
  <2>1. /\ tx' = tx /\ DOMAIN bill' = DOMAIN bill
        /\ bill'[b].payment = bill[b].payment /\ bill'[b].status = "SKIPPED"
        /\ \A x \in DOMAIN bill \ {b} : bill'[x] = bill[x]
    BY <1>1 DEF SkipBill, TypeOK, BillTypeOK, BillRow
  <2>2. QED
    BY <2>1 DEF BillLinks, PaidBy, OnePayment
<1>2. ASSUME NEW b, NEW due, CreateBill(b, due)
      PROVE  BillLinks'
  <2>1. /\ tx' = tx /\ DOMAIN bill' = DOMAIN bill \cup {b}
        /\ bill'[b].payment = None /\ bill'[b].status = UnpaidStatus(due, today)
        /\ b \notin DOMAIN bill
        /\ \A x \in DOMAIN bill : bill'[x] = bill[x]
    BY <1>2 DEF CreateBill, Insert
  <2>2. bill'[b].status # "PAID"
    BY <2>1 DEF UnpaidStatus
  <2>3. QED
    BY <2>1, <2>2 DEF BillLinks, PaidBy, OnePayment
<1>3. QED
  BY <1>1, <1>2 DEF ChangeBill

LEMMA NextBillLinks ==
  ASSUME TypeOK, BillLinks, [Next]_vars
  PROVE  BillLinks'
<1>1. ASSUME bill' = bill, tx' = tx
      PROVE  BillLinks'
  BY <1>1, KeptLinks
<1>2. ASSUME ChangeCatalog
      PROVE  BillLinks'
  <2>1. ASSUME NEW a, CreateAccount(a)
        PROVE  BillLinks'
    <3>1. ASSUME NEW i \in Free, NEW row, bill' = bill,
                 tx' = Insert(tx, [j \in {i} |-> row])
          PROVE  BillLinks'
      BY <3>1, InsertKeepsLinks
    <3>2. QED
      BY <1>1, <2>1, <3>1 DEF CreateAccount, planning
  <2>2. QED
    BY <1>1, <1>2, <2>1
       DEF ChangeCatalog, ArchiveAccount, ArchiveCategory, CreateBudget, ArchiveBudget, planning
<1>3. ASSUME ChangeRule \/ (\E d \in Dates : SetClock(d)) \/ UNCHANGED vars
      PROVE  BillLinks'
  BY <1>1, <1>3 DEF ChangeRule, SetRecurringActive, CreateRecurringExpenseDraft, SetClock,
                    vars, planning
<1>4. ASSUME RunRecurring
      PROVE  BillLinks'
  <2>1. PICK early \in BOOLEAN : \E moved \in SUBSET DueRules :
          \E done \in SUBSET Keys(DueRules, early) :
            \E slot \in FreshSlots(Unmade(done)) :
              GenerateDueRecurring(done, moved, early, slot)
    BY <1>4 DEF RunRecurring
  <2>2. PICK moved, done : \E slot \in FreshSlots(Unmade(done)) :
          GenerateDueRecurring(done, moved, early, slot)
    BY <2>1
  <2>3. PICK slot \in FreshSlots(Unmade(done)) : GenerateDueRecurring(done, moved, early, slot)
    BY <2>2
  <2> DEFINE ids == {slot[k] : k \in DOMAIN slot}
             new == [j \in ids |-> DraftFor(CHOOSE k \in DOMAIN slot : slot[k] = j)]
  <2>4. tx' = Insert(tx, new) /\ bill' = bill
    BY <2>3 DEF GenerateDueRecurring
  <2>5. DOMAIN new \subseteq Free
    BY DEF FreshSlots
  <2>6. QED
    <3> HIDE DEF new
    <3>1. QED
      BY <2>4, <2>5, InsertKeepsLinks
<1>5. ASSUME WipeLocalFinanceData
      PROVE  BillLinks'
  BY <1>5 DEF WipeLocalFinanceData, Empty, BillLinks, OnePayment
<1>6. QED
  BY <1>2, <1>3, <1>4, <1>5, RecordBills, ChangeBills, ChangedBills, ListedBills DEF Next

LEMMA AlwaysBillLinks == Spec => []BillLinks
<1>1. Init => BillLinks
  BY DEF Init, Empty, BillLinks, OnePayment
<1>2. TypeOK /\ BillLinks /\ [Next]_vars => BillLinks'
  BY NextBillLinks
<1>3. QED
  BY <1>1, <1>2, TypeCorrect, PTL DEF Spec

(* A bill is PAID only by an expense in effect that pays no other bill,    *)
(* whatever becomes of the payment and of its refunds.                     *)
THEOREM PaidBillsHavePayment == Spec => []BillPaymentsInEffect
<1>1. BillLinks => BillPaymentsInEffect
  BY DEF BillLinks, OnePayment, PaidBy, BillPaymentsInEffect, PaymentLinksValid, Posted
<1>2. QED
  BY <1>1, AlwaysBillLinks, PTL

(* What listBills makes of one bill.                                       *)
LEMMA RefreshedBill ==
  ASSUME TypeOK, BillLinks, NEW x \in DOMAIN bill,
         NEW status, status = RefreshedStatus(bill[x]), status # "SKIPPED"
  PROVE  LET p == bill[x].payment IN
         /\ status = "PAID" => /\ Posted(tx, p) /\ tx[p].type = "EXPENSE"
                               /\ Refunded(tx, p) < tx[p].amount
         /\ status # "PAID" => /\ FullyRefunded(tx, p)
                               /\ status = UnpaidStatus(bill[x].due, today)
<1> DEFINE row == bill[x]
           p == row.payment
<1>1. /\ PaidBy(tx, row) /\ row \in BillRow
      /\ None \notin DOMAIN tx /\ Table(tx)
  BY NoneAssumption, TxIsTable DEF BillLinks, TypeOK, BillTypeOK, TxTypeOK
<1>2. \A due : UnpaidStatus(due, today) \in UnpaidStatuses
  BY UnpaidStatusType
<1>3. "PAID" \notin UnpaidStatuses /\ "SKIPPED" \notin UnpaidStatuses
  BY DEF UnpaidStatuses
<1>4. CASE p = None
  <2>1. row.status \notin {"PAID", "SKIPPED"}
    BY <1>1, <1>3, <1>4 DEF PaidBy, RefreshedStatus
  <2>2. row.status \in UnpaidStatuses
    BY <1>1, <2>1 DEF BillRow
  <2>3. status = UnpaidStatus(row.due, today)
    BY <1>4, <2>2 DEF RefreshedStatus
  <2>4. FullyRefunded(tx, p)
    BY <1>1, <1>4 DEF FullyRefunded, Posted
  <2>5. QED
    BY <1>2, <1>3, <2>3, <2>4
<1>5. CASE p # None
  <2>1. tx[p].type = "EXPENSE"
    BY <1>1, <1>5 DEF PaidBy
  <2> DEFINE paid == ReconciledStatus(tx, row, today)
  <2>2. status = IF paid \in UnpaidStatuses THEN UnpaidStatus(row.due, today) ELSE paid
    BY <1>5 DEF RefreshedStatus
  <2>3. row.status # "SKIPPED"
    BY <1>3, <2>2 DEF ReconciledStatus
  <2>4. paid = IF FullyRefunded(tx, p) THEN UnpaidStatus(row.due, today) ELSE "PAID"
    BY <2>3 DEF ReconciledStatus
  <2>5. CASE FullyRefunded(tx, p)
    <3>1. status = UnpaidStatus(row.due, today)
      BY <1>2, <2>2, <2>4, <2>5
    <3>2. QED
      BY <1>2, <1>3, <2>5, <3>1
  <2>6. CASE ~FullyRefunded(tx, p)
    <3>1. status = "PAID"
      BY <1>3, <2>2, <2>4, <2>6
    <3>2. Posted(tx, p) /\ ~(Refunded(tx, p) >= tx[p].amount)
      BY <2>6 DEF FullyRefunded
    <3>3. Refunded(tx, p) \in Int /\ tx[p].amount \in Int
      BY <1>1, <3>2, RefundedIsInt DEF Table, Posted
    <3>4. QED
      BY <2>1, <3>1, <3>2, <3>3
  <2>7. QED
    BY <2>5, <2>6
<1>6. QED
  BY <1>4, <1>5

(* Listing the bills brings every bill that is not SKIPPED into agreement  *)
(* with its payment, its refunds and the date.                             *)
THEOREM ListingSettlesBills == Spec => ListBillsSettles
<1>1. ASSUME TypeOK, BillLinks, ListBills
      PROVE  BillsSettled'
  <2>1. PICK b : b = bill'
    OBVIOUS
  <2>2. /\ tx' = tx /\ today' = today
        /\ DOMAIN b = DOMAIN bill
        /\ \A x \in DOMAIN bill : /\ b[x].status = RefreshedStatus(bill[x])
                                  /\ b[x].payment = bill[x].payment
                                  /\ b[x].due = bill[x].due
    BY <1>1, <2>1 DEF ListBills, TypeOK, BillTypeOK, BillRow
  <2> DEFINE live == [x \in {y \in DOMAIN b : b[y].status # "SKIPPED"} |-> b[x]]
  <2>3. \A x \in DOMAIN live :
          /\ x \in DOMAIN bill
          /\ live[x].status = RefreshedStatus(bill[x]) /\ live[x].status # "SKIPPED"
          /\ live[x].payment = bill[x].payment /\ live[x].due = bill[x].due
    BY <2>2
  <2> HIDE DEF live
  <2>4. /\ PaidBillsValid(tx, live)
        /\ UnpaidBillsValid(tx, live)
        /\ \A x \in DOMAIN live : live[x].status # "PAID" =>
             live[x].status = UnpaidStatus(live[x].due, today)
    BY <1>1, <2>3, RefreshedBill DEF PaidBillsValid, UnpaidBillsValid
  <2>5. QED
    BY <2>1, <2>2, <2>4 DEF BillsSettled, live
<1>2. QED
  BY <1>1, TypeCorrect, AlwaysBillLinks, PTL DEF ListBillsSettles

-----------------------------------------------------------------------------
(* The occurrences of recurring rules.                                     *)

(* What every step but a run of the rules and the wipe leaves alone.       *)
OccurrencesKept ==
  /\ DOMAIN occ' = DOMAIN occ
  /\ \A k \in DOMAIN occ : occ'[k] \in {occ[k], None}

CursorsKept == \A r \in DOMAIN rule : r \in DOMAIN rule' /\ rule'[r].nextRun = rule[r].nextRun

LEMMA OtherSteps ==
  ASSUME TypeOK, [Next]_vars
  PROVE  \/ OccurrencesKept /\ CursorsKept
         \/ RunRecurring
         \/ WipeLocalFinanceData
<1>1. ASSUME occ' = occ, rule' = rule
      PROVE  OccurrencesKept /\ CursorsKept
  BY <1>1 DEF OccurrencesKept, CursorsKept
<1>2. ASSUME NEW i \in Free, Record(i)
      PROVE  occ' = occ /\ rule' = rule
  <2>1. \A s, n, date, a, c :
          CreateExpense(i, s, n, date, a, c) \/ CreateIncome(i, s, n, date, a, c)
          => occ' = occ /\ rule' = rule
    BY DEF CreateExpense, CreateIncome, planning
  <2>2. \A n, date, a, b :
          \/ CreateTransfer(i, n, date, a, b)
          \/ CreateCreditCardPayment(i, n, date, a, b)
          \/ CreateLoanDisbursement(i, n, date, a, b)
          => occ' = occ /\ rule' = rule
    BY DEF CreateTransfer, CreateCreditCardPayment, CreateLoanDisbursement, planning
  <2>3. \A n, date, a, o : CreateRefund(i, o, n, date, a) => occ' = occ /\ rule' = rule
    BY DEF CreateRefund
  <2>4. \A n, date, a, b, c : PayBill(b, i, n, date, a, c) => occ' = occ /\ rule' = rule
    BY DEF PayBill
  <2>5. QED
    BY <1>2, <2>1, <2>2, <2>3, <2>4 DEF Record
<1>3. ASSUME NEW i \in Free, RecordGroup(i)
      PROVE  occ' = occ /\ rule' = rule
  <2>1. \A k, n, fee, date, a, b :
          CreateTransferWithFee(i, k, n, fee, date, a, b) => occ' = occ /\ rule' = rule
    BY DEF CreateTransferWithFee, planning
  <2>2. \A children, n, date, a, b, c :
          CreateLoanPayment(i, children, n, date, a, b, c) => occ' = occ /\ rule' = rule
    BY DEF CreateLoanPayment, planning
  <2>3. QED
    BY <1>3, <2>1, <2>2 DEF RecordGroup
<1>4. ASSUME NEW i \in Free, Adjust(i)
      PROVE  occ' = occ /\ rule' = rule
  BY <1>4 DEF Adjust, ReconcileAccount, planning
<1>5. ASSUME NEW i \in DOMAIN tx, Change(i)
      PROVE  OccurrencesKept /\ CursorsKept
  <2>1. CASE DeleteTransaction(i)
    BY <2>1 DEF DeleteTransaction, DetachOccurrences, OccurrencesKept, CursorsKept
  <2>2. CASE ~DeleteTransaction(i)
    <3>1. occ' = occ /\ rule' = rule
      BY <1>5, <2>2
         DEF Change, UpdateSimpleTransaction, PostDraftTransaction, VoidTransaction, planning
    <3>2. QED
      BY <1>1, <3>1
  <2>3. QED
    BY <2>1, <2>2
<1>6. ASSUME \/ ChangeCatalog \/ ChangeBill \/ ListBills
             \/ \E d \in Dates : SetClock(d)
             \/ UNCHANGED vars
      PROVE  occ' = occ /\ rule' = rule
  BY <1>6 DEF ChangeCatalog, CreateAccount, ArchiveAccount, ArchiveCategory, CreateBudget,
              ArchiveBudget, ChangeBill, SkipBill, CreateBill, ListBills, SetClock, planning, vars
<1>7. ASSUME ChangeRule
      PROVE  OccurrencesKept /\ CursorsKept
  <2>1. PICK r \in Rules :
          \/ \E active \in BOOLEAN : SetRecurringActive(r, active)
          \/ \E a \in Accounts, c \in ExpenseCategories, n \in Amounts, day \in RuleDays :
               CreateRecurringExpenseDraft(r, a, c, n, day)
    BY <1>7 DEF ChangeRule
  <2>2. CASE \E active \in BOOLEAN : SetRecurringActive(r, active)
    BY <2>2 DEF SetRecurringActive, OccurrencesKept, CursorsKept, TypeOK, RuleTypeOK, RuleRow
  <2>3. CASE \E a \in Accounts, c \in ExpenseCategories, n \in Amounts, day \in RuleDays :
               CreateRecurringExpenseDraft(r, a, c, n, day)
    BY <2>3 DEF CreateRecurringExpenseDraft, Insert, OccurrencesKept, CursorsKept
  <2>4. QED
    BY <2>1, <2>2, <2>3
<1>8. QED
  BY <1>1, <1>2, <1>3, <1>4, <1>5, <1>6, <1>7 DEF Next

(* What a run of the rules does to occurrences and cursors.                *)
LEMMA RunOfRules ==
  ASSUME RunRecurring
  PROVE  \E early \in BOOLEAN, moved \in SUBSET DueRules :
         \E done \in SUBSET Keys(DueRules, early) :
           /\ CommittedPrefix(done, moved, early)
           /\ DOMAIN occ' = DOMAIN occ \cup done
           /\ \A k \in DOMAIN occ : occ'[k] = occ[k]
           /\ rule' = [r \in DOMAIN rule |->
                        [rule[r] EXCEPT !.nextRun =
                           IF r \in moved THEN CursorAfter(rule[r], early)
                           ELSE HealedCursor(rule[r])]]
<1>1. PICK early \in BOOLEAN : \E moved \in SUBSET DueRules :
        \E done \in SUBSET Keys(DueRules, early) :
          \E slot \in FreshSlots(Unmade(done)) :
            GenerateDueRecurring(done, moved, early, slot)
  BY DEF RunRecurring
<1>2. PICK moved \in SUBSET DueRules : \E done \in SUBSET Keys(DueRules, early) :
        \E slot \in FreshSlots(Unmade(done)) :
          GenerateDueRecurring(done, moved, early, slot)
  BY <1>1
<1>3. PICK done \in SUBSET Keys(DueRules, early) :
        \E slot \in FreshSlots(Unmade(done)) :
          GenerateDueRecurring(done, moved, early, slot)
  BY <1>2
<1>4. PICK slot \in FreshSlots(Unmade(done)) : GenerateDueRecurring(done, moved, early, slot)
  BY <1>3
<1>5. occ' = Insert(occ, slot) /\ DOMAIN slot = done \ DOMAIN occ
  BY <1>4 DEF GenerateDueRecurring, Unmade
<1>6. /\ CommittedPrefix(done, moved, early)
      /\ rule' = [r \in DOMAIN rule |->
                   [rule[r] EXCEPT !.nextRun =
                      IF r \in moved THEN CursorAfter(rule[r], early)
                      ELSE HealedCursor(rule[r])]]
  BY <1>4 DEF GenerateDueRecurring
<1>7. DOMAIN occ' = DOMAIN occ \cup done /\ \A k \in DOMAIN occ : occ'[k] = occ[k]
  BY <1>5 DEF Insert
<1>8. QED
  BY <1>3, <1>6, <1>7

(* A date of a rule that was handled stays handled until the data is       *)
(* wiped: no deletion, restart of the rule or crash forgets its row.       *)
THEOREM OccurrencesAreRemembered == Spec => OccurrencesRemembered
<1> DEFINE Remembered == \A k \in DOMAIN occ : k \in DOMAIN occ' /\ occ'[k] \in {occ[k], None}
<1>1. OccurrencesKept => Remembered
  BY DEF OccurrencesKept
<1>2. RunRecurring => Remembered
  BY RunOfRules
<1>3. WipeLocalFinanceData => rule' = Empty
  BY DEF WipeLocalFinanceData
<1>4. TypeOK /\ [Next]_vars => (rule' # Empty => Remembered)
  <2> HIDE DEF Remembered
  <2>1. QED
    BY <1>1, <1>2, <1>3, OtherSteps
<1>5. QED
  BY <1>4, TypeCorrect, PTL DEF Spec, OccurrencesRemembered

(* Where a run starts is not further behind today than the gap allowed.    *)
LEMMA GapSkipped ==
  ASSUME today \in Dates, NEW row \in RuleRow,
         NEW d \in Dates, d >= FirstScheduled(row)
  PROVE  MonthOf(today) - MonthOf(d) =< MaxGapMonths
<1> DEFINE first == FirstScheduled(row)
           healed == HealedCursor(row)
<1>1. LastDate \in Nat /\ MaxGapMonths \in Nat /\ row.day \in RuleDays
  BY BoundsAssumption, RecurringBoundsAssumption DEF RuleRow
<1>2. healed \in 1 .. LastDate + 1 /\ today \in 1 .. LastDate + 1 /\ d \in 1 .. LastDate + 1
  BY <1>1, CursorTypes DEF Dates
<1>3. CASE MonthOf(today) - MonthOf(healed) > MaxGapMonths
  <2>1. MonthOf(today) \in Months /\ MonthOf(today) = Month[today]
    BY DEF MonthOf, Months
  <2>2. first = OccurrenceIn(MonthOf(today), row.day)
    BY <1>3 DEF FirstScheduled
  <2>3. first \in Dates /\ MonthOf(first) = MonthOf(today)
    BY <1>1, <2>1, <2>2, OccurrenceInMonth DEF MonthOf
  <2> HIDE DEF first
  <2>4. first \in 1 .. LastDate + 1 /\ first =< d
    BY <1>1, <2>3 DEF Dates, first
  <2>5. MonthOf(first) =< MonthOf(d) /\ MonthOf(first) \in Nat /\ MonthOf(d) \in Nat
    BY <1>2, <2>4, MonthOfMonotone
  <2>6. QED
    BY <1>1, <2>3, <2>5
<1>4. CASE ~(MonthOf(today) - MonthOf(healed) > MaxGapMonths)
  <2>1. first = healed
    BY <1>4 DEF FirstScheduled
  <2> HIDE DEF healed, first
  <2>2. healed =< d
    BY <1>1, <1>2, <2>1 DEF first
  <2>3. MonthOf(healed) =< MonthOf(d) /\ MonthOf(healed) \in Nat /\ MonthOf(d) \in Nat
    BY <1>2, <2>2, MonthOfMonotone
  <2>4. MonthOf(today) \in Nat
    BY <1>2, MonthOfMonotone
  <2>5. QED
    BY <1>1, <1>4, <2>3, <2>4
<1>5. QED
  BY <1>3, <1>4

(* However far the clock jumps, the drafts of a run are for dates up to    *)
(* today, and not further back than the gap allowed.                       *)
THEOREM RunsAreBounded == Spec => NoSyntheticFlood
<1> DEFINE Bounded == \A k \in DOMAIN occ' \ DOMAIN occ :
                        k[2] =< today /\ MonthOf(today) - MonthOf(k[2]) =< MaxGapMonths
<1>1. ASSUME TypeOK, RunRecurring
      PROVE  Bounded
  <2>1. PICK early \in BOOLEAN, moved \in SUBSET DueRules :
          \E done \in SUBSET Keys(DueRules, early) : DOMAIN occ' = DOMAIN occ \cup done
    BY <1>1, RunOfRules
  <2>2. PICK done \in SUBSET Keys(DueRules, early) : DOMAIN occ' = DOMAIN occ \cup done
    BY <2>1
  <2> SUFFICES ASSUME NEW k \in done
               PROVE  k[2] =< today /\ MonthOf(today) - MonthOf(k[2]) =< MaxGapMonths
    BY <2>2
  <2>3. PICK r \in DueRules : k \in {r} \X ScheduledDates(rule[r], early)
    BY DEF Keys
  <2>4. today \in Dates /\ rule[r] \in RuleRow
    BY <1>1 DEF TypeOK, RuleTypeOK, DueRules
  <2> DEFINE d == k[2]
  <2>5. d \in ScheduledDates(rule[r], early)
    BY <2>3
  <2> HIDE DEF d
  <2>6. d \in Dates
    BY <2>4, <2>5, CursorTypes
  <2>7. d >= FirstScheduled(rule[r]) /\ (d < today \/ d = today)
    BY <2>5 DEF ScheduledDates
  <2>8. d =< today
    BY <2>4, <2>6, <2>7, BoundsAssumption DEF Dates
  <2>9. MonthOf(today) - MonthOf(d) =< MaxGapMonths
    BY <2>4, <2>6, <2>7, GapSkipped
  <2>10. QED
    BY <2>8, <2>9 DEF d
<1>2. OccurrencesKept => Bounded
  BY DEF OccurrencesKept
<1>3. WipeLocalFinanceData => Bounded
  BY DEF WipeLocalFinanceData, Empty
<1>4. TypeOK /\ [Next]_vars => Bounded
  <2> HIDE DEF Bounded
  <2>1. QED
    BY <1>1, <1>2, <1>3, OtherSteps
<1>5. QED
  BY <1>4, TypeCorrect, PTL DEF Spec, NoSyntheticFlood

(* A date between the healed cursor and the new one has its occurrence,    *)
(* unless it lies in a month that the run skips.                           *)
LEMMA CursorPassesHandled ==
  ASSUME today \in Dates, NEW row \in RuleRow, NEW early \in BOOLEAN, NEW m \in Months,
         HealedCursor(row) =< OccurrenceIn(m, row.day),
         OccurrenceIn(m, row.day) < CursorAfter(row, early)
  PROVE  \/ OccurrenceIn(m, row.day) \in ScheduledDates(row, early)
         \/ m < MonthOf(today) /\ FirstScheduled(row) # HealedCursor(row)
<1> DEFINE first == FirstScheduled(row)
           d == OccurrenceIn(m, row.day)
           dates == {x \in {first} \cup {OccurrenceIn(n, row.day) : n \in Months} :
                       /\ x >= first
                       /\ x < today \/ (x = today /\ (x = HealedCursor(row) \/ ~early))}
           Before(x) == {e \in dates : e < x}
           scheduled == ScheduledDates(row, early)
<1>1. LastDate \in Nat /\ row.day \in RuleDays /\ today \in Int /\ MaxCatchUp \in Nat
  BY BoundsAssumption, RecurringBoundsAssumption DEF RuleRow, Dates
<1>2. d \in Dates /\ d \in Int /\ HealedCursor(row) \in Int /\ first \in Int
  <2>1. d \in Dates
    BY <1>1, OccurrenceInMonth
  <2>2. OccurrenceIn(MonthOf(today), row.day) \in 1 .. LastDate + 1
    BY <1>1, OccurrenceInType
  <2>3. HealedCursor(row) \in 1 .. LastDate + 1
    BY CursorTypes
  <2>4. QED
    BY <1>1, <2>1, <2>2, <2>3 DEF FirstScheduled, Dates
<1>3. scheduled = {x \in dates : Cardinality(Before(x)) < MaxCatchUp}
  BY DEF ScheduledDates
<1>4. IsFiniteSet(dates) /\ dates \subseteq 1 .. LastDate
  <2>1. \A n \in Months : OccurrenceIn(n, row.day) \in Dates
    BY <1>1, OccurrenceInMonth
  <2>2. FirstScheduled(row) \in 1 .. LastDate + 1
    <3>1. OccurrenceIn(MonthOf(today), row.day) \in 1 .. LastDate + 1
      BY <1>1, OccurrenceInType
    <3>2. QED
      BY <3>1, CursorTypes DEF FirstScheduled
  <2>3. dates \subseteq 1 .. LastDate
    BY <1>1, <2>1, <2>2 DEF Dates
  <2>4. IsFiniteSet(1 .. LastDate)
    BY <1>1, FS_Interval
  <2>5. QED
    <3> HIDE DEF dates
    <3>1. QED
      BY <2>3, <2>4, FS_Subset
<1>5. CASE d < first
  <2>1. first # HealedCursor(row)
    BY <1>2, <1>5
  <2>2. first = OccurrenceIn(MonthOf(today), row.day)
    BY <2>1 DEF FirstScheduled
  <2>3. MonthOf(today) \in Months
    BY DEF MonthOf, Months
  <2>4. m < MonthOf(today)
    BY <1>1, <1>5, <2>2, <2>3, LaterOccurrence
  <2>5. QED
    BY <2>1, <2>4
<1>6. CASE ~(d < first)
  <2>1. scheduled # {}
    BY <1>2, <1>6 DEF CursorAfter
  <2> DEFINE last == Max(scheduled)
  <2>2. scheduled \subseteq Dates
    BY CursorTypes
  <2>3. /\ last \in scheduled /\ \A x \in scheduled : last >= x
        /\ CursorAfter(row, early) = NextOccurrence(last + 1, row.day)
    <3>1. CursorAfter(row, early) = NextOccurrence(last + 1, row.day)
      BY <2>1 DEF CursorAfter
    <3> HIDE DEF scheduled
    <3>2. QED
      BY <2>1, <2>2, <3>1, MinMaxOfDates
  <2>4. last \in dates /\ Cardinality(Before(last)) < MaxCatchUp
    <3> HIDE DEF last, dates
    <3>1. QED
      BY <1>3, <2>3
  <2>5. last \in Int /\ last =< today /\ last < LastDate + 1 /\ last >= 1
    <3> HIDE DEF last, scheduled
    <3>1. last \in 1 .. LastDate
      BY <2>2, <2>3 DEF Dates
    <3>2. last < today \/ last = today
      BY <2>4
    <3>3. QED
      BY <1>1, <3>1, <3>2
  <2> HIDE DEF last, scheduled
  <2>6. d =< last
    <3>1. SUFFICES ASSUME d >= last + 1
                   PROVE  FALSE
      BY <1>2, <2>5
    <3>2. last + 1 \in Dates
      BY <1>1, <1>2, <2>5, <3>1 DEF Dates
    <3>3. d >= NextOccurrence(last + 1, row.day)
      BY <1>1, <3>1, <3>2, NextOccurrenceIsNext
    <3>4. NextOccurrence(last + 1, row.day) \in Int
      BY <1>1, NextOccurrenceType
    <3>5. QED
      BY <1>2, <2>3, <3>3, <3>4
  <2>7. CASE d = last
    BY <2>3, <2>7 DEF scheduled
  <2>8. CASE d < last
    <3>1. d \in dates
      BY <1>1, <1>2, <1>6, <2>5, <2>8
    <3> HIDE DEF dates, d
    <3>2. Before(d) \subseteq Before(last) /\ Before(last) \subseteq dates
      <4>1. \A e \in dates : e \in Int
        BY <1>1, <1>4
      <4>2. QED
        BY <1>2, <2>5, <2>8, <4>1
    <3>3. IsFiniteSet(Before(last))
      BY <1>4, <3>2, FS_Subset
    <3>4. /\ Cardinality(Before(d)) =< Cardinality(Before(last))
          /\ Cardinality(Before(d)) \in Nat /\ Cardinality(Before(last)) \in Nat
      <4> HIDE DEF Before
      <4>1. QED
        BY <3>2, <3>3, FS_Subset, FS_CardinalityType
    <3>5. Cardinality(Before(d)) < MaxCatchUp
      <4> HIDE DEF Before
      <4>1. QED
        BY <1>1, <2>4, <3>4
    <3>6. d \in scheduled
      BY <1>3, <3>1, <3>5
    <3>7. QED
      BY <3>6 DEF scheduled, d
  <2>9. QED
    BY <1>2, <2>5, <2>6, <2>7, <2>8
<1>7. QED
  BY <1>5, <1>6

(* No crash, cap on one call, gap or clock moves the cursor of a rule past *)
(* a date that has no occurrence, but for the months skipped on purpose.   *)
THEOREM CursorsMissNoDate == Spec => NoDateMissed
<1> DEFINE Missed(r, m) ==
             LET d == OccurrenceIn(m, rule[r].day) IN
             /\ rule'[r].nextRun # rule[r].nextRun
             /\ HealedCursor(rule[r]) =< d /\ d < rule'[r].nextRun
             /\ <<r, d>> \notin DOMAIN occ'
             /\ ~(m < MonthOf(today) /\ FirstScheduled(rule[r]) # HealedCursor(rule[r]))
           NoneMissed == \A r \in DOMAIN rule \cap DOMAIN rule' : \A m \in Months : ~Missed(r, m)
<1>1. ASSUME TypeOK, RunRecurring, NEW r \in DOMAIN rule \cap DOMAIN rule', NEW m \in Months,
             Missed(r, m)
      PROVE  FALSE
  <2>1. PICK early \in BOOLEAN, moved \in SUBSET DueRules :
          \E done \in SUBSET Keys(DueRules, early) :
            /\ CommittedPrefix(done, moved, early)
            /\ DOMAIN occ' = DOMAIN occ \cup done
            /\ rule' = [x \in DOMAIN rule |->
                         [rule[x] EXCEPT !.nextRun =
                            IF x \in moved THEN CursorAfter(rule[x], early)
                            ELSE HealedCursor(rule[x])]]
    BY <1>1, RunOfRules
  <2>2. PICK done \in SUBSET Keys(DueRules, early) :
          /\ CommittedPrefix(done, moved, early)
          /\ DOMAIN occ' = DOMAIN occ \cup done
          /\ rule' = [x \in DOMAIN rule |->
                       [rule[x] EXCEPT !.nextRun =
                          IF x \in moved THEN CursorAfter(rule[x], early)
                          ELSE HealedCursor(rule[x])]]
    BY <2>1
  <2>3. today \in Dates /\ rule[r] \in RuleRow
    BY <1>1 DEF TypeOK, RuleTypeOK
  <2> DEFINE d == OccurrenceIn(m, rule[r].day)
  <2>4. rule'[r].nextRun = IF r \in moved THEN CursorAfter(rule[r], early)
                           ELSE HealedCursor(rule[r])
    BY <2>2, <2>3 DEF RuleRow
  <2>5. d \in Int /\ HealedCursor(rule[r]) \in Int
    <3>1. d \in 1 .. LastDate + 1
      BY <2>3, OccurrenceInType DEF RuleRow
    <3>2. QED
      BY <2>3, <3>1, CursorTypes
  <2>6. r \in moved
    BY <1>1, <2>4, <2>5
  <2>7. d \in ScheduledDates(rule[r], early)
    BY <1>1, <2>3, <2>4, <2>6, CursorPassesHandled
  <2>8. <<r, d>> \in Keys(moved, early)
    BY <2>6, <2>7 DEF Keys
  <2>9. <<r, d>> \in done
    BY <2>2, <2>8 DEF CommittedPrefix
  <2>10. QED
    BY <1>1, <2>2, <2>9
<1>2. CursorsKept => NoneMissed
  BY DEF CursorsKept
<1>3. WipeLocalFinanceData => NoneMissed
  BY DEF WipeLocalFinanceData, Empty
<1>4. TypeOK /\ [Next]_vars => NoneMissed
  <2>1. TypeOK /\ RunRecurring => NoneMissed
    BY <1>1
  <2> HIDE DEF NoneMissed
  <2>2. QED
    BY <1>2, <1>3, <2>1, OtherSteps
<1>5. NoneMissed =>
        \A r \in DOMAIN rule \cap DOMAIN rule' : \A m \in Months :
          LET d == OccurrenceIn(m, rule[r].day) IN
          /\ rule'[r].nextRun # rule[r].nextRun
          /\ HealedCursor(rule[r]) =< d /\ d < rule'[r].nextRun
          => \/ <<r, d>> \in DOMAIN occ'
             \/ m < MonthOf(today) /\ FirstScheduled(rule[r]) # HealedCursor(rule[r])
  OBVIOUS
<1>6. QED
  <2> HIDE DEF NoneMissed
  <2>1. QED
    BY <1>4, <1>5, TypeCorrect, PTL DEF Spec, NoDateMissed

-----------------------------------------------------------------------------
(* The rows.                                                               *)

-----------------------------------------------------------------------------
(* The shapes the handlers build.                                          *)

LEMMA OneLegShape ==
  ASSUME NEW row, NEW a \in Accounts, NEW delta \in Int, delta # 0,
         row.legs = OneLeg(a, delta)
  PROVE  AccountsOf(row) = {a} /\ row.legs[a] = delta
BY DEF AccountsOf, OneLeg

LEMMA TwoLegsShape ==
  ASSUME NEW row, NEW a \in Accounts, NEW b \in Accounts, a # b,
         NEW x \in Int, x # 0, NEW y \in Int, y # 0,
         row.legs = TwoLegs(a, x, b, y)
  PROVE  AccountsOf(row) = {a, b} /\ row.legs[a] = x /\ row.legs[b] = y
BY DEF AccountsOf, TwoLegs

LEMMA OneSplitShape ==
  ASSUME NEW row, NEW c \in Categories, NEW n \in Int, n # 0,
         row.splits = OneSplit(c, n)
  PROVE  CategoriesOf(row) = {c} /\ row.splits[c] = n
BY DEF CategoriesOf, OneSplit

LEMMA NoSplitShape ==
  ASSUME NEW row, row.splits = NoSplit
  PROVE  CategoriesOf(row) = {}
BY DEF CategoriesOf, NoSplit

LEMMA AmountIsInt == \A n \in Amounts : n \in Int /\ n # 0 /\ -n \in Int /\ -n # 0
BY BoundsAssumption DEF Amounts

LEMMA ExpenseRowValid ==
  ASSUME NEW s, NEW n \in Amounts, NEW date, NEW a \in Assets \cup CreditCards,
         NEW c \in ExpenseCategories
  PROVE  LET row == ExpenseRow(s, n, date, a, c)
         IN RowValid(row) /\ AccountsOf(row) = {a} /\ CategoriesOf(row) = {c}
<1> DEFINE row == ExpenseRow(s, n, date, a, c)
<1>0. /\ row.type = "EXPENSE" /\ row.amount = n
      /\ row.legs = OneLeg(a, Spend(a, n)) /\ row.splits = OneSplit(c, n)
  BY DEF ExpenseRow, Transaction
<1>1. a \in Accounts /\ c \in Categories
  BY AccountsAssumption DEF Categories
<1>2. Spend(a, n) \in Int /\ Spend(a, n) # 0 /\ n \in Int /\ n # 0
  BY AmountIsInt DEF Spend
<1> HIDE DEF row
<1>3. AccountsOf(row) = {a} /\ row.legs[a] = Spend(a, n)
  BY <1>0, <1>1, <1>2, OneLegShape
<1>4. CategoriesOf(row) = {c} /\ row.splits[c] = n
  BY <1>0, <1>1, <1>2, OneSplitShape
<1>5. RowValid(row)
  BY <1>0, <1>1, <1>3, <1>4 DEF RowValid, SimpleRowValid
<1>6. QED
  BY <1>3, <1>4, <1>5 DEF row

LEMMA IncomeRowValid ==
  ASSUME NEW s, NEW n \in Amounts, NEW date, NEW a \in Assets, NEW c \in IncomeCategories
  PROVE  LET row == IncomeRow(s, n, date, a, c)
         IN RowValid(row) /\ AccountsOf(row) = {a} /\ CategoriesOf(row) = {c}
<1> DEFINE row == IncomeRow(s, n, date, a, c)
<1>0. /\ row.type = "INCOME" /\ row.amount = n
      /\ row.legs = OneLeg(a, n) /\ row.splits = OneSplit(c, n)
  BY DEF IncomeRow, Transaction
<1>1. a \in Accounts /\ c \in Categories
  BY AccountsAssumption DEF Categories
<1>2. n \in Int /\ n # 0
  BY AmountIsInt
<1> HIDE DEF row
<1>3. AccountsOf(row) = {a} /\ row.legs[a] = n
  BY <1>0, <1>1, <1>2, OneLegShape
<1>4. CategoriesOf(row) = {c} /\ row.splits[c] = n
  BY <1>0, <1>1, <1>2, OneSplitShape
<1>5. RowValid(row)
  BY <1>0, <1>1, <1>3, <1>4 DEF RowValid, SimpleRowValid, GetBack
<1>6. QED
  BY <1>3, <1>4, <1>5 DEF row

(* Two legs between accounts of two classes.                               *)
LEMMA MoveRowShape ==
  ASSUME NEW row, NEW from, NEW to, from \subseteq Accounts, to \subseteq Accounts,
         NEW a \in from, NEW b \in to, a # b,
         NEW x \in Int, x # 0, NEW y \in Int, y # 0,
         row.legs = TwoLegs(a, x, b, y), row.splits = NoSplit
  PROVE  MovesBetween(row, from, x, to, y) /\ CategoriesOf(row) = {}
<1>1. a \in Accounts /\ b \in Accounts
  OBVIOUS
<1>2. AccountsOf(row) = {a, b} /\ row.legs[a] = x /\ row.legs[b] = y
  BY <1>1, TwoLegsShape
<1>3. CategoriesOf(row) = {}
  BY NoSplitShape
<1>4. QED
  BY <1>2, <1>3 DEF MovesBetween

LEMMA BalanceRowValid ==
  ASSUME NEW type \in {"ADJUSTMENT", "OPENING_BALANCE"}, NEW n \in Amounts, NEW date,
         NEW a \in Accounts, NEW delta \in {n, -n}
  PROVE  LET row == Transaction(type, "POSTED", n, date, OneLeg(a, delta), NoSplit)
         IN RowValid(row) /\ row.status = "POSTED"
<1> DEFINE row == Transaction(type, "POSTED", n, date, OneLeg(a, delta), NoSplit)
<1>0. /\ row.type = type /\ row.amount = n /\ row.status = "POSTED"
      /\ row.legs = OneLeg(a, delta) /\ row.splits = NoSplit
  BY DEF Transaction
<1> HIDE DEF row
<1>1. delta \in Int /\ delta # 0
  BY AmountIsInt
<1>2. AccountsOf(row) = {a} /\ row.legs[a] = delta
  BY <1>0, <1>1, OneLegShape
<1>3. CategoriesOf(row) = {}
  BY <1>0, NoSplitShape
<1>4. RowValid(row)
  BY <1>0, <1>2, <1>3 DEF RowValid, SpecialRowValid
<1>5. QED
  BY <1>0, <1>4 DEF row

(* A refund splits over the one category of a valid expense.               *)
LEMMA RefundRowValid ==
  ASSUME NEW o \in DOMAIN tx, RowValid(tx[o]), tx[o].type = "EXPENSE", tx[o] \in TxRow,
         NEW n \in Amounts, NEW date, NEW a \in Assets \cup CreditCards
  PROVE  RowValid(RefundRow(o, n, date, a))
<1> DEFINE row == RefundRow(o, n, date, a)
<1>0. /\ row.type = "REFUND" /\ row.amount = n /\ row.legs = OneLeg(a, GetBack(a, n))
      /\ row.splits = [c \in Categories |-> IF tx[o].splits[c] # 0 THEN n ELSE 0]
  BY DEF RefundRow, Transaction
<1>1. PICK c \in Categories : CategoriesOf(tx[o]) = {c} /\ c \in ExpenseCategories
  BY DEF RowValid, SimpleRowValid
<1>2. \A x \in Categories : tx[o].splits[x] # 0 <=> x = c
  BY <1>1 DEF CategoriesOf
<1>3. a \in Accounts /\ GetBack(a, n) \in Int /\ GetBack(a, n) # 0 /\ n # 0
  BY AccountsAssumption, AmountIsInt DEF GetBack
<1> HIDE DEF row
<1>4. row.splits = OneSplit(c, n)
  BY <1>0, <1>2 DEF OneSplit
<1>5. CategoriesOf(row) = {c} /\ row.splits[c] = n
  BY <1>4, <1>3, AmountIsInt, OneSplitShape
<1>6. AccountsOf(row) = {a} /\ row.legs[a] = GetBack(a, n)
  BY <1>0, <1>3, OneLegShape
<1>7. RowValid(row)
  BY <1>0, <1>1, <1>3, <1>5, <1>6 DEF RowValid, SimpleRowValid
<1>8. QED
  BY <1>7 DEF row

(* What a row's shape does not look at.                                    *)
LEMMA ShapeOnly ==
  ASSUME NEW row, NEW other,
         other.type = row.type, other.amount = row.amount,
         other.legs = row.legs, other.splits = row.splits
  PROVE  /\ RowValid(other) <=> RowValid(row)
         /\ AccountsOf(other) = AccountsOf(row)
         /\ CategoriesOf(other) = CategoriesOf(row)
BY DEF RowValid, SimpleRowValid, SpecialRowValid, MovesBetween, AccountsOf, CategoriesOf

-----------------------------------------------------------------------------
(* The inductive invariant.  Rows, rules and budgets are kept apart: an    *)
(* action disturbs one of them, or what may stay open around all of them.  *)

(* A row has its shape and, as long as it is a draft, open dependencies.   *)
RowReady(row) ==
  /\ RowValid(row)
  /\ row.status = "DRAFT" => /\ AccountsOf(row) \subseteq openAccounts
                             /\ CategoriesOf(row) \subseteq openCategories

RowsReady == \A i \in DOMAIN tx : RowReady(tx[i])

RulesReady == RulesValid(rule, openAccounts, openCategories)

BudgetsReady ==
  \A b \in DOMAIN budget :
    ~budget[b].archived => budget[b].category \in openCategories \cup {None}

AllReady == RowsReady /\ RulesReady /\ BudgetsReady

LEMMA ReadyMeans == AllReady <=> RowsMatchType /\ DependenciesOpen
BY DEF AllReady, RowsReady, RowReady, RulesReady, BudgetsReady, RowsMatchType, DependenciesOpen

LEMMA InitReady == Init => AllReady
BY DEF Init, Empty, AllReady, RowsReady, RulesReady, RulesValid, BudgetsReady

(* While what is open stays open and planning is untouched, new rows that  *)
(* are ready keep everything ready.                                        *)
LEMMA InsertReady ==
  ASSUME AllReady, openAccounts' = openAccounts, openCategories' = openCategories,
         rule' = rule, budget' = budget,
         NEW new, \A i \in DOMAIN new : RowReady(new[i]),
         tx' = Insert(tx, new)
  PROVE  AllReady'
<1>1. DOMAIN tx' = DOMAIN tx \cup DOMAIN new
  BY DEF Insert
<1>2. ASSUME NEW i \in DOMAIN tx'
      PROVE  RowReady(tx'[i])
  BY <1>1 DEF Insert, AllReady, RowsReady
<1>3. RowsReady'
  BY <1>2 DEF RowsReady, RowReady
<1>4. QED
  BY <1>3 DEF AllReady, RulesReady, BudgetsReady

(* ... for one row.                                                        *)
LEMMA InsertOneReady ==
  ASSUME AllReady, openAccounts' = openAccounts, openCategories' = openCategories,
         rule' = rule, budget' = budget,
         NEW i, NEW row, RowReady(row),
         tx' = Insert(tx, [j \in {i} |-> row])
  PROVE  AllReady'
<1> DEFINE new == [j \in {i} |-> row]
<1>1. \A j \in DOMAIN new : RowReady(new[j])
  OBVIOUS
<1> HIDE DEF new
<1>2. tx' = Insert(tx, new)
  BY DEF new
<1>3. QED
  BY <1>1, <1>2, InsertReady

(* ... for a group of rows.                                                *)
LEMMA InsertGroupReady ==
  ASSUME AllReady, openAccounts' = openAccounts, openCategories' = openCategories,
         rule' = rule, budget' = budget,
         NEW rows, \A j \in DOMAIN rows : RowReady(rows[j]) /\ rows[j] \in TxRow, NEW i,
         tx' = Insert(tx, Grouped(rows, i))
  PROVE  AllReady'
<1> DEFINE new == Grouped(rows, i)
<1>1. ASSUME NEW j \in DOMAIN new
      PROVE  RowReady(new[j])
  <2>1. j \in DOMAIN rows /\ new[j] = [rows[j] EXCEPT !.group = i]
    BY <1>1 DEF Grouped
  <2>2. /\ new[j].type = rows[j].type /\ new[j].amount = rows[j].amount
        /\ new[j].legs = rows[j].legs /\ new[j].splits = rows[j].splits
        /\ new[j].status = rows[j].status
    BY <2>1 DEF TxRow
  <2> HIDE DEF new
  <2>3. QED
    BY <2>1, <2>2, ShapeOnly DEF RowReady
<1> HIDE DEF new
<1>2. tx' = Insert(tx, new)
  BY DEF new
<1>3. QED
  BY <1>1, <1>2, InsertReady

(* Rows kept, changed to ready rows, or removed.                           *)
LEMMA ReplaceReady ==
  ASSUME AllReady, openAccounts' = openAccounts, openCategories' = openCategories,
         rule' = rule, budget' = budget, DOMAIN tx' \subseteq DOMAIN tx,
         \A i \in DOMAIN tx' : tx'[i] = tx[i] \/ RowReady(tx'[i])
  PROVE  AllReady'
<1>1. \A i \in DOMAIN tx' : RowReady(tx'[i])
  BY DEF AllReady, RowsReady
<1>2. RowsReady'
  BY <1>1 DEF RowsReady, RowReady
<1>3. QED
  BY <1>2 DEF AllReady, RulesReady, BudgetsReady

(* A row given another status than DRAFT stays ready.                      *)
LEMMA StatusReady ==
  ASSUME NEW row \in TxRow, RowReady(row), NEW s, s # "DRAFT"
  PROVE  RowReady([row EXCEPT !.status = s])
<1> DEFINE other == [row EXCEPT !.status = s]
<1>1. /\ other.type = row.type /\ other.amount = row.amount
      /\ other.legs = row.legs /\ other.splits = row.splits /\ other.status = s
  BY DEF TxRow
<1> HIDE DEF other
<1>2. RowReady(other)
  BY <1>1, ShapeOnly DEF RowReady
<1>3. QED
  BY <1>2 DEF other

(* The four kinds of transactions that move money between two accounts.    *)
LEMMA MoveRowReady ==
  ASSUME NEW n \in Amounts, NEW date, NEW a \in Assets
  PROVE  LET Move(type, x, b, y) ==
               Transaction(type, "POSTED", n, date, TwoLegs(a, x, b, y), NoSplit)
         IN /\ \A b \in Assets : b # a => RowReady(Move("TRANSFER", -n, b, n))
            /\ \A b \in CreditCards : RowReady(Move("CREDIT_CARD_PAYMENT", -n, b, -n))
            /\ \A b \in Loans : RowReady(Move("LOAN_DISBURSEMENT", n, b, n))
            /\ \A b \in Loans : RowReady(Move("LOAN_PAYMENT", -n, b, -n))
<1> DEFINE Move(type, x, b, y) ==
             Transaction(type, "POSTED", n, date, TwoLegs(a, x, b, y), NoSplit)
<1>0. n \in Int /\ n # 0 /\ -n \in Int /\ -n # 0
  BY AmountIsInt
<1>accounts. Assets \subseteq Accounts /\ CreditCards \subseteq Accounts /\ Loans \subseteq Accounts
  BY AccountsAssumption
<1>1. ASSUME NEW b \in Assets, b # a
      PROVE  RowReady(Move("TRANSFER", -n, b, n))
  <2> DEFINE row == Move("TRANSFER", -n, b, n)
  <2>1. /\ row.type = "TRANSFER" /\ row.amount = n /\ row.status = "POSTED"
        /\ row.legs = TwoLegs(a, -n, b, n) /\ row.splits = NoSplit
    BY DEF Transaction
  <2> HIDE DEF row
  <2>2. b # a
    BY <1>1, AccountsAssumption
  <2>3. MovesBetween(row, Assets, -n, Assets, n) /\ CategoriesOf(row) = {}
    BY <1>0, <1>accounts, <2>1, <2>2, MoveRowShape
  <2>4. RowReady(row)
    BY <2>1, <2>3 DEF RowReady, RowValid, SpecialRowValid
  <2>5. QED
    BY <2>4 DEF row
<1>2. ASSUME NEW b \in CreditCards
      PROVE  RowReady(Move("CREDIT_CARD_PAYMENT", -n, b, -n))
  <2> DEFINE row == Move("CREDIT_CARD_PAYMENT", -n, b, -n)
  <2>1. /\ row.type = "CREDIT_CARD_PAYMENT" /\ row.amount = n /\ row.status = "POSTED"
        /\ row.legs = TwoLegs(a, -n, b, -n) /\ row.splits = NoSplit
    BY DEF Transaction
  <2> HIDE DEF row
  <2>2. b # a
    BY <1>2, AccountsAssumption
  <2>3. MovesBetween(row, Assets, -n, CreditCards, -n) /\ CategoriesOf(row) = {}
    BY <1>0, <1>accounts, <2>1, <2>2, MoveRowShape
  <2>4. RowReady(row)
    BY <2>1, <2>3 DEF RowReady, RowValid, SpecialRowValid
  <2>5. QED
    BY <2>4 DEF row
<1>3. ASSUME NEW b \in Loans
      PROVE  RowReady(Move("LOAN_DISBURSEMENT", n, b, n))
  <2> DEFINE row == Move("LOAN_DISBURSEMENT", n, b, n)
  <2>1. /\ row.type = "LOAN_DISBURSEMENT" /\ row.amount = n /\ row.status = "POSTED"
        /\ row.legs = TwoLegs(a, n, b, n) /\ row.splits = NoSplit
    BY DEF Transaction
  <2> HIDE DEF row
  <2>2. b # a
    BY <1>3, AccountsAssumption
  <2>3. MovesBetween(row, Assets, n, Loans, n) /\ CategoriesOf(row) = {}
    BY <1>0, <1>accounts, <2>1, <2>2, MoveRowShape
  <2>4. RowReady(row)
    BY <2>1, <2>3 DEF RowReady, RowValid, SpecialRowValid
  <2>5. QED
    BY <2>4 DEF row
<1>4. ASSUME NEW b \in Loans
      PROVE  RowReady(Move("LOAN_PAYMENT", -n, b, -n))
  <2> DEFINE row == Move("LOAN_PAYMENT", -n, b, -n)
  <2>1. /\ row.type = "LOAN_PAYMENT" /\ row.amount = n /\ row.status = "POSTED"
        /\ row.legs = TwoLegs(a, -n, b, -n) /\ row.splits = NoSplit
    BY DEF Transaction
  <2> HIDE DEF row
  <2>2. b # a
    BY <1>4, AccountsAssumption
  <2>3. MovesBetween(row, Assets, -n, Loans, -n) /\ CategoriesOf(row) = {}
    BY <1>0, <1>accounts, <2>1, <2>2, MoveRowShape
  <2>4. RowReady(row)
    BY <2>1, <2>3 DEF RowReady, RowValid, SpecialRowValid
  <2>5. QED
    BY <2>4 DEF row
<1> HIDE DEF Move
<1>5. QED
  BY <1>1, <1>2, <1>3, <1>4 DEF Move

-----------------------------------------------------------------------------
(* The actions that record transactions.                                   *)

LEMMA RecordReady ==
  ASSUME TypeOK, AllReady, NEW i \in Free, Record(i)
  PROVE  AllReady'
<1> SUFFICES ASSUME NEW n \in Amounts, NEW date \in Dates,
                    \/ \E s \in {"POSTED", "DRAFT"}, a \in Accounts, c \in Categories :
                         CreateExpense(i, s, n, date, a, c) \/ CreateIncome(i, s, n, date, a, c)
                    \/ \E a, b \in Accounts :
                         \/ CreateTransfer(i, n, date, a, b)
                         \/ CreateCreditCardPayment(i, n, date, a, b)
                         \/ CreateLoanDisbursement(i, n, date, a, b)
                    \/ \E a \in Accounts, o \in DOMAIN tx : CreateRefund(i, o, n, date, a)
                    \/ \E a \in Accounts, c \in ExpenseCategories, b \in Bills :
                         PayBill(b, i, n, date, a, c)
             PROVE  AllReady'
  BY DEF Record
<1>0. n \in Int /\ n # 0 /\ -n \in Int /\ -n # 0
  BY AmountIsInt
<1> USE DEF catalog, planning, SpendableAccounts, OpenAssets
<1>1. ASSUME NEW s, NEW a, NEW c, CreateExpense(i, s, n, date, a, c)
      PROVE  AllReady'
  <2>1. RowReady(ExpenseRow(s, n, date, a, c))
    BY <1>1, ExpenseRowValid DEF CreateExpense, RowReady
  <2>2. QED
    BY <1>1, <2>1, InsertOneReady DEF CreateExpense
<1>2. ASSUME NEW s, NEW a, NEW c, CreateIncome(i, s, n, date, a, c)
      PROVE  AllReady'
  <2>1. RowReady(IncomeRow(s, n, date, a, c))
    BY <1>2, IncomeRowValid DEF CreateIncome, RowReady
  <2>2. QED
    BY <1>2, <2>1, InsertOneReady DEF CreateIncome
<1>3. ASSUME NEW a, NEW b, CreateTransfer(i, n, date, a, b)
      PROVE  AllReady'
  <2>1. a \in Assets /\ b \in Assets /\ a # b
    BY <1>3 DEF CreateTransfer
  <2>2. RowReady(TransferRow(n, date, a, b))
    BY <2>1, MoveRowReady DEF TransferRow
  <2>3. QED
    BY <1>3, <2>2, InsertOneReady DEF CreateTransfer
<1>4. ASSUME NEW a, NEW b, CreateCreditCardPayment(i, n, date, a, b)
      PROVE  AllReady'
  <2> DEFINE row == Transaction("CREDIT_CARD_PAYMENT", "POSTED", n, date,
                                TwoLegs(a, -n, b, -n), NoSplit)
  <2>1. a \in Assets /\ b \in CreditCards /\ a # b
    BY <1>4, AccountsAssumption DEF CreateCreditCardPayment
  <2>2. RowReady(row)
    BY <2>1, MoveRowReady
  <2>3. tx' = Insert(tx, [j \in {i} |-> row])
    BY <1>4 DEF CreateCreditCardPayment
  <2> HIDE DEF row
  <2>4. QED
    BY <1>4, <2>2, <2>3, InsertOneReady DEF CreateCreditCardPayment
<1>5. ASSUME NEW a, NEW b, CreateLoanDisbursement(i, n, date, a, b)
      PROVE  AllReady'
  <2> DEFINE row == Transaction("LOAN_DISBURSEMENT", "POSTED", n, date,
                                TwoLegs(a, n, b, n), NoSplit)
  <2>1. a \in Assets /\ b \in Loans /\ a # b
    BY <1>5, AccountsAssumption DEF CreateLoanDisbursement
  <2>2. RowReady(row)
    BY <2>1, MoveRowReady
  <2>3. tx' = Insert(tx, [j \in {i} |-> row])
    BY <1>5 DEF CreateLoanDisbursement
  <2> HIDE DEF row
  <2>4. QED
    BY <1>5, <2>2, <2>3, InsertOneReady DEF CreateLoanDisbursement
<1>6. ASSUME NEW a, NEW o \in DOMAIN tx, CreateRefund(i, o, n, date, a)
      PROVE  AllReady'
  <2>1. tx[o] \in TxRow /\ RowValid(tx[o])
    BY DEF TypeOK, TxTypeOK, AllReady, RowsReady, RowReady
  <2>2. RowValid(RefundRow(o, n, date, a))
    BY <1>6, <2>1, RefundRowValid DEF CreateRefund
  <2>3. RefundRow(o, n, date, a).status = "POSTED"
    BY DEF RefundRow, Transaction
  <2>4. RowReady(RefundRow(o, n, date, a))
    BY <2>2, <2>3 DEF RowReady
  <2>5. QED
    BY <1>6, <2>4, InsertOneReady DEF CreateRefund
<1>7. ASSUME NEW a, NEW c, NEW b, PayBill(b, i, n, date, a, c)
      PROVE  AllReady'
  <2>1. RowReady(ExpenseRow("POSTED", n, date, a, c))
    BY <1>7, ExpenseRowValid DEF PayBill, RowReady
  <2>2. QED
    BY <1>7, <2>1, InsertOneReady DEF PayBill
<1>8. QED
  BY <1>1, <1>2, <1>3, <1>4, <1>5, <1>6, <1>7

LEMMA RecordGroupReady ==
  ASSUME TypeOK, AllReady, NEW i \in Free, RecordGroup(i)
  PROVE  AllReady'
<1> USE DEF catalog, planning, OpenAssets
<1>0. \A n \in Amounts : n \in Int /\ n # 0 /\ -n \in Int /\ -n # 0
  BY AmountIsInt
<1>1. ASSUME NEW n \in Amounts, NEW date \in Dates, NEW a \in Accounts, NEW b \in Accounts,
             NEW k \in Free, NEW fee \in Amounts,
             CreateTransferWithFee(i, k, n, fee, date, a, b)
      PROVE  AllReady'
  <2> DEFINE rows == [j \in {i, k} |-> IF j = i THEN TransferRow(n, date, a, b)
                                       ELSE ExpenseRow("POSTED", fee, date, a, TransferFee)]
  <2>1. a \in Assets /\ b \in Assets /\ a # b
    BY <1>1 DEF CreateTransferWithFee
  <2>2. RowReady(TransferRow(n, date, a, b)) /\ TransferRow(n, date, a, b) \in TxRow
    BY <2>1, MoveRowReady, TransferRowType DEF TransferRow
  <2>3. /\ RowValid(ExpenseRow("POSTED", fee, date, a, TransferFee))
        /\ ExpenseRow("POSTED", fee, date, a, TransferFee).status = "POSTED"
        /\ ExpenseRow("POSTED", fee, date, a, TransferFee) \in TxRow
    BY <2>1, CategoriesAssumption, ExpenseRowValid, SimpleRowType
       DEF ExpenseRow, Transaction, Statuses
  <2>4. \A j \in DOMAIN rows : RowReady(rows[j]) /\ rows[j] \in TxRow
    BY <2>2, <2>3 DEF RowReady
  <2>5. tx' = Insert(tx, Grouped(rows, i))
    BY <1>1 DEF CreateTransferWithFee
  <2> HIDE DEF rows
  <2>6. QED
    BY <1>1, <2>4, <2>5, InsertGroupReady DEF CreateTransferWithFee
<1>2. ASSUME NEW n \in Amounts, NEW date \in Dates, NEW a \in Accounts, NEW b \in Accounts,
             NEW c \in ExpenseCategories, NEW ids \in SUBSET (Free \ {i}),
             NEW children \in [ids -> Amounts],
             CreateLoanPayment(i, children, n, date, a, b, c)
      PROVE  AllReady'
  <2> DEFINE primary == Transaction("LOAN_PAYMENT", "POSTED", n, date,
                                    TwoLegs(a, -n, b, -n), NoSplit)
             rows == [j \in {i} \cup DOMAIN children |->
                        IF j = i THEN primary
                        ELSE ExpenseRow("POSTED", children[j], date, a, c)]
  <2>1. a \in Assets /\ b \in Loans /\ a # b
    BY <1>2, AccountsAssumption DEF CreateLoanPayment
  <2>2. RowReady(primary)
    BY <2>1, MoveRowReady
  <2>3. primary \in TxRow
    <3>1. TwoLegs(a, -n, b, -n) \in [Accounts -> Deltas] /\ "LOAN_PAYMENT" \in Types
      BY LegsType, MoneyTypes DEF Types
    <3>2. NoSplit \in [Categories -> 0 .. MaxMoney] /\ "POSTED" \in Statuses
      BY MoneyTypes DEF NoSplit, Statuses
    <3>3. QED
      BY <3>1, <3>2, TransactionType
  <2>4. ASSUME NEW j \in ids
        PROVE  /\ RowReady(ExpenseRow("POSTED", children[j], date, a, c))
               /\ ExpenseRow("POSTED", children[j], date, a, c) \in TxRow
    <3>1. children[j] \in Amounts /\ "POSTED" \in Statuses
      BY DEF Statuses
    <3>2. ExpenseRow("POSTED", children[j], date, a, c).status = "POSTED"
      BY DEF ExpenseRow, Transaction
    <3>3. QED
      BY <2>1, <3>1, <3>2, ExpenseRowValid, SimpleRowType DEF RowReady
  <2>5. \A j \in DOMAIN rows : RowReady(rows[j]) /\ rows[j] \in TxRow
    <3> HIDE DEF primary
    <3>1. QED
      BY <2>2, <2>3, <2>4
  <2>6. tx' = Insert(tx, Grouped(rows, i))
    BY <1>2 DEF CreateLoanPayment
  <2> HIDE DEF rows
  <2>7. QED
    BY <1>2, <2>5, <2>6, InsertGroupReady DEF CreateLoanPayment
<1>3. QED
  BY <1>1, <1>2 DEF RecordGroup

LEMMA AdjustReady ==
  ASSUME TypeOK, AllReady, NEW i \in Free, Adjust(i)
  PROVE  AllReady'
<1>1. PICK delta \in Deltas, date \in Dates, a \in Accounts :
        ReconcileAccount(i, delta, date, a)
  BY DEF Adjust, Deltas
<1> DEFINE n == IF delta < 0 THEN -delta ELSE delta
           row == Transaction("ADJUSTMENT", "POSTED", n, date, OneLeg(a, delta), NoSplit)
<1>2. n \in Amounts /\ delta \in {n, -n}
  BY <1>1, BoundsAssumption DEF ReconcileAccount, Deltas, Amounts
<1>3. tx' = Insert(tx, [j \in {i} |-> row])
  BY <1>1 DEF ReconcileAccount
<1> HIDE DEF n
<1>4. RowReady(row)
  BY <1>2, BalanceRowValid DEF RowReady
<1> HIDE DEF row
<1>5. QED
  BY <1>1, <1>3, <1>4, InsertOneReady DEF ReconcileAccount, catalog, planning

-----------------------------------------------------------------------------
(* The actions that change transactions.                                   *)

LEMMA ChangeReady ==
  ASSUME TypeOK, AllReady, NEW i \in DOMAIN tx, Change(i)
  PROVE  AllReady'
<1>0. tx \in [DOMAIN tx -> TxRow] /\ \A j \in DOMAIN tx : tx[j] \in TxRow /\ RowReady(tx[j])
  BY DEF TypeOK, TxTypeOK, AllReady, RowsReady
<1> USE DEF catalog, planning
<1>1. ASSUME NEW n \in Amounts, NEW date \in Dates, NEW a \in Accounts, NEW c \in Categories,
             UpdateSimpleTransaction(i, n, date, a, c)
      PROVE  AllReady'
  <2>1. RowReady(EditedRow(i, n, date, a, c))
    <3>1. CASE tx[i].type = "EXPENSE"
      <4>1. /\ a \in Assets \cup CreditCards /\ a \in openAccounts
            /\ c \in ExpenseCategories /\ c \in openCategories
        BY <1>1, <3>1 DEF UpdateSimpleTransaction, SpendableAccounts
      <4>2. RowReady(ExpenseRow(tx[i].status, n, date, a, c))
        BY <4>1, ExpenseRowValid DEF RowReady
      <4>3. QED
        BY <3>1, <4>2 DEF EditedRow
    <3>2. CASE tx[i].type # "EXPENSE"
      <4>1. /\ a \in Assets /\ a \in openAccounts
            /\ c \in IncomeCategories /\ c \in openCategories
        BY <1>1, <3>2 DEF UpdateSimpleTransaction, OpenAssets
      <4>2. RowReady(IncomeRow(tx[i].status, n, date, a, c))
        BY <4>1, IncomeRowValid DEF RowReady
      <4>3. QED
        BY <3>2, <4>2 DEF EditedRow
    <3>3. QED
      BY <3>1, <3>2
  <2>2. DOMAIN tx' \subseteq DOMAIN tx
    BY <1>1 DEF UpdateSimpleTransaction
  <2>3. \A j \in DOMAIN tx' : tx'[j] = tx[j] \/ RowReady(tx'[j])
    BY <1>1, <2>1 DEF UpdateSimpleTransaction
  <2>4. QED
    BY <1>1, <2>2, <2>3, ReplaceReady DEF UpdateSimpleTransaction
<1>2. ASSUME PostDraftTransaction(i)
      PROVE  AllReady'
  <2>1. RowReady([tx[i] EXCEPT !.status = "POSTED"])
    BY <1>0, StatusReady
  <2>2. DOMAIN tx' \subseteq DOMAIN tx
    BY <1>2 DEF PostDraftTransaction
  <2>3. \A j \in DOMAIN tx' : tx'[j] = tx[j] \/ RowReady(tx'[j])
    BY <1>2, <2>1 DEF PostDraftTransaction
  <2>4. QED
    BY <1>2, <2>2, <2>3, ReplaceReady DEF PostDraftTransaction
<1>3. ASSUME DeleteTransaction(i)
      PROVE  AllReady'
  BY <1>3, ReplaceReady DEF DeleteTransaction, Remove
<1>4. ASSUME VoidTransaction(i)
      PROVE  AllReady'
  <2>1. \A j \in DOMAIN tx : RowReady([tx[j] EXCEPT !.status = "VOIDED"])
    BY <1>0, StatusReady
  <2>2. DOMAIN tx' \subseteq DOMAIN tx
    BY <1>4 DEF VoidTransaction
  <2>3. \A j \in DOMAIN tx' : tx'[j] = tx[j] \/ RowReady(tx'[j])
    BY <1>4, <2>1 DEF VoidTransaction
  <2>4. QED
    BY <1>4, <2>2, <2>3, ReplaceReady DEF VoidTransaction
<1>5. QED
  BY <1>1, <1>2, <1>3, <1>4 DEF Change

-----------------------------------------------------------------------------
(* The catalog and the rules.                                              *)

(* Opening more accounts never closes one.                                 *)
LEMMA CreateAccountReady ==
  ASSUME TypeOK, AllReady, NEW a \in Accounts, CreateAccount(a)
  PROVE  AllReady'
<1>1. /\ openAccounts \subseteq openAccounts' /\ openCategories' = openCategories
      /\ rule' = rule /\ budget' = budget
  BY DEF CreateAccount, planning
<1>2. \A row : RowReady(row) => RowReady(row)'
  BY <1>1 DEF RowReady
<1>3. \A i \in DOMAIN tx' : (i \in DOMAIN tx /\ tx'[i] = tx[i]) \/ RowReady(tx'[i])
  <2>1. CASE tx' = tx
    BY <2>1
  <2>2. ASSUME NEW k \in Free, NEW n \in Amounts,
               tx' = Insert(tx, [j \in {k} |->
                       Transaction("OPENING_BALANCE", "POSTED", n, today, OneLeg(a, n), NoSplit)])
        PROVE  \A i \in DOMAIN tx' : (i \in DOMAIN tx /\ tx'[i] = tx[i]) \/ RowReady(tx'[i])
    <3> DEFINE row == Transaction("OPENING_BALANCE", "POSTED", n, today, OneLeg(a, n), NoSplit)
    <3>1. RowReady(row)
      BY BalanceRowValid DEF RowReady
    <3>2. tx' = Insert(tx, [j \in {k} |-> row])
      BY <2>2
    <3> HIDE DEF row
    <3>3. QED
      BY <3>1, <3>2 DEF Insert
  <2>3. QED
    BY <2>1, <2>2 DEF CreateAccount
<1>4. \A i \in DOMAIN tx' : RowReady(tx'[i])
  BY <1>3 DEF AllReady, RowsReady
<1>5. RowsReady'
  <2> SUFFICES ASSUME NEW i \in DOMAIN tx'
               PROVE  RowReady(tx[i])'
    BY DEF RowsReady
  <2>1. RowReady(tx'[i])
    BY <1>4
  <2>2. QED
    BY <1>1, <2>1 DEF RowReady
<1>6. RulesReady'
  BY <1>1 DEF AllReady, RulesReady, RulesValid
<1>7. BudgetsReady'
  BY <1>1 DEF AllReady, BudgetsReady
<1>8. QED
  BY <1>5, <1>6, <1>7 DEF AllReady

LEMMA ChangeCatalogReady ==
  ASSUME TypeOK, AllReady, ChangeCatalog
  PROVE  AllReady'
<1> USE DEF AllReady, catalog, planning
<1>1. ASSUME NEW a \in Accounts, ArchiveAccount(a)
      PROVE  AllReady'
  <2>1. RowsReady'
    BY <1>1 DEF ArchiveAccount, AccountInUse, RowsReady, RowReady
  <2>2. RulesReady'
    BY <1>1 DEF ArchiveAccount, AccountInUse, RulesReady, RulesValid
  <2>3. QED
    BY <1>1, <2>1, <2>2 DEF ArchiveAccount, BudgetsReady
<1>2. ASSUME NEW c \in Categories, ArchiveCategory(c)
      PROVE  AllReady'
  <2>1. RowsReady'
    BY <1>2 DEF ArchiveCategory, CategoryInUse, RowsReady, RowReady
  <2>2. RulesReady'
    BY <1>2 DEF ArchiveCategory, CategoryInUse, RulesReady, RulesValid
  <2>3. BudgetsReady'
    BY <1>2 DEF ArchiveCategory, CategoryInUse, BudgetsReady
  <2>4. QED
    BY <2>1, <2>2, <2>3
<1>3. ASSUME NEW b \in Budgets, CreateBudget(b) \/ ArchiveBudget(b)
      PROVE  AllReady'
  <2>1. BudgetsReady'
    <3>1. CASE CreateBudget(b)
      BY <3>1 DEF CreateBudget, BudgetsReady, Insert
    <3>2. CASE ArchiveBudget(b)
      BY <3>2 DEF ArchiveBudget, BudgetsReady, TypeOK, BudgetTypeOK, BudgetRow
    <3>3. QED
      BY <1>3, <3>1, <3>2
  <2>2. RowsReady' /\ RulesReady'
    BY <1>3 DEF CreateBudget, ArchiveBudget, RowsReady, RowReady, RulesReady
  <2>3. QED
    BY <2>1, <2>2
<1>4. QED
  BY <1>1, <1>2, <1>3, CreateAccountReady DEF ChangeCatalog

LEMMA ChangeRuleReady ==
  ASSUME TypeOK, AllReady, ChangeRule
  PROVE  AllReady'
<1> USE DEF AllReady, catalog
<1>0. \A r \in DOMAIN rule : rule[r] \in RuleRow
  BY DEF TypeOK, RuleTypeOK
<1>1. ASSUME NEW r \in Rules, NEW active \in BOOLEAN, SetRecurringActive(r, active)
      PROVE  AllReady'
  <2>1. RulesReady'
    BY <1>0, <1>1 DEF SetRecurringActive, RuleUsable, RulesReady, RulesValid, RuleRow,
                      SpendableAccounts
  <2>2. QED
    BY <1>1, <2>1 DEF SetRecurringActive, RowsReady, RowReady, BudgetsReady
<1>2. ASSUME NEW r \in Rules, NEW a \in Accounts, NEW c \in ExpenseCategories,
             NEW n \in Amounts, NEW day \in RuleDays,
             CreateRecurringExpenseDraft(r, a, c, n, day)
      PROVE  AllReady'
  <2>1. RulesReady'
    BY <1>2 DEF CreateRecurringExpenseDraft, RuleUsable, RulesReady, RulesValid, Insert,
                SpendableAccounts
  <2>2. QED
    BY <1>2, <2>1 DEF CreateRecurringExpenseDraft, RowsReady, RowReady, BudgetsReady
<1>3. QED
  BY <1>1, <1>2 DEF ChangeRule

(* A draft is made for a rule only while the rule is usable.               *)
LEMMA RunRecurringReady ==
  ASSUME TypeOK, AllReady, RunRecurring
  PROVE  AllReady'
<1>1. PICK early \in BOOLEAN : \E moved \in SUBSET DueRules :
        \E done \in SUBSET Keys(DueRules, early) :
          \E slot \in FreshSlots(Unmade(done)) :
            GenerateDueRecurring(done, moved, early, slot)
  BY DEF RunRecurring
<1>2. PICK moved \in SUBSET DueRules, done \in SUBSET Keys(DueRules, early) :
        \E slot \in FreshSlots(Unmade(done)) :
          GenerateDueRecurring(done, moved, early, slot)
  BY <1>1
<1>3. PICK slot \in FreshSlots(Unmade(done)) :
        GenerateDueRecurring(done, moved, early, slot)
  BY <1>2
<1>4. \A r \in DOMAIN rule : rule[r] \in RuleRow
  BY DEF TypeOK, RuleTypeOK
<1>5. DOMAIN slot = Unmade(done)
  BY DEF FreshSlots
<1>6. ASSUME NEW k \in Unmade(done)
      PROVE  RowReady(DraftFor(k))
  <2>1. k \in done /\ k[1] \in DOMAIN rule
    BY DEF Unmade, Keys, DueRules
  <2>2. RuleUsable(rule[k[1]])
    BY <1>3, <2>1 DEF GenerateDueRecurring, CommittedPrefix
  <2>3. rule[k[1]].amount \in Amounts /\ rule[k[1]].category \in ExpenseCategories
    BY <1>4, <2>1 DEF RuleRow
  <2>4. QED
    BY <2>2, <2>3, ExpenseRowValid DEF DraftFor, RowReady, RuleUsable, SpendableAccounts
<1> DEFINE ids == {slot[k] : k \in DOMAIN slot}
           keyOf(i) == CHOOSE k \in DOMAIN slot : slot[k] = i
           new == [i \in ids |-> DraftFor(keyOf(i))]
           moving == [r \in DOMAIN rule |->
                        [rule[r] EXCEPT !.nextRun = IF r \in moved THEN CursorAfter(rule[r], early)
                                                    ELSE HealedCursor(rule[r])]]
<1>7. \A i \in DOMAIN new : RowReady(new[i])
  <2>1. \A i \in ids : keyOf(i) \in Unmade(done)
    BY <1>5
  <2> HIDE DEF keyOf, ids
  <2>2. QED
    BY <1>6, <2>1
<1>8. /\ tx' = Insert(tx, new) /\ rule' = moving
      /\ openAccounts' = openAccounts /\ openCategories' = openCategories /\ budget' = budget
  BY <1>3 DEF GenerateDueRecurring, catalog
<1>9. RowsReady'
  <2> HIDE DEF new, moving
  <2>1. \A i \in DOMAIN tx' : RowReady(tx'[i])
    BY <1>7, <1>8 DEF Insert, AllReady, RowsReady
  <2>2. QED
    BY <1>8, <2>1 DEF RowsReady, RowReady
<1>10. RulesReady'
  <2>1. DOMAIN rule' = DOMAIN rule
    BY <1>8
  <2>2. \A r \in DOMAIN rule : /\ rule'[r].account = rule[r].account
                               /\ rule'[r].category = rule[r].category
                               /\ rule'[r].active = rule[r].active
    BY <1>4, <1>8 DEF RuleRow
  <2> HIDE DEF new, moving
  <2>3. QED
    BY <1>8, <2>1, <2>2 DEF AllReady, RulesReady, RulesValid
<1>11. BudgetsReady'
  BY <1>8 DEF AllReady, BudgetsReady
<1>12. QED
  BY <1>9, <1>10, <1>11 DEF AllReady

-----------------------------------------------------------------------------
LEMMA NextReady ==
  ASSUME TypeOK, AllReady, [Next]_vars
  PROVE  AllReady'
<1> DEFINE Same == UNCHANGED <<openAccounts, openCategories, tx, rule, budget>>
<1>1. ASSUME Same
      PROVE  AllReady'
  BY <1>1 DEF AllReady, RowsReady, RowReady, RulesReady, BudgetsReady
<1>2. ASSUME ChangeBill \/ ListBills \/ \E d \in Dates : SetClock(d) \/ UNCHANGED vars
      PROVE  Same
  BY <1>2 DEF ChangeBill, SkipBill, CreateBill, ListBills, SetClock, vars, catalog, planning
<1>3. ASSUME WipeLocalFinanceData
      PROVE  AllReady'
  BY <1>3 DEF WipeLocalFinanceData, Empty, AllReady, RowsReady, RulesReady, RulesValid,
              BudgetsReady
<1>4. ASSUME UNCHANGED vars
      PROVE  Same
  BY <1>4 DEF vars, catalog, planning
<1> HIDE DEF Same
<1>5. QED
  BY <1>1, <1>2, <1>3, <1>4, RecordReady, RecordGroupReady, AdjustReady, ChangeReady,
     ChangeCatalogReady, ChangeRuleReady, RunRecurringReady
     DEF Next

LEMMA AlwaysReady == Spec => []AllReady
<1>1. Init => AllReady
  BY InitReady
<1>2. TypeOK /\ AllReady /\ [Next]_vars => AllReady'
  BY NextReady
<1>3. QED
  BY <1>1, <1>2, TypeCorrect, PTL DEF Spec

(* Whatever was recorded, refunded, edited, posted or drafted by a rule,   *)
(* every transaction has the legs and splits its type promises: what the   *)
(* queries invalidSimpleShape to invalidSpecialSemantics of                *)
(* _validateLedger count is zero, so no shape of a row refuses a backup.   *)
THEOREM RowsAreValid == Spec => []RowsMatchType
<1>1. AllReady => RowsMatchType
  BY ReadyMeans
<1>2. QED
  BY <1>1, AlwaysReady, PTL

(* No archive, edit or restart of a rule leaves an active rule, a draft or *)
(* a live budget with an archived account or category.                     *)
THEOREM DependenciesAreOpen == Spec => []DependenciesOpen
<1>1. AllReady => DependenciesOpen
  BY ReadyMeans
<1>2. QED
  BY <1>1, AlwaysReady, PTL

-----------------------------------------------------------------------------
(* The figures.  A row's legs, with the sign of their account's class, add *)
(* up to what the contract says of it, and its splits to its amount; the   *)
(* dashboard adds the legs account by account, the contract row by row.    *)

(* What a row's legs do to net worth.                                      *)
Worths(row) == [a \in Accounts |-> GetBack(a, row.legs[a])]

LEMMA ContractIs ==
  ASSUME NEW row, row.type \in Types
  PROVE  LET con == Contract(row) n == row.amount IN
         /\ row.type = "EXPENSE" => con.worth = -n /\ con.spent = n /\ con.earned = 0
         /\ row.type = "INCOME" => con.worth = n /\ con.spent = 0 /\ con.earned = n
         /\ row.type = "REFUND" => con.worth = n /\ con.spent = -n /\ con.earned = 0
         /\ row.type \in {"ADJUSTMENT", "OPENING_BALANCE"} =>
              con.worth = SumFunction(Worths(row)) /\ con.spent = 0 /\ con.earned = 0
         /\ row.type \in {"TRANSFER", "CREDIT_CARD_PAYMENT", "LOAN_DISBURSEMENT", "LOAN_PAYMENT"} =>
              con.worth = 0 /\ con.spent = 0 /\ con.earned = 0
<1>1. CASE row.type = "EXPENSE"
  BY <1>1 DEF Contract
<1>2. CASE row.type = "INCOME"
  BY <1>2 DEF Contract
<1>3. CASE row.type = "REFUND"
  BY <1>3 DEF Contract
<1>4. CASE row.type \in {"ADJUSTMENT", "OPENING_BALANCE"}
  BY <1>4 DEF Contract, Worths
<1>5. CASE row.type \in {"TRANSFER", "CREDIT_CARD_PAYMENT", "LOAN_DISBURSEMENT", "LOAN_PAYMENT"}
  BY <1>5 DEF Contract
<1>6. QED
  BY <1>1, <1>2, <1>3, <1>4, <1>5 DEF Types

LEMMA CategoriesFinite == IsFiniteSet(Categories)
BY CatalogAssumption, FS_Union DEF Categories

LEMMA RowTypes ==
  ASSUME NEW row \in TxRow
  PROVE  /\ row.type \in Types /\ row.amount \in Nat /\ row.amount # 0
         /\ \A a \in Accounts : row.legs[a] \in Int
         /\ DOMAIN row.splits = Categories /\ \A c \in Categories : row.splits[c] \in Int
BY BoundsAssumption DEF TxRow, Amounts

(* Two legs whose signed amounts cancel out.                               *)
LEMMA MoveWorth ==
  ASSUME NEW row \in TxRow, NEW from, NEW to, from \subseteq Accounts, to \subseteq Accounts,
         NEW x \in Int, NEW y \in Int, MovesBetween(row, from, x, to, y),
         \A a \in from, b \in to : GetBack(a, x) + GetBack(b, y) = 0
  PROVE  Total(Worths(row), Accounts) = 0
<1>1. PICK a \in from, b \in to : /\ a # b /\ AccountsOf(row) = {a, b}
                                  /\ row.legs[a] = x /\ row.legs[b] = y
  BY DEF MovesBetween
<1> DEFINE w == Worths(row)
<1>2. w[a] = GetBack(a, x) /\ w[b] = GetBack(b, y) /\ a \in Accounts /\ b \in Accounts
  BY <1>1 DEF Worths
<1>3. \A z \in Accounts : w[z] \in Int
  BY RowTypes DEF Worths, GetBack
<1>4. \A z \in Accounts \ {a, b} : w[z] = 0
  <2>1. \A z \in Accounts \ {a, b} : row.legs[z] = 0
    BY <1>1 DEF AccountsOf
  <2>2. QED
    BY <2>1 DEF Worths, GetBack
<1> HIDE DEF w
<1>5. Total(w, Accounts) = w[a] + w[b]
  BY <1>1, <1>2, <1>3, <1>4, CatalogAssumption, TotalPair
<1>6. QED
  BY <1>2, <1>5 DEF w

LEMMA RowWorth ==
  ASSUME NEW row \in TxRow, RowValid(row)
  PROVE  /\ \A a \in Accounts : Worths(row)[a] \in Int
         /\ Total(Worths(row), Accounts) = Contract(row).worth
<1> DEFINE w == Worths(row)
           n == row.amount
<1>1. \A a \in Accounts : w[a] \in Int
  BY RowTypes DEF Worths, GetBack
<1>2. DOMAIN w = Accounts
  BY DEF Worths
<1>3. row.type \in Types /\ n \in Int /\ -n \in Int
  BY RowTypes
<1>4. \A a \in Assets, b \in Assets : GetBack(a, -n) + GetBack(b, n) = 0
  BY <1>3 DEF GetBack
<1>5. \A a \in Assets, b \in CreditCards \cup Loans :
        GetBack(a, -n) + GetBack(b, -n) = 0 /\ GetBack(a, n) + GetBack(b, n) = 0
  BY <1>3, AccountsAssumption DEF GetBack
<1>6. CASE row.type \in {"EXPENSE", "INCOME", "REFUND"}
  <2>1. SimpleRowValid(row)
    BY <1>6 DEF RowValid
  <2>2. PICK a \in Accounts :
          /\ AccountsOf(row) = {a}
          /\ a \in IF row.type = "INCOME" THEN Assets ELSE Assets \cup CreditCards
          /\ row.legs[a] = IF row.type = "EXPENSE" THEN Spend(a, n) ELSE GetBack(a, n)
    BY <2>1 DEF SimpleRowValid
  <2>3. \A z \in Accounts \ {a} : w[z] = 0
    BY <2>2 DEF AccountsOf, Worths, GetBack
  <2>4. w[a] = GetBack(a, row.legs[a])
    BY DEF Worths
  <2>5. w[a] = Contract(row).worth
    BY <1>3, <1>6, <2>2, <2>4, ContractIs DEF Spend, GetBack
  <2> HIDE DEF w
  <2>6. Total(w, Accounts) = w[a]
    BY <1>1, <2>3, CatalogAssumption, TotalSingle
  <2>7. QED
    BY <1>1, <2>5, <2>6 DEF w
<1>7. CASE row.type \in {"ADJUSTMENT", "OPENING_BALANCE"}
  <2>1. Contract(row).worth = SumFunction(w)
    BY <1>3, <1>7, ContractIs
  <2> HIDE DEF w
  <2>2. SumFunction(w) = Total(w, Accounts)
    BY <1>2, CatalogAssumption, SumIsTotal
  <2>3. QED
    BY <1>1, <2>1, <2>2 DEF w
<1>8. CASE row.type \in {"TRANSFER", "CREDIT_CARD_PAYMENT", "LOAN_DISBURSEMENT", "LOAN_PAYMENT"}
  <2>1. SpecialRowValid(row)
    BY <1>8 DEF RowValid
  <2>2. \/ MovesBetween(row, Assets, -n, Assets, n)
        \/ MovesBetween(row, Assets, -n, CreditCards, -n)
        \/ MovesBetween(row, Assets, n, Loans, n)
        \/ MovesBetween(row, Assets, -n, Loans, -n)
    <3>1. CASE row.type = "TRANSFER"
      BY <2>1, <3>1 DEF SpecialRowValid
    <3>2. CASE row.type = "CREDIT_CARD_PAYMENT"
      BY <2>1, <3>2 DEF SpecialRowValid
    <3>3. CASE row.type = "LOAN_DISBURSEMENT"
      BY <2>1, <3>3 DEF SpecialRowValid
    <3>4. CASE row.type = "LOAN_PAYMENT"
      BY <2>1, <3>4 DEF SpecialRowValid
    <3>5. QED
      BY <1>8, <3>1, <3>2, <3>3, <3>4
  <2>3. Contract(row).worth = 0
    BY <1>3, <1>8, ContractIs
  <2> HIDE DEF w, n
  <2>4. Total(Worths(row), Accounts) = 0
    BY <1>3, <1>4, <1>5, <2>2, AccountsAssumption, MoveWorth
  <2>5. QED
    BY <1>1, <2>3, <2>4 DEF w
<1>9. QED
  BY <1>3, <1>6, <1>7, <1>8 DEF Types

LEMMA RowSplits ==
  ASSUME NEW row \in TxRow, RowValid(row), row.type \in {"EXPENSE", "INCOME", "REFUND"}
  PROVE  SumFunction(row.splits) = row.amount
<1>1. PICK c \in Categories : CategoriesOf(row) = {c} /\ row.splits[c] = row.amount
  <2>1. SimpleRowValid(row)
    BY DEF RowValid
  <2>2. QED
    BY <2>1 DEF SimpleRowValid, Categories, CategoriesOf
<1>2. \A x \in Categories \ {c} : row.splits[x] = 0
  BY <1>1 DEF CategoriesOf
<1> DEFINE w == row.splits
<1>3. DOMAIN w = Categories /\ \A x \in Categories : w[x] \in Int
  BY RowTypes
<1> HIDE DEF w
<1>4. SumFunction(w) = Total(w, Categories)
  BY <1>3, CategoriesFinite, SumIsTotal
<1>5. Total(w, Categories) = w[c]
  BY <1>2, <1>3, CategoriesFinite, TotalSingle DEF w
<1>6. QED
  BY <1>1, <1>4, <1>5 DEF w

(* Account by account and row by row give the same net worth.              *)
LEMMA NetWorthByRow ==
  ASSUME NEW t, IsFiniteSet(DOMAIN t), NEW day,
         \A i \in DOMAIN t : t[i] \in TxRow /\ RowValid(t[i])
  PROVE  NetWorth(t, Accounts, day)
           = Total([i \in InEffect(t, day) |-> Contract(t[i]).worth], InEffect(t, day))
<1> DEFINE S == InEffect(t, day)
           m == [a \in Accounts |-> [i \in S |-> GetBack(a, t[i].legs[a])]]
           r == [a \in Accounts |-> IF a \in Assets THEN Balance(t, a, day)
                                                    ELSE -Balance(t, a, day)]
           c == [i \in S |-> Worths(t[i])]
           k == [i \in S |-> Contract(t[i]).worth]
<1>1. S \subseteq DOMAIN t /\ IsFiniteSet(S) /\ IsFiniteSet(Accounts)
  <2>1. S \subseteq DOMAIN t
    BY DEF InEffect
  <2>2. QED
    BY <2>1, FS_Subset, CatalogAssumption
<1>2. \A i \in S : t[i] \in TxRow /\ RowValid(t[i])
  BY <1>1
<1>3. \A a \in Accounts : \A i \in S : m[a][i] \in Int /\ c[i][a] = m[a][i]
  <2>1. \A i \in S : \A a \in Accounts : t[i].legs[a] \in Int
    BY <1>2, RowTypes
  <2>2. QED
    BY <2>1 DEF Worths, GetBack
<1>4. \A i \in S : k[i] = Total(c[i], Accounts)
  BY <1>2, RowWorth
<1>5. ASSUME NEW a \in Accounts
      PROVE  r[a] = Total(m[a], S)
  <2> DEFINE w == [i \in S |-> t[i].legs[a]]
             v == m[a]
  <2>1. \A i \in S : w[i] \in Int /\ v[i] = GetBack(a, w[i])
    BY <1>2, RowTypes
  <2>2. DOMAIN w = S /\ Balance(t, a, day) = SumFunction(w)
    BY DEF Balance
  <2>3. r[a] = GetBack(a, Balance(t, a, day))
    BY DEF GetBack
  <2> HIDE DEF w, v, S, r, m
  <2>4. SumFunction(w) = Total(w, S)
    BY <1>1, <2>2, SumIsTotal
  <2>5. Total(w, S) \in Int
    BY <1>1, <2>1, TotalInt
  <2>6. CASE a \in Assets
    <3>1. \A i \in S : w[i] = v[i]
      BY <2>1, <2>6 DEF GetBack
    <3>2. Total(w, S) = Total(v, S)
      BY <1>1, <3>1, TotalSame
    <3>3. QED
      BY <2>2, <2>3, <2>4, <2>6, <3>2 DEF GetBack, v
  <2>7. CASE a \notin Assets
    <3>1. \A i \in S : v[i] = -w[i]
      BY <2>1, <2>7 DEF GetBack
    <3>2. Total(v, S) = -Total(w, S)
      BY <1>1, <2>1, <3>1, TotalNegative
    <3>3. QED
      BY <2>2, <2>3, <2>4, <2>7, <3>2 DEF GetBack, v
  <2>8. QED
    BY <2>6, <2>7
<1>6. DOMAIN r = Accounts /\ NetWorth(t, Accounts, day) = SumFunction(r)
  BY DEF NetWorth
<1> HIDE DEF S, m, r, c, k
<1>7. SumFunction(r) = Total(r, Accounts)
  BY <1>1, <1>6, SumIsTotal
<1>8. Total(r, Accounts) = Total(k, S)
  <2>1. \A i \in S : \A a \in Accounts : c[i][a] = m[a][i]
    BY <1>3
  <2>2. QED
    BY <1>1, <1>3, <1>4, <1>5, <2>1, TotalExchange
<1>9. QED
  BY <1>6, <1>7, <1>8 DEF k, S

(* The splits of one type, added up, are the amounts of its rows.          *)
LEMMA SplitsByRow ==
  ASSUME NEW t, IsFiniteSet(DOMAIN t), NEW day,
         \A i \in DOMAIN t : t[i] \in TxRow /\ RowValid(t[i]),
         NEW type \in {"EXPENSE", "INCOME", "REFUND"},
         NEW w, \A i \in InEffect(t, day) : w[i] = IF t[i].type = type THEN t[i].amount ELSE 0
  PROVE  SplitTotal(t, type, day) = Total(w, InEffect(t, day))
<1> DEFINE S == InEffect(t, day)
           R == {j \in S : t[j].type = type}
           v == [i \in R |-> SumFunction(t[i].splits)]
<1>1. S \subseteq DOMAIN t /\ IsFiniteSet(S)
  <2>1. S \subseteq DOMAIN t
    BY DEF InEffect
  <2>2. QED
    BY <2>1, FS_Subset
<1>2. R \in SUBSET S /\ IsFiniteSet(R)
  BY <1>1, FS_Subset
<1>3. SplitTotal(t, type, day) = SumFunction(v) /\ DOMAIN v = R
  BY DEF SplitTotal
<1>4. \A i \in S : t[i] \in TxRow /\ RowValid(t[i]) /\ w[i] \in Int
  BY <1>1, RowTypes
<1>5. \A i \in R : v[i] = w[i]
  BY <1>4, RowSplits
<1>6. \A i \in S \ R : w[i] = 0
  OBVIOUS
<1> HIDE DEF S, R, v
<1>7. SumFunction(v) = Total(v, R) /\ Total(v, R) = Total(w, R)
  BY <1>2, <1>3, <1>5, SumIsTotal, TotalSame
<1>8. Total(w, S) = Total(w, R)
  BY <1>1, <1>2, <1>4, <1>6, TotalRest
<1>9. QED
  BY <1>3, <1>7, <1>8 DEF S

(* The dashboard says what the contract says, for any accounts, categories *)
(* and number of entries, wherever the clock stands: it needs no more than *)
(* the shape of the rows.                                                  *)
LEMMA ShapesMakeFigures ==
  ASSUME TypeOK, RowsMatchType
  PROVE  DashboardFollowsContract
<1> DEFINE S == InEffect(tx, today)
           con == [i \in S |-> Contract(tx[i])]
           worth == [i \in S |-> Contract(tx[i]).worth]
           spent == [i \in S |-> Contract(tx[i]).spent]
           earned == [i \in S |-> Contract(tx[i]).earned]
           paid == [i \in S |-> IF tx[i].type = "EXPENSE" THEN tx[i].amount ELSE 0]
           back == [i \in S |-> IF tx[i].type = "REFUND" THEN tx[i].amount ELSE 0]
           less == [i \in S |-> -back[i]]
<1>1. IsFiniteSet(DOMAIN tx) /\ \A i \in DOMAIN tx : tx[i] \in TxRow /\ RowValid(tx[i])
  <2>1. DOMAIN tx \subseteq Slots /\ \A i \in DOMAIN tx : tx[i] \in TxRow
    BY DEF TypeOK, TxTypeOK
  <2>2. QED
    BY <2>1, SlotsAssumption, FS_Subset DEF RowsMatchType
<1>2. S \subseteq DOMAIN tx /\ IsFiniteSet(S)
  <2>1. S \subseteq DOMAIN tx
    BY DEF InEffect
  <2>2. QED
    BY <1>1, <2>1, FS_Subset
<1>3. /\ [i \in DOMAIN con |-> con[i].worth] = worth
      /\ [i \in DOMAIN con |-> con[i].spent] = spent
      /\ [i \in DOMAIN con |-> con[i].earned] = earned
      /\ DOMAIN worth = S /\ DOMAIN spent = S /\ DOMAIN earned = S
  OBVIOUS
<1>4. ASSUME NEW i \in S
      PROVE  /\ paid[i] \in Int /\ back[i] \in Int /\ less[i] = -back[i] /\ less[i] \in Int
             /\ spent[i] = paid[i] + less[i]
             /\ earned[i] = IF tx[i].type = "INCOME" THEN tx[i].amount ELSE 0
  <2>1. tx[i] \in TxRow
    BY <1>1, <1>2
  <2>2. tx[i].type \in Types /\ tx[i].amount \in Int
    BY <2>1, RowTypes
  <2>3. /\ spent[i] = Contract(tx[i]).spent /\ earned[i] = Contract(tx[i]).earned
        /\ paid[i] = IF tx[i].type = "EXPENSE" THEN tx[i].amount ELSE 0
        /\ back[i] = IF tx[i].type = "REFUND" THEN tx[i].amount ELSE 0
        /\ less[i] = -back[i]
    OBVIOUS
  <2> HIDE DEF spent, earned, paid, back, less
  <2>4. QED
    BY <2>2, <2>3, ContractIs DEF Types
<1>5. NetWorth(tx, Accounts, today) = Total(worth, S)
  BY <1>1, NetWorthByRow
<1>6. SplitTotal(tx, "EXPENSE", today) = Total(paid, S)
  <2>1. \A i \in S : paid[i] = IF tx[i].type = "EXPENSE" THEN tx[i].amount ELSE 0
    OBVIOUS
  <2> HIDE DEF paid
  <2>2. QED
    BY <1>1, <2>1, SplitsByRow
<1>7. SplitTotal(tx, "REFUND", today) = Total(back, S)
  <2>1. \A i \in S : back[i] = IF tx[i].type = "REFUND" THEN tx[i].amount ELSE 0
    OBVIOUS
  <2> HIDE DEF back
  <2>2. QED
    BY <1>1, <2>1, SplitsByRow
<1>8. SplitTotal(tx, "INCOME", today) = Total(earned, S)
  <2> HIDE DEF earned
  <2>1. QED
    BY <1>1, <1>4, SplitsByRow
<1> HIDE DEF S, con, worth, spent, earned, paid, back, less
<1>9. Total(spent, S) = Total(paid, S) + Total(less, S)
  BY <1>2, <1>4, TotalPlus
<1>10. Total(less, S) = -Total(back, S)
  BY <1>2, <1>4, TotalNegative
<1>11. /\ SumFunction(worth) = Total(worth, S) /\ SumFunction(spent) = Total(spent, S)
       /\ SumFunction(earned) = Total(earned, S)
  BY <1>2, <1>3, SumIsTotal
<1>12. Total(paid, S) \in Int /\ Total(back, S) \in Int
  BY <1>2, <1>4, TotalInt
<1>13. Spending(tx, today) = SumFunction(spent)
  BY <1>6, <1>7, <1>9, <1>10, <1>11, <1>12 DEF Spending
<1>14. /\ NetWorth(tx, Accounts, today) = SumFunction(worth)
       /\ Income(tx, today) = SumFunction(earned)
  BY <1>5, <1>8, <1>11 DEF Income
<1>15. QED
  BY <1>3, <1>13, <1>14 DEF DashboardFollowsContract, con, S

(* Net worth, spending and income on the dashboard are what the contract   *)
(* of tool/reference_financial_audit says the entries in effect do, after  *)
(* any sequence of operations.                                             *)
THEOREM FiguresFollowContract == Spec => []DashboardFollowsContract
<1>1. TypeOK /\ RowsMatchType => DashboardFollowsContract
  BY ShapesMakeFigures
<1>2. QED
  BY <1>1, TypeCorrect, RowsAreValid, PTL

-----------------------------------------------------------------------------
(* The inductive invariant: no member of a group is a draft.  Without it,  *)
(* posting one member would tear the group's statuses apart.               *)
GroupsReady(t) ==
  /\ GroupsValid(t)
  /\ \A i \in DOMAIN t : t[i].group # None => t[i].status # "DRAFT"

(* What GroupsValid says of one member of a group.                         *)
LEMMA MemberFacts ==
  ASSUME NEW t, GroupsReady(t), NEW i \in DOMAIN t, t[i].group # None
  PROVE  LET g == t[i].group IN
         /\ g \in DOMAIN t /\ t[g].group = g
         /\ t[g].type \in {"TRANSFER", "LOAN_PAYMENT"}
         /\ t[i].status = t[g].status
         /\ i # g => t[i].type = "EXPENSE"
         /\ Members(t, g) = {j \in DOMAIN t : t[j].group = g}
<1> DEFINE g == t[i].group
<1>1. /\ g \in DOMAIN t /\ t[g].group = g
      /\ t[g].type \in {"TRANSFER", "LOAN_PAYMENT"}
      /\ t[i].status = t[g].status
      /\ i # g => t[i].type = "EXPENSE"
  BY DEF GroupsReady, GroupsValid
<1>2. Members(t, g) = {j \in DOMAIN t : t[j].group = g}
  BY <1>1 DEF Members
<1>3. QED
  BY <1>1, <1>2

(* Rows outside groups come, go and change: no group notices.              *)
LEMMA SinglesKeepGroups ==
  ASSUME NEW t, NEW u, GroupsReady(t), None \notin DOMAIN t,
         \A j \in DOMAIN t : t[j].group # None => j \in DOMAIN u /\ u[j] = t[j],
         \A j \in DOMAIN u : \/ j \in DOMAIN t /\ u[j] = t[j]
                             \/ u[j].group = None /\ u[j].type # "LOAN_PAYMENT"
  PROVE  GroupsReady(u)
<1>1. ASSUME NEW i \in DOMAIN u, u[i].group # None
      PROVE  /\ i \in DOMAIN t /\ u[i] = t[i]
             /\ t[i].group \in DOMAIN u /\ u[t[i].group] = t[t[i].group]
             /\ Members(u, t[i].group) = Members(t, t[i].group)
  <2>1. i \in DOMAIN t /\ u[i] = t[i]
    BY <1>1
  <2> DEFINE g == t[i].group
  <2>2. g # None /\ g \in DOMAIN t /\ t[g].group = g
    BY <1>1, <2>1, MemberFacts
  <2> HIDE DEF g
  <2>3. g \in DOMAIN u /\ u[g] = t[g]
    BY <2>2
  <2>4. {j \in DOMAIN u : u[j].group = g} = {j \in DOMAIN t : t[j].group = g}
    BY <2>2
  <2>5. Members(u, g) = Members(t, g)
    BY <2>2, <2>3, <2>4 DEF Members
  <2>6. QED
    BY <2>1, <2>3, <2>5 DEF g
<1>2. ASSUME NEW i \in DOMAIN u, u[i].group = None
      PROVE  u[i].type # "LOAN_PAYMENT"
  <2>1. CASE i \in DOMAIN t /\ u[i] = t[i]
    <3>1. t[i].type = "LOAN_PAYMENT" => t[i].group = i
      BY <2>1 DEF GroupsReady, GroupsValid
    <3>2. QED
      BY <1>2, <2>1, <3>1
  <2>2. QED
    BY <1>2, <2>1
<1>3. GroupsValid(u)
  BY <1>1, <1>2 DEF GroupsReady, GroupsValid
<1>4. QED
  BY <1>1, <1>3 DEF GroupsReady

(* A whole group is added under a new name.                                *)
LEMMA AddGroup ==
  ASSUME NEW t, NEW rows, GroupsReady(t), NEW i \in DOMAIN rows, i # None,
         DOMAIN rows \cap DOMAIN t = {}, rows[i].type \in {"TRANSFER", "LOAN_PAYMENT"},
         \A j \in DOMAIN rows : /\ rows[j].group = i
                                /\ rows[j].status = "POSTED"
                                /\ j # i => rows[j].type = "EXPENSE",
         rows[i].type = "TRANSFER" => Cardinality(DOMAIN rows) = 2,
         rows[i].type = "LOAN_PAYMENT" => Cardinality(DOMAIN rows) \in 1 .. 3
  PROVE  GroupsReady(Insert(t, rows))
<1> DEFINE u == Insert(t, rows)
<1>0. /\ DOMAIN u = DOMAIN t \cup DOMAIN rows
      /\ \A j \in DOMAIN rows : u[j] = rows[j]
      /\ \A j \in DOMAIN t : u[j] = t[j]
  BY DEF Insert
<1> HIDE DEF u
<1>1. \A j \in DOMAIN t : t[j].group # i
  BY MemberFacts
<1>2. {j \in DOMAIN u : u[j].group = i} = DOMAIN rows
  <2>1. \A j \in DOMAIN t : u[j].group # i
    BY <1>0, <1>1
  <2>2. \A j \in DOMAIN rows : u[j].group = i
    BY <1>0
  <2>3. QED
    BY <1>0, <2>1, <2>2
<1>3. Members(u, i) = DOMAIN rows
  BY <1>0, <1>2 DEF Members
<1>4. ASSUME NEW j \in DOMAIN t, t[j].group # None
      PROVE  /\ t[j].group \in DOMAIN t
             /\ Members(u, t[j].group) = Members(t, t[j].group)
  <2> DEFINE g == t[j].group
  <2>1. g # None /\ g \in DOMAIN t /\ t[g].group = g /\ g # i
    BY <1>4, MemberFacts
  <2> HIDE DEF g
  <2>2. {k \in DOMAIN u : u[k].group = g} = {k \in DOMAIN t : t[k].group = g}
    BY <1>0, <2>1
  <2>3. Members(u, g) = Members(t, g)
    BY <1>0, <2>1, <2>2 DEF Members
  <2>4. QED
    BY <2>1, <2>3 DEF g
<1>5. GroupsValid(u)
  BY <1>0, <1>3, <1>4 DEF GroupsReady, GroupsValid
<1>6. GroupsReady(u)
  BY <1>0, <1>5 DEF GroupsReady
<1>7. QED
  BY <1>6 DEF u

(* Every member of a group is voided.                                      *)
LEMMA VoidGroup ==
  ASSUME NEW t, t \in [DOMAIN t -> TxRow], GroupsReady(t), NEW i \in DOMAIN t
  PROVE  GroupsReady([j \in DOMAIN t |-> IF j \in Members(t, i)
                                         THEN [t[j] EXCEPT !.status = "VOIDED"]
                                         ELSE t[j]])
<1> DEFINE u == [j \in DOMAIN t |-> IF j \in Members(t, i)
                                    THEN [t[j] EXCEPT !.status = "VOIDED"]
                                    ELSE t[j]]
<1>0. /\ DOMAIN u = DOMAIN t
      /\ \A j \in DOMAIN t : /\ u[j].group = t[j].group
                             /\ u[j].type = t[j].type
                             /\ u[j].status = IF j \in Members(t, i) THEN "VOIDED"
                                              ELSE t[j].status
  BY DEF TxRow
<1> HIDE DEF u
<1>1. \A j \in DOMAIN t : Members(u, j) = Members(t, j)
  BY <1>0 DEF Members
<1>2. ASSUME NEW j \in DOMAIN t, t[j].group # None
      PROVE  j \in Members(t, i) <=> t[j].group \in Members(t, i)
  <2>1. t[t[j].group].group = t[j].group /\ t[j].group \in DOMAIN t
    BY <1>2, MemberFacts
  <2>2. CASE t[i].group = None
    BY <1>2, <2>1, <2>2 DEF Members
  <2>3. CASE t[i].group # None
    BY <2>1, <2>3 DEF Members
  <2>4. QED
    BY <2>2, <2>3
<1>3. GroupsValid(u)
  BY <1>0, <1>1, <1>2 DEF GroupsReady, GroupsValid
<1>4. GroupsReady(u)
  BY <1>0, <1>3 DEF GroupsReady
<1>5. QED
  BY <1>4 DEF u

(* Every member of a group is deleted, with their refunds: a refund is in  *)
(* no group, so nothing else of a group goes.                              *)
LEMMA DeleteGroup ==
  ASSUME NEW t, GroupsReady(t), NEW i \in DOMAIN t,
         NEW gone, gone \subseteq Members(t, i) \cup {r \in DOMAIN t : t[r].type = "REFUND"},
         Members(t, i) \subseteq gone
  PROVE  GroupsReady(Remove(t, gone))
<1> DEFINE u == Remove(t, gone)
<1>0. /\ DOMAIN u = DOMAIN t \ gone
      /\ \A j \in DOMAIN u : u[j] = t[j]
  BY DEF Remove
<1> HIDE DEF u
<1>1. ASSUME NEW j \in DOMAIN t, t[j].group # None
      PROVE  j \in gone <=> t[j].group = t[i].group
  <2>1. t[j].type # "REFUND" /\ t[t[j].group].group = t[j].group
    BY <1>1, MemberFacts
  <2>2. j \in gone <=> j \in Members(t, i)
    BY <2>1
  <2>3. QED
    BY <1>1, <2>2 DEF Members
<1>2. ASSUME NEW j \in DOMAIN u, u[j].group # None
      PROVE  /\ j \in DOMAIN t /\ u[j] = t[j]
             /\ t[j].group \in DOMAIN u
             /\ Members(u, t[j].group) = Members(t, t[j].group)
  <2> DEFINE g == t[j].group
  <2>1. j \in DOMAIN t /\ j \notin gone /\ u[j] = t[j] /\ g # None
    BY <1>0, <1>2
  <2>2. g # t[i].group
    BY <1>1, <2>1
  <2>3. g \in DOMAIN t /\ t[g].group = g
    BY <2>1, MemberFacts
  <2> HIDE DEF g
  <2>4. \A k \in DOMAIN t : t[k].group = g => k \notin gone
    BY <1>1, <2>1, <2>2
  <2>5. {k \in DOMAIN u : u[k].group = g} = {k \in DOMAIN t : t[k].group = g}
    BY <1>0, <2>4
  <2>6. g \in DOMAIN u /\ u[g] = t[g]
    BY <1>0, <2>3, <2>4
  <2>7. Members(u, g) = Members(t, g)
    BY <2>1, <2>3, <2>5, <2>6 DEF Members
  <2>8. QED
    BY <2>1, <2>6, <2>7 DEF g
<1>3. GroupsValid(u)
  BY <1>0, <1>2 DEF GroupsReady, GroupsValid
<1>4. GroupsReady(u)
  BY <1>0, <1>3 DEF GroupsReady
<1>5. QED
  BY <1>4 DEF u

-----------------------------------------------------------------------------
(* The actions.                                                            *)

TxGroupsReady == GroupsReady(tx)

LEMMA IdsAreNotNone == TypeOK => None \notin DOMAIN tx /\ None \notin Free
BY NoneAssumption DEF TypeOK, TxTypeOK, Free

(* Rows outside groups are inserted.                                       *)
LEMMA InsertSingles ==
  ASSUME TypeOK, TxGroupsReady, NEW new, DOMAIN new \subseteq Free,
         \A j \in DOMAIN new : new[j].group = None /\ new[j].type # "LOAN_PAYMENT",
         tx' = Insert(tx, new)
  PROVE  TxGroupsReady'
<1>1. /\ \A j \in DOMAIN tx : j \in DOMAIN tx' /\ tx'[j] = tx[j]
      /\ \A j \in DOMAIN tx' : \/ j \in DOMAIN tx /\ tx'[j] = tx[j]
                               \/ tx'[j].group = None /\ tx'[j].type # "LOAN_PAYMENT"
  BY DEF Insert, Free
<1>2. QED
  BY <1>1, IdsAreNotNone, SinglesKeepGroups DEF TxGroupsReady

LEMMA InsertSingle ==
  ASSUME TypeOK, TxGroupsReady, NEW i \in Free, NEW row,
         row.group = None, row.type # "LOAN_PAYMENT",
         tx' = Insert(tx, [j \in {i} |-> row])
  PROVE  TxGroupsReady'
<1> DEFINE new == [j \in {i} |-> row]
<1>1. DOMAIN new \subseteq Free /\ \A j \in DOMAIN new : new[j] = row
  OBVIOUS
<1>2. tx' = Insert(tx, new)
  OBVIOUS
<1> HIDE DEF new
<1>3. QED
  BY <1>1, <1>2, InsertSingles

LEMMA RecordGroups ==
  ASSUME TypeOK, TxGroupsReady, NEW i \in Free, Record(i)
  PROVE  TxGroupsReady'
<1>1. PICK n \in Amounts, date \in Dates :
         \/ \E s \in {"POSTED", "DRAFT"}, a \in Accounts, c \in Categories :
              CreateExpense(i, s, n, date, a, c) \/ CreateIncome(i, s, n, date, a, c)
         \/ \E a, b \in Accounts :
              \/ CreateTransfer(i, n, date, a, b)
              \/ CreateCreditCardPayment(i, n, date, a, b)
              \/ CreateLoanDisbursement(i, n, date, a, b)
         \/ \E a \in Accounts, o \in DOMAIN tx : CreateRefund(i, o, n, date, a)
         \/ \E a \in Accounts, c \in ExpenseCategories, b \in Bills :
              PayBill(b, i, n, date, a, c)
  BY DEF Record
<1> DEFINE Added(row) == tx' = Insert(tx, [j \in {i} |-> row])
<1>2. PICK row : Added(row) /\ row.group = None /\ row.type # "LOAN_PAYMENT"
  <2>1. ASSUME NEW s, NEW a, NEW c,
               CreateExpense(i, s, n, date, a, c) \/ CreateIncome(i, s, n, date, a, c)
        PROVE  \E row : Added(row) /\ row.group = None /\ row.type # "LOAN_PAYMENT"
    <3>1. Added(ExpenseRow(s, n, date, a, c)) \/ Added(IncomeRow(s, n, date, a, c))
      BY <2>1 DEF CreateExpense, CreateIncome
    <3>2. \A x \in {ExpenseRow(s, n, date, a, c), IncomeRow(s, n, date, a, c)} :
             x.group = None /\ x.type # "LOAN_PAYMENT"
      BY DEF ExpenseRow, IncomeRow, Transaction
    <3> HIDE DEF Added
    <3>3. QED
      BY <3>1, <3>2
  <2>2. ASSUME NEW a, NEW b,
               \/ CreateTransfer(i, n, date, a, b)
               \/ CreateCreditCardPayment(i, n, date, a, b)
               \/ CreateLoanDisbursement(i, n, date, a, b)
        PROVE  \E row : Added(row) /\ row.group = None /\ row.type # "LOAN_PAYMENT"
    <3>1. \E type \in {"TRANSFER", "CREDIT_CARD_PAYMENT", "LOAN_DISBURSEMENT"} : \E legs :
            Added(Transaction(type, "POSTED", n, date, legs, NoSplit))
      BY <2>2 DEF CreateTransfer, TransferRow, CreateCreditCardPayment, CreateLoanDisbursement
    <3>2. \A type, legs :
            /\ Transaction(type, "POSTED", n, date, legs, NoSplit).group = None
            /\ Transaction(type, "POSTED", n, date, legs, NoSplit).type = type
      BY DEF Transaction
    <3> HIDE DEF Added
    <3>3. QED
      BY <3>1, <3>2
  <2>3. ASSUME NEW a, NEW o, CreateRefund(i, o, n, date, a)
        PROVE  \E row : Added(row) /\ row.group = None /\ row.type # "LOAN_PAYMENT"
    <3>1. Added(RefundRow(o, n, date, a))
      BY <2>3 DEF CreateRefund
    <3>2. RefundRow(o, n, date, a).group = None /\ RefundRow(o, n, date, a).type = "REFUND"
      BY DEF RefundRow, Transaction
    <3> HIDE DEF Added
    <3>3. QED
      BY <3>1, <3>2
  <2>4. ASSUME NEW a, NEW c, NEW b, PayBill(b, i, n, date, a, c)
        PROVE  \E row : Added(row) /\ row.group = None /\ row.type # "LOAN_PAYMENT"
    <3>1. Added(ExpenseRow("POSTED", n, date, a, c))
      BY <2>4 DEF PayBill
    <3>2. /\ ExpenseRow("POSTED", n, date, a, c).group = None
          /\ ExpenseRow("POSTED", n, date, a, c).type = "EXPENSE"
      BY DEF ExpenseRow, Transaction
    <3> HIDE DEF Added
    <3>3. QED
      BY <3>1, <3>2
  <2> HIDE DEF Added
  <2>5. QED
    BY <1>1, <2>1, <2>2, <2>3, <2>4
<1>3. QED
  BY <1>2, InsertSingle

LEMMA AdjustGroups ==
  ASSUME TypeOK, TxGroupsReady, NEW i \in Free, Adjust(i)
  PROVE  TxGroupsReady'
<1>1. PICK n, date, a, delta :
        tx' = Insert(tx, [j \in {i} |->
                Transaction("ADJUSTMENT", "POSTED", n, date, OneLeg(a, delta), NoSplit)])
  BY DEF Adjust, ReconcileAccount
<1> DEFINE row == Transaction("ADJUSTMENT", "POSTED", n, date, OneLeg(a, delta), NoSplit)
<1>2. row.group = None /\ row.type # "LOAN_PAYMENT"
  BY DEF Transaction
<1>3. tx' = Insert(tx, [j \in {i} |-> row])
  BY <1>1
<1> HIDE DEF row
<1>4. QED
  BY <1>2, <1>3, InsertSingle

(* A transfer with its fee is a pair, a loan payment has at most two       *)
(* children.                                                               *)
LEMMA RecordGroupGroups ==
  ASSUME TypeOK, TxGroupsReady, NEW i \in Free, RecordGroup(i)
  PROVE  TxGroupsReady'
<1>0. i # None /\ Free \cap DOMAIN tx = {} /\ IsFiniteSet(Free)
  BY IdsAreNotNone, SlotsAssumption, FS_Subset DEF Free
<1>1. ASSUME NEW n \in Amounts, NEW date, NEW a, NEW b, NEW k \in Free, NEW fee \in Amounts,
             CreateTransferWithFee(i, k, n, fee, date, a, b)
      PROVE  TxGroupsReady'
  <2> DEFINE rows == [j \in {i, k} |-> IF j = i THEN TransferRow(n, date, a, b)
                                       ELSE ExpenseRow("POSTED", fee, date, a, TransferFee)]
             new == Grouped(rows, i)
  <2>1. i # k /\ tx' = Insert(tx, new)
    BY <1>1 DEF CreateTransferWithFee
  <2>2. DOMAIN new = {i, k}
    BY DEF Grouped
  <2>3. /\ \A j \in DOMAIN new : new[j].group = i /\ new[j].status = "POSTED"
        /\ new[i].type = "TRANSFER"
        /\ \A j \in DOMAIN new : j # i => new[j].type = "EXPENSE"
    BY <2>1 DEF Grouped, TransferRow, ExpenseRow, Transaction
  <2>4. Cardinality({i, k}) = 2
    <3>1. {i, k} = {i} \cup {k} /\ k \notin {i} /\ IsFiniteSet({i}) /\ Cardinality({i}) = 1
      BY <2>1, FS_Singleton
    <3>2. Cardinality({i} \cup {k}) = Cardinality({i}) + 1
      BY <3>1, FS_AddElement
    <3>3. QED
      BY <3>1, <3>2
  <2> HIDE DEF new
  <2>5. QED
    BY <1>0, <2>1, <2>2, <2>3, <2>4, AddGroup DEF TxGroupsReady
<1>2. ASSUME NEW n \in Amounts, NEW date, NEW a, NEW b,
             NEW c \in ExpenseCategories, NEW ids \in SUBSET (Free \ {i}), Cardinality(ids) =< 2,
             NEW children \in [ids -> Amounts],
             CreateLoanPayment(i, children, n, date, a, b, c)
      PROVE  TxGroupsReady'
  <2> DEFINE rows == [j \in {i} \cup DOMAIN children |->
                        IF j = i
                        THEN Transaction("LOAN_PAYMENT", "POSTED", n, date,
                                         TwoLegs(a, -n, b, -n), NoSplit)
                        ELSE ExpenseRow("POSTED", children[j], date, a, c)]
             new == Grouped(rows, i)
  <2>1. tx' = Insert(tx, new)
    BY <1>2 DEF CreateLoanPayment
  <2>2. DOMAIN new = ids \cup {i}
    BY DEF Grouped
  <2>3. /\ \A j \in DOMAIN new : new[j].group = i /\ new[j].status = "POSTED"
        /\ new[i].type = "LOAN_PAYMENT"
        /\ \A j \in DOMAIN new : j # i => new[j].type = "EXPENSE"
    BY DEF Grouped, ExpenseRow, Transaction
  <2>4. Cardinality(ids \cup {i}) \in 1 .. 3
    <3>1. IsFiniteSet(ids) /\ i \notin ids
      BY <1>0, FS_Subset
    <3>2. Cardinality(ids) \in Nat
      BY <3>1, FS_CardinalityType
    <3>3. Cardinality(ids \cup {i}) = Cardinality(ids) + 1
      BY <3>1, FS_AddElement
    <3>4. QED
      BY <1>2, <3>2, <3>3
  <2>5. DOMAIN new \subseteq Free
    BY <2>2
  <2> HIDE DEF new
  <2>6. QED
    BY <1>0, <2>1, <2>2, <2>3, <2>4, <2>5, AddGroup DEF TxGroupsReady
<1>3. QED
  BY <1>1, <1>2 DEF RecordGroup

LEMMA ChangeGroups ==
  ASSUME TypeOK, TxGroupsReady, NEW i \in DOMAIN tx, Change(i)
  PROVE  TxGroupsReady'
<1>0. tx \in [DOMAIN tx -> TxRow] /\ None \notin DOMAIN tx
  BY IdsAreNotNone DEF TypeOK, TxTypeOK
<1>1. ASSUME NEW n, NEW date, NEW a, NEW c, UpdateSimpleTransaction(i, n, date, a, c)
      PROVE  TxGroupsReady'
  <2> DEFINE row == EditedRow(i, n, date, a, c)
  <2>1. row.group = None /\ row.type # "LOAN_PAYMENT"
    BY DEF EditedRow, ExpenseRow, IncomeRow, Transaction
  <2>2. tx' = [tx EXCEPT ![i] = row] /\ tx[i].group = None
    BY <1>1 DEF UpdateSimpleTransaction
  <2> HIDE DEF row
  <2>3. QED
    BY <1>0, <2>1, <2>2, SinglesKeepGroups DEF TxGroupsReady
<1>2. ASSUME PostDraftTransaction(i)
      PROVE  TxGroupsReady'
  <2>1. tx[i].group = None /\ tx[i].type # "LOAN_PAYMENT"
    BY <1>2 DEF PostDraftTransaction, TxGroupsReady, GroupsReady
  <2> DEFINE row == [tx[i] EXCEPT !.status = "POSTED"]
  <2>2. row.group = None /\ row.type # "LOAN_PAYMENT"
    BY <1>0, <2>1 DEF TxRow
  <2>3. tx' = [tx EXCEPT ![i] = row]
    BY <1>2 DEF PostDraftTransaction
  <2> HIDE DEF row
  <2>4. QED
    BY <1>0, <2>1, <2>2, <2>3, SinglesKeepGroups DEF TxGroupsReady
<1>3. ASSUME DeleteTransaction(i)
      PROVE  TxGroupsReady'
  <2> DEFINE gone == RemovedWith(Members(tx, i))
  <2>1. /\ gone \subseteq Members(tx, i) \cup {r \in DOMAIN tx : tx[r].type = "REFUND"}
        /\ Members(tx, i) \subseteq gone
    BY DEF RemovedWith, RefundsOf
  <2>2. tx' = Remove(tx, gone)
    BY <1>3 DEF DeleteTransaction
  <2> HIDE DEF gone
  <2>3. QED
    BY <2>1, <2>2, DeleteGroup DEF TxGroupsReady
<1>4. ASSUME VoidTransaction(i)
      PROVE  TxGroupsReady'
  BY <1>0, <1>4, VoidGroup DEF VoidTransaction, TxGroupsReady
<1>5. QED
  BY <1>1, <1>2, <1>3, <1>4 DEF Change

LEMMA CreateAccountGroups ==
  ASSUME TypeOK, TxGroupsReady, NEW a \in Accounts, CreateAccount(a)
  PROVE  TxGroupsReady'
<1>1. CASE tx' = tx
  BY <1>1 DEF TxGroupsReady
<1>2. ASSUME NEW i \in Free, NEW n \in Amounts,
             tx' = Insert(tx, [j \in {i} |->
                     Transaction("OPENING_BALANCE", "POSTED", n, today, OneLeg(a, n), NoSplit)])
      PROVE  TxGroupsReady'
  <2> DEFINE row == Transaction("OPENING_BALANCE", "POSTED", n, today, OneLeg(a, n), NoSplit)
  <2>1. row.group = None /\ row.type # "LOAN_PAYMENT"
    BY DEF Transaction
  <2>2. tx' = Insert(tx, [j \in {i} |-> row])
    BY <1>2
  <2> HIDE DEF row
  <2>3. QED
    BY <2>1, <2>2, InsertSingle
<1>3. QED
  BY <1>1, <1>2 DEF CreateAccount

(* The drafts of the recurring rules stand alone.                          *)
LEMMA RunRecurringGroups ==
  ASSUME TypeOK, TxGroupsReady, RunRecurring
  PROVE  TxGroupsReady'
<1>1. PICK early, moved, done :
        \E slot \in FreshSlots(Unmade(done)) : GenerateDueRecurring(done, moved, early, slot)
  BY DEF RunRecurring
<1>2. PICK slot \in FreshSlots(Unmade(done)) :
        GenerateDueRecurring(done, moved, early, slot)
  BY <1>1
<1> DEFINE ids == {slot[k] : k \in DOMAIN slot}
           keyOf(i) == CHOOSE k \in DOMAIN slot : slot[k] = i
           new == [i \in ids |-> DraftFor(keyOf(i))]
<1>3. DOMAIN new \subseteq Free
  BY DEF FreshSlots
<1>4. \A k : DraftFor(k).group = None /\ DraftFor(k).type # "LOAN_PAYMENT"
  BY DEF DraftFor, ExpenseRow, Transaction
<1>5. \A i \in DOMAIN new : new[i].group = None /\ new[i].type # "LOAN_PAYMENT"
  <2> HIDE DEF keyOf, ids
  <2>1. QED
    BY <1>4
<1>6. tx' = Insert(tx, new)
  BY <1>2 DEF GenerateDueRecurring
<1> HIDE DEF new
<1>7. QED
  BY <1>3, <1>5, <1>6, InsertSingles

-----------------------------------------------------------------------------
LEMMA NextGroups ==
  ASSUME TypeOK, TxGroupsReady, [Next]_vars
  PROVE  TxGroupsReady'
<1>1. ASSUME \/ \E a \in Accounts : ArchiveAccount(a)
             \/ \E c \in Categories : ArchiveCategory(c)
             \/ \E b \in Budgets : CreateBudget(b) \/ ArchiveBudget(b)
             \/ \E b \in Bills : SkipBill(b) \/ \E due \in Dates : CreateBill(b, due)
             \/ ListBills \/ ChangeRule \/ \E d \in Dates : SetClock(d)
      PROVE  tx' = tx
  BY <1>1 DEF ArchiveAccount, ArchiveCategory, CreateBudget, ArchiveBudget, SkipBill,
              CreateBill, ListBills, ChangeRule, SetRecurringActive,
              CreateRecurringExpenseDraft, SetClock
<1>2. ASSUME UNCHANGED vars
      PROVE  tx' = tx
  BY <1>2 DEF vars
<1>3. ASSUME tx' = tx
      PROVE  TxGroupsReady'
  BY <1>3 DEF TxGroupsReady
<1>4. ASSUME WipeLocalFinanceData
      PROVE  TxGroupsReady'
  BY <1>4 DEF WipeLocalFinanceData, Empty, TxGroupsReady, GroupsReady, GroupsValid
<1>5. QED
  BY <1>1, <1>2, <1>3, <1>4, RecordGroups, RecordGroupGroups, AdjustGroups, ChangeGroups,
     CreateAccountGroups, RunRecurringGroups
     DEF Next, ChangeCatalog, ChangeBill

(* Whatever is edited, posted, refunded, voided or deleted, the members of *)
(* a composite transaction exist together, with one status, under their    *)
(* primary, in the number its kind allows.                                 *)
THEOREM GroupsStayWhole == Spec => []GroupsAllOrNothing
<1>1. Init => TxGroupsReady
  BY DEF Init, Empty, TxGroupsReady, GroupsReady, GroupsValid
<1>2. TypeOK /\ TxGroupsReady /\ [Next]_vars => TxGroupsReady'
  BY NextGroups
<1>3. TxGroupsReady => GroupsAllOrNothing
  BY DEF TxGroupsReady, GroupsReady, GroupsAllOrNothing
<1>4. QED
  BY <1>1, <1>2, <1>3, TypeCorrect, PTL DEF Spec
=============================================================================
