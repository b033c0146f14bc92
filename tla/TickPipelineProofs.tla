-------------------------- MODULE TickPipelineProofs --------------------------
(***************************************************************************)
(* Theorems about TickPipeline, for any instruments, timeframes, prices,   *)
(* times and volumes, any bucket size and any number of restarts: types,   *)
(* the prices that orders see, the volume in profile and bars, the bars    *)
(* the strategy engine gets and the value area.                            *)
(***************************************************************************)
EXTENDS TickPipeline, FiniteSetTheorems, WellFoundedInduction, TLAPS

(* Numbers.  Every set of natural numbers that is not empty has a least member. *)
LEMMA LeastNatural ==
  ASSUME NEW T \in SUBSET Nat, T # {}
  PROVE  \E n \in T : \A m \in T : n <= m
<1> DEFINE R == {p \in Nat \X Nat : p[1] < p[2]}
<1>1. IsWellFoundedOn(R, Nat) BY NatLessThanWellFounded DEF OpToRel
<1>2. PICK n \in T : \A m \in T : <<m, n>> \notin R BY <1>1, WFMin
<1>3. \A m \in T : ~(m < n) BY <1>2
<1>. QED BY <1>3


(* A set of finite sets that is not empty has a member of the least number of elements. *)
LEMMA Smallest ==
  ASSUME NEW S, IsFiniteSet(S), NEW F \in SUBSET (SUBSET S), F # {}
  PROVE  \E s \in F : \A r \in F : Cardinality(s) <= Cardinality(r)
<1>. DEFINE T == {Cardinality(s) : s \in F}
<1>1. \A s \in F : Cardinality(s) \in Nat BY FS_Subset, FS_CardinalityType
<1>2. T \in SUBSET Nat /\ T # {} BY <1>1
<1>. HIDE DEF T
<1>3. PICK n \in T : \A m \in T : n <= m BY <1>2, LeastNatural
<1>4. PICK s \in F : n = Cardinality(s) BY <1>3 DEF T
<1>. QED BY <1>3, <1>4 DEF T

LEMMA Smaller ==
  ASSUME NEW S, IsFiniteSet(S), NEW s \in SUBSET S, NEW x \in s
  PROVE  s \ {x} \in SUBSET S /\ ~(Cardinality(s) <= Cardinality(s \ {x}))
<1>1. IsFiniteSet(s) BY FS_Subset
<1>2. Cardinality(s) \in Nat /\ Cardinality(s \ {x}) = Cardinality(s) - 1
  BY <1>1, FS_CardinalityType, FS_RemoveElement
<1>. QED BY <1>2

LEMMA LeastIs ==
  ASSUME NEW S \in SUBSET Nat, S # {}
  PROVE  Min(S) \in S /\ \A y \in S : Min(S) <= y
<1>1. \E x \in S : \A y \in S : x <= y BY LeastNatural
<1>. QED BY <1>1 DEF Min

(* Of finitely many natural numbers one is the largest. *)
LEMMA LargestNatural ==
  ASSUME NEW S, IsFiniteSet(S), S # {}, S \subseteq Nat
  PROVE  \E x \in S : \A y \in S : y <= x
<1>. DEFINE Has(s) == \E x \in s : \A y \in s : y <= x
            F == {s \in SUBSET S : s # {} /\ ~Has(s)}
<1>. SUFFICES ASSUME F # {} PROVE FALSE OBVIOUS
<1>1. PICK s \in F : \A r \in F : Cardinality(s) <= Cardinality(r)
  <2>. HIDE DEF Has
  <2>1. F \in SUBSET (SUBSET S) OBVIOUS
  <2>. HIDE DEF F
  <2>. QED BY <2>1, Smallest
<1>2. s \in SUBSET S /\ s # {} /\ ~Has(s) OBVIOUS
<1>3. PICK x \in s : TRUE BY <1>2
<1>4. s \ {x} \in SUBSET S /\ ~(Cardinality(s) <= Cardinality(s \ {x})) BY <1>2, Smaller
<1>5. s \ {x} \notin F
  <2>. HIDE DEF F, Has
  <2>. QED BY <1>1, <1>4
<1>6. CASE s \ {x} = {}
  <2>1. \A y \in s : y <= x BY <1>2, <1>6
  <2>. QED BY <1>2, <1>3, <2>1
<1>7. CASE s \ {x} # {}
  <2>1. PICK z \in s \ {x} : \A y \in s \ {x} : y <= z BY <1>4, <1>5, <1>7
  <2>2. x \in Nat /\ z \in Nat /\ \A y \in s : y \in Nat BY <1>2
  <2>3. CASE x <= z BY <1>2, <2>1, <2>2, <2>3
  <2>4. CASE ~(x <= z)
    <3>1. \A y \in s : y <= x BY <2>1, <2>2, <2>4
    <3>. QED BY <1>2, <3>1
  <2>. QED BY <2>3, <2>4
<1>. QED BY <1>6, <1>7

LEMMA LargestIs ==
  ASSUME NEW S, IsFiniteSet(S), S # {}, S \subseteq Nat
  PROVE  Max(S) \in S /\ \A y \in S : y <= Max(S)
<1>1. \E x \in S : \A y \in S : x >= y BY LargestNatural
<1>2. Max(S) \in S /\ \A y \in S : Max(S) >= y BY <1>1 DEF Max
<1>3. \A y \in S : y \in Nat OBVIOUS
<1>. QED BY <1>2, <1>3

(* Division: what it rounds down to, and its multiples. *)
LEMMA Rounded ==
  ASSUME NEW m \in Int, NEW f \in Nat \ {0}
  PROVE  /\ m \div f \in Int /\ (m \div f) * f \in Int
         /\ (m \div f) * f <= m /\ m < (m \div f) * f + f
         /\ m \in Nat => m \div f \in Nat /\ (m \div f) * f \in Nat
OBVIOUS

LEMMA RoundedMonotone ==
  ASSUME NEW m \in Int, NEW n \in Int, NEW f \in Nat \ {0}, m <= n
  PROVE  (m \div f) * f <= (n \div f) * f
<1>1. m \div f <= n \div f OBVIOUS
<1>2. \A i, j \in Int : i <= j => i * f <= j * f OBVIOUS
<1>. QED BY <1>1, <1>2, Rounded

LEMMA Multiples ==
  ASSUME NEW f \in Nat \ {0}, NEW i \in Int, NEW j \in Int, i * f < j * f
  PROVE  i * f + f <= j * f
<1>1. j <= i => j * f <= i * f OBVIOUS
<1>2. i + 1 <= j BY <1>1
<1>3. (i + 1) * f <= j * f BY <1>2
<1>4. (i + 1) * f = i * f + f OBVIOUS
<1>. QED BY <1>3, <1>4
-----------------------------------------------------------------------------
(* Sums over finite sets.  it adds up the values v of every subset of S, taking the elements
   in the order of CHOOSE, as the folds of the community modules do. *)
Pick(s) == CHOOSE x \in s : TRUE
AddsUp(it, v, S) == it = [s \in SUBSET S |-> IF s = {} THEN 0 ELSE v[Pick(s)] + it[s \ {Pick(s)}]]

LEMMA Picked == ASSUME NEW s, s # {} PROVE Pick(s) \in s
BY DEF Pick

(* The sum exists. *)
LEMMA SumExists ==
  ASSUME NEW S, IsFiniteSet(S), NEW v
  PROVE  \E it : AddsUp(it, v, S)
<1>. DEFINE Small(n) == {s \in SUBSET S : Cardinality(s) <= n}
            Body(it, s) == IF s = {} THEN 0 ELSE v[Pick(s)] + it[s \ {Pick(s)}]
            Is(it, n) == it = [s \in Small(n) |-> Body(it, s)]
            T == {n \in Nat : ~ \E it : Is(it, n)}
<1>1. \A s \in SUBSET S : Cardinality(s) \in Nat BY FS_Subset, FS_CardinalityType
<1>2. \A n \in Nat : \E it : Is(it, n)
  <2>. SUFFICES ASSUME T # {} PROVE FALSE OBVIOUS
  <2>1. T \in SUBSET Nat OBVIOUS
  <2>. HIDE DEF T
  <2>2. PICK n \in T : \A m \in T : n <= m BY <2>1, LeastNatural
  <2>3. n \in Nat /\ ~ \E it : Is(it, n) BY <2>2 DEF T
  <2>4. PICK g : \A s \in Small(n) : s # {} => \E m \in Nat : n = m + 1 /\ g = [r \in Small(m) |-> Body(g, r)]
    <3>1. CASE n = 0
      <4>1. \A s \in Small(n) : s = {}
        <5>1. \A s \in SUBSET S : IsFiniteSet(s) BY FS_Subset
        <5>. QED BY <1>1, <3>1, <5>1, FS_EmptySet
      <4>. QED BY <4>1
    <3>2. CASE n # 0
      <4>1. n - 1 \in Nat /\ ~(n <= n - 1) /\ n = (n - 1) + 1 BY <2>3, <3>2
      <4>2. n - 1 \notin T BY <2>2, <4>1
      <4>3. PICK g : Is(g, n - 1) BY <4>1, <4>2 DEF T
      <4>. QED BY <4>1, <4>3
    <3>. QED BY <3>1, <3>2
  <2>. DEFINE h == [s \in Small(n) |-> Body(g, s)]
  <2>5. ASSUME NEW s \in Small(n) PROVE h[s] = Body(h, s)
    <3>1. CASE s = {} BY <3>1
    <3>2. CASE s # {}
      <4>1. PICK m \in Nat : n = m + 1 /\ g = [r \in Small(m) |-> Body(g, r)] BY <2>4, <3>2
      <4>. DEFINE r == s \ {Pick(s)}
      <4>2. Pick(s) \in s BY <3>2, Picked
      <4>3. r \in SUBSET S /\ ~(Cardinality(s) <= Cardinality(r)) BY <4>2, Smaller
      <4>. HIDE DEF r
      <4>4. r \in Small(m) /\ r \in Small(n) BY <1>1, <4>1, <4>3
      <4>5. g[r] = Body(g, r) BY <4>1, <4>4
      <4>6. h[r] = Body(g, r) BY <4>4
      <4>. QED BY <3>2, <4>5, <4>6 DEF r
    <3>. QED BY <3>1, <3>2
  <2>6. h = [s \in Small(n) |-> h[s]] OBVIOUS
  <2>. HIDE DEF h
  <2>7. Is(h, n) BY <2>5, <2>6
  <2>. QED BY <2>3, <2>7
<1>3. PICK it : Is(it, Cardinality(S)) BY <1>1, <1>2
<1>4. Small(Cardinality(S)) = SUBSET S BY FS_Subset
<1>. QED BY <1>3, <1>4 DEF AddsUp

(* The sum does not depend on the order of its elements. *)
LEMMA SumAny ==
  ASSUME NEW S, IsFiniteSet(S), NEW v, NEW it, AddsUp(it, v, S), \A x \in S : v[x] \in Int
  PROVE  \A s \in SUBSET S : it[s] \in Int /\ \A y \in s : it[s] = v[y] + it[s \ {y}]
<1>. DEFINE Good(s) == it[s] \in Int /\ \A y \in s : it[s] = v[y] + it[s \ {y}]
            F == {s \in SUBSET S : ~Good(s)}
<1>. SUFFICES ASSUME F # {} PROVE FALSE OBVIOUS
<1>1. PICK s \in F : \A r \in F : Cardinality(s) <= Cardinality(r)
  <2>. HIDE DEF Good
  <2>1. F \in SUBSET (SUBSET S) OBVIOUS
  <2>. HIDE DEF F
  <2>. QED BY <2>1, Smallest
<1>2. s \in SUBSET S /\ ~Good(s) OBVIOUS
<1>3. \A r \in SUBSET S : it[r] = IF r = {} THEN 0 ELSE v[Pick(r)] + it[r \ {Pick(r)}] BY DEF AddsUp
<1>4. ASSUME NEW y \in s PROVE s \ {y} \in SUBSET S /\ Good(s \ {y})
  <2>1. s \ {y} \in SUBSET S /\ ~(Cardinality(s) <= Cardinality(s \ {y})) BY Smaller
  <2>2. s \ {y} \notin F
    <3>. HIDE DEF F, Good
    <3>. QED BY <1>1, <2>1
  <2>. QED BY <2>1, <2>2
<1>5. CASE s = {}
  <2>1. it[s] = 0 BY <1>2, <1>3, <1>5
  <2>. QED BY <1>2, <1>5, <2>1
<1>6. CASE s # {}
  <2>. DEFINE x == Pick(s)
  <2>1. x \in s BY <1>6, Picked
  <2>2. it[s] = v[x] + it[s \ {x}] BY <1>2, <1>3, <1>6
  <2>. HIDE DEF x
  <2>3. v[x] \in Int /\ it[s \ {x}] \in Int BY <1>2, <1>4, <2>1
  <2>4. ASSUME NEW y \in s, y # x PROVE it[s] = v[y] + it[s \ {y}]
    <3>. DEFINE q == (s \ {y}) \ {x}
    <3>1. x \in s \ {y} /\ y \in s \ {x} /\ (s \ {x}) \ {y} = q /\ q \in SUBSET S
      BY <1>2, <2>1, <2>4
    <3>2. Good(s \ {x}) /\ Good(s \ {y}) BY <1>4, <2>1
    <3>. HIDE DEF q
    <3>3. it[s \ {x}] = v[y] + it[q] /\ it[s \ {y}] = v[x] + it[q] BY <3>1, <3>2 DEF q
    <3>4. Good(q)
      <4>. HIDE DEF F, Good
      <4>1. s \ {y} \in SUBSET S /\ ~(Cardinality(s) <= Cardinality(s \ {y})) BY <1>2, Smaller
      <4>2. ~(Cardinality(s \ {y}) <= Cardinality(q)) BY <3>1, <4>1, Smaller DEF q
      <4>3. Cardinality(s) \in Nat /\ Cardinality(s \ {y}) \in Nat /\ Cardinality(q) \in Nat
        BY <1>2, <3>1, <4>1, FS_Subset, FS_CardinalityType
      <4>4. ~(Cardinality(s) <= Cardinality(q)) BY <4>1, <4>2, <4>3
      <4>5. q \notin F BY <1>1, <4>4
      <4>. QED BY <3>1, <4>5 DEF F
    <3>5. it[q] \in Int /\ v[y] \in Int BY <1>2, <3>4
    <3>. QED BY <2>2, <2>3, <3>3, <3>5
  <2>5. it[s] \in Int BY <2>2, <2>3
  <2>. QED BY <1>2, <2>2, <2>4, <2>5
<1>. QED BY <1>5, <1>6

(* Equal values have equal sums. *)
LEMMA SumSame ==
  ASSUME NEW S, IsFiniteSet(S), NEW v, NEW it, AddsUp(it, v, S), \A x \in S : v[x] \in Int,
         NEW S2, IsFiniteSet(S2), NEW w, NEW jt, AddsUp(jt, w, S2), \A x \in S2 : w[x] \in Int
  PROVE  \A s \in SUBSET (S \cap S2) : (\A x \in s : v[x] = w[x]) => it[s] = jt[s]
<1>. DEFINE Same(s) == (\A x \in s : v[x] = w[x]) => it[s] = jt[s]
            F == {s \in SUBSET (S \cap S2) : ~Same(s)}
<1>. SUFFICES ASSUME F # {} PROVE FALSE OBVIOUS
<1>1. IsFiniteSet(S \cap S2) BY FS_Subset
<1>2. PICK s \in F : \A r \in F : Cardinality(s) <= Cardinality(r)
  <2>. HIDE DEF Same
  <2>1. F \in SUBSET (SUBSET (S \cap S2)) OBVIOUS
  <2>. HIDE DEF F
  <2>. QED BY <1>1, <2>1, Smallest
<1>3. s \in SUBSET (S \cap S2) /\ s \in SUBSET S /\ s \in SUBSET S2 /\ ~Same(s) OBVIOUS
<1>4. CASE s = {} BY <1>3, <1>4 DEF AddsUp
<1>5. CASE s # {}
  <2>1. PICK y \in s : TRUE BY <1>5
  <2>2. s \ {y} \in SUBSET (S \cap S2) /\ ~(Cardinality(s) <= Cardinality(s \ {y})) BY <1>1, <1>3, Smaller
  <2>3. s \ {y} \notin F
    <3>. HIDE DEF F, Same
    <3>. QED BY <1>2, <2>2
  <2>4. Same(s \ {y}) BY <2>2, <2>3
  <2>5. it[s] = v[y] + it[s \ {y}] BY <1>3, SumAny
  <2>6. jt[s] = w[y] + jt[s \ {y}] BY <1>3, SumAny
  <2>. QED BY <1>3, <2>4, <2>5, <2>6
<1>. QED BY <1>4, <1>5

(* What the sums of the community modules are. *)
LEMMA SumIs ==
  ASSUME NEW S, IsFiniteSet(S), NEW v
  PROVE  \E it : AddsUp(it, v, S) /\ SumFunctionOnSet(v, S) = it[S]
<1>. DEFINE it == CHOOSE g : AddsUp(g, v, S)
<1>1. AddsUp(it, v, S) BY SumExists
<1>2. SumFunctionOnSet(v, S) = it[S]
  BY DEF AddsUp, Pick, SumFunctionOnSet, FoldFunctionOnSet, MapThenFoldSet
<1>. QED BY <1>1, <1>2

LEMMA SumEmpty == ASSUME NEW v PROVE SumFunctionOnSet(v, {}) = 0
<1>1. PICK it : AddsUp(it, v, {}) /\ SumFunctionOnSet(v, {}) = it[{}] BY FS_EmptySet, SumIs
<1>. QED BY <1>1 DEF AddsUp

LEMMA SumEqual ==
  ASSUME NEW S, IsFiniteSet(S), NEW v, NEW w, \A x \in S : v[x] \in Int /\ v[x] = w[x]
  PROVE  SumFunctionOnSet(v, S) = SumFunctionOnSet(w, S)
<1>1. PICK it : AddsUp(it, v, S) /\ SumFunctionOnSet(v, S) = it[S] BY SumIs
<1>2. PICK jt : AddsUp(jt, w, S) /\ SumFunctionOnSet(w, S) = jt[S] BY SumIs
<1>3. S \in SUBSET (S \cap S) OBVIOUS
<1>4. \A x \in S : w[x] \in Int OBVIOUS
<1>. QED BY <1>1, <1>2, <1>3, <1>4, SumSame

LEMMA SumSplit ==
  ASSUME NEW S, IsFiniteSet(S), NEW v, \A x \in S : v[x] \in Int, NEW y \in S
  PROVE  /\ SumFunctionOnSet(v, S) = v[y] + SumFunctionOnSet(v, S \ {y})
         /\ SumFunctionOnSet(v, S) \in Int
<1>1. PICK it : AddsUp(it, v, S) /\ SumFunctionOnSet(v, S) = it[S] BY SumIs
<1>2. IsFiniteSet(S \ {y}) BY FS_Subset
<1>3. PICK jt : AddsUp(jt, v, S \ {y}) /\ SumFunctionOnSet(v, S \ {y}) = jt[S \ {y}] BY <1>2, SumIs
<1>4. it[S \ {y}] = jt[S \ {y}]
  <2>1. S \ {y} \in SUBSET (S \cap (S \ {y})) OBVIOUS
  <2>. QED BY <1>1, <1>2, <1>3, <2>1, SumSame
<1>5. S \in SUBSET S OBVIOUS
<1>6. it[S] \in Int /\ it[S] = v[y] + it[S \ {y}] BY <1>1, <1>5, SumAny
<1>. QED BY <1>1, <1>3, <1>4, <1>6

LEMMA SumInteger ==
  ASSUME NEW S, IsFiniteSet(S), NEW v, \A x \in S : v[x] \in Int
  PROVE  SumFunctionOnSet(v, S) \in Int
<1>1. CASE S = {} BY <1>1, SumEmpty
<1>2. CASE S # {} BY <1>2, SumSplit
<1>. QED BY <1>1, <1>2

LEMMA SumNatural ==
  ASSUME NEW S, IsFiniteSet(S), NEW v, \A x \in S : v[x] \in Nat
  PROVE  SumFunctionOnSet(v, S) \in Nat
<1>. DEFINE F == {s \in SUBSET S : SumFunctionOnSet(v, s) \notin Nat}
<1>. SUFFICES ASSUME F # {} PROVE FALSE OBVIOUS
<1>1. F \in SUBSET (SUBSET S) OBVIOUS
<1>. HIDE DEF F
<1>2. PICK s \in F : \A r \in F : Cardinality(s) <= Cardinality(r) BY <1>1, Smallest
<1>3. s \in SUBSET S /\ SumFunctionOnSet(v, s) \notin Nat /\ IsFiniteSet(s) BY <1>2, FS_Subset DEF F
<1>4. PICK y \in s : TRUE BY <1>3, SumEmpty
<1>5. s \ {y} \in SUBSET S /\ ~(Cardinality(s) <= Cardinality(s \ {y})) BY <1>3, Smaller
<1>6. SumFunctionOnSet(v, s \ {y}) \in Nat BY <1>2, <1>5 DEF F
<1>7. \A x \in s : v[x] \in Int BY <1>3
<1>8. SumFunctionOnSet(v, s) = v[y] + SumFunctionOnSet(v, s \ {y}) BY <1>3, <1>7, SumSplit
<1>. QED BY <1>3, <1>6, <1>8
-----------------------------------------------------------------------------
(* The bars read back: the starts of the stored rows in order. *)
Rank(S, s) == Cardinality({u \in S : u < s})

LEMMA Ranked ==
  ASSUME NEW S, IsFiniteSet(S), S \subseteq Int
  PROVE  /\ \A s \in S : Rank(S, s) \in Nat /\ Rank(S, s) < Cardinality(S)
         /\ \A s, r \in S : s < r => Rank(S, s) < Rank(S, r)
<1>. DEFINE Lower(s) == {u \in S : u < s}
<1>1. \A s \in S : Lower(s) \in SUBSET S /\ s \notin Lower(s) OBVIOUS
<1>2. \A R \in SUBSET S : IsFiniteSet(R) /\ Cardinality(R) \in Nat /\ Cardinality(R) <= Cardinality(S)
  BY FS_Subset, FS_CardinalityType
<1>3. ASSUME NEW s \in S, NEW R \in SUBSET S, Lower(s) \subseteq R, s \in R
      PROVE  Cardinality(Lower(s)) < Cardinality(R)
  <2>1. Lower(s) \in SUBSET R /\ Lower(s) \cup {s} \in SUBSET R /\ IsFiniteSet(R) BY <1>2, <1>3
  <2>2. Cardinality(Lower(s) \cup {s}) = Cardinality(Lower(s)) + 1
    <3>. HIDE DEF Lower
    <3>. QED BY <1>1, <1>2, FS_AddElement
  <2>. HIDE DEF Lower
  <2>3. Cardinality(Lower(s) \cup {s}) <= Cardinality(R) BY <2>1, FS_Subset
  <2>4. Cardinality(Lower(s)) \in Nat /\ Cardinality(R) \in Nat BY <1>1, <1>2
  <2>. QED BY <2>2, <2>3, <2>4
<1>4. \A s \in S : Rank(S, s) = Cardinality(Lower(s)) BY DEF Rank
<1>5. ASSUME NEW s \in S, NEW r \in S, s < r PROVE Lower(s) \subseteq Lower(r) /\ s \in Lower(r)
  <2>1. ASSUME NEW u \in S, u < s PROVE u < r
    <3>1. u \in Int /\ s \in Int /\ r \in Int OBVIOUS
    <3>. QED BY <1>5, <2>1, <3>1
  <2>. QED BY <1>5, <2>1
<1>6. \A s \in S : Lower(s) \subseteq S OBVIOUS
<1>. HIDE DEF Lower
<1>. QED BY <1>1, <1>2, <1>3, <1>4, <1>5, <1>6

LEMMA Interval ==
  ASSUME NEW a \in Int, NEW b \in Int, a <= b + 1
  PROVE  IsFiniteSet(a .. b) /\ Cardinality(a .. b) = b - a + 1
<1>1. IsFiniteSet(a .. b) /\ Cardinality(a .. b) = IF a > b THEN 0 ELSE b - a + 1
  BY FS_Interval, Zenon
<1>. QED BY <1>1

LEMMA FromOne == ASSUME NEW n \in Nat PROVE IsFiniteSet(1 .. n) /\ Cardinality(1 .. n) = n
<1>1. 1 \in Int /\ n \in Int /\ 1 <= n + 1 /\ n - 1 + 1 = n OBVIOUS
<1>. QED BY <1>1, Interval

LEMMA EveryRank ==
  ASSUME NEW S, IsFiniteSet(S), S \subseteq Int, NEW i \in 1 .. Cardinality(S)
  PROVE  \E s \in S : Rank(S, s) = i - 1
<1>. DEFINE n == Cardinality(S)
            g == [s \in S |-> Rank(S, s) + 1]
<1>1. n \in Nat BY FS_CardinalityType
<1>2. \A s \in S : Rank(S, s) \in Nat /\ Rank(S, s) < n BY Ranked
<1>3. \A s, r \in S : s # r => Rank(S, s) # Rank(S, r)
  <2>1. ASSUME NEW s \in S, NEW r \in S, s < r PROVE Rank(S, s) # Rank(S, r)
    <3>1. Rank(S, s) < Rank(S, r) BY <2>1, Ranked
    <3>. QED BY <1>2, <3>1
  <2>2. \A s, r \in S : s # r => s < r \/ r < s OBVIOUS
  <2>. QED BY <2>1, <2>2
<1>. HIDE DEF n
<1>4. g \in [S -> 1 .. n] /\ \A s, r \in S : g[s] = g[r] => s = r BY <1>1, <1>2, <1>3
<1>5. \A s \in S : g[s] = Rank(S, s) + 1 OBVIOUS
<1>. HIDE DEF g
<1>6. g \in Injection(S, 1 .. n) BY <1>4 DEF Injection, IsInjective
<1>7. IsFiniteSet(1 .. n) /\ Cardinality(1 .. n) = n BY <1>1, FromOne
<1>8. g \in Surjection(S, 1 .. n) BY <1>6, <1>7, FS_Injection DEF n
<1>9. PICK s \in S : g[s] = i BY <1>8 DEF Surjection, n
<1>. QED BY <1>1, <1>2, <1>5, <1>9 DEF n
-----------------------------------------------------------------------------
(* The shapes that TypeOK takes for granted: which variables are functions, that buckets
   and rows of an instrument are finitely many, and what the saves under way hold. *)
Finite(b) == IsBuckets(b) /\ IsFiniteSet(DOMAIN b)
StartsIn(rows, t, f) == {r.start : r \in {q \in rows : q.token = t /\ q.tf = f}}

Shapes ==
  /\ profile = [t \in Token |-> profile[t]] /\ saved = [t \in Token |-> saved[t]]
  /\ ingested = [t \in Token |-> [f \in Timeframe |-> ingested[t][f]]]
  /\ base \in [Token -> Int] /\ heard \in [Token -> Int] /\ lost \in [Token -> Int]
  /\ carried \in [Token -> Nat] /\ orphaned \in [Token -> Int]
  /\ warmed \in [Token -> [Timeframe -> Nat]]
  /\ \A t \in Token : Finite(profile[t].buckets) /\ Finite(profile[t].nodes) /\ Finite(saved[t].nodes)
  /\ \A s \in saves : s.token \in Token /\ Finite(s.row.nodes) /\ s.row.total \in Nat
  /\ \A t \in Token, f \in Timeframe : IsFiniteSet(StartsIn(queue, t, f)) /\ IsFiniteSet(StartsIn(table, t, f))

Types == TypeOK /\ Shapes


(* What WarmupEngineState reads of a timeframe: all stored bars, in order of time. *)
LEMMA ReadBack ==
  ASSUME Types, NEW t \in Token, NEW f \in Timeframe
  PROVE  LET bars == SessionBars(t, f) IN
         /\ bars \in Seq(Bar)
         /\ \A i \in 1 .. Len(bars) : \E r \in table : r.token = t /\ r.tf = f /\ r.start = bars[i].start
         /\ \A i \in 1 .. Len(bars) - 1 : bars[i].start < bars[i + 1].start
         /\ \A r \in table : r.token = t /\ r.tf = f => Len(bars) > 0 /\ r.start <= bars[Len(bars)].start
<1>. DEFINE rows == {r \in table : r.token = t /\ r.tf = f}
            starts == {r.start : r \in rows}
            n == Cardinality(starts)
            nth(i) == CHOOSE s \in starts : Rank(starts, s) = i - 1
            row(i) == CHOOSE r \in rows : r.start = nth(i)
            bars == SessionBars(t, f)
<1>1. table \subseteq BarRow BY DEF Types, TypeOK
<1>2. IsFiniteSet(starts) /\ n \in Nat BY FS_CardinalityType DEF Types, Shapes, StartsIn
<1>3. starts \subseteq Int BY <1>1 DEF BarRow
<1>4. bars = [i \in 1 .. n |-> [start |-> row(i).start, vol |-> row(i).vol, close |-> row(i).close]]
  BY DEF SessionBars, Rank
<1>5. ASSUME NEW i \in 1 .. n PROVE nth(i) \in starts /\ Rank(starts, nth(i)) = i - 1
  <2>. HIDE DEF starts
  <2>1. \E s \in starts : Rank(starts, s) = i - 1 BY <1>2, <1>3, EveryRank
  <2>. QED BY <2>1
<1>. HIDE DEF nth
<1>6. ASSUME NEW i \in 1 .. n PROVE row(i) \in rows /\ row(i).start = nth(i)
  <2>1. \E r \in rows : r.start = nth(i) BY <1>5
  <2>. HIDE DEF rows
  <2>. QED BY <2>1
<1>. HIDE DEF row
<1>7. \A i \in 1 .. n : row(i) \in table /\ row(i).token = t /\ row(i).tf = f BY <1>6
<1>8. \A i \in 1 .. n : [start |-> row(i).start, vol |-> row(i).vol, close |-> row(i).close] \in Bar
  BY <1>1, <1>7 DEF BarRow, Bar
<1>. HIDE DEF bars, n, rows, starts
<1>9. bars \in Seq(Bar) /\ Len(bars) = n BY <1>2, <1>4, <1>8
<1>10. \A i \in 1 .. n : bars[i].start = nth(i) BY <1>4, <1>6
<1>11. \A i \in 1 .. n : \E r \in table : r.token = t /\ r.tf = f /\ r.start = bars[i].start
  BY <1>6, <1>7, <1>10
<1>12. ASSUME NEW i \in 1 .. n, NEW j \in 1 .. n, i < j PROVE bars[i].start < bars[j].start
  <2>1. nth(i) \in Int /\ nth(j) \in Int BY <1>3, <1>5
  <2>2. ~(nth(j) <= nth(i))
    <3>1. Rank(starts, nth(i)) = i - 1 /\ Rank(starts, nth(j)) = j - 1 BY <1>5
    <3>2. nth(j) # nth(i) BY <1>12, <3>1
    <3>3. ~(nth(j) < nth(i))
      <4>1. nth(j) < nth(i) => Rank(starts, nth(j)) < Rank(starts, nth(i)) BY <1>2, <1>3, <1>5, Ranked
      <4>. QED BY <1>12, <3>1, <4>1
    <3>. QED BY <2>1, <3>2, <3>3
  <2>. QED BY <1>10, <2>1, <2>2
<1>13. \A i \in 1 .. Len(bars) - 1 : bars[i].start < bars[i + 1].start BY <1>2, <1>9, <1>12
<1>14. ASSUME NEW r \in table, r.token = t, r.tf = f
       PROVE  Len(bars) > 0 /\ r.start <= bars[Len(bars)].start
  <2>1. r.start \in starts BY <1>14 DEF starts, rows
  <2>2. Rank(starts, r.start) \in Nat /\ Rank(starts, r.start) < n BY <1>2, <1>3, <2>1, Ranked DEF n
  <2>3. n > 0 /\ n \in 1 .. n BY <1>2, <2>2
  <2>4. nth(n) \in starts /\ Rank(starts, nth(n)) = n - 1 BY <1>5, <2>3
  <2>5. ~(nth(n) < r.start)
    <3>1. nth(n) < r.start => Rank(starts, nth(n)) < Rank(starts, r.start)
      BY <1>2, <1>3, <2>1, <2>4, Ranked
    <3>. QED BY <1>2, <2>2, <2>4, <3>1
  <2>6. nth(n) \in Int /\ r.start \in Int BY <1>3, <2>1, <2>4
  <2>. QED BY <1>9, <1>10, <2>3, <2>5, <2>6
<1>. QED BY <1>9, <1>11, <1>13, <1>14 DEF bars
-----------------------------------------------------------------------------
(* The anchored VWAP of a history h, after the first n of bars. *)
History == [bars : Nat, anchored : BOOLEAN, held : Nat]
Far(b) == b.close >= FarPrice
FarBy(bars, n) == \E j \in 1 .. n : Far(bars[j])
FromAnchor(bars) == [i \in DOMAIN bars |-> IF FarBy(bars, i) THEN bars[i].vol ELSE 0]
Remembers(h, bars, n) ==
  /\ h \in History
  /\ h.anchored <=> FarBy(bars, n)
  /\ ~h.anchored => h.held = 0
  /\ h.held = SumFunctionOnSet(FromAnchor(bars), 1 .. n)

LEMMA AnalyzedIs ==
  ASSUME NEW h \in History, NEW b \in Bar
  PROVE  /\ Analyzed(h, b) \in History
         /\ Analyzed(h, b).anchored <=> h.anchored \/ Far(b)
         /\ h.anchored => Analyzed(h, b).held = h.held + b.vol
         /\ ~h.anchored /\ Far(b) => Analyzed(h, b).held = b.vol
         /\ ~h.anchored /\ ~Far(b) => Analyzed(h, b).held = h.held
<1>1. b.vol \in Nat /\ h.held \in Nat /\ h.bars \in Nat /\ h.anchored \in BOOLEAN BY DEF Bar, History
<1>2. CASE h.anchored
  <2>1. Anchored(h, b) = h BY <1>2 DEF Anchored
  <2>2. Accumulated(h, b) = [h EXCEPT !.held = h.held + b.vol] BY <1>2 DEF Accumulated
  <2>. DEFINE g == [h EXCEPT !.held = h.held + b.vol]
  <2>3. g \in History /\ g.anchored /\ g.held = h.held + b.vol /\ g.bars = h.bars
    BY <1>1, <1>2 DEF History
  <2>4. Analyzed(h, b) = [g EXCEPT !.bars = @ + 1] BY <2>1, <2>2 DEF Analyzed
  <2>. HIDE DEF g
  <2>. QED BY <1>1, <1>2, <2>3, <2>4 DEF History
<1>3. CASE ~h.anchored /\ Far(b)
  <2>1. Anchored(h, b) = [h EXCEPT !.anchored = TRUE, !.held = 0] BY <1>3 DEF Anchored, Far
  <2>. DEFINE g == [h EXCEPT !.anchored = TRUE, !.held = 0]
  <2>2. g \in History /\ g.anchored /\ g.held = 0 /\ g.bars = h.bars BY <1>1 DEF History
  <2>. HIDE DEF g
  <2>3. Accumulated(g, b) = [g EXCEPT !.held = b.vol] BY <1>1, <2>2 DEF Accumulated
  <2>. DEFINE k == [g EXCEPT !.held = b.vol]
  <2>4. k \in History /\ k.anchored /\ k.held = b.vol /\ k.bars = g.bars BY <1>1, <2>2 DEF History
  <2>5. Analyzed(h, b) = [k EXCEPT !.bars = @ + 1] BY <2>1, <2>3 DEF Analyzed, g
  <2>. HIDE DEF k
  <2>. QED BY <1>1, <1>3, <2>2, <2>4, <2>5 DEF History
<1>4. CASE ~h.anchored /\ ~Far(b)
  <2>1. Anchored(h, b) = h BY <1>4 DEF Anchored, Far
  <2>2. Accumulated(h, b) = h BY <1>4 DEF Accumulated
  <2>3. Analyzed(h, b) = [h EXCEPT !.bars = @ + 1] BY <2>1, <2>2 DEF Analyzed
  <2>. QED BY <1>1, <1>4, <2>3 DEF History
<1>. QED BY <1>2, <1>3, <1>4

LEMMA RemembersStart == ASSUME NEW bars PROVE Remembers(NewHistory, bars, 0)
<1>1. 1 .. 0 = {} OBVIOUS
<1>2. SumFunctionOnSet(FromAnchor(bars), 1 .. 0) = 0 BY <1>1, SumEmpty
<1>. QED BY <1>1, <1>2 DEF Remembers, NewHistory, History, FarBy

LEMMA RemembersNext ==
  ASSUME NEW bars \in Seq(Bar), NEW n \in Nat, n < Len(bars), NEW h, Remembers(h, bars, n)
  PROVE  Remembers(Analyzed(h, bars[n + 1]), bars, n + 1)
<1>. DEFINE b == bars[n + 1]  v == FromAnchor(bars)  a == Analyzed(h, b)
<1>. HIDE DEF v
<1>0. \A i \in 1 .. n + 1 : i \in DOMAIN bars /\ bars[i] \in Bar /\ bars[i].vol \in Nat
  <2>1. \A i \in 1 .. n + 1 : i \in 1 .. Len(bars) /\ bars[i] \in Bar OBVIOUS
  <2>. QED BY <2>1 DEF Bar
<1>1. b \in Bar /\ b.vol \in Nat /\ n + 1 \in DOMAIN bars BY <1>0
<1>2. IsFiniteSet(1 .. n + 1) /\ n + 1 \in 1 .. n + 1 /\ (1 .. n + 1) \ {n + 1} = 1 .. n
  <2>1. n + 1 \in Nat OBVIOUS
  <2>. QED BY <2>1, FromOne
<1>3. \A i \in 1 .. n + 1 : v[i] \in Int BY <1>0 DEF FromAnchor, v
<1>4. SumFunctionOnSet(v, 1 .. n + 1) = v[n + 1] + SumFunctionOnSet(v, 1 .. n)
  <2>1. SumFunctionOnSet(v, 1 .. n + 1) = v[n + 1] + SumFunctionOnSet(v, (1 .. n + 1) \ {n + 1})
    BY <1>2, <1>3, SumSplit
  <2>. QED BY <1>2, <2>1
<1>5. FarBy(bars, n + 1) <=> FarBy(bars, n) \/ Far(b)
  <2>1. \A j : j \in 1 .. n + 1 <=> j \in 1 .. n \/ j = n + 1 OBVIOUS
  <2>. HIDE DEF b
  <2>2. bars[n + 1] = b BY DEF b
  <2>. QED BY <2>1, <2>2 DEF FarBy
<1>6. v[n + 1] = IF FarBy(bars, n + 1) THEN b.vol ELSE 0 BY <1>1 DEF FromAnchor, v
<1>. HIDE DEF b
<1>7. h \in History /\ h.held \in Nat BY DEF Remembers, History
<1>8. /\ a \in History
      /\ a.anchored <=> h.anchored \/ Far(b)
      /\ h.anchored => a.held = h.held + b.vol
      /\ ~h.anchored /\ Far(b) => a.held = b.vol
      /\ ~h.anchored /\ ~Far(b) => a.held = h.held
  BY <1>1, <1>7, AnalyzedIs
<1>. HIDE DEF a
<1>9. h.anchored <=> FarBy(bars, n) BY Zenon DEF Remembers
<1>10. a.anchored <=> FarBy(bars, n + 1) BY <1>5, <1>8, <1>9, Zenon
<1>11. (~h.anchored => h.held = 0) /\ h.held = SumFunctionOnSet(v, 1 .. n) BY DEF Remembers, v
<1>12. ~a.anchored => a.held = 0 BY <1>8, <1>11
<1>13. a.held = SumFunctionOnSet(v, 1 .. n + 1)
  <2>1. CASE h.anchored BY <1>1, <1>4, <1>5, <1>6, <1>7, <1>8, <1>9, <1>11, <2>1
  <2>2. CASE ~h.anchored /\ Far(b) BY <1>1, <1>4, <1>5, <1>6, <1>7, <1>8, <1>9, <1>11, <2>2
  <2>3. CASE ~h.anchored /\ ~Far(b) BY <1>1, <1>4, <1>5, <1>6, <1>7, <1>8, <1>9, <1>11, <2>3
  <2>. QED BY <2>1, <2>2, <2>3
<1>. QED BY <1>8, <1>10, <1>12, <1>13, Zenon DEF Remembers, a, b, v

LEMMA RemembersSame ==
  ASSUME NEW bars \in Seq(Bar), NEW more \in Seq(Bar), NEW n \in Nat, n <= Len(bars), n <= Len(more),
         \A i \in 1 .. n : more[i] = bars[i], NEW h, Remembers(h, bars, n)
  PROVE  Remembers(h, more, n)
<1>1. \A i \in 1 .. n : FarBy(more, i) <=> FarBy(bars, i) BY DEF FarBy
<1>2. FarBy(more, n) <=> FarBy(bars, n) BY DEF FarBy
<1>3. \A i \in 1 .. n : FromAnchor(bars)[i] \in Int /\ FromAnchor(bars)[i] = FromAnchor(more)[i]
  <2>1. \A i \in 1 .. n : i \in DOMAIN bars /\ i \in DOMAIN more /\ bars[i] \in Bar OBVIOUS
  <2>2. \A i \in 1 .. n : bars[i].vol \in Nat BY <2>1 DEF Bar
  <2>3. \A i \in 1 .. n : FromAnchor(bars)[i] = IF FarBy(bars, i) THEN bars[i].vol ELSE 0
    BY <2>1 DEF FromAnchor
  <2>4. \A i \in 1 .. n : FromAnchor(more)[i] = IF FarBy(more, i) THEN more[i].vol ELSE 0
    BY <2>1 DEF FromAnchor
  <2>. QED BY <1>1, <2>2, <2>3, <2>4
<1>4. SumFunctionOnSet(FromAnchor(bars), 1 .. n) = SumFunctionOnSet(FromAnchor(more), 1 .. n)
  BY <1>3, FromOne, SumEqual
<1>. QED BY <1>2, <1>4, Zenon DEF Remembers

(* Rehydration, unrolled: the history after the first i bars remembers them. *)
LEMMA HistoryExists ==
  ASSUME NEW bars, NEW n \in Nat
  PROVE  \E h : h = [i \in 0 .. n |-> IF i = 0 THEN NewHistory ELSE Analyzed(h[i - 1], bars[i])]
<1>. DEFINE Body(h, i) == IF i = 0 THEN NewHistory ELSE Analyzed(h[i - 1], bars[i])
            Is(h, m) == h = [i \in 0 .. m |-> Body(h, i)]
            T == {m \in Nat : ~ \E h : Is(h, m)}
<1>. SUFFICES ASSUME T # {} PROVE FALSE OBVIOUS
<1>1. T \in SUBSET Nat OBVIOUS
<1>. HIDE DEF T
<1>2. PICK m \in T : \A k \in T : m <= k BY <1>1, LeastNatural
<1>3. m \in Nat /\ ~ \E h : Is(h, m) BY <1>2 DEF T
<1>4. m # 0
  <2>1. Is([i \in 0 .. 0 |-> NewHistory], 0) OBVIOUS
  <2>. HIDE DEF Is
  <2>. QED BY <1>3, <2>1
<1>5. m - 1 \in Nat /\ ~(m <= m - 1) BY <1>3, <1>4
<1>6. PICK g : Is(g, m - 1) BY <1>2, <1>5 DEF T
<1>. DEFINE h == [i \in 0 .. m |-> Body(g, i)]
<1>7. ASSUME NEW i \in 0 .. m PROVE h[i] = Body(h, i)
  <2>1. CASE i = 0 BY <1>3, <2>1
  <2>2. CASE i # 0
    <3>1. i - 1 \in 0 .. m /\ i - 1 \in 0 .. m - 1 BY <1>3, <2>2
    <3>2. h[i - 1] = Body(g, i - 1) /\ h[i] = Body(g, i) BY <3>1
    <3>3. g[i - 1] = Body(g, i - 1)
      <4>. HIDE DEF Body, h
      <4>. QED BY <1>6, <3>1
    <3>. HIDE DEF h
    <3>. QED BY <2>2, <3>2, <3>3
  <2>. QED BY <2>1, <2>2
<1>8. h = [i \in 0 .. m |-> h[i]] OBVIOUS
<1>. HIDE DEF h, Body
<1>9. Is(h, m) BY <1>7, <1>8
<1>. QED BY <1>3, <1>9

LEMMA RehydratedRemembers ==
  ASSUME NEW bars \in Seq(Bar)
  PROVE  Remembers(Rehydrated(bars), bars, Len(bars))
<1>. DEFINE n == Len(bars)
            h == CHOOSE g : g = [i \in 0 .. n |-> IF i = 0 THEN NewHistory ELSE Analyzed(g[i - 1], bars[i])]
            T == {m \in Nat : m <= n /\ ~Remembers(h[m], bars, m)}
<1>1. n \in Nat OBVIOUS
<1>2. h = [i \in 0 .. n |-> IF i = 0 THEN NewHistory ELSE Analyzed(h[i - 1], bars[i])]
  BY <1>1, HistoryExists
<1>3. Rehydrated(bars) = h[n] BY DEF Rehydrated
<1>. HIDE DEF h
<1>4. T = {}
  <2>. SUFFICES ASSUME T # {} PROVE FALSE OBVIOUS
  <2>1. T \in SUBSET Nat OBVIOUS
  <2>. HIDE DEF T
  <2>2. PICK m \in T : \A k \in T : m <= k BY <2>1, LeastNatural
  <2>3. m \in 0 .. n /\ m \in Nat /\ ~Remembers(h[m], bars, m) BY <1>1, <2>2 DEF T
  <2>4. CASE m = 0
    <3>1. h[0] = NewHistory BY <1>1, <1>2
    <3>. QED BY <2>3, <2>4, <3>1, RemembersStart
  <2>5. CASE m # 0
    <3>1. m - 1 \in Nat /\ m - 1 < n /\ ~(m <= m - 1) /\ (m - 1) + 1 = m BY <1>1, <2>3, <2>5
    <3>2. Remembers(h[m - 1], bars, m - 1) BY <2>2, <3>1 DEF T
    <3>3. h[m] = Analyzed(h[m - 1], bars[m]) BY <1>2, <2>3, <2>5
    <3>4. Remembers(Analyzed(h[m - 1], bars[(m - 1) + 1]), bars, (m - 1) + 1)
      BY <3>1, <3>2, RemembersNext
    <3>. QED BY <2>3, <3>1, <3>3, <3>4
  <2>. QED BY <2>4, <2>5
<1>. QED BY <1>1, <1>3, <1>4
-----------------------------------------------------------------------------
(* Windows.  In an aligned timeframe all bars start at a multiple of it, so a bar that
   starts later starts after the other has ended. *)
OnWindow(start, f) == Aligned(f) => \E k \in Int : start = k * f
Later(a, b, f) == a + (IF Aligned(f) THEN f ELSE 1) <= b

LEMMA Windows ==
  ASSUME NEW m \in Int, NEW f \in Timeframe
  PROVE  /\ Truncate(m, f) \in Int /\ OnWindow(Truncate(m, f), f)
         /\ MarketTruncate(m, f) \in Int /\ OnWindow(MarketTruncate(m, f), f)
<1>1. f \in Nat \ {0} /\ OpenMinute \in Int BY PipelineAssumption, BarAssumption
<1>2. /\ (m + OpenMinute) \div f \in Int /\ ((m + OpenMinute) \div f) * f \in Int
      /\ m \div f \in Int /\ (m \div f) * f \in Int
  BY <1>1, Rounded
<1>3. OnWindow(Truncate(m, f), f)
  <2>. SUFFICES ASSUME Aligned(f) PROVE \E k \in Int : Truncate(m, f) = k * f BY DEF OnWindow
  <2>1. OpenMinute \div f \in Int /\ OpenMinute = (OpenMinute \div f) * f BY <1>1 DEF Aligned
  <2>. DEFINE q == (m + OpenMinute) \div f  r == OpenMinute \div f
  <2>2. Truncate(m, f) = q * f - r * f BY <2>1 DEF Truncate
  <2>3. q \in Int /\ r \in Int BY <1>2, <2>1
  <2>. HIDE DEF q, r
  <2>4. q * f - r * f = (q - r) * f BY <1>1, <2>3
  <2>. QED BY <2>2, <2>3, <2>4
<1>4. OnWindow(MarketTruncate(m, f), f)
  <2>1. 0 = 0 * f BY <1>1
  <2>. QED BY <1>2, <2>1 DEF OnWindow, MarketTruncate
<1>. QED BY <1>1, <1>2, <1>3, <1>4 DEF Truncate, MarketTruncate

LEMMA TruncateMonotone ==
  ASSUME NEW m \in Int, NEW n \in Int, NEW f \in Timeframe, m <= n
  PROVE  Truncate(m, f) <= Truncate(n, f)
<1>1. f \in Nat \ {0} /\ OpenMinute \in Int BY PipelineAssumption, BarAssumption
<1>2. m + OpenMinute \in Int /\ n + OpenMinute \in Int /\ m + OpenMinute <= n + OpenMinute BY <1>1
<1>3. ((m + OpenMinute) \div f) * f <= ((n + OpenMinute) \div f) * f BY <1>1, <1>2, RoundedMonotone
<1>4. ((m + OpenMinute) \div f) * f \in Int /\ ((n + OpenMinute) \div f) * f \in Int BY <1>1, <1>2, Rounded
<1>. QED BY <1>1, <1>3, <1>4 DEF Truncate

LEMMA NextWindow ==
  ASSUME NEW f \in Timeframe, NEW a \in Int, NEW b \in Int, OnWindow(a, f), OnWindow(b, f), a < b
  PROVE  Later(a, b, f)
<1>1. f \in Nat \ {0} BY PipelineAssumption
<1>2. CASE Aligned(f)
  <2>1. PICK i \in Int : a = i * f BY <1>2 DEF OnWindow
  <2>2. PICK j \in Int : b = j * f BY <1>2 DEF OnWindow
  <2>3. i * f + f <= j * f BY <1>1, <2>1, <2>2, Multiples
  <2>. QED BY <1>2, <2>1, <2>2, <2>3 DEF Later
<1>3. CASE ~Aligned(f) BY <1>3 DEF Later
<1>. QED BY <1>2, <1>3

LEMMA LaterStarts ==
  ASSUME NEW f \in Timeframe, NEW a \in Int, NEW b \in Int, Later(a, b, f)
  PROVE  a < b
<1>1. f \in Nat /\ f > 0 BY PipelineAssumption
<1>. QED BY <1>1 DEF Later

(* What a tick does to the bars of a timeframe: the working bar w, a new one when there is
   none, goes on or is closed and followed by the bar of the tick. *)
Ticked(m, f, price, vol, bars, c, more, d) ==
  LET w == Working(c, m, f, price) IN
  \/ /\ ~(w.start < Truncate(m, f))
     /\ more = bars /\ d = [start |-> w.start, vol |-> w.vol + vol, close |-> price]
  \/ /\ w.start < Truncate(m, f)
     /\ more = Append(bars, w) /\ d = [start |-> Truncate(m, f), vol |-> vol, close |-> price]

LEMMA WorkingIs ==
  ASSUME NEW m \in Int, NEW f \in Timeframe, NEW price \in Price, NEW c \in Bar \cup {NoCandle}
  PROVE  LET w == Working(c, m, f, price) IN
         /\ w \in Bar /\ w.start \in Int /\ w.vol \in Nat /\ w.close \in Price
         /\ c # NoCandle => w = c
         /\ c = NoCandle => w.vol = 0 /\ OnWindow(w.start, f)
<1>1. MarketTruncate(m, f) \in Int /\ OnWindow(MarketTruncate(m, f), f) BY Windows
<1>2. CASE c = NoCandle BY <1>1, <1>2 DEF Working, NewBar, Bar
<1>3. CASE c # NoCandle BY <1>3 DEF Working, Bar
<1>. QED BY <1>2, <1>3

LEMMA SameBar ==
  ASSUME NEW a \in Bar, NEW b \in Bar, a.start = b.start, a.vol = b.vol, a.close = b.close
  PROVE  a = b
BY DEF Bar

LEMMA WithTickIs ==
  ASSUME NEW b \in Bar, NEW price \in Price, NEW vol \in Nat
  PROVE  LET d == [start |-> b.start, vol |-> b.vol + vol, close |-> price] IN
         d \in Bar /\ WithTick(b, price, vol) = d
<1>. DEFINE d == [start |-> b.start, vol |-> b.vol + vol, close |-> price]
<1>1. b.start \in Int /\ b.vol \in Nat /\ b.vol + vol \in Nat BY DEF Bar
<1>2. d \in Bar /\ d.start = b.start /\ d.vol = b.vol + vol /\ d.close = price BY <1>1 DEF Bar
<1>3. /\ WithTick(b, price, vol) \in Bar /\ WithTick(b, price, vol).start = b.start
      /\ WithTick(b, price, vol).vol = b.vol + vol /\ WithTick(b, price, vol).close = price
  BY <1>1 DEF WithTick, Bar
<1>. HIDE DEF d
<1>. QED BY <1>2, <1>3, SameBar DEF d

LEMMA TickedIs ==
  ASSUME NEW m \in Int, NEW f \in Timeframe, NEW price \in Price, NEW vol \in Nat,
         NEW bars \in Seq(Bar), NEW c \in Bar \cup {NoCandle}
  PROVE  LET closed == ClosedBy(c, m, f, price)
             w == Working(c, m, f, price) IN
         /\ Ticked(m, f, price, vol, bars, c, bars \o closed, Updated(c, m, f, price, vol))
         /\ closed \in {<<>>, <<w>>} /\ w \in Bar
         /\ bars \o closed \in Seq(Bar)
         /\ Updated(c, m, f, price, vol) \in Bar
<1>. DEFINE w == Working(c, m, f, price)
<1>1. w \in Bar /\ w.start \in Int /\ w.vol \in Nat /\ w.close \in Price BY WorkingIs
<1>2. Truncate(m, f) \in Int BY Windows
<1>3. ClosedBy(c, m, f, price) = IF w.start < Truncate(m, f) THEN <<w>> ELSE <<>>
  BY DEF ClosedBy, CloseDue
<1>4. Updated(c, m, f, price, vol) =
        WithTick(IF w.start < Truncate(m, f) THEN NewBar(Truncate(m, f), price) ELSE w, price, vol)
  BY DEF Updated, CloseDue
<1>5. /\ WithTick(NewBar(Truncate(m, f), price), price, vol) = [start |-> Truncate(m, f), vol |-> vol, close |-> price]
      /\ [start |-> Truncate(m, f), vol |-> vol, close |-> price] \in Bar
  <2>. DEFINE b == NewBar(Truncate(m, f), price)
  <2>1. b \in Bar /\ b.start = Truncate(m, f) /\ b.vol = 0 BY <1>2 DEF NewBar, Bar
  <2>. HIDE DEF b
  <2>2. /\ [start |-> b.start, vol |-> b.vol + vol, close |-> price] \in Bar
        /\ WithTick(b, price, vol) = [start |-> b.start, vol |-> b.vol + vol, close |-> price]
    BY <2>1, WithTickIs
  <2>3. 0 + vol = vol OBVIOUS
  <2>. QED BY <2>1, <2>2, <2>3 DEF b
<1>6. Ticked(m, f, price, vol, bars, c, bars \o ClosedBy(c, m, f, price), Updated(c, m, f, price, vol))
        <=> \/ /\ ~(w.start < Truncate(m, f)) /\ bars \o ClosedBy(c, m, f, price) = bars
               /\ Updated(c, m, f, price, vol) = [start |-> w.start, vol |-> w.vol + vol, close |-> price]
            \/ /\ w.start < Truncate(m, f) /\ bars \o ClosedBy(c, m, f, price) = Append(bars, w)
               /\ Updated(c, m, f, price, vol) = [start |-> Truncate(m, f), vol |-> vol, close |-> price]
  BY DEF Ticked
<1>. HIDE DEF w
<1>7. /\ WithTick(w, price, vol) = [start |-> w.start, vol |-> w.vol + vol, close |-> price]
      /\ [start |-> w.start, vol |-> w.vol + vol, close |-> price] \in Bar
  BY <1>1, WithTickIs
<1>8. bars \o <<>> = bars /\ bars \o <<w>> = Append(bars, w) /\ Append(bars, w) \in Seq(Bar) BY <1>1
<1>9. CASE w.start < Truncate(m, f) BY <1>1, <1>3, <1>4, <1>5, <1>6, <1>8, <1>9 DEF w
<1>10. CASE ~(w.start < Truncate(m, f)) BY <1>1, <1>3, <1>4, <1>6, <1>7, <1>8, <1>10 DEF w
<1>. QED BY <1>9, <1>10
-----------------------------------------------------------------------------
(* The volume profile: what a trade makes of it. *)
Profile(p) == Finite(p.buckets) /\ Finite(p.nodes) /\ p.total \in Nat /\ p.ticks \in Nat

LEMMA BucketIs == ASSUME NEW price \in Price PROVE BucketPrice(price) \in Nat
<1>1. price \in Nat /\ BucketSize \in Nat \ {0} BY PipelineAssumption, ProfileAssumption
<1>. QED BY <1>1, Rounded DEF BucketPrice

LEMMA AddedIs ==
  ASSUME NEW b, Finite(b), NEW x \in Nat, NEW vol \in Nat
  PROVE  /\ Finite(Added(b, x, vol)) /\ DOMAIN Added(b, x, vol) = DOMAIN b \cup {x}
         /\ \A y \in DOMAIN b \ {x} : Added(b, x, vol)[y] = b[y]
         /\ x \in DOMAIN b => Added(b, x, vol)[x] = b[x] + vol
         /\ x \notin DOMAIN b => Added(b, x, vol)[x] = vol
<1>1. IsFiniteSet(DOMAIN b \cup {x}) BY FS_AddElement DEF Finite
<1>2. DOMAIN b \subseteq Nat /\ \A y \in DOMAIN b : b[y] \in Nat BY DEF Finite, IsBuckets
<1>3. DOMAIN Added(b, x, vol) = DOMAIN b \cup {x} BY DEF Added
<1>4. \A y \in (DOMAIN b) \ {x} : Added(b, x, vol)[y] = b[y] BY <1>2 DEF Added
<1>5. x \in DOMAIN b => Added(b, x, vol)[x] = b[x] + vol BY <1>2 DEF Added
<1>6. x \notin DOMAIN b => Added(b, x, vol)[x] = vol BY <1>2 DEF Added
<1>7. \A y \in DOMAIN b \cup {x} : Added(b, x, vol)[y] \in Nat BY <1>2, <1>4, <1>5, <1>6
<1>. QED BY <1>1, <1>2, <1>3, <1>4, <1>5, <1>6, <1>7 DEF Finite, IsBuckets

(* q is the profile p after a trade. *)
TradeOf(p, price, vol, q) ==
  /\ q.buckets = Added(p.buckets, BucketPrice(price), vol)
  /\ q.total = p.total + vol /\ q.ticks = p.ticks + 1
  /\ q.poc = PointOfControl(q.buckets)
  /\ q.total > 0 /\ q.poc > 0 => /\ q.val = ValueArea(q.buckets, q.total)[1]
                                 /\ q.vah = ValueArea(q.buckets, q.total)[2]
  /\ SaveDue(q) => q.nodes = IF Cardinality(DOMAIN q.buckets) < 3 THEN p.nodes ELSE q.buckets
  /\ ~SaveDue(q) => q.nodes = p.nodes

LEMMA TradedIs ==
  ASSUME NEW p, NEW price, NEW vol
  PROVE  TradeOf(p, price, vol, Traded(p, price, vol))
<1>. DEFINE buckets == Added(p.buckets, BucketPrice(price), vol)
            total == p.total + vol
            poc == PointOfControl(buckets)
            area == IF total > 0 /\ poc > 0 THEN ValueArea(buckets, total) ELSE <<p.val, p.vah>>
            q == [buckets |-> buckets, total |-> total, poc |-> poc, val |-> area[1], vah |-> area[2],
                  ticks |-> p.ticks + 1, nodes |-> p.nodes]
            r == IF SaveDue(q) THEN [q EXCEPT !.nodes = SyncedNodes(q)] ELSE q
<1>1. Traded(p, price, vol) = r BY DEF Traded
<1>. HIDE DEF buckets, total, poc
<1>2. total > 0 /\ poc > 0 => area = ValueArea(buckets, total) OBVIOUS
<1>. HIDE DEF area
<1>3. /\ q.buckets = buckets /\ q.total = total /\ q.ticks = p.ticks + 1 /\ q.poc = poc
      /\ q.val = area[1] /\ q.vah = area[2] /\ q.nodes = p.nodes
  OBVIOUS
<1>4. DOMAIN q = {"buckets", "total", "poc", "val", "vah", "ticks", "nodes"} OBVIOUS
<1>. HIDE DEF q
<1>5. /\ r.buckets = buckets /\ r.total = total /\ r.ticks = p.ticks + 1 /\ r.poc = poc
      /\ r.val = area[1] /\ r.vah = area[2]
      /\ r.nodes = IF SaveDue(q) THEN SyncedNodes(q) ELSE p.nodes
  BY <1>3, <1>4
<1>6. SaveDue(r) <=> SaveDue(q) BY <1>3, <1>5, Zenon DEF SaveDue
<1>7. SyncedNodes(q) = IF Cardinality(DOMAIN buckets) < 3 THEN p.nodes ELSE buckets
  BY <1>3 DEF SyncedNodes
<1>. HIDE DEF r
<1>8. SaveDue(r) => r.nodes = IF Cardinality(DOMAIN buckets) < 3 THEN p.nodes ELSE buckets
  BY <1>5, <1>6, <1>7
<1>9. ~SaveDue(r) => r.nodes = p.nodes BY <1>5, <1>6
<1>10. poc = PointOfControl(buckets) BY DEF poc
<1>11. r.total > 0 /\ r.poc > 0 => /\ r.val = ValueArea(r.buckets, r.total)[1]
                                  /\ r.vah = ValueArea(r.buckets, r.total)[2]
  BY <1>2, <1>5
<1>. QED BY <1>1, <1>5, <1>8, <1>9, <1>10, <1>11 DEF buckets, total, TradeOf

LEMMA TradedTypes ==
  ASSUME NEW p, Profile(p), NEW price \in Price, NEW vol \in Nat
  PROVE  Profile(Traded(p, price, vol))
<1>. DEFINE q == Traded(p, price, vol)
<1>0. TradeOf(p, price, vol, q) BY TradedIs
<1>. HIDE DEF q
<1>1. /\ q.buckets = Added(p.buckets, BucketPrice(price), vol)
      /\ q.total = p.total + vol /\ q.ticks = p.ticks + 1
      /\ q.nodes = p.nodes \/ q.nodes = q.buckets
  BY <1>0 DEF TradeOf
<1>2. Finite(q.buckets)
  <2>1. Finite(p.buckets) /\ BucketPrice(price) \in Nat BY BucketIs DEF Profile
  <2>2. Finite(Added(p.buckets, BucketPrice(price), vol)) BY <2>1, AddedIs
  <2>. QED BY <1>1, <2>2
<1>3. Finite(q.nodes) BY <1>1, <1>2 DEF Profile
<1>4. Profile(q) BY <1>1, <1>2, <1>3 DEF Profile
<1>. QED BY <1>4 DEF q

(* The volume of buckets, and that a trade adds its own. *)
LEMMA VolumeIs == ASSUME NEW b, Finite(b) PROVE Volume(b) \in Nat
<1>1. IsFiniteSet(DOMAIN b) /\ \A y \in DOMAIN b : b[y] \in Nat BY DEF Finite, IsBuckets
<1>. QED BY <1>1, SumNatural DEF Volume, SumFunction

LEMMA VolumeAdded ==
  ASSUME NEW b, Finite(b), NEW x \in Nat, NEW vol \in Nat
  PROVE  Volume(Added(b, x, vol)) = Volume(b) + vol
<1>. DEFINE D == DOMAIN b  g == Added(b, x, vol)
<1>1. IsFiniteSet(D) /\ IsFiniteSet(D \cup {x}) /\ \A y \in D : b[y] \in Int
  BY FS_AddElement DEF Finite, IsBuckets
<1>2. /\ DOMAIN g = D \cup {x} /\ \A y \in D \ {x} : g[y] = b[y]
      /\ x \in D => g[x] = b[x] + vol
      /\ x \notin D => g[x] = vol
  BY AddedIs
<1>. HIDE DEF g
<1>3. \A y \in D \cup {x} : g[y] \in Int BY <1>1, <1>2
<1>4. SumFunctionOnSet(g, D \cup {x}) = g[x] + SumFunctionOnSet(g, (D \cup {x}) \ {x})
  BY <1>1, <1>3, SumSplit
<1>5. IsFiniteSet(D \ {x}) BY <1>1, FS_Subset
<1>6. SumFunctionOnSet(g, D \ {x}) = SumFunctionOnSet(b, D \ {x}) BY <1>1, <1>2, <1>5, SumEqual
<1>7. SumFunctionOnSet(g, D \cup {x}) = g[x] + SumFunctionOnSet(b, D \ {x})
  <2>1. (D \cup {x}) \ {x} = D \ {x} OBVIOUS
  <2>. QED BY <1>4, <1>6, <2>1
<1>10. Volume(g) = SumFunctionOnSet(g, D \cup {x}) /\ Volume(b) = SumFunctionOnSet(b, D)
  BY <1>2 DEF Volume, SumFunction
<1>. SUFFICES Volume(g) = Volume(b) + vol BY DEF g
<1>8. CASE x \in D
  <2>1. /\ SumFunctionOnSet(b, D) = b[x] + SumFunctionOnSet(b, D \ {x})
        /\ SumFunctionOnSet(b, D) \in Int
    BY <1>1, <1>8, SumSplit
  <2>2. SumFunctionOnSet(b, D \ {x}) \in Int /\ b[x] \in Int BY <1>1, <1>5, <1>8, SumInteger
  <2>. QED BY <1>2, <1>7, <1>8, <1>10, <2>1, <2>2
<1>9. CASE x \notin D
  <2>1. D \ {x} = D BY <1>9
  <2>2. SumFunctionOnSet(b, D) \in Int BY <1>1, SumInteger
  <2>. QED BY <1>2, <1>7, <1>9, <1>10, <2>1, <2>2
<1>. QED BY <1>8, <1>9
-----------------------------------------------------------------------------
(* A tick in the session, instrument by instrument and timeframe by timeframe. *)
TickVolume(t, price, d) ==
  Delta(Context(ctx[t], price).volume, market[t] + d, LastQuantity(market[t] + d))

LEMMA TickVolumeIs ==
  ASSUME Types, NEW t \in Token, NEW price \in Price, NEW d \in Trades
  PROVE  /\ market[t] \in Nat /\ d \in Nat /\ market[t] + d \in Nat
         /\ TickVolume(t, price, d) \in Nat
         /\ Context(ctx[t], price) \in [known : BOOLEAN, volume : Nat, price : Price \cup {0}]
         /\ Context(ctx[t], price).volume \in Nat
<1>1. market[t] \in Nat /\ d \in Nat /\ market[t] + d \in Nat
  BY PipelineAssumption DEF Types, TypeOK
<1>2. Context(ctx[t], price) \in [known : BOOLEAN, volume : Nat, price : Price \cup {0}]
  <2>1. ctx[t] \in [known : BOOLEAN, volume : Nat, price : Price \cup {0}] BY DEF Types, TypeOK
  <2>. QED BY <2>1 DEF Context
<1>3. Context(ctx[t], price).volume \in Nat BY <1>2
<1>4. LastQuantity(market[t] + d) \in Nat BY DEF LastQuantity
<1>. QED BY <1>1, <1>2, <1>3, <1>4 DEF TickVolume, Delta

(* The bar that a tick works on. *)
WorkingOn(t, f, m, price) == Working(candle[t][f], m, f, price)

BarTicked(t, m, price, vol, f) ==
  LET w == WorkingOn(t, f, m, price) IN
  /\ Ticked(m, f, price, vol, ingested[t][f], candle[t][f], ingested'[t][f], candle'[t][f])
  /\ ingested'[t][f] \in Seq(Bar) /\ candle'[t][f] \in Bar
  /\ hist'[t][f] = IF w.start < Truncate(m, f) THEN Analyzed(hist[t][f], w) ELSE hist[t][f]

QueueTicked(t, m, price, rows) ==
  /\ queue \subseteq rows /\ rows \subseteq BarRow
  /\ \A r \in rows \ queue :
       \E f \in Timeframe : LET w == WorkingOn(t, f, m, price) IN
         r = RowOf(t, f, w) /\ w.start < Truncate(m, f)

LEMMA BarsTicked ==
  ASSUME Types, NEW t \in Token, NEW m \in Minute, NEW price \in Price, NEW vol \in Nat,
         BarStep(t, m, price, vol)
  PROVE  /\ \A f \in Timeframe : BarTicked(t, m, price, vol, f)
         /\ \A u \in Token \ {t} : candle'[u] = candle[u] /\ hist'[u] = hist[u] /\ ingested'[u] = ingested[u]
         /\ candle' \in [Token -> [Timeframe -> Bar \cup {NoCandle}]]
         /\ hist' \in [Token -> [Timeframe -> History]]
         /\ ingested' = [u \in Token |-> [f \in Timeframe |-> ingested'[u][f]]]
         /\ QueueTicked(t, m, price, queue')
<1>. DEFINE closed(f) == ClosedBy(candle[t][f], m, f, price)
            next(f) == Updated(candle[t][f], m, f, price, vol)
            w(f) == WorkingOn(t, f, m, price)
<1>1. m \in Int BY PipelineAssumption
<1>2. /\ candle \in [Token -> [Timeframe -> Bar \cup {NoCandle}]]
      /\ hist \in [Token -> [Timeframe -> History]]
      /\ ingested = [u \in Token |-> [f \in Timeframe |-> ingested[u][f]]]
      /\ \A u \in Token, f \in Timeframe : ingested[u][f] \in Seq(Bar)
      /\ queue \subseteq BarRow
  BY DEF Types, TypeOK, Shapes, History
<1>3. /\ candle' = [candle EXCEPT ![t] = [f \in Timeframe |-> next(f)]]
      /\ hist' = [hist EXCEPT ![t] =
           [f \in Timeframe |-> IF closed(f) = <<>> THEN hist[t][f] ELSE Analyzed(hist[t][f], closed(f)[1])]]
      /\ ingested' = [ingested EXCEPT ![t] = [f \in Timeframe |-> ingested[t][f] \o closed(f)]]
      /\ queue' = queue \cup {RowOf(t, f, closed(f)[1]) : f \in {g \in Timeframe : closed(g) # <<>>}}
  BY DEF BarStep
<1>4. \A f \in Timeframe :
        /\ Ticked(m, f, price, vol, ingested[t][f], candle[t][f], ingested[t][f] \o closed(f), next(f))
        /\ closed(f) \in {<<>>, <<w(f)>>} /\ w(f) \in Bar
        /\ ingested[t][f] \o closed(f) \in Seq(Bar) /\ next(f) \in Bar
  BY <1>1, <1>2, TickedIs DEF WorkingOn
<1>5. \A f \in Timeframe : closed(f) = IF w(f).start < Truncate(m, f) THEN <<w(f)>> ELSE <<>>
  BY DEF ClosedBy, CloseDue, WorkingOn
<1>. HIDE DEF closed, next, w
<1>6. \A f \in Timeframe : (closed(f) = <<>> <=> ~(w(f).start < Truncate(m, f)))
                          /\ (closed(f) # <<>> => closed(f)[1] = w(f))
  <2>1. \A x : <<x>> # <<>> /\ <<x>>[1] = x OBVIOUS
  <2>. QED BY <1>5, <2>1
<1>7. \A f \in Timeframe :
        /\ candle'[t][f] = next(f) /\ ingested'[t][f] = ingested[t][f] \o closed(f)
        /\ hist'[t][f] = IF closed(f) = <<>> THEN hist[t][f] ELSE Analyzed(hist[t][f], closed(f)[1])
  BY <1>2, <1>3
<1>8. \A f \in Timeframe : BarTicked(t, m, price, vol, f)
  BY <1>4, <1>6, <1>7 DEF BarTicked, w
<1>9. \A u \in Token \ {t} : candle'[u] = candle[u] /\ hist'[u] = hist[u] /\ ingested'[u] = ingested[u]
  BY <1>2, <1>3
<1>10. candle' \in [Token -> [Timeframe -> Bar \cup {NoCandle}]]
  <2>1. [f \in Timeframe |-> next(f)] \in [Timeframe -> Bar \cup {NoCandle}] BY <1>4
  <2>. QED BY <1>2, <1>3, <2>1
<1>11. hist' \in [Token -> [Timeframe -> History]]
  <2>1. \A f \in Timeframe : Analyzed(hist[t][f], w(f)) \in History BY <1>2, <1>4, AnalyzedIs
  <2>2. [f \in Timeframe |-> IF closed(f) = <<>> THEN hist[t][f] ELSE Analyzed(hist[t][f], closed(f)[1])]
          \in [Timeframe -> History]
    BY <1>2, <1>6, <2>1
  <2>. QED BY <1>2, <1>3, <2>2
<1>12. ingested' = [u \in Token |-> [f \in Timeframe |-> ingested'[u][f]]]
  <2>1. \A u \in Token : ingested'[u] = [f \in Timeframe |-> ingested'[u][f]] BY <1>2, <1>3
  <2>2. ingested' = [u \in Token |-> ingested'[u]] BY <1>2, <1>3
  <2>. QED BY <2>1, <2>2
<1>13. QueueTicked(t, m, price, queue')
  <2>1. \A f \in Timeframe : RowOf(t, f, w(f)) \in BarRow BY <1>4 DEF RowOf, BarRow, Bar
  <2>2. \A r \in queue' \ queue : \E f \in Timeframe : r = RowOf(t, f, w(f)) /\ w(f).start < Truncate(m, f)
    BY <1>3, <1>6
  <2>3. queue' \subseteq BarRow BY <1>2, <2>1, <2>2
  <2>4. queue \subseteq queue' BY <1>3
  <2>. QED BY <2>2, <2>3, <2>4 DEF QueueTicked, w
<1>. QED BY <1>8, <1>9, <1>10, <1>11, <1>12, <1>13
-----------------------------------------------------------------------------
(* Type correctness. *)
LEMMA NothingFinite == Finite(NoBuckets) /\ \A t, f : IsFiniteSet(StartsIn({}, t, f))
<1>1. DOMAIN NoBuckets = {} BY DEF NoBuckets
<1>2. \A t, f : StartsIn({}, t, f) = {} BY DEF StartsIn
<1>. QED BY <1>1, <1>2, FS_EmptySet DEF Finite, IsBuckets

LEMMA InitTypes == Init => Types
<1>. SUFFICES ASSUME Init PROVE Types OBVIOUS
<1>0. OpenMinute \in Nat /\ MaxTicks \in Nat /\ MaxRestarts \in Nat
  BY BarAssumption, PipelineAssumption
<1>1. /\ now \in Minute \cup {-OpenMinute} /\ market \in [Token -> Nat] /\ mapped \subseteq Token
      /\ quoted \in [Token -> Price \cup {0}] /\ queue \subseteq BarRow /\ table \subseteq BarRow
      /\ ticks \in 0 .. MaxTicks /\ restarts \in 0 .. MaxRestarts
  BY <1>0 DEF Init, Zero
<1>2. ctx \in [Token -> [known : BOOLEAN, volume : Nat, price : Price \cup {0}]]
  BY DEF Init, Mapped, Unmapped
<1>3. profile = [t \in Token |-> EmptyProfile] /\ saved = [t \in Token |-> NoRow] BY DEF Init
<1>4. /\ EmptyProfile.buckets = NoBuckets /\ EmptyProfile.nodes = NoBuckets /\ NoRow.nodes = NoBuckets
      /\ EmptyProfile.total = 0 /\ EmptyProfile.ticks = 0 /\ NoRow.total = 0
  BY DEF EmptyProfile, NoRow
<1>5. \A t \in Token : profile[t] = EmptyProfile /\ saved[t] = NoRow BY <1>3
<1>6. /\ profile = [t \in Token |-> profile[t]] /\ saved = [t \in Token |-> saved[t]]
      /\ \A t \in Token : Finite(profile[t].buckets) /\ Finite(profile[t].nodes) /\ Finite(saved[t].nodes)
      /\ \A t \in Token : {profile[t].total, profile[t].ticks, saved[t].total} \subseteq Nat
  BY <1>3, <1>4, <1>5, NothingFinite
<1>7. candle \in [Token -> [Timeframe -> Bar \cup {NoCandle}]] BY DEF Init, PerBar
<1>8. hist \in [Token -> [Timeframe -> [bars : Nat, anchored : BOOLEAN, held : Nat]]]
  BY DEF Init, PerBar, NewHistory
<1>9. /\ \A t \in Token, f \in Timeframe : ingested[t][f] \in Seq(Bar)
      /\ ingested = [t \in Token |-> [f \in Timeframe |-> ingested[t][f]]]
  BY DEF Init, PerBar
<1>10. /\ base \in [Token -> Int] /\ heard \in [Token -> Int] /\ lost \in [Token -> Int]
       /\ carried \in [Token -> Nat] /\ orphaned \in [Token -> Int]
       /\ warmed \in [Token -> [Timeframe -> Nat]] /\ saves = {}
  BY DEF Init, PerBar, Zero, Never
<1>11. \A t \in Token, f \in Timeframe : IsFiniteSet(StartsIn(queue, t, f)) /\ IsFiniteSet(StartsIn(table, t, f))
  BY NothingFinite DEF Init
<1>. QED BY <1>1, <1>2, <1>6, <1>7, <1>8, <1>9, <1>10, <1>11 DEF Types, TypeOK, Shapes, Finite

(* The part of a tick that is not about bars. *)
LEMMA ProfileTypes ==
  ASSUME Types, NEW t \in Token, NEW price \in Price, NEW vol \in Nat, ProfileStep(t, price, vol)
  PROVE  /\ profile' = [u \in Token |-> profile'[u]]
         /\ \A u \in Token : Profile(profile'[u])
         /\ \A s \in saves' : s.token \in Token /\ Finite(s.row.nodes) /\ s.row.total \in Nat
<1>1. /\ profile = [u \in Token |-> profile[u]] /\ \A u \in Token : Profile(profile[u])
      /\ \A s \in saves : s.token \in Token /\ Finite(s.row.nodes) /\ s.row.total \in Nat
  BY DEF Types, TypeOK, Shapes, Profile
<1>2. CASE vol = 0 BY <1>1, <1>2 DEF ProfileStep
<1>3. CASE vol # 0
  <2>. DEFINE p == Traded(profile[t], price, vol)
              s == [token |-> t, row |-> Row(p)]
  <2>1. profile' = [profile EXCEPT ![t] = p] /\ saves' \subseteq saves \cup {s} BY <1>3 DEF ProfileStep
  <2>2. Profile(p) BY <1>1, TradedTypes
  <2>. HIDE DEF p
  <2>3. s.token \in Token /\ Finite(s.row.nodes) /\ s.row.total \in Nat BY <2>2 DEF Row, Profile
  <2>. HIDE DEF s
  <2>4. \A u \in Token : profile'[u] = IF u = t THEN p ELSE profile[u] BY <1>1, <2>1
  <2>5. profile' = [u \in Token |-> profile'[u]] BY <1>1, <2>1
  <2>. QED BY <1>1, <2>1, <2>2, <2>3, <2>4, <2>5
<1>. QED BY <1>2, <1>3

LEMMA SessionIs ==
  ASSUME NEW t, NEW m, NEW price, NEW d, SessionTick(t, m, price, d)
  PROVE  /\ m >= 0
         /\ market' = [market EXCEPT ![t] = market[t] + d]
         /\ ctx' = [ctx EXCEPT ![t] = Enriched(ctx[t], price, market[t] + d)]
         /\ quoted' = IF Announces(ctx[t], price, TickVolume(t, price, d)) THEN [quoted EXCEPT ![t] = price]
                      ELSE quoted
         /\ ProfileStep(t, price, TickVolume(t, price, d))
         /\ BarStep(t, m, price, TickVolume(t, price, d))
         /\ base' = IF base[t] = Never
                    THEN [base EXCEPT ![t] = (market[t] + d) - LastQuantity(market[t] + d)] ELSE base
         /\ heard' = [heard EXCEPT ![t] = market[t] + d]
         /\ lost' = [lost EXCEPT ![t] = lost[t] + Uncounted(t, market[t] + d)]
         /\ saved' = saved /\ table' = table
         /\ carried' = carried /\ orphaned' = orphaned /\ warmed' = warmed
<1>1. m >= 0 /\ market' = [market EXCEPT ![t] = market[t] + d] BY DEF SessionTick
<1>2. ctx' = [ctx EXCEPT ![t] = Enriched(ctx[t], price, market[t] + d)] BY Zenon DEF SessionTick
<1>3. quoted' = IF Announces(ctx[t], price, TickVolume(t, price, d)) THEN [quoted EXCEPT ![t] = price]
                ELSE quoted
  BY Zenon DEF SessionTick, TickVolume
<1>4. ProfileStep(t, price, TickVolume(t, price, d)) BY Zenon DEF SessionTick, TickVolume
<1>5. BarStep(t, m, price, TickVolume(t, price, d)) BY Zenon DEF SessionTick, TickVolume
<1>6. base' = IF base[t] = Never
              THEN [base EXCEPT ![t] = (market[t] + d) - LastQuantity(market[t] + d)] ELSE base
  BY Zenon DEF SessionTick
<1>8. heard' = [heard EXCEPT ![t] = market[t] + d] BY Zenon DEF SessionTick
<1>9. lost' = [lost EXCEPT ![t] = lost[t] + Uncounted(t, market[t] + d)] BY Zenon DEF SessionTick
<1>7. saved' = saved /\ table' = table /\ carried' = carried /\ orphaned' = orphaned /\ warmed' = warmed
  BY Zenon DEF SessionTick
<1>. QED BY <1>1, <1>2, <1>3, <1>4, <1>5, <1>6, <1>7, <1>8, <1>9

LEMMA SessionTypes ==
  ASSUME Types, NEW t \in Token, NEW m \in Minute, NEW price \in Price, NEW d \in Trades,
         SessionTick(t, m, price, d), now' = m, ticks' \in 0 .. MaxTicks,
         mapped' = mapped, restarts' = restarts
  PROVE  Types'
<1>. DEFINE vol == TickVolume(t, price, d)
<1>1. vol \in Nat /\ market[t] + d \in Nat BY TickVolumeIs
<1>2. /\ market' = [market EXCEPT ![t] = market[t] + d]
      /\ ctx' = [ctx EXCEPT ![t] = Enriched(ctx[t], price, market[t] + d)]
      /\ ProfileStep(t, price, vol) /\ BarStep(t, m, price, vol)
      /\ saved' = saved /\ table' = table
      /\ carried' = carried /\ orphaned' = orphaned /\ warmed' = warmed
  BY SessionIs
<1>14. quoted' = quoted \/ quoted' = [quoted EXCEPT ![t] = price] BY SessionIs
<1>15. /\ base' = base \/ base' = [base EXCEPT ![t] = (market[t] + d) - LastQuantity(market[t] + d)]
       /\ heard' = [heard EXCEPT ![t] = market[t] + d]
       /\ lost' = [lost EXCEPT ![t] = lost[t] + Uncounted(t, market[t] + d)]
  BY SessionIs
<1>. HIDE DEF vol
<1>3. market' \in [Token -> Nat] BY <1>1, <1>2 DEF Types, TypeOK
<1>4. ctx' \in [Token -> [known : BOOLEAN, volume : Nat, price : Price \cup {0}]]
  <2>. DEFINE CtxType == [known : BOOLEAN, volume : Nat, price : Price \cup {0}]
              c == Context(ctx[t], price)
  <2>1. c \in CtxType BY TickVolumeIs
  <2>2. Enriched(ctx[t], price, market[t] + d) = [c EXCEPT !.volume = market[t] + d, !.price = price]
    BY DEF Enriched
  <2>. HIDE DEF c
  <2>3. [c EXCEPT !.volume = market[t] + d, !.price = price] \in CtxType BY <1>1, <2>1
  <2>4. ctx \in [Token -> CtxType] BY DEF Types, TypeOK
  <2>. HIDE DEF CtxType
  <2>5. ctx' \in [Token -> CtxType] BY <1>2, <2>2, <2>3, <2>4
  <2>. QED BY <2>5 DEF CtxType
<1>5. quoted' \in [Token -> Price \cup {0}] BY <1>14 DEF Types, TypeOK
<1>6. /\ profile' = [u \in Token |-> profile'[u]] /\ \A u \in Token : Profile(profile'[u])
      /\ \A s \in saves' : s.token \in Token /\ Finite(s.row.nodes) /\ s.row.total \in Nat
  BY <1>1, <1>2, ProfileTypes
<1>7. /\ \A f \in Timeframe : BarTicked(t, m, price, vol, f)
      /\ \A u \in Token \ {t} : candle'[u] = candle[u] /\ hist'[u] = hist[u] /\ ingested'[u] = ingested[u]
      /\ candle' \in [Token -> [Timeframe -> Bar \cup {NoCandle}]]
      /\ hist' \in [Token -> [Timeframe -> History]]
      /\ ingested' = [u \in Token |-> [f \in Timeframe |-> ingested'[u][f]]]
      /\ QueueTicked(t, m, price, queue')
  BY <1>1, <1>2, BarsTicked
<1>8. \A u \in Token, f \in Timeframe : ingested'[u][f] \in Seq(Bar)
  BY <1>7 DEF BarTicked, Types, TypeOK
<1>9. base' \in [Token -> Int] /\ heard' \in [Token -> Int] /\ lost' \in [Token -> Int]
  <2>1. \A x \in Nat : x - LastQuantity(x) \in Int BY DEF LastQuantity
  <2>2. /\ base \in [Token -> Int] /\ heard \in [Token -> Int] /\ lost \in [Token -> Int]
        /\ market[t] \in Nat
    BY DEF Types, TypeOK, Shapes
  <2>3. Uncounted(t, market[t] + d) \in Int
    BY <1>1, <2>2 DEF Uncounted, LastQuantity
  <2>. QED BY <1>1, <1>15, <2>1, <2>2, <2>3
<1>10. ASSUME NEW u \in Token, NEW f \in Timeframe PROVE IsFiniteSet(StartsIn(queue', u, f))
  <2>. DEFINE x == WorkingOn(t, f, m, price).start
  <2>1. IsFiniteSet(StartsIn(queue, u, f) \cup {x}) BY FS_AddElement DEF Types, Shapes
  <2>2. StartsIn(queue', u, f) \subseteq StartsIn(queue, u, f) \cup {x}
    <3>1. ASSUME NEW r \in queue', r.token = u, r.tf = f, r \notin queue PROVE r.start = x
      <4>1. PICK g \in Timeframe : r = RowOf(t, g, WorkingOn(t, g, m, price))
        BY <1>7, <3>1 DEF QueueTicked
      <4>2. g = f BY <3>1, <4>1 DEF RowOf
      <4>. QED BY <4>1, <4>2 DEF RowOf
    <3>. HIDE DEF x
    <3>. QED BY <3>1 DEF StartsIn
  <2>. QED BY <2>1, <2>2, FS_Subset
<1>11. \A u \in Token : saved[u].total \in Nat /\ Finite(saved[u].nodes) BY DEF Types, TypeOK, Shapes
<1>12. TypeOK'
  BY <1>2, <1>3, <1>4, <1>5, <1>6, <1>7, <1>8, <1>11
  DEF TypeOK, Types, Profile, Finite, QueueTicked, History
<1>13. Shapes' BY <1>2, <1>6, <1>7, <1>9, <1>10, <1>11 DEF Types, Shapes, Profile
<1>. QED BY <1>12, <1>13 DEF Types

LEMMA LoadedIs ==
  ASSUME NEW row
  PROVE  /\ Loaded(row).buckets = row.nodes /\ Loaded(row).nodes = row.nodes
         /\ Loaded(row).total = row.total /\ Loaded(row).ticks = 0
BY DEF Loaded

LEMMA RestartTypes == ASSUME Types, Restart PROVE Types'
<1>1. \A t \in Token, f \in Timeframe :
        /\ SessionBars(t, f) \in Seq(Bar) /\ Len(SessionBars(t, f)) \in Nat
        /\ WorkingBar(SessionBars(t, f)) \in Bar \cup {NoCandle}
        /\ Rehydrated(SessionBars(t, f)) \in History
  <2>1. ASSUME NEW bars \in Seq(Bar)
        PROVE  /\ Len(bars) \in Nat /\ WorkingBar(bars) \in Bar \cup {NoCandle}
               /\ Rehydrated(bars) \in History
    <3>1. Remembers(Rehydrated(bars), bars, Len(bars)) BY RehydratedRemembers
    <3>2. Rehydrated(bars) \in History BY <3>1 DEF Remembers
    <3>3. Len(bars) \in Nat /\ (bars # <<>> => bars[Len(bars)] \in Bar) OBVIOUS
    <3>. QED BY <3>2, <3>3 DEF WorkingBar
  <2>. QED BY <2>1, ReadBack
<1>2. /\ restarts' \in 0 .. MaxRestarts /\ now' = now /\ market' = market /\ mapped' = mapped
      /\ saved' = saved /\ table' = table /\ ticks' = ticks /\ saves' = {} /\ queue' = {}
  BY PipelineAssumption DEF Restart, Types, TypeOK
<1>3. /\ quoted' \in [Token -> Price \cup {0}]
      /\ ctx' \in [Token -> [known : BOOLEAN, volume : Nat, price : Price \cup {0}]]
  BY DEF Restart, Zero, Mapped, Unmapped
<1>4. /\ profile' = [t \in Token |-> profile'[t]]
      /\ \A t \in Token : Finite(profile'[t].buckets) /\ Finite(profile'[t].nodes)
      /\ \A t \in Token : {profile'[t].total, profile'[t].ticks} \subseteq Nat
  <2>1. profile' = [t \in Token |-> Loaded(saved[t])] BY DEF Restart
  <2>2. \A t \in Token : profile'[t] = Loaded(saved[t]) BY <2>1
  <2>3. profile' = [t \in Token |-> profile'[t]] BY <2>1
  <2>4. \A t \in Token : /\ profile'[t].buckets = saved[t].nodes /\ profile'[t].nodes = saved[t].nodes
                         /\ profile'[t].total = saved[t].total /\ profile'[t].ticks = 0
    BY <2>2, LoadedIs
  <2>5. \A t \in Token : Finite(saved[t].nodes) /\ saved[t].total \in Nat BY DEF Types, TypeOK, Shapes
  <2>. QED BY <2>3, <2>4, <2>5
<1>5. /\ candle' \in [Token -> [Timeframe -> Bar \cup {NoCandle}]]
      /\ hist' \in [Token -> [Timeframe -> History]]
      /\ warmed' \in [Token -> [Timeframe -> Nat]]
  BY <1>1 DEF Restart
<1>6. /\ ingested' = [t \in Token |-> [f \in Timeframe |-> ingested'[t][f]]]
      /\ \A t \in Token, f \in Timeframe : ingested'[t][f] \in Seq(Bar)
  <2>1. ingested' = [t \in Token |-> [f \in Timeframe |-> SessionBars(t, f)]] BY DEF Restart
  <2>2. \A t \in Token, f \in Timeframe : ingested'[t][f] = SessionBars(t, f) BY <2>1
  <2>. QED BY <1>1, <2>1, <2>2
<1>7. base' \in [Token -> Int] /\ heard' \in [Token -> Int] /\ lost' \in [Token -> Int]
  <2>1. base' = base /\ heard' = [t \in Token |-> Never] BY DEF Restart
  <2>2. lost' = [t \in Token |-> lost[t] + profile[t].total - saved[t].total] BY DEF Restart
  <2>3. \A t \in Token : profile[t].total \in Nat /\ saved[t].total \in Nat BY DEF Types, TypeOK
  <2>4. base \in [Token -> Int] /\ lost \in [Token -> Int] BY DEF Types, Shapes
  <2>. QED BY <2>1, <2>2, <2>3, <2>4 DEF Never
<1>10. carried' \in [Token -> Nat]
  BY DEF Restart, Types, TypeOK
<1>8. orphaned' \in [Token -> Int]
  <2>1. \A t \in Token : saved[t].total - Volume(saved[t].nodes) \in Int
    BY VolumeIs DEF Types, TypeOK, Shapes
  <2>2. orphaned' = [t \in Token |-> saved[t].total - Volume(saved[t].nodes)] BY DEF Restart
  <2>. QED BY <2>1, <2>2
<1>9. \A t \in Token, f \in Timeframe : IsFiniteSet(StartsIn(queue', t, f)) /\ IsFiniteSet(StartsIn(table', t, f))
  BY <1>2, NothingFinite DEF Types, Shapes
<1>. QED
  BY <1>2, <1>3, <1>4, <1>5, <1>6, <1>7, <1>8, <1>9, <1>10 DEF Types, TypeOK, Shapes, Finite, History

LEMMA FlushTypes == ASSUME Types, FlushBars PROVE Types'
<1>1. queue' = {} /\ table' \subseteq table \cup queue BY DEF FlushBars
<1>2. queue \subseteq BarRow /\ table \subseteq BarRow BY DEF Types, TypeOK
<1>3. ASSUME NEW t \in Token, NEW f \in Timeframe
      PROVE IsFiniteSet(StartsIn(queue', t, f)) /\ IsFiniteSet(StartsIn(table', t, f))
  <2>1. IsFiniteSet(StartsIn(table, t, f) \cup StartsIn(queue, t, f)) BY FS_Union DEF Types, Shapes
  <2>2. StartsIn(table', t, f) \subseteq StartsIn(table, t, f) \cup StartsIn(queue, t, f)
    BY <1>1 DEF StartsIn
  <2>. QED BY <1>1, <2>1, <2>2, FS_Subset, NothingFinite
<1>4. UNCHANGED <<now, market, mapped, stages, saves, saved, ticks, restarts, seen>> BY DEF FlushBars
<1>5. TypeOK' BY <1>1, <1>2, <1>4 DEF Types, TypeOK, stages
<1>6. Shapes' BY <1>3, <1>4 DEF Types, Shapes, stages, seen
<1>. QED BY <1>5, <1>6 DEF Types

LEMMA SaveTypes == ASSUME Types, NEW s \in saves, SaveProfile(s) PROVE Types'
<1>1. /\ saves' \subseteq saves
      /\ saved' = saved \/ saved' = [saved EXCEPT ![s.token] = s.row]
      /\ UNCHANGED <<now, market, mapped, stages, queue, table, ticks, restarts, seen>>
  BY DEF SaveProfile
<1>2. s.token \in Token /\ Finite(s.row.nodes) /\ s.row.total \in Nat BY DEF Types, Shapes
<1>3. /\ saved = [t \in Token |-> saved[t]]
      /\ \A t \in Token : Finite(saved[t].nodes) /\ saved[t].total \in Nat
  BY DEF Types, Shapes, TypeOK
<1>4. \A t \in Token : saved'[t] = saved[t] \/ saved'[t] = s.row BY <1>1, <1>3
<1>5. saved' = [t \in Token |-> saved'[t]] BY <1>1, <1>3
<1>6. \A t \in Token : Finite(saved'[t].nodes) /\ saved'[t].total \in Nat BY <1>2, <1>3, <1>4
<1>7. TypeOK' BY <1>1, <1>6 DEF Types, TypeOK, stages, Finite
<1>8. Shapes' BY <1>1, <1>5, <1>6 DEF Types, Shapes, stages, seen
<1>. QED BY <1>7, <1>8 DEF Types

(* A tick is dropped by the stages or goes through all of them. *)
LEMMA TickIs ==
  ASSUME Types, NEW t \in Token, NEW m \in Minute, NEW price \in Price, NEW d \in Trades, Tick(t, m, price, d)
  PROVE  /\ ticks' \in 0 .. MaxTicks /\ now' = m /\ mapped' = mapped /\ restarts' = restarts
         /\ m >= now /\ m \in Int /\ now \in Int
         /\ PreMarketTick(t, m, d) \/ SessionTick(t, m, price, d)
<1>1. ticks \in Nat /\ MaxTicks \in Nat /\ Minute \subseteq Int /\ -OpenMinute \in Int
  BY PipelineAssumption, BarAssumption DEF Types, TypeOK
<1>. QED BY <1>1 DEF Tick, Types, TypeOK

LEMMA PreMarketTypes ==
  ASSUME Types, NEW t \in Token, NEW m \in Minute, NEW d \in Trades, PreMarketTick(t, m, d),
         now' = m, ticks' \in 0 .. MaxTicks, mapped' = mapped, restarts' = restarts
  PROVE  Types'
<1>1. market' \in [Token -> Nat] BY PipelineAssumption DEF PreMarketTick, Types, TypeOK
<1>2. UNCHANGED <<stages, stored, seen>> BY DEF PreMarketTick
<1>3. TypeOK' BY <1>1, <1>2 DEF Types, TypeOK, stages, stored
<1>4. Shapes' BY <1>2 DEF Types, Shapes, stages, stored, seen
<1>. QED BY <1>3, <1>4 DEF Types

LEMMA StepTypes == Types /\ [Next]_vars => Types'
<1>. SUFFICES ASSUME Types, [Next]_vars PROVE Types' OBVIOUS
<1>1. ASSUME NEW t \in Token, NEW m \in Minute, NEW price \in Price, NEW d \in Trades, Tick(t, m, price, d)
      PROVE  Types'
  BY <1>1, TickIs, PreMarketTypes, SessionTypes
<1>2. ASSUME NEW s \in saves, SaveProfile(s) PROVE Types' BY <1>2, SaveTypes
<1>3. CASE FlushBars BY <1>3, FlushTypes
<1>4. CASE Restart BY <1>4, RestartTypes
<1>5. CASE UNCHANGED vars BY <1>5 DEF vars, stages, stored, seen, Types, TypeOK, Shapes
<1>. QED BY <1>1, <1>2, <1>3, <1>4, <1>5 DEF Next

LEMMA TypesKept == Spec => []Types
  BY InitTypes, StepTypes, PTL DEF Spec

(* Every variable keeps its range: counters and volumes never become negative, whatever
   ticks are dropped and whenever the process dies. *)
THEOREM TypeCorrect == Spec => []TypeOK
<1>1. Types => TypeOK BY DEF Types
<1>. QED BY <1>1, TypesKept, PTL
-----------------------------------------------------------------------------
(* The price that orders see.  An instrument that the enrichment does not know yet has no
   DNA and was never announced. *)
Heard ==
  \A t \in Token : ~ctx[t].known =>
    t \notin mapped /\ quoted[t] = 0 /\ ctx[t].price = 0 /\ ctx[t].volume = 0

Contexts == [known : BOOLEAN, volume : Nat, price : Price \cup {0}]

LEMMA EnrichedIs ==
  ASSUME NEW c \in Contexts, NEW price \in Price, NEW cum \in Nat
  PROVE  /\ Enriched(c, price, cum).known /\ Enriched(c, price, cum).volume = cum
         /\ Enriched(c, price, cum).price = price
         /\ c.known => Context(c, price).price = c.price /\ Context(c, price).volume = c.volume
         /\ ~c.known => Context(c, price).price = price /\ Context(c, price).volume = 0
<1>. DEFINE k == Context(c, price)
<1>1. k \in Contexts /\ k.known BY DEF Context, Contexts
<1>2. /\ c.known => k.price = c.price /\ k.volume = c.volume
      /\ ~c.known => k.price = price /\ k.volume = 0
  BY DEF Context
<1>3. Enriched(c, price, cum) = [k EXCEPT !.volume = cum, !.price = price] BY DEF Enriched
<1>. HIDE DEF k
<1>4. /\ [k EXCEPT !.volume = cum, !.price = price].known
      /\ [k EXCEPT !.volume = cum, !.price = price].volume = cum
      /\ [k EXCEPT !.volume = cum, !.price = price].price = price
  BY <1>1 DEF Contexts
<1>. QED BY <1>2, <1>3, <1>4 DEF k

(* What a session tick does to the context and the announced price of its instrument. *)
LEMMA SessionPrices ==
  ASSUME Types, NEW t \in Token, NEW m, NEW price \in Price, NEW d \in Trades, SessionTick(t, m, price, d)
  PROVE  /\ ctx'[t].known /\ ctx'[t].volume = market[t] + d /\ ctx'[t].price = price
         /\ market'[t] = market[t] + d
         /\ \A u \in Token \ {t} : ctx'[u] = ctx[u] /\ quoted'[u] = quoted[u] /\ market'[u] = market[u]
         /\ ctx[t].known /\ ctx[t].price = price => quoted'[t] = quoted[t]
         /\ ctx[t].known /\ ctx[t].price # price => quoted'[t] = price
         /\ ~ctx[t].known => quoted'[t] = quoted[t]
<1>1. /\ ctx \in [Token -> Contexts] /\ quoted \in [Token -> Price \cup {0}]
      /\ market \in [Token -> Nat] /\ d \in Nat
  BY PipelineAssumption DEF Types, TypeOK, Contexts
<1>2. /\ market' = [market EXCEPT ![t] = market[t] + d]
      /\ ctx' = [ctx EXCEPT ![t] = Enriched(ctx[t], price, market[t] + d)]
  BY SessionIs
<1>3. quoted' = IF Context(ctx[t], price).price # price THEN [quoted EXCEPT ![t] = price] ELSE quoted
  BY SessionIs DEF Announces
<1>. DEFINE e == Enriched(ctx[t], price, market[t] + d)
            k == Context(ctx[t], price)
<1>4. ctx[t] \in Contexts /\ market[t] + d \in Nat BY <1>1
<1>5. /\ e.known /\ e.volume = market[t] + d /\ e.price = price
      /\ ctx[t].known => k.price = ctx[t].price
      /\ ~ctx[t].known => k.price = price
  BY <1>4, EnrichedIs
<1>. HIDE DEF e, k
<1>6. /\ ctx'[t] = e /\ market'[t] = market[t] + d
      /\ \A u \in Token \ {t} : ctx'[u] = ctx[u] /\ market'[u] = market[u]
  BY <1>1, <1>2 DEF e
<1>7. quoted' = IF k.price # price THEN [quoted EXCEPT ![t] = price] ELSE quoted BY <1>3 DEF k
<1>8. /\ \A u \in Token \ {t} : quoted'[u] = quoted[u]
      /\ quoted'[t] = IF k.price # price THEN price ELSE quoted[t]
  BY <1>1, <1>7
<1>9. /\ ctx[t].known /\ ctx[t].price = price => quoted'[t] = quoted[t]
      /\ ctx[t].known /\ ctx[t].price # price => quoted'[t] = price
      /\ ~ctx[t].known => quoted'[t] = quoted[t]
  BY <1>5, <1>8
<1>10. ctx'[t].known /\ ctx'[t].volume = market[t] + d /\ ctx'[t].price = price BY <1>5, <1>6, Zenon
<1>. QED BY <1>6, <1>8, <1>9, <1>10, Zenon

Quotes == Heard /\ OrdersSeePrice

LEMMA InitQuotes == Init => Quotes
<1>. SUFFICES ASSUME Init PROVE Quotes OBVIOUS
<1>1. \A t \in Token : ctx[t] = IF t \in mapped THEN Mapped ELSE Unmapped BY DEF Init
<1>2. \A t \in Token : /\ ctx[t].price = 0 /\ ctx[t].volume = 0 /\ quoted[t] = 0
                       /\ (~ctx[t].known => t \notin mapped)
  BY <1>1 DEF Mapped, Unmapped, Init, Zero
<1>3. Heard BY <1>2, Zenon DEF Heard
<1>4. OrdersSeePrice BY <1>2, Zenon DEF OrdersSeePrice
<1>. QED BY <1>3, <1>4 DEF Quotes

LEMMA StepQuotes == Types /\ Quotes /\ [Next]_vars => Quotes'
<1>. SUFFICES ASSUME Types, Quotes, [Next]_vars PROVE Quotes' OBVIOUS
<1>1. ASSUME NEW t \in Token, NEW m \in Minute, NEW price \in Price, NEW d \in Trades, Tick(t, m, price, d)
      PROVE  Quotes'
  <2>1. mapped' = mapped /\ (PreMarketTick(t, m, d) \/ SessionTick(t, m, price, d)) BY <1>1, TickIs
  <2>2. CASE PreMarketTick(t, m, d)
    BY <2>1, <2>2 DEF PreMarketTick, stages, Quotes, Heard, OrdersSeePrice
  <2>3. CASE SessionTick(t, m, price, d)
    <3>1. /\ ctx'[t].known /\ ctx'[t].price = price
          /\ \A u \in Token \ {t} : ctx'[u] = ctx[u] /\ quoted'[u] = quoted[u]
          /\ ctx[t].known /\ ctx[t].price = price => quoted'[t] = quoted[t]
          /\ ctx[t].known /\ ctx[t].price # price => quoted'[t] = price
          /\ ~ctx[t].known => quoted'[t] = quoted[t]
      BY <2>3, SessionPrices
    <3>2. price # 0 BY PipelineAssumption
    <3>3. Heard' BY <2>1, <3>1 DEF Quotes, Heard
    <3>4. OrdersSeePrice' BY <2>1, <3>1, <3>2 DEF Quotes, Heard, OrdersSeePrice
    <3>. QED BY <3>3, <3>4 DEF Quotes
  <2>. QED BY <2>1, <2>2, <2>3
<1>2. ASSUME NEW s \in saves, SaveProfile(s) PROVE Quotes'
  BY <1>2 DEF SaveProfile, stages, Quotes, Heard, OrdersSeePrice
<1>3. CASE FlushBars BY <1>3 DEF FlushBars, stages, Quotes, Heard, OrdersSeePrice
<1>4. CASE Restart
  <2>1. mapped' = mapped /\ quoted' = Zero
        /\ ctx' = [t \in Token |-> IF t \in mapped THEN Mapped ELSE Unmapped]
    BY <1>4 DEF Restart
  <2>2. \A t \in Token : ctx'[t] = IF t \in mapped THEN Mapped ELSE Unmapped BY <2>1
  <2>3. \A t \in Token : /\ ctx'[t].price = 0 /\ ctx'[t].volume = 0 /\ quoted'[t] = 0
                         /\ (~ctx'[t].known => t \notin mapped')
    BY <2>1, <2>2 DEF Mapped, Unmapped, Zero
  <2>4. Heard' BY <2>3, Zenon DEF Heard
  <2>5. OrdersSeePrice' BY <2>3, Zenon DEF OrdersSeePrice
  <2>. QED BY <2>4, <2>5 DEF Quotes
<1>5. CASE UNCHANGED vars BY <1>5 DEF vars, stages, Quotes, Heard, OrdersSeePrice
<1>. QED BY <1>1, <1>2, <1>3, <1>4, <1>5 DEF Next

(* The order manager fills and liquidates at the price of the last tick, over restarts and
   dropped ticks, but for an instrument without DNA whose price has not moved since its
   first tick. *)
THEOREM PricesSeen == Spec => []OrdersSeePrice
<1>1. Init => Types /\ Quotes BY InitTypes, InitQuotes
<1>2. (Types /\ Quotes) /\ [Next]_vars => (Types /\ Quotes)' BY StepTypes, StepQuotes
<1>3. Types /\ Quotes => OrdersSeePrice BY DEF Quotes
<1>. QED BY <1>1, <1>2, <1>3, PTL DEF Spec
-----------------------------------------------------------------------------
(* The volume.  What the profile holds and what was lost is together what the exchange
   traded since the token was first seen; the enrichment's counter is the exchange's once
   this process has got a tick.  Until the first tick of all nothing is counted or saved. *)
Gained(t) == profile[t].total - carried[t]

Counting ==
  /\ \A t \in Token :
       /\ base[t] # Never => now >= 0 /\ profile[t].total + lost[t] = market[t] - base[t]
       /\ base[t] = Never => profile[t].total = 0 /\ saved[t].total = 0 /\ lost[t] = 0
       /\ heard[t] # Never => base[t] # Never /\ heard[t] = market[t]
       /\ ctx[t].volume = IF heard[t] = Never THEN 0 ELSE heard[t]
  /\ \A s \in saves : base[s.token] # Never

LEMMA ProfileGains ==
  ASSUME Types, NEW t \in Token, NEW price, NEW vol \in Nat, ProfileStep(t, price, vol)
  PROVE  /\ profile'[t].total = profile[t].total + vol
         /\ \A u \in Token \ {t} : profile'[u] = profile[u]
<1>1. profile = [u \in Token |-> profile[u]] /\ profile[t].total \in Nat BY DEF Types, TypeOK, Shapes
<1>2. CASE vol = 0 BY <1>1, <1>2 DEF ProfileStep
<1>3. CASE vol # 0
  <2>. DEFINE p == Traded(profile[t], price, vol)
  <2>1. profile' = [profile EXCEPT ![t] = p] BY <1>3 DEF ProfileStep
  <2>2. p.total = profile[t].total + vol BY TradedIs DEF TradeOf
  <2>. HIDE DEF p
  <2>3. profile'[t] = p /\ \A u \in Token \ {t} : profile'[u] = profile[u] BY <1>1, <2>1
  <2>. QED BY <2>2, <2>3
<1>. QED BY <1>2, <1>3

(* What the profile of each instrument gains by a tick in the session. *)
LEMMA SessionGains ==
  ASSUME Types, NEW t \in Token, NEW m, NEW price \in Price, NEW d \in Trades, SessionTick(t, m, price, d)
  PROVE  /\ TickVolume(t, price, d) \in Nat
         /\ Gained(t)' = Gained(t) + TickVolume(t, price, d)
         /\ \A u \in Token \ {t} : Gained(u)' = Gained(u)
<1>1. TickVolume(t, price, d) \in Nat BY TickVolumeIs
<1>2. ProfileStep(t, price, TickVolume(t, price, d)) /\ carried' = carried BY SessionIs
<1>5. profile[t].total \in Nat /\ carried[t] \in Nat BY DEF Types, TypeOK, Shapes
<1>6. /\ profile'[t].total = profile[t].total + TickVolume(t, price, d)
      /\ \A u \in Token \ {t} : profile'[u] = profile[u]
  BY <1>1, <1>2, ProfileGains
<1>7. Gained(t)' = Gained(t) + TickVolume(t, price, d) BY <1>1, <1>2, <1>5, <1>6 DEF Gained
<1>8. \A u \in Token \ {t} : Gained(u)' = Gained(u) BY <1>2, <1>6 DEF Gained
<1>. QED BY <1>1, <1>7, <1>8

LEMMA InitCounting == Init => Counting
<1>. SUFFICES ASSUME Init PROVE Counting OBVIOUS
<1>1. ASSUME NEW t \in Token
      PROVE  /\ ctx[t].volume = 0 /\ profile[t].total = 0 /\ saved[t].total = 0 /\ lost[t] = 0
             /\ heard[t] = Never /\ base[t] = Never
  <2>1. ctx[t] = IF t \in mapped THEN Mapped ELSE Unmapped BY DEF Init
  <2>2. profile[t].total = 0 /\ saved[t].total = 0 /\ lost[t] = 0
    BY DEF Init, EmptyProfile, NoRow, Zero
  <2>3. heard[t] = Never /\ base[t] = Never BY DEF Init
  <2>. QED BY <2>1, <2>2, <2>3 DEF Mapped, Unmapped
<1>2. saves = {} BY DEF Init
<1>. QED BY <1>1, <1>2 DEF Counting

(* What a tick adds to the profile and to what is lost is what was traded since the last. *)
LEMMA SessionAddsUp ==
  ASSUME Types, Counting, NEW t \in Token, NEW d \in Nat, NEW vol \in Nat,
         LET cum == market[t] + d  prev == ctx[t].volume IN
         vol = IF prev = 0 \/ cum < prev THEN LastQuantity(cum) ELSE cum - prev
  PROVE  LET cum == market[t] + d
             b == IF base[t] = Never THEN cum - LastQuantity(cum) ELSE base[t]
         IN /\ b # Never
            /\ profile[t].total + vol + (lost[t] + Uncounted(t, cum)) = cum - b
<1>. DEFINE cum == market[t] + d  q == LastQuantity(cum)
<1>1. /\ market[t] \in Nat /\ profile[t].total \in Nat /\ lost[t] \in Int
      /\ base[t] \in Int /\ heard[t] \in Int /\ cum \in Nat
  BY DEF Types, TypeOK, Shapes
<1>2. q = IF cum = 0 THEN 0 ELSE 1 BY DEF LastQuantity
<1>3. q \in Nat /\ cum - q \in Nat BY <1>1, <1>2
<1>4. /\ base[t] # Never => profile[t].total + lost[t] = market[t] - base[t]
      /\ base[t] = Never => profile[t].total = 0 /\ lost[t] = 0
      /\ heard[t] # Never => base[t] # Never /\ heard[t] = market[t]
      /\ ctx[t].volume = IF heard[t] = Never THEN 0 ELSE heard[t]
  BY DEF Counting
<1>5. vol = IF ctx[t].volume = 0 \/ cum < ctx[t].volume THEN q ELSE cum - ctx[t].volume OBVIOUS
<1>6. Uncounted(t, cum) = IF heard[t] = 0 THEN cum - q
                          ELSE IF heard[t] = Never /\ base[t] # Never THEN cum - market[t] - q
                          ELSE 0
  BY DEF Uncounted
<1>7. cum = market[t] + d OBVIOUS
<1>. HIDE DEF cum, q
<1>8. CASE heard[t] = Never
  BY <1>1, <1>3, <1>4, <1>5, <1>6, <1>7, <1>8 DEF Never, cum, q
<1>9. CASE heard[t] # Never
  BY <1>1, <1>3, <1>4, <1>5, <1>6, <1>7, <1>9 DEF Never, cum, q
<1>. QED BY <1>8, <1>9

LEMMA SessionCounting ==
  ASSUME Types, Heard, Counting, NEW t \in Token, NEW m \in Minute, NEW price \in Price, NEW d \in Trades,
         SessionTick(t, m, price, d), now' = m, m >= now, now \in Int, m \in Int
  PROVE  Counting'
<1>. DEFINE cum == market[t] + d  vol == TickVolume(t, price, d)  prev == Context(ctx[t], price).volume
            b == IF base[t] = Never THEN cum - LastQuantity(cum) ELSE base[t]
<1>1. /\ ctx'[t].volume = cum /\ market'[t] = cum
      /\ \A u \in Token \ {t} : ctx'[u] = ctx[u] /\ market'[u] = market[u]
  BY SessionPrices
<1>2. /\ ProfileStep(t, price, vol) /\ saved' = saved
      /\ base' = IF base[t] = Never THEN [base EXCEPT ![t] = cum - LastQuantity(cum)] ELSE base
      /\ heard' = [heard EXCEPT ![t] = cum]
      /\ lost' = [lost EXCEPT ![t] = lost[t] + Uncounted(t, cum)]
      /\ m >= 0
  BY SessionIs
<1>3. market[t] \in Nat /\ d \in Nat /\ cum \in Nat /\ prev \in Nat /\ vol \in Nat BY TickVolumeIs
<1>4. vol = IF prev = 0 \/ cum < prev THEN LastQuantity(cum) ELSE cum - prev BY DEF TickVolume, Delta
<1>5. prev = ctx[t].volume
  <2>1. ctx[t] \in Contexts BY DEF Types, TypeOK, Contexts
  <2>2. ctx[t].known => prev = ctx[t].volume BY <2>1, <1>3, EnrichedIs
  <2>3. ~ctx[t].known => prev = 0 BY <2>1, <1>3, EnrichedIs
  <2>4. ~ctx[t].known => ctx[t].volume = 0 BY DEF Heard
  <2>5. ctx[t].known \/ ~ctx[t].known OBVIOUS
  <2>. QED BY <2>2, <2>3, <2>4, <2>5, Zenon
<1>6. /\ profile'[t].total = profile[t].total + vol
      /\ \A u \in Token \ {t} : profile'[u] = profile[u]
      /\ \A s \in saves' : s \in saves \/ s.token = t
  <2>1. \A s \in saves' : s \in saves \/ s.token = t BY <1>2 DEF ProfileStep
  <2>. HIDE DEF vol
  <2>. QED BY <1>2, <1>3, <2>1, ProfileGains
<1>7. b # Never /\ profile[t].total + vol + (lost[t] + Uncounted(t, cum)) = cum - b
  <2>. HIDE DEF vol, prev
  <2>. QED BY <1>3, <1>4, <1>5, SessionAddsUp
<1>8. base \in [Token -> Int] /\ heard \in [Token -> Int] /\ lost \in [Token -> Int]
  BY DEF Types, Shapes
<1>. HIDE DEF cum, vol, prev
<1>9. /\ base'[t] = b /\ heard'[t] = cum /\ lost'[t] = lost[t] + Uncounted(t, cum)
      /\ \A u \in Token \ {t} : base'[u] = base[u] /\ heard'[u] = heard[u] /\ lost'[u] = lost[u]
  BY <1>2, <1>8
<1>. HIDE DEF b
<1>10. ASSUME NEW u \in Token
       PROVE  /\ base'[u] # Never => now' >= 0 /\ profile'[u].total + lost'[u] = market'[u] - base'[u]
              /\ base'[u] = Never => profile'[u].total = 0 /\ saved'[u].total = 0 /\ lost'[u] = 0
              /\ heard'[u] # Never => base'[u] # Never /\ heard'[u] = market'[u]
              /\ ctx'[u].volume = IF heard'[u] = Never THEN 0 ELSE heard'[u]
  <2>1. CASE u = t
    <3>1. cum # Never BY <1>3 DEF Never
    <3>. QED BY <1>1, <1>2, <1>6, <1>7, <1>9, <2>1, <3>1
  <2>2. CASE u # t
    <3>1. /\ profile'[u] = profile[u] /\ saved'[u] = saved[u] /\ ctx'[u] = ctx[u] /\ market'[u] = market[u]
          /\ base'[u] = base[u] /\ heard'[u] = heard[u] /\ lost'[u] = lost[u]
      BY <1>1, <1>2, <1>6, <1>9, <2>2
    <3>. QED BY <1>2, <3>1 DEF Counting
  <2>. QED BY <2>1, <2>2
<1>11. ASSUME NEW s \in saves' PROVE base'[s.token] # Never
  <2>1. CASE s.token = t BY <1>7, <1>9, <2>1
  <2>2. CASE s.token # t
    <3>1. s \in saves BY <1>6, <2>2
    <3>2. s.token \in Token /\ base[s.token] # Never BY <3>1 DEF Types, Shapes, Counting
    <3>. QED BY <1>9, <2>2, <3>2
  <2>. QED BY <2>1, <2>2
<1>. QED BY <1>10, <1>11 DEF Counting

LEMMA StepCounting == Types /\ Heard /\ Counting /\ [Next]_vars => Counting'
<1>. SUFFICES ASSUME Types, Heard, Counting, [Next]_vars PROVE Counting' OBVIOUS
<1>1. ASSUME NEW t \in Token, NEW m \in Minute, NEW price \in Price, NEW d \in Trades, Tick(t, m, price, d)
      PROVE  Counting'
  <2>1. /\ now' = m /\ m >= now /\ m \in Int /\ now \in Int
        /\ PreMarketTick(t, m, d) \/ SessionTick(t, m, price, d)
    BY <1>1, TickIs
  <2>2. CASE PreMarketTick(t, m, d)
    <3>1. ~(now >= 0) /\ UNCHANGED <<stages, stored, seen>> BY <2>1, <2>2 DEF PreMarketTick
    <3>2. \A u \in Token : base[u] = Never BY <3>1 DEF Counting
    <3>3. \A u \in Token : heard[u] = Never BY <3>2 DEF Counting
    <3>4. UNCHANGED <<ctx, profile, saves, saved, base, heard, lost>> BY <3>1 DEF stages, stored, seen
    <3>. QED BY <3>2, <3>3, <3>4 DEF Counting
  <2>3. CASE SessionTick(t, m, price, d) BY <2>1, <2>3, SessionCounting
  <2>. QED BY <2>1, <2>2, <2>3
<1>2. ASSUME NEW s \in saves, SaveProfile(s) PROVE Counting'
  <2>1. /\ saves' \subseteq saves
        /\ saved' = saved \/ saved' = [saved EXCEPT ![s.token] = s.row]
        /\ UNCHANGED <<now, market, stages, seen>>
    BY <1>2 DEF SaveProfile
  <2>2. UNCHANGED <<ctx, profile, base, heard, lost>> BY <2>1 DEF stages, seen
  <2>3. \A t \in Token : base[t] = Never => saved'[t] = saved[t]
    <3>1. base[s.token] # Never BY DEF Counting
    <3>2. saved = [t \in Token |-> saved[t]] BY DEF Types, Shapes
    <3>3. \A t \in Token : t # s.token => saved'[t] = saved[t] BY <2>1, <3>2
    <3>. QED BY <3>1, <3>3
  <2>. QED BY <2>1, <2>2, <2>3 DEF Counting
<1>3. CASE FlushBars
  <2>1. UNCHANGED <<now, market, ctx, profile, saves, saved, base, heard, lost>>
    BY <1>3 DEF FlushBars, stages, seen
  <2>. QED BY <2>1 DEF Counting
<1>4. CASE Restart
  <2>1. /\ ctx' = [t \in Token |-> IF t \in mapped THEN Mapped ELSE Unmapped]
        /\ profile' = [t \in Token |-> Loaded(saved[t])]
        /\ heard' = [t \in Token |-> Never]
        /\ lost' = [t \in Token |-> lost[t] + profile[t].total - saved[t].total]
        /\ saves' = {} /\ UNCHANGED <<now, market, saved, base>>
    BY <1>4 DEF Restart
  <2>2. \A t \in Token : ctx'[t] = IF t \in mapped THEN Mapped ELSE Unmapped BY <2>1
  <2>3. \A t \in Token : ctx'[t].volume = 0 BY <2>2 DEF Mapped, Unmapped
  <2>4. \A t \in Token : profile'[t] = Loaded(saved[t]) BY <2>1
  <2>5. \A t \in Token : profile'[t].total = saved[t].total BY <2>4, LoadedIs
  <2>6. \A t \in Token : lost'[t] = lost[t] + profile[t].total - saved[t].total /\ heard'[t] = Never
    BY <2>1
  <2>7. \A t \in Token : saved[t].total \in Nat /\ profile[t].total \in Nat /\ lost[t] \in Int
    BY DEF Types, TypeOK, Shapes
  <2>8. ASSUME NEW t \in Token
        PROVE  /\ base'[t] # Never => now' >= 0 /\ profile'[t].total + lost'[t] = market'[t] - base'[t]
               /\ base'[t] = Never => profile'[t].total = 0 /\ saved'[t].total = 0 /\ lost'[t] = 0
    <3>1. /\ base[t] # Never => now >= 0 /\ profile[t].total + lost[t] = market[t] - base[t]
          /\ base[t] = Never => profile[t].total = 0 /\ saved[t].total = 0 /\ lost[t] = 0
      BY DEF Counting
    <3>2. profile'[t].total + lost'[t] = profile[t].total + lost[t] BY <2>5, <2>6, <2>7
    <3>. QED BY <2>1, <2>5, <2>6, <3>1, <3>2
  <2>. QED BY <2>1, <2>3, <2>6, <2>8 DEF Counting
<1>5. CASE UNCHANGED vars
  <2>1. UNCHANGED <<now, market, ctx, profile, saves, saved, base, heard, lost>>
    BY <1>5 DEF vars, stages, stored, seen
  <2>. QED BY <2>1 DEF Counting
<1>. QED BY <1>1, <1>2, <1>3, <1>4, <1>5 DEF Next
-----------------------------------------------------------------------------
(* The bars of one timeframe f at a time: those the strategy engine got, bars, of which n
   were read back, and the working one, c.  Each starts after the one before it has ended,
   except that a working bar which was read back is the last of bars once more; the next
   tick closes it. *)
Chained(f, time, bars, n, c) ==
  /\ n \in 0 .. Len(bars)
  /\ \A i \in 1 .. Len(bars) : OnWindow(bars[i].start, f)
  /\ \A i \in 1 .. Len(bars) - 1 :
       Later(bars[i].start, bars[i + 1].start, f) \/ (i = n /\ bars[i + 1] = bars[i])
  /\ c = NoCandle => Len(bars) = 0
  /\ c # NoCandle => OnWindow(c.start, f)
  /\ c # NoCandle /\ Len(bars) > 0 => Later(bars[Len(bars)].start, c.start, f) \/ n = Len(bars)
  /\ n > 0 /\ n = Len(bars) => c = bars[n] /\ c.start < Truncate(time, f)

LEMMA NoCandleIs == NoCandle \notin Bar /\ NoCandle.vol = 0
<1>1. NoCandle.close = 0 /\ NoCandle.vol = 0 BY DEF NoCandle
<1>2. \A b \in Bar : b.close # 0 BY PipelineAssumption DEF Bar
<1>. QED BY <1>1, <1>2

LEMMA ChainTick ==
  ASSUME NEW f \in Timeframe, NEW time \in Int, NEW m \in Int, time <= m, NEW price \in Price, NEW vol \in Nat,
         NEW bars \in Seq(Bar), NEW n, NEW c \in Bar \cup {NoCandle}, Chained(f, time, bars, n, c),
         NEW more, NEW d \in Bar, Ticked(m, f, price, vol, bars, c, more, d)
  PROVE  Chained(f, m, more, n, d)
<1>. DEFINE w == Working(c, m, f, price)
<1>1. /\ w \in Bar /\ w.start \in Int /\ w.vol \in Nat
      /\ c # NoCandle => w = c
      /\ c = NoCandle => OnWindow(w.start, f)
  BY WorkingIs
<1>2. /\ Truncate(m, f) \in Int /\ OnWindow(Truncate(m, f), f) /\ Truncate(time, f) \in Int
      /\ Truncate(time, f) <= Truncate(m, f)
  BY Windows, TruncateMonotone
<1>3. Len(bars) \in Nat /\ n \in Nat /\ n <= Len(bars) /\ \A i \in 1 .. Len(bars) : bars[i] \in Bar
  BY DEF Chained
<1>4. OnWindow(w.start, f) BY <1>1 DEF Chained
<1>5. d # NoCandle BY NoCandleIs
<1>6. \/ ~(w.start < Truncate(m, f)) /\ more = bars /\ d.start = w.start
      \/ w.start < Truncate(m, f) /\ more = Append(bars, w) /\ d.start = Truncate(m, f)
  BY DEF Ticked
<1>. HIDE DEF w
<1>7. CASE ~(w.start < Truncate(m, f)) /\ more = bars /\ d.start = w.start
  <2>1. ~(n > 0 /\ n = Len(bars))
    <3>. SUFFICES ASSUME n > 0, n = Len(bars) PROVE FALSE OBVIOUS
    <3>1. c = bars[n] /\ c.start < Truncate(time, f) BY DEF Chained
    <3>2. c \in Bar BY <1>3, <3>1
    <3>3. w = c BY <1>1, <3>2, NoCandleIs
    <3>. QED BY <1>1, <1>2, <1>7, <3>1, <3>3
  <2>2. Len(bars) > 0 => Later(bars[Len(bars)].start, d.start, f)
    <3>. SUFFICES ASSUME Len(bars) > 0 PROVE Later(bars[Len(bars)].start, d.start, f) OBVIOUS
    <3>1. c # NoCandle BY DEF Chained
    <3>2. n # Len(bars) BY <2>1
    <3>. QED BY <1>1, <1>7, <3>1, <3>2 DEF Chained
  <2>. QED BY <1>4, <1>5, <1>7, <2>1, <2>2 DEF Chained
<1>8. CASE w.start < Truncate(m, f) /\ more = Append(bars, w) /\ d.start = Truncate(m, f)
  <2>1. Len(more) = Len(bars) + 1 /\ more[Len(bars) + 1] = w /\ \A i \in 1 .. Len(bars) : more[i] = bars[i]
    BY <1>1, <1>8
  <2>2. Later(more[Len(more)].start, d.start, f) BY <1>1, <1>2, <1>3, <1>4, <1>8, <2>1, NextWindow
  <2>3. \A i \in 1 .. Len(more) : OnWindow(more[i].start, f)
    <3>1. \A i \in 1 .. Len(more) : i \in 1 .. Len(bars) \/ i = Len(bars) + 1 BY <1>3, <2>1
    <3>. QED BY <1>4, <2>1, <3>1 DEF Chained
  <2>4. ASSUME NEW i \in 1 .. Len(more) - 1
        PROVE  Later(more[i].start, more[i + 1].start, f) \/ (i = n /\ more[i + 1] = more[i])
    <3>1. CASE i < Len(bars)
      <4>1. i \in 1 .. Len(bars) - 1 /\ i \in 1 .. Len(bars) /\ i + 1 \in 1 .. Len(bars)
        BY <1>3, <2>1, <3>1
      <4>. QED BY <2>1, <4>1 DEF Chained
    <3>2. CASE ~(i < Len(bars))
      <4>1. i = Len(bars) /\ Len(bars) > 0 BY <1>3, <2>1, <3>2
      <4>2. c # NoCandle /\ w = c BY <1>1, <4>1 DEF Chained
      <4>3. more[i] = bars[Len(bars)] /\ more[i + 1] = c BY <1>3, <2>1, <4>1, <4>2
      <4>4. CASE Later(bars[Len(bars)].start, c.start, f) BY <4>3, <4>4
      <4>5. CASE n = Len(bars)
        <5>1. c = bars[n] BY <4>1, <4>5 DEF Chained
        <5>. QED BY <4>1, <4>3, <4>5, <5>1
      <4>. QED BY <4>1, <4>2, <4>4, <4>5 DEF Chained
    <3>. QED BY <3>1, <3>2
  <2>5. n \in 0 .. Len(more) /\ n # Len(more) BY <1>3, <2>1
  <2>. QED BY <1>2, <1>5, <1>8, <2>2, <2>3, <2>4, <2>5 DEF Chained
<1>. QED BY <1>6, <1>7, <1>8

LEMMA ChainWaits ==
  ASSUME NEW f \in Timeframe, NEW time \in Int, NEW m \in Int, time <= m,
         NEW bars \in Seq(Bar), NEW n, NEW c \in Bar \cup {NoCandle}, Chained(f, time, bars, n, c)
  PROVE  Chained(f, m, bars, n, c)
<1>1. /\ Truncate(m, f) \in Int /\ Truncate(time, f) \in Int /\ Truncate(time, f) <= Truncate(m, f)
  BY Windows, TruncateMonotone
<1>2. n > 0 /\ n = Len(bars) => c.start < Truncate(m, f)
  <2>. SUFFICES ASSUME n > 0, n = Len(bars) PROVE c.start < Truncate(m, f) OBVIOUS
  <2>1. c = bars[n] /\ c.start < Truncate(time, f) BY DEF Chained
  <2>2. bars[n] \in Bar
    <3>1. n \in 1 .. Len(bars) BY DEF Chained
    <3>. QED BY <3>1
  <2>3. c.start \in Int BY <2>1, <2>2 DEF Bar
  <2>. QED BY <1>1, <2>1, <2>3
<1>. QED BY <1>2 DEF Chained

(* The volume in the bars of this process: those read back do not count, nor the last of
   them once more. *)
Again(bars, n) == n > 0 /\ Len(bars) > n
Fresh(bars, n) ==
  [i \in 1 .. Len(bars) |-> IF i <= n \/ (Again(bars, n) /\ i = n + 1) THEN 0 ELSE bars[i].vol]
Fill(bars, n, c) == SumFunctionOnSet(Fresh(bars, n), 1 .. Len(bars)) + (IF n > 0 /\ ~Again(bars, n) THEN 0 ELSE c.vol)

LEMMA FreshIs ==
  ASSUME NEW bars \in Seq(Bar), NEW n \in Nat
  PROVE  /\ \A i \in 1 .. Len(bars) : Fresh(bars, n)[i] \in Nat
         /\ SumFunctionOnSet(Fresh(bars, n), 1 .. Len(bars)) \in Nat
<1>1. \A i \in 1 .. Len(bars) : bars[i].vol \in Nat
  <2>1. \A i \in 1 .. Len(bars) : bars[i] \in Bar OBVIOUS
  <2>. QED BY <2>1 DEF Bar
<1>2. \A i \in 1 .. Len(bars) : Fresh(bars, n)[i] \in Nat BY <1>1 DEF Fresh
<1>3. IsFiniteSet(1 .. Len(bars)) BY FromOne
<1>. QED BY <1>2, <1>3, SumNatural

LEMMA FreshNext ==
  ASSUME NEW bars \in Seq(Bar), NEW n \in Nat, n <= Len(bars), NEW w \in Bar
  PROVE  SumFunctionOnSet(Fresh(Append(bars, w), n), 1 .. Len(Append(bars, w))) =
           SumFunctionOnSet(Fresh(bars, n), 1 .. Len(bars)) + (IF n > 0 /\ n = Len(bars) THEN 0 ELSE w.vol)
<1>. DEFINE more == Append(bars, w)  k == Len(bars)
            v == Fresh(bars, n)  x == Fresh(more, n)
<1>1. more \in Seq(Bar) /\ k \in Nat /\ Len(more) = k + 1 /\ more[k + 1] = w
      /\ \A i \in 1 .. k : more[i] = bars[i]
  OBVIOUS
<1>2. w.vol \in Nat BY DEF Bar
<1>. HIDE DEF more
<1>3. \A i \in 1 .. k : v[i] = IF i <= n \/ (n > 0 /\ k > n /\ i = n + 1) THEN 0 ELSE bars[i].vol
  BY DEF Fresh, Again
<1>4. \A i \in 1 .. k + 1 : x[i] = IF i <= n \/ (n > 0 /\ k + 1 > n /\ i = n + 1) THEN 0 ELSE more[i].vol
  BY <1>1 DEF Fresh, Again
<1>5. (\A i \in 1 .. k : v[i] \in Int) /\ (\A i \in 1 .. k + 1 : x[i] \in Int)
  <2>1. \A i \in 1 .. k : v[i] \in Nat BY FreshIs
  <2>2. \A i \in 1 .. Len(more) : x[i] \in Nat
    <3>. HIDE DEF x
    <3>1. \A i \in 1 .. Len(more) : Fresh(more, n)[i] \in Nat BY <1>1, FreshIs
    <3>. QED BY <3>1 DEF x
  <2>. HIDE DEF v, x, k
  <2>. QED BY <1>1, <2>1, <2>2
<1>. HIDE DEF v, x
<1>6. \A i \in 1 .. k : x[i] = v[i]
  <2>1. \A i \in 1 .. k : i \in 1 .. k + 1 /\ (i = n + 1 => k > n) /\ k + 1 > n BY <1>1
  <2>. HIDE DEF k
  <2>. QED BY <1>1, <1>3, <1>4, <2>1
<1>7. x[k + 1] = IF n > 0 /\ n = k THEN 0 ELSE w.vol
  <2>1. k + 1 \in 1 .. k + 1 /\ ~(k + 1 <= n) /\ k + 1 > n /\ (k + 1 = n + 1 <=> n = k) BY <1>1
  <2>2. k + 1 <= n \/ (n > 0 /\ k + 1 > n /\ k + 1 = n + 1) <=> n > 0 /\ n = k BY <2>1
  <2>. HIDE DEF k
  <2>. QED BY <1>1, <1>4, <2>1, <2>2
<1>. HIDE DEF k
<1>8. IsFiniteSet(1 .. k) /\ IsFiniteSet(1 .. k + 1) /\ k + 1 \in 1 .. k + 1 /\ (1 .. k + 1) \ {k + 1} = 1 .. k
  <2>1. k + 1 \in Nat BY <1>1
  <2>. QED BY <1>1, <2>1, FromOne
<1>9. SumFunctionOnSet(x, 1 .. k + 1) = x[k + 1] + SumFunctionOnSet(x, 1 .. k)
  <2>1. SumFunctionOnSet(x, 1 .. k + 1) = x[k + 1] + SumFunctionOnSet(x, (1 .. k + 1) \ {k + 1})
    BY <1>5, <1>8, SumSplit
  <2>. QED BY <1>8, <2>1
<1>10. \A i \in 1 .. k : x[i] \in Int BY <1>5, <1>6
<1>11. SumFunctionOnSet(x, 1 .. k) = SumFunctionOnSet(v, 1 .. k) BY <1>6, <1>8, <1>10, SumEqual
<1>12. SumFunctionOnSet(v, 1 .. k) \in Int BY <1>5, <1>8, SumInteger
<1>13. SumFunctionOnSet(x, 1 .. k + 1) = SumFunctionOnSet(v, 1 .. k) + (IF n > 0 /\ n = k THEN 0 ELSE w.vol)
  BY <1>2, <1>7, <1>9, <1>11, <1>12
<1>. QED BY <1>1, <1>13 DEF x, v, more, k

LEMMA FillTick ==
  ASSUME NEW f \in Timeframe, NEW time \in Int, NEW m \in Int, time <= m, NEW price \in Price, NEW vol \in Nat,
         NEW bars \in Seq(Bar), NEW n, NEW c \in Bar \cup {NoCandle}, Chained(f, time, bars, n, c),
         NEW more, NEW d \in Bar, Ticked(m, f, price, vol, bars, c, more, d)
  PROVE  Fill(more, n, d) = Fill(bars, n, c) + vol
<1>. DEFINE w == Working(c, m, f, price)
            sum == SumFunctionOnSet(Fresh(bars, n), 1 .. Len(bars))
<1>1. /\ w \in Bar /\ w.start \in Int /\ w.vol \in Nat
      /\ c # NoCandle => w = c
      /\ c = NoCandle => w.vol = 0
  BY WorkingIs
<1>2. Len(bars) \in Nat /\ n \in Nat /\ n <= Len(bars) /\ (c = NoCandle => Len(bars) = 0)
  BY DEF Chained
<1>3. \/ ~(w.start < Truncate(m, f)) /\ more = bars /\ d.vol = w.vol + vol
      \/ w.start < Truncate(m, f) /\ more = Append(bars, w) /\ d.vol = vol
  BY DEF Ticked
<1>4. n > 0 /\ n = Len(bars) => w.start < Truncate(m, f)
  <2>. SUFFICES ASSUME n > 0, n = Len(bars) PROVE w.start < Truncate(m, f) OBVIOUS
  <2>1. c = bars[n] /\ c.start < Truncate(time, f) BY DEF Chained
  <2>2. c \in Bar /\ w = c BY <1>1, <1>2, <2>1, NoCandleIs
  <2>3. Truncate(m, f) \in Int /\ Truncate(time, f) \in Int /\ Truncate(time, f) <= Truncate(m, f)
    BY Windows, TruncateMonotone
  <2>. QED BY <1>1, <2>1, <2>2, <2>3
<1>5. sum \in Nat BY <1>2, FreshIs
<1>6. c.vol = w.vol BY <1>1, NoCandleIs
<1>. HIDE DEF w
<1>7. Fill(bars, n, c) = sum + (IF n > 0 /\ n = Len(bars) THEN 0 ELSE w.vol)
  BY <1>2, <1>6 DEF Fill, Again
<1>8. CASE ~(w.start < Truncate(m, f)) /\ more = bars /\ d.vol = w.vol + vol
  <2>1. Fill(more, n, d) = sum + (w.vol + vol) BY <1>2, <1>4, <1>8 DEF Fill, Again
  <2>. HIDE DEF sum
  <2>. QED BY <1>1, <1>2, <1>4, <1>5, <1>7, <1>8, <2>1
<1>9. CASE w.start < Truncate(m, f) /\ more = Append(bars, w) /\ d.vol = vol
  <2>1. Len(more) = Len(bars) + 1 BY <1>1, <1>9
  <2>2. SumFunctionOnSet(Fresh(more, n), 1 .. Len(more)) = sum + (IF n > 0 /\ n = Len(bars) THEN 0 ELSE w.vol)
    BY <1>1, <1>2, <1>9, FreshNext
  <2>3. ~(n > 0 /\ ~Again(more, n)) BY <1>2, <2>1 DEF Again
  <2>4. Fill(more, n, d) = (sum + (IF n > 0 /\ n = Len(bars) THEN 0 ELSE w.vol)) + vol
    BY <1>9, <2>2, <2>3 DEF Fill
  <2>. QED BY <1>7, <2>4
<1>. QED BY <1>3, <1>8, <1>9
-----------------------------------------------------------------------------
(* The bars of each timeframe of an instrument: they are chained, the history remembers
   them, they hold what the profile gained, and the rows in the writer and in the table
   are of bars that were closed. *)
RowsFit(t, f) ==
  LET bars == ingested[t][f] IN
  \A r \in queue \cup table : r.token = t /\ r.tf = f =>
    Len(bars) > 0 /\ r.start <= bars[Len(bars)].start /\ r.start < Truncate(now, f) /\ OnWindow(r.start, f)
Refused(t, f) ==
  \A r \in queue, s \in table : SameKey(r, s) /\ r.token = t /\ r.tf = f =>
    warmed[t][f] > 0 /\ r.start = ingested[t][f][warmed[t][f]].start

BarsOf(t, f) ==
  /\ Chained(f, now, ingested[t][f], warmed[t][f], candle[t][f])
  /\ Remembers(hist[t][f], ingested[t][f], Len(ingested[t][f]))
  /\ Fill(ingested[t][f], warmed[t][f], candle[t][f]) = Gained(t)
  /\ RowsFit(t, f)
  /\ Refused(t, f)
AllBars == \A t \in Token, f \in Timeframe : BarsOf(t, f)

LEMMA TimeIs == ASSUME Types PROVE now \in Int
BY PipelineAssumption, BarAssumption DEF Types, TypeOK

(* The bars of a timeframe, before the first tick or after the warm-up. *)
LEMMA FreshStart ==
  ASSUME NEW bars \in Seq(Bar)
  PROVE  Fill(bars, Len(bars), WorkingBar(bars)) = 0
<1>. DEFINE n == Len(bars)  v == Fresh(bars, n)
<1>1. n \in Nat /\ IsFiniteSet(1 .. n) BY FromOne
<1>2. \A i \in 1 .. n : v[i] = 0 BY DEF Fresh
<1>3. SumFunctionOnSet(v, 1 .. n) = 0
  <2>1. SumFunctionOnSet(v, 1 .. n) \in Nat BY <1>1, FreshIs
  <2>. DEFINE F == {s \in SUBSET (1 .. n) : SumFunctionOnSet(v, s) # 0}
  <2>. HIDE DEF v, n
  <2>2. F = {}
    <3>. SUFFICES ASSUME F # {} PROVE FALSE OBVIOUS
    <3>1. F \in SUBSET (SUBSET (1 .. n)) OBVIOUS
    <3>. HIDE DEF F
    <3>2. PICK s \in F : \A r \in F : Cardinality(s) <= Cardinality(r) BY <1>1, <3>1, Smallest
    <3>3. s \in SUBSET (1 .. n) /\ SumFunctionOnSet(v, s) # 0 /\ IsFiniteSet(s) BY <1>1, <3>2, FS_Subset DEF F
    <3>4. PICK y \in s : TRUE BY <3>3, SumEmpty
    <3>5. s \ {y} \in SUBSET (1 .. n) /\ ~(Cardinality(s) <= Cardinality(s \ {y})) BY <1>1, <3>3, Smaller
    <3>6. SumFunctionOnSet(v, s \ {y}) = 0 BY <3>2, <3>5 DEF F
    <3>7. \A x \in s : v[x] \in Int BY <1>2, <3>3
    <3>8. SumFunctionOnSet(v, s) = v[y] + SumFunctionOnSet(v, s \ {y}) BY <3>3, <3>7, SumSplit
    <3>9. v[y] = 0 BY <1>2, <3>3
    <3>. QED BY <3>3, <3>6, <3>8, <3>9
  <2>. QED BY <2>2
<1>4. bars = <<>> \/ n > 0 OBVIOUS
<1>5. CASE bars = <<>>
  <2>1. n = 0 /\ WorkingBar(bars).vol = 0 BY <1>5, NoCandleIs DEF WorkingBar
  <2>. HIDE DEF v
  <2>. QED BY <1>3, <2>1 DEF Fill, v
<1>6. CASE n > 0
  <2>1. n > 0 /\ ~Again(bars, n) BY <1>1, <1>6 DEF Again
  <2>2. Fill(bars, n, WorkingBar(bars)) = SumFunctionOnSet(v, 1 .. n) + 0 BY <2>1 DEF Fill
  <2>. QED BY <1>3, <2>2
<1>. QED BY <1>4, <1>5, <1>6

LEMMA InitBars == ASSUME Init PROVE AllBars
<1>. SUFFICES ASSUME NEW t \in Token, NEW f \in Timeframe PROVE BarsOf(t, f) BY DEF AllBars
<1>1. /\ ingested[t][f] = <<>> /\ warmed[t][f] = 0 /\ candle[t][f] = NoCandle /\ hist[t][f] = NewHistory
      /\ queue = {} /\ table = {} /\ profile[t].total = 0 /\ carried[t] = 0
  BY DEF Init, PerBar, EmptyProfile, Zero
<1>2. Chained(f, now, <<>>, 0, NoCandle) BY DEF Chained
<1>3. Fill(<<>>, 0, NoCandle) = 0
  <2>1. <<>> \in Seq(Bar) /\ Len(<<>>) = 0 /\ WorkingBar(<<>>) = NoCandle BY DEF WorkingBar
  <2>. QED BY <2>1, FreshStart
<1>4. Remembers(NewHistory, <<>>, 0) BY RemembersStart
<1>5. RowsFit(t, f) /\ Refused(t, f) BY <1>1 DEF RowsFit, Refused
<1>6. Gained(t) = 0 BY <1>1 DEF Gained
<1>. QED BY <1>1, <1>2, <1>3, <1>4, <1>5, <1>6 DEF BarsOf

(* A step that leaves the bars alone: time goes on, rows move from the writer into the
   table or are refused. *)
LEMMA BarsWait ==
  ASSUME Types, AllBars, now' \in Int, now <= now', UNCHANGED <<candle, hist, ingested, warmed>>,
         \A t \in Token : Gained(t)' = Gained(t),
         queue' \subseteq queue, table' \subseteq table \cup queue, queue' = {} \/ table' = table
  PROVE  AllBars'
<1>. SUFFICES ASSUME NEW t \in Token, NEW f \in Timeframe PROVE BarsOf(t, f)' BY DEF AllBars
<1>1. BarsOf(t, f) BY DEF AllBars
<1>2. ingested[t][f] \in Seq(Bar) /\ candle[t][f] \in Bar \cup {NoCandle} /\ now \in Int
  BY TimeIs DEF Types, TypeOK
<1>3. Chained(f, now', ingested[t][f], warmed[t][f], candle[t][f])
  <2>1. Chained(f, now, ingested[t][f], warmed[t][f], candle[t][f]) BY <1>1 DEF BarsOf
  <2>. QED BY <1>2, <2>1, ChainWaits
<1>4. RowsFit(t, f)'
  <2>1. /\ Truncate(now', f) \in Int /\ Truncate(now, f) \in Int /\ Truncate(now, f) <= Truncate(now', f)
    BY <1>2, Windows, TruncateMonotone
  <2>2. \A r \in queue' \cup table' : r \in queue \cup table /\ r.start \in Int
    BY DEF Types, TypeOK, BarRow
  <2>3. RowsFit(t, f) BY <1>1 DEF BarsOf
  <2>. QED BY <2>1, <2>2, <2>3 DEF RowsFit
<1>5. Refused(t, f)'
  <2>1. Refused(t, f) BY <1>1 DEF BarsOf
  <2>. QED BY <2>1 DEF Refused
<1>. QED BY <1>1, <1>3, <1>4, <1>5 DEF BarsOf

(* The instrument of a tick in the session. *)
LEMMA BarsTick ==
  ASSUME Types, NEW t \in Token, NEW m \in Int, NEW price \in Price, NEW vol \in Nat, NEW f \in Timeframe,
         now' = m, now <= m, BarsOf(t, f), BarTicked(t, m, price, vol, f), Gained(t)' = Gained(t) + vol,
         QueueTicked(t, m, price, queue'), warmed' = warmed, table' = table
  PROVE  BarsOf(t, f)'
<1>. DEFINE bars == ingested[t][f]  c == candle[t][f]  more == ingested'[t][f]  d == candle'[t][f]
            n == warmed[t][f]  w == WorkingOn(t, f, m, price)
<1>1. bars \in Seq(Bar) /\ c \in Bar \cup {NoCandle} /\ now \in Int BY TimeIs DEF Types, TypeOK
<1>2. Chained(f, now, bars, n, c) /\ Fill(bars, n, c) = Gained(t) BY DEF BarsOf
<1>3. /\ Ticked(m, f, price, vol, bars, c, more, d)
      /\ more \in Seq(Bar) /\ d \in Bar
      /\ hist'[t][f] = IF w.start < Truncate(m, f) THEN Analyzed(hist[t][f], w) ELSE hist[t][f]
  BY DEF BarTicked
<1>4. /\ w \in Bar /\ w.start \in Int
      /\ c # NoCandle => w = c
      /\ c = NoCandle => OnWindow(w.start, f)
  BY <1>1, WorkingIs DEF WorkingOn
<1>5. \/ ~(w.start < Truncate(m, f)) /\ more = bars
      \/ w.start < Truncate(m, f) /\ more = Append(bars, w)
  BY <1>3 DEF Ticked, WorkingOn
<1>6. /\ Truncate(m, f) \in Int /\ Truncate(now, f) \in Int /\ Truncate(now, f) <= Truncate(m, f)
  BY <1>1, Windows, TruncateMonotone
<1>7. Chained(f, m, more, n, d) BY <1>1, <1>2, <1>3, ChainTick
<1>8. Fill(more, n, d) = Gained(t)' BY <1>1, <1>2, <1>3, FillTick
<1>9. /\ RowsFit(t, f) /\ Refused(t, f) /\ Remembers(hist[t][f], bars, Len(bars)) BY DEF BarsOf
<1>. HIDE DEF w
<1>10. Remembers(hist'[t][f], more, Len(more))
  <2>1. CASE ~(w.start < Truncate(m, f)) /\ more = bars BY <1>3, <1>9, <2>1
  <2>2. CASE w.start < Truncate(m, f) /\ more = Append(bars, w)
    <3>. DEFINE k == Len(bars)
    <3>1. k \in Nat /\ Len(more) = k + 1 /\ more[k + 1] = w /\ \A i \in 1 .. k : more[i] = bars[i]
      BY <1>1, <1>4, <2>2
    <3>2. k <= Len(bars) /\ k <= Len(more) /\ k < Len(more) BY <3>1
    <3>3. Remembers(hist[t][f], bars, k) BY <1>9
    <3>4. bars \in Seq(Bar) /\ more \in Seq(Bar) BY <1>1, <1>3
    <3>5. hist'[t][f] = Analyzed(hist[t][f], more[k + 1]) BY <1>3, <2>2, <3>1
    <3>. HIDE DEF k, bars, more
    <3>6. Remembers(hist[t][f], more, k) BY <3>1, <3>2, <3>3, <3>4, RemembersSame
    <3>7. Remembers(Analyzed(hist[t][f], more[k + 1]), more, k + 1) BY <3>1, <3>2, <3>4, <3>6, RemembersNext
    <3>. QED BY <3>1, <3>5, <3>7
  <2>. QED BY <1>5, <2>1, <2>2
<1>. DEFINE last == bars[Len(bars)].start
<1>11. /\ Len(bars) \in Nat /\ n \in Nat /\ n <= Len(bars)
       /\ Len(bars) > 0 => bars[Len(bars)] \in Bar /\ c # NoCandle
       /\ OnWindow(w.start, f)
  BY <1>1, <1>2, <1>4 DEF Chained
<1>12. Len(bars) > 0 => last \in Int /\ (last < w.start \/ (n = Len(bars) /\ last = w.start))
  <2>. SUFFICES ASSUME Len(bars) > 0 PROVE last \in Int /\ (last < w.start \/ (n = Len(bars) /\ last = w.start))
    OBVIOUS
  <2>1. last \in Int /\ w = c BY <1>4, <1>11 DEF Bar
  <2>2. Later(last, c.start, f) \/ n = Len(bars) BY <1>2, <1>11 DEF Chained
  <2>3. n = Len(bars) => c = bars[n] BY <1>2, <1>11 DEF Chained
  <2>4. Later(last, c.start, f) => last < w.start BY <1>4, <2>1, LaterStarts
  <2>. QED BY <2>1, <2>2, <2>3, <2>4
<1>13. /\ Len(bars) > 0 => Len(more) > 0 /\ more[Len(more)].start \in Int /\ last <= more[Len(more)].start
       /\ more # bars => w.start < Truncate(m, f) /\ Len(more) > 0 /\ more[Len(more)].start = w.start
       /\ \A i \in 1 .. Len(bars) : more[i] = bars[i]
  <2>1. CASE more = bars BY <1>12, <2>1
  <2>2. CASE w.start < Truncate(m, f) /\ more = Append(bars, w)
    <3>1. Len(more) = Len(bars) + 1 /\ more[Len(more)] = w BY <1>1, <1>4, <2>2
    <3>2. \A i \in 1 .. Len(bars) : more[i] = bars[i] BY <1>1, <1>4, <2>2
    <3>. HIDE DEF last
    <3>. QED BY <1>4, <1>11, <1>12, <2>2, <3>1, <3>2
  <2>. QED BY <1>5, <2>1, <2>2
(* A row that this tick queues is that of the bar it closes. *)
<1>14. ASSUME NEW r \in queue', r \notin queue, r.token = t, r.tf = f
       PROVE  r.start = w.start /\ w.start < Truncate(m, f)
  <2>1. PICK g \in Timeframe : r = RowOf(t, g, WorkingOn(t, g, m, price)) /\ WorkingOn(t, g, m, price).start < Truncate(m, g)
    BY <1>14 DEF QueueTicked
  <2>2. g = f BY <1>14, <2>1 DEF RowOf
  <2>. QED BY <2>1, <2>2 DEF RowOf, w
<1>15. \A r \in queue \cup table : r.start \in Int BY DEF Types, TypeOK, BarRow
<1>16. ASSUME NEW r \in queue' \cup table', r.token = t, r.tf = f
       PROVE  Len(more) > 0 /\ r.start <= more[Len(more)].start /\ r.start < Truncate(m, f) /\ OnWindow(r.start, f)
  <2>1. CASE r \in queue \cup table
    <3>1. Len(bars) > 0 /\ r.start <= last /\ r.start < Truncate(now, f) /\ OnWindow(r.start, f)
      BY <1>9, <1>16, <2>1 DEF RowsFit
    <3>. HIDE DEF bars, more, last
    <3>. QED BY <1>6, <1>12, <1>13, <1>15, <2>1, <3>1
  <2>2. CASE r \notin queue \cup table
    <3>1. r \in queue' /\ r \notin queue BY <1>16, <2>2
    <3>2. r.start = w.start /\ w.start < Truncate(m, f) BY <1>14, <1>16, <3>1
    <3>3. more = Append(bars, w) BY <1>5, <3>2
    <3>4. Len(more) = Len(bars) + 1 /\ more[Len(more)] = w BY <1>1, <1>4, <3>3
    <3>. QED BY <1>4, <1>11, <3>2, <3>4
  <2>. QED BY <2>1, <2>2
<1>17. ASSUME NEW r \in queue', NEW s \in table, SameKey(r, s), r.token = t, r.tf = f
       PROVE  n > 0 /\ r.start = more[n].start
  <2>1. CASE r \in queue
    <3>1. n > 0 /\ r.start = bars[n].start BY <1>9, <1>17, <2>1 DEF Refused
    <3>2. n \in 1 .. Len(bars) BY <1>11, <3>1
    <3>3. more[n] = bars[n] BY <1>13, <3>2
    <3>. QED BY <3>1, <3>3
  <2>2. CASE r \notin queue
    <3>1. r.start = w.start BY <1>14, <1>17, <2>2
    <3>2. s.token = t /\ s.tf = f /\ s.start = w.start BY <1>17, <3>1 DEF SameKey
    <3>3. Len(bars) > 0 /\ s.start <= last BY <1>9, <3>2 DEF RowsFit
    <3>4. s.start \in Int BY <1>15
    <3>. HIDE DEF last
    <3>5. n = Len(bars) /\ last = w.start BY <1>4, <1>11, <1>12, <3>2, <3>3, <3>4
    <3>6. n \in 1 .. Len(bars) BY <1>11, <3>3, <3>5
    <3>7. more[n] = bars[n] BY <1>13, <3>6
    <3>. QED BY <1>11, <3>1, <3>3, <3>5, <3>7 DEF last
  <2>. QED BY <2>1, <2>2
<1>18. RowsFit(t, f)' BY <1>16 DEF RowsFit
<1>19. Refused(t, f)' BY <1>17 DEF Refused
<1>. QED BY <1>7, <1>8, <1>10, <1>18, <1>19 DEF BarsOf

LEMMA SessionBarsKept ==
  ASSUME Types, AllBars, NEW t \in Token, NEW m \in Minute, NEW price \in Price, NEW d \in Trades,
         SessionTick(t, m, price, d), now' = m, now <= m, now \in Int, m \in Int
  PROVE  AllBars'
<1>. DEFINE vol == TickVolume(t, price, d)
<1>1. /\ vol \in Nat /\ Gained(t)' = Gained(t) + vol
      /\ \A u \in Token \ {t} : Gained(u)' = Gained(u)
  BY SessionGains
<1>2. BarStep(t, m, price, vol) /\ table' = table /\ warmed' = warmed BY SessionIs
<1>. HIDE DEF vol
<1>3. /\ \A f \in Timeframe : BarTicked(t, m, price, vol, f)
      /\ \A u \in Token \ {t} : candle'[u] = candle[u] /\ hist'[u] = hist[u] /\ ingested'[u] = ingested[u]
      /\ QueueTicked(t, m, price, queue')
  BY <1>1, <1>2, BarsTicked
<1>4. ASSUME NEW f \in Timeframe PROVE BarsOf(t, f)'
  <2>1. BarsOf(t, f) BY DEF AllBars
  <2>. QED BY <1>1, <1>2, <1>3, <2>1, BarsTick
<1>5. ASSUME NEW u \in Token \ {t}, NEW f \in Timeframe PROVE BarsOf(u, f)'
  <2>1. BarsOf(u, f) BY DEF AllBars
  <2>2. ingested[u][f] \in Seq(Bar) /\ candle[u][f] \in Bar \cup {NoCandle} BY DEF Types, TypeOK
  <2>3. Chained(f, now, ingested[u][f], warmed[u][f], candle[u][f]) BY <2>1 DEF BarsOf
  <2>4. Chained(f, now', ingested[u][f], warmed[u][f], candle[u][f]) BY <2>2, <2>3, ChainWaits
  <2>5. /\ Truncate(m, f) \in Int /\ Truncate(now, f) \in Int /\ Truncate(now, f) <= Truncate(m, f)
    BY Windows, TruncateMonotone
  <2>6. \A r \in queue' \ queue : r.token = t BY <1>3 DEF QueueTicked, RowOf
  <2>7. \A r \in queue \cup table : r.start \in Int BY DEF Types, TypeOK, BarRow
  <2>8. RowsFit(u, f) /\ Refused(u, f) BY <2>1 DEF BarsOf
  <2>9. RowsFit(u, f)' BY <1>2, <1>3, <2>5, <2>6, <2>7, <2>8 DEF RowsFit
  <2>10. Refused(u, f)' BY <1>2, <1>3, <2>6, <2>8 DEF Refused
  <2>. QED BY <1>1, <1>2, <1>3, <2>1, <2>4, <2>9, <2>10 DEF BarsOf
<1>. QED BY <1>4, <1>5 DEF AllBars

LEMMA RestartBars == ASSUME Types, AllBars, Restart PROVE AllBars'
<1>. SUFFICES ASSUME NEW t \in Token, NEW f \in Timeframe PROVE BarsOf(t, f)' BY DEF AllBars
<1>. DEFINE bars == SessionBars(t, f)  n == Len(bars)  c == WorkingBar(bars)
<1>1. /\ ingested'[t][f] = bars /\ warmed'[t][f] = n /\ candle'[t][f] = c /\ hist'[t][f] = Rehydrated(bars)
      /\ profile'[t] = Loaded(saved[t]) /\ carried'[t] = saved[t].total
      /\ now' = now /\ queue' = {} /\ table' = table
  BY DEF Restart
<1>2. /\ bars \in Seq(Bar)
      /\ \A i \in 1 .. n : \E r \in table : r.token = t /\ r.tf = f /\ r.start = bars[i].start
      /\ \A i \in 1 .. n - 1 : bars[i].start < bars[i + 1].start
      /\ \A r \in table : r.token = t /\ r.tf = f => n > 0 /\ r.start <= bars[n].start
  BY ReadBack
<1>. HIDE DEF bars
<1>3. n \in Nat /\ (n > 0 <=> bars # <<>>) /\ \A i \in 1 .. n : bars[i] \in Bar BY <1>2
<1>4. RowsFit(t, f) BY DEF AllBars, BarsOf
<1>5. \A i \in 1 .. n : bars[i].start \in Int /\ OnWindow(bars[i].start, f) /\ bars[i].start < Truncate(now, f)
  BY <1>2, <1>3, <1>4 DEF RowsFit, Bar
<1>6. /\ n = 0 => c = NoCandle
      /\ n > 0 => c = bars[n] /\ c # NoCandle /\ n \in 1 .. n
  BY <1>3, NoCandleIs DEF WorkingBar
<1>7. \A i \in 1 .. n - 1 : Later(bars[i].start, bars[i + 1].start, f)
  <2>1. \A i \in 1 .. n - 1 : i \in 1 .. n /\ i + 1 \in 1 .. n BY <1>3
  <2>. QED BY <1>2, <1>5, <2>1, NextWindow
<1>. HIDE DEF c
<1>8. Chained(f, now, bars, n, c) BY <1>3, <1>5, <1>6, <1>7 DEF Chained
<1>9. Remembers(Rehydrated(bars), bars, n) BY <1>2, RehydratedRemembers
<1>10. Fill(bars, n, c) = 0 BY <1>2, FreshStart DEF c
<1>11. Gained(t)' = 0
  <2>1. saved[t].total \in Nat BY DEF Types, TypeOK
  <2>. QED BY <1>1, <2>1, LoadedIs DEF Gained
<1>12. RowsFit(t, f)'
  <2>. SUFFICES ASSUME NEW r \in table, r.token = t, r.tf = f
                PROVE  n > 0 /\ r.start <= bars[n].start /\ r.start < Truncate(now, f) /\ OnWindow(r.start, f)
    BY <1>1 DEF RowsFit
  <2>. QED BY <1>2, <1>4 DEF RowsFit
<1>13. Refused(t, f)' BY <1>1 DEF Refused
<1>14. /\ Chained(f, now', ingested'[t][f], warmed'[t][f], candle'[t][f])
       /\ Remembers(hist'[t][f], ingested'[t][f], Len(ingested'[t][f]))
       /\ Fill(ingested'[t][f], warmed'[t][f], candle'[t][f]) = Gained(t)'
  BY <1>1, <1>8, <1>9, <1>10, <1>11
<1>. QED BY <1>12, <1>13, <1>14 DEF BarsOf

LEMMA StepBars == Types /\ AllBars /\ [Next]_vars => AllBars'
<1>. SUFFICES ASSUME Types, AllBars, [Next]_vars PROVE AllBars' OBVIOUS
<1>1. now \in Int BY TimeIs
<1>2. ASSUME NEW t \in Token, NEW m \in Minute, NEW price \in Price, NEW d \in Trades, Tick(t, m, price, d)
      PROVE  AllBars'
  <2>1. /\ now' = m /\ m >= now /\ m \in Int /\ now <= m
        /\ PreMarketTick(t, m, d) \/ SessionTick(t, m, price, d)
    BY <1>1, <1>2, TickIs
  <2>2. CASE PreMarketTick(t, m, d)
    <3>1. UNCHANGED <<stages, stored, seen>> BY <2>2 DEF PreMarketTick
    <3>2. /\ UNCHANGED <<candle, hist, ingested, warmed, queue, table>>
          /\ \A u \in Token : Gained(u)' = Gained(u)
      BY <3>1 DEF stages, stored, seen, Gained
    <3>. QED BY <2>1, <3>2, BarsWait
  <2>3. CASE SessionTick(t, m, price, d) BY <1>1, <2>1, <2>3, SessionBarsKept
  <2>. QED BY <2>1, <2>2, <2>3
<1>3. ASSUME NEW s \in saves, SaveProfile(s) PROVE AllBars'
  <2>1. UNCHANGED <<now, candle, hist, ingested, warmed, queue, table, profile, carried>>
    BY <1>3 DEF SaveProfile, stages, seen
  <2>2. \A u \in Token : Gained(u)' = Gained(u) BY <2>1 DEF Gained
  <2>. QED BY <1>1, <2>1, <2>2, BarsWait
<1>4. CASE FlushBars
  <2>1. /\ UNCHANGED <<now, candle, hist, ingested, warmed, profile, carried>>
        /\ queue' = {} /\ table' \subseteq table \cup queue
    BY <1>4 DEF FlushBars, stages, seen
  <2>2. \A u \in Token : Gained(u)' = Gained(u) BY <2>1 DEF Gained
  <2>. QED BY <1>1, <2>1, <2>2, BarsWait
<1>5. CASE Restart BY <1>5, RestartBars
<1>6. CASE UNCHANGED vars
  <2>1. UNCHANGED <<now, candle, hist, ingested, warmed, queue, table, profile, carried>>
    BY <1>6 DEF vars, stages, stored, seen
  <2>2. \A u \in Token : Gained(u)' = Gained(u) BY <2>1 DEF Gained
  <2>. QED BY <1>1, <2>1, <2>2, BarsWait
<1>. QED BY <1>2, <1>3, <1>4, <1>5, <1>6 DEF Next

LEMMA BarsInvariant == Spec => [](Types /\ AllBars)
<1>1. Init => Types /\ AllBars BY InitTypes, InitBars
<1>2. (Types /\ AllBars) /\ [Next]_vars => (Types /\ AllBars)' BY StepTypes, StepBars
<1>. QED BY <1>1, <1>2, PTL DEF Spec

(* Volumes are conserved and the stages agree: what the exchange traded since an instrument
   was first seen is in its profile, but for what a restart and the gap before the first
   counted tick let go of, and the bars of each timeframe hold together what the profile
   gained since the process started, whatever ticks are dropped and over restarts. *)
THEOREM VolumeKept == Spec => []VolumeConserved
<1>1. ASSUME Types, Counting, AllBars PROVE VolumeConserved
  <2>. SUFFICES ASSUME NEW t \in Token
                PROVE  /\ base[t] # Never => profile[t].total + lost[t] = market[t] - base[t]
                       /\ base[t] = Never => profile[t].total = 0 /\ lost[t] = 0
                       /\ \A f \in Timeframe : Filled(t, f) = Gained(t)
    BY DEF VolumeConserved, Gained
  <2>1. /\ base[t] # Never => profile[t].total + lost[t] = market[t] - base[t]
        /\ base[t] = Never => profile[t].total = 0 /\ lost[t] = 0
    BY <1>1 DEF Counting
  <2>2. ASSUME NEW f \in Timeframe PROVE Filled(t, f) = Gained(t)
    <3>. DEFINE bars == ingested[t][f]  n == warmed[t][f]
    <3>1. DOMAIN Fresh(bars, n) = 1 .. Len(bars) BY DEF Fresh
    <3>2. Filled(t, f) = SumFunction(Fresh(bars, n)) + (IF n > 0 /\ ~Again(bars, n) THEN 0 ELSE candle[t][f].vol)
      BY DEF Filled, Fresh, Again
    <3>3. SumFunction(Fresh(bars, n)) = SumFunctionOnSet(Fresh(bars, n), 1 .. Len(bars))
      BY <3>1 DEF SumFunction, SumFunctionOnSet, FoldFunction
    <3>4. Filled(t, f) = Fill(bars, n, candle[t][f]) BY <3>2, <3>3 DEF Fill
    <3>. QED BY <1>1, <3>4 DEF AllBars, BarsOf
  <2>. QED BY <2>1, <2>2
<1>2. Init => Types /\ Quotes /\ Counting BY InitTypes, InitQuotes, InitCounting
<1>3. (Types /\ Quotes /\ Counting) /\ [Next]_vars => (Types /\ Quotes /\ Counting)'
  BY StepTypes, StepQuotes, StepCounting DEF Quotes
<1>4. Spec => [](Types /\ Quotes /\ Counting) BY <1>2, <1>3, PTL DEF Spec
<1>5. Types /\ Counting /\ AllBars => VolumeConserved BY <1>1
<1>. QED BY <1>4, <1>5, BarsInvariant, PTL

(* The strategy engine gets each bar once and in order, from windows that do not overlap in
   an aligned timeframe; only the row of a bar that was read back is ever refused; and the
   anchored VWAP holds the bars from its anchor on, also after a restart. *)
THEOREM BarsKept == Spec => []BarsOnce
<1>1. ASSUME Types, AllBars PROVE BarsOnce
  <2>. SUFFICES ASSUME NEW t \in Token, NEW f \in Timeframe
       PROVE  LET bars == ingested[t][f]
                  far == {i \in DOMAIN bars : bars[i].close >= FarPrice} IN
              /\ \A i \in 1 .. Len(bars) - 1 :
                   \/ bars[i].start + (IF Aligned(f) THEN f ELSE 1) <= bars[i + 1].start
                   \/ i = warmed[t][f] /\ bars[i + 1] = bars[i]
              /\ \A r \in queue, s \in table :
                   SameKey(r, s) /\ r.token = t /\ r.tf = f =>
                     warmed[t][f] > 0 /\ r.start = bars[warmed[t][f]].start
              /\ hist[t][f].anchored <=> far # {}
              /\ hist[t][f].held =
                   SumFunction([i \in DOMAIN bars |-> IF \E j \in far : j <= i THEN bars[i].vol ELSE 0])
    BY DEF BarsOnce
  <2>. DEFINE bars == ingested[t][f]  h == hist[t][f]
              far == {i \in DOMAIN bars : bars[i].close >= FarPrice}
  <2>1. BarsOf(t, f) BY <1>1 DEF AllBars
  <2>2. bars \in Seq(Bar) /\ Len(bars) \in Nat /\ DOMAIN bars = 1 .. Len(bars) BY <1>1 DEF Types, TypeOK
  <2>3. Chained(f, now, bars, warmed[t][f], candle[t][f]) /\ Refused(t, f) /\ Remembers(h, bars, Len(bars))
    BY <2>1 DEF BarsOf
  <2>4. \A i \in 1 .. Len(bars) - 1 :
          \/ bars[i].start + (IF Aligned(f) THEN f ELSE 1) <= bars[i + 1].start
          \/ i = warmed[t][f] /\ bars[i + 1] = bars[i]
    BY <2>3 DEF Chained, Later
  <2>5. \A r \in queue, s \in table :
          SameKey(r, s) /\ r.token = t /\ r.tf = f =>
            warmed[t][f] > 0 /\ r.start = bars[warmed[t][f]].start
    BY <2>3 DEF Refused
  <2>6. far # {} <=> FarBy(bars, Len(bars)) BY <2>2 DEF FarBy, Far
  <2>7. \A i \in DOMAIN bars : (\E j \in far : j <= i) <=> FarBy(bars, i) BY <2>2 DEF FarBy, Far
  <2>8. h.anchored <=> far # {}
    <3>1. h.anchored <=> FarBy(bars, Len(bars)) BY <2>3, Zenon DEF Remembers
    <3>. QED BY <2>6, <3>1, Zenon
  <2>9. h.held = SumFunction([i \in DOMAIN bars |-> IF \E j \in far : j <= i THEN bars[i].vol ELSE 0])
    <3>1. h.held = SumFunctionOnSet(FromAnchor(bars), 1 .. Len(bars)) BY <2>3 DEF Remembers
    <3>. HIDE DEF far, bars, h
    <3>2. FromAnchor(bars) = [i \in DOMAIN bars |-> IF \E j \in far : j <= i THEN bars[i].vol ELSE 0]
      BY <2>7 DEF FromAnchor
    <3>3. DOMAIN FromAnchor(bars) = 1 .. Len(bars) BY <2>2 DEF FromAnchor
    <3>4. SumFunction(FromAnchor(bars)) = SumFunctionOnSet(FromAnchor(bars), 1 .. Len(bars))
      BY <3>3 DEF SumFunction, SumFunctionOnSet, FoldFunction
    <3>. QED BY <3>1, <3>2, <3>4
  <2>. HIDE DEF far, h
  <2>10. bars = ingested[t][f] /\ h = hist[t][f] /\ far = {i \in DOMAIN bars : bars[i].close >= FarPrice}
    BY DEF far, h
  <2>. QED BY <2>4, <2>5, <2>8, <2>9, <2>10, Zenon
<1>2. Types /\ AllBars => BarsOnce BY <1>1
<1>. QED BY <1>2, BarsInvariant, PTL
-----------------------------------------------------------------------------
(* The value area.  Buckets that were traded have volume, and with a bucket size that no
   price falls below, their prices are above zero. *)
Positive(b) == Finite(b) /\ \A x \in DOMAIN b : x > 0 /\ b[x] > 0
Span(b) == (DOMAIN b) \X (DOMAIN b)

LEMMA Neighbours ==
  ASSUME NEW b, Positive(b), NEW lo \in DOMAIN b, NEW hi \in DOMAIN b
  PROVE  /\ VolumeUp(b, hi) \in Nat /\ VolumeDown(b, lo) \in Nat
         /\ Above(b, hi) = {} <=> VolumeUp(b, hi) = 0
         /\ Below(b, lo) = {} <=> VolumeDown(b, lo) = 0
         /\ Above(b, hi) # {} =>
              /\ Min(Above(b, hi)) \in DOMAIN b /\ hi < Min(Above(b, hi))
              /\ \A x \in DOMAIN b : hi < x => Min(Above(b, hi)) <= x
         /\ Below(b, lo) # {} =>
              /\ Max(Below(b, lo)) \in DOMAIN b /\ Max(Below(b, lo)) < lo
              /\ \A x \in DOMAIN b : x < lo => x <= Max(Below(b, lo))
<1>. DEFINE D == DOMAIN b  U == Above(b, hi)  L == Below(b, lo)
<1>1. /\ D \subseteq Nat /\ IsFiniteSet(D)
      /\ \A x \in D : b[x] \in Nat /\ b[x] > 0
  BY DEF Positive, Finite, IsBuckets
<1>2. U \in SUBSET Nat /\ \A x : x \in U <=> x \in D /\ hi < x BY <1>1 DEF Above
<1>3. L \subseteq Nat /\ IsFiniteSet(L) /\ \A x : x \in L <=> x \in D /\ x < lo
  BY <1>1, FS_Subset DEF Below
<1>4. VolumeUp(b, hi) = IF U = {} THEN 0 ELSE b[Min(U)] BY DEF VolumeUp
<1>5. VolumeDown(b, lo) = IF L = {} THEN 0 ELSE b[Max(L)] BY DEF VolumeDown
<1>. HIDE DEF U, L
<1>6. U # {} => Min(U) \in D /\ hi < Min(U) /\ \A x \in D : hi < x => Min(U) <= x
  <2>. SUFFICES ASSUME U # {} PROVE Min(U) \in D /\ hi < Min(U) /\ \A x \in D : hi < x => Min(U) <= x
    OBVIOUS
  <2>1. Min(U) \in U /\ \A y \in U : Min(U) <= y BY <1>2, LeastIs
  <2>. QED BY <1>2, <2>1
<1>7. L # {} => Max(L) \in D /\ Max(L) < lo /\ \A x \in D : x < lo => x <= Max(L)
  <2>. SUFFICES ASSUME L # {} PROVE Max(L) \in D /\ Max(L) < lo /\ \A x \in D : x < lo => x <= Max(L)
    OBVIOUS
  <2>1. Max(L) \in L /\ \A y \in L : y <= Max(L) BY <1>3, LargestIs
  <2>. QED BY <1>3, <2>1
<1>8. VolumeUp(b, hi) \in Nat /\ (U = {} <=> VolumeUp(b, hi) = 0) BY <1>1, <1>4, <1>6
<1>9. VolumeDown(b, lo) \in Nat /\ (L = {} <=> VolumeDown(b, lo) = 0) BY <1>1, <1>5, <1>7
<1>. QED BY <1>6, <1>7, <1>8, <1>9 DEF U, L

(* How far a window is from holding all buckets: widening it brings it nearer. *)
Room(b, w) == (Max(DOMAIN b) - w[2]) + w[1]

LEMMA RoomIs ==
  ASSUME NEW b, Positive(b), NEW w \in Span(b)
  PROVE  Room(b, w) \in Nat
<1>1. DOMAIN b \subseteq Nat /\ IsFiniteSet(DOMAIN b) BY DEF Positive, Finite, IsBuckets
<1>2. w[1] \in DOMAIN b /\ w[2] \in DOMAIN b BY DEF Span
<1>3. Max(DOMAIN b) \in DOMAIN b /\ \A y \in DOMAIN b : y <= Max(DOMAIN b) BY <1>1, <1>2, LargestIs
<1>. QED BY <1>1, <1>2, <1>3 DEF Room

(* A window that grows takes in the next bucket above or the next one below. *)
LEMMA WiderIs ==
  ASSUME NEW b, Positive(b), NEW total, NEW w \in Span(b), Grows(b, total, w)
  PROVE  /\ Wider(b, w) \in Span(b) /\ Room(b, Wider(b, w)) < Room(b, w)
         /\ \/ /\ Wider(b, w)[1] = w[1] /\ w[2] < Wider(b, w)[2]
               /\ \A x \in DOMAIN b : w[2] < x => Wider(b, w)[2] <= x
            \/ /\ Wider(b, w)[2] = w[2] /\ Wider(b, w)[1] < w[1]
               /\ \A x \in DOMAIN b : x < w[1] => x <= Wider(b, w)[1]
<1>. DEFINE D == DOMAIN b  lo == w[1]  hi == w[2]  up == Min(Above(b, hi))  down == Max(Below(b, lo))
            v == Wider(b, w)
<1>1. D \subseteq Nat /\ IsFiniteSet(D) BY DEF Positive, Finite, IsBuckets
<1>2. lo \in D /\ hi \in D BY DEF Span
<1>3. Max(D) \in Nat BY <1>1, <1>2, LargestIs
<1>4. /\ VolumeUp(b, hi) \in Nat /\ VolumeDown(b, lo) \in Nat
      /\ Above(b, hi) = {} <=> VolumeUp(b, hi) = 0
      /\ Below(b, lo) = {} <=> VolumeDown(b, lo) = 0
      /\ Above(b, hi) # {} => up \in D /\ hi < up /\ \A x \in D : hi < x => up <= x
      /\ Below(b, lo) # {} => down \in D /\ down < lo /\ \A x \in D : x < lo => x <= down
  BY <1>2, Neighbours
<1>5. ~(VolumeUp(b, hi) = 0 /\ VolumeDown(b, lo) = 0) BY DEF Grows
<1>6. v = IF VolumeUp(b, hi) >= VolumeDown(b, lo) THEN <<lo, up>> ELSE <<down, hi>> BY DEF Wider
<1>7. Room(b, w) = (Max(D) - hi) + lo /\ Room(b, v) = (Max(D) - v[2]) + v[1] BY DEF Room
<1>. HIDE DEF v, up, down, lo, hi
<1>8. CASE VolumeUp(b, hi) >= VolumeDown(b, lo)
  <2>1. v = <<lo, up>> BY <1>6, <1>8
  <2>2. up \in D /\ hi < up /\ \A x \in D : hi < x => up <= x BY <1>4, <1>5, <1>8
  <2>3. v[1] = lo /\ v[2] = up /\ v \in D \X D BY <1>2, <2>1, <2>2
  <2>4. Room(b, v) < Room(b, w) BY <1>1, <1>2, <1>3, <1>7, <2>2, <2>3
  <2>. QED BY <2>2, <2>3, <2>4 DEF v, lo, hi, Span
<1>9. CASE ~(VolumeUp(b, hi) >= VolumeDown(b, lo))
  <2>1. v = <<down, hi>> BY <1>6, <1>9
  <2>2. down \in D /\ down < lo /\ \A x \in D : x < lo => x <= down BY <1>4, <1>5, <1>9
  <2>3. v[1] = down /\ v[2] = hi /\ v \in D \X D BY <1>2, <2>1, <2>2
  <2>4. Room(b, v) < Room(b, w) BY <1>1, <1>2, <1>3, <1>7, <2>2, <2>3
  <2>. QED BY <2>2, <2>3, <2>4 DEF v, lo, hi, Span
<1>. QED BY <1>8, <1>9

(* The loop comes to an end, so the function that stands for it exists. *)
LEMMA GrowExists ==
  ASSUME NEW b, Positive(b), NEW total
  PROVE  \E g : g = [w \in (DOMAIN b) \X (DOMAIN b) |-> IF Grows(b, total, w) THEN g[Wider(b, w)] ELSE w]
<1>. DEFINE W == Span(b)
            Near(n) == {w \in W : Room(b, w) <= n}
            Body(g, w) == IF Grows(b, total, w) THEN g[Wider(b, w)] ELSE w
            Is(g, n) == g = [w \in Near(n) |-> Body(g, w)]
            T == {n \in Nat : ~ \E g : Is(g, n)}
<1>1. \A w \in W : Room(b, w) \in Nat BY RoomIs
<1>2. \A w \in W : Grows(b, total, w) => Wider(b, w) \in W /\ Room(b, Wider(b, w)) < Room(b, w) BY WiderIs
<1>. HIDE DEF W
<1>3. \A n \in Nat : \E g : Is(g, n)
  <2>. SUFFICES ASSUME T # {} PROVE FALSE OBVIOUS
  <2>1. T \in SUBSET Nat OBVIOUS
  <2>. HIDE DEF T
  <2>2. PICK n \in T : \A m \in T : n <= m BY <2>1, LeastNatural
  <2>3. n \in Nat /\ ~ \E g : Is(g, n) BY <2>2 DEF T
  <2>4. PICK g : \A w \in Near(n) :
          Grows(b, total, w) => \E m \in Nat : n = m + 1 /\ g = [v \in Near(m) |-> Body(g, v)]
    <3>1. CASE n = 0
      <4>1. \A w \in Near(n) : ~Grows(b, total, w) BY <1>1, <1>2, <3>1
      <4>. QED BY <4>1
    <3>2. CASE n # 0
      <4>1. n - 1 \in Nat /\ ~(n <= n - 1) /\ n = (n - 1) + 1 BY <2>3, <3>2
      <4>2. n - 1 \notin T BY <2>2, <4>1
      <4>3. PICK g : Is(g, n - 1) BY <4>1, <4>2 DEF T
      <4>. QED BY <4>1, <4>3
    <3>. QED BY <3>1, <3>2
  <2>. DEFINE h == [w \in Near(n) |-> Body(g, w)]
  <2>5. ASSUME NEW w \in Near(n) PROVE h[w] = Body(h, w)
    <3>1. CASE ~Grows(b, total, w) BY <3>1
    <3>2. CASE Grows(b, total, w)
      <4>1. PICK m \in Nat : n = m + 1 /\ g = [v \in Near(m) |-> Body(g, v)] BY <2>4, <3>2
      <4>. DEFINE v == Wider(b, w)
      <4>2. v \in W /\ Room(b, v) < Room(b, w) BY <1>2, <3>2
      <4>. HIDE DEF v
      <4>3. v \in Near(m) /\ v \in Near(n) BY <1>1, <4>1, <4>2
      <4>4. g[v] = Body(g, v) BY <4>1, <4>3
      <4>5. h[v] = Body(g, v) BY <4>3
      <4>. QED BY <3>2, <4>4, <4>5 DEF v
    <3>. QED BY <3>1, <3>2
  <2>6. h = [w \in Near(n) |-> h[w]] OBVIOUS
  <2>. HIDE DEF h
  <2>7. Is(h, n) BY <2>5, <2>6
  <2>. QED BY <2>3, <2>7
<1>4. \E n \in Nat : Near(n) = W
  <2>1. CASE W = {} BY <2>1
  <2>2. CASE W # {}
    <3>1. DOMAIN b \subseteq Nat /\ IsFiniteSet(DOMAIN b) BY DEF Positive, Finite, IsBuckets
    <3>2. DOMAIN b # {} BY <2>2 DEF W, Span
    <3>3. Max(DOMAIN b) \in Nat /\ \A y \in DOMAIN b : y <= Max(DOMAIN b) BY <3>1, <3>2, LargestIs
    <3>4. \A w \in W : w[1] \in DOMAIN b /\ w[2] \in DOMAIN b BY DEF W, Span
    <3>5. \A w \in W : Room(b, w) <= 2 * Max(DOMAIN b) BY <3>1, <3>3, <3>4 DEF Room
    <3>. QED BY <3>3, <3>5
  <2>. QED BY <2>1, <2>2
<1>5. PICK n \in Nat : Near(n) = W BY <1>4
<1>6. PICK g : Is(g, n) BY <1>3
<1>7. g = [w \in W |-> Body(g, w)]
  <2>. HIDE DEF Near, Body
  <2>. QED BY <1>5, <1>6
<1>. QED BY <1>7 DEF W, Span

(* A window around the point of control that holds no more than it must. *)
Good(b, total, poc, w) ==
  /\ w \in Span(b) /\ w[1] <= poc /\ poc <= w[2]
  /\ w[1] < w[2] => \/ Short(VolumeWithin(b, w[1] + 1, w[2]), total)
                    \/ Short(VolumeWithin(b, w[1], w[2] - 1), total)

LEMMA WiderGood ==
  ASSUME NEW b, Positive(b), NEW total, NEW poc \in Nat, NEW w, Good(b, total, poc, w), Grows(b, total, w)
  PROVE  Good(b, total, poc, Wider(b, w))
<1>. DEFINE D == DOMAIN b  v == Wider(b, w)
<1>1. D \subseteq Nat BY DEF Positive, Finite, IsBuckets
<1>2. w \in Span(b) /\ w[1] <= poc /\ poc <= w[2] BY DEF Good
<1>3. /\ v \in Span(b)
      /\ \/ v[1] = w[1] /\ w[2] < v[2] /\ \A x \in D : w[2] < x => v[2] <= x
         \/ v[2] = w[2] /\ v[1] < w[1] /\ \A x \in D : x < w[1] => x <= v[1]
  BY <1>2, WiderIs
<1>4. w[1] \in Nat /\ w[2] \in Nat /\ v[1] \in Nat /\ v[2] \in Nat BY <1>1, <1>2, <1>3 DEF Span
<1>5. Short(VolumeWithin(b, w[1], w[2]), total) BY DEF Grows
<1>. HIDE DEF v, D
<1>6. CASE v[1] = w[1] /\ w[2] < v[2] /\ \A x \in D : w[2] < x => v[2] <= x
  <2>1. \A x \in D : (v[1] <= x /\ x <= v[2] - 1) <=> (w[1] <= x /\ x <= w[2]) BY <1>1, <1>4, <1>6
  <2>2. {x \in D : v[1] <= x /\ x <= v[2] - 1} = {x \in D : w[1] <= x /\ x <= w[2]} BY <2>1
  <2>3. VolumeWithin(b, v[1], v[2] - 1) = VolumeWithin(b, w[1], w[2])
    BY <2>2, Zenon DEF VolumeWithin, D
  <2>4. v[1] <= poc /\ poc <= v[2] BY <1>2, <1>4, <1>6
  <2>5. Short(VolumeWithin(b, v[1], v[2] - 1), total) BY <1>5, <2>3
  <2>. QED BY <1>3, <2>4, <2>5 DEF Good, v
<1>7. CASE v[2] = w[2] /\ v[1] < w[1] /\ \A x \in D : x < w[1] => x <= v[1]
  <2>1. \A x \in D : (v[1] + 1 <= x /\ x <= v[2]) <=> (w[1] <= x /\ x <= w[2]) BY <1>1, <1>4, <1>7
  <2>2. {x \in D : v[1] + 1 <= x /\ x <= v[2]} = {x \in D : w[1] <= x /\ x <= w[2]} BY <2>1
  <2>3. VolumeWithin(b, v[1] + 1, v[2]) = VolumeWithin(b, w[1], w[2])
    BY <2>2, Zenon DEF VolumeWithin, D
  <2>4. v[1] <= poc /\ poc <= v[2] BY <1>2, <1>4, <1>7
  <2>5. Short(VolumeWithin(b, v[1] + 1, v[2]), total) BY <1>5, <2>3
  <2>. QED BY <1>3, <2>4, <2>5 DEF Good, v
<1>. QED BY <1>3, <1>6, <1>7

(* A window that no longer grows holds its share: it is no longer short, or it has no
   neighbour left and holds everything. *)
LEMMA GoodEnd ==
  ASSUME NEW b, Positive(b), NEW poc \in Nat, NEW w, Good(b, Volume(b), poc, w), ~Grows(b, Volume(b), w)
  PROVE  IsValueArea(b, Volume(b), poc, w[1], w[2])
<1>. DEFINE D == DOMAIN b  total == Volume(b)  held == VolumeWithin(b, w[1], w[2])
<1>1. D \subseteq Nat /\ IsFiniteSet(D) /\ \A x \in D : b[x] \in Nat BY DEF Positive, Finite, IsBuckets
<1>2. w[1] \in D /\ w[2] \in D /\ w[1] <= poc /\ poc <= w[2] BY DEF Good, Span
<1>3. total \in Nat BY VolumeIs DEF Positive
<1>4. held \in Nat
  <2>. DEFINE S == {x \in D : w[1] <= x /\ x <= w[2]}
  <2>1. IsFiniteSet(S) /\ \A x \in S : Restrict(b, S)[x] \in Nat BY <1>1, FS_Subset DEF Restrict
  <2>2. DOMAIN Restrict(b, S) = S BY DEF Restrict
  <2>3. held = SumFunctionOnSet(Restrict(b, S), S) BY <2>2 DEF VolumeWithin, Volume, SumFunction
  <2>. QED BY <2>1, <2>3, SumNatural
<1>5. 10 * held >= 7 * total
  <2>1. CASE ~Short(held, total)
    <3>1. ~(10 * held < 7 * total) BY <2>1 DEF Short
    <3>. HIDE DEF held, total
    <3>. QED BY <1>3, <1>4, <3>1
  <2>2. CASE VolumeUp(b, w[2]) = 0 /\ VolumeDown(b, w[1]) = 0
    <3>1. Above(b, w[2]) = {} /\ Below(b, w[1]) = {} BY <1>2, <2>2, Neighbours
    <3>2. \A x \in D : w[1] <= x /\ x <= w[2] BY <1>1, <1>2, <3>1 DEF Above, Below
    <3>3. {x \in D : w[1] <= x /\ x <= w[2]} = D BY <3>2
    <3>4. held = Volume(Restrict(b, D)) BY <3>3 DEF VolumeWithin
    <3>5. DOMAIN Restrict(b, D) = D /\ \A x \in D : Restrict(b, D)[x] = b[x] BY DEF Restrict
    <3>6. SumFunctionOnSet(b, D) = SumFunctionOnSet(Restrict(b, D), D) BY <1>1, <3>5, SumEqual
    <3>7. held = total BY <3>4, <3>5, <3>6 DEF Volume, SumFunction
    <3>. HIDE DEF held, total
    <3>. QED BY <1>3, <3>7
  <2>3. ~Short(held, total) \/ (VolumeUp(b, w[2]) = 0 /\ VolumeDown(b, w[1]) = 0) BY DEF Grows
  <2>. QED BY <2>1, <2>2, <2>3
<1>6. w[1] < w[2] => \/ 10 * VolumeWithin(b, w[1] + 1, w[2]) < 7 * Volume(b)
                     \/ 10 * VolumeWithin(b, w[1], w[2] - 1) < 7 * Volume(b)
  BY DEF Good, Short
<1>7. {w[1], w[2]} \subseteq D BY <1>2
<1>. HIDE DEF D
<1>. QED BY <1>2, <1>5, <1>6, <1>7, Zenon DEF IsValueArea, D

(* The point of control is the lowest of the fullest buckets. *)
LEMMA PointIs ==
  ASSUME NEW b, Finite(b), DOMAIN b # {}
  PROVE  LET poc == PointOfControl(b) IN
         /\ poc \in DOMAIN b
         /\ \A x \in DOMAIN b : b[x] <= b[poc] /\ (b[x] = b[poc] => poc <= x)
<1>. DEFINE D == DOMAIN b  F == {x \in D : \A c \in D : b[c] <= b[x]}
<1>1. D \subseteq Nat /\ IsFiniteSet(D) /\ \A x \in D : b[x] \in Nat BY DEF Finite, IsBuckets
<1>2. F # {}
  <2>. DEFINE V == {b[x] : x \in D}
  <2>1. IsFiniteSet(V)
    <3>. DEFINE f == [x \in D |-> b[x]]
    <3>1. f \in Surjection(D, V) BY DEF Surjection
    <3>. HIDE DEF f, V
    <3>. QED BY <1>1, <3>1, FS_Surjection
  <2>2. V \subseteq Nat /\ V # {} BY <1>1
  <2>. HIDE DEF V
  <2>3. Max(V) \in V /\ \A y \in V : y <= Max(V) BY <2>1, <2>2, LargestIs
  <2>4. PICK x \in D : b[x] = Max(V) BY <2>3 DEF V
  <2>5. \A c \in D : b[c] <= b[x] BY <2>3, <2>4 DEF V
  <2>. QED BY <2>4, <2>5
<1>3. F \in SUBSET Nat BY <1>1
<1>4. Min(F) \in F /\ \A y \in F : Min(F) <= y BY <1>2, <1>3, LeastIs
<1>. DEFINE poc == PointOfControl(b)
<1>5. poc = Min(F) BY DEF PointOfControl
<1>. HIDE DEF poc
<1>6. poc \in D /\ \A c \in D : b[c] <= b[poc] BY <1>4, <1>5
<1>7. ASSUME NEW x \in D, b[x] = b[poc] PROVE poc <= x
  <2>1. x \in F BY <1>6, <1>7
  <2>. QED BY <1>4, <1>5, <2>1
<1>. QED BY <1>6, <1>7 DEF poc

LEMMA ValueAreaIs ==
  ASSUME NEW b, Positive(b), DOMAIN b # {}
  PROVE  LET area == ValueArea(b, Volume(b))
         IN IsValueArea(b, Volume(b), PointOfControl(b), area[1], area[2])
<1>. DEFINE W == Span(b)  total == Volume(b)  poc == PointOfControl(b)
            grow == CHOOSE g : g = [w \in (DOMAIN b) \X (DOMAIN b) |->
                                      IF Grows(b, total, w) THEN g[Wider(b, w)] ELSE w]
            Ends(w) == Good(b, total, poc, grow[w]) /\ ~Grows(b, total, grow[w])
            Left == {Room(b, w) : w \in {v \in W : Good(b, total, poc, v) /\ ~Ends(v)}}
<1>1. poc \in DOMAIN b /\ poc \in Nat BY PointIs DEF Positive, Finite, IsBuckets
<1>2. grow = [w \in (DOMAIN b) \X (DOMAIN b) |-> IF Grows(b, total, w) THEN grow[Wider(b, w)] ELSE w]
  BY GrowExists
<1>3. ValueArea(b, total) = grow[<<poc, poc>>] BY DEF ValueArea
<1>. HIDE DEF grow, total, poc
<1>4. \A w \in W : grow[w] = IF Grows(b, total, w) THEN grow[Wider(b, w)] ELSE w BY <1>2 DEF Span
<1>5. Left = {}
  <2>. SUFFICES ASSUME Left # {} PROVE FALSE OBVIOUS
  <2>1. Left \in SUBSET Nat BY RoomIs
  <2>. HIDE DEF Left
  <2>2. PICK n \in Left : \A m \in Left : n <= m BY <2>1, LeastNatural
  <2>3. PICK w \in W : Good(b, total, poc, w) /\ ~Ends(w) /\ n = Room(b, w) BY <2>2 DEF Left
  <2>4. CASE ~Grows(b, total, w) BY <1>4, <2>3, <2>4
  <2>5. CASE Grows(b, total, w)
    <3>. DEFINE v == Wider(b, w)
    <3>1. v \in W /\ Room(b, v) < Room(b, w) BY <2>3, <2>5, WiderIs
    <3>2. Good(b, total, poc, v) BY <1>1, <2>3, <2>5, WiderGood
    <3>3. grow[w] = grow[v] BY <1>4, <2>3, <2>5
    <3>4. ~Ends(v) BY <2>3, <3>3
    <3>. HIDE DEF v
    <3>5. Room(b, v) \in Left BY <3>1, <3>2, <3>4 DEF Left
    <3>6. Room(b, v) \in Nat /\ Room(b, w) \in Nat BY <2>3, <3>1, RoomIs
    <3>. QED BY <2>2, <2>3, <3>1, <3>5, <3>6
  <2>. QED BY <2>4, <2>5
<1>6. Good(b, total, poc, <<poc, poc>>)
  <2>1. <<poc, poc>> \in W /\ <<poc, poc>>[1] = poc /\ <<poc, poc>>[2] = poc BY <1>1 DEF Span
  <2>. QED BY <1>1, <2>1 DEF Good
<1>7. Ends(<<poc, poc>>) BY <1>5, <1>6 DEF Good
<1>. DEFINE area == grow[<<poc, poc>>]
<1>8. Good(b, total, poc, area) /\ ~Grows(b, total, area) BY <1>7
<1>. HIDE DEF area
<1>9. IsValueArea(b, total, poc, area[1], area[2]) BY <1>1, <1>8, GoodEnd DEF total
<1>. QED BY <1>3, <1>9, Zenon DEF total, poc, area

(* What a profile and its rows keep of the traded volume: its total is spread over the
   buckets, and the nodes it saves are its buckets, unless it never had three of them. *)
Spread(p, bare) ==
  /\ Positive(p.buckets)
  /\ p.total = Volume(p.buckets) + bare
  /\ DOMAIN p.nodes # {} => Cardinality(DOMAIN p.buckets) >= 3
Stored(row, bare) ==
  /\ Positive(row.nodes)
  /\ DOMAIN row.nodes # {} => row.total = Volume(row.nodes) + bare /\ Cardinality(DOMAIN row.nodes) >= 3
Exact(p) ==
  /\ \A b \in DOMAIN p.buckets :
       p.buckets[b] <= p.buckets[p.poc] /\ (p.buckets[b] = p.buckets[p.poc] => p.poc <= b)
  /\ IsValueArea(p.buckets, p.total, p.poc, p.val, p.vah)

Profiles ==
  /\ \A t \in Token : /\ Spread(profile[t], orphaned[t]) /\ Positive(profile[t].nodes)
                      /\ Stored(saved[t], orphaned[t])
                      /\ profile[t].ticks > 0 /\ orphaned[t] = 0 => Exact(profile[t])
  /\ \A s \in saves : Stored(s.row, orphaned[s.token])

LEMMA TradedSpread ==
  ASSUME NEW p, Profile(p), NEW bare \in Int, Spread(p, bare), Positive(p.nodes),
         NEW price \in Price, BucketSize <= price, NEW vol \in Nat, vol # 0
  PROVE  LET q == Traded(p, price, vol) IN
         /\ Spread(q, bare) /\ Positive(q.nodes)
         /\ SaveDue(q) => Stored(Row(q), bare)
         /\ bare = 0 => Exact(q)
<1>. DEFINE q == Traded(p, price, vol)  x == BucketPrice(price)  b == Added(p.buckets, x, vol)
<1>1. TradeOf(p, price, vol, q) BY TradedIs
<1>. HIDE DEF q
<1>2. x \in Nat /\ x > 0
  <2>1. price \in Nat /\ BucketSize \in Nat \ {0} BY PipelineAssumption, ProfileAssumption
  <2>2. x \in Nat /\ price < x + BucketSize BY <2>1, Rounded DEF BucketPrice
  <2>. HIDE DEF x
  <2>. QED BY <2>1, <2>2
<1>. HIDE DEF x
<1>3. /\ Finite(p.buckets) /\ p.total \in Nat /\ p.total = Volume(p.buckets) + bare
      /\ DOMAIN p.nodes # {} => Cardinality(DOMAIN p.buckets) >= 3
      /\ \A y \in DOMAIN p.buckets : y > 0 /\ p.buckets[y] > 0 /\ p.buckets[y] \in Nat
  BY DEF Spread, Profile, Positive, Finite, IsBuckets
<1>4. /\ Finite(b) /\ DOMAIN b = DOMAIN p.buckets \cup {x}
      /\ \A y \in DOMAIN p.buckets \ {x} : b[y] = p.buckets[y]
      /\ x \in DOMAIN p.buckets => b[x] = p.buckets[x] + vol
      /\ x \notin DOMAIN p.buckets => b[x] = vol
      /\ Volume(b) = Volume(p.buckets) + vol
  BY <1>2, <1>3, AddedIs, VolumeAdded
<1>5. q.buckets = b /\ q.total = p.total + vol BY <1>1 DEF TradeOf, x
<1>. HIDE DEF b
<1>6. Positive(b)
  <2>1. \A y \in DOMAIN b : y > 0 /\ b[y] > 0 BY <1>2, <1>3, <1>4
  <2>. QED BY <1>4, <2>1 DEF Positive
<1>7. Volume(p.buckets) \in Nat /\ Volume(b) \in Nat BY <1>3, <1>4, VolumeIs
<1>8. q.total = Volume(b) + bare BY <1>3, <1>4, <1>5, <1>7
<1>9. /\ IsFiniteSet(DOMAIN b) /\ Cardinality(DOMAIN b) \in Nat /\ Cardinality(DOMAIN p.buckets) \in Nat
      /\ Cardinality(DOMAIN p.buckets) <= Cardinality(DOMAIN b)
  BY <1>3, <1>4, FS_Subset, FS_CardinalityType DEF Finite
<1>10. \/ q.nodes = p.nodes /\ (~SaveDue(q) \/ Cardinality(DOMAIN b) < 3)
       \/ q.nodes = b /\ ~(Cardinality(DOMAIN b) < 3)
  BY <1>1, <1>5 DEF TradeOf
<1>11. Positive(q.nodes) BY <1>6, <1>10
<1>12. DOMAIN q.nodes # {} => Cardinality(DOMAIN b) >= 3 BY <1>3, <1>9, <1>10
<1>13. Spread(q, bare) BY <1>5, <1>6, <1>8, <1>12 DEF Spread
<1>14. ASSUME SaveDue(q) PROVE Stored(Row(q), bare)
  <2>1. Row(q).nodes = q.nodes /\ Row(q).total = q.total BY DEF Row
  <2>2. CASE q.nodes = p.nodes /\ Cardinality(DOMAIN b) < 3
    <3>1. DOMAIN q.nodes = {} BY <1>9, <1>12, <2>2
    <3>. QED BY <1>11, <2>1, <3>1 DEF Stored
  <2>3. CASE q.nodes = b /\ ~(Cardinality(DOMAIN b) < 3)
    <3>1. Cardinality(DOMAIN b) >= 3 BY <1>9, <2>3
    <3>. QED BY <1>6, <1>8, <2>1, <2>3, <3>1 DEF Stored
  <2>. QED BY <1>10, <1>14, <2>2, <2>3
<1>15. ASSUME bare = 0 PROVE Exact(q)
  <2>1. q.total = Volume(b) /\ q.total > 0 BY <1>3, <1>4, <1>5, <1>7, <1>15
  <2>2. q.poc = PointOfControl(b) BY <1>1, <1>5 DEF TradeOf
  <2>3. DOMAIN b # {} BY <1>4
  <2>4. /\ q.poc \in DOMAIN b
        /\ \A y \in DOMAIN b : b[y] <= b[q.poc] /\ (b[y] = b[q.poc] => q.poc <= y)
    BY <1>4, <2>2, <2>3, PointIs
  <2>5. q.poc > 0 BY <1>6, <2>4 DEF Positive
  <2>6. q.val = ValueArea(b, Volume(b))[1] /\ q.vah = ValueArea(b, Volume(b))[2]
    BY <1>1, <1>5, <2>1, <2>5 DEF TradeOf
  <2>7. IsValueArea(b, Volume(b), q.poc, q.val, q.vah) BY <1>6, <2>2, <2>3, <2>6, ValueAreaIs
  <2>. QED BY <1>5, <2>1, <2>4, <2>7 DEF Exact
<1>. QED BY <1>11, <1>13, <1>14, <1>15 DEF q

LEMMA InitProfiles == ASSUME Init PROVE Profiles
<1>1. \A t \in Token : profile[t] = EmptyProfile /\ saved[t] = NoRow /\ orphaned[t] = 0 BY DEF Init, Zero
<1>2. /\ EmptyProfile.buckets = NoBuckets /\ EmptyProfile.nodes = NoBuckets /\ NoRow.nodes = NoBuckets
      /\ EmptyProfile.total = 0 /\ EmptyProfile.ticks = 0
  BY DEF EmptyProfile, NoRow
<1>3. DOMAIN NoBuckets = {} /\ Positive(NoBuckets) BY NothingFinite DEF NoBuckets, Positive
<1>4. Volume(NoBuckets) = 0 BY <1>3, SumEmpty DEF Volume, SumFunction
<1>5. \A t \in Token : /\ Spread(profile[t], orphaned[t]) /\ Positive(profile[t].nodes)
                       /\ Stored(saved[t], orphaned[t]) /\ ~(profile[t].ticks > 0)
  BY <1>1, <1>2, <1>3, <1>4 DEF Spread, Stored
<1>6. saves = {} BY DEF Init
<1>. QED BY <1>5, <1>6 DEF Profiles

LEMMA StepProfiles ==
  ASSUME \A p \in Price : BucketSize <= p, Types, Profiles, [Next]_vars
  PROVE  Profiles'
<1>1. \A t \in Token : orphaned[t] \in Int /\ Profile(profile[t]) BY DEF Types, TypeOK, Shapes, Profile
<1>2. ASSUME NEW t \in Token, NEW m \in Minute, NEW price \in Price, NEW d \in Trades, Tick(t, m, price, d)
      PROVE  Profiles'
  <2>1. PreMarketTick(t, m, d) \/ SessionTick(t, m, price, d) BY <1>2, TickIs
  <2>2. CASE PreMarketTick(t, m, d) BY <2>2 DEF PreMarketTick, stages, stored, seen, Profiles
  <2>3. CASE SessionTick(t, m, price, d)
    <3>. DEFINE vol == TickVolume(t, price, d)
    <3>1. vol \in Nat BY TickVolumeIs
    <3>2. ProfileStep(t, price, vol) /\ saved' = saved /\ orphaned' = orphaned BY <2>3, SessionIs
    <3>. HIDE DEF vol
    <3>3. CASE vol = 0
      <4>1. profile' = profile /\ saves' = saves BY <3>2, <3>3 DEF ProfileStep
      <4>. QED BY <3>2, <4>1 DEF Profiles
    <3>4. CASE vol # 0
      <4>. DEFINE q == Traded(profile[t], price, vol)
      <4>1. /\ Spread(q, orphaned[t]) /\ Positive(q.nodes)
            /\ SaveDue(q) => Stored(Row(q), orphaned[t])
            /\ orphaned[t] = 0 => Exact(q)
        BY <1>1, <3>1, <3>4, TradedSpread DEF Profiles
      <4>2. /\ profile' = [profile EXCEPT ![t] = q]
            /\ saves' = IF SaveDue(q) THEN saves \cup {[token |-> t, row |-> Row(q)]} ELSE saves
        BY <3>4, <3>2 DEF ProfileStep
      <4>. HIDE DEF q
      <4>3. profile'[t] = q /\ \A u \in Token \ {t} : profile'[u] = profile[u]
        BY <4>2 DEF Types, Shapes
      <4>4. \A s \in saves' : Stored(s.row, orphaned[s.token])
        <5>1. [token |-> t, row |-> Row(q)].token = t /\ [token |-> t, row |-> Row(q)].row = Row(q) OBVIOUS
        <5>. QED BY <4>1, <4>2, <5>1 DEF Profiles
      <4>. QED BY <3>2, <4>1, <4>3, <4>4 DEF Profiles
    <3>. QED BY <3>3, <3>4
  <2>. QED BY <2>1, <2>2, <2>3
<1>3. ASSUME NEW s \in saves, SaveProfile(s) PROVE Profiles'
  <2>1. /\ saves' \subseteq saves /\ profile' = profile /\ orphaned' = orphaned
        /\ saved' = saved \/ saved' = [saved EXCEPT ![s.token] = s.row]
    BY <1>3 DEF SaveProfile, stages, seen
  <2>2. \A u \in Token : saved'[u] = saved[u] \/ (u = s.token /\ saved'[u] = s.row)
    BY <2>1 DEF Types, Shapes
  <2>. QED BY <2>1, <2>2 DEF Profiles
<1>4. CASE FlushBars BY <1>4 DEF FlushBars, stages, seen, Profiles
<1>5. CASE Restart
  <2>1. \A t \in Token : profile'[t] = Loaded(saved[t]) /\ orphaned'[t] = saved[t].total - Volume(saved[t].nodes)
    BY <1>5 DEF Restart
  <2>2. saved' = saved /\ saves' = {} BY <1>5 DEF Restart
  <2>3. ASSUME NEW t \in Token
        PROVE  /\ Spread(profile'[t], orphaned'[t]) /\ Positive(profile'[t].nodes)
               /\ Stored(saved'[t], orphaned'[t]) /\ ~(profile'[t].ticks > 0)
    <3>1. saved[t].total \in Nat /\ Volume(saved[t].nodes) \in Nat
      BY VolumeIs DEF Types, TypeOK, Shapes
    <3>2. saved[t].total = Volume(saved[t].nodes) + orphaned'[t] BY <2>1, <3>1
    <3>3. Stored(saved[t], orphaned[t]) BY DEF Profiles
    <3>4. /\ profile'[t].buckets = saved[t].nodes /\ profile'[t].nodes = saved[t].nodes
          /\ profile'[t].total = saved[t].total /\ profile'[t].ticks = 0
      BY <2>1, LoadedIs
    <3>. QED BY <2>2, <3>2, <3>3, <3>4 DEF Spread, Stored
  <2>. QED BY <2>2, <2>3 DEF Profiles
<1>6. CASE UNCHANGED vars BY <1>6 DEF vars, stages, stored, seen, Profiles
<1>. QED BY <1>2, <1>3, <1>4, <1>5, <1>6 DEF Next

(* The profile is what its definition says of the traded volume: the total is spread over
   the buckets, the point of control is the lowest of the fullest and the value area holds
   70% of the volume and is no wider than it must be.  No price is to lie below the bucket
   size: a point of control of 0 is none for the code, which then computes no area. *)
THEOREM ProfileKept ==
  ASSUME \A p \in Price : BucketSize <= p
  PROVE  Spec => []ProfileExact
<1>1. Init => Types /\ Profiles BY InitTypes, InitProfiles
<1>2. (Types /\ Profiles) /\ [Next]_vars => (Types /\ Profiles)' BY StepTypes, StepProfiles
<1>3. Profiles => ProfileExact
  BY DEF Profiles, Spread, Stored, Exact, ProfileExact
<1>. QED BY <1>1, <1>2, <1>3, PTL DEF Spec
=============================================================================
