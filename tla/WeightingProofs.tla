--------------------------- MODULE WeightingProofs --------------------------
(***************************************************************************)
(* The weighting, for any names, scores, volatilities and configurations:  *)
(* the cap and the floor are obeyed at once and everything is invested,    *)
(* the passes suffice, and only a shift of scores can divide by zero.      *)
(* Names over the cap leave more to the others than their caps take, so    *)
(* that the loop of _cap never runs out of names or of weight.             *)
(*                                                                         *)
(* And the other weighted sum: the total of a bake-off's scores, and that  *)
(* the provider a report recommends is the best by it.                     *)
(***************************************************************************)
EXTENDS Weighting, Scoring, PortfolioProofs, SequenceTheorems

-----------------------------------------------------------------------------
(***************************************************************************)
(* More about sums, and about the least of a finite set.  Induction is by  *)
(* a smallest counterexample.                                              *)
(***************************************************************************)

\* Of some subsets of a finite set one contains none of the others.
LEMMA SmallestSet ==
    ASSUME NEW S, IsFiniteSet(S), NEW B, B \subseteq SUBSET S, B # {}
    PROVE  \E t \in B : \A x \in t : t \ {x} \notin B
<1> DEFINE sizes == {Cardinality(t) : t \in B}
<1>1. \A t \in B : IsFiniteSet(t) /\ Cardinality(t) \in Nat
  BY FS_Subset, FS_CardinalityType
<1>2. PICK n \in sizes : \A m \in sizes : n <= m
  <2>1. sizes \subseteq Nat /\ sizes # {}
    BY <1>1
  <2> HIDE DEF sizes
  <2> QED BY <2>1, LeastNatural
<1>3. PICK t \in B : Cardinality(t) = n
  BY <1>2
<1>4. ASSUME NEW x \in t, t \ {x} \in B
      PROVE  FALSE
  <2>1. Cardinality(t \ {x}) = Cardinality(t) - 1 /\ Cardinality(t) \in Nat
    BY <1>1, <1>3, PickSmaller
  <2>2. n <= Cardinality(t \ {x})
    BY <1>2, <1>4
  <2> QED BY <1>3, <2>1, <2>2
<1> QED BY <1>3, <1>4

\* A finite set of integers that is not empty has a least element.
LEMMA MinIsLeast ==
    ASSUME NEW S, IsFiniteSet(S), S \subseteq Int, S # {}
    PROVE  Min(S) \in S /\ \A y \in S : Min(S) <= y
<1> DEFINE Least(t) == \E x \in t : \A y \in t : x <= y
           B == {t \in SUBSET S : t # {} /\ ~Least(t)}
<1>1. B = {}
  <2> SUFFICES ASSUME B # {} PROVE FALSE
    OBVIOUS
  <2>1. PICK t \in B : \A x \in t : t \ {x} \notin B
    <3>1. B \subseteq SUBSET S
      OBVIOUS
    <3> HIDE DEF B
    <3> QED BY <3>1, SmallestSet
  <2>2. PICK x \in t : TRUE
    BY <2>1
  <2>3. t \ {x} = {} \/ Least(t \ {x})
    BY <2>1
  <2>4. CASE t \ {x} = {}
    <3>1. \A y \in t : y = x /\ y \in Int
      BY <2>4
    <3> QED BY <2>1, <2>2, <3>1
  <2>5. CASE Least(t \ {x})
    <3>1. PICK m \in t \ {x} : \A y \in t \ {x} : m <= y
      BY <2>5
    <3>2. \A y \in t : y \in Int
      BY <2>1
    <3>3. \A y \in t : y = x \/ m <= y
      BY <3>1
    <3>4. CASE m <= x
      BY <2>1, <3>1, <3>3, <3>4
    <3>5. CASE x < m
      <4>1. \A y \in t : x <= y
        BY <3>1, <3>2, <3>3, <3>5
      <4> QED BY <2>1, <4>1
    <3> QED BY <3>1, <3>2, <3>4, <3>5
  <2> QED BY <2>3, <2>4, <2>5
<1>2. \E x \in S : \A y \in S : x <= y
  BY <1>1
<1> QED BY <1>2 DEF Min

\* The sum over a set and the sum over the rest of the domain
LEMMA SumSplits ==
    ASSUME NEW S, IsFiniteSet(S), NEW f \in [S -> Int], NEW T \in SUBSET S
    PROVE  SumFunction(f) =
             SumFunction([x \in T |-> f[x]]) + SumFunction([x \in S \ T |-> f[x]])
<1> DEFINE Good(t) == SumOver(f, S) = SumOver(f, t) + SumOver(f, S \ t)
           B == {t \in SUBSET S : ~Good(t)}
<1>1. /\ DOMAIN f = S
      /\ \A s \in SUBSET S : /\ SumOver(f, s) \in Int
                             /\ \A x \in s : SumOver(f, s) = f[x] + SumOver(f, s \ {x})
      /\ \A x \in S : f[x] \in Int
  BY SumAnyOrder
<1>2. B = {}
  <2> SUFFICES ASSUME B # {} PROVE FALSE
    OBVIOUS
  <2>1. PICK t \in B : \A x \in t : t \ {x} \notin B
    <3>1. B \subseteq SUBSET S
      OBVIOUS
    <3> HIDE DEF B
    <3> QED BY <3>1, SmallestSet
  <2>2. CASE t = {}
    <3>1. SumOver(f, t) = 0 /\ S \ t = S
      BY <1>1, <2>2, SumPointwise
    <3>2. SumOver(f, S) \in Int
      BY <1>1
    <3>3. Good(t)
      BY <3>1, <3>2
    <3> QED BY <2>1, <3>3
  <2>3. CASE t # {}
    <3>1. PICK x \in t : TRUE
      BY <2>3
    <3> DEFINE u == t \ {x}
               r == S \ u
    <3>2. Good(u) /\ r \ {x} = S \ t /\ x \in r /\ r \in SUBSET S /\ t \in SUBSET S
      BY <2>1, <3>1
    <3>3. SumOver(f, r) = f[x] + SumOver(f, S \ t)
      BY <1>1, <3>2
    <3>4. SumOver(f, t) = f[x] + SumOver(f, u)
      BY <1>1, <3>1, <3>2
    <3>5. SumOver(f, u) \in Int /\ SumOver(f, S \ t) \in Int /\ f[x] \in Int
      BY <1>1, <3>1, <3>2
    <3>6. SumOver(f, S) = SumOver(f, u) + SumOver(f, r)
      BY <3>2
    <3> HIDE DEF u, r
    <3>7. Good(t)
      BY <3>3, <3>4, <3>5, <3>6
    <3> QED BY <2>1, <3>7
  <2> QED BY <2>2, <2>3
<1>3. SumOver(f, S) = SumOver(f, T) + SumOver(f, S \ T)
  BY <1>2
<1>4. ASSUME NEW t \in SUBSET S
      PROVE  SumOver(f, t) = SumFunction([x \in t |-> f[x]])
  <2> DEFINE h == [x \in t |-> f[x]]
  <2>1. DOMAIN h = t /\ IsFiniteSet(t) /\ \A x \in t : h[x] = f[x]
    BY FS_Subset
  <2> HIDE DEF h
  <2>2. SumOver(h, t) = SumOver(f, t)
    BY <1>1, <2>1, SumAgrees
  <2>3. SumFunction(h) = SumOver(h, t)
    BY <2>1, SumEquation DEF SumOver
  <2> QED BY <2>2, <2>3 DEF h
<1>5. f = [x \in S |-> f[x]] /\ S \in SUBSET S /\ S \ T \in SUBSET S
  OBVIOUS
<1>6. SumOver(f, S) = SumFunction(f)
  BY <1>1, SumEquation DEF SumOver
<1>7. SumOver(f, S \ T) = SumFunction([x \in S \ T |-> f[x]])
  BY <1>4, <1>5
<1> QED BY <1>3, <1>4, <1>6, <1>7

\* A multiple of every value sums to the multiple.
LEMMA SumScales ==
    ASSUME NEW S, IsFiniteSet(S), NEW f \in [S -> Int], NEW h \in [S -> Int], NEW a \in Int,
           \A x \in S : h[x] = a * f[x]
    PROVE  SumFunction(h) = a * SumFunction(f)
<1> DEFINE Good(t) == SumOver(h, t) = a * SumOver(f, t)
           B == {t \in SUBSET S : ~Good(t)}
<1>1. /\ DOMAIN f = S /\ DOMAIN h = S
      /\ \A s \in SUBSET S : /\ SumOver(f, s) \in Int
                             /\ \A x \in s : SumOver(f, s) = f[x] + SumOver(f, s \ {x})
      /\ \A s \in SUBSET S : /\ SumOver(h, s) \in Int
                             /\ \A x \in s : SumOver(h, s) = h[x] + SumOver(h, s \ {x})
  BY SumAnyOrder
<1>2. B = {}
  <2> SUFFICES ASSUME B # {} PROVE FALSE
    OBVIOUS
  <2>1. PICK t \in B : \A x \in t : t \ {x} \notin B
    <3>1. B \subseteq SUBSET S
      OBVIOUS
    <3> HIDE DEF B
    <3> QED BY <3>1, SmallestSet
  <2>2. CASE t = {}
    <3>1. SumOver(f, t) = 0 /\ SumOver(h, t) = 0
      BY <1>1, <2>2, SumPointwise
    <3> QED BY <2>1, <3>1
  <2>3. CASE t # {}
    <3>1. PICK x \in t : TRUE
      BY <2>3
    <3> DEFINE u == t \ {x}
               m == SumOver(f, u)
    <3>2. Good(u) /\ u \in SUBSET S /\ t \in SUBSET S
      BY <2>1, <3>1
    <3>3. SumOver(h, t) = h[x] + SumOver(h, u) /\ SumOver(f, t) = f[x] + m
      BY <1>1, <3>1, <3>2
    <3>4. m \in Int /\ SumOver(h, u) = a * m /\ f[x] \in Int /\ h[x] = a * f[x]
      BY <1>1, <3>1, <3>2
    <3> HIDE DEF u, m
    <3>5. a * (f[x] + m) = a * f[x] + a * m
      BY <3>4
    <3>6. SumOver(h, t) = a * SumOver(f, t)
      BY <3>3, <3>4, <3>5
    <3> QED BY <2>1, <3>6
  <2> QED BY <2>2, <2>3
<1>3. SumOver(h, S) = a * SumOver(f, S)
  BY <1>2
<1>4. SumOver(f, S) = SumFunction(f) /\ SumOver(h, S) = SumFunction(h)
  BY <1>1, SumEquation DEF SumOver
<1> QED BY <1>3, <1>4

\* The sum of values of which none is below c, and of values that are all c
LEMMA SumBound ==
    ASSUME NEW S, IsFiniteSet(S), NEW f \in [S -> Int], NEW c \in Int,
           \A x \in S : f[x] >= c
    PROVE  /\ SumFunction(f) >= c * Cardinality(S)
           /\ (\A x \in S : f[x] = c) => SumFunction(f) = c * Cardinality(S)
<1> DEFINE Good(t) == /\ SumOver(f, t) >= c * Cardinality(t)
                      /\ (\A x \in S : f[x] = c) => SumOver(f, t) = c * Cardinality(t)
           B == {t \in SUBSET S : ~Good(t)}
<1>1. /\ DOMAIN f = S
      /\ \A s \in SUBSET S : /\ SumOver(f, s) \in Int
                             /\ \A x \in s : SumOver(f, s) = f[x] + SumOver(f, s \ {x})
  BY SumAnyOrder
<1>2. B = {}
  <2> SUFFICES ASSUME B # {} PROVE FALSE
    OBVIOUS
  <2>1. PICK t \in B : \A x \in t : t \ {x} \notin B
    <3>1. B \subseteq SUBSET S
      OBVIOUS
    <3> HIDE DEF B
    <3> QED BY <3>1, SmallestSet
  <2>2. CASE t = {}
    <3>1. SumOver(f, t) = 0 /\ Cardinality(t) = 0
      BY <1>1, <2>2, SumPointwise, FS_EmptySet
    <3>2. c * 0 = 0
      OBVIOUS
    <3>3. Good(t)
      BY <3>1, <3>2
    <3> QED BY <2>1, <3>3
  <2>3. CASE t # {}
    <3>1. PICK x \in t : TRUE
      BY <2>3
    <3> DEFINE u == t \ {x}
               m == SumOver(f, u)
               n == Cardinality(u)
    <3>2. Good(u) /\ u \in SUBSET S /\ t \in SUBSET S /\ IsFiniteSet(t) /\ IsFiniteSet(u)
      BY <2>1, <3>1, FS_Subset
    <3>3. SumOver(f, t) = f[x] + m /\ m \in Int /\ f[x] \in Int /\ f[x] >= c
      BY <1>1, <3>1, <3>2
    <3>4. n \in Nat /\ Cardinality(t) = n + 1
      <4>1. Cardinality(u) = Cardinality(t) - 1 /\ Cardinality(t) \in Nat \ {0}
        BY <3>1, <3>2, PickSmaller
      <4> QED BY <4>1
    <3>5. m >= c * n /\ ((\A y \in S : f[y] = c) => m = c * n)
      BY <3>2
    <3>6. (\A y \in S : f[y] = c) => f[x] = c
      BY <3>1, <3>2
    <3> HIDE DEF u, m, n
    <3>7. c * (n + 1) = c * n + c /\ c * n \in Int
      BY <3>4
    <3>8. SumOver(f, t) >= c * Cardinality(t)
      BY <3>3, <3>4, <3>5, <3>7
    <3>9. ASSUME \A y \in S : f[y] = c PROVE SumOver(f, t) = c * Cardinality(t)
      BY <3>3, <3>4, <3>5, <3>6, <3>7, <3>9
    <3> QED BY <2>1, <3>8, <3>9
  <2> QED BY <2>2, <2>3
<1>3. Good(S)
  BY <1>2
<1>4. SumOver(f, S) = SumFunction(f)
  BY <1>1, SumEquation DEF SumOver
<1> QED BY <1>3, <1>4

-----------------------------------------------------------------------------
(***************************************************************************)
(* What holds between two steps of apply_limits and _cap                   *)
(***************************************************************************)

\* Parts that a portfolio can be shared by
Shares(f) ==
    /\ DOMAIN f \subseteq Names /\ DOMAIN f # {}
    /\ f \in [DOMAIN f -> Nat]
    /\ Total(f) > 0

\* The policy that may weigh a name zero
Shifting == config.weighting = "score" /\ config.policy = "shift"

Positive(f) == \A x \in DOMAIN f : f[x] > 0

\* _cap: something is left for the names that are free, and the cap lets them have it.
Splitting ==
    /\ Shares(part)
    /\ capped \subseteq Names /\ capped \cap DOMAIN part = {}
    /\ passes \in Int /\ passes >= Cardinality(Held)

Capping ==
    /\ Splitting
    /\ config.max # None
    /\ Remaining(Cardinality(capped)) > 0
    /\ Remaining(Cardinality(Held)) <= 0
    /\ Shifting \/ Positive(part)

Capped ==
    /\ Splitting
    /\ config.max = None => capped = {}
    /\ config.max # None => Remaining(Cardinality(capped)) > 0 /\ Over = {}

WeightingInv ==
    /\ config \in Configs
    /\ scores \in [Names -> Scores] /\ volatility \in [Names -> Volatilities \cup {None}]
    /\ pc \in {"select", "weigh"} => part = <<>> /\ capped = {}
    /\ pc = "weigh" => chosen \subseteq {x \in Names : scores[x] # None}
    /\ pc = "limit" => /\ Shares(part) /\ capped = {}
                       /\ passes \in Int /\ passes > Cardinality(DOMAIN part)
                       /\ Shifting \/ Positive(part)
    /\ pc = "cap" => Capping
    /\ pc = "floor" => Capped
    /\ pc # "unconverged"
    /\ pc = "crash" => Shifting
    /\ WithinLimits

-----------------------------------------------------------------------------
\* Configurations and scores have the types of the assumption.
LEMMA ConfigType ==
    ASSUME NEW c \in Configs
    PROVE  /\ c.weighting \in {"equal", "score", "inverse"}
           /\ c.policy \in {"positive_only", "shift", "rank"}
           /\ c.invested \in Nat /\ c.invested > 0
           /\ c.max # None => c.max \in Nat /\ c.max > 0
           /\ c.min # None => c.min \in Nat /\ c.min > 0
  BY WeightingAssumption

\* Positive numbers for some names are parts to share by.
LEMMA PositiveShares ==
    ASSUME NEW S, S \subseteq Names, S # {}, NEW f \in [S -> Nat], \A x \in S : f[x] > 0
    PROVE  Shares(f) /\ Positive(f)
<1>1. IsFiniteSet(S) /\ DOMAIN f = S
  BY WeightingAssumption, FS_Subset
<1>2. Cardinality(S) \in Nat /\ Cardinality(S) # 0
  BY <1>1, FS_CardinalityType, FS_EmptySet
<1>3. f \in [S -> Int] /\ (\A x \in S : f[x] >= 1) /\ 1 \in Int
  OBVIOUS
<1>4. SumFunction(f) \in Int /\ SumFunction(f) >= 1 * Cardinality(S)
  <2>1. SumFunction(f) \in Int
    BY <1>1, <1>3, SumTakesOut
  <2>2. SumFunction(f) >= 1 * Cardinality(S)
    BY <1>1, <1>3, SumBound
  <2> QED BY <2>1, <2>2
<1> QED BY <1>1, <1>2, <1>4 DEF Shares, Positive, Total

\* A sum of naturals is a natural.
LEMMA TotalNat ==
    ASSUME NEW S, IsFiniteSet(S), NEW f \in [S -> Nat]
    PROVE  Total(f) \in Nat
<1>1. f \in [S -> Int] /\ \A x \in S : f[x] >= 0
  OBVIOUS
<1>2. Cardinality(S) \in Nat
  BY FS_CardinalityType
<1>3. SumFunction(f) >= 0 * Cardinality(S) /\ SumFunction(f) \in Int
  BY <1>1, SumBound, SumTakesOut
<1> QED BY <1>2, <1>3 DEF Total

\* A function of no name is the empty one.
LEMMA NoParts ==
    ASSUME NEW f, DOMAIN f = {}, f = [x \in DOMAIN f |-> f[x]]
    PROVE  f = <<>>
  OBVIOUS

\* The score weights are parts, or none when no score is positive.
LEMMA ScoreShares ==
    ASSUME NEW S, S \subseteq Names, S # {}, NEW s \in [S -> Int],
           NEW policy \in {"positive_only", "shift", "rank"}
    PROVE  LET w == ScoreWeights(s, policy)
           IN  w = <<>> \/ (Shares(w) /\ (policy = "shift" \/ Positive(w)))
<1> DEFINE w == ScoreWeights(s, policy)
<1>1. IsFiniteSet(S) /\ DOMAIN s = S /\ S \subseteq Int /\ Cardinality(S) \in Nat
  BY WeightingAssumption, FS_Subset, FS_CardinalityType
<1>2. CASE policy = "positive_only"
  <2> DEFINE T == {y \in S : s[y] > 0}
             f == [x \in T |-> s[x]]
  <2>1. w = f
    BY <1>1, <1>2 DEF ScoreWeights
  <2>2. T \subseteq Names /\ f \in [T -> Nat] /\ \A x \in T : f[x] > 0
    OBVIOUS
  <2>3. T = {} => f = <<>>
    OBVIOUS
  <2> HIDE DEF T, f, w
  <2>4. T # {} => Shares(f) /\ Positive(f)
    BY <2>2, PositiveShares
  <2> QED BY <2>1, <2>3, <2>4 DEF w
<1>3. CASE policy = "shift"
  <2> DEFINE worst == Min(Range(s))
             f == [x \in S |-> s[x] - worst]
  <2>1. w = IF Total(f) = 0 THEN Equal(S) ELSE f
    BY <1>1, <1>3 DEF ScoreWeights
  <2>2. worst \in Int /\ \A x \in S : worst <= s[x]
    <3>1. Range(s) = {s[x] : x \in S}
      BY <1>1 DEF Range
    <3>2. IsFiniteSet(Range(s))
      <4>1. s \in Surjection(S, Range(s))
        BY <1>1, <3>1 DEF Surjection
      <4> QED BY <1>1, <4>1, FS_Surjection
    <3>3. Range(s) \subseteq Int /\ Range(s) # {} /\ \A x \in S : s[x] \in Range(s)
      BY <3>1
    <3>4. Min(Range(s)) \in Range(s) /\ \A y \in Range(s) : Min(Range(s)) <= y
      BY <3>1, <3>2, <3>3, MinIsLeast
    <3> QED BY <3>3, <3>4
  <2> HIDE DEF worst
  <2>3. f \in [S -> Nat]
    BY <2>2
  <2>4. Equal(S) \in [S -> Nat] /\ \A x \in S : Equal(S)[x] > 0
    BY DEF Equal
  <2>5. Shares(Equal(S))
    BY <2>4, PositiveShares
  <2> HIDE DEF f, w
  <2>6. Total(f) \in Nat
    BY <1>1, <2>3, TotalNat
  <2>7. Total(f) # 0 => Shares(f)
    BY <2>3, <2>6 DEF Shares
  <2> QED BY <1>3, <2>1, <2>5, <2>7 DEF w
<1>4. CASE policy = "rank"
  <2> DEFINE f == [x \in S |-> Cardinality(S) - Cardinality(Ahead(s, S, x))]
  <2>1. w = f
    BY <1>1, <1>4 DEF ScoreWeights
  <2>2. ASSUME NEW x \in S
        PROVE  Cardinality(Ahead(s, S, x)) \in Nat /\ Cardinality(Ahead(s, S, x)) < Cardinality(S)
    <3>1. Ahead(s, S, x) \subseteq S \ {x}
      BY <1>1 DEF Ahead
    <3>2. IsFiniteSet(S \ {x}) /\ Cardinality(S \ {x}) = Cardinality(S) - 1
      BY <1>1, FS_RemoveElement
    <3>3. IsFiniteSet(Ahead(s, S, x)) /\ Cardinality(Ahead(s, S, x)) <= Cardinality(S) - 1
      BY <3>1, <3>2, FS_Subset
    <3>4. Cardinality(Ahead(s, S, x)) \in Nat
      BY <3>3, FS_CardinalityType
    <3> QED BY <1>1, <3>3, <3>4
  <2>3. f \in [S -> Nat] /\ \A x \in S : f[x] > 0
    BY <1>1, <2>2
  <2> HIDE DEF f, w
  <2>4. Shares(f) /\ Positive(f)
    BY <2>3, PositiveShares
  <2> QED BY <2>1, <2>4 DEF w
<1> QED BY <1>2, <1>3, <1>4 DEF w

\* What is weighed is parts, none of them zero unless by shifting, or nothing.
LEMMA WeightsShare ==
    ASSUME config \in Configs, scores \in [Names -> Scores],
           volatility \in [Names -> Volatilities \cup {None}],
           chosen \subseteq {x \in Names : scores[x] # None}
    PROVE  Weights = <<>> \/ (Shares(Weights) /\ (Shifting \/ Positive(Weights)))
<1> DEFINE S == {x \in chosen : config.weighting = "inverse" => volatility[x] # None}
<1>1. S \subseteq Names /\ S \subseteq chosen
  OBVIOUS
<1>2. CASE S = {}
  BY <1>2 DEF Weights
<1>3. CASE S # {} /\ config.weighting = "equal"
  <2>1. Weights = Equal(S)
    BY <1>3 DEF Weights
  <2>2. Equal(S) \in [S -> Nat] /\ \A x \in S : Equal(S)[x] > 0
    BY DEF Equal
  <2> HIDE DEF S
  <2> QED BY <1>1, <1>3, <2>1, <2>2, PositiveShares
<1>4. CASE S # {} /\ config.weighting = "score"
  <2> DEFINE f == [x \in S |-> scores[x]]
  <2>1. Weights = ScoreWeights(f, config.policy)
    BY <1>4 DEF Weights
  <2>2. f \in [S -> Int]
    BY WeightingAssumption
  <2>3. config.policy \in {"positive_only", "shift", "rank"}
    BY ConfigType
  <2> HIDE DEF S, f
  <2> QED BY <1>1, <1>4, <2>1, <2>2, <2>3, ScoreShares DEF Shifting
<1>5. CASE S # {} /\ config.weighting = "inverse"
  <2> DEFINE v == [x \in S |-> volatility[x]]
             f == [x \in S |-> Common \div v[x]]
  <2>1. Weights = f
    BY <1>5 DEF Weights, InverseVolatilityWeights
  <2>2. \A x \in S : Common \div v[x] \in Nat /\ Common \div v[x] > 0
    <3> SUFFICES ASSUME NEW x \in S
                 PROVE  Common \div v[x] \in Nat /\ Common \div v[x] > 0
      OBVIOUS
    <3>1. v[x] \in Volatilities \ {None}
      BY <1>1, <1>5
    <3> DEFINE q == v[x]
    <3> HIDE DEF q, v
    <3>2. /\ q \in Nat /\ q > 0
          /\ Common \in Nat /\ Common > 0 /\ Common % q = 0
      <4>1. q \in Volatilities \ {None}
        BY <3>1 DEF q
      <4>2. q \in Nat
        BY <4>1, WeightingAssumption
      <4>3. q > 0 /\ Common \in Nat \ {0} /\ Common % q = 0
        BY <4>1, WeightingAssumption
      <4> QED BY <4>2, <4>3
    <3>3. Common \div q \in Nat /\ Common = (Common \div q) * q
      BY <3>2, WholeQuotient
    <3>4. Common \div q # 0
      BY <3>2, <3>3
    <3> QED BY <3>3, <3>4 DEF q
  <2>3. f \in [S -> Nat] /\ \A x \in S : f[x] > 0
    BY <2>2
  <2> HIDE DEF S, f
  <2> QED BY <1>1, <1>5, <2>1, <2>3, PositiveShares
<1> QED BY <1>2, <1>3, <1>4, <1>5, ConfigType

-----------------------------------------------------------------------------
(***************************************************************************)
(* The cap                                                                 *)
(***************************************************************************)

\* Names that weigh more than the cap together leave more than their caps.
LEMMA OverArithmetic ==
    ASSUME NEW R \in Nat, NEW T \in Nat, NEW M \in Nat, NEW n \in Nat, NEW F \in Nat,
           T > 0, n > 0, F <= T, R * F >= (M * T + 1) * n
    PROVE  R > n * M
<1>1. R * F <= R * T
  <2>1. R * (T - F) >= 0 /\ R * (T - F) = R * T - R * F
    <3>1. T - F \in Nat
      OBVIOUS
    <3>2. R * (T - F) \in Nat
      BY <3>1, NatProduct
    <3> QED BY <3>2
  <2> QED BY <2>1
<1>2. (M * T + 1) * n = (n * M) * T + n
  OBVIOUS
<1> SUFFICES ASSUME R <= n * M PROVE FALSE
  OBVIOUS
<1> DEFINE q == n * M
<1>3. q \in Nat /\ R <= q
  BY NatProduct
<1> HIDE DEF q
<1>4. (q - R) * T >= 0 /\ (q - R) * T = q * T - R * T
  <2>1. q - R \in Nat
    BY <1>3
  <2>2. (q - R) * T \in Nat
    BY <2>1, NatProduct
  <2> QED BY <1>3, <2>2
<1>5. R * F >= q * T + n /\ q * T >= R * T
  BY <1>2, <1>3, <1>4 DEF q
<1> QED BY <1>1, <1>3, <1>5

\* What the state of the limits says of the two sets of names
LEMMA HeldFinite ==
    ASSUME config \in Configs, Splitting
    PROVE  /\ IsFiniteSet(DOMAIN part) /\ IsFiniteSet(capped) /\ IsFiniteSet(Held)
           /\ Held = DOMAIN part \cup capped
           /\ part \in [DOMAIN part -> Nat] /\ part # <<>>
           /\ Total(part) \in Nat /\ Total(part) > 0
           /\ Cardinality(capped) \in Nat
<1>1. IsFiniteSet(DOMAIN part) /\ IsFiniteSet(capped)
  BY WeightingAssumption, FS_Subset DEF Splitting, Shares
<1>2. IsFiniteSet(Held)
  BY <1>1, FS_Union DEF Held
<1>3. part \in [DOMAIN part -> Nat] /\ DOMAIN part # {} /\ Total(part) > 0
  BY DEF Splitting, Shares
<1>4. Total(part) \in Nat
  BY <1>1, <1>3, TotalNat
<1>5. Cardinality(capped) \in Nat
  BY <1>1, FS_CardinalityType
<1>6. part # <<>>
  BY <1>3
<1> QED BY <1>1, <1>2, <1>3, <1>4, <1>5, <1>6 DEF Held

\* Those over the cap leave something to share: the others are never left with nothing.
LEMMA OverLeavesSome ==
    ASSUME config \in Configs, Capping, Over # {}
    PROVE  /\ Remaining(Cardinality(capped \cup Over)) > 0
           /\ DOMAIN part \ Over # {}
<1> DEFINE k == Cardinality(capped)
           R == Remaining(k)
           M == config.max
           T == Total(part)
           O == Over
           n == Cardinality(O)
           f == [x \in O |-> part[x]]
           g == [x \in DOMAIN part \ O |-> part[x]]
           h == [x \in O |-> R * part[x]]
           F == SumFunction(f)
<1>1. /\ IsFiniteSet(DOMAIN part) /\ IsFiniteSet(capped)
      /\ part \in [DOMAIN part -> Nat]
      /\ T \in Nat /\ T > 0 /\ k \in Nat
  BY HeldFinite DEF Capping
<1>2. M \in Nat /\ M > 0 /\ config.invested \in Nat
  BY ConfigType DEF Capping
<1>3. R \in Nat /\ R > 0 /\ R = config.invested - k * M
  <2>1. R = config.invested - k * M /\ R > 0
    BY DEF Capping, Remaining
  <2>2. k * M \in Nat
    BY <1>1, <1>2, NatProduct
  <2> HIDE DEF k, R, M
  <2> QED BY <1>2, <2>1, <2>2
<1>4. O \subseteq DOMAIN part /\ \A x \in O : R * part[x] > M * T
  BY DEF Over
<1>5. IsFiniteSet(O) /\ n \in Nat /\ n > 0 /\ IsFiniteSet(DOMAIN part \ O)
  <2>1. IsFiniteSet(O) /\ IsFiniteSet(DOMAIN part \ O)
    BY <1>1, <1>4, FS_Subset
  <2>2. n \in Nat /\ n # 0
    BY <2>1, FS_CardinalityType, FS_EmptySet
  <2> QED BY <2>1, <2>2
<1>6. f \in [O -> Nat] /\ g \in [DOMAIN part \ O -> Nat]
  BY <1>1, <1>4
<1>7. F \in Nat /\ SumFunction(g) \in Nat
  <2> HIDE DEF f, g, O
  <2> QED BY <1>5, <1>6, TotalNat DEF Total
<1>8. T = F + SumFunction(g)
  <2>1. part \in [DOMAIN part -> Int]
    BY <1>1
  <2> HIDE DEF O
  <2>2. SumFunction(part) = SumFunction([x \in O |-> part[x]])
                              + SumFunction([x \in DOMAIN part \ O |-> part[x]])
    BY <1>1, <1>4, <2>1, SumSplits
  <2> QED BY <2>2 DEF Total
<1>9. R * F >= (M * T + 1) * n
  <2> HIDE DEF R, M, T, O, n
  <2>1. \A x \in O : f[x] \in Nat /\ h[x] = R * f[x] /\ R * f[x] \in Nat /\ h[x] > M * T
    BY <1>3, <1>4, <1>6, NatProduct
  <2>2. M * T \in Nat
    BY <1>1, <1>2, NatProduct
  <2>3. h \in [O -> Int] /\ f \in [O -> Int] /\ R \in Int
    BY <1>3, <1>6, <2>1
  <2> HIDE DEF f, h
  <2> DEFINE c == M * T + 1
  <2>4. c \in Int /\ \A x \in O : h[x] >= c
    BY <2>1, <2>2, <2>3
  <2> HIDE DEF c
  <2>5. SumFunction(h) >= c * Cardinality(O)
    BY <1>5, <2>3, <2>4, SumBound
  <2>6. SumFunction(h) = R * SumFunction(f)
    BY <1>5, <2>1, <2>3, SumScales
  <2> QED BY <2>5, <2>6 DEF c, n
<1>10. R > n * M
  <2> HIDE DEF R, M, T, O, n, F
  <2>1. F <= T
    BY <1>1, <1>7, <1>8
  <2> QED BY <1>1, <1>2, <1>3, <1>5, <1>7, <1>9, <2>1, OverArithmetic
<1>11. Cardinality(capped \cup O) = k + n
  <2>1. capped \cap O = {}
    BY <1>4 DEF Capping, Splitting
  <2>2. Cardinality(capped \cup O) = k + n - Cardinality(capped \cap O)
    BY <1>1, <1>5, FS_Union
  <2> HIDE DEF k, n, O
  <2> QED BY <1>1, <1>5, <2>1, <2>2, FS_EmptySet
<1>12. Remaining(Cardinality(capped \cup O)) > 0
  <2>1. Remaining(k + n) = config.invested - (k + n) * M
    BY DEF Remaining
  <2> HIDE DEF k, n, O, R, M
  <2>2. (k + n) * M = k * M + n * M /\ k * M \in Int /\ n * M \in Int
    BY <1>1, <1>2, <1>5
  <2> QED BY <1>2, <1>3, <1>10, <1>11, <2>1, <2>2
<1>13. ASSUME DOMAIN part \ O = {} PROVE FALSE
  <2>1. Held = capped \cup O
    BY <1>4, <1>13 DEF Held
  <2>2. Remaining(Cardinality(Held)) <= 0
    BY DEF Capping
  <2>3. Remaining(Cardinality(Held)) \in Int
    <3>1. Cardinality(Held) \in Nat
      BY HeldFinite, FS_CardinalityType DEF Capping
    <3> QED BY <1>2, <3>1 DEF Remaining
  <2> HIDE DEF O
  <2> QED BY <1>12, <2>1, <2>2, <2>3
<1> QED BY <1>12, <1>13

-----------------------------------------------------------------------------
(***************************************************************************)
(* The weights when no name is over the cap                                *)
(***************************************************************************)

\* The weights invest the whole proportion, and none is over the cap.
LEMMA CappedWeights ==
    ASSUME config \in Configs, Capped
    PROVE  /\ Denominator \in Nat /\ Denominator > 0
           /\ \A x \in Held : /\ Numerator(x) \in Nat
                              /\ config.max # None => Numerator(x) <= config.max * Denominator
           /\ Total([x \in Held |-> Numerator(x)]) = config.invested * Denominator
<1> DEFINE k == Cardinality(capped)
           D == Denominator
           I == config.invested
           M == config.max
           share == IF capped = {} THEN I ELSE Remaining(k)
           num == [x \in Held |-> Numerator(x)]
           f == [x \in capped |-> num[x]]
           g == [x \in Held \ capped |-> num[x]]
<1>1. /\ IsFiniteSet(DOMAIN part) /\ IsFiniteSet(capped) /\ IsFiniteSet(Held)
      /\ Held = DOMAIN part \cup capped
      /\ part \in [DOMAIN part -> Nat] /\ part # <<>>
      /\ Total(part) \in Nat /\ Total(part) > 0
      /\ k \in Nat
  BY HeldFinite DEF Capped
<1>2. D = Total(part) /\ D \in Nat /\ D > 0
  BY <1>1 DEF Denominator
<1>3. capped \cap DOMAIN part = {} /\ Held \ capped = DOMAIN part
  BY <1>1 DEF Capped, Splitting
<1>4. I \in Nat /\ I > 0 /\ (M # None => M \in Nat /\ M > 0)
  BY ConfigType
<1>5. capped # {} => M # None
  BY DEF Capped
<1>6. share \in Nat /\ share > 0 /\ (M # None => share = Remaining(k))
  <2>1. CASE capped = {}
    <3>1. k = 0
      BY <2>1, FS_EmptySet
    <3>2. M # None => Remaining(k) = I - 0 * M
      BY <3>1 DEF Remaining
    <3>3. M # None => 0 * M = 0
      BY <1>4
    <3> HIDE DEF k, I, M
    <3> QED BY <1>4, <2>1, <3>2, <3>3
  <2>2. CASE capped # {}
    <3>1. Remaining(k) > 0 /\ Remaining(k) = I - k * M
      BY <1>5, <2>2 DEF Capped, Remaining
    <3>2. k * M \in Nat
      BY <1>1, <1>4, <1>5, <2>2, NatProduct
    <3> HIDE DEF k, I, M
    <3> QED BY <1>4, <2>2, <3>1, <3>2
  <2> QED BY <2>1, <2>2
<1>7. /\ \A x \in capped : Numerator(x) = M * D
      /\ \A x \in DOMAIN part : Numerator(x) = share * part[x]
  BY <1>3 DEF Numerator
<1>8. ASSUME NEW x \in Held
      PROVE  Numerator(x) \in Nat /\ (M # None => Numerator(x) <= M * D)
  <2>1. CASE x \in capped
    <3>1. M * D \in Nat
      BY <1>2, <1>4, <1>5, <2>1, NatProduct
    <3> HIDE DEF M, D
    <3> QED BY <1>7, <2>1, <3>1
  <2>2. CASE x \in DOMAIN part
    <3>1. part[x] \in Nat /\ share * part[x] \in Nat
      BY <1>1, <1>6, <2>2, NatProduct
    <3>2. ASSUME M # None PROVE share * part[x] <= M * D
      <4>1. ~(Remaining(k) * part[x] > M * Total(part))
        BY <2>2, <3>2 DEF Capped, Over
      <4>2. share = Remaining(k)
        BY <1>6, <3>2
      <4>3. M * D \in Nat
        BY <1>2, <1>4, <3>2, NatProduct
      <4> HIDE DEF share, M, D, k
      <4> QED BY <1>2, <3>1, <4>1, <4>2, <4>3
    <3> HIDE DEF share, M, D
    <3> QED BY <1>7, <2>2, <3>1, <3>2
  <2> QED BY <1>1, <2>1, <2>2
<1>9. num \in [Held -> Int] /\ \A x \in Held : num[x] = Numerator(x)
  BY <1>8
<1>10. f \in [capped -> Int] /\ g \in [DOMAIN part -> Int]
  <2> HIDE DEF num
  <2> QED BY <1>1, <1>3, <1>9
<1>11. SumFunction(num) = SumFunction(f) + SumFunction(g)
  <2>1. capped \in SUBSET Held /\ IsFiniteSet(Held)
    BY <1>1
  <2> HIDE DEF f, g, num
  <2>2. num \in [Held -> Int]
    BY <1>9
  <2>3. SumFunction(num) = SumFunction([x \in capped |-> num[x]])
                             + SumFunction([x \in Held \ capped |-> num[x]])
    BY <2>1, <2>2, SumSplits
  <2> QED BY <2>3 DEF f, g
<1>12. SumFunction(f) = IF capped = {} THEN 0 ELSE (M * D) * k
  <2>1. CASE capped = {}
    <3> HIDE DEF f
    <3> QED BY <1>1, <1>10, <2>1, SumTakesOut
  <2>2. CASE capped # {}
    <3> DEFINE c == M * D
    <3>1. c \in Int
      BY <1>2, <1>4, <1>5, <2>2, NatProduct
    <3>2. \A x \in capped : f[x] = c
      BY <1>1, <1>7, <1>9
    <3> HIDE DEF f, c
    <3>3. SumFunction(f) = c * Cardinality(capped)
      <4>1. \A x \in capped : f[x] >= c
        BY <3>1, <3>2
      <4> QED BY <1>1, <1>10, <3>1, <3>2, <4>1, SumBound
    <3> QED BY <2>2, <3>3 DEF c
  <2> QED BY <2>1, <2>2
<1>13. SumFunction(g) = share * D
  <2>1. \A x \in DOMAIN part : g[x] = share * part[x]
    BY <1>1, <1>3, <1>7, <1>9
  <2>2. part \in [DOMAIN part -> Int] /\ share \in Int
    BY <1>1, <1>6
  <2> HIDE DEF g, share
  <2>3. SumFunction(g) = share * SumFunction(part)
    BY <1>1, <1>10, <2>1, <2>2, SumScales
  <2> QED BY <1>2, <2>3 DEF Total
<1>14. SumFunction(num) = I * D
  <2>1. CASE capped = {}
    <3>1. SumFunction(f) = 0 /\ SumFunction(g) = I * D /\ I * D \in Nat
      BY <1>2, <1>4, <1>12, <1>13, <2>1, NatProduct
    <3> HIDE DEF f, g, num, I, D
    <3> QED BY <1>11, <3>1
  <2>2. CASE capped # {}
    <3>1. SumFunction(f) = (M * D) * k /\ SumFunction(g) = (I - k * M) * D
      BY <1>12, <1>13, <2>2 DEF Remaining
    <3>2. M \in Nat
      BY <1>4, <1>5, <2>2
    <3> HIDE DEF f, g, num, I, D, M, k
    <3>3. (M * D) * k + (I - k * M) * D = I * D
      BY <1>1, <1>2, <1>4, <3>2
    <3> QED BY <1>11, <3>1, <3>3
  <2> QED BY <2>1, <2>2
<1> QED BY <1>2, <1>8, <1>14 DEF Total

-----------------------------------------------------------------------------
(***************************************************************************)
(* The steps                                                               *)
(***************************************************************************)

\* What is selected is among the names that have a score.
LEMMA SelectNamesInv == WeightingInv /\ SelectNames => WeightingInv'
<1> SUFFICES ASSUME WeightingInv, SelectNames PROVE WeightingInv'
  OBVIOUS
<1> DEFINE ok == {x \in Names : scores[x] # None}
           s == [x \in ok |-> scores[x]]
<1>1. Select(s, config) \subseteq ok
  <2>1. DOMAIN s = ok
    OBVIOUS
  <2>2. config.selection \in {"top_n", "top_decile", "threshold"}
    BY WeightingAssumption DEF WeightingInv
  <2> HIDE DEF s
  <2> QED BY <2>1, <2>2 DEF Select, First
<1>2. chosen' = Select(s, config) /\ pc' = "weigh" /\ pc = "select"
  BY DEF SelectNames
<1> HIDE DEF s
<1> QED BY <1>1, <1>2 DEF WeightingInv, SelectNames, Inputs, WithinLimits

\* The weighting starts with parts, or with nothing to size.
LEMMA WeighInv == WeightingInv /\ Weigh => WeightingInv'
<1> SUFFICES ASSUME WeightingInv, Weigh PROVE WeightingInv'
  OBVIOUS
<1>1. Weights = <<>> \/ (Shares(Weights) /\ (Shifting \/ Positive(Weights)))
  BY WeightsShare DEF WeightingInv, Weigh
<1>2. /\ part' = Weights /\ passes' = Cardinality(DOMAIN Weights) + 1
      /\ capped' = {} /\ config' = config /\ scores' = scores /\ volatility' = volatility
  BY DEF Weigh, Inputs, PassesFor, WeightingInv
<1> DEFINE w == Weights
<1>3. w # <<>> => pc' = "limit"
  BY DEF Weigh
<1>4. w = <<>> => pc' \in {"error", "size"}
  BY DEF Weigh
<1> HIDE DEF w
<1>5. CASE w = <<>>
  <2>1. Held' = {}
    BY <1>2, <1>5 DEF Held, w
  <2>2. WithinLimits'
    BY <2>1 DEF WithinLimits
  <2> QED BY <1>2, <1>4, <1>5, <2>2 DEF WeightingInv
<1>6. CASE w # <<>>
  <2>1. Shares(w) /\ (Shifting \/ Positive(w))
    BY <1>1, <1>6 DEF w
  <2>2. Cardinality(DOMAIN w) \in Nat
    BY <2>1, WeightingAssumption, FS_Subset, FS_CardinalityType DEF Shares
  <2>3. part' = w /\ passes' = Cardinality(DOMAIN w) + 1
    BY <1>2 DEF w
  <2>4. Shares(part') /\ (Shifting \/ Positive(part')) /\ passes' \in Int
        /\ passes' > Cardinality(DOMAIN part')
    BY <2>1, <2>2, <2>3
  <2>5. Shares(part)' /\ (Shifting \/ Positive(part))'
    BY <1>2, <2>4 DEF Shares, Total, Shifting, Positive
  <2> QED BY <1>2, <1>3, <1>6, <2>4, <2>5 DEF WeightingInv, WithinLimits
<1> QED BY <1>5, <1>6

\* A pass is left for the names that are, and _cap can invest it all.
LEMMA LimitInv == WeightingInv /\ Limit => WeightingInv'
<1> SUFFICES ASSUME WeightingInv, Limit PROVE WeightingInv'
  OBVIOUS
<1>1. /\ pc = "limit" /\ config \in Configs
      /\ Shares(part) /\ capped = {} /\ passes \in Int /\ passes > Cardinality(DOMAIN part)
      /\ Shifting \/ Positive(part)
  BY DEF Limit, WeightingInv
<1>2. /\ UNCHANGED <<config, scores, volatility, price, chosen, part, capped, targets>>
      /\ passes' = passes - 1
  BY DEF Limit, Inputs
<1>3. IsFiniteSet(DOMAIN part) /\ Cardinality(DOMAIN part) \in Nat
  BY <1>1, WeightingAssumption, FS_Subset, FS_CardinalityType DEF Shares
<1>4. Held = DOMAIN part /\ Held' = Held
  BY <1>1, <1>2 DEF Held
<1>5. Splitting'
  BY <1>1, <1>2, <1>3, <1>4 DEF Splitting, Shares, Total
<1>6. pc' = CASE config.max = None -> "floor"
              [] config.max # None ->
                   IF Remaining(Cardinality(DOMAIN part)) > 0 THEN "error" ELSE "cap"
  <2>1. passes > 0
    BY <1>1, <1>3
  <2> QED BY <2>1 DEF Limit
<1>7. CASE config.max = None
  <2>1. pc' = "floor" /\ Capped'
    BY <1>1, <1>2, <1>5, <1>6, <1>7 DEF Capped
  <2> QED BY <1>2, <2>1 DEF WeightingInv, WithinLimits
<1>8. CASE config.max # None /\ Remaining(Cardinality(DOMAIN part)) > 0
  <2>1. pc' = "error"
    BY <1>6, <1>8
  <2> QED BY <1>2, <2>1 DEF WeightingInv, WithinLimits
<1>9. CASE config.max # None /\ ~(Remaining(Cardinality(DOMAIN part)) > 0)
  <2>1. pc' = "cap"
    BY <1>6, <1>9
  <2>2. config.max \in Nat /\ config.invested \in Nat /\ config.invested > 0
    BY <1>1, <1>9, ConfigType
  <2>3. Remaining(Cardinality(capped)) > 0
    <3>1. Cardinality(capped) = 0
      BY <1>1, FS_EmptySet
    <3> QED BY <2>2, <3>1 DEF Remaining
  <2>4. Remaining(Cardinality(Held)) <= 0
    <3> DEFINE r == Remaining(Cardinality(Held))
    <3>1. r \in Int
      BY <1>3, <1>4, <2>2 DEF Remaining
    <3>2. ~(r > 0)
      BY <1>4, <1>9
    <3> HIDE DEF r
    <3>3. r <= 0
      BY <3>1, <3>2
    <3> QED BY <3>3 DEF r
  <2>5. Capping'
    BY <1>1, <1>2, <1>4, <1>5, <1>9, <2>3, <2>4 DEF Capping, Remaining, Shifting, Positive
  <2> QED BY <1>2, <2>1, <2>5 DEF WeightingInv, WithinLimits
<1> QED BY <1>7, <1>8, <1>9

\* A turn of _cap leaves names to share what remains, and divides by zero only after a shift.
LEMMA CapInv == WeightingInv /\ Cap => WeightingInv'
<1> SUFFICES ASSUME WeightingInv, Cap PROVE WeightingInv'
  OBVIOUS
<1> DEFINE free == [x \in DOMAIN part \ Over |-> part[x]]
<1>1. pc = "cap" /\ config \in Configs /\ Capping
  BY DEF Cap, WeightingInv
<1>2. /\ part' = free /\ capped' = capped \cup Over
      /\ UNCHANGED <<config, scores, volatility, price, chosen, targets, passes>>
  BY DEF Cap, Inputs
<1>3. pc' = CASE Over = {} \/ free = <<>> -> "floor"
              [] Over # {} /\ free # <<>> -> IF Total(free) = 0 THEN "crash" ELSE "cap"
  BY DEF Cap
<1>4. /\ IsFiniteSet(DOMAIN part) /\ IsFiniteSet(capped)
      /\ part \in [DOMAIN part -> Nat]
  BY <1>1, HeldFinite DEF Capping
<1>5. Over \subseteq DOMAIN part /\ DOMAIN free = DOMAIN part \ Over
  BY DEF Over
<1>6. Held' = Held
  BY <1>2, <1>5 DEF Held
<1>7. CASE Over = {}
  <2>1. part' = part /\ capped' = capped /\ pc' = "floor"
    BY <1>2, <1>3, <1>4, <1>7
  <2>2. Splitting' /\ Over' = {}
    BY <1>1, <1>2, <1>6, <1>7, <2>1 DEF Capping, Splitting, Shares, Total, Over, Remaining
  <2>3. Capped'
    BY <1>1, <1>2, <2>1, <2>2 DEF Capped, Capping, Remaining
  <2> QED BY <1>2, <2>1, <2>3 DEF WeightingInv, WithinLimits
<1>8. CASE Over # {}
  <2>1. /\ Remaining(Cardinality(capped \cup Over)) > 0
        /\ DOMAIN part \ Over # {}
    BY <1>1, <1>8, OverLeavesSome
  <2>2. free \in [DOMAIN free -> Nat] /\ DOMAIN free # {} /\ free # <<>>
    BY <1>4, <1>5, <2>1
  <2>3. DOMAIN free \subseteq Names /\ IsFiniteSet(DOMAIN free)
    BY <1>1, <1>4, <1>5, FS_Subset DEF Capping, Splitting, Shares
  <2>4. Shifting \/ Positive(free)
    BY <1>1, <1>5 DEF Capping, Positive
  <2>5. capped' \subseteq Names /\ capped' \cap DOMAIN free = {}
    BY <1>1, <1>2, <1>5 DEF Capping, Splitting, Shares
  <2> HIDE DEF free
  <2>6. Total(free) \in Nat
    BY <2>2, <2>3, TotalNat
  <2>7. CASE Total(free) = 0
    <3>1. pc' = "crash"
      BY <1>3, <1>8, <2>2, <2>7
    <3>2. ~Positive(free)
      <4> SUFFICES ASSUME Positive(free) PROVE FALSE
        OBVIOUS
      <4>1. Shares(free)
        BY <2>2, <2>3, PositiveShares DEF Positive
      <4> QED BY <2>7, <4>1 DEF Shares
    <3>3. Shifting'
      BY <1>2, <2>4, <3>2 DEF Shifting
    <3> QED BY <1>2, <3>1, <3>3 DEF WeightingInv, WithinLimits
  <2>8. CASE Total(free) # 0
    <3>1. pc' = "cap"
      BY <1>3, <1>8, <2>2, <2>8
    <3>2. Shares(part)' /\ (Shifting \/ Positive(part))'
      BY <1>2, <2>2, <2>3, <2>4, <2>6, <2>8 DEF Shares, Total, Shifting, Positive
    <3>3. Splitting'
      BY <1>1, <1>2, <1>6, <2>5, <3>2 DEF Capping, Splitting
    <3>4. /\ Remaining(Cardinality(capped))' > 0
          /\ Remaining(Cardinality(Held))' <= 0
          /\ (config.max # None)'
      BY <1>1, <1>2, <1>6, <2>1 DEF Capping, Remaining
    <3>5. Capping'
      BY <3>2, <3>3, <3>4 DEF Capping
    <3> QED BY <1>2, <3>1, <3>5 DEF WeightingInv, WithinLimits
  <2> QED BY <2>7, <2>8
<1> QED BY <1>7, <1>8

\* Names that are dropped pay for another pass; without any the weights are within limits.
LEMMA FloorInv == WeightingInv /\ Floor => WeightingInv'
<1> SUFFICES ASSUME WeightingInv, Floor PROVE WeightingInv'
  OBVIOUS
<1>1. pc = "floor" /\ config \in Configs /\ Capped
  BY DEF Floor, WeightingInv
<1>2. UNCHANGED <<config, scores, volatility, price, chosen, targets, passes>>
  BY DEF Floor, Inputs
<1>3. /\ Denominator \in Nat /\ Denominator > 0
      /\ \A x \in Held : /\ Numerator(x) \in Nat
                         /\ config.max # None => Numerator(x) <= config.max * Denominator
      /\ Total([x \in Held |-> Numerator(x)]) = config.invested * Denominator
  BY <1>1, CappedWeights
<1>4. config.min # None => config.min \in Nat /\ config.min > 0
                           /\ config.min * Denominator \in Nat /\ config.min * Denominator > 0
  <2>1. config.min # None => config.min \in Nat /\ config.min > 0
    BY <1>1, ConfigType
  <2>2. ASSUME config.min # None
        PROVE  config.min * Denominator \in Nat /\ config.min * Denominator > 0
    <3> DEFINE m == config.min
               d == Denominator
    <3>1. m \in Nat /\ m > 0 /\ d \in Nat /\ d > 0
      BY <1>3, <2>1, <2>2
    <3> HIDE DEF m, d
    <3>2. m * d \in Nat /\ m * d > 0
      BY <3>1, NatProduct
    <3> QED BY <3>2 DEF m, d
  <2> QED BY <2>1, <2>2
<1>5. CASE Below = {}
  <2>1. pc' = "size" /\ part' = part /\ capped' = capped
    BY <1>5 DEF Floor
  <2>2. \A x \in Held : config.min # None => Numerator(x) >= config.min * Denominator
    BY <1>3, <1>4, <1>5 DEF Below
  <2>3. /\ Held' = Held /\ Denominator' = Denominator
        /\ \A x \in Held : Numerator(x)' = Numerator(x)
    BY <1>2, <2>1 DEF Held, Denominator, Numerator, Total, Remaining
  <2>4. [x \in Held |-> Numerator(x)]' = [x \in Held |-> Numerator(x)]
    BY <2>3
  <2>5. WithinLimits'
    BY <1>2, <1>3, <2>2, <2>3, <2>4 DEF WithinLimits, Total
  <2> QED BY <1>2, <2>1, <2>5 DEF WeightingInv
<1>6. CASE Below # {} /\ Held = Below
  <2>1. pc' = "error"
    BY <1>6 DEF Floor
  <2> QED BY <1>2, <2>1 DEF WeightingInv, WithinLimits
<1>7. CASE Below # {} /\ Held # Below
  <2> DEFINE S == Held \ Below
             f == [x \in S |-> Numerator(x)]
  <2>1. part' = f /\ capped' = {} /\ pc' = "limit"
    BY <1>7 DEF Floor
  <2>2. Below \subseteq Held /\ S # {} /\ S \subseteq Names /\ config.min # None
    BY <1>1, <1>7 DEF Below, Held, Capped, Splitting, Shares
  <2>3. \A x \in S : Numerator(x) \in Nat /\ Numerator(x) > 0
    BY <1>3, <1>4, <2>2 DEF Below
  <2>4. f \in [S -> Nat] /\ \A x \in S : f[x] > 0
    BY <2>3
  <2>5. /\ passes \in Int /\ passes >= Cardinality(Held) /\ IsFiniteSet(Held)
    BY <1>1, HeldFinite DEF Capped, Splitting
  <2>6. Cardinality(S) < Cardinality(Held) /\ Cardinality(S) \in Nat /\ Cardinality(Held) \in Nat
    <3>1. S \subseteq Held /\ S # Held
      BY <1>7, <2>2
    <3>2. IsFiniteSet(S) /\ Cardinality(S) <= Cardinality(Held) /\ Cardinality(S) # Cardinality(Held)
      BY <2>5, <3>1, FS_Subset
    <3>3. Cardinality(S) \in Nat /\ Cardinality(Held) \in Nat
      BY <2>5, <3>2, FS_CardinalityType
    <3> QED BY <3>2, <3>3
  <2>7. DOMAIN f = S
    OBVIOUS
  <2> HIDE DEF S, f
  <2>8. Shares(f) /\ Positive(f)
    BY <2>2, <2>4, PositiveShares
  <2>9. Shares(part)' /\ Positive(part)' /\ passes' \in Int /\ passes' > Cardinality(DOMAIN part)'
    BY <1>2, <2>1, <2>5, <2>6, <2>7, <2>8 DEF Shares, Positive, Total
  <2> QED BY <1>2, <2>1, <2>9 DEF WeightingInv, WithinLimits
<1> QED BY <1>5, <1>6, <1>7

\* Sizing leaves the weights as they are.
LEMMA SizeInv == WeightingInv /\ Size => WeightingInv'
<1> SUFFICES ASSUME WeightingInv, Size PROVE WeightingInv'
  OBVIOUS
<1>1. /\ pc = "size" /\ pc' = "done"
      /\ UNCHANGED <<config, scores, volatility, price, chosen, part, capped, passes>>
  BY DEF Size, Inputs
<1>2. /\ Held' = Held /\ Denominator' = Denominator
      /\ \A x \in Held : Numerator(x)' = Numerator(x)
  BY <1>1 DEF Held, Denominator, Numerator, Total, Remaining
<1>3. [x \in Held |-> Numerator(x)]' = [x \in Held |-> Numerator(x)]
  BY <1>2
<1>4. WithinLimits'
  BY <1>1, <1>2, <1>3 DEF WeightingInv, WithinLimits, Total
<1> QED BY <1>1, <1>4 DEF WeightingInv

\* The invariant of the weighting: what holds between any two of its steps
LEMMA WeightingInvariant == Spec => []WeightingInv
<1>1. Init => WeightingInv
  <2> SUFFICES ASSUME Init PROVE WeightingInv
    OBVIOUS
  <2>1. volatility \in [Names -> Volatilities \cup {None}]
    <3>1. CASE config.weighting = "inverse"
      BY <3>1 DEF Init
    <3>2. CASE config.weighting # "inverse"
      BY <3>2 DEF Init
    <3> QED BY <3>1, <3>2
  <2> QED BY <2>1 DEF Init, WeightingInv, WithinLimits
<1>2. WeightingInv /\ [Next]_vars => WeightingInv'
  <2> SUFFICES ASSUME WeightingInv, [Next]_vars PROVE WeightingInv'
    OBVIOUS
  <2>1. CASE UNCHANGED vars
    BY <2>1 DEF vars, WeightingInv, Shares, Shifting, Positive, Splitting, Capping, Capped,
                WithinLimits, Held, Denominator, Numerator, Total, Remaining, Over
  <2> QED BY <2>1, SelectNamesInv, WeighInv, LimitInv, CapInv, FloorInv, SizeInv DEF Next
<1> QED BY <1>1, <1>2, PTL DEF Spec

-----------------------------------------------------------------------------
\* For any scores, volatilities, configuration and number of names, what is sized invests
\* exactly the configured proportion and obeys the cap and the floor at once (apply_limits).
THEOREM LimitsHold == Spec => []WithinLimits
<1>1. WeightingInv => WithinLimits
  BY DEF WeightingInv
<1> QED BY <1>1, WeightingInvariant, PTL

\* The passes of apply_limits are always enough: "position limits did not converge", the
\* line marked as never reached, is not.
THEOREM LimitsConverge == Spec => [](pc # "unconverged")
<1>1. WeightingInv => pc # "unconverged"
  BY DEF WeightingInv
<1> QED BY <1>1, WeightingInvariant, PTL

\* _cap divides by zero only after the policy that weighs the worst name zero.
THEOREM OnlyShiftDivides == Spec => [](pc = "crash" => Shifting)
<1>1. WeightingInv => (pc = "crash" => Shifting)
  BY DEF WeightingInv
<1> QED BY <1>1, WeightingInvariant, PTL

-----------------------------------------------------------------------------
(***************************************************************************)
(* The bake-off: outranking by the weighted total orders the candidates,   *)
(* so that the first of them exists, and a margin over the second is one   *)
(* over all that come after it.  A report keeps to the cells it was made   *)
(* from, which the harness only appends to.                                *)
(***************************************************************************)

\* Multiplying by a positive number keeps the order.
LEMMA MulKeepsOrder ==
    ASSUME NEW x \in Int, NEW y \in Int, NEW k \in Int, k > 0
    PROVE  /\ (x > y) <=> (x * k > y * k)
           /\ (x >= y) <=> (x * k >= y * k)
<1>1. ASSUME NEW d \in Int PROVE d > 0 => d * k > 0
  OBVIOUS
<1>2. (x - y) * k = x * k - y * k /\ (y - x) * k = y * k - x * k
  OBVIOUS
<1>3. x * k \in Int /\ y * k \in Int
  OBVIOUS
<1>4. x - y > 0 => x * k - y * k > 0
  BY <1>1, <1>2
<1>5. y - x > 0 => y * k - x * k > 0
  BY <1>1, <1>2
<1> QED BY <1>3, <1>4, <1>5

\* g holds the products of f over the sets of C.
IsMultiplying(g, f, C) ==
    g = [s \in C |-> IF s = {} THEN 1 ELSE f[Pick(s)] * g[s \ {Pick(s)}]]

\* The products of a set exist, as the sums do.
LEMMA MultiplyingExists ==
    ASSUME NEW S, IsFiniteSet(S), NEW f
    PROVE  \E g : IsMultiplying(g, f, SUBSET S)
<1> DEFINE Bad == {n \in Nat : ~\E g : IsMultiplying(g, f, UpTo(S, n))}
<1>0. \A s \in SUBSET S : IsFiniteSet(s) /\ Cardinality(s) \in Nat
                          /\ Cardinality(s) <= Cardinality(S)
  BY FS_Subset, FS_CardinalityType
<1>1. 0 \notin Bad
  <2> DEFINE g == [s \in UpTo(S, 0) |-> 1]
  <2>1. \A s \in UpTo(S, 0) : s = {}
    BY <1>0, FS_EmptySet DEF UpTo
  <2>2. g = [s \in UpTo(S, 0) |->
                IF s = {} THEN 1 ELSE f[Pick(s)] * g[s \ {Pick(s)}]]
    BY <2>1
  <2> QED BY <2>2 DEF IsMultiplying
<1>2. ASSUME NEW n \in Nat, n > 0, n - 1 \notin Bad
      PROVE  n \notin Bad
  <2>1. n - 1 \in Nat
    BY <1>2
  <2>2. PICK g : IsMultiplying(g, f, UpTo(S, n - 1))
    BY <1>2, <2>1
  <2> DEFINE h == [s \in UpTo(S, n) |->
                      IF s = {} THEN 1 ELSE f[Pick(s)] * g[s \ {Pick(s)}]]
  <2>3. ASSUME NEW s \in UpTo(S, n), s # {}
        PROVE  h[s \ {Pick(s)}] = g[s \ {Pick(s)}]
    <3> DEFINE t == s \ {Pick(s)}
    <3>1. t \in UpTo(S, n - 1)
      <4>1. s \in SUBSET S /\ Cardinality(s) <= n /\ IsFiniteSet(s) /\ Pick(s) \in s
        BY <1>0, <2>3, PickIn DEF UpTo
      <4>2. t \in SUBSET S /\ Cardinality(t) = Cardinality(s) - 1 /\ Cardinality(s) \in Nat
        BY <4>1, PickSmaller
      <4> HIDE DEF t
      <4> QED BY <4>1, <4>2 DEF UpTo
    <3>2. t \in UpTo(S, n)
      BY <1>0, <3>1 DEF UpTo
    <3> HIDE DEF t
    <3>3. g[t] = IF t = {} THEN 1 ELSE f[Pick(t)] * g[t \ {Pick(t)}]
      <4> DEFINE k == [u \in UpTo(S, n - 1) |->
                          IF u = {} THEN 1 ELSE f[Pick(u)] * g[u \ {Pick(u)}]]
      <4>1. g = k
        BY <2>2 DEF IsMultiplying
      <4>2. k[t] = IF t = {} THEN 1 ELSE f[Pick(t)] * g[t \ {Pick(t)}]
        BY <3>1
      <4> HIDE DEF k
      <4> QED BY <4>1, <4>2
    <3>4. h[t] = IF t = {} THEN 1 ELSE f[Pick(t)] * g[t \ {Pick(t)}]
      BY <3>2
    <3> QED BY <3>3, <3>4 DEF t
  <2>4. h = [s \in UpTo(S, n) |-> IF s = {} THEN 1 ELSE f[Pick(s)] * h[s \ {Pick(s)}]]
    <3> DEFINE k == [s \in UpTo(S, n) |->
                        IF s = {} THEN 1 ELSE f[Pick(s)] * h[s \ {Pick(s)}]]
    <3>1. \A s \in UpTo(S, n) : h[s] = k[s]
      BY <2>3
    <3> QED BY <3>1
  <2> HIDE DEF h
  <2> QED BY <2>4 DEF IsMultiplying
<1>3. Bad = {}
  <2> SUFFICES ASSUME Bad # {} PROVE FALSE
    OBVIOUS
  <2>1. PICK n \in Bad : \A m \in Bad : n <= m
    <3>1. Bad \subseteq Nat
      OBVIOUS
    <3> HIDE DEF Bad
    <3> QED BY <3>1, LeastNatural
  <2>2. n \in Nat /\ n > 0
    BY <1>1, <2>1
  <2>3. n - 1 \notin Bad
    <3> HIDE DEF Bad
    <3> QED BY <2>1, <2>2
  <2> QED BY <1>2, <2>1, <2>2, <2>3
<1>4. UpTo(S, Cardinality(S)) = SUBSET S /\ Cardinality(S) \in Nat
  BY <1>0, FS_CardinalityType DEF UpTo
<1> QED
  <2>1. \E g : IsMultiplying(g, f, UpTo(S, Cardinality(S)))
    BY <1>3, <1>4
  <2> QED BY <1>4, <2>1

\* A product of positive numbers is one.
LEMMA ProductPositive ==
    ASSUME NEW f, IsFiniteSet(DOMAIN f), \A x \in DOMAIN f : f[x] \in Nat \ {0}
    PROVE  FoldFunction(Multiplied, 1, f) \in Nat \ {0}
<1> DEFINE S == DOMAIN f
           g == CHOOSE h : IsMultiplying(h, f, SUBSET S)
           k == [t \in SUBSET S |-> IF t = {} THEN 1 ELSE f[Pick(t)] * g[t \ {Pick(t)}]]
           Bad == {t \in SUBSET S : g[t] \notin Nat \ {0}}
<1>1. FoldFunction(Multiplied, 1, f) = g[S]
  BY DEF FoldFunction, FoldFunctionOnSet, MapThenFoldSet, IsMultiplying, Pick, Multiplied
<1>2. IsMultiplying(g, f, SUBSET S)
  BY MultiplyingExists
<1> HIDE DEF g
<1>3. g = k
  BY <1>2 DEF IsMultiplying
<1>4. \A t \in SUBSET S : k[t] = IF t = {} THEN 1 ELSE f[Pick(t)] * g[t \ {Pick(t)}]
  OBVIOUS
<1> HIDE DEF k
<1>5. \A t \in SUBSET S : g[t] = IF t = {} THEN 1 ELSE f[Pick(t)] * g[t \ {Pick(t)}]
  BY <1>3, <1>4
<1>6. Bad = {}
  <2> SUFFICES ASSUME Bad # {} PROVE FALSE
    OBVIOUS
  <2>1. PICK t \in Bad : \A x \in t : t \ {x} \notin Bad
    <3>1. Bad \subseteq SUBSET S
      OBVIOUS
    <3> HIDE DEF Bad
    <3> QED BY <3>1, SmallestSet
  <2>2. t # {}
    <3> SUFFICES ASSUME t = {} PROVE FALSE
      OBVIOUS
    <3>1. g[t] = 1
      BY <1>5, Zenon
    <3> QED BY <2>1, <3>1
  <2>3. Pick(t) \in t
    BY <2>2, PickIn
  <2> DEFINE u == t \ {Pick(t)}
  <2>4. g[u] \in Nat \ {0}
    BY <2>1, <2>3
  <2>5. f[Pick(t)] \in Nat \ {0}
    BY <2>1, <2>3
  <2>6. g[t] = f[Pick(t)] * g[u]
    BY <1>5, <2>2, Zenon
  <2> HIDE DEF u
  <2>7. \A x, y \in Nat \ {0} : x * y \in Nat \ {0}
    OBVIOUS
  <2>8. g[t] \in Nat \ {0}
    BY <2>4, <2>5, <2>6, <2>7
  <2> QED BY <2>8
<1> QED BY <1>1, <1>6

\* A total: a numerator and a positive denominator
Totals == Int \X (Nat \ {0})

\* Exceeding is transitive, a tie passes it on, and the margin over one reaches further.
LEMMA ExceedsOver ==
    ASSUME NEW a \in Totals, NEW b \in Totals, NEW c \in Totals, ~Exceeds(c, b)
    PROVE  /\ ~Exceeds(b, a) => ~Exceeds(c, a)
           /\ Exceeds(a, b) => Exceeds(a, c)
           /\ ~Exceeds(b, a) /\ Exceeds(b, c) => Exceeds(a, c)
<1>1. PICK a1 \in Int, a2 \in Nat \ {0} : a = <<a1, a2>>
  BY DEF Totals
<1>2. PICK b1 \in Int, b2 \in Nat \ {0} : b = <<b1, b2>>
  BY DEF Totals
<1>3. PICK c1 \in Int, c2 \in Nat \ {0} : c = <<c1, c2>>
  BY DEF Totals
<1> DEFINE ab == a1 * b2
           ba == b1 * a2
           bc == b1 * c2
           cb == c1 * b2
           ac == a1 * c2
           ca == c1 * a2
<1>4. ab \in Int /\ ba \in Int /\ bc \in Int /\ cb \in Int /\ ac \in Int /\ ca \in Int
  OBVIOUS
<1>5. /\ Exceeds(a, b) <=> ab > ba
      /\ Exceeds(b, a) <=> ba > ab
      /\ Exceeds(b, c) <=> bc > cb
      /\ Exceeds(c, b) <=> cb > bc
      /\ Exceeds(a, c) <=> ac > ca
      /\ Exceeds(c, a) <=> ca > ac
  BY <1>1, <1>2, <1>3 DEF Exceeds
<1>6. ab * c2 = ac * b2 /\ ba * c2 = bc * a2 /\ cb * a2 = ca * b2
  OBVIOUS
<1> HIDE DEF ab, ba, bc, cb, ac, ca
<1>7. /\ (ab >= ba <=> ab * c2 >= ba * c2) /\ (ab > ba <=> ab * c2 > ba * c2)
      /\ (bc >= cb <=> bc * a2 >= cb * a2) /\ (bc > cb <=> bc * a2 > cb * a2)
      /\ (ac >= ca <=> ac * b2 >= ca * b2) /\ (ac > ca <=> ac * b2 > ca * b2)
  BY <1>4, MulKeepsOrder
<1>8. ac * b2 \in Int /\ bc * a2 \in Int /\ ca * b2 \in Int
  BY <1>4
<1> QED BY <1>4, <1>5, <1>6, <1>7, <1>8

\* What beats another by the margin beats by it whatever is no better than that.
LEMMA MarginReaches ==
    ASSUME NEW a \in Totals, NEW b \in Totals, NEW c \in Totals, NEW m \in Int, ~Exceeds(c, b),
           (a[1] * b[2] - b[1] * a[2]) * 100 >= m * a[2] * b[2]
    PROVE  (a[1] * c[2] - c[1] * a[2]) * 100 >= m * a[2] * c[2]
<1>1. PICK a1 \in Int, a2 \in Nat \ {0} : a = <<a1, a2>>
  BY DEF Totals
<1>2. PICK b1 \in Int, b2 \in Nat \ {0} : b = <<b1, b2>>
  BY DEF Totals
<1>3. PICK c1 \in Int, c2 \in Nat \ {0} : c = <<c1, c2>>
  BY DEF Totals
<1> DEFINE ab == a1 * b2
           ba == b1 * a2
           bc == b1 * c2
           cb == c1 * b2
           ac == a1 * c2
           ca == c1 * a2
           mb == m * a2 * b2
           mc == m * a2 * c2
<1>4. /\ ab \in Int /\ ba \in Int /\ bc \in Int /\ cb \in Int /\ ac \in Int /\ ca \in Int
      /\ mb \in Int /\ mc \in Int
  OBVIOUS
<1>5. bc >= cb /\ (ab - ba) * 100 >= mb
  BY <1>1, <1>2, <1>3, <1>4 DEF Exceeds
<1>6. ab * c2 = ac * b2 /\ ba * c2 = bc * a2 /\ cb * a2 = ca * b2 /\ mb * c2 = mc * b2
  OBVIOUS
<1> HIDE DEF ab, ba, bc, cb, ac, ca, mb, mc
<1>7. bc * a2 >= cb * a2 /\ ((ab - ba) * 100) * c2 >= mb * c2
  BY <1>4, <1>5, MulKeepsOrder
<1>8. ((ab - ba) * 100) * c2 = (ab * c2 - ba * c2) * 100
      /\ ((ac - ca) * 100) * b2 = (ac * b2 - ca * b2) * 100
  BY <1>4
<1>9. ac * b2 \in Int /\ bc * a2 \in Int /\ ca * b2 \in Int /\ mc * b2 \in Int
  BY <1>4
<1>10. ((ac - ca) * 100) * b2 >= mc * b2
  BY <1>6, <1>7, <1>8, <1>9
<1>11. (ac - ca) * 100 >= mc
  BY <1>4, <1>10, MulKeepsOrder
<1> QED BY <1>1, <1>3, <1>11 DEF ac, ca, mc

\* Scores with a total, one a provider
Comparable(some) ==
    /\ IsFiniteSet(some)
    /\ \A s \in some : s.total \in Totals /\ s.provider \in Int
    /\ \A s, t \in some : s.provider = t.provider => s = t

\* Outranking is a strict total order.
LEMMA OutranksOrders ==
    ASSUME NEW some, Comparable(some), NEW s \in some, NEW t \in some, NEW u \in some
    PROVE  /\ s # t => Outranks(s, t) \/ Outranks(t, s)
           /\ Outranks(s, t) /\ Outranks(t, u) => Outranks(s, u)
           /\ Outranks(s, t) => ~Exceeds(t.total, s.total)
<1> DEFINE p == s.total
           q == t.total
           r == u.total
<1>1. p \in Totals /\ q \in Totals /\ r \in Totals
  BY DEF Comparable
<1>2. s.provider \in Int /\ t.provider \in Int /\ u.provider \in Int
      /\ (s.provider = t.provider => s = t)
  BY DEF Comparable
<1> HIDE DEF p, q, r
<1>3. \A x, y \in Totals : Exceeds(x, y) => ~Exceeds(y, x)
  <2> SUFFICES ASSUME NEW x \in Totals, NEW y \in Totals PROVE Exceeds(x, y) => ~Exceeds(y, x)
    OBVIOUS
  <2>1. x[1] * y[2] \in Int /\ y[1] * x[2] \in Int
    BY DEF Totals
  <2> QED BY <2>1 DEF Exceeds
<1>4. /\ ~Exceeds(r, q) /\ ~Exceeds(q, p) => ~Exceeds(r, p)
      /\ ~Exceeds(r, q) /\ Exceeds(p, q) => Exceeds(p, r)
      /\ ~Exceeds(q, p) /\ Exceeds(q, r) => Exceeds(p, r)
  BY <1>1, <1>3, ExceedsOver
<1>5. /\ Outranks(s, t) <=> Exceeds(p, q) \/ (~Exceeds(q, p) /\ s.provider < t.provider)
      /\ Outranks(t, s) <=> Exceeds(q, p) \/ (~Exceeds(p, q) /\ t.provider < s.provider)
      /\ Outranks(t, u) <=> Exceeds(q, r) \/ (~Exceeds(r, q) /\ t.provider < u.provider)
      /\ Outranks(s, u) <=> Exceeds(p, r) \/ (~Exceeds(r, p) /\ s.provider < u.provider)
  BY DEF Outranks, p, q, r
<1>6. s # t => Outranks(s, t) \/ Outranks(t, s)
  BY <1>2, <1>5
<1>7. Outranks(s, t) => ~Exceeds(q, p)
  BY <1>1, <1>3, <1>5
<1>8. Outranks(s, t) /\ Outranks(t, u) => Outranks(s, u)
  BY <1>1, <1>2, <1>3, <1>4, <1>5
<1> QED BY <1>6, <1>7, <1>8 DEF p, q

\* There is a best.
LEMMA BestExists ==
    ASSUME NEW some, Comparable(some), some # {}
    PROVE  Best(some) \in some /\ \A t \in some \ {Best(some)} : Outranks(Best(some), t)
<1> DEFINE Bad == {t \in SUBSET some : t # {} /\ ~\E s \in t : \A u \in t \ {s} : Outranks(s, u)}
<1>1. Bad = {}
  <2> SUFFICES ASSUME Bad # {} PROVE FALSE
    OBVIOUS
  <2>1. PICK t \in Bad : \A x \in t : t \ {x} \notin Bad
    <3>1. Bad \subseteq SUBSET some /\ IsFiniteSet(some)
      BY DEF Comparable
    <3> HIDE DEF Bad
    <3> QED BY <3>1, SmallestSet
  <2>2. PICK x \in t : TRUE
    BY <2>1
  <2>3. CASE t \ {x} = {}
    BY <2>1, <2>2, <2>3
  <2>4. CASE t \ {x} # {}
    <3>1. PICK s \in t \ {x} : \A u \in (t \ {x}) \ {s} : Outranks(s, u)
      BY <2>1, <2>2, <2>4
    <3>2. t \subseteq some
      BY <2>1
    <3>3. CASE Outranks(x, s)
      <4>1. \A u \in t \ {x} : Outranks(x, u)
        <5> SUFFICES ASSUME NEW u \in t \ {x}, u # s PROVE Outranks(x, u)
          BY <3>3
        <5>1. Outranks(s, u)
          BY <3>1
        <5> QED BY <2>2, <3>2, <3>3, <5>1, OutranksOrders
      <4> QED BY <2>1, <2>2, <4>1
    <3>4. CASE Outranks(s, x)
      <4>1. \A u \in t \ {s} : Outranks(s, u)
        BY <3>1, <3>4
      <4> QED BY <2>1, <3>1, <4>1
    <3> QED BY <2>2, <3>1, <3>2, <3>3, <3>4, OutranksOrders
  <2> QED BY <2>3, <2>4
<1>2. \E s \in some : \A t \in some \ {s} : Outranks(s, t)
  BY <1>1
<1> QED BY <1>2 DEF Best

\* A recommendation is a candidate, and by the margin ahead of every other.
LEMMA NamedIsAhead ==
    ASSUME NEW all, Comparable(Candidates(all)), Margin \in Int, Recommendation(all) # Nothing
    PROVE  \E s \in Candidates(all) :
                /\ Recommendation(all) = s.provider
                /\ \A t \in Candidates(all) \ {s} :
                        (s.total[1] * t.total[2] - t.total[1] * s.total[2]) * 100
                            >= Margin * s.total[2] * t.total[2]
<1> DEFINE some == Candidates(all)
           first == Best(some)
           rest == some \ {first}
           second == Best(rest)
           a == first.total
           b == second.total
<1>1. some # {}
  BY DEF Recommendation
<1>2. first \in some
  BY <1>1, BestExists
<1>3. CASE rest = {}
  <2>1. Recommendation(all) = first.provider
    BY <1>1, <1>3 DEF Recommendation
  <2> QED BY <1>2, <1>3, <2>1
<1>4. CASE rest # {}
  <2>1. /\ Recommendation(all) = IF (a[1] * b[2] - b[1] * a[2]) * 100 < Margin * a[2] * b[2]
                                 THEN Nothing ELSE first.provider
    BY <1>1, <1>4 DEF Recommendation
  <2>2. Comparable(rest)
    <3>1. IsFiniteSet(rest)
      BY FS_Subset DEF Comparable
    <3> HIDE DEF first
    <3> QED BY <3>1 DEF Comparable
  <2> HIDE DEF first
  <2>3. second \in rest /\ \A t \in rest \ {second} : Outranks(second, t)
    <3> HIDE DEF rest
    <3> QED BY <1>4, <2>2, BestExists
  <2>4. a \in Totals /\ b \in Totals
    BY <1>2, <2>3 DEF Comparable
  <2> HIDE DEF second
  <2>5. Recommendation(all) = first.provider /\ (a[1] * b[2] - b[1] * a[2]) * 100 >= Margin * a[2] * b[2]
    <3>1. (a[1] * b[2] - b[1] * a[2]) * 100 \in Int /\ Margin * a[2] * b[2] \in Int
      BY <2>4 DEF Totals
    <3> HIDE DEF a, b
    <3> QED BY <2>1, <3>1
  <2>6. ASSUME NEW t \in rest
        PROVE  (a[1] * t.total[2] - t.total[1] * a[2]) * 100 >= Margin * a[2] * t.total[2]
    <3> DEFINE c == t.total
    <3>1. c \in Totals
      BY DEF Comparable
    <3>2. t # second => ~Exceeds(c, b)
      BY <2>2, <2>3, OutranksOrders
    <3> HIDE DEF a, b
    <3>3. CASE t = second
      BY <2>5, <3>3 DEF b
    <3>4. CASE t # second
      <4> HIDE DEF c
      <4>1. (a[1] * c[2] - c[1] * a[2]) * 100 >= Margin * a[2] * c[2]
        BY <2>4, <2>5, <3>1, <3>2, <3>4, MarginReaches
      <4> QED BY <4>1 DEF c
    <3> QED BY <3>3, <3>4
  <2> QED BY <1>2, <2>5, <2>6
<1> QED BY <1>3, <1>4

\* A score
Fraction == Nat \X (Nat \ {0})

\* The results that count are finitely many.
LEMMA ApplicableFinite ==
    ASSUME NEW cs \in Seq(CellRecords), NEW p, NEW criterion
    PROVE  IsFiniteSet(Applicable(cs, p, criterion))
<1> DEFINE own == OfProvider(cs, p)
           places == [i \in own |-> {i} \X DOMAIN cs[i].checks]
           all == {places[i] : i \in own}
<1>1. IsFiniteSet(own)
  <2>1. own \in SUBSET (1 .. Len(cs)) /\ Len(cs) \in Int
    BY DEF OfProvider
  <2> HIDE DEF own
  <2>2. IsFiniteSet(1 .. Len(cs))
    BY <2>1, FS_Interval
  <2> QED BY <2>1, <2>2, FS_Subset
<1>2. \A i \in own : IsFiniteSet(places[i])
  <2> SUFFICES ASSUME NEW i \in own PROVE IsFiniteSet({i} \X DOMAIN cs[i].checks)
    OBVIOUS
  <2>1. cs[i] \in CellRecords
    BY DEF OfProvider
  <2>2. IsFiniteSet(DOMAIN cs[i].checks)
    BY <2>1, ScoringAssumption
  <2>3. IsFiniteSet({i})
    BY FS_Singleton
  <2> QED BY <2>2, <2>3, FS_Product
<1>3. IsFiniteSet(all)
  <2>1. places \in Surjection(own, all)
    <3> HIDE DEF own
    <3> QED BY DEF Surjection
  <2> HIDE DEF own, places, all
  <2> QED BY <1>1, <2>1, FS_Surjection
<1>4. \A T \in all : IsFiniteSet(T)
  BY <1>2
<1>5. Applicable(cs, p, criterion) \in SUBSET UNION all
  <2>1. UNION {{i} \X DOMAIN cs[i].checks : i \in own} = UNION all
    <3> HIDE DEF own
    <3> QED OBVIOUS
  <2> QED BY <2>1 DEF Applicable
<1> HIDE DEF all
<1>6. IsFiniteSet(UNION all)
  BY <1>3, <1>4, FS_UNION
<1> QED BY <1>5, <1>6, FS_Subset

\* A score is a fraction, or there is none.
LEMMA ScoreIsFraction ==
    ASSUME NEW cs \in Seq(CellRecords), NEW p, NEW criterion, Score(cs, p, criterion) # Nothing
    PROVE  Score(cs, p, criterion) \in Fraction
<1> DEFINE applicable == Applicable(cs, p, criterion)
           passed == {at \in applicable : cs[at[1]].checks[at[2]].outcome = "pass"}
<1>1. Cardinality(passed) \in Nat /\ Cardinality(applicable) \in Nat
      /\ (applicable # {} => Cardinality(applicable) # 0)
  <2>1. IsFiniteSet(applicable) /\ passed \in SUBSET applicable
    BY ApplicableFinite
  <2> HIDE DEF applicable, passed
  <2>2. IsFiniteSet(passed)
    BY <2>1, FS_Subset
  <2> QED BY <2>1, <2>2, FS_CardinalityType, FS_EmptySet
<1>2. CASE criterion \in DeclaredCriteria
  <2>1. <<p, criterion>> \in DOMAIN Declared /\ Score(cs, p, criterion) = Declared[<<p, criterion>>]
    BY <1>2 DEF Score
  <2> QED BY <2>1, ScoringAssumption DEF Fraction
<1>3. CASE criterion \notin DeclaredCriteria /\ applicable # {}
  <2>1. Score(cs, p, criterion) = <<Cardinality(passed), Cardinality(applicable)>>
    BY <1>3 DEF Score
  <2> HIDE DEF passed, applicable
  <2> QED BY <1>1, <1>3, <2>1 DEF Fraction
<1>4. CASE criterion \notin DeclaredCriteria /\ applicable = {}
  <2>1. Score(cs, p, criterion) = IF Blocked(cs, p, criterion) THEN <<0, 1>> ELSE Nothing
    BY <1>4 DEF Score
  <2> QED BY <2>1 DEF Fraction
<1> QED BY <1>2, <1>3, <1>4

\* A total is a fraction with a positive denominator, or there is none.
LEMMA TotalIsFraction ==
    ASSUME NEW cs \in Seq(CellRecords), NEW p, WeightedTotal(ScoresOf(cs, p)) # Nothing
    PROVE  WeightedTotal(ScoresOf(cs, p)) \in Totals
<1> DEFINE marks == ScoresOf(cs, p)
           measured == Measured(marks)
           denominators == [c \in measured |-> marks[c][2]]
           denominator == CommonDenominator(marks)
           parts == [c \in measured |-> Weight[c] * marks[c][1] * (denominator \div marks[c][2])]
           shares == [c \in measured |-> Weight[c]]
           sum == SumFunction(parts)
           weights == SumFunction(shares)
<1>1. measured \in SUBSET Criteria /\ IsFiniteSet(measured)
  <2>1. measured \in SUBSET Criteria
    BY DEF Measured, ScoresOf
  <2> HIDE DEF measured
  <2> QED BY <2>1, ScoringAssumption, FS_Subset DEF Criteria
<1>2. \A c \in measured : marks[c] \in Fraction /\ Weight[c] \in Nat
  <2> SUFFICES ASSUME NEW c \in measured PROVE marks[c] \in Fraction /\ Weight[c] \in Nat
    OBVIOUS
  <2>1. c \in Criteria /\ marks[c] = Score(cs, p, c) /\ marks[c] # Nothing
    BY DEF Measured, ScoresOf
  <2> QED BY <2>1, ScoreIsFraction, ScoringAssumption DEF Criteria
<1>3. WeightedTotal(marks) = IF weights = 0 THEN Nothing ELSE <<sum, denominator * weights>>
  BY DEF WeightedTotal
<1>4. denominator \in Nat \ {0}
  <2>1. denominator = FoldFunction(Multiplied, 1, denominators)
    BY DEF CommonDenominator
  <2>2. DOMAIN denominators = measured /\ \A c \in measured : denominators[c] \in Nat \ {0}
    BY <1>2 DEF Fraction
  <2> HIDE DEF denominators, denominator, measured
  <2> QED BY <1>1, <2>1, <2>2, ProductPositive
<1> HIDE DEF measured, marks, denominator
<1>5. parts \in [measured -> Int]
  <2> SUFFICES ASSUME NEW c \in measured
               PROVE  Weight[c] * marks[c][1] * (denominator \div marks[c][2]) \in Int
    OBVIOUS
  <2>1. marks[c][1] \in Nat /\ marks[c][2] \in Nat \ {0} /\ Weight[c] \in Nat
    BY <1>2 DEF Fraction
  <2>2. denominator \div marks[c][2] \in Int
    BY <1>4, <2>1
  <2> QED BY <2>1, <2>2
<1>6. shares \in [measured -> Nat]
  BY <1>2
<1> HIDE DEF parts, shares
<1>7. sum \in Int
  BY <1>1, <1>5, SumTakesOut
<1>8. weights \in Nat
  <2>1. weights \in Int
    BY <1>1, <1>6, SumTakesOut
  <2>2. weights >= 0 * Cardinality(measured) /\ Cardinality(measured) \in Nat
    BY <1>1, <1>6, SumBound, FS_CardinalityType
  <2> HIDE DEF weights
  <2> QED BY <2>1, <2>2
<1> HIDE DEF sum, weights
<1>9. weights # 0 /\ WeightedTotal(marks) = <<sum, denominator * weights>>
  BY <1>3 DEF marks
<1>10. denominator * weights \in Nat \ {0}
  BY <1>4, <1>8, <1>9
<1> QED BY <1>7, <1>9, <1>10 DEF Totals, marks

\* The scores a report compares
AllScores(cs) == {ScoreProvider(cs, p) : p \in Providers}

\* The candidates of a report can be compared.
LEMMA CandidatesComparable ==
    ASSUME NEW cs \in Seq(CellRecords)
    PROVE  Comparable(Candidates(AllScores(cs)))
<1> DEFINE all == AllScores(cs)
           rows == [p \in Providers |-> ScoreProvider(cs, p)]
<1>1. IsFiniteSet(Candidates(all))
  <2>1. rows \in Surjection(Providers, all) /\ IsFiniteSet(Providers)
    BY ScoringAssumption DEF Surjection, AllScores
  <2>2. Candidates(all) \in SUBSET all
    BY DEF Candidates
  <2> HIDE DEF rows, all
  <2>3. IsFiniteSet(all)
    BY <2>1, FS_Surjection
  <2> QED BY <2>2, <2>3, FS_Subset
<1>2. ASSUME NEW s \in Candidates(all)
      PROVE  s.total \in Totals /\ s.provider \in Int
             /\ s.provider \in Providers /\ s = ScoreProvider(cs, s.provider)
  <2>1. PICK p \in Providers : s = ScoreProvider(cs, p)
    BY DEF Candidates, AllScores
  <2>2. s.provider = p /\ s.total = WeightedTotal(ScoresOf(cs, p)) /\ s.total # Nothing
    BY <2>1 DEF ScoreProvider, Candidates
  <2>3. s.total \in Totals
    BY <2>2, TotalIsFraction
  <2> QED BY <2>1, <2>2, <2>3, ScoringAssumption
<1> HIDE DEF all
<1>3. \A s, t \in Candidates(all) : s.provider = t.provider => s = t
  BY <1>2, Zenon
<1> QED BY <1>1, <1>2, <1>3 DEF Comparable, all

\* Whom a report of these cells names is the best of them.
LEMMA NamedIsBest ==
    ASSUME NEW cs \in Seq(CellRecords), Render(cs).recommended # Nothing
    PROVE  LET best == ScoreProvider(cs, Render(cs).recommended)
           IN  /\ \A c \in DOMAIN Veto : best.scores[c] # Nothing => best.scores[c][1] * 100 >= Veto[c] * best.scores[c][2]
               /\ \A p \in Providers \ {Render(cs).recommended} :
                    LET other == ScoreProvider(cs, p)
                    IN  (~other.unsuitable /\ other.total # Nothing) =>
                            (best.total[1] * other.total[2] - other.total[1] * best.total[2]) * 100
                                >= Margin * best.total[2] * other.total[2]
<1> DEFINE all == AllScores(cs)
           named == Render(cs).recommended
           best == ScoreProvider(cs, named)
<1>1. named = Recommendation(all)
  BY DEF Render, AllScores
<1>2. PICK s \in Candidates(all) :
        /\ named = s.provider
        /\ \A t \in Candidates(all) \ {s} :
                (s.total[1] * t.total[2] - t.total[1] * s.total[2]) * 100
                    >= Margin * s.total[2] * t.total[2]
  <2>1. Comparable(Candidates(all)) /\ Margin \in Int /\ Recommendation(all) # Nothing
    BY <1>1, CandidatesComparable, ScoringAssumption
  <2> HIDE DEF all
  <2> QED BY <1>1, <2>1, NamedIsAhead
<1>3. s = best /\ ~best.unsuitable
  <2>1. PICK p \in Providers : s = ScoreProvider(cs, p)
    BY DEF Candidates, AllScores
  <2>2. s.provider = p
    BY <2>1 DEF ScoreProvider
  <2> QED BY <1>2, <2>1, <2>2 DEF Candidates
<1>4. \A c \in DOMAIN Veto : best.scores[c] # Nothing => best.scores[c][1] * 100 >= Veto[c] * best.scores[c][2]
  <2> SUFFICES ASSUME NEW c \in DOMAIN Veto, best.scores[c] # Nothing
               PROVE  best.scores[c][1] * 100 >= Veto[c] * best.scores[c][2]
    OBVIOUS
  <2>1. best.scores = ScoresOf(cs, named) /\ Vetoed(best.scores) = {}
    BY <1>3 DEF ScoreProvider
  <2>2. c \in Criteria /\ Veto[c] \in Int
    BY ScoringAssumption DEF Criteria
  <2> DEFINE score == best.scores[c]
  <2>3. c \in Measured(best.scores) /\ score = Score(cs, named, c)
    BY <2>1, <2>2 DEF Measured, ScoresOf
  <2>4. score \in Fraction
    BY <2>3, ScoreIsFraction
  <2>5. ~(score[1] * 100 < Veto[c] * score[2])
    BY <2>1, <2>3 DEF Vetoed
  <2> HIDE DEF score
  <2>6. score[1] \in Int /\ score[2] \in Int
    BY <2>4 DEF Fraction
  <2>7. score[1] * 100 \in Int /\ Veto[c] * score[2] \in Int
    BY <2>2, <2>6
  <2>8. score[1] * 100 >= Veto[c] * score[2]
    BY <2>5, <2>7
  <2> QED BY <2>8 DEF score
<1>5. ASSUME NEW p \in Providers \ {named}, ~ScoreProvider(cs, p).unsuitable, ScoreProvider(cs, p).total # Nothing
      PROVE  ScoreProvider(cs, p) \in Candidates(all) \ {s}
  BY <1>2, <1>5 DEF Candidates, AllScores, ScoreProvider
<1> HIDE DEF all, best, named
<1>6. \A p \in Providers \ {named} :
        (~ScoreProvider(cs, p).unsuitable /\ ScoreProvider(cs, p).total # Nothing) =>
            (best.total[1] * ScoreProvider(cs, p).total[2] - ScoreProvider(cs, p).total[1] * best.total[2]) * 100
                >= Margin * best.total[2] * ScoreProvider(cs, p).total[2]
  BY <1>2, <1>3, <1>5
<1> QED BY <1>4, <1>6 DEF best, named

-----------------------------------------------------------------------------
\* The section is the report of the first cells.
ReportsOn(section, cs) ==
    section.from \in 0 .. Len(cs) /\ section = Render(SubSeq(cs, 1, section.from))

\* The section in the document is the report of the first cells.
ScoringInv ==
    /\ cells \in Seq(CellRecords)
    /\ document = [section |-> document.section, after |-> document.after]
    /\ document.section # Nothing => ReportsOn(document.section, cells)

\* Appending leaves the first cells alone.
LEMMA FirstCellsStay ==
    ASSUME NEW S, NEW seq \in Seq(S), NEW c \in S, NEW n \in 0 .. Len(seq)
    PROVE  SubSeq(Append(seq, c), 1, n) = SubSeq(seq, 1, n)
<1>1. Append(seq, c) \in Seq(S) /\ n \in 0 .. Len(Append(seq, c))
  OBVIOUS
<1>2. SubSeq(Append(seq, c), 1, n) = Restrict(Append(seq, c), 1 .. n)
  BY <1>1, SubSeqRestrict
<1>3. SubSeq(seq, 1, n) = Restrict(seq, 1 .. n)
  BY SubSeqRestrict
<1>4. \A i \in 1 .. n : Append(seq, c)[i] = seq[i]
  OBVIOUS
<1>5. Restrict(Append(seq, c), 1 .. n) = Restrict(seq, 1 .. n)
  BY <1>4 DEF Restrict
<1> QED BY <1>2, <1>3, <1>5

\* Cells are only appended, so a report stays that of the cells it was made from.
LEMMA ScoringTyped == ScoringSpec => []ScoringInv
<1>1. ScoringInit => ScoringInv
  BY DEF ScoringInit, ScoringInv
<1>2. ScoringInv /\ [ScoringNext]_scoring => ScoringInv'
  <2> SUFFICES ASSUME ScoringInv, [ScoringNext]_scoring PROVE ScoringInv'
    OBVIOUS
  <2> USE DEF ScoringInv
  <2>1. CASE AppendCell
    <3>1. PICK c \in CellRecords : cells' = Append(cells, c)
      BY <2>1 DEF AppendCell
    <3>2. document' = document /\ cells' \in Seq(CellRecords) /\ Len(cells') = Len(cells) + 1
      BY <2>1, <3>1 DEF AppendCell
    <3>3. \A n \in 0 .. Len(cells) : SubSeq(cells', 1, n) = SubSeq(cells, 1, n)
      BY <3>1, FirstCellsStay
    <3>4. 0 .. Len(cells) \subseteq 0 .. Len(cells')
      BY <3>2
    <3>5. \A section : ReportsOn(section, cells) => ReportsOn(section, cells')
      BY <3>3, <3>4 DEF ReportsOn
    <3> QED BY <3>2, <3>5
  <2>2. CASE Report
    <3>1. cells' = cells /\ document'.section = Render(cells)
          /\ document' = [section |-> document'.section, after |-> document'.after]
      BY <2>2 DEF Report
    <3>2. Render(cells).from = Len(cells) /\ SubSeq(cells, 1, Len(cells)) = cells /\ Len(cells) \in Nat
      BY SubSeqFull DEF Render
    <3>3. ReportsOn(Render(cells), cells)
      <4> DEFINE section == Render(cells)
      <4>1. section.from = Len(cells) /\ section = Render(SubSeq(cells, 1, Len(cells)))
        BY <3>2, Zenon
      <4> HIDE DEF section
      <4> QED BY <3>2, <4>1 DEF ReportsOn, section
    <3> QED BY <3>1, <3>3
  <2>3. CASE Write
    BY <2>3 DEF Write
  <2>4. CASE UNCHANGED scoring
    BY <2>4 DEF scoring
  <2> QED BY <2>1, <2>2, <2>3, <2>4 DEF ScoringNext
<1> QED BY <1>1, <1>2, PTL DEF ScoringSpec

\* Whom the report names (report._recommendation) has no veto against him and is ahead of
\* every other provider without one by the margin, whatever the cells and their order.
THEOREM RecommendationIsBest == ScoringSpec => []RecommendedIsBest
<1>1. ScoringInv => RecommendedIsBest
  <2> SUFFICES ASSUME ScoringInv, document.section # Nothing, document.section.recommended # Nothing
               PROVE  RecommendedIsBest
    BY DEF RecommendedIsBest
  <2> DEFINE cs == SubSeq(cells, 1, document.section.from)
  <2>1. cs \in Seq(CellRecords) /\ document.section = Render(cs)
    <3>1. cells \in Seq(CellRecords) /\ document.section.from \in 0 .. Len(cells)
      BY DEF ScoringInv, ReportsOn
    <3> DEFINE n == document.section.from
    <3>2. n \in Int /\ \A i \in 1 .. n : cells[i] \in CellRecords
      BY <3>1
    <3> HIDE DEF n
    <3>3. SubSeq(cells, 1, n) \in Seq(CellRecords)
      BY <3>2, SubSeqProperties
    <3> QED BY <3>3 DEF ScoringInv, ReportsOn, n
  <2> HIDE DEF cs
  <2>2. Render(cs).recommended # Nothing
    BY <2>1
  <2> QED BY <2>1, <2>2, NamedIsBest DEF RecommendedIsBest, cs
<1> QED BY <1>1, ScoringTyped, PTL
=============================================================================
