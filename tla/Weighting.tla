----------------------------- MODULE Weighting ------------------------------
(***************************************************************************)
(* From factor scores to whole-share targets (_FactorStrategy in           *)
(* trp/backtest/rebalance.py, trp/backtest/weighting.py): selection,       *)
(* weights, position limits, sizing.  The loops of apply_limits and _cap   *)
(* are steps.  A name at the cap weighs config.max; the others share the   *)
(* rest in proportion to their parts, which rescaling leaves alone.        *)
(* Weights count Units to the portfolio, exactly; the code's are floats,   *)
(* compared with a tolerance of 1e-12.                                     *)
(***************************************************************************)
EXTENDS Integers, FiniteSets, FiniteSetsExt, Functions

CONSTANTS
    Names,          \* securities: numbers, whose order is that of the ids
    Scores,         \* factor values a security may have; None: not ok
    Volatilities,   \* realised volatilities, None included
    Common,         \* a common multiple of the volatilities
    SizingPrices,   \* sizing prices, None included
    Configs,        \* backtest configurations
    Unit,           \* the portfolio, in the units of the limits
    Value,          \* portfolio_value
    None

\* BacktestConfig; volatilities that are not positive are left out, prices that are not sized
ASSUME WeightingAssumption ==
    /\ Names \subseteq Int /\ IsFiniteSet(Names) /\ None \notin Int
    /\ Scores \subseteq Int \cup {None}
    /\ Volatilities \subseteq Nat \cup {None}
    /\ \A v \in Volatilities \ {None} : v > 0 /\ Common \in Nat \ {0} /\ Common % v = 0
    /\ \A c \in Configs :
          /\ c.weighting \in {"equal", "score", "inverse"}
          /\ c.policy \in {"positive_only", "shift", "rank"}
          /\ c.selection \in {"top_n", "top_decile", "threshold"}
          /\ c.invested \in Nat \ {0}
          /\ {c.max, c.min} \subseteq (Nat \ {0}) \cup {None}

VARIABLES
    config, scores, volatility, price,  \* what the context gives
    pc,
    chosen,         \* select's result
    part,           \* free in _cap: name |-> its part of what is left
    capped,         \* the names of capped in _cap
    passes,         \* iterations of apply_limits left
    targets

vars == <<config, scores, volatility, price, pc, chosen, part, capped, passes, targets>>

Total(f) == SumFunction(f)
Held == DOMAIN part \cup capped
Remaining(k) == config.invested - k * config.max

-----------------------------------------------------------------------------
\* ranked: the names of S before x, the best score first and ties by id
Ahead(s, S, x) == {y \in S : s[y] > s[x] \/ (s[y] = s[x] /\ y < x)}

\* The first n of the names of S
First(s, S, n) == {x \in S : Cardinality(Ahead(s, S, x)) < n}

Select(s, c) ==
    LET ordered == DOMAIN s
        picked == CASE c.selection = "top_n" -> First(s, ordered, c.top)
                    [] c.selection = "top_decile" -> First(s, ordered, (Cardinality(ordered) + 9) \div 10)
                    [] c.selection = "threshold" -> {x \in ordered : s[x] >= c.threshold}
    IN  IF c.maxHoldings = None THEN picked ELSE First(s, picked, c.maxHoldings)

Equal(S) == [x \in S |-> 1]

\* score_weights for the policies that do not raise
ScoreWeights(s, policy) ==
    LET worst == Min(Range(s))
        shifted == [x \in DOMAIN s |-> s[x] - worst]
    IN  CASE policy = "positive_only" -> [x \in {y \in DOMAIN s : s[y] > 0} |-> s[x]]
          [] policy = "shift" -> IF Total(shifted) = 0 THEN Equal(DOMAIN s) ELSE shifted
          [] policy = "rank" -> [x \in DOMAIN s |-> Cardinality(DOMAIN s) - Cardinality(Ahead(s, DOMAIN s, x))]

\* 1 / v, in parts of 1 / Common
InverseVolatilityWeights(v) == [x \in DOMAIN v |-> Common \div v[x]]

-----------------------------------------------------------------------------
Init ==
    /\ config \in Configs /\ scores \in [Names -> Scores]
    /\ volatility \in IF config.weighting = "inverse" THEN [Names -> Volatilities] ELSE {[x \in Names |-> None]}
    /\ price \in [Names -> SizingPrices]
    /\ pc = "select" /\ chosen = {} /\ part = <<>> /\ capped = {} /\ passes = 0 /\ targets = <<>>

Inputs == <<config, scores, volatility, price>>

\* Scores of members that are not ok are left out.
SelectNames ==
    /\ pc = "select"
    /\ LET ok == {x \in Names : scores[x] # None}
       IN  chosen' = Select([x \in ok |-> scores[x]], config)
    /\ pc' = "weigh"
    /\ UNCHANGED <<Inputs, part, capped, passes, targets>>

Weights ==
    LET of == {x \in chosen : config.weighting = "inverse" => volatility[x] # None}
    IN  CASE of = {} -> <<>>
          [] of # {} /\ config.weighting = "equal" -> Equal(of)
          [] of # {} /\ config.weighting = "score" -> ScoreWeights([x \in of |-> scores[x]], config.policy)
          [] of # {} /\ config.weighting = "inverse" -> InverseVolatilityWeights([x \in of |-> volatility[x]])

\* Mutant: a pass for each name that may be dropped.
DropPasses(w) == Cardinality(DOMAIN w) - 1

PassesFor(w) == Cardinality(DOMAIN w) + 1

\* Positive-only scores of which none is positive are an error; no name gives no weights.
Weigh ==
    /\ pc = "weigh"
    /\ part' = Weights /\ passes' = PassesFor(Weights)
    /\ pc' = CASE Weights # <<>> -> "limit"
                [] Weights = <<>> /\ chosen # {} /\ config.weighting = "score" -> "error"
                [] Weights = <<>> /\ ~(chosen # {} /\ config.weighting = "score") -> "size"
    /\ UNCHANGED <<Inputs, chosen, capped, targets>>

\* A pass of apply_limits: into _cap, unless the cap cannot invest it all
Limit ==
    /\ pc = "limit"
    /\ pc' = CASE passes = 0 -> "unconverged"
                [] passes > 0 /\ config.max = None -> "floor"
                [] passes > 0 /\ config.max # None ->
                     IF Remaining(Cardinality(DOMAIN part)) > 0 THEN "error" ELSE "cap"
    /\ passes' = passes - 1
    /\ UNCHANGED <<Inputs, chosen, part, capped, targets>>

Over ==
    {x \in DOMAIN part : Remaining(Cardinality(capped)) * part[x] > config.max * Total(part)}

\* A turn of _cap's loop: the names over the cap leave the others to share what remains.
\* Sharing by parts that are all zero divides by zero.
Cap ==
    /\ pc = "cap"
    /\ LET free == [x \in DOMAIN part \ Over |-> part[x]]
       IN  /\ part' = free /\ capped' = capped \cup Over
           /\ pc' = CASE Over = {} \/ free = <<>> -> "floor"
                       [] Over # {} /\ free # <<>> -> IF Total(free) = 0 THEN "crash" ELSE "cap"
    /\ UNCHANGED <<Inputs, chosen, passes, targets>>

\* A name's weight is Numerator(x) / Denominator.
Denominator == IF part = <<>> THEN 1 ELSE Total(part)
Numerator(x) ==
    CASE x \in capped -> config.max * Denominator
      [] x \notin capped /\ capped = {} -> config.invested * part[x]
      [] x \notin capped /\ capped # {} -> Remaining(Cardinality(capped)) * part[x]

Below == {x \in Held : config.min # None /\ Numerator(x) < config.min * Denominator}

\* Mutant: the survivors of the floor are scaled up and not capped again.
FloorOnce ==
    /\ pc = "floor"
    /\ part' = [x \in Held \ Below |-> Numerator(x)] /\ capped' = {}
    /\ pc' = IF Held = Below THEN "error" ELSE "size"
    /\ UNCHANGED <<Inputs, chosen, passes, targets>>

\* The names below the floor go, and the survivors are scaled up for another pass.
Floor ==
    /\ pc = "floor"
    /\ IF Below = {} THEN pc' = "size" /\ UNCHANGED <<part, capped>>
       ELSE /\ part' = [x \in Held \ Below |-> Numerator(x)] /\ capped' = {}
            /\ pc' = IF Held = Below THEN "error" ELSE "limit"
    /\ UNCHANGED <<Inputs, chosen, passes, targets>>

\* target_shares; prices below are positive
Size ==
    /\ pc = "size"
    /\ LET shares(x) == (Numerator(x) * Value) \div (Denominator * Unit * price[x])
       IN  targets' = [x \in {y \in Held : price[y] # None /\ shares(y) > 0} |-> shares(x)]
    /\ pc' = "done"
    /\ UNCHANGED <<Inputs, chosen, part, capped, passes>>

Next == SelectNames \/ Weigh \/ Limit \/ Cap \/ Floor \/ Size
Spec == Init /\ [][Next]_vars /\ WF_vars(Next)

-----------------------------------------------------------------------------
\* The weights that are sized invest exactly the configured proportion and obey both
\* limits at once: dropping a name re-opens the cap, and capping re-opens the floor.
WithinLimits ==
    pc \in {"size", "done"} /\ Held # {} =>
        /\ Total([x \in Held |-> Numerator(x)]) = config.invested * Denominator
        /\ \A x \in Held :
                /\ config.max # None => Numerator(x) <= config.max * Denominator
                /\ config.min # None => Numerator(x) >= config.min * Denominator

\* Both loops end: with targets or with the error of a configuration that cannot be met,
\* and never because apply_limits has run out of passes.
Ends == <>(pc \in {"done", "error", "crash"})
=============================================================================
