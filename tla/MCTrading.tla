----------------------------- MODULE MCTrading ------------------------------
(***************************************************************************)
(* What a backtest computes with, side by side: a behaviour is one of the  *)
(* ledger (every sequence of up to four calls on two securities) or one of *)
(* the weighting (three securities under every selection, weighting and    *)
(* pair of limits); the other component stays switched off.                *)
(*                                                                         *)
(* The ledger's marks are even, so that the cash in lieu of a 1-for-2 or   *)
(* 3-for-2 event is a whole number of ledger units, as it is exact in the  *)
(* code.                                                                   *)
(***************************************************************************)
EXTENDS PortfolioCalls, Weighting

VARIABLE component

-----------------------------------------------------------------------------
\* The ledger
MCPrices == {2, 6}
MCShareCounts == {0, 1, 3}
MCCosts == {0, 5}
MCSplitRatios == {<<2, 1>>, <<1, 2>>, <<3, 2>>}

ASSUME MCWholeCashInLieu == WholeCashInLieu

-----------------------------------------------------------------------------
\* The weighting
Base == [selection |-> "top_n", top |-> 3, threshold |-> 0, maxHoldings |-> None,
         weighting |-> "equal", policy |-> "rank", invested |-> 30, max |-> None, min |-> None]

Selections ==
    {Base, [Base EXCEPT !.top = 2], [Base EXCEPT !.selection = "top_decile"],
     [Base EXCEPT !.selection = "threshold", !.maxHoldings = 2]}

Weightings ==
    {[Base EXCEPT !.weighting = "inverse"]} \cup
    {[Base EXCEPT !.weighting = "score", !.policy = p] : p \in {"rank", "shift", "positive_only"}}

MCConfigs ==
    Selections \cup
    {[w EXCEPT !.max = max, !.min = min, !.invested = 27] :
        w \in Weightings, max \in {None, 12, 18}, min \in {None, 6, 10}}

MCScores == {None, -2, 1, 5}
MCVolatilities == {None, 1, 4}
MCSizingPrices == {None, 7}

\* Bound: under "inverse" a score decides only who is selected.
OneScore == config.weighting = "inverse" => \A x \in DOMAIN scores : scores[x] \in {None, 1}

WeightingOff ==
    /\ config = None /\ scores = <<>> /\ volatility = <<>> /\ price = <<>>
    /\ pc = "off" /\ chosen = {} /\ part = <<>> /\ capped = {} /\ passes = 0 /\ targets = <<>>

-----------------------------------------------------------------------------
MCInit ==
    /\ CallsInit
    /\ \/ component = "ledger" /\ WeightingOff
       \/ component = "weighting" /\ Init /\ OneScore

WeighStep == component = "weighting" /\ Next /\ UNCHANGED <<book, component>>

MCNext ==
    \/ component = "ledger" /\ CallsNext /\ UNCHANGED <<component, vars>>
    \/ WeighStep

MCSpec == MCInit /\ [][MCNext]_<<component, book, vars>> /\ WF_vars(WeighStep)

\* Weighting's Ends, of the behaviours that are its own: the two limits of apply_limits stop
\* chasing each other.
LimitsEnd == component = "weighting" => Ends
=============================================================================
