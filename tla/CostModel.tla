----------------------------- MODULE CostModel ------------------------------
(***************************************************************************)
(* The transaction-cost model (trp/backtest/costs.py).  Rates are in basis *)
(* points of the notional; Bps is the number of basis points in one (10000 *)
(* in the code, smaller in the model runs, whose prices are small).  The   *)
(* quotients are exact in the code's Decimal; here they are rounded down   *)
(* to ledger units.                                                        *)
(***************************************************************************)
EXTENDS Integers

CONSTANTS CommissionBps, CommissionMin, SpreadBps, StampBps, ImpactBps, Bps,
          StampExempt   \* the securities is_stamp_exempt holds of

ASSUME CostAssumption ==
    /\ CommissionBps \in Nat /\ CommissionMin \in Nat /\ SpreadBps \in Nat
    /\ StampBps \in Nat /\ ImpactBps \in Nat /\ Bps \in Nat \ {0}

Commission(notional) ==
    LET proportional == (notional * CommissionBps) \div Bps
    IN  IF proportional > CommissionMin THEN proportional ELSE CommissionMin

HalfSpread(notional) == (notional * SpreadBps) \div (2 * Bps)

StampDuty(s, side, notional) ==
    IF side = "buy" /\ s \notin StampExempt
    THEN (notional * StampBps) \div Bps
    ELSE 0

\* No usable volume history: participation is one, illiquidity is never free.
Impact(notional, median) ==
    IF median > 0
    THEN (notional * ImpactBps * notional) \div (Bps * median)
    ELSE (notional * ImpactBps) \div Bps

\* CostModel.cost, the total of a TradeCosts
Cost(s, side, notional, median) ==
    Commission(notional) + HalfSpread(notional) + StampDuty(s, side, notional)
      + Impact(notional, median)
=============================================================================
