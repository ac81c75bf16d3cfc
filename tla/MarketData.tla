----------------------------- MODULE MarketData -----------------------------
(***************************************************************************)
(* The engine's dataset (trp/backtest/engine.py, class MarketData): daily  *)
(* bars and corporate actions, fixed for a run, and the lookups over them. *)
(* A market is a record [close, volume, actions]; close[s][d] = 0 is a day *)
(* with no print, since DailyBar requires close > 0.                       *)
(***************************************************************************)
EXTENDS Integers, Sequences, FiniteSets

CONSTANTS
    LastDay,        \* calendar days are 1 .. LastDay
    ImpactWindow,   \* IMPACT_WINDOW_SESSIONS (60)
    MinorUnits      \* GBX per GBP (100)

ASSUME MarketAssumption ==
    /\ LastDay \in Nat \ {0}
    /\ ImpactWindow \in Nat \ {0}
    /\ MinorUnits \in Nat \ {0}

Days == 1 .. LastDay

None == 0   \* a lookup that finds nothing; no day, close or median is zero

Unconvertible == -1   \* _to_quote_unit returned None

\* The dates of a security's bars up to and including a day.
Prints(m, s, day) == {d \in Days : d <= day /\ m.close[s][d] > 0}

(***************************************************************************)
(* MarketData.close_on_or_before: the last print's date, or None.          *)
(***************************************************************************)
LastPrint(m, s, day) ==
    LET latest == {d \in Prints(m, s, day) : \A e \in Prints(m, s, day) : e <= d}
    IN  IF latest = {} THEN None ELSE CHOOSE d \in latest : TRUE

CloseOnOrBefore(m, s, day) ==
    LET d == LastPrint(m, s, day) IN IF d = None THEN None ELSE m.close[s][d]

\* found[0] == day in BacktestEngine._execute
PrintsToday(m, s, day) == LastPrint(m, s, day) = day

(***************************************************************************)
(* MarketData.median_traded_value: the median of close * volume over the   *)
(* last ImpactWindow bars on or before the day.  The two middle values are *)
(* averaged when their number is even, as statistics.median does.          *)
(***************************************************************************)
MedianTradedValue(m, s, day) ==
    LET window == {d \in Prints(m, s, day) :
                      Cardinality({e \in Prints(m, s, day) : e > d}) < ImpactWindow}
        traded(d) == m.close[s][d] * m.volume[s][d]
        below(d) == Cardinality({e \in window : traded(e) < traded(d)})
        upTo(d) == Cardinality({e \in window : traded(e) <= traded(d)})
        atRank(k) == {d \in window : below(d) <= k /\ k < upTo(d)}
        low == atRank((Cardinality(window) - 1) \div 2)
        high == atRank(Cardinality(window) \div 2)
    IN  IF low = {} \/ high = {}
        THEN None
        ELSE (traded(CHOOSE d \in low : TRUE) + traded(CHOOSE d \in high : TRUE)) \div 2

(***************************************************************************)
(* BacktestEngine._to_quote_unit: pounds are scaled to pence exactly, any  *)
(* other currency cannot be converted without a dated rate.                *)
(***************************************************************************)
ToQuoteUnit(amount, unit) ==
    CASE unit = "GBX" -> amount
      [] unit = "GBP" -> amount * MinorUnits
      [] OTHER -> Unconvertible
=============================================================================
