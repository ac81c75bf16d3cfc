----------------------------- MODULE MCBacktest -----------------------------
(***************************************************************************)
(* Instances of the backtest engine: seven calendar days, of which 3 and 6 *)
(* are not sessions.  Closes are multiples of 20 and the rates percentages *)
(* that divide them, so every cost is a whole number, as it is exact in    *)
(* the code.                                                               *)
(***************************************************************************)
EXTENDS Backtest

MCSessions == <<1, 2, 4, 5, 7>>

Flat == <<20, 20, 0, 20, 20, 0, 20>>
Doubles == <<20, 20, 0, 40, 40, 0, 40>>
Halves == <<40, 40, 0, 20, 20, 0, 20>>
Vanishes == <<20, 20, 0, 0, 0, 0, 0>>
Gap == <<40, 40, 0, 0, 20, 0, 20>>
ListsLate == <<0, 0, 0, 20, 20, 0, 20>>

Act(kind, s, ex, avail) ==
    [kind |-> kind, sid |-> s, ex |-> ex, avail |-> avail, new |-> 1, old |-> 1,
     amount |-> 0, unit |-> "GBX", reason |-> "other"]

Div(s, ex, avail, amount, unit) ==
    [Act("dividend", s, ex, avail) EXCEPT !.amount = amount, !.unit = unit]

Spl(s, ex, avail, new, old) ==
    [Act("split", s, ex, avail) EXCEPT !.new = new, !.old = old]

Mer(s, ex, amount, unit) ==
    [Act("merger", s, ex, ex) EXCEPT !.amount = amount, !.unit = unit]

Fail(s, ex) == [Act("delisting", s, ex, ex) EXCEPT !.reason = "failure"]

MarketsOf(series1, series2, volumes, actionLists) ==
    {[close |-> <<c1, c2>>,
      volume |-> <<v, v>>,
      actions |-> acts] :
        c1 \in series1, c2 \in series2, v \in volumes, acts \in actionLists}

Thin == [d \in Days |-> 10]
NoVolume == [d \in Days |-> 0]

\* Corporate actions on a held security: late, early, unconvertible, fatal.
ActionMarkets ==
    MarketsOf({Flat, Vanishes}, {Flat, ListsLate}, {Thin},
        {<<>>,
         <<Div(1, 2, 5, 5, "GBX"), Div(1, 4, 2, 1, "GBP")>>,
         <<Div(1, 4, 4, 5, "EUR"), Spl(1, 4, 4, 1, 2)>>,
         <<Spl(1, 2, 2, 3, 2), Act("delisting", 1, 5, 5)>>,
         <<Fail(1, 4)>>,
         <<Mer(1, 4, 30, "GBX")>>,
         <<Mer(1, 4, 30, "EUR")>>,
         <<Mer(1, 4, 0, "GBX"), Act("ticker_change", 1, 4, 4)>>})

\* No actions: the order execution is the question.
TradeMarkets ==
    MarketsOf({Flat, Doubles, Halves, Gap}, {Flat, Doubles, ListsLate},
              {Thin, NoVolume}, {<<>>})

WeekendMarkets == MarketsOf({Flat}, {Flat}, {Thin}, {<<Div(1, 2, 3, 5, "GBX")>>})

ASSUME MCWholeCosts == WholeCosts

ASSUME MCActionMarkets == DividendsFirst(ActionMarkets) /\ DueOnSessions(ActionMarkets)
=============================================================================
