------------------------------ MODULE Returns ------------------------------
(***************************************************************************)
(* The windowed return of one security (trp/factors/returns.py,            *)
(* ReturnsEngine): bars and actions as in Adjustments, amounts in the      *)
(* quote unit.  Windows are counted in days where the code counts calendar *)
(* months.  A security has at most one merger and one delisting.           *)
(***************************************************************************)
EXTENDS Adjustments

CONSTANTS
    WindowLength,   \* WindowSpec.months
    Skip,           \* WindowSpec.skip_months
    MaxStaleness,   \* max_staleness_days
    MinCoverage,    \* min_coverage, a fraction
    Sessions        \* the calendar's sessions

Unknown == <<0, 0>>     \* proceeds of None

\* adjusted_series: every bar with its adjusted close
Series(bars, actions, asOf, basis) ==
    [d \in DOMAIN bars |-> Adjusted(bars, Known(actions, asOf), basis, d)]

\* _bar_on_or_before: the date of the last bar, unless it is stale
BarOnOrBefore(bars, day) ==
    {d \in DOMAIN bars : /\ d <= day /\ day - d <= MaxStaleness
                         /\ \A e \in DOMAIN bars : e <= day => e <= d}

\* Cash of a merger first, else what the delisting says
Ending(actions, asOf) ==
    LET mergers == {a \in Known(actions, asOf) : a.kind = "merger"}
    IN  IF mergers # {} THEN mergers ELSE {a \in Known(actions, asOf) : a.kind = "delisting"}

Proceeds(a) ==
    IF a.kind = "merger" THEN <<a.amount, 1>>
    ELSE IF a.reason = "failure" THEN <<0, 1>> ELSE Unknown

NoReturn(status) == [status |-> status, start |-> Unknown, end |-> Unknown]

\* Too few of the sessions in the window have a bar.
Sparse(bars, from, to) ==
    Cardinality({d \in DOMAIN bars : from <= d /\ d <= to}) * MinCoverage[2]
        < Cardinality({d \in Sessions : from <= d /\ d <= to}) * MinCoverage[1]

\* From one bar or event to another, each <<date, value>>
Between(bars, first, last, ended) ==
    IF first[2][1] <= 0 \/ last[1] <= first[1] \/ (~ended /\ Sparse(bars, first[1], last[1]))
    THEN NoReturn("insufficient_data")
    ELSE [status |-> "ok", start |-> first[2], end |-> last[2]]

(***************************************************************************)
(* window_return: the value is end / start - 1, kept as its two sides.     *)
(***************************************************************************)
WindowReturn(bars, actions, asOf, end, basis) ==
    LET series == Series(bars, actions, asOf, basis)
        starts == BarOnOrBefore(bars, end - WindowLength)
        finishes == BarOnOrBefore(bars, end - Skip)
        at(days) == LET d == Max(days) IN <<d, series[d]>>
        endings == Ending(actions, asOf)
        ending == CHOOSE a \in endings : TRUE
    IN  CASE bars = <<>> -> NoReturn("no_data")
          [] bars # <<>> /\ starts = {} -> NoReturn("insufficient_data")
          [] starts # {} /\ finishes # {} -> Between(bars, at(starts), at(finishes), FALSE)
          [] starts # {} /\ finishes = {} ->
               IF endings = {} \/ Max(DOMAIN bars) >= end - Skip THEN NoReturn("insufficient_data")
               ELSE IF Proceeds(ending) = Unknown THEN NoReturn("delisted_no_proceeds")
               ELSE Between(bars, at(starts),
                            <<Min({ending.ex, end - Skip}), Proceeds(ending)>>, TRUE)
=============================================================================
