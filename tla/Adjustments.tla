---------------------------- MODULE Adjustments ----------------------------
(***************************************************************************)
(* Adjustment factors of one security (trp/derived/adjustments.py): bars   *)
(* as a function from trade dates to raw closes, actions as a set of       *)
(* records with an ex-date and an availability.  A factor is an exact      *)
(* fraction <<numerator, denominator>>.                                    *)
(***************************************************************************)
EXTENDS Integers, FiniteSets, FiniteSetsExt, Functions

CONSTANT MaxGap     \* MAX_PREV_CLOSE_GAP_DAYS

One == <<1, 1>>

Times(p, q) == <<p[1] * q[1], p[2] * q[2]>>

\* The product of the fractions of a function
Product(parts) == FoldFunction(Times, One, parts)

\* Mutant: the availability is not looked at.
AnyAction(actions, asOf) == actions

\* The actions known at an instant
Known(actions, asOf) == {a \in actions : a.available <= asOf}

\* The splits and dividends with an effect on the bars
Adjusting(bars, actions) ==
    {a \in actions : a.kind \in {"split", "dividend"} /\ a.ex <= Max(DOMAIN bars)}

PreviousDates(bars, ex) == {d \in DOMAIN bars : d < ex}

\* _previous_close_date
PreviousClose(bars, ex) == bars[Max(PreviousDates(bars, ex))]

Anchored(bars, ex) == \E d \in PreviousDates(bars, ex) : ex - d <= MaxGap

\* AdjustmentError otherwise: a dividend without a close to anchor its yield
Computes(bars, actions) ==
    bars # <<>> => \A a \in Adjusting(bars, actions) : a.kind = "dividend" => Anchored(bars, a.ex)

On(actions, kind, ex) == {a \in actions : a.kind = kind /\ a.ex = ex}

\* Old shares per new share
SplitPart(actions, ex) == Product([a \in On(actions, "split", ex) |-> <<a.old, a.new>>])

\* 1 - D / P, P being the close before, in the terms after the split of the day
DividendPart(bars, actions, ex) ==
    LET P == Times(<<PreviousClose(bars, ex), 1>>, SplitPart(actions, ex))
    IN  Product([a \in On(actions, "dividend", ex) |-> <<P[1] - a.amount * P[2], P[1]>>])

After(ex, day) == ex > day

\* The cumulative factors of a bar, 1 on the last
Factor(bars, actions, basis, day) ==
    LET adjusting == Adjusting(bars, actions)
        later == {ex \in {a.ex : a \in adjusting} : After(ex, day)}
    IN  Product([ex \in later |->
            IF basis = "price" THEN SplitPart(adjusting, ex)
            ELSE Times(SplitPart(adjusting, ex), DividendPart(bars, adjusting, ex))])

Adjusted(bars, actions, basis, day) ==
    Times(<<bars[day], 1>>, Factor(bars, actions, basis, day))
=============================================================================
