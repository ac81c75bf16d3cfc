-------------------------- MODULE BacktestContext --------------------------
(***************************************************************************)
(* What a strategy is shown (trp/backtest/context.py): for each clock day  *)
(* the members of the universe, the prices, and the momentum of every      *)
(* security, computed from a slice of the bars and of the actions.         *)
(*                                                                         *)
(* Time passes: bars are printed day by day, actions are published with    *)
(* any ex-date, spells are learned of.  Every state is a dataset a         *)
(* backtest may be given, and defines what a context shows for every clock *)
(* day up to now; seen keeps what it showed when the day was the last one. *)
(***************************************************************************)
EXTENDS Universe, Returns, Sequences

CONSTANTS
    Closes,         \* the raw closes by security and day, where there is a print
    Founders,       \* the securities that may be members by backfill, since day 1
    Suspendable,    \* the securities that may miss a print
    Announcements,  \* the actions that may be published, none available yet
    Lookback,       \* factor_lookback_days
    MarkStaleness,  \* _MARK_STALENESS_DAYS
    MaxActions      \* bound: actions published

\* Corporate actions of a security; one kind has no use for the fields of others.
ActionType == [sid : Securities, kind : {"split", "dividend", "merger", "delisting"}, ex : Days,
               available : Nat, new : Nat \ {0}, old : Nat \ {0}, amount : Nat,
               reason : {"failure", "other"}]

ASSUME ContextAssumption ==
    /\ Lookback \in Nat /\ MarkStaleness \in Nat
    /\ Founders \subseteq Securities /\ IsFiniteSet(Founders)
    /\ Announcements \subseteq ActionType

VARIABLES
    bars,           \* MarketData: the closes printed so far, by security
    actions,        \* MarketData: the corporate actions published so far
    seen            \* history: what a context showed at the end of each day

vars == <<spells, now, bars, actions, seen>>

ActionsOf(s) == {a \in actions : a.sid = s}

-----------------------------------------------------------------------------
\* MarketData.bars_for
BarsFor(s, start, end) == Restrict(bars[s], {d \in DOMAIN bars[s] : start <= d /\ d <= end})

\* BacktestContext._sliced_inputs, the bars
Sliced(s, clock) == BarsFor(s, clock - Lookback, clock)

\* Mutant: an action that takes effect on the last day is left out.
InsideWindow(window, ex) == window # <<>> /\ Min(DOMAIN window) < ex /\ ex < Max(DOMAIN window)

\* computable_inputs: the ex-dates that tell the bars of a window apart
InsideSpan(window, ex) == window # <<>> /\ Min(DOMAIN window) < ex /\ ex <= Max(DOMAIN window)

Relevant(s, clock) == {a \in ActionsOf(s) : InsideSpan(Sliced(s, clock), a.ex)}

\* computable_inputs: an action without an anchor takes its security out.
Excluded(s, clock) == \E a \in Relevant(s, clock) : ~Anchored(Sliced(s, clock), a.ex)

ComputableBars(s, clock) == IF Excluded(s, clock) THEN <<>> ELSE Sliced(s, clock)

ComputableActions(s, clock) == IF Excluded(s, clock) THEN {} ELSE Relevant(s, clock)

\* BacktestContext.price: the last close, unless it is stale
Price(s, clock) ==
    LET last == {d \in DOMAIN bars[s] : d <= clock}
    IN  IF last = {} \/ clock - Max(last) > MarkStaleness THEN None ELSE bars[s][Max(last)]

\* BacktestContext.factor_values, of a window_total_return factor
Momentum(s, clock) ==
    WindowReturn(ComputableBars(s, clock), ComputableActions(s, clock), clock, clock, "total")

\* All a strategy reads from a context
Shown(clock) ==
    [members |-> Members(clock, clock),
     price |-> [s \in Securities |-> Price(s, clock)],
     excluded |-> [s \in Securities |-> Excluded(s, clock)],
     momentum |-> [s \in Securities |-> Momentum(s, clock)]]

-----------------------------------------------------------------------------
Init ==
    /\ now = 1 /\ actions = {} /\ seen = <<>>
    /\ \E sids \in SUBSET Founders :
          spells = {[sid |-> s, from |-> 1, to |-> None, recorded |-> None, superseded |-> None] :
                      s \in sids}
    /\ \E printing \in SUBSET Securities :
          /\ Securities \ Suspendable \subseteq printing
          /\ bars = [s \in Securities |->
                       [d \in IF s \in printing THEN {1} ELSE {} |-> Closes[s][d]]]

\* Bound: a history has suspensions and actions, or spells, since nothing in
\* the context relates the two.
Unbroken == \A s \in Securities : DOMAIN bars[s] = {d \in Sessions : d <= now}

\* The next day, on which a suspended security has no print
NextDay ==
    /\ now < MaxDay
    /\ now' = now + 1
    /\ \E printing \in SUBSET Securities :
          /\ now' \in Sessions => Securities \ Suspendable \subseteq printing
          /\ now' \notin Sessions => printing = {}
          /\ spells # {} /\ now' \in Sessions => printing = Securities
          /\ bars' = [s \in Securities |->
                        [d \in DOMAIN bars[s] \cup (IF s \in printing THEN {now'} ELSE {}) |->
                            Closes[s][d]]]
    /\ seen' = Append(seen, Shown(now))
    /\ UNCHANGED <<spells, actions>>

\* The vendor publishes an action, before or after its ex-date.
Publish ==
    /\ Cardinality(actions) < MaxActions /\ spells = {}
    /\ \E a \in Announcements :
          /\ \A b \in ActionsOf(a.sid) : b.kind = a.kind => a.kind \in {"split", "dividend"}
          /\ actions' = actions \cup {[a EXCEPT !.available = now]}
    /\ UNCHANGED <<spells, now, bars, seen>>

\* Somebody joins or leaves the universe.
Learn ==
    /\ actions = {} /\ Unbroken
    /\ \E s \in Securities, day \in Days : Join(s, day) \/ Leave(s, day)
    /\ UNCHANGED <<now, bars, actions, seen>>

Next == NextDay \/ Publish \/ Learn

Spec == Init /\ [][Next]_vars
-----------------------------------------------------------------------------
(***************************************************************************)
(* No data that comes later changes what a context shows for a past day:   *)
(* its members, its prices, and the momentum of a security whose exclusion *)
(* is as it was.                                                           *)
(***************************************************************************)
DecisionsStand ==
    \A clock \in 1 .. now - 1 :
        LET then == seen[clock] again == Shown(clock)
        IN  /\ again.members = then.members /\ again.price = then.price
            /\ \A s \in Securities :
                  again.excluded[s] = then.excluded[s] => again.momentum[s] = then.momentum[s]

(***************************************************************************)
(* "Adding future-dated data to the inputs cannot change any result": a    *)
(* momentum that was computed for a past day is still computed, the same.  *)
(***************************************************************************)
NoLookAhead ==
    \A clock \in 1 .. now - 1, s \in Securities :
        LET then == seen[clock].momentum[s]
        IN  then.status = "ok" => Shown(clock).momentum[s] = then

(***************************************************************************)
(* "Excluding it is exact" (computable_inputs): adjusted with the actions  *)
(* inside the window only, a bar of the window is what it is in the full   *)
(* series adjusted with every action known on the clock day, and what it   *)
(* lets through never raises AdjustmentError.                              *)
(***************************************************************************)
SlicingIsExact ==
    \A clock \in 1 .. now, s \in Securities :
        LET full == BarsFor(s, 1, clock)
            window == ComputableBars(s, clock)
            inFull == Known(ActionsOf(s), clock)
            inWindow == Known(ComputableActions(s, clock), clock)
        IN  /\ Computes(window, inWindow)
            /\ Computes(full, inFull) =>
                 \A d \in DOMAIN window :
                     Adjusted(window, inWindow, "total", d) = Adjusted(full, inFull, "total", d)
=============================================================================
