------------------------------ MODULE Backtest ------------------------------
(***************************************************************************)
(* The daily event loop (trp/backtest/engine.py, BacktestEngine): for each *)
(* trading session, corporate actions are applied to the ledger, stale     *)
(* holdings are forced out, the strategy is asked for targets on rebalance *)
(* days and the difference is traded at the day's close, sells first, and  *)
(* the day is marked.  Loops of the code are steps of the model: pc is the *)
(* place in BacktestEngine.run, queue and todo what the loop there still   *)
(* has to visit.                                                           *)
(*                                                                         *)
(* The strategy is any function to whole-share targets: Decide chooses the *)
(* targets freely.  The market is chosen in Init and never changes.        *)
(***************************************************************************)
EXTENDS Portfolio, MarketData, CostModel, FiniteSetsExt, Functions

CONSTANTS
    Start,            \* config.start
    Sessions,         \* the calendar's sessions in [start, end], ascending
    RebalanceDays,    \* rebalance_sessions(sessions, schedule, offset)
    StaleExitDays,    \* STALE_EXIT_DAYS (15)
    TargetShares,     \* share counts a strategy can ask for
    Markets           \* the datasets a run can be given

(***************************************************************************)
(* Corporate actions.  new and old are a split's ratio, amount and unit a  *)
(* dividend's or a merger's cash, reason a delisting's; "ticker_change"    *)
(* stands for the kinds the engine skips.  A merger with amount None has   *)
(* share consideration only.                                               *)
(***************************************************************************)
ActionKinds == {"split", "dividend", "merger", "delisting", "ticker_change"}

Actions == [kind : ActionKinds, sid : Sids, ex : Days, avail : Days,
            new : Nat \ {0}, old : Nat \ {0}, amount : Nat,
            unit : {"GBX", "GBP", "EUR"}, reason : {"failure", "other"}]

MarketType == [close : [Sids -> [Days -> Nat]], volume : [Sids -> [Days -> Nat]],
               actions : Seq(Actions)]

ASSUME BacktestAssumption ==
    /\ Sessions \in Seq(Days) /\ Sessions # <<>>
    /\ \A i, j \in 1 .. Len(Sessions) : i < j => Sessions[i] < Sessions[j]
    /\ Start \in Days /\ Start <= Sessions[1]
    /\ StaleExitDays \in Nat
    /\ TargetShares \subseteq Nat
    /\ Markets \subseteq MarketType
    /\ IsFiniteSet(Sids)

VARIABLES
    market,       \* self._market
    idx,          \* index of the loop over sessions
    pc,           \* place in the loop body
    queue,        \* indices of the actions effective today and still to apply
    todo,         \* securities the current inner loop still has to visit
    orders,       \* _execute: target minus current, per security
    trial,        \* _affordable_shares: the share count being tried
    decision,     \* pre_trade_value and events_before of the last rebalance
    daily,        \* daily_rows
    rebalances,   \* rebalance_rows
    warnings      \* self._warnings

vars == <<market, book, idx, pc, queue, todo, orders, trial, decision, daily,
          rebalances, warnings>>

today == Sessions[idx]

Places == {"actions", "stale", "sell", "buy", "afford", "mark", "done"}

\* The loop is at a place; a LedgerError that escaped ends the run.
At(place) == pc = place /\ ~book.raised

Warning(kind, s) == [on |-> today, kind |-> kind, sid |-> s]

\* Mutants of Effective: knowledge, or the ex-date, is left out.
EffectiveOnExDate(a) == a.ex

EffectiveWhenKnown(a) == a.avail

(***************************************************************************)
(* BacktestEngine.__init__: an action is effective on max(ex_date, the     *)
(* date of available_at); the loop looks up the current session only.      *)
(***************************************************************************)
Effective(a) == IF a.ex > a.avail THEN a.ex ELSE a.avail

\* _actions_by_effective[day], as indices into the action list
ActionsOn(m, day) == {j \in DOMAIN m.actions : Effective(m.actions[j]) = day}

Held == {s \in Sids : book.positions[s] > 0}

\* BacktestEngine._marks raises when a held position has no print at all.
Markable == \A s \in Held : LastPrint(market, s, today) # None

\* Portfolio.value at BacktestEngine._marks
Value == book.cash + SumFunction(
            [s \in Held |-> book.positions[s] * CloseOnOrBefore(market, s, today)])

-----------------------------------------------------------------------------
(***************************************************************************)
(* BacktestEngine._apply_actions, one action of the effective-date list.   *)
(***************************************************************************)
AppliedTo(b, a) ==
    LET s == a.sid
        close == CloseOnOrBefore(market, s, today)
        cash == ToQuoteUnit(a.amount, a.unit)
    IN  CASE a.kind = "split" ->
                IF close = None THEN b ELSE ApplySplit(b, s, a.new, a.old, close, today)
          [] a.kind = "dividend" ->
                IF cash = Unconvertible THEN b ELSE CreditDividend(b, s, cash, today)
          [] a.kind = "merger" ->
                IF a.amount = None THEN b
                ELSE ResolveDelisting(
                        b, s, IF cash = Unconvertible THEN NoTerms ELSE cash, today)
          [] a.kind = "delisting" ->
                ResolveDelisting(
                    b, s,
                    CASE a.reason = "failure" -> 0
                      [] a.reason # "failure" /\ close # None -> close
                      [] OTHER -> NoTerms,
                    today)
          [] OTHER -> b

ConvertsCash(a) == a.kind = "dividend" \/ (a.kind = "merger" /\ a.amount # None)

ApplyAction ==
    /\ At("actions")
    /\ \E j \in queue :
          /\ \A k \in queue : j <= k
          /\ queue' = queue \ {j}
          /\ LET a == market.actions[j]
             IN  /\ book' = AppliedTo(book, a)
                 /\ warnings' =
                       IF ConvertsCash(a) /\ ToQuoteUnit(a.amount, a.unit) = Unconvertible
                       THEN warnings \cup {Warning("unconvertible", a.sid)}
                       ELSE warnings
    /\ UNCHANGED <<market, idx, pc, todo, orders, trial, decision, daily, rebalances>>

\* _force_exit_stale iterates over a snapshot of the held positions.
ActionsDone ==
    /\ At("actions") /\ queue = {}
    /\ pc' = "stale"
    /\ todo' = Held
    /\ UNCHANGED <<market, book, idx, queue, orders, trial, decision, daily,
                   rebalances, warnings>>

\* Mutant: the gap is counted in sessions instead of calendar days.
StaleBySessions(s) ==
    Cardinality({i \in 1 .. idx : Sessions[i] > LastPrint(market, s, today)}) > StaleExitDays

Stale(s) == /\ LastPrint(market, s, today) # None
            /\ today - LastPrint(market, s, today) > StaleExitDays

ForceExitStale ==
    /\ At("stale")
    /\ \E s \in todo :
          /\ todo' = todo \ {s}
          /\ IF Stale(s)
             THEN /\ book' = ResolveDelisting(
                                book, s, CloseOnOrBefore(market, s, today), today)
                  /\ warnings' = warnings \cup {Warning("forced_exit", s)}
             ELSE UNCHANGED <<book, warnings>>
    /\ UNCHANGED <<market, idx, pc, queue, orders, trial, decision, daily, rebalances>>

\* No rebalance today: straight to the mark.
NoRebalance ==
    /\ At("stale") /\ todo = {} /\ today \notin RebalanceDays
    /\ pc' = "mark"
    /\ UNCHANGED <<market, book, idx, queue, todo, orders, trial, decision, daily,
                   rebalances, warnings>>

(***************************************************************************)
(* The strategy call and the order difference at the head of _execute.     *)
(***************************************************************************)
Decide ==
    /\ At("stale") /\ todo = {} /\ today \in RebalanceDays
    /\ IF ~Markable
       THEN /\ book' = Raise(book)
            /\ UNCHANGED <<pc, todo, orders, decision>>
       ELSE /\ \E targets \in [Sids -> TargetShares] :
                  orders' = [s \in Sids |-> targets[s] - book.positions[s]]
            /\ decision' = [value |-> Value, before |-> Len(book.events)]
            /\ todo' = {s \in Sids : orders'[s] < 0}
            /\ pc' = "sell"
            /\ UNCHANGED book
    /\ UNCHANGED <<market, idx, queue, trial, daily, rebalances, warnings>>

SellProceeds(s) ==
    LET notional == market.close[s][today] * (-orders[s])
    IN  notional - Cost(s, "sell", notional, MedianTradedValue(market, s, today))

SellCosts(s) ==
    market.close[s][today] * (-orders[s]) - SellProceeds(s)

\* sell_net: zero for an order that will be skipped
SellNet(s) == IF PrintsToday(market, s, today) THEN SellProceeds(s) ELSE 0

\* Position in ordered_sells: larger net first, then security id.
SellsBefore(s, t) == \/ SellNet(s) > SellNet(t)
                     \/ SellNet(s) = SellNet(t) /\ s <= t

\* A sale whose costs exceed its proceeds by more than the cash at hand.
Dust(s) == book.cash + SellProceeds(s) < 0

NextSell(s) == s \in todo /\ \A t \in todo : SellsBefore(s, t)

SellOrder ==
    /\ At("sell")
    /\ \E s \in todo :
          /\ NextSell(s)
          /\ todo' = todo \ {s}
          /\ CASE ~PrintsToday(market, s, today) ->
                     /\ warnings' = warnings \cup {Warning("no_print", s)}
                     /\ UNCHANGED book
               [] PrintsToday(market, s, today) /\ Dust(s) ->
                     /\ warnings' = warnings \cup {Warning("dust_deferred", s)}
                     /\ UNCHANGED book
               [] OTHER ->
                     /\ book' = Sell(book, s, -orders[s], market.close[s][today],
                                     SellCosts(s), today)
                     /\ UNCHANGED warnings
    /\ UNCHANGED <<market, idx, pc, queue, orders, trial, decision, daily, rebalances>>

SellsDone ==
    /\ At("sell") /\ todo = {}
    /\ pc' = "buy"
    /\ todo' = {s \in Sids : orders[s] > 0}
    /\ UNCHANGED <<market, book, idx, queue, orders, trial, decision, daily,
                   rebalances, warnings>>

NextBuy(s) == s \in todo /\ \A t \in todo : s <= t

\* The next buy order: skipped without a print today, else sized.
BuyOrder ==
    /\ At("buy")
    /\ \E s \in todo :
          /\ NextBuy(s)
          /\ IF PrintsToday(market, s, today)
             THEN /\ pc' = "afford"
                  /\ trial' = orders[s]
                  /\ UNCHANGED <<todo, warnings>>
             ELSE /\ todo' = todo \ {s}
                  /\ warnings' = warnings \cup {Warning("no_print", s)}
                  /\ UNCHANGED <<pc, trial>>
    /\ UNCHANGED <<market, book, idx, queue, orders, decision, daily, rebalances>>

BuyCosts(s, shares) ==
    Cost(s, "buy", market.close[s][today] * shares, MedianTradedValue(market, s, today))

\* Mutant: the costs of the purchase are not reserved.
BuyTotalGross(s, shares) == market.close[s][today] * shares

BuyTotal(s, shares) == market.close[s][today] * shares + BuyCosts(s, shares)

\* Mutant: rounding up without the shares - 1.
ShrunkRoundingUp(shares, cash, total) == (shares * cash + total - 1) \div total

\* min(shares - 1, int(shares * cash / total))
Shrunk(shares, cash, total) ==
    LET proportional == (shares * cash) \div total
    IN  IF proportional < shares - 1 THEN proportional ELSE shares - 1

(***************************************************************************)
(* One round of the loop in _affordable_shares.                            *)
(***************************************************************************)
ShrinkOrder ==
    /\ At("afford") /\ trial > 0
    /\ \E s \in todo :
          /\ NextBuy(s)
          /\ BuyTotal(s, trial) > book.cash
          /\ trial' = Shrunk(trial, book.cash, BuyTotal(s, trial))
    /\ UNCHANGED <<market, book, idx, pc, queue, todo, orders, decision, daily,
                   rebalances, warnings>>

\* _affordable_shares returned: buy what it found, or nothing.
FillOrder ==
    /\ At("afford")
    /\ \E s \in todo :
          /\ NextBuy(s)
          /\ \/ /\ trial <= 0
                /\ UNCHANGED book
             \/ /\ trial > 0 /\ BuyTotal(s, trial) <= book.cash
                /\ book' = Buy(book, s, trial, market.close[s][today],
                               BuyCosts(s, trial), today)
          /\ todo' = todo \ {s}
    /\ pc' = "buy" /\ trial' = 0
    /\ UNCHANGED <<market, idx, queue, orders, decision, daily, rebalances,
                   warnings>>

\* Mutant: the sells are left out of the rebalance row.
IsBuy(e) == e.kind = "buy"

IsTrade(e) == e.kind \in {"buy", "sell"}

\* trade_events: indices of the fills logged since events_before
TradeEvents(events, before) == {i \in before + 1 .. Len(events) : IsTrade(events[i])}

\* abs(quantity) * price of a fill, from the cash and costs it booked
TradedValue(e) == (IF e.cash + e.costs < 0 THEN -(e.cash + e.costs) ELSE e.cash + e.costs)

(***************************************************************************)
(* The rebalance row, from the trade events the execution appended.        *)
(***************************************************************************)
BuysDone ==
    /\ At("buy") /\ todo = {}
    /\ pc' = "mark"
    /\ LET fills == TradeEvents(book.events, decision.before)
       IN  rebalances' = Append(rebalances,
              [on |-> today, trades |-> Cardinality(fills), value |-> decision.value,
               traded |-> SumFunction([i \in fills |-> TradedValue(book.events[i])]),
               costs |-> SumFunction([i \in fills |-> book.events[i].costs])])
    /\ UNCHANGED <<market, book, idx, queue, todo, orders, trial, decision, daily,
                   warnings>>

(***************************************************************************)
(* The end of the loop body: marks, the accounting identity, the daily     *)
(* row; then the next session or the end of the run.                       *)
(***************************************************************************)
MarkDay ==
    /\ At("mark")
    /\ IF Markable /\ Replays(book)
       THEN /\ daily' = Append(daily, [on |-> today, value |-> Value, cash |-> book.cash,
                                       positions |-> Cardinality(Held)])
            /\ UNCHANGED book
       ELSE /\ book' = Raise(book)
            /\ UNCHANGED daily
    /\ IF idx = Len(Sessions)
       THEN /\ pc' = "done"
            /\ UNCHANGED <<idx, queue>>
       ELSE /\ pc' = "actions"
            /\ idx' = idx + 1
            /\ queue' = ActionsOn(market, Sessions[idx + 1])
    /\ UNCHANGED <<market, todo, orders, trial, decision, rebalances, warnings>>

(***************************************************************************)
(* The run is over: every session was visited, or a LedgerError escaped.   *)
(***************************************************************************)
Over == pc = "done" \/ book.raised

Finished == Over /\ UNCHANGED vars

Init ==
    /\ market \in Markets
    /\ book = NewPortfolio(Start)
    /\ idx = 1
    /\ pc = "actions"
    /\ queue = ActionsOn(market, Sessions[1])
    /\ todo = {}
    /\ orders = [s \in Sids |-> 0]
    /\ trial = 0
    /\ decision = [value |-> 0, before |-> 0]
    /\ daily = <<>>
    /\ rebalances = <<>>
    /\ warnings = {}

Step == \/ ApplyAction \/ ActionsDone \/ ForceExitStale \/ NoRebalance \/ Decide
        \/ SellOrder \/ SellsDone \/ BuyOrder \/ ShrinkOrder \/ FillOrder
        \/ BuysDone \/ MarkDay

Next == Step \/ Finished

Spec == Init /\ [][Next]_vars

FairSpec == Spec /\ WF_vars(Step)

-----------------------------------------------------------------------------
(***************************************************************************)
(* The engine never dies of a LedgerError, whatever targets the strategy   *)
(* asks for and whatever the data: no ledger call goes short or overdraws, *)
(* every held position has a mark, and the log replays to the book at the  *)
(* end of every session (BacktestEngine.run, _execute).                    *)
(***************************************************************************)
NeverLedgerError == ~book.raised

(***************************************************************************)
(* No phantom positions (DEC-019): whenever the day is marked, every       *)
(* holding printed within the last StaleExitDays calendar days             *)
(* (BacktestEngine._force_exit_stale).                                     *)
(***************************************************************************)
NoPhantomPosition ==
    pc = "mark" => \A s \in Held : today - LastPrint(market, s, today) <= StaleExitDays

(***************************************************************************)
(* A dust sale is deferred only when the cash of ALL the day's other sells *)
(* could not absorb it: after the last sell, every deferred order is still *)
(* unaffordable (the order of ordered_sells in BacktestEngine._execute).   *)
(***************************************************************************)
DeferredOnlyIfUnaffordable ==
    (pc = "sell" /\ todo = {}) =>
        \A s \in Sids : Warning("dust_deferred", s) \in warnings
                           => book.cash + SellProceeds(s) < 0

(***************************************************************************)
(* Trading costs exactly what the rebalance row reports: the value marked  *)
(* after a rebalance is the pre-trade value less the row's costs, whatever *)
(* was sold, shrunk, deferred or skipped (BacktestEngine.run, CostModel).  *)
(***************************************************************************)
TradingLosesExactlyCosts ==
    (pc = "mark" /\ today \in RebalanceDays) =>
        LET row == rebalances[Len(rebalances)]
        IN  row.on = today /\ Value = row.value - row.costs

FromAction == {"dividend", "split", "cash_in_lieu", "delisting_proceeds",
               "delisting_writeoff"}

(***************************************************************************)
(* Nothing is applied before it is both due and known: every event that is *)
(* not a trade was booked for an action of that security whose ex-date and *)
(* availability are not later, or for a forced exit ("never                *)
(* retroactively", BacktestEngine._apply_actions).                         *)
(***************************************************************************)
OnlyKnowableActions ==
    \A i \in DOMAIN book.events :
        LET e == book.events[i]
        IN  e.kind \in FromAction =>
              \/ \E j \in DOMAIN market.actions :
                    LET a == market.actions[j]
                    IN  a.sid = e.sid /\ a.ex <= e.on /\ a.avail <= e.on
              \/ [on |-> e.on, kind |-> "forced_exit", sid |-> e.sid] \in warnings

Due(a) == Max({a.ex, a.avail})

\* The position replayed from the events dated before a day.
HeldBefore(s, day) ==
    SumOf([i \in 1 .. Len(book.events) |->
              IF book.events[i].sid = s /\ book.events[i].on < day
              THEN book.events[i].qty
              ELSE 0])

(***************************************************************************)
(* "a dividend the vendor published late credits on the knowledge date"    *)
(* (engine.py, module docstring): a dividend whose effective date falls in *)
(* the run, on a security held up to that date, has been credited by the   *)
(* end of the run.                                                         *)
(***************************************************************************)
EffectiveDividendsCredited ==
    (pc = "done" /\ ~book.raised) =>
        \A j \in DOMAIN market.actions :
            LET a == market.actions[j]
            IN  /\ a.kind = "dividend" /\ a.unit # "EUR"
                /\ Start <= Due(a) /\ Due(a) <= today
                /\ HeldBefore(a.sid, Due(a)) > 0
                => \E i \in DOMAIN book.events :
                      LET e == book.events[i]
                      IN  e.kind = "dividend" /\ e.sid = a.sid /\ e.on >= Due(a)

\* load_actions lists the dividends first, then the splits, then the delistings.
DividendsFirst(markets) ==
    \A m \in markets : \A j, k \in DOMAIN m.actions :
        m.actions[j].kind = "dividend" /\ m.actions[k].kind # "dividend" => j < k

\* No dividend of the run falls due, or becomes known, on a day without a session.
DueOnSessions(markets) ==
    \A m \in markets : \A j \in DOMAIN m.actions :
        LET a == m.actions[j]
        IN  a.kind = "dividend" /\ Start <= Due(a) /\ Due(a) <= Sessions[Len(Sessions)]
            => \E i \in DOMAIN Sessions : Sessions[i] = Due(a)

(***************************************************************************)
(* The ledger's unit is fine enough for what a share costs to be a whole   *)
(* number of it: the code's Decimals round nothing (trp/backtest/costs.py).*)
(***************************************************************************)
WholeCosts ==
    \A m \in Markets : \A s \in Sids : \A d \in Days :
        /\ \A rate \in {CommissionBps, StampBps, ImpactBps} :
              (m.close[s][d] * rate) % Bps = 0
        /\ (m.close[s][d] * SpreadBps) % (2 * Bps) = 0

\* The loop of _affordable_shares has settled on trial for s.
Settled(s) == /\ pc = "afford" /\ NextBuy(s)
              /\ trial <= 0 \/ BuyTotal(s, trial) <= book.cash

IsLargest(s) == \A n \in 1 .. orders[s] : BuyTotal(s, n) <= book.cash => n <= trial

(***************************************************************************)
(* "Largest whole-share count with notional + costs within cash", where a  *)
(* share costs no less in a larger order: without volume history impact is *)
(* proportional and the shrink of _affordable_shares does not overshoot,   *)
(* minimum commission included.  (With quadratic impact it can.)           *)
(***************************************************************************)
LargestAtConstantImpact ==
    \A s \in todo :
        Settled(s) /\ MedianTradedValue(market, s, today) = 0 => IsLargest(s)

(***************************************************************************)
(* A rebalance drops an order only when it cannot be paid for, shrinks one *)
(* no further than cash demands, and loses its costs and nothing else      *)
(* (_execute_rebalance, _affordable_shares).                               *)
(***************************************************************************)
RebalanceSettled ==
    DeferredOnlyIfUnaffordable /\ LargestAtConstantImpact /\ TradingLosesExactlyCosts

(***************************************************************************)
(* Every run ends: the loops over sessions, actions, holdings and orders   *)
(* finish, and so does the shrinking of an unaffordable order.             *)
(***************************************************************************)
Terminates == <>Over
=============================================================================
