--------------------------- MODULE BacktestProofs ---------------------------
(***************************************************************************)
(* The engine never raises a LedgerError and never marks a phantom         *)
(* position: for every dataset, calendar, cost configuration and strategy. *)
(***************************************************************************)
EXTENDS Backtest, PortfolioProofs

-----------------------------------------------------------------------------
\* Lookups over the market.

\* Every print of the market is a natural close and volume.
LEMMA CloseType ==
    ASSUME NEW m \in MarketType, NEW s \in Sids, NEW d \in Days
    PROVE  m.close[s][d] \in Nat /\ m.volume[s][d] \in Nat
  BY DEF MarketType

\* close_on_or_before finds a bar exactly when there is one, and no later one.
LEMMA LastPrintFound ==
    ASSUME NEW m \in MarketType, NEW s \in Sids, NEW day \in Days
    PROVE  /\ LastPrint(m, s, day) \in Nat
           /\ LastPrint(m, s, day) = None <=> Prints(m, s, day) = {}
           /\ LastPrint(m, s, day) # None => LastPrint(m, s, day) \in Prints(m, s, day)
<1> DEFINE P == Prints(m, s, day)
           latest == {d \in P : \A e \in P : e <= d}
<1>1. LastDay \in Nat /\ P \subseteq Days /\ \A d \in P : d \in Nat \ {0} /\ LastDay - d \in Nat
  BY MarketAssumption DEF Prints, Days
<1> HIDE DEF P
<1>2. P # {} => latest # {}
  <2> SUFFICES ASSUME P # {} PROVE latest # {}
    OBVIOUS
  <2> DEFINE T == {LastDay - d : d \in P}
  <2>1. T \subseteq Nat /\ T # {}
    BY <1>1
  <2>2. PICK x \in T : \A y \in T : x <= y
    BY <2>1, LeastNatural
  <2>3. PICK d \in P : x = LastDay - d
    BY <2>2
  <2>4. \A e \in P : LastDay - d <= LastDay - e
    BY <2>2, <2>3
  <2>5. d \in latest
    BY <1>1, <2>3, <2>4
  <2> QED BY <2>5
<1>3. LastPrint(m, s, day) = IF latest = {} THEN None ELSE CHOOSE d \in latest : TRUE
  BY DEF LastPrint, P
<1>4. latest # {} => LastPrint(m, s, day) \in latest
  BY <1>3
<1>5. latest = {} => LastPrint(m, s, day) = None /\ P = {}
  BY <1>2, <1>3
<1>6. latest # {} => /\ LastPrint(m, s, day) \in P /\ P # {}
                     /\ LastPrint(m, s, day) # None /\ LastPrint(m, s, day) \in Nat
  BY <1>1, <1>4 DEF None
<1> QED
  BY <1>5, <1>6 DEF P, None

\* close_on_or_before returns a natural price whenever the security has
\* printed by the day.
LEMMA CloseFound ==
    ASSUME NEW m \in MarketType, NEW s \in Sids, NEW day \in Days
    PROVE  CloseOnOrBefore(m, s, day) \in Nat
<1> DEFINE d == LastPrint(m, s, day)
<1>1. d # None => d \in Days
  BY LastPrintFound DEF Prints
<1> HIDE DEF d
<1>2. CloseOnOrBefore(m, s, day) = IF d = None THEN None ELSE m.close[s][d]
  BY DEF CloseOnOrBefore, d
<1> QED
  BY <1>1, <1>2, CloseType DEF None

\* The median traded value of the market data is a natural number.
LEMMA MedianType ==
    ASSUME NEW m \in MarketType, NEW s \in Sids, NEW day \in Days
    PROVE  MedianTradedValue(m, s, day) \in Nat
<1> DEFINE window == {d \in Prints(m, s, day) :
                        Cardinality({e \in Prints(m, s, day) : e > d}) < ImpactWindow}
           traded(d) == m.close[s][d] * m.volume[s][d]
           below(d) == Cardinality({e \in window : traded(e) < traded(d)})
           upTo(d) == Cardinality({e \in window : traded(e) <= traded(d)})
           atRank(k) == {d \in window : below(d) <= k /\ k < upTo(d)}
           low == atRank((Cardinality(window) - 1) \div 2)
           high == atRank(Cardinality(window) \div 2)
           x == traded(CHOOSE d \in low : TRUE)
           y == traded(CHOOSE d \in high : TRUE)
<1>1. window \subseteq Days
  BY DEF Prints
<1>2. \A d \in Days : traded(d) \in Nat
  BY CloseType, NatProduct
<1>3. low \subseteq window /\ high \subseteq window
  OBVIOUS
<1>4. MedianTradedValue(m, s, day) = IF low = {} \/ high = {} THEN None ELSE (x + y) \div 2
  BY DEF MedianTradedValue
<1> HIDE DEF window, low, high
<1>5. low # {} => x \in Nat
  <2> HIDE DEF traded
  <2> QED BY <1>1, <1>2, <1>3
<1>6. high # {} => y \in Nat
  <2> HIDE DEF traded
  <2> QED BY <1>1, <1>2, <1>3
<1> HIDE DEF x, y
<1>7. low # {} /\ high # {} => (x + y) \div 2 \in Nat
  BY <1>5, <1>6, NatQuotient
<1> QED
  BY <1>4, <1>7 DEF None

\* CostModel.cost never charges a negative amount.
LEMMA CostType ==
    ASSUME NEW s, NEW side, NEW notional \in Nat, NEW median \in Nat
    PROVE  Cost(s, side, notional, median) \in Nat
<1>1. Commission(notional) \in Nat
  <2>1. notional * CommissionBps \in Nat
    BY CostAssumption, NatProduct
  <2>2. (notional * CommissionBps) \div Bps \in Nat
    BY <2>1, CostAssumption, NatQuotient
  <2> QED BY <2>2, CostAssumption DEF Commission
<1>2. HalfSpread(notional) \in Nat
  <2>1. notional * SpreadBps \in Nat /\ 2 * Bps \in Nat \ {0}
    BY CostAssumption, NatProduct
  <2> QED BY <2>1, NatQuotient DEF HalfSpread
<1>3. StampDuty(s, side, notional) \in Nat
  <2>1. notional * StampBps \in Nat
    BY CostAssumption, NatProduct
  <2>2. (notional * StampBps) \div Bps \in Nat
    BY <2>1, CostAssumption, NatQuotient
  <2> QED BY <2>2 DEF StampDuty
<1>4. Impact(notional, median) \in Nat
  <2>1. notional * ImpactBps \in Nat
    BY CostAssumption, NatProduct
  <2>2. (notional * ImpactBps) \div Bps \in Nat
    BY <2>1, CostAssumption, NatQuotient
  <2>3. ASSUME median > 0
        PROVE  (notional * ImpactBps * notional) \div (Bps * median) \in Nat
    <3> DEFINE top == notional * ImpactBps
               n == top * notional
               d == Bps * median
    <3>1. n \in Nat
      <4> HIDE DEF top
      <4> QED BY <2>1, NatProduct DEF top
    <3>2. d \in Nat \ {0}
      BY <2>3, CostAssumption, Z3
    <3> HIDE DEF n, d
    <3>3. n \div d \in Nat
      BY <3>1, <3>2, NatQuotient
    <3> QED BY <3>3 DEF n, d
  <2> QED BY <2>2, <2>3 DEF Impact
<1> QED
  BY <1>1, <1>2, <1>3, <1>4 DEF Cost

-----------------------------------------------------------------------------
(***************************************************************************)
(* The inductive invariant.                                                *)
(***************************************************************************)
LoopInv == /\ market \in MarketType
           /\ idx \in 1 .. Len(Sessions)
           /\ pc \in Places
           /\ queue \subseteq DOMAIN market.actions
           /\ todo \subseteq Sids
           /\ orders \in [Sids -> Int]
           /\ trial \in Int

\* A holding has printed by today: what _marks relies on.
HeldPrinted == \A s \in Sids : book.positions[s] > 0 => Prints(market, s, today) # {}

\* A pending sell does not exceed the holding; a pending buy is a buy.
OrdersInv == /\ pc = "sell" => \A s \in todo : orders[s] < 0 /\ book.positions[s] + orders[s] >= 0
             /\ pc \in {"buy", "afford"} => \A s \in todo : orders[s] > 0
             /\ pc = "afford" => \A s \in todo : NextBuy(s) => PrintsToday(market, s, today)

Fresh(s) == today - LastPrint(market, s, today) <= StaleExitDays

\* Holdings not yet visited by the stale pass are the only ones that may be stale.
FreshInv == /\ pc = "stale" => \A s \in Held : s \in todo \/ Fresh(s)
            /\ pc \in {"sell", "buy", "afford", "mark"} => \A s \in Held : Fresh(s)

Inv == LoopInv /\ Sound(book) /\ HeldPrinted /\ OrdersInv /\ FreshInv

\* A session of the calendar is a day.
LEMMA TodayType ==
    ASSUME NEW i \in 1 .. Len(Sessions)
    PROVE  Sessions[i] \in Days /\ Sessions[i] \in Nat
  BY BacktestAssumption, MarketAssumption DEF Days

\* What the provers need of a sound book: natural cash and holdings.
LEMMA SoundBook ==
    ASSUME NEW b, Sound(b)
    PROVE  b.positions \in [Sids -> Int] /\ b.cash \in Nat /\ (\A s \in Sids : b.positions[s] \in Nat)
  BY DEF Sound, Books

\* A session's prints are prints of every later session.
LEMMA PrintsGrow ==
    ASSUME NEW m, NEW s, NEW d \in Days, NEW e \in Days, d <= e
    PROVE  Prints(m, s, d) \subseteq Prints(m, s, e)
  BY MarketAssumption DEF Prints, Days

\* _apply_actions: an action applied to a sound book leaves it sound and
\* opens no position.
LEMMA AppliedSound ==
    ASSUME Inv, NEW a \in Actions
    PROVE  Sound(AppliedTo(book, a)) /\ OpensNothing(book, AppliedTo(book, a))
<1> DEFINE close == CloseOnOrBefore(market, a.sid, today)
           cash == ToQuoteUnit(a.amount, a.unit)
<1>1. /\ a.sid \in Sids /\ a.new \in Nat \ {0} /\ a.old \in Nat \ {0} /\ a.amount \in Nat
      /\ today \in Days /\ today \in Nat
  BY TodayType DEF Inv, LoopInv, Actions, today
<1>2. close \in Nat
  BY <1>1, CloseFound DEF Inv, LoopInv
<1>3. cash # Unconvertible => cash \in Nat
  <2>1. a.amount * MinorUnits \in Nat
    BY <1>1, MarketAssumption, NatProduct
  <2> QED BY <1>1, <2>1 DEF ToQuoteUnit
<1>4. Sound(book) /\ OpensNothing(book, book)
  BY DEF Inv, OpensNothing
<1> HIDE DEF close, cash
<1>5. CASE a.kind = "split"
  <2>1. AppliedTo(book, a) =
          IF close = None THEN book ELSE ApplySplit(book, a.sid, a.new, a.old, close, today)
    BY <1>5 DEF AppliedTo, close
  <2> QED BY <1>1, <1>2, <1>4, <2>1, SplitSound
<1>6. CASE a.kind = "dividend"
  <2>1. AppliedTo(book, a) =
          IF cash = Unconvertible THEN book ELSE CreditDividend(book, a.sid, cash, today)
    BY <1>6 DEF AppliedTo, cash
  <2> QED BY <1>1, <1>3, <1>4, <2>1, DividendSound
<1>7. CASE a.kind = "merger"
  <2> DEFINE p == IF cash = Unconvertible THEN NoTerms ELSE cash
  <2>1. AppliedTo(book, a) =
          IF a.amount = None THEN book ELSE ResolveDelisting(book, a.sid, p, today)
    BY <1>7 DEF AppliedTo, cash
  <2>2. p \in Nat \cup {NoTerms}
    BY <1>3
  <2> HIDE DEF p
  <2> QED BY <1>1, <1>4, <2>1, <2>2, DelistingSound
<1>8. CASE a.kind = "delisting"
  <2> DEFINE p == CASE a.reason = "failure" -> 0
                    [] a.reason # "failure" /\ close # None -> close
                    [] OTHER -> NoTerms
  <2>1. AppliedTo(book, a) = ResolveDelisting(book, a.sid, p, today)
    BY <1>8 DEF AppliedTo, close
  <2>2. p \in Nat \cup {NoTerms}
    BY <1>2
  <2> HIDE DEF p
  <2> QED BY <1>1, <1>4, <2>1, <2>2, DelistingSound
<1>9. CASE a.kind \notin {"split", "dividend", "merger", "delisting"}
  <2>1. AppliedTo(book, a) = book
    BY <1>9 DEF AppliedTo
  <2> QED BY <1>4, <2>1
<1> QED
  BY <1>5, <1>6, <1>7, <1>8, <1>9

-----------------------------------------------------------------------------
\* One lemma per action.

\* The invariant holds when BacktestEngine.run starts.
LEMMA InitInv == Init => Inv
<1> SUFFICES ASSUME Init PROVE Inv
  OBVIOUS
<1>1. market \in MarketType
  BY BacktestAssumption DEF Init
<1>2. Len(Sessions) \in Nat /\ 1 \in 1 .. Len(Sessions)
  BY BacktestAssumption
<1>3. Sound(book)
  BY BacktestAssumption, MarketAssumption, NewPortfolioSound DEF Init, Days
<1>4. \A s \in Sids : book.positions[s] = 0
  BY DEF Init, NewPortfolio
<1>5. LoopInv
  BY <1>1, <1>2 DEF Init, LoopInv, Places, ActionsOn
<1> QED
  BY <1>3, <1>4, <1>5 DEF Inv, HeldPrinted, OrdersInv, FreshInv, Init

\* One corporate action of the session keeps the invariant.
LEMMA ApplyActionInv == Inv /\ ApplyAction => Inv'
<1> SUFFICES ASSUME Inv, ApplyAction PROVE Inv'
  OBVIOUS
<1>1. PICK j \in queue : book' = AppliedTo(book, market.actions[j]) /\ queue' = queue \ {j}
  BY DEF ApplyAction
<1>2. market.actions[j] \in Actions
  <2>1. market.actions \in Seq(Actions) /\ j \in DOMAIN market.actions
    BY <1>1 DEF Inv, LoopInv, MarketType
  <2> QED BY <2>1
<1>3. Sound(book') /\ OpensNothing(book, book')
  BY <1>1, <1>2, AppliedSound
<1>4. /\ UNCHANGED <<market, idx, pc, todo, orders, trial>> /\ pc = "actions"
      /\ today' = today
  BY DEF ApplyAction, At, today
<1>5. LoopInv'
  BY <1>1, <1>4 DEF Inv, LoopInv
<1>6. HeldPrinted'
  BY <1>3, <1>4 DEF Inv, HeldPrinted, OpensNothing, Prints
<1> QED
  BY <1>3, <1>4, <1>5, <1>6 DEF Inv, OrdersInv, FreshInv, Sound

\* Leaving the actions of the session for the stale check keeps the
\* invariant.
LEMMA ActionsDoneInv == Inv /\ ActionsDone => Inv'
<1> SUFFICES ASSUME Inv, ActionsDone PROVE Inv'
  OBVIOUS
<1>1. UNCHANGED <<market, book, idx, queue, orders, trial>> /\ pc' = "stale" /\ todo' = Held
      /\ today' = today /\ Held' = Held
  BY DEF ActionsDone, today, Held
<1>2. LoopInv'
  BY <1>1 DEF Inv, LoopInv, Held, Places
<1>3. HeldPrinted' /\ Sound(book)'
  BY <1>1 DEF Inv, HeldPrinted, Prints, Sound, Replays
<1>4. OrdersInv' /\ FreshInv'
  BY <1>1 DEF OrdersInv, FreshInv
<1> QED
  BY <1>2, <1>3, <1>4 DEF Inv

\* The typing facts every step uses.
LEMMA InvTypes ==
    ASSUME Inv
    PROVE  /\ market \in MarketType /\ today \in Days /\ today \in Nat
           /\ book.positions \in [Sids -> Int] /\ book.cash \in Nat
           /\ \A s \in Sids : book.positions[s] \in Nat
           /\ Held \subseteq Sids /\ StaleExitDays \in Nat
<1>1. Sound(book) /\ market \in MarketType /\ idx \in 1 .. Len(Sessions)
  BY DEF Inv, LoopInv
<1> QED
  BY <1>1, TodayType, SoundBook, BacktestAssumption DEF today, Held

\* Every holding has a mark: what BacktestEngine._marks requires.
LEMMA HoldingsMarkable ==
    ASSUME Inv
    PROVE  Markable
  BY InvTypes, LastPrintFound DEF Inv, HeldPrinted, Markable, Held

\* _force_exit_stale keeps the invariant: it sells whole held positions
\* free of cost.
LEMMA ForceExitStaleInv == Inv /\ ForceExitStale => Inv'
<1> SUFFICES ASSUME Inv, ForceExitStale PROVE Inv'
  OBVIOUS
<1>1. PICK s \in todo :
        /\ todo' = todo \ {s}
        /\ IF Stale(s)
           THEN book' = ResolveDelisting(book, s, CloseOnOrBefore(market, s, today), today)
           ELSE UNCHANGED book
  BY DEF ForceExitStale
<1>2. /\ UNCHANGED <<market, idx, pc, queue, orders, trial>> /\ pc = "stale" /\ today' = today
      /\ s \in Sids
  BY <1>1 DEF ForceExitStale, At, today, Inv, LoopInv
<1>3. /\ Sound(book') /\ OpensNothing(book, book')
      /\ Stale(s) => book'.positions[s] = 0
  <2>1. CASE Stale(s)
    <3>1. CloseOnOrBefore(market, s, today) \in Nat
      BY <1>2, InvTypes, CloseFound
    <3> DEFINE close == CloseOnOrBefore(market, s, today)
    <3>2. book' = ResolveDelisting(book, s, close, today) /\ Sound(book)
      BY <1>1, <2>1 DEF Inv
    <3> HIDE DEF close
    <3> QED BY <1>2, <3>1, <3>2, InvTypes, DelistingSound DEF close
  <2>2. CASE ~Stale(s)
    BY <1>1, <2>2 DEF Inv, OpensNothing
  <2> QED BY <2>1, <2>2
<1>4. LoopInv'
  BY <1>1, <1>2 DEF Inv, LoopInv
<1>5. HeldPrinted'
  BY <1>2, <1>3 DEF Inv, HeldPrinted, OpensNothing, Prints
<1>6. FreshInv'
  <2> SUFFICES ASSUME NEW t \in Sids, book'.positions[t] > 0, t \notin todo'
               PROVE  Fresh(t)
    BY <1>2 DEF FreshInv, Held, Fresh, LastPrint, Prints
  <2>1. t \in Held
    BY <1>3 DEF Held, OpensNothing
  <2>2. CASE t # s
    BY <1>1, <1>2, <2>1, <2>2 DEF Inv, FreshInv
  <2>3. CASE t = s
    <3>1. ~Stale(s) /\ LastPrint(market, s, today) # None
      BY <1>3, <2>1, <2>3, HoldingsMarkable DEF Markable
    <3>2. LastPrint(market, s, today) \in Nat
      BY <1>2, InvTypes, LastPrintFound
    <3> QED BY <2>3, <3>1, <3>2, InvTypes DEF Stale, Fresh
  <2> QED BY <2>2, <2>3
<1> QED
  BY <1>2, <1>3, <1>4, <1>5, <1>6 DEF Inv, OrdersInv

\* A session without a rebalance keeps the invariant.
LEMMA NoRebalanceInv == Inv /\ NoRebalance => Inv'
<1> SUFFICES ASSUME Inv, NoRebalance PROVE Inv'
  OBVIOUS
<1>1. /\ UNCHANGED <<market, book, idx, queue, todo, orders, trial>>
      /\ pc = "stale" /\ pc' = "mark" /\ todo = {} /\ today' = today /\ Held' = Held
  BY DEF NoRebalance, At, today, Held
<1>2. LoopInv'
  BY <1>1 DEF Inv, LoopInv, Places
<1>3. HeldPrinted' /\ Sound(book)'
  BY <1>1 DEF Inv, HeldPrinted, Prints, Sound, Replays
<1>4. OrdersInv' /\ FreshInv'
  BY <1>1 DEF Inv, OrdersInv, FreshInv, Fresh, LastPrint, Prints
<1> QED
  BY <1>2, <1>3, <1>4 DEF Inv

\* The rebalance decision keeps the invariant: the targets become sells and
\* buys of listed securities.
LEMMA DecideInv == Inv /\ Decide => Inv'
<1> SUFFICES ASSUME Inv, Decide PROVE Inv'
  OBVIOUS
<1>1. PICK targets \in [Sids -> TargetShares] :
        orders' = [s \in Sids |-> targets[s] - book.positions[s]]
  BY HoldingsMarkable DEF Decide
<1>2. /\ UNCHANGED <<market, book, idx, queue, trial>>
      /\ pc = "stale" /\ todo = {} /\ pc' = "sell" /\ todo' = {s \in Sids : orders'[s] < 0}
      /\ today' = today /\ Held' = Held
  BY HoldingsMarkable DEF Decide, At, today, Held
<1>3. \A s \in Sids : targets[s] \in Nat /\ book.positions[s] \in Nat
                      /\ orders'[s] = targets[s] - book.positions[s]
  BY <1>1, InvTypes, BacktestAssumption
<1>4. LoopInv'
  BY <1>1, <1>2, <1>3 DEF Inv, LoopInv, Places
<1>5. HeldPrinted' /\ Sound(book)'
  BY <1>2 DEF Inv, HeldPrinted, Prints, Sound, Replays
<1>6. OrdersInv'
  BY <1>2, <1>3 DEF OrdersInv
<1>7. FreshInv'
  BY <1>2 DEF Inv, FreshInv, Fresh, LastPrint, Prints
<1> QED
  BY <1>4, <1>5, <1>6, <1>7 DEF Inv

\* A sale nets its notional less its costs, which CostModel keeps non-negative.
LEMMA SellAmounts ==
    ASSUME Inv, NEW s \in Sids, orders[s] \in Int, orders[s] < 0
    PROVE  /\ market.close[s][today] \in Nat /\ SellCosts(s) \in Nat
           /\ SellProceeds(s) = market.close[s][today] * (-orders[s]) - SellCosts(s)
<1> DEFINE close == market.close[s][today]
           shares == -orders[s]
           notional == close * shares
           median == MedianTradedValue(market, s, today)
           cost == Cost(s, "sell", notional, median)
<1>1. close \in Nat /\ shares \in Nat
  BY InvTypes, CloseType
<1> HIDE DEF close, shares
<1>2. notional \in Nat
  BY <1>1, NatProduct
<1>3. median \in Nat
  BY InvTypes, MedianType
<1> HIDE DEF notional, median
<1>4. cost \in Nat
  BY <1>2, <1>3, CostType
<1> HIDE DEF cost
<1>5. SellProceeds(s) = notional - cost
  BY DEF SellProceeds, notional, cost, median, close, shares
<1>6. SellCosts(s) = notional - SellProceeds(s)
  BY DEF SellCosts, notional, close, shares
<1>7. SellCosts(s) = cost /\ SellProceeds(s) = notional - SellCosts(s)
  BY <1>2, <1>4, <1>5, <1>6
<1> QED
  BY <1>1, <1>4, <1>7 DEF notional, close, shares

\* A sell of _execute keeps the invariant: it is sold, deferred or missed.
LEMMA SellOrderInv == Inv /\ SellOrder => Inv'
<1> SUFFICES ASSUME Inv, SellOrder PROVE Inv'
  OBVIOUS
<1>1. PICK s \in todo :
        /\ todo' = todo \ {s}
        /\ \/ UNCHANGED book
           \/ /\ ~Dust(s)
              /\ book' = Sell(book, s, -orders[s], market.close[s][today], SellCosts(s), today)
  BY DEF SellOrder
<1>2. /\ UNCHANGED <<market, idx, pc, queue, orders, trial>> /\ pc = "sell" /\ today' = today
      /\ s \in Sids /\ orders \in [Sids -> Int] /\ todo \subseteq Sids
      /\ orders[s] < 0 /\ book.positions[s] + orders[s] >= 0
  BY <1>1 DEF SellOrder, At, today, Inv, LoopInv, OrdersInv
<1>3. /\ Sound(book') /\ OpensNothing(book, book')
      /\ \A t \in Sids \ {s} : book'.positions[t] = book.positions[t]
  <2>1. CASE UNCHANGED book
    BY <2>1 DEF Inv, OpensNothing
  <2>2. CASE /\ ~Dust(s)
             /\ book' = Sell(book, s, -orders[s], market.close[s][today], SellCosts(s), today)
    <3> DEFINE shares == -orders[s]
               price == market.close[s][today]
               costs == SellCosts(s)
    <3>1. shares \in Nat \ {0} /\ shares <= book.positions[s]
      BY <1>2, InvTypes
    <3>2. price \in Nat /\ costs \in Nat /\ SellProceeds(s) = price * shares - costs
      BY <1>2, SellAmounts
    <3>3. book' = Sell(book, s, shares, price, costs, today)
      BY <2>2
    <3> HIDE DEF shares, price, costs
    <3>4. price * shares \in Nat
      BY <3>1, <3>2, NatProduct
    <3>5. book.cash + (price * shares - costs) >= 0
      BY <2>2, <3>2, <3>4, InvTypes DEF Dust
    <3>6. Sound(book) /\ today \in Nat
      BY InvTypes DEF Inv
    <3> QED BY <1>2, <3>1, <3>2, <3>3, <3>5, <3>6, SellSound
  <2> QED BY <1>1, <2>1, <2>2
<1>4. LoopInv'
  BY <1>1, <1>2 DEF Inv, LoopInv
<1>5. HeldPrinted'
  BY <1>2, <1>3 DEF Inv, HeldPrinted, OpensNothing, Prints
<1>6. OrdersInv'
  BY <1>1, <1>2, <1>3 DEF Inv, OrdersInv
<1>7. FreshInv'
  <2>1. \A t \in Held' : t \in Held
    BY <1>3 DEF Held, OpensNothing
  <2> QED BY <1>2, <2>1 DEF Inv, FreshInv, Fresh, LastPrint, Prints
<1> QED
  BY <1>3, <1>4, <1>5, <1>6, <1>7 DEF Inv

\* Going from the sells of _execute to its buys keeps the invariant.
LEMMA SellsDoneInv == Inv /\ SellsDone => Inv'
<1> SUFFICES ASSUME Inv, SellsDone PROVE Inv'
  OBVIOUS
<1>1. /\ UNCHANGED <<market, book, idx, queue, orders, trial>>
      /\ pc = "sell" /\ pc' = "buy" /\ todo' = {s \in Sids : orders[s] > 0}
      /\ today' = today /\ Held' = Held
  BY DEF SellsDone, At, today, Held
<1>2. LoopInv'
  BY <1>1 DEF Inv, LoopInv, Places
<1>3. HeldPrinted' /\ Sound(book)'
  BY <1>1 DEF Inv, HeldPrinted, Prints, Sound, Replays
<1>4. OrdersInv' /\ FreshInv'
  BY <1>1 DEF Inv, OrdersInv, FreshInv, Fresh, LastPrint, Prints
<1> QED
  BY <1>2, <1>3, <1>4 DEF Inv

\* Sizing a buy of _execute keeps the invariant.
LEMMA BuyOrderInv == Inv /\ BuyOrder => Inv'
<1> SUFFICES ASSUME Inv, BuyOrder PROVE Inv'
  OBVIOUS
<1>1. PICK s \in todo :
        /\ NextBuy(s)
        /\ \/ /\ PrintsToday(market, s, today) /\ pc' = "afford" /\ trial' = orders[s]
              /\ todo' = todo
           \/ pc' = pc /\ trial' = trial /\ todo' = todo \ {s}
  BY DEF BuyOrder
<1>2. /\ UNCHANGED <<market, book, idx, queue, orders>> /\ pc = "buy"
      /\ today' = today /\ Held' = Held
      /\ s \in Sids /\ todo \subseteq Sids /\ orders \in [Sids -> Int]
  BY <1>1 DEF BuyOrder, At, today, Held, Inv, LoopInv
<1>3. LoopInv'
  BY <1>1, <1>2 DEF Inv, LoopInv, Places
<1>4. HeldPrinted' /\ Sound(book)'
  BY <1>2 DEF Inv, HeldPrinted, Prints, Sound, Replays
<1>5. FreshInv'
  BY <1>1, <1>2 DEF Inv, FreshInv, Fresh, LastPrint, Prints
<1>6. OrdersInv'
  <2>1. \A t \in todo' : orders'[t] > 0
    BY <1>1, <1>2 DEF Inv, OrdersInv
  <2>2. pc' = "afford" => \A t \in todo : (\A u \in todo : t <= u) => t = s
    <3>1. \A t, u \in Sids : t <= u /\ u <= t => t = u
      BY SidsAssumption
    <3> QED BY <1>1, <1>2, <3>1 DEF NextBuy
  <2>3. pc' = "afford" => /\ todo' = todo /\ PrintsToday(market, s, today)'
    BY <1>1, <1>2 DEF PrintsToday, LastPrint, Prints
  <2>4. pc' = "afford" => \A t \in todo' : NextBuy(t)' => PrintsToday(market, t, today)'
    BY <2>2, <2>3 DEF NextBuy
  <2> QED BY <1>1, <1>2, <2>1, <2>4 DEF OrdersInv
<1> QED
  BY <1>3, <1>4, <1>5, <1>6 DEF Inv

\* What a purchase of a positive number of shares takes out of the cash.
LEMMA BuyAmounts ==
    ASSUME Inv, NEW s \in Sids, NEW shares \in Nat
    PROVE  /\ market.close[s][today] \in Nat /\ BuyCosts(s, shares) \in Nat
           /\ BuyTotal(s, shares) = market.close[s][today] * shares + BuyCosts(s, shares)
           /\ BuyTotal(s, shares) \in Nat
<1> DEFINE close == market.close[s][today]
           notional == close * shares
           median == MedianTradedValue(market, s, today)
           cost == Cost(s, "buy", notional, median)
<1>1. close \in Nat
  BY InvTypes, CloseType
<1> HIDE DEF close
<1>2. notional \in Nat
  BY <1>1, NatProduct
<1>3. median \in Nat
  BY InvTypes, MedianType
<1> HIDE DEF notional, median
<1>4. cost \in Nat
  BY <1>2, <1>3, CostType
<1> HIDE DEF cost
<1>5. BuyCosts(s, shares) = cost
  BY DEF BuyCosts, notional, cost, median, close
<1>6. BuyTotal(s, shares) = notional + BuyCosts(s, shares)
  BY DEF BuyTotal, notional, close
<1> QED
  BY <1>1, <1>2, <1>4, <1>5, <1>6 DEF notional, close

\* One round of _affordable_shares keeps the invariant.
LEMMA ShrinkOrderInv == Inv /\ ShrinkOrder => Inv'
<1> SUFFICES ASSUME Inv, ShrinkOrder PROVE Inv'
  OBVIOUS
<1>1. PICK s \in todo :
        /\ BuyTotal(s, trial) > book.cash
        /\ trial' = Shrunk(trial, book.cash, BuyTotal(s, trial))
  BY DEF ShrinkOrder
<1>2. /\ UNCHANGED <<market, book, idx, pc, queue, todo, orders>> /\ pc = "afford"
      /\ today' = today /\ Held' = Held /\ s \in Sids /\ trial \in Nat \ {0}
  BY <1>1 DEF ShrinkOrder, At, today, Held, Inv, LoopInv
<1>3. trial' \in Int
  <2> DEFINE total == BuyTotal(s, trial)
             cash == book.cash
             share == (trial * cash) \div total
  <2>1. cash \in Nat /\ total \in Nat \ {0}
    BY <1>1, <1>2, InvTypes, BuyAmounts
  <2> HIDE DEF total, cash
  <2>2. trial * cash \in Nat
    BY <1>2, <2>1, NatProduct
  <2>3. share \in Nat
    BY <2>1, <2>2, NatQuotient
  <2>4. trial' = IF share < trial - 1 THEN share ELSE trial - 1
    BY <1>1 DEF Shrunk, total, cash
  <2> HIDE DEF share
  <2> QED BY <1>2, <2>3, <2>4
<1>4. LoopInv'
  BY <1>2, <1>3 DEF Inv, LoopInv
<1>5. HeldPrinted' /\ Sound(book)'
  BY <1>2 DEF Inv, HeldPrinted, Prints, Sound, Replays
<1>6. OrdersInv' /\ FreshInv'
  BY <1>2 DEF Inv, OrdersInv, NextBuy, FreshInv, Fresh, PrintsToday, LastPrint, Prints
<1> QED
  BY <1>4, <1>5, <1>6 DEF Inv

\* A filled buy keeps the invariant: _affordable_shares has bounded it by
\* the cash.
LEMMA FillOrderInv == Inv /\ FillOrder => Inv'
<1> SUFFICES ASSUME Inv, FillOrder PROVE Inv'
  OBVIOUS
<1>1. PICK s \in todo :
        /\ NextBuy(s) /\ todo' = todo \ {s}
        /\ \/ UNCHANGED book
           \/ /\ trial > 0 /\ BuyTotal(s, trial) <= book.cash
              /\ book' = Buy(book, s, trial, market.close[s][today], BuyCosts(s, trial), today)
  BY DEF FillOrder
<1>2. /\ UNCHANGED <<market, idx, queue, orders>> /\ pc = "afford" /\ pc' = "buy"
      /\ trial' = 0 /\ today' = today /\ s \in Sids /\ todo \subseteq Sids /\ trial \in Int
      /\ PrintsToday(market, s, today)
  BY <1>1 DEF FillOrder, At, today, Inv, LoopInv, OrdersInv
<1>3. /\ Sound(book')
      /\ \A t \in Sids \ {s} : book'.positions[t] = book.positions[t]
  <2>1. CASE UNCHANGED book
    BY <2>1 DEF Inv
  <2>2. CASE /\ trial > 0 /\ BuyTotal(s, trial) <= book.cash
             /\ book' = Buy(book, s, trial, market.close[s][today], BuyCosts(s, trial), today)
    <3> DEFINE price == market.close[s][today]
               costs == BuyCosts(s, trial)
    <3>1. trial \in Nat \ {0}
      BY <1>2, <2>2
    <3>2. price \in Nat /\ costs \in Nat /\ BuyTotal(s, trial) = price * trial + costs
      BY <1>2, <3>1, BuyAmounts
    <3>3. book' = Buy(book, s, trial, price, costs, today)
      BY <2>2
    <3> HIDE DEF price, costs
    <3>4. price * trial + costs <= book.cash
      BY <2>2, <3>2
    <3>5. Sound(book) /\ today \in Nat
      BY InvTypes DEF Inv
    <3> QED BY <1>2, <3>1, <3>2, <3>3, <3>4, <3>5, BuySound
  <2> QED BY <1>1, <2>1, <2>2
<1>4. Prints(market, s, today) # {} /\ Fresh(s)
  <2>1. LastPrint(market, s, today) = today /\ today # None
    BY <1>2, InvTypes DEF PrintsToday, Days, None
  <2> QED BY <1>2, <2>1, InvTypes, LastPrintFound DEF Fresh
<1>5. LoopInv'
  BY <1>1, <1>2 DEF Inv, LoopInv, Places
<1>6. HeldPrinted'
  BY <1>2, <1>3, <1>4 DEF Inv, HeldPrinted, Prints
<1>7. OrdersInv'
  BY <1>1, <1>2 DEF Inv, OrdersInv
<1>8. FreshInv'
  <2>1. \A t \in Held' : t = s \/ t \in Held
    BY <1>3 DEF Held
  <2>2. \A t \in Held' : Fresh(t)
    BY <1>2, <1>4, <2>1 DEF Inv, FreshInv
  <2> QED BY <1>2, <2>2 DEF FreshInv, Fresh, LastPrint, Prints
<1> QED
  BY <1>3, <1>5, <1>6, <1>7, <1>8 DEF Inv

\* The end of _execute keeps the invariant.
LEMMA BuysDoneInv == Inv /\ BuysDone => Inv'
<1> SUFFICES ASSUME Inv, BuysDone PROVE Inv'
  OBVIOUS
<1>1. /\ UNCHANGED <<market, book, idx, queue, todo, orders, trial>>
      /\ pc = "buy" /\ pc' = "mark" /\ today' = today /\ Held' = Held
  BY DEF BuysDone, At, today, Held
<1>2. LoopInv'
  BY <1>1 DEF Inv, LoopInv, Places
<1>3. HeldPrinted' /\ Sound(book)'
  BY <1>1 DEF Inv, HeldPrinted, Prints, Sound, Replays
<1>4. OrdersInv' /\ FreshInv'
  BY <1>1 DEF Inv, OrdersInv, FreshInv, Fresh, LastPrint, Prints
<1> QED
  BY <1>2, <1>3, <1>4 DEF Inv

\* The daily mark keeps the invariant.
LEMMA MarkDayInv == Inv /\ MarkDay => Inv'
<1> SUFFICES ASSUME Inv, MarkDay PROVE Inv'
  OBVIOUS
<1>1. Markable /\ Replays(book)
  BY HoldingsMarkable DEF Inv, Sound
<1>2. /\ UNCHANGED <<market, book, todo, orders, trial>> /\ pc' \in {"done", "actions"}
      /\ \/ idx' = idx /\ queue' = queue
         \/ /\ idx # Len(Sessions) /\ idx' = idx + 1
            /\ queue' = ActionsOn(market, Sessions[idx + 1])
  BY <1>1 DEF MarkDay
<1>3. idx' \in 1 .. Len(Sessions) /\ today <= today' /\ today \in Days /\ today' \in Days
  <2>1. Len(Sessions) \in Nat /\ idx \in 1 .. Len(Sessions)
    BY BacktestAssumption DEF Inv, LoopInv
  <2>2. idx' \in 1 .. Len(Sessions) /\ (idx' = idx \/ idx < idx')
    BY <1>2, <2>1
  <2>3. Sessions[idx] \in Nat /\ Sessions[idx'] \in Nat
        /\ Sessions[idx] \in Days /\ Sessions[idx'] \in Days
    BY <2>1, <2>2, TodayType
  <2>4. Sessions[idx] <= Sessions[idx']
    BY <2>1, <2>2, <2>3, BacktestAssumption
  <2> QED BY <2>2, <2>3, <2>4 DEF today
<1>4. LoopInv'
  BY <1>2, <1>3 DEF Inv, LoopInv, Places, ActionsOn
<1>5. HeldPrinted'
  <2>1. \A s \in Sids : Prints(market, s, today) \subseteq Prints(market, s, today')
    BY <1>3, PrintsGrow
  <2>2. \A s \in Sids : Prints(market, s, today)' = Prints(market, s, today')
    BY <1>2 DEF Prints
  <2> QED BY <1>2, <2>1, <2>2 DEF Inv, HeldPrinted
<1>6. Sound(book)' /\ OrdersInv' /\ FreshInv'
  BY <1>2 DEF Inv, Sound, Replays, OrdersInv, FreshInv
<1> QED
  BY <1>4, <1>5, <1>6 DEF Inv

\* Stuttering, and the self-loop of a run that is over, change nothing.
LEMMA StutterInv == Inv /\ UNCHANGED vars => Inv'
<1> SUFFICES ASSUME Inv, UNCHANGED vars PROVE Inv'
  OBVIOUS
<1>1. UNCHANGED <<market, book, idx, pc, queue, todo, orders, trial>>
      /\ today' = today /\ Held' = Held
  BY DEF vars, today, Held
<1>2. LoopInv'
  BY <1>1 DEF Inv, LoopInv
<1>3. HeldPrinted' /\ Sound(book)'
  BY <1>1 DEF Inv, HeldPrinted, Prints, Sound, Replays
<1>4. OrdersInv' /\ FreshInv'
  BY <1>1 DEF Inv, OrdersInv, NextBuy, FreshInv, Fresh, PrintsToday, LastPrint, Prints
<1> QED
  BY <1>2, <1>3, <1>4 DEF Inv

\* Every step of the loop preserves the invariant.
LEMMA NextInv == Inv /\ [Next]_vars => Inv'
  BY ApplyActionInv, ActionsDoneInv, ForceExitStaleInv, NoRebalanceInv, DecideInv,
     SellOrderInv, SellsDoneInv, BuyOrderInv, ShrinkOrderInv, FillOrderInv, BuysDoneInv,
     MarkDayInv, StutterInv
     DEF Next, Step, Finished

\* The invariant holds throughout every run of the engine.
LEMMA Invariance == Spec => []Inv
  BY InitInv, NextInv, PTL DEF Spec

(***************************************************************************)
(* For every dataset, calendar, cost configuration and strategy, no call   *)
(* the engine makes on its ledger raises, every holding can be marked and  *)
(* the accounting identity holds at the end of every session: the checks   *)
(* in Portfolio._record, BacktestEngine._marks and BacktestEngine.run are  *)
(* never the reason a backtest dies.                                       *)
(***************************************************************************)
THEOREM EngineNeverRaises == Spec => []NeverLedgerError
<1>1. Inv => NeverLedgerError
  BY DEF Inv, Sound, NeverLedgerError
<1> QED
  BY Invariance, <1>1, PTL

(***************************************************************************)
(* For every dataset and strategy, a holding that reaches the day's mark   *)
(* printed within StaleExitDays calendar days: the pass of                 *)
(* _force_exit_stale is never undone by the trades that follow it.         *)
(***************************************************************************)
THEOREM NoPhantom == Spec => []NoPhantomPosition
<1>1. Inv => NoPhantomPosition
  BY DEF Inv, FreshInv, Fresh, NoPhantomPosition
<1> QED
  BY Invariance, <1>1, PTL

-----------------------------------------------------------------------------
(***************************************************************************)
(* What the ledger operations log.                                         *)
(***************************************************************************)

\* Of the events of c that b does not have, those booked for an action or
\* an exit are dated on and name s.
LogsOnly(b, c, s, on) ==
    \A i \in DOMAIN c.events :
        \/ i \in DOMAIN b.events /\ c.events[i] = b.events[i]
        \/ c.events[i].kind \notin FromAction
        \/ c.events[i].sid = s /\ c.events[i].on = on

\* The events of c that b does not have were booked for trades.
LogsTrades(b, c) ==
    \A i \in DOMAIN c.events :
        \/ i \in DOMAIN b.events /\ c.events[i] = b.events[i]
        \/ c.events[i].kind \notin FromAction

\* Portfolio._record logs the event or nothing.
LEMMA RecordLogs ==
    ASSUME NEW b \in Books, NEW e, Recordable(e)
    PROVE  /\ Record(b, e).events \in {b.events, Append(b.events, e)}
           /\ LogsOnly(b, Record(b, e), e.sid, e.on)
           /\ e.kind \notin FromAction => LogsTrades(b, Record(b, e))
<1>1. Record(b, e).events \in {b.events, Append(b.events, e)}
  BY DEF Record, Books
<1>2. b.events \in Seq(LedgerEvents)
  BY DEF Books
<1>3. \A i \in DOMAIN Append(b.events, e) :
         \/ i \in DOMAIN b.events /\ Append(b.events, e)[i] = b.events[i]
         \/ Append(b.events, e)[i] = e
  BY <1>2
<1>4. \A i \in DOMAIN Record(b, e).events :
         \/ i \in DOMAIN b.events /\ Record(b, e).events[i] = b.events[i]
         \/ Record(b, e).events[i] = e
  <2>1. CASE Record(b, e).events = b.events
    BY <2>1
  <2>2. CASE Record(b, e).events = Append(b.events, e)
    BY <1>3, <2>2
  <2> QED BY <1>1, <2>1, <2>2
<1> QED
  BY <1>1, <1>4 DEF LogsOnly, LogsTrades

\* Two operations on the same security and day log what one may.
LEMMA LogsTwice ==
    ASSUME NEW b, NEW c, NEW d, NEW s, NEW on, LogsOnly(b, c, s, on), LogsOnly(c, d, s, on)
    PROVE  LogsOnly(b, d, s, on)
  BY DEF LogsOnly

\* What a ledger records of s on a day
EventsOf(s, on) == {e \in LedgerEvents : e.sid = s /\ e.on = on}

\* c is b with at most two more of these events recorded.
Records(b, c, E) ==
    \/ c = b
    \/ \E e \in E : c = Record(b, e)
    \/ \E e, f \in E : c = Record(Record(b, e), f)

\* A corporate action records at most two events, of its security and of today,
\* and a dividend moves no shares.
LEMMA ActionRecords ==
    ASSUME NEW b \in Books, NEW s \in Sids, NEW on \in Nat, b.positions[s] \in Nat
    PROVE  /\ \A perShare \in Nat :
                 Records(b, CreditDividend(b, s, perShare, on), {e \in EventsOf(s, on) : e.qty = 0})
           /\ \A proceeds \in Nat \cup {NoTerms} :
                 Records(b, ResolveDelisting(b, s, proceeds, on), EventsOf(s, on))
           /\ \A new, old \in Nat \ {0} : \A mark \in Nat :
                 Records(b, ApplySplit(b, s, new, old, mark, on), EventsOf(s, on))
<1>1. ASSUME NEW kind \in Kinds, NEW qty \in Int, NEW amount \in Int
      PROVE  Event(on, kind, s, qty, amount, 0) \in EventsOf(s, on)
  <2>1. Event(on, kind, s, qty, amount, 0).on = on
    BY DEF Event
  <2> QED BY <2>1, EventRecordable DEF Recordable, EventsOf
<1>2. ASSUME NEW perShare \in Nat
      PROVE  Records(b, CreditDividend(b, s, perShare, on), {e \in EventsOf(s, on) : e.qty = 0})
  <2> DEFINE amount == perShare * b.positions[s]
             e == Event(on, "dividend", s, 0, amount, 0)
  <2>1. amount \in Nat
    BY NatProduct
  <2>2. CreditDividend(b, s, perShare, on) = b \/ CreditDividend(b, s, perShare, on) = Record(b, e)
    BY DEF CreditDividend
  <2> HIDE DEF amount
  <2>3. e \in EventsOf(s, on) /\ e.qty = 0
    BY <1>1, <2>1 DEF Kinds, Event
  <2> HIDE DEF e
  <2> QED BY <2>2, <2>3 DEF Records
<1>3. ASSUME NEW proceeds \in Nat \cup {NoTerms}
      PROVE  Records(b, ResolveDelisting(b, s, proceeds, on), EventsOf(s, on))
  <2> DEFINE held == b.positions[s]
             amount == IF proceeds = NoTerms THEN 0 ELSE proceeds * held
             kind == IF proceeds = NoTerms THEN "delisting_writeoff" ELSE "delisting_proceeds"
             e == Event(on, kind, s, -held, amount, 0)
  <2>1. amount \in Nat /\ kind \in Kinds /\ -held \in Int
    BY NatProduct DEF Kinds
  <2>2. ResolveDelisting(b, s, proceeds, on) = b \/ ResolveDelisting(b, s, proceeds, on) = Record(b, e)
    BY DEF ResolveDelisting
  <2> HIDE DEF amount, kind, held
  <2>3. e \in EventsOf(s, on)
    BY <1>1, <2>1
  <2> HIDE DEF e
  <2> QED BY <2>2, <2>3 DEF Records
<1>4. ASSUME NEW new \in Nat \ {0}, NEW old \in Nat \ {0}, NEW mark \in Nat
      PROVE  Records(b, ApplySplit(b, s, new, old, mark, on), EventsOf(s, on))
  <2> DEFINE held == b.positions[s]
             whole == (held * new) \div old
             remainder == (held * new) % old
             inLieu == (mark * remainder) \div old
             e == Event(on, "split", s, whole - held, 0, 0)
             f == Event(on, "cash_in_lieu", s, 0, inLieu, 0)
             split == Record(b, e)
  <2>1. held * new \in Nat /\ held \in Nat
    BY NatProduct
  <2>2. whole \in Nat /\ remainder \in Nat
    BY <2>1, NatQuotient
  <2>3. inLieu \in Nat
    <3> HIDE DEF remainder
    <3>1. mark * remainder \in Nat
      BY <2>2, NatProduct
    <3> QED BY <3>1, NatQuotient
  <2>4. ApplySplit(b, s, new, old, mark, on) \in {b, split, Record(split, f)}
    BY DEF ApplySplit
  <2> HIDE DEF whole, remainder, inLieu, held
  <2>5. whole - held \in Int /\ "split" \in Kinds /\ "cash_in_lieu" \in Kinds
    BY <2>1, <2>2 DEF Kinds
  <2>6. e \in EventsOf(s, on) /\ f \in EventsOf(s, on)
    BY <1>1, <2>3, <2>5
  <2> HIDE DEF e, f
  <2> QED BY <2>4, <2>6 DEF Records
<1> QED BY <1>2, <1>3, <1>4

\* What a corporate action logs names its security and is dated today.
LEMMA ActionLogs ==
    ASSUME NEW b \in Books, NEW s \in Sids, NEW on \in Nat, b.positions[s] \in Nat
    PROVE  /\ \A perShare \in Nat : LogsOnly(b, CreditDividend(b, s, perShare, on), s, on)
           /\ \A proceeds \in Nat \cup {NoTerms} :
                 LogsOnly(b, ResolveDelisting(b, s, proceeds, on), s, on)
           /\ \A new, old \in Nat \ {0} : \A mark \in Nat :
                 LogsOnly(b, ApplySplit(b, s, new, old, mark, on), s, on)
<1>1. ASSUME NEW c \in Books, NEW e \in EventsOf(s, on)
      PROVE  Record(c, e) \in Books /\ LogsOnly(c, Record(c, e), s, on)
  <2>1. Recordable(e) /\ e.sid = s /\ e.on = on
    BY DEF EventsOf, Recordable
  <2> QED  BY <2>1, RecordType, RecordLogs
<1>2. ASSUME NEW c, Records(b, c, EventsOf(s, on))
      PROVE  LogsOnly(b, c, s, on)
  <2>1. CASE c = b
    BY <2>1 DEF LogsOnly
  <2>2. ASSUME NEW e \in EventsOf(s, on), c = Record(b, e)
        PROVE  LogsOnly(b, c, s, on)
    BY <1>1, <2>2
  <2>3. ASSUME NEW e \in EventsOf(s, on), NEW f \in EventsOf(s, on), c = Record(Record(b, e), f)
        PROVE  LogsOnly(b, c, s, on)
    <3>1. /\ LogsOnly(b, Record(b, e), s, on)
          /\ LogsOnly(Record(b, e), Record(Record(b, e), f), s, on)
      BY <1>1
    <3> QED  BY <2>3, <3>1, LogsTwice
  <2> QED  BY <1>2, <2>1, <2>2, <2>3 DEF Records
<1>3. ASSUME NEW c, Records(b, c, {e \in EventsOf(s, on) : e.qty = 0})
      PROVE  Records(b, c, EventsOf(s, on))
  BY <1>3 DEF Records
<1> QED  BY <1>2, <1>3, ActionRecords

\* A trade logs nothing but a trade.
LEMMA TradeLogs ==
    ASSUME NEW b \in Books, NEW s \in Sids, NEW on \in Nat, NEW shares \in Nat \ {0},
           NEW price \in Nat, NEW costs \in Nat
    PROVE  /\ LogsTrades(b, Buy(b, s, shares, price, costs, on))
           /\ LogsTrades(b, Sell(b, s, shares, price, costs, on))
<1> DEFINE notional == price * shares
           e == Event(on, "buy", s, shares, -(notional + costs), costs)
           f == Event(on, "sell", s, -shares, notional - costs, costs)
<1>1. notional \in Nat
  BY NatProduct
<1>2. Buy(b, s, shares, price, costs, on) = Record(b, e)
      /\ Sell(b, s, shares, price, costs, on) = Record(b, f)
  BY DEF Buy, Sell
<1> HIDE DEF notional
<1>3. Recordable(e) /\ Recordable(f)
  <2>1. -(notional + costs) \in Int /\ notional - costs \in Int /\ -shares \in Int
    BY <1>1
  <2> QED BY <2>1, EventRecordable DEF Kinds
<1>4. e.kind \notin FromAction /\ f.kind \notin FromAction
  BY DEF Event, FromAction
<1> HIDE DEF e, f
<1> QED BY <1>2, <1>3, <1>4, RecordLogs

-----------------------------------------------------------------------------
(***************************************************************************)
(* Nothing is applied before it is due and known.                          *)
(***************************************************************************)

\* The actions still to apply are the ones effective today.
KnownInv == /\ pc = "actions" => queue \subseteq ActionsOn(market, today)
            /\ OnlyKnowableActions

\* What is logged for s today is knowable: so is every event, then.
LEMMA KnowableStep ==
    ASSUME OnlyKnowableActions, market' = market, warnings \subseteq warnings', NEW s,
           LogsOnly(book, book', s, today),
           \/ \E j \in DOMAIN market.actions :
                 /\ market.actions[j].sid = s
                 /\ market.actions[j].ex <= today /\ market.actions[j].avail <= today
           \/ Warning("forced_exit", s) \in warnings'
           \/ book' = book
    PROVE  OnlyKnowableActions'
<1> SUFFICES ASSUME NEW i \in DOMAIN book'.events, book'.events[i].kind \in FromAction
             PROVE  \/ \E j \in DOMAIN market.actions :
                          /\ market.actions[j].sid = book'.events[i].sid
                          /\ market.actions[j].ex <= book'.events[i].on
                          /\ market.actions[j].avail <= book'.events[i].on
                    \/ [on |-> book'.events[i].on, kind |-> "forced_exit",
                        sid |-> book'.events[i].sid] \in warnings'
  BY DEF OnlyKnowableActions
<1>1. CASE i \in DOMAIN book.events /\ book'.events[i] = book.events[i]
  BY <1>1 DEF OnlyKnowableActions
<1>2. CASE book'.events[i].sid = s /\ book'.events[i].on = today /\ book' # book
  BY <1>2 DEF Warning
<1> QED BY <1>1, <1>2 DEF LogsOnly

\* Applying an action of the session keeps the log knowable.
LEMMA ApplyActionKnown == Inv /\ KnownInv /\ ApplyAction => KnownInv'
<1> SUFFICES ASSUME Inv, KnownInv, ApplyAction PROVE KnownInv'
  OBVIOUS
<1>1. PICK j \in queue : book' = AppliedTo(book, market.actions[j]) /\ queue' = queue \ {j}
  BY DEF ApplyAction
<1>2. /\ UNCHANGED <<market, idx, pc>> /\ pc = "actions" /\ today' = today
      /\ warnings \subseteq warnings'
  BY DEF ApplyAction, At, today
<1>3. PICK a \in Actions : a = market.actions[j] /\ j \in DOMAIN market.actions
  <2>1. market.actions \in Seq(Actions) /\ j \in DOMAIN market.actions
    BY <1>1 DEF Inv, LoopInv, MarketType
  <2> QED BY <2>1
<1>4. Effective(a) = today
  BY <1>1, <1>2, <1>3 DEF KnownInv, ActionsOn
<1>5. a.ex <= today /\ a.avail <= today
  BY <1>4, MarketAssumption DEF Effective, Actions, Days
<1>6. LogsOnly(book, book', a.sid, today)
  <2> DEFINE close == CloseOnOrBefore(market, a.sid, today)
             cash == ToQuoteUnit(a.amount, a.unit)
  <2>1. /\ a.sid \in Sids /\ a.new \in Nat \ {0} /\ a.old \in Nat \ {0} /\ a.amount \in Nat
        /\ today \in Days /\ today \in Nat
    BY TodayType DEF Inv, LoopInv, Actions, today
  <2>2. close \in Nat
    BY <2>1, CloseFound DEF Inv, LoopInv
  <2>3. cash # Unconvertible => cash \in Nat
    <3>1. a.amount * MinorUnits \in Nat
      BY <2>1, MarketAssumption, NatProduct
    <3> QED BY <2>1, <3>1 DEF ToQuoteUnit
  <2>4. book \in Books /\ \A t \in Sids : book.positions[t] \in Nat
    BY InvTypes DEF Inv, Sound
  <2> DEFINE p == IF cash = Unconvertible THEN NoTerms ELSE cash
             q == CASE a.reason = "failure" -> 0
                    [] a.reason # "failure" /\ close # None -> close
                    [] OTHER -> NoTerms
  <2>5. p \in Nat \cup {NoTerms} /\ q \in Nat \cup {NoTerms}
    <3> HIDE DEF close, cash
    <3> QED BY <2>2, <2>3
  <2>6. \/ AppliedTo(book, a) = book
        \/ AppliedTo(book, a) = ApplySplit(book, a.sid, a.new, a.old, close, today)
        \/ cash # Unconvertible /\ AppliedTo(book, a) = CreditDividend(book, a.sid, cash, today)
        \/ AppliedTo(book, a) = ResolveDelisting(book, a.sid, p, today)
        \/ AppliedTo(book, a) = ResolveDelisting(book, a.sid, q, today)
    <3>1. CASE a.kind = "split"
      BY <3>1 DEF AppliedTo
    <3>2. CASE a.kind = "dividend"
      BY <3>2 DEF AppliedTo
    <3>3. CASE a.kind = "merger"
      BY <3>3 DEF AppliedTo
    <3>4. CASE a.kind = "delisting"
      BY <3>4 DEF AppliedTo
    <3>5. CASE a.kind \notin {"split", "dividend", "merger", "delisting"}
      BY <3>5 DEF AppliedTo
    <3> QED BY <3>1, <3>2, <3>3, <3>4, <3>5
  <2> HIDE DEF close, cash, p, q
  <2>7. LogsOnly(book, book, a.sid, today)
    BY DEF LogsOnly
  <2> QED BY <1>1, <1>3, <2>1, <2>2, <2>3, <2>4, <2>5, <2>6, <2>7, ActionLogs
<1>7. OnlyKnowableActions'
  <2>1. a.sid = a.sid /\ \E k \in DOMAIN market.actions :
                            /\ market.actions[k].sid = a.sid
                            /\ market.actions[k].ex <= today /\ market.actions[k].avail <= today
    BY <1>3, <1>5
  <2> QED BY <1>2, <1>6, <2>1, KnowableStep DEF KnownInv
<1> QED
  BY <1>1, <1>2, <1>7 DEF KnownInv, ActionsOn

\* A forced exit is logged under its warning.
LEMMA ForceExitStaleKnown == Inv /\ KnownInv /\ ForceExitStale => KnownInv'
<1> SUFFICES ASSUME Inv, KnownInv, ForceExitStale PROVE KnownInv'
  OBVIOUS
<1>1. PICK s \in todo :
         IF Stale(s)
         THEN /\ book' = ResolveDelisting(book, s, CloseOnOrBefore(market, s, today), today)
              /\ warnings' = warnings \cup {Warning("forced_exit", s)}
         ELSE UNCHANGED <<book, warnings>>
  BY DEF ForceExitStale
<1>2. UNCHANGED <<market, idx, pc>> /\ pc = "stale" /\ today' = today /\ s \in Sids
  BY <1>1 DEF ForceExitStale, At, today, Inv, LoopInv
<1>3. LogsOnly(book, book', s, today)
  <2> DEFINE close == CloseOnOrBefore(market, s, today)
  <2>1. close \in Nat \cup {NoTerms} /\ today \in Nat
    BY <1>2, InvTypes, CloseFound
  <2>2. book \in Books /\ \A t \in Sids : book.positions[t] \in Nat
    BY InvTypes DEF Inv, Sound
  <2>3. book' = ResolveDelisting(book, s, close, today) \/ book' = book
    BY <1>1
  <2> HIDE DEF close
  <2>4. LogsOnly(book, book, s, today)
    BY DEF LogsOnly
  <2> QED BY <1>2, <2>1, <2>2, <2>3, <2>4, ActionLogs
<1>4. warnings \subseteq warnings'
      /\ (Warning("forced_exit", s) \in warnings' \/ book' = book)
  BY <1>1
<1>5. OnlyKnowableActions'
  BY <1>2, <1>3, <1>4, KnowableStep DEF KnownInv
<1> QED
  BY <1>2, <1>5 DEF KnownInv

\* A sale of the rebalance logs no action.
LEMMA SellOrderKnown == Inv /\ KnownInv /\ SellOrder => KnownInv'
<1> SUFFICES ASSUME Inv, KnownInv, SellOrder PROVE KnownInv'
  OBVIOUS
<1>1. PICK s \in todo :
        \/ UNCHANGED book
        \/ book' = Sell(book, s, -orders[s], market.close[s][today], SellCosts(s), today)
  BY DEF SellOrder
<1>2. /\ UNCHANGED <<market, idx, pc>> /\ pc = "sell" /\ today' = today
      /\ warnings \subseteq warnings' /\ s \in Sids /\ orders \in [Sids -> Int] /\ orders[s] < 0
  BY <1>1 DEF SellOrder, At, today, Inv, LoopInv, OrdersInv
<1>3. LogsTrades(book, book')
  <2>1. CASE UNCHANGED book
    BY <2>1 DEF LogsTrades
  <2>2. CASE book' = Sell(book, s, -orders[s], market.close[s][today], SellCosts(s), today)
    <3> DEFINE shares == -orders[s]
               price == market.close[s][today]
               costs == SellCosts(s)
    <3>1. shares \in Nat \ {0} /\ book \in Books /\ today \in Nat
      BY <1>2, InvTypes DEF Inv, Sound
    <3>2. price \in Nat /\ costs \in Nat
      BY <1>2, SellAmounts
    <3>3. book' = Sell(book, s, shares, price, costs, today)
      BY <2>2
    <3> HIDE DEF shares, price, costs
    <3> QED BY <1>2, <3>1, <3>2, <3>3, TradeLogs
  <2> QED BY <1>1, <2>1, <2>2
<1>4. OnlyKnowableActions'
  BY <1>2, <1>3 DEF KnownInv, LogsTrades, OnlyKnowableActions
<1> QED
  BY <1>2, <1>4 DEF KnownInv

\* A purchase of the rebalance logs no action.
LEMMA FillOrderKnown == Inv /\ KnownInv /\ FillOrder => KnownInv'
<1> SUFFICES ASSUME Inv, KnownInv, FillOrder PROVE KnownInv'
  OBVIOUS
<1>1. PICK s \in todo :
        \/ UNCHANGED book
        \/ /\ trial > 0
           /\ book' = Buy(book, s, trial, market.close[s][today], BuyCosts(s, trial), today)
  BY DEF FillOrder
<1>2. /\ UNCHANGED <<market, idx, warnings>> /\ pc' = "buy" /\ today' = today
      /\ s \in Sids /\ trial \in Int
  BY <1>1 DEF FillOrder, today, Inv, LoopInv
<1>3. LogsTrades(book, book')
  <2>1. CASE UNCHANGED book
    BY <2>1 DEF LogsTrades
  <2>2. CASE /\ trial > 0
             /\ book' = Buy(book, s, trial, market.close[s][today], BuyCosts(s, trial), today)
    <3> DEFINE price == market.close[s][today]
               costs == BuyCosts(s, trial)
    <3>1. trial \in Nat \ {0} /\ book \in Books /\ today \in Nat
      BY <1>2, <2>2, InvTypes DEF Inv, Sound
    <3>2. price \in Nat /\ costs \in Nat
      BY <1>2, <3>1, BuyAmounts
    <3>3. book' = Buy(book, s, trial, price, costs, today)
      BY <2>2
    <3> HIDE DEF price, costs
    <3> QED BY <1>2, <3>1, <3>2, <3>3, TradeLogs
  <2> QED BY <1>1, <2>1, <2>2
<1>4. OnlyKnowableActions'
  BY <1>2, <1>3 DEF KnownInv, LogsTrades, OnlyKnowableActions
<1> QED
  BY <1>2, <1>4 DEF KnownInv

\* A step that logs nothing keeps the log knowable.
LEMMA QuietStepKnown ==
    ASSUME KnownInv, UNCHANGED <<market, book>>, warnings \subseteq warnings',
           pc' = "actions" => queue' \subseteq ActionsOn(market', today')
    PROVE  KnownInv'
  BY DEF KnownInv, OnlyKnowableActions

\* The daily mark logs nothing, and looks up the next session's actions.
LEMMA MarkDayKnown == Inv /\ KnownInv /\ MarkDay => KnownInv'
<1> SUFFICES ASSUME Inv, KnownInv, MarkDay PROVE KnownInv'
  OBVIOUS
<1>1. Markable /\ Replays(book)
  BY HoldingsMarkable DEF Inv, Sound
<1>2. UNCHANGED <<market, book, warnings>>
  BY <1>1 DEF MarkDay
<1>3. pc' = "actions" => queue' = ActionsOn(market', today')
  BY <1>2 DEF MarkDay, ActionsOn, today
<1> QED BY <1>2, <1>3, QuietStepKnown

\* The log is knowable in every run.
LEMMA KnownInvariance == Spec => []KnownInv
<1>1. Init => KnownInv
  <2> SUFFICES ASSUME Init PROVE KnownInv
    OBVIOUS
  <2>1. \A i \in DOMAIN book.events : book.events[i].kind = "deposit"
    BY DEF Init, NewPortfolio, Event
  <2> QED BY <2>1 DEF Init, KnownInv, OnlyKnowableActions, FromAction, today
<1>2. Inv /\ KnownInv /\ [Next]_vars => KnownInv'
  <2> SUFFICES ASSUME Inv, KnownInv, [Next]_vars PROVE KnownInv'
    OBVIOUS
  <2>1. CASE ActionsDone
    BY <2>1, QuietStepKnown DEF ActionsDone
  <2>2. CASE NoRebalance
    BY <2>2, QuietStepKnown DEF NoRebalance
  <2>3. CASE Decide
    BY <2>3, HoldingsMarkable, QuietStepKnown DEF Decide
  <2>4. CASE SellsDone
    BY <2>4, QuietStepKnown DEF SellsDone
  <2>5. CASE BuyOrder
    <3>1. UNCHANGED <<market, book>> /\ warnings \subseteq warnings' /\ pc' # "actions"
      BY <2>5 DEF BuyOrder, At
    <3> QED BY <3>1, QuietStepKnown
  <2>6. CASE ShrinkOrder
    BY <2>6, QuietStepKnown DEF ShrinkOrder, At
  <2>7. CASE BuysDone
    BY <2>7, QuietStepKnown DEF BuysDone
  <2>8. CASE UNCHANGED vars
    <3>1. UNCHANGED <<market, book, warnings, pc, queue>> /\ ActionsOn(market', today') =
            ActionsOn(market, today)
      BY <2>8 DEF vars, today
    <3> QED BY <3>1, QuietStepKnown DEF KnownInv
  <2> QED
    BY <2>1, <2>2, <2>3, <2>4, <2>5, <2>6, <2>7, <2>8, ApplyActionKnown,
       ForceExitStaleKnown, SellOrderKnown, FillOrderKnown, MarkDayKnown
       DEF Next, Step, Finished
<1> QED BY <1>1, <1>2, Invariance, PTL DEF Spec

(***************************************************************************)
(* For every dataset, calendar and strategy, nothing is applied to the     *)
(* ledger before it is both due and known: every dividend, split,          *)
(* cash-in-lieu and delisting event was logged, no earlier than the        *)
(* ex-date and the availability of an action of that security, or under a  *)
(* forced-exit warning of the same day (BacktestEngine._apply_actions).    *)
(***************************************************************************)
THEOREM NothingAppliedEarly == Spec => []OnlyKnowableActions
<1>1. KnownInv => OnlyKnowableActions
  BY DEF KnownInv
<1> QED
  BY KnownInvariance, <1>1, PTL

-----------------------------------------------------------------------------
(***************************************************************************)
(* The value of the book, and what a trade at the mark does to it.         *)
(***************************************************************************)

\* What the positions are worth at given marks.
Worth(positions, mark) ==
    SumFunction([s \in {t \in Sids : positions[t] > 0} |-> positions[s] * mark[s]])

\* _marks: the close the day values each security at.
Marks == [s \in Sids |-> CloseOnOrBefore(market, s, today)]

\* Portfolio.value is the cash and the worth of the positions.
LEMMA ValueIsWorth == Value = book.cash + Worth(book.positions, Marks)
<1> DEFINE f == [s \in Held |-> book.positions[s] * CloseOnOrBefore(market, s, today)]
           g == [s \in {t \in Sids : book.positions[t] > 0} |-> book.positions[s] * Marks[s]]
<1>1. f = g
  BY DEF Held, Marks
<1> QED
  BY <1>1 DEF Value, Worth

\* Worth is an integer, and moves with one position by its mark.
LEMMA WorthMoves ==
    ASSUME NEW p, NEW q, NEW mark, NEW s \in Sids,
           \A t \in Sids : p[t] \in Nat /\ q[t] \in Nat /\ mark[t] \in Nat,
           \A t \in Sids \ {s} : q[t] = p[t]
    PROVE  /\ Worth(p, mark) \in Int
           /\ Worth(q, mark) = Worth(p, mark) + (q[s] * mark[s] - p[s] * mark[s])
<1> DEFINE Open(r) == {t \in Sids : r[t] > 0}
           f == [t \in Open(p) |-> p[t] * mark[t]]
           h == [t \in Open(q) |-> q[t] * mark[t]]
           x == p[s] * mark[s]
           y == q[s] * mark[s]
<1>1. Worth(p, mark) = SumFunction(f) /\ Worth(q, mark) = SumFunction(h)
  BY DEF Worth
<1>2. \A t \in Sids : p[t] * mark[t] \in Nat /\ q[t] * mark[t] \in Nat
  BY NatProduct
<1>3. IsFiniteSet(Open(p)) /\ IsFiniteSet(Open(q))
  BY BacktestAssumption, FS_Subset
<1>4. f \in [Open(p) -> Int] /\ h \in [Open(q) -> Int] /\ x \in Nat /\ y \in Nat
  BY <1>2
<1>5. /\ p[s] = 0 => x = 0
      /\ q[s] = 0 => y = 0
  OBVIOUS
<1>6. /\ p[s] > 0 => s \in Open(p) /\ f[s] = x
      /\ q[s] > 0 => s \in Open(q) /\ h[s] = y
  OBVIOUS
<1>7. \A t \in Sids \ {s} : /\ t \in Open(p) <=> t \in Open(q)
                            /\ t \in Open(p) => f[t] = h[t]
  OBVIOUS
<1>8. /\ s \in Open(p) <=> p[s] > 0
      /\ s \in Open(q) <=> q[s] > 0
      /\ Open(p) \subseteq Sids /\ Open(q) \subseteq Sids
      /\ p[s] \in Nat /\ q[s] \in Nat
  OBVIOUS
<1> DEFINE A == Open(p)
           B == Open(q)
<1>9. DOMAIN f = A /\ DOMAIN h = B
  OBVIOUS
<1>14. SumFunction(f) \in Int /\ SumFunction(h) \in Int
  <2> HIDE DEF f, h, Open
  <2> QED BY <1>3, <1>4, SumTakesOut
<1> HIDE DEF f, h, x, y, Open
<1>10. CASE p[s] > 0 /\ q[s] > 0
  <2>1. A = B
    BY <1>7, <1>8, <1>10
  <2>2. h \in [A -> Int] /\ s \in A /\ \A t \in A \ {s} : h[t] = f[t]
    BY <1>4, <1>7, <1>8, <1>10, <2>1
  <2>3. SumFunction(h) = SumFunction(f) + h[s] - f[s]
    BY <1>3, <1>4, <2>2, SumMoves
  <2> QED BY <1>1, <1>4, <1>6, <1>10, <1>14, <2>3 DEF x, y
<1>11. CASE p[s] > 0 /\ q[s] = 0
  <2>1. B = A \ {s} /\ s \in A
    BY <1>7, <1>8, <1>11
  <2>2. h \in [B -> Int] /\ \A t \in B : h[t] = f[t]
    BY <1>4, <1>7, <1>8, <2>1
  <2>3. SumFunction(f) = f[s] + SumFunction(h)
    <3>1. IsFiniteSet(A) /\ f \in [A -> Int]
      BY <1>3, <1>4
    <3> HIDE DEF A, B
    <3> QED BY <2>1, <2>2, <3>1, SumDrops
  <2> QED BY <1>1, <1>4, <1>5, <1>6, <1>11, <1>14, <2>2, <2>3 DEF x, y
<1>12. CASE p[s] = 0 /\ q[s] > 0
  <2>1. A = B \ {s} /\ s \in B
    BY <1>7, <1>8, <1>12
  <2>2. f \in [A -> Int] /\ \A t \in A : f[t] = h[t]
    BY <1>4, <1>7, <1>8, <2>1
  <2>3. SumFunction(h) = h[s] + SumFunction(f)
    <3>1. IsFiniteSet(B) /\ h \in [B -> Int]
      BY <1>3, <1>4
    <3> HIDE DEF A, B
    <3> QED BY <2>1, <2>2, <3>1, SumDrops
  <2> QED BY <1>1, <1>4, <1>5, <1>6, <1>12, <1>14, <2>2, <2>3 DEF x, y
<1>13. CASE p[s] = 0 /\ q[s] = 0
  <2>1. A = B
    BY <1>7, <1>8, <1>13
  <2>2. f = h
    BY <1>4, <1>7, <1>8, <1>13, <2>1
  <2> QED BY <1>1, <1>5, <1>13, <1>14, <2>2 DEF x, y
<1> QED BY <1>8, <1>10, <1>11, <1>12, <1>13

\* The costs of the fills logged since an execution began.
FillCosts(events, before) ==
    SumFunction([i \in TradeEvents(events, before) |-> events[i].costs])

\* The fills of a log are finitely many.
LEMMA FillsFinite ==
    ASSUME NEW events \in Seq(LedgerEvents), NEW before \in Nat
    PROVE  /\ IsFiniteSet(TradeEvents(events, before))
           /\ TradeEvents(events, before) \subseteq 1 .. Len(events)
           /\ FillCosts(events, before) \in Int
<1> DEFINE S == TradeEvents(events, before)
           f == [i \in S |-> events[i].costs]
<1>1. Len(events) \in Nat /\ S \subseteq 1 .. Len(events)
  BY DEF TradeEvents
<1>2. IsFiniteSet(1 .. Len(events))
  BY <1>1, FS_Interval
<1>3. IsFiniteSet(S)
  BY <1>1, <1>2, FS_Subset
<1>4. f \in [S -> Int]
  <2>1. \A i \in 1 .. Len(events) : events[i] \in LedgerEvents
    OBVIOUS
  <2>2. \A i \in S : events[i].costs \in Int
    BY <1>1, <2>1 DEF LedgerEvents
  <2> HIDE DEF S
  <2> QED BY <2>2
<1> HIDE DEF f
<1>5. SumFunction(f) \in Int
  BY <1>3, <1>4, SumTakesOut
<1> QED BY <1>1, <1>3, <1>5 DEF FillCosts, f

\* Another fill adds its costs.
LEMMA FillAdds ==
    ASSUME NEW events \in Seq(LedgerEvents), NEW before \in Nat, before <= Len(events),
           NEW e \in LedgerEvents, IsTrade(e)
    PROVE  FillCosts(Append(events, e), before) = FillCosts(events, before) + e.costs
<1> DEFINE more == Append(events, e)
           n == Len(events) + 1
           A == TradeEvents(events, before)
           B == TradeEvents(more, before)
           f == [i \in A |-> events[i].costs]
           h == [i \in B |-> more[i].costs]
<1>1. /\ Len(events) \in Nat /\ Len(more) = n /\ more[n] = e /\ more \in Seq(LedgerEvents)
      /\ \A i \in 1 .. Len(events) : more[i] = events[i] /\ i # n
  OBVIOUS
<1> HIDE DEF more
<1>2. B = A \cup {n} /\ A = B \ {n} /\ n \in B
  BY <1>1 DEF TradeEvents
<1>3. IsFiniteSet(B) /\ A \subseteq 1 .. Len(events) /\ B \subseteq 1 .. Len(more)
  BY <1>1, FillsFinite
<1>4. h \in [B -> Int]
  <2>1. \A i \in 1 .. Len(more) : more[i] \in LedgerEvents
    BY <1>1
  <2>2. \A i \in B : more[i].costs \in Int
    BY <1>3, <2>1 DEF LedgerEvents
  <2> HIDE DEF B
  <2> QED BY <2>2
<1>5. f \in [A -> Int] /\ \A i \in A : f[i] = h[i]
  <2>1. \A i \in A : h[i] = events[i].costs /\ h[i] \in Int
    BY <1>1, <1>2, <1>3, <1>4
  <2> HIDE DEF A, B, h
  <2> QED BY <2>1
<1>6. h[n] = e.costs
  BY <1>1, <1>2
<1>7. FillCosts(events, before) = SumFunction(f) /\ FillCosts(more, before) = SumFunction(h)
  BY DEF FillCosts
<1>8. SumFunction(h) = h[n] + SumFunction(f)
  <2>1. A = B \ {n} /\ n \in B /\ IsFiniteSet(B)
    BY <1>2, <1>3
  <2> HIDE DEF A, B, f, h, n
  <2>2. (\A i \in A : f[i] = h[i]) /\ f \in [A -> Int] /\ h \in [B -> Int]
    BY <1>4, <1>5
  <2> QED BY <2>1, <2>2, SumDrops
<1>9. SumFunction(f) \in Int /\ e.costs \in Int
  <2>1. FillCosts(events, before) \in Int
    BY FillsFinite
  <2> HIDE DEF f
  <2> QED BY <1>7, <2>1 DEF LedgerEvents
<1> QED
  <2> HIDE DEF f, h
  <2> QED BY <1>6, <1>7, <1>8, <1>9 DEF more

\* A trade at the mark loses its costs and nothing else.
LEMMA TradeAtMark ==
    ASSUME NEW b, Sound(b), NEW e, Recordable(e), IsTrade(e),
           b.positions[e.sid] + e.qty >= 0, b.cash + e.cash >= 0,
           NEW mark, \A t \in Sids : mark[t] \in Nat,
           e.cash + e.costs = -(e.qty * mark[e.sid]),
           NEW before \in Nat, before <= Len(b.events)
    PROVE  /\ before <= Len(Record(b, e).events)
           /\ Record(b, e).cash + Worth(Record(b, e).positions, mark)
                + FillCosts(Record(b, e).events, before)
              = b.cash + Worth(b.positions, mark) + FillCosts(b.events, before)
<1> DEFINE c == Record(b, e)
           s == e.sid
<1>1. /\ b \in Books /\ b.events \in Seq(LedgerEvents) /\ b.cash \in Int
      /\ \A t \in Sids : b.positions[t] \in Nat
      /\ b.positions \in [Sids -> Int]
      /\ e \in LedgerEvents /\ s \in Sids /\ e.qty \in Int /\ e.cash \in Int /\ e.costs \in Int
      /\ Len(b.events) \in Nat
  BY DEF Sound, Books, Recordable, LedgerEvents
<1>2. /\ Sound(c) /\ c.positions = [b.positions EXCEPT ![s] = @ + e.qty]
      /\ c.cash = b.cash + e.cash
  BY RecordSound
<1>3. c.events = Append(b.events, e)
  BY <1>1, <1>2 DEF Sound, Record, Books
<1> HIDE DEF c, s
<1>4. \A t \in Sids : c.positions[t] \in Nat
  BY <1>2, SoundBook
<1>5. (\A t \in Sids \ {s} : c.positions[t] = b.positions[t])
      /\ c.positions[s] = b.positions[s] + e.qty
  BY <1>1, <1>2
<1> DEFINE x == b.positions[s] * mark[s]
           y == c.positions[s] * mark[s]
<1>6. /\ Worth(b.positions, mark) \in Int
      /\ Worth(c.positions, mark) = Worth(b.positions, mark) + (y - x)
  <2> DEFINE p == b.positions
             q == c.positions
  <2>1. /\ s \in Sids /\ \A t \in Sids : p[t] \in Nat /\ q[t] \in Nat /\ mark[t] \in Nat
        /\ \A t \in Sids \ {s} : q[t] = p[t]
    BY <1>1, <1>4, <1>5
  <2> HIDE DEF p, q
  <2>2. Worth(p, mark) \in Int /\ Worth(q, mark) = Worth(p, mark) + (q[s] * mark[s] - p[s] * mark[s])
    BY <2>1, WorthMoves
  <2> QED BY <2>2 DEF p, q
<1>7. y - x = e.qty * mark[s] /\ x \in Int /\ y \in Int
  <2>1. b.positions[s] \in Int /\ c.positions[s] \in Int /\ mark[s] \in Int /\ e.qty \in Int
    <3>1. s \in Sids /\ e.qty \in Int
      BY <1>1
    <3>2. b.positions[s] \in Nat
      BY <1>1
    <3>3. c.positions[s] \in Nat
      BY <1>4, <3>1
    <3>4. mark[s] \in Nat
      BY <3>1
    <3>. QED  BY <3>1, <3>2, <3>3, <3>4
  <2>2. \A i, j, k \in Int : (i + j) * k - i * k = j * k
    BY Z3
  <2>3. (b.positions[s] + e.qty) * mark[s] - x = e.qty * mark[s]
    BY <2>1, <2>2
  <2>4. x \in Int /\ y \in Int
    BY <2>1
  <2> QED BY <1>5, <2>3, <2>4
<1> DEFINE w == e.qty * mark[s]
<1>8. e.cash + e.costs = -w /\ w \in Int
  BY <1>1, <1>7 DEF s
<1> HIDE DEF x, y, w
<1>9. y - x = w /\ x \in Int /\ y \in Int
  BY <1>7 DEF w
<1>10. FillCosts(c.events, before) = FillCosts(b.events, before) + e.costs
       /\ FillCosts(b.events, before) \in Int /\ before <= Len(c.events)
  <2> DEFINE events == b.events
  <2>1. events \in Seq(LedgerEvents) /\ before <= Len(events) /\ e \in LedgerEvents
    BY <1>1
  <2>2. Len(Append(events, e)) = Len(events) + 1 /\ Len(events) \in Nat
    BY <2>1
  <2> HIDE DEF events
  <2>3. FillCosts(Append(events, e), before) = FillCosts(events, before) + e.costs
    BY <2>1, FillAdds
  <2>4. FillCosts(events, before) \in Int
    BY <2>1, FillsFinite
  <2> QED BY <1>3, <2>2, <2>3, <2>4 DEF events
<1>11. /\ b.cash \in Int /\ e.cash \in Int /\ e.costs \in Int
       /\ c.cash = b.cash + e.cash
  BY <1>1, <1>2
<1>12. c.cash + Worth(c.positions, mark) + FillCosts(c.events, before)
         = b.cash + Worth(b.positions, mark) + FillCosts(b.events, before)
  <2> DEFINE worth == Worth(b.positions, mark)
             costs == FillCosts(b.events, before)
             after == Worth(c.positions, mark)
             paid == FillCosts(c.events, before)
             cash == c.cash
  <2>1. worth \in Int /\ after = worth + (y - x) /\ costs \in Int /\ paid = costs + e.costs
        /\ cash = b.cash + e.cash
    BY <1>6, <1>10, <1>11
  <2> HIDE DEF worth, costs, after, paid, cash
  <2>2. cash + after + paid = b.cash + worth + costs
    BY ONLY <1>8, <1>9, <1>11, <2>1
  <2> QED BY <2>2 DEF worth, costs, after, paid, cash
<1> QED
  BY <1>10, <1>12 DEF c

\* The day's marks are naturals, the close where the security prints today.
LEMMA MarksToday ==
    ASSUME Inv
    PROVE  /\ \A s \in Sids : Marks[s] \in Nat
           /\ \A s \in Sids : PrintsToday(market, s, today) => Marks[s] = market.close[s][today]
<1>1. market \in MarketType /\ today \in Days /\ today # None
  BY InvTypes, MarketAssumption DEF Days, None
<1>2. \A s \in Sids : Marks[s] = CloseOnOrBefore(market, s, today)
  BY DEF Marks
<1>3. \A s \in Sids : CloseOnOrBefore(market, s, today) \in Nat
  BY <1>1, CloseFound
<1>4. \A s \in Sids : PrintsToday(market, s, today) =>
          CloseOnOrBefore(market, s, today) = market.close[s][today]
  BY <1>1 DEF PrintsToday, CloseOnOrBefore
<1> QED BY <1>2, <1>3, <1>4

\* A sale of _execute loses its costs and nothing else.
LEMMA SellAtMark ==
    ASSUME Inv, NEW s \in Sids, orders[s] \in Int, orders[s] < 0,
           book.positions[s] + orders[s] >= 0, PrintsToday(market, s, today), ~Dust(s),
           NEW before \in Nat, before <= Len(book.events), NEW c,
           c = Sell(book, s, -orders[s], market.close[s][today], SellCosts(s), today)
    PROVE  /\ before <= Len(c.events)
           /\ c.cash + Worth(c.positions, Marks) + FillCosts(c.events, before)
              = Value + FillCosts(book.events, before)
<1> DEFINE shares == -orders[s]
           price == market.close[s][today]
           costs == SellCosts(s)
           net == price * shares - costs
           fill == Event(today, "sell", s, -shares, net, costs)
<1>1. shares \in Nat \ {0} /\ shares <= book.positions[s] /\ book.positions[s] \in Nat
      /\ book.cash \in Nat /\ Sound(book) /\ today \in Nat
  BY InvTypes DEF Inv
<1>2. price \in Nat /\ costs \in Nat /\ SellProceeds(s) = price * shares - costs
  BY SellAmounts
<1>3. c = Sell(book, s, shares, price, costs, today) /\ Marks[s] = price
      /\ \A t \in Sids : Marks[t] \in Nat
  BY MarksToday
<1>4. book.cash + net >= 0
  BY <1>1, <1>2, NatProduct DEF Dust
<1> HIDE DEF shares, price, costs
<1>5. price * shares \in Nat /\ net \in Int
  BY <1>1, <1>2, NatProduct
<1>6. c = Record(book, fill)
  BY <1>1, <1>3 DEF Sell
<1>7. net + costs = -((-shares) * price)
  BY <1>1, <1>2, <1>5
<1> HIDE DEF net
<1>8. Recordable(fill) /\ fill.sid = s /\ fill.qty = -shares /\ fill.cash = net
  <2>1. -shares \in Int /\ "sell" \in Kinds
    BY <1>1 DEF Kinds
  <2> QED BY <1>1, <1>2, <1>5, <2>1, EventRecordable
<1>9. IsTrade(fill) /\ fill.costs = costs
  BY DEF IsTrade, Event
<1> HIDE DEF fill
<1> DEFINE marks == Marks
<1>10. /\ book.positions[fill.sid] + fill.qty >= 0 /\ book.cash + fill.cash >= 0
       /\ fill.cash + fill.costs = -(fill.qty * marks[fill.sid]) /\ \A t \in Sids : marks[t] \in Nat
  BY <1>1, <1>3, <1>4, <1>7, <1>8, <1>9
<1> HIDE DEF marks
<1>11. /\ before <= Len(Record(book, fill).events)
       /\ Record(book, fill).cash + Worth(Record(book, fill).positions, marks)
            + FillCosts(Record(book, fill).events, before)
          = book.cash + Worth(book.positions, marks) + FillCosts(book.events, before)
  <2>1. /\ Sound(book) /\ Recordable(fill) /\ IsTrade(fill)
        /\ before \in Nat /\ before <= Len(book.events)
    BY <1>1, <1>8, <1>9
  <2> QED BY <1>10, <2>1, TradeAtMark, ZenonT(60)
<1> QED
  BY <1>6, <1>11, ValueIsWorth DEF marks

\* A purchase of _execute loses its costs and nothing else.
LEMMA BuyAtMark ==
    ASSUME Inv, NEW s \in Sids, NEW n \in Nat \ {0}, PrintsToday(market, s, today),
           BuyTotal(s, n) <= book.cash,
           NEW before \in Nat, before <= Len(book.events), NEW c,
           c = Buy(book, s, n, market.close[s][today], BuyCosts(s, n), today)
    PROVE  /\ before <= Len(c.events)
           /\ c.cash + Worth(c.positions, Marks) + FillCosts(c.events, before)
              = Value + FillCosts(book.events, before)
<1> DEFINE price == market.close[s][today]
           costs == BuyCosts(s, n)
           paid == -(price * n + costs)
           fill == Event(today, "buy", s, n, paid, costs)
<1>1. book.positions[s] \in Nat /\ book.cash \in Nat /\ Sound(book) /\ today \in Nat
  BY InvTypes DEF Inv
<1>2. price \in Nat /\ costs \in Nat /\ BuyTotal(s, n) = price * n + costs
  BY BuyAmounts
<1>3. c = Buy(book, s, n, price, costs, today) /\ Marks[s] = price
      /\ \A t \in Sids : Marks[t] \in Nat
  BY MarksToday
<1> HIDE DEF price, costs
<1>4. price * n \in Nat /\ paid \in Int
  BY <1>2, NatProduct
<1>5. book.cash + paid >= 0
  BY <1>1, <1>2, <1>4
<1>6. c = Record(book, fill)
  BY <1>1, <1>3 DEF Buy
<1>7. paid + costs = -(n * price)
  BY <1>2, <1>4
<1> HIDE DEF paid
<1>8. Recordable(fill) /\ fill.sid = s /\ fill.qty = n /\ fill.cash = paid
  <2>1. n \in Int /\ "buy" \in Kinds
    BY DEF Kinds
  <2> QED BY <1>1, <1>2, <1>4, <2>1, EventRecordable
<1>9. IsTrade(fill) /\ fill.costs = costs
  BY DEF IsTrade, Event
<1> HIDE DEF fill
<1> DEFINE marks == Marks
<1>10. /\ book.positions[fill.sid] + fill.qty >= 0 /\ book.cash + fill.cash >= 0
       /\ fill.cash + fill.costs = -(fill.qty * marks[fill.sid]) /\ \A t \in Sids : marks[t] \in Nat
  BY <1>1, <1>3, <1>5, <1>7, <1>8, <1>9
<1> HIDE DEF marks
<1>11. /\ before <= Len(Record(book, fill).events)
       /\ Record(book, fill).cash + Worth(Record(book, fill).positions, marks)
            + FillCosts(Record(book, fill).events, before)
          = book.cash + Worth(book.positions, marks) + FillCosts(book.events, before)
  <2>1. /\ Sound(book) /\ Recordable(fill) /\ IsTrade(fill)
        /\ before \in Nat /\ before <= Len(book.events)
    BY <1>1, <1>8, <1>9
  <2> QED BY <1>10, <2>1, TradeAtMark, ZenonT(60)
<1> QED
  BY <1>6, <1>11, ValueIsWorth DEF marks

Rows == [on : Nat, trades : Nat, value : Int, traded : Int, costs : Int]

(***************************************************************************)
(* While the orders of a decision execute, the book is worth what it was   *)
(* worth at the decision less the costs of the fills logged since.         *)
(***************************************************************************)
TradeInv ==
    /\ rebalances \in Seq(Rows)
    /\ decision.before \in Nat /\ decision.value \in Int
    /\ pc \in {"sell", "buy", "afford"} =>
          /\ today \in RebalanceDays
          /\ decision.before <= Len(book.events)
          /\ Value = decision.value - FillCosts(book.events, decision.before)
    /\ TradingLosesExactlyCosts

\* The worth of positions at natural marks is an integer.
LEMMA WorthType ==
    ASSUME NEW p, NEW mark, \A s \in Sids : p[s] \in Nat /\ mark[s] \in Nat
    PROVE  Worth(p, mark) \in Int
<1> DEFINE A == {t \in Sids : p[t] > 0}
           v == [s \in A |-> p[s] * mark[s]]
<1>1. IsFiniteSet(A)
  BY BacktestAssumption, FS_Subset
<1>2. v \in [A -> Int]
  <2>1. \A s \in Sids : p[s] * mark[s] \in Nat
    BY NatProduct
  <2>2. A \subseteq Sids
    OBVIOUS
  <2> HIDE DEF A
  <2> QED BY <2>1, <2>2
<1> HIDE DEF v, A
<1>3. SumFunction(v) \in Int
  BY <1>1, <1>2, SumTakesOut
<1> QED BY <1>3 DEF Worth, v, A

\* A step that leaves the book, the market and the day alone leaves the
\* value alone.
LEMMA ValueStays ==
    ASSUME UNCHANGED <<market, book, idx>>
    PROVE  Value' = Value /\ today' = today
  BY DEF Value, Held, today, CloseOnOrBefore, LastPrint, Prints

\* A trade keeps the ledger of a rebalance.
LEMMA TradeKeeps ==
    ASSUME Inv, Inv', TradeInv, UNCHANGED <<market, idx, decision, rebalances>>,
           pc \in {"sell", "buy", "afford"}, pc' \in {"sell", "buy", "afford"},
           decision.before <= Len(book'.events),
           book'.cash + Worth(book'.positions, Marks) + FillCosts(book'.events, decision.before)
              = Value + FillCosts(book.events, decision.before)
    PROVE  TradeInv'
<1>1. Value' = book'.cash + Worth(book'.positions, Marks)
  <2>1. Value' = book'.cash + Worth(book'.positions, Marks')
    <3> DEFINE v == [s \in Held' |-> book'.positions[s] * CloseOnOrBefore(market', s, today')]
               w == [s \in {t \in Sids : book'.positions[t] > 0} |->
                        book'.positions[s] * Marks'[s]]
    <3>1. v = w
      BY DEF Held, Marks
    <3> QED BY <3>1 DEF Value, Worth
  <2>2. Marks' = Marks
    BY DEF Marks, today, CloseOnOrBefore, LastPrint, Prints
  <2> QED BY <2>1, <2>2
<1>2. Value \in Int /\ Value' \in Int
  <2>1. /\ \A s \in Sids : Marks[s] \in Nat
        /\ \A s \in Sids : book.positions[s] \in Nat /\ book'.positions[s] \in Nat
        /\ book.cash \in Int /\ book'.cash \in Int
    BY MarksToday DEF Inv, Sound, Books
  <2> DEFINE p == book.positions
             q == book'.positions
             mark == Marks
  <2>2. \A s \in Sids : p[s] \in Nat /\ q[s] \in Nat /\ mark[s] \in Nat
    BY <2>1
  <2> HIDE DEF p, q, mark
  <2>3. Worth(p, mark) \in Int /\ Worth(q, mark) \in Int
    BY <2>2, WorthType
  <2> QED BY <1>1, <2>1, <2>3, ValueIsWorth DEF p, q, mark
<1>3. /\ FillCosts(book.events, decision.before) \in Int
      /\ FillCosts(book'.events, decision.before) \in Int
  <2>1. book.events \in Seq(LedgerEvents) /\ book'.events \in Seq(LedgerEvents)
        /\ decision.before \in Nat
    BY DEF Inv, Sound, Books, TradeInv
  <2> QED BY <2>1, FillsFinite
<1>4. Value = decision.value - FillCosts(book.events, decision.before) /\ decision.value \in Int
  BY DEF TradeInv
<1>5. Value' = decision.value - FillCosts(book'.events, decision.before)
  BY <1>1, <1>2, <1>3, <1>4
<1>6. today' = today /\ (FillCosts(book.events, decision.before))' = FillCosts(book'.events, decision.before)
  BY DEF today, FillCosts, TradeEvents
<1> QED
  BY <1>5, <1>6 DEF TradeInv, TradingLosesExactlyCosts

\* A step outside the rebalance leaves its rows alone.
LEMMA TradeQuiet ==
    ASSUME TradeInv, UNCHANGED <<rebalances, decision>>,
           pc' \notin {"sell", "buy", "afford"}, pc' = "mark" => today' \notin RebalanceDays
    PROVE  TradeInv'
  BY DEF TradeInv, TradingLosesExactlyCosts

\* A step of the rebalance that fills nothing leaves its ledger alone.
LEMMA TradeIdle ==
    ASSUME TradeInv, UNCHANGED <<market, book, idx, rebalances, decision>>,
           pc \in {"sell", "buy", "afford"}, pc' \in {"sell", "buy", "afford"}
    PROVE  TradeInv'
<1>1. Value' = Value /\ today' = today
  BY ValueStays
<1>2. (FillCosts(book.events, decision.before))' = FillCosts(book.events, decision.before)
  BY DEF FillCosts, TradeEvents
<1> QED BY <1>1, <1>2 DEF TradeInv, TradingLosesExactlyCosts

\* The decision opens the ledger of a rebalance.
LEMMA DecideTrade == Inv /\ TradeInv /\ Decide => TradeInv'
<1> SUFFICES ASSUME Inv, TradeInv, Decide PROVE TradeInv'
  OBVIOUS
<1>1. /\ UNCHANGED <<market, book, idx, rebalances>> /\ pc' = "sell" /\ today \in RebalanceDays
      /\ decision' = [value |-> Value, before |-> Len(book.events)]
  BY HoldingsMarkable DEF Decide
<1>2. Value' = Value /\ today' = today
  BY <1>1, ValueStays
<1>3. book.events \in Seq(LedgerEvents) /\ Len(book.events) \in Nat
  BY DEF Inv, Sound, Books
<1>4. Value \in Int
  <2>1. /\ \A s \in Sids : Marks[s] \in Nat /\ book.positions[s] \in Nat
        /\ book.cash \in Int
    BY MarksToday DEF Inv, Sound, Books
  <2> DEFINE p == book.positions
             mark == Marks
  <2>2. \A s \in Sids : p[s] \in Nat /\ mark[s] \in Nat
    BY <2>1
  <2> HIDE DEF p, mark
  <2>3. Worth(p, mark) \in Int
    BY <2>2, WorthType
  <2> QED BY <2>1, <2>3, ValueIsWorth DEF p, mark
<1>5. FillCosts(book.events, Len(book.events)) = 0
  <2> DEFINE n == Len(book.events)
             A == TradeEvents(book.events, n)
             v == [i \in A |-> book.events[i].costs]
  <2>1. A = {}
    BY <1>3 DEF TradeEvents
  <2>2. v \in [A -> Int] /\ IsFiniteSet(A)
    BY <2>1, FS_EmptySet
  <2>3. FillCosts(book.events, n) = SumFunction(v)
    BY DEF FillCosts
  <2> HIDE DEF v, A
  <2>4. SumFunction(v) = 0
    BY <2>1, <2>2, SumTakesOut
  <2> QED BY <2>3, <2>4
<1>6. (FillCosts(book.events, decision.before))' = FillCosts(book.events, Len(book.events))
  BY <1>1 DEF FillCosts, TradeEvents
<1> QED
  BY <1>1, <1>2, <1>3, <1>4, <1>5, <1>6 DEF TradeInv, TradingLosesExactlyCosts

\* A sale keeps the ledger of the rebalance.
LEMMA SellOrderTrade == Inv /\ Inv' /\ TradeInv /\ SellOrder => TradeInv'
<1> SUFFICES ASSUME Inv, Inv', TradeInv, SellOrder PROVE TradeInv'
  OBVIOUS
<1>1. PICK s \in todo :
        \/ UNCHANGED book
        \/ /\ PrintsToday(market, s, today) /\ ~Dust(s)
           /\ book' = Sell(book, s, -orders[s], market.close[s][today], SellCosts(s), today)
  BY DEF SellOrder
<1>2. /\ UNCHANGED <<market, idx, decision, rebalances>> /\ pc = "sell" /\ pc' = "sell"
      /\ s \in Sids /\ orders[s] \in Int /\ orders[s] < 0 /\ book.positions[s] + orders[s] >= 0
      /\ decision.before \in Nat /\ decision.before <= Len(book.events)
  BY <1>1 DEF SellOrder, At, Inv, LoopInv, OrdersInv, TradeInv
<1>3. CASE UNCHANGED book
  BY <1>2, <1>3, TradeIdle
<1>4. CASE /\ PrintsToday(market, s, today) /\ ~Dust(s)
           /\ book' = Sell(book, s, -orders[s], market.close[s][today], SellCosts(s), today)
  <2>1. /\ decision.before <= Len(book'.events)
        /\ book'.cash + Worth(book'.positions, Marks) + FillCosts(book'.events, decision.before)
           = Value + FillCosts(book.events, decision.before)
    BY <1>2, <1>4, SellAtMark
  <2> QED BY <1>2, <2>1, TradeKeeps
<1> QED BY <1>1, <1>3, <1>4

\* A purchase keeps the ledger of the rebalance.
LEMMA FillOrderTrade == Inv /\ Inv' /\ TradeInv /\ FillOrder => TradeInv'
<1> SUFFICES ASSUME Inv, Inv', TradeInv, FillOrder PROVE TradeInv'
  OBVIOUS
<1>1. PICK s \in todo :
        /\ NextBuy(s)
        /\ \/ UNCHANGED book
           \/ /\ trial > 0 /\ BuyTotal(s, trial) <= book.cash
              /\ book' = Buy(book, s, trial, market.close[s][today], BuyCosts(s, trial), today)
  BY DEF FillOrder
<1>2. /\ UNCHANGED <<market, idx, decision, rebalances>> /\ pc = "afford" /\ pc' = "buy"
      /\ s \in Sids /\ trial \in Int /\ PrintsToday(market, s, today)
      /\ decision.before \in Nat /\ decision.before <= Len(book.events)
  BY <1>1 DEF FillOrder, At, Inv, LoopInv, OrdersInv, TradeInv
<1>3. CASE UNCHANGED book
  BY <1>2, <1>3, TradeIdle
<1>4. CASE /\ trial > 0 /\ BuyTotal(s, trial) <= book.cash
           /\ book' = Buy(book, s, trial, market.close[s][today], BuyCosts(s, trial), today)
  <2>1. trial \in Nat \ {0}
    BY <1>2, <1>4
  <2>2. /\ decision.before <= Len(book'.events)
        /\ book'.cash + Worth(book'.positions, Marks) + FillCosts(book'.events, decision.before)
           = Value + FillCosts(book.events, decision.before)
    BY <1>2, <1>4, <2>1, BuyAtMark
  <2> QED BY <1>2, <2>2, TradeKeeps
<1> QED BY <1>1, <1>3, <1>4

\* The row the rebalance ends with states the costs of its fills.
LEMMA BuysDoneTrade == Inv /\ TradeInv /\ BuysDone => TradeInv'
<1> SUFFICES ASSUME Inv, TradeInv, BuysDone PROVE TradeInv'
  OBVIOUS
<1> DEFINE fills == TradeEvents(book.events, decision.before)
           traded == SumFunction([i \in fills |-> TradedValue(book.events[i])])
           paid == FillCosts(book.events, decision.before)
           row == [on |-> today, trades |-> Cardinality(fills), value |-> decision.value,
                   traded |-> traded, costs |-> paid]
<1>1. /\ UNCHANGED <<market, book, idx, decision>> /\ pc = "buy" /\ pc' = "mark"
      /\ rebalances' = Append(rebalances, row)
  BY DEF BuysDone, At, FillCosts
<1>2. book.events \in Seq(LedgerEvents) /\ decision.before \in Nat
  BY DEF Inv, Sound, Books, TradeInv
<1>3. IsFiniteSet(fills) /\ fills \subseteq 1 .. Len(book.events) /\ paid \in Int
  BY <1>2, FillsFinite
<1>4. traded \in Int
  <2> DEFINE v == [i \in fills |-> TradedValue(book.events[i])]
  <2>1. \A i \in 1 .. Len(book.events) : book.events[i] \in LedgerEvents
    BY <1>2
  <2>2. \A i \in fills : TradedValue(book.events[i]) \in Int
    BY <1>3, <2>1 DEF LedgerEvents, TradedValue
  <2>3. v \in [fills -> Int]
    <3> HIDE DEF fills
    <3> QED BY <2>2
  <2> HIDE DEF v, fills
  <2>4. SumFunction(v) \in Int
    BY <1>3, <2>3, SumTakesOut
  <2> QED BY <2>4 DEF v
<1>5. Cardinality(fills) \in Nat
  BY <1>3, FS_CardinalityType
<1> HIDE DEF fills, traded, paid
<1>6. row \in Rows
  BY <1>3, <1>4, <1>5, InvTypes DEF Rows, TradeInv
<1>7. /\ row.on = today /\ Value = row.value - row.costs
  BY <1>1 DEF TradeInv, paid
<1> HIDE DEF row
<1>8. rebalances' \in Seq(Rows) /\ rebalances'[Len(rebalances')] = row
  BY <1>1, <1>6 DEF TradeInv
<1>9. Value' = Value /\ today' = today
  BY <1>1, ValueStays
<1> QED
  BY <1>1, <1>7, <1>8, <1>9 DEF TradeInv, TradingLosesExactlyCosts

\* Every rebalance loses its costs and nothing else.
LEMMA TradeInvariance == Spec => []TradeInv
<1>1. Init => TradeInv
  BY DEF Init, TradeInv, TradingLosesExactlyCosts
<1>2. Inv /\ Inv' /\ TradeInv /\ [Next]_vars => TradeInv'
  <2> SUFFICES ASSUME Inv, Inv', TradeInv, [Next]_vars PROVE TradeInv'
    OBVIOUS
  <2>1. CASE ApplyAction
    BY <2>1, TradeQuiet DEF ApplyAction, At
  <2>2. CASE ActionsDone
    BY <2>2, TradeQuiet DEF ActionsDone
  <2>3. CASE ForceExitStale
    BY <2>3, TradeQuiet DEF ForceExitStale, At
  <2>4. CASE NoRebalance
    BY <2>4, TradeQuiet DEF NoRebalance, today
  <2>5. CASE SellsDone
    BY <2>5, TradeIdle DEF SellsDone, At
  <2>6. CASE BuyOrder
    BY <2>6, TradeIdle DEF BuyOrder, At
  <2>7. CASE ShrinkOrder
    BY <2>7, TradeIdle DEF ShrinkOrder, At
  <2>8. CASE MarkDay
    BY <2>8, TradeQuiet DEF MarkDay
  <2>9. CASE UNCHANGED vars
    <3>1. UNCHANGED <<market, book, idx, rebalances, decision, pc>>
      BY <2>9 DEF vars
    <3>2. Value' = Value /\ today' = today
      BY <3>1, ValueStays
    <3>3. (FillCosts(book.events, decision.before))' = FillCosts(book.events, decision.before)
      BY <3>1 DEF FillCosts, TradeEvents
    <3> QED BY <3>1, <3>2, <3>3 DEF TradeInv, TradingLosesExactlyCosts
  <2> QED
    BY <2>1, <2>2, <2>3, <2>4, <2>5, <2>6, <2>7, <2>8, <2>9, DecideTrade, SellOrderTrade,
       FillOrderTrade, BuysDoneTrade
       DEF Next, Step, Finished
<1> QED BY <1>1, <1>2, Invariance, PTL DEF Spec

-----------------------------------------------------------------------------
(***************************************************************************)
(* A dust sale is deferred only when the other sells cannot absorb it.     *)
(***************************************************************************)
Deferred(s) == Warning("dust_deferred", s) \in warnings

\* No sale is deferred before the day's sells; one that is could not be
\* paid for, and no sale still to come nets more than it does.
DeferInv ==
    /\ \A w \in warnings : w.on \in Nat /\ w.on <= today
    /\ pc \in {"actions", "stale"} => \A s \in Sids : ~Deferred(s)
    /\ pc = "sell" =>
          /\ \A s \in todo : ~Deferred(s)
          /\ \A s \in Sids : Deferred(s) =>
                /\ orders[s] < 0 /\ book.cash + SellProceeds(s) < 0
                /\ \A t \in todo : SellNet(t) <= SellProceeds(s)

\* A warning of today is not about another kind or security.
LEMMA WarningIs ==
    ASSUME NEW k, NEW l, NEW s, NEW t
    PROVE  /\ Warning(k, s) = Warning(l, t) <=> k = l /\ s = t
           /\ Warning(k, s).on = today
  BY DEF Warning

\* What a sale nets is an integer.
LEMMA SellNetType ==
    ASSUME Inv, NEW s \in Sids, orders[s] < 0
    PROVE  SellProceeds(s) \in Int /\ SellNet(s) \in Int
<1>1. orders[s] \in Int
  BY DEF Inv, LoopInv
<1> DEFINE close == market.close[s][today]
           shares == -orders[s]
           costs == SellCosts(s)
<1>2. close \in Nat /\ costs \in Nat /\ SellProceeds(s) = close * shares - costs /\ shares \in Nat
  BY <1>1, SellAmounts
<1> HIDE DEF close, shares, costs
<1>3. close * shares \in Nat
  BY <1>2, NatProduct
<1> QED BY <1>2, <1>3 DEF SellNet

\* A sale is deferred when its costs exceed the cash, the best being tried
\* first.
LEMMA SellOrderDefer == Inv /\ Inv' /\ DeferInv /\ SellOrder => DeferInv'
<1> SUFFICES ASSUME Inv, Inv', DeferInv, SellOrder PROVE DeferInv'
  OBVIOUS
<1>1. PICK u \in todo :
        /\ NextSell(u) /\ todo' = todo \ {u}
        /\ CASE ~PrintsToday(market, u, today) ->
                  warnings' = warnings \cup {Warning("no_print", u)} /\ book' = book
             [] PrintsToday(market, u, today) /\ Dust(u) ->
                  warnings' = warnings \cup {Warning("dust_deferred", u)} /\ book' = book
             [] OTHER ->
                  /\ book' = Sell(book, u, -orders[u], market.close[u][today], SellCosts(u), today)
                  /\ warnings' = warnings
  BY DEF SellOrder
<1>2. /\ UNCHANGED <<market, idx, orders>> /\ pc = "sell" /\ pc' = "sell" /\ today' = today
      /\ todo \subseteq Sids /\ u \in Sids /\ \A t \in todo : orders[t] < 0
      /\ today \in Nat
  BY <1>1, InvTypes DEF SellOrder, At, today, Inv, LoopInv, OrdersInv
<1>3. \A s \in Sids : SellProceeds(s)' = SellProceeds(s) /\ SellNet(s)' = SellNet(s)
  BY <1>2 DEF SellProceeds, SellNet, PrintsToday, LastPrint, Prints, MedianTradedValue, today
<1>4. \A s \in Sids : orders[s] < 0 => SellProceeds(s) \in Int /\ SellNet(s) \in Int
  BY SellNetType
<1>5. \A t \in todo : SellNet(t) <= SellNet(u)
  BY <1>1, <1>2, <1>4 DEF NextSell, SellsBefore
<1>6. ~Deferred(u) /\ orders[u] < 0 /\ book.cash \in Int
  BY <1>1, <1>2, InvTypes DEF DeferInv
<1>7. CASE ~PrintsToday(market, u, today)
  <2>1. warnings' = warnings \cup {Warning("no_print", u)} /\ book' = book
    BY <1>1, <1>7
  <2>2. \A s : Deferred(s)' <=> Deferred(s)
    BY <1>2, <2>1, WarningIs DEF Deferred, Warning
  <2>3. \A w \in warnings' : w.on \in Nat /\ w.on <= today
    BY <1>2, <2>1, WarningIs DEF DeferInv
  <2> QED BY <1>1, <1>2, <1>3, <2>1, <2>2, <2>3 DEF DeferInv
<1>8. CASE PrintsToday(market, u, today) /\ Dust(u)
  <2>1. warnings' = warnings \cup {Warning("dust_deferred", u)} /\ book' = book
    BY <1>1, <1>8
  <2>2. \A s : Deferred(s)' <=> Deferred(s) \/ s = u
    BY <1>2, <2>1, WarningIs DEF Deferred, Warning
  <2>3. \A w \in warnings' : w.on \in Nat /\ w.on <= today
    BY <1>2, <2>1, WarningIs DEF DeferInv
  <2>4. SellNet(u) = SellProceeds(u) /\ book.cash + SellProceeds(u) < 0
    BY <1>8 DEF SellNet, Dust
  <2> QED BY <1>1, <1>2, <1>3, <1>5, <1>6, <2>1, <2>2, <2>3, <2>4 DEF DeferInv
<1>9. CASE PrintsToday(market, u, today) /\ ~Dust(u)
  <2>1. warnings' = warnings
    BY <1>1, <1>9
  <2>2. SellNet(u) = SellProceeds(u) /\ ~(book.cash + SellProceeds(u) < 0)
    BY <1>9 DEF SellNet, Dust
  <2>3. \A s \in Sids : ~Deferred(s)
    <3> SUFFICES ASSUME NEW s \in Sids, Deferred(s) PROVE FALSE
      OBVIOUS
    <3>1. orders[s] < 0 /\ book.cash + SellProceeds(s) < 0 /\ SellNet(u) <= SellProceeds(s)
      BY <1>1, <1>2 DEF DeferInv
    <3>2. SellProceeds(s) \in Int /\ SellProceeds(u) \in Int
      BY <1>4, <1>6, <3>1, <1>2
    <3> QED BY <1>6, <2>2, <3>1, <3>2
  <2>4. \A s : Deferred(s)' <=> Deferred(s)
    BY <1>2, <2>1 DEF Deferred, Warning
  <2> QED BY <1>1, <1>2, <2>1, <2>3, <2>4 DEF DeferInv
<1> QED BY <1>7, <1>8, <1>9

\* A step of another day part: nothing is deferred by it.
LEMMA DeferIdle ==
    ASSUME Inv, DeferInv, UNCHANGED idx, pc' # "sell",
           pc' \in {"actions", "stale"} => pc \in {"actions", "stale"},
           NEW kind, kind # "dust_deferred",
           \A w \in warnings' : w \in warnings \/ \E s \in Sids : w = Warning(kind, s)
    PROVE  DeferInv'
<1>1. today' = today /\ today \in Nat
  BY InvTypes DEF today
<1>2. \A w \in warnings' : w.on \in Nat /\ w.on <= today
  BY <1>1, WarningIs DEF DeferInv
<1>3. \A s \in Sids : Deferred(s)' => Deferred(s)
  BY <1>1, WarningIs DEF Deferred, Warning
<1> QED BY <1>1, <1>2, <1>3 DEF DeferInv

\* The decision opens the day's sells, with none deferred.
LEMMA DecideDefer == Inv /\ DeferInv /\ Decide => DeferInv'
<1> SUFFICES ASSUME Inv, DeferInv, Decide PROVE DeferInv'
  OBVIOUS
<1>1. UNCHANGED <<idx, warnings>> /\ pc = "stale" /\ pc' = "sell" /\ todo' \subseteq Sids
  BY HoldingsMarkable DEF Decide, At
<1>2. today' = today /\ \A s \in Sids : ~Deferred(s) /\ ~Deferred(s)'
  BY <1>1 DEF today, DeferInv, Deferred, Warning
<1> QED BY <1>1, <1>2 DEF DeferInv

\* No warning is dated in the next session.
LEMMA MarkDayDefer == Inv /\ DeferInv /\ MarkDay => DeferInv'
<1> SUFFICES ASSUME Inv, DeferInv, MarkDay PROVE DeferInv'
  OBVIOUS
<1>1. /\ warnings' = warnings
      /\ \/ pc' = "done" /\ idx' = idx
         \/ pc' = "actions" /\ idx' = idx + 1 /\ idx # Len(Sessions)
  BY DEF MarkDay
<1>2. CASE pc' = "done" /\ idx' = idx
  BY <1>1, <1>2 DEF DeferInv, today
<1>3. CASE pc' = "actions" /\ idx' = idx + 1 /\ idx # Len(Sessions)
  <2>1. Len(Sessions) \in Nat /\ idx \in 1 .. Len(Sessions) /\ idx' \in 1 .. Len(Sessions)
        /\ idx < idx'
    BY <1>3, BacktestAssumption DEF Inv, LoopInv
  <2>2. today \in Nat /\ today' \in Nat /\ today < today'
    BY <2>1, TodayType, BacktestAssumption DEF today
  <2>3. \A w \in warnings' : w.on \in Nat /\ w.on < today'
    BY <1>1, <2>2 DEF DeferInv
  <2>4. \A s \in Sids : ~Deferred(s)'
    <3> SUFFICES ASSUME NEW s \in Sids, [on |-> today', kind |-> "dust_deferred", sid |-> s] \in warnings'
                 PROVE  FALSE
      BY DEF Deferred, Warning
    <3>1. [on |-> today', kind |-> "dust_deferred", sid |-> s].on < today'
      BY <2>3
    <3> QED BY <2>2, <3>1
  <2> QED BY <1>3, <2>2, <2>3, <2>4 DEF DeferInv
<1> QED BY <1>1, <1>2, <1>3

\* The deferred sales of a rebalance are the ones cash cannot absorb.
LEMMA DeferInvariance == Spec => []DeferInv
<1>1. Init => DeferInv
  BY DEF Init, DeferInv, Deferred
<1>2. Inv /\ Inv' /\ DeferInv /\ [Next]_vars => DeferInv'
  <2> SUFFICES ASSUME Inv, Inv', DeferInv, [Next]_vars PROVE DeferInv'
    OBVIOUS
  <2>0. todo \subseteq Sids
    BY DEF Inv, LoopInv
  <2>1. CASE ApplyAction
    <3>1. PICK j \in queue :
            \A w \in warnings' : w \in warnings \/ w = Warning("unconvertible", market.actions[j].sid)
      BY <2>1 DEF ApplyAction
    <3>2. market.actions[j].sid \in Sids
      <4>1. market.actions \in Seq(Actions) /\ j \in DOMAIN market.actions
        BY <3>1 DEF Inv, LoopInv, MarketType
      <4>2. market.actions[j] \in Actions
        BY <4>1
      <4> QED BY <4>2 DEF Actions
    <3>3. UNCHANGED idx /\ pc' = pc /\ pc = "actions"
      BY <2>1 DEF ApplyAction, At
    <3> QED BY <3>1, <3>2, <3>3, DeferIdle
  <2>2. CASE ActionsDone
    BY <2>2, DeferIdle DEF ActionsDone, At
  <2>3. CASE ForceExitStale
    <3>1. PICK s \in todo : \A w \in warnings' : w \in warnings \/ w = Warning("forced_exit", s)
      BY <2>3 DEF ForceExitStale
    <3>2. UNCHANGED idx /\ pc' = pc /\ pc = "stale"
      BY <2>3 DEF ForceExitStale, At
    <3> QED BY <2>0, <3>1, <3>2, DeferIdle
  <2>4. CASE NoRebalance
    BY <2>4, DeferIdle DEF NoRebalance
  <2>5. CASE SellsDone
    BY <2>5, DeferIdle DEF SellsDone
  <2>6. CASE BuyOrder
    <3>1. PICK s \in todo : \A w \in warnings' : w \in warnings \/ w = Warning("no_print", s)
      BY <2>6 DEF BuyOrder
    <3>2. UNCHANGED idx /\ pc' \in {"buy", "afford"}
      BY <2>6 DEF BuyOrder, At
    <3> QED BY <2>0, <3>1, <3>2, DeferIdle
  <2>7. CASE ShrinkOrder
    BY <2>7, DeferIdle DEF ShrinkOrder, At
  <2>8. CASE FillOrder
    BY <2>8, DeferIdle DEF FillOrder
  <2>9. CASE BuysDone
    <3>1. UNCHANGED <<idx, warnings>> /\ pc' = "mark"
      BY <2>9 DEF BuysDone
    <3> QED BY <3>1, DeferIdle
  <2>10. CASE UNCHANGED vars
    <3>1. UNCHANGED <<market, book, idx, pc, todo, orders, warnings>> /\ today' = today
      BY <2>10 DEF vars, today
    <3>2. \A s : (Deferred(s)' <=> Deferred(s)) /\ SellProceeds(s)' = SellProceeds(s)
                 /\ SellNet(s)' = SellNet(s)
      BY <3>1 DEF Deferred, Warning, SellProceeds, SellNet, PrintsToday, LastPrint, Prints,
                  MedianTradedValue
    <3> QED BY <3>1, <3>2 DEF DeferInv
  <2> QED
    BY <2>1, <2>2, <2>3, <2>4, <2>5, <2>6, <2>7, <2>8, <2>9, <2>10, DecideDefer,
       SellOrderDefer, MarkDayDefer
       DEF Next, Step, Finished
<1> QED BY <1>1, <1>2, Invariance, PTL DEF Spec

-----------------------------------------------------------------------------
(***************************************************************************)
(* An order is shrunk no further than cash demands.                        *)
(***************************************************************************)

\* What a charge of r in b costs on one share at close c.
PerShare(c, r, b) == (c * r) \div b

\* A charge that is whole for one share is proportional to the shares.
LEMMA ChargeProportional ==
    ASSUME NEW c \in Nat, NEW r \in Nat, NEW b \in Nat \ {0}, (c * r) % b = 0
    PROVE  /\ PerShare(c, r, b) \in Nat
           /\ \A n \in Nat : ((c * n) * r) \div b = PerShare(c, r, b) * n
<1> DEFINE x == c * r
           k == x \div b
<1>1. x \in Nat
  BY NatProduct
<1>2. k \in Nat /\ x = k * b
  <2> HIDE DEF x
  <2> QED BY <1>1, WholeQuotient DEF x
<1>0. k = PerShare(c, r, b)
  BY DEF PerShare
<1> HIDE DEF k
<1>3. ASSUME NEW n \in Nat
      PROVE  ((c * n) * r) \div b = k * n
  <2>1. (c * n) * r = x * n
    BY Z3
  <2> HIDE DEF x
  <2>2. x * n = (k * n) * b
    BY <1>2, Z3
  <2> DEFINE q == k * n
  <2>3. q \in Nat
    BY <1>2, NatProduct
  <2> HIDE DEF q
  <2>4. (q * b) \div b = q
    BY <2>3, ExactQuotient
  <2> QED BY <2>1, <2>2, <2>4 DEF q
<1> QED BY <1>0, <1>2, <1>3

\* Where costs are whole and impact is proportional, a purchase costs a
\* rate per share and a commission that is a rate per share or the minimum.
LEMMA TotalShape ==
    ASSUME Inv, WholeCosts, market \in Markets, NEW s \in Sids,
           MedianTradedValue(market, s, today) = 0
    PROVE  \E a, k, m \in Nat : \A n \in Nat :
              BuyTotal(s, n) = a * n + (IF k * n > m THEN k * n ELSE m)
<1> DEFINE c == market.close[s][today]
<1>1. /\ c \in Nat /\ Bps \in Nat \ {0} /\ 2 * Bps \in Nat \ {0}
      /\ CommissionBps \in Nat /\ SpreadBps \in Nat /\ StampBps \in Nat /\ ImpactBps \in Nat
      /\ CommissionMin \in Nat
  BY InvTypes, CloseType, CostAssumption
<1>2. /\ (c * CommissionBps) % Bps = 0 /\ (c * StampBps) % Bps = 0
      /\ (c * ImpactBps) % Bps = 0 /\ (c * SpreadBps) % (2 * Bps) = 0
  BY InvTypes DEF WholeCosts
<1> DEFINE twice == 2 * Bps
           k == PerShare(c, CommissionBps, Bps)
           st == PerShare(c, StampBps, Bps)
           im == PerShare(c, ImpactBps, Bps)
           sp == PerShare(c, SpreadBps, twice)
<1> HIDE DEF c, twice
<1>3. k \in Nat /\ \A n \in Nat : ((c * n) * CommissionBps) \div Bps = k * n
  BY <1>1, <1>2, ChargeProportional
<1>4. st \in Nat /\ \A n \in Nat : ((c * n) * StampBps) \div Bps = st * n
  BY <1>1, <1>2, ChargeProportional
<1>5. im \in Nat /\ \A n \in Nat : ((c * n) * ImpactBps) \div Bps = im * n
  BY <1>1, <1>2, ChargeProportional
<1>6. sp \in Nat /\ \A n \in Nat : ((c * n) * SpreadBps) \div twice = sp * n
  <2>1. twice \in Nat \ {0} /\ (c * SpreadBps) % twice = 0
    BY <1>1, <1>2 DEF twice
  <2> QED BY <1>1, <2>1, ChargeProportional
<1> HIDE DEF k, st, im, sp
<1> DEFINE duty == IF s \notin StampExempt THEN st ELSE 0
           a == c + sp + duty + im
           m == CommissionMin
<1>7. a \in Nat /\ m \in Nat /\ duty \in Nat
  BY <1>1, <1>4, <1>5, <1>6
<1>8. ASSUME NEW n \in Nat
      PROVE  BuyTotal(s, n) = a * n + (IF k * n > m THEN k * n ELSE m)
  <2> DEFINE fee == IF k * n > m THEN k * n ELSE m
             spread == sp * n
             stamp == duty * n
             impact == im * n
             notional == c * n
  <2>1. Commission(notional) = fee
    BY <1>3 DEF Commission
  <2>2. HalfSpread(notional) = spread
    BY <1>6 DEF HalfSpread, twice
  <2>3. StampDuty(s, "buy", notional) = stamp
    <3>1. s \in StampExempt => stamp = 0
      OBVIOUS
    <3>2. s \notin StampExempt => stamp = (notional * StampBps) \div Bps
      BY <1>4
    <3> QED BY <3>1, <3>2 DEF StampDuty
  <2>4. Impact(notional, 0) = impact
    BY <1>5 DEF Impact
  <2>5. fee \in Nat /\ spread \in Nat /\ stamp \in Nat /\ impact \in Nat /\ notional \in Nat
    BY <1>1, <1>3, <1>5, <1>6, <1>7, NatProduct
  <2>6. a * n = notional + spread + stamp + impact
    <3> HIDE DEF duty
    <3>1. \A x, y, z, w, v \in Nat : (x + y + z + w) * v = x * v + y * v + z * v + w * v
      BY Z3
    <3> QED BY <1>1, <1>5, <1>6, <1>7, <3>1
  <2>7. BuyTotal(s, n) = notional + (Commission(notional) + HalfSpread(notional)
                           + StampDuty(s, "buy", notional) + Impact(notional, 0))
    BY DEF BuyTotal, BuyCosts, Cost, c
  <2> DEFINE total == a * n
  <2>8. total = notional + spread + stamp + impact
    BY <2>6
  <2> HIDE DEF fee, spread, stamp, impact, notional, total
  <2>9. BuyTotal(s, n) = total + fee
    BY <2>1, <2>2, <2>3, <2>4, <2>5, <2>7, <2>8
  <2> QED BY <2>9 DEF total, fee
<1> HIDE DEF a, m
<1> QED BY <1>3, <1>7, <1>8

\* A larger order pays no more per share.
LEMMA AverageFalls ==
    ASSUME NEW a \in Nat, NEW k \in Nat, NEW m \in Nat, NEW i \in Nat, NEW j \in Nat, i <= j
    PROVE  i * (a * j + (IF k * j > m THEN k * j ELSE m))
             <= j * (a * i + (IF k * i > m THEN k * i ELSE m))
<1>1. i * (a * j) = j * (a * i) /\ i * (k * j) = j * (k * i)
  BY Z3
<1>2. k * i <= k * j /\ i * m <= j * m
  BY Z3
<1> DEFINE fi == IF k * i > m THEN k * i ELSE m
           fj == IF k * j > m THEN k * j ELSE m
<1>3. i * fj <= j * fi
  <2>1. CASE k * j > m
    <3>1. i * fj = j * (k * i) /\ k * i <= fi /\ k * i \in Nat /\ fi \in Nat
      BY <1>1, <2>1, NatProduct
    <3>2. \A x, y, z \in Nat : x <= y => z * x <= z * y
      BY Z3
    <3> HIDE DEF fi
    <3> QED BY <3>1, <3>2
  <2>2. CASE ~(k * j > m)
    <3>1. k * i \in Nat /\ k * j \in Nat
      BY NatProduct
    <3>2. fi = m /\ fj = m
      BY <1>2, <2>2, <3>1
    <3> QED BY <1>2, <3>2
  <2> QED BY <2>1, <2>2
<1>4. fi \in Nat /\ fj \in Nat /\ a * i \in Nat /\ a * j \in Nat
  BY NatProduct
<1> HIDE DEF fi, fj
<1>5. i * (a * j + fj) = i * (a * j) + i * fj /\ j * (a * i + fi) = j * (a * i) + j * fi
  <2>1. \A x, y, z \in Nat : x * (y + z) = x * y + x * z
    BY Z3
  <2> QED BY <1>4, <2>1
<1>6. i * (a * j) \in Nat /\ j * (a * i) \in Nat /\ i * fj \in Nat /\ j * fi \in Nat
  BY <1>4, NatProduct
<1> QED BY <1>1, <1>3, <1>5, <1>6 DEF fi, fj

\* What the shrunk order leaves out is unaffordable, where a larger order
\* pays no more per share.
LEMMA ShrunkUnaffordable ==
    ASSUME NEW m \in Nat \ {0}, NEW cash \in Nat, NEW total \in Nat, total > cash,
           NEW n \in Nat, n <= m, n > Shrunk(m, cash, total),
           NEW cost \in Nat, n = m => cost = total, n * total <= m * cost
    PROVE  cost > cash
<1> DEFINE q == (m * cash) \div total
<1>1. Shrunk(m, cash, total) = IF q < m - 1 THEN q ELSE m - 1
  BY DEF Shrunk
<1>2. m * cash \in Nat /\ total \in Nat \ {0}
  BY NatProduct
<1>3. q \in Nat /\ m * cash < (q + 1) * total
  <2> DEFINE x == m * cash
  <2> HIDE DEF x
  <2>1. \A y \in Nat : \A b \in Nat \ {0} : y \div b \in Nat /\ y < ((y \div b) + 1) * b
    BY Z3
  <2>2. x \in Nat /\ total \in Nat \ {0}
    BY <1>2 DEF x
  <2>3. x \div total \in Nat /\ x < ((x \div total) + 1) * total
    BY <2>1, <2>2
  <2> QED BY <2>3 DEF x
<1> HIDE DEF q
<1>4. CASE n = m
  BY <1>4
<1>5. CASE n < m
  <2>1. n > q
    BY <1>1, <1>3, <1>5
  <2>2. (q + 1) * total <= n * total
    <3>1. \A x, y, z \in Nat : x <= y => x * z <= y * z
      BY Z3
    <3>2. q + 1 \in Nat /\ q + 1 <= n
      BY <1>3, <2>1
    <3> QED BY <3>1, <3>2
  <2>3. m * cash < m * cost
    <3>1. (q + 1) * total \in Nat /\ n * total \in Nat /\ m * cost \in Nat
      BY <1>3, NatProduct
    <3> QED BY <1>2, <1>3, <2>2, <3>1
  <2>4. cost <= cash => m * cost <= m * cash
    BY Z3
  <2>5. m * cost \in Nat
    BY NatProduct
  <2> QED BY <1>2, <2>3, <2>4, <2>5
<1> QED BY <1>4, <1>5

\* Every share count the loop of _affordable_shares has passed over is
\* unaffordable.
LargestInv ==
    /\ market \in Markets
    /\ pc = "afford" =>
          \A s \in todo : NextBuy(s) /\ MedianTradedValue(market, s, today) = 0 =>
              /\ trial <= orders[s]
              /\ \A n \in 1 .. orders[s] : n > trial => BuyTotal(s, n) > book.cash

\* The security to buy next is one.
LEMMA NextBuyOne ==
    ASSUME Inv, NEW s \in todo, NEW t \in todo, NextBuy(s), NextBuy(t)
    PROVE  s = t
<1>1. s \in Int /\ t \in Int
  BY SidsAssumption DEF Inv, LoopInv
<1> QED BY <1>1 DEF NextBuy

\* One round of _affordable_shares passes over no affordable count.
LEMMA ShrinkOrderLargest ==
    ASSUME WholeCosts
    PROVE  Inv /\ LargestInv /\ ShrinkOrder => LargestInv'
<1> SUFFICES ASSUME Inv, LargestInv, ShrinkOrder PROVE LargestInv'
  OBVIOUS
<1>1. PICK s \in todo :
        /\ NextBuy(s) /\ BuyTotal(s, trial) > book.cash
        /\ trial' = Shrunk(trial, book.cash, BuyTotal(s, trial))
  BY DEF ShrinkOrder
<1>2. /\ UNCHANGED <<market, book, idx, pc, todo, orders>> /\ pc = "afford" /\ today' = today
      /\ s \in Sids /\ todo \subseteq Sids /\ trial \in Nat \ {0} /\ orders \in [Sids -> Int]
      /\ book.cash \in Nat /\ market \in Markets
  BY <1>1, InvTypes DEF ShrinkOrder, At, today, Inv, LoopInv, LargestInv
<1>3. BuyTotal(s, trial) \in Nat
  BY <1>2, BuyAmounts
<1>4. trial' \in Int /\ trial' <= trial - 1
  <2> DEFINE total == BuyTotal(s, trial)
             cash == book.cash
             q == (trial * cash) \div total
  <2>1. trial' = IF q < trial - 1 THEN q ELSE trial - 1
    BY <1>1 DEF Shrunk
  <2>2. q \in Nat
    <3>1. total \in Nat \ {0} /\ cash \in Nat
      BY <1>1, <1>2, <1>3
    <3> HIDE DEF total, cash
    <3>2. trial * cash \in Nat
      BY <1>2, <3>1, NatProduct
    <3> QED BY <3>1, <3>2, NatQuotient
  <2> HIDE DEF q
  <2> QED BY <1>2, <2>1, <2>2
<1>5. ASSUME NEW t \in todo, NextBuy(t), MedianTradedValue(market, t, today) = 0
      PROVE  /\ trial' <= orders[t]
             /\ \A n \in 1 .. orders[t] : n > trial' => BuyTotal(t, n) > book.cash
  <2>1. t = s
    BY <1>1, <1>5, NextBuyOne
  <2>2. /\ trial <= orders[s] /\ orders[s] \in Int
        /\ \A n \in 1 .. orders[s] : n > trial => BuyTotal(s, n) > book.cash
    BY <1>2, <1>5, <2>1 DEF LargestInv
  <2>3. ASSUME NEW n \in Nat, n <= trial, n > trial'
        PROVE  BuyTotal(s, n) > book.cash
    <3>1. PICK a, k, m \in Nat : \A i \in Nat :
            BuyTotal(s, i) = a * i + (IF k * i > m THEN k * i ELSE m)
      BY <1>2, <1>5, <2>1, TotalShape
    <3>2. n * BuyTotal(s, trial) <= trial * BuyTotal(s, n)
      <4>1. BuyTotal(s, trial) = a * trial + (IF k * trial > m THEN k * trial ELSE m)
            /\ BuyTotal(s, n) = a * n + (IF k * n > m THEN k * n ELSE m)
        BY <1>2, <3>1
      <4>2. n * (a * trial + (IF k * trial > m THEN k * trial ELSE m))
              <= trial * (a * n + (IF k * n > m THEN k * n ELSE m))
        BY <1>2, <2>3, AverageFalls
      <4> QED BY <4>1, <4>2
    <3> DEFINE total == BuyTotal(s, trial)
               price == BuyTotal(s, n)
               cash == book.cash
    <3>3. total \in Nat /\ price \in Nat /\ cash \in Nat /\ total > cash
          /\ (n = trial => price = total) /\ n > Shrunk(trial, cash, total)
      BY <1>1, <1>2, <1>3, <2>3, BuyAmounts
    <3>4. n * total <= trial * price
      BY <3>2
    <3> HIDE DEF total, price, cash
    <3>5. price > cash
      BY <1>2, <2>3, <3>3, <3>4, ShrunkUnaffordable
    <3> QED BY <3>5 DEF price, cash
  <2>4. \A n \in 1 .. orders[s] : n > trial' => n \in Nat /\ (n <= trial \/ n > trial)
    BY <1>2, <2>2
  <2> QED BY <1>2, <1>4, <2>1, <2>2, <2>3, <2>4
<1>6. \A t \in Sids : /\ NextBuy(t)' <=> NextBuy(t)
                      /\ MedianTradedValue(market, t, today)' = MedianTradedValue(market, t, today)
                      /\ \A n : BuyTotal(t, n)' = BuyTotal(t, n)
  BY <1>2 DEF NextBuy, BuyTotal, BuyCosts, MedianTradedValue, Prints
<1> QED BY <1>2, <1>5, <1>6 DEF LargestInv

\* The loop starts from the whole order: nothing is passed over.
LEMMA BuyOrderLargest == Inv /\ LargestInv /\ BuyOrder => LargestInv'
<1> SUFFICES ASSUME Inv, LargestInv, BuyOrder PROVE LargestInv'
  OBVIOUS
<1>1. PICK s \in todo :
        /\ NextBuy(s)
        /\ \/ pc' = "afford" /\ trial' = orders[s] /\ todo' = todo
           \/ pc' = pc
  BY DEF BuyOrder
<1>2. UNCHANGED <<market, orders>> /\ pc = "buy" /\ s \in Sids /\ orders \in [Sids -> Int]
  BY <1>1 DEF BuyOrder, At, Inv, LoopInv
<1>3. CASE pc' = pc
  BY <1>2, <1>3 DEF LargestInv
<1>4. CASE pc' = "afford" /\ trial' = orders[s] /\ todo' = todo
  <2>1. \A t \in todo' : NextBuy(t)' => t = s
    BY <1>1, <1>4, NextBuyOne DEF NextBuy
  <2>2. orders[s] \in Int
    BY <1>2
  <2> QED BY <1>2, <1>4, <2>1, <2>2 DEF LargestInv
<1> QED BY <1>1, <1>3, <1>4

\* Where costs are whole, the loop passes over nothing affordable.
LEMMA LargestInvariance == ASSUME WholeCosts PROVE Spec => []LargestInv
<1>1. Init => LargestInv
  BY DEF Init, LargestInv
<1>2. Inv /\ LargestInv /\ [Next]_vars => LargestInv'
  <2> SUFFICES ASSUME Inv, LargestInv, [Next]_vars PROVE LargestInv'
    OBVIOUS
  <2>1. CASE UNCHANGED vars
    <3>1. UNCHANGED <<market, book, idx, pc, todo, orders, trial>> /\ today' = today
      BY <2>1 DEF vars, today
    <3>2. \A t : /\ NextBuy(t)' <=> NextBuy(t)
                 /\ MedianTradedValue(market, t, today)' = MedianTradedValue(market, t, today)
                 /\ \A n : BuyTotal(t, n)' = BuyTotal(t, n)
      BY <3>1 DEF NextBuy, BuyTotal, BuyCosts, MedianTradedValue, Prints
    <3> QED BY <3>1, <3>2 DEF LargestInv
  <2>2. CASE ApplyAction \/ ActionsDone \/ ForceExitStale \/ NoRebalance \/ Decide \/ SellOrder
             \/ SellsDone \/ FillOrder \/ BuysDone \/ MarkDay
    <3>1. market' = market /\ pc' # "afford"
      BY <2>2, HoldingsMarkable
         DEF ApplyAction, ActionsDone, ForceExitStale, NoRebalance, Decide, SellOrder, SellsDone,
             FillOrder, BuysDone, MarkDay, At
    <3> QED BY <3>1 DEF LargestInv
  <2> QED
    BY <2>1, <2>2, ShrinkOrderLargest, BuyOrderLargest DEF Next, Step, Finished
<1> QED BY <1>1, <1>2, Invariance, PTL DEF Spec

(***************************************************************************)
(* For every dataset, calendar and strategy, and every cost configuration  *)
(* the ledger's unit can express: a rebalance drops a sale only when the   *)
(* cash of all the other sells cannot absorb its costs, shrinks a purchase *)
(* no further than cash demands, and is worth afterwards exactly what it   *)
(* was worth before, less the costs it reports (BacktestEngine._execute,   *)
(* _affordable_shares).                                                    *)
(***************************************************************************)
THEOREM RebalancesSettle ==
    ASSUME WholeCosts
    PROVE  Spec => []RebalanceSettled
<1>1. Inv /\ DeferInv /\ LargestInv /\ TradeInv => RebalanceSettled
  <2> SUFFICES ASSUME Inv, DeferInv, LargestInv, TradeInv PROVE RebalanceSettled
    OBVIOUS
  <2>1. DeferredOnlyIfUnaffordable
    BY DEF DeferInv, DeferredOnlyIfUnaffordable, Deferred
  <2>2. LargestAtConstantImpact
    <3> SUFFICES ASSUME NEW s \in todo, Settled(s), MedianTradedValue(market, s, today) = 0,
                        NEW n \in 1 .. orders[s], BuyTotal(s, n) <= book.cash, ~(n <= trial)
                 PROVE  FALSE
      BY DEF LargestAtConstantImpact, IsLargest
    <3>1. s \in Sids /\ trial \in Int /\ orders[s] \in Int /\ book.cash \in Nat
      BY InvTypes DEF Inv, LoopInv
    <3>2. n \in Nat /\ n > trial
      BY <3>1
    <3>3. BuyTotal(s, n) > book.cash
      BY <3>2 DEF LargestInv, Settled
    <3>4. BuyTotal(s, n) \in Nat
      BY <3>1, <3>2, BuyAmounts
    <3> QED BY <3>1, <3>3, <3>4
  <2> QED BY <2>1, <2>2 DEF RebalanceSettled, TradeInv
<1> QED
  BY Invariance, DeferInvariance, LargestInvariance, TradeInvariance, <1>1, PTL

(***************************************************************************)
(* What a rebalance loses is what its row reports, for every cost          *)
(* configuration.                                                          *)
(***************************************************************************)
THEOREM TradingLosesItsCosts == Spec => []TradingLosesExactlyCosts
<1>1. TradeInv => TradingLosesExactlyCosts
  BY DEF TradeInv
<1> QED BY TradeInvariance, <1>1, PTL

-----------------------------------------------------------------------------
\* So it logs at most two.
Logs(b, c, E) ==
    \/ c.events = b.events
    \/ \E e \in E : c.events = Append(b.events, e)
    \/ \E e, f \in E : c.events = Append(Append(b.events, e), f)

LEMMA RecordsLog ==
    ASSUME NEW b \in Books, NEW E, \A e \in E : Recordable(e), NEW c, Records(b, c, E)
    PROVE  Logs(b, c, E)
<1>1. ASSUME NEW e \in E
      PROVE  /\ Record(b, e) \in Books
             /\ Record(b, e).events \in {b.events, Append(b.events, e)}
  BY RecordType, RecordLogs
<1>2. ASSUME NEW e \in E, NEW f \in E
      PROVE  Record(Record(b, e), f).events \in
                {b.events, Append(b.events, e), Append(b.events, f), Append(Append(b.events, e), f)}
  <2>1. /\ Record(b, e) \in Books /\ Recordable(f)
        /\ Record(b, e).events \in {b.events, Append(b.events, e)}
    BY <1>1
  <2>2. Record(Record(b, e), f).events \in {Record(b, e).events, Append(Record(b, e).events, f)}
    BY <2>1, RecordLogs
  <2> QED  BY <2>1, <2>2
<1> QED  BY <1>1, <1>2 DEF Records, Logs

-----------------------------------------------------------------------------
\* HeldBefore, of a log
HeldIn(events, s, day) ==
    SumOf([i \in 1 .. Len(events) |->
              IF events[i].sid = s /\ events[i].on < day THEN events[i].qty ELSE 0])

\* Later events do not change what was held before a day.
LEMMA HeldStays ==
    ASSUME NEW events \in Seq(LedgerEvents), NEW e \in LedgerEvents, NEW s, NEW day \in Nat,
           day <= e.on
    PROVE  HeldIn(Append(events, e), s, day) = HeldIn(events, s, day)
<1> DEFINE more == Append(events, e)
           v == [i \in 1 .. Len(events) |->
                    IF events[i].sid = s /\ events[i].on < day THEN events[i].qty ELSE 0]
           w == [i \in 1 .. Len(more) |->
                    IF more[i].sid = s /\ more[i].on < day THEN more[i].qty ELSE 0]
<1>1. /\ Len(events) \in Nat /\ Len(more) = Len(events) + 1 /\ more[Len(events) + 1] = e
      /\ \A i \in 1 .. Len(events) : more[i] = events[i] /\ events[i] \in LedgerEvents
  OBVIOUS
<1> HIDE DEF more
<1>2. /\ e.on \in Nat /\ ~(e.on < day)
      /\ \A i \in 1 .. Len(events) : events[i].qty \in Int
  <2>1. \A f \in LedgerEvents : f.on \in Nat /\ f.qty \in Int
    BY DEF LedgerEvents
  <2>2. e.on \in Nat /\ ~(e.on < day)
    BY <2>1
  <2> HIDE DEF LedgerEvents
  <2> QED  BY <1>1, <2>1, <2>2
<1>3. v \in Seq(Int) /\ Len(v) = Len(events)
  BY <1>1, <1>2
<1>4. w = Append(v, 0)
  BY <1>1, <1>2, <1>3
<1>5. HeldIn(events, s, day) = SumOf(v) /\ HeldIn(more, s, day) = SumOf(w)
  BY DEF HeldIn
<1> HIDE DEF v, w
<1>6. SumOf(v) \in Int /\ SumOf(w) = SumOf(v) + 0
  BY <1>3, <1>4, SumOfAppend
<1> QED  BY <1>5, <1>6 DEF more

\* Where no share moved on a day, what was held before it is what is held.
Dated(events, day) == \A i \in DOMAIN events : events[i].on <= day

Still(events, day) == \A i \in DOMAIN events : events[i].on = day => events[i].qty = 0

LEMMA HeldNow ==
    ASSUME NEW events \in Seq(LedgerEvents), NEW s \in Sids, NEW day \in Nat,
           Dated(events, day), Still(events, day)
    PROVE  HeldIn(events, s, day) = ReplayPositions(events)[s]
<1> DEFINE v == [i \in 1 .. Len(events) |->
                    IF events[i].sid = s /\ events[i].on < day THEN events[i].qty ELSE 0]
           w == [i \in 1 .. Len(events) |-> IF events[i].sid = s THEN events[i].qty ELSE 0]
<1>1. ASSUME NEW i \in 1 .. Len(events)
      PROVE  v[i] = w[i]
  <2>1. /\ events[i].on \in Nat /\ events[i].on <= day
        /\ events[i].on = day => events[i].qty = 0
    <3>1. events[i] \in LedgerEvents /\ i \in DOMAIN events
      OBVIOUS
    <3> QED  BY <3>1 DEF Dated, Still, LedgerEvents
  <2>2. events[i].on < day \/ events[i].qty = 0
    BY <2>1
  <2> QED  BY <2>2
<1>2. v = w
  BY <1>1
<1> QED  BY <1>2 DEF HeldIn, ReplayPositions
-----------------------------------------------------------------------------
(***************************************************************************)
(* Dividends that are due and known get credited.                          *)
(***************************************************************************)

\* The day a dividend falls due is the day it becomes effective.
LEMMA DueIs ==
    ASSUME NEW a \in Actions
    PROVE  Due(a) = Effective(a) /\ Due(a) \in Nat
<1>1. a.ex \in Nat /\ a.avail \in Nat
  BY MarketAssumption DEF Actions, Days
<1>2. Effective(a) \in {a.ex, a.avail} /\ \A d \in {a.ex, a.avail} : d <= Effective(a)
  BY <1>1 DEF Effective
<1>3. Due(a) \in {a.ex, a.avail} /\ \A d \in {a.ex, a.avail} : Due(a) >= d
  BY <1>1, <1>2 DEF Due, Max
<1> QED  BY <1>1, <1>2, <1>3

\* A dividend of the run that can be paid
Payable(a) == a.kind = "dividend" /\ a.unit # "EUR" /\ Start <= Due(a)

\* It was credited, if the security was held.
Credited(events, a) ==
    HeldIn(events, a.sid, Due(a)) > 0 =>
        \E i \in DOMAIN events :
            events[i].kind = "dividend" /\ events[i].sid = a.sid /\ events[i].on >= Due(a)

(***************************************************************************)
(* The log is of the past; the actions of a session are applied in their   *)
(* order, so until its last dividend is credited no share has moved; and   *)
(* what is due, and not in the queue, was credited.                        *)
(***************************************************************************)
CreditInv ==
    /\ market \in Markets
    /\ Dated(book.events, today)
    /\ pc = "actions" =>
          /\ \A j \in ActionsOn(market, today) \ queue, k \in queue : j < k
          /\ (\E k \in queue : market.actions[k].kind = "dividend") => Still(book.events, today)
    /\ \A j \in DOMAIN market.actions :
          /\ Payable(market.actions[j]) /\ Due(market.actions[j]) <= today
          /\ ~(pc = "actions" /\ j \in queue)
          => Credited(book.events, market.actions[j])

\* What is logged later takes no credit back.
LEMMA CreditStays ==
    ASSUME NEW events \in Seq(LedgerEvents), NEW e \in LedgerEvents, NEW a \in Actions,
           Due(a) <= e.on, Credited(events, a)
    PROVE  Credited(Append(events, e), a)
<1> DEFINE more == Append(events, e)
<1>1. HeldIn(more, a.sid, Due(a)) = HeldIn(events, a.sid, Due(a))
  BY DueIs, HeldStays
<1>2. \A i \in DOMAIN events : i \in DOMAIN more /\ more[i] = events[i]
  OBVIOUS
<1> HIDE DEF more
<1> QED  BY <1>1, <1>2, Zenon DEF Credited, more

LEMMA DatedAppend ==
    ASSUME NEW events \in Seq(LedgerEvents), NEW e \in LedgerEvents, NEW day \in Nat,
           Dated(events, day), e.on = day
    PROVE  /\ Append(events, e) \in Seq(LedgerEvents) /\ Dated(Append(events, e), day)
           /\ Still(events, day) /\ e.qty = 0 => Still(Append(events, e), day)
  BY DEF Dated, Still

\* The same of what an operation logs.
LEMMA LogStays ==
    ASSUME NEW b \in Books, NEW c, NEW day \in Nat, Dated(b.events, day),
           NEW E, \A e \in E : e \in LedgerEvents /\ e.on = day, Logs(b, c, E)
    PROVE  /\ Dated(c.events, day)
           /\ \A a \in Actions : Due(a) <= day /\ Credited(b.events, a) => Credited(c.events, a)
           /\ Still(b.events, day) /\ (\A e \in E : e.qty = 0) => Still(c.events, day)
<1>1. b.events \in Seq(LedgerEvents)
  BY DEF Books
<1>2. ASSUME NEW events \in Seq(LedgerEvents), Dated(events, day), NEW e \in E
      PROVE  /\ Append(events, e) \in Seq(LedgerEvents) /\ Dated(Append(events, e), day)
             /\ \A a \in Actions : Due(a) <= day /\ Credited(events, a)
                                       => Credited(Append(events, e), a)
             /\ Still(events, day) /\ (\A f \in E : f.qty = 0) => Still(Append(events, e), day)
  BY <1>2, DatedAppend, CreditStays
<1>3. CASE c.events = b.events
  BY <1>3
<1>4. ASSUME NEW e \in E, c.events = Append(b.events, e)
      PROVE  /\ Dated(c.events, day)
             /\ \A a \in Actions : Due(a) <= day /\ Credited(b.events, a)
                                       => Credited(c.events, a)
             /\ Still(b.events, day) /\ (\A f \in E : f.qty = 0) => Still(c.events, day)
  BY <1>1, <1>2, <1>4
<1>5. ASSUME NEW e \in E, NEW f \in E, c.events = Append(Append(b.events, e), f)
      PROVE  /\ Dated(c.events, day)
             /\ \A a \in Actions : Due(a) <= day /\ Credited(b.events, a)
                                       => Credited(c.events, a)
             /\ Still(b.events, day) /\ (\A g \in E : g.qty = 0) => Still(c.events, day)
  <2> DEFINE middle == Append(b.events, e)
  <2>1. /\ middle \in Seq(LedgerEvents) /\ Dated(middle, day)
        /\ \A a \in Actions : Due(a) <= day /\ Credited(b.events, a) => Credited(middle, a)
        /\ Still(b.events, day) /\ (\A g \in E : g.qty = 0) => Still(middle, day)
    BY <1>1, <1>2
  <2> HIDE DEF middle
  <2>2. c.events = Append(middle, f)
    BY <1>5 DEF middle
  <2> QED  BY <1>2, <2>1, <2>2
<1> QED  BY <1>3, <1>4, <1>5 DEF Logs

LEMMA ActionOf ==
    ASSUME Inv, NEW j \in DOMAIN market.actions
    PROVE  market.actions[j] \in Actions
<1>1. market.actions \in Seq(Actions)
  BY DEF Inv, LoopInv, MarketType
<1> QED  BY <1>1

\* Steps outside the loop over the actions, whatever they log.
LEMMA CreditOutside ==
    ASSUME Inv, CreditInv, NEW E, \A e \in E : e \in LedgerEvents /\ e.on = today,
           Logs(book, book', E), UNCHANGED <<market, idx>>, pc' # "actions",
           pc = "actions" => queue = {}
    PROVE  CreditInv'
<1>1. book \in Books /\ today \in Nat /\ today' = today
  BY InvTypes DEF Inv, Sound, today
<1>2. Dated(book.events, today)
  BY DEF CreditInv
<1>3. /\ Dated(book'.events, today)
      /\ \A a \in Actions : Due(a) <= today /\ Credited(book.events, a) => Credited(book'.events, a)
  BY <1>1, <1>2, LogStays
<1>4. ASSUME NEW j \in DOMAIN market.actions, Payable(market.actions[j]),
             Due(market.actions[j]) <= today
      PROVE  Credited(book'.events, market.actions[j])
  <2>1. Credited(book.events, market.actions[j])
    BY <1>4 DEF CreditInv
  <2> QED  BY <1>3, <1>4, <2>1, ActionOf
<1> QED  BY <1>1, <1>3, <1>4 DEF CreditInv

\* A sale of the rebalance, and a purchase
LEMMA TradeRecords ==
    ASSUME NEW b \in Books, NEW s \in Sids, NEW on \in Nat, NEW shares \in Nat \ {0},
           NEW price \in Nat, NEW costs \in Nat
    PROVE  /\ Records(b, Buy(b, s, shares, price, costs, on), EventsOf(s, on))
           /\ Records(b, Sell(b, s, shares, price, costs, on), EventsOf(s, on))
<1> DEFINE notional == price * shares
           e == Event(on, "buy", s, shares, -(notional + costs), costs)
           f == Event(on, "sell", s, -shares, notional - costs, costs)
<1>1. notional \in Nat
  BY NatProduct
<1>2. Buy(b, s, shares, price, costs, on) = Record(b, e)
      /\ Sell(b, s, shares, price, costs, on) = Record(b, f)
  BY DEF Buy, Sell
<1> HIDE DEF notional
<1>3. Recordable(e) /\ Recordable(f)
  <2>1. -(notional + costs) \in Int /\ notional - costs \in Int /\ -shares \in Int
    BY <1>1
  <2> QED BY <2>1, EventRecordable DEF Kinds
<1>4. e.sid = s /\ e.on = on /\ f.sid = s /\ f.on = on
  BY DEF Event
<1> HIDE DEF e, f
<1> QED BY <1>2, <1>3, <1>4 DEF Records, EventsOf, Recordable

\* What is recorded of a security today is logged today.
LEMMA RecordsToday ==
    ASSUME Inv, NEW s \in Sids, NEW c, Records(book, c, EventsOf(s, today))
    PROVE  /\ \A e \in EventsOf(s, today) : e \in LedgerEvents /\ e.on = today
           /\ Logs(book, c, EventsOf(s, today))
  BY RecordsLog DEF EventsOf, Recordable, Inv, Sound

LEMMA ForceExitStaleCredit == Inv /\ CreditInv /\ ForceExitStale => CreditInv'
<1> SUFFICES ASSUME Inv, CreditInv, ForceExitStale PROVE CreditInv'
  OBVIOUS
<1>1. PICK s \in todo :
         IF Stale(s)
         THEN book' = ResolveDelisting(book, s, CloseOnOrBefore(market, s, today), today)
         ELSE UNCHANGED book
  BY DEF ForceExitStale
<1>2. UNCHANGED <<market, idx, pc>> /\ pc = "stale" /\ s \in Sids
  BY <1>1 DEF ForceExitStale, At, Inv, LoopInv
<1>3. Records(book, book', EventsOf(s, today))
  <2> DEFINE close == CloseOnOrBefore(market, s, today)
  <2>1. close \in Nat \cup {NoTerms} /\ today \in Nat
    BY <1>2, InvTypes, CloseFound
  <2>2. book \in Books /\ book.positions[s] \in Nat
    BY <1>2, InvTypes DEF Inv, Sound
  <2>3. book' = ResolveDelisting(book, s, close, today) \/ book' = book
    BY <1>1
  <2> HIDE DEF close
  <2> QED BY <1>2, <2>1, <2>2, <2>3, ActionRecords DEF Records
<1> QED  BY <1>2, <1>3, RecordsToday, CreditOutside

LEMMA SellOrderCredit == Inv /\ CreditInv /\ SellOrder => CreditInv'
<1> SUFFICES ASSUME Inv, CreditInv, SellOrder PROVE CreditInv'
  OBVIOUS
<1>1. PICK s \in todo :
        \/ UNCHANGED book
        \/ book' = Sell(book, s, -orders[s], market.close[s][today], SellCosts(s), today)
  BY DEF SellOrder
<1>2. /\ UNCHANGED <<market, idx, pc>> /\ pc = "sell"
      /\ s \in Sids /\ orders \in [Sids -> Int] /\ orders[s] < 0
  BY <1>1 DEF SellOrder, At, Inv, LoopInv, OrdersInv
<1>3. Records(book, book', EventsOf(s, today))
  <2> DEFINE shares == -orders[s]
             price == market.close[s][today]
             costs == SellCosts(s)
  <2>1. shares \in Nat \ {0} /\ book \in Books /\ today \in Nat
    BY <1>2, InvTypes DEF Inv, Sound
  <2>2. price \in Nat /\ costs \in Nat
    BY <1>2, SellAmounts
  <2>3. book' = book \/ book' = Sell(book, s, shares, price, costs, today)
    BY <1>1
  <2> HIDE DEF shares, price, costs
  <2> QED BY <1>2, <2>1, <2>2, <2>3, TradeRecords DEF Records
<1> QED  BY <1>2, <1>3, RecordsToday, CreditOutside

LEMMA FillOrderCredit == Inv /\ CreditInv /\ FillOrder => CreditInv'
<1> SUFFICES ASSUME Inv, CreditInv, FillOrder PROVE CreditInv'
  OBVIOUS
<1>1. PICK s \in todo :
        \/ UNCHANGED book
        \/ /\ trial > 0
           /\ book' = Buy(book, s, trial, market.close[s][today], BuyCosts(s, trial), today)
  BY DEF FillOrder
<1>2. UNCHANGED <<market, idx>> /\ pc = "afford" /\ pc' = "buy" /\ s \in Sids /\ trial \in Int
  BY <1>1 DEF FillOrder, At, Inv, LoopInv
<1>3. Records(book, book', EventsOf(s, today))
  <2>1. CASE UNCHANGED book
    BY <2>1 DEF Records
  <2>2. CASE /\ trial > 0
             /\ book' = Buy(book, s, trial, market.close[s][today], BuyCosts(s, trial), today)
    <3> DEFINE price == market.close[s][today]
               costs == BuyCosts(s, trial)
    <3>1. trial \in Nat \ {0} /\ book \in Books /\ today \in Nat
      BY <1>2, <2>2, InvTypes DEF Inv, Sound
    <3>2. price \in Nat /\ costs \in Nat
      BY <1>2, <3>1, BuyAmounts
    <3>3. book' = Buy(book, s, trial, price, costs, today)
      BY <2>2
    <3> HIDE DEF price, costs
    <3> QED BY <1>2, <3>1, <3>2, <3>3, TradeRecords
  <2> QED BY <1>1, <2>1, <2>2
<1> QED  BY <1>2, <1>3, RecordsToday, CreditOutside

\* What _apply_actions records for an action
LEMMA AppliedRecords ==
    ASSUME Inv, NEW a \in Actions
    PROVE  /\ Records(book, AppliedTo(book, a), EventsOf(a.sid, today))
           /\ a.kind = "dividend" =>
                 Records(book, AppliedTo(book, a), {e \in EventsOf(a.sid, today) : e.qty = 0})
<1> DEFINE close == CloseOnOrBefore(market, a.sid, today)
           cash == ToQuoteUnit(a.amount, a.unit)
           p == IF cash = Unconvertible THEN NoTerms ELSE cash
           q == CASE a.reason = "failure" -> 0
                  [] a.reason # "failure" /\ close # None -> close
                  [] OTHER -> NoTerms
           c == AppliedTo(book, a)
<1>1. /\ a.sid \in Sids /\ a.new \in Nat \ {0} /\ a.old \in Nat \ {0} /\ a.amount \in Nat
      /\ today \in Days /\ today \in Nat
  BY TodayType DEF Inv, LoopInv, Actions, today
<1>2. close \in Nat
  BY <1>1, CloseFound DEF Inv, LoopInv
<1>3. cash # Unconvertible => cash \in Nat
  <2>1. a.amount * MinorUnits \in Nat
    BY <1>1, MarketAssumption, NatProduct
  <2> QED BY <1>1, <2>1 DEF ToQuoteUnit
<1>4. book \in Books /\ book.positions[a.sid] \in Nat
  BY <1>1, InvTypes DEF Inv, Sound
<1>5. p \in Nat \cup {NoTerms} /\ q \in Nat \cup {NoTerms}
  <2> HIDE DEF close, cash
  <2> QED BY <1>2, <1>3
<1>6. CASE a.kind = "dividend"
  <2>1. c = book \/ (cash # Unconvertible /\ c = CreditDividend(book, a.sid, cash, today))
    BY <1>6 DEF AppliedTo
  <2> HIDE DEF cash, c
  <2>2. Records(book, c, {e \in EventsOf(a.sid, today) : e.qty = 0})
    BY <1>1, <1>3, <1>4, <2>1, ActionRecords DEF Records
  <2>3. Records(book, c, EventsOf(a.sid, today))
    BY <2>2 DEF Records
  <2> QED  BY <2>2, <2>3 DEF c
<1>7. CASE a.kind # "dividend"
  <2>1. \/ c = book
        \/ c = ApplySplit(book, a.sid, a.new, a.old, close, today)
        \/ c = ResolveDelisting(book, a.sid, p, today)
        \/ c = ResolveDelisting(book, a.sid, q, today)
    <3>1. CASE a.kind = "split"
      BY <3>1 DEF AppliedTo
    <3>2. CASE a.kind = "merger"
      BY <3>2 DEF AppliedTo
    <3>3. CASE a.kind = "delisting"
      BY <3>3 DEF AppliedTo
    <3>4. CASE a.kind \notin {"split", "dividend", "merger", "delisting"}
      BY <3>4 DEF AppliedTo
    <3> QED BY <1>7, <3>1, <3>2, <3>3, <3>4
  <2> HIDE DEF close, cash, p, q, c
  <2>2. Records(book, c, EventsOf(a.sid, today))
    BY <1>1, <1>2, <1>4, <1>5, <2>1, ActionRecords DEF Records
  <2> QED  BY <1>7, <2>2 DEF c
<1> QED  BY <1>6, <1>7

\* A dividend on a holding is logged.
LEMMA DividendLogged ==
    ASSUME NEW b \in Books, NEW s \in Sids, NEW perShare, NEW on,
           b.positions[s] > 0, ~CreditDividend(b, s, perShare, on).raised
    PROVE  \E i \in DOMAIN CreditDividend(b, s, perShare, on).events :
              LET e == CreditDividend(b, s, perShare, on).events[i]
              IN  e.kind = "dividend" /\ e.sid = s /\ e.on = on
<1> DEFINE c == CreditDividend(b, s, perShare, on)
           e == Event(on, "dividend", s, 0, perShare * b.positions[s], 0)
<1>1. b.positions[s] \in Int /\ b.events \in Seq(LedgerEvents)
  BY DEF Books
<1>2. c = Record(b, e)
  BY <1>1 DEF CreditDividend
<1>3. e.kind = "dividend" /\ e.sid = s /\ e.on = on
  BY DEF Event
<1> HIDE DEF e
<1>4. c.events = Append(b.events, e)
  BY <1>2 DEF Record, Books
<1> HIDE DEF c
<1>5. Len(b.events) + 1 \in DOMAIN c.events /\ c.events[Len(b.events) + 1] = e
  BY <1>1, <1>4
<1> QED  BY <1>3, <1>5 DEF c

\* Applying an action of the session
LEMMA ApplyActionCredit ==
    ASSUME DividendsFirst(Markets), Inv, KnownInv, CreditInv, ApplyAction
    PROVE  CreditInv'
<1>1. PICK j \in queue : /\ book' = AppliedTo(book, market.actions[j]) /\ queue' = queue \ {j}
                         /\ \A k \in queue : j <= k
  BY DEF ApplyAction
<1>2. /\ UNCHANGED <<market, idx, pc>> /\ pc = "actions" /\ today' = today
      /\ today \in Nat /\ book \in Books /\ market \in Markets
  BY InvTypes DEF ApplyAction, At, today, Inv, Sound, CreditInv
<1>3. /\ queue \subseteq ActionsOn(market, today) /\ queue \subseteq DOMAIN market.actions
      /\ ActionsOn(market, today) \subseteq DOMAIN market.actions
      /\ DOMAIN market.actions \subseteq Nat
  <2>1. market.actions \in Seq(Actions)
    BY DEF Inv, LoopInv, MarketType
  <2> QED  BY <1>2, <2>1 DEF KnownInv, ActionsOn
<1> DEFINE a == market.actions[j]
<1>4. a \in Actions /\ Due(a) = today /\ j \in DOMAIN market.actions
  <2>1. a \in Actions /\ j \in DOMAIN market.actions
    BY <1>1, <1>3, ActionOf
  <2>2. Effective(a) = today
    BY <1>1, <1>3 DEF ActionsOn
  <2> QED  BY <2>1, <2>2, DueIs
<1>5. /\ Records(book, book', EventsOf(a.sid, today))
      /\ a.kind = "dividend" => Records(book, book', {e \in EventsOf(a.sid, today) : e.qty = 0})
      /\ Sound(book') /\ OpensNothing(book, book')
  BY <1>1, <1>4, AppliedRecords, AppliedSound
<1>6. Dated(book.events, today)
  BY DEF CreditInv
<1>7. /\ Dated(book'.events, today)
      /\ \A b \in Actions : Due(b) <= today /\ Credited(book.events, b) => Credited(book'.events, b)
  <2>1. a.sid \in Sids
    BY <1>4 DEF Actions
  <2>2. /\ \A e \in EventsOf(a.sid, today) : e \in LedgerEvents /\ e.on = today
        /\ Logs(book, book', EventsOf(a.sid, today))
    BY <1>5, <2>1, RecordsToday
  <2> QED  BY <1>2, <1>6, <2>2, LogStays
<1>8. a.kind = "dividend" => Still(book.events, today) /\ Still(book'.events, today)
  <2> SUFFICES ASSUME a.kind = "dividend"
               PROVE  Still(book.events, today) /\ Still(book'.events, today)
    OBVIOUS
  <2>1. Still(book.events, today)
    BY <1>1, <1>2 DEF CreditInv
  <2> DEFINE E == {e \in EventsOf(a.sid, today) : e.qty = 0}
  <2>2. \A e \in E : e \in LedgerEvents /\ e.on = today /\ e.qty = 0 /\ Recordable(e)
    BY <1>4 DEF EventsOf, Actions, Recordable
  <2>3. Records(book, book', E)
    BY <1>5
  <2> HIDE DEF E
  <2>4. Logs(book, book', E)
    BY <1>2, <2>2, <2>3, RecordsLog
  <2> QED  BY <1>2, <1>6, <2>1, <2>2, <2>4, LogStays
<1>9. \A i \in ActionsOn(market, today) \ queue', k \in queue' : i < k
  <2>1. \A i \in ActionsOn(market, today) \ queue, k \in queue : i < k
    BY <1>2 DEF CreditInv
  <2> QED  BY <1>1, <1>3, <2>1
<1>10. (\E k \in queue' : market.actions[k].kind = "dividend") => Still(book'.events, today)
  <2> SUFFICES ASSUME NEW k \in queue', market.actions[k].kind = "dividend"
               PROVE  a.kind = "dividend"
    BY <1>8
  <2>1. k \in DOMAIN market.actions /\ j <= k /\ k \in Nat /\ j \in Nat
    BY <1>1, <1>3
  <2>2. a.kind # "dividend" => k < j
    BY <1>2, <1>4, <2>1 DEF DividendsFirst
  <2> QED  BY <2>1, <2>2
<1>11. ASSUME NEW i \in DOMAIN market.actions, Payable(market.actions[i]),
              Due(market.actions[i]) <= today, i \notin queue'
       PROVE  Credited(book'.events, market.actions[i])
  <2>1. CASE i # j
    <3>1. Credited(book.events, market.actions[i])
      BY <1>1, <1>2, <1>11, <2>1 DEF CreditInv
    <3> QED  BY <1>7, <1>11, <3>1, ActionOf
  <2>2. CASE i = j
    <3> SUFFICES ASSUME HeldIn(book'.events, a.sid, today) > 0
                 PROVE  \E n \in DOMAIN book'.events :
                           /\ book'.events[n].kind = "dividend" /\ book'.events[n].sid = a.sid
                           /\ book'.events[n].on >= today
      BY <1>4, <2>2 DEF Credited
    <3>1. a.kind = "dividend" /\ a.unit # "EUR" /\ a.sid \in Sids
      BY <1>4, <1>11, <2>2 DEF Payable, Actions
    <3>2. book.positions[a.sid] > 0
      <4>1. book'.events \in Seq(LedgerEvents) /\ ReplayPositions(book'.events) = book'.positions
        BY <1>5 DEF Sound, Books, Replays
      <4>2. HeldIn(book'.events, a.sid, today) = ReplayPositions(book'.events)[a.sid]
        BY <1>2, <1>7, <1>8, <3>1, <4>1, HeldNow
      <4> QED  BY <1>5, <3>1, <4>1, <4>2 DEF OpensNothing
    <3> DEFINE cash == ToQuoteUnit(a.amount, a.unit)
    <3>3. book' = CreditDividend(book, a.sid, cash, today)
      <4>1. a.unit \in {"GBX", "GBP"} /\ a.amount \in Nat
        BY <1>4, <3>1 DEF Actions
      <4>2. cash # Unconvertible
        <5>1. a.amount * MinorUnits \in Nat
          BY <4>1, MarketAssumption, NatProduct
        <5> QED  BY <4>1, <5>1 DEF ToQuoteUnit, Unconvertible
      <4> QED  BY <1>1, <3>1, <4>2 DEF AppliedTo
    <3>4. ~book'.raised
      BY <1>5 DEF Sound
    <3> HIDE DEF cash
    <3>5. \E n \in DOMAIN book'.events : /\ book'.events[n].kind = "dividend"
                                         /\ book'.events[n].sid = a.sid /\ book'.events[n].on = today
      BY <1>2, <3>1, <3>2, <3>3, <3>4, DividendLogged
    <3> QED  BY <1>2, <3>5
  <2> QED  BY <2>1, <2>2
<1> QED  BY <1>2, <1>7, <1>9, <1>10, <1>11 DEF CreditInv

\* A dividend due by a session, and not on it, was due by the session before.
LEMMA DueBefore ==
    ASSUME DueOnSessions(Markets), market \in Markets, NEW j \in DOMAIN market.actions,
           market.actions[j] \in Actions, Payable(market.actions[j]),
           NEW n \in 1 .. Len(Sessions),
           Due(market.actions[j]) <= Sessions[n], Due(market.actions[j]) # Sessions[n]
    PROVE  n # 1 /\ Due(market.actions[j]) <= Sessions[n - 1]
<1> DEFINE due == Due(market.actions[j])
           last == Len(Sessions)
<1>1. last \in Nat /\ last \in 1 .. last /\ due \in Nat
  BY BacktestAssumption, DueIs
<1>2. \A i \in 1 .. last : Sessions[i] \in Nat
  BY TodayType
<1>3. \A i, k \in 1 .. last : i < k => Sessions[i] < Sessions[k]
  BY BacktestAssumption
<1>4. Sessions[n] <= Sessions[last]
  BY <1>1, <1>2, <1>3
<1>5. due <= Sessions[last]
  BY <1>1, <1>2, <1>4
<1>6. PICK i \in DOMAIN Sessions : Sessions[i] = due
  BY <1>5, Zenon DEF DueOnSessions, Payable, due, last
<1>7. i \in 1 .. last
  BY BacktestAssumption
<1>8. i < n
  BY <1>1, <1>2, <1>3, <1>6, <1>7
<1>9. n - 1 \in 1 .. last /\ (i = n - 1 \/ i < n - 1)
  BY <1>1, <1>7, <1>8
<1>10. Sessions[i] <= Sessions[n - 1]
  BY <1>2, <1>3, <1>7, <1>9
<1> QED  BY <1>6, <1>8, <1>7, <1>10

\* The next session
LEMMA MarkDayCredit ==
    ASSUME DueOnSessions(Markets), Inv, CreditInv, MarkDay
    PROVE  CreditInv'
<1>1. Markable /\ Replays(book)
  BY HoldingsMarkable DEF Inv, Sound
<1>2. /\ UNCHANGED <<market, book>> /\ pc = "mark" /\ market \in Markets
      /\ \/ idx' = idx /\ pc' = "done"
         \/ /\ idx # Len(Sessions) /\ idx' = idx + 1 /\ pc' = "actions"
            /\ queue' = ActionsOn(market, Sessions[idx + 1])
  BY <1>1 DEF MarkDay, At, CreditInv
<1>3. Dated(book.events, today) /\ idx \in 1 .. Len(Sessions) /\ Len(Sessions) \in Nat
  BY BacktestAssumption DEF CreditInv, Inv, LoopInv
<1>4. CASE idx' = idx /\ pc' = "done"
  <2>1. today' = today
    BY <1>4 DEF today
  <2> QED  BY <1>2, <1>4, <2>1 DEF CreditInv
<1>5. CASE /\ idx # Len(Sessions) /\ idx' = idx + 1 /\ pc' = "actions"
           /\ queue' = ActionsOn(market, Sessions[idx + 1])
  <2> DEFINE next == Sessions[idx + 1]
  <2>1. today' = next /\ idx + 1 \in 1 .. Len(Sessions)
    BY <1>3, <1>5 DEF today
  <2>2. today \in Nat /\ next \in Nat /\ today < next
    BY <1>3, <2>1, TodayType, BacktestAssumption DEF today
  <2>3. \A i \in DOMAIN book.events : book.events[i].on \in Nat
    <3>1. book.events \in Seq(LedgerEvents)
      BY DEF Inv, Sound, Books
    <3>2. \A i \in DOMAIN book.events : book.events[i] \in LedgerEvents
      BY <3>1
    <3> QED  BY <3>2 DEF LedgerEvents
  <2>4. Dated(book.events, next) /\ Still(book.events, next)
    BY <1>3, <2>2, <2>3 DEF Dated, Still
  <2>5. ASSUME NEW j \in DOMAIN market.actions, Payable(market.actions[j]),
               Due(market.actions[j]) <= next, j \notin queue'
        PROVE  Credited(book.events, market.actions[j])
    <3>1. market.actions[j] \in Actions
      BY ActionOf
    <3>2. Due(market.actions[j]) # next
      BY <1>5, <2>5, <3>1, DueIs DEF ActionsOn
    <3>3. Due(market.actions[j]) <= Sessions[(idx + 1) - 1]
      BY <1>2, <2>1, <2>5, <3>1, <3>2, DueBefore
    <3>4. Due(market.actions[j]) <= today
      BY <1>3, <3>3 DEF today
    <3> QED  BY <1>2, <2>5, <3>4 DEF CreditInv
  <2> HIDE DEF next
  <2>6. ActionsOn(market, next) = queue'
    BY <1>5 DEF next
  <2> QED  BY <1>2, <1>5, <2>1, <2>4, <2>5, <2>6 DEF CreditInv
<1> QED  BY <1>2, <1>4, <1>5

\* Nothing is due before the first session.
LEMMA InitCredit ==
    ASSUME DueOnSessions(Markets), Init
    PROVE  CreditInv
<1>1. /\ market \in Markets /\ book = NewPortfolio(Start) /\ idx = 1 /\ pc = "actions"
      /\ queue = ActionsOn(market, Sessions[1]) /\ today = Sessions[1]
  BY DEF Init, today
<1>2. 1 \in 1 .. Len(Sessions) /\ Start <= Sessions[1] /\ today \in Nat /\ Start \in Nat
  BY <1>1, BacktestAssumption, MarketAssumption, TodayType DEF Days
<1>3. \A i \in DOMAIN book.events : book.events[i].on = Start /\ book.events[i].qty = 0
  BY <1>1 DEF NewPortfolio, Event
<1>4. Dated(book.events, today) /\ Still(book.events, today)
  BY <1>1, <1>2, <1>3 DEF Dated, Still
<1>5. ASSUME NEW j \in DOMAIN market.actions, Payable(market.actions[j]),
             Due(market.actions[j]) <= today
      PROVE  j \in queue
  <2>1. market.actions[j] \in Actions
    <3>1. market.actions \in Seq(Actions)
      BY <1>1, BacktestAssumption DEF MarketType
    <3> QED  BY <3>1
  <2>2. Due(market.actions[j]) = Sessions[1]
    BY <1>1, <1>2, <1>5, <2>1, DueBefore
  <2> QED  BY <1>1, <2>1, <2>2, DueIs DEF ActionsOn
<1> QED  BY <1>1, <1>4, <1>5 DEF CreditInv

LEMMA CreditInvariance ==
    ASSUME DividendsFirst(Markets), DueOnSessions(Markets)
    PROVE  Spec => []CreditInv
<1>1. Init => CreditInv
  BY InitCredit
<1>2. ASSUME Inv, KnownInv, CreditInv, [Next]_vars
      PROVE  CreditInv'
  <2>1. /\ \A e \in {} : e \in LedgerEvents /\ e.on = today
        /\ UNCHANGED book => Logs(book, book', {})
    BY DEF Logs
  <2>2. CASE ActionsDone
    BY <1>2, <2>1, <2>2, CreditOutside DEF ActionsDone, At
  <2>3. CASE NoRebalance
    BY <1>2, <2>1, <2>3, CreditOutside DEF NoRebalance, At
  <2>4. CASE Decide
    <3>1. UNCHANGED <<market, book, idx>> /\ pc = "stale" /\ pc' = "sell"
      BY <1>2, <2>4, HoldingsMarkable DEF Decide, At
    <3> QED  BY <1>2, <2>1, <3>1, CreditOutside
  <2>5. CASE SellsDone
    BY <1>2, <2>1, <2>5, CreditOutside DEF SellsDone, At
  <2>6. CASE BuyOrder
    <3>1. UNCHANGED <<market, book, idx>> /\ pc = "buy" /\ pc' # "actions"
      BY <2>6 DEF BuyOrder, At
    <3> QED  BY <1>2, <2>1, <3>1, CreditOutside
  <2>7. CASE ShrinkOrder
    BY <1>2, <2>1, <2>7, CreditOutside DEF ShrinkOrder, At
  <2>8. CASE BuysDone
    BY <1>2, <2>1, <2>8, CreditOutside DEF BuysDone, At
  <2>9. CASE UNCHANGED vars
    BY <1>2, <2>9 DEF vars, CreditInv, today
  <2> QED
    BY <1>2, <2>2, <2>3, <2>4, <2>5, <2>6, <2>7, <2>8, <2>9, ApplyActionCredit,
       ForceExitStaleCredit, SellOrderCredit, FillOrderCredit, MarkDayCredit
       DEF Next, Step, Finished
<1> QED BY <1>1, <1>2, Invariance, KnownInvariance, PTL DEF Spec

(***************************************************************************)
(* For every dataset whose dividends fall due, and are known, on sessions  *)
(* and come before the other actions, as load_actions lists them, every    *)
(* calendar, cost configuration and strategy: a dividend of the run on a   *)
(* security held up to the day it is due and known is credited             *)
(* (BacktestEngine._apply_actions).                                        *)
(***************************************************************************)
THEOREM DividendsCredited ==
    ASSUME DividendsFirst(Markets), DueOnSessions(Markets)
    PROVE  Spec => []EffectiveDividendsCredited
<1>1. CreditInv => EffectiveDividendsCredited
  <2> SUFFICES ASSUME CreditInv, pc = "done", NEW j \in DOMAIN market.actions,
                      Payable(market.actions[j]), Due(market.actions[j]) <= today,
                      HeldBefore(market.actions[j].sid, Due(market.actions[j])) > 0
               PROVE  \E i \in DOMAIN book.events :
                         /\ book.events[i].kind = "dividend"
                         /\ book.events[i].sid = market.actions[j].sid
                         /\ book.events[i].on >= Due(market.actions[j])
    BY DEF EffectiveDividendsCredited, Payable
  <2>1. Credited(book.events, market.actions[j])
    BY DEF CreditInv
  <2> QED  BY <2>1 DEF Credited, HeldIn, HeldBefore
<1> QED
  BY CreditInvariance, <1>1, PTL
=============================================================================
