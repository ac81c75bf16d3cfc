----------------------------- MODULE Portfolio -----------------------------
(***************************************************************************)
(* The portfolio ledger (trp/backtest/portfolio.py): cash, whole-share     *)
(* positions and an append-only event log.  Every mutation goes through    *)
(* Record, the model of Portfolio._record, which updates positions and     *)
(* cash BEFORE it checks that cash stays non-negative: a LedgerError       *)
(* raised by that check leaves the object mutated and the event unlogged.  *)
(*                                                                         *)
(* Money is an integer number of ledger units.  The code uses Decimal and  *)
(* Fraction, exact for these sums; the one division (cash in lieu) is      *)
(* exact whenever the denominator divides the mark, which the model runs   *)
(* arrange by choosing marks divisible by every old_shares.                *)
(***************************************************************************)
EXTENDS Integers, Sequences

CONSTANTS
    Sids,           \* security ids: strings in the code, here integers, for sorted()
    NoSid,          \* the security of an event that has none (a deposit)
    InitialCash     \* config.initial_cash, in ledger units

ASSUME SidsAssumption == Sids \subseteq Int

ASSUME PortfolioAssumption ==
    /\ NoSid \notin Sids
    /\ InitialCash \in Nat \ {0}

VARIABLE book      \* the portfolio object of a run

NoTerms == -1   \* proceeds_per_share is None: the terms are unknown

Kinds == {"deposit", "buy", "sell", "dividend", "split", "cash_in_lieu",
          "delisting_proceeds", "delisting_writeoff"}

LedgerEvents == [on : Nat, kind : Kinds, sid : Sids \cup {NoSid},
                 qty : Int, cash : Int, costs : Nat]

Books == [cash : Int, positions : [Sids -> Int], events : Seq(LedgerEvents),
          raised : BOOLEAN]

Event(on, kind, sid, qty, amount, costs) ==
    [on |-> on, kind |-> kind, sid |-> sid, qty |-> qty, cash |-> amount,
     costs |-> costs]

(***************************************************************************)
(* Portfolio.__init__: an empty book plus the deposit of the initial cash. *)
(***************************************************************************)
NewPortfolio(on) ==
    [cash |-> InitialCash,
     positions |-> [s \in Sids |-> 0],
     events |-> <<Event(on, "deposit", NoSid, 0, InitialCash, 0)>>,
     raised |-> FALSE]

(***************************************************************************)
(* Portfolio._record.  A position absent from the dict is a zero entry.    *)
(***************************************************************************)
Record(b, e) ==
    LET quantity == b.positions[e.sid] + e.qty
        cashAfter == b.cash + e.cash
        moved == [b EXCEPT !.positions[e.sid] = quantity, !.cash = cashAfter]
    IN  IF quantity < 0
        THEN [b EXCEPT !.raised = TRUE]
        ELSE IF cashAfter < 0
             THEN [moved EXCEPT !.raised = TRUE]
             ELSE [moved EXCEPT !.events = Append(@, e)]

Raise(b) == [b EXCEPT !.raised = TRUE]

\* Portfolio.buy
Buy(b, s, shares, price, costs, on) ==
    IF shares <= 0
    THEN Raise(b)
    ELSE Record(b, Event(on, "buy", s, shares, -(price * shares + costs), costs))

\* Portfolio.sell
Sell(b, s, shares, price, costs, on) ==
    IF shares <= 0
    THEN Raise(b)
    ELSE Record(b, Event(on, "sell", s, -shares, price * shares - costs, costs))

\* Portfolio.credit_dividend
CreditDividend(b, s, perShare, on) ==
    IF b.positions[s] <= 0
    THEN b
    ELSE Record(b, Event(on, "dividend", s, 0, perShare * b.positions[s], 0))

\* Mutant: cash in lieu is added to the balance without an event.
ApplySplitUnloggedCash(b, s, new, old, mark, on) ==
    LET held == b.positions[s]
        split == Record(b, Event(on, "split", s, (held * new) \div old - held, 0, 0))
    IN  IF held <= 0
        THEN b
        ELSE [split EXCEPT !.cash = @ + (mark * ((held * new) % old)) \div old]

\* Mutant: the remainder is taken over the wrong denominator.
ApplySplitWrongDenominator(b, s, new, old, mark, on) ==
    LET held == b.positions[s]
        remainder == (held * new) % old
        split == Record(b, Event(on, "split", s, (held * new) \div old - held, 0, 0))
    IN  IF held <= 0
        THEN b
        ELSE IF remainder = 0
             THEN split
             ELSE Record(split, Event(on, "cash_in_lieu", s, 0,
                                      (mark * remainder) \div new, 0))

(***************************************************************************)
(* Portfolio.apply_split: whole shares are the floor of held * new / old;  *)
(* a fractional remainder is paid in cash at the mark, as a second event.  *)
(***************************************************************************)
ApplySplit(b, s, new, old, mark, on) ==
    LET held == b.positions[s]
        whole == (held * new) \div old
        remainder == (held * new) % old
        split == Record(b, Event(on, "split", s, whole - held, 0, 0))
    IN  IF held <= 0
        THEN b
        ELSE IF remainder = 0
             THEN split
             ELSE Record(split, Event(on, "cash_in_lieu", s, 0,
                                      (mark * remainder) \div old, 0))

\* Portfolio.resolve_delisting: unknown terms are written off to zero
ResolveDelisting(b, s, proceeds, on) ==
    LET held == b.positions[s]
    IN  IF held <= 0
        THEN b
        ELSE IF proceeds = NoTerms
             THEN Record(b, Event(on, "delisting_writeoff", s, -held, 0, 0))
             ELSE Record(b, Event(on, "delisting_proceeds", s, -held,
                                  proceeds * held, 0))

(***************************************************************************)
(* The sum of a sequence of integers, as its sequence of partial sums.     *)
(***************************************************************************)
PartialSums(v) ==
    LET total[i \in 0 .. Len(v)] == IF i = 0 THEN 0 ELSE total[i - 1] + v[i]
    IN  total

SumOf(v) == PartialSums(v)[Len(v)]

(***************************************************************************)
(* portfolio.replay: cash and positions reconstructed from the log alone.  *)
(***************************************************************************)
ReplayCash(events) == SumOf([i \in 1 .. Len(events) |-> events[i].cash])

ReplayPositions(events) ==
    [s \in Sids |->
        SumOf([i \in 1 .. Len(events) |->
                  IF events[i].sid = s THEN events[i].qty ELSE 0])]

Replays(b) == /\ ReplayCash(b.events) = b.cash
              /\ ReplayPositions(b.events) = b.positions

-----------------------------------------------------------------------------
\* The book has its type; cash and positions are integers even after an error.
TypeOK == book \in Books

(***************************************************************************)
(* The accounting identity of portfolio.py: whatever sequence of buys,     *)
(* sells, dividends, splits and delistings was made, replaying the log     *)
(* gives back exactly the cash and the positions.                          *)
(***************************************************************************)
AccountingIdentity == ~book.raised => Replays(book)
=============================================================================
