--------------------------- MODULE PortfolioCalls ---------------------------
(***************************************************************************)
(* The ledger on its own: one Portfolio object under any sequence of calls *)
(* of its public operations, with any arguments its callers could pass.    *)
(* A caller that lets a LedgerError escape makes no further call: nothing  *)
(* in the repository catches one.                                          *)
(***************************************************************************)
EXTENDS Portfolio

CONSTANTS
    Prices,         \* marks, fill prices and per-share amounts a caller passes
    ShareCounts,    \* share counts a caller passes to buy and sell
    CostAmounts,    \* trade costs a caller passes
    SplitRatios,    \* <<new_shares, old_shares>> pairs
    MaxEvents       \* bound: no operation starts on a log this long

ASSUME CallsAssumption ==
    /\ Prices \subseteq Nat \ {0}
    /\ ShareCounts \subseteq Int
    /\ CostAmounts \subseteq Nat
    /\ SplitRatios \subseteq (Nat \ {0}) \X (Nat \ {0})
    /\ MaxEvents \in Nat

CallsInit == book = NewPortfolio(0)

Callable == ~book.raised /\ Len(book.events) < MaxEvents

BuyCall == /\ Callable
           /\ \E s \in Sids, n \in ShareCounts, p \in Prices, c \in CostAmounts :
                 book' = Buy(book, s, n, p, c, Len(book.events))

SellCall == /\ Callable
            /\ \E s \in Sids, n \in ShareCounts, p \in Prices, c \in CostAmounts :
                  book' = Sell(book, s, n, p, c, Len(book.events))

DividendCall == /\ Callable
                /\ \E s \in Sids, p \in Prices :
                      book' = CreditDividend(book, s, p, Len(book.events))

SplitCall == /\ Callable
             /\ \E s \in Sids, r \in SplitRatios, p \in Prices :
                   book' = ApplySplit(book, s, r[1], r[2], p, Len(book.events))

DelistingCall == /\ Callable
                 /\ \E s \in Sids, p \in Prices \cup {0, NoTerms} :
                       book' = ResolveDelisting(book, s, p, Len(book.events))

CallsNext == BuyCall \/ SellCall \/ DividendCall \/ SplitCall \/ DelistingCall

CallsSpec == CallsInit /\ [][CallsNext]_book

-----------------------------------------------------------------------------
(***************************************************************************)
(* The ledger's unit is fine enough for a fraction of a share, at a mark,  *)
(* to be a whole number of it: the code's Decimals round nothing.          *)
(***************************************************************************)
WholeCashInLieu == \A r \in SplitRatios, p \in Prices : p % r[2] = 0

Appended == SubSeq(book'.events, Len(book.events) + 1, Len(book'.events))

(***************************************************************************)
(* A split or consolidation neither creates nor destroys value at the mark *)
(* it is given: the shares after it plus the cash paid in lieu are worth   *)
(* exactly held * new / old shares (Portfolio.apply_split).                *)
(***************************************************************************)
SplitKeepsValue ==
    [][\A s \in Sids, r \in SplitRatios, p \in Prices :
          book' = ApplySplit(book, s, r[1], r[2], p, Len(book.events))
          /\ book.positions[s] > 0
          /\ book'.positions[s] # book.positions[s]
          /\ Appended[1].kind = "split"
             => (book'.cash - book.cash) * r[2] + book'.positions[s] * p * r[2]
                  = book.positions[s] * r[1] * p
      ]_book
=============================================================================
