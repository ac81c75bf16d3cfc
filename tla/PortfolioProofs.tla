--------------------------- MODULE PortfolioProofs ---------------------------
(***************************************************************************)
(* The ledger, for any securities, prices and share counts.  Its log's sum *)
(* moves with each appended event, so a ledger that records through Record *)
(* replays to its own balance: the type invariant and the accounting       *)
(* identity of any sequence of calls, of any length, with any arguments of *)
(* their types.  Induction is by a least counterexample, from the          *)
(* well-foundedness of <.                                                  *)
(***************************************************************************)
EXTENDS PortfolioCalls, Functions, TLAPS, FiniteSetTheorems, WellFoundedInduction

\* A non-empty set of naturals has a least element.
LEMMA LeastNatural ==
    ASSUME NEW T, T \subseteq Nat, T # {}
    PROVE  \E x \in T : \A y \in T : x <= y
<1> DEFINE Less == {p \in Nat \X Nat : p[1] < p[2]}
<1>1. IsWellFoundedOn(Less, Nat)
  BY NatLessThanWellFounded, Zenon DEF OpToRel
<1> HIDE DEF Less
<1>2. PICK x \in T : \A y \in T : ~(<<y, x>> \in Less)
  BY <1>1, WFMin
<1>3. \A y \in T : ~(y < x)
  BY <1>2 DEF Less
<1> QED
  BY <1>3

\* The equation PartialSums is defined by.
IsSums(f, v) == f = [i \in 0 .. Len(v) |-> IF i = 0 THEN 0 ELSE f[i - 1] + v[i]]

\* The equation, point by point.
LEMMA SumsPointwise ==
    ASSUME NEW v \in Seq(Int), NEW f, IsSums(f, v)
    PROVE  f[0] = 0 /\ \A i \in 1 .. Len(v) : f[i] = f[i - 1] + v[i]
<1>1. Len(v) \in Nat /\ 0 \in 0 .. Len(v) /\ \A i \in 1 .. Len(v) : i \in 0 .. Len(v) /\ i # 0
  OBVIOUS
<1> DEFINE h == [i \in 0 .. Len(v) |-> IF i = 0 THEN 0 ELSE f[i - 1] + v[i]]
<1>2. h[0] = 0 /\ \A i \in 1 .. Len(v) : h[i] = f[i - 1] + v[i]
  BY <1>1
<1>3. f = h
  BY DEF IsSums
<1> HIDE DEF h
<1> QED
  BY <1>2, <1>3

\* Some function satisfies the equation.
LEMMA SumsExist ==
    ASSUME NEW v \in Seq(Int)
    PROVE  \E f : IsSums(f, v)
<1> DEFINE Sums(n) == {f \in [0 .. n -> Int] :
                          f[0] = 0 /\ \A i \in 1 .. n : f[i] = f[i - 1] + v[i]}
           Bad == {n \in 0 .. Len(v) : Sums(n) = {}}
<1>0. Len(v) \in Nat /\ \A i \in 1 .. Len(v) : v[i] \in Int
  OBVIOUS
<1>1. Sums(0) # {}
  <2>1. [i \in 0 .. 0 |-> 0] \in Sums(0)
    OBVIOUS
  <2> QED BY <2>1
<1>2. ASSUME NEW n \in 0 .. Len(v), n > 0, Sums(n - 1) # {}
      PROVE  Sums(n) # {}
  <2>1. PICK f \in Sums(n - 1) : TRUE
    BY <1>2
  <2> DEFINE g == [i \in 0 .. n |-> IF i = n THEN f[n - 1] + v[n] ELSE f[i]]
  <2>2. g \in [0 .. n -> Int] /\ g[0] = 0
    BY <1>0, <1>2, <2>1
  <2>3. \A i \in 1 .. n : g[i] = g[i - 1] + v[i]
    BY <1>0, <1>2, <2>1
  <2> QED
    BY <2>2, <2>3
<1> HIDE DEF Sums
<1>3. Bad = {}
  <2> SUFFICES ASSUME Bad # {} PROVE FALSE
    OBVIOUS
  <2>1. PICK n \in Bad : \A m \in Bad : n <= m
    <3>1. Bad \subseteq Nat
      BY <1>0
    <3> QED BY <3>1, LeastNatural
  <2>2. n > 0 /\ n - 1 \notin Bad /\ n - 1 \in 0 .. Len(v)
    <3>1. n \in 0 .. Len(v) /\ n # 0
      BY <1>1, <2>1
    <3>2. n - 1 \notin Bad
      BY <2>1, <3>1, <1>0
    <3> QED BY <1>0, <3>1, <3>2
  <2> QED
    BY <1>0, <1>2, <2>1, <2>2
<1>4. PICK f \in Sums(Len(v)) : TRUE
  BY <1>0, <1>3
<1>5. IsSums(f, v)
  <2>1. f \in [0 .. Len(v) -> Int] /\ f[0] = 0
    BY <1>4 DEF Sums
  <2>2. \A i \in 0 .. Len(v) : f[i] = IF i = 0 THEN 0 ELSE f[i - 1] + v[i]
    BY <1>0, <1>4, <2>1 DEF Sums
  <2> QED
    BY <2>1, <2>2 DEF IsSums
<1> QED
  BY <1>5

\* PartialSums satisfies its equation, and its values are integers.
LEMMA PartialSumsEquation ==
    ASSUME NEW v \in Seq(Int)
    PROVE  /\ IsSums(PartialSums(v), v)
           /\ PartialSums(v) \in [0 .. Len(v) -> Int]
<1>1. IsSums(PartialSums(v), v)
  BY SumsExist, Zenon DEF PartialSums, IsSums
<1> DEFINE f == PartialSums(v)
           Bad == {n \in 0 .. Len(v) : f[n] \notin Int}
<1> HIDE DEF f
<1>2. /\ DOMAIN f = 0 .. Len(v) /\ f = [i \in 0 .. Len(v) |-> f[i]]
      /\ f[0] = 0
      /\ \A i \in 1 .. Len(v) : f[i] = f[i - 1] + v[i]
  <2>1. f = [i \in 0 .. Len(v) |-> IF i = 0 THEN 0 ELSE f[i - 1] + v[i]]
    BY <1>1 DEF f, IsSums
  <2> QED BY <2>1
<1>3. Bad = {}
  <2> SUFFICES ASSUME Bad # {} PROVE FALSE
    OBVIOUS
  <2>1. PICK n \in Bad : \A m \in Bad : n <= m
    <3>1. Bad \subseteq Nat
      OBVIOUS
    <3> QED BY <3>1, LeastNatural
  <2>2. n > 0 /\ n - 1 \in 0 .. Len(v) /\ n - 1 \notin Bad
    BY <1>2, <2>1
  <2>3. f[n - 1] \in Int /\ v[n] \in Int /\ n \in 1 .. Len(v)
    BY <2>1, <2>2
  <2>4. f[n] = f[n - 1] + v[n]
    BY <1>2, <2>3
  <2>5. f[n] \in Int
    BY <2>3, <2>4
  <2> QED
    BY <2>1, <2>5
<1>4. f \in [0 .. Len(v) -> Int]
  BY <1>2, <1>3
<1> QED
  BY <1>1, <1>4 DEF f

\* Appending an integer to a sequence adds it to the sum.
LEMMA SumOfAppend ==
    ASSUME NEW v \in Seq(Int), NEW x \in Int
    PROVE  SumOf(v) \in Int /\ SumOf(Append(v, x)) = SumOf(v) + x
<1> DEFINE w == Append(v, x)
           f == PartialSums(v)
           g == PartialSums(w)
           Bad == {n \in 0 .. Len(v) : f[n] # g[n]}
<1>1. w \in Seq(Int) /\ Len(w) = Len(v) + 1 /\ w[Len(v) + 1] = x
      /\ \A i \in 1 .. Len(v) : w[i] = v[i]
  OBVIOUS
<1> HIDE DEF w, f, g
<1>2. /\ f \in [0 .. Len(v) -> Int]
      /\ f[0] = 0 /\ \A i \in 1 .. Len(v) : f[i] = f[i - 1] + v[i]
  BY PartialSumsEquation, SumsPointwise DEF f
<1>3. /\ g[0] = 0 /\ \A i \in 1 .. Len(v) + 1 : g[i] = g[i - 1] + w[i]
  <2>1. IsSums(g, w)
    BY <1>1, PartialSumsEquation DEF g
  <2>2. g[0] = 0 /\ \A i \in 1 .. Len(w) : g[i] = g[i - 1] + w[i]
    BY <1>1, <2>1, SumsPointwise
  <2> QED BY <1>1, <2>2
<1>4. Bad = {}
  <2> SUFFICES ASSUME Bad # {} PROVE FALSE
    OBVIOUS
  <2>1. PICK n \in Bad : \A m \in Bad : n <= m
    <3>1. Bad \subseteq Nat
      OBVIOUS
    <3> QED BY <3>1, LeastNatural
  <2>2. n > 0 /\ n - 1 \in 0 .. Len(v) /\ n - 1 \notin Bad
    BY <1>2, <1>3, <2>1
  <2>3. f[n] = f[n - 1] + v[n] /\ g[n] = g[n - 1] + w[n] /\ w[n] = v[n]
    BY <1>1, <1>2, <1>3, <2>1, <2>2
  <2> QED
    BY <2>1, <2>2, <2>3
<1>5. f[Len(v)] = g[Len(v)] /\ f[Len(v)] \in Int
  BY <1>2, <1>4
<1>6. g[Len(v) + 1] = g[Len(v)] + x
  BY <1>1, <1>3
<1> QED
  BY <1>1, <1>5, <1>6 DEF SumOf, f, g, w

-----------------------------------------------------------------------------
(***************************************************************************)
(* What holds of a ledger no call has failed on: no short position, no     *)
(* overdraft, and a log that replays to the book.                          *)
(***************************************************************************)
Sound(b) == /\ b \in Books
            /\ ~b.raised
            /\ b.cash >= 0
            /\ \A s \in Sids : b.positions[s] >= 0
            /\ Replays(b)

\* The event has its type, and names a security.
Recordable(e) == e \in LedgerEvents /\ e.sid \in Sids

\* Replaying a log with one more event adds that event's deltas.
LEMMA ReplayAppend ==
    ASSUME NEW events \in Seq(LedgerEvents), NEW e \in LedgerEvents
    PROVE  /\ ReplayCash(Append(events, e)) = ReplayCash(events) + e.cash
           /\ ReplayPositions(Append(events, e)) =
                [s \in Sids |-> ReplayPositions(events)[s] + (IF e.sid = s THEN e.qty ELSE 0)]
<1> DEFINE more == Append(events, e)
<1>1. /\ Len(events) \in Nat /\ Len(more) = Len(events) + 1 /\ more[Len(events) + 1] = e
      /\ \A i \in 1 .. Len(events) : more[i] = events[i] /\ events[i] \in LedgerEvents
  OBVIOUS
<1> HIDE DEF more
<1>2. ReplayCash(more) = ReplayCash(events) + e.cash
  <2> DEFINE v == [i \in 1 .. Len(events) |-> events[i].cash]
             w == [i \in 1 .. Len(more) |-> more[i].cash]
  <2>0. e.cash \in Int /\ \A i \in 1 .. Len(events) : events[i].cash \in Int
    BY <1>1 DEF LedgerEvents
  <2>1. v \in Seq(Int) /\ e.cash \in Int /\ Len(v) = Len(events)
    BY <1>1, <2>0
  <2>2. w = Append(v, e.cash)
    BY <1>1, <2>1
  <2> QED
    BY <2>1, <2>2, SumOfAppend DEF ReplayCash
<1>3. ASSUME NEW s \in Sids
      PROVE  ReplayPositions(more)[s] =
               ReplayPositions(events)[s] + (IF e.sid = s THEN e.qty ELSE 0)
  <2> DEFINE v == [i \in 1 .. Len(events) |->
                      IF events[i].sid = s THEN events[i].qty ELSE 0]
             w == [i \in 1 .. Len(more) |-> IF more[i].sid = s THEN more[i].qty ELSE 0]
             x == IF e.sid = s THEN e.qty ELSE 0
  <2>0. e.qty \in Int /\ \A i \in 1 .. Len(events) : events[i].qty \in Int
    BY <1>1 DEF LedgerEvents
  <2>1. v \in Seq(Int) /\ x \in Int /\ Len(v) = Len(events)
    BY <1>1, <2>0
  <2>2. w = Append(v, x)
    BY <1>1, <2>1
  <2>3. SumOf(w) = SumOf(v) + x
    BY <2>1, <2>2, SumOfAppend
  <2> QED
    BY <2>3 DEF ReplayPositions
<1> QED
  <2>1. DOMAIN ReplayPositions(more) = Sids
        /\ ReplayPositions(more) = [s \in Sids |-> ReplayPositions(more)[s]]
    BY DEF ReplayPositions
  <2> QED
    BY <1>2, <1>3, <2>1 DEF more

\* Record keeps the type, and does not clear an error.
LEMMA RecordType ==
    ASSUME NEW b \in Books, NEW e, Recordable(e)
    PROVE  /\ Record(b, e) \in Books
           /\ b.raised => Record(b, e).raised
<1>1. /\ e \in LedgerEvents /\ e.sid \in Sids /\ e.qty \in Int /\ e.cash \in Int
      /\ b.positions \in [Sids -> Int] /\ b.cash \in Int /\ b.raised \in BOOLEAN
      /\ b.events \in Seq(LedgerEvents)
  BY DEF Recordable, LedgerEvents, Books
<1> DEFINE moved == [b EXCEPT !.positions[e.sid] = b.positions[e.sid] + e.qty,
                              !.cash = b.cash + e.cash]
<1>2. moved \in Books /\ moved.raised = b.raised /\ moved.events = b.events
  <2> DEFINE pos == [b.positions EXCEPT ![e.sid] = b.positions[e.sid] + e.qty]
  <2>1. pos \in [Sids -> Int] /\ b.cash + e.cash \in Int
    BY <1>1
  <2>2. moved = [b EXCEPT !.positions = pos, !.cash = b.cash + e.cash]
    BY <1>1 DEF Books
  <2> HIDE DEF pos
  <2> QED BY <1>1, <2>1, <2>2 DEF Books
<1>3. [b EXCEPT !.raised = TRUE] \in Books /\ [b EXCEPT !.raised = TRUE].raised
  BY <1>1 DEF Books
<1>4. [moved EXCEPT !.raised = TRUE] \in Books /\ [moved EXCEPT !.raised = TRUE].raised
  BY <1>1, <1>2 DEF Books
<1>5. /\ [moved EXCEPT !.events = Append(@, e)] \in Books
      /\ [moved EXCEPT !.events = Append(@, e)].raised = b.raised
  <2>1. Append(b.events, e) \in Seq(LedgerEvents)
    BY <1>1
  <2> HIDE DEF moved
  <2> QED BY <1>2, <2>1 DEF Books
<1> HIDE DEF moved
<1>6. Record(b, e) \in {[b EXCEPT !.raised = TRUE], [moved EXCEPT !.raised = TRUE],
                        [moved EXCEPT !.events = Append(@, e)]}
  BY DEF Record, moved
<1> QED
  BY <1>3, <1>4, <1>5, <1>6

\* Record either fails or keeps the log replaying to the book.
LEMMA RecordReplays ==
    ASSUME NEW b \in Books, NEW e, Recordable(e), Replays(b)
    PROVE  Record(b, e).raised \/ Replays(Record(b, e))
<1> SUFFICES ASSUME ~Record(b, e).raised
             PROVE  Replays(Record(b, e))
  OBVIOUS
<1>1. /\ b.events \in Seq(LedgerEvents) /\ e \in LedgerEvents /\ e.sid \in Sids
      /\ b.positions \in [Sids -> Int] /\ e.qty \in Int /\ e.cash \in Int /\ b.cash \in Int
  BY DEF Books, Recordable, LedgerEvents
<1>2. /\ Record(b, e).events = Append(b.events, e)
      /\ Record(b, e).cash = b.cash + e.cash
      /\ Record(b, e).positions = [b.positions EXCEPT ![e.sid] = b.positions[e.sid] + e.qty]
  BY <1>1 DEF Record, Books
<1>3. ReplayCash(Append(b.events, e)) = b.cash + e.cash
  BY <1>1, ReplayAppend DEF Replays
<1>4. ReplayPositions(Append(b.events, e)) = Record(b, e).positions
  <2>1. /\ ReplayPositions(b.events) = b.positions
        /\ ReplayPositions(Append(b.events, e)) =
             [s \in Sids |-> ReplayPositions(b.events)[s] + (IF e.sid = s THEN e.qty ELSE 0)]
    BY <1>1, ReplayAppend DEF Replays
  <2> QED BY <1>1, <1>2, <2>1
<1> QED
  BY <1>2, <1>3, <1>4 DEF Replays

\* An event that keeps cash and the position non-negative is recorded.
LEMMA RecordSound ==
    ASSUME NEW b, Sound(b), NEW e, Recordable(e),
           b.positions[e.sid] + e.qty >= 0, b.cash + e.cash >= 0
    PROVE  /\ Sound(Record(b, e))
           /\ Record(b, e).positions = [b.positions EXCEPT ![e.sid] = @ + e.qty]
           /\ Record(b, e).cash = b.cash + e.cash
<1>1. b \in Books /\ Replays(b)
  BY DEF Sound
<1>2. /\ e.sid \in Sids /\ e.qty \in Int /\ e.cash \in Int
      /\ b.positions \in [Sids -> Int] /\ b.cash \in Int
  BY <1>1 DEF Recordable, LedgerEvents, Books
<1>3. /\ ~Record(b, e).raised
      /\ Record(b, e).positions = [b.positions EXCEPT ![e.sid] = @ + e.qty]
      /\ Record(b, e).cash = b.cash + e.cash
  BY <1>1, <1>2 DEF Record, Sound, Books
<1>4. Record(b, e) \in Books /\ Replays(Record(b, e))
  BY <1>1, <1>3, RecordType, RecordReplays
<1> QED
  BY <1>2, <1>3, <1>4 DEF Sound

\* Products and quotients of naturals are naturals.
LEMMA NatProduct ==
    ASSUME NEW m \in Nat, NEW n \in Nat
    PROVE  m * n \in Nat
  BY Z3

\* Quotient and remainder of whole share counts are natural.
LEMMA NatQuotient ==
    ASSUME NEW m \in Nat, NEW n \in Nat \ {0}
    PROVE  m \div n \in Nat /\ m % n \in Nat
  BY Z3

\* A product divided by one of its factors is the other.
LEMMA ExactQuotient ==
    ASSUME NEW q \in Nat, NEW b \in Nat \ {0}
    PROVE  (q * b) \div b = q
  BY Z3

\* A quotient without remainder gives its dividend back.
LEMMA WholeQuotient ==
    ASSUME NEW x \in Nat, NEW b \in Nat \ {0}, x % b = 0
    PROVE  x \div b \in Nat /\ x = (x \div b) * b
  BY Z3

\* An event built from a natural date and an integer amount can be
\* recorded.
LEMMA EventRecordable ==
    ASSUME NEW on \in Nat, NEW kind \in Kinds, NEW s \in Sids, NEW qty \in Int,
           NEW amount \in Int, NEW costs \in Nat
    PROVE  /\ Recordable(Event(on, kind, s, qty, amount, costs))
           /\ Event(on, kind, s, qty, amount, costs).sid = s
           /\ Event(on, kind, s, qty, amount, costs).qty = qty
           /\ Event(on, kind, s, qty, amount, costs).cash = amount
  BY DEF Recordable, LedgerEvents, Event

\* A new portfolio replays its deposit.
LEMMA NewPortfolioSound ==
    ASSUME NEW on \in Nat
    PROVE  Sound(NewPortfolio(on))
<1> DEFINE e == Event(on, "deposit", NoSid, 0, InitialCash, 0)
<1>1. e \in LedgerEvents /\ e.cash = InitialCash /\ e.qty = 0 /\ e.sid = NoSid
  BY PortfolioAssumption DEF Event, LedgerEvents, Kinds
<1> HIDE DEF e
<1>2. SumOf(<<>>) = 0
  <2>1. <<>> \in Seq(Int) /\ Len(<<>>) = 0
    OBVIOUS
  <2>2. PartialSums(<<>>)[0] = 0
    BY <2>1, PartialSumsEquation, SumsPointwise
  <2> QED BY <2>1, <2>2 DEF SumOf
<1>3. <<>> \in Seq(LedgerEvents) /\ <<e>> = Append(<<>>, e) /\ <<e>> \in Seq(LedgerEvents)
  BY <1>1
<1>4. /\ ReplayCash(<<>>) = 0
      /\ ReplayPositions(<<>>) = [s \in Sids |-> 0]
  <2>1. [i \in 1 .. Len(<<>>) |-> <<>>[i].cash] = <<>>
    OBVIOUS
  <2>2. \A s \in Sids : [i \in 1 .. Len(<<>>) |->
                             IF <<>>[i].sid = s THEN <<>>[i].qty ELSE 0] = <<>>
    OBVIOUS
  <2> QED
    BY <1>2, <2>1, <2>2 DEF ReplayCash, ReplayPositions
<1>5. /\ ReplayCash(<<e>>) = InitialCash
      /\ ReplayPositions(<<e>>) = [s \in Sids |-> 0]
  <2>1. /\ ReplayCash(Append(<<>>, e)) = 0 + e.cash
        /\ ReplayPositions(Append(<<>>, e)) =
             [s \in Sids |-> ReplayPositions(<<>>)[s] + (IF e.sid = s THEN e.qty ELSE 0)]
    BY <1>1, <1>3, <1>4, ReplayAppend
  <2>2. InitialCash \in Nat /\ \A s \in Sids : e.sid # s /\ ReplayPositions(<<>>)[s] = 0
    BY <1>1, <1>4, PortfolioAssumption
  <2> QED
    BY <1>1, <1>3, <2>1, <2>2
<1>6. NewPortfolio(on) = [cash |-> InitialCash, positions |-> [s \in Sids |-> 0],
                          events |-> <<e>>, raised |-> FALSE]
  BY DEF NewPortfolio, e
<1>7. NewPortfolio(on) \in Books
  BY <1>3, <1>6, PortfolioAssumption DEF Books
<1> QED
  BY <1>5, <1>6, <1>7, PortfolioAssumption DEF Sound, Replays

-----------------------------------------------------------------------------
(***************************************************************************)
(* Each ledger operation, on a sound ledger and with arguments that leave  *)
(* cash and the position non-negative, does not raise and stays sound; no  *)
(* operation but a purchase opens a position.                              *)
(***************************************************************************)
OpensNothing(b, c) == \A s \in Sids : c.positions[s] > 0 => b.positions[s] > 0

\* Portfolio.buy of an affordable order: the book stays sound, no other
\* holding changes.
LEMMA BuySound ==
    ASSUME NEW b, Sound(b), NEW s \in Sids, NEW shares \in Nat \ {0}, NEW price \in Nat,
           NEW costs \in Nat, NEW on \in Nat, price * shares + costs <= b.cash
    PROVE  /\ Sound(Buy(b, s, shares, price, costs, on))
           /\ \A t \in Sids \ {s} :
                 Buy(b, s, shares, price, costs, on).positions[t] = b.positions[t]
<1> DEFINE total == price * shares + costs
           e == Event(on, "buy", s, shares, -total, costs)
<1>1. total \in Nat /\ total <= b.cash
  BY NatProduct
<1> HIDE DEF total
<1>2. Recordable(e) /\ e.sid = s /\ e.qty = shares /\ e.cash = -total
  BY <1>1, EventRecordable DEF Kinds
<1> HIDE DEF e
<1>3. /\ b.positions \in [Sids -> Int] /\ b.positions[s] >= 0 /\ b.cash \in Int
  BY DEF Sound, Books
<1>4. Sound(Record(b, e)) /\ Record(b, e).positions = [b.positions EXCEPT ![e.sid] = @ + e.qty]
  BY <1>1, <1>2, <1>3, RecordSound
<1>5. Buy(b, s, shares, price, costs, on) = Record(b, e)
  BY DEF Buy, e, total
<1> QED
  BY <1>2, <1>3, <1>4, <1>5

\* Portfolio.sell of held shares whose costs the cash covers: the book
\* stays sound, nothing is opened.
LEMMA SellSound ==
    ASSUME NEW b, Sound(b), NEW s \in Sids, NEW shares \in Nat \ {0}, NEW price \in Nat,
           NEW costs \in Nat, NEW on \in Nat,
           shares <= b.positions[s], b.cash + (price * shares - costs) >= 0
    PROVE  /\ Sound(Sell(b, s, shares, price, costs, on))
           /\ OpensNothing(b, Sell(b, s, shares, price, costs, on))
           /\ \A t \in Sids \ {s} :
                 Sell(b, s, shares, price, costs, on).positions[t] = b.positions[t]
<1> DEFINE net == price * shares - costs
           e == Event(on, "sell", s, -shares, net, costs)
<1>1. net \in Int /\ b.cash + net >= 0
  BY NatProduct
<1> HIDE DEF net
<1>2. Recordable(e) /\ e.sid = s /\ e.qty = -shares /\ e.cash = net
  BY <1>1, EventRecordable DEF Kinds
<1> HIDE DEF e
<1>3. b.positions \in [Sids -> Int] /\ b.cash \in Int
  BY DEF Sound, Books
<1>4. Sound(Record(b, e)) /\ Record(b, e).positions = [b.positions EXCEPT ![e.sid] = @ + e.qty]
  BY <1>1, <1>2, <1>3, RecordSound
<1>5. Sell(b, s, shares, price, costs, on) = Record(b, e)
  BY DEF Sell, e, net
<1> QED
  BY <1>2, <1>3, <1>4, <1>5 DEF OpensNothing

\* Portfolio.credit_dividend keeps the book sound and opens nothing.
LEMMA DividendSound ==
    ASSUME NEW b, Sound(b), NEW s \in Sids, NEW perShare \in Nat, NEW on \in Nat
    PROVE  /\ Sound(CreditDividend(b, s, perShare, on))
           /\ OpensNothing(b, CreditDividend(b, s, perShare, on))
<1>1. b.positions \in [Sids -> Int] /\ b.positions[s] \in Nat /\ b.cash \in Nat
  BY DEF Sound, Books
<1> DEFINE amount == perShare * b.positions[s]
           e == Event(on, "dividend", s, 0, amount, 0)
<1>2. amount \in Nat
  BY <1>1, NatProduct
<1> HIDE DEF amount
<1>3. Recordable(e) /\ e.sid = s /\ e.qty = 0 /\ e.cash = amount
  BY <1>2, EventRecordable DEF Kinds
<1> HIDE DEF e
<1>4. Sound(Record(b, e)) /\ Record(b, e).positions = [b.positions EXCEPT ![e.sid] = @ + e.qty]
  BY <1>1, <1>2, <1>3, RecordSound
<1>5. CreditDividend(b, s, perShare, on) \in {b, Record(b, e)}
  BY DEF CreditDividend, e, amount
<1> QED
  BY <1>1, <1>3, <1>4, <1>5 DEF OpensNothing

\* Portfolio.resolve_delisting keeps the book sound and clears the
\* position.
LEMMA DelistingSound ==
    ASSUME NEW b, Sound(b), NEW s \in Sids, NEW proceeds \in Nat \cup {NoTerms}, NEW on \in Nat
    PROVE  /\ Sound(ResolveDelisting(b, s, proceeds, on))
           /\ OpensNothing(b, ResolveDelisting(b, s, proceeds, on))
           /\ ResolveDelisting(b, s, proceeds, on).positions[s] = 0
<1>1. b.positions \in [Sids -> Int] /\ b.positions[s] \in Nat /\ b.cash \in Nat
  BY DEF Sound, Books
<1> DEFINE held == b.positions[s]
           amount == IF proceeds = NoTerms THEN 0 ELSE proceeds * held
           kind == IF proceeds = NoTerms THEN "delisting_writeoff" ELSE "delisting_proceeds"
           e == Event(on, kind, s, -held, amount, 0)
<1>2. amount \in Nat /\ kind \in Kinds
  BY <1>1, NatProduct DEF Kinds
<1> HIDE DEF amount, kind
<1>3. Recordable(e) /\ e.sid = s /\ e.qty = -held /\ e.cash = amount
  BY <1>1, <1>2, EventRecordable
<1> HIDE DEF e
<1>4. Sound(Record(b, e)) /\ Record(b, e).positions = [b.positions EXCEPT ![e.sid] = @ + e.qty]
  BY <1>1, <1>2, <1>3, RecordSound
<1>5. ResolveDelisting(b, s, proceeds, on) = IF held <= 0 THEN b ELSE Record(b, e)
  BY DEF ResolveDelisting, e, amount, kind
<1> QED
  BY <1>1, <1>3, <1>4, <1>5 DEF OpensNothing

\* Portfolio.apply_split keeps the book sound and opens nothing.
LEMMA SplitSound ==
    ASSUME NEW b, Sound(b), NEW s \in Sids, NEW new \in Nat \ {0}, NEW old \in Nat \ {0},
           NEW mark \in Nat, NEW on \in Nat
    PROVE  /\ Sound(ApplySplit(b, s, new, old, mark, on))
           /\ OpensNothing(b, ApplySplit(b, s, new, old, mark, on))
<1>1. b.positions \in [Sids -> Int] /\ b.positions[s] \in Nat /\ b.cash \in Nat
  BY DEF Sound, Books
<1> DEFINE held == b.positions[s]
           whole == (held * new) \div old
           remainder == (held * new) % old
           inLieu == (mark * remainder) \div old
           e == Event(on, "split", s, whole - held, 0, 0)
           f == Event(on, "cash_in_lieu", s, 0, inLieu, 0)
           split == Record(b, e)
<1>2. held * new \in Nat
  BY <1>1, NatProduct
<1>3. whole \in Nat /\ remainder \in Nat
  BY <1>2, NatQuotient
<1>4. inLieu \in Nat
  <2> HIDE DEF remainder
  <2>1. mark * remainder \in Nat
    BY <1>3, NatProduct
  <2> QED BY <2>1, NatQuotient
<1> HIDE DEF whole, remainder, inLieu
<1>5. Recordable(e) /\ e.sid = s /\ e.qty = whole - held /\ e.cash = 0
  BY <1>1, <1>3, EventRecordable DEF Kinds
<1>6. Recordable(f) /\ f.sid = s /\ f.qty = 0 /\ f.cash = inLieu
  BY <1>4, EventRecordable DEF Kinds
<1> HIDE DEF e, f
<1>7. Sound(split) /\ split.positions = [b.positions EXCEPT ![s] = whole] /\ split.cash = b.cash
  BY <1>1, <1>3, <1>5, RecordSound
<1>8. held > 0 => OpensNothing(b, split)
  BY <1>1, <1>7 DEF OpensNothing
<1> HIDE DEF split
<1>9. Sound(Record(split, f)) /\ Record(split, f).positions = split.positions
  <2>1. split.positions \in [Sids -> Int] /\ split.positions[s] \in Nat /\ split.cash \in Nat
    BY <1>1, <1>3, <1>7
  <2> QED BY <1>4, <1>6, <1>7, <2>1, RecordSound
<1>10. ApplySplit(b, s, new, old, mark, on) =
         IF held <= 0 THEN b ELSE IF remainder = 0 THEN split ELSE Record(split, f)
  BY DEF ApplySplit, whole, remainder, inLieu, e, f, split
<1> QED
  BY <1>1, <1>7, <1>8, <1>9, <1>10 DEF OpensNothing

-----------------------------------------------------------------------------
\* The book has its type, and replays unless a call has failed.
Kept(b) == b \in Books /\ (b.raised \/ Replays(b))

\* Portfolio._record keeps a replayable book replayable, the call that
\* raises included.
LEMMA RecordKept ==
    ASSUME NEW b, Kept(b), NEW e, Recordable(e)
    PROVE  Kept(Record(b, e))
<1>1. b \in Books
  BY DEF Kept
<1>2. Record(b, e) \in Books /\ (b.raised => Record(b, e).raised)
  BY <1>1, RecordType
<1>3. Replays(b) => Record(b, e).raised \/ Replays(Record(b, e))
  BY <1>1, RecordReplays
<1> QED
  BY <1>2, <1>3 DEF Kept

\* A call that raises before _record leaves a replayable book.
LEMMA RaiseKept ==
    ASSUME NEW b, Kept(b)
    PROVE  Kept(Raise(b))
  BY DEF Kept, Raise, Books

\* Every public call of Portfolio keeps a replayable book replayable.
LEMMA CallsKept ==
    ASSUME NEW b, Kept(b), NEW s \in Sids, NEW on \in Nat
    PROVE  /\ \A n \in Int, p \in Nat, c \in Nat :
                Kept(Buy(b, s, n, p, c, on)) /\ Kept(Sell(b, s, n, p, c, on))
           /\ \A p \in Nat : Kept(CreditDividend(b, s, p, on))
           /\ \A p \in Nat \cup {NoTerms} : Kept(ResolveDelisting(b, s, p, on))
           /\ \A new \in Nat \ {0}, old \in Nat \ {0}, p \in Nat :
                Kept(ApplySplit(b, s, new, old, p, on))
<1>0. b.positions \in [Sids -> Int] /\ b.positions[s] \in Int
  BY DEF Kept, Books
<1>1. ASSUME NEW n \in Int, NEW p \in Nat, NEW c \in Nat
      PROVE  Kept(Buy(b, s, n, p, c, on)) /\ Kept(Sell(b, s, n, p, c, on))
  <2>1. p * n \in Int
    OBVIOUS
  <2>2. /\ Recordable(Event(on, "buy", s, n, -(p * n + c), c))
        /\ Recordable(Event(on, "sell", s, -n, p * n - c, c))
    <3> DEFINE gross == p * n
    <3> HIDE DEF gross
    <3>1. gross \in Int
      BY <2>1 DEF gross
    <3>2. Recordable(Event(on, "buy", s, n, -(gross + c), c))
      BY <3>1, EventRecordable DEF Kinds
    <3>3. Recordable(Event(on, "sell", s, -n, gross - c, c))
      BY <3>1, EventRecordable DEF Kinds
    <3> QED BY <3>2, <3>3 DEF gross
  <2> QED
    BY <2>2, RecordKept, RaiseKept DEF Buy, Sell
<1>2. ASSUME NEW p \in Nat
      PROVE  Kept(CreditDividend(b, s, p, on))
  <2> DEFINE amount == p * b.positions[s]
  <2>1. amount \in Int
    BY <1>0
  <2> HIDE DEF amount
  <2>2. Recordable(Event(on, "dividend", s, 0, amount, 0))
    BY <2>1, EventRecordable DEF Kinds
  <2> QED
    BY <2>2, RecordKept DEF CreditDividend, amount
<1>3. ASSUME NEW p \in Nat \cup {NoTerms}
      PROVE  Kept(ResolveDelisting(b, s, p, on))
  <2> DEFINE amount == p * b.positions[s]
             gone == -b.positions[s]
  <2>1. amount \in Int /\ gone \in Int
    BY <1>0 DEF NoTerms
  <2> HIDE DEF amount, gone
  <2>2. Recordable(Event(on, "delisting_writeoff", s, gone, 0, 0))
    BY <2>1, EventRecordable DEF Kinds
  <2>3. Recordable(Event(on, "delisting_proceeds", s, gone, amount, 0))
    BY <2>1, EventRecordable DEF Kinds
  <2>4. /\ Kept(Record(b, Event(on, "delisting_writeoff", s, gone, 0, 0)))
        /\ Kept(Record(b, Event(on, "delisting_proceeds", s, gone, amount, 0)))
    BY <2>2, <2>3, RecordKept
  <2> QED
    BY <2>4 DEF ResolveDelisting, amount, gone
<1>4. ASSUME NEW new \in Nat \ {0}, NEW old \in Nat \ {0}, NEW p \in Nat
      PROVE  Kept(ApplySplit(b, s, new, old, p, on))
  <2> DEFINE held == b.positions[s]
             whole == (held * new) \div old
             remainder == (held * new) % old
             inLieu == (p * remainder) \div old
             change == whole - held
             split == Record(b, Event(on, "split", s, change, 0, 0))
  <2> HIDE DEF whole, remainder, inLieu, change
  <2>1. CASE held > 0
    <3>1. held * new \in Nat
      BY <1>0, <2>1, NatProduct
    <3>2. whole \in Nat /\ remainder \in Nat
      BY <3>1, NatQuotient DEF whole, remainder
    <3>3. inLieu \in Nat
      <4>1. p * remainder \in Nat
        BY <3>2, NatProduct
      <4> QED BY <4>1, NatQuotient DEF inLieu
    <3>4. Recordable(Event(on, "split", s, change, 0, 0))
      <4>1. change \in Int
        BY <1>0, <3>2 DEF change
      <4> QED BY <4>1, EventRecordable DEF Kinds
    <3>5. Recordable(Event(on, "cash_in_lieu", s, 0, inLieu, 0))
      BY <3>3, EventRecordable DEF Kinds
    <3>6. Kept(split) /\ Kept(Record(split, Event(on, "cash_in_lieu", s, 0, inLieu, 0)))
      BY <3>4, <3>5, RecordKept
    <3> QED
      BY <3>6 DEF ApplySplit, whole, remainder, inLieu, change
  <2>2. CASE ~(held > 0)
    BY <1>0, <2>2 DEF ApplySplit
  <2> QED
    BY <2>1, <2>2
<1> QED
  BY <1>1, <1>2, <1>3, <1>4

\* Every step of the ledger keeps the invariant.
LEMMA StepKept == Kept(book) /\ [CallsNext]_book => Kept(book)'
<1> SUFFICES ASSUME Kept(book), [CallsNext]_book
             PROVE  Kept(book')
  BY DEF Kept, Replays, ReplayCash, ReplayPositions
<1>1. Len(book.events) \in Nat
  BY DEF Kept, Books
<1>2. /\ Prices \subseteq Nat /\ ShareCounts \subseteq Int /\ CostAmounts \subseteq Nat
      /\ Prices \cup {0, NoTerms} \subseteq Nat \cup {NoTerms}
  <2>1. /\ Prices \subseteq Nat \ {0} /\ ShareCounts \subseteq Int
        /\ CostAmounts \subseteq Nat
    BY CallsAssumption, Zenon
  <2>2. Prices \subseteq Nat
    BY <2>1
  <2>3. ASSUME NEW p \in Prices \cup {0, NoTerms}
        PROVE  p \in Nat \cup {NoTerms}
    BY <2>2 DEF NoTerms
  <2> QED BY <2>1, <2>2, <2>3
<1>3. CASE BuyCall
  <2>1. PICK s \in Sids, n \in ShareCounts, p \in Prices, c \in CostAmounts :
           book' = Buy(book, s, n, p, c, Len(book.events))
    BY <1>3 DEF BuyCall
  <2>2. n \in Int /\ p \in Nat /\ c \in Nat
    BY <1>2
  <2> QED BY <1>1, <2>1, <2>2, CallsKept
<1>4. CASE SellCall
  <2>1. PICK s \in Sids, n \in ShareCounts, p \in Prices, c \in CostAmounts :
           book' = Sell(book, s, n, p, c, Len(book.events))
    BY <1>4 DEF SellCall
  <2>2. n \in Int /\ p \in Nat /\ c \in Nat
    BY <1>2
  <2> QED BY <1>1, <2>1, <2>2, CallsKept
<1>5. CASE DividendCall
  BY <1>1, <1>2, <1>5, CallsKept DEF DividendCall
<1>6. CASE SplitCall
  <2>1. PICK s \in Sids, r \in SplitRatios, p \in Prices :
           book' = ApplySplit(book, s, r[1], r[2], p, Len(book.events))
    BY <1>6 DEF SplitCall
  <2>2. r[1] \in Nat \ {0} /\ r[2] \in Nat \ {0}
    <3>1. r \in (Nat \ {0}) \X (Nat \ {0})
      BY CallsAssumption
    <3> QED BY <3>1
  <2>3. p \in Nat
    BY <1>2
  <2> QED BY <1>1, <2>1, <2>2, <2>3, CallsKept
<1>7. CASE DelistingCall
  BY <1>1, <1>2, <1>7, CallsKept DEF DelistingCall
<1>8. CASE UNCHANGED book
  BY <1>8
<1> QED
  BY <1>3, <1>4, <1>5, <1>6, <1>7, <1>8 DEF CallsNext

\* A new portfolio replays to itself.
LEMMA InitKept == CallsInit => Kept(book)
  BY NewPortfolioSound DEF CallsInit, Sound, Kept

(***************************************************************************)
(* The type invariant of the ledger (class Portfolio), for any number of   *)
(* calls and whether or not one of them raised.                            *)
(***************************************************************************)
THEOREM LedgerTypeCorrect == CallsSpec => []TypeOK
<1>1. Kept(book) => TypeOK
  BY DEF Kept, TypeOK
<1> QED
  BY InitKept, StepKept, <1>1, PTL DEF CallsSpec

(***************************************************************************)
(* The accounting identity of portfolio.py: as long as no call has raised, *)
(* replaying the event log gives back exactly the cash and the positions,  *)
(* for any securities, amounts, ratios and number of calls.                *)
(***************************************************************************)
THEOREM LedgerReplays == CallsSpec => []AccountingIdentity
<1>1. Kept(book) => AccountingIdentity
  BY DEF Kept, AccountingIdentity
<1> QED
  BY InitKept, StepKept, <1>1, PTL DEF CallsSpec

-----------------------------------------------------------------------------
\* _record moves the position and the cash by what the event says, also when
\* the cash turns out short and it raises.
LEMMA RecordMoves ==
    ASSUME NEW b \in Books, NEW e, Recordable(e), b.positions[e.sid] + e.qty >= 0
    PROVE  /\ Record(b, e) \in Books
           /\ Record(b, e).positions[e.sid] = b.positions[e.sid] + e.qty
           /\ Record(b, e).cash = b.cash + e.cash
<1>1. Record(b, e) \in Books
  BY RecordType
<1>2. /\ e.sid \in Sids /\ e.qty \in Int /\ b.positions \in [Sids -> Int]
      /\ b.cash \in Int /\ e.cash \in Int
  BY DEF Recordable, LedgerEvents, Books
<1> DEFINE pos == [b.positions EXCEPT ![e.sid] = b.positions[e.sid] + e.qty]
           cash == b.cash + e.cash
           moved == [b EXCEPT !.positions[e.sid] = b.positions[e.sid] + e.qty, !.cash = cash]
<1>3. pos[e.sid] = b.positions[e.sid] + e.qty
  BY <1>2
<1>4. moved = [b EXCEPT !.positions = pos, !.cash = cash]
  BY <1>2 DEF Books
<1>5. Record(b, e) \in {[moved EXCEPT !.raised = TRUE], [moved EXCEPT !.events = Append(@, e)]}
  BY <1>2 DEF Record
<1> HIDE DEF pos, cash
<1>6. moved.positions = pos /\ moved.cash = cash
      /\ moved = [cash |-> cash, positions |-> pos, events |-> b.events, raised |-> b.raised]
  <2>1. b = [cash |-> b.cash, positions |-> b.positions, events |-> b.events, raised |-> b.raised]
    BY DEF Books
  <2> DEFINE first == [b EXCEPT !.positions = pos]
  <2>2. moved = [first EXCEPT !.cash = cash]
    BY <1>4
  <2>3. first = [cash |-> b.cash, positions |-> pos, events |-> b.events, raised |-> b.raised]
    BY <2>1
  <2> HIDE DEF first
  <2>4. moved = [cash |-> cash, positions |-> pos, events |-> b.events, raised |-> b.raised]
    BY <2>2, <2>3
  <2> QED  BY <2>4
<1> HIDE DEF moved
<1>7. Record(b, e).positions = pos /\ Record(b, e).cash = cash
  BY <1>5, <1>6
<1> QED  BY <1>1, <1>3, <1>7 DEF cash

\* Portfolio.apply_split on a position: whole shares of it stay, and cash for the rest.
LEMMA SplitMoves ==
    ASSUME NEW b \in Books, NEW s \in Sids, NEW new \in Nat \ {0}, NEW old \in Nat \ {0},
           NEW p \in Nat, NEW on \in Nat, p % old = 0, b.positions[s] > 0
    PROVE  LET c == ApplySplit(b, s, new, old, p, on)
           IN  (c.cash - b.cash) * old + c.positions[s] * p * old = b.positions[s] * new * p
<1> DEFINE c == ApplySplit(b, s, new, old, p, on)
           held == b.positions[s]
           shares == held * new
           whole == shares \div old
           remainder == shares % old
           inLieu == (p * remainder) \div old
           e == Event(on, "split", s, whole - held, 0, 0)
           f == Event(on, "cash_in_lieu", s, 0, inLieu, 0)
           split == Record(b, e)
<1>1. c = IF remainder = 0 THEN split ELSE Record(split, f)
  <2>1. held \in Int
    BY DEF Books
  <2> QED  BY <2>1 DEF ApplySplit
<1>2. held \in Nat /\ b.cash \in Int
  BY DEF Books
<1>3. whole \in Nat /\ remainder \in Nat /\ held * new = old * whole + remainder
  <2>1. shares \in Nat
    BY <1>2, NatProduct
  <2> HIDE DEF shares
  <2>2. whole \in Nat /\ remainder \in Nat
    BY <2>1, NatQuotient
  <2>3. shares = old * whole + remainder
    BY <2>1, SMT
  <2> QED  BY <2>2, <2>3 DEF shares
<1> HIDE DEF shares
<1>4. inLieu \in Nat
  <2>1. p * remainder \in Nat
    BY <1>3, NatProduct
  <2> QED  BY <2>1, NatQuotient
<1>5. inLieu * old + whole * p * old = held * new * p
  <2> HIDE DEF held, whole, remainder
  <2> DEFINE k == p \div old
  <2>1. k \in Nat /\ p = k * old
    BY WholeQuotient
  <2> HIDE DEF k
  <2> DEFINE q == k * remainder
  <2>2. q \in Nat
    BY <1>3, <2>1, NatProduct
  <2> HIDE DEF q
  <2>3. (q * old) \div old = q
    BY <2>2, ExactQuotient
  <2>4. p * remainder = q * old
    BY <1>3, <2>1, Z3 DEF q
  <2>5. inLieu * old = p * remainder
    BY <2>3, <2>4
  <2>6. p * remainder + whole * p * old = (old * whole + remainder) * p
    BY <1>3, Z3
  <2> QED  BY <1>3, <2>5, <2>6
<1>6. remainder = 0 => inLieu = 0
  <2>1. p * 0 = 0 /\ 0 \div old = 0
    BY Z3
  <2> QED  BY <2>1
<1> HIDE DEF held, whole, remainder, inLieu, c
<1>7. Recordable(e) /\ e.sid = s /\ e.qty = whole - held /\ e.cash = 0
  <2>1. whole - held \in Int
    BY <1>2, <1>3
  <2> QED  BY <2>1, EventRecordable DEF Kinds
<1>8. Recordable(f) /\ f.sid = s /\ f.qty = 0 /\ f.cash = inLieu
  BY <1>4, EventRecordable DEF Kinds
<1> HIDE DEF e, f
<1>9. b.positions[e.sid] + e.qty = whole
  BY <1>2, <1>3, <1>7 DEF held
<1>10. split \in Books /\ split.positions[s] = whole /\ split.cash = b.cash
  BY <1>2, <1>3, <1>7, <1>9, RecordMoves
<1> HIDE DEF split
<1>11. Record(split, f).positions[s] = whole /\ Record(split, f).cash = b.cash + inLieu
  BY <1>3, <1>8, <1>10, RecordMoves
<1>12. c.positions[s] = whole /\ c.cash = b.cash + inLieu
  BY <1>1, <1>2, <1>6, <1>10, <1>11
<1>13. c.cash - b.cash = inLieu
  BY <1>2, <1>4, <1>12
<1> QED  BY <1>5, <1>12, <1>13 DEF held, c

(***************************************************************************)
(* A split or consolidation at a mark keeps what a holding is worth, for   *)
(* any ratios, marks and calls before it, in a unit in which the cash in   *)
(* lieu of a fraction is whole (Portfolio.apply_split).                    *)
(***************************************************************************)
THEOREM SplitsKeepValue ==
    ASSUME WholeCashInLieu
    PROVE  CallsSpec => SplitKeepsValue
<1> DEFINE Step == \A s \in Sids, r \in SplitRatios, p \in Prices :
                      book' = ApplySplit(book, s, r[1], r[2], p, Len(book.events))
                      /\ book.positions[s] > 0
                      /\ book'.positions[s] # book.positions[s]
                      /\ Appended[1].kind = "split"
                         => (book'.cash - book.cash) * r[2] + book'.positions[s] * p * r[2]
                              = book.positions[s] * r[1] * p
<1>1. Kept(book) => Step
  <2> SUFFICES ASSUME Kept(book), NEW s \in Sids, NEW r \in SplitRatios, NEW p \in Prices,
                      book' = ApplySplit(book, s, r[1], r[2], p, Len(book.events)),
                      book.positions[s] > 0
               PROVE  (book'.cash - book.cash) * r[2] + book'.positions[s] * p * r[2]
                        = book.positions[s] * r[1] * p
    OBVIOUS
  <2>1. r[1] \in Nat \ {0} /\ r[2] \in Nat \ {0} /\ p \in Nat
    <3>1. r \in (Nat \ {0}) \X (Nat \ {0}) /\ p \in Nat \ {0}
      BY CallsAssumption
    <3> QED  BY <3>1
  <2>2. p % r[2] = 0
    BY DEF WholeCashInLieu
  <2>3. book \in Books /\ Len(book.events) \in Nat
    BY DEF Kept, Books
  <2> DEFINE c == ApplySplit(book, s, r[1], r[2], p, Len(book.events))
  <2>4. ASSUME NEW new \in Nat \ {0}, NEW old \in Nat \ {0}, NEW on \in Nat, p % old = 0
        PROVE  (ApplySplit(book, s, new, old, p, on).cash - book.cash) * old
                 + ApplySplit(book, s, new, old, p, on).positions[s] * p * old
               = book.positions[s] * new * p
    BY <2>1, <2>3, <2>4, SplitMoves
  <2>5. (c.cash - book.cash) * r[2] + c.positions[s] * p * r[2] = book.positions[s] * r[1] * p
    BY <2>1, <2>2, <2>3, <2>4, Zenon
  <2> QED  BY <2>5, Zenon
<1>2. Kept(book) /\ [CallsNext]_book => [Step]_book
  BY <1>1
<1> QED
  BY InitKept, StepKept, <1>2, PTL DEF CallsSpec, SplitKeepsValue

-----------------------------------------------------------------------------
(***************************************************************************)
(* Sums over finite sets: SumFunction adds the values of a function in the *)
(* order CHOOSE picks their arguments; the sum does not depend on it.      *)
(***************************************************************************)
Pick(s) == CHOOSE x \in s : TRUE

UpTo(S, n) == {s \in SUBSET S : Cardinality(s) <= n}

\* g holds the sums of f over the sets of C.
IsSumming(g, f, C) ==
    g = [s \in C |-> IF s = {} THEN 0 ELSE f[Pick(s)] + g[s \ {Pick(s)}]]

\* The equation SumFunction is defined by.
LEMMA SumEquation ==
    ASSUME NEW f
    PROVE  SumFunction(f) = (CHOOSE g : IsSumming(g, f, SUBSET DOMAIN f))[DOMAIN f]
  BY DEF SumFunction, SumFunctionOnSet, FoldFunctionOnSet, MapThenFoldSet, IsSumming, Pick

\* Removing an element of a finite set leaves a smaller one.
LEMMA PickSmaller ==
    ASSUME NEW s, IsFiniteSet(s), NEW x \in s
    PROVE  /\ IsFiniteSet(s \ {x}) /\ Cardinality(s) \in Nat \ {0}
           /\ Cardinality(s \ {x}) = Cardinality(s) - 1
<1>1. Cardinality(s) \in Nat /\ IsFiniteSet(s \ {x}) /\ Cardinality(s \ {x}) = Cardinality(s) - 1
  BY FS_CardinalityType, FS_RemoveElement
<1>2. Cardinality(s \ {x}) \in Nat
  BY <1>1, FS_CardinalityType
<1> QED BY <1>1, <1>2

\* The element picked is in the set.
LEMMA PickIn ==
    ASSUME NEW s, s # {}
    PROVE  Pick(s) \in s
  BY DEF Pick

\* The sums of a set exist.
LEMMA SummingExists ==
    ASSUME NEW S, IsFiniteSet(S), NEW f
    PROVE  \E g : IsSumming(g, f, SUBSET S)
<1> DEFINE Bad == {n \in Nat : ~\E g : IsSumming(g, f, UpTo(S, n))}
<1>0. \A s \in SUBSET S : IsFiniteSet(s) /\ Cardinality(s) \in Nat
                          /\ Cardinality(s) <= Cardinality(S)
  BY FS_Subset, FS_CardinalityType
<1>1. 0 \notin Bad
  <2> DEFINE g == [s \in UpTo(S, 0) |-> 0]
  <2>1. \A s \in UpTo(S, 0) : s = {}
    BY <1>0, FS_EmptySet DEF UpTo
  <2>2. g = [s \in UpTo(S, 0) |->
                IF s = {} THEN 0 ELSE f[Pick(s)] + g[s \ {Pick(s)}]]
    BY <2>1
  <2> QED BY <2>2 DEF IsSumming
<1>2. ASSUME NEW n \in Nat, n > 0, n - 1 \notin Bad
      PROVE  n \notin Bad
  <2>1. n - 1 \in Nat
    BY <1>2
  <2>2. PICK g : IsSumming(g, f, UpTo(S, n - 1))
    BY <1>2, <2>1
  <2> DEFINE h == [s \in UpTo(S, n) |->
                      IF s = {} THEN 0 ELSE f[Pick(s)] + g[s \ {Pick(s)}]]
  <2>3. ASSUME NEW s \in UpTo(S, n), s # {}
        PROVE  h[s \ {Pick(s)}] = g[s \ {Pick(s)}]
    <3> DEFINE t == s \ {Pick(s)}
    <3>1. t \in UpTo(S, n - 1)
      <4>1. s \in SUBSET S /\ Cardinality(s) <= n /\ IsFiniteSet(s) /\ Pick(s) \in s
        BY <1>0, <2>3, PickIn DEF UpTo
      <4>2. t \in SUBSET S /\ Cardinality(t) = Cardinality(s) - 1 /\ Cardinality(s) \in Nat
        BY <4>1, PickSmaller
      <4> HIDE DEF t
      <4> QED BY <4>1, <4>2 DEF UpTo
    <3>2. t \in UpTo(S, n)
      BY <1>0, <3>1 DEF UpTo
    <3> HIDE DEF t
    <3>3. g[t] = IF t = {} THEN 0 ELSE f[Pick(t)] + g[t \ {Pick(t)}]
      <4> DEFINE k == [u \in UpTo(S, n - 1) |->
                          IF u = {} THEN 0 ELSE f[Pick(u)] + g[u \ {Pick(u)}]]
      <4>1. g = k
        BY <2>2 DEF IsSumming
      <4>2. k[t] = IF t = {} THEN 0 ELSE f[Pick(t)] + g[t \ {Pick(t)}]
        BY <3>1
      <4> HIDE DEF k
      <4> QED BY <4>1, <4>2
    <3>4. h[t] = IF t = {} THEN 0 ELSE f[Pick(t)] + g[t \ {Pick(t)}]
      BY <3>2
    <3> QED BY <3>3, <3>4 DEF t
  <2>4. h = [s \in UpTo(S, n) |-> IF s = {} THEN 0 ELSE f[Pick(s)] + h[s \ {Pick(s)}]]
    <3> DEFINE k == [s \in UpTo(S, n) |->
                        IF s = {} THEN 0 ELSE f[Pick(s)] + h[s \ {Pick(s)}]]
    <3>1. \A s \in UpTo(S, n) : h[s] = k[s]
      BY <2>3
    <3> QED BY <3>1
  <2> HIDE DEF h
  <2> QED BY <2>4 DEF IsSumming
<1>3. Bad = {}
  <2> SUFFICES ASSUME Bad # {} PROVE FALSE
    OBVIOUS
  <2>1. PICK n \in Bad : \A m \in Bad : n <= m
    <3>1. Bad \subseteq Nat
      OBVIOUS
    <3> HIDE DEF Bad
    <3> QED BY <3>1, LeastNatural
  <2>2. n \in Nat /\ n > 0
    BY <1>1, <2>1
  <2>3. n - 1 \notin Bad
    <3> HIDE DEF Bad
    <3> QED BY <2>1, <2>2
  <2> QED BY <1>2, <2>1, <2>2, <2>3
<1>4. UpTo(S, Cardinality(S)) = SUBSET S /\ Cardinality(S) \in Nat
  BY <1>0, FS_CardinalityType DEF UpTo
<1> QED
  <2>1. \E g : IsSumming(g, f, UpTo(S, Cardinality(S)))
    BY <1>3, <1>4
  <2> QED BY <1>4, <2>1

\* The sum of f over a subset of its domain.
SumOver(f, s) == (CHOOSE g : IsSumming(g, f, SUBSET DOMAIN f))[s]

\* The equation, set by set.
LEMMA SumPointwise ==
    ASSUME NEW f, IsFiniteSet(DOMAIN f), NEW s \in SUBSET DOMAIN f
    PROVE  SumOver(f, s) = IF s = {} THEN 0 ELSE f[Pick(s)] + SumOver(f, s \ {Pick(s)})
<1> DEFINE S == DOMAIN f
           g == CHOOSE h : IsSumming(h, f, SUBSET S)
           k == [t \in SUBSET S |-> IF t = {} THEN 0 ELSE f[Pick(t)] + g[t \ {Pick(t)}]]
<1>1. IsSumming(g, f, SUBSET S)
  BY SummingExists
<1> HIDE DEF g
<1>2. g = k
  BY <1>1 DEF IsSumming
<1>3. k[s] = IF s = {} THEN 0 ELSE f[Pick(s)] + g[s \ {Pick(s)}]
  OBVIOUS
<1>4. g[s] = IF s = {} THEN 0 ELSE f[Pick(s)] + g[s \ {Pick(s)}]
  <2> HIDE DEF k
  <2> QED BY <1>2, <1>3
<1>5. \A t : SumOver(f, t) = g[t]
  BY DEF SumOver, g
<1> QED BY <1>4, <1>5

\* Every sum of integers is an integer, and any element can be taken out first.
LEMMA SumAnyOrder ==
    ASSUME NEW f, IsFiniteSet(DOMAIN f), \A x \in DOMAIN f : f[x] \in Int,
           NEW s \in SUBSET DOMAIN f
    PROVE  /\ SumOver(f, s) \in Int
           /\ \A x \in s : SumOver(f, s) = f[x] + SumOver(f, s \ {x})
<1> DEFINE S == DOMAIN f
           Good(t) == /\ SumOver(f, t) \in Int
                      /\ \A x \in t : SumOver(f, t) = f[x] + SumOver(f, t \ {x})
           Bad == {n \in Nat : \E t \in SUBSET S : Cardinality(t) = n /\ ~Good(t)}
<1>0. \A t \in SUBSET S : IsFiniteSet(t) /\ Cardinality(t) \in Nat
  BY FS_Subset, FS_CardinalityType
<1>1. ASSUME NEW t \in SUBSET S,
             \A u \in SUBSET S : Cardinality(u) < Cardinality(t) => Good(u)
      PROVE  Good(t)
  <2>1. CASE t = {}
    <3>1. SumOver(f, t) = 0
      BY <2>1, SumPointwise
    <3> HIDE DEF S
    <3> QED BY <2>1, <3>1
  <2>2. CASE t # {}
    <3> DEFINE p == Pick(t)
               sum(u) == SumOver(f, u)
    <3>1. p \in t /\ f[p] \in Int
      BY <2>2, PickIn
    <3>2. sum(t) = f[p] + sum(t \ {p})
      BY <2>2, SumPointwise
    <3>3. \A x \in t : t \ {x} \in SUBSET S /\ Good(t \ {x}) /\ f[x] \in Int
      <4> SUFFICES ASSUME NEW x \in t PROVE t \ {x} \in SUBSET S /\ Good(t \ {x})
        OBVIOUS
      <4>1. IsFiniteSet(t) /\ Cardinality(t) \in Nat
        BY <1>0
      <4>2. Cardinality(t \ {x}) < Cardinality(t)
        <5>1. Cardinality(t \ {x}) = Cardinality(t) - 1
          BY <4>1, PickSmaller
        <5> QED BY <4>1, <5>1
      <4>3. t \ {x} \in SUBSET S
        OBVIOUS
      <4> HIDE DEF Good
      <4> QED BY <1>1, <4>2, <4>3
    <3> HIDE DEF p, sum
    <3>4. sum(t) \in Int
      BY <3>1, <3>2, <3>3 DEF sum
    <3>5. ASSUME NEW x \in t, x # p
          PROVE  sum(t) = f[x] + sum(t \ {x})
      <4>1. x \in t \ {p} /\ p \in t \ {x}
        BY <3>1, <3>5
      <4>2. sum(t \ {p}) = f[x] + sum((t \ {p}) \ {x})
        BY <3>1, <3>3, <4>1 DEF sum
      <4>3. sum(t \ {x}) = f[p] + sum((t \ {x}) \ {p})
        BY <3>3, <4>1 DEF sum
      <4>4. (t \ {p}) \ {x} = (t \ {x}) \ {p}
        OBVIOUS
      <4>5. sum((t \ {p}) \ {x}) \in Int
        <5>1. (t \ {p}) \ {x} \in SUBSET S
          OBVIOUS
        <5>2. Cardinality((t \ {p}) \ {x}) < Cardinality(t)
          <6>1. IsFiniteSet(t) /\ Cardinality(t) \in Nat /\ IsFiniteSet(t \ {p})
                /\ Cardinality(t \ {p}) = Cardinality(t) - 1
            BY <1>0, <3>1, PickSmaller
          <6>2. Cardinality((t \ {p}) \ {x}) = Cardinality(t \ {p}) - 1
            BY <4>1, <6>1, PickSmaller
          <6> QED BY <6>1, <6>2
        <5> QED BY <1>1, <5>1, <5>2 DEF sum
      <4>6. f[x] \in Int
        BY <3>3
      <4> DEFINE rest == sum((t \ {p}) \ {x})
                 a == sum(t \ {p})
                 b == sum(t \ {x})
      <4>7. rest \in Int /\ a = f[x] + rest /\ b = f[p] + rest /\ sum(t) = f[p] + a
        BY <3>2, <4>2, <4>3, <4>4, <4>5
      <4> HIDE DEF rest, a
      <4>8. sum(t) = f[x] + b
        <5> HIDE DEF b
        <5> QED BY <3>1, <4>6, <4>7
      <4> QED BY <4>8
    <3> QED BY <3>2, <3>4, <3>5 DEF sum
  <2> QED BY <2>1, <2>2
<1> HIDE DEF Good
<1>2. Bad = {}
  <2> SUFFICES ASSUME Bad # {} PROVE FALSE
    OBVIOUS
  <2>1. PICK n \in Bad : \A m \in Bad : n <= m
    <3>1. Bad \subseteq Nat
      OBVIOUS
    <3> HIDE DEF Bad
    <3> QED BY <3>1, LeastNatural
  <2>2. PICK t \in SUBSET S : Cardinality(t) = n /\ ~Good(t)
    BY <2>1
  <2>3. \A u \in SUBSET S : Cardinality(u) < Cardinality(t) => Good(u)
    BY <1>0, <2>1, <2>2
  <2> QED BY <1>1, <2>2, <2>3
<1>3. Good(s)
  BY <1>0, <1>2
<1> QED BY <1>3 DEF Good

\* Functions that agree on a set have the same sum over it.
LEMMA SumAgrees ==
    ASSUME NEW f, NEW h, IsFiniteSet(DOMAIN f), IsFiniteSet(DOMAIN h),
           NEW s \in SUBSET DOMAIN f, s \in SUBSET DOMAIN h, \A x \in s : f[x] = h[x]
    PROVE  SumOver(f, s) = SumOver(h, s)
<1> DEFINE Bad == {n \in Nat : \E t \in SUBSET s : /\ Cardinality(t) = n
                                                   /\ SumOver(f, t) # SumOver(h, t)}
<1>0. \A t \in SUBSET s : IsFiniteSet(t) /\ Cardinality(t) \in Nat
  BY FS_Subset, FS_CardinalityType
<1>1. Bad = {}
  <2> SUFFICES ASSUME Bad # {} PROVE FALSE
    OBVIOUS
  <2>1. PICK n \in Bad : \A m \in Bad : n <= m
    <3>1. Bad \subseteq Nat
      OBVIOUS
    <3> HIDE DEF Bad
    <3> QED BY <3>1, LeastNatural
  <2>2. PICK t \in SUBSET s : Cardinality(t) = n /\ SumOver(f, t) # SumOver(h, t)
    BY <2>1
  <2>3. /\ SumOver(f, t) = IF t = {} THEN 0 ELSE f[Pick(t)] + SumOver(f, t \ {Pick(t)})
        /\ SumOver(h, t) = IF t = {} THEN 0 ELSE h[Pick(t)] + SumOver(h, t \ {Pick(t)})
    BY SumPointwise
  <2>4. t # {} => Pick(t) \in t
    BY PickIn
  <2>5. t # {}
    BY <2>2, <2>3
  <2> DEFINE u == t \ {Pick(t)}
  <2>6. u \in SUBSET s /\ Cardinality(u) \in Nat /\ Cardinality(u) < n
    <3>1. IsFiniteSet(t) /\ Cardinality(t) \in Nat
      BY <1>0
    <3>2. Cardinality(u) = Cardinality(t) - 1
      BY <2>4, <2>5, <3>1, PickSmaller
    <3> QED BY <2>2, <3>1, <3>2, <1>0
  <2> HIDE DEF u
  <2>7. SumOver(f, u) = SumOver(h, u)
    BY <2>1, <2>6
  <2> QED BY <2>2, <2>3, <2>4, <2>5, <2>7 DEF u
<1> QED
  <2>1. s \in SUBSET s /\ Cardinality(s) \in Nat
    BY <1>0
  <2> QED BY <1>1, <2>1

\* A finite sum of integers is an integer; an element can be taken out.
LEMMA SumTakesOut ==
    ASSUME NEW S, IsFiniteSet(S), NEW f \in [S -> Int]
    PROVE  /\ SumFunction(f) \in Int
           /\ S = {} => SumFunction(f) = 0
           /\ \A x \in S : SumFunction(f) = f[x] + SumFunction([y \in S \ {x} |-> f[y]])
<1>1. SumFunction(f) = SumOver(f, S) /\ DOMAIN f = S /\ S \in SUBSET S
  BY SumEquation DEF SumOver
<1>2. SumOver(f, S) \in Int /\ \A x \in S : SumOver(f, S) = f[x] + SumOver(f, S \ {x})
  BY <1>1, SumAnyOrder
<1>3. S = {} => SumOver(f, S) = 0
  BY <1>1, SumPointwise
<1>4. ASSUME NEW x \in S
      PROVE  SumOver(f, S \ {x}) = SumFunction([y \in S \ {x} |-> f[y]])
  <2> DEFINE h == [y \in S \ {x} |-> f[y]]
  <2>1. DOMAIN h = S \ {x} /\ (\A y \in S \ {x} : h[y] = f[y]) /\ S \ {x} \in SUBSET S
    OBVIOUS
  <2>2. IsFiniteSet(S \ {x})
    BY FS_RemoveElement
  <2> HIDE DEF h
  <2>3. SumOver(h, S \ {x}) = SumOver(f, S \ {x})
    BY <1>1, <2>1, <2>2, SumAgrees
  <2>4. SumFunction(h) = SumOver(h, S \ {x})
    BY <2>1, SumEquation DEF SumOver
  <2> QED BY <2>3, <2>4 DEF h
<1> QED BY <1>1, <1>2, <1>3, <1>4

\* Changing one value changes the sum by as much.
LEMMA SumMoves ==
    ASSUME NEW S, IsFiniteSet(S), NEW f \in [S -> Int], NEW h \in [S -> Int], NEW x \in S,
           \A y \in S \ {x} : h[y] = f[y]
    PROVE  SumFunction(h) = SumFunction(f) + h[x] - f[x]
<1> DEFINE p == [y \in S \ {x} |-> f[y]]
           q == [y \in S \ {x} |-> h[y]]
<1>1. p = q /\ p \in [S \ {x} -> Int] /\ IsFiniteSet(S \ {x}) /\ f[x] \in Int /\ h[x] \in Int
  BY FS_RemoveElement
<1>2. SumFunction(f) = f[x] + SumFunction(p) /\ SumFunction(h) = h[x] + SumFunction(q)
  BY SumTakesOut
<1> HIDE DEF p, q
<1>3. SumFunction(p) \in Int
  BY <1>1, SumTakesOut
<1> QED BY <1>1, <1>2, <1>3

\* The sum without one element is less by its value.
LEMMA SumDrops ==
    ASSUME NEW S, IsFiniteSet(S), NEW f \in [S -> Int], NEW x \in S, NEW T, T = S \ {x},
           NEW h \in [T -> Int], \A y \in T : h[y] = f[y]
    PROVE  SumFunction(f) = f[x] + SumFunction(h)
<1>1. h = [y \in S \ {x} |-> f[y]]
  OBVIOUS
<1> QED BY <1>1, SumTakesOut
=============================================================================
