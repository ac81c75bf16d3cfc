------------------------ MODULE SecurityMasterProofs ------------------------
(***************************************************************************)
(* Whatever events a security master is taken through, it implements the   *)
(* history of what was known, every view of that history validates, and an *)
(* event leaves the days before it as they were: for any securities,       *)
(* venues, values, days and instants.                                      *)
(***************************************************************************)
EXTENDS SecurityMaster, TLAPS, FiniteSetTheorems, WellFoundedInduction

\* A non-empty set of naturals has a least element.
LEMMA LeastNumber ==
    ASSUME NEW T, T \subseteq Nat, T # {}
    PROVE  \E x \in T : \A y \in T : x <= y
<1> DEFINE Less == {p \in Nat \X Nat : p[1] < p[2]}
<1>1. IsWellFoundedOn(Less, Nat)
  BY NatLessThanWellFounded, Zenon DEF OpToRel
<1> HIDE DEF Less
<1>2. PICK x \in T : \A y \in T : ~(<<y, x>> \in Less)
  BY <1>1, WFMin
<1>3. \A y \in T : ~(y < x)
  BY <1>2 DEF Less
<1> QED
  BY <1>3

-----------------------------------------------------------------------------
(***************************************************************************)
(* Ranges (trp/domain/ranges.py).                                          *)
(***************************************************************************)
\* Positions are numbers, days are numbers, no range is empty.
Proper(ranges) ==
    /\ DOMAIN ranges \subseteq Nat
    /\ \A i \in DOMAIN ranges :
          /\ ranges[i].from \in Nat /\ ranges[i].to \in Nat
          /\ ranges[i].to # None => ranges[i].from < ranges[i].to

\* sorted() has a first element: of any positions, one comes before the others.
LEMMA SortedFirst ==
    ASSUME NEW ranges, Proper(ranges), NEW S, S \subseteq DOMAIN ranges, S # {}
    PROVE  \E i \in S : \A j \in S : j # i => Before(ranges, i, j)
<1> DEFINE F == {ranges[i].from : i \in S}
<1>1. F \subseteq Nat /\ F # {}
  BY DEF Proper
<1>2. PICK x \in F : \A y \in F : x <= y
  <2> HIDE DEF F
  <2> QED BY <1>1, LeastNumber
<1> DEFINE T == {i \in S : ranges[i].from = x}
<1>3. T \subseteq Nat /\ T # {}
  BY <1>2 DEF Proper
<1>4. PICK i \in T : \A j \in T : i <= j
  <2> HIDE DEF T
  <2> QED BY <1>3, LeastNumber
<1>5. ASSUME NEW j \in S, j # i PROVE Before(ranges, i, j)
  <2>1. i \in S /\ ranges[i].from = x /\ i \in Nat /\ j \in Nat
    BY <1>3, <1>4 DEF Proper
  <2>2. x <= ranges[j].from /\ ranges[j].from \in Nat /\ x \in Nat
    BY <1>1, <1>2 DEF Proper
  <2>3. CASE ranges[j].from = x
    <3>1. i <= j
      BY <1>4, <2>3
    <3> QED BY <1>5, <2>1, <2>3, <3>1 DEF Before
  <2>4. CASE ranges[j].from # x
    BY <2>1, <2>2, <2>4 DEF Before
  <2> QED BY <2>3, <2>4
<1> QED
  BY <1>4, <1>5

\* The order is total.
LEMMA SortedTotal ==
    ASSUME NEW ranges, Proper(ranges), NEW i \in DOMAIN ranges, NEW j \in DOMAIN ranges
    PROVE  /\ i = j \/ Before(ranges, i, j) \/ Before(ranges, j, i)
           /\ ~(Before(ranges, i, j) /\ Before(ranges, j, i))
           /\ ~Before(ranges, i, i)
  BY DEF Proper, Before

\* Two ranges in the order: the first has a neighbour, no later than the second.
LEMMA NeighbourExists ==
    ASSUME NEW ranges, Proper(ranges), NEW i \in DOMAIN ranges, NEW j \in DOMAIN ranges,
           Before(ranges, i, j)
    PROVE  \E k \in DOMAIN ranges : Adjacent(ranges, i, k) /\ ranges[k].from <= ranges[j].from
<1> DEFINE S == {k \in DOMAIN ranges : Before(ranges, i, k)}
<1>1. S \subseteq DOMAIN ranges /\ j \in S
  OBVIOUS
<1>2. PICK k \in S : \A l \in S : l # k => Before(ranges, k, l)
  <2> HIDE DEF S
  <2> QED BY <1>1, SortedFirst
<1>3. k \in DOMAIN ranges /\ Before(ranges, i, k)
  BY <1>2
<1>4. ASSUME NEW l \in DOMAIN ranges, Before(ranges, i, l), Before(ranges, l, k) PROVE FALSE
  <2>1. l # k
    BY <1>3, <1>4, SortedTotal
  <2>2. Before(ranges, k, l)
    BY <1>2, <1>4, <2>1
  <2> QED BY <1>3, <1>4, <2>2, SortedTotal
<1>5. Adjacent(ranges, i, k)
  BY <1>3, <1>4 DEF Adjacent
<1>6. ranges[k].from <= ranges[j].from
  <2>1. k = j \/ Before(ranges, k, j)
    BY <1>1, <1>2
  <2> QED BY <1>3, <2>1 DEF Before, Proper
<1> QED
  BY <1>3, <1>5, <1>6

\* A hit is a pair of different ranges that overlap.
LEMMA HitsOverlap ==
    ASSUME NEW ranges, Proper(ranges), NEW p \in Hits(ranges)
    PROVE  /\ p[1] \in DOMAIN ranges /\ p[2] \in DOMAIN ranges /\ p[1] # p[2]
           /\ RangesOverlap(ranges[p[1]], ranges[p[2]])
<1>1. /\ p[1] \in DOMAIN ranges /\ p[2] \in DOMAIN ranges
      /\ Before(ranges, p[1], p[2])
      /\ ranges[p[1]].to = None \/ ranges[p[2]].from < ranges[p[1]].to
  BY DEF Hits, Adjacent
<1> QED
  BY <1>1 DEF Before, Proper, RangesOverlap

\* first_overlap finds a hit when there is one.
LEMMA FirstOverlapFinds ==
    ASSUME NEW ranges, Proper(ranges)
    PROVE  /\ Hits(ranges) = {} => FirstOverlap(ranges) = <<>>
           /\ Hits(ranges) # {} => /\ FirstOverlap(ranges) \in Hits(ranges)
                                   /\ FirstOverlap(ranges) # <<>>
<1> DEFINE hits == Hits(ranges)
<1>1. hits = {} => FirstOverlap(ranges) = <<>>
  BY DEF FirstOverlap
<1>2. SUFFICES ASSUME hits # {}
               PROVE  FirstOverlap(ranges) \in hits /\ FirstOverlap(ranges) # <<>>
  BY <1>1
<1> DEFINE S == {p[1] : p \in hits}
<1>3. S \subseteq DOMAIN ranges /\ S # {}
  BY <1>2 DEF Hits
<1>4. PICK i \in S : \A j \in S : j # i => Before(ranges, i, j)
  <2> HIDE DEF S
  <2> QED BY <1>3, SortedFirst
<1>5. PICK p \in hits : p[1] = i
  BY <1>4
<1>6. ASSUME NEW q \in hits, q # p PROVE Before(ranges, p[1], q[1])
  <2>1. CASE q[1] # i
    BY <1>4, <1>5, <2>1
  <2>2. CASE q[1] = i
    <3>1. /\ p = <<p[1], p[2]>> /\ q = <<q[1], q[2]>>
          /\ Adjacent(ranges, p[1], p[2]) /\ Adjacent(ranges, q[1], q[2])
          /\ p[2] \in DOMAIN ranges /\ q[2] \in DOMAIN ranges
      BY DEF Hits
    <3>2. p[2] = q[2]
      BY <1>5, <2>2, <3>1, SortedTotal DEF Adjacent
    <3> QED BY <1>5, <1>6, <2>2, <3>1, <3>2
  <2> QED BY <2>1, <2>2
<1>7. FirstOverlap(ranges) = CHOOSE f \in hits : \A q \in hits : q # f => Before(ranges, f[1], q[1])
  BY <1>2 DEF FirstOverlap
<1>8. FirstOverlap(ranges) \in hits
  <2> HIDE DEF hits
  <2> QED BY <1>6, <1>7
<1>9. \A f \in hits : f = <<f[1], f[2]>>
  BY DEF Hits
<1> QED
  BY <1>8, <1>9

(***************************************************************************)
(* first_overlap decides what its docstring says: it finds nothing exactly *)
(* when no two ranges intersect, although it compares neighbours only.     *)
(***************************************************************************)
THEOREM FirstOverlapDecides ==
    ASSUME NEW ranges, Proper(ranges)
    PROVE  FirstOverlap(ranges) = <<>> <=>
             \A i, j \in DOMAIN ranges : i # j => ~RangesOverlap(ranges[i], ranges[j])
<1>1. ASSUME FirstOverlap(ranges) = <<>>, NEW i \in DOMAIN ranges, NEW j \in DOMAIN ranges,
             Before(ranges, i, j)
      PROVE  ~RangesOverlap(ranges[i], ranges[j]) /\ ~RangesOverlap(ranges[j], ranges[i])
  <2>1. PICK k \in DOMAIN ranges : Adjacent(ranges, i, k) /\ ranges[k].from <= ranges[j].from
    BY <1>1, NeighbourExists
  <2>2. <<i, k>> \notin Hits(ranges)
    BY <1>1, FirstOverlapFinds
  <2>3. ranges[i].to # None /\ ~(ranges[k].from < ranges[i].to)
    BY <2>1, <2>2 DEF Hits
  <2>4. ranges[i].to # None /\ ranges[i].to <= ranges[j].from
    BY <2>1, <2>3 DEF Proper
  <2> QED BY <2>4 DEF RangesOverlap
<1>2. ASSUME FirstOverlap(ranges) # <<>>
      PROVE  \E i, j \in DOMAIN ranges : i # j /\ RangesOverlap(ranges[i], ranges[j])
  <2>1. FirstOverlap(ranges) \in Hits(ranges)
    BY <1>2, FirstOverlapFinds
  <2> QED BY <2>1, HitsOverlap
<1>3. ASSUME FirstOverlap(ranges) = <<>>, NEW i \in DOMAIN ranges, NEW j \in DOMAIN ranges, i # j
      PROVE  ~RangesOverlap(ranges[i], ranges[j])
  BY <1>1, <1>3, SortedTotal
<1> QED
  BY <1>2, <1>3

\* The search of _overlapping_pairs after each of its first n rounds.
IsSearch(f, ranges, n) ==
    f = [i \in 0 .. n |->
            IF i = 0 THEN [remaining |-> ranges, pairs |-> {}] ELSE Round(f[i - 1])]

LEMMA SearchPointwise ==
    ASSUME NEW ranges, NEW n \in Nat, NEW f, IsSearch(f, ranges, n)
    PROVE  /\ f[0] = [remaining |-> ranges, pairs |-> {}]
           /\ \A i \in 1 .. n : f[i] = Round(f[i - 1])
<1> DEFINE g == [i \in 0 .. n |->
                    IF i = 0 THEN [remaining |-> ranges, pairs |-> {}] ELSE Round(f[i - 1])]
<1>1. g[0] = [remaining |-> ranges, pairs |-> {}] /\ \A i \in 1 .. n : g[i] = Round(f[i - 1])
  OBVIOUS
<1>2. f = g
  BY DEF IsSearch
<1> HIDE DEF g
<1> QED
  BY <1>1, <1>2

\* The rounds can be taken one after the other.
LEMMA SearchExists ==
    ASSUME NEW ranges, NEW n \in Nat
    PROVE  \E f : IsSearch(f, ranges, n)
<1> DEFINE start == [remaining |-> ranges, pairs |-> {}]
           Bad == {k \in Nat : ~ \E f : IsSearch(f, ranges, k)}
<1>1. 0 \notin Bad
  <2>1. IsSearch([i \in 0 .. 0 |-> start], ranges, 0)
    BY DEF IsSearch
  <2> QED BY <2>1
<1>2. ASSUME NEW k \in Nat, k # 0, k - 1 \notin Bad PROVE k \notin Bad
  <2>1. PICK f : IsSearch(f, ranges, k - 1)
    BY <1>2
  <2>2. /\ f[0] = start /\ \A i \in 1 .. k - 1 : f[i] = Round(f[i - 1])
    BY <1>2, <2>1, SearchPointwise
  <2> DEFINE g == [i \in 0 .. k |-> IF i = k THEN Round(f[k - 1]) ELSE f[i]]
  <2>3. g[0] = start /\ \A i \in 0 .. k - 1 : g[i] = f[i]
    BY <1>2, <2>2
  <2>4. \A i \in 1 .. k : g[i] = Round(g[i - 1])
    <3>1. g[k] = Round(f[k - 1]) /\ g[k - 1] = f[k - 1]
      BY <1>2, <2>3
    <3> QED BY <1>2, <2>2, <2>3, <3>1
  <2>5. g = [i \in 0 .. k |-> g[i]]
    OBVIOUS
  <2> HIDE DEF g
  <2>6. [i \in 0 .. k |-> g[i]] = [i \in 0 .. k |-> IF i = 0 THEN start ELSE Round(g[i - 1])]
    BY <1>2, <2>3, <2>4
  <2>7. IsSearch(g, ranges, k)
    BY <2>5, <2>6 DEF IsSearch
  <2> QED BY <2>7
<1>3. Bad = {}
  <2> SUFFICES ASSUME Bad # {} PROVE FALSE
    OBVIOUS
  <2>1. PICK k \in Bad : \A l \in Bad : k <= l
    <3>1. Bad \subseteq Nat
      OBVIOUS
    <3> HIDE DEF Bad
    <3> QED BY <3>1, LeastNumber
  <2>2. k \in Nat /\ k # 0 /\ k - 1 \notin Bad
    BY <1>1, <2>1
  <2> HIDE DEF Bad
  <2> QED BY <1>2, <2>1, <2>2
<1> QED
  BY <1>3

\* A round only adds to the pairs found.
LEMMA RoundGrows ==
    ASSUME NEW search
    PROVE  search.pairs \subseteq Round(search).pairs
  BY DEF Round

(***************************************************************************)
(* _overlapping_pairs reports an overlap when there is one, although it    *)
(* drops ranges as it searches: the first it meets is never lost.          *)
(***************************************************************************)
THEOREM FirstOverlapReported ==
    ASSUME NEW ranges, Proper(ranges), IsFiniteSet(DOMAIN ranges), FirstOverlap(ranges) # <<>>
    PROVE  /\ FirstOverlap(ranges) \in Hits(ranges)
           /\ <<ranges[FirstOverlap(ranges)[1]], ranges[FirstOverlap(ranges)[2]]>>
                 \in OverlappingPairs(ranges)
<1> DEFINE n == Cardinality(DOMAIN ranges)
           hit == FirstOverlap(ranges)
           pair == <<ranges[hit[1]], ranges[hit[2]]>>
           start == [remaining |-> ranges, pairs |-> {}]
           search == CHOOSE f : IsSearch(f, ranges, n)
<1>1. hit \in Hits(ranges)
  BY FirstOverlapFinds
<1>2. n \in Nat /\ n >= 1
  <2>1. DOMAIN ranges # {}
    BY <1>1, HitsOverlap
  <2>2. n \in Nat /\ n # 0
    BY <2>1, FS_CardinalityType, FS_EmptySet
  <2> QED BY <2>2
<1>3. OverlappingPairs(ranges) = search[n].pairs
  BY DEF OverlappingPairs, IsSearch
<1> HIDE DEF n
<1>4. IsSearch(search, ranges, n)
  BY <1>2, SearchExists
<1> HIDE DEF search
<1>5. search[0] = start /\ \A i \in 1 .. n : search[i] = Round(search[i - 1])
  BY <1>2, <1>4, SearchPointwise
<1>6. pair \in Round(start).pairs
  BY DEF Round
<1> HIDE DEF pair, start
<1> DEFINE Bad == {i \in 1 .. n : pair \notin search[i].pairs}
<1>7. Bad = {}
  <2> SUFFICES ASSUME Bad # {} PROVE FALSE
    OBVIOUS
  <2>1. PICK i \in Bad : \A j \in Bad : i <= j
    <3>1. Bad \subseteq Nat
      OBVIOUS
    <3> HIDE DEF Bad
    <3> QED BY <3>1, LeastNumber
  <2>2. CASE i = 1
    BY <1>5, <1>6, <2>1, <2>2
  <2>3. CASE i # 1
    <3>1. i - 1 \in 1 .. n /\ i \in 1 .. n /\ i - 1 \notin Bad
      BY <1>2, <2>1, <2>3
    <3>2. pair \in search[i - 1].pairs /\ search[i] = Round(search[i - 1])
      BY <1>5, <3>1
    <3>3. pair \in search[i].pairs
      BY <3>2, RoundGrows
    <3> QED BY <2>1, <3>3
  <2> QED BY <2>2, <2>3
<1>8. pair \in search[n].pairs
  BY <1>2, <1>7
<1> QED
  BY <1>1, <1>3, <1>8 DEF pair, n

-----------------------------------------------------------------------------
\* The days and instants are numbers, and None is below them.
LEMMA Scales ==
    /\ Days \subseteq Nat \ {0} /\ Times \subseteq Nat /\ None \in Times /\ None \notin Days
    /\ None = 0 /\ MaxDay \in Nat /\ MaxTime \in Nat
  BY SecurityMasterAssumption DEF Days, Times, None

RowSets == {Listings, Periods, Tickers}

\* What every row has.
LEMMA RowType ==
    ASSUME NEW Rows \in RowSets, NEW r \in Rows
    PROVE  /\ r.sid \in Securities /\ r.from \in Days /\ r.to \in Days \cup {None}
           /\ r.recorded \in Times /\ r.superseded \in Times
           /\ r.from \in Nat /\ r.to \in Nat /\ r.recorded \in Nat /\ r.superseded \in Nat
<1>1. CASE Rows = Listings
  BY <1>1, Scales DEF Listings
<1>2. CASE Rows = Periods
  BY <1>2, Scales DEF Periods
<1>3. CASE Rows = Tickers
  BY <1>3, Scales DEF Tickers
<1> QED
  BY <1>1, <1>2, <1>3 DEF RowSets

\* A row revised in one field stays a row and keeps its other fields.
LEMMA RowSuperseded ==
    ASSUME NEW Rows \in RowSets, NEW r \in Rows, NEW k \in Times
    PROVE  /\ [r EXCEPT !.superseded = k] \in Rows
           /\ [r EXCEPT !.superseded = k].superseded = k
           /\ [r EXCEPT !.superseded = k].recorded = r.recorded
           /\ [r EXCEPT !.superseded = k].sid = r.sid
           /\ [r EXCEPT !.superseded = k].from = r.from
           /\ [r EXCEPT !.superseded = k].to = r.to
<1>1. CASE Rows = Listings
  <2>1. r = [sid |-> r.sid, mic |-> r.mic, from |-> r.from, to |-> r.to,
             recorded |-> r.recorded, superseded |-> r.superseded]
    BY <1>1 DEF Listings
  <2> QED BY <1>1, <2>1 DEF Listings
<1>2. CASE Rows = Periods
  <2>1. r = [sid |-> r.sid, status |-> r.status, from |-> r.from, to |-> r.to,
             recorded |-> r.recorded, superseded |-> r.superseded]
    BY <1>2 DEF Periods
  <2> QED BY <1>2, <2>1 DEF Periods
<1>3. CASE Rows = Tickers
  <2>1. r = [sid |-> r.sid, mic |-> r.mic, value |-> r.value, from |-> r.from, to |-> r.to,
             recorded |-> r.recorded, superseded |-> r.superseded]
    BY <1>3 DEF Tickers
  <2> QED BY <1>3, <2>1 DEF Tickers
<1> QED
  BY <1>1, <1>2, <1>3 DEF RowSets

\* Clearing the supersession of a row undoes a supersession.
LEMMA RowCleared ==
    ASSUME NEW Rows \in RowSets, NEW r \in Rows, NEW k \in Times
    PROVE  /\ [[r EXCEPT !.superseded = k] EXCEPT !.superseded = None] =
                 [r EXCEPT !.superseded = None]
           /\ r.superseded = None => [r EXCEPT !.superseded = None] = r
           /\ [r EXCEPT !.superseded = None].superseded = None
<1>1. CASE Rows = Listings
  <2>1. r = [sid |-> r.sid, mic |-> r.mic, from |-> r.from, to |-> r.to,
             recorded |-> r.recorded, superseded |-> r.superseded]
    BY <1>1 DEF Listings
  <2> QED BY <1>1, <2>1 DEF Listings
<1>2. CASE Rows = Periods
  <2>1. r = [sid |-> r.sid, status |-> r.status, from |-> r.from, to |-> r.to,
             recorded |-> r.recorded, superseded |-> r.superseded]
    BY <1>2 DEF Periods
  <2> QED BY <1>2, <2>1 DEF Periods
<1>3. CASE Rows = Tickers
  <2>1. r = [sid |-> r.sid, mic |-> r.mic, value |-> r.value, from |-> r.from, to |-> r.to,
             recorded |-> r.recorded, superseded |-> r.superseded]
    BY <1>3 DEF Tickers
  <2> QED BY <1>3, <2>1 DEF Tickers
<1> QED
  BY <1>1, <1>2, <1>3 DEF RowSets

\* Stamping a row with the time it was recorded.
LEMMA RowRecorded ==
    ASSUME NEW Rows \in RowSets, NEW r \in Rows, NEW k \in Times
    PROVE  /\ [r EXCEPT !.recorded = k] \in Rows
           /\ [r EXCEPT !.recorded = k].recorded = k
           /\ [r EXCEPT !.recorded = k].superseded = r.superseded
           /\ [r EXCEPT !.recorded = k].sid = r.sid
           /\ [r EXCEPT !.recorded = k].from = r.from
           /\ [r EXCEPT !.recorded = k].to = r.to
<1>1. CASE Rows = Listings
  <2>1. r = [sid |-> r.sid, mic |-> r.mic, from |-> r.from, to |-> r.to,
             recorded |-> r.recorded, superseded |-> r.superseded]
    BY <1>1 DEF Listings
  <2> QED BY <1>1, <2>1 DEF Listings
<1>2. CASE Rows = Periods
  <2>1. r = [sid |-> r.sid, status |-> r.status, from |-> r.from, to |-> r.to,
             recorded |-> r.recorded, superseded |-> r.superseded]
    BY <1>2 DEF Periods
  <2> QED BY <1>2, <2>1 DEF Periods
<1>3. CASE Rows = Tickers
  <2>1. r = [sid |-> r.sid, mic |-> r.mic, value |-> r.value, from |-> r.from, to |-> r.to,
             recorded |-> r.recorded, superseded |-> r.superseded]
    BY <1>3 DEF Tickers
  <2> QED BY <1>3, <2>1 DEF Tickers
<1> QED
  BY <1>1, <1>2, <1>3 DEF RowSets

\* Closing a row on a day.
LEMMA RowClosed ==
    ASSUME NEW Rows \in RowSets, NEW r \in Rows, NEW d \in Days
    PROVE  /\ [r EXCEPT !.to = d] \in Rows
           /\ [r EXCEPT !.to = d].to = d
           /\ [r EXCEPT !.to = d].from = r.from
           /\ [r EXCEPT !.to = d].sid = r.sid
           /\ [r EXCEPT !.to = d].recorded = r.recorded
           /\ [r EXCEPT !.to = d].superseded = r.superseded
<1>1. CASE Rows = Listings
  <2>1. r = [sid |-> r.sid, mic |-> r.mic, from |-> r.from, to |-> r.to,
             recorded |-> r.recorded, superseded |-> r.superseded]
    BY <1>1 DEF Listings
  <2> QED BY <1>1, <2>1 DEF Listings
<1>2. CASE Rows = Periods
  <2>1. r = [sid |-> r.sid, status |-> r.status, from |-> r.from, to |-> r.to,
             recorded |-> r.recorded, superseded |-> r.superseded]
    BY <1>2 DEF Periods
  <2> QED BY <1>2, <2>1 DEF Periods
<1>3. CASE Rows = Tickers
  <2>1. r = [sid |-> r.sid, mic |-> r.mic, value |-> r.value, from |-> r.from, to |-> r.to,
             recorded |-> r.recorded, superseded |-> r.superseded]
    BY <1>3 DEF Tickers
  <2> QED BY <1>3, <2>1 DEF Tickers
<1> QED
  BY <1>1, <1>2, <1>3 DEF RowSets

-----------------------------------------------------------------------------
\* Tables.

\* No knowledge time in a table is later than t.
KnownBy(records, t) ==
    \A i \in DOMAIN records : records[i].recorded <= t /\ records[i].superseded <= t

\* A finite non-empty set of naturals has a greatest element.
LEMMA GreatestNumber ==
    ASSUME NEW S, S \subseteq Nat, S # {}, IsFiniteSet(S)
    PROVE  \E x \in S : \A y \in S : x >= y
<1> DEFINE Topped(T) == \E x \in T : \A y \in T : x >= y
           Bad == {Cardinality(T) : T \in {U \in SUBSET Nat :
                                              IsFiniteSet(U) /\ U # {} /\ ~Topped(U)}}
<1>1. Bad = {}
  <2> SUFFICES ASSUME Bad # {} PROVE FALSE
    OBVIOUS
  <2>1. Bad \subseteq Nat
    BY FS_CardinalityType
  <2>2. PICK n \in Bad : \A m \in Bad : n <= m
    <3> HIDE DEF Bad
    <3> QED BY <2>1, LeastNumber
  <2>3. PICK T \in SUBSET Nat : IsFiniteSet(T) /\ T # {} /\ ~Topped(T) /\ Cardinality(T) = n
    BY <2>2
  <2>4. PICK t \in T : TRUE
    BY <2>3
  <2> DEFINE U == T \ {t}
  <2>5. U \in SUBSET Nat /\ IsFiniteSet(U) /\ Cardinality(U) = n - 1 /\ n \in Nat
    BY <2>1, <2>2, <2>3, <2>4, FS_RemoveElement
  <2>6. Cardinality(U) \notin Bad
    <3>1. n - 1 \notin Bad
      <4> HIDE DEF Bad
      <4> QED BY <2>1, <2>2
    <3> QED BY <2>5, <3>1
  <2>7. CASE U = {}
    <3>1. \A y \in T : y = t
      BY <2>7
    <3> QED BY <2>3, <2>4, <3>1
  <2>8. CASE U # {}
    <3>1. Topped(U)
      BY <2>5, <2>6, <2>8
    <3>2. PICK x \in U : \A y \in U : x >= y
      BY <3>1
    <3>3. x \in T /\ x \in Nat /\ t \in Nat /\ \A y \in T : y \in Nat /\ (y = t \/ y \in U)
      BY <2>3, <2>4, <2>5, <3>2
    <3>4. CASE x >= t
      <4>1. \A y \in T : x >= y
        BY <3>2, <3>3, <3>4
      <4> QED BY <2>3, <3>3, <4>1
    <3>5. CASE t > x
      <4>1. \A y \in T : t >= y
        BY <3>2, <3>3, <3>5
      <4> QED BY <2>3, <2>4, <4>1
    <3> QED BY <3>3, <3>4, <3>5
  <2> QED BY <2>7, <2>8
<1> QED
  BY <1>1

\* The last position of a table.
LEMMA EndOfTable ==
    ASSUME NEW Rows, NEW records, IsTable(records, Rows)
    PROVE  End(records) \in Nat /\ \A i \in DOMAIN records : i \in Nat /\ i > 0 /\ i <= End(records)
<1> DEFINE S == DOMAIN records \cup {0}
<1>1. S \subseteq Nat /\ S # {} /\ IsFiniteSet(S)
  BY FS_AddElement DEF IsTable
<1>2. \A i \in DOMAIN records : i \in S /\ i > 0
  BY DEF IsTable
<1>3. End(records) = CHOOSE x \in S : \A y \in S : x >= y
  BY DEF End, Max
<1> HIDE DEF S
<1>4. End(records) \in S /\ \A y \in S : End(records) >= y
  BY <1>1, <1>3, GreatestNumber
<1> QED
  BY <1>1, <1>2, <1>4

\* A revised row of a revision: what it says and when it was learned.
Revising(records, revisions, Rows) ==
    /\ DOMAIN revisions \subseteq DOMAIN records
    /\ \A i \in DOMAIN revisions :
          /\ revisions[i] \in Rows
          /\ revisions[i].recorded = records[i].recorded
          /\ records[i].superseded = None /\ revisions[i].superseded = None

\* R holds the records of a table revised at an instant k.
IsRevised(R, records, revisions, k) ==
    /\ R = [i \in DOMAIN R |-> R[i]]
    /\ DOMAIN R = DOMAIN records \cup {End(records) + j : j \in DOMAIN revisions}
    /\ \A i \in DOMAIN records \ DOMAIN revisions : R[i] = records[i]
    /\ \A i \in DOMAIN revisions : R[i] = [records[i] EXCEPT !.superseded = k]
    /\ \A j \in DOMAIN revisions :
          /\ End(records) + j \notin DOMAIN records
          /\ R[End(records) + j] = [revisions[j] EXCEPT !.recorded = k]

LEMMA RevisedRows ==
    ASSUME NEW Rows \in RowSets, NEW records, IsTable(records, Rows),
           NEW revisions, Revising(records, revisions, Rows), NEW k \in Times, k # None
    PROVE  IsRevised(Revise(records, revisions, k), records, revisions, k)
<1> DEFINE R == Revise(records, revisions, k)
           end == End(records)
           D == DOMAIN records \cup {end + j : j \in DOMAIN revisions}
<1>1. end \in Nat /\ \A i \in DOMAIN records : i \in Nat /\ i > 0 /\ i <= end
  BY EndOfTable
<1>2. DOMAIN revisions \subseteq DOMAIN records
  BY DEF Revising
<1> HIDE DEF end
<1>3. R = [i \in D |->
              CASE i \in DOMAIN records \ DOMAIN revisions -> records[i]
                [] i \in DOMAIN revisions -> [records[i] EXCEPT !.superseded = k]
                [] OTHER -> [revisions[i - end] EXCEPT !.recorded = k]]
  BY DEF Revise, end
<1> HIDE DEF R
<1>4. \A j \in DOMAIN revisions : /\ end + j \in D /\ end + j \notin DOMAIN records
                                  /\ end + j \notin DOMAIN revisions /\ (end + j) - end = j
  BY <1>1, <1>2
<1>5. \A i \in DOMAIN records : i \in D
  OBVIOUS
<1> HIDE DEF D
<1>6. \A i \in DOMAIN records \ DOMAIN revisions : R[i] = records[i]
  BY <1>3, <1>5
<1>7. \A i \in DOMAIN revisions : R[i] = [records[i] EXCEPT !.superseded = k]
  BY <1>2, <1>3, <1>5
<1>8. \A j \in DOMAIN revisions : R[end + j] = [revisions[j] EXCEPT !.recorded = k]
  BY <1>3, <1>4
<1>9. DOMAIN R = D /\ R = [i \in DOMAIN R |-> R[i]]
  BY <1>3
<1> QED
  BY <1>4, <1>6, <1>7, <1>8, <1>9 DEF R, end, D, IsRevised

\* The rows of a revised table, typed, with what is known of their times.
LEMMA RevisedTable ==
    ASSUME NEW Rows \in RowSets, NEW records, IsTable(records, Rows),
           NEW revisions, Revising(records, revisions, Rows),
           NEW c \in Times, KnownBy(records, c), NEW k \in Times, c <= k, k = None => c = None
    PROVE  LET R == Revise(records, revisions, k)
           IN  IsTable(R, Rows) /\ KnownBy(R, k)
<1> DEFINE R == Revise(records, revisions, k)
           end == End(records)
<1>1. /\ DOMAIN revisions \subseteq DOMAIN records
      /\ \A i \in DOMAIN records : records[i] \in Rows
      /\ \A i \in DOMAIN revisions : revisions[i] \in Rows
      /\ c \in Nat /\ k \in Nat
  BY Scales DEF Revising, IsTable
<1>2. CASE k = None
  <2>1. R = [i \in DOMAIN records |-> IF i \in DOMAIN revisions THEN revisions[i] ELSE records[i]]
    BY <1>2 DEF Revise
  <2>2. IsTable(R, Rows)
    BY <1>1, <2>1 DEF IsTable
  <2>3. KnownBy(R, k)
    <3> SUFFICES ASSUME NEW i \in DOMAIN R PROVE R[i].recorded <= k /\ R[i].superseded <= k
      BY DEF KnownBy
    <3>1. records[i].recorded <= k /\ records[i].superseded <= k
      BY <1>2, <2>1 DEF KnownBy
    <3>2. i \in DOMAIN revisions => R[i].recorded = records[i].recorded /\ R[i].superseded = None
      BY <2>1 DEF Revising
    <3>3. i \notin DOMAIN revisions => R[i] = records[i]
      BY <2>1
    <3> HIDE DEF R
    <3> QED BY <1>1, <3>1, <3>2, <3>3, Scales
  <2> QED BY <2>2, <2>3
<1>3. CASE k # None
  <2>1. /\ R = [i \in DOMAIN R |-> R[i]]
        /\ DOMAIN R = DOMAIN records \cup {end + j : j \in DOMAIN revisions}
        /\ \A i \in DOMAIN records \ DOMAIN revisions : R[i] = records[i]
        /\ \A i \in DOMAIN revisions : R[i] = [records[i] EXCEPT !.superseded = k]
        /\ \A j \in DOMAIN revisions : R[end + j] = [revisions[j] EXCEPT !.recorded = k]
    <3>1. IsRevised(R, records, revisions, k)
      BY <1>3, RevisedRows
    <3> HIDE DEF R
    <3> QED BY <3>1 DEF IsRevised
  <2>2. end \in Nat /\ DOMAIN records \subseteq Nat \ {0} /\ IsFiniteSet(DOMAIN records)
    BY EndOfTable DEF IsTable
  <2> HIDE DEF R, end
  <2>3. DOMAIN R \subseteq Nat \ {0}
    BY <1>1, <2>1, <2>2
  <2>4. IsFiniteSet(DOMAIN R)
    <3>1. IsFiniteSet(DOMAIN revisions)
      BY <1>1, <2>2, FS_Subset
    <3> DEFINE shifted == {end + j : j \in DOMAIN revisions}
               f == [j \in DOMAIN revisions |-> end + j]
    <3>2. f \in Surjection(DOMAIN revisions, shifted)
      BY DEF Surjection
    <3>3. IsFiniteSet(shifted)
      BY <3>1, <3>2, FS_Surjection
    <3> HIDE DEF shifted
    <3>4. IsFiniteSet(DOMAIN records \cup shifted)
      BY <2>2, <3>3, FS_Union
    <3> QED BY <2>1, <3>4 DEF shifted
  <2>5. ASSUME NEW i \in DOMAIN R
        PROVE  R[i] \in Rows /\ R[i].recorded <= k /\ R[i].superseded <= k
    <3>1. CASE i \in DOMAIN records \ DOMAIN revisions
      <4>1. R[i] = records[i] /\ records[i] \in Rows
            /\ records[i].recorded <= c /\ records[i].superseded <= c
        BY <1>1, <2>1, <3>1 DEF KnownBy
      <4>2. records[i].recorded \in Nat /\ records[i].superseded \in Nat
        BY <4>1, RowType
      <4> QED BY <1>1, <4>1, <4>2
    <3>2. CASE i \in DOMAIN revisions
      <4>1. records[i] \in Rows /\ records[i].recorded <= c /\ records[i].recorded \in Nat
        BY <1>1, <3>2, RowType DEF KnownBy
      <4>2. PICK r \in Rows : r = records[i]
        BY <4>1
      <4> DEFINE q == [r EXCEPT !.superseded = k]
      <4>3. q \in Rows /\ q.superseded = k /\ q.recorded = r.recorded
        BY RowSuperseded
      <4>4. R[i] = q
        BY <2>1, <3>2, <4>2
      <4> HIDE DEF q
      <4> QED BY <1>1, <4>1, <4>2, <4>3, <4>4
    <3>3. CASE i \notin DOMAIN records
      <4>1. PICK j \in DOMAIN revisions : i = end + j
        BY <2>1, <3>3
      <4> DEFINE q == [revisions[j] EXCEPT !.recorded = k]
      <4>2. q \in Rows /\ q.recorded = k /\ q.superseded = revisions[j].superseded
        BY <1>1, RowRecorded
      <4>3. R[i] = q /\ revisions[j].superseded = None
        BY <2>1, <4>1 DEF Revising
      <4> HIDE DEF q
      <4> QED BY <1>1, <4>2, <4>3, Scales
    <3> QED BY <1>1, <3>1, <3>2, <3>3
  <2>6. R \in [DOMAIN R -> Rows]
    BY <2>1, <2>5
  <2> QED BY <2>3, <2>4, <2>5, <2>6 DEF IsTable, KnownBy, R
<1> QED
  BY <1>2, <1>3

\* A is a table with a row r after its records.
IsAdded(A, records, r) ==
    /\ A = [i \in DOMAIN A |-> A[i]]
    /\ DOMAIN A = DOMAIN records \cup {End(records) + 1} /\ End(records) + 1 \notin DOMAIN records
    /\ \A i \in DOMAIN records : A[i] = records[i]
    /\ A[End(records) + 1] = r

LEMMA AddedTable ==
    ASSUME NEW Rows \in RowSets, NEW records, IsTable(records, Rows),
           NEW k \in Times, KnownBy(records, k),
           NEW r \in Rows, r.recorded = k, r.superseded = None
    PROVE  /\ IsAdded(Added(records, r), records, r)
           /\ IsTable(Added(records, r), Rows) /\ KnownBy(Added(records, r), k)
<1> DEFINE A == Added(records, r)
           last == End(records) + 1
<1>1. /\ last \in Nat /\ last > 0 /\ last \notin DOMAIN records
      /\ DOMAIN records \subseteq Nat \ {0} /\ IsFiniteSet(DOMAIN records)
      /\ \A i \in DOMAIN records : records[i] \in Rows
  <2>1. End(records) \in Nat /\ \A i \in DOMAIN records : i \in Nat /\ i <= End(records)
    BY EndOfTable
  <2> QED BY <2>1 DEF IsTable
<1>2. A = [i \in DOMAIN records \cup {last} |-> IF i \in DOMAIN records THEN records[i] ELSE r]
  BY DEF Added
<1> HIDE DEF A, last
<1>3. /\ A = [i \in DOMAIN A |-> A[i]] /\ DOMAIN A = DOMAIN records \cup {last}
      /\ \A i \in DOMAIN records : A[i] = records[i]
      /\ A[last] = r
  BY <1>1, <1>2
<1>4. IsFiniteSet(DOMAIN A) /\ DOMAIN A \subseteq Nat \ {0}
  BY <1>1, <1>3, FS_AddElement
<1>5. \A i \in DOMAIN A : A[i] \in Rows
  BY <1>1, <1>3
<1>6. KnownBy(A, k)
  <2>1. r.recorded <= k /\ r.superseded <= k
    BY Scales
  <2> QED BY <1>3, <2>1 DEF KnownBy
<1>7. A \in [DOMAIN A -> Rows]
  BY <1>3, <1>5
<1> QED
  BY <1>1, <1>3, <1>4, <1>6, <1>7 DEF IsTable, IsAdded, A, last

-----------------------------------------------------------------------------
\* Views.

\* Before an instant at which a table is revised, it reads as it did.
LEMMA RevisionHidden ==
    ASSUME NEW Rows \in RowSets, NEW records, IsTable(records, Rows),
           NEW revisions, Revising(records, revisions, Rows),
           NEW k \in Times, k # None, NEW t \in Times, t < k
    PROVE  Visible(Revise(records, revisions, k), t) = Visible(records, t)
<1> DEFINE R == Revise(records, revisions, k)
           end == End(records)
           seen(T) == {j \in DOMAIN T : IsVisible(T[j], t)}
<1>1. IsRevised(R, records, revisions, k)
  BY RevisedRows
<1> HIDE DEF R
<1>2. /\ DOMAIN revisions \subseteq DOMAIN records /\ t \in Nat /\ k \in Nat
      /\ \A i \in DOMAIN records : records[i] \in Rows
      /\ \A i \in DOMAIN revisions : revisions[i] \in Rows /\ records[i].superseded = None
  BY Scales DEF IsTable, Revising
<1>3. ASSUME NEW i \in DOMAIN revisions
      PROVE  /\ IsVisible(R[i], t) <=> IsVisible(records[i], t)
             /\ [R[i] EXCEPT !.superseded = None] = [records[i] EXCEPT !.superseded = None]
  <2>1. PICK r \in Rows : r = records[i] /\ r.superseded = None
    BY <1>2
  <2>2. R[i] = [r EXCEPT !.superseded = k]
    BY <1>1, <2>1 DEF IsRevised
  <2> DEFINE q == [r EXCEPT !.superseded = k]
  <2>3. q.superseded = k /\ q.recorded = r.recorded
    BY RowSuperseded
  <2>4. [q EXCEPT !.superseded = None] = [r EXCEPT !.superseded = None]
    BY RowCleared
  <2> HIDE DEF q
  <2>5. IsVisible(q, t) <=> IsVisible(r, t)
    BY <1>2, <2>1, <2>3 DEF IsVisible
  <2> QED BY <2>1, <2>2, <2>4, <2>5 DEF q
<1>4. ASSUME NEW j \in DOMAIN revisions PROVE ~IsVisible(R[end + j], t)
  <2>1. PICK r \in Rows : r = revisions[j]
    BY <1>2
  <2> DEFINE q == [r EXCEPT !.recorded = k]
  <2>2. R[end + j] = q
    BY <1>1, <2>1 DEF IsRevised
  <2>3. q.recorded = k
    BY RowRecorded
  <2> HIDE DEF q
  <2> QED BY <1>2, <2>2, <2>3 DEF IsVisible
<1>5. \A i \in DOMAIN records :
         /\ i \in DOMAIN R
         /\ IsVisible(R[i], t) <=> IsVisible(records[i], t)
         /\ [R[i] EXCEPT !.superseded = None] = [records[i] EXCEPT !.superseded = None]
  BY <1>1, <1>3 DEF IsRevised
<1>6. \A i \in DOMAIN R : i \notin DOMAIN records => ~IsVisible(R[i], t)
  BY <1>1, <1>4 DEF IsRevised
<1>7. seen(R) = seen(records) /\ seen(records) \subseteq DOMAIN records
  BY <1>5, <1>6
<1>8. Visible(R, t) = [i \in seen(R) |-> [R[i] EXCEPT !.superseded = None]]
      /\ Visible(records, t) = [i \in seen(records) |-> [records[i] EXCEPT !.superseded = None]]
  BY DEF Visible
<1> HIDE DEF seen
<1> QED
  BY <1>5, <1>7, <1>8 DEF R

\* Nor is a row seen before it is recorded.
LEMMA AdditionHidden ==
    ASSUME NEW A, NEW records, NEW r, IsAdded(A, records, r),
           NEW t \in Times, r.recorded \in Times, t < r.recorded
    PROVE  Visible(A, t) = Visible(records, t)
<1> DEFINE seen(T) == {j \in DOMAIN T : IsVisible(T[j], t)}
<1>1. t \in Nat /\ r.recorded \in Nat
  BY Scales
<1>2. ~IsVisible(r, t)
  BY <1>1 DEF IsVisible
<1>3. \A i \in DOMAIN records : i \in DOMAIN A /\ A[i] = records[i]
  BY DEF IsAdded
<1>4. \A i \in DOMAIN A : i \in DOMAIN records \/ A[i] = r
  BY DEF IsAdded
<1>5. seen(A) = seen(records)
  BY <1>2, <1>3, <1>4
<1>6. Visible(A, t) = [i \in seen(A) |-> [A[i] EXCEPT !.superseded = None]]
      /\ Visible(records, t) = [i \in seen(records) |-> [records[i] EXCEPT !.superseded = None]]
  BY DEF Visible
<1>7. \A i \in seen(records) : A[i] = records[i]
  BY <1>3
<1> HIDE DEF seen
<1> QED
  BY <1>5, <1>6, <1>7

\* From the last knowledge time on, a table reads as its current records.
LEMMA VisibleNow ==
    ASSUME NEW Rows \in RowSets, NEW records, IsTable(records, Rows),
           NEW k \in Times, KnownBy(records, k), NEW t \in Times, k <= t
    PROVE  Visible(records, t) = Current(records)
<1> DEFINE seen == {j \in DOMAIN records : IsVisible(records[j], t)}
           cur == {j \in DOMAIN records : IsCurrent(records[j])}
<1>1. k \in Nat /\ t \in Nat
  BY Scales
<1>2. ASSUME NEW i \in DOMAIN records
      PROVE  /\ IsVisible(records[i], t) <=> IsCurrent(records[i])
             /\ IsCurrent(records[i]) =>
                   [records[i] EXCEPT !.superseded = None] = records[i]
  <2>1. PICK r \in Rows : r = records[i]
    BY DEF IsTable
  <2>2. r.recorded \in Nat /\ r.superseded \in Nat /\ r.recorded <= k /\ r.superseded <= k
    BY <2>1, RowType DEF KnownBy
  <2>3. IsVisible(r, t) <=> IsCurrent(r)
    BY <1>1, <2>2 DEF IsVisible, IsCurrent
  <2>4. r.superseded = None => [r EXCEPT !.superseded = None] = r
    BY RowCleared
  <2> QED BY <2>1, <2>3, <2>4 DEF IsCurrent
<1>3. seen = cur
  BY <1>2
<1>4. Visible(records, t) = [i \in seen |-> [records[i] EXCEPT !.superseded = None]]
  BY DEF Visible
<1>5. Current(records) = [i \in cur |-> records[i]]
  BY DEF Current, Restrict
<1>6. \A i \in cur : [records[i] EXCEPT !.superseded = None] = records[i]
  BY <1>2
<1> HIDE DEF seen, cur
<1> QED
  BY <1>3, <1>4, <1>5, <1>6

\* The current records of a table are a table of current records.
LEMMA CurrentTable ==
    ASSUME NEW Rows \in RowSets, NEW records, IsTable(records, Rows)
    PROVE  /\ IsTable(Current(records), Rows)
           /\ Current(Current(records)) = Current(records)
           /\ DOMAIN Current(records) \subseteq DOMAIN records
           /\ \A i \in DOMAIN Current(records) :
                 Current(records)[i] = records[i] /\ IsCurrent(records[i])
<1> DEFINE cur == {j \in DOMAIN records : IsCurrent(records[j])}
           C == Current(records)
<1>1. C = [i \in cur |-> records[i]]
  BY DEF Current, Restrict
<1>2. cur \subseteq DOMAIN records /\ \A i \in cur : IsCurrent(records[i])
  OBVIOUS
<1>3. Current(C) = [i \in {j \in DOMAIN C : IsCurrent(C[j])} |-> C[i]]
  BY DEF Current, Restrict
<1> HIDE DEF C, cur
<1>4. DOMAIN C = cur /\ \A i \in cur : C[i] = records[i]
  BY <1>1
<1>5. {j \in DOMAIN C : IsCurrent(C[j])} = cur
  BY <1>2, <1>4
<1>6. Current(C) = C
  BY <1>1, <1>3, <1>4, <1>5
<1>7. IsFiniteSet(cur)
  BY <1>2, FS_Subset DEF IsTable
<1>8. IsTable(C, Rows)
  BY <1>1, <1>2, <1>4, <1>7 DEF IsTable
<1> QED
  BY <1>2, <1>4, <1>6, <1>8 DEF C

\* A master of the current records only.
CurrentMaster(m) == [listings |-> Current(m.listings), periods |-> Current(m.periods),
                     identifiers |-> Current(m.identifiers)]

\* Validation looks at current records only, so the current records validate.
LEMMA CurrentConstructible ==
    ASSUME NEW m, IsMaster(m), Constructible(m)
    PROVE  IsMaster(CurrentMaster(m)) /\ Constructible(CurrentMaster(m))
<1> DEFINE c == CurrentMaster(m)
<1>1. /\ c.listings = Current(m.listings) /\ c.periods = Current(m.periods)
      /\ c.identifiers = Current(m.identifiers)
      /\ c = [listings |-> c.listings, periods |-> c.periods, identifiers |-> c.identifiers]
  BY DEF CurrentMaster
<1> HIDE DEF c
<1>2. /\ IsTable(m.listings, Listings) /\ IsTable(m.periods, Periods)
      /\ IsTable(m.identifiers, Tickers)
  BY DEF IsMaster
<1>3. /\ IsTable(c.listings, Listings) /\ IsTable(c.periods, Periods)
      /\ IsTable(c.identifiers, Tickers)
      /\ Current(c.listings) = Current(m.listings) /\ Current(c.periods) = Current(m.periods)
      /\ Current(c.identifiers) = Current(m.identifiers)
  BY <1>1, <1>2, CurrentTable DEF RowSets
<1>4. IsMaster(c)
  BY <1>1, <1>3 DEF IsMaster
<1>5. Consistent(c)
  <2>1. \A sid : TerminalPeriods(c, sid) = TerminalPeriods(m, sid)
    BY <1>3 DEF TerminalPeriods
  <2>2. \A r : EndsInTime(c, r) <=> EndsInTime(m, r)
    BY <2>1 DEF EndsInTime
  <2>3. Consistent(m)
    BY DEF Constructible
  <2> QED BY <1>3, <2>2, <2>3 DEF Consistent
<1>6. \A records \in {c.listings, c.periods, c.identifiers} :
        \A r \in Range(records) : ValidRecord(r)
  <2>1. /\ \A i \in DOMAIN c.listings : i \in DOMAIN m.listings /\ c.listings[i] = m.listings[i]
        /\ \A i \in DOMAIN c.periods : i \in DOMAIN m.periods /\ c.periods[i] = m.periods[i]
        /\ \A i \in DOMAIN c.identifiers :
              i \in DOMAIN m.identifiers /\ c.identifiers[i] = m.identifiers[i]
    BY <1>1, <1>2, CurrentTable DEF RowSets
  <2> QED BY <2>1 DEF Constructible, Range
<1> QED
  BY <1>4, <1>5, <1>6 DEF Constructible, c

-----------------------------------------------------------------------------
\* What an event does to one table.

\* The table new is what old becomes when something is learned at k.
Learns(old, new, Rows, k) ==
    /\ IsTable(new, Rows) /\ KnownBy(new, k)
    /\ \A t \in Times : t < k => Visible(new, t) = Visible(old, t)

\* Closing current records is a revision.
LEMMA ClosedRevising ==
    ASSUME NEW Rows \in RowSets, NEW records, IsTable(records, Rows),
           NEW indices, indices \subseteq DOMAIN records,
           \A i \in indices : IsCurrent(records[i]), NEW day \in Days
    PROVE  /\ Revising(records, ClosedAt(records, indices, day), Rows)
           /\ DOMAIN ClosedAt(records, indices, day) = indices
<1> DEFINE C == ClosedAt(records, indices, day)
<1>1. C = [i \in indices |-> [records[i] EXCEPT !.to = day]]
  BY DEF ClosedAt
<1> HIDE DEF C
<1>2. ASSUME NEW i \in indices
      PROVE  /\ C[i] \in Rows /\ C[i].recorded = records[i].recorded
             /\ records[i].superseded = None /\ C[i].superseded = None
  <2>1. PICK r \in Rows : r = records[i] /\ r.superseded = None
    BY <1>2 DEF IsTable, IsCurrent
  <2> DEFINE q == [r EXCEPT !.to = day]
  <2>2. q \in Rows /\ q.recorded = r.recorded /\ q.superseded = r.superseded
    BY RowClosed
  <2>3. C[i] = q
    BY <1>1, <2>1
  <2> HIDE DEF q
  <2> QED BY <2>1, <2>2, <2>3
<1> QED
  BY <1>1, <1>2 DEF Revising, C

LEMMA LearnNothing ==
    ASSUME NEW Rows \in RowSets, NEW records, IsTable(records, Rows),
           NEW c \in Times, KnownBy(records, c), NEW k \in Times, c <= k
    PROVE  Learns(records, records, Rows, k)
<1>1. c \in Nat /\ k \in Nat
  BY Scales
<1>2. ASSUME NEW i \in DOMAIN records PROVE records[i].recorded <= k /\ records[i].superseded <= k
  <2>1. PICK r \in Rows : r = records[i]
    BY DEF IsTable
  <2>2. r.recorded <= c /\ r.superseded <= c /\ r.recorded \in Nat /\ r.superseded \in Nat
    BY <2>1, RowType DEF KnownBy
  <2> QED BY <1>1, <2>1, <2>2
<1> QED
  BY <1>2 DEF Learns, KnownBy

LEMMA LearnRevision ==
    ASSUME NEW Rows \in RowSets, NEW records, IsTable(records, Rows),
           NEW revisions, Revising(records, revisions, Rows),
           NEW c \in Times, KnownBy(records, c), NEW k \in Times, c <= k, k = None => c = None
    PROVE  Learns(records, Revise(records, revisions, k), Rows, k)
<1> DEFINE R == Revise(records, revisions, k)
<1>1. IsTable(R, Rows) /\ KnownBy(R, k)
  BY RevisedTable
<1>2. ASSUME NEW t \in Times, t < k PROVE Visible(R, t) = Visible(records, t)
  <2>1. k # None
    BY <1>2, Scales
  <2> QED BY <1>2, <2>1, RevisionHidden
<1> HIDE DEF R
<1> QED
  BY <1>1, <1>2 DEF Learns, R

LEMMA LearnAddition ==
    ASSUME NEW Rows \in RowSets, NEW old, NEW records, NEW k \in Times,
           Learns(old, records, Rows, k),
           NEW r \in Rows, r.recorded = k, r.superseded = None
    PROVE  /\ Learns(old, Added(records, r), Rows, k)
           /\ IsAdded(Added(records, r), records, r)
<1> DEFINE A == Added(records, r)
<1>1. IsTable(records, Rows) /\ KnownBy(records, k)
  BY DEF Learns
<1>2. IsAdded(A, records, r) /\ IsTable(A, Rows) /\ KnownBy(A, k)
  BY <1>1, AddedTable
<1> HIDE DEF A
<1>3. ASSUME NEW t \in Times, t < k PROVE Visible(A, t) = Visible(old, t)
  <2>1. Visible(A, t) = Visible(records, t)
    BY <1>2, <1>3, AdditionHidden
  <2> QED BY <1>3, <2>1 DEF Learns
<1> QED
  BY <1>2, <1>3 DEF Learns, A

-----------------------------------------------------------------------------
\* What an event leaves alone: the days before it.

\* Two rows of a table say the same, apart from their ranges and times.
SameRow(q, r, Rows) ==
    /\ q.sid = r.sid
    /\ Rows = Listings => q.mic = r.mic
    /\ Rows = Periods => q.status = r.status
    /\ Rows = Tickers => q.mic = r.mic /\ q.value = r.value

LEMMA RowKept ==
    ASSUME NEW Rows \in RowSets, NEW r \in Rows, NEW d \in Days, NEW k \in Times
    PROVE  /\ SameRow(r, r, Rows)
           /\ SameRow([r EXCEPT !.to = d], r, Rows)
           /\ SameRow([r EXCEPT !.recorded = k], r, Rows)
           /\ SameRow([r EXCEPT !.superseded = k], r, Rows)
<1>1. /\ [r EXCEPT !.to = d].sid = r.sid /\ [r EXCEPT !.recorded = k].sid = r.sid
      /\ [r EXCEPT !.superseded = k].sid = r.sid
  BY RowClosed, RowRecorded, RowSuperseded
<1>2. ASSUME Rows = Listings
      PROVE  /\ [r EXCEPT !.to = d].mic = r.mic /\ [r EXCEPT !.recorded = k].mic = r.mic
             /\ [r EXCEPT !.superseded = k].mic = r.mic
  <2>1. r = [sid |-> r.sid, mic |-> r.mic, from |-> r.from, to |-> r.to,
             recorded |-> r.recorded, superseded |-> r.superseded]
    BY <1>2 DEF Listings
  <2> QED BY <2>1
<1>3. ASSUME Rows = Periods
      PROVE  /\ [r EXCEPT !.to = d].status = r.status /\ [r EXCEPT !.recorded = k].status = r.status
             /\ [r EXCEPT !.superseded = k].status = r.status
  <2>1. r = [sid |-> r.sid, status |-> r.status, from |-> r.from, to |-> r.to,
             recorded |-> r.recorded, superseded |-> r.superseded]
    BY <1>3 DEF Periods
  <2> QED BY <2>1
<1>4. ASSUME Rows = Tickers
      PROVE  /\ [r EXCEPT !.to = d].mic = r.mic /\ [r EXCEPT !.recorded = k].mic = r.mic
             /\ [r EXCEPT !.superseded = k].mic = r.mic
             /\ [r EXCEPT !.to = d].value = r.value /\ [r EXCEPT !.recorded = k].value = r.value
             /\ [r EXCEPT !.superseded = k].value = r.value
  <2>1. r = [sid |-> r.sid, mic |-> r.mic, value |-> r.value, from |-> r.from, to |-> r.to,
             recorded |-> r.recorded, superseded |-> r.superseded]
    BY <1>4 DEF Tickers
  <2> QED BY <2>1
<1> QED
  BY <1>1, <1>2, <1>3, <1>4, Zenon DEF SameRow

\* Saying the same is transitive.
LEMMA SameRowTransitive ==
    ASSUME NEW Rows, NEW p, NEW q, NEW r, SameRow(p, q, Rows), SameRow(q, r, Rows)
    PROVE  SameRow(p, r, Rows)
  BY DEF SameRow

\* On the days before an event the current records of two tables say the same.
PastKept(old, new, Rows, day) ==
    \A d \in Days : d < day =>
        /\ \A i \in DOMAIN old : IsCurrent(old[i]) /\ Covers(old[i], d) =>
              \E j \in DOMAIN new :
                 IsCurrent(new[j]) /\ Covers(new[j], d) /\ SameRow(new[j], old[i], Rows)
        /\ \A j \in DOMAIN new : IsCurrent(new[j]) /\ Covers(new[j], d) =>
              \E i \in DOMAIN old :
                 IsCurrent(old[i]) /\ Covers(old[i], d) /\ SameRow(new[j], old[i], Rows)

LEMMA NothingKept ==
    ASSUME NEW Rows \in RowSets, NEW records, IsTable(records, Rows), NEW day \in Days
    PROVE  PastKept(records, records, Rows, day)
<1>1. \A i \in DOMAIN records : SameRow(records[i], records[i], Rows)
  BY DEF SameRow
<1>2. \A d \in Days, i \in DOMAIN records :
        IsCurrent(records[i]) /\ Covers(records[i], d) =>
          \E j \in DOMAIN records :
             /\ IsCurrent(records[j]) /\ Covers(records[j], d)
             /\ SameRow(records[j], records[i], Rows)
  BY <1>1, Zenon
<1>3. \A d \in Days, j \in DOMAIN records :
        IsCurrent(records[j]) /\ Covers(records[j], d) =>
          \E i \in DOMAIN records :
             /\ IsCurrent(records[i]) /\ Covers(records[i], d)
             /\ SameRow(records[j], records[i], Rows)
  BY <1>1, Zenon
<1> QED
  BY <1>2, <1>3, Zenon DEF PastKept

\* A row closed on a day says what it said of the days before.
LEMMA ClosedCovers ==
    ASSUME NEW Rows \in RowSets, NEW r \in Rows, NEW day \in Days, Covers(r, day),
           NEW d \in Days, d < day
    PROVE  Covers([r EXCEPT !.to = day], d) <=> Covers(r, d)
<1> DEFINE q == [r EXCEPT !.to = day]
<1>1. q.to = day /\ q.from = r.from /\ r.from \in Nat /\ r.to \in Nat /\ day \in Nat /\ d \in Nat
  BY RowClosed, RowType, Scales
<1> HIDE DEF q
<1>2. Covers(q, d) <=> Covers(r, d)
  BY <1>1, Scales DEF Covers
<1> QED
  BY <1>2 DEF q

\* Revising a table by closing records in force on a day keeps the days before.
LEMMA ClosingKeepsPast ==
    ASSUME NEW Rows \in RowSets, NEW records, IsTable(records, Rows),
           NEW day \in Days, NEW k \in Times,
           NEW indices, indices \subseteq DOMAIN records,
           \A i \in indices : IsCurrent(records[i]) /\ Covers(records[i], day)
    PROVE  PastKept(records, Revise(records, ClosedAt(records, indices, day), k), Rows, day)
<1> DEFINE C == ClosedAt(records, indices, day)
           R == Revise(records, C, k)
           end == End(records)
<1>1. Revising(records, C, Rows) /\ DOMAIN C = indices
  BY ClosedRevising
<1>2. C = [i \in indices |-> [records[i] EXCEPT !.to = day]]
  BY DEF ClosedAt
<1> HIDE DEF C
<1> SUFFICES ASSUME NEW d \in Days, d < day
             PROVE  /\ \A i \in DOMAIN records : IsCurrent(records[i]) /\ Covers(records[i], d) =>
                         \E j \in DOMAIN R :
                            IsCurrent(R[j]) /\ Covers(R[j], d) /\ SameRow(R[j], records[i], Rows)
                    /\ \A j \in DOMAIN R : IsCurrent(R[j]) /\ Covers(R[j], d) =>
                         \E i \in DOMAIN records :
                            /\ IsCurrent(records[i]) /\ Covers(records[i], d)
                            /\ SameRow(R[j], records[i], Rows)
  BY DEF PastKept, C
<1>3. \A i \in DOMAIN records : records[i] \in Rows /\ SameRow(records[i], records[i], Rows)
  BY DEF IsTable, SameRow
<1>4. ASSUME NEW i \in indices
      PROVE  /\ C[i] \in Rows /\ C[i].superseded = None
             /\ Covers(C[i], d) <=> Covers(records[i], d)
             /\ SameRow(C[i], records[i], Rows)
  <2>1. PICK r \in Rows : r = records[i] /\ Covers(r, day)
    BY <1>3
  <2> DEFINE q == [r EXCEPT !.to = day]
  <2>2. Covers(q, d) <=> Covers(r, d)
    BY <2>1, ClosedCovers
  <2>3. SameRow(q, r, Rows)
    BY RowKept, Scales
  <2>4. C[i] = q
    BY <1>2, <2>1
  <2>5. C[i] \in Rows /\ C[i].superseded = None
    BY <1>1 DEF Revising
  <2> HIDE DEF q
  <2> QED BY <2>1, <2>2, <2>3, <2>4, <2>5
<1>5. CASE k = None
  <2>1. R = [i \in DOMAIN records |-> IF i \in indices THEN C[i] ELSE records[i]]
    BY <1>1, <1>5 DEF Revise
  <2> HIDE DEF R
  <2>2. \A i \in DOMAIN records :
           /\ i \in DOMAIN R
           /\ IsCurrent(R[i]) <=> IsCurrent(records[i])
           /\ Covers(R[i], d) <=> Covers(records[i], d)
           /\ SameRow(R[i], records[i], Rows)
    BY <1>3, <1>4, <2>1 DEF IsCurrent
  <2>3. DOMAIN R = DOMAIN records
    BY <2>1
  <2> QED BY <2>2, <2>3
<1>6. CASE k # None
  <2>1. IsRevised(R, records, C, k)
    BY <1>1, <1>6, RevisedRows
  <2> HIDE DEF R
  <2>2. /\ DOMAIN R = DOMAIN records \cup {end + j : j \in indices}
        /\ \A i \in DOMAIN records \ indices : R[i] = records[i]
        /\ \A i \in indices : R[i] = [records[i] EXCEPT !.superseded = k]
        /\ \A j \in indices : R[end + j] = [C[j] EXCEPT !.recorded = k]
    BY <1>1, <2>1 DEF IsRevised
  <2> HIDE DEF end
  <2>3. ASSUME NEW i \in indices PROVE ~IsCurrent(R[i])
    <3>1. PICK r \in Rows : r = records[i]
      BY <1>3
    <3>2. [r EXCEPT !.superseded = k].superseded = k
      BY RowSuperseded
    <3> QED BY <1>6, <2>2, <3>1, <3>2 DEF IsCurrent
  <2>4. ASSUME NEW i \in indices
        PROVE  /\ IsCurrent(R[end + i])
               /\ Covers(R[end + i], d) <=> Covers(records[i], d)
               /\ SameRow(R[end + i], records[i], Rows)
    <3>1. PICK r \in Rows : r = C[i]
      BY <1>4
    <3> DEFINE q == [r EXCEPT !.recorded = k]
    <3>2. q.superseded = r.superseded /\ q.from = r.from /\ q.to = r.to
      BY RowRecorded
    <3>3. SameRow(q, r, Rows)
      BY RowKept
    <3>4. R[end + i] = q
      BY <2>2, <3>1
    <3> HIDE DEF q
    <3>5. IsCurrent(q) /\ (Covers(q, d) <=> Covers(r, d))
      BY <1>4, <3>1, <3>2 DEF IsCurrent, Covers
    <3>6. SameRow(q, records[i], Rows)
      BY <1>4, <3>1, <3>3, SameRowTransitive
    <3> QED BY <1>4, <3>1, <3>4, <3>5, <3>6
  <2>5. ASSUME NEW i \in DOMAIN records, IsCurrent(records[i]), Covers(records[i], d)
        PROVE  \E j \in DOMAIN R :
                  IsCurrent(R[j]) /\ Covers(R[j], d) /\ SameRow(R[j], records[i], Rows)
    <3>1. CASE i \in indices
      BY <2>2, <2>4, <2>5, <3>1
    <3>2. CASE i \notin indices
      BY <1>3, <2>2, <2>5, <3>2
    <3> QED BY <3>1, <3>2
  <2>6. ASSUME NEW j \in DOMAIN R, IsCurrent(R[j]), Covers(R[j], d)
        PROVE  \E i \in DOMAIN records :
                  IsCurrent(records[i]) /\ Covers(records[i], d) /\ SameRow(R[j], records[i], Rows)
    <3>1. CASE j \in DOMAIN records
      <4>1. j \notin indices
        BY <2>3, <2>6
      <4> QED BY <1>3, <2>2, <2>6, <3>1, <4>1
    <3>2. CASE j \notin DOMAIN records
      <4>1. PICK i \in indices : j = end + i
        BY <2>2, <3>2
      <4> QED BY <2>4, <2>6, <4>1
    <3> QED BY <3>1, <3>2
  <2> QED BY <2>5, <2>6
<1> QED
  BY <1>5, <1>6

\* A row that begins on the day of the event says nothing of the days before.
LEMMA AddingKeepsPast ==
    ASSUME NEW Rows \in RowSets, NEW old, NEW records, NEW day \in Days,
           PastKept(old, records, Rows, day),
           NEW A, NEW r, IsAdded(A, records, r), r.from = day
    PROVE  PastKept(old, A, Rows, day)
<1> SUFFICES ASSUME NEW d \in Days, d < day
             PROVE  /\ \A i \in DOMAIN old : IsCurrent(old[i]) /\ Covers(old[i], d) =>
                         \E j \in DOMAIN A :
                            IsCurrent(A[j]) /\ Covers(A[j], d) /\ SameRow(A[j], old[i], Rows)
                    /\ \A j \in DOMAIN A : IsCurrent(A[j]) /\ Covers(A[j], d) =>
                         \E i \in DOMAIN old :
                            /\ IsCurrent(old[i]) /\ Covers(old[i], d)
                            /\ SameRow(A[j], old[i], Rows)
  BY DEF PastKept
<1>1. \A i \in DOMAIN records : i \in DOMAIN A /\ A[i] = records[i]
  BY DEF IsAdded
<1>2. \A j \in DOMAIN A : (j \in DOMAIN records /\ A[j] = records[j]) \/ A[j] = r
  BY DEF IsAdded
<1>3. ~Covers(r, d)
  BY Scales DEF Covers
<1>4. /\ \A i \in DOMAIN old : IsCurrent(old[i]) /\ Covers(old[i], d) =>
            \E j \in DOMAIN records :
               IsCurrent(records[j]) /\ Covers(records[j], d) /\ SameRow(records[j], old[i], Rows)
      /\ \A j \in DOMAIN records : IsCurrent(records[j]) /\ Covers(records[j], d) =>
            \E i \in DOMAIN old :
               IsCurrent(old[i]) /\ Covers(old[i], d) /\ SameRow(records[j], old[i], Rows)
  BY DEF PastKept
<1> QED
  BY <1>1, <1>2, <1>3, <1>4, Zenon

-----------------------------------------------------------------------------
\* What an event learned at k, effective on day, does to the master.
Tells(old, new, day, k) ==
    /\ new = [listings |-> new.listings, periods |-> new.periods,
              identifiers |-> new.identifiers]
    /\ Learns(old.listings, new.listings, Listings, k)
    /\ Learns(old.periods, new.periods, Periods, k)
    /\ Learns(old.identifiers, new.identifiers, Tickers, k)
    /\ PastKept(old.listings, new.listings, Listings, day)
    /\ PastKept(old.periods, new.periods, Periods, day)
    /\ PastKept(old.identifiers, new.identifiers, Tickers, day)
    /\ TerminalStays(new.periods)

\* Every knowledge time in the master is past.
KnownMaster(m, c) ==
    /\ IsMaster(m) /\ TerminalStays(m.periods)
    /\ KnownBy(m.listings, c) /\ KnownBy(m.periods, c) /\ KnownBy(m.identifiers, c)

\* Closing the records of a table that are in force on a day.
LEMMA Closing ==
    ASSUME NEW Rows \in RowSets, NEW records, IsTable(records, Rows),
           NEW c \in Times, KnownBy(records, c), NEW k \in Times, c <= k, k = None => c = None,
           NEW day \in Days, NEW indices, indices \subseteq DOMAIN records,
           \A i \in indices : IsCurrent(records[i]) /\ Covers(records[i], day),
           NEW R, R = Revise(records, ClosedAt(records, indices, day), k)
    PROVE  Learns(records, R, Rows, k) /\ PastKept(records, R, Rows, day)
<1>1. Revising(records, ClosedAt(records, indices, day), Rows)
  BY ClosedRevising
<1>2. Learns(records, R, Rows, k)
  BY <1>1, LearnRevision
<1>3. PastKept(records, R, Rows, day)
  BY ClosingKeepsPast
<1> QED
  BY <1>2, <1>3

\* Then adding one that begins on it.
LEMMA ClosingAndAdding ==
    ASSUME NEW Rows \in RowSets, NEW records, IsTable(records, Rows),
           NEW c \in Times, KnownBy(records, c), NEW k \in Times, c <= k, k = None => c = None,
           NEW day \in Days, NEW indices, indices \subseteq DOMAIN records,
           \A i \in indices : IsCurrent(records[i]) /\ Covers(records[i], day),
           NEW r \in Rows, r.recorded = k, r.superseded = None, r.from = day,
           NEW R, R = Revise(records, ClosedAt(records, indices, day), k)
    PROVE  /\ Learns(records, Added(R, r), Rows, k) /\ PastKept(records, Added(R, r), Rows, day)
           /\ IsAdded(Added(R, r), R, r)
<1>1. Learns(records, R, Rows, k) /\ PastKept(records, R, Rows, day)
  BY Closing
<1>2. Learns(records, Added(R, r), Rows, k) /\ IsAdded(Added(R, r), R, r)
  BY <1>1, LearnAddition
<1> DEFINE A == Added(R, r)
<1> HIDE DEF A
<1>3. PastKept(records, A, Rows, day)
  BY <1>1, <1>2, AddingKeepsPast DEF A
<1> QED
  BY <1>2, <1>3 DEF A

LEMMA NewTickerRow ==
    ASSUME NEW sid \in Securities, NEW mic \in Mics, NEW value \in Values,
           NEW day \in Days, NEW k \in Times, NEW r, r = NewTicker(sid, mic, value, day, k)
    PROVE  r \in Tickers /\ r.recorded = k /\ r.superseded = None /\ r.from = day
  BY Scales DEF NewTicker, Tickers

LEMMA NewListingRow ==
    ASSUME NEW sid \in Securities, NEW mic \in Mics, NEW day \in Days, NEW k \in Times,
           NEW r, r = NewListing(sid, mic, day, k)
    PROVE  r \in Listings /\ r.recorded = k /\ r.superseded = None /\ r.from = day
  BY Scales DEF NewListing, Listings

LEMMA NewPeriodRow ==
    ASSUME NEW sid \in Securities, NEW status \in Terminal, NEW day \in Days, NEW k \in Times,
           NEW r, r = NewPeriod(sid, status, day, k)
    PROVE  /\ r \in Periods /\ r.recorded = k /\ r.superseded = None /\ r.from = day
           /\ r.to = None
  BY Scales DEF NewPeriod, Periods

\* The records an event closes are current and in force.
LEMMA AffectedInForce ==
    ASSUME NEW records, NEW sid, NEW mic, NEW day
    PROVE  /\ Affected(records, sid, day) \subseteq DOMAIN records
           /\ On(records, Affected(records, sid, day), mic) \subseteq DOMAIN records
           /\ \A i \in Affected(records, sid, day) :
                 IsCurrent(records[i]) /\ Covers(records[i], day) /\ records[i].sid = sid
           /\ \A i \in On(records, Affected(records, sid, day), mic) :
                 IsCurrent(records[i]) /\ Covers(records[i], day)
  BY DEF Affected, On

LEMMA TickerChangeTells ==
    ASSUME NEW c \in Times, c = clock, KnownMaster(master, c),
           NEW sid \in Securities, NEW mic \in Mics, NEW value \in Values,
           NEW day \in Days, NEW k \in Times, TickerChange(sid, mic, value, day, k)
    PROVE  /\ Tells(master, master', day, k) /\ c <= k /\ (k = None => c = None)
           /\ Constructible(master') /\ clock' = k /\ effective' = day
<1> DEFINE tickers == CurrentTickers(sid, mic, day)
           ids == master.identifiers
           R(i) == Revise(ids, ClosedAt(ids, {i}, day), k)
           A(i) == Added(R(i), NewTicker(sid, mic, value, day, k))
<1>1. PICK i \in tickers :
         Commit([master EXCEPT !.identifiers = A(i)], day, k)
  BY DEF TickerChange
<1>2. /\ master' = [master EXCEPT !.identifiers = A(i)]
      /\ IF k = None THEN c = 0 ELSE k >= c
      /\ Constructible(master') /\ clock' = k /\ effective' = day
  BY <1>1 DEF Commit
<1>3. c <= k /\ (k = None => c = None)
  BY <1>2, Scales
<1>4. /\ master = [listings |-> master.listings, periods |-> master.periods,
                   identifiers |-> master.identifiers]
      /\ IsTable(master.listings, Listings) /\ IsTable(master.periods, Periods)
      /\ IsTable(ids, Tickers)
      /\ KnownBy(master.listings, c) /\ KnownBy(master.periods, c) /\ KnownBy(ids, c)
      /\ TerminalStays(master.periods)
  BY DEF KnownMaster, IsMaster
<1>5. {i} \subseteq DOMAIN ids /\ \A j \in {i} : IsCurrent(ids[j]) /\ Covers(ids[j], day)
  BY AffectedInForce DEF CurrentTickers
<1>6. Learns(ids, A(i), Tickers, k) /\ PastKept(ids, A(i), Tickers, day)
  <2> DEFINE T == R(i)
             r == NewTicker(sid, mic, value, day, k)
  <2>1. /\ T = Revise(ids, ClosedAt(ids, {i}, day), k)
        /\ r \in Tickers /\ r.recorded = k /\ r.superseded = None /\ r.from = day
    BY NewTickerRow
  <2> HIDE DEF T, r
  <2>2. Learns(ids, Added(T, r), Tickers, k) /\ PastKept(ids, Added(T, r), Tickers, day)
    BY <1>3, <1>4, <1>5, <2>1, ClosingAndAdding DEF RowSets
  <2> QED BY <2>2 DEF T, r
<1> HIDE DEF A
<1>7. /\ master'.listings = master.listings /\ master'.periods = master.periods
      /\ master'.identifiers = A(i)
      /\ master' = [listings |-> master'.listings, periods |-> master'.periods,
                    identifiers |-> master'.identifiers]
  BY <1>2, <1>4
<1>8. /\ Learns(master.listings, master.listings, Listings, k)
      /\ Learns(master.periods, master.periods, Periods, k)
      /\ PastKept(master.listings, master.listings, Listings, day)
      /\ PastKept(master.periods, master.periods, Periods, day)
  BY <1>3, <1>4, LearnNothing, NothingKept DEF RowSets
<1>9. Tells(master, master', day, k)
  BY <1>4, <1>6, <1>7, <1>8 DEF Tells
<1> QED
  BY <1>2, <1>3, <1>9

LEMMA ExchangeMoveTells ==
    ASSUME NEW c \in Times, c = clock, KnownMaster(master, c),
           NEW sid \in Securities, NEW from \in Mics, NEW to \in Mics, NEW value \in Values,
           NEW day \in Days, NEW k \in Times, ExchangeMove(sid, from, to, value, day, k)
    PROVE  /\ Tells(master, master', day, k) /\ c <= k /\ (k = None => c = None)
           /\ Constructible(master') /\ clock' = k /\ effective' = day
<1> DEFINE listings == master.listings
           ids == master.identifiers
           listed == On(listings, Affected(listings, sid, day), from)
           tickers == CurrentTickers(sid, from, day)
           first == Min(listed)
           L == Revise(listings, ClosedAt(listings, {first}, day), k)
           T == Revise(ids, ClosedAt(ids, tickers, day), k)
           p == NewListing(sid, to, day, k)
           r == NewTicker(sid, to, value, day, k)
<1>1. /\ listed # {}
      /\ Commit([master EXCEPT !.listings = Added(L, p), !.identifiers = Added(T, r)], day, k)
  BY DEF ExchangeMove
<1>2. /\ master' = [master EXCEPT !.listings = Added(L, p), !.identifiers = Added(T, r)]
      /\ IF k = None THEN c = 0 ELSE k >= c
      /\ Constructible(master') /\ clock' = k /\ effective' = day
  BY <1>1 DEF Commit
<1>3. c <= k /\ (k = None => c = None)
  BY <1>2, Scales
<1>4. /\ master = [listings |-> master.listings, periods |-> master.periods,
                   identifiers |-> master.identifiers]
      /\ IsTable(listings, Listings) /\ IsTable(master.periods, Periods)
      /\ IsTable(ids, Tickers)
      /\ KnownBy(listings, c) /\ KnownBy(master.periods, c) /\ KnownBy(ids, c)
      /\ TerminalStays(master.periods)
  BY DEF KnownMaster, IsMaster
<1>5. {first} \subseteq DOMAIN listings
      /\ \A j \in {first} : IsCurrent(listings[j]) /\ Covers(listings[j], day)
  <2>1. listed \subseteq Nat
    BY <1>4, AffectedInForce DEF IsTable
  <2>2. first = CHOOSE x \in listed : \A y \in listed : x <= y
    BY DEF Min
  <2>3. first \in listed
    <3> HIDE DEF listed, first
    <3> QED BY <1>1, <2>1, <2>2, LeastNumber
  <2> HIDE DEF first
  <2> QED BY <2>3, AffectedInForce
<1>6. tickers \subseteq DOMAIN ids /\ \A j \in tickers : IsCurrent(ids[j]) /\ Covers(ids[j], day)
  BY AffectedInForce DEF CurrentTickers
<1>7. p \in Listings /\ p.recorded = k /\ p.superseded = None /\ p.from = day
  BY NewListingRow
<1>8. r \in Tickers /\ r.recorded = k /\ r.superseded = None /\ r.from = day
  BY NewTickerRow
<1> DEFINE NL == Added(L, p)
           NI == Added(T, r)
<1> HIDE DEF listed, tickers, first, p, r
<1>9. Learns(listings, NL, Listings, k) /\ PastKept(listings, NL, Listings, day)
  <2>1. L = Revise(listings, ClosedAt(listings, {first}, day), k)
    OBVIOUS
  <2> HIDE DEF L
  <2> QED BY <1>3, <1>4, <1>5, <1>7, <2>1, ClosingAndAdding DEF RowSets
<1>10. Learns(ids, NI, Tickers, k) /\ PastKept(ids, NI, Tickers, day)
  <2>1. T = Revise(ids, ClosedAt(ids, tickers, day), k)
    OBVIOUS
  <2> HIDE DEF T
  <2> QED BY <1>3, <1>4, <1>6, <1>8, <2>1, ClosingAndAdding DEF RowSets
<1> HIDE DEF NL, NI
<1>11. /\ master'.listings = NL /\ master'.periods = master.periods
       /\ master'.identifiers = NI
       /\ master' = [listings |-> master'.listings, periods |-> master'.periods,
                     identifiers |-> master'.identifiers]
  BY <1>2, <1>4 DEF NL, NI
<1>12. /\ Learns(master.periods, master.periods, Periods, k)
       /\ PastKept(master.periods, master.periods, Periods, day)
  BY <1>3, <1>4, LearnNothing, NothingKept DEF RowSets
<1>13. Tells(master, master', day, k)
  BY <1>4, <1>9, <1>10, <1>11, <1>12 DEF Tells
<1> QED
  BY <1>2, <1>3, <1>13

\* Closing periods that are not terminal leaves terminal ones open.
LEMMA ClosingKeepsEnds ==
    ASSUME NEW records, IsTable(records, Periods), TerminalStays(records),
           NEW day \in Days, NEW k \in Times, NEW indices, indices \subseteq DOMAIN records,
           \A i \in indices : IsCurrent(records[i]) /\ records[i].status \notin Terminal
    PROVE  TerminalStays(Revise(records, ClosedAt(records, indices, day), k))
<1> DEFINE C == ClosedAt(records, indices, day)
           R == Revise(records, C, k)
           end == End(records)
<1>1. Revising(records, C, Periods) /\ DOMAIN C = indices
  BY ClosedRevising DEF RowSets
<1>2. C = [i \in indices |-> [records[i] EXCEPT !.to = day]]
  BY DEF ClosedAt
<1> HIDE DEF C
<1>3. \A i \in DOMAIN records : records[i] \in Periods
  BY DEF IsTable
<1>4. ASSUME NEW i \in indices PROVE C[i] \in Periods /\ C[i].status = records[i].status
  <2>1. PICK r \in Periods : r = records[i]
    BY <1>3
  <2>2. [r EXCEPT !.to = day].status = r.status
    BY RowKept, Scales DEF SameRow, RowSets
  <2>3. C[i].status = records[i].status
    BY <1>2, <2>1, <2>2
  <2> QED BY <1>1, <2>3 DEF Revising
<1>5. CASE k = None
  <2>1. R = [i \in DOMAIN records |-> IF i \in indices THEN C[i] ELSE records[i]]
    BY <1>1, <1>5 DEF Revise
  <2> HIDE DEF R
  <2>2. TerminalStays(R)
    BY <1>4, <2>1 DEF TerminalStays
  <2> QED BY <2>2 DEF R, C
<1>6. CASE k # None
  <2>1. IsRevised(R, records, C, k)
    BY <1>1, <1>6, RevisedRows DEF RowSets
  <2> HIDE DEF R
  <2>2. /\ DOMAIN R = DOMAIN records \cup {end + j : j \in indices}
        /\ \A i \in DOMAIN records \ indices : R[i] = records[i]
        /\ \A i \in indices : R[i] = [records[i] EXCEPT !.superseded = k]
        /\ \A j \in indices : R[end + j] = [C[j] EXCEPT !.recorded = k]
    BY <1>1, <2>1 DEF IsRevised
  <2> HIDE DEF end
  <2>3. ASSUME NEW i \in indices
        PROVE  R[i].status \notin Terminal /\ R[end + i].status \notin Terminal
    <3>1. PICK r \in Periods : r = records[i]
      BY <1>3
    <3>2. PICK q \in Periods : q = C[i]
      BY <1>4
    <3>3. [r EXCEPT !.superseded = k].status = r.status /\ [q EXCEPT !.recorded = k].status = q.status
      BY RowKept, Scales DEF SameRow, RowSets
    <3> QED BY <1>4, <2>2, <3>1, <3>2, <3>3
  <2>4. TerminalStays(R)
    BY <2>2, <2>3 DEF TerminalStays
  <2> QED BY <2>4 DEF R, C
<1> QED
  BY <1>5, <1>6

LEMMA TerminationTells ==
    ASSUME NEW c \in Times, c = clock, KnownMaster(master, c),
           NEW sid \in Securities, NEW status \in Terminal,
           NEW day \in Days, NEW k \in Times, Termination(sid, status, day, k)
    PROVE  /\ Tells(master, master', day, k) /\ c <= k /\ (k = None => c = None)
           /\ Constructible(master') /\ clock' = k /\ effective' = day
<1> DEFINE hit(records) == Affected(records, sid, day)
           closed(records) == Revise(records, ClosedAt(records, hit(records), day), k)
           p == NewPeriod(sid, status, day, k)
           L == closed(master.listings)
           T == closed(master.identifiers)
           P == closed(master.periods)
           NP == Added(P, p)
<1>1. Commit([listings |-> L, identifiers |-> T, periods |-> NP], day, k)
      /\ NotTerminated(sid, day)
  BY DEF Termination
<1>2. /\ master' = [listings |-> L, identifiers |-> T, periods |-> NP]
      /\ IF k = None THEN c = 0 ELSE k >= c
      /\ Constructible(master') /\ clock' = k /\ effective' = day
  BY <1>1 DEF Commit
<1>3. c <= k /\ (k = None => c = None)
  BY <1>2, Scales
<1>4. /\ IsTable(master.listings, Listings) /\ IsTable(master.periods, Periods)
      /\ IsTable(master.identifiers, Tickers)
      /\ KnownBy(master.listings, c) /\ KnownBy(master.periods, c)
      /\ KnownBy(master.identifiers, c)
      /\ TerminalStays(master.periods)
  BY DEF KnownMaster, IsMaster
<1>5. \A records : /\ hit(records) \subseteq DOMAIN records
                   /\ \A i \in hit(records) : /\ IsCurrent(records[i]) /\ Covers(records[i], day)
                                              /\ records[i].sid = sid
  BY DEF Affected
<1>6. p \in Periods /\ p.recorded = k /\ p.superseded = None /\ p.from = day /\ p.to = None
  BY NewPeriodRow
<1>7. \A i \in hit(master.periods) : master.periods[i].status \notin Terminal
  <2> SUFFICES ASSUME NEW i \in hit(master.periods), master.periods[i].status \in Terminal
               PROVE  FALSE
    OBVIOUS
  <2>1. /\ i \in DOMAIN master.periods /\ IsCurrent(master.periods[i])
        /\ Covers(master.periods[i], day) /\ master.periods[i].sid = sid
    BY <1>5
  <2>2. master.periods[i] \in Range(Current(master.periods))
    BY <2>1 DEF Current, Restrict, Range
  <2>3. master.periods[i].from > day
    BY <1>1, <2>1, <2>2 DEF NotTerminated, TerminalPeriods
  <2>4. PICK r \in Periods : r = master.periods[i]
    BY <1>4, <2>1 DEF IsTable
  <2>5. r.from \in Nat
    BY <2>4, RowType DEF RowSets
  <2> QED BY <2>1, <2>3, <2>4, <2>5, Scales DEF Covers
<1>8. /\ L = Revise(master.listings, ClosedAt(master.listings, hit(master.listings), day), k)
      /\ T = Revise(master.identifiers,
                    ClosedAt(master.identifiers, hit(master.identifiers), day), k)
      /\ P = Revise(master.periods, ClosedAt(master.periods, hit(master.periods), day), k)
  OBVIOUS
<1> HIDE DEF hit, closed, L, T, P, p
<1>9. Learns(master.listings, L, Listings, k) /\ PastKept(master.listings, L, Listings, day)
  BY <1>3, <1>4, <1>5, <1>8, Closing DEF RowSets
<1>10. Learns(master.identifiers, T, Tickers, k) /\ PastKept(master.identifiers, T, Tickers, day)
  BY <1>3, <1>4, <1>5, <1>8, Closing DEF RowSets
<1>11. /\ Learns(master.periods, NP, Periods, k) /\ PastKept(master.periods, NP, Periods, day)
       /\ IsAdded(NP, P, p)
  BY <1>3, <1>4, <1>5, <1>6, <1>8, ClosingAndAdding DEF RowSets
<1>12. TerminalStays(P)
  BY <1>4, <1>5, <1>7, <1>8, ClosingKeepsEnds
<1> HIDE DEF NP
<1>13. TerminalStays(NP)
  BY <1>6, <1>11, <1>12 DEF TerminalStays, IsAdded
<1>14. /\ master'.listings = L /\ master'.periods = NP /\ master'.identifiers = T
       /\ master' = [listings |-> master'.listings, periods |-> master'.periods,
                     identifiers |-> master'.identifiers]
  BY <1>2
<1>15. Tells(master, master', day, k)
  BY <1>9, <1>10, <1>11, <1>13, <1>14 DEF Tells
<1> QED
  BY <1>2, <1>3, <1>15

\* Every event tells the master something, at a time no earlier than the last.
LEMMA EventTells ==
    ASSUME NEW c \in Times, c = clock, KnownMaster(master, c), Next
    PROVE  \E day \in Days, k \in Times :
              /\ Tells(master, master', day, k) /\ c <= k /\ (k = None => c = None)
              /\ Constructible(master') /\ clock' = k /\ effective' = day
<1>1. PICK sid \in Securities, day \in Days, k \in Times :
         \/ \E mic \in Mics, value \in Values : TickerChange(sid, mic, value, day, k)
         \/ \E from, to \in Mics, value \in Values : ExchangeMove(sid, from, to, value, day, k)
         \/ \E status \in Terminal : Termination(sid, status, day, k)
  BY DEF Next
<1>2. CASE \E mic \in Mics, value \in Values : TickerChange(sid, mic, value, day, k)
  BY <1>2, TickerChangeTells
<1>3. CASE \E from, to \in Mics, value \in Values : ExchangeMove(sid, from, to, value, day, k)
  BY <1>3, ExchangeMoveTells
<1>4. CASE \E status \in Terminal : Termination(sid, status, day, k)
  BY <1>4, TerminationTells
<1> QED
  BY <1>1, <1>2, <1>3, <1>4

\* What is learned makes a master whose times are past.
LEMMA ToldMaster ==
    ASSUME NEW old, NEW new, NEW day, NEW k, Tells(old, new, day, k)
    PROVE  KnownMaster(new, k)
  BY DEF Tells, KnownMaster, IsMaster, Learns

-----------------------------------------------------------------------------
(***************************************************************************)
(* The master is inductively a master whose times are past, every view of  *)
(* which validates.  Only the latest view was ever validated: the earlier  *)
(* ones do because an event hides from them.                               *)
(***************************************************************************)
MasterInv ==
    /\ clock \in Times /\ effective \in Days
    /\ KnownMaster(master, clock)
    /\ ViewsConstructible

\* From the last knowledge time on, a view is the current master.
LEMMA ViewNow ==
    ASSUME NEW m, NEW k \in Times, KnownMaster(m, k), NEW t \in Times, k <= t
    PROVE  KnownAsOf(m, t) = CurrentMaster(m)
<1>1. /\ IsTable(m.listings, Listings) /\ IsTable(m.periods, Periods)
      /\ IsTable(m.identifiers, Tickers)
      /\ KnownBy(m.listings, k) /\ KnownBy(m.periods, k) /\ KnownBy(m.identifiers, k)
  BY DEF KnownMaster, IsMaster
<1> QED
  BY <1>1, VisibleNow DEF KnownAsOf, CurrentMaster, RowSets

\* Before an event is learned, the views are what they were.
LEMMA ViewBefore ==
    ASSUME NEW old, NEW new, NEW day, NEW k, Tells(old, new, day, k), NEW t \in Times, t < k
    PROVE  KnownAsOf(new, t) = KnownAsOf(old, t)
  BY DEF Tells, Learns, KnownAsOf

LEMMA InitMaster == Init => MasterInv
<1> SUFFICES ASSUME Init PROVE MasterInv
  OBVIOUS
<1>1. Founded(master) /\ clock = 0 /\ effective = MaxDay
  BY SecurityMasterAssumption DEF Init
<1>2. clock \in Times /\ effective \in Days /\ clock = None
  BY <1>1, SecurityMasterAssumption DEF Times, Days, None
<1>3. /\ IsMaster(master) /\ Constructible(master) /\ TerminalStays(master.periods)
      /\ \A i \in DOMAIN master.listings : /\ master.listings[i].recorded = None
                                           /\ master.listings[i].superseded = None
      /\ \A i \in DOMAIN master.periods : /\ master.periods[i].recorded = None
                                          /\ master.periods[i].superseded = None
      /\ \A i \in DOMAIN master.identifiers : /\ master.identifiers[i].recorded = None
                                              /\ master.identifiers[i].superseded = None
  BY <1>1 DEF Founded, IsCurrent
<1>4. KnownMaster(master, clock)
  BY <1>1, <1>3 DEF KnownMaster, KnownBy, None
<1>5. ASSUME NEW t \in Times PROVE Constructible(KnownAsOf(master, t))
  <2>1. clock <= t
    BY <1>1, Scales
  <2> QED BY <1>2, <1>3, <1>4, <2>1, ViewNow, CurrentConstructible
<1> QED
  BY <1>2, <1>4, <1>5 DEF MasterInv, ViewsConstructible

LEMMA NextMaster == MasterInv /\ [Next]_vars => MasterInv'
<1> SUFFICES ASSUME MasterInv, [Next]_vars PROVE MasterInv'
  OBVIOUS
<1>1. CASE Next
  <2>1. PICK c \in Times : c = clock /\ KnownMaster(master, c)
    BY DEF MasterInv
  <2>2. PICK day \in Days, k \in Times :
           /\ Tells(master, master', day, k) /\ c <= k /\ (k = None => c = None)
           /\ Constructible(master') /\ clock' = k /\ effective' = day
    BY <1>1, <2>1, EventTells
  <2>3. KnownMaster(master', k)
    BY <2>2, ToldMaster
  <2>4. ASSUME NEW t \in Times PROVE Constructible(KnownAsOf(master', t))
    <3>1. CASE t < k
      <4>1. KnownAsOf(master', t) = KnownAsOf(master, t)
        BY <2>2, <3>1, ViewBefore
      <4> QED BY <4>1 DEF MasterInv, ViewsConstructible
    <3>2. CASE k <= t
      <4>1. KnownAsOf(master', t) = CurrentMaster(master')
        BY <2>3, <3>2, ViewNow
      <4>2. IsMaster(master')
        BY <2>3 DEF KnownMaster
      <4> QED BY <2>2, <4>1, <4>2, CurrentConstructible
    <3> QED BY <3>1, <3>2, Scales
  <2> QED BY <2>2, <2>3, <2>4 DEF MasterInv, ViewsConstructible
<1>2. CASE UNCHANGED vars
  <2>1. master' = master /\ clock' = clock /\ effective' = effective
    BY <1>2 DEF vars
  <2> QED BY <2>1 DEF MasterInv, ViewsConstructible
<1> QED
  BY <1>1, <1>2

THEOREM MasterInvariant == Spec => []MasterInv
<1>1. Init => MasterInv
  BY InitMaster
<1>2. MasterInv /\ [Next]_vars => MasterInv'
  BY NextMaster
<1> QED
  BY <1>1, <1>2, PTL DEF Spec

-----------------------------------------------------------------------------
(***************************************************************************)
(* "every historical knowledge state remains reconstructable via           *)
(* pit.known_as_of" (changes.py): the master implements the history of     *)
(* what was known, step by step.                                           *)
(***************************************************************************)
THEOREM KnowledgeIsHistory == Spec => HistoryKept
<1>1. Init => History!Init
  <2> SUFFICES ASSUME Init PROVE History!Init
    OBVIOUS
  <2>1. MasterInv
    BY InitMaster
  <2>2. clock = 0 /\ KnownMaster(master, clock) /\ clock \in Times
    BY <2>1 DEF Init, MasterInv
  <2>3. \A t \in Times : KnownAsOf(master, t) = CurrentMaster(master)
    BY <2>2, Scales, ViewNow
  <2>4. \A t \in Times : Stood[t] = Facts(CurrentMaster(master))
    BY <2>3 DEF Stood
  <2>5. 0 \in Times /\ History!Times = Times
    BY Scales DEF History!Times, Times
  <2> QED BY <2>2, <2>4, <2>5 DEF History!Init
<1>2. MasterInv /\ [Next]_vars => [History!Next]_<<Stood, clock>>
  <2> SUFFICES ASSUME MasterInv, Next PROVE History!Next
    BY DEF vars, Stood
  <2>1. PICK c \in Times : c = clock /\ KnownMaster(master, c)
    BY DEF MasterInv
  <2>2. PICK day \in Days, k \in Times :
           Tells(master, master', day, k) /\ c <= k /\ clock' = k
    BY <2>1, EventTells
  <2>3. KnownMaster(master', k)
    BY <2>2, ToldMaster
  <2>4. ASSUME NEW t \in Times, t < k PROVE Stood'[t] = Stood[t]
    <3>1. KnownAsOf(master', t) = KnownAsOf(master, t)
      BY <2>2, <2>4, ViewBefore
    <3> QED BY <3>1 DEF Stood
  <2>5. ASSUME NEW t \in Times, k <= t PROVE Stood'[t] = Stood'[k]
    <3>1. k <= k
      BY Scales
    <3>2. KnownAsOf(master', t) = CurrentMaster(master') /\ KnownAsOf(master', k) = CurrentMaster(master')
      BY <2>3, <2>5, <3>1, ViewNow
    <3> QED BY <3>2 DEF Stood
  <2>6. \A t \in Times : Stood'[t] = IF t < k THEN Stood[t] ELSE Stood'[k]
    BY <2>4, <2>5, Scales
  <2>7. k >= clock /\ History!Times = Times
    BY <2>1, <2>2, Scales DEF History!Times, Times
  <2> QED BY <2>2, <2>6, <2>7 DEF History!Next, History!Learn
<1> QED
  BY <1>1, <1>2, MasterInvariant, PTL DEF Spec, HistoryKept, History!Spec

-----------------------------------------------------------------------------
\* The rows in force on a day, of the current records.
LEMMA CurrentRange ==
    ASSUME NEW Rows \in RowSets, NEW records, IsTable(records, Rows)
    PROVE  \A r : r \in Range(Current(Current(records))) <=>
                    \E i \in DOMAIN records : IsCurrent(records[i]) /\ records[i] = r
<1>1. Current(Current(records)) = Current(records)
  BY CurrentTable
<1>2. Current(records) = [i \in {j \in DOMAIN records : IsCurrent(records[j])} |-> records[i]]
  BY DEF Current, Restrict
<1> QED
  BY <1>1, <1>2 DEF Range

\* On a day before an event the current records read as they did.
LEMMA DayKept ==
    ASSUME NEW old, IsMaster(old), NEW new, IsMaster(new), NEW day \in Days, NEW k,
           Tells(old, new, day, k), NEW d \in Days, d < day
    PROVE  OnDay(CurrentMaster(new), d) = OnDay(CurrentMaster(old), d)
<1> DEFINE o == CurrentMaster(old)
           n == CurrentMaster(new)
           Says(records, i) == IsCurrent(records[i]) /\ Covers(records[i], d)
<1>1. /\ IsTable(old.listings, Listings) /\ IsTable(new.listings, Listings)
      /\ IsTable(old.periods, Periods) /\ IsTable(new.periods, Periods)
      /\ IsTable(old.identifiers, Tickers) /\ IsTable(new.identifiers, Tickers)
  BY DEF IsMaster
<1>2. /\ o.listings = Current(old.listings) /\ n.listings = Current(new.listings)
      /\ o.periods = Current(old.periods) /\ n.periods = Current(new.periods)
      /\ o.identifiers = Current(old.identifiers) /\ n.identifiers = Current(new.identifiers)
  BY DEF CurrentMaster
<1> HIDE DEF o, n
<1>3. ASSUME NEW s \in Securities PROVE StatusOn(n, s, d) = StatusOn(o, s, d)
  <2>1. \A x : x \in StatusOn(o, s, d) <=>
                 \E i \in DOMAIN old.periods : /\ Says(old.periods, i) /\ old.periods[i].sid = s
                                               /\ old.periods[i].status = x
    BY <1>1, <1>2, CurrentRange DEF StatusOn, InForce, RowSets
  <2>2. \A x : x \in StatusOn(n, s, d) <=>
                 \E i \in DOMAIN new.periods : /\ Says(new.periods, i) /\ new.periods[i].sid = s
                                               /\ new.periods[i].status = x
    BY <1>1, <1>2, CurrentRange DEF StatusOn, InForce, RowSets
  <2>3. /\ \A i \in DOMAIN old.periods : Says(old.periods, i) =>
             \E j \in DOMAIN new.periods :
                /\ Says(new.periods, j) /\ new.periods[j].sid = old.periods[i].sid
                /\ new.periods[j].status = old.periods[i].status
        /\ \A j \in DOMAIN new.periods : Says(new.periods, j) =>
             \E i \in DOMAIN old.periods :
                /\ Says(old.periods, i) /\ new.periods[j].sid = old.periods[i].sid
                /\ new.periods[j].status = old.periods[i].status
    BY DEF Tells, PastKept, SameRow
  <2> HIDE DEF Says
  <2> QED BY <2>1, <2>2, <2>3
<1>4. ASSUME NEW s \in Securities
      PROVE  {r.mic : r \in InForce(n.listings, s, d)} = {r.mic : r \in InForce(o.listings, s, d)}
  <2> DEFINE O == {r.mic : r \in InForce(o.listings, s, d)}
             N == {r.mic : r \in InForce(n.listings, s, d)}
  <2>1. \A x : x \in O <=>
                 \E i \in DOMAIN old.listings : /\ Says(old.listings, i) /\ old.listings[i].sid = s
                                                /\ old.listings[i].mic = x
    BY <1>1, <1>2, CurrentRange DEF InForce, RowSets
  <2>2. \A x : x \in N <=>
                 \E i \in DOMAIN new.listings : /\ Says(new.listings, i) /\ new.listings[i].sid = s
                                                /\ new.listings[i].mic = x
    BY <1>1, <1>2, CurrentRange DEF InForce, RowSets
  <2>3. /\ \A i \in DOMAIN old.listings : Says(old.listings, i) =>
             \E j \in DOMAIN new.listings :
                /\ Says(new.listings, j) /\ new.listings[j].sid = old.listings[i].sid
                /\ new.listings[j].mic = old.listings[i].mic
        /\ \A j \in DOMAIN new.listings : Says(new.listings, j) =>
             \E i \in DOMAIN old.listings :
                /\ Says(old.listings, i) /\ new.listings[j].sid = old.listings[i].sid
                /\ new.listings[j].mic = old.listings[i].mic
    BY DEF Tells, PastKept, SameRow
  <2> HIDE DEF Says, O, N
  <2>4. N = O
    <3>1. \A x : x \in N => x \in O
      BY <2>1, <2>2, <2>3
    <3>2. \A x : x \in O => x \in N
      BY <2>1, <2>2, <2>3
    <3> QED BY <3>1, <3>2
  <2> QED BY <2>4 DEF O, N
<1>5. ASSUME NEW v \in Values, NEW mic \in Mics PROVE Matches(n, v, mic, d) = Matches(o, v, mic, d)
  <2>1. \A x : x \in Matches(o, v, mic, d) <=>
                 \E i \in DOMAIN old.identifiers :
                    /\ Says(old.identifiers, i) /\ old.identifiers[i].value = v
                    /\ old.identifiers[i].mic = mic /\ old.identifiers[i].sid = x
    BY <1>1, <1>2, CurrentRange DEF Matches, RowSets
  <2>2. \A x : x \in Matches(n, v, mic, d) <=>
                 \E i \in DOMAIN new.identifiers :
                    /\ Says(new.identifiers, i) /\ new.identifiers[i].value = v
                    /\ new.identifiers[i].mic = mic /\ new.identifiers[i].sid = x
    BY <1>1, <1>2, CurrentRange DEF Matches, RowSets
  <2>3. /\ \A i \in DOMAIN old.identifiers : Says(old.identifiers, i) =>
             \E j \in DOMAIN new.identifiers :
                /\ Says(new.identifiers, j) /\ new.identifiers[j].sid = old.identifiers[i].sid
                /\ new.identifiers[j].mic = old.identifiers[i].mic
                /\ new.identifiers[j].value = old.identifiers[i].value
        /\ \A j \in DOMAIN new.identifiers : Says(new.identifiers, j) =>
             \E i \in DOMAIN old.identifiers :
                /\ Says(old.identifiers, i) /\ new.identifiers[j].sid = old.identifiers[i].sid
                /\ new.identifiers[j].mic = old.identifiers[i].mic
                /\ new.identifiers[j].value = old.identifiers[i].value
    BY DEF Tells, PastKept, SameRow
  <2> HIDE DEF Says
  <2>4. \A x : x \in Matches(n, v, mic, d) => x \in Matches(o, v, mic, d)
    BY <2>1, <2>2, <2>3
  <2>5. \A x : x \in Matches(o, v, mic, d) => x \in Matches(n, v, mic, d)
    BY <2>1, <2>2, <2>3
  <2> QED BY <2>4, <2>5
<1>6. OnDay(n, d) = OnDay(o, d)
  <2>1. /\ [s \in Securities |-> StatusOn(n, s, d)] = [s \in Securities |-> StatusOn(o, s, d)]
        /\ [s \in Securities |-> {r.mic : r \in InForce(n.listings, s, d)}] =
             [s \in Securities |-> {r.mic : r \in InForce(o.listings, s, d)}]
    BY <1>3, <1>4
  <2>2. \A v \in Values :
           [mic \in Mics |-> Matches(n, v, mic, d)] = [mic \in Mics |-> Matches(o, v, mic, d)]
    BY <1>5
  <2> QED BY <2>1, <2>2 DEF OnDay
<1> QED
  BY <1>6 DEF n, o

(***************************************************************************)
(* "Nothing is deleted": in every view the days before an event's          *)
(* effective date read as they did (apply_ticker_change,                   *)
(* apply_exchange_move, apply_termination).                                *)
(***************************************************************************)
THEOREM DaysBeforeAnEventKept == Spec => PastDaysKept
<1> DEFINE Kept == \A t \in Times, d \in 1 .. effective' - 1 :
                      OnDay(KnownAsOf(master', t), d) = OnDay(KnownAsOf(master, t), d)
<1>1. MasterInv /\ [Next]_vars => [Kept]_vars
  <2> SUFFICES ASSUME MasterInv, Next PROVE Kept
    OBVIOUS
  <2>1. PICK c \in Times : c = clock /\ KnownMaster(master, c)
    BY DEF MasterInv
  <2>2. PICK day \in Days, k \in Times :
           Tells(master, master', day, k) /\ c <= k /\ effective' = day
    BY <2>1, EventTells
  <2>3. KnownMaster(master', k)
    BY <2>2, ToldMaster
  <2> SUFFICES ASSUME NEW t \in Times, NEW d \in 1 .. day - 1
               PROVE  OnDay(KnownAsOf(master', t), d) = OnDay(KnownAsOf(master, t), d)
    BY <2>2
  <2>4. CASE t < k
    BY <2>2, <2>4, ViewBefore
  <2>5. CASE k <= t
    <3>1. c <= t
      BY <2>2, <2>5, Scales
    <3>2. KnownAsOf(master', t) = CurrentMaster(master') /\ KnownAsOf(master, t) = CurrentMaster(master)
      BY <2>1, <2>3, <2>5, <3>1, ViewNow
    <3>3. d \in Days /\ d < day
      BY SecurityMasterAssumption DEF Days
    <3>4. IsMaster(master) /\ IsMaster(master')
      BY <2>1, <2>3 DEF KnownMaster
    <3> QED BY <2>2, <3>2, <3>3, <3>4, DayKept
  <2> QED BY <2>4, <2>5, Scales
<1> QED
  BY <1>1, MasterInvariant, PTL DEF Spec, PastDaysKept

-----------------------------------------------------------------------------
\* A view of a table is a table of current rows.
LEMMA ViewTable ==
    ASSUME NEW Rows \in RowSets, NEW records, IsTable(records, Rows), NEW t \in Times
    PROVE  /\ IsTable(Visible(records, t), Rows)
           /\ Current(Visible(records, t)) = Visible(records, t)
           /\ DOMAIN Visible(records, t) \subseteq DOMAIN records
           /\ \A i \in DOMAIN Visible(records, t) :
                 Visible(records, t)[i] = [records[i] EXCEPT !.superseded = None]
<1> DEFINE seen == {j \in DOMAIN records : IsVisible(records[j], t)}
           V == Visible(records, t)
<1>1. V = [i \in seen |-> [records[i] EXCEPT !.superseded = None]]
  BY DEF Visible
<1>2. seen \subseteq DOMAIN records
  OBVIOUS
<1> HIDE DEF V, seen
<1>3. ASSUME NEW i \in seen PROVE V[i] \in Rows /\ IsCurrent(V[i])
  <2>1. PICK r \in Rows : r = records[i]
    BY <1>2 DEF IsTable
  <2> DEFINE q == [r EXCEPT !.superseded = None]
  <2>2. q \in Rows /\ q.superseded = None
    BY RowSuperseded, Scales
  <2>3. V[i] = q
    BY <1>1, <2>1
  <2> HIDE DEF q
  <2> QED BY <2>2, <2>3 DEF IsCurrent
<1>4. DOMAIN V = seen /\ V = [i \in seen |-> V[i]]
  BY <1>1
<1>5. IsFiniteSet(seen)
  BY <1>2, FS_Subset DEF IsTable
<1>6. IsTable(V, Rows)
  BY <1>2, <1>3, <1>4, <1>5 DEF IsTable
<1>7. Current(V) = V
  <2>1. {i \in DOMAIN V : IsCurrent(V[i])} = DOMAIN V
    BY <1>3, <1>4
  <2> QED BY <1>4, <2>1 DEF Current, Restrict
<1> QED
  BY <1>1, <1>2, <1>4, <1>6, <1>7 DEF V

\* A view is a master of current rows, whose ends stay.
LEMMA ViewMaster ==
    ASSUME NEW m, IsMaster(m), TerminalStays(m.periods), NEW t \in Times, NEW view,
           view = KnownAsOf(m, t)
    PROVE  /\ IsMaster(view) /\ TerminalStays(view.periods)
           /\ Current(view.listings) = view.listings /\ Current(view.periods) = view.periods
           /\ Current(view.identifiers) = view.identifiers
<1>1. /\ IsTable(m.listings, Listings) /\ IsTable(m.periods, Periods)
      /\ IsTable(m.identifiers, Tickers)
  BY DEF IsMaster
<1>2. /\ view.listings = Visible(m.listings, t) /\ view.periods = Visible(m.periods, t)
      /\ view.identifiers = Visible(m.identifiers, t)
      /\ view = [listings |-> view.listings, periods |-> view.periods,
                 identifiers |-> view.identifiers]
  BY DEF KnownAsOf
<1>3. IsMaster(view)
  BY <1>1, <1>2, ViewTable DEF IsMaster, RowSets
<1>4. /\ Current(view.listings) = view.listings /\ Current(view.periods) = view.periods
      /\ Current(view.identifiers) = view.identifiers
  BY <1>1, <1>2, ViewTable DEF RowSets
<1>5. ASSUME NEW i \in DOMAIN view.periods
      PROVE  /\ i \in DOMAIN m.periods /\ view.periods[i].status = m.periods[i].status
             /\ view.periods[i].to = m.periods[i].to
  <2>1. i \in DOMAIN m.periods /\ view.periods[i] = [m.periods[i] EXCEPT !.superseded = None]
    BY <1>1, <1>2, ViewTable DEF RowSets
  <2>2. PICK r \in Periods : r = m.periods[i]
    BY <1>1, <2>1 DEF IsTable
  <2>3. [r EXCEPT !.superseded = None].status = r.status /\ [r EXCEPT !.superseded = None].to = r.to
    BY RowKept, RowSuperseded, Scales DEF SameRow, RowSets
  <2> QED BY <2>1, <2>2, <2>3
<1>6. TerminalStays(view.periods)
  BY <1>5 DEF TerminalStays
<1> QED
  BY <1>3, <1>4, <1>6

\* A selection of the valid rows of a table is a collection of proper ranges.
LEMMA SelectionProper ==
    ASSUME NEW Rows \in RowSets, NEW records, IsTable(records, Rows),
           \A r \in Range(records) : ValidRecord(r), NEW S, S \subseteq DOMAIN records
    PROVE  /\ Proper(Restrict(records, S)) /\ DOMAIN Restrict(records, S) = S
           /\ IsFiniteSet(DOMAIN Restrict(records, S))
           /\ \A i \in S : Restrict(records, S)[i] = records[i]
<1> DEFINE G == Restrict(records, S)
<1>1. G = [i \in S |-> records[i]]
  BY DEF Restrict
<1> HIDE DEF G
<1>2. DOMAIN G = S /\ \A i \in S : G[i] = records[i]
  BY <1>1
<1>3. ASSUME NEW i \in S
      PROVE  /\ i \in Nat /\ G[i].from \in Nat /\ G[i].to \in Nat
             /\ G[i].to # None => G[i].from < G[i].to
  <2>1. i \in Nat /\ records[i] \in Rows /\ ValidRecord(records[i])
    BY DEF IsTable, Range
  <2>2. PICK r \in Rows : r = records[i]
    BY <2>1
  <2> QED BY <1>2, <2>1, <2>2, RowType DEF ValidRecord
<1>4. IsFiniteSet(S)
  BY FS_Subset DEF IsTable
<1> QED
  BY <1>2, <1>3, <1>4 DEF Proper, G

\* Two rows in force on one day overlap.
LEMMA InForceOverlap ==
    ASSUME NEW Rows \in RowSets, NEW p \in Rows, NEW q \in Rows, NEW d \in Days,
           Covers(p, d), Covers(q, d)
    PROVE  RangesOverlap(p, q)
<1>1. p.from \in Nat /\ p.to \in Nat /\ q.from \in Nat /\ q.to \in Nat /\ d \in Nat
  BY RowType, Scales
<1> QED
  BY <1>1 DEF Covers, RangesOverlap

(***************************************************************************)
(* In a master that validates and in which no security holds a venue's     *)
(* identifier twice, a value means one security at most.                   *)
(***************************************************************************)
LEMMA UnambiguousWhenDisjoint ==
    ASSUME NEW view, IsMaster(view), Constructible(view),
           Current(view.identifiers) = view.identifiers, Disjoint(view.identifiers),
           NEW v \in Values, NEW m \in Mics, NEW d \in Days
    PROVE  Cardinality(Matches(view, v, m, d)) <= 1
<1> DEFINE ids == view.identifiers
           S == {i \in DOMAIN ids : ids[i].value = v /\ ids[i].mic = m}
           G == OfValue(ids, v, m)
<1>1. IsTable(ids, Tickers) /\ Tickers \in RowSets /\ \A r \in Range(ids) : ValidRecord(r)
  BY DEF IsMaster, Constructible, RowSets
<1>2. /\ Proper(G) /\ DOMAIN G = S /\ IsFiniteSet(DOMAIN G)
      /\ \A i \in S : G[i] = ids[i]
  BY <1>1, SelectionProper DEF OfValue
<1>3. FirstOverlap(G) = <<>>
  <2> SUFFICES ASSUME FirstOverlap(G) # <<>> PROVE FALSE
    OBVIOUS
  <2> DEFINE hit == FirstOverlap(G)
  <2> HIDE DEF G
  <2>1. hit \in Hits(G) /\ <<G[hit[1]], G[hit[2]]>> \in OverlappingPairs(G)
    BY <1>2, FirstOverlapReported
  <2>2. /\ hit[1] \in DOMAIN G /\ hit[2] \in DOMAIN G /\ hit[1] # hit[2]
        /\ RangesOverlap(G[hit[1]], G[hit[2]])
    BY <1>2, <2>1, HitsOverlap
  <2>3. Conflicts(ids) = {}
    BY DEF Constructible, Consistent
  <2>4. G[hit[1]].sid = G[hit[2]].sid
    <3> DEFINE pair == <<G[hit[1]], G[hit[2]]>>
    <3>1. pair[1] = G[hit[1]] /\ pair[2] = G[hit[2]]
      OBVIOUS
    <3> HIDE DEF pair, hit
    <3>2. pair \in OverlappingPairs(OfValue(ids, v, m))
      BY <2>1 DEF G, pair
    <3>3. ASSUME pair[1].sid # pair[2].sid PROVE FALSE
      <4> DEFINE F(w, n) == {p \in OverlappingPairs(OfValue(ids, w, n)) : p[1].sid # p[2].sid}
      <4>1. pair \in F(v, m)
        BY <3>2, <3>3
      <4>2. UNION {F(w, n) : w \in Values, n \in Mics} \subseteq Conflicts(ids)
        BY DEF Conflicts
      <4> HIDE DEF F
      <4> QED BY <2>3, <4>1, <4>2
    <3> QED BY <3>1, <3>3
  <2> HIDE DEF hit
  <2> QED BY <1>2, <2>2, <2>4 DEF Disjoint
<1>4. ASSUME NEW i \in S, NEW j \in S, Covers(ids[i], d), Covers(ids[j], d)
      PROVE  ids[i].sid = ids[j].sid
  <2>1. ids[i] \in Tickers /\ ids[j] \in Tickers
    BY <1>1 DEF IsTable
  <2>2. RangesOverlap(ids[i], ids[j])
    BY <1>1, <1>4, <2>1, InForceOverlap
  <2>3. i = j
    <3> HIDE DEF G, S
    <3> QED BY <1>2, <1>3, <2>2, FirstOverlapDecides
  <2> QED BY <2>3
<1>5. \A x : x \in Matches(view, v, m, d) => \E i \in S : Covers(ids[i], d) /\ ids[i].sid = x
  BY DEF Matches, Range
<1>6. CASE Matches(view, v, m, d) = {}
  BY <1>6, FS_EmptySet
<1>7. CASE Matches(view, v, m, d) # {}
  <2>1. PICK x : x \in Matches(view, v, m, d)
    BY <1>7
  <2> HIDE DEF S
  <2>2. Matches(view, v, m, d) = {x}
    BY <1>4, <1>5, <2>1
  <2>3. Cardinality({x}) = 1
    BY FS_Singleton
  <2> QED BY <2>2, <2>3
<1> QED
  BY <1>6, <1>7

\* Periods in force on a day, in a table of current records.
LEMMA InForceCurrent ==
    ASSUME NEW records, Current(records) = records, NEW s, NEW d
    PROVE  \A r : r \in InForce(records, s, d) <=>
                    \E i \in DOMAIN records : /\ records[i] = r /\ r.sid = s /\ Covers(r, d)
  BY DEF InForce, Range

(***************************************************************************)
(* In a master that validates and whose terminal periods stay open, after  *)
(* a terminal status there is no other, no listing and no identifier.      *)
(***************************************************************************)
LEMMA NothingAfterTheEnd ==
    ASSUME NEW view, IsMaster(view), Constructible(view), TerminalStays(view.periods),
           Current(view.listings) = view.listings, Current(view.periods) = view.periods,
           Current(view.identifiers) = view.identifiers,
           NEW s \in Securities, NEW d \in Days, StatusOn(view, s, d) \cap Terminal # {},
           NEW later \in d .. MaxDay
    PROVE  /\ StatusOn(view, s, later) = StatusOn(view, s, d)
           /\ InForce(view.listings, s, later) = {}
           /\ InForce(view.identifiers, s, later) = {}
<1> DEFINE periods == view.periods
           S == {i \in DOMAIN periods : periods[i].sid = s}
           G == PeriodsOf(periods, s)
<1>1. /\ IsTable(view.listings, Listings) /\ IsTable(periods, Periods)
      /\ IsTable(view.identifiers, Tickers)
      /\ \A r \in Range(periods) : ValidRecord(r)
  BY DEF IsMaster, Constructible
<1>2. later \in Days /\ later \in Nat /\ d \in Nat /\ d <= later
  BY SecurityMasterAssumption DEF Days
<1>3. PICK e \in S : periods[e].status \in Terminal /\ Covers(periods[e], d)
  BY InForceCurrent DEF StatusOn
<1>4. PICK end \in Periods : end = periods[e]
  BY <1>1, <1>3 DEF IsTable
<1>5. end.to = None /\ end.from \in Nat /\ end.from <= d /\ end.sid = s
  BY <1>3, <1>4, RowType DEF TerminalStays, RowSets, Covers
<1>6. Covers(end, later)
  BY <1>2, <1>5 DEF Covers
<1>7. \A i, j \in S : i # j => ~RangesOverlap(periods[i], periods[j])
  <2>1. Proper(G) /\ DOMAIN G = S /\ \A i \in S : G[i] = periods[i]
    BY <1>1, SelectionProper DEF PeriodsOf, RowSets
  <2>2. FirstOverlap(G) = <<>>
    BY DEF Constructible, Consistent
  <2> HIDE DEF G, S
  <2> QED BY <2>1, <2>2, FirstOverlapDecides
<1>8. ASSUME NEW i \in S, NEW day \in {d, later}, Covers(periods[i], day) PROVE i = e
  <2>1. periods[i] \in Periods
    BY <1>1 DEF IsTable
  <2>2. RangesOverlap(periods[i], end)
    BY <1>2, <1>3, <1>4, <1>6, <1>8, <2>1, InForceOverlap DEF RowSets
  <2> QED BY <1>4, <1>7, <2>2
<1>9. StatusOn(view, s, d) = {end.status} /\ StatusOn(view, s, later) = {end.status}
  <2>1. ASSUME NEW day \in {d, later} PROVE StatusOn(view, s, day) = {end.status}
    <3>1. Covers(end, day)
      BY <1>3, <1>4, <1>6
    <3>2. \A r : r \in InForce(periods, s, day) => r = end
      BY <1>4, <1>8, InForceCurrent
    <3>3. end \in InForce(periods, s, day)
      BY <1>3, <1>4, <3>1, InForceCurrent
    <3> QED BY <3>2, <3>3 DEF StatusOn
  <2> QED BY <2>1
<1>10. end \in TerminalPeriods(view, s)
  BY <1>3, <1>4, <1>5 DEF TerminalPeriods, Range
<1>11. ASSUME NEW records \in {view.listings, view.identifiers}
       PROVE  InForce(records, s, later) = {}
  <2>1. Current(records) = records /\ \E Rows \in RowSets : IsTable(records, Rows)
    BY <1>1 DEF RowSets
  <2>2. ASSUME NEW r \in InForce(records, s, later) PROVE FALSE
    <3>1. PICK i \in DOMAIN records : records[i] = r /\ r.sid = s /\ Covers(r, later)
      BY <2>1, <2>2, InForceCurrent
    <3>2. r \in Range(Current(view.listings)) \cup Range(Current(view.identifiers))
      BY <3>1 DEF Range
    <3>3. EndsInTime(view, r)
      BY <3>2 DEF Constructible, Consistent
    <3>4. r.to # None /\ r.to <= end.from
      BY <1>10, <3>1, <3>3 DEF EndsInTime
    <3>5. r.to \in Nat
      BY <2>1, <3>1, RowType DEF IsTable
    <3> QED BY <1>2, <1>5, <3>1, <3>4, <3>5 DEF Covers
  <2> QED BY <2>2
<1> QED
  BY <1>9, <1>11

(***************************************************************************)
(* Every view of what was known validates, resolves a value to one         *)
(* security unless one holds it twice, and has nothing in force after an   *)
(* end (known_as_of, resolve, _consistent, apply_termination).             *)
(***************************************************************************)
THEOREM EveryViewSound == Spec => []ViewsSound
<1>1. MasterInv => ViewsSound
  <2> SUFFICES ASSUME MasterInv PROVE ViewsSound
    OBVIOUS
  <2>1. ASSUME NEW t \in Times, NEW view, view = KnownAsOf(master, t)
        PROVE  /\ IsMaster(view) /\ Constructible(view) /\ TerminalStays(view.periods)
               /\ Current(view.listings) = view.listings /\ Current(view.periods) = view.periods
               /\ Current(view.identifiers) = view.identifiers
    <3>1. IsMaster(master) /\ TerminalStays(master.periods) /\ Constructible(view)
      BY <2>1 DEF MasterInv, KnownMaster, ViewsConstructible
    <3> QED BY <2>1, <3>1, ViewMaster
  <2>2. UnambiguousUnlessDoubled
    <3> SUFFICES ASSUME NEW t \in Times, NEW view, view = KnownAsOf(master, t),
                        Disjoint(view.identifiers),
                        NEW v \in Values, NEW m \in Mics, NEW d \in Days
                 PROVE  Cardinality(Matches(view, v, m, d)) <= 1
      BY DEF UnambiguousUnlessDoubled
    <3> QED BY <2>1, UnambiguousWhenDisjoint
  <2>3. EndedForGood
    <3> SUFFICES ASSUME NEW t \in Times, NEW view, view = KnownAsOf(master, t),
                        NEW s \in Securities, NEW d \in Days,
                        StatusOn(view, s, d) \cap Terminal # {}, NEW later \in d .. MaxDay
                 PROVE  /\ StatusOn(view, s, later) = StatusOn(view, s, d)
                        /\ InForce(view.listings, s, later) = {}
                        /\ InForce(view.identifiers, s, later) = {}
      BY DEF EndedForGood
    <3> QED BY <2>1, NothingAfterTheEnd
  <2> QED BY <2>2, <2>3 DEF ViewsSound, MasterInv
<1> QED
  BY <1>1, MasterInvariant, PTL
=============================================================================
