------------------------------- MODULE Ranges -------------------------------
(***************************************************************************)
(* Half-open effective date ranges (trp/domain/ranges.py): a record is     *)
(* true on the days of [from, to); None as its end leaves it open.         *)
(*                                                                         *)
(* A collection of ranges is a function from positions, which are numbers  *)
(* but need not be consecutive: a selection keeps the positions it had.    *)
(***************************************************************************)
EXTENDS Integers, FiniteSets, Functions

None == 0

RangesOverlap(a, b) ==
    ~ \/ a.to # None /\ a.to <= b.from
      \/ b.to # None /\ b.to <= a.from

Covers(r, day) == r.from <= day /\ (r.to = None \/ day < r.to)

\* The order of sorted() by the first day, which is stable
Before(ranges, i, j) ==
    \/ ranges[i].from < ranges[j].from
    \/ ranges[i].from = ranges[j].from /\ i < j

\* Neighbours in that order
Adjacent(ranges, i, j) ==
    /\ Before(ranges, i, j)
    /\ \A k \in DOMAIN ranges : ~(Before(ranges, i, k) /\ Before(ranges, k, j))

\* Neighbours which overlap
Hits(ranges) ==
    {p \in (DOMAIN ranges) \X (DOMAIN ranges) :
        /\ ranges[p[1]].to = None \/ ranges[p[2]].from < ranges[p[1]].to
        /\ Adjacent(ranges, p[1], p[2])}

FirstOverlap(ranges) ==
    LET hits == Hits(ranges)
    IN  IF hits = {} THEN <<>>
        ELSE CHOOSE p \in hits : \A q \in hits : q # p => Before(ranges, p[1], q[1])

\* One round of the search: the first overlap is reported, its second range dropped.
Round(search) ==
    LET ranges == search.remaining
        hit == FirstOverlap(ranges)
    IN  IF hit = <<>> THEN search
        ELSE [remaining |-> Restrict(ranges, DOMAIN ranges \ {hit[2]}),
              pairs |-> search.pairs \cup {<<ranges[hit[1]], ranges[hit[2]]>>}]

\* _overlapping_pairs (trp/domain/identifier_map.py): as many rounds as it takes
OverlappingPairs(ranges) ==
    LET rounds == Cardinality(DOMAIN ranges)
        search[n \in 0 .. rounds] ==
          IF n = 0 THEN [remaining |-> ranges, pairs |-> {}] ELSE Round(search[n - 1])
    IN  search[rounds].pairs
=============================================================================
