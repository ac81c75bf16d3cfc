--------------------------- MODULE SecurityMaster ---------------------------
(***************************************************************************)
(* The bitemporal security master (trp/domain/): listings, status periods  *)
(* and identifiers as effective-dated records, the lifecycle events that   *)
(* revise them (changes.py), the validation every new master passes        *)
(* (master.py, identifier_map.py), and the views of what was known (pit.py)*)
(* and what an identifier meant (resolution.py).                           *)
(*                                                                         *)
(* A master is frozen: an event that raises leaves the one before it.      *)
(* Names, currencies, sources and reasons are left out, as are entities,   *)
(* which have no dates.  The venue of an identifier is the qualifier its   *)
(* uniqueness is checked under.  A table is a function from positions to   *)
(* records, in the order of the tuple; a position may be left out.         *)
(***************************************************************************)
EXTENDS Ranges, FiniteSetsExt

CONSTANTS
    Securities,     \* security ids
    Mics,           \* venues
    Values,         \* tickers
    Terminal,       \* terminal statuses: delisted, acquired, liquidated
    MaxDay,         \* bound: days of event time
    MaxTime,        \* bound: instants of knowledge time
    MaxEvents,      \* bound: accepted events
    Foundings       \* masters a history may start from

VARIABLES
    master,         \* the current SecurityMaster
    clock,          \* latest knowledge_time given so far, 0 during the backfill
    effective,      \* effective date of the last accepted event
    events          \* how many events were accepted

vars == <<master, clock, effective, events>>

Days == 1 .. MaxDay
Times == 0 .. MaxTime

\* EffectiveDated._range_is_positive
ValidRecord(r) ==
    /\ r.to # None => r.from < r.to
    /\ r.recorded # None /\ r.superseded # None => r.recorded < r.superseded

IsCurrent(r) == r.superseded = None

Current(records) == Restrict(records, {i \in DOMAIN records : IsCurrent(records[i])})

\* The rows of the three tables
Listings == [sid : Securities, mic : Mics, from : Days, to : Days \cup {None},
             recorded : Times, superseded : Times]

Tickers == [sid : Securities, mic : Mics, value : Values, from : Days,
            to : Days \cup {None}, recorded : Times, superseded : Times]

Periods == [sid : Securities, status : Terminal \cup {"ACTIVE", "SUSPENDED"}, from : Days,
            to : Days \cup {None}, recorded : Times, superseded : Times]

IsTable(records, Rows) ==
    /\ records \in [DOMAIN records -> Rows]
    /\ DOMAIN records \subseteq Nat \ {0} /\ IsFiniteSet(DOMAIN records)

IsMaster(m) ==
    /\ m = [listings |-> m.listings, periods |-> m.periods, identifiers |-> m.identifiers]
    /\ IsTable(m.listings, Listings)
    /\ IsTable(m.periods, Periods)
    /\ IsTable(m.identifiers, Tickers)

-----------------------------------------------------------------------------
\* The records of one venue that share a value, and those that share a security
OfValue(ids, value, mic) ==
    Restrict(ids, {i \in DOMAIN ids : ids[i].value = value /\ ids[i].mic = mic})

OfSecurity(ids, sid, mic) ==
    Restrict(ids, {i \in DOMAIN ids : ids[i].sid = sid /\ ids[i].mic = mic})

\* Mutant: only one security's identifiers are compared.
ConflictsBySecurity(ids) ==
    UNION {{p \in OverlappingPairs(OfSecurity(ids, s, m)) : p[1].value # p[2].value} :
             s \in Securities, m \in Mics}

\* find_mapping_conflicts: one value meaning two securities, or one security
\* with two values, on one venue at once
Conflicts(ids) ==
    UNION {{p \in OverlappingPairs(OfValue(ids, v, m)) : p[1].sid # p[2].sid} :
             v \in Values, m \in Mics}
    \cup
    UNION {{p \in OverlappingPairs(OfSecurity(ids, s, m)) : p[1].value # p[2].value} :
             s \in Securities, m \in Mics}

PeriodsOf(periods, sid) ==
    Restrict(periods, {i \in DOMAIN periods : periods[i].sid = sid})

TerminalPeriods(m, sid) ==
    {p \in Range(Current(m.periods)) : p.sid = sid /\ p.status \in Terminal}

\* Nothing current remains in force past the earliest terminal status.
EndsInTime(m, r) ==
    \A p \in TerminalPeriods(m, r.sid) : r.to # None /\ r.to <= p.from

\* SecurityMaster._consistent
Consistent(m) ==
    /\ \A s \in Securities :
          FirstOverlap(PeriodsOf(Current(m.periods), s)) = <<>>
    /\ Conflicts(Current(m.identifiers)) = {}
    /\ \A r \in Range(Current(m.listings)) \cup Range(Current(m.identifiers)) :
          EndsInTime(m, r)

\* A master whose construction does not raise
Constructible(m) ==
    /\ \A records \in {m.listings, m.periods, m.identifiers} :
          \A r \in Range(records) : ValidRecord(r)
    /\ Consistent(m)

\* What ends does not come back: a terminal period has no end.
TerminalStays(periods) ==
    \A i \in DOMAIN periods : periods[i].status \in Terminal => periods[i].to = None

\* A history starts from a backfilled master that validates, without knowledge times.
Founded(m) ==
    /\ IsMaster(m) /\ Constructible(m) /\ TerminalStays(m.periods)
    /\ \A records \in {m.listings, m.periods, m.identifiers} :
          \A i \in DOMAIN records : records[i].recorded = None /\ IsCurrent(records[i])

ASSUME SecurityMasterAssumption ==
    /\ MaxDay \in Nat \ {0} /\ MaxTime \in Nat /\ MaxEvents \in Nat
    /\ \A m \in Foundings : Founded(m)

-----------------------------------------------------------------------------
IsVisible(r, t) == /\ r.recorded <= t
                   /\ r.superseded = None \/ r.superseded > t

\* _visible: supersession that came later is cleared.
Visible(records, t) ==
    [i \in {j \in DOMAIN records : IsVisible(records[j], t)} |->
        [records[i] EXCEPT !.superseded = None]]

KnownAsOf(m, t) ==
    [listings |-> Visible(m.listings, t),
     periods |-> Visible(m.periods, t),
     identifiers |-> Visible(m.identifiers, t)]

InForce(records, sid, day) ==
    {r \in Range(Current(records)) : r.sid = sid /\ Covers(r, day)}

\* status_on, as the set of what its loop may return
StatusOn(m, sid, day) == {p.status : p \in InForce(m.periods, sid, day)}

\* IdentifierResolver.resolve, before it insists on one match
Matches(m, value, mic, day) ==
    {r.sid : r \in {q \in Range(Current(m.identifiers)) :
                      q.value = value /\ q.mic = mic /\ Covers(q, day)}}

-----------------------------------------------------------------------------
\* Mutant: revisions always replace, knowledge time or not.
ReviseInPlace(records, revisions, k) ==
    [i \in DOMAIN records |-> IF i \in DOMAIN revisions THEN revisions[i] ELSE records[i]]

\* The last position in use
End(records) == Max(DOMAIN records \cup {0})

\* _revise: supersede and append, or replace during the backfill.  Replacements
\* follow the table in the order of what they replace.
Revise(records, revisions, k) ==
    IF k = None
    THEN [i \in DOMAIN records |->
            IF i \in DOMAIN revisions THEN revisions[i] ELSE records[i]]
    ELSE LET end == End(records)
         IN  [i \in DOMAIN records \cup {end + j : j \in DOMAIN revisions} |->
                CASE i \in DOMAIN records \ DOMAIN revisions -> records[i]
                  [] i \in DOMAIN revisions -> [records[i] EXCEPT !.superseded = k]
                  [] OTHER -> [revisions[i - end] EXCEPT !.recorded = k]]

\* A table with one more record
Added(records, r) ==
    [i \in DOMAIN records \cup {End(records) + 1} |->
        IF i \in DOMAIN records THEN records[i] ELSE r]

\* Mutant: a range ends with its last day.
ClosedTheDayBefore(records, indices, day) == [i \in indices |-> [records[i] EXCEPT !.to = day - 1]]

\* The records closed at an effective date
ClosedAt(records, indices, day) == [i \in indices |-> [records[i] EXCEPT !.to = day]]

\* New records, open-ended; _stamp_new
NewListing(sid, mic, day, k) ==
    [sid |-> sid, mic |-> mic,
     from |-> day, to |-> None, recorded |-> k, superseded |-> None]
NewTicker(sid, mic, value, day, k) ==
    [sid |-> sid, mic |-> mic, value |-> value,
     from |-> day, to |-> None, recorded |-> k, superseded |-> None]

NewPeriod(sid, status, day, k) ==
    [sid |-> sid, status |-> status,
     from |-> day, to |-> None, recorded |-> k, superseded |-> None]

\* Positions of the current records of sid in force on a day
Affected(records, sid, day) ==
    {i \in DOMAIN records : /\ IsCurrent(records[i])
                            /\ records[i].sid = sid
                            /\ Covers(records[i], day)}

On(records, indices, mic) == {i \in indices : records[i].mic = mic}

\* _current_ticker raises when there are two.
CurrentTickers(sid, mic, day) ==
    On(master.identifiers, Affected(master.identifiers, sid, day), mic)

NotTerminated(sid, day) ==
    \A p \in TerminalPeriods(master, sid) : p.from > day

\* The revised master is validated as a whole.  A backfill (None) comes first;
\* afterwards events arrive in the order they are learned.
Commit(revised, day, k) ==
    /\ events < MaxEvents
    /\ IF k = None THEN clock = 0 ELSE k >= clock
    /\ Constructible(revised)
    /\ master' = revised
    /\ clock' = k
    /\ effective' = day
    /\ events' = events + 1

TickerChange(sid, mic, value, day, k) ==
    /\ NotTerminated(sid, day)
    /\ \E i \in CurrentTickers(sid, mic, day) :
          /\ CurrentTickers(sid, mic, day) = {i}
          /\ master.identifiers[i].value # value
          /\ Commit([master EXCEPT !.identifiers =
                       Added(Revise(@, ClosedAt(@, {i}, day), k),
                              NewTicker(sid, mic, value, day, k))], day, k)

ExchangeMove(sid, from, to, value, day, k) ==
    LET listed == On(master.listings, Affected(master.listings, sid, day), from)
        tickers == CurrentTickers(sid, from, day)
    IN  /\ NotTerminated(sid, day)
        /\ listed # {}
        /\ Cardinality(tickers) <= 1
        /\ Commit([master EXCEPT
                     !.listings = Added(Revise(@, ClosedAt(@, {Min(listed)}, day), k),
                                         NewListing(sid, to, day, k)),
                     !.identifiers = Added(Revise(@, ClosedAt(@, tickers, day), k),
                                            NewTicker(sid, to, value, day, k))], day, k)

\* Delisting and Acquisition, by their terminal status
Termination(sid, status, day, k) ==
    LET closed(records) == Revise(records,
                                  ClosedAt(records, Affected(records, sid, day), day), k)
    IN  /\ NotTerminated(sid, day)
        /\ Commit([listings |-> closed(master.listings),
                   identifiers |-> closed(master.identifiers),
                   periods |-> Added(closed(master.periods),
                                      NewPeriod(sid, status, day, k))], day, k)

Init ==
    /\ master \in Foundings
    /\ clock = 0 /\ effective = MaxDay /\ events = 0

Next == \E sid \in Securities, day \in Days, k \in Times :
    \/ \E mic \in Mics, value \in Values : TickerChange(sid, mic, value, day, k)
    \/ \E from, to \in Mics, value \in Values : ExchangeMove(sid, from, to, value, day, k)
    \/ \E status \in Terminal : Termination(sid, status, day, k)

Spec == Init /\ [][Next]_vars

-----------------------------------------------------------------------------
\* A record without its knowledge times, and the facts of a view
Fact(r) == [f \in DOMAIN r \ {"recorded", "superseded"} |-> r[f]]

Facts(m) == [table \in DOMAIN m |-> {Fact(r) : r \in Range(m[table])}]

\* What was believed at each instant, as known_as_of reconstructs it
Stood == [t \in Times |-> Facts(KnownAsOf(master, t))]

History == INSTANCE KnowledgeHistory WITH stood <- Stood

(***************************************************************************)
(* "every historical knowledge state remains reconstructable via           *)
(* pit.known_as_of" (changes.py): the master implements the history of     *)
(* what was known; an event learned at k changes no view before k.         *)
(***************************************************************************)
HistoryKept == History!Spec

(***************************************************************************)
(* "The result revalidates, so every knowledge view is internally          *)
(* consistent" (known_as_of): no instant has a view that raises, though    *)
(* only the latest master was ever validated.                              *)
(***************************************************************************)
ViewsConstructible == \A t \in Times : Constructible(KnownAsOf(master, t))

\* No security holds overlapping identifiers on one venue.
Disjoint(ids) ==
    \A i, j \in DOMAIN ids :
        i # j /\ ids[i].sid = ids[j].sid /\ ids[i].mic = ids[j].mic
          => ~RangesOverlap(ids[i], ids[j])

(***************************************************************************)
(* "one external value maps to at most one security at any date"           *)
(* (identifier_map.py), in every view in which no security holds a venue's *)
(* identifier twice: there resolve never finds two candidates, and         *)
(* conflict detection, which drops ranges as it searches                   *)
(* (_overlapping_pairs), misses none.                                      *)
(***************************************************************************)
UnambiguousUnlessDoubled ==
    \A t \in Times : LET view == KnownAsOf(master, t) IN
        Disjoint(view.identifiers) =>
            \A v \in Values, m \in Mics, d \in Days :
                Cardinality(Matches(view, v, m, d)) <= 1

(***************************************************************************)
(* "nothing may remain in force past a terminal status' effective date"    *)
(* (master.py), and nothing comes back: after a terminal status a security *)
(* has no other, no listing and no identifier, in any view.                *)
(***************************************************************************)
EndedForGood ==
    \A t \in Times : LET view == KnownAsOf(master, t) IN
        \A s \in Securities, d \in Days :
            StatusOn(view, s, d) \cap Terminal # {} =>
                \A later \in d .. MaxDay :
                    /\ StatusOn(view, s, later) = StatusOn(view, s, d)
                    /\ InForce(view.listings, s, later) = {}
                    /\ InForce(view.identifiers, s, later) = {}

(***************************************************************************)
(* Whatever the sequence of events, each view of what was known at some    *)
(* instant can be assembled, resolves a value to one security, and has     *)
(* nothing in force after an end (known_as_of, resolve,                    *)
(* apply_termination).                                                     *)
(***************************************************************************)
ViewsSound == ViewsConstructible /\ UnambiguousUnlessDoubled /\ EndedForGood

\* What a view says of one day, without the ranges it says it with
OnDay(m, d) ==
    [status |-> [s \in Securities |-> StatusOn(m, s, d)],
     listed |-> [s \in Securities |-> {r.mic : r \in InForce(m.listings, s, d)}],
     means |-> [v \in Values |-> [mic \in Mics |-> Matches(m, v, mic, d)]]]

(***************************************************************************)
(* "Nothing is deleted": a company that failed is still fully described.   *)
(* An event says nothing of the days before its effective date: in every   *)
(* view those days read as they did.                                       *)
(***************************************************************************)
PastDaysKept ==
    [][\A t \in Times, d \in 1 .. effective' - 1 :
          OnDay(KnownAsOf(master', t), d) = OnDay(KnownAsOf(master, t), d)]_vars
=============================================================================
