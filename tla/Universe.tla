------------------------------ MODULE Universe ------------------------------
(***************************************************************************)
(* One universe (trp/universe/): membership spells with event dates and    *)
(* knowledge times, the members on a date as of an instant, and the        *)
(* changes between two dates.                                              *)
(*                                                                         *)
(* The file is rewritten as a whole by one rename, so an operation is one  *)
(* step.  The cache of UniverseQuery is keyed by the file's mtime; every   *)
(* rewrite has one of its own, so the cache is not modelled.               *)
(***************************************************************************)
EXTENDS Ranges, Sequences, FiniteSetsExt

CONSTANTS
    Securities,     \* the security ids of the master
    MaxDay,         \* bound: days, of event time and of knowledge time
    MaxSpells       \* bound: membership records

ASSUME UniverseAssumption == MaxDay \in Nat \ {0}

VARIABLES
    spells,         \* the records of membership.parquet
    now             \* today: what is learned is learned now

Days == 1 .. MaxDay

IsCurrent(r) == r.superseded = None

\* sorted: the elements of a set, in the order of their keys
Sorted(S, key) ==
    CHOOSE rows \in [1 .. Cardinality(S) -> S] :
        /\ IsInjective(rows)
        /\ \A i, j \in DOMAIN rows : i < j => key[rows[i]] <= key[rows[j]]

\* UniverseMembership: the ranges an EffectiveDated record accepts
ValidSpell(r) ==
    /\ r.to # None => r.from < r.to
    /\ r.recorded # None /\ r.superseded # None => r.recorded < r.superseded

\* check_memberships
NoOverlap(records) ==
    \A s \in Securities :
        LET current == {r \in records : r.sid = s /\ IsCurrent(r)}
        IN  FirstOverlap(Sorted(current, [r \in current |-> r.from])) = <<>>

\* visible_as_of
VisibleAsOf(asOf) ==
    {r \in spells : r.recorded <= asOf /\ (r.superseded = None \/ r.superseded > asOf)}

First(records) == Min({r.from : r \in records})

Covered(on, asOf) == VisibleAsOf(asOf) # {} /\ First(VisibleAsOf(asOf)) <= on

\* members: a date before the coverage raises
Members(on, asOf) ==
    [covered |-> Covered(on, asOf),
     sids |-> IF Covered(on, asOf)
              THEN {r.sid : r \in {q \in VisibleAsOf(asOf) : Covers(q, on)}} ELSE {}]

\* Mutant: the last day is left out.
WithinOpen(start, end, day) == start < day /\ day < end

Within(start, end, day) == start < day /\ day <= end

\* The changes with a date in (start, end]
ChangesWithin(start, end, asOf) ==
    {[sid |-> r.sid, effective |-> r.from, removed |-> 0] :
        r \in {q \in VisibleAsOf(asOf) : Within(start, end, q.from)}}
    \cup
    {[sid |-> r.sid, effective |-> r.to, removed |-> 1] :
        r \in {q \in VisibleAsOf(asOf) : q.to # None /\ Within(start, end, q.to)}}

\* membership_changes: by date, additions before removals
Changes(start, end, asOf) ==
    LET changes == ChangesWithin(start, end, asOf)
    IN  Sorted(changes, [c \in changes |-> 2 * c.effective + c.removed])

-----------------------------------------------------------------------------
\* write_universe: the rows are validated, then the file is replaced
WriteUniverse(records) ==
    /\ \A r \in records : ValidSpell(r)
    /\ NoOverlap(records)
    /\ Cardinality(records) <= MaxSpells
    /\ spells' = records

\* A spell is learned of, whatever day it starts.
Join(sid, from) ==
    WriteUniverse(spells \cup {[sid |-> sid, from |-> from, to |-> None,
                                recorded |-> now, superseded |-> None]})

\* The record that ends and the one that replaces it
Closed(r, on) == {[r EXCEPT !.superseded = now], [r EXCEPT !.to = on, !.recorded = now]}

\* close_open_spell, then write_universe
Leave(sid, on) ==
    LET open == {r \in spells : IsCurrent(r) /\ r.sid = sid /\ r.to = None}
    IN  /\ open # {}
        /\ WriteUniverse((spells \ open) \cup UNION {Closed(r, on) : r \in open})

-----------------------------------------------------------------------------
\* The changes applied to a set of members, one after the other
Apply(sids, c) == IF c.removed = 1 THEN sids \ {c.sid} ELSE sids \cup {c.sid}

Applied(sids, changes) ==
    LET after[n \in 0 .. Len(changes)] ==
          IF n = 0 THEN sids ELSE Apply(after[n - 1], changes[n])
    IN  after[Len(changes)]

\* No security leaves on the day it joins again.
NoTouchingSpells(asOf) ==
    \A r, q \in VisibleAsOf(asOf) : r.sid = q.sid => r.to # q.from

(***************************************************************************)
(* "Applying them in date order to members(start) reproduces members(end)" *)
(* (membership_changes) as of today, where no two spells of a security     *)
(* touch.                                                                  *)
(***************************************************************************)
ChangesCarryMembers ==
    NoTouchingSpells(now) =>
        \A start, end \in Days :
            start < end /\ Covered(start, now)
                => Applied(Members(start, now).sids, Changes(start, end, now))
                     = Members(end, now).sids
=============================================================================
