---------------------------- MODULE IndexHistory ----------------------------
(***************************************************************************)
(* Curation of the FTSE 250's membership (trp/universe/ftse250_curate.py). *)
(* What is given is derived from a true history: the index document's      *)
(* events, of which some are omitted; the FTSE 100's changes; dated        *)
(* snapshots of the constituents, some showing a company that is not one   *)
(* or missing one that is, the last of which is right; and names that      *)
(* change in the snapshots.  A name is a record of a company and an era:   *)
(* the comparison of names by tokens and similarity is that they are of    *)
(* one company.  Aliases are those the program finds itself.               *)
(***************************************************************************)
EXTENDS Integers, Sequences, FiniteSets
LOCAL INSTANCE FiniteSetsExt
LOCAL INSTANCE SequencesExt
LOCAL INSTANCE Functions

CONSTANTS
    Companies,      \* numbers
    Crossers,       \* those that enter from the FTSE 100 and leave into it
    Drifters,       \* those whose name may change in the snapshots
    Entries, Exits, \* days on which one may enter and leave; AnchorDay: a member from the start
    Checkpoints,    \* days of the snapshots, in order; the last is the end anchor
    Skews,          \* days by which the FTSE 100's date may precede the FTSE 250's
    NearDays,       \* 45 days
    CoverDays,      \* 3 days
    AnchorDay,      \* HIST_ANCHOR_DATE
    Never           \* a day after all others; as an end: open

VARIABLES
    truth,          \* company |-> its spell
    omitted,        \* events the document omits: pairs of company and side
    skew,
    drift,          \* company |-> day from which snapshots have its new name
    glitches,       \* pairs of company and checkpoint at which a snapshot is wrong
    pc,
    state,          \* names of the current members
    spells,
    aliases,        \* matcher.aliases
    at,             \* the last day replayed
    cp,             \* the next checkpoint
    forced          \* force-add and force-remove in the ledger

given == <<truth, omitted, skew, drift, glitches>>
vars == <<given, pc, state, spells, aliases, at, cp, forced>>

MemberOn(c, day) == truth[c].from <= day /\ day < truth[c].to
Named(c, era) == [company |-> c, era |-> era]

-----------------------------------------------------------------------------
(* What is given                                                           *)

Event(c, side, day, conditional) ==
    [company |-> c, side |-> side, day |-> day, conditional |-> conditional]

Sides == {"add", "del"}
DayOf(c, side) == IF side = "add" THEN truth[c].from ELSE truth[c].to
Happens(c, side) == DayOf(c, side) > AnchorDay /\ DayOf(c, side) < Never

\* load_events
Explicit ==
    {Event(c, side, DayOf(c, side), FALSE) :
        <<c, side>> \in {p \in Companies \X Sides : Happens(p[1], p[2]) /\ p \notin omitted}}

\* Mutant: only an event of the very day covers.
CoveredOnTheDay(c, side, day) == \E e \in Explicit : e.company = c /\ e.side = side /\ e.day = day

Covered(c, side, day) ==
    \E e \in Explicit : e.company = c /\ e.side = side /\ e.day - day \in -CoverDays .. CoverDays

\* ftse100_boundary_events: a review relegation implies an entry, a promotion an exit if member.
Boundary ==
    LET day(c, side) == DayOf(c, side) - skew
    IN  {Event(c, side, day(c, side), side = "del") :
            <<c, side>> \in {p \in Crossers \X Sides :
                               Happens(p[1], p[2]) /\ ~Covered(p[1], p[2], day(p[1], p[2]))}}

Events == Explicit \cup Boundary

\* The document's name of the company
EventName(e) == Named(e.company, 1)

Snapshot(k) ==
    {Named(c, IF drift[c] <= Checkpoints[k] THEN 2 ELSE 1) :
        c \in {x \in Companies : MemberOn(x, Checkpoints[k]) # (<<x, k>> \in glitches)}}

-----------------------------------------------------------------------------
(* NameMatcher                                                             *)

RECURSIVE Follow(_, _, _)
Follow(a, n, seen) ==
    IF n \in DOMAIN a /\ n \notin seen THEN Follow(a, a[n], seen \cup {n}) ELSE n

Canon(a, n) == Follow(a, n, {})

\* find: the name itself, or the only one that resembles it
Found(a, n, members) ==
    IF Canon(a, n) \in members THEN {Canon(a, n)}
    ELSE LET alike == {m \in members : m.company = n.company}
         IN  IF Cardinality(alike) = 1 THEN alike ELSE {}

ByDay(es) == SetToSortSeq(es, LAMBDA e, f : e.day < f.day \/ (e.day = f.day /\ e.company < f.company))

\* Events reversed, newest first; conditional ones never create members backwards.
Rewind(a, es, members) ==
    FoldRight(LAMBDA e, s : CASE e.side = "add" -> s \ Found(a, EventName(e), s)
                              [] e.side = "del" /\ ~e.conditional -> s \cup {Canon(a, EventName(e))}
                              [] e.side = "del" /\ e.conditional -> s,
              ByDay(es), members)

\* An event in the forward replay: [members, spells]
Closed(sp, gone, day) == {IF s.name \in gone /\ s.to = Never THEN [s EXCEPT !.to = day] ELSE s : s \in sp}
Opened(sp, came, day) == sp \cup {[name |-> n, from |-> day, to |-> Never] : n \in came}

Replayed(a, r, e) ==
    IF e.side = "del"
    THEN LET gone == Found(a, EventName(e), r.members)
         IN  [members |-> r.members \ gone, spells |-> Closed(r.spells, gone, e.day)]
    ELSE LET came == {Canon(a, EventName(e))} \ r.members
         IN  [members |-> r.members \cup came, spells |-> Opened(r.spells, came, e.day)]

\* reverse_replay, and validate_checkpoints' segment from one snapshot to the next
ReverseReplay == Rewind(<<>>, {e \in Explicit : e.day >= AnchorDay}, Snapshot(Len(Checkpoints)))

CleanSegment(k) ==
    LET es == ByDay({e \in Explicit : e.day > Checkpoints[k] /\ e.day <= Checkpoints[k + 1]})
        step(r, e) ==
            IF e.side = "del"
            THEN LET gone == Found(<<>>, EventName(e), r.members)
                 IN  [members |-> r.members \ gone, clean |-> r.clean /\ gone # {}]
            ELSE [r EXCEPT !.members = @ \cup {EventName(e)}]
        end == FoldLeft(step, [members |-> Snapshot(k), clean |-> TRUE], es)
    IN  /\ end.clean
        /\ {m.company : m \in end.members} = {m.company : m \in Snapshot(k + 1)}
        /\ Cardinality(end.members) = Cardinality(Snapshot(k + 1))

-----------------------------------------------------------------------------
(* build_membership                                                        *)

Init ==
    /\ truth \in [Companies -> {s \in [from : Entries, to : Exits] : s.from < s.to}]
    /\ omitted \in {{}} \cup {{p} : p \in Companies \X Sides}
    /\ \A p \in omitted : Happens(p[1], p[2])
    /\ skew \in Skews
    /\ drift \in [Companies -> {Never} \cup Range(Checkpoints)]
    /\ \A c \in Companies \ Drifters : drift[c] = Never
    /\ glitches \in {{}} \cup {{p} : p \in Companies \X (1 .. Len(Checkpoints) - 1)}
    /\ pc = "head" /\ state = {} /\ spells = {} /\ aliases = <<>> /\ at = AnchorDay /\ cp = 1 /\ forced = {}

\* The first snapshot is taken back to the historical anchor, whose members open spells.
Rewound ==
    /\ pc = "head" /\ pc' = "replay"
    /\ state' = Rewind(aliases, {e \in Events : e.day > AnchorDay /\ e.day <= Checkpoints[1]}, Snapshot(1))
    /\ spells' = Opened({}, state', AnchorDay)
    /\ UNCHANGED <<given, aliases, at, cp, forced>>

Ahead == {d \in {e.day : e \in Events} : d > at}
NextDay == IF Ahead = {} THEN Never ELSE Min(Ahead)
CheckpointDue == cp <= Len(Checkpoints) /\ Checkpoints[cp] < NextDay

\* A day's events, once the snapshots before it are reconciled
ReplayDay ==
    /\ pc = "replay" /\ ~CheckpointDue /\ NextDay < Never
    /\ LET r == FoldLeft(LAMBDA x, e : Replayed(aliases, x, e), [members |-> state, spells |-> spells],
                         ByDay({e \in Events : e.day = NextDay}))
       IN  state' = r.members /\ spells' = r.spells
    /\ at' = NextDay
    /\ UNCHANGED <<given, pc, aliases, cp, forced>>

\* Names in events within 45 days of the checkpoint, whose differences are left alone
Near(day) ==
    {Canon(aliases, EventName(e)) : e \in {x \in Events : x.day - day \in -NearDays .. NearDays}}

\* Mutant: only equal names pair.
EqualPairs(missing, extra) == {p \in missing \X extra : p[1] = p[2]}

\* Missing and extra names of one company become aliases.
Pairs(missing, extra) == {<<m, x>> \in missing \X extra : m.company = x.company}

\* _next_cp_target: the names of the next snapshot, as before any alias was found
NextTargets(k) == IF k < Len(Checkpoints) THEN <<Snapshot(k + 1)>> ELSE <<>>

Reconcile ==
    /\ pc = "replay" /\ CheckpointDue
    /\ LET day == Checkpoints[cp]
           target == {Canon(aliases, n) : n \in Snapshot(cp)}
           pairs == Pairs(target \ state, state \ target)
           following == NextTargets(cp)
           missing == (target \ state) \ ({p[1] : p \in pairs} \cup Near(day))
           extra == (state \ target) \ ({p[2] : p \in pairs} \cup Near(day))
           added == {n \in missing : following # <<>> => n \in following[1]}
           removed == {n \in extra : following # <<>> => n \notin following[1]}
       IN  /\ aliases' = [n \in DOMAIN aliases \cup {p[1] : p \in pairs} |->
                            IF \E p \in pairs : p[1] = n THEN (CHOOSE p \in pairs : p[1] = n)[2] ELSE aliases[n]]
           /\ state' = (state \cup added) \ removed
           /\ spells' = Closed(Opened(spells, added, day), removed, day)
           /\ forced' = forced \cup {[at |-> cp, name |-> n] : n \in added \cup removed}
    /\ cp' = cp + 1
    /\ UNCHANGED <<given, pc, at>>

Done ==
    /\ pc = "replay" /\ ~CheckpointDue /\ NextDay = Never
    /\ pc' = "done"
    /\ UNCHANGED <<given, state, spells, aliases, at, cp, forced>>

Next == Rewound \/ ReplayDay \/ Reconcile \/ Done
Spec == Init /\ [][Next]_vars

-----------------------------------------------------------------------------
\* All of the company's changes are known: from the document, or from the FTSE 100 on the
\* same day; a promotion of before the first snapshot cannot be (conditional events create no
\* member backwards).
Known(c) ==
    \A side \in Sides : <<c, side>> \in omitted =>
        c \in Crossers /\ skew = 0 /\ (side = "del" => truth[c].to > Checkpoints[1])

\* A wrong snapshot misleads if it is the first, from which the past is derived, if the next
\* agrees with it, or if the company has a new name (AliasesHold).
Misled(c) ==
    \E k \in DOMAIN Checkpoints :
        /\ <<c, k>> \in glitches
        /\ k = 1 \/ drift[c] # Never \/ MemberOn(c, Checkpoints[k]) # MemberOn(c, Checkpoints[k + 1])

\* Whatever snapshots show in passing, whatever a company is called and whatever the document
\* omits about others: the spells of a company whose changes are known are its true ones,
\* and the replay backwards from the end anchor finds it at the start if it was there.
KnownHistoryIsExact ==
    pc = "done" =>
        \A c \in {x \in Companies : Known(x) /\ ~Misled(x)} :
            /\ {[from |-> s.from, to |-> s.to] : s \in {x \in spells : x.name.company = c}} = {truth[c]}
            /\ ({c} \X Sides) \cap omitted = {} =>
                  ((\E n \in ReverseReplay : n.company = c) <=> truth[c].from = AnchorDay)

\* "A clean segment means the event stream fully explains the transition": when every
\* segment is clean, the build forces nothing after the first snapshot.
CleanMeansNothingForced ==
    pc = "done" /\ (\A k \in 1 .. Len(Checkpoints) - 1 : CleanSegment(k)) => \A f \in forced : f.at = 1
=============================================================================
