-------------------------- MODULE PriceValidation ---------------------------
(***************************************************************************)
(* The report on the stored prices of one security                         *)
(* (trp/canonical/price_validation.py): bars arrive from several sources,  *)
(* some of them late, actions are published, and the report of an instant  *)
(* is made from what read_prices(as_of) and the actions' availability let  *)
(* through.  A finding is a check, the days it is about and its severity.  *)
(*                                                                         *)
(* Days are integers.  A bar has the instant of its ingestion, an action   *)
(* that of its publication.                                                *)
(***************************************************************************)
EXTENDS TradingCalendars, FiniteSetsExt

CONSTANTS
    Listings,       \* the listings of the security: market, from, to (exclusive)
    Offered,        \* bars that may arrive
    Actions,        \* actions that may be published
    ActionWindow,   \* corporate_action_window_days
    StaleRunDays,   \* stale_run_days
    MedianWindow,   \* volume_median_window
    MinSamples,     \* volume_median_min_samples
    OutlierMultiple,\* volume_outlier_multiple
    MaxArrivals     \* bound: arrivals and publications

\* A calendar is Cut to the range it supports.
ASSUME ValidationAssumption ==
    /\ \A b \in Offered : b.day \in Int
    /\ \A l \in Listings : l.from \in Int /\ (l.to = NoDay \/ l.to \in Int)
    /\ \A mic \in DOMAIN Calendar :
          /\ Calendar[mic].first \in Int /\ Calendar[mic].last \in Int
          /\ Calendar[mic].sessions \subseteq Calendar[mic].first .. Calendar[mic].last

VARIABLES
    now,        \* the clock
    bars,       \* the store
    known,      \* actions published so far
    reports     \* reports made so far, with their as_of

validating == <<now, bars, known, reports>>

Distance(a, b) == IF a < b THEN b - a ELSE a - b

Finding(check, from, to, severity) ==
    [check |-> check, from |-> from, to |-> to, severity |-> severity]

DaysOf(B) == {b.day : b \in B}

-----------------------------------------------------------------------------
\* Maximal runs of a set of days, Continues(p, d) telling if d continues the run
\* of the day p before it
Runs(days, Continues(_, _)) ==
    LET before(d) == {p \in days : p < d}
        starts == {d \in days : before(d) = {} \/ ~Continues(Max(before(d)), d)}
    IN  {{d \in days : s <= d /\ ~\E t \in starts : s < t /\ t <= d} : s \in starts}

NonPositive(B) ==
    {Finding("non_positive_price", b.day, b.day, "error") :
        b \in {x \in B : x.close <= 0 \/ x.volume < 0}}

\* A listing's days within the data, valid_to being exclusive
WindowStart(l, B) == Max({l.from, Min(DaysOf(B))})
WindowEnd(l, B) == IF l.to = NoDay THEN Max(DaysOf(B)) ELSE Min({l.to - 1, Max(DaysOf(B))})

\* Missing sessions next to each other, in sessions
GapRuns(c, missing, sessions) ==
    Runs(missing, LAMBDA p, d : ~\E s \in sessions : p < s /\ s < d)

\* _gaps_for_listing
GapsForListing(l, B) ==
    LET start == WindowStart(l, B)
        end == WindowEnd(l, B)
        c == Calendar[l.mic]
        lower == Max({start, c.first})
        upper == Min({end, c.last})
        gaps == GapRuns(c, MissingSessions(c, DaysOf(B), lower, upper), SessionsBetween(c, lower, upper))
    IN  CASE start > end -> {}
          [] start <= end /\ ~Supported(l.mic) ->
                {Finding("calendar_unavailable", start, end, "warning")}
          [] OTHER ->
                (IF <<lower, upper>> = <<start, end>> THEN {}
                 ELSE {Finding("calendar_range_clamped", start, end, "info")})
                \cup (IF lower > upper THEN {}
                      ELSE {Finding("calendar_gap", Min(run), Max(run), "warning") : run \in gaps})

CalendarGaps(B) ==
    IF Listings = {} THEN {Finding("listing_unknown", Min(DaysOf(B)), Max(DaysOf(B)), "info")}
    ELSE UNION {GapsForListing(l, B) : l \in Listings}

-----------------------------------------------------------------------------
\* The series of one source: bar by day
SeriesOf(B, source) ==
    [d \in DaysOf({b \in B : b.source = source}) |->
        CHOOSE b \in B : b.source = source /\ b.day = d]

Sources(B) == {b.source : b \in B}

Previous(series, d) == Max({p \in DOMAIN series : p < d})

\* A move of half or more, both bounds included
Extreme(previous, close) == previous > 0 /\ (2 * close >= 3 * previous \/ 2 * close <= previous)

EventRatios == {<<1, 2>>, <<1, 3>>, <<1, 4>>, <<1, 5>>, <<2, 3>>, <<2, 5>>, <<1, 10>>, <<1, 100>>,
                <<3, 2>>, <<2, 1>>, <<3, 1>>, <<5, 1>>, <<10, 1>>, <<100, 1>>}

Resembles(previous, close) ==
    \E r \in EventRatios : 50 * Distance(close * r[2], r[1] * previous) <= r[1] * previous

\* Mutant: every action is known.
EveryAction(asOf) == known

KnownActions(asOf) == {a \in known : a.available <= asOf}

Explained(d, asOf) ==
    \E a \in KnownActions(asOf) :
        /\ a.kind \in {"split", "rights_issue", "merger", "delisting"}
        /\ Distance(a.ex, d) <= ActionWindow

ExtremeMoves(series, asOf) ==
    {Finding("extreme_move", Previous(series, d), d,
             IF Resembles(series[Previous(series, d)].close, series[d].close) THEN "error" ELSE "warning") :
        d \in {x \in DOMAIN series \ {Min(DOMAIN series)} :
                  /\ Extreme(series[Previous(series, x)].close, series[x].close)
                  /\ ~Explained(x, asOf)}}

StaleRuns(series) ==
    {Finding("stale_price_run", Min(run), Max(run),
             IF \A d \in run : series[d].volume = 0 THEN "error" ELSE "warning") :
        run \in {r \in Runs(DOMAIN series, LAMBDA p, d : series[p].close = series[d].close) :
                   Cardinality(r) >= StaleRunDays}}

\* Runs of days without volume; a run of one is reported
ZeroVolumeRuns(series) ==
    {Finding("zero_volume", Min(run), Max(run), "warning") :
        run \in {r \in Runs(DOMAIN series, LAMBDA p, d :
                              (series[p].volume = 0) = (series[d].volume = 0)) :
                   \A d \in r : series[d].volume = 0}}

HalfDays(B) ==
    UNION {{d \in Calendar[l.mic].half : Min(DaysOf(B)) <= d /\ d <= Max(DaysOf(B))} :
             l \in {x \in Listings : Supported(x.mic)}}

\* The median of the volumes of the bars before, floored; -1 without enough bars
TrailingMedian(series, d) ==
    LET before == {p \in DOMAIN series : p < d}
        last == {p \in before : Cardinality({q \in before : q > p}) < MedianWindow}
        n == Cardinality(last)
        ahead(p) == {q \in last : \/ series[q].volume < series[p].volume
                                  \/ series[q].volume = series[p].volume /\ q < p}
        ranked(k) == series[CHOOSE p \in last : Cardinality(ahead(p)) = k - 1].volume
    IN  IF n < MinSamples THEN -1 ELSE (ranked((n + 1) \div 2) + ranked(n \div 2 + 1)) \div 2

VolumeOutliers(series, half) ==
    {Finding("volume_outlier", d, d, "warning") :
        d \in {x \in DOMAIN series \ half :
                 /\ TrailingMedian(series, x) > 0
                 /\ series[x].volume > OutlierMultiple * TrailingMedian(series, x)}}

\* validate_prices
Validate(B, asOf) ==
    IF B = {} THEN {}
    ELSE NonPositive(B) \cup CalendarGaps(B)
         \cup UNION {LET series == SeriesOf(B, source)
                     IN  ExtremeMoves(series, asOf) \cup StaleRuns(series)
                         \cup ZeroVolumeRuns(series) \cup VolumeOutliers(series, HalfDays(B)) :
                       source \in Sources(B)}

\* read_prices(as_of), then the report of that instant
VisibleBars(asOf) == {b \in bars : b.ingested <= asOf}

Report(asOf) == Validate(VisibleBars(asOf), asOf)

-----------------------------------------------------------------------------
\* A bar arrives, late or not; what is stored under its key stays.
Arrive ==
    /\ now < MaxArrivals
    /\ \E b \in Offered :
          /\ ~\E c \in bars : c.source = b.source /\ c.day = b.day
          /\ bars' = bars \cup {[source |-> b.source, day |-> b.day, close |-> b.close,
                                 volume |-> b.volume, ingested |-> now + 1]}
    /\ now' = now + 1
    /\ UNCHANGED <<known, reports>>

\* An action becomes public.
Publish ==
    /\ now < MaxArrivals
    /\ \E a \in {x \in Actions : ~\E y \in known : y.kind = x.kind /\ y.ex = x.ex} :
          known' = known \cup {[kind |-> a.kind, ex |-> a.ex, available |-> now + 1]}
    /\ now' = now + 1
    /\ UNCHANGED <<bars, reports>>

\* One report is enough, to be compared with what is found later.
MakeReport ==
    /\ reports = {}
    /\ reports' = reports \cup {[asOf |-> now, findings |-> Report(now)]}
    /\ UNCHANGED <<now, bars, known>>

ValidationInit == now = 0 /\ bars = {} /\ known = {} /\ reports = {}

ValidationNext == Arrive \/ Publish \/ MakeReport

ValidationSpec == ValidationInit /\ [][ValidationNext]_validating

-----------------------------------------------------------------------------
(***************************************************************************)
(* "A check reproducing a historical state must not explain a move with an *)
(* action the vendor had not yet published": a report of an instant is     *)
(* found again as of that instant, whatever has arrived since.             *)
(***************************************************************************)
ReportsStand == \A r \in reports : Report(r.asOf) = r.findings

\* The sessions on which a listing should have had a bar and had none
Lacking(l, B) ==
    {d \in Calendar[l.mic].sessions \ DaysOf(B) :
        /\ Min(DaysOf(B)) <= d /\ d <= Max(DaysOf(B))
        /\ l.from <= d /\ (l.to = NoDay \/ d < l.to)}

(***************************************************************************)
(* check_calendar_gaps: "A holiday is not a gap; a day after delisting is  *)
(* not a gap".  The gaps of a listing cover the sessions it lacks and no   *)
(* other session of its market, and two gaps have a bar between them.      *)
(***************************************************************************)
GapsExact ==
    bars # {} =>
        \A l \in Listings : Supported(l.mic) =>
            LET gaps == {f \in GapsForListing(l, bars) : f.check = "calendar_gap"}
                sessions == Calendar[l.mic].sessions
            IN  /\ UNION {{d \in sessions : f.from <= d /\ d <= f.to} : f \in gaps} = Lacking(l, bars)
                /\ \A f, g \in gaps : f.to < g.from =>
                      \E d \in sessions \cap DaysOf(bars) : f.to < d /\ d < g.from
=============================================================================
