------------------------- MODULE FundamentalChecks --------------------------
(***************************************************************************)
(* The point-in-time checks of the bake-off                                *)
(* (trp/bakeoff/checks_pit_fundamentals.py) on the statements a provider   *)
(* sends, page by page.  Times are days; every month has Month days.  Rows *)
(* are by place (ParseStatements); sets of rows are sets of places.        *)
(***************************************************************************)
EXTENDS ProviderPayloads

CONSTANTS
    Offered,        \* pages the provider may send
    MaxStatementPages, \* bound
    Restatement,    \* the expected fact: period, both values
    AssumedLag,     \* DEC007_ASSUMED_LAG_DAYS of the market, by kind of period
    Today, Epoch,   \* the range of a credible stamp
    Month,          \* days of a month
    Share,          \* TIMESTAMP_PRESENCE_THRESHOLD, PLACEHOLDER_UNIFORMITY_THRESHOLD
    MinSample       \* MIN_PLACEHOLDER_SAMPLE, MIN_LAG_SAMPLE

\* The share is more than half, and of a sample large enough to conclude from it is one
\* itself, as nine tenths of three are.  Lists are finite, and what stands for a date
\* is a day, or no parser reads it.
ASSUME FundamentalChecksAssumption ==
    /\ Share \in Nat \X (Nat \ {0}) /\ Share[2] < 2 * Share[1]
    /\ MinSample \in Nat \ {0} /\ (MinSample - 1) * Share[2] < MinSample * Share[1]
    /\ \A kind \in DOMAIN AssumedLag : AssumedLag[kind] \in Int
    /\ \A page \in Offered : \A key \in {"statements", "yearly", "quarterly"} :
          LET block == BlockOf(page, key)
          IN  block # NotAList =>
                /\ IsFiniteSet(DOMAIN block)
                /\ \A i \in DOMAIN block : block[i] # NotAnObject =>
                      \A k \in (Range(PeriodKeys) \cup Range(FiledKeys) \cup Range(KnownKeys)) \cap DOMAIN block[i] :
                          block[i][k] \in Int \cup {Null, Unreadable}

VARIABLES
    sent,           \* the payload pages of the cell
    judgement       \* what the checks found; <<>> until they run

filing == <<sent, judgement>>

\* n of m is at least the share
Most(n, m) == n * Share[2] >= m * Share[1]

\* period_class: an unknown or unstated type is annual
PeriodClass(row) ==
    CASE row.type \in {"quarterly", "quarter", "q", "q1", "q2", "q3", "q4"} -> "quarterly"
      [] row.type \in {"interim", "half", "half_year", "h1", "semi_annual"} -> "interim"
      [] OTHER -> "annual"

Stamped(rows) == {at \in DOMAIN rows : PublicationAt(rows[at]) # Null}

\* The rows that have a lag, and the lag (lag_days)
Timed(rows) == {at \in Stamped(rows) : rows[at].periodEnd # Null}
Lag(row) == PublicationAt(row) - row.periodEnd

InRange(stamp) == Epoch <= stamp /\ stamp <= Today

\* timestamp_is_usable
UsableRows(rows) == {at \in Timed(rows) : Lag(rows[at]) > 0 /\ InRange(PublicationAt(rows[at]))}

MostUsable(rows) == Most(Cardinality(UsableRows(rows)), Cardinality(DOMAIN rows))

-----------------------------------------------------------------------------
\* FundamentalTimestampPresenceCheck
Presence(rows) == IF MostUsable(rows) THEN Found("pass", "ok") ELSE Found("fail", "absent")

\* Mutant: all of the lags must be the same.
AllAlike(rows) ==
    Cardinality(Timed(rows)) >= MinSample /\ \A p, q \in Timed(rows) : Lag(rows[p]) = Lag(rows[q])

WithLag(rows, lag) == {at \in Timed(rows) : Lag(rows[at]) = lag}

\* One lag dominates.
UniformLag(rows) ==
    /\ Cardinality(Timed(rows)) >= MinSample
    /\ \E at \in Timed(rows) : Most(Cardinality(WithLag(rows, Lag(rows[at]))), Cardinality(Timed(rows)))

Firsts(rows) == {at \in Stamped(rows) : PublicationAt(rows[at]) % Month = 1}

FirstOfMonth(rows) ==
    /\ Cardinality(Stamped(rows)) >= MinSample
    /\ Most(Cardinality(Firsts(rows)), Cardinality(Stamped(rows)))

\* The stamps that repeat the period end, and those out of range
Repeating(rows) == {at \in Timed(rows) : Lag(rows[at]) = 0}
Sentinels(rows) == {at \in Stamped(rows) : ~InRange(PublicationAt(rows[at]))}

\* FundamentalTimestampPlausibilityCheck: each pattern before the next
Plausibility(rows) ==
    IF Stamped(rows) = {} THEN Found("not_applicable", "no stamps")
    ELSE IF Repeating(rows) = Stamped(rows) THEN Found("fail", "period end")
    ELSE IF Sentinels(rows) # {} THEN Found("fail", "out of range")
    ELSE IF UniformLag(rows) THEN Found("fail", "uniform")
    ELSE IF FirstOfMonth(rows) THEN Found("fail", "first of month") ELSE Found("pass", "ok")

\* FundamentalAvailabilityClassCheck.classify
Classify(rows) ==
    LET known == {at \in UsableRows(rows) : rows[at].firstKnown # Null}
        ended == {at \in DOMAIN rows : rows[at].periodEnd # Null}
    IN  CASE known # {} -> "first_known"
          [] known = {} /\ MostUsable(rows) -> "filing_only"
          [] known = {} /\ ~MostUsable(rows) -> IF ended # {} THEN "period_end_only" ELSE "nothing_usable"

AvailabilityClass(rows) ==
    Found(IF Classify(rows) \in {"first_known", "filing_only"} THEN "pass" ELSE "fail", Classify(rows))

Close(value, to) == Distance(value, to) * 100 <= to

\* RestatementVisibilityCheck._one
Visibility(rows) ==
    LET candidates == {at \in DOMAIN rows : rows[at].periodEnd = Restatement.period /\ rows[at].value # Null}
        originals == {at \in candidates : Close(rows[at].value, Restatement.original)}
        restated == {at \in candidates : Close(rows[at].value, Restatement.restated)}
        stamps == {PublicationAt(rows[at]) : at \in originals \cup restated}
    IN  CASE candidates = {} -> Found("fail", "not exposed")
          [] originals # {} /\ restated # {} ->
               IF Cardinality(originals \cup restated) < 2 \/ Cardinality(stamps) < 2 \/ Null \in stamps
               THEN Found("fail", "not distinct") ELSE Found("pass", "ok")
          [] originals = {} /\ restated # {} -> Found("fail", "overwritten")
          [] originals # {} /\ restated = {} -> Found("fail", "never restated")
          [] candidates # {} /\ originals = {} /\ restated = {} -> Found("fail", "neither")

Rank(n, percent) == Max({1, (percent * n + 99) \div 100})

UpToValue(values, v) == {i \in DOMAIN values : values[i] <= v}
BelowValue(values, v) == {i \in DOMAIN values : values[i] < v}

\* Nearest rank: the value that stands at the rank when they are sorted
Percentile(values, percent) ==
    LET rank == Rank(Cardinality(DOMAIN values), percent)
    IN  CHOOSE v \in Range(values) :
            Cardinality(BelowValue(values, v)) < rank /\ rank <= Cardinality(UpToValue(values, v))

LagsOf(rows, kind) ==
    [at \in {a \in UsableRows(rows) : PeriodClass(rows[a]) = kind} |-> Lag(rows[at])]

Enough(values) == Cardinality(DOMAIN values) >= MinSample

\* FilingLagDistributionCheck: the kinds of period whose assumed lag is too short
Triggers(rows) ==
    {kind \in DOMAIN AssumedLag :
        LET lags == LagsOf(rows, kind) IN Enough(lags) /\ Percentile(lags, 90) > AssumedLag[kind]}

-----------------------------------------------------------------------------
StatementsInit == sent = <<>> /\ judgement = <<>>

\* A page of the provider's answer
ReceiveStatements ==
    /\ judgement = <<>> /\ Len(sent) < MaxStatementPages
    /\ \E p \in Offered : sent' = Append(sent, p)
    /\ UNCHANGED judgement

\* Without any statement a check fails.
IfAny(rows, finding) == IF DOMAIN rows = {} THEN Found("fail", "no statements") ELSE finding

\* The five checks on the statements
JudgeStatements ==
    /\ judgement = <<>>
    /\ LET rows == ParseStatements(sent)
       IN  judgement' = [presence |-> IfAny(rows, Presence(rows)),
                         plausibility |-> IfAny(rows, Plausibility(rows)),
                         class |-> IfAny(rows, AvailabilityClass(rows)),
                         restatement |-> Visibility(rows), triggers |-> Triggers(rows)]
    /\ UNCHANGED sent

StatementsNext == ReceiveStatements \/ JudgeStatements
StatementsSpec == StatementsInit /\ [][StatementsNext]_filing

-----------------------------------------------------------------------------
\* Kinds of stamps that are no publication
Placeholders(rows) ==
    {Repeating(rows), Sentinels(rows), Firsts(rows)} \cup {WithLag(rows, Lag(rows[at])) : at \in Timed(rows)}

\* A provider most of whose stamps are one kind of placeholder (the period's end, a
\* sentinel, the first of the month, one lag for all) does not get past both the
\* presence and the plausibility of its stamps, however it mixes in true ones, from
\* the smallest sample on at which the code draws conclusions.
PlaceholdersCaught(rows) ==
    \A S \in Placeholders(rows) :
        (Cardinality(Stamped(rows)) >= MinSample /\ Most(Cardinality(S), Cardinality(DOMAIN rows))) =>
            ~(judgement.presence.outcome = "pass" /\ judgement.plausibility.outcome = "pass")

\* Where the lags measured contradict no assumed lag, at most a tenth of the statements of
\* a kind were published later than the availability that would be imputed to them.
QuietMeansCovered(rows) ==
    \A kind \in DOMAIN AssumedLag \ judgement.triggers :
        LET lags == LagsOf(rows, kind)
            late == {at \in DOMAIN lags : lags[at] > AssumedLag[kind]}
        IN  Enough(lags) => Cardinality(late) * 10 <= Cardinality(DOMAIN lags)

\* What the checks make of stamps and lags is what the statements say (checks_pit_fundamentals.py).
MeasuredRight ==
    judgement # <<>> =>
        PlaceholdersCaught(ParseStatements(sent)) /\ QuietMeansCovered(ParseStatements(sent))
=============================================================================
