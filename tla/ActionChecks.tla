---------------------------- MODULE ActionChecks ----------------------------
(***************************************************************************)
(* The corporate-action and price checks of the bake-off                   *)
(* (trp/bakeoff/checks_corporate_actions.py), as run by the harness on the *)
(* pages of a cell (trp/bakeoff/harness.py).  The provider answers with    *)
(* any of the pages it is given, in any order.                             *)
(*                                                                         *)
(* A universe entry has its facts, and what really happened to its         *)
(* security: raw closes by day and actions.  Adjusted closes are fractions *)
(* <<numerator, denominator>>.                                             *)
(***************************************************************************)
EXTENDS ProviderPayloads

CONSTANTS
    Entries,        \* universe entries: properties, facts, and what happened
    Answer(_, _),   \* the pages a provider may send for an entry and a dataset
    MaxPages,       \* bound: pages of a payload, by dataset
    ExWindow,       \* EX_DATE_WINDOW_DAYS
    EndTolerance,   \* DELISTING_SHORTFALL_TOLERANCE_DAYS, DELISTING_OVERRUN_...
    Depth,          \* DEPTH_TARGET_YEARS, in days
    JoinGap,        \* TICKER_CHANGE_MAX_GAP_DAYS
    JoinWindow,     \* CONTINUITY_WINDOW_DAYS
    MaxGap          \* of the adjustment engine

\* A fact has a day, and a dividend pays something (universe/loader.py); what a page gives
\* for an amount is a number, or no parser reads it.  None is no conversion of units.
ASSUME ActionChecksAssumption ==
    /\ Null \notin {<<1, 1>>, <<1, 100>>, <<100, 1>>}
    /\ \A e \in Entries : \A f \in e.facts :
          f.ex # Null /\ (f.fact = "dividend" => f.amount \in Nat \ {0})
    /\ \A e \in Entries : \A page \in Answer(e, "corporate_actions") \cup Answer(e, "prices") :
          LET block == BlockOf(page, "actions")
          IN  block # NotAList =>
                \A i \in DOMAIN block : block[i] # NotAnObject =>
                    \A key \in Range(AmountKeys) \cap DOMAIN block[i] :
                        block[i][key] \in Int \cup {Null, Unreadable}

Engine == INSTANCE Adjustments

VARIABLES
    entry, dataset,
    pages,          \* the payload pages of the cell
    results         \* what the checks found, by check; <<>> until they run

checking == <<entry, dataset, pages, results>>

Pass == Found("pass", "ok")
Fail(reason) == Found("fail", reason)

\* The finding about a fact, Null when it is about the whole
About(fact, found) == [about |-> fact, outcome |-> found.outcome, reason |-> found.reason]
Overall(found) == {About(Null, found)}
NotApplicable == Overall(Found("not_applicable", "no subject"))

\* relative_difference of two fractions is at most 0.5 %, which is
\* DIVIDEND_RELATIVE_TOLERANCE and ADJUSTED_RELATIVE_TOLERANCE
Within(p, expected) ==
    IF expected[1] = 0 THEN p[1] = 0
    ELSE Distance(p[1] * expected[2], expected[1] * p[2]) * 200 <= expected[1] * p[2]

FactsOf(e, kind) == {f \in e.facts : f.fact = kind}

OfKind(actions, kind) == RestrictValues(actions, LAMBDA a : a.kind = kind /\ a.ex # Null)

\* The records of a day, and the first of some records
OnDay(actions, day) == {p \in DOMAIN actions : actions[p].ex = day}
FirstOf(actions, places) == actions[CHOOSE p \in places : \A q \in places \ {p} : Precedes(p, q)]

Nearby(a, fact) == Distance(a.ex, fact.ex) <= ExWindow

-----------------------------------------------------------------------------
\* Mutant: any record within the window counts as the record of the day.
NearSplit(fact, splits) ==
    LET near == {p \in DOMAIN splits : Nearby(splits[p], fact) /\ HasRatio(splits[p])}
        a == FirstOf(splits, near)
    IN  IF near = {} THEN Fail("missing")
        ELSE IF a.new * fact.old = fact.new * a.old THEN Pass ELSE Fail("ratio")

\* SplitRatioAndExDateCheck._one: the first record of the date, or the reason
SplitFinding(fact, splits) ==
    LET exact == OnDay(splits, fact.ex)
        near == {p \in DOMAIN splits : Nearby(splits[p], fact)}
        a == FirstOf(splits, exact)
    IN  CASE exact = {} /\ near # {} -> Fail("misdated")
          [] exact = {} /\ near = {} -> Fail("missing")
          [] exact # {} -> CASE ~HasRatio(a) -> Fail("no ratio")
                             [] HasRatio(a) ->
                                  CASE a.new * fact.old = fact.new * a.old -> Pass
                                    [] a.new * fact.old # fact.new * a.old ->
                                          Fail(IF a.new * fact.new = fact.old * a.old
                                               THEN "inverted" ELSE "ratio")

\* unit_conversion, as a fraction
UnitConversion(from, to) ==
    CASE from = to -> <<1, 1>>
      [] from = "GBX" /\ to = "GBP" -> <<1, 100>>
      [] from = "GBP" /\ to = "GBX" -> <<100, 1>>
      [] OTHER -> Null

Scaled(a, factor) == <<a.amount * factor[1], factor[2]>>

Agrees(a, factor, fact) == Within(Scaled(a, factor), <<fact.amount, 1>>)

\* _plausibly_the_same_dividend, under either reading of the unit
Plausible(a, fact) ==
    a.amount # Null /\ \E factor \in {<<1, 1>>, <<100, 1>>, <<1, 100>>} : Agrees(a, factor, fact)

\* _unitless: a factor of 100 is looked for first
UnitlessFinding(fact, a) ==
    CASE Agrees(a, <<100, 1>>, fact) \/ Agrees(a, <<1, 100>>, fact) -> Fail("unit")
      [] ~(Agrees(a, <<100, 1>>, fact) \/ Agrees(a, <<1, 100>>, fact)) ->
            IF Agrees(a, <<1, 1>>, fact) THEN Pass ELSE Fail("amount")

\* Amounts in a stated unit
UnitFinding(fact, a) ==
    LET factor == UnitConversion(NormalUnit(a.unit), fact.unit)
    IN  CASE factor = Null -> Fail("unit")
          [] factor # Null ->
               CASE Agrees(a, factor, fact) -> Pass
                 [] ~Agrees(a, factor, fact) ->
                        Fail(IF factor # <<1, 1>> /\ Agrees(a, <<1, 1>>, fact)
                             THEN "unit" ELSE "amount")

\* DividendAmountAndExDateCheck._one
DividendFinding(fact, dividends) ==
    LET exact == OnDay(dividends, fact.ex)
        near == {p \in DOMAIN dividends : Nearby(dividends[p], fact) /\ Plausible(dividends[p], fact)}
        a == FirstOf(dividends, exact)
    IN  CASE exact = {} /\ near # {} -> Fail("misdated")
          [] exact = {} /\ near = {} -> Fail("missing")
          [] exact # {} -> CASE a.amount = Null -> Fail("no amount")
                             [] a.amount # Null /\ a.unit = Null -> UnitlessFinding(fact, a)
                             [] a.amount # Null /\ a.unit # Null -> UnitFinding(fact, a)

FactFinding(fact, actions) ==
    IF fact.fact = "split" THEN SplitFinding(fact, actions) ELSE DividendFinding(fact, actions)

\* The split and the dividend check: a finding a fact
ActionFindings(e, P, kind) ==
    LET parsed == ParseActions(P)
        facts == FactsOf(e, kind)
    IN  CASE facts = {} -> NotApplicable
          [] facts # {} -> IF DOMAIN parsed.items = {} /\ parsed.errors THEN Overall(Fail("unparseable"))
                           ELSE {About(fact, FactFinding(fact, OfKind(parsed.items, kind))) : fact \in facts}

-----------------------------------------------------------------------------
\* DelistedPriceHistoryCheck: the last row against the first delisting
DelistedFindings(e, P) ==
    LET facts == FactsOf(e, "delisting")
        end == Min({f.ex : f \in facts})
        rows == ParsePrices(P).items
        last == rows[Len(rows)].date
    IN  IF facts = {} THEN NotApplicable
        ELSE Overall(CASE rows = <<>> -> Fail("no rows")
                     [] rows # <<>> -> CASE last - end > EndTolerance -> Fail("overrun")
                                         [] end - last > EndTolerance -> Fail("shortfall")
                                         [] OTHER -> Pass)

\* PriceHistoryDepthCheck
DepthFindings(e, P) ==
    LET rows == ParsePrices(P).items
    IN  Overall(IF rows = <<>> THEN Fail("no rows")
              ELSE IF rows[Len(rows)].date - rows[1].date >= Depth THEN Pass ELSE Fail("depth"))

\* Mutant: the actions of a row's own day apply to it.
FromExOn(rows, actions, day) == {i \in DOMAIN actions : actions[i].ex >= day}

\* The actions after a row
AppliedTo(rows, actions, day) == {i \in DOMAIN actions : actions[i].ex > day}

\* _close_before, 0 when there is none
CloseBefore(ex, rows) ==
    LET prior == {i \in DOMAIN rows : rows[i].date < ex}
        last == {i \in prior : rows[i].date = Max({rows[j].date : j \in prior})}
    IN  IF prior = {} THEN 0 ELSE rows[Min(last)].close

\* The factor of one action
PartOf(a, rows) ==
    LET P == CloseBefore(a.ex, rows)
    IN  CASE a.kind = "split" /\ HasRatio(a) /\ a.new # 0 -> <<a.old, a.new>>
          [] a.kind = "dividend" /\ a.amount # Null /\ P > 0 -> <<P - a.amount, P>>
          [] OTHER -> <<1, 1>>

\* _cumulative_factor
CumulativeFactor(day, actions, rows) ==
    Engine!Product([i \in AppliedTo(rows, actions, day) |-> PartOf(actions[i], rows)])

Explains(row, actions, rows) ==
    Within(row.adjusted, Engine!Times(<<row.close, 1>>, CumulativeFactor(row.date, actions, rows)))

\* RawVersusAdjustedCheck: the provider's series against its own actions
RawVersusAdjusted(P) ==
    LET prices == ParsePrices(P)
        rows == SelectSeq(prices.items, LAMBDA r : r.close # Null /\ r.adjusted # Null)
        actions == RestrictValues(ParseActions(P).items, LAMBDA a : a.ex # Null)
    IN  CASE prices.items = <<>> /\ prices.errors -> Overall(Fail("unparseable"))
          [] ~(prices.items = <<>> /\ prices.errors) /\ (rows = <<>> \/ DOMAIN actions = {}) -> NotApplicable
          [] rows # <<>> /\ DOMAIN actions # {} ->
               IF \A i \in DOMAIN rows : rows[i].adjusted[1] = rows[i].close * rows[i].adjusted[2]
               THEN Overall(Fail("identical"))
               ELSE IF \A i \in DOMAIN rows : Explains(rows[i], actions, rows)
                    THEN Overall(Pass) ELSE Overall(Fail("unexplained"))

\* TickerChangeContinuityCheck._one: both sides, no day twice, no hole, no jump
JoinFinding(fact, rows, actions) ==
    LET before == SelectSeq(rows, LAMBDA r : r.date < fact.ex)
        after == SelectSeq(rows, LAMBDA r : r.date >= fact.ex)
        last == before[Min({i \in DOMAIN before : before[i].date = before[Len(before)].date})]
        first == after[1]
        twice == \E i, j \in DOMAIN rows :
                    i # j /\ rows[i].date = rows[j].date /\ Distance(rows[i].date, fact.ex) <= JoinWindow
        jump == Distance(first.close, last.close) * 4 > last.close
        explained == \E i \in DOMAIN actions :
                        actions[i].ex # Null /\ last.date < actions[i].ex /\ actions[i].ex <= first.date
        joined == before # <<>> /\ after # <<>>
    IN  CASE ~joined -> Fail("one side")
          [] joined -> CASE twice -> Fail("twice")
                         [] ~twice /\ first.date - last.date > JoinGap -> Fail("hole")
                         [] ~twice /\ first.date - last.date <= JoinGap ->
                              IF last.close = Null \/ first.close = Null \/ last.close = 0 THEN Pass
                              ELSE IF jump /\ ~explained THEN Fail("jump") ELSE Pass

JoinFindings(e, P) ==
    LET facts == FactsOf(e, "ticker_change")
        rows == ParsePrices(P).items
        actions == ParseActions(P).items
    IN  CASE facts = {} -> NotApplicable
          [] facts # {} -> IF rows = <<>> THEN Overall(Fail("no rows"))
                           ELSE {About(fact, JoinFinding(fact, rows, actions)) : fact \in facts}

-----------------------------------------------------------------------------
\* The datasets a check reads, and the properties it is about (none: all entries)
Checks ==
    [splits     |-> [datasets |-> {"corporate_actions"}, about |-> {"split", "consolidation"}],
     dividends  |-> [datasets |-> {"corporate_actions"}, about |-> {}],
     delisted   |-> [datasets |-> {"prices"}, about |-> {"failure", "acquisition"}],
     depth      |-> [datasets |-> {"prices"}, about |-> {"long_lived"}],
     raw        |-> [datasets |-> {"prices"}, about |-> {}],
     continuity |-> [datasets |-> {"prices"}, about |-> {"ticker_change"}]]

\* Check.applies_to
AppliesTo(check, e, d) ==
    d \in check.datasets /\ (check.about = {} \/ check.about \cap e.properties # {})

Findings(name, e, P) ==
    CASE name = "splits" -> ActionFindings(e, P, "split")
      [] name = "dividends" -> ActionFindings(e, P, "dividend")
      [] name = "delisted" -> DelistedFindings(e, P)
      [] name = "depth" -> DepthFindings(e, P)
      [] name = "raw" -> RawVersusAdjusted(P)
      [] name = "continuity" -> JoinFindings(e, P)

ChecksInit ==
    /\ entry \in Entries /\ dataset \in {"prices", "corporate_actions"}
    /\ pages = <<>> /\ results = <<>>

\* A page of the provider's answer, stored before any check runs
Receive ==
    /\ results = <<>> /\ Len(pages) < MaxPages[dataset]
    /\ \E p \in Answer(entry, dataset) : pages' = Append(pages, p)
    /\ UNCHANGED <<entry, dataset, results>>

\* _run_checks
RunChecks ==
    /\ results = <<>>
    /\ results' = [name \in {n \in DOMAIN Checks : AppliesTo(Checks[n], entry, dataset)} |->
                      Findings(name, entry, pages)]
    /\ UNCHANGED <<entry, dataset, pages>>

ChecksNext == Receive \/ RunChecks
ChecksSpec == ChecksInit /\ [][ChecksNext]_checking

-----------------------------------------------------------------------------
Judged(check) == check \in DOMAIN results

\* A record of the answer that states the fact: its day, its ratio, or its money in
\* a unit that can be compared (or in none, taken to be that of the fact)
States(a, fact) ==
    /\ a.kind = fact.fact /\ a.ex = fact.ex
    /\ CASE fact.fact = "split" -> HasRatio(a) /\ a.new * fact.old = fact.new * a.old
         [] fact.fact = "dividend" ->
              /\ a.amount # Null
              /\ LET unit == IF a.unit = Null THEN fact.unit ELSE NormalUnit(a.unit)
                 IN  UnitConversion(unit, fact.unit) # Null /\ Agrees(a, UnitConversion(unit, fact.unit), fact)

Stated(fact) == \E p \in DOMAIN ParseActions(pages).items : States(ParseActions(pages).items[p], fact)

\* Two records of one kind share the day of a fact.
Shared(fact) ==
    LET actions == ParseActions(pages).items
    IN  \E p, q \in DOMAIN actions :
            p # q /\ \A r \in {p, q} : actions[r].kind = fact.fact /\ actions[r].ex = fact.ex

Passes(check, fact) == \E f \in results[check] : f.about = fact /\ f.outcome = "pass"

Exact(check, kind) ==
    Judged(check) =>
        \A fact \in FactsOf(entry, kind) : ~Shared(fact) => (Passes(check, fact) <=> Stated(fact))

\* A fact passes exactly when some page of the answer states it, whatever else the
\* answer holds and in whatever order, as long as its day has one record of its kind:
\* no neighbour, no convention and no unit lets a wrong record pass.
PassMeansStated == Exact("splits", "split") /\ Exact("dividends", "dividend")

\* The whole history, adjusted as our own engine adjusts it for total return
EngineRows ==
    {[date |-> d, close |-> entry.closes[d],
      adjusted |-> Engine!Adjusted(entry.closes, entry.actions, "total_return", d)] : d \in DOMAIN entry.closes}

Truthful ==
    LET rows == ParsePrices(pages).items
        actions == ParseActions(pages).items
    IN  /\ rows # <<>> /\ {rows[i] : i \in DOMAIN rows} = EngineRows
        /\ Len(rows) = Cardinality(EngineRows)
        /\ {[kind |-> a.kind, ex |-> a.ex, new |-> a.new, old |-> a.old, amount |-> a.amount] :
               a \in Range(actions)}
             = {[kind |-> a.kind, ex |-> a.ex, new |-> a.new, old |-> a.old, amount |-> a.amount] :
                   a \in entry.actions}
        /\ Cardinality(DOMAIN actions) = Cardinality(entry.actions)

\* Every action has a row before and a row at or after its day, and a split does not
\* share its day with a dividend: the engine applies the split first, the check does not.
Reconcilable ==
    \A a \in entry.actions :
        /\ Min(DOMAIN entry.closes) < a.ex /\ a.ex <= Max(DOMAIN entry.closes)
        /\ ~\E b \in entry.actions : b.kind # a.kind /\ b.ex = a.ex

\* A provider that sends the history there was, in whatever order and on whatever pages,
\* adjusted by its own actions as our engine would, fails no price check.
FaithfulPasses ==
    (dataset = "prices" /\ Truthful /\ Reconcilable) =>
        \A check \in DOMAIN results \ {"depth"} :
            \A f \in results[check] : f.outcome # "fail"
=============================================================================
