----------------------------- MODULE MCBakeoff ------------------------------
(***************************************************************************)
(* The provider bake-off.  A behaviour is one of                           *)
(*   "harness"      the loop over two cells, corporate actions, which take *)
(*                  two requests, and prices, which take one;              *)
(*   "actions"      the checks of prices and corporate actions: a security *)
(*                  with splits and dividends, one that changed its        *)
(*                  ticker, one that failed, one that is to be taken over; *)
(*                  a page holds a row or the actions, right or wrong;     *)
(*   "fundamentals" the checks of fundamentals: statements of a few        *)
(*                  periods with true stamps, placeholders or none, in the *)
(*                  neutral form and in EODHD's dialect;                   *)
(*   "scoring"      the report on two providers; fundamentals and their    *)
(*                  periods feed the criterion with a veto.                *)
(***************************************************************************)
EXTENDS Harness, ActionChecks, FundamentalChecks, Scoring, TLC

VARIABLE component

-----------------------------------------------------------------------------
\* The harness
MCOrder == <<"corporate_actions", "prices">>

MCPages == [corporate_actions |-> <<"splits", "div">>, prices |-> <<"eod">>]

-----------------------------------------------------------------------------
\* The checks of prices and corporate actions
Split(ex, new, old) == [kind |-> "split", ex |-> ex, new |-> new, old |-> old, amount |-> Null, available |-> 0]
Cash(ex, amount) == [kind |-> "dividend", ex |-> ex, new |-> Null, old |-> Null, amount |-> amount, available |-> 0]

Fact(fact, ex) == [fact |-> fact, ex |-> ex]

Entry(name, properties, facts, closes, actions) ==
    [name |-> name, properties |-> properties, facts |-> facts, closes |-> closes, actions |-> actions]

MCEntries ==
    {Entry("actions", {"split"},
        {[fact |-> "split", ex |-> 5, new |-> 4, old |-> 1],
         [fact |-> "dividend", ex |-> 8, amount |-> 200, unit |-> "GBX"],
         [fact |-> "dividend", ex |-> 9, amount |-> 60, unit |-> "GBX"],
         [fact |-> "dividend", ex |-> 8, amount |-> 15, unit |-> "GBX"]}, <<>>, {}),
     Entry("renamed", {"ticker_change", "long_lived"}, {Fact("ticker_change", 2)},
        <<4, 4, 2>>, {Split(3, 2, 1), Cash(2, 1)}),
     Entry("failed", {"failure"}, {Fact("delisting", 4)}, <<4, 5, 4>>, {Cash(2, 1), Cash(3, 1)}),
     Entry("pending", {"acquisition"}, {Fact("delisting", 4)}, <<4, 5, 4>>, {Cash(2, 1), Split(4, 2, 1)})}

\* Records of the actions endpoint
ActionItems ==
    {[type |-> "split", ex_date |-> 5, new_shares |-> 4, old_shares |-> 1],
     [type |-> "split", ex_date |-> 5, ratio |-> <<1, 4>>],
     [type |-> "split", ex_date |-> 5, ratio |-> Unreadable],
     [type |-> "split", ex_date |-> 6, factor |-> 4],
     [date |-> 5, splitFactor |-> 4, divCash |-> 0],
     [date |-> 8, splitFactor |-> 2, divCash |-> 200],
     [date |-> 8, splitFactor |-> 1, divCash |-> 200],
     [type |-> "dividend", ex_date |-> 8, amount |-> 200, currency |-> "GBp"],
     [type |-> "dividend", ex_date |-> 8, amount |-> 2, currency |-> "GBP"],
     [type |-> "dividend", ex_date |-> 8, amount |-> 200, currency |-> "GBP"],
     [type |-> "dividend", ex_date |-> 8, amount |-> 2, currency |-> "GBX"],
     [type |-> "dividend", ex_date |-> 8, amount |-> 2],
     [type |-> "dividend", ex_date |-> 8, amount |-> 200, currency |-> "USD"],
     [type |-> "dividend", ex_date |-> 10, amount |-> 200, currency |-> "GBX"],
     [type |-> "dividend", ex_date |-> 9, amount |-> 60, currency |-> "GBX"],
     [type |-> "dividend", ex_date |-> 8, amount |-> 15, currency |-> "GBX"],
     [type |-> "dividend", ex_date |-> 9, amount |-> Null]}

\* Rows of the price endpoint: as the engine has them, a copy, and days nobody traded
PriceItems(e) ==
    {[date |-> d, close |-> e.closes[d],
      adjusted_close |-> Engine!Adjusted(e.closes, e.actions, "total_return", d)] : d \in DOMAIN e.closes}
    \cup {[date |-> d, c |-> 4, adjClose |-> <<4, 1>>] : d \in {1, 9}}
    \cup {[date |-> 3, close |-> 8], [date |-> Unreadable, close |-> 8]}

AnswerOf(e, d) ==
    {BrokenPage, ArrayPage(<<NotAnObject>>)} \cup
    IF d = "corporate_actions"
    THEN IF e.name = "actions" THEN {ObjectPage([actions |-> <<i>>]) : i \in ActionItems} ELSE {}
    ELSE {ObjectPage([rows |-> <<i>>]) : i \in PriceItems(e)} \cup
         {ObjectPage([actions |-> SetToSortSeq({[kind |-> a.kind, ex_date |-> a.ex, new_shares |-> a.new,
              old_shares |-> a.old, amount |-> a.amount] : a \in A}, LAMBDA a, b : a.ex_date < b.ex_date)]) :
              A \in {e.actions} \cup {{a} : a \in e.actions}}

MCMaxPages == [prices |-> 4, corporate_actions |-> 3]

-----------------------------------------------------------------------------
\* The checks of fundamentals
Statements ==
    {[period_end |-> 20, filed_at |-> 26, value |-> 100, period |-> "q1"],
     [period_end |-> 20, filed_at |-> 33, value |-> 60, period |-> "fy"],
     [period_end |-> 30, filed_at |-> 30, period |-> "half"],
     [period_end |-> 30, filed_at |-> 36, period |-> "q2"],
     [period_end |-> 30, filingDate |-> 32, available_at |-> 41, period |-> "q"],
     [period_end |-> 30, filed_at |-> 99],
     [period_end |-> 40, filed_at |-> Unreadable, firstKnownAt |-> 2],
     [period_end |-> Null, filing_date |-> 46, value |-> 60]}

StatementPages ==
    {BrokenPage} \cup {ObjectPage([statements |-> <<i>>]) : i \in Statements} \cup
    {[form |-> "eodhd", blocks |->
        [yearly |-> <<[date |-> 20, filing_date |-> 32, value |-> 60]>>,
         quarterly |-> <<[date |-> 20, filing_date |-> 25, value |-> 100], NotAnObject>>]]}

MCRestatement == [period |-> 20, original |-> 100, restated |-> 60]
MCAssumedLag == [annual |-> 12, interim |-> 10, quarterly |-> 10]
MCShare == <<3, 4>>

ChecksOff == entry = Null /\ dataset = Null /\ pages = <<>> /\ results = <<>>

-----------------------------------------------------------------------------
\* The report
Scored(p, d, status, checks) == [provider |-> p, dataset |-> d, status |-> status, checks |-> checks]
Check(criterion, outcome) == [criterion |-> criterion, outcome |-> outcome]

ScoredCells == UNION {
    {Scored(p, "fundamentals", "ok", <<Check("pit", "pass")>>),
     Scored(p, "fundamentals", "ok", <<Check("pit", "fail"), Check("pit", "not_applicable")>>),
     Scored(p, "fundamentals", "provider_error", <<>>),
     Scored(p, "financial_periods", "unsupported", <<>>),
     Scored(p, "prices", "rate_limited", <<>>),
     Scored(p, "prices", "ok", <<Check("depth", "pass"), Check("depth", "error")>>),
     Scored(p, "prices", "empty", <<Check("depth", "not_applicable")>>)} : p \in {1, 2}}

MCWeight == [pit |-> 50, depth |-> 30, cost |-> 20]
MCDeclared == <<1, "cost">> :> <<1, 2>>
MCVeto == [pit |-> 40]
MCNeeds == [pit |-> {"fundamentals", "financial_periods"}, depth |-> {"prices"}]

-----------------------------------------------------------------------------
MCInit ==
    /\ HarnessInit /\ StatementsInit /\ ScoringInit
    /\ \/ component \in {"harness", "fundamentals", "scoring"} /\ ChecksOff
       \/ component = "actions" /\ ChecksInit

Others == <<component, checking, filing, scoring>>

MCNext ==
    \/ component = "harness" /\ HarnessNext /\ UNCHANGED Others
    \/ component = "actions" /\ ChecksNext /\ UNCHANGED <<component, harnessing, filing, scoring>>
    \/ component = "fundamentals" /\ StatementsNext /\ UNCHANGED <<component, harnessing, checking, scoring>>
    \/ component = "scoring" /\ ScoringNext /\ UNCHANGED <<component, harnessing, checking, filing>>

MCSpec ==
    /\ MCInit /\ [][MCNext]_<<harnessing, Others>>
    /\ WF_harnessing(component = "harness" /\ Run /\ UNCHANGED Others)

\* A run of the harness finishes, unless a kill left damage that no run gets over (Harness).
RunCompletes == component = "harness" => Completes
=============================================================================
