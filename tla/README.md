# A verification of the trading research platform

The repository (`src/`) is a platform for equity research: it ingests vendor
data into append-only canonical stores, keeps a bitemporal security master and
universe, computes factors, backtests strategies day by day on a ledger, and
records experiments so that results can be reproduced. Its documents make strong
promises: no look-ahead, nothing silently lost, every result reproducible. This
directory holds TLA+ models of the parts that carry those promises, the TLC
instances that check them, and machine-checked proofs about the core.

Paths below are relative to `src/src/trp/`. `PROJECT.json` maps every definition
to the lines it models.

## 1. Inventory

| Component | State | Operations | What is hard | Correct when |
|---|---|---|---|---|
| Ledger `backtest/portfolio.py` | cash, positions, event log | buy, sell, credit_dividend, apply_split, resolve_delisting, replay | long sequences; fractions; errors half-way | the log replays to the book; no position leaves silently; splits keep value |
| Event loop `backtest/engine.py` | session index, ledger, indexed actions, daily and rebalance rows, warnings | actions, stale exits, decide, sells, buys, mark | actions known late or on closed days; suspended and delisted shares; dust; the shrinking loop | no LedgerError, no phantom holding, nothing applied before it is known, value lost only to costs |
| Costs `backtest/costs.py` | none | cost | minimum commission, quadratic impact | never negative |
| Decision context `backtest/context.py` | clock | members, price, factor values | information from the future | decisions depend on the past only |
| Selection and weights `backtest/weighting.py`, `rebalance.py` | none | select, weight, limit, size | the cap and the floor undo each other | what is sized is fully invested and within both limits; the loops end |
| Registry `experiments/store.py` | SQLite tables | add, start, complete, abandon, conclude, record_run | sessions racing between SELECT and UPDATE; crashes | transition table, evidence rules |
| Execution `experiments/running.py`, `manifest.py` | manifests, run directories | run_experiment, rerun | crash between directory, row and status; environment moving; names shared | a row matches its directory; reruns reproduce |
| Price store `canonical/price_store.py` | part files, log | write_prices, read_prices(as_of) | crash between renames; retry with revised bars; reads during a write | no duplicate, nothing rewritten, earlier reads reproduce |
| Raw store `ingestion/raw.py` | payloads and sidecars | write, read, records | crash between payload and sidecar | every record has its payload |
| Unit repair `canonical/unit_repair.py` | the vendor's tape and records; the bars, dividends and splits written from them | classify, run_repair | units that change from day to day, labels that lie; three writes one after the other over data that grows | what is stored is in pence and true |
| Price validation `canonical/price_validation.py`, `calendars.py` | none; reads bars, actions, listings | reports as of an instant | half-open listings, calendars with ends; late bars and actions | a report is found again; a gap is a missed session and nothing else |
| Fundamentals `canonical/fundamentals/` | revision series, part files | classify, write, as-of queries | restatements out of order or repeated | a query sees what was known |
| Lifecycle `canonical/lifecycle.py` | delisting records, rebuilt from silence | build | tickers given again, suspensions, removals noted late or not at all | no reason without evidence |
| Security master `domain/`, `canonical/security_store.py` | records with event and knowledge time | apply changes, resolve, view as of | five files written one by one; overlapping intervals | identifiers map to one security at a time |
| Universe `universe/` | membership spells, cache | members, changes | spells that touch; stale cache | changes carry one member set to the next |
| Providers `providers/` | none | fetch with retries | retry limits | – |
| Adjustments `derived/`, factors `factors/` | derived files | adjust, compute, materialise | order of composition; missing data | point-in-time values |
| Universe construction `universe/ftse*` | curated documents, resolution file, id assignments, master, archived pages | curate, resolve, extend the master, backfill, canonicalise | documents that omit events, snapshots that err, names that change; builds killed between files; codes that succeed each other | known histories are exact; the master loads; a company keeps its security; a bar comes from the right code |
| Bake-off `bakeoff/` | results file, raw store, report | resumable run, checks of what came, scores, report | crash and resume, quota; answers wrong in small ways; gaps in the evidence | each cell once; a pass means a true record; the best is recommended |
| Lab, explorer, reporting | none | views | – | – |

The components meet as follows. `run_experiment` captures a manifest of the code
and the data versions, calls the runner, which loads repaired bars from the price
store and actions from their files into the engine's market data; the engine asks
the strategy through the context and trades on the ledger; `write_run` makes the
run directory; the registry records the run. Ingestion writes the price store
while research reads it.

The hazards of this code, each at its line and with the property that watches it,
are in `PROJECT.json`.

## 2. Modules

| Module | Models | Notes |
|---|---|---|
| `Portfolio` | the ledger | declares `book`; each operation is a function from a book to a book, and a raised LedgerError is its field `raised`. Security ids are integers, for the order `sorted()` gives strings |
| `PortfolioCalls` | one ledger object under any calls | the ledger's own state machine (`CallsSpec`) |
| `MarketData` | the engine's dataset and lookups | bars as closes and volumes per day |
| `CostModel` | the cost of an order | integer rates over `Bps` |
| `Backtest` | `BacktestEngine.run` | EXTENDS the ledger, the dataset and the costs; `pc` is the place in the loop body, one step per loop iteration |
| `Registry` | registry, execution, reruns, run directories | a step per SQL statement or file operation; sessions interleave and crash |
| `PartStore` | the append-only write both canonical stores share | a step per file operation; crashes |
| `PriceStore` | the bar store | EXTENDS PartStore; ingestions that stamp, readers as of an instant |
| `Fundamentals` | classification of observations, the fundamentals store, as-of queries | EXTENDS PartStore; a fact is a revision key |
| `Ranges` | half-open effective dates, the overlap search | operators only |
| `KnowledgeHistory` | what a store with a knowledge axis promises | abstract specification, implemented by `SecurityMaster` |
| `SecurityMaster` | the bitemporal master, its lifecycle events and views | one action per event |
| `Universe` | membership spells, members, changes between two dates | a rewrite of the file is one step |
| `Adjustments` | adjustment factors from splits and dividends | operators only; factors are fractions |
| `Returns` | the windowed total return with its statuses | operators only |
| `BacktestContext` | what a strategy is shown, on any clock day, of a dataset that grows | EXTENDS `Universe`, `Returns` (and through it `Adjustments`) |
| `Weighting` | selection, the three weightings, `apply_limits`, sizing | a step per round of the nested loops; weights are whole parts with a common denominator |
| `UnitRepair` | classification of a series, `run_repair` | EXTENDS PartStore: the bars go through the same file operations; dividends and splits follow |
| `TradingCalendars` | calendars cut to their range | operators only |
| `PriceValidation` | the checks of `validate_prices` over a store that grows | EXTENDS TradingCalendars; history variable: the reports made |
| `ProviderPayloads` | the parsers of vendor pages | operators only; values that no parser reads are model values |
| `ActionChecks` | the checks of prices and corporate actions | the provider answers page by page, then every check runs; compared with `Adjustments` |
| `FundamentalChecks` | the checks of publication stamps, lags and restatements | the same, for statements |
| `Scoring` | scores, vetoes, recommendation, the document | cells are appended while reports are made |
| `IndexHistory` | the replay that reconstructs the FTSE 250 | a step per day with events and per snapshot; the true history is chosen in `Init` and the documents derived from it |
| `MasterBuild` | the extension of the master, its five files, the id assignments | a step per company and per rename; crashes; the FTSE 100 step run again |
| `Backfill` | resumable fetching, canonicalising by validity window | a step per request; kills; canonicalising at any time |
| `Lifecycle` | delisting records | a world of listings, exits and suspensions, and `Build` at any time |
| `Harness` | the bake-off runner, its raw store, HTTP retries and results file | a step per request and per file write; kills and resumes |
| `PortfolioProofs` | | lemmas about sums and the ledger operations, theorems about the ledger |
| `BacktestProofs` | | theorems about the engine |
| `WeightingProofs` | | theorems about the weighting and the bake-off's recommendation, from the same lemmas about sums |
| `StoreProofs` | | lemmas about the append-only write, theorems about the price store, the fundamentals store and the reports on prices |
| `EvidenceProofs` | | theorems about the registry, the bake-off's harness and its checks of actions and statements |
| `SecurityMasterProofs` | | theorems about the security master |
| `BacktestContextProofs` | | theorems about what a strategy is shown, and the universe |
| `UniverseBuildProofs` | | theorems about the extension of the master, the backfill and the delisting records |
| `MC…` | instances | the values of the constants; several components side by side |

**Portfolio and PortfolioCalls.** `Record` is `_record`, with its order kept:
positions and cash are changed before cash is checked, so a call that raises
leaves a changed book without an event. `AccountingIdentity` is therefore stated
of books on which nothing has raised; nothing in the repository catches a
LedgerError.

**Backtest.** The loops of the code are steps: `ApplyAction` (one action of the
day), `ForceExitStale` (one held security), `SellOrder`, `BuyOrder`, `ShrinkOrder`
(one round of `_affordable_shares`), `FillOrder`, `MarkDay`. The strategy is any
function to share counts, so `Decide` chooses targets freely from `TargetShares`,
which are natural numbers, as the strategies of the code only ask for long
positions. A market is picked in `Init`; `Effective` is the index the engine
builds, `max(ex_date, available_at)`. `daily`, `rebalances` and `warnings` are the
rows the run returns. Days are integers and the calendar a sequence of some of
them, so closed days exist.

**Registry.** A session is a process between two steps of `run_experiment`,
`rerun` or a registry call. `BeginTransition` is the SELECT and the check,
`WriteExperiment` the UPDATE of the whole row; between them another session may
do anything. What an execution computes is represented by the environment it
found, so that a metric reproduces exactly when the environment is the same.
`turns` says of a whole behaviour whether its sessions are used one after the other, as
one researcher does; `LegalTransitions` is stated of those.

**PartStore and PriceStore.** `Submit` hands a batch to the writer, `Stage` finds
the new rows and the names, `Rename` moves one file at a time in any order, `Log`
appends the line. `write_fundamentals` takes the same steps as `write_prices`; the
two differ in what makes the batch. The keys it compares with are those of the
partitions the batch touches; `write_fundamentals` reads those of every partition,
which is the same since a key determines its partition. A bar is a key, a value and
the instant it is stamped with: `Begin` stamps and submits, one row a key. `Read` keeps
what a reader got, to be compared with what the same `as_of` gives later. A staged
file left behind by a crash is not modelled: no reader sees it and the next write
of that part replaces it.

**Fundamentals.** An observation is a fact, a value after `Decimal.normalize`, a
currency and an availability. `Classify` folds `ClassifyOne` over a delivery, each
observation seeing the rows the ones before it appended (a recursive function over the
positions of the delivery); an error anywhere refuses the delivery. `Ingest` classifies against what is stored and submits; nothing in the
repository yet calls the two in one function, their docs and tests define how they
compose. `Answer` is the row `fundamentals(as_of=…)` returns.

**Ranges and SecurityMaster.** Listings, status periods and identifiers are tables,
functions from positions to records with event dates (`from`, `to`) and knowledge times (`recorded`,
`superseded`). An event (`TickerChange`, `ExchangeMove`, `Termination`) is one function
of a frozen master and therefore one step; it happens only if the whole revised
master validates (`Constructible`), since constructing it raises otherwise.
`k = None` is the backfill, in which `_revise` replaces records in place; it comes
before the first knowledge time, and knowledge times do not go back. `OverlappingPairs`
keeps the search of the code as it is, with the range it drops after each hit.
`KnowledgeHistory` says what the knowledge axis is for: `stood[t]`, all that was
believed at `t`, changes from the time of learning on and not before. `Stood` maps the
master to it through `known_as_of`.

**Universe, Adjustments, Returns and BacktestContext.** The engine is given one dataset
and asks the context day by day; the promise is about two datasets, one of which has
more data in its future. `BacktestContext` lets time pass instead: prints arrive day by
day, actions are published with any ex-date (past ones are late, coming ones
announced), spells are learned of. Every state is then a dataset, `Shown(clock)` is what a
context over it shows for a past or present day, and the history variable `seen` keeps
what was shown when that day was the last one: comparing the two is comparing a dataset
with all its truncations. `Shown` composes the code's own chain: `Sliced` (the bars of the
lookback window), `Relevant` and `Excluded` (`computable_inputs`), `Known` and `Adjusted`
(the factors), `WindowReturn` (the factor), `Members` (the universe as of the day).
Adjusted prices are fractions, compared by cross-multiplication. Windows are in days
instead of months. A security has at most one merger and one delisting, which are not
data a vendor repeats. `Momentum` stands for every factor that is a windowed total
return. A history has suspensions and actions, or spells, since nothing in the context
relates the two. Left out of the universe are its cache, keyed by mtime, and closing a
spell without a knowledge time, which rewrites history by design.

**Harness.** `work` is `run_bakeoff`'s locals, lost by a kill; `store` the pages of each
cell, `records` the lines of `cells.jsonl`. A page goes to disk as in `RawStore.write`: the
content, the empty sidecar, its text. `Stored` finds what a replay
finds, sidecars by name, and `Whole` tells if one can be parsed. `Http` draws any answer
for each request; transport errors behave as 5xx. Two budgets bound the retries:
attempts of one request, rate limits of one cell. The end of the requested history is
given (`history_end`), so that the parameters under which pages are found are the same in
every run.

**Weighting.** `SelectNames` is `select`, `Weigh` the three weightings, `Limit`, `Cap` and
`Floor` the body of `apply_limits` with the loop of `_cap` unrolled into steps, `Size` the
rounding to shares. A weight is a whole number of parts over the `Denominator` of what is
left, so no rounding enters; `1 / v` is counted in parts of `1 / Common`. When every other name is capped and the last has weight zero,
which SHIFT gives to the worst score, `_cap` divides by zero; the model's `pc` is then
`"crash"`, as the ZeroDivisionError escapes (`backtest/weighting.py:155`): no other policy
leads there. The calendar of
rebalances and `one_way_turnover` are left out.

**UnitRepair.** The vendor's tape has a true level and a way of quoting each day, and
grows between runs. The classification is translated with its thresholds: the flips found
from ratios of neighbouring bars (`Flip`), the level ceiling, the majority of the dividend
yields, each dividend's own unit, splits that the tape shows to be real. `StoredIsTrue` is
conditional: `PlainQuotes` (pence or pounds, the change of unit not on the day of a large
move) and `CredibleDividends`. Outside these the code guesses, and may guess wrong. The
file of the report is left out; a spike at the end of the tape is stored before it can be
recognised.

**PriceValidation.** Bars and actions arrive with the clock; `MakeReport` keeps a report
with its `as_of`. `ReportsStand` makes it again from what is visible as of that instant;
`GapsExact` compares the gap findings with a definition over days that does not use the
code's ranges. A calendar has its sessions within the range it supports, as `Cut` makes it
(`ValidationAssumption`).

**ProviderPayloads, ActionChecks, FundamentalChecks.** A page is an array, an object of
blocks or broken. `Receive` adds a page, `RunChecks` runs every check. Corporate actions
are kept by page and place, which is their order; a finding names its fact, whose place in the
report does not count. The properties
compare findings with definitions of what an answer states (`States`, `Stated`), made
without the parsers' tolerances. `FaithfulPasses` has the provider's adjusted series
computed by the platform's own `Adjustments` and says the check's second implementation
agrees, where it can reconcile at all (`Reconcilable`). Ratios are exact fractions.
Statements are sets of places, as nothing in their checks depends on their order; a
percentile is the value that stands at the rank. The code has the share and the smallest sample
twice, nine tenths and three both times, and the model once. `FundamentalChecksAssumption` says
that the share of a sample large enough is large enough itself, as nine tenths of three are
and two thirds would not be: then most stamps could have one lag, and still be too few for the
code to conclude anything. Left
out: the `needs_verification` prefix, `derive_available_at`, the wording of findings.

**Scoring.** `AppendCell` is the harness, `Report` reads the cells at once, `Write` replaces
the section of the document. Scores are fractions, results are by cell and place; the sort of
the candidates is the choice of the one that `Outranks` the others, and of the next.

**IndexHistory.** `Init` chooses what truly happened, and what the documents say of it: one
event may be omitted, the two indices' dates may differ by `Skews`, a company's name may
change, one snapshot may be wrong. `Rewound` starts from the historical anchor, `ReplayDay`
applies a day's events, `Reconcile` compares with a snapshot as `reconcile` does, with
aliases for names that moved together. `KnownHistoryIsExact` is about companies all of
whose changes are `Known`. The first snapshot has to be right, a glitch that the next
snapshot shares is believed, and a promotion omitted before the first snapshot is lost.
Names that are merely alike are not modelled.

**MasterBuild.** `Resolve` is the curator's edit of the resolution. `BuildMaster` reads the
files, `PassOver` and `Mint` are the rounds of its loop over the companies, `Validate` the
construction of the extended master, `Rename` one table of `write_security_master`,
`SaveAssignments` the ids, `Reseed` the FTSE 100 step, which starts the master over. `Crash`
may come between any two. The history variable `half` says that the FTSE 100 step has
replaced some of the tables and not yet all, in a run that was interrupted or goes on. Checksums of ISINs are a
set of bad values.

**Backfill.** `StartBackfill` lists the requests left, `Fetch` archives the page of the
first of them, `KillBackfill` loses
the list, `Canonicalise` writes the prices of all archived codes. `RightCode` is stated of
stores that were canonicalised after everything was archived, and apart from the day of
succession.

**Lifecycle.** `Build` infers a delisting from a series that ended before the newest print
by more than the gap, and takes the reason of a removal of the same ticker nearby. What
actually happened is `phase`, which the code does not see.

### Abstractions

Money is an integer. The code computes in `Decimal` and `Fraction`; the instances
choose closes and rates that divide exactly, so that no rounding is introduced by
the model. `CostModel` keeps the structure of the costs (minimum commission, half
spread, stamp duty on buys unless exempt, impact growing with participation) and
not the calibration. Records are valid when they enter a model: pydantic's field
validation is not modelled, except for the date ranges of `SecurityMaster`. Formatting and logging are left out; parsing is left out but for the bake-off's payloads.

## 3. Runs

| Run | Question | Bounds and why they suffice |
|---|---|---|
| `trading` | do the log and the book agree after any calls, and are splits fair? are weights that are sized within both limits, and do the loops of the limits end? | the ledger: four calls on two securities; splits 2:1, 1:2, 3:2 give whole, fractional and vanishing holdings; costs above proceeds make calls raise. The weighting: three names, four scores, three volatilities, names without a price, caps of 12 and 18 and floors of 6 and 10 parts of 27: feasible, tight and infeasible pairs |
| `engine_actions` | are actions applied once due and known, effective dividends credited, no holding left without a price? does every run end? | five sessions with two closed days; nine action lists cover each kind, known early, late and on the day; a stale window of 2 days so that a vanished share crosses it |
| `engine_trades` | is trading free of overdrafts, is dust deferred only if it must be, is value lost to costs alone, is the count the largest where impact is proportional? | three rebalances to any targets of 0, 1 or 3 shares; a minimum commission of 25 against a close of 20, so small sales cost more than they bring; gaps and late listings |
| `registry` | the transition table, with crashes and a moving tree; evidence and artefacts with racing sessions | two sessions and two experiments. Taking turns: two runs each, one name, an environment that moves once. Overlapping: experiments which may share a name and one run id per name, enough for both to want the same directory and row |
| `prices` | duplicates, rewriting, reproducible reads; is what the repair stores true? do reports stand and gaps hold? | the store: three bars in two partitions, two versions of each, four clock ticks: a write, a crash, a revised retry, a read. The repair: three days in two years, levels of 600 and 1200 pence quoted in pence, pounds or zero, dividends in either unit under either label, real and spurious splits, two runs with a crash between their files. The validation: seven days, two closed, one short; a listing that moves; nine bars of two sources, a split, a dividend, five ticks of the clock |
| `fundamentals` | sound series, answers that stand | two deliveries of one or two observations about two facts in two partitions: a restatement, one back, one in another currency, one too early, across a crash |
| `security_master` | the history of what was known, consistent views, one meaning a day, ends that last, past days that read as they did | two companies, one of them perhaps listed twice, two venues, two tickers, three days and two knowledge times; three events, enough for a backfill, a change and a correction learned later, or for an overlap to build up |
| `context` | does what was shown of a day stand, are slices exact, does nothing raise? are the universe's views sound, and do changes carry members? | six days with a closed one; one security that may miss prints around the tolerated gap of two days and has up to two of seven actions; up to three spells; window 4, skip 1, lookback 4, staleness 1, so that actions fall before, inside and after the window |
| `bakeoff` | one record a cell over readable evidence, no page twice, no quota twice; does a resumed run end? does a pass mean a true record, and does a faithful provider pass? are placeholders caught? is the best recommended? | the harness: a cell of two requests and one of one, two attempts, two rate-limit retries, two kills: enough for a kill within a page, one between pages of the resumed run, and a torn line. The checks: answers of up to four pages, each a row or record from a list with one of every kind of error the checks tell apart. The report: two providers, four cells, a vetoed, a plain and a declared criterion |
| `universe_build` | are known histories exact, and does a clean report mean that nothing was forced? does the master load at every moment, and does a company keep its security? is a bar stored from the right code? are reasons evidence? | the history: two companies, one event omitted, one glitch, a change of name or indices whose dates differ, entries and exits before, between and after four snapshots. The master: two companies that may share a code or an ISIN, three edits, a crash, two repetitions of the FTSE 100 step. The backfill: three codes, two of one security, three days, a kill. The lifecycle: three securities, two of which share a ticker while the third has its reason adjudicated, eight days |

A run on several components has one `MC` module in which the variable `component`, chosen
in the initial state, says which of them is at work; the others stay switched off, and
the properties of an instanced component are restated there for the behaviours that are
its own. The components of such a run do not interact: it is several instances checked
at once. `prices` is the exception in that the repair writes to the store's own part
files, so the store's properties are checked of its writes as well.

Two runs show where a statement of the documentation and the code part; each is
a `violation` run and a finding:

- `engine_weekend_action`: an action that becomes effective on a closed day is
  never applied (the index is looked up by session). `engine_actions` checks the
  same property on markets where every effective date is a session.
- `context_lookahead`: `computable_inputs` looks for an anchor of every action of the
  dataset, whether or not it was available on the clock day. A split of day 5, whose
  previous close lies across a gap in the prints, is published on day 6 and removes the
  security from day 5, for which a context had computed its momentum (here with no
  months skipped). `DecisionsStand`, checked by `context`, says that this is the
  only way the future shows: members and prices stand, and the momentum of a security
  that is excluded now as it was then.

Other disagreements met while modelling, on which no run is spent: a dividend on
the date of a split is credited on the pre-split holding, since the loader lists
dividends first (`backtest/engine.py:213`); with quadratic impact the proportional
shrink of `_affordable_shares` can stop below "the largest whole-share count"
(`backtest/engine.py:451`; `LargestAtConstantImpact` is stated where impact does not depend on the order); a ledger call
that raises on negative cash has already changed the book
(`backtest/portfolio.py:106`, against "every change is an event"); a split of a
share with no print on the ex-date pays its fraction at a pre-split price
(`backtest/engine.py:215`, against "at the post-split mark"); the multiple-testing
warning is cleared by a tagged experiment that never ran (`experiments/store.py:288`);
two sessions overlapping in `_transition` can take a forbidden transition
(`experiments/store.py:167`; `LegalTransitions` is checked of sessions that take turns);
a manifest is captured before the execution and may name an environment the run
did not find (`experiments/running.py:44`); a crash between two
renames leaves part of a batch visible, against "leaves the dataset exactly as it was",
and one before `_log` leaves files no log line ever names (`canonical/price_store.py:155`); bars are stamped before they
become visible, so a read during an ingestion need not reproduce
(`universe/ftse_build.py:458`; `QuietReadsReproduce` is stated of the other reads);
the vendor's restatement of a figure has the row key of the original in the loader,
and is dropped (`canonical/fundamentals/ingest_eodhd.py:272`, against "restatements are
new rows"); `write_security_master` renames five files, and a crash between two leaves a
mixture readable (`canonical/security_store.py:87`); a view of a time between two
knowledge times that were given out of order need not validate
(`domain/pit.py:44`); `_current_ticker` calls two current tickers on a venue unreachable, and
yet legal events lead to such a state (`domain/changes.py:178`); a terminal event is
refused when a range that starts later is pending, which stays open
(`domain/changes.py:341`); the second verification of a run is refused, because the name of
its directory counts recorded runs and verifications are not recorded
(`experiments/running.py:70`); the loader of fundamentals submits every record as an original, so two
codes of one security give two rows of one row key in one file
(`canonical/fundamentals/ingest_eodhd.py:272`); three legal events can end with one ticker
meaning two securities (`domain/identifier_map.py:101`): a security listed on two venues changes its
ticker on the second, then moves from the first to the second with an earlier effective
date, which leaves it with overlapping records of one value there; when another security
arrives under that ticker, the search for overlaps pairs the two records of the first,
drops the later one, and no longer sees that the other security overlaps it.
`UnambiguousUnlessDoubled`, checked by `security_master`, says that this is the only way.

And of the context, the universe and the bake-off: a delisting or merger dated after the last print is
outside the span `computable_inputs` keeps, so its proceeds never reach the return
engine (`backtest/context.py:59`); one within the staleness window of the clock day is
truncated at the last print instead (`factors/returns.py:247`); where a spell ends on
the day the next begins, the changes remove the security after adding it, against
"reproduces members(end)" (`universe/query.py:109`, the condition of `ChangesCarryMembers`); a
kill between two pages leaves a part that the resumed run replays as the whole
(`bakeoff/harness.py:249`); a cell that ran out of rate-limit retries is recorded and
not asked for again, against "a day-cap exhaustion pauses a run rather than voiding it"
(`bakeoff/harness.py:17`); an empty sidecar or a torn line of `cells.jsonl` stops every later run
(`bakeoff/results.py:83`, the condition `Damaged` of `Completes`); without `history_end` the parameters
change every day, and a run resumed on another day does not find what it stored
(`bakeoff/harness.py:237`).

And of the components modelled since. In the repair: rows already in the price store that a
later run would classify differently are neither refused nor replaced
(`canonical/unit_repair.py:657`, against "any difference in the pre-existing subset still
refuses"); a series without any signal is taken for pence, and one whose yields say pounds
against its level is multiplied, against "conflict or no signal lands in unresolved"
(`canonical/unit_repair.py:20`). In the checks: of two expected dividends of one day only
the first record is looked at, so the other fails (`bakeoff/checks_corporate_actions.py:335`);
with the expectation's own unit stated, a factor of a hundred is an amount discrepancy,
against "reported as a unit failure" (`:398`); a restated figure stamped before the
original passes as point-in-time (`bakeoff/checks_pit_fundamentals.py:582`); a dataset not
offered makes a criterion zero when another of its datasets merely failed
(`bakeoff/scoring.py:161`, against "never zero"). In the weighting: the division by zero
above. In the universe's construction: a difference near an event at the end anchor is left
alone, and nothing compares the result with it (`universe/ftse250_curate.py:567`, against
"must reproduce the end anchor exactly", `:18`); after an alias was found, a company that
one snapshot omits is removed and added again (`:492`); a crash between two renames of the
FTSE 100 step leaves a master that does not load until the step is repeated, and one
between the master and the assignments makes the next build mint the companies again
(`canonical/security_store.py:87`, `universe/ftse250_build.py:188`; history variable
`torn`); a backfill killed between a code's prices and its actions never fetches the
actions (`universe/ftse_build.py:422`, against "resumable", `:11`); the end of a code's
window counts as inside (`:482`); prices canonicalised before every code is archived stay
attributed to the wrong one, as rows are never rewritten (history variable `early`). In the
lifecycle: a security suspended for longer than the gap is recorded as delisted
(`canonical/lifecycle.py:125`); adjudicated reasons go by ticker without a window.

**Deadlock** is checked in the engine and registry runs; a finished engine run
stutters in `Finished`. The ledger stops at its bound of events or after an
error, weights once sized, the price store at its bound of clock ticks, the repair at its
bound of runs, the fundamentals store and the security master at their bounds of deliveries
and events, the context on its last day, checks once run, a reconstruction at its end
anchor, builders at their bounds; a damaged bake-off cannot go on: there it is switched off.

**Fairness.** Three runs assume any. `engine_actions` (`FairSpec`, for `Terminates`): weak fairness of the
engine's step, a single-threaded loop that runs as long as the process does. `trading` (for
`LimitsEnd`): weak fairness of the weighting's step, a function that is being computed; none of
the ledger's calls. `bakeoff` (for `RunCompletes`): weak fairness of the harness's `Run`, that is the process keeps running,
each request is answered or times out (the client has a timeout), and a killed run is
started again; the last is asked of the operator, as the docs do. Kills are bounded and not fair.
The registry and the stores have sessions that may crash for good, the master
changes when someone asks for it, and the builders of the universe are run by hand: no
liveness is claimed of them.

**Symmetry.** Sessions and experiments are interchangeable in `registry` (an invariant, and an action
property of the unordered rows; that sessions take turns names none of them);
security ids of the engine are ordered and are not.

## 4. Proofs

All proofs are checked by TLAPS for every value of the constants that satisfies
the named assumptions: `SidsAssumption`, `PortfolioAssumption`, `MarketAssumption`,
`CostAssumption`, `BacktestAssumption`, `CallsAssumption`, `OrderAssumption`,
`PagesAssumption`, `PartStoreAssumption`, `FundamentalsAssumption`,
`SecurityMasterAssumption`, `ContextAssumption`, `UniverseAssumption`, `WeightingAssumption`,
`ValidationAssumption`, `BackfillAssumption`, `LifecycleAssumption`, `ActionChecksAssumption`,
`FundamentalChecksAssumption`, `ScoringAssumption`. They give the constants their types, and say that the sets that are
summed over or sorted are finite, that lists of cells or requests have no repetition, that
calendars keep to their range, that an expected dividend is positive and what a provider
sends for an amount or a day is a number or unreadable, that a threshold is more than half, and
that only criteria of the rubric can veto. Three theorems have hypotheses of
their own, which TLC checks of the instances. Two are on the unit money is counted in:
`WholeCosts` (what a share costs is a whole number) and `WholeCashInLieu` (so is a fraction
of a share at its mark); the code divides Decimals and Fractions, which need no such unit.
`DividendsCredited` is about the datasets its two hypotheses describe.
Invariance is proved with one lemma per action of `Next`.

**The ledger** (`PortfolioProofs`).

- `LedgerTypeCorrect`, `LedgerReplays`: the type invariant and `AccountingIdentity`. The
  invariant is `Kept`: a book has its type and, unless a call has raised, replays.
  `RecordKept` reduces every call to `_record`; the work is that a sum over an appended
  sequence is the sum plus the last element. Such a fact about a recursive function needs
  induction; it is obtained by taking the least index at which it fails
  (`LeastNatural`) and contradicting it.
- `SplitsKeepValue`, from `WholeCashInLieu`: a split is one `_record` or two; `RecordMoves`
  says what one does to cash, positions and log, `SplitMoves` what both do, and
  the rest is that a quotient and its remainder add up.

**The engine** (`BacktestProofs`).

- `EngineNeverRaises`: the engine makes no ledger call that raises and finds its
  accounting identity true every day. `NeverLedgerError` alone is not inductive. `Inv`
  adds that the book is sound (`Sound`: typed, cash and holdings natural, replaying, not
  raised); that every holding has printed (`HeldPrinted`: a buy needs a print today, and
  prints are not forgotten), so marks exist; and that pending orders fit (`OrdersInv`: a
  pending sell is covered by the holding, and the holding of a security does not change
  until its own order comes up; a buy being sized has a print today). Costs being natural
  (`CostType`) and the guards `Dust` and `BuyTotal(…) <= cash` then keep cash natural.
- `NoPhantom`: `NoPhantomPosition`. `FreshInv` says that during the stale pass only
  securities still to be visited may be stale, and afterwards none is; trades of the day
  only add securities that printed today.
- `NothingAppliedEarly`: `OnlyKnowableActions`. `KnownInv` adds that what is queued is
  effective today; `LogsOnly` says of each ledger operation which events it can append, and
  a warning, once given, stays.
- `RebalancesSettle`, from `WholeCosts`: `RebalanceSettled`, three invariants together.
  `DeferInv`: a deferred sale was not affordable when it came up, and every sale after it
  brings no more than it would have, being later in the order of `sell_net`, so the cash
  at the end of the sells does not pay for it either. `LargestInv`: no share count above
  the one being tried is affordable. One that the shrinking skips would have an average
  cost per share below that of the larger count, and where impact is proportional the
  average falls as the count grows (`AverageFalls`, `ShrunkUnaffordable`). `TradeInv`:
  the book marked at today's closes, plus the costs of the fills logged since the decision,
  is the pre-trade value; each fill moves it by its own cost
  (`SellAtMark`, `BuyAtMark`). The sum over holdings is `FoldFunction`'s, whose choice of the next
  element is arbitrary: `SumAnyOrder` and `SumMoves` show that it does not matter.
- `DividendsCredited`: `EffectiveDividendsCredited`, of datasets that list dividends before
  other actions (`DividendsFirst`, as `load_actions` does) and whose dividends fall due on
  sessions (`DueOnSessions`; without it the first finding of §3 is the counterexample).
  `CreditInv` says that the actions of a session are taken in their order, so that until
  its last dividend is credited no event of the day has moved a share: what was held before
  the day, summed over the log, is then what the book holds (`HeldNow`). Later events change neither
  (`LogStays`), and with sessions in order nothing falls due between two of them (`DueBefore`).
- `TradingLosesItsCosts`: the third part of `RebalanceSettled`, which needs no hypothesis.

**The bake-off** (`EvidenceProofs`).

- `OneRecord`, `QuotaSpentOnce`: `OneRecordACell` and `NeverRefetched`, for any cells and
  any number of kills. A run reads the completed cells once and never again, so neither is
  inductive. `WorkInv` relates that set to the file as it grows: a recorded cell is in the
  set or was passed by the loops, which meet a cell once (`OrderAssumption`). `StoreInv` and
  `FetchInv` say in which order a page's files come, so that a cell without a sidecar has
  no readable page, and that none appears while it is fetched.
- `EvidenceKept`: `EvidenceReadable`. `HandInv` says at each place of the loop how the
  references in hand relate to the files of the cell; `RecordsStand` that a record's
  references are whole files with the pages its checks were given; `StoredOnce` that no
  page is stored twice. Files only grow (`EvidenceStays`).
- `PassesAreStated`: `PassMeansStated`. A check looks at the first record of the fact's day.
  Where no two records of the kind share the day that is the one that states it or none does
  (`RecordOfTheDay`), so the order of pages and records does not count; with two it does
  (§3). `_unitless` looks for a factor of 100 before it compares the amount as it is: an
  amount within half a per cent of one that is positive is not within that of a
  hundred times it (`OneReading`), so the order of the questions hides no match.
- `StampsMeasuredRight`: `MeasuredRight`. Two shares that are more than half of the same rows
  have a row in common (`TwoMosts`), so most stamps are not usable and the end of their period at
  once; the other placeholders are the share of the stamps, or of the lags, if they are the
  share of all rows (`MostOfFewer`), and enough to conclude from (`MostEnough`):
  `PlaceholdersFail`. Some value stands at every rank (`PercentileStands`): of those that
  enough values reach, the one with the fewest below it. `StatementsOK` has the rows finitely
  many and their days numbers, from the parser's keys.
- `RecommendationIsBest` (in `WeightingProofs`): `RecommendedIsBest`. Totals are fractions
  with positive denominators (`TotalIsFraction`; the common denominator is a product over a
  finite set, `ProductPositive`), and among such fractions of distinct providers `Outranks`
  is a strict total order (`ExceedsOver`, `OutranksOrders`), so there is a best (`BestExists`);
  what is ahead of the second by the margin is ahead of all others by it (`MarginReaches`).
  `ScoringInv` says that the section in the document is the report of the first cells,
  which the harness only appends to.

**The weighting** (`WeightingProofs`).

- `LimitsHold`: `WithinLimits`. `WeightingInv` says what the parts are at each place of the
  two loops. In `_cap` something remains for the names that are free (`Remaining`), and the
  cap lets all names together have it: names over the cap weigh more than their caps, so they leave
  more than nothing and never all names at once (`OverLeavesSome`). When no
  name is over the cap, the capped names and the shares of the others add up to what is invested
  (`CappedWeights`). The sums are split, scaled and bounded by induction over finite sets
  (`SumSplits`, `SumScales`, `SumBound`, from `SmallestSet`).
- `LimitsConverge`: each pass but the last drops a name, so `pc` is never `"unconverged"`.
- `OnlyShiftDivides`: parts are positive under every other policy, and after a floor.

**The stores** (`StoreProofs`).

- `NothingStoredTwice`, `FilesStand`, `ReadsReproduce`: `NoDuplicates`, `NeverRewritten` and
  `QuietReadsReproduce`, for any keys, years and closes and any number of ingestions,
  crashes and reads. `Numbered` says that a part's number is below the count of its year's
  parts, so the staged name, which is that count, is free; it stays so until the rename
  because other renames are of other years. `Placed` says that a bar is in its own year,
  so the anti-join over the touched years misses no key. `StagedIsNew` carries what was found new
  at staging to the rename. `ReadsOK` says that a batch under way is stamped later than
  every read that was quiet, so nothing it adds is visible as of then.
- `FactsSound`, `RestatementsComeLater`: `SeriesSound` and `AnswersStand`. `FInv` is the
  same invariant of the write with, for each fact, that its rows are numbered without a gap, in one
  currency, later when their number is higher and never repeating the value before
  (`Sound`), and that a batch under way continues them (`BatchContinues`). A crash may leave
  some files of a batch: as a file of a year brings all new rows of a fact or none, the
  series is still without a gap. That `Classify` makes such a batch of any delivery is
  again a least counterexample, over the observations taken one by one.
- `ReportsReproduce`: `ReportsStand`, for any listings, bars, actions and thresholds. What
  arrives is stamped later than every report (`ValidationInv`), so the bars and the actions
  of the instant of a report are what they were (`ReportStays`), and the checks look at
  nothing else (`SameReport`).
- `GapsAreExact`: `GapsExact`. The range of a listing, cut to the data and to the calendar, holds
  exactly the sessions it may lack (`WindowHoldsLacking`); a run of them goes from its first
  to its last without a bar (`RunsCover`), and a session that has one is why a run begins
  (`RunsApart`). `Extremes` says what the least and the greatest of a finite set are.

**The registry** (`EvidenceProofs`).

- `EvidenceAlwaysStands`: `EvidenceStands`, for any number of sessions, experiments and
  runs. A session writes a row long after it looked at the tables, so the invariant says
  what a session holds at each place (`Holding`): a row that is backed by runs on record
  and keeps the design of the experiment, a directory with its own metrics, a recorded run
  before `complete`. What is held stays good because everything it rests on only `Grows`:
  rows of experiments keep their design, runs are never changed, and a directory, which
  `FreshDirectory` gives to one session, keeps its metrics.
- `TransitionsLegal`: `LegalTransitions`. `TurnsInv` says that while sessions take turns a row that is
  held is still a legal transition of the row it was read from (`Timely`).

**The security master** (`SecurityMasterProofs`).

- `FirstOverlapDecides`, `FirstOverlapReported`: the search of `ranges.py`, which looks at
  neighbours in sorted order and drops a range after each hit, finds an overlap whenever
  there is one.
- `MasterInvariant`, `KnowledgeIsHistory`: the master implements `KnowledgeHistory`, step by
  step. `MasterInv` says that no knowledge time in the tables is later than the last one given and
  that every view validates. An event `Tells` the master something at an instant: views of
  earlier instants are what they were (`ViewBefore`), later ones the current records
  (`ViewNow`), which were validated.
- `DaysBeforeAnEventKept`: `PastDaysKept`; closing a row on a day, or adding one that begins on
  it, leaves what the table said of the days before.
- `EveryViewSound`: `ViewsSound`: a value means one security unless one security holds it
  twice, and nothing follows an end.

**The context and the universe** (`BacktestContextProofs`).

- `ContextInvariant`: spells are valid and those of a security never overlap, bars
  are the closes of past days, no action is known before it was published, and what was shown of
  a past day is described by the data there are now. A sequence in sorted order is
  chosen by the module; `SortedExists` shows that there is one.
- `WhatWasShownStands`: `DecisionsStand`. Bars and actions of later days are outside what
  a clock day looks at, and learning of a spell keeps what a day before knows (`BarsStand`,
  `PublishShows`, `LearnShows`).
- `SlicesAreExact`: `SlicingIsExact`. A slice ends where the series known on the clock
  day ends, and inside it a price has the same close before it, so every factor is the same.
- `ChangesCarry`: `ChangesCarryMembers`. Of the changes applied in order of date, the last one of a security
  decides; as spells do not overlap or touch, it says whether the security is a member on the last day.

**The builders of the universe** (`UniverseBuildProofs`).

- `MasterAlwaysLoads`: `AlwaysLoads`. That the disk loads now says nothing of the next rename:
  `LoadsInv` adds that the master being written is itself consistent, that its first `step` tables are
  on disk, and, for an extension, that each of its tables contains the one on disk. Then
  whatever a replaced table refers to was replaced before it, and what an old one refers to is still there
  (`ExtensionLoads`). The FTSE 100 step contains nothing of what it replaces; that it has begun
  must be remembered beyond its crash and a second attempt (`half`): "a table is
  missing" read from `step` alone is not inductive, as TLC showed with two repetitions.
- `CompanyKeepsItsSecurity`: `OneSecurityACompany`. Between the rename of the securities and the
  saving of the ids a security is known only to the process that made it; `IdsInv` says where
  each id is known at each place of the build: in the file, in the process's memo, which goes
  on from the file, or, after a crash, nowhere (`torn`).
- `DaysFromTheirCode`: `RightCode`. `BackfillInv` says that a stored day comes from a code
  of its security that has the day, and that prices once archived stay; `ChosenIsRightful`
  that among the codes that have it the one it belongs to is the only one whose window holds it.
- `NoAcquisitionMadeUp`: `ReasonsAreEvidence`. `Build` may run on any day, so what matters is
  true of every removal and every security that has the ticker: either the removal is the
  security's own exit, or one of the two came so long after the other that the window does not
  reach (`OutOfReach`, `RemovalsInv`). It follows from tickers being given again only
  after the window (`TurnsInv`: two holders never print together).

Only model-checked, and why:

- Liveness (`Terminates`, `LimitsEnd`, `RunCompletes`) is out of the prover's reach.
- `StoredIsTrue` of the repair: it is not true of every level and payment, as the code decides by
  thresholds (§5).
- The bake-off's check of adjusted series (`FaithfulPasses`) compares two cumulative products
  over sorted rows, folds in different orders of which the prover has no induction; and what it
  says of a change of ticker is true of closes that do not jump there, as those of the
  instance.
- The curation of the index's history (`KnownHistoryIsExact`, `CleanMeansNothingForced`) is
  recursive (`ReplayDay`, `Follow`).

## 5. Plan

What is still worth modelling, in this order:

1. Fundamentals normalisation: mapping, currency conversion, imputed availability, and the
   loader composed with the store.
2. The factor store (`factors/materialise.py`), transforms and composites, the adjusted
   series (`derived/`): files that must be recomputed when what they are derived from grows.
3. `MasterBuild`'s five files with the records of `SecurityMaster` in them.
4. Shares and FX as of a date; price overrides.

The theorem to come: `StoredIsTrue` of the repair, whose bars go through the write of
`StoreProofs`. It is not true of every level and payment: the code decides by thresholds (a median
close of 25, yields of 15 and 30 per cent), so the theorem needs an assumption that the levels and the
payments are such as the thresholds tell apart.

Hazards noticed and covered by no property: those of `PROJECT.json` with a note, and
several actions of one security on one day (`backtest/engine.py:213`), a split of a suspended
share (`:215`), the manifest of an environment that moved (`experiments/running.py:44`), the
directory of a repeated verification (`:70`), the multiple-testing warning decided from tags
(`experiments/store.py:288`), hypotheses recorded after the fact (`:121`), knowledge times out of
order across securities (`domain/pit.py:44`), the cache of member sets keyed by mtime
(`universe/query.py:10`) and the unclassified loader (`canonical/fundamentals/ingest_eodhd.py:272`).
What the code does in each is said in §3; no promise that holds could be stated of them.

## 6. Not modelled

Statistics of finished runs (`backtest/metrics.py`, `benchmark.py`, `rolling.py`,
`riskfree.py`: floating-point arithmetic, no state), the parsing of vendor archives and of
constituent documents, checksums of identifiers, shares and FX, price overrides, the
notebooks' front ends, settings and logging. Each is listed with its reason in
`PROJECT.json`.
