----------------------------- MODULE UnitRepair -----------------------------
(***************************************************************************)
(* Repair of quotation units (trp/canonical/unit_repair.py) of one         *)
(* security: the vendor quotes some bars in pence (GBX) and some in pounds *)
(* (GBP), states some dividends in the wrong one, and may have applied a   *)
(* split to the history already.  run_repair recomputes everything from    *)
(* the vendor's data of the moment, appends the bars to the store, then    *)
(* overwrites the two files of actions.                                    *)
(*                                                                         *)
(* A bar is its true close in pence and the way it is quoted; only the     *)
(* quoted number is seen by the code.  Numbers are in hundredths, so that  *)
(* pounds are whole.  Days are the keys of the store.                      *)
(***************************************************************************)
EXTENDS PartStore
LOCAL INSTANCE SequencesExt
LOCAL INSTANCE FiniteSetsExt

CONSTANTS
    Levels,         \* true closes, in pence, multiples of 100
    Quotes,         \* ways to quote a bar
    Payments,       \* the dividends a vendor may record
    Ratios,         \* the splits a vendor may record
    Adjudicated,    \* scale fixed by hand, or 0
    SegmentFrom,    \* the scale is 1 from this day on by hand
    CutBefore,      \* bars before this day are excluded by hand
    ExcludedDividends, \* ex-dates excluded by hand
    ExcludedSplits,
    MaxRuns         \* bound: runs that write

VARIABLES
    tape,           \* bars of the vendor, one a day
    dividends,      \* dividend records of the vendor
    splits,         \* split records of the vendor
    dividendFile,   \* repaired dividends
    splitFile,      \* kept splits
    job,            \* run_repair(write=True) under way
    runs            \* how many there were

vendor == <<tape, dividends, splits>>
files == <<dividendFile, splitFile>>
vars == <<parts, log, writer, vendor, files, job, runs>>

NoFile == {}
NoJob == [pc |-> "none"]

Quoted(bar) == CASE bar.as = "GBX" -> 100 * bar.gbx
                 [] bar.as = "GBP" -> bar.gbx
                 [] bar.as = "zero" -> 0
                 [] bar.as = "tenfold" -> 1000 * bar.gbx

Close(d) == Quoted(tape[d])

-----------------------------------------------------------------------------
ExcludedByHand(d) == d < CutBefore

SplitExcludedByHand(s) == s.ex \in ExcludedSplits

Included == {d \in DOMAIN tape : ~ExcludedByHand(d)}

\* drop_single_bar_spikes: more than eightfold, and back within a factor of two
IsSpike(d) ==
    /\ {d - 1, d + 1} \subseteq Included
    /\ Close(d - 1) > 0 /\ Close(d) > 0
    /\ Close(d) > 8 * Close(d - 1) \/ 8 * Close(d) < Close(d - 1)
    /\ Close(d - 1) < 2 * Close(d + 1) /\ Close(d + 1) < 2 * Close(d - 1)

\* The closes run_repair works on, by day
Originals == [d \in {e \in Included : ~IsSpike(e)} |-> Close(d)]

Before(closes, d) == {e \in DOMAIN closes : e < d}

\* Mutant: only a series that becomes smaller is recognised.
OneWayFlip(previous, close) ==
    IF close > 0 /\ 70 * close <= previous /\ previous <= 140 * close THEN 1 ELSE 0

\* _is_flip: the power of 100 that restores the previous unit
Flip(previous, close) ==
    IF previous = 0 \/ close = 0 THEN 0
    ELSE IF 70 * close <= previous /\ previous <= 140 * close THEN 1
    ELSE IF 70 * previous <= close /\ close <= 140 * previous THEN -1 ELSE 0

\* Continuity: the power of 100 that brings each bar to the leading unit
RowScale(closes) ==
    LET scale[d \in DOMAIN closes] ==
            IF Before(closes, d) = {} THEN 0
            ELSE LET e == Max(Before(closes, d)) IN scale[e] + Flip(closes[e], closes[d])
    IN  scale

OffLattice(closes) == \E d \in DOMAIN closes : RowScale(closes)[d] \notin {-1, 0, 1}

Scaled(close, power) ==
    CASE power = 1 -> 100 * close [] power = 0 -> close [] OTHER -> close \div 100

Continuous(closes) ==
    LET scale == RowScale(closes) IN [d \in DOMAIN closes |-> Scaled(closes[d], scale[d])]

-----------------------------------------------------------------------------
\* sorted(...)[len // 2] of a function to integers
UpperMedian(f) ==
    f[CHOOSE x \in DOMAIN f :
        /\ Cardinality({y \in DOMAIN f : f[y] < f[x]}) <= Cardinality(DOMAIN f) \div 2
        /\ Cardinality({y \in DOMAIN f : f[y] <= f[x]}) > Cardinality(DOMAIN f) \div 2]

LevelSaysGbp(continuous) == UpperMedian(continuous) < 2500

RecordedDividends == {p \in dividends : p.ex \notin ExcludedDividends}

InPence(p) == IF p.label = "GBP" THEN 100 * p.amount ELSE p.amount

DividendsIn(y) == {p \in RecordedDividends : YearOf[p.ex] = y /\ p.label \in {"GBP", "GBX"}}

\* The unit that the yield of a year speaks for, from low yields to high ones
YieldBand(close, annual) ==
    CASE 100 * annual <= 15 * close -> 1
      [] 10 * annual > 3 * close -> 3
      [] OTHER -> 2

\* What the dividends of two years or more say of the unit: the band of the
\* median yield is the median of the bands
YieldVerdict(continuous) ==
    LET paid == {y \in Years : DividendsIn(y) # {}}
        first == [y \in {z \in Years : \E d \in DOMAIN continuous : YearOf[d] = z} |->
                    continuous[Min({d \in DOMAIN continuous : YearOf[d] = y})]]
        priced == {y \in paid \cap DOMAIN first : first[y] > 0}
        bands == [y \in priced |-> YieldBand(first[y], MapThenSumSet(InPence, DividendsIn(y)))]
    IN  IF Cardinality(paid) < 2 \/ priced = {} THEN "none"
        ELSE <<"GBX", "none", "GBP">>[UpperMedian(bands)]

\* _classify_global_unit
GlobalScale(continuous) ==
    IF Adjudicated # 0 THEN Adjudicated
    ELSE IF \/ YieldVerdict(continuous) = "GBP"
            \/ YieldVerdict(continuous) = "none" /\ LevelSaysGbp(continuous)
         THEN 100 ELSE 1

\* The yields say pence, the level says pounds.
Conflict(continuous) ==
    Adjudicated = 0 /\ YieldVerdict(continuous) = "GBX" /\ LevelSaysGbp(continuous)

Unresolved(closes) == OffLattice(closes) \/ Conflict(Continuous(closes))

\* repair_prices: closes in pence
Repaired(closes) ==
    LET continuous == Continuous(closes)
        scale == GlobalScale(continuous)
    IN  [d \in DOMAIN closes |-> IF d >= SegmentFrom THEN continuous[d] ELSE scale * continuous[d]]

-----------------------------------------------------------------------------
\* The middle amount of the records labelled GBP, or the mean of the two
\* middle ones, as a sum of two
TwiceFamilyMedian ==
    LET amounts == SortSeq(SetToSeq({p \in RecordedDividends : p.label = "GBP"}),
                           LAMBDA p, q : p.amount < q.amount)
        n == Len(amounts)
    IN  IF n = 0 THEN 0 ELSE amounts[(n + 1) \div 2].amount + amounts[n \div 2 + 1].amount

\* The repaired close a dividend is compared with, 0 if there is none
PriceOf(p, repaired) ==
    LET days == {d \in DOMAIN repaired : d <= p.ex} IN IF days = {} THEN 0 ELSE repaired[Max(days)]

\* A payment above a quarter of the close
Excessive(pence, close) == 4 * pence > close

Suspect(p, close) ==
    /\ p.label = "GBP" /\ close > 0
    /\ Excessive(InPence(p), close)
    /\ p.amount >= 200 \/ (TwiceFamilyMedian > 0 /\ p.amount >= 10 * TwiceFamilyMedian)

Implausible(repaired) ==
    \E p \in RecordedDividends :
        Suspect(p, PriceOf(p, repaired)) /\ Excessive(p.amount, PriceOf(p, repaired))

\* repair_dividends
RepairedDividends(repaired) ==
    {IF Suspect(p, PriceOf(p, repaired)) THEN [p EXCEPT !.label = "GBX"] ELSE p :
        p \in RecordedDividends}

\* a / b is within u / v of p / q
Near(a, b, p, q, u, v) == a * q * v < b * p * u /\ b * p * v < a * q * u

\* audit_splits, by the closes on either side of the ex-date
Verdict(s, repaired) ==
    LET before == {d \in DOMAIN repaired : d < s.ex}
        after == {d \in DOMAIN repaired : d >= s.ex}
        b == repaired[Max(before)] \div 100      \* in whole pence
        a == repaired[Min(after)] \div 100
        small == Near(s.new, s.old, 1, 1, 5, 4)
    IN  IF before = {} \/ after = {} THEN "no_price_context"
        ELSE IF a = 0 \/ (b = 0 /\ ~small) THEN "fails"
        ELSE IF small THEN "small_unverifiable"
        ELSE IF Near(b, a, s.new, s.old, 27, 20) THEN "real"
        ELSE IF Near(b, a, 1, 1, 27, 20) THEN "pre_applied" ELSE "unclear"

Unclear(repaired) ==
    \E s \in splits : \/ Verdict(s, repaired) = "fails"
                      \/ Verdict(s, repaired) = "unclear" /\ ~SplitExcludedByHand(s)

\* repair_splits
KeptSplits(repaired) ==
    {s \in splits : ~SplitExcludedByHand(s) /\ Verdict(s, repaired) # "pre_applied"}

-----------------------------------------------------------------------------
\* Pre-existing rows of the two files are rows of the new ones
ExtendsFiles(repaired) ==
    dividendFile \subseteq RepairedDividends(repaired) /\ splitFile \subseteq KeptSplits(repaired)

\* The vendor's data grow between two runs: a bar, a dividend, a split
QuoteBar ==
    /\ job.pc = "none"
    /\ Len(tape) + 1 \in Keys
    /\ \E gbx \in Levels, as \in Quotes : tape' = Append(tape, [gbx |-> gbx, as |-> as])
    /\ UNCHANGED <<parts, log, writer, dividends, splits, files, job, runs>>

RecordDividend ==
    /\ job.pc = "none"
    /\ \E p \in Payments :
          /\ p.ex \notin {q.ex : q \in dividends}
          /\ dividends' = dividends \cup {p}
    /\ UNCHANGED <<parts, log, writer, tape, splits, files, job, runs>>

RecordSplit ==
    /\ job.pc = "none"
    /\ \E s \in Ratios :
          /\ s.ex \notin {r.ex : r \in splits}
          /\ splits' = splits \cup {s}
    /\ UNCHANGED <<parts, log, writer, tape, dividends, files, job, runs>>

\* run_repair: everything is computed, the checks pass, the bars go to the store;
\* a run that is refused changes nothing
BeginRepair ==
    /\ job.pc = "none" /\ runs < MaxRuns
    /\ LET closes == Originals
           repaired == Repaired(closes)
       IN  /\ closes # <<>>
           /\ ~Unresolved(closes)
           /\ ~Implausible(repaired)
           /\ ~Unclear(repaired)
           /\ ExtendsFiles(repaired)
           /\ Submit({[key |-> d, close |-> repaired[d]] : d \in DOMAIN repaired})
           /\ job' = [pc |-> "bars", dividends |-> RepairedDividends(repaired),
                      splits |-> KeptSplits(repaired)]
    /\ runs' = runs + 1
    /\ UNCHANGED <<vendor, files>>

\* A step of the store; the run goes on when the write returns, or is lost with it
WriteBars ==
    /\ job.pc = "bars"
    /\ WriteStep
    /\ job' = CASE Returns -> [job EXCEPT !.pc = "dividends"]
                [] writer'.pc = "idle" /\ ~Returns -> NoJob
                [] OTHER -> job
    /\ UNCHANGED <<vendor, files, runs>>

WriteDividends ==
    /\ job.pc = "dividends"
    /\ dividendFile' = job.dividends
    /\ job' = [job EXCEPT !.pc = "splits"]
    /\ UNCHANGED <<store, vendor, splitFile, runs>>

WriteSplits ==
    /\ job.pc = "splits"
    /\ splitFile' = job.splits
    /\ job' = NoJob
    /\ UNCHANGED <<store, vendor, dividendFile, runs>>

CrashBetweenFiles ==
    /\ job.pc \in {"dividends", "splits"}
    /\ job' = NoJob
    /\ UNCHANGED <<store, vendor, files, runs>>

Init ==
    /\ EmptyStore
    /\ tape = <<>> /\ dividends = {} /\ splits = {}
    /\ dividendFile = NoFile /\ splitFile = NoFile
    /\ job = NoJob /\ runs = 0

Next ==
    \/ QuoteBar \/ RecordDividend \/ RecordSplit
    \/ BeginRepair \/ WriteBars \/ WriteDividends \/ WriteSplits \/ CrashBetweenFiles

Spec == Init /\ [][Next]_vars

-----------------------------------------------------------------------------
\* Every bar is quoted in pence or pounds, and the unit does not change on the day
\* of a large move, which takes the ratio out of the band.
PlainQuotes ==
    /\ \A i \in DOMAIN tape : tape[i].as \in {"GBX", "GBP"}
    /\ \A i \in DOMAIN tape \ {1} :
          tape[i].as # tape[i - 1].as => Near(tape[i].gbx, tape[i - 1].gbx, 1, 1, 7, 5)

\* Dividends of two years are evidence only if they are stated in the unit of
\* their label.
CredibleDividends ==
    \/ \A p \in dividends : p.label = p.unit
    \/ \E y \in Years : \A p \in dividends : YearOf[p.ex] = y

(***************************************************************************)
(* The purpose of the repair, "continuous in its LEADING unit" and then in *)
(* pence: whatever the order in which the vendor changed units, however    *)
(* often the repair was run over data that had grown, and wherever it      *)
(* crashed, each bar of the store is the true close in pence; a dividend   *)
(* stated in pence is relabelled, "a genuine crash-era dividend" is "kept  *)
(* as GBP and reported, never shrunk" (repair_dividends).                  *)
(***************************************************************************)
StoredIsTrue ==
    PlainQuotes /\ CredibleDividends =>
        /\ \A r \in Dataset : r.close = 100 * tape[r.key].gbx
        /\ \A p \in dividendFile : p.label = p.unit
=============================================================================
