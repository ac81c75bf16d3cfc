------------------------------ MODULE MCPrices ------------------------------
(***************************************************************************)
(* The price store and what is built around it.  A behaviour is one of     *)
(*   "store"      any ingestions and reads of three bars, in two           *)
(*                partitions, with two provider versions of each;          *)
(*   "repair"     the repair of the units of three days, which writes to   *)
(*                the same part files: dividends of 160 pence stated in    *)
(*                pounds, pence or pence under the label of pounds; splits *)
(*                that are real, applied already, unlike any move, or      *)
(*                excluded by hand;                                        *)
(*   "validation" seven days, two of them closed and one short; a listing  *)
(*                that moves from one market to another, whose calendar    *)
(*                begins later; a second source; a halving, a repeated     *)
(*                close, a day without volume and one with too much.       *)
(***************************************************************************)
EXTENDS PriceStore, PriceValidation

VARIABLES
    component,
    tape, dividends, splits, dividendFile, splitFile, job, runs

storing == <<parts, log, writer>>
reading == <<clock, reads>>
repairing == <<tape, dividends, splits, dividendFile, splitFile, job, runs>>

MCYearOf == [k \in Keys |-> IF k <= 2 THEN 1 ELSE 2]

-----------------------------------------------------------------------------
\* The repair
MCPayments ==
    {[ex |-> 2, amount |-> 160, label |-> "GBP", unit |-> "GBP"],
     [ex |-> 2, amount |-> 16000, label |-> "GBP", unit |-> "GBX"],
     [ex |-> 3, amount |-> 160, label |-> "GBP", unit |-> "GBP"]}

MCRatios == {[ex |-> 3, new |-> 2, old |-> 1], [ex |-> 3, new |-> 3, old |-> 1],
             [ex |-> 2, new |-> 3, old |-> 1]}

U == INSTANCE UnitRepair WITH
        Levels <- {600, 1200}, Quotes <- {"GBX", "GBP", "zero"}, Payments <- MCPayments, Ratios <- MCRatios,
        Adjudicated <- 0, SegmentFrom <- 4, CutBefore <- 1, ExcludedDividends <- {}, ExcludedSplits <- {2},
        MaxRuns <- 2

RepairOff ==
    /\ tape = <<>> /\ dividends = {} /\ splits = {} /\ dividendFile = {} /\ splitFile = {}
    /\ job = "off" /\ runs = 0

-----------------------------------------------------------------------------
\* The validation
MCCalendar == [lon |-> Cut({1, 2, 3, 6, 7}, {3}, 1, 7), nyc |-> Cut({1, 2, 3, 4, 6, 7}, {}, 3, 7)]

MCListings == {[mic |-> "lon", from |-> 1, to |-> 4], [mic |-> "nyc", from |-> 2, to |-> 0],
               [mic |-> "otc", from |-> 6, to |-> 0]}

Bar(source, day, close, volume) ==
    [source |-> source, day |-> day, close |-> close, volume |-> volume]

MCOffered ==
    {Bar("a", 1, 8, 1), Bar("a", 2, 8, 2), Bar("a", 3, 8, 0), Bar("a", 3, 4, 30), Bar("a", 4, 4, 3),
     Bar("a", 6, 4, 50), Bar("a", 7, 3, 0), Bar("b", 2, 20, 0), Bar("b", 6, 20, 0)}

MCActions == {[kind |-> "split", ex |-> 3], [kind |-> "dividend", ex |-> 3]}

-----------------------------------------------------------------------------
MCInit ==
    /\ Init /\ ValidationInit
    /\ \/ component \in {"store", "validation"} /\ RepairOff
       \/ component = "repair" /\ U!Init

MCNext ==
    /\ UNCHANGED component
    /\ \/ component = "store" /\ Next /\ UNCHANGED <<repairing, validating>>
       \/ component = "repair" /\ U!Next /\ UNCHANGED <<reading, validating>>
       \/ component = "validation" /\ ValidationNext /\ UNCHANGED <<storing, reading, repairing>>

MCSpec == MCInit /\ [][MCNext]_<<component, storing, reading, repairing, validating>>

\* What the repair stores is true to the vendor's tape (UnitRepair).
StoredIsTrue == component = "repair" => U!StoredIsTrue
=============================================================================
