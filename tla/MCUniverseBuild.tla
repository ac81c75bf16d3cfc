--------------------------- MODULE MCUniverseBuild ---------------------------
(***************************************************************************)
(* The builders of the FTSE universe, each on its own input files.  A      *)
(* behaviour is one of                                                     *)
(*   "history"   the reconstruction of the FTSE 250: half-yearly           *)
(*               snapshots, and changes before the first, between them and *)
(*               shortly before the end anchor; company 2 crosses to and   *)
(*               from the FTSE 100, and either its dates differ there or   *)
(*               company 1 changes its name;                               *)
(*   "master"    the extension of the security master by two companies     *)
(*               that may share a code or an ISIN with each other or with  *)
(*               the FTSE 100 security;                                    *)
(*   "backfill"  the fetching and canonicalising of a security with two    *)
(*               codes, one of which succeeds the other, and of one with a *)
(*               single code;                                              *)
(*   "lifecycle" the delisting records of two securities that share a      *)
(*               ticker, one after the other, and a third that prints on;  *)
(*               the first may have been renamed.                          *)
(***************************************************************************)
EXTENDS MasterBuild, Backfill, Lifecycle

VARIABLES
    component,
    truth, omitted, skew, drift, glitches, state, spells, aliases, at, cp, forced

history == <<truth, omitted, skew, drift, glitches, state, spells, aliases, at, cp, forced>>
building == <<files, seeding, left, extended, memo, step, bounds, half, torn>>

-----------------------------------------------------------------------------
H == INSTANCE IndexHistory WITH
        Crossers <- {2}, Drifters <- {1}, Entries <- {0, 100, 350}, Exits <- {150, 450, 710, 9999},
        Checkpoints <- <<180, 360, 540, 720>>, Skews <- {0, 2}, NearDays <- 45, CoverDays <- 3,
        AnchorDay <- 0, Never <- 9999

\* Bound: the dates of the two indices differ, or a name changes.
OneDistortion == skew = 0 \/ \A c \in Companies : drift[c] = 9999

HistoryOff ==
    /\ truth = <<>> /\ omitted = {} /\ skew = 0 /\ drift = <<>> /\ glitches = {} /\ state = {}
    /\ spells = <<>> /\ aliases = <<>> /\ at = 0 /\ cp = 0 /\ forced = {}

-----------------------------------------------------------------------------
Entry(code, isin, from, to) ==
    [owned |-> FALSE, rejected |-> FALSE, code |-> code, isin |-> isin, from |-> from, to |-> to]

MCEntries ==
    {Entry("A", "isin", 1, 3), Entry("A", "none", 3, 0), Entry("none", "isin", 2, 0), Entry("A.", "bad", 1, 0),
     Entry("F", "none", 1, 0), [Entry("none", "none", 1, 0) EXCEPT !.owned = TRUE],
     [Entry("A", "none", 1, 0) EXCEPT !.rejected = TRUE]}

-----------------------------------------------------------------------------
MCSecurityOf == <<"x", "x", "y">>

MCWindows == {[from |-> f, to |-> t] : f \in {1, 2}, t \in {2, 3, 0}} \ {[from |-> 2, to |-> 2]}

\* A component that does not take part is at its start, or has no input at all.
BackfillOff ==
    /\ window = <<>> /\ payload = <<>> /\ raw = {} /\ todo = {} /\ stored = <<>> /\ actions = {}
    /\ kills = 0 /\ early = FALSE

-----------------------------------------------------------------------------
MCTickersOf == [s \in Securities |-> CASE s = 1 -> {"A", "B"} [] s = 2 -> {"B"} [] OTHER -> {"C"}]

MCAdjudicated == [t \in {"C"} |-> "failure"]

\* Bound: the third leaves as its adjudication says.
AsAdjudicated == phase'[3] \in {"unlisted", "listed", "failure"}

-----------------------------------------------------------------------------
MCInit ==
    \/ component = "history" /\ H!Init /\ OneDistortion /\ MasterTables /\ BackfillOff /\ LifecycleInit
    \/ component = "master" /\ HistoryOff /\ MasterInit /\ BackfillOff /\ LifecycleInit
    \/ component = "backfill" /\ HistoryOff /\ MasterInit /\ BackfillInit /\ LifecycleInit
    \/ component = "lifecycle" /\ HistoryOff /\ MasterInit /\ BackfillOff /\ LifecycleInit

MCNext ==
    /\ UNCHANGED component
    /\ \/ component = "history" /\ H!Next /\ UNCHANGED <<building, backfilling, living>>
       \/ component = "master" /\ MasterNext /\ UNCHANGED <<history, backfilling, living>>
       \/ component = "backfill" /\ BackfillNext /\ UNCHANGED <<history, mastering, living>>
       \/ component = "lifecycle" /\ LifecycleNext /\ AsAdjudicated /\ UNCHANGED <<history, mastering, backfilling>>

MCSpec == MCInit /\ [][MCNext]_<<component, history, mastering, backfilling, living>>

\* What the document and the snapshots determine is reconstructed exactly, and a report
\* without forced steps has forced nothing (IndexHistory).
KnownHistoryIsExact == component = "history" => H!KnownHistoryIsExact
CleanMeansNothingForced == component = "history" => H!CleanMeansNothingForced
=============================================================================
