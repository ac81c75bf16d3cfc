------------------------------ MODULE Lifecycle ------------------------------
(***************************************************************************)
(* Delisting records inferred from price series that end                   *)
(* (trp/canonical/lifecycle.py).  Securities list, print or are suspended, *)
(* and leave the market while the records are built again and again; every *)
(* day is a session.                                                       *)
(***************************************************************************)
EXTENDS Integers, FiniteSets, FiniteSetsExt

CONSTANTS
    Securities, TickersOf,  \* the tickers of a security's provider codes
    Adjudicated,            \* ticker |-> reason settled by hand
    SeriesEndGap, MatchWindow,
    Horizon                 \* bound

\* ADJUDICATED_REASONS has failures and moves to other exchanges only.
ASSUME LifecycleAssumption ==
    /\ MatchWindow \in Nat
    /\ \A t \in DOMAIN Adjudicated : Adjudicated[t] \in {"failure", "exchange_move"}

VARIABLES
    today,
    phase,          \* security |-> "unlisted", "listed" or how it left
    last,           \* security |-> last repaired print, 0 before the first
    removals,       \* curated: day, ticker and reason
    records         \* the stored delistings

living == <<today, phase, last, removals, records>>

Exits == {"acquisition", "merger", "failure", "exchange_move"}
AcquisitionReasons == {"acquisition", "merger"}

LifecycleInit ==
    /\ today = 1 /\ phase = [s \in Securities |-> "unlisted"] /\ last = [s \in Securities |-> 0]
    /\ removals = {} /\ records = {}

Distance(d, e) == IF d < e THEN e - d ELSE d - e

\* A ticker is given again only when its last holder's exit is out of reach.
Free(ticker, s) ==
    /\ \A r \in removals : r.ticker = ticker => today - r.day > MatchWindow
    /\ \A t \in Securities \ {s} :
           ticker \in TickersOf[t] => phase[t] # "listed" /\ (last[t] = 0 \/ today - last[t] > MatchWindow)

List(s) ==
    /\ phase[s] = "unlisted" /\ \A ticker \in TickersOf[s] : Free(ticker, s)
    /\ phase' = [phase EXCEPT ![s] = "listed"]
    /\ UNCHANGED <<today, last, removals, records>>

\* A listed security may be suspended and print nothing.
NextDay ==
    /\ today < Horizon
    /\ today' = today + 1
    /\ \E printing \in SUBSET {s \in Securities : phase[s] = "listed"} :
           last' = [s \in Securities |-> IF s \in printing THEN today' ELSE last[s]]
    /\ UNCHANGED <<phase, removals, records>>

\* The curated histories have a removal of it with its reason, or none.
Leave(s, how) ==
    /\ phase[s] = "listed" /\ last[s] # 0
    /\ phase' = [phase EXCEPT ![s] = how]
    /\ \/ \E ticker \in TickersOf[s] :
              removals' = removals \cup {[day |-> today, ticker |-> ticker, reason |-> how]}
       \/ UNCHANGED removals
    /\ UNCHANGED <<today, last, records>>

\* Mutant: a removal of any earlier day matches.
OnlyLater(r, s) == r.day - last[s] <= MatchWindow

Within(r, s) == Distance(r.day, last[s]) <= MatchWindow

\* The reasons of the removals that may be the security's
Matching(s) ==
    {r.reason : r \in {q \in removals : /\ q.ticker \in TickersOf[s]
                                        /\ Within(q, s)
                                        /\ q.reason \in AcquisitionReasons}}

Reason(s) ==
    LET adjudicated == TickersOf[s] \cap DOMAIN Adjudicated
    IN  IF adjudicated # {} THEN Adjudicated[CHOOSE t \in adjudicated : TRUE]
        ELSE IF Cardinality(Matching(s)) = 1 THEN "acquisition"
        ELSE "unknown"

Ended ==
    {s \in Securities : last[s] # 0 /\ Max({last[t] : t \in Securities}) - last[s] > SeriesEndGap}

\* A build that finds no ended series fails, and leaves the file as it was.
Build ==
    /\ records' = IF Ended = {} THEN records
                  ELSE {[security |-> s, ex |-> last[s] + 1, reason |-> Reason(s)] : s \in Ended}
    /\ UNCHANGED <<today, phase, last, removals>>

LifecycleNext ==
    \/ NextDay \/ Build
    \/ \E s \in Securities : List(s) \/ \E how \in Exits : Leave(s, how)

LifecycleSpec == LifecycleInit /\ [][LifecycleNext]_living

-----------------------------------------------------------------------------
\* No acquisition is made up: whoever is recorded as acquired was, however tickers are
\* given again (later than the window allows), names suspended and removals left out.
ReasonsAreEvidence ==
    \A r \in records : r.reason = "acquisition" => phase[r.security] \in AcquisitionReasons
=============================================================================
