----------------------------- MODULE PriceStore -----------------------------
(***************************************************************************)
(* The bar store (trp/canonical/price_store.py): ingestions that stamp     *)
(* their bars before they write them, and readers that ask for the dataset *)
(* as of an instant.                                                       *)
(***************************************************************************)
EXTENDS PartStore

CONSTANTS
    Closes,     \* what a provider may say of a bar, a revision included
    MaxClock    \* bound: ingestions and reads

ASSUME PriceStoreAssumption == MaxClock \in Nat

VARIABLES
    clock,      \* wall-clock time
    reads       \* results obtained so far, with their as_of

vars == <<parts, log, writer, clock, reads>>

\* An ingestion stamps its bars when it starts (ingested_at), then writes them,
\* one per key (unique, keep first).
Begin ==
    /\ clock < MaxClock
    /\ clock' = clock + 1
    /\ \E keys \in SUBSET Keys \ {{}} : \E close \in [keys -> Closes] :
          Submit({[key |-> k, close |-> close[k], ingested |-> clock + 1] : k \in keys})
    /\ UNCHANGED reads

\* Mutant: as_of is not applied.
Everything(asOf) == Dataset

\* read_prices with as_of
VisibleAsOf(asOf) == {r \in Dataset : r.ingested <= asOf}

\* A research run reads the dataset as of now, and may have to be reproduced.
Read ==
    /\ clock < MaxClock
    /\ clock' = clock + 1
    /\ reads' = reads \cup {[asOf |-> clock + 1, rows |-> VisibleAsOf(clock + 1),
                             quiet |-> writer.pc = "idle"]}
    /\ UNCHANGED <<parts, log, writer>>

Init == EmptyStore /\ clock = 0 /\ reads = {}

Next == Begin \/ Read \/ (WriteStep /\ UNCHANGED <<clock, reads>>)

Spec == Init /\ [][Next]_vars

-----------------------------------------------------------------------------
(***************************************************************************)
(* "bars that arrived later are invisible, which is what makes an earlier  *)
(* reproduction stable" (read_prices): a result read while nothing was     *)
(* being written is what reading as of the same instant gives ever after.  *)
(***************************************************************************)
QuietReadsReproduce == \A r \in reads : r.quiet => VisibleAsOf(r.asOf) = r.rows
=============================================================================
