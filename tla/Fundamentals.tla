---------------------------- MODULE Fundamentals ----------------------------
(***************************************************************************)
(* Point-in-time fundamentals (trp/canonical/fundamentals/): observations  *)
(* of facts are classified against what is stored (revisions.py), appended *)
(* to the part files (storage.py, the write of PartStore), and queried as  *)
(* of an instant (queries.py).                                             *)
(*                                                                         *)
(* A fact is a revision key: security, statement, line item, period.  An   *)
(* amount is a value after Decimal.normalize.  The loader of the vendor's  *)
(* archive (ingest_eodhd.canonicalise) writes without classifying.         *)
(***************************************************************************)
EXTENDS PartStore

CONSTANTS
    Facts,          \* revision keys
    FactYear,       \* year of the period a fact is about
    MaxSequence,    \* bound: revisions of a fact
    Observations,   \* what providers may deliver
    MaxTime,        \* bound: instants
    MaxBatch,       \* bound: observations in a delivery
    MaxDeliveries   \* bound: deliveries

ASSUME FundamentalsAssumption ==
    /\ MaxSequence \in Nat /\ MaxTime \in Nat
    /\ Keys = Facts \X (0 .. MaxSequence)
    /\ \A k \in Keys : YearOf[k] = FactYear[k[1]]
    /\ \A o \in Observations : o.fact \in Facts /\ o.available \in 1 .. MaxTime

VARIABLES
    delivery,       \* the observations of the last delivery
    deliveries      \* how many there were

factVars == <<parts, log, writer, delivery, deliveries>>

Times == 1 .. MaxTime

Row(o, sequence) ==
    [key |-> <<o.fact, sequence>>, value |-> o.value, currency |-> o.currency,
     available |-> o.available]

Sequence(r) == r.key[2]

Series(rows, fact) == {r \in rows : r.key[1] = fact}

\* The row of the highest revision
Latest(series) == CHOOSE r \in series : \A q \in series : Sequence(q) <= Sequence(r)

\* check_revision_series; revised_at is the available_at of a revision.
WellFormed(series) ==
    /\ {Sequence(r) : r \in series} = 0 .. Cardinality(series) - 1
    /\ \A r, q \in series :
          0 < Sequence(r) /\ Sequence(r) < Sequence(q) => r.available < q.available

-----------------------------------------------------------------------------
\* Mutant: compared with the original filing.
UnchangedSinceOriginal(series, o) ==
    \E r \in series : Sequence(r) = 0 /\ r.value = o.value

\* _same_value, on the latest known
Unchanged(series, o) == Latest(series).value = o.value

\* Mutant: the order of the availabilities is not checked.
AnyOrder(series, o) == FALSE

\* RevisionOrderError
TooEarly(series, o) == o.available <= Latest(series).available

Original(o) == Row(o, 0)

\* One observation against what is known, the rows of its batch included
ClassifyOne(known, result, o) ==
    LET series == Series(known \cup result.append, o.fact)
        appended(r) == [result EXCEPT !.append = @ \cup {r}]
        raised == [result EXCEPT !.raised = TRUE]
    IN  IF result.raised THEN result
        ELSE IF series = {} THEN appended(Original(o))
        ELSE IF Latest(series).currency # o.currency THEN raised
        ELSE IF Unchanged(series, o) THEN result
        ELSE IF TooEarly(series, o) THEN raised
        ELSE appended(Row(o, Sequence(Latest(series)) + 1))

\* classify_observations
Classify(known, batch) ==
    LET after[n \in 0 .. Len(batch)] ==
          IF n = 0
          THEN [append |-> {}, raised |-> \E f \in Facts : ~WellFormed(Series(known, f))]
          ELSE ClassifyOne(known, after[n - 1], batch[n])
    IN  after[Len(batch)]

Deliver(batch) ==
    /\ deliveries < MaxDeliveries
    /\ deliveries' = deliveries + 1
    /\ delivery' = batch

Batches == UNION {[1 .. n -> Observations] : n \in 1 .. MaxBatch}

\* A delivery is classified and what is new is written; nothing happens when an
\* observation is refused or there is nothing to write.
Ingest == \E batch \in Batches :
    LET result == Classify(Dataset, batch)
    IN  /\ ~result.raised
        /\ result.append # {}
        /\ KeysOf(result.append) \subseteq Keys    \* bound: MaxSequence
        /\ Submit(result.append)
        /\ Deliver(batch)

FactsInit == EmptyStore /\ delivery = <<>> /\ deliveries = 0

Write == WriteStep /\ UNCHANGED <<delivery, deliveries>>

FactsSpec == FactsInit /\ [][Ingest \/ Write]_factVars

-----------------------------------------------------------------------------
\* The row fundamentals() returns for a fact: the last of the highest revision
\* among those available; _apply_as_of
Answer(rows, fact, t) == Latest({r \in Series(rows, fact) : r.available <= t})

Answered(rows, fact, t) == \E r \in Series(rows, fact) : r.available <= t

-----------------------------------------------------------------------------
(***************************************************************************)
(* The stored series of a fact is always one a reader can trust, with a    *)
(* write half-way or crashed: revisions contiguous (check_revision_series),*)
(* each available strictly after the one before and different from it, in  *)
(* one currency (revisions.py).                                            *)
(***************************************************************************)
SeriesSound ==
    \A f \in Facts : LET series == Series(Dataset, f) IN
        /\ WellFormed(series)
        /\ \A r, q \in series :
              /\ r.currency = q.currency
              /\ Sequence(q) = Sequence(r) + 1 => r.available < q.available /\ r.value # q.value

(***************************************************************************)
(* "a restatement made retroactively visible is exactly the leak this      *)
(* module prevents" (revisions.py): a row changes the answer as of an      *)
(* instant only if it became available after the row it displaces, so a    *)
(* query between a filing and its restatement returns the filing.          *)
(***************************************************************************)
AnswersStand ==
    [][\A f \in Facts, t \in Times :
          Answered(Dataset, f, t) =>
              \/ Answer(Dataset', f, t) = Answer(Dataset, f, t)
              \/ Answer(Dataset', f, t).available > Answer(Dataset, f, t).available]_factVars
=============================================================================
