----------------------------- MODULE PartStore ------------------------------
(***************************************************************************)
(* The append-only write that the canonical stores share: a batch is       *)
(* compared with what is stored, staged as one part file per partition,    *)
(* renamed file by file and logged, and a crash can stop it between any    *)
(* two of those.  The prices (trp/canonical/price_store.py) are the        *)
(* reference; fundamentals/storage.py does the same steps.                 *)
(*                                                                         *)
(* A staged file that is never renamed is not modelled: its name does not  *)
(* match part-*.parquet and the next write of that part replaces it.       *)
(* There is one writer at a time (DEC-003).                                *)
(***************************************************************************)
EXTENDS Integers, Sequences, FiniteSets

CONSTANTS
    Keys,       \* row keys; a row is a record with a field key
    Years,      \* years of the partitions
    YearOf      \* partition of a key

ASSUME PartStoreAssumption == YearOf \in [Keys -> Years]

VARIABLES
    parts,      \* part files: <<year, n>> -> set of rows
    log,        \* _ingestion_log.jsonl
    writer      \* the write under way

store == <<parts, log, writer>>

Idle == [pc |-> "idle"]

Dataset == UNION {parts[f] : f \in DOMAIN parts}

PartsOf(year) == {f \in DOMAIN parts : f[1] = year}

KeysOf(rows) == {r.key : r \in rows}

\* Mutant: the anti-join compares the whole row.
UnseenRows(rows) == rows \ Dataset

\* _existing_keys and the anti-join, over the partitions the batch touches
NewRows(rows) ==
    LET touched == {YearOf[k] : k \in KeysOf(rows)}
        existing == KeysOf(UNION {parts[f] : f \in UNION {PartsOf(y) : y \in touched}})
    IN  {r \in rows : r.key \notin existing}

\* Mutant: the sequence number is the one of the last part.
LastPart(year) == IF PartsOf(year) = {} THEN 0 ELSE Cardinality(PartsOf(year)) - 1

NextPart(year) == Cardinality(PartsOf(year))

\* The rows of a file of the batch
RowsIn(rows, year) == {r \in rows : YearOf[r.key] = year}

-----------------------------------------------------------------------------
\* A batch of rows is handed to the writer.
Submit(rows) ==
    /\ writer.pc = "idle"
    /\ writer' = [pc |-> "dedupe", batch |-> rows]
    /\ UNCHANGED <<parts, log>>

\* Everything of the batch is stored already: only the log says so.
NothingNew ==
    /\ writer.pc = "dedupe" /\ NewRows(writer.batch) = {}
    /\ log' = Append(log, {})
    /\ writer' = Idle
    /\ UNCHANGED parts

Stage ==
    /\ writer.pc = "dedupe" /\ NewRows(writer.batch) # {}
    /\ LET new == NewRows(writer.batch)
           files == {<<y, NextPart(y)>> : y \in {YearOf[k] : k \in KeysOf(new)}}
       IN  writer' = [pc |-> "rename", batch |-> writer.batch, new |-> new,
                         staged |-> files, files |-> files]
    /\ UNCHANGED <<parts, log>>

\* tmp.replace(final), one partition at a time
Rename ==
    /\ writer.pc = "rename"
    /\ \E f \in writer.staged :
          /\ parts' = [g \in DOMAIN parts \cup {f} |->
                         IF g = f THEN RowsIn(writer.new, f[1]) ELSE parts[g]]
          /\ writer' = [writer EXCEPT !.staged = @ \ {f}]
    /\ UNCHANGED log

Log ==
    /\ writer.pc = "rename" /\ writer.staged = {}
    /\ log' = Append(log, writer.files)
    /\ writer' = Idle
    /\ UNCHANGED parts

Crash ==
    /\ writer.pc # "idle"
    /\ writer' = Idle
    /\ UNCHANGED <<parts, log>>

EmptyStore == /\ parts = <<>> /\ log = <<>> /\ writer = Idle

WriteStep == NothingNew \/ Stage \/ Rename \/ Log \/ Crash

\* A write that returns: logged, whether it added files or not
Returns == writer.pc # "idle" /\ writer'.pc = "idle" /\ log' # log

-----------------------------------------------------------------------------
(***************************************************************************)
(* "a re-run over identical input writes nothing and cannot duplicate a    *)
(* bar" (write_prices): no key is stored twice, in one file or in two,     *)
(* whatever crashed half-way and however the batch was revised before the  *)
(* retry.                                                                  *)
(***************************************************************************)
NoDuplicates ==
    \A f, g \in DOMAIN parts : \A r \in parts[f], q \in parts[g] :
        r.key = q.key => f = g /\ r = q

(***************************************************************************)
(* "existing files are NEVER rewritten" (price_store.py, storage.py).      *)
(***************************************************************************)
NeverRewritten ==
    [][\A f \in DOMAIN parts : f \in DOMAIN parts' /\ parts'[f] = parts[f]]_store
=============================================================================
