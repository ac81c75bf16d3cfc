------------------------------ MODULE Harness ------------------------------
(***************************************************************************)
(* The provider bake-off: the runner (trp/bakeoff/harness.py) visits the   *)
(* cells in order, replays the raw store or fetches over HTTP              *)
(* (trp/providers/adapters/_http.py), stores every page                    *)
(* (trp/ingestion/raw.py) and appends one record to cells.jsonl            *)
(* (trp/bakeoff/results.py).  It may be killed between any two writes and  *)
(* is then resumed.                                                        *)
(*                                                                         *)
(* A page's files are written in steps: the content, the empty sidecar,    *)
(* the sidecar's text.  Nothing reads a content without its sidecar, so a  *)
(* content is one step.  Checks are left out: they never abort a run.  The *)
(* end of the history is a given date (history_end), so that a cell's      *)
(* parameters are the same in every run.                                   *)
(***************************************************************************)
EXTENDS Integers, Sequences, FiniteSets, Functions

CONSTANTS
    Order,          \* the cells (provider, security, dataset) in the order of the loops
    Pages,          \* the requests of each cell
    MaxAttempts,    \* _MAX_ATTEMPTS
    MaxRetries,     \* max_rate_limit_retries
    MaxCrashes      \* bound: kills

\* A cell is met once in the loops.
ASSUME OrderAssumption ==
    /\ Order \in Seq({Order[i] : i \in DOMAIN Order})
    /\ IsInjective(Order)

Cells == {Order[i] : i \in DOMAIN Order}

\* It is fetched with one request or more, each for a page of its own.
ASSUME PagesAssumption ==
    \A c \in Cells : /\ Pages[c] \in Seq({Pages[c][i] : i \in DOMAIN Pages[c]})
                     /\ Pages[c] # <<>> /\ IsInjective(Pages[c])

VARIABLES
    store,          \* RawStore: the stored pages of each cell
    records,        \* cells.jsonl
    torn,           \* its last line is not complete
    work,           \* run_bakeoff's locals
    crashes

harnessing == <<store, records, torn, work, crashes>>

\* Mutant: the sidecar before the content.
SidecarFirst == <<"create", "fill", "content">>

\* RawStore.write
FileSteps == <<"content", "create", "fill">>

NoWork == [pc |-> "down", done |-> {}, at |-> 1, asked |-> 1, attempt |-> 1, throttles |-> 0,
         pages |-> <<>>, refs |-> <<>>, status |-> "ok", replayed |-> FALSE]

Cell == Order[work.at]

At(pc) == work.pc = pc

Sidecar(file) == "create" \in file.written

Whole(file) == "fill" \in file.written

\* Mutant: what the store holds is not looked at.
NothingStored(c) == {}

\* _replay_payloads: the sidecars found under the cell's parameters
Stored(c) == {i \in DOMAIN store[c] : Sidecar(store[c][i])}

\* RawStore.records: sorted by name, as the pages were written
InNameOrder(files) ==
    CHOOSE refs \in [1 .. Cardinality(files) -> files] :
        \A i, j \in DOMAIN refs : i < j => refs[i] < refs[j]

\* Mutant: only the cells that were fetched count as completed.
FetchedCells == {r.cell : r \in {q \in Range(records) : q.status = "ok"}}

\* completed_cells
CompletedCells == {records[i].cell : i \in DOMAIN records}

-----------------------------------------------------------------------------
HarnessInit ==
    /\ records = <<>> /\ torn = FALSE /\ crashes = 0
    /\ store = [c \in Cells |-> <<>>]
    /\ work = NoWork

\* run_bakeoff from create_run on, resumed when the directory exists;
\* completed_cells raises on a torn line.
StartRun ==
    /\ At("down") \/ At("finished")
    /\ ~torn
    /\ work' = [NoWork EXCEPT !.pc = "pick", !.done = CompletedCells]
    /\ UNCHANGED <<store, records, torn, crashes>>

Picking == At("pick") /\ work.at <= Len(Order)

Skip ==
    /\ Picking /\ Cell \in work.done
    /\ work' = [work EXCEPT !.at = @ + 1]
    /\ UNCHANGED <<store, records, torn, crashes>>

\* A sidecar without text does not validate: the run is aborted.
Replay ==
    /\ Picking /\ Cell \notin work.done /\ Stored(Cell) # {}
    /\ work' = IF \A i \in Stored(Cell) : Whole(store[Cell][i])
               THEN LET refs == InNameOrder(Stored(Cell))
                    IN  [work EXCEPT !.pc = "append", !.replayed = TRUE, !.refs = refs,
                                     !.pages = [k \in DOMAIN refs |-> store[Cell][refs[k]].page]]
               ELSE NoWork
    /\ UNCHANGED <<store, records, torn, crashes>>

Fetch ==
    /\ Picking /\ Cell \notin work.done /\ Stored(Cell) = {}
    /\ work' = [work EXCEPT !.pc = "http"]
    /\ UNCHANGED <<store, records, torn, crashes>>

-----------------------------------------------------------------------------
(***************************************************************************)
(* _fetch around get_with_retries: what becomes of the work on a response. *)
(***************************************************************************)
GiveUp(status) == [work EXCEPT !.pc = "append", !.pages = <<>>, !.status = status]

\* The next request, or the end of the pages
NextRequest(w) ==
    IF w.asked < Len(Pages[Cell])
    THEN [w EXCEPT !.asked = @ + 1, !.attempt = 1]
    ELSE [w EXCEPT !.pc = "persist", !.attempt = 1,
                   !.status = IF w.pages = <<>> THEN "empty" ELSE "ok"]

\* Mutant: a page that arrives resets the retry budget.
DeliveredAfresh == [work EXCEPT !.pages = Append(@, Pages[Cell][work.asked]), !.throttles = 0]

Delivered == [work EXCEPT !.pages = Append(@, Pages[Cell][work.asked])]

OutOfAttempts == work.attempt >= MaxAttempts

\* All the pages are asked for again.
Again == [work EXCEPT !.throttles = @ + 1, !.asked = 1, !.attempt = 1, !.pages = <<>>]

OnResponse(response) ==
    CASE response = "200" -> NextRequest(Delivered)
      [] response = "404" -> NextRequest(work)
      [] response = "denied" -> GiveUp("provider_error")
      [] response = "5xx" -> IF OutOfAttempts THEN GiveUp("provider_error")
                             ELSE [work EXCEPT !.attempt = @ + 1]
      [] response = "429" -> IF work.throttles < MaxRetries THEN Again
                             ELSE [GiveUp("rate_limited") EXCEPT !.throttles = @ + 1]

Http ==
    /\ At("http")
    /\ \E response \in {"200", "404", "denied", "5xx", "429"} : work' = OnResponse(response)
    /\ UNCHANGED <<store, records, torn, crashes>>

\* ProviderCapabilityError: the provider has no such dataset.
Unsupported ==
    /\ At("http") /\ work.asked = 1 /\ work.attempt = 1 /\ work.throttles = 0
    /\ work' = GiveUp("unsupported")
    /\ UNCHANGED <<store, records, torn, crashes>>

-----------------------------------------------------------------------------
\* RawStore.write: the next page, under a name of its own
NewPage ==
    /\ At("persist") /\ Len(work.refs) < Len(work.pages)
    /\ store' = [store EXCEPT ![Cell] =
                    Append(@, [page |-> work.pages[Len(work.refs) + 1], written |-> {FileSteps[1]}])]
    /\ work' = [work EXCEPT !.pc = "write"]
    /\ UNCHANGED <<records, torn, crashes>>

WritePage ==
    LET n == Len(store[Cell])
        written == store[Cell][n].written
        step == FileSteps[Cardinality(written) + 1]
    IN  /\ At("write")
        /\ store' = [store EXCEPT ![Cell][n].written = written \cup {step}]
        /\ work' = IF Cardinality(written) + 1 = Len(FileSteps)
                   THEN [work EXCEPT !.pc = "persist", !.refs = Append(@, n)] ELSE work
        /\ UNCHANGED <<records, torn, crashes>>

Persisted ==
    /\ At("persist") /\ Len(work.refs) = Len(work.pages)
    /\ work' = [work EXCEPT !.pc = "append"]
    /\ UNCHANGED <<store, records, torn, crashes>>

\* append_cell: a line longer than the buffer is written in parts.
BeginAppend ==
    /\ At("append")
    /\ torn' = TRUE
    /\ work' = [work EXCEPT !.pc = "appending"]
    /\ UNCHANGED <<store, records, crashes>>

EndAppend ==
    /\ At("appending")
    /\ torn' = FALSE
    /\ records' = Append(records, [cell |-> Cell, status |-> work.status, pages |-> work.pages,
                                   refs |-> work.refs, replayed |-> work.replayed,
                                   throttles |-> work.throttles])
    /\ work' = [NoWork EXCEPT !.pc = "pick", !.done = work.done, !.at = work.at + 1]
    /\ UNCHANGED <<store, crashes>>

Finish ==
    /\ At("pick") /\ work.at > Len(Order)
    /\ work' = [NoWork EXCEPT !.pc = "finished"]
    /\ UNCHANGED <<store, records, torn, crashes>>

Kill ==
    /\ ~At("down") /\ ~At("finished") /\ crashes < MaxCrashes
    /\ crashes' = crashes + 1
    /\ work' = NoWork
    /\ UNCHANGED <<store, records, torn>>

Run == \/ StartRun \/ Skip \/ Replay \/ Fetch \/ Http \/ Unsupported
       \/ NewPage \/ WritePage \/ Persisted \/ BeginAppend \/ EndAppend \/ Finish

HarnessNext == Run \/ Kill

HarnessSpec == HarnessInit /\ [][HarnessNext]_harnessing

\* The process keeps running, every request is answered or times out, and a
\* killed run is resumed.
FairSpec == HarnessSpec /\ WF_harnessing(Run)

-----------------------------------------------------------------------------
(***************************************************************************)
(* "A failed check must be adjudicable months later": a sidecar that can   *)
(* be read has its content, a record's references are the pages its checks *)
(* were run on, and these saw no page twice, whatever was throttled,       *)
(* killed or replayed before.                                              *)
(***************************************************************************)
EvidenceReadable ==
    /\ \A c \in Cells : \A i \in DOMAIN store[c] :
          Whole(store[c][i]) => "content" \in store[c][i].written
    /\ \A r \in Range(records) :
          /\ \A i \in Range(r.refs) : Whole(store[r.cell][i])
          /\ r.pages = [k \in DOMAIN r.refs |-> store[r.cell][r.refs[k]].page]
          /\ IsInjective(r.pages)

(***************************************************************************)
(* Resumed as often as it may be, a run has one record for a cell.         *)
(***************************************************************************)
OneRecordACell == \A i, j \in DOMAIN records : records[i].cell = records[j].cell => i = j

(***************************************************************************)
(* No quota is spent on a cell of which evidence is stored, or that is     *)
(* recorded.                                                               *)
(***************************************************************************)
NeverRefetched ==
    At("http") => /\ Cell \notin CompletedCells
                  /\ \A i \in DOMAIN store[Cell] : ~Whole(store[Cell][i])

\* A kill left a torn line, or a sidecar without text of a cell to come.
Damaged ==
    \/ torn
    \/ \E c \in Cells \ CompletedCells : \E i \in Stored(c) : ~Whole(store[c][i])

(***************************************************************************)
(* A run finishes, unless a kill left damage that no run gets over.        *)
(***************************************************************************)
Completes == <>At("finished") \/ <>[]Damaged
=============================================================================
