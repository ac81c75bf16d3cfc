--------------------------- MODULE EvidenceProofs ---------------------------
(***************************************************************************)
(* Theorems about what the platform finds and where it keeps it.           *)
(*                                                                         *)
(* The experiment registry: for any number of sessions that overlap and    *)
(* crash anywhere, a conclusion stands on a run on record and a run on its *)
(* directory.                                                              *)
(*                                                                         *)
(* The bake-off harness, for any cells, pages, limits and number of kills. *)
(* A run reads the completed cells once, when it starts.  The theorems     *)
(* rest on what is true of that set while the run goes on: a recorded cell *)
(* was recorded before the run started or lies before the cell at work,    *)
(* which the loops meet once; and EvidenceKept on what the work holds of   *)
(* the pages while it fetches, stores and records them.                    *)
(*                                                                         *)
(* The checks of a cell: a split or a dividend passes exactly when some    *)
(* record of the pages states it; stamps pass that are no placeholders.    *)
(***************************************************************************)
EXTENDS Registry, Harness, ActionChecks, FundamentalChecks, TLAPS, FiniteSetTheorems, NaturalsInduction, WellFoundedInduction

IsRow(row) == row = [design |-> row.design, status |-> row.status,
                     cited |-> row.cited, warned |-> row.warned]

\* What a status claims of an experiment's runs
Backed(e, row) ==
    /\ row.status \in {"completed", "concluded"} => RunsFor(e) # {}
    /\ row.status = "concluded" =>
          /\ row.cited \in DOMAIN runs
          /\ runs[row.cited].exp = e
          /\ row.design.class = "confirmatory" => runs[row.cited].reproducible

\* Every row of the experiments is backed.
ExperimentsOK ==
    \A e \in DOMAIN exps : IsRow(exps[e]) /\ Backed(e, exps[e])

\* A run is of an experiment, and says of itself whether it can be reproduced.
RunsOK ==
    \A r \in DOMAIN runs :
        /\ runs[r].exp \in DOMAIN exps
        /\ runs[r].reproducible <=> ~runs[r].manifest.dirty

\* A directory this session has made holds the metrics of its execution.
Made(op, done) ==
    LET dir == Dir(op.run, op.attempt)
    IN  /\ dir \in DOMAIN artefacts
        /\ artefacts[dir] = [metrics |-> op.metrics, done |-> done]

\* What a session holds in its hands, by how far it has come.
Holding(op) ==
    /\ op.pc \in {"start", "write", "capture", "index", "execute", "publish", "files", "record", "complete"}
          => op.exp \in DOMAIN exps
    /\ op.pc \in {"start", "write"} =>
          IsRow(op.row) /\ op.row.design = exps[op.exp].design /\ Backed(op.exp, op.row)
    /\ op.pc \in {"publish", "files", "record"} =>
          op = [pc |-> op.pc, exp |-> op.exp, manifest |-> op.manifest, attempt |-> op.attempt,
                run |-> op.run, metrics |-> op.metrics]
    /\ op.pc = "files" => Made(op, artefacts[Dir(op.run, op.attempt)].done)
    /\ op.pc = "record" => op.attempt = 0 /\ Made(op, TRUE)
    /\ op.pc = "complete" => RunsFor(op.exp) # {}

SessionsOK ==
    /\ session = [p \in Sessions |-> session[p]]
    /\ \A p \in Sessions : Holding(session[p])

IInv == ExperimentsOK /\ RunsOK /\ RowsMatchArtefacts /\ SessionsOK


\* The tables and the directories only grow: what is on record stays.
Grows ==
    /\ \A e \in DOMAIN exps : e \in DOMAIN exps' /\ exps'[e].design = exps[e].design
    /\ \A r \in DOMAIN runs : r \in DOMAIN runs' /\ runs'[r] = runs[r]
    /\ \A d \in DOMAIN artefacts :
          /\ d \in DOMAIN artefacts'
          /\ artefacts'[d] \in {artefacts[d], [metrics |-> artefacts[d].metrics, done |-> TRUE]}

-----------------------------------------------------------------------------
\* What a status claims stays true as the tables grow.
LEMMA BackedStands ==
    ASSUME Grows, NEW e, NEW row, Backed(e, row)
    PROVE  Backed(e, row)'
<1>1. \A r \in DOMAIN runs : r \in DOMAIN runs' /\ runs'[r] = runs[r]
  BY DEF Grows
<1>2. RunsFor(e) # {} => RunsFor(e)' # {}
  BY <1>1 DEF RunsFor
<1>. QED  BY <1>1, <1>2 DEF Backed

\* What a session holds stays good as the tables grow.
LEMMA HoldingStands ==
    ASSUME Grows, NEW op, Holding(op)
    PROVE  Holding(op)'
<1>. DEFINE dir == Dir(op.run, op.attempt)
<1>1. /\ \A e \in DOMAIN exps : e \in DOMAIN exps' /\ exps'[e].design = exps[e].design
      /\ \A r \in DOMAIN runs : r \in DOMAIN runs' /\ runs'[r] = runs[r]
      /\ \A d \in DOMAIN artefacts :
            /\ d \in DOMAIN artefacts'
            /\ artefacts'[d] \in {artefacts[d], [metrics |-> artefacts[d].metrics, done |-> TRUE]}
  BY DEF Grows
<1>2. ASSUME op.pc \in {"start", "write"}
      PROVE  IsRow(op.row)' /\ op.row.design = exps'[op.exp].design /\ Backed(op.exp, op.row)'
  <2>1. op.exp \in DOMAIN exps /\ IsRow(op.row) /\ op.row.design = exps[op.exp].design
        /\ Backed(op.exp, op.row)
    BY <1>2 DEF Holding
  <2>2. Backed(op.exp, op.row)'
    BY <2>1, BackedStands
  <2>. QED  BY <1>1, <2>1, <2>2 DEF IsRow
<1>3. ASSUME dir \in DOMAIN artefacts, NEW done, artefacts[dir] = [metrics |-> op.metrics, done |-> done]
      PROVE  /\ dir \in DOMAIN artefacts'
             /\ artefacts'[dir] \in {[metrics |-> op.metrics, done |-> done],
                                     [metrics |-> op.metrics, done |-> TRUE]}
  <2>1. artefacts[dir].metrics = op.metrics
    BY <1>3
  <2>2. dir \in DOMAIN artefacts'
        /\ artefacts'[dir] \in {artefacts[dir], [metrics |-> artefacts[dir].metrics, done |-> TRUE]}
    BY <1>1, <1>3
  <2>. QED  BY <2>1, <2>2, <1>3, Zenon
<1>4. ASSUME op.pc = "files"
      PROVE  Made(op, artefacts[dir].done)'
  <2>1. dir \in DOMAIN artefacts
        /\ artefacts[dir] = [metrics |-> op.metrics, done |-> artefacts[dir].done]
    BY <1>4 DEF Holding, Made
  <2>2. dir \in DOMAIN artefacts'
        /\ artefacts'[dir] = [metrics |-> op.metrics, done |-> artefacts'[dir].done]
    BY <2>1, <1>3
  <2>. QED  BY <2>2 DEF Made, Dir
<1>5. ASSUME op.pc = "record"
      PROVE  op.attempt = 0 /\ Made(op, TRUE)'
  <2>1. op.attempt = 0 /\ dir \in DOMAIN artefacts /\ artefacts[dir] = [metrics |-> op.metrics, done |-> TRUE]
    BY <1>5 DEF Holding, Made
  <2>2. /\ dir \in DOMAIN artefacts'
        /\ artefacts'[dir] \in {[metrics |-> op.metrics, done |-> TRUE],
                                [metrics |-> op.metrics, done |-> TRUE]}
    BY <2>1, <1>3, Zenon
  <2>. QED  BY <2>1, <2>2 DEF Made, Dir
<1>6. RunsFor(op.exp) # {} => RunsFor(op.exp)' # {}
  BY <1>1 DEF RunsFor
<1>. QED  BY <1>1, <1>2, <1>4, <1>5, <1>6 DEF Holding, Dir

\* Only one session moves.
LEMMA OneMoves ==
    ASSUME SessionsOK, Grows, NEW p \in Sessions,
           session' = [session EXCEPT ![p] = session'[p]], Holding(session[p])'
    PROVE  SessionsOK'
<1>1. session = [q \in Sessions |-> session[q]]
  BY DEF SessionsOK
<1>2. session' = [q \in Sessions |-> session'[q]]
  BY <1>1
<1>3. ASSUME NEW q \in Sessions
      PROVE  Holding(session[q])'
  <2>1. CASE q = p
    BY <2>1
  <2>2. CASE q # p
    <3>1. PICK op : op = session[q]
      OBVIOUS
    <3>2. session'[q] = op
      BY <1>1, <2>2, <3>1
    <3>3. Holding(op)
      BY <3>1 DEF SessionsOK
    <3>4. Holding(op)'
      BY <3>3, HoldingStands
    <3>. QED  BY <3>2, <3>4
  <2>. QED  BY <2>1, <2>2
<1>. QED  BY <1>2, <1>3 DEF SessionsOK

\* The tables and the directories as they were
LEMMA TablesStand ==
    ASSUME IInv, UNCHANGED <<exps, runs, artefacts>>
    PROVE  ExperimentsOK' /\ RunsOK' /\ RowsMatchArtefacts' /\ Grows
<1>1. exps' = exps /\ runs' = runs /\ artefacts' = artefacts
  OBVIOUS
<1>2. ExperimentsOK'
  BY <1>1 DEF IInv, ExperimentsOK, Backed, RunsFor, IsRow
<1>3. RunsOK' /\ RowsMatchArtefacts'
  BY <1>1 DEF IInv, RunsOK, RowsMatchArtefacts, Dir
<1>4. Grows
  BY <1>1 DEF Grows
<1>. QED  BY <1>2, <1>3, <1>4

\* Steps that only change what a session holds.
LEMMA SessionOnly ==
    ASSUME IInv, UNCHANGED <<exps, runs, artefacts>>, NEW p \in Sessions,
           session' = [session EXCEPT ![p] = session'[p]], Holding(session[p])'
    PROVE  IInv'
  BY TablesStand, OneMoves DEF IInv

\* The initial registry is empty.
LEMMA InitIInv == Init => IInv
<1>. SUFFICES ASSUME Init PROVE IInv
  OBVIOUS
<1>1. DOMAIN exps = {} /\ DOMAIN runs = {} /\ session = [p \in Sessions |-> Idle]
  BY DEF Init
<1>2. ExperimentsOK /\ RunsOK /\ RowsMatchArtefacts
  BY <1>1 DEF ExperimentsOK, RunsOK, RowsMatchArtefacts
<1>3. \A p \in Sessions : session[p].pc = "idle"
  BY <1>1 DEF Idle
<1>4. \A p \in Sessions : Holding(session[p])
  BY <1>3 DEF Holding
<1>5. session = [p \in Sessions |-> session[p]]
  BY <1>1
<1>. QED  BY <1>2, <1>4, <1>5 DEF IInv, SessionsOK

-----------------------------------------------------------------------------
\* A session takes up something good, and the tables are left alone.
LEMMA MoveTo ==
    ASSUME IInv, UNCHANGED <<exps, runs, artefacts>>,
           NEW p \in Sessions, NEW op, session' = [session EXCEPT ![p] = op], Holding(op)
    PROVE  IInv'
<1>1. session'[p] = op
  BY DEF IInv, SessionsOK
<1>2. Holding(op)'
  BY TablesStand, HoldingStands
<1>3. Holding(session[p])'
  BY <1>1, <1>2
<1>4. session' = [session EXCEPT ![p] = session'[p]]
  BY <1>1
<1>. QED  BY <1>3, <1>4, SessionOnly

\* A session that holds nothing
LEMMA EmptyHanded ==
    ASSUME NEW op, op.pc \in {"idle", "refused", "reproduced", "mismatch"}
    PROVE  Holding(op)
  BY DEF Holding

\* The operation ends, or the session crashes.
LEMMA GoIdle ==
    ASSUME IInv, UNCHANGED <<exps, runs, artefacts>>,
           NEW p \in Sessions, session' = [session EXCEPT ![p] = Idle]
    PROVE  IInv'
<1>1. Idle.pc = "idle"
  BY DEF Idle
<1>2. Holding(Idle)
  BY <1>1, EmptyHanded
<1>. QED  BY <1>2, MoveTo

\* A new status for a row of the table
LEMMA RowWithStatus ==
    ASSUME NEW row, IsRow(row), NEW status
    PROVE  LET new == [row EXCEPT !.status = status]
           IN  /\ IsRow(new) /\ new.status = status
               /\ new.design = row.design /\ new.cited = row.cited
<1>. DEFINE new == [row EXCEPT !.status = status]
<1>1. row = [design |-> row.design, status |-> row.status, cited |-> row.cited, warned |-> row.warned]
  BY DEF IsRow
<1>2. new = [design |-> row.design, status |-> status, cited |-> row.cited, warned |-> row.warned]
  BY <1>1
<1>. QED  BY <1>2 DEF IsRow

\* Registry._transition, up to the UPDATE
LEMMA BeginsWell ==
    ASSUME IInv, UNCHANGED <<exps, runs, artefacts>>,
           NEW p \in Sessions, NEW e \in DOMAIN exps, NEW pc \in {"start", "write"}, NEW row,
           IsRow(row), row.design = exps[e].design, Backed(e, row),
           BeginTransition(p, e, pc, row)
    PROVE  IInv'
<1>. DEFINE op == [pc |-> pc, exp |-> e, row |-> row]
<1>1. op.pc = pc /\ op.exp = e /\ op.row = row
  OBVIOUS
<1>2. session' = [session EXCEPT ![p] = op]
  BY DEF BeginTransition
<1>. HIDE DEF op
<1>3. Holding(op)
  BY <1>1 DEF Holding
<1>. QED  BY <1>2, <1>3, MoveTo

\* Start: a running experiment claims nothing.
LEMMA StartIInv == ASSUME IInv, NEW p \in Sessions, Start(p) PROVE IInv'
<1>1. PICK e \in DOMAIN exps : BeginTransition(p, e, "start", [exps[e] EXCEPT !.status = "running"])
  BY DEF Start
<1>2. IsRow(exps[e])
  BY DEF IInv, ExperimentsOK
<1>. DEFINE row == [exps[e] EXCEPT !.status = "running"]
<1>3. IsRow(row) /\ row.status = "running" /\ row.design = exps[e].design
  BY <1>2, RowWithStatus
<1>4. UNCHANGED <<exps, runs, artefacts>>
  BY DEF Start
<1>. HIDE DEF row
<1>5. Backed(e, row)
  BY <1>3 DEF Backed
<1>6. BeginTransition(p, e, "start", row)
  BY <1>1 DEF row
<1>. QED  BY <1>3, <1>4, <1>5, <1>6, BeginsWell

\* Abandon: nor does an abandoned one.
LEMMA AbandonIInv == ASSUME IInv, NEW p \in Sessions, Abandon(p) PROVE IInv'
<1>1. PICK e \in DOMAIN exps : BeginTransition(p, e, "write", [exps[e] EXCEPT !.status = "abandoned"])
  BY DEF Abandon
<1>2. IsRow(exps[e])
  BY DEF IInv, ExperimentsOK
<1>. DEFINE row == [exps[e] EXCEPT !.status = "abandoned"]
<1>3. IsRow(row) /\ row.status = "abandoned" /\ row.design = exps[e].design
  BY <1>2, RowWithStatus
<1>4. UNCHANGED <<exps, runs, artefacts>>
  BY DEF Abandon
<1>. HIDE DEF row
<1>5. Backed(e, row)
  BY <1>3 DEF Backed
<1>6. BeginTransition(p, e, "write", row)
  BY <1>1 DEF row
<1>. QED  BY <1>3, <1>4, <1>5, <1>6, BeginsWell

\* Conclude: the run it cites is on record, and is one that may be cited.
LEMMA ConcludeIInv == ASSUME IInv, NEW p \in Sessions, Conclude(p) PROVE IInv'
<1>1. PICK e \in DOMAIN exps, r \in DOMAIN runs :
          /\ Citable(e, r)
          /\ LET h == exps[e].design.hyp
             IN  BeginTransition(p, e, "write",
                    [exps[e] EXCEPT !.status = "concluded", !.cited = r,
                        !.warned = Variants(h) > VariantThreshold /\ ~HasOutOfSample(h)])
  BY DEF Conclude
<1>2. PICK w : w = (Variants(exps[e].design.hyp) > VariantThreshold /\ ~HasOutOfSample(exps[e].design.hyp))
  OBVIOUS
<1>. DEFINE row == [exps[e] EXCEPT !.status = "concluded", !.cited = r, !.warned = w]
<1>3. BeginTransition(p, e, "write", row)
  BY <1>1, <1>2
<1>4. row = [design |-> exps[e].design, status |-> "concluded", cited |-> r, warned |-> w]
  <2>1. exps[e] = [design |-> exps[e].design, status |-> exps[e].status,
                   cited |-> exps[e].cited, warned |-> exps[e].warned]
    BY DEF IInv, ExperimentsOK, IsRow
  <2>2. PICK old : old = exps[e]
    OBVIOUS
  <2>3. row = [old EXCEPT !.status = "concluded", !.cited = r, !.warned = w]
    BY <2>2
  <2>4. old = [design |-> old.design, status |-> old.status, cited |-> old.cited, warned |-> old.warned]
    BY <2>1, <2>2
  <2>. HIDE DEF row
  <2>5. row = [design |-> old.design, status |-> "concluded", cited |-> r, warned |-> w]
    BY <2>3, <2>4
  <2>. QED  BY <2>2, <2>5
<1>. HIDE DEF row
<1>5. IsRow(row) /\ row.design = exps[e].design /\ row.status = "concluded" /\ row.cited = r
  BY <1>4 DEF IsRow
<1>6. Backed(e, row)
  BY <1>1, <1>5 DEF Backed, Citable, RunsFor
<1>7. UNCHANGED <<exps, runs, artefacts>>
  BY DEF Conclude
<1>. QED  BY <1>3, <1>5, <1>6, <1>7, BeginsWell

\* Complete: the run has been recorded before.
LEMMA CompleteIInv == ASSUME IInv, NEW p \in Sessions, Complete(p) PROVE IInv'
<1>. DEFINE e == session[p].exp
            row == [exps[e] EXCEPT !.status = "completed"]
<1>1. UNCHANGED <<exps, runs, artefacts>>
  BY DEF Complete
<1>2. e \in DOMAIN exps /\ RunsFor(e) # {}
  BY DEF Complete, IInv, SessionsOK, Holding
<1>3. CASE session' = [session EXCEPT ![p] = Idle]
  BY <1>1, <1>3, GoIdle
<1>4. CASE BeginTransition(p, e, "write", row)
  <2>1. IsRow(exps[e])
    BY <1>2 DEF IInv, ExperimentsOK
  <2>2. IsRow(row) /\ row.status = "completed" /\ row.design = exps[e].design
    BY <2>1, RowWithStatus
  <2>. HIDE DEF e, row
  <2>3. Backed(e, row)
    BY <2>2, <1>2 DEF Backed
  <2>. QED  BY <1>1, <1>2, <1>4, <2>2, <2>3, BeginsWell
<1>. QED  BY <1>3, <1>4 DEF Complete

-----------------------------------------------------------------------------
\* A session without work keeps what it holds while it goes on.
LEMMA GoOn ==
    ASSUME IInv, UNCHANGED <<exps, runs, artefacts>>, NEW p \in Sessions,
           NEW op, session' = [session EXCEPT ![p] = op],
           op.pc \in {"capture", "index", "execute"}, op.exp \in DOMAIN exps
    PROVE  IInv'
<1>1. Holding(op)
  BY DEF Holding
<1>. QED  BY <1>1, MoveTo

\* capture_manifest
LEMMA CaptureIInv == ASSUME IInv, NEW p \in Sessions, Capture(p) PROVE IInv'
<1>1. session[p].exp \in DOMAIN exps
  BY DEF Capture, IInv, SessionsOK, Holding
<1>. DEFINE op == [pc |-> "index", exp |-> session[p].exp, manifest |-> env]
<1>2. session' = [session EXCEPT ![p] = op]
  BY DEF Capture, IInv, SessionsOK
<1>3. op.pc = "index" /\ op.exp \in DOMAIN exps
  BY <1>1
<1>4. UNCHANGED <<exps, runs, artefacts>>
  BY DEF Capture
<1>. HIDE DEF op
<1>. QED  BY <1>2, <1>3, <1>4, GoOn

\* The next run id of the experiment
LEMMA IndexRunIInv == ASSUME IInv, NEW p \in Sessions, IndexRun(p) PROVE IInv'
<1>1. session[p].exp \in DOMAIN exps
  BY DEF IndexRun, IInv, SessionsOK, Holding
<1>. DEFINE op == [pc |-> "execute", exp |-> session[p].exp, manifest |-> session[p].manifest,
                   attempt |-> 0,
                   run |-> <<exps[session[p].exp].design.name, NextRunIndex(session[p].exp)>>]
<1>2. session' = [session EXCEPT ![p] = op]
  BY DEF IndexRun
<1>3. op.pc = "execute" /\ op.exp \in DOMAIN exps
  BY <1>1
<1>4. UNCHANGED <<exps, runs, artefacts>>
  BY DEF IndexRun
<1>. HIDE DEF op
<1>. QED  BY <1>2, <1>3, <1>4, GoOn

\* rerun: a run on record is of an experiment on record.
LEMMA RerunIInv == ASSUME IInv, NEW p \in Sessions, Rerun(p) PROVE IInv'
<1>1. PICK r \in DOMAIN runs :
          session' = [session EXCEPT ![p] =
                [pc |-> "execute", exp |-> runs[r].exp, manifest |-> runs[r].manifest,
                 attempt |-> NextRunIndex(runs[r].exp), run |-> r]]
  BY DEF Rerun
<1>. DEFINE op == [pc |-> "execute", exp |-> runs[r].exp, manifest |-> runs[r].manifest,
                   attempt |-> NextRunIndex(runs[r].exp), run |-> r]
<1>2. op.pc = "execute" /\ op.exp \in DOMAIN exps
  BY DEF IInv, RunsOK
<1>3. UNCHANGED <<exps, runs, artefacts>>
  BY DEF Rerun
<1>4. session' = [session EXCEPT ![p] = op]
  BY <1>1
<1>. HIDE DEF op
<1>. QED  BY <1>2, <1>3, <1>4, GoOn

\* The executor
LEMMA ExecuteIInv == ASSUME IInv, NEW p \in Sessions, Execute(p) PROVE IInv'
<1>1. session[p].exp \in DOMAIN exps
  BY DEF Execute, IInv, SessionsOK, Holding
<1>. DEFINE op == [pc |-> "publish", exp |-> session[p].exp, manifest |-> session[p].manifest,
                   attempt |-> session[p].attempt, run |-> session[p].run, metrics |-> env]
<1>2. session' = [session EXCEPT ![p] = op]
  BY DEF Execute
<1>3. /\ op.pc = "publish" /\ op.exp \in DOMAIN exps
      /\ op = [pc |-> op.pc, exp |-> op.exp, manifest |-> op.manifest, attempt |-> op.attempt,
               run |-> op.run, metrics |-> op.metrics]
  BY <1>1
<1>4. UNCHANGED <<exps, runs, artefacts>>
  BY DEF Execute
<1>. HIDE DEF op
<1>5. Holding(op)
  BY <1>3 DEF Holding
<1>. QED  BY <1>2, <1>4, <1>5, MoveTo

\* rerun, the comparison
LEMMA CompareIInv == ASSUME IInv, NEW p \in Sessions, Compare(p) PROVE IInv'
<1>1. PICK pc \in {"reproduced", "mismatch"} : session' = [session EXCEPT ![p] = [pc |-> pc]]
  BY DEF Compare
<1>. DEFINE op == [pc |-> pc]
<1>2. op.pc = pc
  OBVIOUS
<1>3. session' = [session EXCEPT ![p] = op]
  BY <1>1
<1>4. UNCHANGED <<exps, runs, artefacts>>
  BY DEF Compare
<1>. HIDE DEF op
<1>5. Holding(op)
  BY <1>2, EmptyHanded
<1>. QED  BY <1>3, <1>4, <1>5, MoveTo

-----------------------------------------------------------------------------
\* Rows stand as runs and directories are added.
LEMMA ExperimentsStand ==
    ASSUME IInv, Grows, exps' = exps
    PROVE  ExperimentsOK'
<1>. SUFFICES ASSUME NEW e \in DOMAIN exps
              PROVE  IsRow(exps[e])' /\ Backed(e, exps[e])'
  BY DEF ExperimentsOK
<1>1. PICK row : row = exps[e]
  OBVIOUS
<1>2. IsRow(row) /\ Backed(e, row)
  BY <1>1 DEF IInv, ExperimentsOK
<1>3. Backed(e, row)'
  BY <1>2, BackedStands
<1>4. exps'[e] = row
  BY <1>1
<1>. QED  BY <1>2, <1>3, <1>4 DEF IsRow

\* Registry.add_experiment: a designed experiment claims nothing.
LEMMA AddExperimentIInv == ASSUME IInv, AddExperiment PROVE IInv'
<1>1. PICK e \in Exps \ DOMAIN exps, d \in Designs :
          exps' = Put(exps, e, [design |-> d, status |-> "designed", cited |-> NoRun, warned |-> FALSE])
  BY DEF AddExperiment
<1>. DEFINE new == [design |-> d, status |-> "designed", cited |-> NoRun, warned |-> FALSE]
<1>2. UNCHANGED <<runs, artefacts, session>>
  BY DEF AddExperiment
<1>3. /\ DOMAIN exps' = DOMAIN exps \cup {e}
      /\ exps'[e] = new
      /\ \A x \in DOMAIN exps : exps'[x] = exps[x]
  BY <1>1 DEF Put
<1>4. IsRow(new) /\ new.status = "designed"
  BY DEF IsRow
<1>. HIDE DEF new
<1>5. Grows
  BY <1>2, <1>3 DEF Grows
<1>6. ExperimentsOK'
  <2>1. ASSUME NEW x \in DOMAIN exps'
        PROVE  IsRow(exps[x])' /\ Backed(x, exps[x])'
    <3>1. CASE x = e
      BY <3>1, <1>3, <1>4 DEF IsRow, Backed
    <3>2. CASE x \in DOMAIN exps
      <4>1. PICK row : row = exps[x]
        OBVIOUS
      <4>2. IsRow(row) /\ Backed(x, row)
        BY <3>2, <4>1 DEF IInv, ExperimentsOK
      <4>3. Backed(x, row)'
        BY <1>5, <4>2, BackedStands
      <4>4. exps'[x] = row
        BY <3>2, <4>1, <1>3
      <4>. QED  BY <4>2, <4>3, <4>4 DEF IsRow
    <3>. QED  BY <3>1, <3>2, <1>3
  <2>. QED  BY <2>1 DEF ExperimentsOK
<1>7. RunsOK' /\ RowsMatchArtefacts'
  BY <1>2, <1>3 DEF IInv, RunsOK, RowsMatchArtefacts, Dir
<1>8. SessionsOK'
  <2>1. ASSUME NEW q \in Sessions
        PROVE  Holding(session[q])'
    <3>1. PICK op : op = session[q]
      OBVIOUS
    <3>2. session'[q] = op
      BY <3>1, <1>2
    <3>3. Holding(op)
      BY <3>1 DEF IInv, SessionsOK
    <3>4. Holding(op)'
      BY <1>5, <3>3, HoldingStands
    <3>. QED  BY <3>2, <3>4
  <2>2. session' = [q \in Sessions |-> session'[q]]
    BY <1>2 DEF IInv, SessionsOK
  <2>. QED  BY <2>1, <2>2 DEF SessionsOK
<1>. QED  BY <1>6, <1>7, <1>8 DEF IInv

\* Registry._write_experiment: the row it writes was backed when it was made, and is still.
LEMMA WriteExperimentIInv == ASSUME IInv, NEW p \in Sessions, WriteExperiment(p) PROVE IInv'
<1>1. PICK op : op = session[p]
  OBVIOUS
<1>2. /\ op.pc \in {"start", "write"}
      /\ exps' = [exps EXCEPT ![op.exp] = op.row]
      /\ session' = [session EXCEPT ![p] =
                        IF op.pc = "start" THEN [pc |-> "capture", exp |-> op.exp] ELSE Idle]
      /\ UNCHANGED <<runs, artefacts>>
  BY <1>1 DEF WriteExperiment
<1>3. /\ op.exp \in DOMAIN exps
      /\ IsRow(op.row) /\ op.row.design = exps[op.exp].design /\ Backed(op.exp, op.row)
  BY <1>1, <1>2 DEF IInv, SessionsOK, Holding
<1>4. /\ DOMAIN exps' = DOMAIN exps
      /\ exps'[op.exp] = op.row
      /\ \A x \in DOMAIN exps : x # op.exp => exps'[x] = exps[x]
  BY <1>2, <1>3
<1>5. Grows
  BY <1>2, <1>3, <1>4 DEF Grows
<1>6. ExperimentsOK'
  <2>1. ASSUME NEW x \in DOMAIN exps'
        PROVE  IsRow(exps[x])' /\ Backed(x, exps[x])'
    <3>1. PICK row : row = exps'[x]
      OBVIOUS
    <3>2. IsRow(row) /\ Backed(x, row)
      <4>1. CASE x = op.exp
        BY <4>1, <3>1, <1>3, <1>4
      <4>2. CASE x # op.exp
        <5>1. row = exps[x] /\ x \in DOMAIN exps
          BY <4>2, <3>1, <1>4
        <5>. QED  BY <5>1 DEF IInv, ExperimentsOK
      <4>. QED  BY <4>1, <4>2
    <3>3. Backed(x, row)'
      BY <3>2, <1>5, BackedStands
    <3>. QED  BY <3>1, <3>2, <3>3 DEF IsRow
  <2>. QED  BY <2>1 DEF ExperimentsOK
<1>7. RunsOK' /\ RowsMatchArtefacts'
  BY <1>2, <1>4 DEF IInv, RunsOK, RowsMatchArtefacts, Dir
<1>8. SessionsOK'
  <2>1. PICK new : new = (IF op.pc = "start" THEN [pc |-> "capture", exp |-> op.exp] ELSE Idle)
    OBVIOUS
  <2>2. new.pc = "idle" \/ (new.pc = "capture" /\ new.exp = op.exp)
    BY <2>1 DEF Idle
  <2>3. Holding(new)
    BY <2>2, <1>3 DEF Holding
  <2>4. Holding(new)'
    BY <2>3, <1>5, HoldingStands
  <2>5. session'[p] = new
    BY <1>2, <2>1 DEF IInv, SessionsOK
  <2>6. session' = [session EXCEPT ![p] = session'[p]] /\ Holding(session[p])'
    BY <1>2, <2>1, <2>4, <2>5
  <2>. QED  BY <1>5, <2>6, OneMoves DEF IInv
<1>. QED  BY <1>6, <1>7, <1>8 DEF IInv

-----------------------------------------------------------------------------
\* write_run, the directory: it is a new one, so what is on record keeps its own.
LEMMA MakeDirectoryIInv == ASSUME IInv, NEW p \in Sessions, MakeDirectory(p) PROVE IInv'
<1>1. PICK op : op = session[p]
  OBVIOUS
<1>. DEFINE dir == Dir(op.run, op.attempt)
<1>2. op.pc = "publish" /\ UNCHANGED <<exps, runs>>
  BY <1>1 DEF MakeDirectory
<1>3. /\ op.exp \in DOMAIN exps
      /\ op = [pc |-> op.pc, exp |-> op.exp, manifest |-> op.manifest, attempt |-> op.attempt,
               run |-> op.run, metrics |-> op.metrics]
  BY <1>1, <1>2 DEF IInv, SessionsOK, Holding
<1>4. CASE FreshDirectory(dir)
  <2>1. /\ artefacts' = Put(artefacts, dir, [metrics |-> op.metrics, done |-> FALSE])
        /\ session' = [session EXCEPT ![p].pc = "files"]
    BY <1>1, <1>4 DEF MakeDirectory
  <2>2. /\ dir \notin DOMAIN artefacts
        /\ DOMAIN artefacts' = DOMAIN artefacts \cup {dir}
        /\ artefacts'[dir] = [metrics |-> op.metrics, done |-> FALSE]
        /\ \A d \in DOMAIN artefacts : artefacts'[d] = artefacts[d]
    BY <2>1, <1>4 DEF Put, FreshDirectory
  <2>. DEFINE new == [op EXCEPT !.pc = "files"]
  <2>3. new = [pc |-> "files", exp |-> op.exp, manifest |-> op.manifest, attempt |-> op.attempt,
               run |-> op.run, metrics |-> op.metrics]
    BY <1>3
  <2>4. session' = [session EXCEPT ![p] = new]
    BY <2>1, <1>1
  <2>. HIDE DEF new
  <2>5. /\ new.pc = "files" /\ new.exp = op.exp /\ new.attempt = op.attempt
        /\ new.run = op.run /\ new.metrics = op.metrics
        /\ new = [pc |-> new.pc, exp |-> new.exp, manifest |-> new.manifest,
                  attempt |-> new.attempt, run |-> new.run, metrics |-> new.metrics]
    BY <2>3
  <2>6. Grows
    BY <1>2, <2>2 DEF Grows
  <2>7. RowsMatchArtefacts'
    BY <1>2, <2>2 DEF IInv, RowsMatchArtefacts, Dir
  <2>8. RunsOK' /\ ExperimentsOK'
    BY <1>2, <2>6, ExperimentsStand DEF IInv, RunsOK
  <2>9. SessionsOK'
    <3>1. PICK held : held = new
      OBVIOUS
    <3>2. Made(held, FALSE)'
      BY <3>1, <2>2, <2>5 DEF Made, Dir
    <3>3. artefacts'[Dir(held.run, held.attempt)].done = FALSE
      BY <3>1, <2>2, <2>5 DEF Dir
    <3>4. Made(held, artefacts[Dir(held.run, held.attempt)].done)'
      BY <3>2, <3>3 DEF Made, Dir
    <3>5. Holding(held)'
      BY <3>1, <3>4, <2>5, <1>2, <1>3 DEF Holding, Dir
    <3>6. session'[p] = held
      BY <2>4, <3>1 DEF IInv, SessionsOK
    <3>7. session' = [session EXCEPT ![p] = session'[p]] /\ Holding(session[p])'
      BY <2>4, <3>1, <3>5, <3>6
    <3>. QED  BY <2>6, <3>7, OneMoves DEF IInv
  <2>. QED  BY <2>7, <2>8, <2>9 DEF IInv
<1>5. CASE ~FreshDirectory(dir)
  <2>1. /\ session' = [session EXCEPT ![p] = IF op.attempt = 0 THEN Idle ELSE [pc |-> "refused"]]
        /\ artefacts' = artefacts
    BY <1>1, <1>5 DEF MakeDirectory
  <2>2. PICK new : new = (IF op.attempt = 0 THEN Idle ELSE [pc |-> "refused"])
    OBVIOUS
  <2>3. new.pc \in {"idle", "refused"}
    BY <2>2 DEF Idle
  <2>4. Holding(new)
    BY <2>3, EmptyHanded
  <2>. QED  BY <1>2, <2>1, <2>2, <2>4, MoveTo
<1>. QED  BY <1>4, <1>5

\* write_run, the files: the metrics stay those of the session that made the directory.
LEMMA WriteFilesIInv == ASSUME IInv, NEW p \in Sessions, WriteFiles(p) PROVE IInv'
<1>1. PICK op : op = session[p]
  OBVIOUS
<1>. DEFINE dir == Dir(op.run, op.attempt)
<1>2. /\ op.pc = "files"
      /\ artefacts' = [artefacts EXCEPT ![dir].done = TRUE]
      /\ session' = [session EXCEPT ![p].pc = IF op.attempt = 0 THEN "record" ELSE "compare"]
      /\ UNCHANGED <<exps, runs>>
  BY <1>1 DEF WriteFiles
<1>3. /\ op.exp \in DOMAIN exps
      /\ op = [pc |-> op.pc, exp |-> op.exp, manifest |-> op.manifest, attempt |-> op.attempt,
               run |-> op.run, metrics |-> op.metrics]
      /\ dir \in DOMAIN artefacts
      /\ artefacts[dir] = [metrics |-> op.metrics, done |-> artefacts[dir].done]
  BY <1>1, <1>2 DEF IInv, SessionsOK, Holding, Made
<1>4. PICK old : old = artefacts[dir]
  OBVIOUS
<1>5. [old EXCEPT !.done = TRUE] = [metrics |-> op.metrics, done |-> TRUE] /\ old.metrics = op.metrics
  <2>1. PICK m, d : m = op.metrics /\ d = old.done
    OBVIOUS
  <2>2. old = [metrics |-> m, done |-> d]
    BY <2>1, <1>3, <1>4
  <2>3. old.metrics = m
    BY <2>2
  <2>4. \A v : [old EXCEPT !.done = v] = [metrics |-> m, done |-> v]
    BY <2>2
  <2>5. [old EXCEPT !.done = TRUE] = [metrics |-> m, done |-> TRUE]
    BY <2>4, Zenon
  <2>. QED  BY <2>1, <2>3, <2>5
<1>6. /\ DOMAIN artefacts' = DOMAIN artefacts
      /\ artefacts'[dir] = [metrics |-> op.metrics, done |-> TRUE]
      /\ \A d \in DOMAIN artefacts : d # dir => artefacts'[d] = artefacts[d]
  <2>1. artefacts' = [artefacts EXCEPT ![dir] = [old EXCEPT !.done = TRUE]]
    BY <1>2, <1>4
  <2>. HIDE DEF dir
  <2>. QED  BY <2>1, <1>3, <1>5
<1>7. Grows
  <2>1. artefacts'[dir] = [metrics |-> artefacts[dir].metrics, done |-> TRUE]
    BY <1>4, <1>5, <1>6
  <2>. HIDE DEF dir
  <2>. QED  BY <1>2, <1>6, <2>1 DEF Grows
<1>8. RowsMatchArtefacts'
  <2>. SUFFICES ASSUME NEW r \in DOMAIN runs
                PROVE  /\ Dir(r, 0) \in DOMAIN artefacts'
                       /\ artefacts'[Dir(r, 0)] = [metrics |-> runs[r].metrics, done |-> TRUE]
    BY <1>2 DEF RowsMatchArtefacts, Dir
  <2>1. /\ Dir(r, 0) \in DOMAIN artefacts
        /\ artefacts[Dir(r, 0)] = [metrics |-> runs[r].metrics, done |-> TRUE]
    BY DEF IInv, RowsMatchArtefacts
  <2>2. CASE Dir(r, 0) = dir
    <3>1. old.metrics = runs[r].metrics
      BY <2>1, <2>2, <1>4
    <3>. QED  BY <3>1, <2>2, <1>5, <1>6, <1>3
  <2>3. CASE Dir(r, 0) # dir
    BY <2>1, <2>3, <1>6
  <2>. QED  BY <2>2, <2>3
<1>9. RunsOK' /\ ExperimentsOK'
  BY <1>2, <1>7, ExperimentsStand DEF IInv, RunsOK
<1>10. SessionsOK'
  <2>1. PICK new : new = [op EXCEPT !.pc = IF op.attempt = 0 THEN "record" ELSE "compare"]
    OBVIOUS
  <2>2. PICK pc : pc = (IF op.attempt = 0 THEN "record" ELSE "compare")
    OBVIOUS
  <2>3. new = [pc |-> pc, exp |-> op.exp, manifest |-> op.manifest, attempt |-> op.attempt,
               run |-> op.run, metrics |-> op.metrics]
    BY <2>1, <2>2, <1>3
  <2>4. /\ new.pc = pc /\ new.exp = op.exp /\ new.attempt = op.attempt
        /\ new.run = op.run /\ new.metrics = op.metrics
        /\ new = [pc |-> new.pc, exp |-> new.exp, manifest |-> new.manifest,
                  attempt |-> new.attempt, run |-> new.run, metrics |-> new.metrics]
    BY <2>3
  <2>5. Made(new, TRUE)'
    BY <1>3, <1>6, <2>4 DEF Made, Dir
  <2>6. new.pc = "compare" \/ (new.pc = "record" /\ new.attempt = 0)
    BY <2>2, <2>4
  <2>7. Holding(new)'
    BY <2>4, <2>5, <2>6, <1>2, <1>3 DEF Holding
  <2>8. session' = [session EXCEPT ![p] = new]
    BY <1>1, <1>2, <2>1
  <2>9. session'[p] = new
    BY <2>8 DEF IInv, SessionsOK
  <2>10. session' = [session EXCEPT ![p] = session'[p]] /\ Holding(session[p])'
    BY <2>7, <2>8, <2>9
  <2>. QED  BY <1>7, <2>10, OneMoves DEF IInv
<1>. QED  BY <1>8, <1>9, <1>10 DEF IInv

\* Registry.record_run: the directory is complete before the row is there.
LEMMA RecordRunIInv == ASSUME IInv, NEW p \in Sessions, RecordRun(p) PROVE IInv'
<1>1. PICK op : op = session[p]
  OBVIOUS
<1>2. op.pc = "record" /\ UNCHANGED <<exps, artefacts>>
  BY <1>1 DEF RecordRun
<1>3. op.exp \in DOMAIN exps /\ op.attempt = 0 /\ Made(op, TRUE)
  BY <1>1, <1>2 DEF IInv, SessionsOK, Holding
<1>4. CASE op.run \in DOMAIN runs
  <2>1. session' = [session EXCEPT ![p] = Idle] /\ runs' = runs
    BY <1>1, <1>4 DEF RecordRun
  <2>. QED  BY <1>2, <2>1, GoIdle
<1>5. CASE op.run \notin DOMAIN runs
  <2>. DEFINE row == [exp |-> op.exp, manifest |-> op.manifest, reproducible |-> ~op.manifest.dirty,
                      metrics |-> op.metrics]
              new == [pc |-> "complete", exp |-> op.exp]
  <2>1. runs' = Put(runs, op.run, row) /\ session' = [session EXCEPT ![p] = new]
    BY <1>1, <1>5 DEF RecordRun
  <2>2. /\ row.exp = op.exp /\ row.metrics = op.metrics /\ row.manifest = op.manifest
        /\ row.reproducible <=> ~op.manifest.dirty
    OBVIOUS
  <2>3. new.pc = "complete" /\ new.exp = op.exp
    OBVIOUS
  <2>. HIDE DEF row, new
  <2>4. /\ DOMAIN runs' = DOMAIN runs \cup {op.run}
        /\ runs'[op.run] = row
        /\ \A r \in DOMAIN runs : runs'[r] = runs[r]
    BY <2>1, <1>5 DEF Put
  <2>5. Grows
    BY <1>2, <2>4 DEF Grows
  <2>6. RunsOK'
    <3>1. ASSUME NEW r \in DOMAIN runs'
          PROVE  runs'[r].exp \in DOMAIN exps' /\ (runs'[r].reproducible <=> ~runs'[r].manifest.dirty)
      <4>1. CASE r = op.run
        BY <4>1, <1>2, <1>3, <2>2, <2>4
      <4>2. CASE r \in DOMAIN runs
        BY <4>2, <1>2, <2>4 DEF IInv, RunsOK
      <4>. QED  BY <4>1, <4>2, <2>4
    <3>. QED  BY <3>1 DEF RunsOK
  <2>7. RowsMatchArtefacts'
    BY <1>2, <1>3, <2>2, <2>4 DEF IInv, RowsMatchArtefacts, Made, Dir
  <2>8. ExperimentsOK'
    BY <1>2, <2>5, ExperimentsStand
  <2>9. SessionsOK'
    <3>1. PICK held : held = new
      OBVIOUS
    <3>2. RunsFor(op.exp)' # {}
      BY <2>2, <2>4 DEF RunsFor
    <3>3. Holding(held)'
      BY <3>1, <3>2, <2>3, <1>2, <1>3 DEF Holding
    <3>4. session'[p] = held
      BY <2>1, <3>1 DEF IInv, SessionsOK
    <3>5. session' = [session EXCEPT ![p] = session'[p]] /\ Holding(session[p])'
      BY <2>1, <3>1, <3>3, <3>4
    <3>. QED  BY <2>5, <3>5, OneMoves DEF IInv
  <2>. QED  BY <2>6, <2>7, <2>8, <2>9 DEF IInv
<1>. QED  BY <1>4, <1>5

-----------------------------------------------------------------------------
\* Steps of nobody's session, and steps that change nothing the invariant is about
LEMMA OthersIInv ==
    ASSUME IInv, UNCHANGED <<exps, runs, artefacts, session>>
    PROVE  IInv'
<1>1. ExperimentsOK' /\ RunsOK' /\ RowsMatchArtefacts' /\ Grows
  BY TablesStand
<1>2. SessionsOK'
  BY DEF IInv, SessionsOK, Holding, Made, Backed, RunsFor, IsRow, Dir
<1>. QED  BY <1>1, <1>2 DEF IInv

\* Every step of the registry and of what is around it
LEMMA NextIInv == ASSUME IInv, [Next]_vars PROVE IInv'
<1>1. CASE AddHypothesis
  BY <1>1, OthersIInv DEF AddHypothesis
<1>2. CASE AddExperiment
  BY <1>2, AddExperimentIInv
<1>3. CASE ChangeEnvironment
  BY <1>3, OthersIInv DEF ChangeEnvironment
<1>4. ASSUME NEW p \in Sessions, SessionStep(p)
      PROVE  IInv'
  <2>1. CASE Return(p) \/ Crash(p)
    BY <2>1, GoIdle DEF Return, Crash
  <2>. QED  BY <1>4, <2>1, StartIInv, AbandonIInv, ConcludeIInv, WriteExperimentIInv, CaptureIInv,
                IndexRunIInv, ExecuteIInv, MakeDirectoryIInv, WriteFilesIInv, RecordRunIInv,
                CompleteIInv, RerunIInv, CompareIInv DEF SessionStep
<1>5. CASE UNCHANGED vars
  BY <1>5, OthersIInv DEF vars
<1>. QED  BY <1>1, <1>2, <1>3, <1>4, <1>5 DEF Next, Operation

\* The inductive invariant of the registry (store.py, running.py, results.py).
THEOREM RegistryInvariant == Spec => []IInv
<1>1. Init => IInv
  BY InitIInv
<1>2. IInv /\ [Next]_vars => IInv'
  BY NextIInv
<1>. QED  BY <1>1, <1>2, PTL DEF Spec

\* A completed or concluded experiment has its run on record, a confirmatory conclusion a
\* run captured from a clean tree, and a run on record its complete directory with the same
\* metrics: for any number of sessions that overlap, share names and crash anywhere.
THEOREM EvidenceAlwaysStands == Spec => []EvidenceStands
<1>1. IInv => EvidenceStands
  <2>1. ExperimentsOK => CompletedHasRun
    BY DEF ExperimentsOK, Backed, CompletedHasRun
  <2>2. ExperimentsOK /\ RunsOK => ConfirmatoryEvidence
    BY DEF ExperimentsOK, RunsOK, Backed, ConfirmatoryEvidence
  <2>. QED  BY <2>1, <2>2 DEF IInv, EvidenceStands
<1>. QED  BY <1>1, RegistryInvariant, PTL

-----------------------------------------------------------------------------
(* Sessions that take turns *)

\* The row a session is about to write is still a transition of the row it read.
Timely(op) ==
    op.pc \in {"start", "write"} => op.row.status \in Allowed(exps[op.exp].status)

TurnsInv == turns => Alone /\ \A p \in Sessions : Timely(session[p])

Legal ==
    turns => \A e \in DOMAIN exps :
        /\ e \in DOMAIN exps'
        /\ exps'[e].status # exps[e].status => exps'[e].status \in Allowed(exps[e].status)

\* A session takes up something timely, and the experiments stay as they are.
LEMMA MoveInTurn ==
    ASSUME IInv, TurnsInv, UNCHANGED <<exps, turns>>, turns => Alone',
           NEW p \in Sessions, NEW op, session' = [session EXCEPT ![p] = op], Timely(op)
    PROVE  TurnsInv' /\ Legal
<1>1. session'[p] = op /\ \A q \in Sessions : q # p => session'[q] = session[q]
  BY DEF IInv, SessionsOK
<1>2. Timely(op)' /\ \A q \in Sessions : turns => Timely(session[q])
  BY DEF TurnsInv, Timely
<1>3. \A q \in Sessions : turns => Timely(session[q])'
  BY <1>1, <1>2 DEF Timely
<1>. QED  BY <1>3 DEF TurnsInv, Legal

\* What is not a transition is timely.
LEMMA NoTransition ==
    ASSUME NEW op, op.pc \notin {"start", "write"}
    PROVE  Timely(op)
  BY DEF Timely

\* Registry._transition checks the table.
LEMMA BeginsInTurn ==
    ASSUME IInv, TurnsInv, UNCHANGED <<exps, turns>>, turns => Alone',
           NEW p \in Sessions, NEW e, NEW pc, NEW row, BeginTransition(p, e, pc, row)
    PROVE  TurnsInv' /\ Legal
<1>. DEFINE op == [pc |-> pc, exp |-> e, row |-> row]
<1>1. session' = [session EXCEPT ![p] = op] /\ row.status \in Allowed(exps[e].status)
  BY DEF BeginTransition
<1>2. op.exp = e /\ op.row = row
  OBVIOUS
<1>. HIDE DEF op
<1>3. Timely(op)
  BY <1>1, <1>2 DEF Timely
<1>. QED  BY <1>1, <1>3, MoveInTurn

\* Registry._write_experiment: nobody moved since the table was consulted.
LEMMA WritesInTurn ==
    ASSUME IInv, TurnsInv, UNCHANGED turns, turns => Alone',
           NEW p \in Sessions, WriteExperiment(p)
    PROVE  TurnsInv' /\ Legal
<1>. SUFFICES ASSUME turns PROVE TurnsInv' /\ Legal
  BY DEF TurnsInv, Legal
<1>1. PICK op : op = session[p]
  OBVIOUS
<1>2. PICK next : next = (IF op.pc = "start" THEN [pc |-> "capture", exp |-> op.exp] ELSE Idle)
  OBVIOUS
<1>3. /\ op.pc \in {"start", "write"}
      /\ exps' = [exps EXCEPT ![op.exp] = op.row]
      /\ session' = [session EXCEPT ![p] = next]
  BY <1>1, <1>2 DEF WriteExperiment
<1>4. next.pc \in {"capture", "idle"}
  BY <1>2 DEF Idle
<1>5. /\ op.exp \in DOMAIN exps
      /\ op.row.status \in Allowed(exps[op.exp].status)
  BY <1>1, <1>3 DEF IInv, SessionsOK, Holding, TurnsInv, Timely
<1>6. /\ DOMAIN exps' = DOMAIN exps
      /\ exps'[op.exp] = op.row
      /\ \A x \in DOMAIN exps : x # op.exp => exps'[x] = exps[x]
  BY <1>3, <1>5
<1>7. Legal
  BY <1>5, <1>6 DEF Legal
<1>8. session'[p] = next /\ \A q \in Sessions : q # p => session'[q] = session[q]
  BY <1>3 DEF IInv, SessionsOK
<1>9. ASSUME NEW q \in Sessions
      PROVE  Timely(session[q])'
  <2>1. CASE q = p
    BY <2>1, <1>4, <1>8 DEF Timely
  <2>2. CASE q # p
    <3>1. session[q].pc = "idle"
      BY <2>2, <1>1, <1>3 DEF TurnsInv, Alone, AtWork
    <3>. QED  BY <2>2, <3>1, <1>8 DEF Timely
  <2>. QED  BY <2>1, <2>2
<1>. QED  BY <1>7, <1>9 DEF TurnsInv

\* Registry.add_experiment changes no row.
LEMMA AddsInTurn ==
    ASSUME IInv, TurnsInv, UNCHANGED turns, turns => Alone', AddExperiment
    PROVE  TurnsInv' /\ Legal
<1>1. PICK e \in Exps \ DOMAIN exps, d \in Designs :
         exps' = Put(exps, e, [design |-> d, status |-> "designed", cited |-> NoRun, warned |-> FALSE])
  BY DEF AddExperiment
<1>2. \A x \in DOMAIN exps : x \in DOMAIN exps' /\ exps'[x] = exps[x]
  BY <1>1 DEF Put
<1>3. session' = session
  BY DEF AddExperiment
<1>4. ASSUME NEW q \in Sessions, turns
      PROVE  Timely(session[q])'
  <2>1. PICK op : op = session[q]
    OBVIOUS
  <2>2. Timely(op) /\ (op.pc \in {"start", "write"} => op.exp \in DOMAIN exps)
    BY <2>1, <1>4 DEF TurnsInv, IInv, SessionsOK, Holding
  <2>3. Timely(op)'
    BY <2>2, <1>2 DEF Timely
  <2>. QED  BY <2>1, <2>3, <1>3 DEF Timely
<1>. QED  BY <1>2, <1>4 DEF TurnsInv, Legal

\* The other steps of a session: what it holds next is no row of the table.
LEMMA GoesOnInTurn ==
    ASSUME IInv, TurnsInv, UNCHANGED <<exps, turns>>, turns => Alone', NEW p \in Sessions,
           \/ Capture(p) \/ IndexRun(p) \/ Execute(p) \/ MakeDirectory(p) \/ WriteFiles(p)
           \/ RecordRun(p) \/ Rerun(p) \/ Compare(p) \/ Return(p) \/ Crash(p)
    PROVE  TurnsInv' /\ Legal
<1>1. PICK held : held = session[p]
  OBVIOUS
<1>2. Idle.pc = "idle"
  BY DEF Idle
<1>3. held.pc \in {"publish", "files"} => \A pc : [held EXCEPT !.pc = pc].pc = pc
  <2>1. held.pc \in {"publish", "files"} =>
          held = [pc |-> held.pc, exp |-> held.exp, manifest |-> held.manifest,
                  attempt |-> held.attempt, run |-> held.run, metrics |-> held.metrics]
    BY <1>1 DEF IInv, SessionsOK, Holding
  <2>. QED  BY <2>1
<1>4. ASSUME NEW pc, session' = [session EXCEPT ![p].pc = pc],
             held.pc \in {"publish", "files"}, pc \notin {"start", "write"}
      PROVE  TurnsInv' /\ Legal
  <2>1. PICK op : op = [held EXCEPT !.pc = pc]
    OBVIOUS
  <2>2. session' = [session EXCEPT ![p] = op] /\ op.pc = pc
    BY <2>1, <1>1, <1>3, <1>4
  <2>3. Timely(op)
    BY <2>2, <1>4, NoTransition
  <2>. QED  BY <2>2, <2>3, MoveInTurn
<1>5. ASSUME NEW op, session' = [session EXCEPT ![p] = op], op.pc \notin {"start", "write"}
      PROVE  TurnsInv' /\ Legal
  BY <1>5, NoTransition, MoveInTurn
<1>6. CASE Capture(p)
  <2>. DEFINE op == [pc |-> "index", exp |-> session[p].exp, manifest |-> env]
  <2>1. session' = [session EXCEPT ![p] = op] /\ op.pc = "index"
    BY <1>6 DEF Capture, IInv, SessionsOK
  <2>. QED  BY <2>1, <1>5
<1>7. CASE IndexRun(p)
  <2>. DEFINE op == [pc |-> "execute", exp |-> held.exp, manifest |-> held.manifest, attempt |-> 0,
                     run |-> <<exps[held.exp].design.name, NextRunIndex(held.exp)>>]
  <2>1. session' = [session EXCEPT ![p] = op] /\ op.pc = "execute"
    BY <1>1, <1>7 DEF IndexRun
  <2>. QED  BY <2>1, <1>5
<1>8. CASE Execute(p)
  <2>. DEFINE op == [pc |-> "publish", exp |-> held.exp, manifest |-> held.manifest,
                     attempt |-> held.attempt, run |-> held.run, metrics |-> env]
  <2>1. session' = [session EXCEPT ![p] = op] /\ op.pc = "publish"
    BY <1>1, <1>8 DEF Execute
  <2>. QED  BY <2>1, <1>5
<1>9. CASE MakeDirectory(p)
  <2>1. CASE FreshDirectory(Dir(held.run, held.attempt))
    BY <2>1, <1>1, <1>4, <1>9 DEF MakeDirectory
  <2>2. CASE ~FreshDirectory(Dir(held.run, held.attempt))
    <3>. DEFINE op == IF held.attempt = 0 THEN Idle ELSE [pc |-> "refused"]
    <3>1. session' = [session EXCEPT ![p] = op]
      BY <2>2, <1>1, <1>9 DEF MakeDirectory
    <3>2. op.pc \in {"idle", "refused"}
      BY <1>2
    <3>. HIDE DEF op
    <3>. QED  BY <3>1, <3>2, <1>5
  <2>. QED  BY <2>1, <2>2
<1>10. CASE WriteFiles(p)
  <2>. DEFINE pc == IF held.attempt = 0 THEN "record" ELSE "compare"
  <2>1. session' = [session EXCEPT ![p].pc = pc] /\ held.pc = "files"
    BY <1>1, <1>10 DEF WriteFiles
  <2>2. pc \notin {"start", "write"}
    OBVIOUS
  <2>. HIDE DEF pc
  <2>. QED  BY <2>1, <2>2, <1>4
<1>11. CASE RecordRun(p)
  <2>. DEFINE op == [pc |-> "complete", exp |-> held.exp]
  <2>1. op.pc = "complete"
    OBVIOUS
  <2>2. session' = [session EXCEPT ![p] = op] \/ session' = [session EXCEPT ![p] = Idle]
    BY <1>1, <1>11 DEF RecordRun
  <2>. HIDE DEF op
  <2>. QED  BY <2>1, <2>2, <1>2, <1>5
<1>12. CASE Rerun(p)
  <2>1. PICK r \in DOMAIN runs : session' = [session EXCEPT ![p] =
          [pc |-> "execute", exp |-> runs[r].exp, manifest |-> runs[r].manifest,
           attempt |-> NextRunIndex(runs[r].exp), run |-> r]]
    BY <1>12 DEF Rerun
  <2>. DEFINE op == [pc |-> "execute", exp |-> runs[r].exp, manifest |-> runs[r].manifest,
                     attempt |-> NextRunIndex(runs[r].exp), run |-> r]
  <2>2. session' = [session EXCEPT ![p] = op] /\ op.pc = "execute"
    BY <2>1
  <2>. QED  BY <2>2, <1>5
<1>13. CASE Compare(p)
  <2>. DEFINE op == [pc |-> IF held.metrics = runs[held.run].metrics THEN "reproduced" ELSE "mismatch"]
  <2>1. session' = [session EXCEPT ![p] = op]
    BY <1>1, <1>13 DEF Compare
  <2>2. op.pc \in {"reproduced", "mismatch"}
    OBVIOUS
  <2>. HIDE DEF op
  <2>. QED  BY <2>1, <2>2, <1>5
<1>14. CASE Return(p) \/ Crash(p)
  BY <1>2, <1>5, <1>14 DEF Return, Crash
<1>. QED  BY <1>6, <1>7, <1>8, <1>9, <1>10, <1>11, <1>12, <1>13, <1>14

LEMMA StepInTurn == ASSUME IInv, TurnsInv, [Next]_vars PROVE TurnsInv' /\ Legal
<1>1. CASE UNCHANGED vars
  BY <1>1 DEF vars, TurnsInv, Alone, AtWork, Timely, Legal
<1>2. CASE Next
  <2>1. UNCHANGED turns /\ (turns => Alone')
    BY <1>2 DEF Next
  <2>2. CASE UNCHANGED <<exps, session>>
    BY <2>1, <2>2 DEF TurnsInv, Timely, Legal
  <2>3. CASE AddHypothesis \/ ChangeEnvironment
    BY <2>2, <2>3 DEF AddHypothesis, ChangeEnvironment
  <2>4. CASE AddExperiment
    BY <2>1, <2>4, AddsInTurn
  <2>5. ASSUME NEW p \in Sessions, SessionStep(p)
        PROVE  TurnsInv' /\ Legal
    <3>1. CASE WriteExperiment(p)
      BY <2>1, <3>1, WritesInTurn
    <3>2. CASE Start(p) \/ Abandon(p) \/ Conclude(p)
      <4>1. UNCHANGED exps
        BY <3>2 DEF Start, Abandon, Conclude
      <4>2. \E e, pc, row : BeginTransition(p, e, pc, row)
        BY <3>2 DEF Start, Abandon, Conclude
      <4>. QED  BY <2>1, <4>1, <4>2, BeginsInTurn
    <3>3. CASE Complete(p)
      <4>1. UNCHANGED exps
        BY <3>3 DEF Complete
      <4>2. CASE session' = [session EXCEPT ![p] = Idle]
        <5>1. Timely(Idle)
          BY DEF Timely, Idle
        <5>. QED  BY <2>1, <4>1, <4>2, <5>1, MoveInTurn
      <4>3. CASE \E e, pc, row : BeginTransition(p, e, pc, row)
        BY <2>1, <4>1, <4>3, BeginsInTurn
      <4>. QED  BY <3>3, <4>2, <4>3 DEF Complete
    <3>4. CASE \/ Capture(p) \/ IndexRun(p) \/ Execute(p) \/ MakeDirectory(p) \/ WriteFiles(p)
               \/ RecordRun(p) \/ Rerun(p) \/ Compare(p) \/ Return(p) \/ Crash(p)
      <4>1. UNCHANGED exps
        BY <3>4 DEF Capture, IndexRun, Execute, MakeDirectory, WriteFiles, RecordRun, Rerun,
                    Compare, Return, Crash
      <4>. QED  BY <2>1, <3>4, <4>1, GoesOnInTurn
    <3>. QED  BY <2>5, <3>1, <3>2, <3>3, <3>4 DEF SessionStep
  <2>. QED  BY <1>2, <2>3, <2>4, <2>5 DEF Next, Operation
<1>. QED  BY <1>1, <1>2

(***************************************************************************)
(* Sessions that take turns follow ALLOWED_TRANSITIONS exactly, and lose   *)
(* no experiment, for any number of sessions and experiments and wherever  *)
(* one of them crashed (Registry._transition, Registry._write_experiment). *)
(***************************************************************************)
THEOREM TransitionsLegal == Spec => LegalTransitions
<1>1. Init => TurnsInv
  BY DEF Init, TurnsInv, Alone, AtWork, Timely, Idle
<1>2. IInv /\ TurnsInv /\ [Next]_vars => TurnsInv' /\ [Legal]_vars
  BY StepInTurn
<1>. QED  BY <1>1, <1>2, RegistryInvariant, PTL DEF Spec, LegalTransitions, Legal

-----------------------------------------------------------------------------
(***************************************************************************)
(* The bake-off (trp/bakeoff/harness.py).                                  *)
(***************************************************************************)
Busy == work.pc \in {"http", "persist", "write", "append", "appending"}

Passed == {Order[i] : i \in 1 .. work.at - 1}

\* A sequence, of whatever elements
Sequence(s) == \E S : s \in Seq(S)

WorkShape(w) ==
    w = [pc |-> w.pc, done |-> w.done, at |-> w.at, asked |-> w.asked, attempt |-> w.attempt,
         throttles |-> w.throttles, pages |-> w.pages, refs |-> w.refs, status |-> w.status,
         replayed |-> w.replayed]

WorkInv ==
    /\ WorkShape(work)
    /\ work.at \in 1 .. Len(Order) + 1
    /\ Busy \/ work.pc \in {"down", "pick", "finished"}
    /\ Busy \/ At("pick") => CompletedCells \subseteq work.done \cup Passed
    /\ Busy => work.at \in 1 .. Len(Order) /\ Cell \notin work.done

RecordsInv == Sequence(records) /\ OneRecordACell

\* How far the writing of a page's files may be
WrittenInTurn == {{"content"}, {"content", "create"}, {"content", "create", "fill"}}

FileInv(file) == /\ file = [page |-> file.page, written |-> file.written]
                 /\ file.written \in WrittenInTurn

StoreInv ==
    /\ store = [c \in Cells |-> store[c]]
    /\ \A c \in Cells : /\ Sequence(store[c])
                        /\ \A i \in DOMAIN store[c] : FileInv(store[c][i])

\* Nothing of the cell at work was readable when it was fetched.
FetchInv ==
    /\ At("http") => Stored(Cell) = {}
    /\ At("write") => LET n == Len(store[Cell]) IN
                        n \in DOMAIN store[Cell] /\ ~Whole(store[Cell][n])

HarnessInv == WorkInv /\ RecordsInv /\ StoreInv /\ FetchInv

-----------------------------------------------------------------------------
LEMMA AppendSequence ==
  ASSUME NEW s, Sequence(s), NEW e
  PROVE  /\ Sequence(Append(s, e))
         /\ Len(s) \in Nat
         /\ DOMAIN s = 1 .. Len(s)
         /\ Len(Append(s, e)) = Len(s) + 1
         /\ DOMAIN Append(s, e) = 1 .. Len(s) + 1
         /\ \A i \in 1 .. Len(s) : Append(s, e)[i] = s[i]
         /\ Append(s, e)[Len(s) + 1] = e
<1>1. PICK S : s \in Seq(S)
  BY DEF Sequence
<1>2. s \in Seq(S \cup {e}) /\ e \in S \cup {e}
  BY <1>1
<1>3. Append(s, e) \in Seq(S \cup {e})
  BY <1>2
<1>4. Sequence(Append(s, e))
  BY <1>3 DEF Sequence
<1> QED BY <1>2, <1>3, <1>4

\* A cell at work lies in the loops, and after those it has passed.
LEMMA CellAtWork ==
  ASSUME WorkInv, Busy
  PROVE  Cell \in Cells /\ Cell \notin Passed /\ Cell \notin CompletedCells
<1>1. DOMAIN Order = 1 .. Len(Order) /\ Len(Order) \in Nat
  BY OrderAssumption
<1>2. work.at \in DOMAIN Order /\ Cell \notin work.done
  BY <1>1 DEF WorkInv
<1>3. Cell \in Cells
  BY <1>2 DEF Cell, Cells
<1>4. Cell \notin Passed
  BY <1>1, <1>2, OrderAssumption DEF Cell, Passed, IsInjective
<1> QED BY <1>2, <1>3, <1>4 DEF WorkInv

LEMMA HarnessInitially == HarnessInit => HarnessInv
<1> SUFFICES ASSUME HarnessInit PROVE HarnessInv
  OBVIOUS
<1>1. Len(Order) \in Nat
  BY OrderAssumption
<1>2. WorkInv
  BY <1>1 DEF HarnessInit, NoWork, WorkInv, WorkShape, Busy, At
<1>3. Sequence(<<>>)
  BY <<>> \in Seq({}) DEF Sequence
<1>4. RecordsInv
  BY <1>3 DEF HarnessInit, RecordsInv, OneRecordACell
<1>5. StoreInv
  BY <1>3 DEF HarnessInit, StoreInv
<1>6. FetchInv
  BY DEF HarnessInit, NoWork, FetchInv, At
<1> QED BY <1>2, <1>4, <1>5, <1>6 DEF HarnessInv

-----------------------------------------------------------------------------
\* A step that leaves the store alone keeps what is stored.
LEMMA StoreUntouched ==
  ASSUME StoreInv, UNCHANGED store
  PROVE  StoreInv'
BY DEF StoreInv, FileInv, Sequence

LEMMA RecordsUntouched ==
  ASSUME RecordsInv, UNCHANGED records
  PROVE  RecordsInv' /\ CompletedCells' = CompletedCells
BY DEF RecordsInv, OneRecordACell, Sequence, CompletedCells

LEMMA StartKeeps == ASSUME HarnessInv, StartRun PROVE HarnessInv'
<1>1. Len(Order) \in Nat
  BY OrderAssumption
<1>2. StoreInv' /\ RecordsInv' /\ CompletedCells' = CompletedCells
  BY StoreUntouched, RecordsUntouched DEF HarnessInv, StartRun
<1>3. /\ WorkShape(work') /\ work'.pc = "pick" /\ work'.at = 1
      /\ work'.done = CompletedCells
  BY DEF StartRun, NoWork, WorkShape
<1>4. WorkInv'
  BY <1>1, <1>2, <1>3 DEF WorkInv, Busy, At
<1>5. FetchInv'
  BY <1>3 DEF FetchInv, At
<1> QED BY <1>2, <1>4, <1>5 DEF HarnessInv

LEMMA SkipKeeps == ASSUME HarnessInv, Skip PROVE HarnessInv'
<1>1. Len(Order) \in Nat
  BY OrderAssumption
<1>2. StoreInv' /\ RecordsInv' /\ CompletedCells' = CompletedCells
  BY StoreUntouched, RecordsUntouched DEF HarnessInv, Skip
<1>3. /\ WorkShape(work) /\ work.at \in 1 .. Len(Order) /\ work.pc = "pick"
      /\ CompletedCells \subseteq work.done \cup Passed /\ Cell \in work.done
  BY <1>1 DEF HarnessInv, WorkInv, Skip, Picking, At, Busy
<1>4. work'.pc = "pick" /\ work'.done = work.done /\ work'.at = work.at + 1 /\ WorkShape(work')
  BY <1>3 DEF Skip, WorkShape
<1>5. Passed' = Passed \cup {Cell}
  BY <1>1, <1>3, <1>4 DEF Passed, Cell
<1>6. WorkInv'
  BY <1>1, <1>2, <1>3, <1>4, <1>5 DEF WorkInv, Busy, At
<1>7. FetchInv'
  BY <1>4 DEF FetchInv, At
<1> QED BY <1>2, <1>6, <1>7 DEF HarnessInv

\* The work goes on with the cell it has.
LEMMA CellKept ==
  ASSUME WorkInv, (At("pick") /\ Cell \notin work.done /\ work.at <= Len(Order)) \/ Busy,
         CompletedCells' = CompletedCells,
         WorkShape(work'), work'.done = work.done, work'.at = work.at, Busy'
  PROVE  WorkInv' /\ Cell' = Cell
<1>1. Len(Order) \in Nat
  BY OrderAssumption
<1>2. Passed' = Passed /\ Cell' = Cell
  BY DEF Passed, Cell
<1>3. work.at \in 1 .. Len(Order) /\ Cell \notin work.done
  BY <1>1 DEF WorkInv
<1> QED BY <1>2, <1>3 DEF WorkInv

LEMMA ReplayKeeps == ASSUME HarnessInv, Replay PROVE HarnessInv'
<1>1. Len(Order) \in Nat
  BY OrderAssumption
<1>2. StoreInv' /\ RecordsInv' /\ CompletedCells' = CompletedCells
  BY StoreUntouched, RecordsUntouched DEF HarnessInv, Replay
<1>3. CASE work' = NoWork
  <2>1. WorkInv'
    BY <1>1, <1>3 DEF NoWork, WorkInv, WorkShape, Busy, At
  <2>2. FetchInv'
    BY <1>3 DEF NoWork, FetchInv, At
  <2> QED BY <1>2, <2>1, <2>2 DEF HarnessInv
<1>4. CASE work' # NoWork
  <2>1. PICK refs, got : work' = [work EXCEPT !.pc = "append", !.replayed = TRUE,
                                              !.refs = refs, !.pages = got]
    BY <1>4 DEF Replay
  <2>2. /\ WorkShape(work') /\ work'.done = work.done /\ work'.at = work.at
        /\ work'.pc = "append"
    BY <2>1 DEF HarnessInv, WorkInv, WorkShape
  <2>3. WorkInv'
    BY <1>2, <2>2, CellKept DEF HarnessInv, Replay, Picking, Busy
  <2>4. FetchInv'
    BY <2>2 DEF FetchInv, At
  <2> QED BY <1>2, <2>3, <2>4 DEF HarnessInv
<1> QED BY <1>3, <1>4

LEMMA FetchKeeps == ASSUME HarnessInv, Fetch PROVE HarnessInv'
<1>1. StoreInv' /\ RecordsInv' /\ CompletedCells' = CompletedCells
  BY StoreUntouched, RecordsUntouched DEF HarnessInv, Fetch
<1>2. /\ WorkShape(work') /\ work'.done = work.done /\ work'.at = work.at
      /\ work'.pc = "http"
  BY DEF HarnessInv, WorkInv, WorkShape, Fetch
<1>3. WorkInv' /\ Cell' = Cell
  BY <1>1, <1>2, CellKept DEF HarnessInv, Fetch, Picking, Busy
<1>4. FetchInv'
  BY <1>2, <1>3 DEF FetchInv, At, Fetch, Stored
<1> QED BY <1>1, <1>3, <1>4 DEF HarnessInv

\* A response keeps the cell; it ends the fetching or goes on with it.
LEMMA ResponseKeepsCell ==
  ASSUME WorkShape(work), At("http"), NEW w,
         \/ \E response \in {"200", "404", "denied", "5xx", "429"} : w = OnResponse(response)
         \/ w = GiveUp("unsupported")
  PROVE  /\ WorkShape(w) /\ w.done = work.done /\ w.at = work.at
         /\ w.pc \in {"http", "persist", "append"}
<1>1. ASSUME NEW s
      PROVE  /\ WorkShape(GiveUp(s)) /\ GiveUp(s).done = work.done
             /\ GiveUp(s).at = work.at /\ GiveUp(s).pc = "append"
  <2>1. ASSUME NEW got, NEW v, v = [work EXCEPT !.pc = "append", !.pages = got, !.status = s]
        PROVE  WorkShape(v) /\ v.done = work.done /\ v.at = work.at /\ v.pc = "append"
    BY <2>1 DEF WorkShape
  <2> QED BY <2>1 DEF GiveUp
<1>2. ASSUME NEW v, WorkShape(v), v.done = work.done, v.at = work.at, v.pc = "http"
      PROVE  LET u == NextRequest(v) IN
               /\ WorkShape(u) /\ u.done = work.done /\ u.at = work.at
               /\ u.pc \in {"http", "persist"}
  BY <1>2 DEF NextRequest, WorkShape
<1>3. WorkShape(Delivered) /\ Delivered.done = work.done /\ Delivered.at = work.at
      /\ Delivered.pc = "http"
  <2> DEFINE got == Append(work.pages, Pages[Cell][work.asked])
  <2> HIDE DEF got
  <2>1. Delivered = [work EXCEPT !.pages = got]
    BY DEF Delivered, got
  <2> QED BY <2>1 DEF WorkShape, At
<1>4. CASE w = GiveUp("unsupported")
  BY <1>1, <1>4
<1>5. CASE w = OnResponse("200")
  BY <1>2, <1>3, <1>5 DEF OnResponse
<1>6. CASE w = OnResponse("404")
  BY <1>2, <1>6 DEF OnResponse, At
<1>7. CASE w = OnResponse("denied")
  BY <1>1, <1>7 DEF OnResponse
<1>8. CASE w = OnResponse("5xx")
  <2>1. w = GiveUp("provider_error") \/ w = [work EXCEPT !.attempt = @ + 1]
    BY <1>8 DEF OnResponse
  <2>2. CASE w = [work EXCEPT !.attempt = @ + 1]
    BY <2>2 DEF WorkShape, At
  <2> QED BY <1>1, <2>1, <2>2
<1>9. CASE w = OnResponse("429")
  <2>1. w = Again \/ w = [GiveUp("rate_limited") EXCEPT !.throttles = @ + 1]
    BY <1>9 DEF OnResponse
  <2>2. CASE w = Again
    BY <2>2 DEF Again, WorkShape, At
  <2>3. CASE w = [GiveUp("rate_limited") EXCEPT !.throttles = @ + 1]
    BY <1>1, <2>3 DEF WorkShape
  <2> QED BY <2>1, <2>2, <2>3
<1> QED BY <1>4, <1>5, <1>6, <1>7, <1>8, <1>9

LEMMA HttpKeeps == ASSUME HarnessInv, Http \/ Unsupported PROVE HarnessInv'
<1>1. StoreInv' /\ RecordsInv' /\ CompletedCells' = CompletedCells /\ UNCHANGED store
  BY StoreUntouched, RecordsUntouched DEF HarnessInv, Http, Unsupported
<1>2. At("http") /\ WorkShape(work)
  BY DEF HarnessInv, WorkInv, Http, Unsupported
<1>3. /\ WorkShape(work') /\ work'.done = work.done /\ work'.at = work.at
      /\ work'.pc \in {"http", "persist", "append"}
  BY <1>2, ResponseKeepsCell DEF Http, Unsupported
<1>4. WorkInv' /\ Cell' = Cell
  BY <1>1, <1>2, <1>3, CellKept DEF HarnessInv, Busy, At
<1>5. FetchInv'
  BY <1>1, <1>2, <1>3, <1>4 DEF HarnessInv, FetchInv, At, Stored
<1> QED BY <1>1, <1>4, <1>5 DEF HarnessInv

-----------------------------------------------------------------------------
LEMMA NewPageKeeps == ASSUME HarnessInv, NewPage PROVE HarnessInv'
<1>1. RecordsInv' /\ CompletedCells' = CompletedCells
  BY RecordsUntouched DEF HarnessInv, NewPage
<1>2. /\ WorkShape(work') /\ work'.done = work.done /\ work'.at = work.at
      /\ work'.pc = "write"
  BY DEF HarnessInv, WorkInv, WorkShape, NewPage
<1>3. Busy /\ Cell \in Cells
  BY CellAtWork DEF HarnessInv, NewPage, At, Busy
<1>4. WorkInv' /\ Cell' = Cell
  BY <1>1, <1>2, <1>3, CellKept DEF HarnessInv, Busy
<1> DEFINE file == [page |-> work.pages[Len(work.refs) + 1], written |-> {"content"}]
           n == Len(store[Cell])
<1>5. FileInv(file) /\ ~Whole(file)
  BY DEF FileInv, WrittenInTurn, Whole
<1>6. store' = [store EXCEPT ![Cell] = Append(store[Cell], file)]
  BY DEF NewPage, FileSteps
<1> HIDE DEF file
<1>7. /\ Sequence(Append(store[Cell], file))
      /\ DOMAIN Append(store[Cell], file) = 1 .. n + 1 /\ n \in Nat
      /\ Len(Append(store[Cell], file)) = n + 1
      /\ \A i \in 1 .. n : Append(store[Cell], file)[i] = store[Cell][i]
      /\ Append(store[Cell], file)[n + 1] = file
      /\ DOMAIN store[Cell] = 1 .. n
  BY <1>3, AppendSequence DEF HarnessInv, StoreInv
<1>8. \A i \in DOMAIN Append(store[Cell], file) : FileInv(Append(store[Cell], file)[i])
  BY <1>3, <1>5, <1>7 DEF HarnessInv, StoreInv
<1>9. StoreInv'
  BY <1>3, <1>6, <1>7, <1>8 DEF HarnessInv, StoreInv
<1>10. store'[Cell] = Append(store[Cell], file)
  BY <1>3, <1>6 DEF HarnessInv, StoreInv
<1>11. FetchInv'
  BY <1>2, <1>4, <1>5, <1>7, <1>10 DEF FetchInv, At
<1> QED BY <1>1, <1>4, <1>9, <1>11 DEF HarnessInv

\* The next step of a page that is not whole
LEMMA NextFileStep ==
  ASSUME NEW file, FileInv(file), ~Whole(file)
  PROVE  LET k == Cardinality(file.written)
             written == file.written \cup {FileSteps[k + 1]}
         IN  /\ k \in 1 .. 2 /\ written \in WrittenInTurn
             /\ (k + 1 = Len(FileSteps)) <=> "fill" \in written
<1>1. CASE file.written = {"content"}
  <2>1. Cardinality(file.written) = 1
    BY <1>1, FS_Singleton
  <2> QED BY <1>1, <2>1 DEF FileSteps, WrittenInTurn
<1>2. CASE file.written = {"content", "create"}
  <2>1. IsFiniteSet({"content"}) /\ Cardinality({"content"}) = 1
    BY FS_Singleton
  <2>2. Cardinality({"content"} \cup {"create"}) = 2
    BY <2>1, FS_AddElement
  <2>3. Cardinality(file.written) = 2
    <3>1. {"content"} \cup {"create"} = {"content", "create"}
      OBVIOUS
    <3> QED BY <1>2, <2>2, <3>1
  <2> QED BY <1>2, <2>3 DEF FileSteps, WrittenInTurn
<1> QED BY <1>1, <1>2 DEF FileInv, WrittenInTurn, Whole

LEMMA WritePageKeeps == ASSUME HarnessInv, WritePage PROVE HarnessInv'
<1>1. RecordsInv' /\ CompletedCells' = CompletedCells
  BY RecordsUntouched DEF HarnessInv, WritePage
<1>2. Busy /\ Cell \in Cells
  BY CellAtWork DEF HarnessInv, WritePage, At, Busy
<1> DEFINE n == Len(store[Cell])
           file == store[Cell][n]
           k == Cardinality(file.written)
           written == file.written \cup {FileSteps[k + 1]}
<1>3. n \in DOMAIN store[Cell] /\ FileInv(file) /\ ~Whole(file)
  BY <1>2 DEF HarnessInv, FetchInv, StoreInv, WritePage
<1>4. k \in 1 .. 2 /\ written \in WrittenInTurn /\ ((k + 1 = Len(FileSteps)) <=> "fill" \in written)
  BY <1>3, NextFileStep
<1>5. store' = [store EXCEPT ![Cell][n].written = written]
  BY DEF WritePage
<1>6. /\ WorkShape(work') /\ work'.done = work.done /\ work'.at = work.at
      /\ IF k + 1 = Len(FileSteps) THEN work'.pc = "persist" ELSE work'.pc = "write"
  <2>1. ASSUME NEW refs, NEW v, v = [work EXCEPT !.pc = "persist", !.refs = refs]
        PROVE  WorkShape(v) /\ v.done = work.done /\ v.at = work.at /\ v.pc = "persist"
    BY <2>1 DEF HarnessInv, WorkInv, WorkShape
  <2>2. IF k + 1 = Len(FileSteps)
        THEN work' = [work EXCEPT !.pc = "persist", !.refs = Append(@, n)] ELSE work' = work
    BY DEF WritePage
  <2> QED BY <2>1, <2>2 DEF HarnessInv, WorkInv, WritePage, At
<1>7. WorkInv' /\ Cell' = Cell
  BY <1>1, <1>2, <1>6, CellKept DEF HarnessInv, Busy
<1> DEFINE newFile == [file EXCEPT !.written = written]
           newFiles == [store[Cell] EXCEPT ![n] = newFile]
<1>8. store' = [store EXCEPT ![Cell] = newFiles]
  BY <1>5
<1>9. FileInv(newFile) /\ newFile.written = written
  <2>1. ASSUME NEW f, FileInv(f), NEW w \in WrittenInTurn, NEW g, g = [f EXCEPT !.written = w]
        PROVE  FileInv(g) /\ g.written = w
    BY <2>1 DEF FileInv
  <2>2. FileInv(file) /\ written \in WrittenInTurn
    BY <1>3, <1>4
  <2> HIDE DEF file, written
  <2> QED BY <2>1, <2>2
<1> HIDE DEF newFile
<1>10. PICK S : store[Cell] \in Seq(S)
  BY <1>2 DEF HarnessInv, StoreInv, Sequence
<1>11. newFiles \in Seq(S \cup {newFile}) /\ Len(newFiles) = n
  BY <1>3, <1>10
<1>12. Sequence(newFiles) /\ \A i \in DOMAIN newFiles : FileInv(newFiles[i])
  BY <1>2, <1>3, <1>9, <1>11 DEF Sequence, HarnessInv, StoreInv
<1>13. n \in DOMAIN newFiles /\ newFiles[n] = newFile
  BY <1>3, <1>10
<1> HIDE DEF newFiles
<1>14. StoreInv'
  BY <1>2, <1>8, <1>12 DEF HarnessInv, StoreInv
<1>15. store'[Cell] = newFiles
  BY <1>2, <1>8 DEF HarnessInv, StoreInv
<1>16. FetchInv'
  BY <1>4, <1>6, <1>7, <1>9, <1>11, <1>13, <1>15 DEF FetchInv, At, Whole
<1> QED BY <1>1, <1>7, <1>14, <1>16 DEF HarnessInv

LEMMA PersistedKeeps == ASSUME HarnessInv, Persisted \/ BeginAppend PROVE HarnessInv'
<1>1. StoreInv' /\ RecordsInv' /\ CompletedCells' = CompletedCells
  BY StoreUntouched, RecordsUntouched DEF HarnessInv, Persisted, BeginAppend
<1>2. /\ WorkShape(work') /\ work'.done = work.done /\ work'.at = work.at
      /\ work'.pc \in {"append", "appending"}
  BY DEF HarnessInv, WorkInv, WorkShape, Persisted, BeginAppend
<1>3. WorkInv'
  BY <1>1, <1>2, CellKept DEF HarnessInv, Persisted, BeginAppend, At, Busy
<1>4. FetchInv'
  BY <1>2 DEF FetchInv, At
<1> QED BY <1>1, <1>3, <1>4 DEF HarnessInv

LEMMA EndAppendKeeps == ASSUME HarnessInv, EndAppend PROVE HarnessInv'
<1>1. Len(Order) \in Nat
  BY OrderAssumption
<1>2. Busy /\ Cell \in Cells /\ Cell \notin CompletedCells
  BY CellAtWork DEF HarnessInv, EndAppend, At, Busy
<1>3. StoreInv'
  BY StoreUntouched DEF HarnessInv, EndAppend
<1>4. PICK record : record.cell = Cell /\ records' = Append(records, record)
  BY DEF EndAppend
<1> DEFINE n == Len(records)
<1>5. /\ Sequence(records') /\ n \in Nat /\ DOMAIN records = 1 .. n
      /\ DOMAIN records' = 1 .. n + 1 /\ records'[n + 1] = record
      /\ \A i \in 1 .. n : records'[i] = records[i]
  BY <1>4, AppendSequence DEF HarnessInv, RecordsInv
<1>6. CompletedCells' = CompletedCells \cup {Cell}
  BY <1>4, <1>5 DEF CompletedCells
<1>7. OneRecordACell'
  BY <1>2, <1>4, <1>5 DEF HarnessInv, RecordsInv, OneRecordACell, CompletedCells
<1>8. /\ WorkShape(work') /\ work'.pc = "pick" /\ work'.done = work.done
      /\ work'.at = work.at + 1
  BY DEF EndAppend, NoWork, WorkShape
<1>9. work.at \in 1 .. Len(Order) /\ CompletedCells \subseteq work.done \cup Passed
  BY <1>2 DEF HarnessInv, WorkInv
<1>10. Passed' = Passed \cup {Cell}
  BY <1>1, <1>8, <1>9 DEF Passed, Cell
<1>11. WorkInv'
  BY <1>1, <1>6, <1>8, <1>9, <1>10 DEF WorkInv, Busy, At
<1>12. FetchInv'
  BY <1>8 DEF FetchInv, At
<1> QED BY <1>3, <1>5, <1>7, <1>11, <1>12 DEF HarnessInv, RecordsInv

LEMMA StopKeeps == ASSUME HarnessInv, Finish \/ Kill PROVE HarnessInv'
<1>1. Len(Order) \in Nat
  BY OrderAssumption
<1>2. StoreInv' /\ RecordsInv'
  BY StoreUntouched, RecordsUntouched DEF HarnessInv, Finish, Kill
<1>3. WorkShape(work') /\ work'.pc \in {"down", "finished"} /\ work'.at = 1
  BY DEF Finish, Kill, NoWork, WorkShape
<1>4. WorkInv'
  BY <1>1, <1>3 DEF WorkInv, Busy, At
<1>5. FetchInv'
  BY <1>3 DEF FetchInv, At
<1> QED BY <1>2, <1>4, <1>5 DEF HarnessInv

-----------------------------------------------------------------------------
LEMMA Stuttering == ASSUME HarnessInv, UNCHANGED harnessing PROVE HarnessInv'
<1>1. StoreInv' /\ RecordsInv' /\ CompletedCells' = CompletedCells
  BY StoreUntouched, RecordsUntouched DEF HarnessInv, harnessing
<1>2. work' = work /\ store' = store
  BY DEF harnessing
<1> QED BY <1>1, <1>2 DEF HarnessInv, WorkInv, FetchInv, WorkShape, Busy, At, Passed, Cell, Stored

LEMMA HarnessInvariance == HarnessSpec => []HarnessInv
<1>1. HarnessInv /\ [HarnessNext]_harnessing => HarnessInv'
  <2> SUFFICES ASSUME HarnessInv, [HarnessNext]_harnessing PROVE HarnessInv'
    OBVIOUS
  <2>1. CASE StartRun \/ Skip \/ Replay \/ Fetch
    BY <2>1, StartKeeps, SkipKeeps, ReplayKeeps, FetchKeeps
  <2>2. CASE Http \/ Unsupported
    BY <2>2, HttpKeeps
  <2>3. CASE NewPage \/ WritePage
    BY <2>3, NewPageKeeps, WritePageKeeps
  <2>4. CASE Persisted \/ BeginAppend \/ EndAppend
    BY <2>4, PersistedKeeps, EndAppendKeeps
  <2>5. CASE Finish \/ Kill
    BY <2>5, StopKeeps
  <2>6. CASE UNCHANGED harnessing
    BY <2>6, Stuttering
  <2> QED BY <2>1, <2>2, <2>3, <2>4, <2>5, <2>6 DEF HarnessNext, Run
<1> QED BY <1>1, HarnessInitially, PTL DEF HarnessSpec

(***************************************************************************)
(* However often a bake-off is killed and resumed, cells.jsonl has one     *)
(* record for a cell.                                                      *)
(***************************************************************************)
THEOREM OneRecord == HarnessSpec => []OneRecordACell
<1>1. HarnessInv => OneRecordACell
  BY DEF HarnessInv, RecordsInv
<1> QED BY <1>1, HarnessInvariance, PTL

(***************************************************************************)
(* No request is made for a cell that is recorded, or of which the raw     *)
(* store holds a readable page.                                            *)
(***************************************************************************)
THEOREM QuotaSpentOnce == HarnessSpec => []NeverRefetched
<1>1. ASSUME HarnessInv PROVE NeverRefetched
  <2> SUFFICES ASSUME At("http")
               PROVE  /\ Cell \notin CompletedCells
                      /\ \A i \in DOMAIN store[Cell] : ~Whole(store[Cell][i])
    BY DEF NeverRefetched
  <2>1. Cell \in Cells /\ Cell \notin CompletedCells
    BY <1>1, CellAtWork DEF HarnessInv, Busy, At
  <2>2. \A i \in DOMAIN store[Cell] : FileInv(store[Cell][i]) /\ ~Sidecar(store[Cell][i])
    BY <1>1, <2>1 DEF HarnessInv, StoreInv, FetchInv, Stored
  <2>3. \A i \in DOMAIN store[Cell] : ~Whole(store[Cell][i])
    BY <2>2 DEF FileInv, WrittenInTurn, Sidecar, Whole
  <2> QED BY <2>1, <2>3
<1> QED BY <1>1, HarnessInvariance, PTL

-----------------------------------------------------------------------------
(***************************************************************************)
(* The evidence.  A file, once whole, stays, with its page; what a cell    *)
(* has sidecars of was fetched in one go, for nothing is fetched once      *)
(* there is one, so that its pages differ; and the references of the work  *)
(* are, while it persists, all the sidecars but that being written.        *)
(***************************************************************************)
Evidence(files, refs, seen) ==
    /\ refs \in Seq(DOMAIN files)
    /\ \A k \in DOMAIN refs : Whole(files[refs[k]])
    /\ seen = [k \in DOMAIN refs |-> files[refs[k]].page]
    /\ IsInjective(seen)

Listed(files) == {i \in DOMAIN files : Sidecar(files[i])}

\* The pages are those of earlier requests.
Fetched(w, c) ==
    /\ w.refs = <<>> /\ w.asked \in 1 .. Len(Pages[c])
    /\ Sequence(w.pages) /\ IsInjective(w.pages)
    /\ \A k \in DOMAIN w.pages : \E i \in 1 .. w.asked - 1 : w.pages[k] = Pages[c][i]

Persisting(files, w) ==
    /\ Sequence(w.pages) /\ IsInjective(w.pages)
    /\ w.refs \in Seq(DOMAIN files) /\ Len(w.refs) <= Len(w.pages)
    /\ \A k \in DOMAIN w.refs : /\ Whole(files[w.refs[k]])
                                /\ files[w.refs[k]].page = w.pages[k]

Writing(files, w) ==
    /\ Len(w.refs) < Len(w.pages)
    /\ files[Len(files)].page = w.pages[Len(w.refs) + 1]

HandInv ==
    /\ At("pick") => work.refs = <<>> /\ work.pages = <<>> /\ work.asked = 1
    /\ At("http") => Fetched(work, Cell)
    /\ At("persist") => /\ Persisting(store[Cell], work)
                        /\ Listed(store[Cell]) = Range(work.refs)
    /\ At("write") => /\ Persisting(store[Cell], work) /\ Writing(store[Cell], work)
                      /\ Listed(store[Cell]) \ {Len(store[Cell])} = Range(work.refs)
    /\ At("append") \/ At("appending") => Evidence(store[Cell], work.refs, work.pages)

RecordsStand ==
    \A i \in DOMAIN records :
        /\ records[i].cell \in Cells
        /\ Evidence(store[records[i].cell], records[i].refs, records[i].pages)

StoredOnce ==
    \A c \in Cells : \A i, j \in Listed(store[c]) : store[c][i].page = store[c][j].page => i = j

EvidenceInv == HandInv /\ RecordsStand /\ StoredOnce

\* The files there are stay, with their pages, and whole.
Extends(files, later) ==
    /\ DOMAIN files \subseteq DOMAIN later
    /\ \A i \in DOMAIN files : /\ later[i].page = files[i].page
                               /\ Whole(files[i]) => Whole(later[i])

LEMMA EvidenceStays ==
  ASSUME NEW files, NEW later, Extends(files, later),
         NEW refs, NEW seen, Evidence(files, refs, seen)
  PROVE  Evidence(later, refs, seen)
<1>1. refs \in Seq(DOMAIN later)
  BY DEF Evidence, Extends
<1>2. \A k \in DOMAIN refs : refs[k] \in DOMAIN files
  BY DEF Evidence
<1>3. \A k \in DOMAIN refs : Whole(later[refs[k]])
  BY <1>2 DEF Evidence, Extends
<1>4. seen = [k \in DOMAIN refs |-> later[refs[k]].page]
  BY <1>2 DEF Evidence, Extends
<1> QED BY <1>1, <1>3, <1>4 DEF Evidence

LEMMA NoEvidence == ASSUME NEW files PROVE Evidence(files, <<>>, <<>>)
BY DEF Evidence, IsInjective

\* A step that leaves the store and the records alone.
LEMMA OthersUntouched ==
  ASSUME EvidenceInv, UNCHANGED <<store, records>>
  PROVE  RecordsStand' /\ StoredOnce'
BY DEF EvidenceInv, RecordsStand, StoredOnce

LEMMA EvidenceInitially == HarnessInit => EvidenceInv
BY DEF HarnessInit, NoWork, EvidenceInv, HandInv, At, RecordsStand, StoredOnce, Listed

-----------------------------------------------------------------------------
LEMMA LeastNatural ==
  ASSUME NEW X, X \subseteq Nat, X # {}
  PROVE  \E x \in X : \A y \in X : x <= y
<1> DEFINE Less == {p \in Nat \X Nat : p[1] < p[2]}
<1>1. IsWellFoundedOn(Less, Nat)
  BY NatLessThanWellFounded, Zenon DEF OpToRel
<1> HIDE DEF Less
<1>2. PICK x \in X : \A y \in X : ~(<<y, x>> \in Less)
  BY <1>1, WFMin
<1>3. \A y \in X : ~(y < x)
  BY <1>2 DEF Less
<1> QED BY <1>3

\* A set of positions can be listed in ascending order.
LEMMA Enumerable ==
  ASSUME NEW n \in Nat, NEW A \in SUBSET (1 .. n)
  PROVE  /\ Cardinality(A) \in Nat
         /\ InNameOrder(A) \in [1 .. Cardinality(A) -> A]
         /\ \A i, j \in 1 .. Cardinality(A) : i < j => InNameOrder(A)[i] < InNameOrder(A)[j]
<1> DEFINE Ascending(s) == \A i, j \in DOMAIN s : i < j => s[i] < s[j]
           Good(m) == \A B \in SUBSET (1 .. m) :
                        /\ IsFiniteSet(B)
                        /\ \E s \in [1 .. Cardinality(B) -> B] : Ascending(s)
           Bad == {m \in Nat : ~Good(m)}
<1>1. Good(0)
  <2>1. IsFiniteSet({}) /\ Cardinality({}) = 0
    BY FS_EmptySet
  <2>2. <<>> \in [1 .. 0 -> {}] /\ Ascending(<<>>)
    OBVIOUS
  <2>3. 1 .. 0 = {}
    OBVIOUS
  <2> QED BY <2>1, <2>2, <2>3
<1>2. ASSUME NEW m \in Nat, Good(m) PROVE Good(m + 1)
  <2> SUFFICES ASSUME NEW B \in SUBSET (1 .. m + 1)
               PROVE  /\ IsFiniteSet(B)
                      /\ \E s \in [1 .. Cardinality(B) -> B] : Ascending(s)
    OBVIOUS
  <2>1. CASE m + 1 \notin B
    <3>1. B \in SUBSET (1 .. m)
      BY <2>1
    <3> QED BY <1>2, <3>1
  <2>2. CASE m + 1 \in B
    <3> DEFINE C == B \ {m + 1}
               k == Cardinality(C)
    <3>1. C \in SUBSET (1 .. m) /\ B = C \cup {m + 1} /\ m + 1 \notin C
      BY <2>2
    <3>2. IsFiniteSet(C) /\ \E s \in [1 .. k -> C] : Ascending(s)
      BY <1>2, <3>1
    <3> HIDE DEF C
    <3>3. k \in Nat
      BY <3>2, FS_CardinalityType
    <3>4. IsFiniteSet(B) /\ Cardinality(B) = k + 1
      BY <3>1, <3>2, FS_AddElement
    <3> HIDE DEF k
    <3>5. PICK s \in [1 .. k -> C] : Ascending(s)
      BY <3>2 DEF k
    <3> DEFINE t == [i \in 1 .. k + 1 |-> IF i = k + 1 THEN m + 1 ELSE s[i]]
    <3>6. t \in [1 .. k + 1 -> B]
      BY <3>1, <3>3
    <3>7. \A i \in 1 .. k : s[i] \in 1 .. m
      BY <3>1
    <3>8. Ascending(t)
      BY <3>3, <3>5, <3>7
    <3> QED BY <3>4, <3>6, <3>8
  <2> QED BY <2>1, <2>2
<1> HIDE DEF Good
<1>3. Good(n)
  <2>1. SUFFICES ASSUME Bad # {} PROVE FALSE
    OBVIOUS
  <2>2. PICK m \in Bad : \A x \in Bad : m <= x
    <3>1. Bad \subseteq Nat
      OBVIOUS
    <3> HIDE DEF Bad
    <3> QED BY <2>1, <3>1, LeastNatural
  <2>3. m \in Nat /\ m # 0 /\ ~Good(m)
    BY <1>1
  <2>4. m - 1 \in Nat /\ m - 1 \notin Bad
    <3>1. ASSUME m - 1 \in Bad PROVE FALSE
      <4> HIDE DEF Bad
      <4> QED BY <2>2, <2>3, <3>1
    <3> QED BY <2>3, <3>1
  <2> QED BY <1>2, <2>3, <2>4
<1>4. IsFiniteSet(A) /\ \E s \in [1 .. Cardinality(A) -> A] : Ascending(s)
  BY <1>3 DEF Good
<1>5. Cardinality(A) \in Nat
  BY <1>4, FS_CardinalityType
<1>6. InNameOrder(A) \in [1 .. Cardinality(A) -> A] /\ Ascending(InNameOrder(A))
  BY <1>4 DEF InNameOrder
<1> QED BY <1>5, <1>6

-----------------------------------------------------------------------------
\* Steps that hold no page: the process starts, looks for work or stops.
LEMMA IdleEvidence ==
  ASSUME HarnessInv, EvidenceInv, StartRun \/ Skip \/ Finish \/ Kill
  PROVE  EvidenceInv'
<1>1. RecordsStand' /\ StoredOnce'
  BY OthersUntouched DEF StartRun, Skip, Finish, Kill
<1>2. /\ work'.pc \in {"down", "pick", "finished"}
      /\ work'.pc = "pick" => work'.refs = <<>> /\ work'.pages = <<>> /\ work'.asked = 1
  <2>1. CASE StartRun
    <3>1. PICK done : work' = [NoWork EXCEPT !.pc = "pick", !.done = done]
      BY <2>1 DEF StartRun
    <3> QED BY <3>1 DEF NoWork
  <2>2. CASE Skip
    <3>1. WorkShape(work) /\ At("pick") /\ HandInv
      BY <2>2 DEF Skip, Picking, EvidenceInv, HarnessInv, WorkInv
    <3>2. PICK at : work' = [work EXCEPT !.at = at]
      BY <2>2 DEF Skip
    <3> QED BY <3>1, <3>2 DEF WorkShape, HandInv, At
  <2>3. CASE Finish \/ Kill
    BY <2>3 DEF Finish, Kill, NoWork
  <2> QED BY <2>1, <2>2, <2>3
<1> QED BY <1>1, <1>2 DEF EvidenceInv, HandInv, At

LEMMA ReplayEvidence == ASSUME HarnessInv, EvidenceInv, Replay PROVE EvidenceInv'
<1>1. RecordsStand' /\ StoredOnce'
  BY OthersUntouched DEF Replay
<1>2. CASE work' = NoWork
  BY <1>1, <1>2 DEF NoWork, EvidenceInv, HandInv, At
<1>3. CASE work' # NoWork
  <2> DEFINE files == store[Cell]
             A == Stored(Cell)
             refs == InNameOrder(A)
             seen == [k \in DOMAIN refs |-> files[refs[k]].page]
  <2>1. /\ \A i \in A : Whole(files[i])
        /\ work' = [work EXCEPT !.pc = "append", !.replayed = TRUE, !.refs = refs, !.pages = seen]
    BY <1>3 DEF Replay
  <2>2. /\ work'.pc = "append" /\ work'.at = work.at
        /\ work'.refs = refs /\ work'.pages = seen
    <3> HIDE DEF refs, seen
    <3> QED BY <2>1 DEF HarnessInv, WorkInv, WorkShape
  <2>3. Cell \in Cells
    BY OrderAssumption DEF HarnessInv, WorkInv, Replay, Picking, Cell, Cells
  <2>4. Sequence(files)
    BY <2>3 DEF HarnessInv, StoreInv
  <2>5. DOMAIN files = 1 .. Len(files) /\ Len(files) \in Nat
    <3>1. PICK V : files \in Seq(V)
      BY <2>4 DEF Sequence
    <3> QED BY <3>1
  <2>6. A \in SUBSET (1 .. Len(files)) /\ A \subseteq DOMAIN files
    BY <2>5 DEF Stored
  <2>7. /\ Cardinality(A) \in Nat /\ refs \in [1 .. Cardinality(A) -> A]
        /\ \A i, j \in 1 .. Cardinality(A) : i < j => refs[i] < refs[j]
    <3> HIDE DEF A
    <3> QED BY <2>5, <2>6, Enumerable
  <2>8. \A i, j \in A : files[i].page = files[j].page => i = j
    BY <2>3 DEF EvidenceInv, StoredOnce, Listed, Stored
  <2> HIDE DEF A, refs, files
  <2>9. DOMAIN refs = 1 .. Cardinality(A) /\ \A k \in DOMAIN refs : refs[k] \in A
    BY <2>7
  <2>10. refs \in Seq(DOMAIN files)
    BY <2>6, <2>7
  <2>11. \A i, j \in DOMAIN refs : refs[i] = refs[j] => i = j
    <3> SUFFICES ASSUME NEW i \in DOMAIN refs, NEW j \in DOMAIN refs, refs[i] = refs[j]
                 PROVE  i = j
      OBVIOUS
    <3>1. i \in Int /\ j \in Int
      BY <2>9
    <3>2. refs[i] \in Int /\ refs[j] \in Int
      BY <2>6, <2>9
    <3>3. ~(i < j) /\ ~(j < i)
      BY <2>7, <2>9, <3>2
    <3> QED BY <3>1, <3>3
  <2>12. IsInjective(seen)
    BY <2>8, <2>9, <2>11 DEF IsInjective
  <2>13. Evidence(files, refs, seen)
    BY <2>1, <2>9, <2>10, <2>12 DEF Evidence
  <2>14. store' = store /\ Cell' = Cell
    BY <2>2 DEF Replay, Cell
  <2>15. store[Cell]' = files
    BY <2>14 DEF files
  <2>16. HandInv'
    BY <2>2, <2>13, <2>15 DEF HandInv, At
  <2> QED BY <1>1, <2>16 DEF EvidenceInv
<1> QED BY <1>2, <1>3

LEMMA FetchEvidence == ASSUME HarnessInv, EvidenceInv, Fetch PROVE EvidenceInv'
<1>1. RecordsStand' /\ StoredOnce'
  BY OthersUntouched DEF Fetch
<1>2. /\ work'.pc = "http" /\ work'.at = work.at
      /\ work'.refs = <<>> /\ work'.pages = <<>> /\ work'.asked = 1
  BY DEF Fetch, Picking, EvidenceInv, HandInv, HarnessInv, WorkInv, WorkShape, At
<1>3. Cell' = Cell /\ Cell \in Cells
  BY <1>2, OrderAssumption DEF Cell, Cells, Fetch, Picking, HarnessInv, WorkInv
<1>4. Len(Pages[Cell]) \in Nat /\ Len(Pages[Cell]) >= 1
  <2>1. PICK V : Pages[Cell] \in Seq(V) /\ Pages[Cell] # <<>>
    BY <1>3, PagesAssumption
  <2> QED BY <2>1
<1>5. Sequence(<<>>) /\ IsInjective(<<>>)
  BY <<>> \in Seq({}) DEF Sequence, IsInjective
<1>6. Fetched(work, Cell)'
  BY <1>2, <1>3, <1>4, <1>5 DEF Fetched
<1> QED BY <1>1, <1>2, <1>6 DEF EvidenceInv, HandInv, At

-----------------------------------------------------------------------------
\* What a response leaves in hand, when nothing of the cell is listed yet.
Outcome(files, c, w) ==
    /\ w.pc = "http" => Fetched(w, c)
    /\ w.pc = "persist" => Persisting(files, w) /\ Range(w.refs) = {}
    /\ w.pc = "append" => Evidence(files, w.refs, w.pages)

\* The next request, after a page was added or not.
LEMMA NextRequestOutcome ==
  ASSUME NEW files, NEW w, WorkShape(w), At("http"), Cell \in Cells,
         w.pc = "http", w.refs = <<>>, w.asked \in 1 .. Len(Pages[Cell]),
         Sequence(w.pages), IsInjective(w.pages),
         \A k \in DOMAIN w.pages : \E i \in 1 .. w.asked : w.pages[k] = Pages[Cell][i]
  PROVE  Outcome(files, Cell, NextRequest(w))
<1>1. PICK V : Pages[Cell] \in Seq(V)
  BY PagesAssumption
<1> DEFINE n == Len(Pages[Cell])
<1>2. n \in Nat
  BY <1>1
<1>3. CASE w.asked < n
  <2>1. NextRequest(w) = [w EXCEPT !.asked = w.asked + 1, !.attempt = 1]
    BY <1>3 DEF NextRequest
  <2> DEFINE v == [w EXCEPT !.asked = w.asked + 1, !.attempt = 1]
  <2>2. /\ v.pc = "http" /\ v.refs = <<>> /\ v.pages = w.pages /\ v.asked = w.asked + 1
    BY DEF WorkShape
  <2>3. v.asked \in 1 .. n /\ 1 .. w.asked = 1 .. v.asked - 1
    BY <1>2, <1>3, <2>2
  <2> HIDE DEF v, n
  <2>4. Fetched(v, Cell)
    BY <2>2, <2>3 DEF Fetched, n
  <2> QED BY <2>1, <2>2, <2>4 DEF Outcome, v
<1>4. CASE ~(w.asked < n)
  <2> DEFINE status == IF w.pages = <<>> THEN "empty" ELSE "ok"
  <2>1. NextRequest(w) = [w EXCEPT !.pc = "persist", !.attempt = 1, !.status = status]
    BY <1>4 DEF NextRequest
  <2> HIDE DEF status
  <2> DEFINE v == [w EXCEPT !.pc = "persist", !.attempt = 1, !.status = status]
  <2>2. v.pc = "persist" /\ v.refs = <<>> /\ v.pages = w.pages
    BY DEF WorkShape
  <2> HIDE DEF v
  <2>3. Len(w.pages) \in Nat
    <3>1. PICK U : w.pages \in Seq(U)
      BY DEF Sequence
    <3> QED BY <3>1
  <2>4. Persisting(files, v)
    BY <2>2, <2>3 DEF Persisting
  <2>5. Range(v.refs) = {}
    BY <2>2 DEF Range
  <2> QED BY <2>1, <2>2, <2>4, <2>5 DEF Outcome, v
<1> QED BY <1>3, <1>4

LEMMA ResponseOutcome ==
  ASSUME WorkShape(work), At("http"), Cell \in Cells, Fetched(work, Cell), NEW files, NEW w,
         \/ \E response \in {"200", "404", "denied", "5xx", "429"} : w = OnResponse(response)
         \/ w = GiveUp("unsupported")
  PROVE  Outcome(files, Cell, w)
<1>1. ASSUME NEW s PROVE Outcome(files, Cell, GiveUp(s)) /\ GiveUp(s).pc = "append"
                         /\ GiveUp(s).refs = <<>> /\ GiveUp(s).pages = <<>> /\ WorkShape(GiveUp(s))
  <2>1. /\ GiveUp(s).pc = "append" /\ GiveUp(s).refs = <<>> /\ GiveUp(s).pages = <<>>
        /\ WorkShape(GiveUp(s))
    <3>1. GiveUp(s) = [work EXCEPT !.pc = "append", !.pages = <<>>, !.status = s]
      BY DEF GiveUp
    <3>2. work.refs = <<>>
      BY DEF Fetched
    <3> QED BY <3>1, <3>2 DEF WorkShape
  <2>2. Evidence(files, <<>>, <<>>)
    BY NoEvidence
  <2> QED BY <2>1, <2>2 DEF Outcome
<1>2. PICK V : Pages[Cell] \in Seq(V)
  BY PagesAssumption
<1>3. work.asked \in 1 .. Len(Pages[Cell]) /\ Len(Pages[Cell]) \in Nat /\ work.refs = <<>>
  BY <1>2 DEF Fetched
<1>4. CASE w = OnResponse("200")
  <2> DEFINE e == Pages[Cell][work.asked]
             seen == Append(work.pages, e)
             n == Len(work.pages)
  <2>1. /\ Sequence(seen) /\ DOMAIN seen = 1 .. n + 1 /\ n \in Nat
        /\ DOMAIN work.pages = 1 .. n
        /\ \A i \in 1 .. n : seen[i] = work.pages[i]
        /\ seen[n + 1] = e
    <3>1. Sequence(work.pages)
      BY DEF Fetched
    <3> HIDE DEF e
    <3> QED BY <3>1, AppendSequence
  <2>2. \A k \in 1 .. n : \E i \in 1 .. work.asked - 1 : seen[k] = Pages[Cell][i]
    BY <2>1 DEF Fetched
  <2>3. \A k \in 1 .. n + 1 : \E i \in 1 .. work.asked : seen[k] = Pages[Cell][i]
    <3>1. 1 .. work.asked - 1 \subseteq 1 .. work.asked /\ work.asked \in 1 .. work.asked
      BY <1>3
    <3>2. \A k \in 1 .. n + 1 : k \in 1 .. n \/ k = n + 1
      BY <2>1
    <3> HIDE DEF seen
    <3> QED BY <2>1, <2>2, <3>1, <3>2
  <2>4. \A k \in 1 .. n : seen[k] # e
    <3> SUFFICES ASSUME NEW k \in 1 .. n PROVE seen[k] # e
      OBVIOUS
    <3>1. PICK i \in 1 .. work.asked - 1 : seen[k] = Pages[Cell][i]
      BY <2>2
    <3>2. i \in DOMAIN Pages[Cell] /\ work.asked \in DOMAIN Pages[Cell] /\ i # work.asked
      BY <1>2, <1>3
    <3>3. Pages[Cell][i] # e
      BY <3>2, PagesAssumption DEF IsInjective
    <3> QED BY <3>1, <3>3
  <2>5. IsInjective(seen)
    <3>1. \A i, j \in 1 .. n : seen[i] = seen[j] => i = j
      BY <2>1 DEF Fetched, IsInjective
    <3>2. \A k \in 1 .. n + 1 : k \in 1 .. n \/ k = n + 1
      BY <2>1
    <3> HIDE DEF seen, e
    <3> QED BY <2>1, <2>4, <3>1, <3>2 DEF IsInjective
  <2> HIDE DEF seen
  <2>6. /\ Delivered.pc = "http" /\ Delivered.refs = <<>> /\ Delivered.asked = work.asked
        /\ Delivered.pages = seen /\ WorkShape(Delivered)
    <3>1. Delivered = [work EXCEPT !.pages = seen]
      BY DEF Delivered, seen
    <3> QED BY <1>3, <3>1 DEF WorkShape, At
  <2>7. Outcome(files, Cell, NextRequest(Delivered))
    BY <1>3, <2>1, <2>3, <2>5, <2>6, NextRequestOutcome
  <2> QED BY <1>4, <2>7 DEF OnResponse
<1>5. CASE w = OnResponse("404")
  <2>1. \A k \in DOMAIN work.pages : \E i \in 1 .. work.asked : work.pages[k] = Pages[Cell][i]
    <3>1. 1 .. work.asked - 1 \subseteq 1 .. work.asked
      BY <1>3
    <3> QED BY <3>1 DEF Fetched
  <2>2. /\ work.pc = "http" /\ Sequence(work.pages) /\ IsInjective(work.pages)
    BY DEF Fetched, At
  <2>3. Outcome(files, Cell, NextRequest(work))
    BY <1>3, <2>1, <2>2, NextRequestOutcome
  <2> QED BY <1>5, <2>3 DEF OnResponse
<1>6. CASE w = OnResponse("denied") \/ w = GiveUp("unsupported")
  BY <1>1, <1>6 DEF OnResponse
<1>7. CASE w = OnResponse("5xx")
  <2>1. w = GiveUp("provider_error") \/ w = [work EXCEPT !.attempt = @ + 1]
    BY <1>7 DEF OnResponse
  <2>2. CASE w = [work EXCEPT !.attempt = @ + 1]
    <3>1. w.pc = "http" /\ w.refs = work.refs /\ w.pages = work.pages /\ w.asked = work.asked
      BY <2>2 DEF WorkShape, At
    <3> QED BY <3>1 DEF Outcome, Fetched
  <2> QED BY <1>1, <2>1, <2>2
<1>8. CASE w = OnResponse("429")
  <2>1. w = Again \/ w = [GiveUp("rate_limited") EXCEPT !.throttles = @ + 1]
    BY <1>8 DEF OnResponse
  <2>2. CASE w = Again
    <3>1. w.pc = "http" /\ w.refs = <<>> /\ w.pages = <<>> /\ w.asked = 1
      BY <1>3, <2>2 DEF Again, WorkShape, At
    <3>2. Sequence(<<>>) /\ IsInjective(<<>>)
      BY <<>> \in Seq({}) DEF Sequence, IsInjective
    <3>3. 1 \in 1 .. Len(Pages[Cell])
      BY <1>3
    <3>4. Fetched(w, Cell)
      BY <3>1, <3>2, <3>3 DEF Fetched
    <3> QED BY <3>1, <3>4 DEF Outcome
  <2>3. CASE w = [GiveUp("rate_limited") EXCEPT !.throttles = @ + 1]
    <3>1. w.pc = "append" /\ w.refs = <<>> /\ w.pages = <<>>
      BY <1>1, <2>3 DEF WorkShape
    <3>2. Evidence(files, <<>>, <<>>)
      BY NoEvidence
    <3> QED BY <3>1, <3>2 DEF Outcome
  <2> QED BY <2>1, <2>2, <2>3
<1> QED BY <1>4, <1>5, <1>6, <1>7, <1>8

LEMMA HttpEvidence == ASSUME HarnessInv, EvidenceInv, Http \/ Unsupported PROVE EvidenceInv'
<1>1. RecordsStand' /\ StoredOnce'
  BY OthersUntouched DEF Http, Unsupported
<1>2. At("http") /\ WorkShape(work) /\ Fetched(work, Cell) /\ store' = store
  BY DEF HarnessInv, WorkInv, Http, Unsupported, EvidenceInv, HandInv
<1>3. Cell \in Cells /\ Stored(Cell) = {}
  BY <1>2, CellAtWork DEF HarnessInv, Busy, At, FetchInv
<1>4. \/ \E response \in {"200", "404", "denied", "5xx", "429"} : work' = OnResponse(response)
      \/ work' = GiveUp("unsupported")
  BY DEF Http, Unsupported
<1>5. work'.at = work.at /\ work'.pc \in {"http", "persist", "append"}
  BY <1>2, <1>4, ResponseKeepsCell
<1>6. Outcome(store[Cell], Cell, work')
  BY <1>2, <1>3, <1>4, ResponseOutcome
<1>7. Cell' = Cell /\ store[Cell]' = store[Cell]
  BY <1>2, <1>5 DEF Cell
<1>8. Listed(store[Cell])' = {}
  BY <1>3, <1>7 DEF Listed, Stored
<1>9. HandInv'
  BY <1>5, <1>6, <1>7, <1>8 DEF HandInv, At, Outcome
<1> QED BY <1>1, <1>9 DEF EvidenceInv

-----------------------------------------------------------------------------
LEMMA RecordsGrow ==
  ASSUME RecordsStand, records' = records, \A c \in Cells : Extends(store[c], store'[c])
  PROVE  RecordsStand'
<1> SUFFICES ASSUME NEW i \in DOMAIN records
             PROVE  /\ records[i].cell \in Cells
                    /\ Evidence(store'[records[i].cell], records[i].refs, records[i].pages)
  BY DEF RecordsStand
<1> DEFINE r == records[i]
<1>1. r.cell \in Cells /\ Evidence(store[r.cell], r.refs, r.pages)
  BY DEF RecordsStand
<1>2. Extends(store[r.cell], store'[r.cell])
  BY <1>1
<1> HIDE DEF r
<1>3. Evidence(store'[r.cell], r.refs, r.pages)
  BY <1>1, <1>2, EvidenceStays
<1> QED BY <1>1, <1>3 DEF r

\* What the work refers to stays when a file is added or goes on.
LEMMA PersistingStays ==
  ASSUME NEW files, NEW later, Extends(files, later), NEW w, NEW v,
         v.pages = w.pages, v.refs = w.refs, Persisting(files, w)
  PROVE  Persisting(later, v)
<1>1. v.refs \in Seq(DOMAIN later)
  BY DEF Persisting, Extends
<1>2. \A k \in DOMAIN w.refs : w.refs[k] \in DOMAIN files
  BY DEF Persisting
<1>3. \A k \in DOMAIN v.refs : Whole(later[v.refs[k]]) /\ later[v.refs[k]].page = v.pages[k]
  BY <1>2 DEF Persisting, Extends
<1> QED BY <1>1, <1>3 DEF Persisting

LEMMA NewPageEvidence == ASSUME HarnessInv, EvidenceInv, NewPage PROVE EvidenceInv'
<1> DEFINE files == store[Cell]
           n == Len(files)
           file == [page |-> work.pages[Len(work.refs) + 1], written |-> {"content"}]
           later == Append(files, file)
<1>1. Cell \in Cells
  BY CellAtWork DEF HarnessInv, Busy, At, NewPage
<1>2. file.page = work.pages[Len(work.refs) + 1] /\ ~Sidecar(file)
  BY DEF Sidecar
<1>3. store' = [store EXCEPT ![Cell] = later] /\ records' = records
  BY DEF NewPage, FileSteps
<1> HIDE DEF file
<1>4. /\ Sequence(later) /\ DOMAIN files = 1 .. n /\ n \in Nat
      /\ Len(later) = n + 1 /\ DOMAIN later = 1 .. n + 1
      /\ \A i \in 1 .. n : later[i] = files[i]
      /\ later[n + 1] = file
  BY <1>1, AppendSequence DEF HarnessInv, StoreInv
<1> HIDE DEF later, n
<1>5. Extends(files, later)
  BY <1>4 DEF Extends
<1>6. Listed(later) = Listed(files)
  BY <1>2, <1>4 DEF Listed
<1>7. \A c \in Cells : store'[c] = IF c = Cell THEN later ELSE store[c]
  BY <1>1, <1>3 DEF HarnessInv, StoreInv
<1> HIDE DEF files
<1>8. \A c \in Cells : Extends(store[c], store'[c])
  BY <1>5, <1>7 DEF Extends, files
<1>9. RecordsStand'
  BY <1>3, <1>8, RecordsGrow DEF EvidenceInv
<1>10. StoredOnce'
  <2> SUFFICES ASSUME NEW c \in Cells, NEW i \in Listed(store'[c]), NEW j \in Listed(store'[c]),
                      store'[c][i].page = store'[c][j].page
               PROVE  i = j
    BY DEF StoredOnce
  <2>1. i \in Listed(store[c]) /\ j \in Listed(store[c])
    BY <1>6, <1>7 DEF files
  <2>2. i \in DOMAIN store[c] /\ j \in DOMAIN store[c]
    BY <2>1 DEF Listed
  <2>3. store'[c][i].page = store[c][i].page /\ store'[c][j].page = store[c][j].page
    BY <1>8, <2>2 DEF Extends
  <2> QED BY <2>1, <2>3 DEF EvidenceInv, StoredOnce
<1>11. /\ work'.pc = "write" /\ work'.at = work.at
       /\ work'.refs = work.refs /\ work'.pages = work.pages
  BY DEF NewPage, HarnessInv, WorkInv, WorkShape
<1>12. Cell' = Cell /\ store[Cell]' = later
  BY <1>1, <1>7, <1>11 DEF Cell
<1>13. /\ Persisting(files, work) /\ Listed(files) = Range(work.refs)
       /\ Len(work.refs) < Len(work.pages)
  BY DEF NewPage, EvidenceInv, HandInv, files
<1>14. Persisting(store[Cell], work)'
  BY <1>5, <1>11, <1>12, <1>13, PersistingStays
<1>15. Writing(store[Cell], work)'
  BY <1>2, <1>4, <1>11, <1>12, <1>13 DEF Writing
<1>16. Len(later) \notin Listed(files)
  BY <1>4 DEF Listed
<1>17. (Listed(store[Cell]) \ {Len(store[Cell])})' = Range(work.refs)'
  BY <1>6, <1>11, <1>12, <1>13, <1>16
<1>18. HandInv'
  BY <1>11, <1>14, <1>15, <1>17 DEF HandInv, At
<1> QED BY <1>9, <1>10, <1>18 DEF EvidenceInv

LEMMA PersistedEvidence == ASSUME HarnessInv, EvidenceInv, Persisted \/ BeginAppend PROVE EvidenceInv'
<1>1. RecordsStand' /\ StoredOnce'
  BY OthersUntouched DEF Persisted, BeginAppend
<1>2. /\ work'.pc \in {"append", "appending"} /\ work'.at = work.at
      /\ work'.refs = work.refs /\ work'.pages = work.pages /\ store' = store
  BY DEF Persisted, BeginAppend, HarnessInv, WorkInv, WorkShape
<1>3. Cell' = Cell /\ store[Cell]' = store[Cell]
  BY <1>2 DEF Cell
<1>4. Evidence(store[Cell], work.refs, work.pages)
  <2>1. CASE Persisted
    <3>1. Persisting(store[Cell], work) /\ Len(work.refs) = Len(work.pages)
      BY <2>1 DEF Persisted, EvidenceInv, HandInv
    <3>2. PICK V : work.pages \in Seq(V)
      BY <3>1 DEF Persisting, Sequence
    <3>3. DOMAIN work.pages = DOMAIN work.refs
      BY <3>1, <3>2 DEF Persisting
    <3>4. work.pages = [k \in DOMAIN work.refs |-> store[Cell][work.refs[k]].page]
      BY <3>1, <3>2, <3>3 DEF Persisting
    <3> QED BY <3>1, <3>4 DEF Persisting, Evidence
  <2>2. CASE BeginAppend
    BY <2>2 DEF BeginAppend, EvidenceInv, HandInv
  <2> QED BY <2>1, <2>2
<1>5. HandInv'
  BY <1>2, <1>3, <1>4 DEF HandInv, At
<1> QED BY <1>1, <1>5 DEF EvidenceInv

LEMMA EndAppendEvidence == ASSUME HarnessInv, EvidenceInv, EndAppend PROVE EvidenceInv'
<1>1. Cell \in Cells /\ Evidence(store[Cell], work.refs, work.pages) /\ store' = store
  BY CellAtWork DEF HarnessInv, Busy, At, EndAppend, EvidenceInv, HandInv
<1>2. StoredOnce'
  BY <1>1 DEF EvidenceInv, StoredOnce
<1>3. PICK record : /\ record.cell = Cell /\ record.refs = work.refs /\ record.pages = work.pages
                    /\ records' = Append(records, record)
  BY DEF EndAppend
<1> DEFINE n == Len(records)
<1>4. /\ n \in Nat /\ DOMAIN records = 1 .. n
      /\ DOMAIN records' = 1 .. n + 1 /\ records'[n + 1] = record
      /\ \A i \in 1 .. n : records'[i] = records[i]
  BY <1>3, AppendSequence DEF HarnessInv, RecordsInv
<1> HIDE DEF n
<1>5. RecordsStand'
  <2> SUFFICES ASSUME NEW i \in 1 .. n + 1
               PROVE  /\ records'[i].cell \in Cells
                      /\ Evidence(store[records'[i].cell], records'[i].refs, records'[i].pages)
    BY <1>1, <1>4 DEF RecordsStand
  <2>1. CASE i = n + 1
    BY <1>1, <1>3, <1>4, <2>1
  <2>2. CASE i # n + 1
    <3>1. i \in 1 .. n
      BY <1>4, <2>2
    <3> QED BY <1>4, <3>1 DEF EvidenceInv, RecordsStand
  <2> QED BY <2>1, <2>2
<1>6. work'.pc = "pick" /\ work'.refs = <<>> /\ work'.pages = <<>> /\ work'.asked = 1
  <2>1. PICK done, at : work' = [NoWork EXCEPT !.pc = "pick", !.done = done, !.at = at]
    BY DEF EndAppend
  <2> QED BY <2>1 DEF NoWork
<1>7. HandInv'
  BY <1>6 DEF HandInv, At
<1> QED BY <1>2, <1>5, <1>7 DEF EvidenceInv

LEMMA WritePageEvidence == ASSUME HarnessInv, EvidenceInv, WritePage PROVE EvidenceInv'
<1> DEFINE files == store[Cell]
           n == Len(files)
           file == files[n]
           k == Cardinality(file.written)
           written == file.written \cup {FileSteps[k + 1]}
           newFile == [file EXCEPT !.written = written]
           later == [files EXCEPT ![n] = newFile]
           last == k + 1 = Len(FileSteps)
           refs == Append(work.refs, n)
<1>1. Cell \in Cells
  BY CellAtWork DEF HarnessInv, Busy, At, WritePage
<1>2. n \in DOMAIN files /\ FileInv(file) /\ ~Whole(file)
  BY <1>1 DEF HarnessInv, FetchInv, StoreInv, WritePage
<1>3. k \in 1 .. 2 /\ written \in WrittenInTurn /\ (last <=> "fill" \in written)
  BY <1>2, NextFileStep
<1>4. "create" \in written
  BY <1>3 DEF FileSteps, WrittenInTurn
<1>5. store' = [store EXCEPT ![Cell] = later] /\ records' = records
  BY DEF WritePage
<1>6. /\ IF last THEN work' = [work EXCEPT !.pc = "persist", !.refs = refs]
         ELSE work' = work
      /\ WorkShape(work) /\ work.pc = "write"
      /\ Persisting(files, work) /\ Writing(files, work)
      /\ Listed(files) \ {n} = Range(work.refs)
  BY DEF WritePage, HarnessInv, WorkInv, EvidenceInv, HandInv, At
<1>7. newFile.page = file.page /\ newFile.written = written
  <2>1. ASSUME NEW f, FileInv(f), NEW w, NEW g, g = [f EXCEPT !.written = w]
        PROVE  g.page = f.page /\ g.written = w
    BY <2>1 DEF FileInv
  <2> HIDE DEF file, written
  <2> QED BY <1>2, <2>1
<1>8. Sidecar(newFile) /\ (Whole(newFile) <=> last)
  BY <1>3, <1>4, <1>7 DEF Sidecar, Whole
<1>9. PICK V : files \in Seq(V)
  BY <1>1 DEF HarnessInv, StoreInv, Sequence
<1> HIDE DEF newFile, last, k, written
<1>10. /\ later \in Seq(V \cup {newFile}) /\ n \in Nat
       /\ DOMAIN files = 1 .. n /\ DOMAIN later = 1 .. n /\ Len(later) = n
       /\ n \in 1 .. n
  BY <1>2, <1>9
<1>11. \A i \in 1 .. n : later[i] = IF i = n THEN newFile ELSE files[i]
  BY <1>9, <1>10
<1> HIDE DEF later, n
<1>12. Extends(files, later)
  BY <1>2, <1>7, <1>10, <1>11 DEF Extends
<1>13. \A i \in Listed(later) : i = n \/ i \in Listed(files)
  BY <1>10, <1>11 DEF Listed
<1>14. Listed(later) = Listed(files) \cup {n}
  BY <1>8, <1>10, <1>11 DEF Listed
<1>15. \A c \in Cells : store'[c] = IF c = Cell THEN later ELSE store[c]
  BY <1>1, <1>5 DEF HarnessInv, StoreInv
<1> HIDE DEF file, files
<1>16. \A c \in Cells : Extends(store[c], store'[c])
  BY <1>12, <1>15 DEF Extends, files
<1>17. RecordsStand'
  BY <1>5, <1>16, RecordsGrow DEF EvidenceInv
\* The page being written is none of those that are listed.
<1>18. PICK W : work.pages \in Seq(W)
  BY <1>6 DEF Persisting, Sequence
<1>19. \A i \in Listed(files) \ {n} : later[i].page # later[n].page
  <2> SUFFICES ASSUME NEW i \in Listed(files) \ {n} PROVE later[i].page # later[n].page
    OBVIOUS
  <2>1. PICK r \in DOMAIN work.refs : i = work.refs[r]
    BY <1>6 DEF Range
  <2>2. r \in DOMAIN work.pages /\ Len(work.refs) + 1 \in DOMAIN work.pages
        /\ r # Len(work.refs) + 1
    BY <1>6, <1>18, <2>1 DEF Persisting, Writing
  <2>3. work.pages[r] # work.pages[Len(work.refs) + 1]
    BY <1>6, <2>2 DEF Persisting, IsInjective
  <2>4. later[n].page = work.pages[Len(work.refs) + 1]
    BY <1>6, <1>7, <1>10, <1>11 DEF Writing, file, n
  <2>5. i \in 1 .. n /\ later[i].page = work.pages[r]
    BY <1>6, <1>10, <1>11, <2>1 DEF Persisting, Listed
  <2> QED BY <2>3, <2>4, <2>5
<1>20. StoredOnce'
  <2> SUFFICES ASSUME NEW c \in Cells, NEW i \in Listed(store'[c]), NEW j \in Listed(store'[c]),
                      store'[c][i].page = store'[c][j].page
               PROVE  i = j
    BY DEF StoredOnce
  <2>1. CASE c # Cell
    BY <1>15, <2>1 DEF EvidenceInv, StoredOnce
  <2>2. CASE c = Cell
    <3>1. store'[c] = later
      BY <1>15, <2>2
    <3>2. CASE i = n \/ j = n
      BY <1>14, <1>19, <3>1, <3>2
    <3>3. CASE i # n /\ j # n
      <4>1. i \in Listed(files) /\ j \in Listed(files)
        BY <1>14, <3>1, <3>3
      <4>2. later[i] = files[i] /\ later[j] = files[j]
        BY <1>10, <1>11, <3>3, <4>1 DEF Listed
      <4> QED BY <1>1, <3>1, <4>1, <4>2 DEF EvidenceInv, StoredOnce, files
    <3> QED BY <3>2, <3>3
  <2> QED BY <2>1, <2>2
<1>21. work'.at = work.at /\ work'.pages = work.pages
  <2> HIDE DEF refs
  <2> QED BY <1>6 DEF WorkShape
<1>22. Cell' = Cell /\ store[Cell]' = later
  BY <1>1, <1>15, <1>21 DEF Cell
<1>23. CASE ~last
  <2>1. work' = work
    BY <1>6, <1>23
  <2>2. Persisting(store[Cell], work)'
    BY <1>6, <1>12, <1>22, <2>1, PersistingStays
  <2>3. later[Len(later)].page = files[n].page
    BY <1>7, <1>10, <1>11 DEF file
  <2>4. Writing(store[Cell], work)'
    BY <1>6, <1>22, <2>1, <2>3 DEF Writing, n
  <2>5. (Listed(store[Cell]) \ {Len(store[Cell])})' = Range(work.refs)'
    BY <1>6, <1>10, <1>14, <1>22, <2>1
  <2>6. HandInv'
    BY <1>6, <2>1, <2>2, <2>4, <2>5 DEF HandInv, At
  <2> QED BY <1>17, <1>20, <2>6 DEF EvidenceInv
<1>24. CASE last
  <2> DEFINE m == Len(work.refs)
  <2>1. m \in Nat /\ DOMAIN work.refs = 1 .. m
    BY <1>6 DEF Persisting
  <2>2. /\ refs \in Seq(DOMAIN later) /\ DOMAIN refs = 1 .. m + 1 /\ Len(refs) = m + 1
        /\ refs[m + 1] = n /\ \A r \in 1 .. m : refs[r] = work.refs[r]
    BY <1>6, <1>10 DEF Persisting
  <2> HIDE DEF refs, m
  <2>3. work'.pc = "persist" /\ work'.refs = refs
    BY <1>6, <1>24 DEF WorkShape
  <2>4. m + 1 <= Len(work.pages)
    BY <1>6, <1>18, <2>1 DEF Writing, m
  <2>5. Whole(later[n]) /\ later[n].page = work.pages[m + 1]
    BY <1>6, <1>7, <1>8, <1>10, <1>11, <1>24 DEF Writing, file, n, m
  <2>6. Persisting(later, work)
    BY <1>6, <1>12, PersistingStays
  <2>7. \A r \in DOMAIN refs : Whole(later[refs[r]]) /\ later[refs[r]].page = work.pages[r]
    <3> SUFFICES ASSUME NEW r \in 1 .. m + 1
                 PROVE  Whole(later[refs[r]]) /\ later[refs[r]].page = work.pages[r]
      BY <2>2
    <3>1. CASE r = m + 1
      BY <2>2, <2>5, <3>1
    <3>2. CASE r # m + 1
      <4>1. r \in 1 .. m
        BY <2>1, <3>2
      <4> QED BY <2>1, <2>2, <2>6, <4>1 DEF Persisting
    <3> QED BY <3>1, <3>2
  <2>8. Persisting(store[Cell], work)'
    BY <1>6, <1>21, <1>22, <2>2, <2>3, <2>4, <2>7 DEF Persisting
  <2>9. Range(refs) = Range(work.refs) \cup {n}
    <3>1. \A r \in 1 .. m + 1 : r \in 1 .. m \/ r = m + 1
      BY <2>1
    <3>2. 1 .. m \subseteq 1 .. m + 1 /\ m + 1 \in 1 .. m + 1
      BY <2>1
    <3> QED BY <2>1, <2>2, <3>1, <3>2 DEF Range
  <2>10. Listed(store[Cell])' = Range(work.refs)'
    BY <1>6, <1>14, <1>22, <2>3, <2>9
  <2>11. HandInv'
    BY <2>3, <2>8, <2>10 DEF HandInv, At
  <2> QED BY <1>17, <1>20, <2>11 DEF EvidenceInv
<1> QED BY <1>23, <1>24

LEMMA EvidenceInvariance == HarnessSpec => []EvidenceInv
<1>1. HarnessInv /\ EvidenceInv /\ [HarnessNext]_harnessing => EvidenceInv'
  <2> SUFFICES ASSUME HarnessInv, EvidenceInv, [HarnessNext]_harnessing PROVE EvidenceInv'
    OBVIOUS
  <2>1. CASE StartRun \/ Skip \/ Finish \/ Kill
    BY <2>1, IdleEvidence
  <2>2. CASE Replay \/ Fetch \/ Http \/ Unsupported
    BY <2>2, ReplayEvidence, FetchEvidence, HttpEvidence
  <2>3. CASE NewPage \/ WritePage
    BY <2>3, NewPageEvidence, WritePageEvidence
  <2>4. CASE Persisted \/ BeginAppend \/ EndAppend
    BY <2>4, PersistedEvidence, EndAppendEvidence
  <2>5. CASE UNCHANGED harnessing
    <3>1. store' = store /\ records' = records /\ work' = work
      BY <2>5 DEF harnessing
    <3> QED BY <3>1 DEF EvidenceInv, HandInv, RecordsStand, StoredOnce, At, Cell
  <2> QED BY <2>1, <2>2, <2>3, <2>4, <2>5 DEF HarnessNext, Run
<1> QED BY <1>1, EvidenceInitially, HarnessInvariance, PTL DEF HarnessSpec

(***************************************************************************)
(* A sidecar that can be read has its content, and a record's references   *)
(* are the pages its checks were run on, each of them seen once: whatever  *)
(* was throttled, killed or replayed before, and however many pages a cell *)
(* has.                                                                    *)
(***************************************************************************)
THEOREM EvidenceKept == HarnessSpec => []EvidenceReadable
<1>1. ASSUME HarnessInv, EvidenceInv PROVE EvidenceReadable
  <2>1. ASSUME NEW c \in Cells, NEW i \in DOMAIN store[c], Whole(store[c][i])
        PROVE  "content" \in store[c][i].written
    BY <1>1, <2>1 DEF HarnessInv, StoreInv, FileInv, WrittenInTurn, Whole
  <2>2. ASSUME NEW r \in Range(records)
        PROVE  /\ \A i \in Range(r.refs) : Whole(store[r.cell][i])
               /\ r.pages = [k \in DOMAIN r.refs |-> store[r.cell][r.refs[k]].page]
               /\ IsInjective(r.pages)
    <3>1. PICK i \in DOMAIN records : r = records[i]
      BY <2>2 DEF Range
    <3>2. Evidence(store[r.cell], r.refs, r.pages)
      BY <1>1, <3>1 DEF EvidenceInv, RecordsStand
    <3>3. \A j \in Range(r.refs) : Whole(store[r.cell][j])
      BY <3>2 DEF Evidence, Range
    <3> QED BY <3>2, <3>3 DEF Evidence
  <2> QED BY <2>1, <2>2 DEF EvidenceReadable
<1> QED BY <1>1, HarnessInvariance, EvidenceInvariance, PTL

-----------------------------------------------------------------------------
(***************************************************************************)
(* The checks of corporate actions: where one record of a kind stands on   *)
(* the day of a fact, the record a check looks at is that one, and the     *)
(* amounts of a dividend that pays something have one reading of the unit  *)
(* at most, so that looking for a factor of 100 first hides no match.      *)
(***************************************************************************)

\* Of the keys that are given, the first one is.
LEMMA ParsedIsNumber ==
    ASSUME NEW item, NEW keys, DOMAIN keys \subseteq Nat,
           \A key \in Range(keys) \cap DOMAIN item : item[key] \in Int \cup {Null, Unreadable}
    PROVE  Parsed(item, keys) \in Int \cup {Null}
<1> DEFINE given == {i \in DOMAIN keys : keys[i] \in DOMAIN item /\ item[keys[i]] # Null}
<1>1. CASE given = {}
  <2>1. First(item, keys) = Null
    BY <1>1 DEF First
  <2> QED BY <2>1 DEF Parsed
<1>2. CASE given # {}
  <2>1. given \subseteq Nat
    OBVIOUS
  <2>2. \E i \in given : \A j \in given : i <= j
    <3> HIDE DEF given
    <3> QED BY <1>2, <2>1, LeastNatural
  <2>3. Min(given) \in given
    <3> HIDE DEF given
    <3> QED BY <2>2 DEF Min
  <2>4. First(item, keys) = item[keys[Min(given)]]
    BY <1>2 DEF First
  <2> DEFINE key == keys[Min(given)]
  <2>5. key \in Range(keys) /\ key \in DOMAIN item
    BY <2>3 DEF Range
  <2>6. item[key] \in Int \cup {Null, Unreadable}
    <3> HIDE DEF key
    <3> QED BY <2>5
  <2> QED BY <2>4, <2>6 DEF Parsed
<1> QED BY <1>1, <1>2

\* The pages are what the provider may send.
Answered ==
    /\ entry \in Entries /\ dataset \in {"prices", "corporate_actions"}
    /\ \A i \in DOMAIN pages : pages[i] \in Answer(entry, dataset)

\* What is read of an action's amount is a number, or nothing.
LEMMA AmountsAreNumbers ==
    ASSUME Answered, NEW at \in DOMAIN ParseActions(pages).items
    PROVE  ParseActions(pages).items[at].amount \in Int \cup {Null}
<1> DEFINE entries == EntriesAt(pages, "actions")
           item == entries[at]
<1>1. at \in DOMAIN entries /\ ParseActions(pages).items[at] = ActionRow(item)
  BY DEF ParseActions, RestrictValues, Restrict
<1>2. PICK p \in DOMAIN pages :
         /\ BlockOf(pages[p], "actions") # NotAList
         /\ at \in {p} \X DOMAIN BlockOf(pages[p], "actions")
         /\ item = BlockOf(pages[p], "actions")[at[2]] /\ item # NotAnObject
  BY <1>1 DEF EntriesAt, RestrictValues, Restrict
<1>3. \A key \in Range(AmountKeys) \cap DOMAIN item : item[key] \in Int \cup {Null, Unreadable}
  <2>1. pages[p] \in Answer(entry, "corporate_actions") \cup Answer(entry, "prices") /\ entry \in Entries
    BY <1>2 DEF Answered
  <2> HIDE DEF item
  <2> QED BY <1>2, <2>1, ActionChecksAssumption
<1> HIDE DEF item
<1>4. ActionRow(item).amount = Parsed(item, AmountKeys)
  BY DEF ActionRow
<1>5. DOMAIN AmountKeys \subseteq Nat
  BY DEF AmountKeys
<1> QED BY <1>1, <1>3, <1>4, <1>5, ParsedIsNumber

\* The one record of a day is the first.
LEMMA OnlyRecord ==
    ASSUME NEW actions, NEW p
    PROVE  FirstOf(actions, {p}) = actions[p]
BY DEF FirstOf

\* No two records of the kind on the day
Unshared(actions, kind, day) ==
    \A p, q \in DOMAIN actions :
        /\ actions[p].kind = kind /\ actions[p].ex = day
        /\ actions[q].kind = kind /\ actions[q].ex = day
        => p = q

\* A check of one fact finds no record of the day, or looks at the one there is.
LEMMA RecordOfTheDay ==
    ASSUME NEW actions, NEW kind, NEW day, day # Null, Unshared(actions, kind, day)
    PROVE  LET of == OfKind(actions, kind)
               exact == OnDay(of, day)
           IN  /\ exact = {p \in DOMAIN actions : actions[p].kind = kind /\ actions[p].ex = day}
               /\ \A p \in exact : FirstOf(of, exact) = actions[p] 
<1> DEFINE of == OfKind(actions, kind)
           exact == OnDay(of, day)
<1>1. /\ DOMAIN of = {p \in DOMAIN actions : actions[p].kind = kind /\ actions[p].ex # Null}
      /\ \A p \in DOMAIN of : of[p] = actions[p]
  BY DEF OfKind, RestrictValues, Restrict
<1>2. exact = {p \in DOMAIN actions : actions[p].kind = kind /\ actions[p].ex = day}
  <2> HIDE DEF of
  <2> QED BY <1>1 DEF OnDay
<1>3. ASSUME NEW p \in exact PROVE FirstOf(of, exact) = actions[p]
  <2>1. exact = {p} /\ of[p] = actions[p]
    <3> HIDE DEF of
    <3> QED BY <1>1, <1>2, <1>3 DEF Unshared
  <2> HIDE DEF of, exact
  <2> QED BY <2>1, OnlyRecord
<1> QED BY <1>2, <1>3

\* A split passes on the record that states it.
LEMMA SplitIsExact ==
    ASSUME NEW fact, fact.fact = "split", fact.ex # Null, NEW actions, Unshared(actions, "split", fact.ex)
    PROVE  SplitFinding(fact, OfKind(actions, "split")).outcome = "pass"
              <=> \E p \in DOMAIN actions : States(actions[p], fact)
<1> DEFINE of == OfKind(actions, "split")
           exact == OnDay(of, fact.ex)
           a == FirstOf(of, exact)
<1>1. /\ exact = {p \in DOMAIN actions : actions[p].kind = "split" /\ actions[p].ex = fact.ex}
      /\ \A p \in exact : a = actions[p]
  BY RecordOfTheDay
<1>2. CASE exact = {}
  <2>1. SplitFinding(fact, of).outcome = "fail"
    <3> HIDE DEF of
    <3> QED BY <1>2 DEF SplitFinding, Fail, Found
  <2>2. ~\E p \in DOMAIN actions : States(actions[p], fact)
    <3> HIDE DEF of, exact, a
    <3> QED BY <1>1, <1>2 DEF States
  <2> QED BY <2>1, <2>2
<1>3. CASE exact # {}
  <2>1. SplitFinding(fact, of).outcome = "pass"
           <=> HasRatio(a) /\ a.new * fact.old = fact.new * a.old
    <3> HIDE DEF of
    <3> QED BY <1>3 DEF SplitFinding, Fail, Pass, Found
  <2>2. (\E p \in DOMAIN actions : States(actions[p], fact))
           <=> HasRatio(a) /\ a.new * fact.old = fact.new * a.old
    <3> HIDE DEF of, exact, a
    <3> QED BY <1>1, <1>3 DEF States
  <2> QED BY <2>1, <2>2
<1> QED BY <1>2, <1>3

\* An amount that agrees with the fact as it stands does not agree a hundred times larger or smaller.
LEMMA OneReading ==
    ASSUME NEW a, NEW fact, a.amount \in Int, fact.amount \in Nat \ {0}, Agrees(a, <<1, 1>>, fact)
    PROVE  ~Agrees(a, <<100, 1>>, fact) /\ ~Agrees(a, <<1, 100>>, fact)
<1> DEFINE x == a.amount
           f == fact.amount
<1>1. Distance(x * 1 * 1, f * 1) * 200 <= f * 1
  BY DEF Agrees, Within, Scaled
<1>2. /\ Agrees(a, <<100, 1>>, fact) => Distance(x * 100 * 1, f * 1) * 200 <= f * 1
      /\ Agrees(a, <<1, 100>>, fact) => Distance(x * 1 * 1, f * 100) * 200 <= f * 100
  BY DEF Agrees, Within, Scaled
<1> HIDE DEF x, f
<1>3. x \in Int /\ f \in Int /\ f > 0
  BY DEF x, f
<1> QED BY <1>1, <1>2, <1>3 DEF Distance

\* A dividend passes on the record that states its money, in a unit or in none.
LEMMA DividendIsExact ==
    ASSUME NEW fact, fact.fact = "dividend", fact.ex # Null, fact.amount \in Nat \ {0},
           NEW actions, Unshared(actions, "dividend", fact.ex),
           \A p \in DOMAIN actions : actions[p].amount \in Int \cup {Null}
    PROVE  DividendFinding(fact, OfKind(actions, "dividend")).outcome = "pass"
              <=> \E p \in DOMAIN actions : States(actions[p], fact)
<1> DEFINE of == OfKind(actions, "dividend")
           exact == OnDay(of, fact.ex)
           a == FirstOf(of, exact)
           unit == IF a.unit = Null THEN fact.unit ELSE NormalUnit(a.unit)
           factor == UnitConversion(unit, fact.unit)
           stated == a.amount # Null /\ factor # Null /\ Agrees(a, factor, fact)
<1>1. /\ exact = {p \in DOMAIN actions : actions[p].kind = "dividend" /\ actions[p].ex = fact.ex}
      /\ \A p \in exact : a = actions[p]
  BY RecordOfTheDay
<1>2. CASE exact = {}
  <2>1. DividendFinding(fact, of).outcome = "fail"
    <3> HIDE DEF of
    <3> QED BY <1>2 DEF DividendFinding, Fail, Found
  <2>2. ~\E p \in DOMAIN actions : States(actions[p], fact)
    <3> HIDE DEF of, exact, a
    <3> QED BY <1>1, <1>2 DEF States
  <2> QED BY <2>1, <2>2
<1>3. CASE exact # {}
  <2>1. (\E p \in DOMAIN actions : States(actions[p], fact)) <=> stated
    <3> HIDE DEF of, exact, a
    <3> QED BY <1>1, <1>3 DEF States
  <2>2. CASE a.amount = Null
    <3>1. DividendFinding(fact, of).outcome = "fail"
      <4> HIDE DEF of
      <4> QED BY <1>3, <2>2 DEF DividendFinding, Fail, Found
    <3> QED BY <2>1, <2>2, <3>1
  <2>3. CASE a.amount # Null /\ a.unit = Null
    <3>1. DividendFinding(fact, of) = UnitlessFinding(fact, a)
      <4> HIDE DEF of
      <4> QED BY <1>3, <2>3 DEF DividendFinding
    <3>2. a.amount \in Int
      <4> HIDE DEF of, exact, a
      <4> QED BY <1>1, <1>3, <2>3
    <3>3. stated <=> Agrees(a, <<1, 1>>, fact)
      <4> HIDE DEF of, exact, a
      <4> QED BY <2>3, ActionChecksAssumption DEF UnitConversion
    <3>4. UnitlessFinding(fact, a).outcome = "pass" <=> Agrees(a, <<1, 1>>, fact)
      <4> HIDE DEF of, exact, a
      <4> QED BY <3>2, OneReading DEF UnitlessFinding, Fail, Pass, Found
    <3> QED BY <2>1, <3>1, <3>3, <3>4
  <2>4. CASE a.amount # Null /\ a.unit # Null
    <3>1. DividendFinding(fact, of) = UnitFinding(fact, a)
      <4> HIDE DEF of
      <4> QED BY <1>3, <2>4 DEF DividendFinding
    <3>2. UnitFinding(fact, a).outcome = "pass" <=> stated
      <4> HIDE DEF of, exact, a
      <4> QED BY <2>4 DEF UnitFinding, Fail, Pass, Found
    <3> QED BY <2>1, <3>1, <3>2
  <2> QED BY <2>2, <2>3, <2>4
<1> QED BY <1>2, <1>3

\* What no two records share
LEMMA UnsharedFact ==
    ASSUME NEW fact, ~Shared(fact)
    PROVE  Unshared(ParseActions(pages).items, fact.fact, fact.ex)
BY DEF Shared, Unshared

\* The run of the checks gives the findings of the two checks.
LEMMA FindingsMade ==
    ASSUME RunChecks
    PROVE  /\ "splits" \in DOMAIN results' => results'["splits"] = ActionFindings(entry, pages, "split")
           /\ "dividends" \in DOMAIN results' => results'["dividends"] = ActionFindings(entry, pages, "dividend")
BY DEF RunChecks, Findings

\* Among the findings about facts a fact has its own.
LEMMA OwnFinding ==
    ASSUME NEW facts, NEW verdicts, NEW fact \in facts
    PROVE  (\E f \in {About(g, verdicts[g]) : g \in facts} : f.about = fact /\ f.outcome = "pass")
              <=> verdicts[fact].outcome = "pass"
<1>1. \A g \in facts : About(g, verdicts[g]).about = g /\ About(g, verdicts[g]).outcome = verdicts[g].outcome
  BY DEF About
<1> QED BY <1>1

\* What the run of the checks says of a split
LEMMA SplitVerdicts ==
    ASSUME Answered, RunChecks, NEW fact \in FactsOf(entry, "split"), ~Shared(fact),
           "splits" \in DOMAIN results'
    PROVE  (\E f \in results'["splits"] : f.about = fact /\ f.outcome = "pass") <=> Stated(fact)
<1> DEFINE actions == ParseActions(pages).items
           verdict == SplitFinding(fact, OfKind(actions, "split"))
<1>1. fact.fact = "split" /\ fact.ex # Null
  BY ActionChecksAssumption DEF Answered, FactsOf
<1>2. verdict.outcome = "pass" <=> Stated(fact)
  <2>1. Unshared(actions, "split", fact.ex)
    BY <1>1, UnsharedFact
  <2> QED BY <1>1, <2>1, SplitIsExact DEF Stated
<1>3. CASE DOMAIN actions = {} /\ ParseActions(pages).errors
  <2>1. results'["splits"] = Overall(Fail("unparseable"))
    BY <1>3, FindingsMade DEF ActionFindings
  <2>2. ~Stated(fact)
    BY <1>3 DEF Stated
  <2> QED BY <2>1, <2>2 DEF Overall, About, Fail, Found
<1>4. CASE ~(DOMAIN actions = {} /\ ParseActions(pages).errors)
  <2>1. results'["splits"] = {About(g, FactFinding(g, OfKind(actions, "split"))) : g \in FactsOf(entry, "split")}
    BY <1>4, FindingsMade DEF ActionFindings
  <2> DEFINE verdicts == [g \in FactsOf(entry, "split") |-> FactFinding(g, OfKind(actions, "split"))]
  <2>2. results'["splits"] = {About(g, verdicts[g]) : g \in FactsOf(entry, "split")} /\ verdicts[fact] = verdict
    BY <1>1, <2>1 DEF FactFinding
  <2>3. (\E f \in results'["splits"] : f.about = fact /\ f.outcome = "pass") <=> verdict.outcome = "pass"
    <3> HIDE DEF verdicts, verdict
    <3> QED BY <2>2, OwnFinding
  <2> QED BY <1>2, <2>3
<1> QED BY <1>3, <1>4

\* What the run of the checks says of a dividend
LEMMA DividendVerdicts ==
    ASSUME Answered, RunChecks, NEW fact \in FactsOf(entry, "dividend"), ~Shared(fact),
           "dividends" \in DOMAIN results'
    PROVE  (\E f \in results'["dividends"] : f.about = fact /\ f.outcome = "pass") <=> Stated(fact)
<1> DEFINE actions == ParseActions(pages).items
           verdict == DividendFinding(fact, OfKind(actions, "dividend"))
<1>1. fact.fact = "dividend" /\ fact.ex # Null /\ fact.amount \in Nat \ {0}
  BY ActionChecksAssumption DEF Answered, FactsOf
<1>2. verdict.outcome = "pass" <=> Stated(fact)
  <2>1. Unshared(actions, "dividend", fact.ex)
    BY <1>1, UnsharedFact
  <2>2. \A p \in DOMAIN actions : actions[p].amount \in Int \cup {Null}
    BY AmountsAreNumbers
  <2> QED BY <1>1, <2>1, <2>2, DividendIsExact DEF Stated
<1>3. CASE DOMAIN actions = {} /\ ParseActions(pages).errors
  <2>1. results'["dividends"] = Overall(Fail("unparseable"))
    BY <1>3, FindingsMade DEF ActionFindings
  <2>2. ~Stated(fact)
    BY <1>3 DEF Stated
  <2> QED BY <2>1, <2>2 DEF Overall, About, Fail, Found
<1>4. CASE ~(DOMAIN actions = {} /\ ParseActions(pages).errors)
  <2>1. results'["dividends"] =
          {About(g, FactFinding(g, OfKind(actions, "dividend"))) : g \in FactsOf(entry, "dividend")}
    BY <1>4, FindingsMade DEF ActionFindings
  <2> DEFINE verdicts == [g \in FactsOf(entry, "dividend") |-> FactFinding(g, OfKind(actions, "dividend"))]
  <2>2. results'["dividends"] = {About(g, verdicts[g]) : g \in FactsOf(entry, "dividend")} /\ verdicts[fact] = verdict
    BY <1>1, <2>1 DEF FactFinding
  <2>3. (\E f \in results'["dividends"] : f.about = fact /\ f.outcome = "pass") <=> verdict.outcome = "pass"
    <3> HIDE DEF verdicts, verdict
    <3> QED BY <2>2, OwnFinding
  <2> QED BY <1>2, <2>3
<1> QED BY <1>3, <1>4

\* Pages are the provider's, and checks that have run passed what they state.
ChecksInv == Answered /\ PassMeansStated

\* The split and the dividend check (checks_corporate_actions.py) pass a fact exactly when a
\* record of the answer states it, for any entries, pages and tolerances.
THEOREM PassesAreStated == ChecksSpec => []PassMeansStated
<1>1. ChecksInit => ChecksInv
  BY DEF ChecksInit, ChecksInv, Answered, PassMeansStated, Exact, Judged
<1>2. ASSUME ChecksInv, [ChecksNext]_checking
      PROVE  ChecksInv'
  <2>1. CASE Receive
    <3>1. Answered'
      BY <1>2, <2>1 DEF Receive, ChecksInv, Answered
    <3>2. results' = <<>>
      BY <2>1 DEF Receive
    <3> QED BY <3>1, <3>2 DEF ChecksInv, PassMeansStated, Exact, Judged
  <2>2. CASE RunChecks
    <3>1. UNCHANGED <<entry, dataset, pages>> /\ Answered
      BY <1>2, <2>2 DEF RunChecks, ChecksInv
    <3>2. \A fact : Shared(fact)' = Shared(fact) /\ Stated(fact)' = Stated(fact)
      BY <3>1 DEF Shared, Stated
    <3>3. Exact("splits", "split")'
      BY <2>2, <3>1, <3>2, SplitVerdicts DEF Exact, Judged, Passes, FactsOf
    <3>4. Exact("dividends", "dividend")'
      BY <2>2, <3>1, <3>2, DividendVerdicts DEF Exact, Judged, Passes, FactsOf
    <3> QED BY <3>1, <3>3, <3>4 DEF ChecksInv, PassMeansStated, Answered
  <2>3. CASE UNCHANGED checking
    BY <1>2, <2>3 DEF checking, ChecksInv, Answered, PassMeansStated, Exact, Judged, Shared, Stated, Passes
  <2> QED BY <1>2, <2>1, <2>2, <2>3 DEF ChecksNext
<1>3. ChecksInv => PassMeansStated
  BY DEF ChecksInv
<1> QED BY <1>1, <1>2, <1>3, PTL DEF ChecksSpec

-----------------------------------------------------------------------------
(***************************************************************************)
(* The checks of statements.  Two shares of a whole have something in      *)
(* common, so that most stamps are not usable and the end of their period  *)
(* at once; a share of a whole is one of every part of it.  At the rank of *)
(* a percentile a value stands, since of the values that are not below the *)
(* rank the least is at it.                                                *)
(***************************************************************************)

LEMMA TimesKeepsOrder ==
    ASSUME NEW x \in Int, NEW y \in Int, NEW k \in Nat, x <= y
    PROVE  x * k <= y * k
<1>1. (y - x) * k >= 0
  <2>1. \A d \in Nat : d * k \in Nat
    OBVIOUS
  <2>2. y - x \in Nat
    OBVIOUS
  <2> QED BY <2>1, <2>2
<1>2. (y - x) * k = y * k - x * k
  OBVIOUS
<1>3. x * k \in Int /\ y * k \in Int
  OBVIOUS
<1> QED BY <1>1, <1>2, <1>3

\* What the share is
LEMMA ShareFacts ==
    /\ Share[1] \in Nat /\ Share[2] \in Nat /\ Share[2] > 0 /\ Share[1] > 0
    /\ Share[2] < 2 * Share[1]
    /\ MinSample \in Nat /\ MinSample > 0
    /\ (MinSample - 1) * Share[2] < MinSample * Share[1]
<1>1. Share \in Nat \X (Nat \ {0}) /\ Share[2] < 2 * Share[1]
  BY FundamentalChecksAssumption
<1>2. Share[1] \in Nat /\ Share[2] \in Nat \ {0}
  BY <1>1
<1>3. Share[1] > 0 /\ Share[2] > 0
  BY <1>1, <1>2
<1> QED BY <1>1, <1>2, <1>3, FundamentalChecksAssumption

\* The share of a large enough sample is itself large enough.
LEMMA MostEnough ==
    ASSUME NEW n \in Nat, NEW m \in Nat, m >= MinSample, Most(n, m)
    PROVE  n >= MinSample
<1> DEFINE a == Share[1]
           b == Share[2]
           k == MinSample
<1>1. a \in Nat /\ b \in Nat /\ k \in Nat /\ k > 0 /\ (k - 1) * b < k * a /\ n * b >= m * a /\ m >= k
  BY ShareFacts DEF Most
<1> HIDE DEF a, b, k
<1> SUFFICES ASSUME n < k PROVE FALSE
  BY <1>1 DEF k
<1>2. n * b <= (k - 1) * b
  BY <1>1, TimesKeepsOrder
<1>3. k * a <= m * a
  BY <1>1, TimesKeepsOrder
<1>4. n * b \in Int /\ (k - 1) * b \in Int /\ k * a \in Int /\ m * a \in Int
  BY <1>1
<1> QED BY <1>1, <1>2, <1>3, <1>4

\* The share of a whole is the share of a part at least.
LEMMA MostOfFewer ==
    ASSUME NEW n \in Nat, NEW m \in Nat, NEW l \in Nat, l <= m, Most(n, m)
    PROVE  Most(n, l)
<1>1. Share[1] \in Nat /\ Share[2] \in Nat /\ n * Share[2] >= m * Share[1]
  BY ShareFacts DEF Most
<1>2. l * Share[1] <= m * Share[1]
  BY <1>1, TimesKeepsOrder
<1>3. l * Share[1] \in Int /\ m * Share[1] \in Int /\ n * Share[2] \in Int
  BY <1>1
<1>4. n * Share[2] >= l * Share[1]
  BY <1>1, <1>2, <1>3
<1> QED BY <1>4 DEF Most

\* Two parts that have nothing in common are not both the share of the whole.
LEMMA TwoMosts ==
    ASSUME NEW n \in Nat, NEW p \in Nat, NEW m \in Nat, m > 0, n + p <= m, Most(n, m), Most(p, m)
    PROVE  FALSE
<1> DEFINE a == Share[1]
           b == Share[2]
<1>1. a \in Nat /\ b \in Nat /\ b < 2 * a /\ n * b >= m * a /\ p * b >= m * a
  BY ShareFacts DEF Most
<1> HIDE DEF a, b
<1>2. (n + p) * b <= m * b
  BY <1>1, TimesKeepsOrder
<1>3. (n + p) * b = n * b + p * b
  BY <1>1
<1>4. (b + 1) * m <= (2 * a) * m
  BY <1>1, TimesKeepsOrder
<1>5. (b + 1) * m = m * b + m /\ (2 * a) * m = m * a + m * a
  BY <1>1
<1>6. n * b \in Int /\ p * b \in Int /\ m * a \in Int /\ m * b \in Int
  BY <1>1
<1> QED BY <1>1, <1>2, <1>3, <1>4, <1>5, <1>6

\* The share of something is something.
LEMMA MostSome ==
    ASSUME NEW n \in Nat, NEW m \in Nat, m > 0, Most(n, m)
    PROVE  n > 0
<1>1. Share[1] \in Nat /\ Share[1] > 0 /\ Share[2] \in Nat /\ n * Share[2] >= m * Share[1]
  BY ShareFacts DEF Most
<1>2. 1 * Share[1] <= m * Share[1]
  BY <1>1, TimesKeepsOrder
<1>3. n * Share[2] > 0
  BY <1>1, <1>2
<1> QED BY <1>1, <1>3

\* The statements are finitely many, and have days or none.
RowsOK(rows) ==
    /\ IsFiniteSet(DOMAIN rows)
    /\ \A at \in DOMAIN rows :
          rows[at].periodEnd \in Int \cup {Null} /\ PublicationAt(rows[at]) \in Int \cup {Null}

\* Where most stamps are usable and most are one kind of placeholder, a pattern is found.
LEMMA PlaceholdersFail ==
    ASSUME NEW rows, RowsOK(rows), NEW S \in Placeholders(rows),
           Cardinality(Stamped(rows)) >= MinSample,
           Most(Cardinality(S), Cardinality(DOMAIN rows)), MostUsable(rows)
    PROVE  Plausibility(rows).outcome = "fail"
<1> DEFINE all == DOMAIN rows
<1>1. /\ Stamped(rows) \subseteq all /\ Timed(rows) \subseteq Stamped(rows)
      /\ UsableRows(rows) \subseteq Timed(rows) /\ Repeating(rows) \subseteq Timed(rows)
      /\ Sentinels(rows) \subseteq Stamped(rows) /\ Firsts(rows) \subseteq Stamped(rows)
      /\ \A lag : WithLag(rows, lag) \subseteq Timed(rows)
  BY DEF Stamped, Timed, UsableRows, Repeating, Sentinels, Firsts, WithLag
<1>2. IsFiniteSet(all)
  BY DEF RowsOK
<1>3. \A T \in SUBSET all : IsFiniteSet(T) /\ Cardinality(T) \in Nat /\ Cardinality(T) <= Cardinality(all)
  <2> HIDE DEF all
  <2> QED BY <1>2, FS_Subset, FS_CardinalityType
<1>4. \A T \in SUBSET all : Cardinality(T) > 0 => T # {}
  BY FS_EmptySet
<1>5. S \subseteq all
  BY <1>1 DEF Placeholders
<1>6. Stamped(rows) # {} /\ Cardinality(all) >= MinSample /\ Cardinality(all) > 0
  <2>1. Cardinality(Stamped(rows)) > 0 /\ Cardinality(Stamped(rows)) <= Cardinality(all)
        /\ Cardinality(all) \in Nat /\ Cardinality(Stamped(rows)) \in Nat
    <3> HIDE DEF all
    <3> QED BY <1>1, <1>3, ShareFacts
  <2>2. Stamped(rows) # {}
    BY <1>1, <1>4, <2>1
  <2> HIDE DEF all
  <2> QED BY <2>1, <2>2, ShareFacts
<1>7. CASE S = Repeating(rows)
  <2> DEFINE usable == UsableRows(rows)
  <2>1. S \cap usable = {}
    <3> SUFFICES ASSUME NEW at \in S, at \in usable PROVE FALSE
      OBVIOUS
    <3>1. Lag(rows[at]) = 0 /\ Lag(rows[at]) > 0
      BY <1>7 DEF Repeating, UsableRows
    <3> QED BY <3>1
  <2>2. usable \subseteq all
    BY <1>1
  <2>3. Most(Cardinality(usable), Cardinality(all))
    BY DEF MostUsable
  <2> HIDE DEF usable, all
  <2>4. Cardinality(S) + Cardinality(usable) <= Cardinality(all)
    <3>1. ~(Cardinality(S) + Cardinality(usable) > Cardinality(all))
      BY <1>2, <1>5, <2>1, <2>2, FS_MajoritiesIntersect
    <3>2. Cardinality(S) \in Nat /\ Cardinality(usable) \in Nat /\ Cardinality(all) \in Nat
      BY <1>3, <1>5, <2>2
    <3> QED BY <3>1, <3>2
  <2>5. Cardinality(S) \in Nat /\ Cardinality(usable) \in Nat /\ Cardinality(all) \in Nat
    BY <1>3, <1>5, <2>2
  <2>6. Most(Cardinality(S), Cardinality(all))
    BY DEF all
  <2> QED BY <1>6, <2>3, <2>4, <2>5, <2>6, TwoMosts
<1>8. CASE S = Sentinels(rows)
  <2>1. Cardinality(S) > 0
    <3>1. Cardinality(S) \in Nat /\ Cardinality(all) \in Nat
      <4> HIDE DEF all
      <4> QED BY <1>3, <1>5
    <3> QED BY <1>6, <3>1, MostSome
  <2>2. Sentinels(rows) # {}
    BY <1>4, <1>5, <1>8, <2>1
  <2> QED BY <1>6, <2>2 DEF Plausibility, Found
<1>9. CASE S = Firsts(rows)
  <2>1. FirstOfMonth(rows)
    <3>1. /\ Cardinality(S) \in Nat /\ Cardinality(all) \in Nat /\ Cardinality(Stamped(rows)) \in Nat
          /\ Cardinality(Stamped(rows)) <= Cardinality(all)
      <4> HIDE DEF all
      <4> QED BY <1>1, <1>3, <1>5
    <3>2. Most(Cardinality(S), Cardinality(Stamped(rows)))
      BY <3>1, MostOfFewer
    <3> QED BY <1>9, <3>2 DEF FirstOfMonth
  <2> QED BY <1>6, <2>1 DEF Plausibility, Found
<1>10. ASSUME NEW at \in Timed(rows), S = WithLag(rows, Lag(rows[at]))
       PROVE  Plausibility(rows).outcome = "fail"
  <2>1. /\ Cardinality(S) \in Nat /\ Cardinality(all) \in Nat /\ Cardinality(Timed(rows)) \in Nat
        /\ Cardinality(Timed(rows)) <= Cardinality(all)
    <3> HIDE DEF all
    <3> QED BY <1>1, <1>3, <1>5
  <2>2. Most(Cardinality(S), Cardinality(Timed(rows)))
    BY <2>1, MostOfFewer
  <2>3. Cardinality(S) >= MinSample
    BY <1>6, <2>1, MostEnough
  <2>4. Cardinality(S) <= Cardinality(Timed(rows))
    <3>1. S \subseteq Timed(rows) /\ IsFiniteSet(Timed(rows))
      <4> HIDE DEF all
      <4> QED BY <1>1, <1>3, <1>10
    <3> QED BY <3>1, FS_Subset
  <2>5. Cardinality(Timed(rows)) >= MinSample
    BY <2>1, <2>3, <2>4, ShareFacts
  <2>6. UniformLag(rows)
    BY <1>10, <2>2, <2>5 DEF UniformLag
  <2> QED BY <1>6, <2>6 DEF Plausibility, Found
<1> QED BY <1>7, <1>8, <1>9, <1>10 DEF Placeholders

\* Of finite sets that are some, one has none of the others strictly within.
LEMMA SmallestOne ==
    ASSUME NEW T, T # {}, NEW sets, \A i \in T : IsFiniteSet(sets[i])
    PROVE  \E i \in T : \A j \in T : sets[j] \subseteq sets[i] => sets[j] = sets[i]
<1> DEFINE sizes == {Cardinality(sets[i]) : i \in T}
<1>1. \A i \in T : Cardinality(sets[i]) \in Nat
  BY FS_CardinalityType
<1>2. PICK n \in sizes : \A m \in sizes : n <= m
  <2>1. sizes \subseteq Nat /\ sizes # {}
    BY <1>1
  <2> HIDE DEF sizes
  <2> QED BY <2>1, LeastNatural
<1>3. PICK i \in T : n = Cardinality(sets[i])
  BY <1>2
<1>4. ASSUME NEW j \in T, sets[j] \subseteq sets[i]
      PROVE  sets[j] = sets[i]
  <2>1. Cardinality(sets[j]) <= Cardinality(sets[i])
        /\ (Cardinality(sets[i]) = Cardinality(sets[j]) => sets[i] = sets[j])
    BY <1>4, FS_Subset
  <2>2. n <= Cardinality(sets[j])
    BY <1>2
  <2> QED BY <1>1, <1>3, <2>1, <2>2
<1> QED BY <1>4

\* Of some places with numbers, one has the greatest.
LEMMA TopmostExists ==
    ASSUME NEW values, NEW T, IsFiniteSet(T), T # {}, \A i \in T : values[i] \in Int
    PROVE  \E i \in T : \A j \in T : values[j] <= values[i]
<1> DEFINE above == [i \in T |-> {j \in T : values[j] > values[i]}]
<1>1. \A i \in T : IsFiniteSet(above[i])
  <2> SUFFICES ASSUME NEW i \in T PROVE IsFiniteSet({j \in T : values[j] > values[i]})
    OBVIOUS
  <2> QED BY FS_Subset
<1>2. PICK i \in T : \A j \in T : above[j] \subseteq above[i] => above[j] = above[i]
  <2> HIDE DEF above
  <2> QED BY <1>1, SmallestOne
<1>3. ASSUME NEW j \in T, values[j] > values[i] PROVE FALSE
  <2>1. above[j] \subseteq above[i]
    BY <1>3
  <2>2. j \in above[i] /\ j \notin above[j]
    BY <1>3
  <2> QED BY <1>2, <2>1, <2>2
<1> QED BY <1>3

\* The nine tenths, rounded up, of a sample are one of its ranks.
LEMMA RankBounds ==
    ASSUME NEW n \in Nat, n > 0
    PROVE  Rank(n, 90) \in 1 .. n /\ Rank(n, 90) * 10 >= 9 * n
<1> DEFINE q == (90 * n + 99) \div 100
           both == {1, q}
<1>1. q \in Int /\ 100 * q <= 90 * n + 99 /\ 90 * n + 99 < 100 * q + 100
  OBVIOUS
<1> HIDE DEF q
<1>2. q * 10 >= 9 * n /\ q <= n
  BY <1>1
<1>3. \E x \in both : \A y \in both : x >= y
  <2>1. q >= 1 \/ 1 >= q
    BY <1>1
  <2> QED BY <1>1, <2>1
<1>4. Max(both) \in both /\ \A y \in both : Max(both) >= y
  <2> HIDE DEF both
  <2> QED BY <1>3 DEF Max
<1>5. Max(both) \in 1 .. n /\ Max(both) >= q
  BY <1>1, <1>2, <1>4
<1>6. Rank(n, 90) = Max(both)
  BY DEF Rank, q
<1> HIDE DEF both
<1> QED BY <1>1, <1>2, <1>5, <1>6

\* There is a value at every rank.
LEMMA PercentileStands ==
    ASSUME NEW values, IsFiniteSet(DOMAIN values), \A i \in DOMAIN values : values[i] \in Int,
           NEW rank \in 1 .. Cardinality(DOMAIN values)
    PROVE  \E v \in Range(values) :
              Cardinality(BelowValue(values, v)) < rank /\ rank <= Cardinality(UpToValue(values, v))
<1> DEFINE V == {v \in Range(values) : rank <= Cardinality(UpToValue(values, v))}
           below == [v \in V |-> BelowValue(values, v)]
<1>0. \A T \in SUBSET DOMAIN values : IsFiniteSet(T) /\ Cardinality(T) \in Nat
  BY FS_Subset, FS_CardinalityType
<1>1. V # {}
  <2>1. DOMAIN values # {}
    <3>1. Cardinality(DOMAIN values) # 0
      BY <1>0
    <3> QED BY <3>1, FS_EmptySet
  <2>2. PICK i \in DOMAIN values : \A j \in DOMAIN values : values[j] <= values[i]
    BY <2>1, TopmostExists
  <2>3. UpToValue(values, values[i]) = DOMAIN values
    BY <2>2 DEF UpToValue
  <2>4. values[i] \in Range(values)
    BY DEF Range
  <2> QED BY <1>0, <2>3, <2>4
<1>2. \A v \in V : IsFiniteSet(below[v])
  <2> SUFFICES ASSUME NEW v \in V PROVE IsFiniteSet(BelowValue(values, v))
    OBVIOUS
  <2> QED BY <1>0 DEF BelowValue
<1>3. PICK v \in V : \A w \in V : below[w] \subseteq below[v] => below[w] = below[v]
  <2> HIDE DEF V, below
  <2> QED BY <1>1, <1>2, SmallestOne
<1>4. v \in Int
  BY DEF Range
<1>5. ASSUME Cardinality(BelowValue(values, v)) >= rank PROVE FALSE
  <2> DEFINE T == BelowValue(values, v)
  <2>1. T \in SUBSET DOMAIN values /\ \A i \in T : values[i] < v
    BY DEF BelowValue
  <2>2. T # {}
    <3>1. Cardinality(T) # 0
      <4>1. Cardinality(T) \in Nat /\ Cardinality(T) >= rank
        BY <1>0, <1>5, <2>1
      <4> HIDE DEF T
      <4> QED BY <4>1
    <3> QED BY <3>1, FS_EmptySet
  <2>3. PICK i \in T : \A j \in T : values[j] <= values[i]
    <3> HIDE DEF T
    <3> QED BY <1>0, <2>1, <2>2, TopmostExists
  <2> DEFINE w == values[i]
  <2>4. w \in Range(values) /\ w \in Int /\ w < v
    BY <2>1, <2>3 DEF Range
  <2>5. UpToValue(values, w) = T
    <3>1. ASSUME NEW j \in DOMAIN values PROVE values[j] <= w <=> values[j] < v
      <4>1. values[j] < v => values[j] <= w
        BY <2>3 DEF BelowValue
      <4> HIDE DEF w
      <4> QED BY <1>4, <2>4, <4>1
    <3> HIDE DEF w
    <3> QED BY <3>1 DEF UpToValue, BelowValue
  <2>6. w \in V
    BY <1>5, <2>4, <2>5
  <2>7. BelowValue(values, w) \subseteq T /\ i \in T /\ i \notin BelowValue(values, w)
    <3>1. i \in T /\ i \notin BelowValue(values, w)
      BY <2>3, <2>4 DEF BelowValue
    <3>2. ASSUME NEW j \in DOMAIN values, values[j] < w PROVE values[j] < v
      <4> HIDE DEF w
      <4> QED BY <1>4, <2>4, <3>2
    <3> HIDE DEF w
    <3> QED BY <3>1, <3>2 DEF BelowValue
  <2>8. below[w] = BelowValue(values, w) /\ below[v] = T
    BY <2>6
  <2> HIDE DEF below, T, w, V
  <2> QED BY <1>3, <2>6, <2>7, <2>8
<1>6. Cardinality(BelowValue(values, v)) \in Nat
  BY <1>0 DEF BelowValue
<1> QED BY <1>5, <1>6

\* At most a tenth of the numbers is above the ninetieth percentile.
LEMMA AboveThePercentile ==
    ASSUME NEW values, IsFiniteSet(DOMAIN values), DOMAIN values # {},
           \A i \in DOMAIN values : values[i] \in Int,
           NEW limit \in Int, ~(Percentile(values, 90) > limit)
    PROVE  Cardinality({i \in DOMAIN values : values[i] > limit}) * 10 <= Cardinality(DOMAIN values)
<1> DEFINE n == Cardinality(DOMAIN values)
           rank == Rank(n, 90)
           p == Percentile(values, 90)
           late == {i \in DOMAIN values : values[i] > limit}
<1>0. n \in Nat /\ n > 0
  BY FS_CardinalityType, FS_EmptySet
<1>1. rank \in 1 .. n /\ rank * 10 >= 9 * n
  <2> HIDE DEF n
  <2> QED BY <1>0, RankBounds
<1>2. p \in Range(values) /\ rank <= Cardinality(UpToValue(values, p))
  <2>1. \E v \in Range(values) :
            Cardinality(BelowValue(values, v)) < rank /\ rank <= Cardinality(UpToValue(values, v))
    <3> HIDE DEF rank
    <3> QED BY <1>1, PercentileStands
  <2>2. p = CHOOSE v \in Range(values) :
               Cardinality(BelowValue(values, v)) < rank /\ rank <= Cardinality(UpToValue(values, v))
    BY DEF Percentile
  <2> HIDE DEF rank, p
  <2> QED BY <2>1, <2>2
<1>3. p \in Int /\ p <= limit
  <2>1. p \in Int
    BY <1>2 DEF Range
  <2> HIDE DEF p
  <2>2. ~(p > limit)
    BY DEF p
  <2> QED BY <2>1, <2>2
<1> DEFINE upto == UpToValue(values, p)
<1>4. upto \subseteq DOMAIN values /\ late \subseteq DOMAIN values /\ late \cap upto = {}
  <2> HIDE DEF p
  <2> QED BY <1>3 DEF UpToValue
<1>5. Cardinality(late) \in Nat /\ Cardinality(upto) \in Nat
  <2> HIDE DEF late, upto
  <2> QED BY <1>4, FS_Subset, FS_CardinalityType
<1>6. Cardinality(late) + Cardinality(upto) <= n
  <2>1. ~(Cardinality(late) + Cardinality(upto) > Cardinality(DOMAIN values))
    <3> HIDE DEF late, upto
    <3> QED BY <1>4, FS_MajoritiesIntersect
  <2> HIDE DEF late, upto
  <2> QED BY <1>0, <1>5, <2>1
<1>7. Cardinality(upto) >= rank
  BY <1>2
<1>8. Cardinality(late) * 10 <= n
  <2> HIDE DEF late, upto, rank, n
  <2> QED BY <1>0, <1>1, <1>5, <1>6, <1>7
<1> QED BY <1>8

\* Words under which a row gives its days
DayKeys == Range(PeriodKeys) \cup Range(FiledKeys) \cup Range(KnownKeys)

\* A row of a list the provider sends gives days.
LEMMA RowIsDated ==
    ASSUME NEW item, NEW key,
           \A k \in DayKeys \cap DOMAIN item : item[k] \in Int \cup {Null, Unreadable}
    PROVE  LET row == StatementRow(item, key)
           IN  row.periodEnd \in Int \cup {Null} /\ PublicationAt(row) \in Int \cup {Null}
<1>1. DOMAIN PeriodKeys \subseteq Nat /\ DOMAIN FiledKeys \subseteq Nat /\ DOMAIN KnownKeys \subseteq Nat
  BY DEF PeriodKeys, FiledKeys, KnownKeys
<1>2. Range(PeriodKeys) \subseteq DayKeys /\ Range(FiledKeys) \subseteq DayKeys /\ Range(KnownKeys) \subseteq DayKeys
  BY DEF DayKeys
<1>3. Parsed(item, PeriodKeys) \in Int \cup {Null}
  BY <1>1, <1>2, ParsedIsNumber
<1>4. Parsed(item, FiledKeys) \in Int \cup {Null}
  BY <1>1, <1>2, ParsedIsNumber
<1>5. Parsed(item, KnownKeys) \in Int \cup {Null}
  BY <1>1, <1>2, ParsedIsNumber
<1> DEFINE row == StatementRow(item, key)
<1>6. /\ row.periodEnd = Parsed(item, PeriodKeys) /\ row.filed = Parsed(item, FiledKeys)
      /\ row.firstKnown = Parsed(item, KnownKeys)
  BY DEF StatementRow
<1> HIDE DEF row
<1>7. PublicationAt(row) \in {row.firstKnown, row.filed}
  BY DEF PublicationAt
<1>8. row.periodEnd \in Int \cup {Null} /\ PublicationAt(row) \in Int \cup {Null}
  BY <1>3, <1>4, <1>5, <1>6, <1>7
<1> QED BY <1>8 DEF row

\* Some of the pages sent
Part(part) == IsFiniteSet(DOMAIN part) /\ \A p \in DOMAIN part : part[p] \in Offered

\* Where the entries of a list are, and what they give
LEMMA EntriesAreDated ==
    ASSUME NEW part, Part(part), NEW key \in {"statements", "yearly", "quarterly"}
    PROVE  /\ IsFiniteSet(DOMAIN EntriesAt(part, key))
           /\ \A at \in DOMAIN EntriesAt(part, key) : \A k \in DayKeys \cap DOMAIN EntriesAt(part, key)[at] :
                 EntriesAt(part, key)[at][k] \in Int \cup {Null, Unreadable}
<1> DEFINE listed == [p \in DOMAIN part |->
                        {p} \X (IF BlockOf(part[p], key) = NotAList THEN {} ELSE DOMAIN BlockOf(part[p], key))]
           all == {listed[p] : p \in DOMAIN part}
           entries == EntriesAt(part, key)
<1>1. ASSUME NEW p \in DOMAIN part, BlockOf(part[p], key) # NotAList
      PROVE  /\ IsFiniteSet(DOMAIN BlockOf(part[p], key))
             /\ \A i \in DOMAIN BlockOf(part[p], key) :
                   BlockOf(part[p], key)[i] # NotAnObject =>
                      \A k \in DayKeys \cap DOMAIN BlockOf(part[p], key)[i] :
                          BlockOf(part[p], key)[i][k] \in Int \cup {Null, Unreadable}
  <2>1. part[p] \in Offered
    BY DEF Part
  <2> QED BY <1>1, <2>1, FundamentalChecksAssumption DEF DayKeys
<1>2. \A p \in DOMAIN part : IsFiniteSet(listed[p])
  <2> SUFFICES ASSUME NEW p \in DOMAIN part
               PROVE  IsFiniteSet({p} \X (IF BlockOf(part[p], key) = NotAList THEN {}
                                          ELSE DOMAIN BlockOf(part[p], key)))
    OBVIOUS
  <2>1. IsFiniteSet(IF BlockOf(part[p], key) = NotAList THEN {} ELSE DOMAIN BlockOf(part[p], key))
    BY <1>1, FS_EmptySet
  <2>2. IsFiniteSet({p})
    BY FS_Singleton
  <2> QED BY <2>1, <2>2, FS_Product
<1>3. IsFiniteSet(UNION all)
  <2>1. listed \in Surjection(DOMAIN part, all)
    BY DEF Surjection
  <2>2. IsFiniteSet(DOMAIN part)
    BY DEF Part
  <2>3. \A T \in all : IsFiniteSet(T)
    <3> HIDE DEF listed
    <3> QED BY <1>2
  <2> HIDE DEF listed, all
  <2>4. IsFiniteSet(all)
    BY <2>1, <2>2, FS_Surjection
  <2> QED BY <2>3, <2>4, FS_UNION
<1>4. DOMAIN entries \subseteq UNION all
  BY DEF EntriesAt, RestrictValues, Restrict
<1>5. ASSUME NEW at \in DOMAIN entries
      PROVE  \A k \in DayKeys \cap DOMAIN entries[at] : entries[at][k] \in Int \cup {Null, Unreadable}
  <2>1. PICK p \in DOMAIN part :
           /\ BlockOf(part[p], key) # NotAList
           /\ at \in {p} \X DOMAIN BlockOf(part[p], key)
           /\ entries[at] = BlockOf(part[p], key)[at[2]] /\ entries[at] # NotAnObject
    BY DEF EntriesAt, RestrictValues, Restrict
  <2> HIDE DEF entries
  <2> QED BY <1>1, <2>1
<1>6. IsFiniteSet(DOMAIN entries)
  <2> HIDE DEF all, entries
  <2> QED BY <1>3, <1>4, FS_Subset
<1> QED BY <1>5, <1>6

\* The statements that are read are rows of finitely many, with days.
LEMMA StatementsOK ==
    ASSUME sent \in Seq(Offered)
    PROVE  RowsOK(ParseStatements(sent))
<1> DEFINE dialect == RestrictValues(sent, LAMBDA p : p.form = "eodhd")
           neutral == RestrictValues(sent, LAMBDA p : p.form # "eodhd")
           yearly == EntriesAt(dialect, "yearly")
           quarterly == EntriesAt(dialect, "quarterly")
           statements == EntriesAt(neutral, "statements")
           rows == ParseStatements(sent)
<1>1. Part(dialect) /\ Part(neutral)
  <2>1. DOMAIN sent = 1 .. Len(sent) /\ Len(sent) \in Int /\ \A p \in DOMAIN sent : sent[p] \in Offered
    OBVIOUS
  <2>2. IsFiniteSet(DOMAIN sent)
    BY <2>1, FS_Interval
  <2>3. DOMAIN dialect \subseteq DOMAIN sent /\ \A p \in DOMAIN dialect : dialect[p] = sent[p]
    BY DEF RestrictValues, Restrict
  <2>4. DOMAIN neutral \subseteq DOMAIN sent /\ \A p \in DOMAIN neutral : neutral[p] = sent[p]
    BY DEF RestrictValues, Restrict
  <2> HIDE DEF dialect, neutral
  <2>5. IsFiniteSet(DOMAIN dialect) /\ IsFiniteSet(DOMAIN neutral)
    BY <2>2, <2>3, <2>4, FS_Subset
  <2> QED BY <2>1, <2>3, <2>4, <2>5 DEF Part
<1> DEFINE found == [yearly |-> yearly, quarterly |-> quarterly, statements |-> statements]
<1>2. DOMAIN rows = ({"yearly"} \X DOMAIN yearly) \cup ({"quarterly"} \X DOMAIN quarterly)
                       \cup ({"statements"} \X DOMAIN statements)
  <2>1. DOMAIN rows = UNION {{key} \X DOMAIN found[key] : key \in DOMAIN found}
    BY DEF ParseStatements
  <2>2. /\ DOMAIN found = {"yearly", "quarterly", "statements"}
        /\ found["yearly"] = yearly /\ found["quarterly"] = quarterly /\ found["statements"] = statements
    OBVIOUS
  <2> HIDE DEF found, yearly, quarterly, statements, rows
  <2> QED BY <2>1, <2>2
<1>3. ASSUME NEW at \in DOMAIN rows
      PROVE  \/ at[2] \in DOMAIN yearly /\ rows[at] = StatementRow(yearly[at[2]], at[1])
             \/ at[2] \in DOMAIN quarterly /\ rows[at] = StatementRow(quarterly[at[2]], at[1])
             \/ at[2] \in DOMAIN statements /\ rows[at] = StatementRow(statements[at[2]], at[1])
  BY DEF ParseStatements
<1> HIDE DEF dialect, neutral
<1>4. /\ IsFiniteSet(DOMAIN yearly)
      /\ \A at \in DOMAIN yearly : \A k \in DayKeys \cap DOMAIN yearly[at] : yearly[at][k] \in Int \cup {Null, Unreadable}
  BY <1>1, EntriesAreDated
<1>5. /\ IsFiniteSet(DOMAIN quarterly)
      /\ \A at \in DOMAIN quarterly : \A k \in DayKeys \cap DOMAIN quarterly[at] :
            quarterly[at][k] \in Int \cup {Null, Unreadable}
  BY <1>1, EntriesAreDated
<1>6. /\ IsFiniteSet(DOMAIN statements)
      /\ \A at \in DOMAIN statements : \A k \in DayKeys \cap DOMAIN statements[at] :
            statements[at][k] \in Int \cup {Null, Unreadable}
  BY <1>1, EntriesAreDated
<1> HIDE DEF yearly, quarterly, statements, rows, found
<1>7. IsFiniteSet(DOMAIN rows)
  <2>1. \A w : IsFiniteSet({w})
    BY FS_Singleton
  <2> DEFINE A == {"yearly"} \X DOMAIN yearly
             B == {"quarterly"} \X DOMAIN quarterly
             C == {"statements"} \X DOMAIN statements
  <2>2. IsFiniteSet(A) /\ IsFiniteSet(B) /\ IsFiniteSet(C)
    BY <1>4, <1>5, <1>6, <2>1, FS_Product
  <2>3. DOMAIN rows = (A \cup B) \cup C
    BY <1>2
  <2> HIDE DEF A, B, C
  <2>4. IsFiniteSet(A \cup B)
    BY <2>2, FS_Union
  <2>5. IsFiniteSet((A \cup B) \cup C)
    BY <2>2, <2>4, FS_Union
  <2> QED BY <2>3, <2>5
<1>8. ASSUME NEW at \in DOMAIN rows
      PROVE  rows[at].periodEnd \in Int \cup {Null} /\ PublicationAt(rows[at]) \in Int \cup {Null}
  BY <1>3, <1>4, <1>5, <1>6, RowIsDated
<1>9. RowsOK(rows)
  BY <1>7, <1>8 DEF RowsOK
<1> QED BY <1>9 DEF rows

\* Without statements nothing passes.
LEMMA NoneFails ==
    ASSUME NEW rows, NEW finding, IfAny(rows, finding).outcome = "pass"
    PROVE  DOMAIN rows # {}
BY DEF IfAny, Found

\* Pages are the provider's, and what the checks found measures them.
FilingInv == sent \in Seq(Offered) /\ MeasuredRight

\* The stamps a cell passes with are no placeholders, and an assumed lag that is not
\* contradicted covers nine statements of ten (checks_pit_fundamentals.py), for any
\* pages, thresholds and lags.
THEOREM StampsMeasuredRight == StatementsSpec => []MeasuredRight
<1>1. StatementsInit => FilingInv
  BY DEF StatementsInit, FilingInv, MeasuredRight
<1>2. ASSUME FilingInv, [StatementsNext]_filing
      PROVE  FilingInv'
  <2>1. CASE ReceiveStatements
    <3>1. sent' \in Seq(Offered)
      BY <1>2, <2>1 DEF ReceiveStatements, FilingInv
    <3>2. judgement' = <<>>
      BY <2>1 DEF ReceiveStatements
    <3> QED BY <3>1, <3>2 DEF FilingInv, MeasuredRight
  <2>2. CASE JudgeStatements
    <3> DEFINE rows == ParseStatements(sent')
    <3>1. sent' = sent /\ sent \in Seq(Offered)
      BY <1>2, <2>2 DEF JudgeStatements, FilingInv
    <3>2. RowsOK(rows)
      BY <3>1, StatementsOK
    <3>3. /\ judgement'.presence = IfAny(rows, Presence(rows))
          /\ judgement'.plausibility = IfAny(rows, Plausibility(rows))
          /\ judgement'.triggers = Triggers(rows)
      BY <2>2, <3>1 DEF JudgeStatements
    <3> HIDE DEF rows
    <3>4. ASSUME NEW S \in Placeholders(rows), Cardinality(Stamped(rows)) >= MinSample,
                 Most(Cardinality(S), Cardinality(DOMAIN rows)),
                 judgement'.presence.outcome = "pass", judgement'.plausibility.outcome = "pass"
          PROVE  FALSE
      <4>1. DOMAIN rows # {}
        BY <3>3, <3>4, NoneFails
      <4>2. judgement'.presence = Presence(rows) /\ judgement'.plausibility = Plausibility(rows)
        BY <3>3, <4>1 DEF IfAny
      <4>3. MostUsable(rows)
        BY <3>4, <4>2 DEF Presence, Found
      <4>4. Plausibility(rows).outcome = "fail"
        BY <3>2, <3>4, <4>3, PlaceholdersFail
      <4> QED BY <3>4, <4>2, <4>4
    <3>5. ASSUME NEW kind \in DOMAIN AssumedLag \ judgement'.triggers, Enough(LagsOf(rows, kind))
          PROVE  Cardinality({at \in DOMAIN LagsOf(rows, kind) : LagsOf(rows, kind)[at] > AssumedLag[kind]}) * 10
                    <= Cardinality(DOMAIN LagsOf(rows, kind))
      <4> DEFINE lags == LagsOf(rows, kind)
      <4>1. ~(Percentile(lags, 90) > AssumedLag[kind])
        BY <3>3, <3>5 DEF Triggers
      <4>2. DOMAIN lags \subseteq DOMAIN rows
        BY DEF LagsOf, UsableRows, Timed, Stamped
      <4>3. \A at \in DOMAIN lags : lags[at] \in Int
        <5> SUFFICES ASSUME NEW at \in DOMAIN lags PROVE Lag(rows[at]) \in Int
          BY DEF LagsOf
        <5>1. at \in UsableRows(rows) /\ at \in DOMAIN rows
          BY <4>2 DEF LagsOf
        <5>2. rows[at].periodEnd # Null /\ PublicationAt(rows[at]) # Null
          BY <5>1 DEF UsableRows, Timed, Stamped
        <5>3. rows[at].periodEnd \in Int /\ PublicationAt(rows[at]) \in Int
          BY <3>2, <5>1, <5>2 DEF RowsOK
        <5> QED BY <5>3 DEF Lag
      <4>4. IsFiniteSet(DOMAIN lags)
        <5> HIDE DEF lags
        <5> QED BY <3>2, <4>2, FS_Subset DEF RowsOK
      <4>5. DOMAIN lags # {}
        <5>1. Cardinality(DOMAIN lags) > 0
          <6>1. Cardinality(DOMAIN lags) \in Nat
            BY <4>4, FS_CardinalityType
          <6>2. Cardinality(DOMAIN lags) >= MinSample
            BY <3>5 DEF Enough
          <6> HIDE DEF lags
          <6> QED BY <6>1, <6>2, ShareFacts
        <5> QED BY <5>1, FS_EmptySet
      <4>6. AssumedLag[kind] \in Int
        BY FundamentalChecksAssumption
      <4> HIDE DEF lags
      <4>7. Cardinality({at \in DOMAIN lags : lags[at] > AssumedLag[kind]}) * 10 <= Cardinality(DOMAIN lags)
        BY <4>1, <4>3, <4>4, <4>5, <4>6, AboveThePercentile
      <4> QED BY <4>7 DEF lags
    <3>6. MeasuredRight'
      BY <3>4, <3>5 DEF MeasuredRight, PlaceholdersCaught, QuietMeansCovered, rows
    <3> QED BY <3>1, <3>6 DEF FilingInv
  <2>3. CASE UNCHANGED filing
    BY <1>2, <2>3 DEF filing, FilingInv, MeasuredRight, PlaceholdersCaught, QuietMeansCovered
  <2> QED BY <1>2, <2>1, <2>2, <2>3 DEF StatementsNext
<1>3. FilingInv => MeasuredRight
  BY DEF FilingInv
<1> QED BY <1>1, <1>2, <1>3, PTL DEF StatementsSpec
=============================================================================
