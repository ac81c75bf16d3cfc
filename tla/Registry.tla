------------------------------ MODULE Registry ------------------------------
(***************************************************************************)
(* The experiment registry (trp/experiments/store.py) and the functions    *)
(* that run and re-run an experiment against it (running.py, manifest.py), *)
(* used by several sessions: processes that share one SQLite file, one     *)
(* artefact directory and one working tree.                                *)
(*                                                                         *)
(* A SQL statement is atomic; a registry operation that selects a row,     *)
(* checks it and updates it is two steps, since the code opens no          *)
(* transaction around them.  An operation that raises leaves its session   *)
(* idle with what it had written before.  A session can crash anywhere.    *)
(***************************************************************************)
EXTENDS Integers, Sequences, FiniteSets

CONSTANTS
    Sessions,           \* processes using the registry
    Hyps,               \* hypothesis ids
    HypTimes,           \* created_at of a hypothesis
    Exps,               \* experiment ids
    Designs,            \* the records an experiment can be created with
    Names,              \* experiment names; nothing makes them unique
    VariantThreshold,   \* VARIANT_WARNING_THRESHOLD (5)
    MaxRuns,            \* bound: runs per experiment
    MaxVersion          \* bound: commits and ingestions

ASSUME RegistryAssumption ==
    /\ HypTimes \subseteq Nat
    /\ Designs \subseteq [hyp : Hyps, name : Names, created : Nat, oos : BOOLEAN,
                          class : {"confirmatory", "exploratory"}]
    /\ VariantThreshold \in Nat /\ MaxRuns \in Nat /\ MaxVersion \in Nat

VARIABLES
    hyps,        \* table hypotheses: id -> created_at
    exps,        \* table experiments: id -> row
    runs,        \* table runs: run id -> row
    artefacts,   \* run directories: name -> contents
    env,         \* what capture_manifest looks at: commit and datasets, dirtiness
    session,     \* per process: the operation under way
    turns        \* whether the sessions are used in turns, fixed for a behaviour

vars == <<hyps, exps, runs, artefacts, env, session, turns>>

\* ALLOWED_TRANSITIONS
Allowed(status) ==
    CASE status = "designed" -> {"running", "abandoned"}
      [] status = "running" -> {"completed", "abandoned"}
      [] status = "completed" -> {"concluded", "running", "abandoned"}
      [] OTHER -> {}

\* A run id is <<name, n>>; a directory is a run id, or its n-th verification.
NoRun == <<>>
Dir(run, attempt) == <<run, attempt>>

Put(f, k, v) == [x \in DOMAIN f \cup {k} |-> IF x = k THEN v ELSE f[x]]

Idle == [pc |-> "idle"]

RunsFor(e) == {r \in DOMAIN runs : runs[r].exp = e}

NextRunIndex(e) == Cardinality(RunsFor(e)) + 1

Variants(h) == Cardinality({e \in DOMAIN exps : exps[e].design.hyp = h})

HasOutOfSample(h) == \E e \in DOMAIN exps : exps[e].design.hyp = h /\ exps[e].design.oos

-----------------------------------------------------------------------------
AddHypothesis ==
    /\ \E h \in Hyps \ DOMAIN hyps, t \in HypTimes : hyps' = Put(hyps, h, t)
    /\ UNCHANGED <<exps, runs, artefacts, env, session>>

AddExperiment ==
    /\ \E e \in Exps \ DOMAIN exps, d \in Designs :
          /\ d.hyp \in DOMAIN hyps
          /\ d.class = "confirmatory" => hyps[d.hyp] < d.created
          /\ exps' = Put(exps, e, [design |-> d, status |-> "designed",
                                   cited |-> NoRun, warned |-> FALSE])
    /\ UNCHANGED <<hyps, runs, artefacts, env, session>>

\* Mutant: the transition table is not consulted.
UncheckedTransition(p, e, pc, row) ==
    session' = [session EXCEPT ![p] = [pc |-> pc, exp |-> e, row |-> row]]

(***************************************************************************)
(* Registry.experiment and the check of Registry._transition, up to the    *)
(* UPDATE: the session holds the whole updated row.                        *)
(***************************************************************************)
BeginTransition(p, e, pc, row) ==
    /\ row.status \in Allowed(exps[e].status)
    /\ session' = [session EXCEPT ![p] = [pc |-> pc, exp |-> e, row |-> row]]

Start(p) ==
    /\ session[p].pc = "idle"
    /\ \E e \in DOMAIN exps :
          BeginTransition(p, e, "start", [exps[e] EXCEPT !.status = "running"])
    /\ UNCHANGED <<hyps, exps, runs, artefacts, env>>

Abandon(p) ==
    /\ session[p].pc = "idle"
    /\ \E e \in DOMAIN exps :
          BeginTransition(p, e, "write", [exps[e] EXCEPT !.status = "abandoned"])
    /\ UNCHANGED <<hyps, exps, runs, artefacts, env>>

\* Mutant: any run of the experiment will do as evidence.
AnyEvidence(e, r) == runs[r].exp = e

\* The evidence rules of Registry.conclude.
Citable(e, r) == /\ runs[r].exp = e
                 /\ exps[e].design.class = "confirmatory" => runs[r].reproducible

Conclude(p) ==
    /\ session[p].pc = "idle"
    /\ \E e \in DOMAIN exps, r \in DOMAIN runs :
          /\ Citable(e, r)
          /\ LET h == exps[e].design.hyp
             IN  BeginTransition(p, e, "write",
                    [exps[e] EXCEPT !.status = "concluded", !.cited = r,
                        !.warned = Variants(h) > VariantThreshold /\ ~HasOutOfSample(h)])
    /\ UNCHANGED <<hyps, exps, runs, artefacts, env>>

(***************************************************************************)
(* Registry._write_experiment: the UPDATE of the whole row.  run_experiment *)
(* goes on after its start; every other operation is then finished.        *)
(***************************************************************************)
WriteExperiment(p) ==
    LET op == session[p]
    IN  /\ op.pc \in {"start", "write"}
        /\ exps' = [exps EXCEPT ![op.exp] = op.row]
        /\ session' = [session EXCEPT ![p] =
                          IF op.pc = "start" THEN [pc |-> "capture", exp |-> op.exp] ELSE Idle]
        /\ UNCHANGED <<hyps, runs, artefacts, env>>

\* capture_manifest, before anything is executed
Capture(p) ==
    /\ session[p].pc = "capture"
    /\ session' = [session EXCEPT ![p] = [pc |-> "index", exp |-> @.exp, manifest |-> env]]
    /\ UNCHANGED <<hyps, exps, runs, artefacts, env>>

IndexRun(p) ==
    LET op == session[p]
    IN  /\ op.pc = "index" /\ NextRunIndex(op.exp) <= MaxRuns
        /\ session' = [session EXCEPT ![p] =
              [pc |-> "execute", exp |-> op.exp, manifest |-> op.manifest, attempt |-> 0,
               run |-> <<exps[op.exp].design.name, NextRunIndex(op.exp)>>]]
        /\ UNCHANGED <<hyps, exps, runs, artefacts, env>>

(***************************************************************************)
(* The executor reads code and data and computes.  The metrics are a       *)
(* function of the environment it found: that environment stands for them. *)
(***************************************************************************)
Execute(p) ==
    LET op == session[p]
    IN  /\ op.pc = "execute"
        /\ session' = [session EXCEPT ![p] =
              [pc |-> "publish", exp |-> op.exp, manifest |-> op.manifest,
               attempt |-> op.attempt, run |-> op.run, metrics |-> env]]
        /\ UNCHANGED <<hyps, exps, runs, artefacts, env>>

\* write_run refuses an existing directory.
FreshDirectory(dir) == dir \notin DOMAIN artefacts

\* write_run: the directory is made first, its files follow.
MakeDirectory(p) ==
    LET op == session[p]
        dir == Dir(op.run, op.attempt)
    IN  /\ op.pc = "publish"
        /\ IF FreshDirectory(dir)
           THEN /\ artefacts' = Put(artefacts, dir, [metrics |-> op.metrics, done |-> FALSE])
                /\ session' = [session EXCEPT ![p].pc = "files"]
           ELSE /\ session' = [session EXCEPT ![p] =
                                  IF op.attempt = 0 THEN Idle ELSE [pc |-> "refused"]]
                /\ UNCHANGED artefacts
        /\ UNCHANGED <<hyps, exps, runs, env>>

WriteFiles(p) ==
    LET op == session[p]
    IN  /\ op.pc = "files"
        /\ artefacts' = [artefacts EXCEPT ![Dir(op.run, op.attempt)].done = TRUE]
        /\ session' = [session EXCEPT ![p].pc = IF op.attempt = 0 THEN "record" ELSE "compare"]
        /\ UNCHANGED <<hyps, exps, runs, env>>

(***************************************************************************)
(* Registry.record_run; a run id already on record is an IntegrityError.   *)
(***************************************************************************)
RecordRun(p) ==
    LET op == session[p]
    IN  /\ op.pc = "record"
        /\ IF op.run \in DOMAIN runs
           THEN session' = [session EXCEPT ![p] = Idle] /\ UNCHANGED runs
           ELSE /\ runs' = Put(runs, op.run,
                               [exp |-> op.exp, manifest |-> op.manifest,
                                reproducible |-> ~op.manifest.dirty,
                                metrics |-> op.metrics])
                /\ session' = [session EXCEPT ![p] = [pc |-> "complete", exp |-> op.exp]]
        /\ UNCHANGED <<hyps, exps, artefacts, env>>

\* Registry.complete: raises when someone abandoned the experiment meanwhile.
Complete(p) ==
    LET op == session[p]
    IN  /\ op.pc = "complete"
        /\ \/ BeginTransition(p, op.exp, "write", [exps[op.exp] EXCEPT !.status = "completed"])
           \/ /\ "completed" \notin Allowed(exps[op.exp].status)
              /\ session' = [session EXCEPT ![p] = Idle]
        /\ UNCHANGED <<hyps, exps, runs, artefacts, env>>

\* manifest_diff of a stored manifest and a fresh capture
Matches(manifest) == manifest = env /\ ~env.dirty

\* rerun, up to the verification of the environment
Rerun(p) ==
    /\ session[p].pc = "idle"
    /\ \E r \in DOMAIN runs :
          /\ Matches(runs[r].manifest)
          /\ session' = [session EXCEPT ![p] =
                [pc |-> "execute", exp |-> runs[r].exp, manifest |-> runs[r].manifest,
                 attempt |-> NextRunIndex(runs[r].exp), run |-> r]]
    /\ UNCHANGED <<hyps, exps, runs, artefacts, env>>

\* rerun, the comparison of the metrics
Compare(p) ==
    LET op == session[p]
    IN  /\ op.pc = "compare"
        /\ session' = [session EXCEPT ![p] =
              [pc |-> IF op.metrics = runs[op.run].metrics THEN "reproduced" ELSE "mismatch"]]
        /\ UNCHANGED <<hyps, exps, runs, artefacts, env>>

\* The caller has seen how its rerun ended.
Return(p) ==
    /\ session[p].pc \in {"reproduced", "mismatch", "refused"}
    /\ session' = [session EXCEPT ![p] = Idle]
    /\ UNCHANGED <<hyps, exps, runs, artefacts, env>>

Crash(p) ==
    /\ session[p].pc # "idle"
    /\ session' = [session EXCEPT ![p] = Idle]
    /\ UNCHANGED <<hyps, exps, runs, artefacts, env>>

\* The researcher edits or commits the tree; an ingestion moves a dataset on.
ChangeEnvironment ==
    /\ \/ env' = [env EXCEPT !.dirty = TRUE]
       \/ /\ env.version < MaxVersion
          /\ \E d \in {FALSE, env.dirty} :
                env' = [version |-> env.version + 1, dirty |-> d]
    /\ UNCHANGED <<hyps, exps, runs, artefacts, session>>

Init == /\ hyps = <<>> /\ exps = <<>> /\ runs = <<>> /\ artefacts = <<>>
        /\ env = [version |-> 0, dirty |-> FALSE]
        /\ session = [p \in Sessions |-> Idle]
        /\ turns \in BOOLEAN

SessionStep(p) ==
    \/ Start(p) \/ Abandon(p) \/ Conclude(p) \/ WriteExperiment(p) \/ Capture(p)
    \/ IndexRun(p) \/ Execute(p) \/ MakeDirectory(p) \/ WriteFiles(p) \/ RecordRun(p)
    \/ Complete(p) \/ Rerun(p) \/ Compare(p) \/ Return(p) \/ Crash(p)

AtWork == {p \in Sessions : session[p].pc # "idle"}

Alone == \A p, q \in AtWork : p = q

Operation == \/ AddHypothesis \/ AddExperiment \/ ChangeEnvironment
             \/ \E p \in Sessions : SessionStep(p)

Next == Operation /\ UNCHANGED turns /\ (turns => Alone')

Spec == Init /\ [][Next]_vars

-----------------------------------------------------------------------------
(***************************************************************************)
(* "transitions follow ALLOWED_TRANSITIONS exactly" (store.py): an          *)
(* experiment on record never takes a transition that the table does not   *)
(* have, and never disappears, wherever the session that used it last has  *)
(* crashed.  (So it is while operations do not overlap: a row is written   *)
(* long after its status was checked.)                                     *)
(***************************************************************************)
LegalTransitions ==
    [][turns => \A e \in DOMAIN exps :
          /\ e \in DOMAIN exps'
          /\ exps'[e].status # exps[e].status => exps'[e].status \in Allowed(exps[e].status)]_vars

(***************************************************************************)
(* A completed or concluded experiment has a run on record, whatever       *)
(* crashed in between (the order of run_experiment).                       *)
(***************************************************************************)
CompletedHasRun ==
    \A e \in DOMAIN exps : exps[e].status \in {"completed", "concluded"} => RunsFor(e) # {}

(***************************************************************************)
(* "a run recorded from a dirty working tree ... cannot be cited as the    *)
(* evidence for a CONFIRMATORY conclusion" (store.py): the run a           *)
(* conclusion cites stays on record, belongs to the experiment, and was    *)
(* captured from a clean tree when the experiment is confirmatory.         *)
(***************************************************************************)
ConfirmatoryEvidence ==
    \A e \in DOMAIN exps : exps[e].status = "concluded" =>
        /\ exps[e].cited \in DOMAIN runs
        /\ runs[exps[e].cited].exp = e
        /\ exps[e].design.class = "confirmatory" => ~runs[exps[e].cited].manifest.dirty

(***************************************************************************)
(* "the IMMUTABLE backtest run records ... that the run's artefact_path    *)
(* references" (results.py): the directory of every run on record is       *)
(* complete and holds the metrics the row holds, with sessions racing for  *)
(* a run id, experiments sharing a name, and crashed runs leaving          *)
(* directories behind.                                                     *)
(***************************************************************************)
RowsMatchArtefacts ==
    \A r \in DOMAIN runs :
        /\ Dir(r, 0) \in DOMAIN artefacts
        /\ artefacts[Dir(r, 0)] = [metrics |-> runs[r].metrics, done |-> TRUE]

(***************************************************************************)
(* What the registry says happened is backed by a run on record and that   *)
(* by its directory, with sessions overlapping and crashing (running.py,   *)
(* store.py, results.py).                                                  *)
(***************************************************************************)
EvidenceStands == CompletedHasRun /\ ConfirmatoryEvidence /\ RowsMatchArtefacts
=============================================================================
