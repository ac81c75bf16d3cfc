----------------------------- MODULE MasterBuild ----------------------------
(***************************************************************************)
(* The extension of the security master by the FTSE 250                    *)
(* (trp/universe/ftse250_build.py) and the file store it writes to         *)
(* (trp/canonical/security_store.py): five tables replaced one after the   *)
(* other, then the file of assigned ids, with crashes in between; and the  *)
(* FTSE 100 step (trp/universe/ftse_build.py) that writes a new master     *)
(* over it.  Ids are numbers, negative for FTSE 100 securities; an entity  *)
(* has the id of its security.  Status periods are neither read nor        *)
(* changed.                                                                *)
(***************************************************************************)
EXTENDS Ranges, Sequences, FiniteSetsExt

CONSTANTS
    Companies,      \* names of the resolution file: numbers, in its sorted order
    Entries,        \* what the resolution may say of one
    Malformed,      \* codes that are no ticker
    BadIsins,       \* ISINs whose checksum fails
    SeedCode,       \* the provider code of the one FTSE 100 security
    MaxEdits,       \* bound: revisions of the resolution
    MaxCrashes,     \* bound
    MaxReseeds,     \* bound: further runs of the FTSE 100 step
    Absent

VARIABLES
    resolution,     \* ftse250_resolution.json
    disk,           \* the five tables, as last renamed
    assignments,    \* ftse250_security_ids.json
    pc,
    seeding,        \* the last write is the FTSE 100 step's
    left,           \* companies the build has still to take
    extended,       \* the master being built or written
    memo,           \* assignments of the process
    step,           \* tables renamed so far
    universe,       \* the FTSE250 spells: pairs of company and security
    seeds,
    edits, crashes,
    half,           \* history: the FTSE 100 step has replaced some of the tables, and not all
    torn            \* history: a crash came between the tables and the assignments

files == <<resolution, disk, assignments, universe>>
process == <<pc, seeding, left, extended, memo, step>>
bounds == <<seeds, edits, crashes>>
mastering == <<files, process, bounds, half, torn>>

\* Mutant: the tables that refer to others come first.
ReferringFirst == <<"identifiers", "listings", "status_periods", "securities", "entities">>

Tables == <<"entities", "securities", "listings", "status_periods", "identifiers">>

-----------------------------------------------------------------------------
Conflicting(a, b) ==
    /\ a.kind = b.kind /\ RangesOverlap(a, b)
    /\ (a.value = b.value /\ a.security # b.security) \/ (a.value # b.value /\ a.security = b.security)

\* SecurityMaster's validation, of what a build can produce
Consistent(m) ==
    /\ m.securities \subseteq m.entities
    /\ \A r \in m.listings \cup {i.security : i \in m.identifiers} : r \in m.securities
    /\ \A a, b \in m.identifiers : ~Conflicting(a, b)

ProviderCodes(m) == {i.value : i \in {j \in m.identifiers : j.kind = "provider"}}

Identifiers(e, id, taken) ==
    LET record(kind, value) == [security |-> id, kind |-> kind, value |-> value, from |-> e.from, to |-> e.to]
        attached == e.code # Absent /\ e.code \notin taken
    IN  (IF attached THEN {record("provider", e.code)} ELSE {})
        \cup (IF attached /\ e.code \notin Malformed THEN {record("ticker", e.code)} ELSE {})
        \cup (IF e.isin # Absent /\ e.isin \notin BadIsins THEN {record("isin", e.isin)} ELSE {})

Mintable(c) == ~(resolution[c].owned \/ resolution[c].rejected)

\* new_security_id: one that nothing has
Fresh == Max(disk.securities \cup Range(memo) \cup {0}) + 1

AssignedId(c) == IF c \in DOMAIN memo THEN memo[c] ELSE Fresh

-----------------------------------------------------------------------------
FirstDay == 1
LastDay == None

\* The FTSE 100 master, whose build never looks at the ids of an earlier one
Seeded(id) ==
    [entities |-> {id}, securities |-> {id}, listings |-> {id}, status_periods |-> {},
     identifiers |-> {[security |-> id, kind |-> "provider", value |-> SeedCode, from |-> FirstDay, to |-> LastDay]}]

MasterTables ==
    /\ resolution = <<>> /\ disk = Seeded(-1) /\ assignments = <<>> /\ universe = {}
    /\ seeding = FALSE /\ left = {} /\ extended = <<>> /\ memo = <<>> /\ step = 0
    /\ seeds = 1 /\ edits = 0 /\ crashes = 0 /\ half = FALSE /\ torn = FALSE

MasterInit == MasterTables /\ pc = "idle"

\* The curator resolves a company, or resolves it anew; an owned one is on the FTSE 100.
Resolve(c, e) ==
    /\ pc = "idle" /\ edits < MaxEdits
    /\ resolution' = [x \in DOMAIN resolution \cup {c} |-> IF x = c THEN e ELSE resolution[x]]
    /\ edits' = edits + 1
    /\ UNCHANGED <<disk, assignments, universe, process, seeds, crashes, half, torn>>

Reseed ==
    /\ pc = "idle" /\ seeds <= MaxReseeds
    /\ seeds' = seeds + 1 /\ seeding' = TRUE /\ step' = 0
    /\ extended' = Seeded(-(seeds + 1)) /\ pc' = "write"
    /\ UNCHANGED <<files, left, memo, edits, crashes, half, torn>>

\* build_master reads the master, which has to load, and the assignments.
BuildMaster ==
    /\ pc = "idle" /\ Consistent(disk)
    /\ pc' = "build" /\ seeding' = FALSE /\ step' = 0
    /\ left' = DOMAIN resolution /\ extended' = disk /\ memo' = assignments
    /\ UNCHANGED <<files, bounds, half, torn>>

\* A company that is the FTSE 100 master's or was rejected is passed over.
PassOver ==
    /\ pc = "build" /\ left # {} /\ ~Mintable(Min(left))
    /\ left' = left \ {Min(left)}
    /\ UNCHANGED <<files, pc, seeding, extended, memo, step, bounds, half, torn>>

\* Any other has the id it was assigned, or a new one; it is added unless the master that
\* was read has it.
Mint ==
    /\ pc = "build" /\ left # {} /\ Mintable(Min(left))
    /\ LET c == Min(left)
           e == resolution[c]
           id == AssignedId(c)
       IN  /\ left' = left \ {c}
           /\ memo' = [x \in DOMAIN memo \cup {c} |-> IF x = c THEN id ELSE memo[x]]
           /\ extended' =
                IF id \in disk.securities THEN extended
                ELSE [extended EXCEPT !.entities = @ \cup {id}, !.securities = @ \cup {id},
                                      !.listings = @ \cup {id},
                                      !.identifiers = @ \cup Identifiers(e, id, ProviderCodes(extended))]
    /\ UNCHANGED <<files, pc, seeding, step, bounds, half, torn>>

\* An inconsistent master is raised before anything is written.
Validate ==
    /\ pc = "build" /\ left = {}
    /\ IF Consistent(extended)
       THEN pc' = "write" /\ UNCHANGED <<extended, memo>>
       ELSE pc' = "idle" /\ extended' = <<>> /\ memo' = <<>>
    /\ UNCHANGED <<files, seeding, left, step, bounds, half, torn>>

\* The next table's temporary file replaces the table.
Rename ==
    /\ pc = "write"
    /\ step' = step + 1
    /\ disk' = [disk EXCEPT ![Tables[step + 1]] = extended[Tables[step + 1]]]
    /\ half' = IF seeding THEN step' < Len(Tables) ELSE half
    /\ IF step' < Len(Tables) THEN UNCHANGED <<pc, extended>>
       ELSE pc' = (IF seeding THEN "idle" ELSE "assign") /\ extended' = <<>>
    /\ UNCHANGED <<resolution, assignments, universe, seeding, left, memo, bounds, torn>>

\* Mutant: the build ends without saving the ids it gave.
NothingSaved ==
    /\ pc = "assign" /\ pc' = "idle"
    /\ memo' = <<>>
    /\ UNCHANGED <<files, seeding, left, extended, step, bounds, half, torn>>

SaveAssignments ==
    /\ pc = "assign" /\ pc' = "idle"
    /\ assignments' = memo /\ memo' = <<>>
    /\ UNCHANGED <<resolution, disk, universe, seeding, left, extended, step, bounds, half, torn>>

Crash ==
    /\ pc # "idle" /\ crashes < MaxCrashes
    /\ pc' = "idle" /\ crashes' = crashes + 1
    /\ torn' = (torn \/ (~seeding /\ step >= 2 /\ memo # assignments))
    /\ left' = {} /\ extended' = <<>> /\ memo' = <<>>
    /\ UNCHANGED <<files, seeding, step, seeds, edits, half>>

\* build_membership: the companies whose security is known, the others are skipped;
\* an owned company resolves to the FTSE 100 security.
BuildMembership ==
    /\ pc = "idle" /\ Consistent(disk)
    /\ universe' =
          {<<c, assignments[c]>> : c \in {x \in DOMAIN resolution \cap DOMAIN assignments :
                                             ~resolution[x].owned /\ assignments[x] \in disk.securities}}
    /\ UNCHANGED <<resolution, disk, assignments, process, bounds, half, torn>>

MasterNext ==
    \/ \E c \in Companies, e \in Entries : Resolve(c, e)
    \/ Reseed \/ BuildMaster \/ PassOver \/ Mint \/ Validate
    \/ Rename \/ SaveAssignments \/ Crash \/ BuildMembership

MasterSpec == MasterInit /\ [][MasterNext]_mastering

-----------------------------------------------------------------------------
\* The master on disk loads at every moment, in the middle of an extension and after a
\* crash in it: tables are replaced in the order in which they refer to each other, and
\* a build only adds.  (The FTSE 100 step replaces; its interruption leaves a master that
\* does not load until the step is repeated.)
AlwaysLoads == half \/ Consistent(disk)

\* A company has one security and keeps it, however often the resolution is revised, the
\* build repeated or interrupted and the FTSE 100 master rebuilt in between, unless a crash
\* came after tables were replaced and before the ids were saved.  So its spells stay with the
\* security its prices are stored under.
OneSecurityACompany ==
    /\ ~torn /\ pc = "idle" =>
          \A s \in disk.securities : s > 0 => \E c \in DOMAIN assignments : assignments[c] = s
    /\ \A p \in universe : p[1] \in DOMAIN assignments /\ assignments[p[1]] = p[2]
=============================================================================
