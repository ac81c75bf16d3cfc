------------------------ MODULE UniverseBuildProofs -------------------------
(***************************************************************************)
(* Theorems about the builders of the FTSE universe, for any companies,    *)
(* codes, securities, windows and days, and for any number of revisions,   *)
(* crashes and repetitions: the master on disk loads and a company keeps   *)
(* its security (MasterBuild), a day is stored from the code it belongs to *)
(* (Backfill), and no acquisition is made up (Lifecycle).                  *)
(***************************************************************************)
EXTENDS MasterBuild, Backfill, Lifecycle, TLAPS, FiniteSetTheorems, WellFoundedInduction

-----------------------------------------------------------------------------
(***************************************************************************)
(* The extension of the master (trp/universe/ftse250_build.py).            *)
(***************************************************************************)
IsMaster(m) ==
    m = [entities |-> m.entities, securities |-> m.securities, listings |-> m.listings,
         status_periods |-> m.status_periods, identifiers |-> m.identifiers]

\* Every table of the first is in the table of the second.
Nested(m, n) ==
    /\ m.entities \subseteq n.entities /\ m.securities \subseteq n.securities
    /\ m.listings \subseteq n.listings /\ m.status_periods \subseteq n.status_periods
    /\ m.identifiers \subseteq n.identifiers

\* The first k tables of m are n's.
Written(m, n, k) == \A i \in 1 .. k : m[Tables[i]] = n[Tables[i]]

\* Table k + 1 is replaced.
Replaced(m, n, k) == [m EXCEPT ![Tables[k + 1]] = n[Tables[k + 1]]]

\* A build is running, from its reading of the files to its last write.
Extending == pc \in {"build", "assign"} \/ (pc = "write" /\ ~seeding)

Given(ids, s) == \E c \in DOMAIN ids : ids[c] = s

MasterShape ==
    /\ IsMaster(disk) /\ step \in 0 .. 5 /\ seeds \in Nat
    /\ pc \in {"idle", "build", "write", "assign"}
    /\ pc \in {"build", "write"} => IsMaster(extended)
    /\ pc = "build" => ~seeding /\ step = 0
    /\ pc = "write" => step < 5
    /\ pc = "assign" => ~seeding /\ step = 5

\* What is on disk loads, and so does what is being written; an extension adds to what it
\* replaces, the FTSE 100 step has put half a master on disk once it has replaced a table.
LoadsInv ==
    /\ AlwaysLoads
    /\ pc = "build" => Consistent(disk) /\ Nested(disk, extended)
    /\ pc = "write" => Consistent(extended) /\ Written(disk, extended, step)
    /\ pc = "write" /\ ~seeding => Consistent(disk) /\ Nested(disk, extended)
    /\ pc = "write" /\ seeding /\ step > 0 => half

\* What the process knows of ids goes on from what is assigned; every security of a company is
\* known by its id, to the file or to the process that has not stored the file yet.
IdsInv ==
    /\ Extending => \A c \in DOMAIN assignments : c \in DOMAIN memo /\ memo[c] = assignments[c]
    /\ pc = "build" \/ (pc = "write" /\ ~seeding) =>
          \A s \in extended.securities : s > 0 => s \in disk.securities \/ Given(memo, s)
    /\ pc = "write" /\ seeding => \A s \in extended.securities : ~(s > 0)
    /\ ~torn => \A s \in disk.securities : s > 0 =>
          Given(assignments, s) \/ (Extending /\ step >= 2 /\ Given(memo, s))
    /\ \A p \in universe : p[1] \in DOMAIN assignments /\ assignments[p[1]] = p[2]

MasterInv == MasterShape /\ LoadsInv /\ IdsInv

-----------------------------------------------------------------------------
\* A master with one security and one identifier is consistent.
LEMMA SeededLoads ==
    ASSUME NEW id
    PROVE  IsMaster(Seeded(id)) /\ Consistent(Seeded(id)) /\ Seeded(id).securities = {id}
BY DEF Seeded, IsMaster, Consistent, Conflicting

\* One more table is replaced, whatever the two masters have in common.
LEMMA OneMoreTable ==
    ASSUME NEW old, NEW new, IsMaster(old), IsMaster(new), NEW k \in 0 .. 4, Written(old, new, k)
    PROVE  /\ IsMaster(Replaced(old, new, k)) /\ Written(Replaced(old, new, k), new, k + 1)
           /\ Replaced(old, new, k).securities = IF k = 1 THEN new.securities ELSE old.securities
           /\ k = 4 => Replaced(old, new, k) = new
<1> DEFINE later == Replaced(old, new, k)
<1>1. CASE k = 0
  <2>1. later = [old EXCEPT !["entities"] = new["entities"]]
    BY <1>1 DEF Tables, Replaced
  <2>2. IsMaster(later) /\ later.entities = new.entities /\ later.securities = old.securities
    BY <2>1 DEF IsMaster
  <2>3. Written(later, new, k + 1)
    BY <1>1, <2>2 DEF Written, Tables
  <2> QED BY <1>1, <2>2, <2>3
<1>2. CASE k = 1
  <2>1. later = [old EXCEPT !["securities"] = new["securities"]]
    BY <1>2 DEF Tables, Replaced
  <2>2. /\ IsMaster(later) /\ later.entities = old.entities /\ later.securities = new.securities
    BY <2>1 DEF IsMaster
  <2>3. old.entities = new.entities
    BY <1>2 DEF Written, Tables
  <2>4. Written(later, new, k + 1)
    BY <1>2, <2>2, <2>3 DEF Written, Tables
  <2> QED BY <1>2, <2>2, <2>4
<1>3. CASE k = 2
  <2>1. later = [old EXCEPT !["listings"] = new["listings"]]
    BY <1>3 DEF Tables, Replaced
  <2>2. /\ IsMaster(later) /\ later.entities = old.entities /\ later.securities = old.securities
        /\ later.listings = new.listings
    BY <2>1 DEF IsMaster
  <2>3. old.entities = new.entities /\ old.securities = new.securities
    BY <1>3 DEF Written, Tables
  <2>4. Written(later, new, k + 1)
    BY <1>3, <2>2, <2>3 DEF Written, Tables
  <2> QED BY <1>3, <2>2, <2>4
<1>4. CASE k = 3
  <2>1. later = [old EXCEPT !["status_periods"] = new["status_periods"]]
    BY <1>4 DEF Tables, Replaced
  <2>2. /\ IsMaster(later) /\ later.entities = old.entities /\ later.securities = old.securities
        /\ later.listings = old.listings /\ later.status_periods = new.status_periods
    BY <2>1 DEF IsMaster
  <2>3. old.entities = new.entities /\ old.securities = new.securities /\ old.listings = new.listings
    BY <1>4 DEF Written, Tables
  <2>4. Written(later, new, k + 1)
    BY <1>4, <2>2, <2>3 DEF Written, Tables
  <2> QED BY <1>4, <2>2, <2>4
<1>5. CASE k = 4
  <2>1. later = [old EXCEPT !["identifiers"] = new["identifiers"]]
    BY <1>5 DEF Tables, Replaced
  <2>2. /\ IsMaster(later) /\ later.entities = old.entities /\ later.securities = old.securities
        /\ later.listings = old.listings /\ later.status_periods = old.status_periods
        /\ later.identifiers = new.identifiers
    BY <2>1 DEF IsMaster
  <2>3. /\ old.entities = new.entities /\ old.securities = new.securities
        /\ old.listings = new.listings /\ old.status_periods = new.status_periods
    BY <1>5 DEF Written, Tables
  <2>4. Written(later, new, k + 1)
    BY <1>5, <2>2, <2>3 DEF Written, Tables
  <2>5. later = new
    BY <2>2, <2>3 DEF IsMaster
  <2> QED BY <1>5, <2>2, <2>4, <2>5
<1> QED BY <1>1, <1>2, <1>3, <1>4, <1>5

\* An extension loads after every replacement: what a table refers to was replaced before it.
LEMMA ExtensionLoads ==
    ASSUME NEW old, NEW new, IsMaster(old), IsMaster(new), NEW k \in 0 .. 4, Written(old, new, k),
           Consistent(old), Consistent(new), Nested(old, new)
    PROVE  Consistent(Replaced(old, new, k)) /\ Nested(Replaced(old, new, k), new)
<1> DEFINE later == Replaced(old, new, k)
<1>1. CASE k = 0
  <2>1. later = [old EXCEPT !["entities"] = new["entities"]]
    BY <1>1 DEF Tables, Replaced
  <2> QED BY <2>1 DEF IsMaster, Consistent, Nested
<1>2. CASE k = 1
  <2>1. later = [old EXCEPT !["securities"] = new["securities"]]
    BY <1>2 DEF Tables, Replaced
  <2>2. old.entities = new.entities
    BY <1>2 DEF Written, Tables
  <2> QED BY <2>1, <2>2 DEF IsMaster, Consistent, Nested
<1>3. CASE k = 2
  <2>1. later = [old EXCEPT !["listings"] = new["listings"]]
    BY <1>3 DEF Tables, Replaced
  <2>2. old.securities = new.securities
    BY <1>3 DEF Written, Tables
  <2> QED BY <2>1, <2>2 DEF IsMaster, Consistent, Nested
<1>4. CASE k = 3
  <2>1. later = [old EXCEPT !["status_periods"] = new["status_periods"]]
    BY <1>4 DEF Tables, Replaced
  <2> QED BY <2>1 DEF IsMaster, Consistent, Nested
<1>5. CASE k = 4
  <2>1. later = new
    BY <1>5, OneMoreTable
  <2> QED BY <2>1 DEF Nested
<1> QED BY <1>1, <1>2, <1>3, <1>4, <1>5

-----------------------------------------------------------------------------
LEMMA MasterInitially == MasterInit => MasterInv
<1> SUFFICES ASSUME MasterInit PROVE MasterInv
  OBVIOUS
<1>1. IsMaster(disk) /\ Consistent(disk) /\ disk.securities = {-1}
  BY SeededLoads DEF MasterInit, MasterTables
<1> QED
  BY <1>1 DEF MasterInit, MasterTables, MasterInv, MasterShape, LoadsInv, IdsInv, AlwaysLoads, Extending

\* The curator and the next reader of the files leave them alone.
LEMMA ReadersKeep ==
    ASSUME MasterInv, (\E c \in Companies, e \in Entries : Resolve(c, e)) \/ BuildMembership
    PROVE  MasterInv'
<1>1. UNCHANGED <<disk, assignments, process, seeds, half, torn>>
  BY DEF Resolve, BuildMembership, bounds
<1>2. UNCHANGED <<disk, assignments, pc, seeding, left, extended, memo, step, seeds, half, torn>>
  BY <1>1 DEF process
<1>3. \A p \in universe' : p[1] \in DOMAIN assignments /\ assignments[p[1]] = p[2]
  <2>1. CASE universe' = universe
    BY <2>1 DEF MasterInv, IdsInv
  <2>2. CASE BuildMembership
    <3>1. \A p \in universe' : \E c \in DOMAIN assignments : p = <<c, assignments[c]>>
      BY <2>2 DEF BuildMembership
    <3> QED BY <3>1
  <2> QED BY <2>1, <2>2 DEF Resolve
<1> QED
  BY <1>2, <1>3 DEF MasterInv, MasterShape, LoadsInv, IdsInv, AlwaysLoads, Extending

LEMMA ReseedKeeps == ASSUME MasterInv, Reseed PROVE MasterInv'
<1>1. /\ UNCHANGED <<resolution, disk, assignments, universe, memo, half, torn>>
      /\ pc = "idle" /\ pc' = "write" /\ seeding' = TRUE /\ step' = 0
      /\ seeds' = seeds + 1 /\ extended' = Seeded(-(seeds + 1))
  BY DEF Reseed, files
<1>2. /\ IsMaster(extended') /\ Consistent(extended') /\ extended'.securities = {-(seeds + 1)}
  BY <1>1, SeededLoads
<1>3. seeds \in Nat
  BY DEF MasterInv, MasterShape
<1>4. MasterShape'
  BY <1>1, <1>2, <1>3 DEF MasterInv, MasterShape
<1>5. LoadsInv'
  BY <1>1, <1>2 DEF MasterInv, LoadsInv, AlwaysLoads, Written
<1>6. IdsInv'
  BY <1>1, <1>2, <1>3 DEF MasterInv, IdsInv, Extending
<1> QED BY <1>4, <1>5, <1>6 DEF MasterInv

LEMMA BuildMasterKeeps == ASSUME MasterInv, BuildMaster PROVE MasterInv'
<1>1. /\ UNCHANGED <<resolution, disk, assignments, universe, seeds, half, torn>>
      /\ pc = "idle" /\ pc' = "build" /\ seeding' = FALSE /\ step' = 0
      /\ extended' = disk /\ memo' = assignments /\ Consistent(disk)
  BY DEF BuildMaster, files, bounds
<1>2. MasterShape'
  BY <1>1 DEF MasterInv, MasterShape
<1>3. LoadsInv'
  BY <1>1 DEF LoadsInv, AlwaysLoads, Nested
<1>4. IdsInv'
  BY <1>1 DEF MasterInv, IdsInv, Extending
<1> QED BY <1>2, <1>3, <1>4 DEF MasterInv

LEMMA PassOverKeeps == ASSUME MasterInv, PassOver PROVE MasterInv'
<1>1. UNCHANGED <<disk, assignments, universe, pc, seeding, extended, memo, step, seeds, half, torn>>
  BY DEF PassOver, files, bounds
<1> QED
  BY <1>1 DEF MasterInv, MasterShape, LoadsInv, IdsInv, AlwaysLoads, Extending

\* The process knows every id it gives, and adds only to what it read.
LEMMA MintKeeps == ASSUME MasterInv, Mint PROVE MasterInv'
<1> DEFINE c == Min(left)
           id == AssignedId(c)
<1>1. /\ UNCHANGED <<disk, assignments, universe, pc, seeding, step, seeds, half, torn>> /\ pc = "build"
      /\ memo' = [x \in DOMAIN memo \cup {c} |-> IF x = c THEN id ELSE memo[x]]
      /\ \/ extended' = extended
         \/ \E new : extended' = [extended EXCEPT !.entities = @ \cup {id}, !.securities = @ \cup {id},
                                                  !.listings = @ \cup {id}, !.identifiers = @ \cup new]
  BY DEF Mint, files, bounds
<1>2. IsMaster(extended) /\ ~seeding /\ step = 0 /\ Nested(disk, extended)
  BY <1>1 DEF MasterInv, MasterShape, LoadsInv
<1>3. /\ IsMaster(extended') /\ Nested(extended, extended')
      /\ extended'.securities \subseteq extended.securities \cup {id}
  <2>1. CASE extended' = extended
    BY <1>2, <2>1 DEF Nested
  <2>2. ASSUME NEW new,
               extended' = [extended EXCEPT !.entities = @ \cup {id}, !.securities = @ \cup {id},
                                            !.listings = @ \cup {id}, !.identifiers = @ \cup new]
        PROVE  /\ IsMaster(extended') /\ Nested(extended, extended')
               /\ extended'.securities \subseteq extended.securities \cup {id}
    <3> HIDE DEF id
    <3> QED BY <1>2, <2>2 DEF IsMaster, Nested
  <2> QED BY <1>1, <2>1, <2>2
<1>4. \A x \in DOMAIN memo : x \in DOMAIN memo' /\ memo'[x] = memo[x]
  <2>1. c \in DOMAIN memo => id = memo[c]
    BY DEF AssignedId
  <2> HIDE DEF c, id
  <2> QED BY <1>1, <2>1
<1>5. Given(memo', id)
  <2> HIDE DEF c, id
  <2>1. c \in DOMAIN memo' /\ memo'[c] = id
    BY <1>1
  <2> QED BY <2>1 DEF Given
<1> HIDE DEF c, id
<1>6. MasterShape'
  BY <1>1, <1>3 DEF MasterInv, MasterShape
<1>7. LoadsInv'
  BY <1>1, <1>2, <1>3 DEF MasterInv, LoadsInv, AlwaysLoads, Nested
<1>8. ASSUME NEW s, Given(memo, s) PROVE Given(memo', s)
  BY <1>4, <1>8 DEF Given
<1>9. IdsInv'
  <2>1. \A x \in DOMAIN assignments : x \in DOMAIN memo' /\ memo'[x] = assignments[x]
    BY <1>1, <1>4 DEF MasterInv, IdsInv, Extending
  <2>2. \A s \in extended'.securities : s > 0 => s \in disk.securities \/ Given(memo', s)
    BY <1>1, <1>3, <1>5, <1>8 DEF MasterInv, IdsInv
  <2>3. ~torn => \A s \in disk.securities : s > 0 => Given(assignments, s)
    BY <1>2 DEF MasterInv, IdsInv
  <2> QED BY <1>1, <1>2, <2>1, <2>2, <2>3 DEF MasterInv, IdsInv
<1> QED BY <1>6, <1>7, <1>9 DEF MasterInv

LEMMA ValidateKeeps == ASSUME MasterInv, Validate PROVE MasterInv'
<1>1. /\ UNCHANGED <<disk, assignments, universe, seeding, step, seeds, half, torn>> /\ pc = "build"
      /\ \/ Consistent(extended) /\ pc' = "write" /\ UNCHANGED <<extended, memo>>
         \/ pc' = "idle"
  BY DEF Validate, files, bounds
<1>2. ~seeding /\ step = 0
  BY <1>1 DEF MasterInv, MasterShape
<1>3. MasterShape'
  BY <1>1, <1>2 DEF MasterInv, MasterShape
<1>4. LoadsInv'
  BY <1>1, <1>2 DEF MasterInv, LoadsInv, AlwaysLoads, Written
<1>5. IdsInv'
  BY <1>1, <1>2 DEF MasterInv, IdsInv, Extending
<1> QED BY <1>3, <1>4, <1>5 DEF MasterInv

\* A replaced table leaves a master that loads, or the FTSE 100 step's half of one.
LEMMA RenameKeeps == ASSUME MasterInv, Rename PROVE MasterInv'
<1>1. /\ UNCHANGED <<assignments, universe, seeding, memo, seeds, torn>> /\ pc = "write"
      /\ step' = step + 1
      /\ disk' = [disk EXCEPT ![Tables[step + 1]] = extended[Tables[step + 1]]]
      /\ half' = IF seeding THEN step' < 5 ELSE half
      /\ step' < 5 => UNCHANGED <<pc, extended>>
      /\ ~(step' < 5) => pc' = IF seeding THEN "idle" ELSE "assign"
  <2>1. Len(Tables) = 5
    BY DEF Tables
  <2> QED BY <2>1 DEF Rename, bounds
<1>2. /\ step \in 0 .. 4 /\ IsMaster(disk) /\ IsMaster(extended)
      /\ Consistent(extended) /\ Written(disk, extended, step)
  BY <1>1 DEF MasterInv, MasterShape, LoadsInv
<1>3. /\ IsMaster(disk') /\ Written(disk', extended, step + 1)
      /\ disk'.securities = IF step = 1 THEN extended.securities ELSE disk.securities
      /\ step = 4 => disk' = extended
  <2>1. disk' = Replaced(disk, extended, step)
    BY <1>1 DEF Replaced
  <2> QED BY <1>2, <2>1, OneMoreTable
<1>4. ~seeding => Consistent(disk') /\ Nested(disk', extended)
  <2> SUFFICES ASSUME ~seeding PROVE Consistent(disk') /\ Nested(disk', extended)
    OBVIOUS
  <2>1. Consistent(disk) /\ Nested(disk, extended)
    BY <1>1 DEF MasterInv, LoadsInv
  <2>2. disk' = Replaced(disk, extended, step)
    BY <1>1 DEF Replaced
  <2> QED BY <1>2, <2>1, <2>2, ExtensionLoads
<1>5. MasterShape'
  BY <1>1, <1>2, <1>3 DEF MasterInv, MasterShape
<1>6. LoadsInv'
  <2>1. AlwaysLoads'
    <3>1. CASE seeding /\ step < 4
      <4>1. step' < 5
        BY <1>1, <1>2, <3>1
      <4>2. half'
        BY <1>1, <3>1, <4>1, Zenon
      <4> QED BY <4>2 DEF AlwaysLoads
    <3>2. CASE step = 4
      <4>1. Consistent(disk')
        BY <1>2, <1>3, <3>2
      <4> QED BY <4>1 DEF AlwaysLoads
    <3>3. CASE ~seeding
      BY <1>4, <3>3 DEF AlwaysLoads
    <3> QED BY <1>2, <3>1, <3>2, <3>3
  <2>2. CASE step = 4
    BY <1>1, <2>1, <2>2 DEF LoadsInv
  <2>3. CASE step < 4
    <3>1. step' < 5 /\ UNCHANGED <<pc, extended>>
      BY <1>1, <1>2, <2>3
    <3>2. Written(disk', extended', step')
      BY <1>1, <1>3, <3>1
    <3> QED BY <1>1, <1>2, <1>4, <2>1, <3>1, <3>2 DEF LoadsInv
  <2> QED BY <1>2, <2>2, <2>3
<1>7. IdsInv'
  <2>1. Extending' => Extending
    BY <1>1, <1>2 DEF Extending
  <2>2. Extending' => \A c \in DOMAIN assignments' : c \in DOMAIN memo' /\ memo'[c] = assignments'[c]
    BY <1>1, <2>1 DEF MasterInv, IdsInv
  <2>3. pc' \notin {"write", "build"} \/ (step < 4 /\ UNCHANGED <<pc, extended>>)
    BY <1>1, <1>2
  <2>4. \A s \in extended.securities : s > 0 /\ ~seeding => s \in disk.securities \/ Given(memo, s)
    BY <1>1 DEF MasterInv, IdsInv
  <2>5. (pc' = "build" \/ (pc' = "write" /\ ~seeding')) =>
           \A s \in extended'.securities : s > 0 => s \in disk'.securities \/ Given(memo', s)
    BY <1>1, <1>3, <2>3, <2>4
  <2>6. pc' = "write" /\ seeding' => \A s \in extended'.securities : ~(s > 0)
    BY <1>1, <2>3 DEF MasterInv, IdsInv
  <2>7. ASSUME ~torn', NEW s \in disk'.securities, s > 0
        PROVE  Given(assignments', s) \/ (Extending' /\ step' >= 2 /\ Given(memo', s))
    <3>1. CASE seeding
      <4>1. s \in disk.securities
        BY <1>1, <1>3, <2>7, <3>1 DEF MasterInv, IdsInv
      <4> QED BY <1>1, <2>7, <3>1, <4>1 DEF MasterInv, IdsInv, Extending
    <3>2. CASE ~seeding
      <4>1. Extending'
        BY <1>1, <1>2, <3>2 DEF Extending
      <4>2. CASE s \in disk.securities
        BY <1>1, <1>2, <2>7, <4>1, <4>2 DEF MasterInv, IdsInv
      <4>3. CASE s \notin disk.securities
        <5>1. step = 1 /\ s \in extended.securities
          BY <1>3, <2>7, <4>3
        <5> QED BY <1>1, <2>4, <2>7, <3>2, <4>1, <4>3, <5>1
      <4> QED BY <4>2, <4>3
    <3> QED BY <3>1, <3>2
  <2>8. \A p \in universe' : p[1] \in DOMAIN assignments' /\ assignments'[p[1]] = p[2]
    BY <1>1 DEF MasterInv, IdsInv
  <2> QED BY <2>2, <2>5, <2>6, <2>7, <2>8 DEF IdsInv
<1> QED BY <1>5, <1>6, <1>7 DEF MasterInv

LEMMA SaveAssignmentsKeeps == ASSUME MasterInv, SaveAssignments PROVE MasterInv'
<1>1. /\ UNCHANGED <<disk, universe, seeding, step, seeds, half, torn>>
      /\ pc = "assign" /\ pc' = "idle" /\ assignments' = memo
  BY DEF SaveAssignments, bounds
<1>2. \A c \in DOMAIN assignments : c \in DOMAIN memo /\ memo[c] = assignments[c]
  BY <1>1 DEF MasterInv, IdsInv, Extending
<1>3. ASSUME NEW s, Given(assignments, s) PROVE Given(memo, s)
  BY <1>2, <1>3 DEF Given
<1>4. ~torn => \A s \in disk.securities : s > 0 => Given(assignments', s)
  BY <1>1, <1>3 DEF MasterInv, IdsInv
<1>5. \A p \in universe' : p[1] \in DOMAIN assignments' /\ assignments'[p[1]] = p[2]
  BY <1>1, <1>2 DEF MasterInv, IdsInv
<1>6. IdsInv'
  BY <1>1, <1>4, <1>5 DEF IdsInv, Extending
<1>7. MasterShape' /\ LoadsInv'
  BY <1>1 DEF MasterInv, MasterShape, LoadsInv, AlwaysLoads
<1> QED BY <1>6, <1>7 DEF MasterInv

\* A crash loses what the process knew; if that was more than the file says, it is torn.
LEMMA CrashKeeps == ASSUME MasterInv, Crash PROVE MasterInv'
<1>1. /\ UNCHANGED <<disk, assignments, universe, seeding, step, seeds, half>>
      /\ pc # "idle" /\ pc' = "idle"
      /\ torn' = (torn \/ (~seeding /\ step >= 2 /\ memo # assignments))
  BY DEF Crash, files
<1>2. ~torn' => \A s \in disk.securities : s > 0 => Given(assignments, s)
  <2>1. CASE memo = assignments
    BY <1>1, <2>1 DEF MasterInv, IdsInv
  <2>2. CASE ~(~seeding /\ step >= 2)
    BY <1>1, <2>2 DEF MasterInv, MasterShape, IdsInv, Extending
  <2> QED BY <1>1, <2>1, <2>2
<1>3. IdsInv'
  BY <1>1, <1>2 DEF MasterInv, IdsInv, Extending
<1>4. MasterShape' /\ LoadsInv'
  BY <1>1 DEF MasterInv, MasterShape, LoadsInv, AlwaysLoads
<1> QED BY <1>3, <1>4 DEF MasterInv

LEMMA MasterInvariance == MasterSpec => []MasterInv
<1>1. MasterInv /\ [MasterNext]_mastering => MasterInv'
  <2> SUFFICES ASSUME MasterInv, [MasterNext]_mastering PROVE MasterInv'
    OBVIOUS
  <2>1. CASE (\E c \in Companies, e \in Entries : Resolve(c, e)) \/ BuildMembership
    BY <2>1, ReadersKeep
  <2>2. CASE Reseed
    BY <2>2, ReseedKeeps
  <2>3. CASE BuildMaster
    BY <2>3, BuildMasterKeeps
  <2>4. CASE PassOver
    BY <2>4, PassOverKeeps
  <2>5. CASE Mint
    BY <2>5, MintKeeps
  <2>6. CASE Validate
    BY <2>6, ValidateKeeps
  <2>7. CASE Rename
    BY <2>7, RenameKeeps
  <2>8. CASE SaveAssignments
    BY <2>8, SaveAssignmentsKeeps
  <2>9. CASE Crash
    BY <2>9, CrashKeeps
  <2>10. CASE UNCHANGED mastering
    <3>1. UNCHANGED <<disk, assignments, universe, pc, seeding, left, extended, memo, step, seeds, half, torn>>
      BY <2>10 DEF mastering, files, process, bounds
    <3> QED BY <3>1 DEF MasterInv, MasterShape, LoadsInv, IdsInv, AlwaysLoads, Extending
  <2> QED BY <2>1, <2>2, <2>3, <2>4, <2>5, <2>6, <2>7, <2>8, <2>9, <2>10 DEF MasterNext
<1> QED BY <1>1, MasterInitially, PTL DEF MasterSpec

(***************************************************************************)
(* The master on disk loads in the middle of an extension and after a      *)
(* crash at any point of it, however many there are: write_security_master *)
(* replaces a table after those it refers to, and build_master only adds.  *)
(* Only the FTSE 100 step, which replaces, leaves a master that does not   *)
(* load, when it is interrupted and until it is repeated.                  *)
(***************************************************************************)
THEOREM MasterAlwaysLoads == MasterSpec => []AlwaysLoads
<1>1. MasterInv => AlwaysLoads
  BY DEF MasterInv, LoadsInv
<1> QED BY <1>1, MasterInvariance, PTL

(***************************************************************************)
(* However often the resolution is revised, the build repeated or killed   *)
(* and the FTSE 100 master rebuilt: every security minted for a company is *)
(* the one it is assigned, unless a kill came between the tables and the   *)
(* assignments, and the spells of the universe stay with it.               *)
(***************************************************************************)
THEOREM CompanyKeepsItsSecurity == MasterSpec => []OneSecurityACompany
<1>1. MasterInv => OneSecurityACompany
  BY DEF MasterInv, IdsInv, OneSecurityACompany, Extending, Given
<1> QED BY <1>1, MasterInvariance, PTL

-----------------------------------------------------------------------------
(***************************************************************************)
(* Backfill and canonicalisation (trp/universe/ftse_build.py).             *)
(***************************************************************************)
\* A non-empty set of naturals has a least element.
LEMMA LeastNumber ==
    ASSUME NEW T, T \subseteq Nat, T # {}
    PROVE  Min(T) \in T
<1> DEFINE Less == {p \in Nat \X Nat : p[1] < p[2]}
<1>1. IsWellFoundedOn(Less, Nat)
  BY NatLessThanWellFounded, Zenon DEF OpToRel
<1> HIDE DEF Less
<1>2. PICK x \in T : \A y \in T : ~(<<y, x>> \in Less)
  BY <1>1, WFMin
<1>3. \A y \in T : ~(y < x)
  BY <1>2 DEF Less
<1>4. \A y \in T : x =< y
  BY <1>3
<1> QED
  BY <1>4 DEF Min

BackfillInv ==
    /\ window \in [Codes -> Windows]
    /\ RightCode

\* A day's candidates are chosen from among those whose window holds it, if any does: of these
\* only the end of a window can be the day of another code.
LEMMA ChosenIsRightful ==
    ASSUME window \in [Codes -> Windows], NEW s, NEW d \in Days,
           Rightful(<<s, d>>) # {}, \A c \in CodesOf(s) : window[c].to # d
    PROVE  Chosen({c \in CodesOf(s) : d \in payload[c]}, d) \in Rightful(<<s, d>>)
<1> DEFINE candidates == {c \in CodesOf(s) : d \in payload[c]}
           windowed == {c \in candidates : InWindow(c, d)}
<1>1. CodesOf(s) \subseteq Codes /\ Codes \subseteq Nat /\ \A c \in CodesOf(s) : SecurityOf[c] = s
  BY BackfillAssumption DEF CodesOf
<1>2. Rightful(<<s, d>>) = {c \in candidates : Covers(window[c], d)}
  BY DEF Rightful
<1>3. \A c \in Codes : window[c].from \in Int /\ window[c].to \in Int /\ d \in Int
  BY BackfillAssumption
<1>4. ASSUME NEW c \in candidates PROVE Covers(window[c], d) => InWindow(c, d)
  <2>1. c \in Codes
    BY <1>1
  <2> QED BY <1>3, <2>1 DEF Covers, InWindow
<1>5. windowed # {} /\ windowed \subseteq Nat
  BY <1>1, <1>2, <1>4
<1>6. ASSUME NEW c \in windowed PROVE c \in Rightful(<<s, d>>)
  <2>1. c \in candidates /\ c \in Codes /\ InWindow(c, d) /\ SecurityOf[c] = s /\ window[c].to # d
    BY <1>1
  <2>2. CASE CodesOf(SecurityOf[c]) = {c}
    <3>1. \A o \in candidates : o = c
      BY <2>1, <2>2
    <3> QED BY <1>2, <3>1
  <2>3. CASE window[c].from <= d /\ (window[c].to = None \/ d <= window[c].to)
    <3>1. Covers(window[c], d)
      BY <1>3, <2>1, <2>3 DEF Covers
    <3> QED BY <1>2, <2>1, <3>1
  <2> QED BY <2>1, <2>2, <2>3 DEF InWindow
<1>7. Chosen(candidates, d) = Min(windowed)
  BY <1>5 DEF Chosen
<1>8. Min(windowed) \in windowed
  <2> HIDE DEF windowed
  <2> QED BY <1>5, LeastNumber
<1> QED BY <1>6, <1>7, <1>8

\* What was stored stays; what is stored anew once all prices are archived has its code.
LEMMA CanonicaliseKeeps == ASSUME BackfillInv, Canonicalise PROVE BackfillInv'
<1>1. UNCHANGED <<window, payload, raw>>
  BY DEF Canonicalise
<1>2. RightCode'
  <2> SUFFICES ASSUME ~early', NEW key \in DOMAIN stored', (Rightful(key) # {})',
                      (\A c \in CodesOf(key[1]) : window[c].to # key[2])'
               PROVE  (stored[key] \in Rightful(key))'
    BY DEF RightCode
  <2> DEFINE has(k) == {c \in CodesOf(k[1]) : Archived(c) /\ k[2] \in payload[c]}
             keys == {k \in {SecurityOf[c] : c \in Codes} \X Days : has(k) # {}}
  <2>1. /\ stored' = [k \in DOMAIN stored \cup keys |->
                        IF k \in DOMAIN stored THEN stored[k] ELSE Chosen(has(k), k[2])]
        /\ ~early /\ \A c \in Codes : Archived(c)
    BY DEF Canonicalise
  <2>2. (Rightful(key))' = Rightful(key) /\ Rightful(key) # {} /\ \A c \in CodesOf(key[1]) : window[c].to # key[2]
    BY <1>1 DEF Rightful, CodesOf
  <2>3. CASE key \in DOMAIN stored
    <3>1. stored[key] \in Rightful(key)
      BY <2>1, <2>2, <2>3 DEF BackfillInv, RightCode
    <3> QED BY <2>1, <2>2, <2>3, <3>1
  <2>4. CASE key \notin DOMAIN stored
    <3>1. key \in keys /\ stored'[key] = Chosen(has(key), key[2])
      BY <2>1, <2>4
    <3>2. PICK s \in {SecurityOf[c] : c \in Codes}, d \in Days : key = <<s, d>>
      BY <3>1
    <3>3. has(key) = {c \in CodesOf(s) : d \in payload[c]}
      BY <2>1, <3>2 DEF CodesOf
    <3>4. Chosen({c \in CodesOf(s) : d \in payload[c]}, d) \in Rightful(<<s, d>>)
      <4>1. Rightful(<<s, d>>) # {} /\ \A c \in CodesOf(s) : window[c].to # d
        BY <2>2, <3>2
      <4> QED BY <4>1, ChosenIsRightful DEF BackfillInv
    <3> QED BY <2>2, <3>1, <3>2, <3>3, <3>4
  <2> QED BY <2>3, <2>4
<1> QED BY <1>1, <1>2 DEF BackfillInv

LEMMA BackfillInvariance == BackfillSpec => []BackfillInv
<1>1. BackfillInit => BackfillInv
  BY DEF BackfillInit, BackfillInv, RightCode
<1>2. BackfillInv /\ [BackfillNext]_backfilling => BackfillInv'
  <2> SUFFICES ASSUME BackfillInv, [BackfillNext]_backfilling PROVE BackfillInv'
    OBVIOUS
  <2>1. CASE Canonicalise
    BY <2>1, CanonicaliseKeeps
  <2>2. CASE UNCHANGED <<window, payload, stored, early>>
    BY <2>2 DEF BackfillInv, RightCode, Rightful, CodesOf
  <2> QED BY <2>1, <2>2 DEF BackfillNext, StartBackfill, Fetch, KillBackfill, backfilling
<1> QED BY <1>1, <1>2, PTL DEF BackfillSpec

(***************************************************************************)
(* Whatever the validity windows of a security's codes, the bars the       *)
(* provider has and the kills and repetitions of the backfill: a day is    *)
(* stored from a code to which it belongs, and from no other that has it   *)
(* too, but for the two cases RightCode names (canonicalise).              *)
(***************************************************************************)
THEOREM DaysFromTheirCode == BackfillSpec => []RightCode
<1>1. BackfillInv => RightCode
  BY DEF BackfillInv
<1> QED BY <1>1, BackfillInvariance, PTL

-----------------------------------------------------------------------------
(***************************************************************************)
(* Delisting records (trp/canonical/lifecycle.py).                         *)
(***************************************************************************)
Gone(s) == phase[s] \notin {"unlisted", "listed"}

LifecycleShape ==
    /\ today \in Nat /\ phase \in [Securities -> {"unlisted", "listed"} \cup Exits]
    /\ last \in [Securities -> Nat]
    /\ \A r \in removals : r.day \in Nat /\ r.day <= today /\ r.reason \in Exits
    /\ \A r \in records : r.security \in Securities

\* Who was never listed has not printed, who is gone has.
PrintsInv ==
    \A s \in Securities :
        /\ last[s] <= today
        /\ phase[s] = "unlisted" => last[s] = 0
        /\ Gone(s) => last[s] # 0

\* Of two that share a ticker one is listed when the other's exit is out of reach.
TurnsInv ==
    \A s, t \in Securities :
        s # t /\ TickersOf[s] \cap TickersOf[t] # {} /\ phase[s] = "listed" =>
            /\ phase[t] # "listed"
            /\ phase[t] = "unlisted" \/ today - last[t] > MatchWindow

\* A removal of one of the security's tickers is its own, or of another holder so long ago or
\* so much later that it does not match the security's last print.
OutOfReach(r, s) ==
    \/ phase[s] = "unlisted"
    \/ phase[s] = r.reason
    \/ /\ phase[s] = "listed" /\ today - r.day > MatchWindow
       /\ last[s] = 0 \/ last[s] - r.day > MatchWindow
    \/ Gone(s) /\ ~Within(r, s)

RemovalsInv == \A r \in removals, s \in Securities : r.ticker \in TickersOf[s] => OutOfReach(r, s)

LifecycleInv ==
    LifecycleShape /\ PrintsInv /\ TurnsInv /\ RemovalsInv /\ ReasonsAreEvidence

\* A reason to record an acquisition is a removal that matches, and so the security's own.
LEMMA ReasonIsOwn ==
    ASSUME LifecycleInv, NEW s \in Securities, last[s] # 0, Reason(s) = "acquisition"
    PROVE  phase[s] \in AcquisitionReasons
<1> DEFINE adjudicated == TickersOf[s] \cap DOMAIN Adjudicated
<1>1. adjudicated = {}
  <2> SUFFICES ASSUME adjudicated # {} PROVE FALSE
    OBVIOUS
  <2> DEFINE ticker == CHOOSE t \in adjudicated : TRUE
  <2>1. ticker \in adjudicated
    OBVIOUS
  <2>2. Reason(s) = Adjudicated[ticker]
    BY DEF Reason
  <2> HIDE DEF ticker
  <2> QED BY <2>1, <2>2, LifecycleAssumption
<1>2. Cardinality(Matching(s)) = 1
  BY <1>1 DEF Reason
<1>3. Matching(s) # {}
  BY <1>2, FS_EmptySet
<1>4. PICK r \in removals : r.ticker \in TickersOf[s] /\ Within(r, s) /\ r.reason \in AcquisitionReasons
  BY <1>3 DEF Matching
<1>5. OutOfReach(r, s)
  BY <1>4 DEF LifecycleInv, RemovalsInv
<1>6. CASE phase[s] = "unlisted"
  BY <1>6 DEF LifecycleInv, PrintsInv
<1>7. CASE phase[s] = r.reason
  BY <1>4, <1>7
<1>8. CASE last[s] - r.day > MatchWindow
  <2>1. last[s] \in Nat /\ r.day \in Nat /\ MatchWindow \in Nat
    BY LifecycleAssumption DEF LifecycleInv, LifecycleShape
  <2>2. Distance(r.day, last[s]) = last[s] - r.day
    BY <1>8, <2>1 DEF Distance
  <2> QED BY <1>4, <1>8, <2>1, <2>2 DEF Within
<1> QED BY <1>4, <1>5, <1>6, <1>7, <1>8 DEF OutOfReach

LEMMA ListKeeps == ASSUME LifecycleInv, NEW s \in Securities, List(s) PROVE LifecycleInv'
<1>1. /\ phase[s] = "unlisted" /\ \A ticker \in TickersOf[s] : Free(ticker, s)
      /\ phase' = [phase EXCEPT ![s] = "listed"] /\ UNCHANGED <<today, last, removals, records>>
  BY DEF List
<1>2. phase \in [Securities -> {"unlisted", "listed"} \cup Exits] /\ last[s] = 0
  BY <1>1 DEF LifecycleInv, LifecycleShape, PrintsInv
<1>3. phase'[s] = "listed" /\ \A t \in Securities \ {s} : phase'[t] = phase[t]
  BY <1>1, <1>2
<1>4. LifecycleShape'
  BY <1>1, <1>2 DEF LifecycleInv, LifecycleShape
<1>5. PrintsInv'
  BY <1>1, <1>3 DEF LifecycleInv, PrintsInv, Gone
<1>6. ASSUME NEW t \in Securities, t # s, TickersOf[s] \cap TickersOf[t] # {}
      PROVE  phase[t] # "listed" /\ (phase[t] = "unlisted" \/ today - last[t] > MatchWindow)
  <2>1. PICK ticker \in TickersOf[s] : ticker \in TickersOf[t]
    BY <1>6
  <2>2. phase[t] # "listed" /\ (last[t] = 0 \/ today - last[t] > MatchWindow)
    BY <1>1, <1>6, <2>1 DEF Free
  <2> QED BY <2>2 DEF LifecycleInv, PrintsInv, Gone
<1>7. TurnsInv'
  <2> SUFFICES ASSUME NEW a \in Securities, NEW b \in Securities, a # b,
                      TickersOf[a] \cap TickersOf[b] # {}, phase'[a] = "listed"
               PROVE  phase'[b] # "listed" /\ (phase'[b] = "unlisted" \/ today' - last'[b] > MatchWindow)
    BY DEF TurnsInv
  <2>1. CASE a = s
    BY <1>1, <1>3, <1>6, <2>1
  <2>2. CASE a # s /\ b = s
    <3>1. TickersOf[s] \cap TickersOf[a] # {} /\ phase[a] = "listed"
      BY <1>3, <2>2
    <3> QED BY <1>6, <2>2, <3>1
  <2>3. CASE a # s /\ b # s
    BY <1>1, <1>3, <2>3 DEF LifecycleInv, TurnsInv
  <2> QED BY <2>1, <2>2, <2>3
<1>8. RemovalsInv'
  <2> SUFFICES ASSUME NEW r \in removals, NEW t \in Securities, r.ticker \in TickersOf[t]
               PROVE  OutOfReach(r, t)'
    BY <1>1 DEF RemovalsInv
  <2>1. CASE t = s
    <3>1. today - r.day > MatchWindow
      BY <1>1, <2>1 DEF Free
    <3> QED BY <1>1, <1>2, <1>3, <2>1, <3>1 DEF OutOfReach
  <2>2. CASE t # s
    BY <1>1, <1>3, <2>2 DEF LifecycleInv, RemovalsInv, OutOfReach, Gone, Within
  <2> QED BY <2>1, <2>2
<1>9. ReasonsAreEvidence'
  BY <1>1, <1>3 DEF LifecycleInv, LifecycleShape, ReasonsAreEvidence, AcquisitionReasons
<1> QED BY <1>4, <1>5, <1>7, <1>8, <1>9 DEF LifecycleInv

LEMMA NextDayKeeps == ASSUME LifecycleInv, NextDay PROVE LifecycleInv'
<1>1. /\ today' = today + 1 /\ UNCHANGED <<phase, removals, records>>
      /\ \E printing \in SUBSET {s \in Securities : phase[s] = "listed"} :
            last' = [s \in Securities |-> IF s \in printing THEN today' ELSE last[s]]
  BY DEF NextDay
<1>2. /\ today \in Nat /\ MatchWindow \in Nat /\ last \in [Securities -> Nat]
      /\ \A r \in removals : r.day \in Nat /\ r.day <= today
  BY LifecycleAssumption DEF LifecycleInv, LifecycleShape
<1>3. last' \in [Securities -> Nat]
  BY <1>1, <1>2
<1>4. \A s \in Securities : last'[s] = last[s] \/ (phase[s] = "listed" /\ last'[s] = today + 1)
  BY <1>1
<1>5. LifecycleShape'
  <2>1. \A r \in removals : r.day <= today + 1
    BY <1>2
  <2> QED BY <1>1, <1>2, <1>3, <2>1 DEF LifecycleInv, LifecycleShape
<1>6. PrintsInv'
  <2> SUFFICES ASSUME NEW s \in Securities
               PROVE  /\ last'[s] <= today + 1 /\ (phase[s] = "unlisted" => last'[s] = 0)
                      /\ (Gone(s) => last'[s] # 0)
    BY <1>1 DEF PrintsInv, Gone
  <2>1. last[s] \in Nat /\ last[s] <= today
    BY <1>2 DEF LifecycleInv, PrintsInv
  <2> QED BY <1>2, <1>4, <2>1 DEF LifecycleInv, PrintsInv, Gone
<1>7. TurnsInv'
  <2> SUFFICES ASSUME NEW s \in Securities, NEW t \in Securities, s # t,
                      TickersOf[s] \cap TickersOf[t] # {}, phase[s] = "listed"
               PROVE  /\ phase[t] # "listed"
                      /\ phase[t] = "unlisted" \/ (today + 1) - last'[t] > MatchWindow
    BY <1>1 DEF TurnsInv
  <2>1. phase[t] # "listed" /\ (phase[t] = "unlisted" \/ today - last[t] > MatchWindow)
    BY DEF LifecycleInv, TurnsInv
  <2>2. last'[t] = last[t] /\ last[t] \in Nat
    BY <1>2, <1>4, <2>1
  <2> QED BY <1>2, <2>1, <2>2
<1>8. RemovalsInv'
  <2> SUFFICES ASSUME NEW r \in removals, NEW s \in Securities, r.ticker \in TickersOf[s]
               PROVE  OutOfReach(r, s)'
    BY <1>1 DEF RemovalsInv
  <2>1. OutOfReach(r, s) /\ r.day \in Nat /\ last[s] \in Nat
    BY <1>2 DEF LifecycleInv, RemovalsInv
  <2>2. CASE phase[s] = "unlisted" \/ phase[s] = r.reason
    BY <1>1, <2>2 DEF OutOfReach
  <2>3. CASE phase[s] = "listed" /\ today - r.day > MatchWindow
             /\ (last[s] = 0 \/ last[s] - r.day > MatchWindow)
    <3>1. (today + 1) - r.day > MatchWindow
      BY <1>2, <2>1, <2>3
    <3>2. last'[s] = 0 \/ last'[s] - r.day > MatchWindow
      BY <1>4, <2>3, <3>1
    <3> QED BY <1>1, <2>3, <3>1, <3>2 DEF OutOfReach
  <2>4. CASE Gone(s) /\ ~Within(r, s)
    <3>1. last'[s] = last[s]
      BY <1>4, <2>4 DEF Gone
    <3> QED BY <1>1, <2>4, <3>1 DEF OutOfReach, Gone, Within
  <2> QED BY <2>1, <2>2, <2>3, <2>4 DEF OutOfReach
<1>9. ReasonsAreEvidence'
  BY <1>1 DEF LifecycleInv, ReasonsAreEvidence
<1> QED BY <1>5, <1>6, <1>7, <1>8, <1>9 DEF LifecycleInv

\* Whoever leaves is out of reach of all earlier removals, and nobody else is in reach of his.
LEMMA LeaveKeeps ==
    ASSUME LifecycleInv, NEW s \in Securities, NEW how \in Exits, Leave(s, how)
    PROVE  LifecycleInv'
<1>1. /\ phase[s] = "listed" /\ last[s] # 0 /\ phase' = [phase EXCEPT ![s] = how]
      /\ UNCHANGED <<today, last, records>>
      /\ \A r \in removals' : \/ r \in removals
                              \/ r.day = today /\ r.reason = how /\ r.ticker \in TickersOf[s]
  BY DEF Leave
<1>2. /\ phase \in [Securities -> {"unlisted", "listed"} \cup Exits] /\ how \notin {"unlisted", "listed"}
      /\ today \in Nat /\ MatchWindow \in Nat /\ last \in [Securities -> Nat]
      /\ \A r \in removals : r.day \in Nat /\ r.day <= today /\ r.reason \in Exits
  BY LifecycleAssumption DEF LifecycleInv, LifecycleShape, Exits
<1>3. phase'[s] = how /\ \A t \in Securities \ {s} : phase'[t] = phase[t]
  BY <1>1, <1>2
<1>4. LifecycleShape'
  <2>1. \A r \in removals' : r.day \in Nat /\ r.day <= today /\ r.reason \in Exits
    BY <1>1, <1>2
  <2> QED BY <1>1, <1>2, <2>1 DEF LifecycleInv, LifecycleShape
<1>5. PrintsInv'
  BY <1>1, <1>2, <1>3 DEF LifecycleInv, PrintsInv, Gone
<1>6. TurnsInv'
  BY <1>1, <1>2, <1>3 DEF LifecycleInv, TurnsInv
<1>7. RemovalsInv'
  <2> SUFFICES ASSUME NEW r \in removals', NEW t \in Securities, r.ticker \in TickersOf[t]
               PROVE  OutOfReach(r, t)'
    BY DEF RemovalsInv
  <2>1. CASE r \in removals /\ t = s
    <3>1. OutOfReach(r, s) /\ r.day \in Nat /\ last[s] \in Nat /\ r.reason \notin {"unlisted", "listed"}
      BY <1>2, <2>1 DEF LifecycleInv, RemovalsInv, Exits
    <3>2. last[s] - r.day > MatchWindow
      BY <1>1, <3>1 DEF OutOfReach, Gone
    <3>3. ~Within(r, s)
      BY <1>2, <3>1, <3>2 DEF Within, Distance
    <3> QED BY <1>1, <1>2, <1>3, <2>1, <3>3 DEF OutOfReach, Gone, Within
  <2>2. CASE r \in removals /\ t # s
    BY <1>1, <1>3, <2>2 DEF LifecycleInv, RemovalsInv, OutOfReach, Gone, Within
  <2>3. CASE r \notin removals /\ t = s
    BY <1>1, <1>3, <2>3 DEF OutOfReach
  <2>4. CASE r \notin removals /\ t # s
    <3>1. r.day = today /\ r.ticker \in TickersOf[s]
      BY <1>1, <2>4
    <3>2. phase[t] # "listed" /\ (phase[t] = "unlisted" \/ today - last[t] > MatchWindow)
      BY <1>1, <2>4, <3>1 DEF LifecycleInv, TurnsInv
    <3>3. CASE phase[t] = "unlisted"
      BY <1>3, <2>4, <3>3 DEF OutOfReach
    <3>4. CASE phase[t] # "unlisted"
      <4>1. ~Within(r, t)
        <5>1. last[t] \in Nat
          BY <1>2
        <5> QED BY <1>2, <3>1, <3>2, <3>4, <5>1 DEF Within, Distance
      <4> QED BY <1>1, <1>3, <2>4, <3>2, <3>4, <4>1 DEF OutOfReach, Gone, Within
    <3> QED BY <3>3, <3>4
  <2> QED BY <1>1, <2>1, <2>2, <2>3, <2>4
<1>8. ReasonsAreEvidence'
  BY <1>1, <1>3 DEF LifecycleInv, LifecycleShape, ReasonsAreEvidence, AcquisitionReasons
<1> QED BY <1>4, <1>5, <1>6, <1>7, <1>8 DEF LifecycleInv

LEMMA BuildKeeps == ASSUME LifecycleInv, Build PROVE LifecycleInv'
<1>1. /\ UNCHANGED <<today, phase, last, removals>>
      /\ \A r \in records' : \/ r \in records
                             \/ \E s \in Ended : r.security = s /\ r.reason = Reason(s)
  BY DEF Build
<1>2. \A s \in Ended : s \in Securities /\ last[s] # 0
  BY DEF Ended
<1>3. LifecycleShape'
  BY <1>1, <1>2 DEF LifecycleInv, LifecycleShape
<1>4. PrintsInv' /\ TurnsInv'
  BY <1>1 DEF LifecycleInv, PrintsInv, TurnsInv, Gone
<1>5. RemovalsInv'
  BY <1>1 DEF LifecycleInv, RemovalsInv, OutOfReach, Gone, Within
<1>6. ASSUME NEW r \in records', r.reason = "acquisition" PROVE phase[r.security] \in AcquisitionReasons
  <2>1. CASE r \in records
    BY <1>6, <2>1 DEF LifecycleInv, ReasonsAreEvidence
  <2>2. CASE \E s \in Ended : r.security = s /\ r.reason = Reason(s)
    BY <1>2, <1>6, <2>2, ReasonIsOwn
  <2> QED BY <1>1, <2>1, <2>2
<1>7. ReasonsAreEvidence'
  BY <1>1, <1>6 DEF ReasonsAreEvidence
<1> QED BY <1>3, <1>4, <1>5, <1>7 DEF LifecycleInv

LEMMA LifecycleInvariance == LifecycleSpec => []LifecycleInv
<1>1. LifecycleInit => LifecycleInv
  BY DEF LifecycleInit, LifecycleInv, LifecycleShape, PrintsInv, TurnsInv, RemovalsInv, ReasonsAreEvidence, Gone
<1>2. LifecycleInv /\ [LifecycleNext]_living => LifecycleInv'
  <2> SUFFICES ASSUME LifecycleInv, [LifecycleNext]_living PROVE LifecycleInv'
    OBVIOUS
  <2>1. CASE \E s \in Securities : List(s)
    BY <2>1, ListKeeps
  <2>2. CASE NextDay
    BY <2>2, NextDayKeeps
  <2>3. CASE \E s \in Securities, how \in Exits : Leave(s, how)
    BY <2>3, LeaveKeeps
  <2>4. CASE Build
    BY <2>4, BuildKeeps
  <2>5. CASE UNCHANGED living
    BY <2>5 DEF living, LifecycleInv, LifecycleShape, PrintsInv, TurnsInv, RemovalsInv, OutOfReach, Gone,
                Within, ReasonsAreEvidence
  <2> QED BY <2>1, <2>2, <2>3, <2>4, <2>5 DEF LifecycleNext
<1> QED BY <1>1, <1>2, PTL DEF LifecycleSpec

(***************************************************************************)
(* Whoever is recorded as acquired was acquired or merged, for any number  *)
(* of securities that take over each other's tickers, are suspended and    *)
(* leave with a curated removal or without one (build_delistings), as long *)
(* as a ticker is given again only after MATCH_WINDOW_DAYS.                *)
(***************************************************************************)
THEOREM NoAcquisitionMadeUp == LifecycleSpec => []ReasonsAreEvidence
<1>1. LifecycleInv => ReasonsAreEvidence
  BY DEF LifecycleInv
<1> QED BY <1>1, LifecycleInvariance, PTL
=============================================================================
