----------------------------- MODULE StoreProofs ------------------------------
(***************************************************************************)
(* Theorems about the part files, and about the two stores kept in them.   *)
(* Whatever crashed half-way, no row is stored twice and no file is        *)
(* rewritten; a read of a quiet price store can be repeated for ever.  The *)
(* lemmas about the write are about rows of any kind: they serve the       *)
(* fundamentals too, whose readers only see sound series of revisions, and *)
(* of which no renamed file changes an answer retroactively.  The last     *)
(* theorems are about what is read from the price store to be reported on: *)
(* a report stands, and its gaps are the sessions that lack a bar.         *)
(***************************************************************************)
EXTENDS PriceStore, Fundamentals, PriceValidation, TLAPS, FiniteSetTheorems, NaturalsInduction, WellFoundedInduction

\* One row per key
OnePerKey(rows) == \A r, q \in rows : r.key = q.key => r = q

Keyed(rows) == \A r \in rows : r.key \in Keys

Files == Years \X Nat

\* The parts of a year are numbered 0, 1, 2, ... without a gap above the last:
\* the name NextPart gives is free.
Numbered(rows) ==
    /\ DOMAIN parts \subseteq Files
    /\ IsFiniteSet(DOMAIN parts)
    /\ parts \in [DOMAIN parts -> SUBSET rows]
    /\ \A f \in DOMAIN parts : f[2] < NextPart(f[1])

\* A row is in a file of its own year: the anti-join looks at all it must.
Placed == \A f \in DOMAIN parts : \A r \in parts[f] : YearOf[r.key] = f[1]

\* What was found to be new is still new when its file is renamed.
StagedIsNew ==
    /\ OnePerKey(writer.new)
    /\ writer.new \subseteq writer.batch
    /\ \A f \in writer.staged :
          /\ f \in Files
          /\ f[2] = NextPart(f[1])
          /\ \A r \in RowsIn(writer.new, f[1]) : r.key \notin KeysOf(Dataset)

WriterOK(rows) ==
    \/ writer = Idle
    \/ /\ writer \in [pc : {"dedupe"}, batch : SUBSET rows]
       /\ OnePerKey(writer.batch)
    \/ /\ writer \in [pc : {"rename"}, batch : SUBSET rows, new : SUBSET rows,
                      staged : SUBSET Files, files : SUBSET Files]
       /\ StagedIsNew

\* A store of these rows, between any two steps of a write
StoreInv(rows) == Numbered(rows) /\ Placed /\ NoDuplicates /\ WriterOK(rows)

FilesKept == \A f \in DOMAIN parts : f \in DOMAIN parts' /\ parts'[f] = parts[f]

-----------------------------------------------------------------------------
\* The parts of a year are finitely many, so that they have a number.
LEMMA PartsFinite ==
    ASSUME IsFiniteSet(DOMAIN parts), NEW y
    PROVE  IsFiniteSet(PartsOf(y)) /\ NextPart(y) \in Nat
<1>1. PartsOf(y) \subseteq DOMAIN parts
  BY DEF PartsOf
<1>2. IsFiniteSet(PartsOf(y))
  BY <1>1, FS_Subset
<1>. QED  BY <1>2, FS_CardinalityType DEF NextPart

LEMMA EmptyStoreInv ==
    ASSUME NEW rows, EmptyStore
    PROVE  StoreInv(rows) /\ Dataset = {}
<1>1. parts = <<>> /\ DOMAIN parts = {} /\ writer = Idle
  BY DEF EmptyStore
<1>2. Numbered(rows)
  <2>1. IsFiniteSet(DOMAIN parts)
    BY <1>1, FS_EmptySet
  <2>2. parts \in [DOMAIN parts -> SUBSET rows]
    BY <1>1
  <2>. QED  BY <1>1, <2>1, <2>2 DEF Numbered
<1>3. Placed /\ NoDuplicates
  BY <1>1 DEF Placed, NoDuplicates
<1>4. WriterOK(rows)
  BY <1>1 DEF WriterOK
<1>. QED  BY <1>1, <1>2, <1>3, <1>4 DEF StoreInv, Dataset

\* What only looks at the files stands while they stand.
LEMMA PartsStand ==
    ASSUME NEW rows, Numbered(rows), Placed, NoDuplicates, parts' = parts
    PROVE  Numbered(rows)' /\ Placed' /\ NoDuplicates' /\ Dataset' = Dataset
  BY DEF Numbered, Placed, NoDuplicates, NextPart, PartsOf, Dataset

LEMMA StoreStutters ==
    ASSUME NEW rows, StoreInv(rows), parts' = parts, writer' = writer
    PROVE  StoreInv(rows)'
<1>1. Numbered(rows)' /\ Placed' /\ NoDuplicates'
  BY PartsStand DEF StoreInv
<1>2. WriterOK(rows)'
  BY DEF StoreInv, WriterOK, StagedIsNew, OnePerKey, NextPart, PartsOf, Dataset, RowsIn, KeysOf
<1>. QED  BY <1>1, <1>2 DEF StoreInv

LEMMA SubmitInv ==
    ASSUME NEW rows, StoreInv(rows), NEW batch, batch \subseteq rows, OnePerKey(batch), Submit(batch)
    PROVE  StoreInv(rows)'
<1>1. parts' = parts /\ writer' = [pc |-> "dedupe", batch |-> batch]
  BY DEF Submit
<1>2. Numbered(rows)' /\ Placed' /\ NoDuplicates'
  BY <1>1, PartsStand DEF StoreInv
<1>3. WriterOK(rows)'
  BY <1>1 DEF WriterOK, OnePerKey
<1>. QED  BY <1>2, <1>3 DEF StoreInv

\* NothingNew, Log and Crash leave the files and end the write.
LEMMA EndInv ==
    ASSUME NEW rows, StoreInv(rows), parts' = parts, writer' = Idle
    PROVE  StoreInv(rows)'
<1>1. Numbered(rows)' /\ Placed' /\ NoDuplicates'
  BY PartsStand DEF StoreInv
<1>2. WriterOK(rows)'
  BY DEF WriterOK
<1>. QED  BY <1>1, <1>2 DEF StoreInv

\* Stage: the anti-join over the years of the batch misses no stored key.
LEMMA StageInv ==
    ASSUME NEW rows, Keyed(rows), StoreInv(rows), Stage
    PROVE  /\ StoreInv(rows)'
           /\ \A r \in NewRows(writer.batch) : r.key \notin KeysOf(Dataset)
<1>. DEFINE new == NewRows(writer.batch)
            files == {<<y, NextPart(y)>> : y \in {YearOf[k] : k \in KeysOf(new)}}
<1>1. /\ parts' = parts
      /\ writer' = [pc |-> "rename", batch |-> writer.batch, new |-> new,
                    staged |-> files, files |-> files]
  BY DEF Stage
<1>2. writer.batch \subseteq rows /\ OnePerKey(writer.batch) /\ writer # Idle
  BY DEF Stage, StoreInv, WriterOK, Idle
<1>3. new \subseteq writer.batch /\ new \subseteq rows /\ OnePerKey(new)
  BY <1>2 DEF NewRows, OnePerKey
<1>4. files \subseteq Files
  <2>1. \A k \in KeysOf(new) : YearOf[k] \in Years
    BY <1>3, PartStoreAssumption DEF KeysOf, Keyed
  <2>2. \A y : NextPart(y) \in Nat
    BY PartsFinite DEF StoreInv, Numbered
  <2>. QED  BY <2>1, <2>2 DEF Files
<1>5. \A r \in new : r.key \notin KeysOf(Dataset)
  <2>. SUFFICES ASSUME NEW r \in new, NEW h \in DOMAIN parts, NEW q \in parts[h], q.key = r.key
                PROVE  FALSE
    BY DEF KeysOf, Dataset
  <2>. DEFINE touched == {YearOf[k] : k \in KeysOf(writer.batch)}
              existing == KeysOf(UNION {parts[f] : f \in UNION {PartsOf(y) : y \in touched}})
  <2>1. h[1] = YearOf[r.key]
    BY DEF StoreInv, Placed
  <2>2. r.key \in KeysOf(writer.batch)
    BY <1>3 DEF KeysOf
  <2>3. h[1] \in touched
    BY <2>1, <2>2
  <2>4. h \in PartsOf(h[1])
    BY DEF PartsOf
  <2>5. q.key \in existing
    BY <2>3, <2>4 DEF KeysOf
  <2>. QED  BY <2>5 DEF NewRows
<1>6. \A f \in files : f[2] = NextPart(f[1])
  OBVIOUS
<1>. HIDE DEF new, files
<1>7. Numbered(rows)' /\ Placed' /\ NoDuplicates'
  BY <1>1, PartsStand DEF StoreInv
<1>8. WriterOK(rows)'
  <2>1. writer' \in [pc : {"rename"}, batch : SUBSET rows, new : SUBSET rows,
                     staged : SUBSET Files, files : SUBSET Files]
    BY <1>1, <1>2, <1>3, <1>4
  <2>2. \A y : NextPart(y)' = NextPart(y)
    BY <1>1 DEF NextPart, PartsOf
  <2>3. Dataset' = Dataset
    BY <1>1 DEF Dataset
  <2>4. writer'.new = new /\ writer'.staged = files /\ writer'.batch = writer.batch
    BY <1>1
  <2>5. \A f \in files : \A r \in RowsIn(new, f[1]) : r.key \notin KeysOf(Dataset)
    BY <1>5 DEF RowsIn
  <2>6. \A f \in files : f[2] = NextPart(f[1])'
    BY <1>6, <2>2
  <2>7. \A f \in files : \A r \in RowsIn(new, f[1]) : r.key \notin KeysOf(Dataset')
    BY <2>3, <2>5
  <2>8. StagedIsNew'
    BY <1>3, <1>4, <2>4, <2>6, <2>7 DEF StagedIsNew, OnePerKey, RowsIn, KeysOf
  <2>. QED  BY <2>1, <2>8 DEF WriterOK
<1>. QED  BY <1>5, <1>7, <1>8 DEF StoreInv, new

\* Rename: the name is free, the bars of the file are new, and what remains
\* staged belongs to other years.
LEMMA RenameInv ==
    ASSUME NEW rows, StoreInv(rows), Rename
    PROVE  /\ StoreInv(rows)' /\ FilesKept
           /\ \E f \in writer.staged : Dataset' = Dataset \cup RowsIn(writer.new, f[1])
           /\ writer'.new = writer.new /\ writer'.batch = writer.batch
           /\ writer.new \subseteq writer.batch /\ writer.batch \subseteq rows
           /\ writer.pc = "rename" /\ writer'.pc = "rename"
<1>1. PICK f \in writer.staged :
          /\ parts' = [g \in DOMAIN parts \cup {f} |->
                         IF g = f THEN RowsIn(writer.new, f[1]) ELSE parts[g]]
          /\ writer' = [writer EXCEPT !.staged = @ \ {f}]
  BY DEF Rename
<1>. DEFINE added == RowsIn(writer.new, f[1])
<1>2. /\ writer \in [pc : {"rename"}, batch : SUBSET rows, new : SUBSET rows,
                     staged : SUBSET Files, files : SUBSET Files]
      /\ StagedIsNew
      /\ writer # Idle
  BY DEF Rename, StoreInv, WriterOK, Idle
<1>3. /\ f \in Files /\ f[2] = NextPart(f[1])
      /\ \A r \in added : r.key \notin KeysOf(Dataset)
  BY <1>2 DEF StagedIsNew
<1>4. \A y : IsFiniteSet(PartsOf(y)) /\ NextPart(y) \in Nat
  BY PartsFinite DEF StoreInv, Numbered
<1>5. f \notin DOMAIN parts
  BY <1>3, <1>4 DEF StoreInv, Numbered
<1>6. /\ DOMAIN parts' = DOMAIN parts \cup {f}
      /\ parts'[f] = added
      /\ \A g \in DOMAIN parts : parts'[g] = parts[g]
  BY <1>1, <1>5
<1>7. added \subseteq rows /\ OnePerKey(added) /\ \A r \in added : YearOf[r.key] = f[1]
  BY <1>2 DEF RowsIn, StagedIsNew, OnePerKey
<1>8. Dataset' = Dataset \cup added
  BY <1>6 DEF Dataset
<1>9. /\ \A y : y # f[1] => NextPart(y)' = NextPart(y)
      /\ NextPart(f[1])' = NextPart(f[1]) + 1
  <2>1. \A y : y # f[1] => PartsOf(y)' = PartsOf(y)
    BY <1>6 DEF PartsOf
  <2>2. PartsOf(f[1])' = PartsOf(f[1]) \cup {f} /\ f \notin PartsOf(f[1])
    BY <1>5, <1>6 DEF PartsOf
  <2>3. Cardinality(PartsOf(f[1]) \cup {f}) = Cardinality(PartsOf(f[1])) + 1
    BY <1>4, <2>2, FS_AddElement
  <2>. QED  BY <2>1, <2>2, <2>3 DEF NextPart
<1>. HIDE DEF added
<1>10. Numbered(rows)'
  <2>1. DOMAIN parts' \subseteq Files
    BY <1>3, <1>6 DEF StoreInv, Numbered
  <2>2. IsFiniteSet(DOMAIN parts')
    BY <1>6, FS_AddElement DEF StoreInv, Numbered
  <2>3. parts' \in [DOMAIN parts' -> SUBSET rows]
    BY <1>1, <1>6, <1>7 DEF StoreInv, Numbered
  <2>4. ASSUME NEW g \in DOMAIN parts'
        PROVE  g[2] < NextPart(g[1])'
    <3>1. CASE g = f
      BY <3>1, <1>3, <1>4, <1>9
    <3>2. CASE g \in DOMAIN parts
      <4>1. g[2] < NextPart(g[1]) /\ g[2] \in Nat
        BY <3>2 DEF StoreInv, Numbered, Files
      <4>. QED  BY <4>1, <1>4, <1>9
    <3>. QED  BY <3>1, <3>2, <1>6
  <2>. QED  BY <2>1, <2>2, <2>3, <2>4 DEF Numbered, NextPart, PartsOf
<1>11. Placed'
  BY <1>6, <1>7 DEF StoreInv, Placed
<1>12. NoDuplicates'
  <2>1. \A g \in DOMAIN parts : \A q \in parts[g] : q.key \in KeysOf(Dataset)
    BY DEF KeysOf, Dataset
  <2>. SUFFICES ASSUME NEW g \in DOMAIN parts', NEW h \in DOMAIN parts',
                       NEW r \in parts'[g], NEW q \in parts'[h], r.key = q.key
                PROVE  g = h /\ r = q
    BY DEF NoDuplicates
  <2>2. CASE g = f /\ h = f
    BY <2>2, <1>6, <1>7 DEF OnePerKey
  <2>3. CASE g = f /\ h \in DOMAIN parts
    BY <2>1, <2>3, <1>3, <1>6 DEF added
  <2>4. CASE g \in DOMAIN parts /\ h = f
    BY <2>1, <2>4, <1>3, <1>6 DEF added
  <2>5. CASE g \in DOMAIN parts /\ h \in DOMAIN parts
    BY <2>5, <1>6 DEF StoreInv, NoDuplicates
  <2>. QED  BY <2>2, <2>3, <2>4, <2>5, <1>6
<1>13. WriterOK(rows)'
  <2>1. /\ writer' \in [pc : {"rename"}, batch : SUBSET rows, new : SUBSET rows,
                        staged : SUBSET Files, files : SUBSET Files]
        /\ writer'.new = writer.new /\ writer'.batch = writer.batch
        /\ writer'.staged = writer.staged \ {f}
    BY <1>1, <1>2
  <2>2. ASSUME NEW g \in writer.staged \ {f}
        PROVE  /\ g \in Files
               /\ g[2] = NextPart(g[1])'
               /\ \A r \in RowsIn(writer.new, g[1]) : r.key \notin KeysOf(Dataset')
    <3>1. /\ g \in Files /\ g[2] = NextPart(g[1])
          /\ \A r \in RowsIn(writer.new, g[1]) : r.key \notin KeysOf(Dataset)
      BY <1>2 DEF StagedIsNew
    <3>2. g[1] # f[1]
      BY <3>1, <1>3 DEF Files
    <3>3. ASSUME NEW r \in RowsIn(writer.new, g[1]), r.key \in KeysOf(Dataset')
          PROVE  FALSE
      <4>1. PICK q \in Dataset' : q.key = r.key
        BY <3>3 DEF KeysOf
      <4>2. q \in added
        BY <4>1, <3>1, <3>3, <1>8 DEF KeysOf
      <4>. QED  BY <4>1, <4>2, <3>2, <1>7 DEF RowsIn
    <3>. QED  BY <3>1, <3>2, <3>3, <1>9
  <2>3. StagedIsNew'
    BY <2>1, <2>2, <1>2 DEF StagedIsNew, OnePerKey, RowsIn, KeysOf
  <2>. QED  BY <2>1, <2>3 DEF WriterOK
<1>14. /\ writer'.new = writer.new /\ writer'.batch = writer.batch
       /\ writer.new \subseteq writer.batch /\ writer.batch \subseteq rows
       /\ writer.pc = "rename" /\ writer'.pc = "rename"
  BY <1>1, <1>2 DEF StagedIsNew
<1>15. FilesKept
  BY <1>6 DEF FilesKept
<1>. QED  BY <1>8, <1>10, <1>11, <1>12, <1>13, <1>14, <1>15 DEF StoreInv, added

-----------------------------------------------------------------------------
(* The price store *)

Rows == [key : Keys, close : Closes, ingested : Nat]

\* A batch under way is younger than every read of a quiet store.
ReadsOK ==
    /\ clock \in Nat
    /\ \A r \in reads :
          /\ r.asOf \in Nat /\ r.asOf <= clock
          /\ r.quiet => /\ VisibleAsOf(r.asOf) = r.rows
                        /\ writer # Idle => \A b \in writer.batch : b.ingested > r.asOf

IInv == StoreInv(Rows) /\ ReadsOK

\* Begin: the batch has one bar per key, stamped after every read so far.
LEMMA BeginIInv ==
    ASSUME IInv, Begin
    PROVE  IInv'
<1>1. PICK keys \in SUBSET Keys \ {{}} : \E close \in [keys -> Closes] :
          Submit({[key |-> k, close |-> close[k], ingested |-> clock + 1] : k \in keys})
  BY DEF Begin
<1>2. PICK close \in [keys -> Closes] :
          Submit({[key |-> k, close |-> close[k], ingested |-> clock + 1] : k \in keys})
  BY <1>1
<1>. DEFINE batch == {[key |-> k, close |-> close[k], ingested |-> clock + 1] : k \in keys}
<1>3. clock \in Nat /\ clock' = clock + 1 /\ reads' = reads
  BY DEF Begin, IInv, ReadsOK
<1>4. parts' = parts /\ writer' = [pc |-> "dedupe", batch |-> batch]
  BY <1>2 DEF Submit
<1>5. batch \subseteq Rows /\ OnePerKey(batch)
  BY <1>3 DEF Rows, OnePerKey
<1>6. Submit(batch)
  BY <1>2
<1>7. \A b \in batch : b.ingested = clock + 1
  OBVIOUS
<1>. HIDE DEF batch
<1>8. StoreInv(Rows)'
  BY <1>5, <1>6, SubmitInv DEF IInv, Rows
<1>9. ReadsOK'
  BY <1>3, <1>4, <1>7 DEF ReadsOK, IInv, VisibleAsOf, Dataset
<1>. QED  BY <1>8, <1>9 DEF IInv

\* Read: a read that is quiet has no batch under way.
LEMMA ReadIInv ==
    ASSUME IInv, Read
    PROVE  IInv'
<1>. DEFINE new == [asOf |-> clock + 1, rows |-> VisibleAsOf(clock + 1),
                    quiet |-> writer.pc = "idle"]
<1>1. clock \in Nat /\ clock' = clock + 1 /\ reads' = reads \cup {new}
  BY DEF Read, IInv, ReadsOK
<1>2. parts' = parts /\ writer' = writer
  BY DEF Read
<1>3. StoreInv(Rows)'
  BY <1>2, StoreStutters DEF IInv, Rows
<1>4. writer.pc = "idle" => writer = Idle
  BY DEF IInv, StoreInv, WriterOK
<1>5. new.asOf \in Nat /\ new.asOf <= clock'
  BY <1>1
<1>6. new.quiet => writer = Idle /\ VisibleAsOf(new.asOf) = new.rows
  BY <1>4
<1>7. \A a : VisibleAsOf(a)' = VisibleAsOf(a)
  BY <1>2 DEF VisibleAsOf, Dataset
<1>. HIDE DEF new
<1>8. ASSUME NEW r \in reads'
      PROVE  /\ r.asOf \in Nat /\ r.asOf <= clock'
             /\ r.quiet => /\ VisibleAsOf(r.asOf)' = r.rows
                           /\ writer' # Idle => \A b \in writer'.batch : b.ingested > r.asOf
  <2>1. CASE r = new
    BY <2>1, <1>2, <1>5, <1>6, <1>7
  <2>2. CASE r \in reads
    BY <2>2, <1>1, <1>2, <1>7 DEF IInv, ReadsOK
  <2>. QED  BY <2>1, <2>2, <1>1
<1>9. ReadsOK'
  BY <1>1, <1>8 DEF ReadsOK, VisibleAsOf, Dataset
<1>. QED  BY <1>3, <1>9 DEF IInv

\* What a write stages and renames was stamped when it began.
LEMMA WriteIInv ==
    ASSUME IInv, WriteStep, UNCHANGED <<clock, reads>>
    PROVE  IInv' /\ [FilesKept]_store
<1>1. CASE NothingNew \/ Log \/ Crash
  <2>1. parts' = parts /\ writer' = Idle
    BY <1>1 DEF NothingNew, Log, Crash
  <2>2. StoreInv(Rows)'
    BY <2>1, EndInv DEF IInv, Rows
  <2>3. ReadsOK'
    BY <2>1 DEF IInv, ReadsOK, VisibleAsOf, Dataset
  <2>4. FilesKept
    BY <2>1 DEF FilesKept
  <2>. QED  BY <2>2, <2>3, <2>4 DEF IInv
<1>2. CASE Stage
  <2>1. Keyed(Rows)
    BY DEF Keyed, Rows
  <2>2. StoreInv(Rows)'
    BY <1>2, <2>1, StageInv DEF IInv, Rows
  <2>3. parts' = parts /\ writer'.batch = writer.batch /\ writer # Idle
    BY <1>2 DEF Stage, Idle
  <2>4. ReadsOK'
    BY <2>3 DEF IInv, ReadsOK, VisibleAsOf, Dataset
  <2>5. FilesKept
    BY <2>3 DEF FilesKept
  <2>. QED  BY <2>2, <2>4, <2>5 DEF IInv
<1>3. CASE Rename
  <2>1. StoreInv(Rows)
    BY DEF IInv
  <2>. DEFINE all == Rows
  <2>. HIDE DEF all
  <2>2. /\ StoreInv(all)' /\ FilesKept
        /\ \E f \in writer.staged : Dataset' = Dataset \cup RowsIn(writer.new, f[1])
        /\ writer'.batch = writer.batch
        /\ writer.new \subseteq writer.batch /\ writer.batch \subseteq all
        /\ writer.pc = "rename"
    BY <1>3, <2>1, RenameInv DEF all, Rows
  <2>3. PICK f \in writer.staged : Dataset' = Dataset \cup RowsIn(writer.new, f[1])
    BY <2>2
  <2>. DEFINE added == RowsIn(writer.new, f[1])
  <2>4. added \subseteq writer.batch /\ writer # Idle
    BY <2>2 DEF RowsIn, Idle
  <2>5. \A b \in added : b.ingested \in Nat
    BY <2>2, <2>4 DEF all, Rows
  <2>6. Dataset' = Dataset \cup added
    BY <2>3
  <2>. HIDE DEF added
  <2>7. ASSUME NEW r \in reads, r.quiet
        PROVE  VisibleAsOf(r.asOf)' = r.rows
    <3>1. r.asOf \in Nat /\ VisibleAsOf(r.asOf) = r.rows
      BY <2>7 DEF IInv, ReadsOK
    <3>2. \A b \in added : ~(b.ingested <= r.asOf)
      BY <2>4, <2>5, <2>7, <3>1 DEF IInv, ReadsOK
    <3>. QED  BY <2>6, <3>1, <3>2 DEF VisibleAsOf
  <2>8. ReadsOK'
    BY <2>2, <2>4, <2>7 DEF IInv, ReadsOK, VisibleAsOf, Dataset
  <2>. QED  BY <2>2, <2>8 DEF IInv, all, Rows
<1>. QED  BY <1>1, <1>2, <1>3 DEF WriteStep

LEMMA NextIInv ==
    ASSUME IInv, [Next]_vars
    PROVE  IInv' /\ [FilesKept]_store
<1>1. CASE Begin
  BY <1>1, BeginIInv DEF Begin, Submit, FilesKept
<1>2. CASE Read
  BY <1>2, ReadIInv DEF Read, store
<1>3. CASE WriteStep /\ UNCHANGED <<clock, reads>>
  BY <1>3, WriteIInv
<1>4. CASE UNCHANGED vars
  <2>1. UNCHANGED <<parts, log, writer, clock, reads>>
    BY <1>4 DEF vars
  <2>2. StoreInv(Rows)'
    BY <2>1, StoreStutters DEF IInv, Rows
  <2>3. ReadsOK'
    BY <2>1 DEF IInv, ReadsOK, VisibleAsOf, Dataset
  <2>. QED  BY <2>1, <2>2, <2>3 DEF IInv, store
<1>. QED  BY <1>1, <1>2, <1>3, <1>4 DEF Next

\* The strengthened invariant of the price store (price_store.py).
THEOREM InductiveInvariant == Spec => []IInv
<1>1. Init => IInv
  BY EmptyStoreInv DEF Init, IInv, ReadsOK, Rows
<1>2. IInv /\ [Next]_vars => IInv'
  BY NextIInv
<1>. QED  BY <1>1, <1>2, PTL DEF Spec

\* No bar is stored twice, in one file or in two, whatever crashed half-way and
\* however the batch was revised before the retry (write_prices).
THEOREM NothingStoredTwice == Spec => []NoDuplicates
<1>1. IInv => NoDuplicates
  BY DEF IInv, StoreInv
<1>. QED  BY <1>1, InductiveInvariant, PTL

\* An existing file is never rewritten, nor lost: the staged name is always free
\* (write_prices, tmp.replace).
THEOREM FilesStand == Spec => NeverRewritten
<1>1. IInv /\ [Next]_vars => [FilesKept]_store
  BY NextIInv
<1>. QED  BY <1>1, InductiveInvariant, PTL DEF Spec, NeverRewritten, FilesKept

\* What was read of a quiet store is what a read as of the same instant gives
\* ever after (read_prices with as_of).
THEOREM ReadsReproduce == Spec => []QuietReadsReproduce
<1>1. IInv => QuietReadsReproduce
  BY DEF IInv, ReadsOK, QuietReadsReproduce
<1>. QED  BY <1>1, InductiveInvariant, PTL

-----------------------------------------------------------------------------
(***************************************************************************)
(* The fundamentals                                                        *)
(***************************************************************************)

AnyRow == [key : Facts \X Nat, value : {o.value : o \in Observations},
           currency : {o.currency : o \in Observations}, available : Times]

\* The rows that the bound on revisions lets in
FactRows == {r \in AnyRow : r.key \in Keys}

\* What SeriesSound says of the rows of a fact, with what follows from it and is
\* needed to add the next revision.
Sound(series) ==
    /\ series \subseteq AnyRow /\ IsFiniteSet(series)
    /\ {Sequence(r) : r \in series} = 0 .. Cardinality(series) - 1
    /\ \A r, q \in series :
          /\ Sequence(r) = Sequence(q) => r = q
          /\ r.currency = q.currency
          /\ Sequence(r) < Sequence(q) => r.available < q.available
          /\ Sequence(q) = Sequence(r) + 1 => r.value # q.value

AllSound(rows) == \A f \in Facts : Sound(Series(rows, f))

-----------------------------------------------------------------------------
\* The least of a set of numbers
LEMMA LeastNumber ==
    ASSUME NEW X, X \subseteq Nat, X # {}
    PROVE  \E x \in X : \A y \in X : x <= y
<1>. DEFINE Less == {p \in Nat \X Nat : p[1] < p[2]}
<1>1. IsWellFoundedOn(Less, Nat)
  BY NatLessThanWellFounded, Zenon DEF OpToRel
<1>. HIDE DEF Less
<1>2. PICK x \in X : \A y \in X : ~(<<y, x>> \in Less)
  BY <1>1, WFMin
<1>3. \A y \in X : ~(y < x)
  BY <1>2 DEF Less
<1>. QED  BY <1>3

-----------------------------------------------------------------------------
\* The latest of a sound series is its last revision.
LEMMA LatestIsLast ==
    ASSUME NEW s, Sound(s), s # {}
    PROVE  /\ Latest(s) \in s
           /\ Cardinality(s) \in Nat \ {0}
           /\ Sequence(Latest(s)) = Cardinality(s) - 1
           /\ \A q \in s : Sequence(q) \in Nat /\ Sequence(q) <= Cardinality(s) - 1
<1>. DEFINE n == Cardinality(s)
<1>1. n \in Nat \ {0}
  BY FS_CardinalityType, FS_EmptySet DEF Sound
<1>2. {Sequence(r) : r \in s} = 0 .. n - 1
  BY DEF Sound
<1>. HIDE DEF n
<1>3. \A q \in s : Sequence(q) \in 0 .. n - 1
  BY <1>2
<1>4. PICK r \in s : Sequence(r) = n - 1
  BY <1>1, <1>2
<1>5. r \in s /\ \A q \in s : Sequence(q) <= Sequence(r)
  BY <1>1, <1>3, <1>4
<1>6. Latest(s) \in s /\ \A q \in s : Sequence(q) <= Sequence(Latest(s))
  BY <1>5 DEF Latest
<1>7. Sequence(Latest(s)) = n - 1
  BY <1>1, <1>3, <1>4, <1>6
<1>. QED  BY <1>1, <1>3, <1>6, <1>7 DEF n

LEMMA SoundEmpty == Sound({})
<1>1. IsFiniteSet({}) /\ Cardinality({}) = 0
  BY FS_EmptySet
<1>. QED  BY <1>1 DEF Sound

LEMMA SoundOriginal ==
    ASSUME FundamentalsAssumption, NEW o \in Observations
    PROVE  Sound({Original(o)})
<1>. DEFINE r == Original(o)
<1>1. r \in AnyRow /\ Sequence(r) = 0
  BY DEF Original, Row, Sequence, AnyRow, FundamentalsAssumption, Times
<1>. HIDE DEF r
<1>2. IsFiniteSet({r}) /\ Cardinality({r}) = 1
  BY FS_Singleton
<1>3. {Sequence(q) : q \in {r}} = 0 .. Cardinality({r}) - 1
  <2>1. {Sequence(q) : q \in {r}} = 0 .. 0
    BY <1>1
  <2>. QED  BY <2>1, <1>2
<1>4. {r} \subseteq AnyRow
  BY <1>1
<1>5. \A q, t \in {r} : ~(Sequence(q) < Sequence(t)) /\ ~(Sequence(t) = Sequence(q) + 1)
  BY <1>1
<1>6. Sound({r})
  <2>. DEFINE X == {r}
  <2>1. \A q, t \in X : q = t
    OBVIOUS
  <2>. HIDE DEF X
  <2>2. Sound(X)
    BY <1>2, <1>3, <1>4, <1>5, <2>1 DEF Sound, X
  <2>. QED  BY <2>2 DEF X
<1>. QED  BY <1>6 DEF r

\* The next revision of a sound series
LEMMA SoundNext ==
    ASSUME FundamentalsAssumption, NEW s, Sound(s), s # {}, NEW o \in Observations,
           Latest(s).currency = o.currency, ~Unchanged(s, o), ~TooEarly(s, o)
    PROVE  Sound(s \cup {Row(o, Sequence(Latest(s)) + 1)})
<1>. DEFINE n == Cardinality(s)
            l == Latest(s)
            r == Row(o, Sequence(l) + 1)
<1>1. /\ l \in s /\ n \in Nat \ {0} /\ Sequence(l) = n - 1
      /\ \A q \in s : Sequence(q) \in Nat /\ Sequence(q) <= n - 1
  BY LatestIsLast
<1>2. /\ s \subseteq AnyRow /\ IsFiniteSet(s)
      /\ {Sequence(q) : q \in s} = 0 .. n - 1
      /\ \A p, q \in s :
            /\ Sequence(p) = Sequence(q) => p = q
            /\ p.currency = q.currency
            /\ Sequence(p) < Sequence(q) => p.available < q.available
            /\ Sequence(q) = Sequence(p) + 1 => p.value # q.value
  BY DEF Sound
<1>3. l.currency = o.currency /\ l.value # o.value /\ ~(o.available <= l.available)
  BY DEF Unchanged, TooEarly
<1>4. o.available \in Nat /\ \A q \in s : q.available \in Nat
  BY <1>2 DEF AnyRow, FundamentalsAssumption, Times
<1>. HIDE DEF n, l
<1>5. /\ r \in AnyRow /\ Sequence(r) = n
      /\ r.currency = o.currency /\ r.value = o.value /\ r.available = o.available
  BY <1>1 DEF Row, Sequence, AnyRow, FundamentalsAssumption, Times
<1>. HIDE DEF r
<1>6. r \notin s /\ IsFiniteSet(s \cup {r}) /\ Cardinality(s \cup {r}) = n + 1
  BY <1>1, <1>2, <1>5, FS_AddElement DEF n
<1>7. {Sequence(q) : q \in s \cup {r}} = 0 .. n
  <2>1. {Sequence(q) : q \in s \cup {r}} = (0 .. n - 1) \cup {n}
    BY <1>2, <1>5
  <2>. QED  BY <2>1, <1>1
<1>8. \A q \in s : q.available <= l.available
  BY <1>1, <1>2, <1>4
<1>9. ASSUME NEW p \in s \cup {r}, NEW q \in s \cup {r}
      PROVE  /\ Sequence(p) = Sequence(q) => p = q
             /\ p.currency = q.currency
             /\ Sequence(p) < Sequence(q) => p.available < q.available
             /\ Sequence(q) = Sequence(p) + 1 => p.value # q.value
  <2>1. CASE p \in s /\ q \in s
    BY <2>1, <1>2
  <2>2. CASE p = r /\ q = r
    BY <2>2, <1>1, <1>5
  <2>3. CASE p = r /\ q \in s
    BY <2>3, <1>1, <1>2, <1>3, <1>5
  <2>4. CASE p \in s /\ q = r
    <3>1. Sequence(p) <= n - 1 /\ Sequence(p) \in Nat /\ Sequence(q) = n
      BY <2>4, <1>1, <1>5
    <3>2. p.available < q.available
      BY <2>4, <1>1, <1>3, <1>4, <1>5, <1>8
    <3>3. Sequence(q) = Sequence(p) + 1 => p = l
      BY <2>4, <3>1, <1>1, <1>2
    <3>4. p.currency = q.currency
      BY <2>4, <1>1, <1>2, <1>3, <1>5
    <3>. QED  BY <2>4, <3>1, <3>2, <3>3, <3>4, <1>1, <1>3, <1>5
  <2>. QED  BY <2>1, <2>2, <2>3, <2>4
<1>10. {Sequence(q) : q \in s \cup {r}} = 0 .. Cardinality(s \cup {r}) - 1
  BY <1>1, <1>6, <1>7
<1>11. s \cup {r} \subseteq AnyRow
  BY <1>2, <1>5
<1>. QED  BY <1>6, <1>9, <1>10, <1>11 DEF Sound, r, l

-----------------------------------------------------------------------------
\* What is appended so far continues the series of what is known.
Good(recorded, result) ==
    /\ result \in [append : SUBSET AnyRow, raised : BOOLEAN]
    /\ AllSound(recorded \cup result.append)
    /\ \A r \in result.append : r.key \notin KeysOf(recorded)

\* A row of one fact is in no other series.
LEMMA SeriesWith ==
    ASSUME NEW rows, NEW r, NEW f
    PROVE  Series(rows \cup {r}, f)
             = IF r.key[1] = f THEN Series(rows, f) \cup {r} ELSE Series(rows, f)
  BY DEF Series

\* A new row of a fact that makes a sound series of its own
LEMMA GoodAppend ==
    ASSUME NEW recorded, NEW result, Good(recorded, result),
           NEW r \in AnyRow, Sound(Series(recorded \cup result.append, r.key[1]) \cup {r}),
           r.key \notin KeysOf(recorded)
    PROVE  Good(recorded, [result EXCEPT !.append = @ \cup {r}])
<1>. DEFINE all == recorded \cup result.append
            next == [result EXCEPT !.append = @ \cup {r}]
<1>1. /\ next \in [append : SUBSET AnyRow, raised : BOOLEAN]
      /\ next.append = result.append \cup {r}
  BY DEF Good
<1>. HIDE DEF next
<1>2. recorded \cup next.append = all \cup {r}
  BY <1>1
<1>3. Sound(Series(all, r.key[1]) \cup {r}) /\ \A f \in Facts : Sound(Series(all, f))
  BY DEF Good, AllSound
<1>. HIDE DEF all
<1>4. ASSUME NEW f \in Facts
      PROVE  Sound(Series(all \cup {r}, f))
  <2>1. CASE r.key[1] = f
    BY <2>1, <1>3, SeriesWith
  <2>2. CASE r.key[1] # f
    <3>1. Series(all \cup {r}, f) = Series(all, f)
      BY <2>2, SeriesWith
    <3>. QED  BY <1>3, <3>1
  <2>. QED  BY <2>1, <2>2
<1>5. \A q \in next.append : q.key \notin KeysOf(recorded)
  BY <1>1 DEF Good
<1>. QED  BY <1>1, <1>2, <1>4, <1>5 DEF Good, AllSound, next

LEMMA ClassifyOneGood ==
    ASSUME FundamentalsAssumption, NEW recorded, NEW result, Good(recorded, result),
           NEW o \in Observations
    PROVE  Good(recorded, ClassifyOne(recorded, result, o))
<1>. DEFINE s == Series(recorded \cup result.append, o.fact)
            added(r) == [result EXCEPT !.append = @ \cup {r}]
            raised == [result EXCEPT !.raised = TRUE]
<1>1. o.fact \in Facts /\ Sound(s)
  BY DEF Good, AllSound, FundamentalsAssumption
<1>2. Good(recorded, raised)
  <2>1. raised \in [append : SUBSET AnyRow, raised : BOOLEAN] /\ raised.append = result.append
    BY DEF Good
  <2>. QED  BY <2>1 DEF Good
<1>3. CASE ClassifyOne(recorded, result, o) \in {result, raised}
  BY <1>2, <1>3
<1>4. CASE s = {} /\ ClassifyOne(recorded, result, o) = added(Original(o))
  <2>. DEFINE r == Original(o)
  <2>1. r \in AnyRow /\ r.key = <<o.fact, 0>>
    BY <1>1 DEF Original, Row, AnyRow, FundamentalsAssumption, Times
  <2>2. Sound(s \cup {r})
    BY <1>4, SoundOriginal
  <2>3. r.key \notin KeysOf(recorded)
    <3>1. \A q \in recorded : q.key[1] # o.fact
      BY <1>4 DEF Series
    <3>. QED  BY <2>1, <3>1 DEF KeysOf
  <2>. HIDE DEF r
  <2>4. Good(recorded, added(r))
    BY <2>1, <2>2, <2>3, GoodAppend
  <2>. QED  BY <1>4, <2>4 DEF r
<1>5. CASE /\ s # {} /\ Latest(s).currency = o.currency
           /\ ~Unchanged(s, o) /\ ~TooEarly(s, o)
           /\ ClassifyOne(recorded, result, o) = added(Row(o, Sequence(Latest(s)) + 1))
  <2>. DEFINE n == Sequence(Latest(s))
              r == Row(o, n + 1)
  <2>1. /\ n \in Nat /\ \A q \in s : Sequence(q) <= n /\ Sequence(q) \in Nat
    <3>. HIDE DEF s
    <3>. QED  BY <1>1, <1>5, LatestIsLast
  <2>2. Sound(s \cup {r})
    <3>. HIDE DEF s
    <3>. QED  BY <1>1, <1>5, SoundNext
  <2>. HIDE DEF n
  <2>3. r \in AnyRow /\ r.key = <<o.fact, n + 1>>
    BY <1>1, <2>1 DEF Row, AnyRow, FundamentalsAssumption, Times
  <2>4. r.key \notin KeysOf(recorded)
    <3>. SUFFICES ASSUME NEW q \in recorded, q.key = <<o.fact, n + 1>> PROVE FALSE
      BY <2>3 DEF KeysOf
    <3>1. q \in s /\ Sequence(q) = n + 1
      BY DEF Series, Sequence
    <3>. HIDE DEF s
    <3>. QED  BY <2>1, <3>1
  <2>. HIDE DEF r
  <2>5. Good(recorded, added(r))
    BY <2>2, <2>3, <2>4, GoodAppend
  <2>. QED  BY <1>5, <2>5 DEF r, n
<1>6. \/ ClassifyOne(recorded, result, o) \in {result, raised}
      \/ s = {} /\ ClassifyOne(recorded, result, o) = added(Original(o))
      \/ /\ s # {} /\ Latest(s).currency = o.currency
         /\ ~Unchanged(s, o) /\ ~TooEarly(s, o)
         /\ ClassifyOne(recorded, result, o) = added(Row(o, Sequence(Latest(s)) + 1))
  <2>. DEFINE one == ClassifyOne(recorded, result, o)
  <2>1. CASE result.raised
    <3>1. one = result
      BY <2>1 DEF ClassifyOne
    <3>. QED  BY <3>1
  <2>2. CASE ~result.raised /\ s = {}
    <3>1. one = added(Original(o))
      BY <2>2 DEF ClassifyOne
    <3>. QED  BY <2>2, <3>1
  <2>3. CASE /\ ~result.raised /\ s # {}
             /\ Latest(s).currency # o.currency \/ Unchanged(s, o) \/ TooEarly(s, o)
    <3>1. one \in {result, raised}
      BY <2>3 DEF ClassifyOne
    <3>. QED  BY <3>1
  <2>4. CASE /\ ~result.raised /\ s # {} /\ Latest(s).currency = o.currency
             /\ ~Unchanged(s, o) /\ ~TooEarly(s, o)
    <3>1. one = added(Row(o, Sequence(Latest(s)) + 1))
      BY <2>4 DEF ClassifyOne
    <3>. QED  BY <2>4, <3>1
  <2>. QED  BY <2>1, <2>2, <2>3, <2>4, Zenon
<1>. QED  BY <1>3, <1>4, <1>5, <1>6

-----------------------------------------------------------------------------
\* The results after each of the first n observations of a batch
IsClassified(results, recorded, batch, n) ==
    results = [k \in 0 .. n |->
                 IF k = 0
                 THEN [append |-> {}, raised |-> \E f \in Facts : ~WellFormed(Series(recorded, f))]
                 ELSE ClassifyOne(recorded, results[k - 1], batch[k])]

NoneYet(recorded) ==
    [append |-> {}, raised |-> \E f \in Facts : ~WellFormed(Series(recorded, f))]

LEMMA ClassifiedPointwise ==
    ASSUME NEW recorded, NEW batch, NEW n \in Nat, NEW results,
           IsClassified(results, recorded, batch, n)
    PROVE  /\ results[0] = NoneYet(recorded)
           /\ \A k \in 1 .. n : results[k] = ClassifyOne(recorded, results[k - 1], batch[k])
<1>. DEFINE none == NoneYet(recorded)
            g == [k \in 0 .. n |->
                    IF k = 0 THEN none ELSE ClassifyOne(recorded, results[k - 1], batch[k])]
<1>1. results = g
  BY DEF IsClassified, NoneYet
<1>. HIDE DEF none
<1>2. g[0] = none /\ \A k \in 1 .. n : g[k] = ClassifyOne(recorded, results[k - 1], batch[k])
  OBVIOUS
<1>. HIDE DEF g
<1>. QED  BY <1>1, <1>2 DEF none

LEMMA ClassifiedExists ==
    ASSUME NEW recorded, NEW batch, NEW n \in Nat
    PROVE  \E results : IsClassified(results, recorded, batch, n)
<1>. DEFINE Missing == {k \in Nat : ~ \E f : IsClassified(f, recorded, batch, k)}
            none == NoneYet(recorded)
<1>1. 0 \notin Missing
  <2>1. IsClassified([k \in 0 .. 0 |-> none], recorded, batch, 0)
    BY DEF IsClassified, NoneYet
  <2>. QED  BY <2>1
<1>2. ASSUME NEW k \in Nat, k # 0, k - 1 \notin Missing PROVE k \notin Missing
  <2>1. PICK f : IsClassified(f, recorded, batch, k - 1)
    BY <1>2
  <2>2. f[0] = none /\ \A i \in 1 .. k - 1 : f[i] = ClassifyOne(recorded, f[i - 1], batch[i])
    BY <1>2, <2>1, ClassifiedPointwise
  <2>. DEFINE g == [i \in 0 .. k |->
                      IF i = k THEN ClassifyOne(recorded, f[k - 1], batch[k]) ELSE f[i]]
  <2>. HIDE DEF none
  <2>3. g[0] = none /\ \A i \in 0 .. k - 1 : g[i] = f[i]
    BY <1>2, <2>2
  <2>4. \A i \in 1 .. k : g[i] = ClassifyOne(recorded, g[i - 1], batch[i])
    <3>1. g[k] = ClassifyOne(recorded, f[k - 1], batch[k]) /\ g[k - 1] = f[k - 1]
      BY <1>2, <2>3
    <3>. QED  BY <1>2, <2>2, <2>3, <3>1
  <2>5. g = [i \in 0 .. k |-> g[i]]
    OBVIOUS
  <2>. HIDE DEF g
  <2>6. [i \in 0 .. k |-> g[i]]
          = [i \in 0 .. k |->
               IF i = 0 THEN none ELSE ClassifyOne(recorded, g[i - 1], batch[i])]
    BY <1>2, <2>3, <2>4
  <2>7. IsClassified(g, recorded, batch, k)
    BY <2>5, <2>6 DEF IsClassified, none, NoneYet
  <2>. QED  BY <2>7
<1>3. Missing = {}
  <2>. SUFFICES ASSUME Missing # {} PROVE FALSE
    OBVIOUS
  <2>1. PICK k \in Missing : \A y \in Missing : k <= y
    <3>1. Missing \subseteq Nat
      OBVIOUS
    <3>. HIDE DEF Missing
    <3>. QED  BY <3>1, LeastNumber
  <2>2. k \in Nat /\ k # 0
    BY <1>1, <2>1
  <2>3. k - 1 \notin Missing
    <3>. HIDE DEF Missing
    <3>1. ~(k <= k - 1)
      BY <2>2
    <3>. QED  BY <2>1, <3>1
  <2>. HIDE DEF Missing
  <2>. QED  BY <1>2, <2>1, <2>2, <2>3
<1>. QED  BY <1>3

\* classify_observations continues every series: nothing of it is out of order,
\* in another currency, or the same value again.
LEMMA ClassifyGood ==
    ASSUME FundamentalsAssumption, NEW recorded, AllSound(recorded),
           NEW batch, Len(batch) \in Nat, \A k \in 1 .. Len(batch) : batch[k] \in Observations
    PROVE  Good(recorded, Classify(recorded, batch))
<1>. DEFINE n == Len(batch)
            g == CHOOSE f : IsClassified(f, recorded, batch, n)
<1>1. Classify(recorded, batch) = g[n]
  BY DEF Classify, IsClassified
<1>2. IsClassified(g, recorded, batch, n)
  <2>. HIDE DEF n
  <2>. QED  BY ClassifiedExists DEF n
<1>. HIDE DEF g
<1>3. /\ g[0] = NoneYet(recorded)
      /\ \A k \in 1 .. n : g[k] = ClassifyOne(recorded, g[k - 1], batch[k])
  <2>1. n \in Nat
    OBVIOUS
  <2>. HIDE DEF n
  <2>. QED  BY ONLY <1>2, <2>1, ClassifiedPointwise
<1>. HIDE DEF n
<1>4. Good(recorded, NoneYet(recorded))
  <2>1. recorded \cup {} = recorded
    OBVIOUS
  <2>2. /\ NoneYet(recorded).append = {}
        /\ NoneYet(recorded) \in [append : SUBSET AnyRow, raised : BOOLEAN]
    BY DEF NoneYet
  <2>. QED  BY <2>1, <2>2 DEF Good
<1>5. \A k \in 1 .. n : batch[k] \in Observations
  BY DEF n
<1>6. n \in Nat
  BY DEF n
<1>. DEFINE Bad == {k \in Nat : k <= n /\ ~Good(recorded, g[k])}
<1>7. Bad = {}
  <2>. SUFFICES ASSUME Bad # {} PROVE FALSE
    OBVIOUS
  <2>1. PICK k \in Bad : \A y \in Bad : k <= y
    <3>1. Bad \subseteq Nat
      OBVIOUS
    <3>. HIDE DEF Bad
    <3>. QED  BY <3>1, LeastNumber
  <2>2. k \in Nat /\ k <= n /\ ~Good(recorded, g[k])
    BY <2>1
  <2>3. k # 0 /\ k - 1 \in Nat /\ k - 1 <= n /\ k \in 1 .. n
    BY <1>3, <1>4, <1>6, <2>2
  <2>4. k - 1 \notin Bad
    <3>. HIDE DEF Bad
    <3>1. ~(k <= k - 1)
      BY <2>2
    <3>. QED  BY <2>1, <3>1
  <2>5. Good(recorded, g[k - 1])
    BY <2>3, <2>4
  <2>. HIDE DEF Bad
  <2>6. Good(recorded, ClassifyOne(recorded, g[k - 1], batch[k]))
    BY <1>5, <2>3, <2>5, ClassifyOneGood
  <2>. QED  BY <1>3, <2>2, <2>3, <2>6
<1>8. Good(recorded, g[n])
  BY <1>6, <1>7
<1>. QED  BY <1>1, <1>8

-----------------------------------------------------------------------------
\* The rows of a batch continue the stored series; all of them are new, and
\* none is left out when they are staged.
BatchContinues ==
    /\ writer # Idle => AllSound(Dataset \cup writer.batch)
    /\ writer.pc = "dedupe" => \A r \in writer.batch : r.key \notin KeysOf(Dataset)
    /\ writer.pc = "rename" => writer.new = writer.batch

FInv == StoreInv(FactRows) /\ AllSound(Dataset) /\ BatchContinues

LEMMA FInit ==
    ASSUME FactsInit
    PROVE  FInv
<1>1. EmptyStore
  BY DEF FactsInit
<1>2. StoreInv(FactRows) /\ Dataset = {} /\ writer = Idle
  BY <1>1, EmptyStoreInv DEF FactRows, EmptyStore
<1>3. AllSound(Dataset)
  <2>1. \A f : Series({}, f) = {}
    BY DEF Series
  <2>. QED  BY <1>2, <2>1, SoundEmpty DEF AllSound
<1>4. BatchContinues
  BY <1>2 DEF BatchContinues, Idle
<1>. QED  BY <1>2, <1>3, <1>4 DEF FInv

\* What stutters on the store
LEMMA FStutters ==
    ASSUME FInv, parts' = parts, writer' = writer
    PROVE  FInv'
<1>1. StoreInv(FactRows)'
  BY StoreStutters DEF FInv, FactRows
<1>2. Dataset' = Dataset
  BY DEF Dataset
<1>3. AllSound(Dataset)'
  BY <1>2 DEF FInv, AllSound
<1>4. BatchContinues'
  BY <1>2 DEF FInv, BatchContinues, AllSound, KeysOf
<1>. QED  BY <1>1, <1>3, <1>4 DEF FInv

LEMMA IngestFInv ==
    ASSUME FundamentalsAssumption, FInv, Ingest
    PROVE  FInv' /\ Dataset' = Dataset
<1>1. PICK batch \in Batches :
          /\ KeysOf(Classify(Dataset, batch).append) \subseteq Keys
          /\ Submit(Classify(Dataset, batch).append)
  BY DEF Ingest
<1>. DEFINE result == Classify(Dataset, batch)
            added == result.append
<1>2. KeysOf(added) \subseteq Keys /\ Submit(added)
  BY <1>1
<1>3. PICK n \in 1 .. MaxBatch : batch \in [1 .. n -> Observations]
  BY DEF Batches
<1>4. n \in Nat
  BY <1>3
<1>5. Len(batch) = n /\ \A k \in 1 .. n : batch[k] \in Observations
  BY <1>3, <1>4
<1>6. Good(Dataset, result)
  BY <1>4, <1>5, ClassifyGood DEF FInv
<1>. HIDE DEF result
<1>7. /\ added \subseteq AnyRow /\ AllSound(Dataset \cup added)
      /\ \A r \in added : r.key \notin KeysOf(Dataset)
  BY <1>6 DEF Good
<1>. HIDE DEF added
<1>8. added \subseteq FactRows
  BY <1>2, <1>7 DEF FactRows, KeysOf
<1>9. OnePerKey(added)
  <2>. SUFFICES ASSUME NEW r \in added, NEW q \in added, r.key = q.key PROVE r = q
    BY DEF OnePerKey
  <2>1. r.key[1] \in Facts
    BY <1>7 DEF AnyRow
  <2>2. Sound(Series(Dataset \cup added, r.key[1]))
    BY <1>7, <2>1 DEF AllSound
  <2>3. /\ r \in Series(Dataset \cup added, r.key[1])
        /\ q \in Series(Dataset \cup added, r.key[1])
        /\ Sequence(r) = Sequence(q)
    BY DEF Series, Sequence
  <2>. QED  BY <2>2, <2>3 DEF Sound
<1>10. StoreInv(FactRows)'
  BY <1>2, <1>8, <1>9, SubmitInv DEF FInv, FactRows
<1>11. parts' = parts /\ writer' = [pc |-> "dedupe", batch |-> added]
  BY <1>2 DEF Submit
<1>12. Dataset' = Dataset
  BY <1>11 DEF Dataset
<1>13. AllSound(Dataset)'
  BY <1>12 DEF FInv, AllSound
<1>14. BatchContinues'
  BY <1>7, <1>11, <1>12 DEF BatchContinues, AllSound, KeysOf
<1>. QED  BY <1>10, <1>12, <1>13, <1>14 DEF FInv

\* NothingNew, Log and Crash
LEMMA EndFInv ==
    ASSUME FInv, parts' = parts, writer' = Idle
    PROVE  FInv' /\ Dataset' = Dataset
<1>1. StoreInv(FactRows)'
  BY EndInv DEF FInv, FactRows
<1>2. Dataset' = Dataset
  BY DEF Dataset
<1>3. AllSound(Dataset)'
  BY <1>2 DEF FInv, AllSound
<1>4. BatchContinues'
  BY DEF BatchContinues, Idle
<1>. QED  BY <1>1, <1>2, <1>3, <1>4 DEF FInv

LEMMA StageFInv ==
    ASSUME FInv, Stage
    PROVE  FInv' /\ Dataset' = Dataset
<1>1. Keyed(FactRows)
  BY DEF Keyed, FactRows
<1>2. StoreInv(FactRows)'
  BY <1>1, StageInv DEF FInv, FactRows
<1>3. /\ parts' = parts /\ writer.pc = "dedupe" /\ writer # Idle
      /\ writer'.pc = "rename" /\ writer'.batch = writer.batch
      /\ writer'.new = NewRows(writer.batch)
  BY DEF Stage, Idle
<1>4. Dataset' = Dataset
  BY <1>3 DEF Dataset
<1>5. AllSound(Dataset)'
  BY <1>4 DEF FInv, AllSound
<1>6. NewRows(writer.batch) = writer.batch
  <2>. DEFINE touched == {YearOf[k] : k \in KeysOf(writer.batch)}
              existing == KeysOf(UNION {parts[f] : f \in UNION {PartsOf(y) : y \in touched}})
  <2>1. UNION {PartsOf(y) : y \in touched} \subseteq DOMAIN parts
    BY DEF PartsOf
  <2>2. existing \subseteq KeysOf(Dataset)
    BY <2>1 DEF KeysOf, Dataset
  <2>. HIDE DEF existing
  <2>3. NewRows(writer.batch) = {r \in writer.batch : r.key \notin existing}
    BY DEF NewRows, existing
  <2>4. \A r \in writer.batch : r.key \notin KeysOf(Dataset)
    BY <1>3 DEF FInv, BatchContinues
  <2>. QED  BY <2>2, <2>3, <2>4
<1>7. BatchContinues'
  BY <1>3, <1>4, <1>6 DEF FInv, BatchContinues, AllSound
<1>. QED  BY <1>2, <1>4, <1>5, <1>7 DEF FInv

\* A file of a year brings all the rows of a fact or none: a fact is of one year.
LEMMA RenameFInv ==
    ASSUME FundamentalsAssumption, FInv, Rename
    PROVE  FInv' /\ Dataset \subseteq Dataset'
<1>. DEFINE rows == FactRows
<1>1. /\ StoreInv(rows)'
      /\ \E f \in writer.staged : Dataset' = Dataset \cup RowsIn(writer.new, f[1])
      /\ writer'.new = writer.new /\ writer'.batch = writer.batch
      /\ writer.batch \subseteq rows
      /\ writer.pc = "rename" /\ writer'.pc = "rename"
  <2>1. StoreInv(rows)
    BY DEF FInv
  <2>. HIDE DEF rows
  <2>. QED  BY <2>1, RenameInv DEF rows, FactRows
<1>2. /\ AllSound(Dataset) /\ AllSound(Dataset \cup writer.batch) /\ writer.new = writer.batch
  BY <1>1 DEF FInv, BatchContinues, Idle
<1>3. PICK file \in writer.staged : Dataset' = Dataset \cup RowsIn(writer.new, file[1])
  BY <1>1
<1>. DEFINE y == file[1]
<1>4. Dataset' = Dataset \cup RowsIn(writer.batch, y)
  BY <1>2, <1>3
<1>5. \A r \in writer.batch : YearOf[r.key] = FactYear[r.key[1]]
  BY <1>1 DEF FactRows, FundamentalsAssumption
<1>6. ASSUME NEW f \in Facts
      PROVE  Sound(Series(Dataset \cup RowsIn(writer.batch, y), f))
  <2>1. CASE FactYear[f] = y
    <3>1. Series(Dataset \cup RowsIn(writer.batch, y), f) = Series(Dataset \cup writer.batch, f)
      BY <2>1, <1>5 DEF Series, RowsIn
    <3>. QED  BY <3>1, <1>2 DEF AllSound
  <2>2. CASE FactYear[f] # y
    <3>1. Series(Dataset \cup RowsIn(writer.batch, y), f) = Series(Dataset, f)
      BY <2>2, <1>5 DEF Series, RowsIn
    <3>. QED  BY <3>1, <1>2 DEF AllSound
  <2>. QED  BY <2>1, <2>2
<1>7. AllSound(Dataset)'
  BY <1>4, <1>6 DEF AllSound
<1>8. BatchContinues'
  <2>1. Dataset' \cup writer.batch = Dataset \cup writer.batch
    BY <1>4 DEF RowsIn
  <2>2. AllSound(Dataset' \cup writer'.batch)
    BY <1>1, <1>2, <2>1
  <2>. QED  BY <1>1, <1>2, <2>2 DEF BatchContinues, AllSound
<1>. QED  BY <1>1, <1>4, <1>7, <1>8 DEF FInv

LEMMA FNext ==
    ASSUME FundamentalsAssumption, FInv, [Ingest \/ Write]_factVars
    PROVE  FInv' /\ Dataset \subseteq Dataset'
<1>1. CASE Ingest
  BY <1>1, IngestFInv
<1>2. CASE WriteStep
  <2>1. CASE NothingNew
    BY <2>1, EndFInv DEF NothingNew
  <2>2. CASE Stage
    BY <2>2, StageFInv
  <2>3. CASE Rename
    BY <2>3, RenameFInv
  <2>4. CASE Log
    BY <2>4, EndFInv DEF Log
  <2>5. CASE Crash
    BY <2>5, EndFInv DEF Crash
  <2>. QED  BY <1>2, <2>1, <2>2, <2>3, <2>4, <2>5 DEF WriteStep
<1>3. CASE UNCHANGED factVars
  BY <1>3, FStutters DEF factVars, Dataset
<1>. QED  BY <1>1, <1>2, <1>3 DEF Write

\* The strengthened invariant of the fundamentals (storage.py, revisions.py)
THEOREM FactsInvariant ==
    ASSUME FundamentalsAssumption
    PROVE  FactsSpec => []FInv
<1>1. FactsInit => FInv
  BY FInit
<1>2. FInv /\ [Ingest \/ Write]_factVars => FInv'
  BY FNext
<1>. QED  BY <1>1, <1>2, PTL DEF FactsSpec

-----------------------------------------------------------------------------
LEMMA SoundSeries ==
    ASSUME FInv
    PROVE  SeriesSound
<1>. SUFFICES ASSUME NEW f \in Facts
     PROVE  /\ WellFormed(Series(Dataset, f))
            /\ \A r, q \in Series(Dataset, f) :
                  /\ r.currency = q.currency
                  /\ Sequence(q) = Sequence(r) + 1
                       => r.available < q.available /\ r.value # q.value
  BY DEF SeriesSound
<1>. DEFINE s == Series(Dataset, f)
<1>1. Sound(s)
  BY DEF FInv, AllSound
<1>. HIDE DEF s
<1>2. \A q \in s : Sequence(q) \in Nat
  <2>1. CASE s = {}
    BY <2>1
  <2>2. CASE s # {}
    BY <2>2, <1>1, LatestIsLast
  <2>. QED  BY <2>1, <2>2
<1>3. WellFormed(s)
  BY <1>1 DEF WellFormed, Sound
<1>4. ASSUME NEW r \in s, NEW q \in s
      PROVE  /\ r.currency = q.currency
             /\ Sequence(q) = Sequence(r) + 1
                  => r.available < q.available /\ r.value # q.value
  <2>1. Sequence(q) = Sequence(r) + 1 => Sequence(r) < Sequence(q)
    BY <1>2
  <2>. QED  BY <1>1, <2>1 DEF Sound
<1>. QED  BY <1>3, <1>4 DEF s

\* The answer is the row of the highest revision among those available.
LEMMA AnswerIsLast ==
    ASSUME NEW s, Sound(s), NEW recorded, recorded \subseteq s, recorded # {}
    PROVE  /\ Latest(recorded) \in recorded
           /\ \A q \in recorded : Sequence(q) <= Sequence(Latest(recorded))
<1>. DEFINE n == Cardinality(s) - 1
            Distances == {n - Sequence(q) : q \in recorded}
<1>1. n \in Nat /\ \A q \in s : Sequence(q) \in Nat /\ Sequence(q) <= n
  BY LatestIsLast
<1>. HIDE DEF n
<1>2. Distances \subseteq Nat /\ Distances # {}
  BY <1>1
<1>3. PICK d \in Distances : \A e \in Distances : d <= e
  <2>. HIDE DEF Distances
  <2>. QED  BY <1>2, LeastNumber
<1>4. PICK r \in recorded : d = n - Sequence(r)
  BY <1>3
<1>5. \A q \in recorded : n - Sequence(r) <= n - Sequence(q)
  BY <1>3, <1>4
<1>6. \A q \in recorded : Sequence(q) <= Sequence(r)
  BY <1>1, <1>5
<1>. QED  BY <1>6 DEF Latest

AsOf(series, t) == {r \in series : r.available <= t}

\* More revisions of a sound series displace an answer by a later one only.
LEMMA AnswerMovesLater ==
    ASSUME NEW s, NEW more, s \subseteq more, Sound(s), Sound(more),
           NEW t, AsOf(s, t) # {}
    PROVE  \/ Latest(AsOf(more, t)) = Latest(AsOf(s, t))
           \/ Latest(AsOf(more, t)).available
                > Latest(AsOf(s, t)).available
<1>. DEFINE A == AsOf(s, t)
            B == AsOf(more, t)
<1>1. A \subseteq s /\ A # {} /\ B \subseteq more /\ A \subseteq B /\ B # {}
  BY DEF AsOf
<1>. HIDE DEF A, B
<1>2. Latest(A) \in A
  BY <1>1, AnswerIsLast
<1>3. Latest(B) \in B /\ \A q \in B : Sequence(q) <= Sequence(Latest(B))
  BY <1>1, AnswerIsLast
<1>. DEFINE a == Latest(A)
            b == Latest(B)
<1>4. a \in more /\ b \in more /\ Sequence(a) <= Sequence(b)
  BY <1>1, <1>2, <1>3
<1>. HIDE DEF a, b
<1>5. Sequence(a) \in Nat /\ Sequence(b) \in Nat
  BY <1>4, LatestIsLast
<1>6. Sequence(a) = Sequence(b) => a = b
  BY <1>4 DEF Sound
<1>7. Sequence(a) < Sequence(b) => a.available < b.available
  BY <1>4 DEF Sound
<1>8. a.available \in Nat /\ b.available \in Nat
  BY <1>4 DEF Sound, AnyRow, Times
<1>9. a = b \/ b.available > a.available
  BY <1>4, <1>5, <1>6, <1>7, <1>8
<1>. QED  BY <1>9 DEF a, b, A, B

AnswersKept ==
    \A f \in Facts, t \in Times :
        Answered(Dataset, f, t) =>
            \/ Answer(Dataset', f, t) = Answer(Dataset, f, t)
            \/ Answer(Dataset', f, t).available > Answer(Dataset, f, t).available

LEMMA StepKeepsAnswers ==
    ASSUME FundamentalsAssumption, FInv, [Ingest \/ Write]_factVars
    PROVE  AnswersKept
<1>1. FInv' /\ Dataset \subseteq Dataset'
  BY FNext
<1>. SUFFICES ASSUME NEW f \in Facts, NEW t \in Times, Answered(Dataset, f, t)
     PROVE  \/ Answer(Dataset', f, t) = Answer(Dataset, f, t)
            \/ Answer(Dataset', f, t).available > Answer(Dataset, f, t).available
  BY DEF AnswersKept
<1>. DEFINE old == Series(Dataset, f)
            new == Series(Dataset', f)
<1>2. old \subseteq new
  BY <1>1 DEF Series
<1>3. Sound(old) /\ Sound(new)
  BY <1>1 DEF FInv, AllSound
<1>4. AsOf(old, t) # {}
  BY DEF Answered, AsOf
<1>5. /\ Answer(Dataset', f, t) = Latest(AsOf(new, t))
      /\ Answer(Dataset, f, t) = Latest(AsOf(old, t))
  BY DEF Answer, AsOf
<1>. HIDE DEF old, new
<1>6. \/ Latest(AsOf(new, t)) = Latest(AsOf(old, t))
      \/ Latest(AsOf(new, t)).available > Latest(AsOf(old, t)).available
  BY <1>2, <1>3, <1>4, AnswerMovesLater
<1>. QED  BY <1>5, <1>6

(***************************************************************************)
(* Whatever is delivered and whatever crashed half-way, the stored series  *)
(* of a fact is one that check_revision_series accepts, each revision      *)
(* after the one before and different from it, in one currency             *)
(* (classify_observations, write_fundamentals).                            *)
(***************************************************************************)
THEOREM FactsSound ==
    ASSUME FundamentalsAssumption
    PROVE  FactsSpec => []SeriesSound
<1>1. FInv => SeriesSound
  BY SoundSeries
<1>. QED  BY <1>1, FactsInvariant, PTL

(***************************************************************************)
(* No file that is renamed makes a restatement visible retroactively: an   *)
(* answer as of an instant changes only for a row that became available    *)
(* after the row it displaces (queries._apply_as_of).                      *)
(***************************************************************************)
THEOREM RestatementsComeLater ==
    ASSUME FundamentalsAssumption
    PROVE  FactsSpec => AnswersStand
<1>1. FInv /\ [Ingest \/ Write]_factVars => [AnswersKept]_factVars
  BY StepKeepsAnswers
<1>. QED  BY <1>1, FactsInvariant, PTL DEF FactsSpec, AnswersStand, AnswersKept

-----------------------------------------------------------------------------
(***************************************************************************)
(* The reports on stored prices                                            *)
(***************************************************************************)

\* What is in the store or public is not of a later instant, and days are integers.
ValidationInv ==
    /\ now \in Nat /\ IsFiniteSet(bars)
    /\ \A b \in bars : b.day \in Int /\ b.ingested \in Nat /\ b.ingested <= now
    /\ \A a \in known : a.available \in Nat /\ a.available <= now
    /\ \A r \in reports : r.asOf \in Nat /\ r.asOf <= now
    /\ ReportsStand

\* A report looks at the bars of its instant and the actions known then, and at nothing else.
LEMMA SameReport ==
    ASSUME NEW asOf, VisibleBars(asOf)' = VisibleBars(asOf), KnownActions(asOf)' = KnownActions(asOf)
    PROVE  Report(asOf)' = Report(asOf)
<1>1. \A day : Explained(day, asOf)' <=> Explained(day, asOf)
  BY DEF Explained
<1>2. \A series : ExtremeMoves(series, asOf)' = ExtremeMoves(series, asOf)
  <2> SUFFICES ASSUME NEW series
               PROVE  ExtremeMoves(series, asOf)' = ExtremeMoves(series, asOf)
    OBVIOUS
  <2> DEFINE Unexplained ==
               {x \in DOMAIN series \ {Min(DOMAIN series)} :
                   /\ Extreme(series[Previous(series, x)].close, series[x].close)
                   /\ ~Explained(x, asOf)}
  <2>1. Unexplained' = Unexplained
    BY <1>1
  <2> QED BY <2>1 DEF ExtremeMoves
<1>3. \A B : Validate(B, asOf)' = Validate(B, asOf)
  BY <1>2 DEF Validate
<1> QED BY <1>3 DEF Report

\* What was reported is found again after what arrives later.
LEMMA ReportStays ==
    ASSUME ValidationInv, now' = now + 1,
           \A b \in bars' : b \in bars \/ b.ingested = now + 1,
           \A a \in known' : a \in known \/ a.available = now + 1,
           bars \subseteq bars', known \subseteq known', reports' = reports
    PROVE  ReportsStand'
<1> SUFFICES ASSUME NEW r \in reports PROVE Report(r.asOf)' = r.findings
  BY DEF ReportsStand
<1>1. r.asOf \in Nat /\ r.asOf <= now /\ now \in Nat
  BY DEF ValidationInv
<1>2. VisibleBars(r.asOf)' = VisibleBars(r.asOf)
  BY <1>1 DEF VisibleBars
<1>3. KnownActions(r.asOf)' = KnownActions(r.asOf)
  BY <1>1 DEF KnownActions
<1>4. Report(r.asOf) = r.findings
  BY DEF ValidationInv, ReportsStand
<1> QED BY <1>2, <1>3, <1>4, SameReport

\* Every step keeps the reports as they were found.
LEMMA ValidationStep == ValidationInv /\ [ValidationNext]_validating => ValidationInv'
<1> SUFFICES ASSUME ValidationInv, [ValidationNext]_validating PROVE ValidationInv'
  OBVIOUS
<1>1. CASE Arrive
  <2>1. PICK b \in Offered : bars' = bars \cup {[source |-> b.source, day |-> b.day, close |-> b.close,
                                                volume |-> b.volume, ingested |-> now + 1]}
    BY <1>1 DEF Arrive
  <2>2. now' = now + 1 /\ known' = known /\ reports' = reports
    BY <1>1 DEF Arrive
  <2> DEFINE stamped == [source |-> b.source, day |-> b.day, close |-> b.close,
                         volume |-> b.volume, ingested |-> now + 1]
  <2>3. stamped.day \in Int /\ stamped.ingested = now + 1
    BY ValidationAssumption
  <2>4. bars' = bars \cup {stamped}
    BY <2>1
  <2> HIDE DEF stamped
  <2>5. IsFiniteSet(bars')
    BY <2>4, FS_AddElement DEF ValidationInv
  <2>6. ReportsStand'
    BY <2>2, <2>3, <2>4, ReportStays
  <2> QED BY <2>2, <2>3, <2>4, <2>5, <2>6 DEF ValidationInv
<1>2. CASE Publish
  <2>1. PICK a : known' = known \cup {[kind |-> a.kind, ex |-> a.ex, available |-> now + 1]}
    BY <1>2 DEF Publish
  <2>2. now' = now + 1 /\ bars' = bars /\ reports' = reports
    BY <1>2 DEF Publish
  <2>3. ReportsStand'
    BY <2>1, <2>2, ReportStays
  <2> QED BY <2>1, <2>2, <2>3 DEF ValidationInv
<1>3. CASE MakeReport
  <2>1. reports' = {[asOf |-> now, findings |-> Report(now)]} /\ UNCHANGED <<now, bars, known>>
    BY <1>3 DEF MakeReport
  <2>2. Report(now)' = Report(now)
    <3>1. VisibleBars(now)' = VisibleBars(now) /\ KnownActions(now)' = KnownActions(now)
      BY <2>1 DEF VisibleBars, KnownActions
    <3>2. now' = now
      BY <2>1
    <3> QED BY <3>1, <3>2, SameReport
  <2> QED BY <2>1, <2>2 DEF ValidationInv, ReportsStand
<1>4. CASE UNCHANGED validating
  <2>1. now' = now /\ bars' = bars /\ known' = known /\ reports' = reports
    BY <1>4 DEF validating
  <2>2. ASSUME NEW r \in reports PROVE Report(r.asOf)' = r.findings
    <3>1. /\ VisibleBars(r.asOf)' = VisibleBars(r.asOf)
          /\ KnownActions(r.asOf)' = KnownActions(r.asOf)
      BY <2>1 DEF VisibleBars, KnownActions
    <3>2. Report(r.asOf) = r.findings
      BY DEF ValidationInv, ReportsStand
    <3> QED BY <3>1, <3>2, SameReport
  <2> QED BY <2>1, <2>2 DEF ValidationInv, ReportsStand
<1> QED BY <1>1, <1>2, <1>3, <1>4 DEF ValidationNext

LEMMA ValidationInvariant == ValidationSpec => []ValidationInv
<1>1. ValidationInit => ValidationInv
  BY FS_EmptySet DEF ValidationInit, ValidationInv, ReportsStand
<1> QED BY <1>1, ValidationStep, PTL DEF ValidationSpec

\* The report of an instant is found again as of that instant, whatever bars arrive late and
\* whatever actions are published later (validate_prices with as_of).
THEOREM ReportsReproduce == ValidationSpec => []ReportsStand
<1>1. ValidationInv => ReportsStand
  BY DEF ValidationInv
<1> QED BY <1>1, ValidationInvariant, PTL

-----------------------------------------------------------------------------
\* The least and the greatest of a finite set of integers
LEMMA Extremes ==
    ASSUME NEW S, IsFiniteSet(S), S \subseteq Int, S # {}
    PROVE  /\ Min(S) \in S /\ \A y \in S : Min(S) <= y
           /\ Max(S) \in S /\ \A y \in S : y <= Max(S)
<1> DEFINE below(x) == {y \in S : y < x}
           above(x) == {y \in S : y > x}
<1>1. ASSUME NEW x \in S
      PROVE  /\ IsFiniteSet(below(x)) /\ Cardinality(below(x)) \in Nat
             /\ IsFiniteSet(above(x)) /\ Cardinality(above(x)) \in Nat
  <2>1. below(x) \subseteq S /\ above(x) \subseteq S
    OBVIOUS
  <2> HIDE DEF below, above
  <2> QED BY <2>1, FS_Subset, FS_CardinalityType
<1>2. \E x \in S : \A y \in S : x <= y
  <2> DEFINE counts == {Cardinality(below(x)) : x \in S}
  <2>1. counts \subseteq Nat /\ counts # {}
    BY <1>1
  <2>2. PICK x \in S : \A y \in S : Cardinality(below(x)) <= Cardinality(below(y))
    <3>1. PICK n \in counts : \A m \in counts : n <= m
      <4> HIDE DEF counts
      <4> QED BY <2>1, LeastNumber
    <3> QED BY <3>1
  <2>3. ASSUME NEW y \in S, y < x PROVE FALSE
    <3>0. x \in Int /\ y \in Int /\ \A z \in S : z \in Int
      OBVIOUS
    <3>1. below(y) \subseteq below(x) /\ y \in below(x) /\ y \notin below(y)
      <4>1. \A z \in S : z < y => z < x
        BY <2>3, <3>0
      <4>2. y < x /\ ~(y < y)
        BY <2>3, <3>0
      <4> QED BY <4>1, <4>2
    <3> DEFINE a == below(x)
               b == below(y)
    <3>2. IsFiniteSet(a) /\ Cardinality(a) \in Nat /\ Cardinality(b) \in Nat
          /\ b \subseteq a /\ a # b /\ Cardinality(a) <= Cardinality(b)
      BY <1>1, <2>2, <3>1
    <3> HIDE DEF a, b
    <3>3. Cardinality(b) <= Cardinality(a) /\ (Cardinality(a) = Cardinality(b) => a = b)
      BY <3>2, FS_Subset
    <3> QED BY <3>2, <3>3
  <2> QED BY <2>3
<1>3. \E x \in S : \A y \in S : y <= x
  <2> DEFINE counts == {Cardinality(above(x)) : x \in S}
  <2>1. counts \subseteq Nat /\ counts # {}
    BY <1>1
  <2>2. PICK x \in S : \A y \in S : Cardinality(above(x)) <= Cardinality(above(y))
    <3>1. PICK n \in counts : \A m \in counts : n <= m
      <4> HIDE DEF counts
      <4> QED BY <2>1, LeastNumber
    <3> QED BY <3>1
  <2>3. ASSUME NEW y \in S, y > x PROVE FALSE
    <3>0. x \in Int /\ y \in Int /\ \A z \in S : z \in Int
      OBVIOUS
    <3>1. above(y) \subseteq above(x) /\ y \in above(x) /\ y \notin above(y)
      <4>1. \A z \in S : z > y => z > x
        BY <2>3, <3>0
      <4>2. y > x /\ ~(y > y)
        BY <2>3, <3>0
      <4> QED BY <4>1, <4>2
    <3> DEFINE a == above(x)
               b == above(y)
    <3>2. IsFiniteSet(a) /\ Cardinality(a) \in Nat /\ Cardinality(b) \in Nat
          /\ b \subseteq a /\ a # b /\ Cardinality(a) <= Cardinality(b)
      BY <1>1, <2>2, <3>1
    <3> HIDE DEF a, b
    <3>3. Cardinality(b) <= Cardinality(a) /\ (Cardinality(a) = Cardinality(b) => a = b)
      BY <3>2, FS_Subset
    <3> QED BY <3>2, <3>3
  <2> QED BY <2>3
<1>4. Min(S) \in S /\ \A y \in S : Min(S) <= y
  BY <1>2 DEF Min
<1>5. Max(S) \in S /\ \A y \in S : y <= Max(S)
  <2>1. \E x \in S : \A y \in S : x >= y
    BY <1>3
  <2>2. Max(S) \in S /\ \A y \in S : Max(S) >= y
    BY <2>1 DEF Max
  <2> QED BY <2>2
<1> QED BY <1>4, <1>5

\* The first days of the runs of missing sessions, and the run from a first day
RunStarts(missing, sessions) ==
    {d \in missing : \/ {p \in missing : p < d} = {}
                     \/ \E s \in sessions : Max({p \in missing : p < d}) < s /\ s < d}

RunFrom(missing, sessions, start) ==
    {d \in missing : start <= d /\ ~\E t \in RunStarts(missing, sessions) : start < t /\ t <= d}

LEMMA GapRunsAre ==
    ASSUME NEW c, NEW missing, NEW sessions
    PROVE  GapRuns(c, missing, sessions) =
             {RunFrom(missing, sessions, start) : start \in RunStarts(missing, sessions)}
  BY DEF GapRuns, Runs, RunFrom, RunStarts

\* A run has a first and a last day, both missing.
LEMMA RunEnds ==
    ASSUME NEW missing, IsFiniteSet(missing), missing \subseteq Int, NEW sessions,
           NEW start \in RunStarts(missing, sessions)
    PROVE  LET run == RunFrom(missing, sessions, start)
           IN  /\ Min(run) = start /\ start \in missing
               /\ Max(run) \in run /\ Max(run) \in missing /\ start <= Max(run)
               /\ \A d \in run : d <= Max(run)
<1> DEFINE run == RunFrom(missing, sessions, start)
<1>1. start \in missing /\ run \subseteq missing /\ \A d \in run : start <= d
  BY DEF RunStarts, RunFrom
<1>2. start \in run
  BY <1>1 DEF RunStarts, RunFrom
<1> HIDE DEF run
<1>3. IsFiniteSet(run) /\ run \subseteq Int /\ run # {}
  BY <1>1, <1>2, FS_Subset
<1>4. /\ Min(run) \in run /\ \A y \in run : Min(run) <= y
      /\ Max(run) \in run /\ \A y \in run : y <= Max(run)
  BY <1>3, Extremes
<1>5. Min(run) = start
  <2>1. Min(run) <= start /\ start <= Min(run)
    BY <1>1, <1>2, <1>4
  <2>2. Min(run) \in Int /\ start \in Int
    BY <1>1, <1>3, <1>4
  <2> QED BY <2>1, <2>2
<1> QED BY <1>1, <1>2, <1>4, <1>5 DEF run

\* Runs cover the missing sessions and no other.
LEMMA RunsCover ==
    ASSUME NEW missing, IsFiniteSet(missing), missing \subseteq Int,
           NEW sessions, missing \subseteq sessions, sessions \subseteq Int, NEW d \in sessions
    PROVE  (\E start \in RunStarts(missing, sessions) :
                start <= d /\ d <= Max(RunFrom(missing, sessions, start))) <=> d \in missing
<1>1. ASSUME d \in missing
      PROVE  \E start \in RunStarts(missing, sessions) :
                start <= d /\ d <= Max(RunFrom(missing, sessions, start))
  <2> DEFINE starts == {t \in RunStarts(missing, sessions) : t <= d}
             first == Min(missing)
  <2>1. first \in missing /\ \A y \in missing : first <= y
    BY <1>1, Extremes
  <2>2. {p \in missing : p < first} = {}
    <3>1. first \in Int /\ \A y \in missing : y \in Int /\ first <= y
      BY <2>1
    <3> HIDE DEF first
    <3>2. \A y \in missing : ~(y < first)
      BY <3>1
    <3> QED BY <3>2
  <2>3. first \in starts
    BY <1>1, <2>1, <2>2 DEF RunStarts
  <2>4. starts \subseteq missing
    BY DEF RunStarts
  <2>5. Max(starts) \in starts /\ \A t \in starts : t <= Max(starts)
    <3>1. IsFiniteSet(starts) /\ starts \subseteq Int /\ starts # {}
      BY <2>3, <2>4, FS_Subset
    <3> HIDE DEF starts
    <3> QED BY <3>1, Extremes
  <2> DEFINE s == Max(starts)
  <2>6. s \in RunStarts(missing, sessions) /\ s <= d /\ s \in Int /\ d \in Int
    BY <1>1, <2>4, <2>5
  <2>7. \A t \in RunStarts(missing, sessions) : t <= d => t <= s
    BY <2>5
  <2>9. \A t \in RunStarts(missing, sessions) : t \in Int
    BY DEF RunStarts
  <2> HIDE DEF s, starts
  <2>8. d \in RunFrom(missing, sessions, s)
    BY <1>1, <2>6, <2>7, <2>9 DEF RunFrom
  <2> QED BY <2>6, <2>8, RunEnds
<1>2. ASSUME NEW start \in RunStarts(missing, sessions), start <= d,
             d <= Max(RunFrom(missing, sessions, start)), d \notin missing
      PROVE  FALSE
  <2> DEFINE last == Max(RunFrom(missing, sessions, start))
             later == {e \in missing : d < e}
             e == Min(later)
             before == {p \in missing : p < e}
  <2>1. start \in missing /\ last \in missing /\ last \in RunFrom(missing, sessions, start)
    BY RunEnds
  <2>2. start < d /\ d < last /\ last \in Int /\ d \in Int /\ start \in Int
    <3>1. start \in Int /\ last \in Int /\ d \in Int /\ start # d /\ last # d
      BY <1>2, <2>1
    <3>2. start <= d /\ d <= last
      BY <1>2
    <3> HIDE DEF last
    <3> QED BY <3>1, <3>2
  <2>3. e \in later /\ \A y \in later : e <= y
    <3>1. IsFiniteSet(later) /\ later \subseteq Int /\ later # {}
      BY <2>1, <2>2, FS_Subset
    <3> HIDE DEF later
    <3> QED BY <3>1, Extremes
  <2>4. e \in missing /\ d < e /\ e <= last /\ e \in Int
    BY <2>1, <2>2, <2>3
  <2> HIDE DEF e
  <2>5. start \in before
    BY <2>1, <2>2, <2>4
  <2>6. Max(before) \in before
    <3>1. IsFiniteSet(before) /\ before \subseteq Int /\ before # {}
      BY <2>5, FS_Subset
    <3> HIDE DEF before
    <3> QED BY <3>1, Extremes
  <2>7. Max(before) < d
    <3>1. Max(before) \in missing /\ Max(before) < e /\ Max(before) \in Int
      BY <2>6
    <3>2. Max(before) # d
      BY <1>2, <3>1
    <3>3. ~(d < Max(before))
      BY <2>3, <2>4, <3>1
    <3> QED BY <2>2, <3>1, <3>2, <3>3
  <2>8. e \in RunStarts(missing, sessions)
    BY <2>4, <2>7 DEF RunStarts
  <2>9. ~\E t \in RunStarts(missing, sessions) : start < t /\ t <= last
    BY <2>1 DEF RunFrom
  <2> QED BY <2>2, <2>4, <2>8, <2>9
<1> QED BY <1>1, <1>2

\* Between two runs there is a session that is not missing.
LEMMA RunsApart ==
    ASSUME NEW missing, IsFiniteSet(missing), missing \subseteq Int,
           NEW sessions, sessions \subseteq Int
    PROVE  \A day \in missing, start \in RunStarts(missing, sessions) :
              day < start => \E s \in sessions : s \notin missing /\ day < s /\ s < start
<1> SUFFICES ASSUME NEW day \in missing, NEW start \in RunStarts(missing, sessions), day < start
             PROVE  \E s \in sessions : s \notin missing /\ day < s /\ s < start
  OBVIOUS
<1> DEFINE before == {p \in missing : p < start}
           m == Max(before)
<1>1. start \in Int /\ day \in before
  BY DEF RunStarts
<1>2. m \in before /\ \A y \in before : y <= m
  <2>1. IsFiniteSet(before) /\ before \subseteq Int /\ before # {}
    BY <1>1, FS_Subset
  <2> HIDE DEF before
  <2> QED BY <2>1, Extremes
<1>3. PICK s \in sessions : m < s /\ s < start
  BY <1>1 DEF RunStarts
<1>4. s \notin missing /\ day < s
  <2>1. m \in Int /\ day \in Int /\ day <= m /\ s \in Int
    BY <1>1, <1>2
  <2>2. s \in missing => s \in before /\ s <= m
    BY <1>2, <1>3
  <2> HIDE DEF m, before
  <2> QED BY <1>3, <2>1, <2>2
<1> QED BY <1>3, <1>4

\* The greater and the lesser of two integers
LEMMA OfTwo ==
    ASSUME NEW a \in Int, NEW b \in Int
    PROVE  /\ Max({a, b}) = (IF a < b THEN b ELSE a)
           /\ Min({a, b}) = (IF a < b THEN a ELSE b)
<1> DEFINE pair == {a, b}
<1>1. IsFiniteSet(pair) /\ pair \subseteq Int /\ pair # {} /\ a \in pair /\ b \in pair
      /\ \A x \in pair : x = a \/ x = b
  <2>1. IsFiniteSet({a})
    BY FS_Singleton
  <2>2. pair = {a} \cup {b}
    OBVIOUS
  <2>3. IsFiniteSet(pair)
    <3> HIDE DEF pair
    <3> QED BY <2>1, <2>2, FS_AddElement
  <2> QED BY <2>3
<1> HIDE DEF pair
<1>2. /\ Min(pair) \in pair /\ \A y \in pair : Min(pair) <= y
      /\ Max(pair) \in pair /\ \A y \in pair : y <= Max(pair)
  BY <1>1, Extremes
<1>3. /\ (Max(pair) = a \/ Max(pair) = b) /\ a <= Max(pair) /\ b <= Max(pair)
      /\ (Min(pair) = a \/ Min(pair) = b) /\ Min(pair) <= a /\ Min(pair) <= b
  BY <1>1, <1>2
<1>4. /\ Max(pair) = (IF a < b THEN b ELSE a)
      /\ Min(pair) = (IF a < b THEN a ELSE b)
  <2> DEFINE greater == Max(pair)
             lesser == Min(pair)
  <2>1. /\ (greater = a \/ greater = b) /\ a <= greater /\ b <= greater
        /\ (lesser = a \/ lesser = b) /\ lesser <= a /\ lesser <= b
    BY <1>3
  <2> HIDE DEF greater, lesser
  <2>2. greater = (IF a < b THEN b ELSE a) /\ lesser = (IF a < b THEN a ELSE b)
    BY <2>1
  <2> QED BY <2>2 DEF greater, lesser
<1> QED BY <1>4 DEF pair

LEMMA DaysFinite ==
    ASSUME ValidationInv, bars # {}
    PROVE  /\ IsFiniteSet(DaysOf(bars)) /\ DaysOf(bars) \subseteq Int /\ DaysOf(bars) # {}
           /\ Min(DaysOf(bars)) \in Int /\ Max(DaysOf(bars)) \in Int
<1> DEFINE f == [b \in bars |-> b.day]
           days == DaysOf(bars)
<1>1. f \in Surjection(bars, days)
  BY DEF Surjection, DaysOf
<1>2. IsFiniteSet(days)
  <2> HIDE DEF f, days
  <2> QED BY <1>1, FS_Surjection DEF ValidationInv
<1>3. days \subseteq Int /\ days # {}
  BY DEF ValidationInv, DaysOf
<1> HIDE DEF days
<1>4. Min(days) \in days /\ Max(days) \in days
  BY <1>2, <1>3, Extremes
<1> QED BY <1>2, <1>3, <1>4 DEF days

\* The window of a listing within its calendar holds the sessions the listing may lack.
LEMMA WindowHoldsLacking ==
    ASSUME ValidationInv, bars # {}, NEW l \in Listings, Supported(l.mic)
    PROVE  LET c == Calendar[l.mic]
               start == WindowStart(l, bars)
               end == WindowEnd(l, bars)
               lower == Max({start, c.first})
               upper == Min({end, c.last})
           IN  /\ start \in Int /\ end \in Int /\ lower \in Int /\ upper \in Int
               /\ start <= lower /\ upper <= end
               /\ Lacking(l, bars) = MissingSessions(c, DaysOf(bars), lower, upper)
               /\ IsFiniteSet(Lacking(l, bars)) /\ c.sessions \subseteq Int
<1> DEFINE c == Calendar[l.mic]
           first == Min(DaysOf(bars))
           last == Max(DaysOf(bars))
           start == WindowStart(l, bars)
           end == WindowEnd(l, bars)
           lower == Max({start, c.first})
           upper == Min({end, c.last})
           lacking == Lacking(l, bars)
<1>1. first \in Int /\ last \in Int
  BY DaysFinite
<1>2. /\ l.from \in Int /\ (l.to = NoDay \/ l.to \in Int)
      /\ c.first \in Int /\ c.last \in Int /\ c.sessions \subseteq c.first .. c.last
  BY ValidationAssumption DEF Supported
<1>3. start = Max({l.from, first}) /\ end = (IF l.to = NoDay THEN last ELSE Min({l.to - 1, last}))
  BY DEF WindowStart, WindowEnd
<1>4. lacking = {d \in c.sessions \ DaysOf(bars) :
                    first <= d /\ d <= last /\ l.from <= d /\ (l.to = NoDay \/ d < l.to)}
  BY DEF Lacking
<1>5. MissingSessions(c, DaysOf(bars), lower, upper)
         = {d \in c.sessions : lower <= d /\ d <= upper} \ DaysOf(bars)
  BY DEF MissingSessions, SessionsBetween
<1>6. lower = Max({start, c.first}) /\ upper = Min({end, c.last})
  OBVIOUS
<1> HIDE DEF c, first, last, start, end, lower, upper, lacking
<1>7. start = IF l.from < first THEN first ELSE l.from
  BY <1>1, <1>2, <1>3, OfTwo
<1>8. end = IF l.to = NoDay THEN last ELSE IF l.to - 1 < last THEN l.to - 1 ELSE last
  <2>1. CASE l.to = NoDay
    BY <1>3, <2>1
  <2>2. CASE l.to # NoDay
    <3>1. l.to - 1 \in Int
      BY <1>2, <2>2
    <3>2. Min({l.to - 1, last}) = IF l.to - 1 < last THEN l.to - 1 ELSE last
      BY <1>1, <3>1, OfTwo
    <3> QED BY <1>3, <2>2, <3>2
  <2> QED BY <2>1, <2>2
<1>9. start \in Int /\ end \in Int
  BY <1>1, <1>2, <1>7, <1>8
<1>10. /\ lower = IF start < c.first THEN c.first ELSE start
       /\ upper = IF end < c.last THEN end ELSE c.last
  BY <1>2, <1>6, <1>9, OfTwo
<1>11. lower \in Int /\ upper \in Int /\ start <= lower /\ upper <= end
  BY <1>2, <1>9, <1>10
<1>12. ASSUME NEW d \in c.sessions
       PROVE  (lower <= d /\ d <= upper)
                <=> (first <= d /\ d <= last /\ l.from <= d /\ (l.to = NoDay \/ d < l.to))
  <2>1. d \in Int /\ c.first <= d /\ d <= c.last
    BY <1>2
  <2>2. lower <= d <=> l.from <= d /\ first <= d
    BY <1>1, <1>2, <1>7, <1>9, <1>10, <2>1
  <2>3. d <= upper <=> d <= end
    BY <1>2, <1>9, <1>10, <2>1
  <2>4. d <= end <=> d <= last /\ (l.to = NoDay \/ d < l.to)
    <3>1. CASE l.to = NoDay
      BY <1>8, <3>1
    <3>2. CASE l.to # NoDay
      <4>1. l.to \in Int
        BY <1>2, <3>2
      <4> QED BY <1>1, <1>8, <2>1, <3>2, <4>1
    <3> QED BY <3>1, <3>2
  <2> QED BY <2>2, <2>3, <2>4
<1>13. lacking = MissingSessions(c, DaysOf(bars), lower, upper)
  BY <1>4, <1>5, <1>12
<1>14. IsFiniteSet(lacking) /\ c.sessions \subseteq Int
  <2>1. IsFiniteSet(c.first .. c.last)
    BY <1>2, FS_Interval
  <2>2. lacking \subseteq c.first .. c.last
    BY <1>2, <1>4
  <2>3. IsFiniteSet(lacking)
    BY <2>1, <2>2, FS_Subset
  <2>4. c.sessions \subseteq Int
    BY <1>2
  <2> QED BY <2>3, <2>4
<1> QED BY <1>9, <1>11, <1>13, <1>14 DEF c, start, end, lower, upper, lacking

\* The gaps a report finds are the runs of the sessions a listing lacks.
LEMMA GapsAreRuns ==
    ASSUME ValidationInv, bars # {}, NEW l \in Listings, Supported(l.mic)
    PROVE  LET c == Calendar[l.mic]
               missing == Lacking(l, bars)
           IN  \E sessions \in SUBSET c.sessions :
                  /\ IsFiniteSet(missing) /\ missing \subseteq sessions /\ c.sessions \subseteq Int
                  /\ missing = sessions \ DaysOf(bars)
                  /\ \A a, b \in missing, d \in c.sessions : a <= d /\ d <= b => d \in sessions
                  /\ {f \in GapsForListing(l, bars) : f.check = "calendar_gap"}
                       = {Finding("calendar_gap", start, Max(RunFrom(missing, sessions, start)), "warning") :
                            start \in RunStarts(missing, sessions)}
<1> DEFINE c == Calendar[l.mic]
           start == WindowStart(l, bars)
           end == WindowEnd(l, bars)
           lower == Max({start, c.first})
           upper == Min({end, c.last})
           missing == Lacking(l, bars)
           sessions == SessionsBetween(c, lower, upper)
           gaps == GapRuns(c, MissingSessions(c, DaysOf(bars), lower, upper), sessions)
           found == {Finding("calendar_gap", Min(run), Max(run), "warning") : run \in gaps}
           clamped == IF <<lower, upper>> = <<start, end>> THEN {}
                      ELSE {Finding("calendar_range_clamped", start, end, "info")}
           expected == {Finding("calendar_gap", s, Max(RunFrom(missing, sessions, s)), "warning") :
                          s \in RunStarts(missing, sessions)}
           reported == GapsForListing(l, bars)
<1>1. /\ start \in Int /\ end \in Int /\ lower \in Int /\ upper \in Int
      /\ start <= lower /\ upper <= end
      /\ missing = MissingSessions(c, DaysOf(bars), lower, upper)
      /\ IsFiniteSet(missing) /\ c.sessions \subseteq Int
  BY WindowHoldsLacking
<1>2. /\ sessions = {d \in c.sessions : lower <= d /\ d <= upper}
      /\ missing = sessions \ DaysOf(bars)
  BY <1>1 DEF SessionsBetween, MissingSessions
<1>3. missing \subseteq Int
  BY <1>1, <1>2
<1>4. found = expected
  <2>1. gaps = {RunFrom(missing, sessions, s) : s \in RunStarts(missing, sessions)}
    BY <1>1, GapRunsAre
  <2>2. \A s \in RunStarts(missing, sessions) : Min(RunFrom(missing, sessions, s)) = s
    BY <1>1, <1>3, RunEnds
  <2> HIDE DEF gaps, missing, sessions
  <2> QED BY <2>1, <2>2
<1>5. reported = CASE start > end -> {}
                   [] start <= end /\ ~Supported(l.mic) ->
                         {Finding("calendar_unavailable", start, end, "warning")}
                   [] OTHER -> clamped \cup (IF lower > upper THEN {} ELSE found)
  BY DEF GapsForListing
<1>6. /\ \A f \in clamped : f.check # "calendar_gap"
      /\ \A f \in found : f.check = "calendar_gap"
  BY DEF Finding
<1>7. start > end \/ lower > upper => expected = {}
  <2> SUFFICES ASSUME start > end \/ lower > upper PROVE missing = {}
    BY DEF RunStarts
  <2>1. lower > upper
    BY <1>1
  <2>2. sessions = {}
    <3>1. \A d \in c.sessions : d \in Int
      BY <1>1
    <3> HIDE DEF sessions, lower, upper
    <3>2. \A d \in c.sessions : ~(lower <= d /\ d <= upper)
      BY <1>1, <2>1, <3>1
    <3> QED BY <1>2, <3>2
  <2> QED BY <1>2, <2>2
<1>8. {f \in reported : f.check = "calendar_gap"} = expected
  <2> HIDE DEF c, start, end, lower, upper, found, clamped, expected, reported, missing, sessions, gaps
  <2>1. CASE start > end
    <3>1. reported = {}
      BY <1>5, <2>1
    <3> QED BY <1>7, <2>1, <3>1
  <2>2. CASE ~(start > end)
    <3>1. reported = clamped \cup (IF lower > upper THEN {} ELSE found)
      BY <1>5, <2>2
    <3>2. CASE lower > upper
      BY <1>6, <1>7, <3>1, <3>2
    <3>3. CASE ~(lower > upper)
      BY <1>4, <1>6, <3>1, <3>3
    <3> QED BY <3>2, <3>3
  <2> QED BY <2>1, <2>2
<1>9. \A a, b \in missing, d \in c.sessions : a <= d /\ d <= b => d \in sessions
  <2> SUFFICES ASSUME NEW a \in missing, NEW b \in missing, NEW d \in c.sessions, a <= d, d <= b
               PROVE  lower <= d /\ d <= upper
    BY <1>2
  <2>1. a \in Int /\ b \in Int /\ d \in Int /\ lower <= a /\ b <= upper
    BY <1>1, <1>2
  <2> HIDE DEF lower, upper, missing, sessions
  <2> QED BY <1>1, <2>1
<1>10. missing \subseteq sessions /\ sessions \in SUBSET c.sessions
  BY <1>2
<1> HIDE DEF c, start, end, lower, upper, found, clamped, expected, reported, missing, sessions, gaps
<1> QED BY <1>1, <1>2, <1>8, <1>9, <1>10 DEF expected, c, missing, reported

\* The gaps reported for a listing cover the sessions on which it should have had a bar and had
\* none, and no other session, and two gaps have a bar between them (_gaps_for_listing).
THEOREM GapsAreExact == ValidationSpec => []GapsExact
<1>1. ValidationInv => GapsExact
  <2> SUFFICES ASSUME ValidationInv, bars # {}, NEW l \in Listings, Supported(l.mic)
               PROVE  LET gaps == {f \in GapsForListing(l, bars) : f.check = "calendar_gap"}
                          sessions == Calendar[l.mic].sessions
                      IN  /\ UNION {{d \in sessions : f.from <= d /\ d <= f.to} : f \in gaps}
                               = Lacking(l, bars)
                          /\ \A f, g \in gaps : f.to < g.from =>
                                \E d \in sessions \cap DaysOf(bars) : f.to < d /\ d < g.from
    BY DEF GapsExact
  <2> DEFINE lacking == Lacking(l, bars)
             all == Calendar[l.mic].sessions
             gaps == {f \in GapsForListing(l, bars) : f.check = "calendar_gap"}
             days == DaysOf(bars)
  <2>1. PICK within \in SUBSET all :
          /\ IsFiniteSet(lacking) /\ lacking \subseteq within /\ all \subseteq Int
          /\ lacking = within \ days
          /\ \A a, b \in lacking, d \in all : a <= d /\ d <= b => d \in within
          /\ gaps = {Finding("calendar_gap", s, Max(RunFrom(lacking, within, s)), "warning") :
                       s \in RunStarts(lacking, within)}
    BY GapsAreRuns
  <2> HIDE DEF lacking, all, gaps, days
  <2>2. within \subseteq Int /\ lacking \subseteq Int
    BY <2>1
  <2>3. ASSUME NEW s \in RunStarts(lacking, within)
        PROVE  s \in lacking /\ Max(RunFrom(lacking, within, s)) \in lacking
    BY <2>1, <2>2, RunEnds
  <2>4. \A f \in gaps : /\ f.from \in RunStarts(lacking, within)
                        /\ f.to = Max(RunFrom(lacking, within, f.from))
    BY <2>1 DEF Finding
  <2>5. \A s \in RunStarts(lacking, within) :
           \E f \in gaps : f.from = s /\ f.to = Max(RunFrom(lacking, within, s))
    <3> SUFFICES ASSUME NEW s \in RunStarts(lacking, within)
                 PROVE  \E f \in gaps : f.from = s /\ f.to = Max(RunFrom(lacking, within, s))
      OBVIOUS
    <3> DEFINE f == Finding("calendar_gap", s, Max(RunFrom(lacking, within, s)), "warning")
    <3>1. f \in gaps
      BY <2>1
    <3>2. f.from = s /\ f.to = Max(RunFrom(lacking, within, s))
      BY DEF Finding
    <3> QED BY <3>1, <3>2
  <2>6. UNION {{d \in all : f.from <= d /\ d <= f.to} : f \in gaps} = lacking
    <3>1. ASSUME NEW f \in gaps, NEW d \in all, f.from <= d, d <= f.to PROVE d \in lacking
      <4>1. d \in within
        BY <2>1, <2>3, <2>4, <3>1
      <4>2. \E s \in RunStarts(lacking, within) : s <= d /\ d <= Max(RunFrom(lacking, within, s))
        BY <2>4, <3>1
      <4>3. IsFiniteSet(lacking) /\ lacking \subseteq within
        BY <2>1
      <4> QED BY <2>2, <4>1, <4>2, <4>3, RunsCover
    <3>2. ASSUME NEW d \in lacking PROVE \E f \in gaps : f.from <= d /\ d <= f.to
      <4>1. d \in within
        BY <2>1
      <4>2. PICK s \in RunStarts(lacking, within) : s <= d /\ d <= Max(RunFrom(lacking, within, s))
        BY <2>1, <2>2, <4>1, RunsCover
      <4> QED BY <2>5, <4>2
    <3>3. lacking \subseteq all
      BY <2>1
    <3> QED BY <3>1, <3>2, <3>3
  <2>7. ASSUME NEW f \in gaps, NEW g \in gaps, f.to < g.from
        PROVE  \E d \in all \cap days : f.to < d /\ d < g.from
    <3>1. f.to \in lacking /\ g.from \in RunStarts(lacking, within)
      BY <2>3, <2>4
    <3>2. PICK d \in within \ lacking : f.to < d /\ d < g.from
      <4>1. IsFiniteSet(lacking)
        BY <2>1
      <4> DEFINE a == f.to
                 b == g.from
      <4>2. a \in lacking /\ b \in RunStarts(lacking, within) /\ a < b
        BY <2>7, <3>1
      <4> HIDE DEF a, b
      <4>3. \E d \in within \ lacking : a < d /\ d < b
        <5>1. \A day \in lacking, start \in RunStarts(lacking, within) :
                 day < start => \E s \in within : s \notin lacking /\ day < s /\ s < start
          BY <2>2, <4>1, RunsApart
        <5> QED BY <4>2, <5>1
      <4> QED BY <4>3 DEF a, b
    <3> QED BY <2>1, <3>2
  <2> QED BY <2>6, <2>7 DEF lacking, all, gaps, days
<1> QED BY <1>1, ValidationInvariant, PTL
=============================================================================
