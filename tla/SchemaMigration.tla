--------------------------- MODULE SchemaMigration ---------------------------
(***************************************************************************)
(* Store.Migrate: what every process does to the database file before it   *)
(* serves.  The files of its release are applied in the order of their     *)
(* names, each in one transaction with the row of schema_migrations that   *)
(* records it; a recorded file is skipped if its checksum is the recorded  *)
(* one, and anything else ends the process.  Processes of any releases     *)
(* start at any time, side by side, and are killed at any step.            *)
(*                                                                         *)
(* A handler of SqliteTx is a process here.  disk and cache are records    *)
(* [table, recorded, schema].  A statement fails when it meets a lock;     *)
(* errors of the disk itself are left out, as starts could not be promised *)
(* to succeed.                                                             *)
(***************************************************************************)
EXTENDS SqliteTx, Sequences

CONSTANTS
  Last,       \* the number of migration files, numbered as their names sort
  Contents,   \* versions of a file, told apart by their checksum
  Releases,   \* the migration directories of the builds that may be started
  Once,       \* the files with an ALTER TABLE ADD COLUMN: not to be repeated
  Requires,   \* Requires[f]: the files that make the tables f alters
  NoRow, Absent

Files == 1..Last

Tables == [table : BOOLEAN,                             \* schema_migrations exists
           recorded : [Files -> Contents \union {NoRow}],  \* its rows
           schema : Seq([file : Files, content : Contents])]  \* what took effect

ASSUME MigrationAssumption ==
  /\ Last \in Nat /\ Once \subseteq Files
  /\ Requires \in [Files -> SUBSET Files]
  /\ \A f \in Files : \A g \in Requires[f] : g < f
  /\ {NoRow, Absent} \intersect Contents = {}
  /\ Releases \subseteq [Files -> Contents \union {Absent}]
  /\ \* a release adds files after those of the ones before it
     \A r \in Releases : \A f \in Files : r[f] # Absent => \A g \in 1..f : r[g] # Absent

VARIABLES
  pc,       \* how far each process is
  release,  \* the files it found
  todo      \* those it has not got behind it yet

local == <<pc, release, todo>>
vars == <<disk, cache, readers, writer, pc, release, todo>>

Init ==
  /\ disk = [table |-> FALSE, recorded |-> [f \in Files |-> NoRow], schema |-> <<>>]
  /\ cache = disk
  /\ readers = {}
  /\ writer = NoHandler
  /\ pc = [p \in Handlers |-> "off"]
  /\ release \in [Handlers -> Releases]
  /\ todo = [p \in Handlers |-> {}]

-----------------------------------------------------------------------------
\* Helpers

Applied(tables, f) == \E n \in DOMAIN tables.schema : tables.schema[n].file = f

\* The .sql files in a migrations directory.
SqlFiles(r) == {f \in Files : r[f] # Absent}

\* Fault: the names are compared the wrong way around.
First_Descending(files) == CHOOSE f \in files : \A g \in files : g <= f

\* sort.Slice by name
First(files) == CHOOSE f \in files : \A g \in files : f <= g

Running == {p \in Handlers : pc[p] \notin {"off", "failed", "migrated"}}
AutoWriters == {p \in Handlers : pc[p] = "ensure" /\ ~disk.table}
AutoReaders == {p \in Handlers : pc[p] \in {"ensure", "lookup"}}

Busy(p) == ReadMayBeBusy(p, AutoWriters)
CommitBusy(p) == CommitMayBeBusy(p, AutoReaders)

Goto(p, label) == pc' = [pc EXCEPT ![p] = label]
Proceed(p, label) == Goto(p, label) /\ UNCHANGED <<release, todo>>

\* Fault: a failed migration leaves its transaction open.
Failed_NoRollback(p) == UNCHANGED txVars /\ Proceed(p, "failed")

\* The error that Migrate returns is fatal.  The transaction is rolled back, or
\* ends with the process where only its COMMIT failed.
Failed(p) == TxRollback(p) /\ Proceed(p, "failed")

\* On to the next file.
Advance(p) ==
  /\ todo' = [todo EXCEPT ![p] = @ \ {First(@)}]
  /\ Goto(p, "lookup")
  /\ UNCHANGED release

-----------------------------------------------------------------------------
\* A process is started with some release, and killed.

Launch(p) ==
  /\ pc[p] \in {"off", "failed"}
  /\ \E r \in Releases :
       /\ release' = [release EXCEPT ![p] = r]
       /\ todo' = [todo EXCEPT ![p] = SqlFiles(r)]
  /\ Goto(p, "ensure")
  /\ UNCHANGED txVars

Kill(p) ==
  /\ pc[p] \notin {"off", "failed"}
  /\ TxRollback(p)
  /\ Proceed(p, "off")

-----------------------------------------------------------------------------
\* Migrate

\* CREATE TABLE IF NOT EXISTS schema_migrations
Ensure(p) ==
  /\ pc[p] = "ensure"
  /\ \/ (Busy(p) \/ (~disk.table /\ CommitBusy(p))) /\ Failed(p)
     \/ disk.table /\ UNCHANGED txVars /\ Proceed(p, "lookup")
     \/ ~disk.table /\ AutoWrite(p, [disk EXCEPT !.table = TRUE]) /\ Proceed(p, "lookup")

\* No file is left.
Finish(p) ==
  /\ pc[p] = "lookup"
  /\ todo[p] = {}
  /\ Proceed(p, "migrated")
  /\ UNCHANGED txVars

\* Fault: checksums are not compared.
Matches_Anything(recorded, content) == TRUE

Matches(recorded, content) == recorded = content

\* The SELECT of the recorded checksum, outside any transaction.
Lookup(p) ==
  LET f == First(todo[p])
      row == disk.recorded[f]
  IN
  /\ pc[p] = "lookup" /\ todo[p] # {}
  /\ \/ Busy(p) /\ Failed(p)
     \/ row # NoRow /\ Matches(row, release[p][f]) /\ Advance(p) /\ UNCHANGED txVars
     \/ row # NoRow /\ ~Matches(row, release[p][f]) /\ Failed(p)
     \/ row = NoRow /\ Proceed(p, "apply") /\ UNCHANGED txVars

\* The tables and columns that f makes are there, or those it alters are not.
Inapplicable(tables, f) ==
  \/ f \in Once /\ Applied(tables, f)
  \/ \E g \in Requires[f] : ~Applied(tables, g)

WithFile(tables, f, content) ==
  [tables EXCEPT !.schema = Append(@, [file |-> f, content |-> content])]

\* Fault: the statements of the file are executed outside the transaction.
Apply_OnItsOwn(p) ==
  LET f == First(todo[p]) IN
  /\ pc[p] = "apply"
  /\ \/ (Busy(p) \/ Inapplicable(disk, f)) /\ Failed(p)
     \/ /\ ~Inapplicable(disk, f)
        /\ IF Applied(disk, f)
           THEN UNCHANGED txVars
           ELSE AutoWrite(p, WithFile(disk, f, release[p][f]))
        /\ Proceed(p, "record")

\* Begin, and the statements of the file.  Another process may have applied it
\* since the lookup: then CREATE TABLE IF NOT EXISTS does nothing.
Apply(p) ==
  LET f == First(todo[p]) IN
  /\ pc[p] = "apply"
  /\ \/ (Busy(p) \/ Inapplicable(disk, f)) /\ Failed(p)
     \/ /\ ~Inapplicable(disk, f)
        /\ IF Applied(disk, f)
           THEN TxRead(p)
           ELSE TxWrite(p, WithFile(cache, f, release[p][f]))
        /\ Proceed(p, "record")

\* Fault: an INSERT OR REPLACE.
Record_Replaces(p) ==
  LET f == First(todo[p]) IN
  /\ pc[p] = "record"
  /\ \/ Busy(p) /\ Failed(p)
     \/ /\ TxWrite(p, [cache EXCEPT !.recorded[f] = release[p][f]])
        /\ Proceed(p, "commit")

\* INSERT INTO schema_migrations: a name that is there already is refused.
Record(p) ==
  LET f == First(todo[p]) IN
  /\ pc[p] = "record"
  /\ \/ (Busy(p) \/ cache.recorded[f] # NoRow) /\ Failed(p)
     \/ /\ cache.recorded[f] = NoRow
        /\ TxWrite(p, [cache EXCEPT !.recorded[f] = release[p][f]])
        /\ Proceed(p, "commit")

Commit(p) ==
  /\ pc[p] = "commit"
  /\ \/ CommitBusy(p) /\ Failed(p)
     \/ TxCommit(p) /\ Advance(p)

Migrate(p) == Ensure(p) \/ Finish(p) \/ Lookup(p) \/ Apply(p) \/ Record(p) \/ Commit(p)

Next == \E p \in Handlers : Launch(p) \/ Kill(p) \/ Migrate(p)

Spec == Init /\ [][Next]_vars

\* A process that runs goes on running; nothing makes anyone start or kill one.
FairSpec == Spec /\ \A p \in Handlers : WF_vars(Migrate(p))

-----------------------------------------------------------------------------
\* Properties

\* Types, and a process that holds the write lock is in a transaction.
TypeOK ==
  /\ disk \in Tables /\ cache \in Tables
  /\ readers \subseteq Handlers
  /\ writer \in {p \in Handlers : pc[p] \in {"record", "commit"}} \union {NoHandler}
  /\ pc \in [Handlers -> {"off", "failed", "ensure", "lookup", "apply", "record", "commit", "migrated"}]
  /\ release \in [Handlers -> Releases]
  /\ todo \in [Handlers -> SUBSET Files]

\* A file has taken effect exactly if it is on record, once, and with the
\* content whose checksum is recorded: wherever a process is killed and
\* however many migrate at once, no file is half done, repeated or forgotten.
RecordedIsApplied ==
  \A f \in Files :
    {disk.schema[n].content : n \in {k \in DOMAIN disk.schema : disk.schema[k].file = f}} =
      {disk.recorded[f]} \ {NoRow}

AppliedOnceInOrder ==
  \A m, n \in DOMAIN disk.schema : m < n => disk.schema[m].file < disk.schema[n].file

\* A process only serves on a schema that has every file of its release, with
\* the very content it brought, for as long as it serves.
MigratedIsComplete ==
  \A p \in Handlers : pc[p] = "migrated" =>
    \A f \in SqlFiles(release[p]) : disk.recorded[f] = release[p][f]

\* What has been applied is never undone, nor put on record differently.
SchemaOnlyGrows ==
  [][/\ \A f \in Files : disk.recorded[f] # NoRow => disk'.recorded[f] = disk.recorded[f]
     /\ \E more \in {SubSeq(disk'.schema, Len(disk.schema) + 1, Len(disk'.schema))} :
          disk'.schema = disk.schema \o more]_vars

Unedited(p) == \A f \in SqlFiles(release[p]) : disk.recorded[f] \in {NoRow, release[p][f]}
Alone(p) == Running \subseteq {p}

\* Whatever earlier starts and kills have left, a process that starts on its
\* own, with no file changed since it was applied, comes through.
LoneStartMigrates ==
  \A p \in Handlers :
    pc[p] = "ensure" /\ Alone(p) /\ Unedited(p)
      ~> pc[p] \in {"migrated", "off"} \/ ~Alone(p)
=============================================================================
