------------------------ MODULE SchemaMigration_proofs ------------------------
(***************************************************************************)
(* Proofs about SchemaMigration for every number of processes, files,      *)
(* contents and releases and both values of ReadLocks.  One inductive      *)
(* invariant carries all its safety properties: the schema of the file is  *)
(* always the first so many migrations, each with the content on record,   *)
(* and the cache of the writer is ahead by the one file it is at.          *)
(***************************************************************************)
EXTENDS SchemaMigration, TLAPS, WellFoundedInduction

Current(p) == First(todo[p])
Content(p) == release[p][Current(p)]

\* The files 1 to Len(t.schema) have taken effect, and just these are on record.
Sound(t) ==
  /\ \A n \in 1..Len(t.schema) : t.schema[n].file = n
  /\ \A f \in Files :
       t.recorded[f] = IF f <= Len(t.schema) THEN t.schema[f].content ELSE NoRow

\* The writer has applied its file, the next one of the schema, ...
Ahead(p) ==
  /\ Len(disk.schema) + 1 = Current(p)
  /\ cache.table = disk.table
  /\ cache.schema = Append(disk.schema, [file |-> Current(p), content |-> Content(p)])

\* ... and then put it on record.
StageOK(p) ==
  /\ pc[p] \notin {"off", "failed"} =>
       /\ todo[p] \subseteq SqlFiles(release[p])
       /\ \A f \in SqlFiles(release[p]) \ todo[p] : disk.recorded[f] = release[p][f]
  /\ pc[p] \in {"apply", "record", "commit"} => todo[p] # {}
  /\ pc[p] = "migrated" => todo[p] = {}
  /\ pc[p] = "record" =>
       IF writer = p
       THEN Ahead(p) /\ cache.recorded = disk.recorded
       ELSE disk.recorded[Current(p)] # NoRow
  /\ pc[p] = "commit" =>
       /\ writer = p /\ Ahead(p)
       /\ cache.recorded = [disk.recorded EXCEPT ![Current(p)] = Content(p)]

IInv ==
  /\ TypeOK
  /\ writer = NoHandler => cache = disk
  /\ Sound(disk)
  /\ \A p \in Handlers : StageOK(p)
-----------------------------------------------------------------------------
USE HandlersAssumption, MigrationAssumption

\* The file that a process is at is the first of those it has to do.
LEMMA FirstIsLeast ==
  ASSUME NEW S \in SUBSET Files, S # {}
  PROVE  First(S) \in S /\ \A g \in S : First(S) <= g
  <1> DEFINE R == OpToRel(<, Nat)
  <1>1. IsWellFoundedOn(R, Nat)
    BY NatLessThanWellFounded
  <1>2. S \subseteq Nat
    BY DEF Files
  <1>3. \A x, y \in Nat : <<x, y>> \in R <=> x < y
    BY DEF OpToRel
  <1> HIDE DEF R
  <1>4. PICK x \in S : \A y \in S : ~ (<<y, x>> \in R)
    BY <1>1, <1>2, WFMin, Zenon
  <1>5. ASSUME NEW y \in S PROVE x <= y
    <2>1. x \in Nat /\ y \in Nat
      BY <1>2
    <2>2. ~ (y < x)
      BY <1>3, <1>4, <2>1
    <2>. QED BY <2>1, <2>2
  <1>. QED BY <1>5 DEF First

\* Tables by their columns.
LEMMA TablesOf ==
  ASSUME NEW t \in Tables
  PROVE  /\ t = [table |-> t.table, recorded |-> t.recorded, schema |-> t.schema]
         /\ t.table \in BOOLEAN
         /\ t.recorded \in [Files -> Contents \union {NoRow}]
         /\ t.schema \in Seq([file : Files, content : Contents])
         /\ Len(t.schema) \in Nat /\ DOMAIN t.schema = 1..Len(t.schema)
         /\ \A n \in 1..Len(t.schema) : t.schema[n] \in [file : Files, content : Contents]
  <1> DEFINE Entry == [file : Files, content : Contents]
  <1>1. t.schema \in Seq(Entry)
    BY DEF Tables
  <1>2. \A sq \in Seq(Entry) :
          /\ Len(sq) \in Nat /\ DOMAIN sq = 1..Len(sq)
          /\ \A n \in 1..Len(sq) : sq[n] \in Entry
    <2> HIDE DEF Entry
    <2>. QED OBVIOUS
  <1>3. /\ t = [table |-> t.table, recorded |-> t.recorded, schema |-> t.schema]
        /\ t.table \in BOOLEAN
        /\ t.recorded \in [Files -> Contents \union {NoRow}]
    BY DEF Tables
  <1>. QED BY <1>1, <1>2, <1>3

\* A file that takes effect is the last of the schema, and not on record yet.
LEMMA FileApplied ==
  ASSUME NEW t \in Tables, NEW f \in Files, NEW c \in Contents
  PROVE  LET u == WithFile(t, f, c) IN
         /\ u \in Tables /\ u.table = t.table /\ u.recorded = t.recorded
         /\ u.schema = Append(t.schema, [file |-> f, content |-> c])
  <1> DEFINE Entry == [file : Files, content : Contents]
             e == [file |-> f, content |-> c]
             u == [table |-> t.table, recorded |-> t.recorded, schema |-> Append(t.schema, e)]
  <1>1. t.schema \in Seq(Entry) /\ e \in Entry
    BY TablesOf
  <1>2. Append(t.schema, e) \in Seq(Entry)
    <2> HIDE DEF Entry, e
    <2>. QED BY <1>1
  <1>3. WithFile(t, f, c) = u
    <2>1. WithFile(t, f, c) = [t EXCEPT !.schema = Append(t.schema, e)]
      BY DEF WithFile
    <2>2. \A x : [t EXCEPT !.schema = x] = [table |-> t.table, recorded |-> t.recorded, schema |-> x]
      BY DEF Tables
    <2>. QED BY <2>1, <2>2
  <1>4. u \in Tables
    BY <1>2, TablesOf DEF Tables
  <1>. QED BY <1>3, <1>4

\* The files in effect are those up to the length of the schema.
LEMMA AppliedUpTo ==
  ASSUME NEW t \in Tables, Sound(t), NEW f \in Files
  PROVE  Applied(t, f) <=> f <= Len(t.schema)
  <1>1. DOMAIN t.schema = 1..Len(t.schema) /\ Len(t.schema) \in Nat
    BY TablesOf
  <1>2. f \in Nat /\ 1 <= f
    BY DEF Files
  <1>3. \A n \in 1..Len(t.schema) : t.schema[n].file = n
    BY DEF Sound
  <1>. QED BY <1>1, <1>2, <1>3 DEF Applied

\* What a running process has brought, and knows to be on record.
LEMMA Brought ==
  ASSUME TypeOK, NEW p \in Handlers, StageOK(p), pc[p] \notin {"off", "failed"}
  PROVE  /\ release[p] \in Releases
         /\ todo[p] \subseteq SqlFiles(release[p])
         /\ \A f \in SqlFiles(release[p]) \ todo[p] : disk.recorded[f] = release[p][f]
         /\ \A f \in SqlFiles(release[p]) : f \in Files /\ release[p][f] \in Contents
  <1>1. release[p] \in Releases
    BY DEF TypeOK
  <1>2. \A f \in SqlFiles(release[p]) : f \in Files /\ release[p][f] \in Contents
    BY <1>1 DEF SqlFiles
  <1>. QED BY <1>1, <1>2 DEF StageOK

\* A process that has a file to do is at one it brought, and the files before
\* it are on record.
LEMMA CurrentFile ==
  ASSUME TypeOK, NEW p \in Handlers, StageOK(p),
         pc[p] \notin {"off", "failed"}, todo[p] # {}
  PROVE  /\ Current(p) \in todo[p] /\ Current(p) \in Files /\ Content(p) \in Contents
         /\ \A g \in 1..(Current(p) - 1) :
              g \in Files /\ disk.recorded[g] = release[p][g] /\ release[p][g] \in Contents
  <1>1. /\ todo[p] \subseteq SqlFiles(release[p])
        /\ \A f \in SqlFiles(release[p]) \ todo[p] : disk.recorded[f] = release[p][f]
        /\ release[p] \in Releases
    BY Brought
  <1>2. todo[p] \in SUBSET Files
    BY <1>1 DEF SqlFiles
  <1>3. Current(p) \in todo[p] /\ \A g \in todo[p] : Current(p) <= g
    BY <1>2, FirstIsLeast DEF Current
  <1>4. \A f \in SqlFiles(release[p]) : f \in Files /\ release[p][f] \in Contents
    BY Brought
  <1>5. ASSUME NEW g \in 1..(Current(p) - 1) PROVE g \in SqlFiles(release[p]) \ todo[p]
    <2>1. Current(p) \in Files /\ Current(p) \in Nat /\ Last \in Nat
      BY <1>2, <1>3 DEF Files
    <2>2. g \in 1..Current(p) /\ g \in Files /\ ~ (Current(p) <= g)
      BY <2>1 DEF Files
    <2>3. release[p][Current(p)] # Absent
      BY <1>1, <1>3 DEF SqlFiles
    <2>4. release[p][g] # Absent
      BY <1>1, <2>1, <2>2, <2>3
    <2>. QED BY <1>3, <2>2, <2>4 DEF SqlFiles
  <1>. QED BY <1>1, <1>2, <1>3, <1>4, <1>5 DEF Content

\* Where nothing is on record of the file that a process is at, it is the next
\* one of the schema.
LEMMA NextInSchema ==
  ASSUME IInv, NEW p \in Handlers, pc[p] \notin {"off", "failed"}, todo[p] # {},
         disk.recorded[Current(p)] = NoRow \/ ~Applied(disk, Current(p))
  PROVE  Len(disk.schema) + 1 = Current(p)
  <1>1. /\ Current(p) \in Files
        /\ \A g \in 1..(Current(p) - 1) : g \in Files /\ disk.recorded[g] \in Contents
    BY CurrentFile DEF IInv
  <1>2. disk \in Tables /\ Sound(disk) /\ Len(disk.schema) \in Nat
    BY TablesOf DEF IInv, TypeOK
  <1>3. ~ (Current(p) <= Len(disk.schema))
    <2>1. CASE ~Applied(disk, Current(p))
      BY <1>1, <1>2, <2>1, AppliedUpTo
    <2>2. CASE disk.recorded[Current(p)] = NoRow
      <3>1. SUFFICES ASSUME Current(p) <= Len(disk.schema) PROVE FALSE
        OBVIOUS
      <3>2. disk.recorded[Current(p)] = disk.schema[Current(p)].content
        BY <1>1, <1>2, <3>1 DEF Sound
      <3>3. disk.schema[Current(p)].content \in Contents
        BY <1>1, <1>2, <3>1, TablesOf DEF Files
      <3>. QED BY <2>2, <3>2, <3>3
    <2>. QED BY <2>1, <2>2
  <1>4. CASE Current(p) = 1
    BY <1>2, <1>3, <1>4
  <1>5. CASE Current(p) # 1
    <2>1. Current(p) - 1 \in 1..(Current(p) - 1)
      BY <1>1, <1>5 DEF Files
    <2>2. Current(p) - 1 \in Files /\ disk.recorded[Current(p) - 1] # NoRow
      BY <1>1, <2>1
    <2>3. Current(p) - 1 <= Len(disk.schema)
      BY <1>2, <2>2 DEF Sound
    <2>. QED BY <1>1, <1>2, <1>3, <2>3 DEF Files
  <1>. QED BY <1>4, <1>5

\* A step of another process changes nothing of what a process relies on, as
\* long as records stay and the writer's tables are left alone.
LEMMA OtherProcess ==
  ASSUME TypeOK, NEW q \in Handlers, StageOK(q),
         pc'[q] = pc[q], release'[q] = release[q], todo'[q] = todo[q],
         \A f \in Files : disk.recorded[f] # NoRow => disk'.recorded[f] = disk.recorded[f],
         writer = q => writer' = q /\ disk' = disk /\ cache' = cache,
         writer' = q => writer = q
  PROVE  StageOK(q)'
  <1>1. Current(q)' = Current(q) /\ Content(q)' = Content(q)
    BY DEF Current, Content
  <1>2. pc[q] \notin {"off", "failed"} =>
          \A f \in SqlFiles(release[q]) \ todo[q] : f \in Files /\ release[q][f] \in Contents
    BY DEF TypeOK, SqlFiles
  <1>3. pc[q] = "record" => Current(q) \in Files
    BY CurrentFile DEF StageOK
  <1>4. writer = q => (Ahead(q) => Ahead(q)')
    BY <1>1 DEF Ahead
  <1>. QED BY <1>1, <1>2, <1>3, <1>4 DEF StageOK
-----------------------------------------------------------------------------
\* The initial states: no file is in effect and nobody has run.
LEMMA InitIInv == Init => IInv
  <1> SUFFICES ASSUME Init PROVE IInv
    OBVIOUS
  <1>1. /\ disk.schema = <<>> /\ disk.recorded = [f \in Files |-> NoRow] /\ disk.table = FALSE
        /\ disk = [table |-> FALSE, recorded |-> [f \in Files |-> NoRow], schema |-> <<>>]
    BY DEF Init
  <1>2. disk \in Tables
    BY <1>1 DEF Tables
  <1>3. Sound(disk)
    BY <1>1 DEF Sound, Files
  <1>4. TypeOK
    BY <1>2 DEF Init, TypeOK
  <1>5. \A p \in Handlers : StageOK(p)
    BY DEF Init, StageOK
  <1>. QED BY <1>3, <1>4, <1>5 DEF Init, IInv

\* A process that ends rolls its transaction back.
LEMMA Ended ==
  ASSUME IInv, NEW p \in Handlers, NEW l \in {"off", "failed"},
         TxRollback(p), Proceed(p, l)
  PROVE  IInv'
  <1>1. /\ disk' = disk /\ cache' = (IF writer = p THEN disk ELSE cache)
        /\ writer' = (IF writer = p THEN NoHandler ELSE writer)
        /\ readers' \subseteq Handlers
        /\ pc' = [pc EXCEPT ![p] = l] /\ release' = release /\ todo' = todo
    BY DEF IInv, TypeOK, TxRollback, Proceed, Goto
  <1>2. TypeOK'
    BY <1>1 DEF IInv, TypeOK
  <1>3. writer' = NoHandler => cache' = disk'
    BY <1>1 DEF IInv
  <1>4. ASSUME NEW q \in Handlers PROVE StageOK(q)'
    <2>1. CASE q = p
      BY <1>1, <2>1 DEF IInv, TypeOK, StageOK
    <2>2. CASE q # p
      <3>1. pc'[q] = pc[q] /\ (writer = q => writer' = q /\ cache' = cache) /\ (writer' = q => writer = q)
        BY <1>1, <2>2 DEF IInv, TypeOK
      <3>. QED BY <1>1, <3>1, OtherProcess DEF IInv
    <2>. QED BY <2>1, <2>2
  <1>5. Sound(disk)'
    BY <1>1 DEF IInv, Sound
  <1>. QED BY <1>2, <1>3, <1>4, <1>5 DEF IInv

\* A process is started.
LEMMA LaunchIInv ==
  ASSUME IInv, NEW p \in Handlers, Launch(p)
  PROVE  IInv'
  <1>1. PICK r \in Releases :
          /\ release' = [release EXCEPT ![p] = r]
          /\ todo' = [todo EXCEPT ![p] = SqlFiles(r)]
    BY DEF Launch
  <1>2. /\ disk' = disk /\ cache' = cache /\ writer' = writer /\ readers' = readers
        /\ pc' = [pc EXCEPT ![p] = "ensure"] /\ pc[p] \in {"off", "failed"}
    BY DEF Launch, Goto, txVars
  <1>3. TypeOK'
    BY <1>1, <1>2 DEF IInv, TypeOK, SqlFiles
  <1>4. ASSUME NEW q \in Handlers PROVE StageOK(q)'
    <2>1. CASE q = p
      <3>1. pc'[p] = "ensure" /\ todo'[p] = SqlFiles(r) /\ release'[p] = r
        BY <1>1, <1>2 DEF IInv, TypeOK
      <3>. QED BY <2>1, <3>1 DEF StageOK
    <2>2. CASE q # p
      BY <1>1, <1>2, <2>2, OtherProcess DEF IInv, TypeOK
    <2>. QED BY <2>1, <2>2
  <1>. QED BY <1>2, <1>3, <1>4 DEF IInv, Sound

\* The table of records is created or found.
LEMMA EnsureIInv ==
  ASSUME IInv, NEW p \in Handlers, Ensure(p)
  PROVE  IInv'
  <1>1. CASE Failed(p)
    BY <1>1, Ended DEF Failed
  <1>2. CASE /\ UNCHANGED txVars \/ AutoWrite(p, [disk EXCEPT !.table = TRUE])
             /\ Proceed(p, "lookup")
    <2>1. pc[p] = "ensure" /\ pc' = [pc EXCEPT ![p] = "lookup"] /\ release' = release /\ todo' = todo
      BY <1>2 DEF Ensure, Proceed, Goto
    <2>2. /\ disk' \in Tables /\ disk'.recorded = disk.recorded /\ disk'.schema = disk.schema
          /\ cache' \in Tables /\ writer' = writer /\ readers' = readers
          /\ writer' = NoHandler => cache' = disk'
          /\ writer # NoHandler => disk' = disk /\ cache' = cache
      BY <1>2 DEF IInv, TypeOK, Tables, AutoWrite, CanAutoWrite, txVars
    <2>3. TypeOK'
      BY <2>1, <2>2 DEF IInv, TypeOK
    <2>4. ASSUME NEW q \in Handlers PROVE StageOK(q)'
      <3>1. CASE q = p
        <4>1. pc'[p] = "lookup" /\ todo'[p] = todo[p] /\ release'[p] = release[p]
          BY <2>1 DEF IInv, TypeOK
        <4>2. /\ todo[p] \subseteq SqlFiles(release[p])
              /\ \A f \in SqlFiles(release[p]) \ todo[p] : disk'.recorded[f] = release[p][f]
          BY <2>1, <2>2, Brought DEF IInv
        <4>. QED BY <3>1, <4>1, <4>2 DEF StageOK
      <3>2. CASE q # p
        <4>1. pc'[q] = pc[q] /\ (writer = q => writer # NoHandler)
          BY <2>1, <3>2 DEF IInv, TypeOK
        <4>. QED BY <2>1, <2>2, <4>1, OtherProcess DEF IInv
      <3>. QED BY <3>1, <3>2
    <2>5. Sound(disk)'
      BY <2>2 DEF IInv, Sound
    <2>. QED BY <2>2, <2>3, <2>4, <2>5 DEF IInv
  <1>. QED BY <1>1, <1>2 DEF Ensure

\* A process gets its next file behind it, or is done.
LEMMA FinishIInv ==
  ASSUME IInv, NEW p \in Handlers, Finish(p)
  PROVE  IInv'
  <1>1. /\ disk' = disk /\ cache' = cache /\ writer' = writer /\ readers' = readers
        /\ pc' = [pc EXCEPT ![p] = "migrated"] /\ pc[p] = "lookup" /\ todo[p] = {}
        /\ release' = release /\ todo' = todo
    BY DEF Finish, Proceed, Goto, txVars
  <1>2. TypeOK'
    BY <1>1 DEF IInv, TypeOK
  <1>3. ASSUME NEW q \in Handlers PROVE StageOK(q)'
    <2>1. CASE q = p
      BY <1>1, <2>1 DEF IInv, TypeOK, StageOK
    <2>2. CASE q # p
      BY <1>1, <2>2, OtherProcess DEF IInv, TypeOK
    <2>. QED BY <2>1, <2>2
  <1>. QED BY <1>1, <1>2, <1>3 DEF IInv, Sound

\* What Advance does to the process: the file that it was at is behind it.
LEMMA Advanced ==
  ASSUME IInv, NEW p \in Handlers, pc[p] \notin {"off", "failed"}, todo[p] # {},
         Advance(p), disk' \in Tables,
         \A f \in Files : disk.recorded[f] # NoRow => disk'.recorded[f] = disk.recorded[f],
         disk'.recorded[Current(p)] = Content(p)
  PROVE  /\ StageOK(p)'
         /\ pc' = [pc EXCEPT ![p] = "lookup"] /\ release' = release
         /\ todo' = [todo EXCEPT ![p] = todo[p] \ {Current(p)}]
         /\ todo' \in [Handlers -> SUBSET Files]
  <1>1. /\ pc' = [pc EXCEPT ![p] = "lookup"] /\ release' = release
        /\ todo' = [todo EXCEPT ![p] = todo[p] \ {Current(p)}]
        /\ todo' \in [Handlers -> SUBSET Files]
    BY DEF Advance, Goto, Current, IInv, TypeOK
  <1>2. pc'[p] = "lookup" /\ todo'[p] = todo[p] \ {Current(p)} /\ release'[p] = release[p]
    BY <1>1 DEF IInv, TypeOK
  <1>3. /\ todo[p] \subseteq SqlFiles(release[p])
        /\ \A f \in SqlFiles(release[p]) \ todo[p] : disk.recorded[f] = release[p][f]
        /\ \A f \in SqlFiles(release[p]) : f \in Files /\ release[p][f] # NoRow
    BY Brought DEF IInv
  <1>4. ASSUME NEW f \in SqlFiles(release[p]) \ (todo[p] \ {Current(p)})
        PROVE  disk'.recorded[f] = release[p][f]
    <2>1. CASE f = Current(p)
      BY <2>1 DEF Content
    <2>2. CASE f # Current(p)
      BY <1>3, <2>2
    <2>. QED BY <2>1, <2>2
  <1>. QED BY <1>1, <1>2, <1>3, <1>4 DEF StageOK

\* A file is looked up in the records.
LEMMA LookupIInv ==
  ASSUME IInv, NEW p \in Handlers, Lookup(p)
  PROVE  IInv'
  <1>1. pc[p] = "lookup" /\ todo[p] # {}
    BY DEF Lookup
  <1>2. CASE Failed(p)
    BY <1>2, Ended DEF Failed
  <1>3. ASSUME UNCHANGED txVars, \A q \in Handlers : q # p =>
                 pc'[q] = pc[q] /\ release'[q] = release[q] /\ todo'[q] = todo[q],
               TypeOK', StageOK(p)'
        PROVE  IInv'
    <2>1. ASSUME NEW q \in Handlers PROVE StageOK(q)'
      BY <1>3, OtherProcess DEF IInv, txVars
    <2>. QED BY <1>3, <2>1 DEF IInv, Sound, txVars
  <1>4. CASE /\ disk.recorded[Current(p)] = Content(p)
             /\ Advance(p) /\ UNCHANGED txVars
    <2>1. /\ StageOK(p)'
          /\ pc' = [pc EXCEPT ![p] = "lookup"] /\ release' = release
          /\ todo' = [todo EXCEPT ![p] = todo[p] \ {Current(p)}]
          /\ todo' \in [Handlers -> SUBSET Files]
      BY <1>1, <1>4, Advanced DEF IInv, TypeOK, txVars
    <2>2. TypeOK'
      BY <1>1, <1>4, <2>1 DEF IInv, TypeOK, txVars
    <2>. QED BY <1>3, <1>4, <2>1, <2>2 DEF IInv, TypeOK
  <1>5. CASE Proceed(p, "apply") /\ UNCHANGED txVars
    <2>1. pc' = [pc EXCEPT ![p] = "apply"] /\ release' = release /\ todo' = todo
      BY <1>5 DEF Proceed, Goto
    <2>2. TypeOK'
      BY <1>1, <1>5, <2>1 DEF IInv, TypeOK, txVars
    <2>3. StageOK(p)'
      BY <1>1, <1>5, <2>1 DEF IInv, TypeOK, StageOK, txVars
    <2>. QED BY <1>3, <1>5, <2>1, <2>2, <2>3 DEF IInv, TypeOK
  <1>. QED BY <1>2, <1>4, <1>5 DEF Lookup, Matches, Current, Content

\* A file's statements are executed, or find all their work done.
LEMMA ApplyIInv ==
  ASSUME IInv, NEW p \in Handlers, Apply(p)
  PROVE  IInv'
  <1>1. pc[p] = "apply" /\ todo[p] # {}
    BY DEF Apply, IInv, StageOK
  <1>2. CASE Failed(p)
    BY <1>2, Ended DEF Failed
  <1>3. Current(p) \in Files /\ Content(p) \in Contents
    BY <1>1, CurrentFile DEF IInv
  <1>4. CASE Applied(disk, Current(p)) /\ TxRead(p) /\ Proceed(p, "record")
    <2>1. /\ disk' = disk /\ cache' = cache /\ writer' = writer /\ readers' \subseteq Handlers
          /\ pc' = [pc EXCEPT ![p] = "record"] /\ release' = release /\ todo' = todo
      BY <1>4 DEF TxRead, Proceed, Goto, IInv, TypeOK
    <2>2. TypeOK'
      BY <1>1, <2>1 DEF IInv, TypeOK
    <2>3. writer # p
      BY <1>1 DEF IInv, TypeOK
    <2>4. disk.recorded[Current(p)] # NoRow
      <3>1. Current(p) <= Len(disk.schema) /\ Sound(disk) /\ disk \in Tables
        BY <1>3, <1>4, AppliedUpTo DEF IInv, TypeOK
      <3>2. Current(p) \in 1..Len(disk.schema)
        BY <1>3, <3>1, TablesOf DEF Files
      <3>3. disk.schema[Current(p)].content \in Contents
        BY <3>1, <3>2, TablesOf
      <3>. QED BY <1>3, <3>1, <3>3 DEF Sound
    <2>5. ASSUME NEW q \in Handlers PROVE StageOK(q)'
      <3>1. CASE q = p
        <4>1. pc'[p] = "record" /\ Current(p)' = Current(p)
          BY <2>1 DEF IInv, TypeOK, Current
        <4>. QED BY <1>1, <2>1, <2>3, <2>4, <3>1, <4>1 DEF IInv, StageOK
      <3>2. CASE q # p
        BY <2>1, <3>2, OtherProcess DEF IInv, TypeOK
      <3>. QED BY <3>1, <3>2
    <2>. QED BY <2>1, <2>2, <2>5 DEF IInv, Sound
  <1>5. CASE /\ ~Applied(disk, Current(p))
             /\ TxWrite(p, WithFile(cache, Current(p), Content(p)))
             /\ Proceed(p, "record")
    <2>1. /\ disk' = disk /\ cache' = WithFile(cache, Current(p), Content(p))
          /\ writer' = p /\ readers' \subseteq Handlers /\ writer \in {p, NoHandler}
          /\ pc' = [pc EXCEPT ![p] = "record"] /\ release' = release /\ todo' = todo
      BY <1>5 DEF TxWrite, CanWrite, Proceed, Goto, IInv, TypeOK
    <2>2. writer = NoHandler /\ cache = disk
      BY <1>1, <2>1 DEF IInv, TypeOK
    <2>3. /\ cache'.table = disk.table /\ cache'.recorded = disk.recorded
          /\ cache'.schema = Append(disk.schema, [file |-> Current(p), content |-> Content(p)])
          /\ cache' \in Tables
      <3>1. disk \in Tables
        BY DEF IInv, TypeOK
      <3>. QED BY <1>3, <2>1, <2>2, <3>1, FileApplied
    <2>4. Len(disk.schema) + 1 = Current(p)
      BY <1>1, <1>5, NextInSchema
    <2>5. TypeOK'
      BY <1>1, <2>1, <2>3 DEF IInv, TypeOK
    <2>6. ASSUME NEW q \in Handlers PROVE StageOK(q)'
      <3>1. CASE q = p
        <4>1. /\ pc'[p] = "record" /\ Current(p)' = Current(p) /\ Content(p)' = Content(p)
              /\ todo'[p] = todo[p] /\ release'[p] = release[p]
          BY <2>1 DEF IInv, TypeOK, Current, Content
        <4>2. Ahead(p)'
          BY <2>1, <2>3, <2>4, <4>1 DEF Ahead
        <4>. QED BY <1>1, <2>1, <2>3, <3>1, <4>1, <4>2 DEF IInv, StageOK
      <3>2. CASE q # p
        BY <2>1, <2>2, <3>2, OtherProcess DEF IInv, TypeOK
      <3>. QED BY <3>1, <3>2
    <2>7. writer' # NoHandler
      BY <2>1
    <2>. QED BY <2>1, <2>5, <2>6, <2>7 DEF IInv, Sound
  <1>. QED BY <1>2, <1>4, <1>5 DEF Apply, Current, Content

\* The writer puts its file on record; whose file was done before is refused.
LEMMA RecordIInv ==
  ASSUME IInv, NEW p \in Handlers, Record(p)
  PROVE  IInv'
  <1>1. pc[p] = "record" /\ todo[p] # {}
    BY DEF Record, IInv, StageOK
  <1>2. CASE Failed(p)
    BY <1>2, Ended DEF Failed
  <1>3. Current(p) \in Files /\ Content(p) \in Contents
    BY <1>1, CurrentFile DEF IInv
  <1>4. CASE /\ cache.recorded[Current(p)] = NoRow
             /\ TxWrite(p, [cache EXCEPT !.recorded[Current(p)] = Content(p)])
             /\ Proceed(p, "commit")
    <2>1. /\ disk' = disk /\ cache' = [cache EXCEPT !.recorded[Current(p)] = Content(p)]
          /\ writer' = p /\ readers' \subseteq Handlers /\ writer \in {p, NoHandler}
          /\ pc' = [pc EXCEPT ![p] = "commit"] /\ release' = release /\ todo' = todo
      BY <1>4 DEF TxWrite, CanWrite, Proceed, Goto, IInv, TypeOK
    <2>2. writer = p
      BY <1>1, <1>4, <2>1 DEF IInv, StageOK
    <2>3. Ahead(p) /\ cache.recorded = disk.recorded
      BY <1>1, <2>2 DEF IInv, StageOK
    <2>4. /\ cache' \in Tables /\ cache'.table = cache.table /\ cache'.schema = cache.schema
          /\ cache'.recorded = [disk.recorded EXCEPT ![Current(p)] = Content(p)]
      BY <1>3, <2>1, <2>3 DEF IInv, TypeOK, Tables
    <2>5. TypeOK'
      BY <1>1, <2>1, <2>4 DEF IInv, TypeOK
    <2>6. ASSUME NEW q \in Handlers PROVE StageOK(q)'
      <3>1. CASE q = p
        <4>1. /\ pc'[p] = "commit" /\ Current(p)' = Current(p) /\ Content(p)' = Content(p)
              /\ todo'[p] = todo[p] /\ release'[p] = release[p]
          BY <2>1 DEF IInv, TypeOK, Current, Content
        <4>2. Ahead(p)'
          BY <2>1, <2>3, <2>4, <4>1 DEF Ahead
        <4>3. /\ todo[p] \subseteq SqlFiles(release[p])
              /\ \A f \in SqlFiles(release[p]) \ todo[p] : disk'.recorded[f] = release[p][f]
          BY <1>1, <2>1, Brought DEF IInv
        <4>4. cache'.recorded = [disk'.recorded EXCEPT ![Current(p)'] = Content(p)']
          BY <2>1, <2>4, <4>1
        <4>. QED BY <1>1, <2>1, <3>1, <4>1, <4>2, <4>3, <4>4 DEF StageOK
      <3>2. CASE q # p
        BY <2>1, <2>2, <3>2, OtherProcess DEF IInv, TypeOK
      <3>. QED BY <3>1, <3>2
    <2>7. writer' # NoHandler
      BY <2>1
    <2>. QED BY <2>1, <2>5, <2>6, <2>7 DEF IInv, Sound
  <1>. QED BY <1>2, <1>4 DEF Record, Current, Content

\* At its commit the writer's cache holds the next file of the schema.
LEMMA CommitIsNext ==
  ASSUME IInv, NEW p \in Handlers, pc[p] = "commit"
  PROVE  /\ Current(p) \in Files /\ Content(p) \in Contents
         /\ disk.recorded[Current(p)] = NoRow
         /\ cache.recorded = [disk.recorded EXCEPT ![Current(p)] = Content(p)]
         /\ cache.schema = Append(disk.schema, [file |-> Current(p), content |-> Content(p)])
         /\ Sound(cache)
  <1>1. /\ Ahead(p) /\ todo[p] # {}
        /\ cache.recorded = [disk.recorded EXCEPT ![Current(p)] = Content(p)]
    BY DEF IInv, StageOK
  <1>2. Current(p) \in Files /\ Content(p) \in Contents /\ Current(p) \in Nat
    BY <1>1, CurrentFile DEF IInv, Files
  <1>3. disk \in Tables /\ Sound(disk)
    BY DEF IInv, TypeOK
  <1>4. disk.recorded[Current(p)] = NoRow
    BY <1>1, <1>2, <1>3, TablesOf DEF Ahead, Sound
  <1> DEFINE Entry == [file : Files, content : Contents]
             e == [file |-> Current(p), content |-> Content(p)]
  <1>5. /\ cache.schema = Append(disk.schema, e) /\ e \in Entry /\ disk.schema \in Seq(Entry)
        /\ Len(disk.schema) + 1 = Current(p)
    BY <1>1, <1>2, <1>3, TablesOf DEF Ahead
  <1>6. /\ Len(cache.schema) = Current(p) /\ Len(disk.schema) \in Nat
        /\ cache.schema[Current(p)] = e
        /\ \A n \in 1..Len(disk.schema) : cache.schema[n] = disk.schema[n]
    <2> HIDE DEF Entry, e
    <2>. QED BY <1>5
  <1>7. ASSUME NEW n \in 1..Len(cache.schema) PROVE cache.schema[n].file = n
    <2>1. CASE n = Current(p)
      BY <1>6, <2>1
    <2>2. CASE n # Current(p)
      BY <1>2, <1>3, <1>5, <1>6, <2>2 DEF Sound
    <2>. QED BY <2>1, <2>2
  <1>8. ASSUME NEW f \in Files
        PROVE  cache.recorded[f] =
                 IF f <= Len(cache.schema) THEN cache.schema[f].content ELSE NoRow
    <2>1. f \in Nat /\ 1 <= f
      BY DEF Files
    <2>2. CASE f = Current(p)
      <3>1. cache.recorded[f] = Content(p)
        BY <1>1, <1>2, <1>3, <2>2, TablesOf
      <3>. QED BY <1>2, <1>6, <2>1, <2>2, <3>1
    <2>3. CASE f # Current(p)
      <3>1. cache.recorded[f] = disk.recorded[f]
        BY <1>1, <1>2, <1>3, <2>3, TablesOf
      <3>2. f <= Len(cache.schema) <=> f <= Len(disk.schema)
        BY <1>2, <1>5, <1>6, <2>1, <2>3
      <3>3. f <= Len(disk.schema) => cache.schema[f] = disk.schema[f]
        BY <1>6, <2>1
      <3>. QED BY <1>3, <3>1, <3>2, <3>3 DEF Sound
    <2>. QED BY <2>2, <2>3
  <1>9. Sound(cache)
    BY <1>7, <1>8 DEF Sound
  <1>. QED BY <1>1, <1>2, <1>4, <1>5, <1>9

\* The transaction of a file is committed.
LEMMA CommitIInv ==
  ASSUME IInv, NEW p \in Handlers, Commit(p)
  PROVE  IInv'
  <1>1. pc[p] = "commit" /\ todo[p] # {} /\ writer = p
    BY DEF Commit, IInv, StageOK
  <1>2. CASE Failed(p)
    BY <1>2, Ended DEF Failed
  <1>3. CASE TxCommit(p) /\ Advance(p)
    <2>1. /\ disk' = cache /\ cache' = cache /\ writer' = NoHandler
          /\ readers' \subseteq Handlers
      BY <1>3 DEF TxCommit, IInv, TypeOK
    <2>2. /\ \A f \in Files : disk.recorded[f] # NoRow => disk'.recorded[f] = disk.recorded[f]
          /\ disk'.recorded[Current(p)] = Content(p)
          /\ disk' \in Tables /\ Sound(disk')
      <3>1. disk \in Tables /\ cache \in Tables
        BY DEF IInv, TypeOK
      <3>2. /\ Current(p) \in Files /\ Content(p) \in Contents
            /\ disk.recorded[Current(p)] = NoRow
            /\ cache.recorded = [disk.recorded EXCEPT ![Current(p)] = Content(p)]
            /\ Sound(cache)
        BY <1>1, CommitIsNext
      <3>3. disk.recorded \in [Files -> Contents \union {NoRow}]
        BY <3>1, TablesOf
      <3>4. /\ \A f \in Files : disk.recorded[f] # NoRow => cache.recorded[f] = disk.recorded[f]
            /\ cache.recorded[Current(p)] = Content(p)
        BY <3>2, <3>3
      <3>. QED BY <2>1, <3>1, <3>2, <3>4
    <2>3. /\ StageOK(p)'
          /\ pc' = [pc EXCEPT ![p] = "lookup"] /\ release' = release
          /\ todo' = [todo EXCEPT ![p] = todo[p] \ {Current(p)}]
          /\ todo' \in [Handlers -> SUBSET Files]
      BY <1>1, <1>3, <2>2, Advanced
    <2>4. TypeOK'
      BY <2>1, <2>2, <2>3 DEF IInv, TypeOK
    <2>5. ASSUME NEW q \in Handlers, q # p PROVE StageOK(q)'
      <3>1. /\ pc'[q] = pc[q] /\ release'[q] = release[q] /\ todo'[q] = todo[q]
            /\ writer # q /\ writer' # q
        BY <1>1, <2>1, <2>3, <2>5 DEF IInv, TypeOK
      <3>. QED BY <2>2, <3>1, OtherProcess DEF IInv
    <2>6. Sound(disk)'
      BY <2>2 DEF Sound
    <2>. QED BY <2>1, <2>3, <2>4, <2>5, <2>6 DEF IInv
  <1>. QED BY <1>2, <1>3 DEF Commit

\* The invariant is inductive.
LEMMA NextIInv == IInv /\ [Next]_vars => IInv'
  <1> SUFFICES ASSUME IInv, [Next]_vars PROVE IInv'
    OBVIOUS
  <1>1. CASE UNCHANGED vars
    <2>1. TypeOK'
      BY <1>1 DEF vars, IInv, TypeOK
    <2>2. ASSUME NEW q \in Handlers PROVE StageOK(q)'
      BY <1>1, OtherProcess DEF vars, IInv
    <2>. QED BY <1>1, <2>1, <2>2 DEF vars, IInv, Sound
  <1>2. ASSUME NEW p \in Handlers, Launch(p) PROVE IInv'
    BY <1>2, LaunchIInv
  <1>3. ASSUME NEW p \in Handlers, Kill(p) PROVE IInv'
    BY <1>3, Ended DEF Kill
  <1>4. ASSUME NEW p \in Handlers, Migrate(p) PROVE IInv'
    BY <1>4, EnsureIInv, FinishIInv, LookupIInv, ApplyIInv, RecordIInv, CommitIInv DEF Migrate
  <1>. QED BY <1>1, <1>2, <1>3, <1>4 DEF Next

\* The invariant of the whole: at every moment of any number of starts and
\* kills the file holds the first so many migrations, recorded as applied.
THEOREM SpecIInv == Spec => []IInv
  BY InitIInv, NextIInv, PTL DEF Spec
-----------------------------------------------------------------------------
\* Types, and only a process inside a transaction holds the write lock.
THEOREM SpecTypeOK == Spec => []TypeOK
  <1>1. IInv => TypeOK
    BY DEF IInv
  <1>. QED BY <1>1, SpecIInv, PTL

\* A file has taken effect exactly if it is on record, with that content, for
\* any number of processes, files and releases.
THEOREM SpecRecordedIsApplied == Spec => []RecordedIsApplied
  <1>1. ASSUME IInv PROVE RecordedIsApplied
    <2>1. disk \in Tables /\ Sound(disk)
      BY <1>1 DEF IInv, TypeOK
    <2>2. DOMAIN disk.schema = 1..Len(disk.schema) /\ Len(disk.schema) \in Nat
      BY <2>1, TablesOf
    <2>3. SUFFICES ASSUME NEW f \in Files
          PROVE  {disk.schema[n].content : n \in {k \in DOMAIN disk.schema : disk.schema[k].file = f}}
                   = {disk.recorded[f]} \ {NoRow}
      BY DEF RecordedIsApplied
    <2>4. f \in Nat /\ 1 <= f
      BY DEF Files
    <2>5. CASE f <= Len(disk.schema)
      <3>1. {k \in DOMAIN disk.schema : disk.schema[k].file = f} = {f}
        BY <2>1, <2>2, <2>4, <2>5 DEF Sound
      <3>2. disk.recorded[f] = disk.schema[f].content
        BY <2>1, <2>5 DEF Sound
      <3>3. disk.schema[f].content # NoRow
        BY <2>1, <2>2, <2>4, <2>5, TablesOf
      <3>. QED BY <3>1, <3>2, <3>3
    <2>6. CASE ~ (f <= Len(disk.schema))
      <3>1. {k \in DOMAIN disk.schema : disk.schema[k].file = f} = {}
        BY <2>1, <2>2, <2>4, <2>6 DEF Sound
      <3>2. disk.recorded[f] = NoRow
        BY <2>1, <2>6 DEF Sound
      <3>. QED BY <3>1, <3>2
    <2>. QED BY <2>5, <2>6
  <1>. QED BY <1>1, SpecIInv, PTL

\* No file takes effect twice or before one that sorts before it.
THEOREM SpecAppliedOnceInOrder == Spec => []AppliedOnceInOrder
  <1>1. ASSUME IInv PROVE AppliedOnceInOrder
    <2>1. disk \in Tables /\ Sound(disk)
      BY <1>1 DEF IInv, TypeOK
    <2>2. DOMAIN disk.schema = 1..Len(disk.schema) /\ Len(disk.schema) \in Nat
      BY <2>1, TablesOf
    <2>3. \A n \in DOMAIN disk.schema : disk.schema[n].file = n
      BY <2>1, <2>2 DEF Sound
    <2>. QED BY <2>2, <2>3 DEF AppliedOnceInOrder
  <1>. QED BY <1>1, SpecIInv, PTL

\* A process that serves has every file of its release in the schema as it
\* brought it, whatever other releases run beside it.
THEOREM SpecMigratedIsComplete == Spec => []MigratedIsComplete
  <1>1. ASSUME IInv PROVE MigratedIsComplete
    <2>1. ASSUME NEW p \in Handlers, pc[p] = "migrated", NEW f \in SqlFiles(release[p])
          PROVE  disk.recorded[f] = release[p][f]
      BY <1>1, <2>1 DEF IInv, StageOK
    <2>. QED BY <2>1 DEF MigratedIsComplete
  <1>. QED BY <1>1, SpecIInv, PTL
-----------------------------------------------------------------------------
\* The committed tables change in two ways only.
LEMMA DiskStep ==
  ASSUME IInv, [Next]_vars
  PROVE  \/ disk'.recorded = disk.recorded /\ disk'.schema = disk.schema
         \/ \E p \in Handlers : pc[p] = "commit" /\ disk' = cache
  <1>1. CASE UNCHANGED vars
    BY <1>1 DEF vars
  <1>2. ASSUME NEW p \in Handlers, Launch(p) \/ Kill(p) PROVE disk' = disk
    BY <1>2 DEF Launch, Kill, TxRollback, txVars
  <1>3. ASSUME NEW p \in Handlers, Ensure(p)
        PROVE  disk'.recorded = disk.recorded /\ disk'.schema = disk.schema
    BY <1>3 DEF Ensure, Failed, TxRollback, AutoWrite, txVars, IInv, TypeOK, Tables
  <1>4. ASSUME NEW p \in Handlers, Finish(p) \/ Lookup(p) \/ Apply(p) \/ Record(p)
        PROVE  disk' = disk
    BY <1>4 DEF Finish, Lookup, Apply, Record, Failed, TxRollback, TxRead, TxWrite, txVars
  <1>5. ASSUME NEW p \in Handlers, Commit(p)
        PROVE  disk' = disk \/ (pc[p] = "commit" /\ disk' = cache)
    BY <1>5 DEF Commit, Failed, TxRollback, TxCommit
  <1>. QED BY <1>1, <1>2, <1>3, <1>4, <1>5 DEF Next, Migrate

\* What is on record and in effect stays, through every step of every process.
THEOREM SpecSchemaOnlyGrows == Spec => SchemaOnlyGrows
  <1> DEFINE Grows ==
        /\ \A f \in Files : disk.recorded[f] # NoRow => disk'.recorded[f] = disk.recorded[f]
        /\ \E more \in {SubSeq(disk'.schema, Len(disk.schema) + 1, Len(disk'.schema))} :
             disk'.schema = disk.schema \o more
      Entry == [file : Files, content : Contents]
  <1>1. ASSUME IInv, [Next]_vars PROVE Grows
    <2>1. disk.schema \in Seq(Entry)
      BY <1>1, TablesOf DEF IInv, TypeOK
    <2>2. CASE disk'.recorded = disk.recorded /\ disk'.schema = disk.schema
      <3>1. disk.schema = disk.schema \o SubSeq(disk.schema, Len(disk.schema) + 1, Len(disk.schema))
        <4> HIDE DEF Entry
        <4>. QED BY <2>1
      <3>. QED BY <2>2, <3>1
    <2>3. ASSUME NEW p \in Handlers, pc[p] = "commit", disk' = cache PROVE Grows
      <3> DEFINE e == [file |-> Current(p), content |-> Content(p)]
      <3>1. /\ disk.recorded[Current(p)] = NoRow /\ e \in Entry
            /\ disk'.recorded = [disk.recorded EXCEPT ![Current(p)] = Content(p)]
            /\ disk'.schema = Append(disk.schema, e)
        BY <1>1, <2>3, CommitIsNext
      <3>2. \A f \in Files : disk.recorded[f] # NoRow => disk'.recorded[f] = disk.recorded[f]
        BY <1>1, <3>1, TablesOf DEF IInv, TypeOK
      <3>3. Append(disk.schema, e) =
              disk.schema \o SubSeq(Append(disk.schema, e), Len(disk.schema) + 1, Len(Append(disk.schema, e)))
        <4> HIDE DEF Entry, e
        <4>. QED BY <2>1, <3>1
      <3>. QED BY <3>1, <3>2, <3>3
    <2>. QED BY <1>1, <2>2, <2>3, DiskStep
  <1>2. IInv /\ [Next]_vars => [Grows]_vars
    BY <1>1
  <1>. QED BY <1>2, SpecIInv, PTL DEF Spec, SchemaOnlyGrows
=============================================================================
