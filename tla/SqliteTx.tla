------------------------------ MODULE SqliteTx ------------------------------
(***************************************************************************)
(* What the store in internal/db relies on SQLite and database/sql for:    *)
(* one database file in rollback-journal mode (db.Open sets no other) and  *)
(* deferred transactions.  A statement that meets a lock may wait for it   *)
(* (its step is not taken yet) or fail with SQLITE_BUSY, which the store's *)
(* isSQLiteBusyError looks for.                                            *)
(*                                                                         *)
(* disk is the committed content of the file and cache what the connection *)
(* that holds the write lock sees; they are equal when nobody writes.      *)
(* readers are the handlers whose open transaction has read (SHARED lock), *)
(* writer the one that has written (RESERVED lock and above).              *)
(*                                                                         *)
(* ReadLocks = TRUE is SQLite as it is: a transaction's read lock keeps    *)
(* everyone else from committing until it ends.  ReadLocks = FALSE allows  *)
(* more: a commit may then also go through over the readers, so that what  *)
(* a transaction read may be stale by its first write, and the             *)
(* compare-and-set clauses of the store's UPDATEs hold on their own.       *)
(***************************************************************************)
EXTENDS Naturals, FiniteSets

CONSTANTS Handlers,   \* the goroutines that serve requests, one connection each
          NoHandler,
          ReadLocks

ASSUME HandlersAssumption ==
  /\ NoHandler \notin Handlers
  /\ ReadLocks \in BOOLEAN

VARIABLES disk, cache, readers, writer

txVars == <<disk, cache, readers, writer>>

\* A SELECT meets the lock of a connection that is flushing its commit: of
\* another transaction that writes, or of a lone INSERT (autoWriters).
ReadMayBeBusy(h, autoWriters) ==
  \/ writer \notin {h, NoHandler}
  \/ autoWriters \ {h} # {}

\* A COMMIT meets the read lock of a transaction or of a lone SELECT.
CommitMayBeBusy(h, autoReaders) == (readers \union autoReaders) \ {h} # {}

CanWrite(h) == writer \in {h, NoHandler}

CanCommit(h) == ReadLocks => readers \subseteq {h}

\* A lone INSERT is a transaction of its own.
CanAutoWrite(h) == writer = NoHandler /\ CanCommit(h)

TxRead(h) ==
  /\ readers' = readers \union {h}
  /\ UNCHANGED <<disk, cache, writer>>

TxWrite(h, content) ==
  /\ CanWrite(h)
  /\ cache' = content
  /\ writer' = h
  /\ readers' = readers \union {h}
  /\ UNCHANGED disk

TxCommit(h) ==
  /\ writer = h
  /\ CanCommit(h)
  /\ disk' = cache
  /\ writer' = NoHandler
  /\ readers' = readers \ {h}
  /\ UNCHANGED cache

\* Harmless when no transaction is open.  Also what is taken to happen to a
\* transaction whose COMMIT fails: the Rollback that the store defers does
\* nothing then (sql.ErrTxDone), so that the driver has to see to it.
TxRollback(h) ==
  /\ cache' = IF writer = h THEN disk ELSE cache
  /\ writer' = IF writer = h THEN NoHandler ELSE writer
  /\ readers' = readers \ {h}
  /\ UNCHANGED disk

AutoWrite(h, content) ==
  /\ CanAutoWrite(h)
  /\ disk' = content
  /\ cache' = content
  /\ UNCHANGED <<readers, writer>>

\* The process dies: every lock goes, the journal rolls the writer back.
TxCrash ==
  /\ cache' = disk
  /\ writer' = NoHandler
  /\ readers' = {}
  /\ UNCHANGED disk
=============================================================================
