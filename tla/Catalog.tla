------------------------------ MODULE Catalog ------------------------------
(***************************************************************************)
(* SmManager's catalog.  A table or an index is in four places: the        *)
(* catalog db_ in memory, the open handles fhs_ and ihs_, a file of its    *)
(* own, and the meta file, which flush_meta truncates and then writes.     *)
(* The process may stop between any two steps of a statement; open_db then *)
(* builds the first two from the last two.  Statements run one at a time.  *)
(***************************************************************************)
EXTENDS Integers, FiniteSets, Sequences, SequencesExt

CONSTANTS
  Tables,
  Indexes,      \* column lists a table can have an index on
  None

(* DropFirstIndex models the loop of drop_table for this many.             *)
ASSUME AtMostTwoIndexes == Cardinality(Indexes) <= 2

(* What stands for no table, no index and no catalog is none of these.     *)
ASSUME NamesAssumption ==
  /\ Tables # {}
  /\ "no table" \notin Indexes
  /\ None \notin Tables \cup Indexes

VARIABLES
  tabs,         \* db_.tabs_: the tables, each with its indexes in order
  fhs, ihs,     \* keys of fhs_ and of ihs_
  table_files, index_files,
  meta,         \* tabs_ as the meta file has it, or Truncated
  stmt,         \* the statement in progress and the step it is at
  behind,       \* has a file been destroyed that the meta file may name
  abandoned     \* tables whose drop_table failed after their file was destroyed

memory == <<tabs, fhs, ihs>>
files == <<table_files, index_files>>
vars == <<memory, files, meta, stmt, behind, abandoned>>

NoTable == <<"no table">>
Truncated == <<>>
Empty == [t \in Tables |-> NoTable]
IsTable(t) == tabs[t] # NoTable
IndexSet(t) == IF tabs[t] = NoTable THEN {} ELSE Range(tabs[t])

(* The steps of a statement; the statement then does what "then" says.     *)
At(op, t, i, then) == [op |-> op, t |-> t, i |-> i, then |-> then]
Idle == At("idle", None, None, "end")
Stopped == At("stopped", None, None, "end")
CannotOpen == At("cannot open", None, None, "end")

(* create_db writes an empty catalog, which open_db reads.                 *)
Init ==
  /\ tabs = Empty
  /\ fhs = {} /\ ihs = {}
  /\ table_files = {} /\ index_files = {}
  /\ meta = Empty
  /\ stmt = Idle
  /\ behind = FALSE
  /\ abandoned = {}

(* flush_meta.  Its caller is done with its own step.                      *)
TruncateMeta(t, i, then) ==
  /\ meta' = Truncated
  /\ stmt' = At("flush", t, i, then)

WriteMeta ==
  /\ stmt.op = "flush"
  /\ meta' = tabs
  /\ stmt' = IF stmt.then = "end" THEN Idle ELSE At(stmt.then, stmt.t, stmt.i, "end")
  /\ behind' = (stmt.then = "erase_table")   \* drop_table has not erased it yet
  /\ UNCHANGED <<memory, files, abandoned>>

-----------------------------------------------------------------------------
(* create_table: the file, with its header; then the catalog.              *)

CreateTable(t) ==
  /\ stmt = Idle
  /\ ~ IsTable(t)
  /\ t \notin table_files
  /\ table_files' = table_files \union {t}
  /\ stmt' = At("create_table", t, None, "end")
  /\ UNCHANGED <<memory, index_files, meta, behind, abandoned>>

TableNotFlushed ==
  /\ stmt.op = "create_table"
  /\ tabs' = [tabs EXCEPT ![stmt.t] = <<>>]
  /\ fhs' = fhs \union {stmt.t}
  /\ stmt' = Idle
  /\ UNCHANGED <<ihs, files, meta, behind, abandoned>>

AddTable ==
  /\ stmt.op = "create_table"
  /\ tabs' = [tabs EXCEPT ![stmt.t] = <<>>]
  /\ fhs' = fhs \union {stmt.t}
  /\ TruncateMeta(stmt.t, None, "end")
  /\ UNCHANGED <<ihs, files, behind, abandoned>>

-----------------------------------------------------------------------------
(* create_index: the file; the entries of the records, any of which may be *)
(* a duplicate; the catalog; and on a duplicate drop_index.                *)

FlushesBeforeFile(t, i) ==
  /\ stmt = Idle
  /\ <<t, i>> \notin index_files
  /\ IsTable(t)
  /\ meta' = [tabs EXCEPT ![t] = Append(@, i)]
  /\ stmt' = At("create_index", t, i, "end")
  /\ UNCHANGED <<memory, files, behind, abandoned>>

CreateIndex(t, i) ==
  /\ stmt = Idle
  /\ <<t, i>> \notin index_files
  /\ IsTable(t)
  /\ index_files' = index_files \union {<<t, i>>}
  /\ stmt' = At("create_index", t, i, "end")
  /\ UNCHANGED <<memory, table_files, meta, behind, abandoned>>

AddIndex(then) ==
  /\ stmt.op = "create_index"
  /\ tabs' = [tabs EXCEPT ![stmt.t] = Append(@, stmt.i)]
  /\ ihs' = ihs \union {<<stmt.t, stmt.i>>}
  /\ TruncateMeta(stmt.t, stmt.i, then)
  /\ UNCHANGED <<fhs, files, behind, abandoned>>

FillIndex == \E then \in {"end", "drop_index"} : AddIndex(then)

-----------------------------------------------------------------------------
(* drop_index: pages, handle and file; then the catalog.                   *)

DestroyIndex(t, i, then) ==
  /\ <<t, i>> \in index_files
  /\ ihs' = ihs \ {<<t, i>>}
  /\ index_files' = index_files \ {<<t, i>>}
  /\ stmt' = IF ~ IsTable(t) THEN Stopped    \* tabs_.at throws no RMDBError
             ELSE IF i \notin IndexSet(t) THEN Idle
             ELSE At("forget_index", t, i, then)
  /\ behind' = (behind \/ i \in IndexSet(t))
  /\ UNCHANGED <<tabs, fhs, table_files, meta>>

DropIndex(t, i) ==
  /\ stmt = Idle
  /\ DestroyIndex(t, i, "end")
  /\ UNCHANGED abandoned

DropDuplicates ==
  /\ stmt.op = "drop_index"
  /\ DestroyIndex(stmt.t, stmt.i, "end")
  /\ UNCHANGED abandoned

ForgetIndex ==
  /\ stmt.op = "forget_index"
  /\ tabs' = [tabs EXCEPT ![stmt.t] = RemoveFirst(@, stmt.i)]
  /\ TruncateMeta(stmt.t, stmt.i, stmt.then)
  /\ UNCHANGED <<fhs, ihs, files, behind, abandoned>>

-----------------------------------------------------------------------------
(* drop_table: the file; its indexes; then the catalog, in memory only.    *)
(* close_file fails for a handle whose file drop_table has closed before.  *)

DropTable(t) ==
  /\ stmt = Idle
  /\ t \in fhs
  /\ t \in table_files
  /\ table_files' = table_files \ {t}
  /\ stmt' = At("drop_indexes", t, None, "end")
  /\ behind' = TRUE
  /\ UNCHANGED <<memory, index_files, meta, abandoned>>

(* The loop runs over the vector from which drop_index erases.  After one  *)
(* index it is at the old end; an index that moved down is missed, and the *)
(* place it left, a destroyed IndexMeta with no columns, is looked up.     *)
(* IndexNotFoundError leaves drop_table, as it does if drop_index does not *)
(* find the file of the first index.                                       *)
DropFirstIndex ==
  /\ stmt.op = "drop_indexes"
  /\ tabs[stmt.t] # <<>>
  /\ IF <<stmt.t, Head(tabs[stmt.t])>> \in index_files
     THEN DestroyIndex(stmt.t, Head(tabs[stmt.t]),
                       IF Len(tabs[stmt.t]) = 1 THEN "erase_table" ELSE "end")
     ELSE stmt' = Idle /\ UNCHANGED <<memory, files, meta, behind>>
  /\ abandoned' = IF stmt'.then = "erase_table" THEN abandoned
                  ELSE abandoned \union {stmt.t}

EraseTable ==
  /\ \/ stmt.op = "erase_table"
     \/ stmt.op = "drop_indexes" /\ tabs[stmt.t] = <<>>
  /\ fhs' = fhs \ {stmt.t}
  /\ tabs' = [tabs EXCEPT ![stmt.t] = NoTable]
  /\ stmt' = Idle
  /\ UNCHANGED <<ihs, files, meta, behind, abandoned>>

-----------------------------------------------------------------------------
(* The process stops and is started again: open_db.                        *)

Crash ==
  /\ stmt \notin {Stopped, CannotOpen}
  /\ stmt' = Stopped
  /\ UNCHANGED <<memory, files, meta, behind, abandoned>>

TablesIn(m) == {t \in Tables : m[t] # NoTable}
IndexesIn(m) == {ti \in Tables \X Indexes :
                   m[ti[1]] # NoTable /\ ti[2] \in Range(m[ti[1]])}
FilesThere(m) == TablesIn(m) \subseteq table_files /\ IndexesIn(m) \subseteq index_files
CanOpen == meta # Truncated /\ FilesThere(meta)

IndexesNotOpened ==
  /\ stmt = Stopped
  /\ CanOpen
  /\ tabs' = meta
  /\ fhs' = TablesIn(meta)
  /\ ihs' = {}
  /\ stmt' = Idle
  /\ UNCHANGED <<files, meta, behind, abandoned>>

OpenDb ==
  /\ stmt = Stopped
  /\ CanOpen
  /\ tabs' = meta
  /\ fhs' = TablesIn(meta)
  /\ ihs' = IndexesIn(meta)
  /\ stmt' = Idle
  /\ UNCHANGED <<files, meta, behind, abandoned>>

(* open_file throws FileNotFoundError, and main exits.  A truncated meta   *)
(* file leaves the number of tables uninitialized: open_db fails on a      *)
(* table without a name, or finds no table.                                *)
OpenDbFails ==
  /\ stmt = Stopped
  /\ ~ CanOpen
  /\ stmt' = CannotOpen
  /\ UNCHANGED <<memory, files, meta, behind, abandoned>>

OpenDbEmpty ==
  /\ stmt = Stopped
  /\ meta = Truncated
  /\ tabs' = Empty
  /\ fhs' = {} /\ ihs' = {}
  /\ stmt' = Idle
  /\ abandoned' = {}
  /\ UNCHANGED <<files, meta, behind>>

NeverOpens == stmt = CannotOpen /\ UNCHANGED vars

-----------------------------------------------------------------------------

TableStatement == AddTable \/ WriteMeta \/ \E t \in Tables : CreateTable(t)

IndexStatement ==
  \/ FillIndex
  \/ DropDuplicates
  \/ ForgetIndex
  \/ \E t \in Tables, i \in Indexes : CreateIndex(t, i) \/ DropIndex(t, i)

DropTableStatement == DropFirstIndex \/ EraseTable \/ \E t \in Tables : DropTable(t)

Restart == OpenDb \/ OpenDbFails \/ OpenDbEmpty \/ NeverOpens

(* The server is killed at any point, except while the meta file is behind *)
(* a destroyed file: see OpenDbSucceeds.                                   *)
Spec ==
  Init /\ [][\/ TableStatement \/ IndexStatement \/ DropTableStatement
            \/ (~ behind /\ Crash)
            \/ Restart]_vars

(* The server stops between two statements.                                *)
StopSpec ==
  Init /\ [][TableStatement \/ DropTableStatement \/ (stmt = Idle /\ Crash) \/ Restart]_vars

-----------------------------------------------------------------------------

(* Between two statements, failed ones included and after every restart,   *)
(* each table and each index of the catalog has its handle and its file,   *)
(* and there are no other handles: the executors look up fhs_ and ihs_ by  *)
(* the catalog without a test.  Only a table whose drop_table was          *)
(* abandoned, because it had two indexes, has no file.                     *)
CatalogIsOpen ==
  stmt = Idle =>
    /\ fhs = TablesIn(tabs) /\ fhs \subseteq table_files \cup abandoned
    /\ ihs = IndexesIn(tabs) /\ ihs \subseteq index_files

(* The meta file names no table and no index whose file is not there,      *)
(* wherever a statement is cut off, except while a DROP has destroyed a    *)
(* file and flush_meta has not been called since, and except for the       *)
(* tables of abandoned drops.                                              *)
ListedFilesExist ==
  \/ meta = Truncated
  \/ behind
  \/ TablesIn(meta) \subseteq table_files \cup abandoned /\ IndexesIn(meta) \subseteq index_files

(* open_db brings back the catalog as the last complete statement left it: *)
(* a statement that was cut off has no effect on the catalog, unless it    *)
(* was cut off in flush_meta.                                              *)
RestartKeepsCatalog == [][OpenDb => tabs' = tabs]_vars

(* open_db loads the catalog and the files that belong to it.              *)
OpenDbSucceeds == stmt # CannotOpen
=============================================================================
