--------------------------- MODULE Catalog_proofs ---------------------------
(***************************************************************************)
(* The catalog, the handles, the files and the meta file agree, and a      *)
(* restart brings the catalog back, for every number of tables.            *)
(***************************************************************************)
EXTENDS Catalog, SequenceFacts

Catalogs == [Tables -> Seq(Indexes) \cup {NoTable}]

\* The steps of a statement that stand between the destruction of a file and the
\* end of the statement: the meta file is behind.
Destroying == {"forget_index", "drop_indexes", "erase_table"}

Stmt ==
  [op : {"idle", "stopped", "cannot open", "flush", "create_table", "create_index",
         "drop_index"} \cup Destroying,
   t : Tables \cup {None}, i : Indexes \cup {None},
   then : {"end", "drop_index", "erase_table"}]

TypeInv ==
  /\ tabs \in Catalogs
  /\ fhs \subseteq Tables /\ ihs \subseteq Tables \X Indexes
  /\ table_files \subseteq Tables /\ index_files \subseteq Tables \X Indexes
  /\ meta \in Catalogs \cup {Truncated}
  /\ stmt \in Stmt
  /\ behind \in BOOLEAN
  /\ abandoned \subseteq Tables

\* No table has an index twice.
NoIndexTwice == \A t \in Tables : IsInjective(tabs[t])

IsIndex(t, i) == t \in Tables /\ IsTable(t) /\ i \in Indexes /\ i \in Range(tabs[t])

\* What a statement has done when it comes to a step.
StmtInv ==
  /\ stmt.op \in {"idle", "stopped", "cannot open"} => stmt = At(stmt.op, None, None, "end")
  /\ stmt.op = "create_table" => stmt.t \in Tables /\ ~ IsTable(stmt.t) /\ stmt.t \in table_files
  /\ stmt.op = "create_index" =>
       /\ stmt.t \in Tables /\ IsTable(stmt.t) /\ stmt.i \in Indexes
       /\ <<stmt.t, stmt.i>> \in index_files /\ ~ IsIndex(stmt.t, stmt.i)
  /\ stmt.op = "flush" => meta = Truncated
  /\ "drop_index" \in {stmt.op, stmt.then} => IsIndex(stmt.t, stmt.i)
  /\ stmt.op = "forget_index" =>
       IsIndex(stmt.t, stmt.i) /\ <<stmt.t, stmt.i>> \notin index_files
  /\ stmt.op \in {"drop_indexes", "erase_table"} \/ stmt.then = "erase_table" =>
       stmt.t \in Tables /\ IsTable(stmt.t) /\ stmt.t \notin table_files /\ behind
  /\ stmt.op \in {"flush", "erase_table"} /\ "erase_table" \in {stmt.op, stmt.then} =>
       tabs[stmt.t] = <<>>
  /\ stmt.op = "forget_index" /\ stmt.then = "erase_table" => tabs[stmt.t] = <<stmt.i>>
  /\ stmt.op \in Destroying => behind
  /\ stmt.op \notin {"flush", "forget_index"} => stmt.then = "end"
  /\ stmt.op = "forget_index" => stmt.then # "drop_index"

\* The table whose file a drop_table in progress has destroyed.
Dropping ==
  IF stmt.op \in {"drop_indexes", "erase_table"} \/ stmt.then = "erase_table" THEN {stmt.t} ELSE {}

\* While the server runs, the handles are those of the catalog and their files
\* are there, except for what the statement in progress has destroyed.
OpenInv ==
  stmt.op \notin {"stopped", "cannot open"} =>
    /\ fhs = TablesIn(tabs)
    /\ fhs \subseteq table_files \cup abandoned \cup Dropping
    /\ ihs = IF stmt.op = "forget_index" THEN IndexesIn(tabs) \ {<<stmt.t, stmt.i>>}
             ELSE IndexesIn(tabs)
    /\ ihs \subseteq index_files

\* The meta file is what flush_meta last wrote.  If a file it names has been
\* destroyed since, it still names it, and only the creation of that file, which
\* goes on to flush_meta, could make it good.
MetaInv ==
  /\ meta = Truncated \/ behind \/ meta = tabs
  /\ meta # Truncated /\ behind /\ stmt.op \notin {"create_table", "create_index"} =>
       ~ FilesThere(meta)

Inv ==
  /\ TypeInv
  /\ NoIndexTwice
  /\ StmtInv
  /\ OpenInv
  /\ MetaInv
  /\ ListedFilesExist

-----------------------------------------------------------------------------
(* Catalogs *)

(* A table with indexes is told from no table, and a catalog from a        *)
(* truncated file.                                                         *)
LEMMA NamesFacts ==
  /\ NoTable \notin Seq(Indexes)
  /\ Truncated \notin Catalogs
  /\ <<>> \in Seq(Indexes)
  /\ Range(<<>>) = {}
  /\ IsInjective(NoTable) /\ IsInjective(<<>>)
<1>1. ASSUME NoTable \in Seq(Indexes) PROVE FALSE
  <2>1. 1 \in 1 .. Len(NoTable)
    BY DEF NoTable
  <2>2. \A s \in Seq(Indexes) : \A i \in 1 .. Len(s) : s[i] \in Indexes
    OBVIOUS
  <2>3. NoTable[1] \in Indexes
    BY <1>1, <2>1, <2>2
  <2> QED
    BY <2>3, NamesAssumption, Zenon DEF NoTable
<1>2. ASSUME Truncated \in Catalogs PROVE FALSE
  <2>1. DOMAIN Truncated = Tables
    BY <1>2 DEF Catalogs
  <2>2. DOMAIN Truncated = {}
    BY DEF Truncated
  <2> QED
    BY <2>1, <2>2, NamesAssumption, Zenon
<1>3. Range(<<>>) = {} /\ IsInjective(<<>>)
  BY DEF Range, IsInjective
<1>4. IsInjective(NoTable)
  <2>1. DOMAIN NoTable = 1 .. 1 /\ \A a \in 1 .. 1 : a = 1
    BY DEF NoTable
  <2> QED
    BY <2>1 DEF IsInjective
<1> QED
  BY <1>1, <1>2, <1>3, <1>4

(* The indexes of a table are column lists. *)
LEMMA TableFacts ==
  ASSUME NEW m \in Catalogs, NEW t \in Tables, m[t] # NoTable
  PROVE  m[t] \in Seq(Indexes) /\ Range(m[t]) \subseteq Indexes
<1>1. m[t] \in Seq(Indexes)
  BY DEF Catalogs
<1> QED
  BY <1>1 DEF Range

(* drop_index erases one entry of tab.indexes. *)
LEMMA RemoveFirstFacts ==
  ASSUME NEW S, NEW s \in Seq(S), IsInjective(s), NEW x \in Range(s)
  PROVE  /\ RemoveFirst(s, x) \in Seq(S) /\ IsInjective(RemoveFirst(s, x))
         /\ Range(RemoveFirst(s, x)) = Range(s) \ {x}
<1>1. PICK k \in 1 .. Len(s) : s[k] = x
  BY DEF Range
<1>2. {i \in 1 .. Len(s) : s[i] = x} = {k}
  BY <1>1 DEF IsInjective
<1>3. Min({k}) = k
  BY <1>1 DEF Min
<1>4. RemoveFirst(s, x) = Without(s, k)
  BY <1>1, <1>2, <1>3, Zenon
  DEF RemoveFirst, SelectInSeq, RemoveAt, Without
<1> QED
  BY <1>1, <1>4, WithoutFacts

(* What a catalog names. *)
LEMMA NamedFacts ==
  ASSUME NEW m, NEW t \in Tables
  PROVE  /\ t \in TablesIn(m) <=> m[t] # NoTable
         /\ \A i \in Indexes : <<t, i>> \in IndexesIn(m) <=> m[t] # NoTable /\ i \in Range(m[t])
         /\ TablesIn(m) \subseteq Tables /\ IndexesIn(m) \subseteq Tables \X Indexes
BY DEF TablesIn, IndexesIn

-----------------------------------------------------------------------------
(* Preservation of the invariant, one lemma per step *)

LEMMA InitInv == Init => Inv
<1> SUFFICES ASSUME Init PROVE Inv
  OBVIOUS
<1>1. Empty \in Catalogs /\ TablesIn(Empty) = {} /\ IndexesIn(Empty) = {}
  BY DEF Empty, Catalogs, TablesIn, IndexesIn
<1>2. TypeInv
  BY <1>1, Zenon DEF Init, TypeInv, Idle, At, Stmt
<1>3. NoIndexTwice
  BY NamesFacts DEF Init, NoIndexTwice, Empty
<1>4. StmtInv
  BY DEF Init, StmtInv, Idle, At, Destroying
<1>5. OpenInv /\ MetaInv
  BY <1>1 DEF Init, OpenInv, MetaInv, Idle, At
<1>6. ListedFilesExist
  BY <1>1 DEF Init, ListedFilesExist
<1> QED
  BY <1>2, <1>3, <1>4, <1>5, <1>6 DEF Inv

(* flush_meta writes the catalog.  It names no file that is not there,     *)
(* unless drop_table has yet to erase its table.                           *)
LEMMA WriteMetaInv ==
  ASSUME Inv, WriteMeta
  PROVE  Inv'
<1>t. TypeInv /\ NoIndexTwice /\ StmtInv /\ OpenInv /\ MetaInv
  BY DEF Inv
<1>a. /\ stmt.op = "flush" /\ meta' = tabs
      /\ stmt' = IF stmt.then = "end" THEN Idle ELSE At(stmt.then, stmt.t, stmt.i, "end")
      /\ behind' = (stmt.then = "erase_table")
      /\ tabs' = tabs /\ fhs' = fhs /\ ihs' = ihs
      /\ table_files' = table_files /\ index_files' = index_files /\ abandoned' = abandoned
  BY DEF WriteMeta, memory, files
<1>1. TypeInv'
  BY <1>a, <1>t, Zenon DEF TypeInv, Stmt, Idle, At, Destroying
<1>2. NoIndexTwice'
  BY <1>a, <1>t DEF NoIndexTwice
<1>3. StmtInv'
  BY <1>a, <1>t, Zenon DEF StmtInv, TypeInv, Stmt, Idle, At, Destroying, IsIndex, IsTable
<1>4. OpenInv'
  BY <1>a, <1>t, Zenon DEF OpenInv, Dropping, TypeInv, Stmt, Idle, At, Destroying
<1>5. MetaInv'
  <2>1. ASSUME stmt.then = "erase_table" PROVE ~ FilesThere(meta)'
    <3>1. stmt.t \in Tables /\ tabs[stmt.t] # NoTable /\ stmt.t \notin table_files
      BY <2>1, <1>t, Zenon DEF StmtInv, IsTable
    <3>2. stmt.t \in TablesIn(meta')
      BY <3>1, <1>a, NamedFacts
    <3> QED
      BY <3>1, <3>2, <1>a DEF FilesThere
  <2> QED
    BY <2>1, <1>a, Zenon DEF MetaInv
<1>6. ListedFilesExist'
  BY <1>a, <1>t, Zenon DEF ListedFilesExist, OpenInv, Dropping
<1> QED
  BY <1>1, <1>2, <1>3, <1>4, <1>5, <1>6 DEF Inv

(* create_table creates the file of a table that is not in the catalog. *)
LEMMA CreateTableInv ==
  ASSUME Inv, NEW t \in Tables, CreateTable(t)
  PROVE  Inv'
<1>t. TypeInv /\ NoIndexTwice /\ StmtInv /\ OpenInv /\ MetaInv /\ ListedFilesExist
  BY DEF Inv
<1>a. /\ stmt = Idle /\ ~ IsTable(t)
      /\ table_files' = table_files \cup {t}
      /\ stmt' = At("create_table", t, None, "end")
      /\ tabs' = tabs /\ fhs' = fhs /\ ihs' = ihs /\ index_files' = index_files
      /\ meta' = meta /\ behind' = behind /\ abandoned' = abandoned
  BY DEF CreateTable, memory
<1>1. TypeInv'
  BY <1>a, <1>t, Zenon DEF TypeInv, Stmt, At
<1>2. NoIndexTwice'
  BY <1>a, <1>t DEF NoIndexTwice
<1>3. StmtInv'
  BY <1>a DEF StmtInv, At, Destroying, IsTable
<1>4. OpenInv' /\ MetaInv'
  BY <1>a, <1>t DEF OpenInv, MetaInv, Dropping, Idle, At
<1>5. ListedFilesExist'
  BY <1>a, <1>t DEF ListedFilesExist
<1> QED
  BY <1>1, <1>2, <1>3, <1>4, <1>5 DEF Inv

(* create_table enters the table and its handle. *)
LEMMA AddTableInv ==
  ASSUME Inv, AddTable
  PROVE  Inv'
<1> DEFINE t == stmt.t
<1>t. TypeInv /\ NoIndexTwice /\ StmtInv /\ OpenInv /\ MetaInv
  BY DEF Inv
<1>a. /\ stmt.op = "create_table"
      /\ tabs' = [tabs EXCEPT ![t] = <<>>] /\ fhs' = fhs \cup {t}
      /\ meta' = Truncated /\ stmt' = At("flush", t, None, "end")
      /\ ihs' = ihs /\ table_files' = table_files /\ index_files' = index_files
      /\ behind' = behind /\ abandoned' = abandoned
  BY DEF AddTable, TruncateMeta, files
<1>b. t \in Tables /\ ~ IsTable(t) /\ t \in table_files
  BY <1>a, <1>t DEF StmtInv
<1>c. /\ tabs' \in Catalogs
      /\ TablesIn(tabs') = TablesIn(tabs) \cup {t} /\ IndexesIn(tabs') = IndexesIn(tabs)
  <2>1. tabs \in Catalogs
    BY <1>t DEF TypeInv
  <2>2. <<>> \in Seq(Indexes) /\ Range(<<>>) = {} /\ <<>> # NoTable
    BY NamesFacts, Zenon
  <2>3. tabs' \in Catalogs /\ tabs'[t] = <<>> /\ \A u \in Tables \ {t} : tabs'[u] = tabs[u]
    BY <2>1, <2>2, <1>a, <1>b DEF Catalogs
  <2>4. TablesIn(tabs') = TablesIn(tabs) \cup {t}
    BY <2>2, <2>3, <1>b DEF TablesIn
  <2>5. IndexesIn(tabs') = IndexesIn(tabs)
    BY <2>2, <2>3, <1>b DEF IndexesIn, IsTable
  <2> QED
    BY <2>3, <2>4, <2>5
<1>1. TypeInv'
  BY <1>a, <1>b, <1>c, <1>t, Zenon DEF TypeInv, Stmt, At
<1>2. NoIndexTwice'
  BY <1>a, <1>b, <1>t DEF NoIndexTwice, TypeInv, Catalogs, IsInjective
<1>3. StmtInv'
  BY <1>a DEF StmtInv, At, Destroying
<1>4. OpenInv' /\ MetaInv' /\ ListedFilesExist'
  BY <1>a, <1>b, <1>c, <1>t, Zenon DEF OpenInv, MetaInv, ListedFilesExist, Dropping, At
<1> QED
  BY <1>1, <1>2, <1>3, <1>4 DEF Inv

(* create_index creates the file of an index that is not in the catalog:   *)
(* an index of the catalog has its file.                                   *)
LEMMA CreateIndexInv ==
  ASSUME Inv, NEW t \in Tables, NEW i \in Indexes, CreateIndex(t, i)
  PROVE  Inv'
<1>t. TypeInv /\ NoIndexTwice /\ StmtInv /\ OpenInv /\ MetaInv /\ ListedFilesExist
  BY DEF Inv
<1>a. /\ stmt = Idle /\ <<t, i>> \notin index_files /\ IsTable(t)
      /\ index_files' = index_files \cup {<<t, i>>}
      /\ stmt' = At("create_index", t, i, "end")
      /\ tabs' = tabs /\ fhs' = fhs /\ ihs' = ihs /\ table_files' = table_files
      /\ meta' = meta /\ behind' = behind /\ abandoned' = abandoned
  BY DEF CreateIndex, memory
<1>b. ~ IsIndex(t, i)
  <2>1. IndexesIn(tabs) \subseteq index_files
    BY <1>a, <1>t DEF OpenInv, Idle, At
  <2> QED
    BY <2>1, <1>a, NamedFacts DEF IsIndex, IsTable
<1>1. TypeInv'
  <2>1. index_files' \subseteq Tables \X Indexes
    BY <1>a, <1>t DEF TypeInv
  <2> QED
    BY <2>1, <1>a, <1>t, Zenon DEF TypeInv, Stmt, At
<1>2. NoIndexTwice'
  BY <1>a, <1>t DEF NoIndexTwice
<1>3. StmtInv'
  BY <1>a, <1>b DEF StmtInv, At, Destroying, IsTable, IsIndex
<1>4. OpenInv' /\ MetaInv'
  BY <1>a, <1>t DEF OpenInv, MetaInv, Dropping, Idle, At
<1>5. ListedFilesExist'
  BY <1>a, <1>t DEF ListedFilesExist
<1> QED
  BY <1>1, <1>2, <1>3, <1>4, <1>5 DEF Inv

(* create_index enters the index and its handle, also if it is going to    *)
(* drop the index again.                                                   *)
LEMMA FillIndexInv ==
  ASSUME Inv, NEW then \in {"end", "drop_index"}, AddIndex(then)
  PROVE  Inv'
<1> DEFINE t == stmt.t
           i == stmt.i
<1>t. TypeInv /\ NoIndexTwice /\ StmtInv /\ OpenInv /\ MetaInv
  BY DEF Inv
<1>a. /\ stmt.op = "create_index"
      /\ tabs' = [tabs EXCEPT ![t] = Append(@, i)] /\ ihs' = ihs \cup {<<t, i>>}
      /\ meta' = Truncated /\ stmt' = At("flush", t, i, then)
      /\ fhs' = fhs /\ table_files' = table_files /\ index_files' = index_files
      /\ behind' = behind /\ abandoned' = abandoned
  BY DEF AddIndex, TruncateMeta, files
<1>b. /\ t \in Tables /\ IsTable(t) /\ i \in Indexes /\ i \notin Range(tabs[t])
      /\ <<t, i>> \in index_files /\ tabs[t] \in Seq(Indexes) /\ tabs \in Catalogs
  BY <1>a, <1>t, TableFacts DEF StmtInv, TypeInv, IsIndex, IsTable
<1>c. /\ Append(tabs[t], i) \in Seq(Indexes) /\ IsInjective(Append(tabs[t], i))
      /\ Range(Append(tabs[t], i)) = Range(tabs[t]) \cup {i}
      /\ Append(tabs[t], i) # NoTable
  <2>1. IsInjective(tabs[t]) /\ i \notin Range(tabs[t])
    BY <1>b, <1>t DEF NoIndexTwice
  <2>2. /\ Append(tabs[t], i) \in Seq(Indexes) /\ IsInjective(Append(tabs[t], i))
        /\ Range(Append(tabs[t], i)) = Range(tabs[t]) \cup {i}
    BY <2>1, <1>b, AppendFacts
  <2> QED
    BY <2>2, NamesFacts
<1>d. /\ tabs' \in Catalogs /\ tabs'[t] = Append(tabs[t], i)
      /\ \A u \in Tables \ {t} : tabs'[u] = tabs[u]
  BY <1>a, <1>b, <1>c DEF Catalogs
<1>e. TablesIn(tabs') = TablesIn(tabs) /\ IndexesIn(tabs') = IndexesIn(tabs) \cup {<<t, i>>}
  <2>1. TablesIn(tabs') = TablesIn(tabs)
    BY <1>b, <1>c, <1>d DEF TablesIn, IsTable
  <2>2. IndexesIn(tabs') = IndexesIn(tabs) \cup {<<t, i>>}
    <3>1. ASSUME NEW u \in Tables, NEW j \in Indexes
          PROVE  (tabs'[u] # NoTable /\ j \in Range(tabs'[u])) <=>
                   (tabs[u] # NoTable /\ j \in Range(tabs[u])) \/ (u = t /\ j = i)
      BY <1>b, <1>c, <1>d, Zenon DEF IsTable
    <3> HIDE DEF t, i
    <3>2. \A ti \in Tables \X Indexes :
            ti \in IndexesIn(tabs') <=> ti \in IndexesIn(tabs) \/ ti = <<t, i>>
      BY <3>1 DEF IndexesIn
    <3>3. <<t, i>> \in Tables \X Indexes
      BY <1>b
    <3>4. IndexesIn(tabs') \subseteq Tables \X Indexes /\ IndexesIn(tabs) \subseteq Tables \X Indexes
      BY DEF IndexesIn
    <3> QED
      BY <3>2, <3>3, <3>4
  <2> QED
    BY <2>1, <2>2
<1>1. TypeInv'
  BY <1>a, <1>b, <1>d, <1>t, Zenon DEF TypeInv, Stmt, At
<1>2. NoIndexTwice'
  BY <1>b, <1>c, <1>d, <1>t, Zenon DEF NoIndexTwice
<1>3. StmtInv'
  <2>1. t \in Tables /\ tabs'[t] # NoTable /\ i \in Indexes /\ i \in Range(tabs'[t])
    BY <1>b, <1>c, <1>d
  <2> QED
    BY <2>1, <1>a DEF StmtInv, At, Destroying, IsIndex, IsTable
<1>4. OpenInv'
  <2>1. fhs = TablesIn(tabs) /\ ihs = IndexesIn(tabs) /\ ihs \subseteq index_files
        /\ fhs \subseteq table_files \cup abandoned
    BY <1>a, <1>t DEF OpenInv, StmtInv, Dropping
  <2> QED
    BY <2>1, <1>a, <1>b, <1>e, Zenon DEF OpenInv, At
<1>5. MetaInv' /\ ListedFilesExist'
  BY <1>a DEF MetaInv, ListedFilesExist
<1> QED
  BY <1>1, <1>2, <1>3, <1>4, <1>5 DEF Inv

(* drop_index destroys the file.  An index of the catalog is then still to *)
(* be forgotten; another one leaves the catalog as it is.                  *)
LEMMA DestroyIndexInv ==
  ASSUME Inv, NEW t \in Tables, NEW i \in Indexes, NEW then \in {"end", "erase_table"},
         DestroyIndex(t, i, then),
         stmt.op \in {"idle", "drop_index", "drop_indexes"},
         stmt.op # "idle" => IsIndex(t, i),
         then = "erase_table" =>
           tabs[t] = <<i>> /\ t \notin table_files /\ behind,
         abandoned' \subseteq Tables, abandoned \subseteq abandoned',
         Dropping \subseteq abandoned' \cup (IF then = "erase_table" THEN {t} ELSE {})
  PROVE  Inv'
<1>t. TypeInv /\ NoIndexTwice /\ StmtInv /\ OpenInv /\ MetaInv /\ ListedFilesExist
  BY DEF Inv
<1>a. /\ ihs' = ihs \ {<<t, i>>} /\ index_files' = index_files \ {<<t, i>>}
      /\ stmt' = IF ~ IsTable(t) THEN Stopped
                 ELSE IF i \notin IndexSet(t) THEN Idle ELSE At("forget_index", t, i, then)
      /\ behind' = (behind \/ i \in IndexSet(t))
      /\ tabs' = tabs /\ fhs' = fhs /\ table_files' = table_files /\ meta' = meta
  BY DEF DestroyIndex
<1>b. (IsTable(t) /\ i \in IndexSet(t)) <=> IsIndex(t, i)
  BY DEF IsIndex, IndexSet, IsTable
<1>c. i \in IndexSet(t) => IsTable(t)
  BY DEF IndexSet, IsTable
<1>d. /\ fhs = TablesIn(tabs) /\ ihs = IndexesIn(tabs) /\ ihs \subseteq index_files
      /\ fhs \subseteq table_files \cup abandoned \cup Dropping
  BY <1>t, Zenon DEF OpenInv
<1>e. <<t, i>> \in IndexesIn(tabs) <=> IsIndex(t, i)
  BY NamedFacts DEF IsIndex, IsTable
<1>1. TypeInv'
  BY <1>a, <1>t, Zenon DEF TypeInv, Stmt, At, Idle, Stopped, Destroying
<1>2. NoIndexTwice'
  BY <1>a, <1>t DEF NoIndexTwice
<1>3. StmtInv'
  BY <1>a, <1>b, <1>c, Zenon DEF StmtInv, At, Idle, Stopped, Destroying, IsIndex, IsTable
<1>4. OpenInv'
  <2>1. CASE IsIndex(t, i)
    <3>1. stmt' = At("forget_index", t, i, then)
      BY <2>1, <1>a, <1>b
    <3>2. stmt'.op = "forget_index" /\ stmt'.t = t /\ stmt'.i = i /\ stmt'.then = then
      BY <3>1 DEF At
    <3>3. Dropping' = IF then = "erase_table" THEN {t} ELSE {}
      BY <3>2 DEF Dropping
    <3> QED
      BY <3>2, <3>3, <1>a, <1>d DEF OpenInv
  <2>2. CASE ~ IsIndex(t, i)
    <3>1. stmt'.op \in {"idle", "stopped"} /\ stmt.op = "idle" /\ Dropping = {}
      BY <2>2, <1>a, <1>b, <1>t, Zenon DEF At, Idle, Stopped, Dropping, StmtInv
    <3>2. ihs' = IndexesIn(tabs)
      BY <2>2, <1>a, <1>d, <1>e
    <3> QED
      BY <2>2, <3>1, <3>2, <1>a, <1>d, Zenon DEF OpenInv
  <2> QED
    BY <2>1, <2>2
<1>5. MetaInv'
  <2>1. meta' = Truncated \/ behind' \/ meta' = tabs'
    BY <1>a, <1>t, Zenon DEF MetaInv
  <2>2. ASSUME meta # Truncated, behind' PROVE ~ FilesThere(meta)'
    <3>1. CASE behind
      <4>1. ~ FilesThere(meta)
        BY <2>2, <3>1, <1>t DEF MetaInv
      <4> QED
        BY <4>1, <1>a DEF FilesThere
    <3>2. CASE ~ behind
      <4>1. meta = tabs /\ IsIndex(t, i)
        BY <2>2, <3>2, <1>a, <1>b, <1>c, <1>t, Zenon DEF MetaInv
      <4>2. <<t, i>> \in IndexesIn(meta') /\ <<t, i>> \notin index_files'
        BY <4>1, <1>a, <1>e
      <4> QED
        BY <4>2 DEF FilesThere
    <3> QED
      BY <3>1, <3>2
  <2> QED
    BY <2>1, <2>2, <1>a DEF MetaInv
<1>6. ListedFilesExist'
  <2>1. ASSUME meta # Truncated, ~ behind'
        PROVE  /\ TablesIn(meta') \subseteq table_files' \cup abandoned'
               /\ IndexesIn(meta') \subseteq index_files'
    <3>1. /\ meta = tabs /\ ~ IsIndex(t, i)
          /\ TablesIn(meta) \subseteq table_files \cup abandoned
          /\ IndexesIn(meta) \subseteq index_files
      BY <2>1, <1>a, <1>b, <1>t, Zenon DEF MetaInv, ListedFilesExist
    <3> QED
      BY <3>1, <1>a, <1>e
  <2> QED
    BY <2>1, <1>a DEF ListedFilesExist
<1> QED
  BY <1>1, <1>2, <1>3, <1>4, <1>5, <1>6 DEF Inv

(* drop_index takes the index out of the catalog. *)
LEMMA ForgetIndexInv ==
  ASSUME Inv, ForgetIndex
  PROVE  Inv'
<1> DEFINE t == stmt.t
           i == stmt.i
           l == RemoveFirst(tabs[t], i)
<1>t. TypeInv /\ NoIndexTwice /\ StmtInv /\ OpenInv
  BY DEF Inv
<1>a. /\ stmt.op = "forget_index"
      /\ tabs' = [tabs EXCEPT ![t] = l]
      /\ meta' = Truncated /\ stmt' = At("flush", t, i, stmt.then)
      /\ fhs' = fhs /\ ihs' = ihs /\ table_files' = table_files /\ index_files' = index_files
      /\ behind' = behind /\ abandoned' = abandoned
  BY DEF ForgetIndex, TruncateMeta, files
<1>b. /\ t \in Tables /\ IsTable(t) /\ i \in Indexes /\ i \in Range(tabs[t])
      /\ tabs[t] \in Seq(Indexes) /\ tabs \in Catalogs /\ IsInjective(tabs[t])
      /\ stmt.then \in {"end", "erase_table"}
  BY <1>a, <1>t, TableFacts, Zenon DEF StmtInv, TypeInv, IsIndex, IsTable, NoIndexTwice, Stmt
<1>c. /\ l \in Seq(Indexes) /\ IsInjective(l) /\ Range(l) = Range(tabs[t]) \ {i}
      /\ l # NoTable
  <2>1. /\ l \in Seq(Indexes) /\ IsInjective(l) /\ Range(l) = Range(tabs[t]) \ {i}
    BY <1>b, RemoveFirstFacts
  <2> QED
    BY <2>1, NamesFacts
<1>d. tabs[t] = <<i>> => l = <<>>
  <2> SUFFICES ASSUME tabs[t] = <<i>> PROVE l = <<>>
    OBVIOUS
  <2>1. Range(tabs[t]) = {i}
    BY DEF Range
  <2>2. Range(l) = {}
    BY <2>1, <1>c
  <2> HIDE DEF l
  <2>3. DOMAIN l = 1 .. Len(l) /\ Len(l) \in Nat
    BY <1>c
  <2>4. Len(l) = 0
    <3>1. 1 \notin DOMAIN l
      BY <2>2 DEF Range
    <3> QED
      BY <3>1, <2>3
  <2> QED
    BY <2>4, <1>c
<1> HIDE DEF l
<1>e. /\ tabs' \in Catalogs /\ tabs'[t] = l
      /\ \A u \in Tables \ {t} : tabs'[u] = tabs[u]
  BY <1>a, <1>b, <1>c DEF Catalogs
<1>f. TablesIn(tabs') = TablesIn(tabs)
  BY <1>b, <1>c, <1>e DEF TablesIn, IsTable
<1>g. IndexesIn(tabs') = IndexesIn(tabs) \ {<<t, i>>}
  <2>1. ASSUME NEW u \in Tables, NEW j \in Indexes
        PROVE  (tabs'[u] # NoTable /\ j \in Range(tabs'[u])) <=>
                 (tabs[u] # NoTable /\ j \in Range(tabs[u])) /\ ~ (u = t /\ j = i)
    BY <1>b, <1>c, <1>e DEF IsTable
  <2> HIDE DEF t, i
  <2>2. \A ti \in Tables \X Indexes :
          ti \in IndexesIn(tabs') <=> ti \in IndexesIn(tabs) /\ ti # <<t, i>>
    BY <2>1 DEF IndexesIn
  <2>3. IndexesIn(tabs') \subseteq Tables \X Indexes /\ IndexesIn(tabs) \subseteq Tables \X Indexes
    BY DEF IndexesIn
  <2> QED
    BY <2>2, <2>3
<1>1. TypeInv'
  BY <1>a, <1>b, <1>e, <1>t, Zenon DEF TypeInv, Stmt, At
<1>2. NoIndexTwice'
  BY <1>c, <1>e, <1>t DEF NoIndexTwice
<1>3. StmtInv'
  <2>1. tabs'[t] # NoTable /\ (stmt.then = "erase_table" => tabs'[t] = <<>>)
    BY <1>a, <1>c, <1>d, <1>e, <1>t DEF StmtInv
  <2>2. stmt.then = "erase_table" => t \in Tables /\ t \notin table_files /\ behind
    BY <1>t, Zenon DEF StmtInv
  <2>3. stmt'.op = "flush" /\ stmt'.t = t /\ stmt'.then = stmt.then
    BY <1>a DEF At
  <2> QED
    BY <2>1, <2>2, <2>3, <1>a, <1>b DEF StmtInv, Destroying, IsTable
<1>4. OpenInv'
  <2>1. stmt'.op = "flush" /\ Dropping' = Dropping
    BY <1>a DEF At, Dropping
  <2>2. /\ fhs = TablesIn(tabs) /\ ihs = IndexesIn(tabs) \ {<<t, i>>} /\ ihs \subseteq index_files
        /\ fhs \subseteq table_files \cup abandoned \cup Dropping
    BY <1>a, <1>t DEF OpenInv
  <2> QED
    BY <2>1, <2>2, <1>a, <1>f, <1>g, Zenon DEF OpenInv
<1>5. MetaInv' /\ ListedFilesExist'
  BY <1>a DEF MetaInv, ListedFilesExist
<1> QED
  BY <1>1, <1>2, <1>3, <1>4, <1>5 DEF Inv

(* drop_table destroys the file of the table. *)
LEMMA DropTableInv ==
  ASSUME Inv, NEW t \in Tables, DropTable(t)
  PROVE  Inv'
<1>t. TypeInv /\ NoIndexTwice /\ StmtInv /\ OpenInv /\ MetaInv
  BY DEF Inv
<1>a. /\ stmt = Idle /\ t \in fhs
      /\ table_files' = table_files \ {t}
      /\ stmt' = At("drop_indexes", t, None, "end") /\ behind' = TRUE
      /\ tabs' = tabs /\ fhs' = fhs /\ ihs' = ihs /\ index_files' = index_files
      /\ meta' = meta /\ abandoned' = abandoned
  BY DEF DropTable, memory
<1>b. /\ fhs = TablesIn(tabs) /\ fhs \subseteq table_files \cup abandoned
      /\ ihs = IndexesIn(tabs) /\ ihs \subseteq index_files /\ IsTable(t)
  BY <1>a, <1>t, NamedFacts DEF OpenInv, Dropping, Idle, At, IsTable
<1>1. TypeInv'
  BY <1>a, <1>t, Zenon DEF TypeInv, Stmt, At, Destroying
<1>2. NoIndexTwice'
  BY <1>a, <1>t DEF NoIndexTwice
<1>3. StmtInv'
  BY <1>a, <1>b DEF StmtInv, At, Destroying, IsTable
<1>4. OpenInv'
  BY <1>a, <1>b DEF OpenInv, Dropping, At
<1>5. MetaInv'
  <2>1. ASSUME meta # Truncated PROVE ~ FilesThere(meta)'
    <3>1. CASE behind
      <4>1. ~ FilesThere(meta)
        BY <2>1, <3>1, <1>a, <1>t DEF MetaInv, Idle, At
      <4> QED
        BY <4>1, <1>a DEF FilesThere
    <3>2. CASE ~ behind
      <4>1. t \in TablesIn(meta') /\ t \notin table_files'
        BY <2>1, <3>2, <1>a, <1>b, <1>t DEF MetaInv
      <4> QED
        BY <4>1 DEF FilesThere
    <3> QED
      BY <3>1, <3>2, <1>t DEF TypeInv
  <2> QED
    BY <2>1, <1>a DEF MetaInv
<1>6. ListedFilesExist'
  BY <1>a DEF ListedFilesExist
<1> QED
  BY <1>1, <1>2, <1>3, <1>4, <1>5, <1>6 DEF Inv

(* drop_index on its own, at the end of a create_index that met a          *)
(* duplicate, and for the first index of a table that is dropped.          *)
LEMMA DropIndexInv ==
  ASSUME Inv, NEW t \in Tables, NEW i \in Indexes, DropIndex(t, i)
  PROVE  Inv'
<1>1. stmt = Idle /\ DestroyIndex(t, i, "end") /\ abandoned' = abandoned
  BY DEF DropIndex
<1>2. stmt.op = "idle" /\ Dropping = {} /\ abandoned \subseteq Tables
  BY <1>1 DEF Idle, At, Dropping, Inv, TypeInv
<1> QED
  BY <1>1, <1>2, DestroyIndexInv

LEMMA DropDuplicatesInv ==
  ASSUME Inv, DropDuplicates
  PROVE  Inv'
<1>1. stmt.op = "drop_index" /\ DestroyIndex(stmt.t, stmt.i, "end") /\ abandoned' = abandoned
  BY DEF DropDuplicates
<1>2. IsIndex(stmt.t, stmt.i) /\ Dropping = {} /\ abandoned \subseteq Tables
  BY <1>1 DEF Inv, TypeInv, StmtInv, Dropping
<1>3. stmt.t \in Tables /\ stmt.i \in Indexes
  BY <1>2 DEF IsIndex
<1> QED
  BY <1>1, <1>2, <1>3, DestroyIndexInv

LEMMA DropFirstIndexInv ==
  ASSUME Inv, DropFirstIndex
  PROVE  Inv'
<1> DEFINE t == stmt.t
           i == Head(tabs[t])
           then == IF Len(tabs[t]) = 1 THEN "erase_table" ELSE "end"
<1>t. TypeInv /\ StmtInv /\ OpenInv
  BY DEF Inv
<1>a. /\ stmt.op = "drop_indexes" /\ tabs[t] # <<>>
      /\ <<t, i>> \in index_files => DestroyIndex(t, i, then)
      /\ abandoned' = IF stmt'.then = "erase_table" THEN abandoned ELSE abandoned \cup {t}
  BY DEF DropFirstIndex
<1>b. /\ t \in Tables /\ IsTable(t) /\ t \notin table_files /\ behind /\ tabs \in Catalogs
      /\ tabs[t] \in Seq(Indexes) /\ Range(tabs[t]) \subseteq Indexes
  BY <1>a, <1>t, TableFacts DEF StmtInv, TypeInv, IsTable
<1>c. i \in Range(tabs[t]) /\ (Len(tabs[t]) = 1 => tabs[t] = <<i>>)
  <2> DEFINE l == tabs[t]
  <2>1. l \in Seq(Indexes) /\ l # <<>>
    BY <1>a, <1>b
  <2> HIDE DEF l
  <2>2. Head(l) = l[1] /\ Len(l) \in Nat \ {0} /\ DOMAIN l = 1 .. Len(l)
    BY <2>1
  <2>3. 1 \in DOMAIN l
    BY <2>2
  <2>4. Head(l) \in Range(l)
    BY <2>2, <2>3 DEF Range
  <2>5. Len(l) = 1 => l = <<Head(l)>>
    BY <2>1, <2>2
  <2> QED
    BY <2>4, <2>5 DEF l
<1>d. IsIndex(t, i)
  BY <1>b, <1>c DEF IsIndex
<1>e. <<t, i>> \in index_files
  <2>1. <<t, i>> \in IndexesIn(tabs)
    BY <1>d, NamedFacts DEF IsIndex, IsTable
  <2> QED
    BY <2>1, <1>a, <1>t DEF OpenInv
<1>f. DestroyIndex(t, i, then) /\ i \in Indexes
  BY <1>a, <1>d, <1>e DEF IsIndex
<1>g. stmt'.then = then
  <2>1. i \in IndexSet(t)
    BY <1>d DEF IsIndex, IndexSet, IsTable
  <2>2. stmt' = At("forget_index", t, i, then)
    BY <2>1, <1>b, <1>f DEF DestroyIndex
  <2> QED
    BY <2>2 DEF At
<1>h. /\ abandoned' \subseteq Tables /\ abandoned \subseteq abandoned'
      /\ Dropping \subseteq abandoned' \cup (IF then = "erase_table" THEN {t} ELSE {})
  BY <1>a, <1>b, <1>g, <1>t DEF Dropping, TypeInv
<1>i. then \in {"end", "erase_table"} /\ (then = "erase_table" => tabs[t] = <<i>>)
  BY <1>c
<1> HIDE DEF t, i, then
<1> QED
  BY <1>a, <1>b, <1>d, <1>f, <1>h, <1>i, DestroyIndexInv

(* drop_table erases the table, which has no index left. *)
LEMMA EraseTableInv ==
  ASSUME Inv, EraseTable
  PROVE  Inv'
<1> DEFINE t == stmt.t
<1>t. TypeInv /\ NoIndexTwice /\ StmtInv /\ OpenInv /\ MetaInv
  BY DEF Inv
<1>a. /\ stmt.op \in {"drop_indexes", "erase_table"} /\ fhs' = fhs \ {t}
      /\ tabs' = [tabs EXCEPT ![t] = NoTable] /\ stmt' = Idle
      /\ ihs' = ihs /\ table_files' = table_files /\ index_files' = index_files
      /\ meta' = meta /\ behind' = behind /\ abandoned' = abandoned
  BY DEF EraseTable, files
<1>b. /\ t \in Tables /\ IsTable(t) /\ behind /\ tabs[t] = <<>> /\ tabs \in Catalogs
  BY <1>t, Zenon DEF StmtInv, EraseTable, TypeInv
<1>c. /\ tabs' \in Catalogs /\ tabs'[t] = NoTable /\ \A u \in Tables \ {t} : tabs'[u] = tabs[u]
  BY <1>a, <1>b DEF Catalogs
<1>d. TablesIn(tabs') = TablesIn(tabs) \ {t}
  BY <1>b, <1>c DEF TablesIn
<1>e. IndexesIn(tabs') = IndexesIn(tabs)
  BY <1>b, <1>c, NamesFacts DEF IndexesIn
<1>f. stmt'.op = "idle" /\ Dropping' = {} /\ Dropping = {t}
  BY <1>a DEF Idle, At, Dropping
<1>1. TypeInv'
  BY <1>a, <1>c, <1>t, Zenon DEF TypeInv, Stmt, Idle, At
<1>2. NoIndexTwice'
  BY <1>b, <1>c, <1>t, NamesFacts DEF NoIndexTwice
<1>3. StmtInv'
  BY <1>a DEF StmtInv, Idle, At, Destroying
<1>4. OpenInv'
  BY <1>a, <1>d, <1>e, <1>f, <1>t, Zenon DEF OpenInv
<1>5. MetaInv'
  BY <1>a, <1>b, <1>t DEF MetaInv, FilesThere
<1>6. ListedFilesExist'
  BY <1>a, <1>b DEF ListedFilesExist
<1> QED
  BY <1>1, <1>2, <1>3, <1>4, <1>5, <1>6 DEF Inv

(* The process is stopped. *)
LEMMA CrashInv ==
  ASSUME Inv, ~ behind, Crash
  PROVE  Inv'
<1>t. TypeInv /\ NoIndexTwice /\ MetaInv /\ ListedFilesExist
  BY DEF Inv
<1>a. /\ stmt' = Stopped /\ tabs' = tabs /\ fhs' = fhs /\ ihs' = ihs
      /\ table_files' = table_files /\ index_files' = index_files
      /\ meta' = meta /\ behind' = behind /\ abandoned' = abandoned
  BY DEF Crash, memory, files
<1>1. TypeInv' /\ NoIndexTwice'
  BY <1>a, <1>t, Zenon DEF TypeInv, NoIndexTwice, Stmt, Stopped, At
<1>2. StmtInv' /\ OpenInv'
  BY <1>a DEF StmtInv, OpenInv, Stopped, At, Destroying
<1>3. MetaInv' /\ ListedFilesExist'
  BY <1>a, <1>t DEF MetaInv, ListedFilesExist
<1> QED
  BY <1>1, <1>2, <1>3 DEF Inv

(* A meta file that open_db can use is the catalog that was in memory: if  *)
(* it were behind a destroyed file, that file would be missing.            *)
LEMMA OpenedCatalog ==
  ASSUME Inv, stmt = Stopped, CanOpen
  PROVE  meta = tabs /\ ~ behind
BY DEF Inv, MetaInv, CanOpen, Stopped, At

(* open_db opens what the meta file names. *)
LEMMA OpenDbInv ==
  ASSUME Inv, OpenDb
  PROVE  Inv'
<1>t. TypeInv /\ NoIndexTwice /\ MetaInv /\ ListedFilesExist
  BY DEF Inv
<1>a. /\ stmt = Stopped /\ CanOpen /\ tabs' = meta
      /\ fhs' = TablesIn(meta) /\ ihs' = IndexesIn(meta) /\ stmt' = Idle
      /\ table_files' = table_files /\ index_files' = index_files
      /\ meta' = meta /\ behind' = behind /\ abandoned' = abandoned
  BY DEF OpenDb, files
<1>b. tabs' = tabs /\ meta = tabs /\ ~ behind
  BY <1>a, OpenedCatalog
<1>c. fhs' \subseteq table_files /\ ihs' \subseteq index_files
  BY <1>a DEF CanOpen, FilesThere
<1>d. fhs' \subseteq Tables /\ ihs' \subseteq Tables \X Indexes
  BY <1>c, <1>t DEF TypeInv
<1>1. TypeInv' /\ NoIndexTwice'
  BY <1>a, <1>b, <1>d, <1>t, Zenon DEF TypeInv, NoIndexTwice, Stmt, Idle, At
<1>2. StmtInv'
  BY <1>a DEF StmtInv, Idle, At, Destroying
<1>3. OpenInv'
  BY <1>a, <1>c DEF OpenInv, Idle, At
<1>4. MetaInv' /\ ListedFilesExist'
  BY <1>a, <1>b, <1>t DEF MetaInv, ListedFilesExist
<1> QED
  BY <1>1, <1>2, <1>3, <1>4 DEF Inv

(* open_db fails, and main exits. *)
LEMMA OpenDbFailsInv ==
  ASSUME Inv, OpenDbFails
  PROVE  Inv'
<1>t. TypeInv /\ NoIndexTwice /\ MetaInv /\ ListedFilesExist
  BY DEF Inv
<1>a. /\ stmt = Stopped /\ stmt' = CannotOpen /\ tabs' = tabs /\ fhs' = fhs /\ ihs' = ihs
      /\ table_files' = table_files /\ index_files' = index_files
      /\ meta' = meta /\ behind' = behind /\ abandoned' = abandoned
  BY DEF OpenDbFails, memory, files
<1>1. TypeInv' /\ NoIndexTwice'
  BY <1>a, <1>t, Zenon DEF TypeInv, NoIndexTwice, Stmt, CannotOpen, At
<1>2. StmtInv' /\ OpenInv'
  BY <1>a, Zenon DEF StmtInv, OpenInv, CannotOpen, At, Destroying
<1>3. MetaInv' /\ ListedFilesExist'
  BY <1>a, <1>t DEF MetaInv, ListedFilesExist, FilesThere, Stopped, At
<1> QED
  BY <1>1, <1>2, <1>3 DEF Inv

(* open_db reads a truncated meta file as an empty catalog. *)
LEMMA OpenDbEmptyInv ==
  ASSUME Inv, OpenDbEmpty
  PROVE  Inv'
<1>t. TypeInv
  BY DEF Inv
<1>a. /\ tabs' = Empty /\ fhs' = {} /\ ihs' = {} /\ stmt' = Idle /\ abandoned' = {}
      /\ table_files' = table_files /\ index_files' = index_files
      /\ meta' = Truncated /\ behind' = behind
  BY DEF OpenDbEmpty, files
<1>b. /\ Empty \in Catalogs /\ TablesIn(Empty) = {} /\ IndexesIn(Empty) = {}
      /\ \A t \in Tables : Empty[t] = NoTable
  BY DEF Empty, Catalogs, TablesIn, IndexesIn
<1>1. TypeInv' /\ NoIndexTwice'
  BY <1>a, <1>b, <1>t, NamesFacts, Zenon DEF TypeInv, NoIndexTwice, Stmt, Idle, At
<1>2. StmtInv'
  BY <1>a DEF StmtInv, Idle, At, Destroying
<1>3. OpenInv'
  BY <1>a, <1>b DEF OpenInv, Idle, At
<1>4. MetaInv' /\ ListedFilesExist'
  BY <1>a DEF MetaInv, ListedFilesExist
<1> QED
  BY <1>1, <1>2, <1>3, <1>4 DEF Inv

-----------------------------------------------------------------------------
(* The theorems *)

Next ==
  \/ TableStatement \/ IndexStatement \/ DropTableStatement
  \/ (~ behind /\ Crash)
  \/ Restart

(* No step of a statement, no crash and no restart breaks the invariant. *)
LEMMA NextInv == Inv /\ [Next]_vars => Inv'
<1> SUFFICES ASSUME Inv, [Next]_vars PROVE Inv'
  OBVIOUS
<1>1. CASE TableStatement
  BY <1>1, AddTableInv, WriteMetaInv, CreateTableInv DEF TableStatement
<1>2. CASE IndexStatement
  <2>1. CASE FillIndex \/ DropDuplicates \/ ForgetIndex
    BY <2>1, FillIndexInv, DropDuplicatesInv, ForgetIndexInv DEF FillIndex
  <2>2. ASSUME NEW t \in Tables, NEW i \in Indexes, CreateIndex(t, i) \/ DropIndex(t, i)
        PROVE  Inv'
    BY <2>2, CreateIndexInv, DropIndexInv
  <2> QED
    BY <1>2, <2>1, <2>2 DEF IndexStatement
<1>3. CASE DropTableStatement
  BY <1>3, DropFirstIndexInv, EraseTableInv, DropTableInv DEF DropTableStatement
<1>4. CASE ~ behind /\ Crash
  BY <1>4, CrashInv
<1>5. CASE Restart /\ ~ NeverOpens
  BY <1>5, OpenDbInv, OpenDbFailsInv, OpenDbEmptyInv DEF Restart
<1>6. CASE UNCHANGED vars
  <2>1. /\ tabs' = tabs /\ fhs' = fhs /\ ihs' = ihs /\ stmt' = stmt
        /\ table_files' = table_files /\ index_files' = index_files
        /\ meta' = meta /\ behind' = behind /\ abandoned' = abandoned
    BY <1>6 DEF vars, memory, files
  <2>2. TypeInv' /\ NoIndexTwice' /\ StmtInv'
    BY <2>1, Zenon DEF Inv, TypeInv, NoIndexTwice, StmtInv, IsTable, IsIndex
  <2>3. OpenInv' /\ MetaInv' /\ ListedFilesExist'
    BY <2>1, Zenon DEF Inv, OpenInv, Dropping, MetaInv, FilesThere, ListedFilesExist
  <2> QED
    BY <2>2, <2>3 DEF Inv
<1> QED
  BY <1>1, <1>2, <1>3, <1>4, <1>5, <1>6 DEF Next, Restart, NeverOpens

(* The inductive invariant holds however statements, crashes and restarts  *)
(* follow each other.                                                      *)
THEOREM CatalogSafety == Spec => []Inv
<1>1. Init => Inv
  BY InitInv
<1>2. Inv /\ [Next]_vars => Inv'
  BY NextInv
<1> QED
  BY <1>1, <1>2, PTL DEF Spec, Next

(* Whatever statements have run, failed and been cut off, between two      *)
(* statements every table and index of the catalog has its handle and its  *)
(* file, and no other handle is open: what the executors rely on.          *)
THEOREM HandlesAreExact == Spec => []CatalogIsOpen
<1>1. Inv => CatalogIsOpen
  BY DEF Inv, OpenInv, CatalogIsOpen, Idle, At, Dropping
<1> QED
  BY <1>1, CatalogSafety, PTL

(* The meta file names only tables and indexes whose files are there, save *)
(* between the destruction of a file and the next flush_meta and for       *)
(* abandoned drops.                                                        *)
THEOREM MetaIsBacked == Spec => []ListedFilesExist
<1>1. Inv => ListedFilesExist
  BY DEF Inv
<1> QED
  BY <1>1, CatalogSafety, PTL

(* open_db brings back the catalog that was in memory when the server      *)
(* stopped, wherever the statement in progress was cut off.                *)
THEOREM RestartIsExact == Spec => RestartKeepsCatalog
<1>1. Inv /\ [Next]_vars => [OpenDb => tabs' = tabs]_vars
  BY OpenedCatalog DEF OpenDb
<1> QED
  BY <1>1, CatalogSafety, PTL DEF Spec, Next, RestartKeepsCatalog
=============================================================================
