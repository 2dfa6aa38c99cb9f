# RMDB in TLA+

This directory holds a TLA+ model of RMDB, the teaching database system in
`src/`: specifications of its components, the TLC configurations that check
them on small instances, and theorems about them with proofs for TLAPS.

Modules are written from the code. `PROJECT.json` maps every definition to the
lines it stands for, and lists components, runs, hazards, findings and theorems.

## 1. The system

| part | state | operations | talks to |
|---|---|---|---|
| disk manager | open files, next page number per file | read, write, allocate a page; create, open, close, destroy a file | operating system |
| LRU replacer | list of unpinned frames | victim, pin, unpin | buffer pool |
| buffer pool | frames, page table, free list | fetch, unpin, flush, new, delete page, flush all | disk manager, replacer |
| record file | file header in memory; pages with bitmap, count and link | insert, insert at a position, delete, update, get a record | buffer pool |
| record scan | current record number | begin, next, is_end | record file |
| B+ tree index | file header; nodes | insert, delete, look up, bounds, scan | buffer pool |
| executors | cursor of each node of a plan | beginTuple, nextTuple, Next | record files, indexes, transaction |
| transactions | table of transactions, write sets | begin, commit, abort, get | record files, indexes |
| lock manager | none (all requests are granted) | lock_*, unlock | |
| log, recovery | none (all functions are empty) | | |
| system manager | catalog in memory, meta file, open handles | create and drop database, table, index; open, close | record and index managers |
| analyzer, planner | none between statements | analyze, plan | catalog |
| server | listening socket, one thread per connection, two mutexes, the parser's global tree | accept, receive, execute, reply | everything |

What makes it hard: threads share buffer pool, files, parser and transaction
table; the buffer pool evicts pages behind its users' backs; errors are
exceptions that leave an operation half way; a statement changes several files
one after the other and the process may stop between two of them; a record file
threads a sorted list through its pages; an abort undoes writes with operations
that were not made for it.

## 2. Modules

| module | models |
|---|---|
| `PageStore` | abstract: what the buffer pool promises. Pages have contents; clients pin, write and unpin them |
| `LRUReplacer` | `LRUReplacer`, as operators on its list |
| `BufferPool` | `BufferPoolManager` with replacer and page files, and its clients |
| `BufferPoolFaults` | the same when `write_page` throws |
| `DeleteRecordPins` | the same under `RmFileHandle::delete_record` on a full page |
| `RecordStore` | abstract: what a record file promises. A function from record numbers to records |
| `RecordFile` | `RmFileHandle`: bitmap, counts, list of pages with space |
| `RecordScan` | `RmScan` next to a session that changes the file |
| `TableTransactions` | insert, delete and update executors on a table with a unique index; `commit` and `abort` |
| `Server` | main thread and connection handlers of `rmdb.cpp`; `begin` and `get_transaction` |
| `Catalog` | `SmManager`'s statements on tables and indexes, with crashes and restarts |
| `IndexNode` | `IxNodeHandle` on the pairs of one node, and one turn of each loop of `IxIndexHandle` on the nodes of a B+ tree |
| `IndexSteps` | one index beside the rows of its table: `IxIndexHandle` and `IxScan`, one turn of a loop at a time |
| `IndexTree` | the whole operations, as recursive operators on the turns of `IndexNode` |
| `Values` | `Value` and `Condition`: comparisons, casts, dates, edge values, the raw bytes of a literal |
| `Executors` | scans, joins, external sort, aggregation, projection, and the executors that change a table |
| `Planner` | `Analyze`, `Planner`: from a parsed statement to a plan |
| `Queries` | statements on a table while it and its index change: `IndexSteps`, `Executors` and `Planner` composed |
| `MCBufferPool`, `MCBufferPoolFaults` | symmetry sets for TLC |
| `MCRecordScan` | the bound on what a file may hold when a scan begins |
| `MCIndexTree`, `MCQueries` | keys, a schema and statements for TLC |
| `SequenceFacts` | lemmas on lists without duplicates: removing, adding at either end, the order that stays |
| `BufferPool_proofs` | theorems on the buffer pool and on `BufferPoolFaults` |
| `RecordFile_proofs`, `RecordScan_proofs` | theorems on the record file and its scan |
| `TableTransactions_proofs` | theorems on abort and the index |
| `Catalog_proofs` | theorems on catalog, handles, files and restarts |
| `Server_proofs`, `Values_proofs` | theorems on the handlers, and on values and dates |

Modules compose by `EXTENDS`: the variables of the base module keep its actions,
and the extending module adds variables and steps. Definitions that carry a
mistake in their name (`LruPinForgotten`, `LeavesOneEarly`, ...) are variants of
the definition below them. No specification uses them; put in its place, each
makes a property fail, which shows that the property depends on that code.

### Buffer pool

Each operation of `BufferPoolManager` holds `latch_` throughout and is one step.
Page contents are written outside the latch, through the pointer `fetch_page`
returned: `held[c][p]` is that pointer and `WritePage` the store. `wrote` is the
protocol of the layers above: what was written is unpinned with
`is_dirty = true`. A page's bytes are one value; a file is a function from pages
to values, with holes of zeros where `lseek` skipped. `delete_page` leaves its
frame in the replacer's list, and so does the model.

`BufferPoolFaults` adds the exceptions of `write_page`, at the point of the
operation where the code is when they are thrown. `new_page` has taken a page
number by then, and nobody gets it: the page is in neither the pool nor the file
until a later page is written behind it and it becomes a hole of zeros. So the pool
with faults implements `LossySpec` of `PageStore`, in which a page may be used up
without a client, and not `Spec`. A client fetches a lost page only once it is a
hole; before that `read_page` throws, and failing reads are left out.

### Record file

`RecordFile` is used by one statement at a time; `RecordScan` and
`TableTransactions` interleave sessions. Bitmap and slots are one function from
slots to a value or `Free`. The walk of `release_page_handle` through the list
takes one step per page (`WalkStarts`, `WalkGoesOn`, `WalkEnds`): this models the
loop without recursion, and shows that it ends. The callers hand `delete_record`
and `update_record` record numbers they found in a scan or an index; `IsRecord`
in the guards says so. An assertion that fails ends the process: behind the loop
of the walk this is `ProcessEnded`, elsewhere the step is not there, and
`AssertionsHold` says when that can be.

Two things set bits of the bitmap that `num_records` does not count. Once the
buffer pool has used all its frames, a new page has the bytes of the page that
was evicted for it, and `create_new_page_handle` clears neither bitmap nor count
(`InsertOnOldPage`; `OldPages` are the bytes). And `insert_record` at a position,
with which `abort` restores a row, does not count it (`InsertRecordAt`). The history
variables `old` and `put` say how often each has happened, and the properties say
what survives:

- whatever happened: the file implements `RecordStore` (a new page may bring along
  records, on its own numbers and nowhere else), a deletion ends, and
  `create_page_handle`'s assertion holds;
- while new pages come zeroed: `num_records` is at most the number of bits, and
  less by at most `put`; the list has exactly the pages that `num_records` says are
  not full; `release_page_handle`'s assertions hold;
- while besides no record was put at a position: counts are exact, and
  `insert_record` finds a free slot. `abort_count` shows that it does not afterwards.

### Transactions

A record is its key, the table has one unique index, and the index is a function
from keys to record numbers (the B+ tree's own behaviour is left out).
`committed` is a history variable: the table as the committed writes have made
it. `UndoDelete` uses `insert_record` with a position, which does not count the
record, so that `num_records` sinks with every aborted `DELETE`.

### Server

One action per stretch of code between two accesses to shared state. A client may
send any request; it fails to parse, fails analysis, or runs and leaves its
transaction open, made explicit, committed or aborted.

### Catalog

Steps are the changes of files, in the order of the code, and the process may be
killed before each of them. `flush_meta` is two steps, because `ofstream`
truncates the file when it opens it. Killing the process loses memory, not
completed writes. Data in the files is left out. `drop_table`'s loop over a
vector that shrinks is undefined behaviour; the model has what the compiled loop
does with one and with two indexes, and `AtMostTwoIndexes` says that there are no
more. The code destroys files before it updates the meta file. The history
variable `behind` is true from then to the next `flush_meta`; `Spec` lets the
process be killed at every other point, and `StopSpec`, for the run
`drop_restart`, between any two statements. With two indexes `drop_table` throws
after it has destroyed the table's file and one index; the table stays in the
catalog. The history variable `abandoned` has these tables. The properties except
them by name, and speak of everything else.

### Index tree

`tree` is the nodes, the header's root and leaf ends, and the page counter of the
file. A node is its pairs in slot order with its links; `InsertPairs`, `ErasePair`,
`Split`, `AddToParent`, `Redistribute`, `Merge` and `Coalesce` are what the functions of
these names do up to their next recursion or loop. `IndexSteps` takes one such turn per
step: `GoDown` is a level of `find_leaf_page`, `SplitFullNode` a level of
`insert_into_parent`, `CoalesceNode` one of `coalesce_or_redistribute`, `MaintainKey` one
of `maintain_parent`, `ScanNext` one `IxScan::next`. `root_latch_` is held by
`insert_entry`, `delete_entry` and `get_value`, so there is one operation under way,
`call`, and it names the page it is at. Written this way the operations need no
recursion, and an error in the middle of one is seen where it happens. `IndexTree` has
the same operations whole, for the executors of `Queries`. Keys are tuples compared
column by column, as `ix_compare` does.

Two things the code does break the tree, and the model has them:

- a key below the first separator of the root leaves that separator as it is; when
  the first leaf is split later, a smaller separator comes after it. `upper_bound`
  starts at slot 0, and keys in between are looked for in the wrong leaf (run
  `index_lookup`);
- `coalesce_or_redistribute` passes the sibling's slot to `redistribute` and
  `coalesce`, which take the node's. Only borrowing from a left sibling that is not
  the first child comes out right.

`InsertWorks` and `LosingOneWorks` describe the other operations; `Spec` and `Queries` use
those, `InsertSpec` any insertion. That restriction is on the input alone; what is left still splits leaves and
inner nodes, grows to three levels, borrows, updates separators and empties the
root.

### Values, executors, planner, queries

A value is its type with an integer; a `FLOAT` is counted in eighths, with two
values below the others for a denormal and `FLT_MIN`. `RawAs` is what the bytes of a
literal read as in a key of another type: the analyzer accepts an `INT` literal
for a `FLOAT` column, and the index scan copies its bytes. Those of a negative `INT`
and of `INT_MAX` are a NaN, which `ix_compare` finds equal to every `FLOAT`; in the
last field of a bound it excludes nothing.

An executor is a function from the relations it reads to the relation it returns,
with its error: no executor's cursor is visible to another session, so the order of
the records and the failure is all there is to see. `IndexConds` and `KeyEdge` are
the constructor and the bounds of the index scan; `WriteRuns`, `Losers`, `Adjust`
and `ReadAll` the external sorter, whose memory is `RunLength` records; `MergeFrom`
the merge join's `nextTuple`.

`Analyze` and `AnalyzeChange` are `do_analyze`, with the errors in the order the code
meets them. `GetIndexCols` chooses the index and puts the matched conditions in
front; `MakeOneRel` pops the conditions of each table, joins by the first
condition (`FirstJoin`, where the join knobs are looked at), by the others
(`AddJoin`, `PushCond`) and crosses the rest (`CrossRest`).

`Queries` runs a statement as one step between changes of the table: the locks
grant everything, and a statement that meets another one half way is not in this
module. The meaning a statement is compared with (`Expected`) is the product of
its tables, filtered, grouped and projected, written without the planner.
The properties name what the engine does not answer as meant, as conditions on the
statement or the data:

- `WithinFrom`: a condition names a table outside `FROM`, or compares two columns
  of one table, which the scans assert away;
- `FirstJoinInOrder`: the first join condition names the second table first with
  `<`, `>`, `<=` or `>=`; its columns are exchanged and its operator is not;
- `ExactBounds`: two conditions on a column, a literal of another type, or a
  `FLOAT` key not above `FLT_MIN` make an index scan miss rows;
- `FloatBoundsInOrder`: a `FLOAT` column bounded from above below `FLT_MIN`, where its
  lower bound starts; the walk from the lower to the upper bound leaves the index;
- `HasRows`, `SortsRows`: a sort of no records divides by zero, also where one of the
  above made the plan miss the rows there are, and `COUNT` of none is `NULL`;
- `Ordered`, `OrderColumnExists`: `ORDER BY` over an aggregation throws, and a column
  that does not exist, which the analyzer does not look for, fails an assertion;
- `HavingSelected`, `HavingHasLiterals`: `HAVING` on an aggregate that is not
  selected throws, and a column on its right fails an assertion;
- `Joined`, `LoneEquality`: a merge join drops all conditions but one equality, and
  returns one row where a key repeats on both sides.

`AnswersAreExact` excepts all of them, `AnswersAreSound` and `AcceptedStatementsRun`
the ones their definitions name. The statements have each case, and
`AcceptedStatementsRun` fails as soon as one of its exceptions is left out. A table
stands in `FROM` once.

## 3. Runs

Bounds: two frames and three pages make every fetch a possible eviction; two
clients make every pair of operations overlap. Record pages have two slots, so
that a page can be empty, half full and full; a file of three record pages is
the smallest in which a page can go to the beginning, the middle and the end of
the list and the walk has a step to go on. One new page comes with old bytes, any
bitmap with a count that makes the page full at once or more than full, and one record is
put at a position; a scan, which looks at nothing but the bits, begins in files
without either and with one content of records (`ScanBound`), while the writer has
two contents, so that an update changes one. `TableTransactions` has pages of one
slot, so that each deletion walks the list. `MaxRequests = 3` lets both
connections send and one of them send again. Two indexes per table make
`DROP TABLE` leave its loop half way (see `DropFirstIndex`). `write_faults` has four
pages: the third is the first that can be lost, and the loss shows only when a page
is written behind it. Trees have order 3,
the smallest `create_index` accepts, and eight keys, which make three levels and
split an inner node. The statements of `queries` have every operator on either
column of the index, two conditions in both orders, joins of two and three tables
under every setting of the join knobs, and each case the list above excepts; runs
of two records give the sorter one to twelve runs, powers of two and others.

| run | instance | shows |
|---|---|---|
| `buffer_pool` | 2 frames, 1 file of 3 pages, 2 clients | pointers stay valid, pins and lists are exact, no update is lost, the frame released first is evicted first, the pool implements `PageStore` |
| `write_faults` | the same with 4 pages, writes may throw | a failed write-back loses no update and no pin, leaks a frame only until its page is fetched again, and loses at most the page number `new_page` had taken |
| `record_file` | a writer and a scan, 3 record pages of 2 slots, 1 page with old bytes, 1 record put at a position | the file implements `RecordStore` and deletions end; list, counts and bitmaps agree and assertions hold as far as said above; the scan is complete and returns nothing twice |
| `transactions` | 1 session, 3 keys, pages of 1 slot | an abort is exact, and the index follows the table |
| `server` | 2 connections, 3 requests | own socket, own request, every request answered, the main thread goes on to the next accept |
| `queries` | 8 keys, order 3, 3 tables, 100 select and 32 change statements | the tree keeps its shape, lookups and scans are exact, the leaf list is in order; statements are answered by the rows they mean; changes touch the rows they mean |
| `catalog` | 2 tables, 2 indexes each, crashes | catalog, handles and files agree between statements, the meta file names no missing file (both but for abandoned drops), a restart brings the catalog back |

The other runs end with a counterexample. Each checks one sentence of a comment,
an assertion or a test against the code; `findings` in `PROJECT.json` quotes it.

| run | the counterexample |
|---|---|
| `delete_pins` | `delete_record` on a full page unpins twice; the other client's page is evicted |
| `index_lookup` | insert 4, 5, 7, 8, 1, 6, 2, 3: key 3 is not found |
| `abort_count` | delete, abort, insert, ...: a full page is first in the list |
| `txn_ids` | two threads take the same transaction id |
| `drop_restart` | drop a table, restart: the server does not start |

What the properties leave out is listed under `hazards`, with a note: a new node of
an index has the bytes of the page evicted for it; a failed read leaves a page table
entry; descriptors are used again while frames of the old file are in the pool;
two sessions overwrite each other's rows, since no lock is ever refused;
`close_db` writes nothing; a failed `accept` leaves `sockfd_mutex` locked; splits
and index scans keep pins.

### Fairness

`MCRecordScan`, as `RecordScan`: weak fairness of the walk, a running statement continues.
`Server`: weak fairness of the main thread and of each handler, which the
operating system's scheduler gives every runnable thread. Clients need not send
anything. A handler waiting for `buffer_mutex` needs no strong fairness, because
requests are bounded; a mutex under unbounded contention promises no more.

## 4. Proofs

Theorems hold for every pool size, number of files, pages, clients, slots, keys,
tables and connections, from `PoolAssumption`, `FileAssumption`,
`NoRidAssumption`, `NamesAssumption` and `ConnsAssumption`, which say that there is
at least one of what is counted and that the values that stand for "none" are not
among the others.

**Buffer pool.** `BufferPool_proofs` proves `WriteFaultSpec => []Inv`, and
`Spec => [](Inv /\ NothingLost)`. `Inv` is the conjunction of what failing writes
leave intact: the type invariant, `PointersStayValid`, `PinsMatchHolders`,
`PinnedFramesAreNoVictims`, `PageTableMatchesFrames`, `NoFrameTwice`, `NoLostUpdate`
and `NewPagesAreUnused`. They need each other: that a victim is not pinned follows
from the two lists, that its pin count of 0 means that nobody holds the page from
`PinsMatchHolders`, that evicting it loses nothing from `NoLostUpdate`, and that a
new page number is not in the pool from `NewPagesAreUnused`. `NothingLost` is what
a failing write does break: every unpinned frame is in a list
(`VictimsAreUnpinned`), and every page number handed out is in the pool or in the
file (`NoPageLost`, which makes `AllocatedPagesAreReadable`). Each property of the
runs `buffer_pool` and `write_faults` is then a theorem. `LeaksAreReachable` needs
`PageTableMatchesFrames` and that an unused frame is in the free list;
`EvictionOrder` that a step which gives a frame to another page took the last of the
list, since the free list has no frame with a page, and that `pin`, `unpin` and
`victim` keep the order of the frames that stay (`SequenceFacts`). `Refinement` and `FaultyRefinement` show that the pool
implements `PageStore`: fetch, new, write and unpin map to its actions, a failed
`new_page` to `LosePage`, everything else to stuttering. `TakeVictimMapped` is the
heart: no page's content changes when a victim is written back and its frame given
to another page.

**Record file.** `RecordFile_proofs` proves type correctness,
`CountsMatchBitmaps`, `ListHoldsPagesWithSpace` and `AssertionsHold`. The invariant has
two parts. `FileInv` holds whatever bytes a new page has and however many records were
put at a position: links lead to pages that exist, or to the next page number,
and pages that do not exist hold no record. `Exact` holds while new pages come zeroed:
`num_records` lies between the number of bits less `put` and that number, the list
links exactly the pages that are not full by their count, and during a walk the page
to be linked is full and the page in hand is in the list. The list is described
locally, each page with space points to the next larger one; that is what makes the
invariant inductive without induction over the list. `Refinement` needs `FileInv`
alone: an insertion fills a slot that is free, the last step of a deletion empties the
slot the walk was for, the steps of the walk are stuttering, and a page with old
bytes is the store's `InsertAmongOld`.

**Record scan.** `RecordScan_proofs` proves that a scan is complete and returns
nothing twice, for any file and any writer beside it. `ScanInv` says that every
record in front of the scan's position that was there throughout has been
returned, and that what was returned lies in front of it. It uses the record
file's invariant for the shape of the pages the writer leaves.

**Transactions.** `TableTransactions_proofs` proves `OnlyCommittedWritesStay` and
`IndexMatchesTable` under `OneSession`, that there is a single session, with any
number of pages, slots, keys and writes. With two sessions both fail, because no
lock is refused. Of the record file's invariant only `FileInv` can be used: an aborted
`DELETE` leaves `num_records` too low and full pages in the list (run
`abort_count`), and `FileInv` still protects the rows. `Table` is the file without the row that a walk of
`release_page_handle` is about to delete. The inductive invariant says that the
write set has a history: a sequence of tables from the committed one to the present
one, in which each entry of the write set makes the next of the one before. A write
makes it longer (`HistoryGrows`), `abort` makes it shorter by its last entry
(`HistoryShrinks`), and when it is used up the table is the committed one
(`HistoryEmpty`). Keys are unique in every table of the history, so that an undone
deletion or update puts back a key that is not in the index.

**Catalog.** `Catalog_proofs` proves `CatalogIsOpen`, `ListedFilesExist` and
`RestartKeepsCatalog` for any set of tables. `StmtInv` says what a statement has
done when it comes to each of its steps, `OpenInv` how handles and files lag behind
the catalog in the middle of a statement, `NoIndexTwice` that an index is in the
list of its table once, so that erasing it leaves none. `RestartKeepsCatalog` rests
on `MetaInv`: the meta file is truncated, or is the catalog, or names a file that
was destroyed, and then `open_db` fails. `AtMostTwoIndexes` is the bound up to which
`DropFirstIndex` models the loop; the proofs do not use it.

**Server.** `Server_proofs` proves `OwnSocket` and `OwnRequest` for any set of
connections. `SocketHandedOver` says that the variable on the main thread's stack
belongs to the connection whose handler has not yet unlocked `sockfd_mutex`;
`ParserOwned` that the global tree is that of the handler that holds
`buffer_mutex`.

**Values.** `Values_proofs` proves that comparing is a trichotomy across types, that
a condition with its sides and operator exchanged means the same (the index scan,
`get_index_cols` and `push_conds` rely on it), and that a date packed into an
integer reads back and compares as in the calendar. The constants that stand for
`FLT_MAX` and the like play no part in these.

Only model-checked: liveness (`DeletionsEnd`, `RequestsAreAnswered`,
`MainAcceptsAgain`), which the prover does not do under fairness; `IndexTree`,
`Executors`, `Planner` and `Queries`, whose algorithms are recursive over trees,
lists and conditions, and the prover cannot do induction over data; and the
properties of the runs that end with a counterexample, which do not hold.

## 5. Not modelled, and plan

Not modelled in the parts that are:

- index tree: pins, `num_pages_`, the bytes of the evicted page in a new node,
  `first_leaf_` of a tree whose first leaf was merged away, and a restart. `close_db`
  is empty and `close_index` runs only before a file is destroyed, so a new process
  reads the header `create_index` wrote, with whatever pages were evicted;
- index tree: `coalesce` calls `maintain_child` for slots past the merged pairs, whose
  bytes name no child of the node (`Merge`);
- values: `FLOAT` rounding, and a NaN that is not the last field of a bound; `STRING`
  and `DATE` columns in queries (`Values` has them);
- executors: `DESC` (the sorter is always ascending, and no property speaks of it),
  `SUM` of strings, the files in which the merge join prints its inputs, temporary
  files of the sorter that cannot be opened;
- planner: `CREATE`, `DROP` and the other statements that are passed on as they are;
  a join condition on a table outside `FROM` is one failure, whichever it is;
- statements on several indexes of one table, and statements that interleave.

Next:

1. `IndexTree` on `BufferPool`'s pages: pins that are kept, and new nodes with the
   bytes of an evicted page;
2. `insert_record` in steps, with two sessions in one file;
3. `Server` composed with `TableTransactions`: connections that end with an open
   transaction;
4. proofs: what the operations on one node of the B+ tree keep (`insert_pairs`,
   `erase_pair`, the bounds), which needs no recursion.

Not planned: parser (generated), printing, the terminal client, the log manager
and recovery (empty functions).
