------------------------- MODULE TableTransactions --------------------------
(***************************************************************************)
(* The insert, delete and update executors on a table with one unique      *)
(* index, and the transaction manager's commit and abort.  A record is its *)
(* key.  A statement on several rows is several steps here; an executor    *)
(* that finds a duplicate key throws without touching the row, and leaves  *)
(* the transaction open.                                                   *)
(*                                                                         *)
(* The buffer pool has unused frames, so that new pages come zeroed.       *)
(*                                                                         *)
(* Sessions interleave between rows.  (The lock manager grants every       *)
(* request, so nothing else keeps them apart.)                             *)
(***************************************************************************)
EXTENDS RecordFile, Sequences

CONSTANTS
  Sessions,    \* client connections
  NoRid,       \* the index has no entry for a key
  MaxWrites,   \* bound: writes of one explicit transaction
  MaxDrift     \* bound: DELETE lowers num_records to - MaxDrift at most

ASSUME NoRidAssumption == NoRid \notin Rids

VARIABLES
  index,       \* index[k]: the record number the index has for key k
  txn_mode,    \* "auto", "explicit" or, while abort runs, "aborting"
  write_set,   \* the writes of each session's explicit transaction
  committed    \* the table as the committed writes have made it

tvars == <<vars, index, txn_mode, write_set, committed>>

TableInit ==
  /\ Init
  /\ index = [k \in Values |-> NoRid]
  /\ txn_mode = [s \in Sessions |-> "auto"]
  /\ write_set = [s \in Sessions |-> <<>>]
  /\ committed = [r \in Rids |-> Free]

-----------------------------------------------------------------------------
(* WriteRecord, and what becomes of it *)

(* record is the row after the write, old_record the row before it; a      *)
(* deleted row is kept in record by the code, in old_record here.          *)
WriteRecord(type, r, record, old_record) ==
  [type |-> type, rid |-> r, record |-> record, old_record |-> old_record]

NoteForgotten(s, w) ==
  IF txn_mode[s] = "explicit" THEN UNCHANGED <<write_set, committed>>
  ELSE /\ committed' = [committed EXCEPT ![w.rid] = w.record]
       /\ UNCHANGED write_set

(* A write of an explicit transaction is noted for abort; any other write  *)
(* is committed with its statement.                                        *)
Noted(s, w) ==
  IF txn_mode[s] = "explicit"
  THEN /\ Len(write_set[s]) < MaxWrites
       /\ write_set' = [write_set EXCEPT ![s] = Append(@, w)]
       /\ UNCHANGED committed
  ELSE /\ committed' = [committed EXCEPT ![w.rid] = w.record]
       /\ UNCHANGED write_set

MayRun(s) == walk = Idle /\ txn_mode[s] # "aborting"

-----------------------------------------------------------------------------
(* The executors, a row at a time *)

InsertedRid ==
  [page_no |-> InsertionPageNo, slot_no |-> FirstZero(InsertionPage(ZeroPage).slots)]

(* The duplicate check of InsertExecutor and UpdateExecutor: get_value.    *)
IsNewKey(k) == index[k] = NoRid

InsertRow(s, k) ==
  /\ MayRun(s)
  /\ IsNewKey(k)
  /\ InsertRecord(k)
  /\ index' = [index EXCEPT ![k] = InsertedRid]
  /\ Noted(s, WriteRecord("INSERT_TUPLE", InsertedRid, k, Free))
  /\ UNCHANGED txn_mode

DeleteRow(s, r) ==
  /\ MayRun(s)
  /\ pages[r.page_no].num_records > - MaxDrift
  /\ Delete(r)
  /\ index' = [index EXCEPT ![Records[r]] = NoRid]
  /\ Noted(s, WriteRecord("DELETE_TUPLE", r, Free, Records[r]))
  /\ UNCHANGED txn_mode

(* An update that keeps the key does not look at the index.                *)
UpdateRow(s, r, k) ==
  /\ MayRun(s)
  /\ k = Records[r] \/ IsNewKey(k)
  /\ UpdateRecord(r, k)
  /\ index' = [index EXCEPT ![Records[r]] = NoRid, ![k] = r]
  /\ Noted(s, WriteRecord("UPDATE_TUPLE", r, k, Records[r]))
  /\ UNCHANGED txn_mode

(* The deletion of a record from a full page goes on.                      *)
DeletionGoesOn ==
  /\ WalkGoesOn \/ WalkEnds
  /\ UNCHANGED <<index, txn_mode, write_set, committed>>

-----------------------------------------------------------------------------
(* begin, commit and abort *)

Begin(s) ==
  /\ walk = Idle
  /\ txn_mode[s] = "auto"
  /\ txn_mode' = [txn_mode EXCEPT ![s] = "explicit"]
  /\ UNCHANGED <<vars, index, write_set, committed>>

WrittenBy(s) == {write_set[s][i].rid : i \in DOMAIN write_set[s]}

(* TransactionManager::commit.  The next statement gets a new transaction, *)
(* with an empty write set.                                                *)
Commit(s) ==
  /\ walk = Idle
  /\ txn_mode[s] = "explicit"
  /\ committed' = [r \in Rids |-> IF r \in WrittenBy(s) THEN Records[r] ELSE committed[r]]
  /\ txn_mode' = [txn_mode EXCEPT ![s] = "auto"]
  /\ write_set' = [write_set EXCEPT ![s] = <<>>]
  /\ UNCHANGED <<vars, index>>

AbortStarts(s) ==
  /\ walk = Idle
  /\ txn_mode[s] = "explicit"
  /\ txn_mode' = [txn_mode EXCEPT ![s] = "aborting"]
  /\ UNCHANGED <<vars, index, write_set, committed>>

(* abort goes through the write set from its end.                          *)
Undone(s) == write_set[s][Len(write_set[s])]

UndoInsert(s) ==
  /\ Undone(s).type = "INSERT_TUPLE"
  /\ Delete(Undone(s).rid)
  /\ index' = [index EXCEPT ![Records[Undone(s).rid]] = NoRid]

UndoDelete(s) ==
  /\ Undone(s).type = "DELETE_TUPLE"
  /\ InsertRecordAt(Undone(s).rid, Undone(s).old_record)
  /\ index' = [index EXCEPT ![Undone(s).old_record] = Undone(s).rid]

UndoKeepsNewKey(s) ==
  /\ Undone(s).type = "UPDATE_TUPLE"
  /\ pages' = [pages EXCEPT ![Undone(s).rid.page_no].slots[Undone(s).rid.slot_no]
                              = Undone(s).old_record]
  /\ index' = [index EXCEPT ![Undone(s).old_record] = Undone(s).rid]
  /\ UNCHANGED <<num_pages, first_free_page_no, walk, old, put>>

UndoUpdate(s) ==
  /\ Undone(s).type = "UPDATE_TUPLE"
  /\ pages' = [pages EXCEPT ![Undone(s).rid.page_no].slots[Undone(s).rid.slot_no]
                              = Undone(s).old_record]
  /\ index' = [index EXCEPT ![Undone(s).record] = NoRid,
                            ![Undone(s).old_record] = Undone(s).rid]
  /\ UNCHANGED <<num_pages, first_free_page_no, walk, old, put>>

UndoWrite(s) ==
  /\ txn_mode[s] = "aborting"
  /\ walk = Idle
  /\ write_set[s] # <<>>
  /\ UndoInsert(s) \/ UndoDelete(s) \/ UndoUpdate(s)
  /\ write_set' = [write_set EXCEPT ![s] = SubSeq(@, 1, Len(@) - 1)]
  /\ UNCHANGED <<txn_mode, committed>>

AbortEnds(s) ==
  /\ txn_mode[s] = "aborting"
  /\ walk = Idle
  /\ write_set[s] = <<>>
  /\ txn_mode' = [txn_mode EXCEPT ![s] = "auto"]
  /\ UNCHANGED <<vars, index, write_set, committed>>

SessionNext(s) ==
  \/ \E k \in Values : InsertRow(s, k)
  \/ \E r \in Rids : DeleteRow(s, r)
  \/ \E r \in Rids, k \in Values : UpdateRow(s, r, k)
  \/ Begin(s) \/ Commit(s) \/ AbortStarts(s) \/ UndoWrite(s) \/ AbortEnds(s)

TableNext == DeletionGoesOn \/ \E s \in Sessions : SessionNext(s)

TableSpec == TableInit /\ [][TableNext]_tvars

-----------------------------------------------------------------------------

(* While no transaction is open the table is what the committed writes     *)
(* have made of it: an abort takes back every write of its transaction,    *)
(* and nothing else.  (transaction.h: the default isolation level is       *)
(* serializable.)                                                          *)
AllClosed == walk = Idle /\ \A s \in Sessions : txn_mode[s] = "auto"
OnlyCommittedWritesStay == AllClosed => Records = committed

(* The unique index and the table agree between any two statements, also   *)
(* while an abort is on its way: a key is in the index exactly if there is *)
(* a record with it, and leads to that record.                             *)
IndexMatchesTable ==
  walk = Idle =>
    \A k \in Values, r \in Rids : index[k] = r <=> Records[r] = k

(* insert_record's assertion: the first page of the list has a free slot.  *)
InsertFindsSlot ==
  (walk = Idle /\ ~ NoFreePage) =>
    \E s \in Slots : pages[first_free_page_no].slots[s] = Free
=============================================================================
