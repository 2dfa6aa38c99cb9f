---------------------------- MODULE RecordStore -----------------------------
(***************************************************************************)
(* What a table file promises the executors: a set of records, each with a *)
(* record number that it keeps as long as it exists.  Pages, bitmaps,      *)
(* record counts and the list of pages with space do not exist here.       *)
(***************************************************************************)
EXTENDS Integers

CONSTANTS
  Rids,     \* the record numbers, Rid{page_no, slot_no}
  Values,   \* contents of a record
  Free      \* there is no record with this number

VARIABLES
  records,  \* records[r]: content of record r
  old       \* pages that came with records nobody inserted

vars == <<records, old>>

Init ==
  /\ records = [r \in Rids |-> Free]
  /\ old = 0

(* The table picks a number that is not in use. *)
Insert(r, v) ==
  /\ records[r] = Free
  /\ records' = [records EXCEPT ![r] = v]
  /\ UNCHANGED old

(* It picks one on a page without records, and others come up there.       *)
InsertAmongOld(r, v) ==
  /\ records' \in [Rids -> Values \cup {Free}]
  /\ records'[r] = v
  /\ \A q \in Rids :
       IF q.page_no = r.page_no THEN records[q] = Free ELSE records'[q] = records[q]
  /\ old' = old + 1

Update(r, v) ==
  /\ records[r] # Free
  /\ records' = [records EXCEPT ![r] = v]
  /\ UNCHANGED old

Delete(r) ==
  /\ records[r] # Free
  /\ records' = [records EXCEPT ![r] = Free]
  /\ UNCHANGED old

Next ==
  \E r \in Rids :
    \/ \E v \in Values : Insert(r, v) \/ InsertAmongOld(r, v) \/ Update(r, v)
    \/ Delete(r)

Spec == Init /\ [][Next]_vars
=============================================================================
