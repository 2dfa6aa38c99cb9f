----------------------------- MODULE RecordScan -----------------------------
(***************************************************************************)
(* A scan of a record file (RmScan) by one session while another session   *)
(* changes the file.  Nothing is locked: the lock manager grants every     *)
(* request without recording it.  The scan fetches one page at a time and  *)
(* unpins it before it goes on, so the other session may run between two   *)
(* pages as well as between two records.                                   *)
(***************************************************************************)
EXTENDS RecordFile

VARIABLES
  scan,   \* what RmScan is doing, its rid_, and the num_pages it has read
  due,    \* records that were there when the scan began, still are and have
          \* not been returned yet
  seen    \* record numbers the scan has returned

svars == <<vars, scan, due, seen>>

Rid == [page_no |-> scan.page_no, slot_no |-> scan.slot_no]

Present == {r \in Rids : IsRecord(r)}

ScanInit ==
  /\ Init
  /\ scan = [state |-> "off", page_no |-> 0, slot_no |-> -1, limit |-> 0]
  /\ due = {}
  /\ seen = {}

(* RmScan::RmScan: the search starts before the first slot of page 1.      *)
ScanBegins ==
  /\ scan.state = "off"
  /\ scan' = [state |-> "seek", page_no |-> 1, slot_no |-> -1, limit |-> num_pages]
  /\ due' = Present
  /\ UNCHANGED <<vars, seen>>

NextSlots == {s \in Slots : s > scan.slot_no /\ pages[scan.page_no].slots[s] # Free}

(* One round of the loop of RmScan::RmScan and RmScan::next: the next bit  *)
(* that is set in this page, or else the next page from its beginning.     *)

FindsRecord ==
  /\ scan.state = "seek"
  /\ scan.page_no < scan.limit
  /\ \E s \in NextSlots :
       /\ \A t \in NextSlots : s <= t
       /\ scan' = [scan EXCEPT !.state = "at", !.slot_no = s]
       /\ seen' = seen \cup {[page_no |-> scan.page_no, slot_no |-> s]}
       /\ due' = due \ {[page_no |-> scan.page_no, slot_no |-> s]}
  /\ UNCHANGED vars

SlotKeptOnNextPage ==
  /\ scan.state = "seek"
  /\ scan.page_no < scan.limit
  /\ NextSlots = {}
  /\ scan' = [scan EXCEPT !.page_no = @ + 1]
  /\ UNCHANGED <<vars, due, seen>>

GoesToNextPage ==
  /\ scan.state = "seek"
  /\ scan.page_no < scan.limit
  /\ NextSlots = {}
  /\ scan' = [scan EXCEPT !.page_no = @ + 1, !.slot_no = -1]
  /\ UNCHANGED <<vars, due, seen>>

ScanEnds ==
  /\ scan.state = "seek"
  /\ scan.page_no >= scan.limit
  /\ scan' = [scan EXCEPT !.state = "end", !.page_no = -1, !.slot_no = -1]
  /\ UNCHANGED <<vars, due, seen>>

NextStartsPageOver ==
  /\ scan.state = "at"
  /\ scan' = [scan EXCEPT !.state = "seek", !.slot_no = -1, !.limit = num_pages]
  /\ UNCHANGED <<vars, due, seen>>

(* The caller has used the record and calls RmScan::next, which reads      *)
(* num_pages anew.                                                         *)
CallsNext ==
  /\ scan.state = "at"
  /\ scan' = [scan EXCEPT !.state = "seek", !.limit = num_pages]
  /\ UNCHANGED <<vars, due, seen>>

ScanStep ==
  /\ ~ WalkAborts
  /\ ScanBegins \/ FindsRecord \/ GoesToNextPage \/ ScanEnds \/ CallsNext

(* A step of the other session.                                            *)
WriterStep ==
  /\ Next
  /\ due' = due \cap Present'
  /\ UNCHANGED <<scan, seen>>

(* A deletion that walks through the list goes on to its end.              *)
ScanSpec ==
  /\ ScanInit
  /\ [][ScanStep \/ WriterStep]_svars
  /\ WF_svars(WriterStep /\ walk # Idle)

-----------------------------------------------------------------------------

(* A scan that has ended has returned every record that was there from its *)
(* beginning to its end, whatever was inserted and deleted meanwhile.      *)
ScanIsComplete == scan.state = "end" => due = {}

(* A scan never returns a record number twice: one that is deleted and     *)
(* used again behind the scan is not seen again.                           *)
EachOnce ==
  [][scan.state = "seek" /\ scan'.state = "at" => Rid' \notin seen]_svars
=============================================================================
