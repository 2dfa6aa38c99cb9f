----------------------------- MODULE RecordFile -----------------------------
(***************************************************************************)
(* A table's record file (RmFileHandle), used by one statement at a time.  *)
(* Page 0 holds the file header.  The other pages hold                     *)
(* num_records_per_page slots each, and those with a free slot are chained *)
(* in a list that starts in the header.                                    *)
(*                                                                         *)
(* Slots are numbered from 0.  The bitmap and the slots are one function:  *)
(* what is in a slot whose bit is 0 is never read.                         *)
(*                                                                         *)
(* Two operations set bits that num_records does not count.  A new page    *)
(* has the bytes of the page that was evicted for it once the buffer pool  *)
(* has used all its frames (NewPage in BufferPool), and insert_record at a *)
(* position, with which abort restores a row, leaves num_records as it is. *)
(* How often that happened is kept in two history variables.               *)
(*                                                                         *)
(* Variants of a definition, named after the mistake they make, stand      *)
(* before it; nothing here uses them.                                      *)
(***************************************************************************)
EXTENDS Integers, FiniteSets

CONSTANTS
  MaxPages,   \* bound: number of pages the file may grow to
  NumSlots,   \* num_records_per_page
  Values,     \* contents of a record
  Free,       \* a slot whose bit in the bitmap is 0
  OldCounts,  \* bound: what the bytes of an evicted page may be as num_records
  MaxOld,     \* bound: new pages that have the bytes of an evicted one
  MaxPut      \* bound: records that are put at a position

ASSUME FileAssumption ==
  /\ MaxPages \in Nat \ {0}
  /\ NumSlots \in Nat \ {0}
  /\ Free \notin Values
  /\ OldCounts \subseteq Int

VARIABLES
  num_pages,            \* file_hdr_.num_pages
  first_free_page_no,   \* file_hdr_.first_free_page_no
  pages,                \* the record pages
  walk,                 \* where release_page_handle is in the list
  old,                  \* new pages that came with the bytes of an evicted one
  put                   \* records that were put into a free slot at a position

vars == <<num_pages, first_free_page_no, pages, walk, old, put>>

PageNos == 1 .. MaxPages - 1
Slots == 0 .. NumSlots - 1
Rids == [page_no : PageNos, slot_no : Slots]

Page == [next_free_page_no : 0 .. MaxPages, num_records : Int,
         slots : [Slots -> Values \cup {Free}]]

(* A page as the buffer pool hands it out while it has unused frames, ...  *)
ZeroPage == [next_free_page_no |-> 0, num_records |-> 0,
             slots |-> [s \in Slots |-> Free]]

(* ... and afterwards: the bytes of some page of this or of another file.  *)
OldPages == [next_free_page_no : {0}, num_records : OldCounts,
             slots : [Slots -> Values \cup {Free}]]

Idle == [page_no |-> 0, slot_no |-> 0, prev |-> 0]

(* create_file and open_file: the file has its header page only.           *)
Init ==
  /\ num_pages = 1
  /\ first_free_page_no = -1
  /\ pages = [p \in PageNos |-> ZeroPage]
  /\ walk = Idle
  /\ old = 0
  /\ put = 0

-----------------------------------------------------------------------------

NoFreePage == first_free_page_no = num_pages \/ first_free_page_no = -1

InsertionPageNo == IF NoFreePage THEN num_pages ELSE first_free_page_no
NumPagesAfter == IF NoFreePage THEN num_pages + 1 ELSE num_pages

EndsWithMinusOne(new) ==
  IF NoFreePage THEN [new EXCEPT !.next_free_page_no = -1]
  ELSE pages[first_free_page_no]

(* create_page_handle: the first page of the list, or a new page, of which *)
(* only the link is set, to the page that does not exist yet.              *)
InsertionPage(new) ==
  IF NoFreePage THEN [new EXCEPT !.next_free_page_no = NumPagesAfter]
  ELSE pages[first_free_page_no]

(* Bitmap::first_bit(false, ...) *)
FirstZero(slots) ==
  CHOOSE s \in Slots : slots[s] = Free /\ \A t \in 0 .. s - 1 : slots[t] # Free

Filled(page, s, v) ==
  [page EXCEPT !.slots[s] = v, !.num_records = @ + 1]

FullPageStaysFirst(page) == InsertionPageNo
LeavesOneEarly(page) ==
  IF page.num_records = NumSlots - 1 THEN page.next_free_page_no
  ELSE InsertionPageNo

(* A page that has just become full leaves the list, which starts with it. *)
FirstFreeAfterInsert(page) ==
  IF page.num_records = NumSlots THEN page.next_free_page_no
  ELSE InsertionPageNo

(* insert_record without a position, `new' being the page it would get     *)
(* from new_page.  An assertion that fails ends the process, so that a     *)
(* page without a free slot is no step.                                    *)
InsertInto(new, v) ==
  /\ walk = Idle
  /\ NumPagesAfter <= MaxPages
  /\ \E s \in Slots : InsertionPage(new).slots[s] = Free
  /\ LET page == InsertionPage(new)
         filled == Filled(page, FirstZero(page.slots), v)
     IN  /\ pages' = [pages EXCEPT ![InsertionPageNo] = filled]
         /\ first_free_page_no' = FirstFreeAfterInsert(filled)
  /\ num_pages' = NumPagesAfter
  /\ UNCHANGED <<walk, put>>

InsertRecord(v) == InsertInto(ZeroPage, v) /\ UNCHANGED old

InsertOnOldPage(v) ==
  /\ NoFreePage
  /\ old < MaxOld
  /\ \E new \in OldPages : InsertInto(new, v)
  /\ old' = old + 1

(* insert_record at a position sets the bit, and leaves num_records and    *)
(* the list as they are.                                                   *)
InsertRecordAt(r, v) ==
  /\ walk = Idle
  /\ r.page_no < num_pages
  /\ pages' = [pages EXCEPT ![r.page_no].slots[r.slot_no] = v]
  /\ put' = IF pages[r.page_no].slots[r.slot_no] = Free THEN put + 1 ELSE put
  /\ UNCHANGED <<num_pages, first_free_page_no, walk, old>>

IsRecord(r) == r.page_no < num_pages /\ pages[r.page_no].slots[r.slot_no] # Free

(* update_record.  The callers update and delete records that they found.  *)
UpdateRecord(r, v) ==
  /\ walk = Idle
  /\ IsRecord(r)
  /\ pages' = [pages EXCEPT ![r.page_no].slots[r.slot_no] = v]
  /\ UNCHANGED <<num_pages, first_free_page_no, walk, old, put>>

BitmapInitialised(page, s) ==
  [page EXCEPT !.slots = [t \in Slots |-> Free], !.num_records = @ - 1]
CountForgotten(page, s) == [page EXCEPT !.slots[s] = Free]

(* The end of delete_record: the bit is reset, then the record counted.    *)
Emptied(page, s) ==
  [page EXCEPT !.slots[s] = Free, !.num_records = @ - 1]

Used(page) == {s \in Slots : page.slots[s] # Free}

IsFull(page) == page.num_records = NumSlots

(* delete_record on a page that is in the list already.                    *)
DeleteRecord(r) ==
  /\ walk = Idle
  /\ IsRecord(r)
  /\ ~ IsFull(pages[r.page_no])
  /\ pages' = [pages EXCEPT ![r.page_no] = Emptied(@, r.slot_no)]
  /\ UNCHANGED <<num_pages, first_free_page_no, walk, old, put>>

(* release_page_handle puts the page before the first page of the list.    *)
DeleteAtHead(r) ==
  /\ walk = Idle
  /\ IsRecord(r)
  /\ IsFull(pages[r.page_no])
  /\ r.page_no < first_free_page_no
  /\ pages' = [pages EXCEPT ![r.page_no] =
                 [Emptied(@, r.slot_no) EXCEPT !.next_free_page_no = first_free_page_no]]
  /\ first_free_page_no' = r.page_no
  /\ UNCHANGED <<num_pages, walk, old, put>>

(* release_page_handle looks for the page's place in the list: prev is the *)
(* page that the loop has in hand.                                         *)
WalkStarts(r) ==
  /\ walk = Idle
  /\ IsRecord(r)
  /\ IsFull(pages[r.page_no])
  /\ r.page_no > first_free_page_no
  /\ walk' = [page_no |-> r.page_no, slot_no |-> r.slot_no, prev |-> first_free_page_no]
  /\ UNCHANGED <<num_pages, first_free_page_no, pages, old, put>>

NextOfPrev == pages[walk.prev].next_free_page_no

WalksOn == NextOfPrev # -1 /\ NextOfPrev < walk.page_no

LoopDoesNotAdvance ==
  /\ walk # Idle
  /\ WalksOn
  /\ UNCHANGED vars

WalkGoesOn ==
  /\ walk # Idle
  /\ WalksOn
  /\ walk' = [walk EXCEPT !.prev = NextOfPrev]
  /\ UNCHANGED <<num_pages, first_free_page_no, pages, old, put>>

(* The assertions behind the loop: the page is not in the list yet.        *)
AlreadyInList == NextOfPrev \in {-1, walk.page_no}

(* The page is linked behind prev, and the record deleted.                 *)
WalkEnds ==
  /\ walk # Idle
  /\ ~ WalksOn
  /\ ~ AlreadyInList
  /\ pages' =
       [pages EXCEPT
          ![walk.page_no] = [Emptied(@, walk.slot_no) EXCEPT !.next_free_page_no = NextOfPrev],
          ![walk.prev].next_free_page_no = walk.page_no]
  /\ walk' = Idle
  /\ UNCHANGED <<num_pages, first_free_page_no, old, put>>

(* An assertion behind the loop fails: the process has ended.              *)
WalkAborts == walk # Idle /\ ~ WalksOn /\ AlreadyInList
ProcessEnded == WalkAborts /\ UNCHANGED vars

Delete(r) == DeleteRecord(r) \/ DeleteAtHead(r) \/ WalkStarts(r)

Next ==
  \/ \E v \in Values : InsertRecord(v) \/ InsertOnOldPage(v)
  \/ \E r \in Rids, v \in Values : put < MaxPut /\ InsertRecordAt(r, v)
  \/ \E r \in Rids, v \in Values : UpdateRecord(r, v)
  \/ \E r \in Rids : Delete(r)
  \/ WalkGoesOn
  \/ WalkEnds
  \/ ProcessEnded

Spec == Init /\ [][Next]_vars

-----------------------------------------------------------------------------
(* Properties *)

(* The header, the pages and the position in the list have their types     *)
(* (RmFileHdr and RmPageHdr, rm_defs.h).                                   *)
TypeInvariant ==
  /\ num_pages \in 1 .. MaxPages
  /\ first_free_page_no \in -1 .. MaxPages
  /\ pages \in [PageNos -> Page]
  /\ walk \in [page_no : 0 .. MaxPages - 1, slot_no : Slots, prev : 0 .. MaxPages - 1]
  /\ old \in Nat /\ put \in Nat

(* A page that was not allocated has no record.  As long as new pages come *)
(* zeroed, num_records of a page is never more than the number of bits set *)
(* in its bitmap, and less only by records that insert_record has put at a *)
(* position: without one it is exact.  insert_record and delete_record     *)
(* decide by num_records whether a page is in the list, and by the bitmap  *)
(* where a record goes.                                                    *)
CountsMatchBitmaps ==
  \A p \in PageNos :
    LET n == Cardinality(Used(pages[p]))
    IN  /\ p >= num_pages => n = 0
        /\ old = 0 => pages[p].num_records \in n - put .. n

(* As long as new pages come zeroed, the list runs through exactly the     *)
(* pages that num_records says are not full, in ascending order, and ends  *)
(* with the number of the page to be allocated next, so that               *)
(* create_page_handle neither allocates a page while there is space nor    *)
(* misses that there is none.  It holds even while release_page_handle is  *)
(* on its way, which links the page and changes the count in one step, and *)
(* after insert_record at a position, which does neither.                  *)
Allocated == 1 .. num_pages - 1
NotFull == {p \in Allocated : ~ IsFull(pages[p])}
IsNextAfter(n, p) ==
  /\ n > p
  /\ n \in NotFull \cup {num_pages}
  /\ \A q \in NotFull : q > p => n <= q
LinksNotFull ==
  /\ IF num_pages = 1 THEN first_free_page_no = -1
     ELSE IsNextAfter(first_free_page_no, 0)
  /\ \A p \in NotFull : IsNextAfter(pages[p].next_free_page_no, p)
ListHoldsPagesWithSpace == old = 0 => LinksNotFull

(* The assertions of the record file.  create_page_handle's, on the first  *)
(* page of the list, never fails.  release_page_handle's, that a full page *)
(* is not in the list yet and that the loop has found its place, do not    *)
(* fail as long as new pages come zeroed.  insert_record's, that there is  *)
(* a free slot, does not fail as long as besides no record is put at a     *)
(* position.  (That it does fail after aborts: InsertFindsSlot.)           *)
AssertionsHold ==
  /\ ~ NoFreePage => first_free_page_no # 0 /\ first_free_page_no < num_pages
  /\ old = 0 =>
       /\ \A p \in Allocated : IsFull(pages[p]) => p # first_free_page_no
       /\ ~ WalkAborts
  /\ (old = 0 /\ put = 0 /\ ~ NoFreePage) =>
       \E s \in Slots : pages[first_free_page_no].slots[s] = Free

(* release_page_handle's loop ends, whatever the counts of the pages are.  *)
DeletionsEnd == walk # Idle ~> (walk = Idle \/ WalkAborts)

(* The file is a RecordStore, whatever the counts of the pages are: an     *)
(* insertion uses a number that is not in use, an update or a deletion     *)
(* changes the record it is meant for, and nothing else changes a record,  *)
(* but for a new page that comes with the bytes of an evicted one.  Such a *)
(* page brings along records, on its own numbers and nowhere else.         *)
Records == [r \in Rids |-> pages[r.page_no].slots[r.slot_no]]
Store == INSTANCE RecordStore WITH records <- Records
ImplementsRecordStore == Store!Spec
=============================================================================
