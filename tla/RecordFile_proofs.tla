-------------------------- MODULE RecordFile_proofs --------------------------
(***************************************************************************)
(* The record file for every number of pages, slots and contents.  It      *)
(* implements RecordStore whatever the counts of its pages are, also those *)
(* of new pages that come with the bytes of an evicted one.  As long as    *)
(* new pages come zeroed, counts, bitmaps and list of pages with space     *)
(* agree, and the assertions hold that rest on them.                       *)
(***************************************************************************)
EXTENDS RecordFile, FiniteSetTheorems, WellFoundedInduction, TLAPS

Rows == Values \cup {Free}

(* The part of the invariant that does not depend on any count: links stay *)
(* inside the file, a page that does not exist has no record, and a        *)
(* deletion under way is of a record and has in hand a page before it.     *)
FileInv ==
  /\ num_pages \in 1 .. MaxPages
  /\ pages \in [PageNos -> Page]
  /\ IF num_pages = 1 THEN first_free_page_no = -1
     ELSE first_free_page_no \in 1 .. num_pages
  /\ \A p \in PageNos :
       IF p < num_pages THEN pages[p].next_free_page_no \in 1 .. num_pages
       ELSE \A s \in Slots : pages[p].slots[s] = Free
  /\ \/ walk = Idle
     \/ /\ walk \in [page_no : 1 .. num_pages - 1, slot_no : Slots, prev : PageNos]
        /\ walk.prev < walk.page_no
        /\ pages[walk.page_no].slots[walk.slot_no] # Free
  /\ old \in Nat /\ put \in Nat

(* Slot s of page p holds x after the step, and no other slot has changed. *)
SlotBecomes(p, s, x) ==
  \A q \in PageNos, t \in Slots :
    pages'[q].slots[t] = IF q = p /\ t = s THEN x ELSE pages[q].slots[t]

(* The page n is this one after the step, or the same with x in slot s.    *)
PageBecomes(n, page) == pages'[n] = page
SlotIsWritten(n, s, x) == pages' = [pages EXCEPT ![n].slots[s] = x]

(* Facts about the constants, in the form the provers need. *)
LEMMA Constants ==
  /\ MaxPages \in Nat /\ MaxPages > 0
  /\ NumSlots \in Nat /\ NumSlots > 0
  /\ Free \notin Values
  /\ 0 \in Slots
  /\ OldCounts \subseteq Int
BY FileAssumption DEF Slots

(* A record number is a page and a slot. *)
LEMMA RidParts ==
  ASSUME NEW r \in Rids
  PROVE  /\ r.page_no \in PageNos /\ r.slot_no \in Slots
         /\ r = [page_no |-> r.page_no, slot_no |-> r.slot_no]
BY DEF Rids

-----------------------------------------------------------------------------
(* Pages *)

(* Bitmap::first_bit finds a free slot if there is one. *)
LEMMA FirstZeroFacts ==
  ASSUME NEW slots \in [Slots -> Values \cup {Free}],
         \E s \in Slots : slots[s] = Free
  PROVE  FirstZero(slots) \in Slots /\ slots[FirstZero(slots)] = Free
<1> DEFINE zeros == {s \in Slots : slots[s] = Free}
<1>1. zeros \subseteq Nat /\ zeros # {}
  BY Constants DEF Slots
<1>2. \E s \in zeros : \A t \in zeros : ~ (<<t, s>> \in OpToRel(<, Nat))
  BY <1>1, NatLessThanWellFounded, WFMin, Zenon
<1>3. PICK s \in zeros : \A t \in zeros : ~ (t < s)
  BY <1>1, <1>2, Zenon DEF OpToRel
<1>4. \A t \in 0 .. s - 1 : slots[t] # Free
  BY <1>3, Constants DEF Slots
<1> QED
  BY <1>3, <1>4 DEF FirstZero

(* Writing a slot of a page, counting and linking it are changes of a page *)
(* to a page.                                                              *)
LEMMA FilledPage ==
  ASSUME NEW page \in Page, NEW s \in Slots, NEW v \in Values
  PROVE  /\ Filled(page, s, v) \in Page
         /\ Filled(page, s, v).num_records = page.num_records + 1
         /\ Filled(page, s, v).next_free_page_no = page.next_free_page_no
         /\ Filled(page, s, v).slots = [page.slots EXCEPT ![s] = v]
<1> DEFINE q == Filled(page, s, v)
<1>1. /\ q.num_records = page.num_records + 1
      /\ q.next_free_page_no = page.next_free_page_no
      /\ q.slots = [page.slots EXCEPT ![s] = v]
  BY DEF Filled, Page
<1>2. q.slots \in [Slots -> Values \cup {Free}] /\ q.num_records \in Int
  BY <1>1 DEF Page
<1>3. q \in Page
  BY <1>1, <1>2, Zenon DEF Filled, Page
<1> QED
  BY <1>1, <1>3

LEMMA EmptiedPage ==
  ASSUME NEW page \in Page, NEW s \in Slots
  PROVE  /\ Emptied(page, s) \in Page
         /\ Emptied(page, s).num_records = page.num_records - 1
         /\ Emptied(page, s).next_free_page_no = page.next_free_page_no
         /\ Emptied(page, s).slots = [page.slots EXCEPT ![s] = Free]
<1> DEFINE q == Emptied(page, s)
<1>1. /\ q.num_records = page.num_records - 1
      /\ q.next_free_page_no = page.next_free_page_no
      /\ q.slots = [page.slots EXCEPT ![s] = Free]
  BY DEF Emptied, Page
<1>2. q.slots \in [Slots -> Values \cup {Free}] /\ q.num_records \in Int
  BY <1>1 DEF Page
<1>3. q \in Page
  BY <1>1, <1>2, Zenon DEF Emptied, Page
<1> QED
  BY <1>1, <1>3

LEMMA LinkedPage ==
  ASSUME NEW page \in Page, NEW n \in 0 .. MaxPages
  PROVE  /\ [page EXCEPT !.next_free_page_no = n] \in Page
         /\ [page EXCEPT !.next_free_page_no = n].next_free_page_no = n
         /\ [page EXCEPT !.next_free_page_no = n].num_records = page.num_records
         /\ [page EXCEPT !.next_free_page_no = n].slots = page.slots
BY DEF Page

-----------------------------------------------------------------------------
(* FileInv, action by action, and the slots that the action changes *)

(* What FileInv says of the numbers of pages. *)
LEMMA FileFacts ==
  ASSUME FileInv
  PROVE  /\ num_pages \in Int /\ first_free_page_no \in Int
         /\ Allocated \subseteq PageNos /\ NotFull \subseteq Allocated
         /\ \A p \in PageNos : /\ pages[p] \in Page
                               /\ p \in Allocated <=> p < num_pages
                               /\ pages[p].next_free_page_no \in 0 .. MaxPages
<1>1. num_pages \in Int /\ first_free_page_no \in Int
  BY DEF FileInv
<1>2. num_pages \in 1 .. MaxPages /\ MaxPages \in Int
  BY Constants DEF FileInv
<1>3. Allocated \subseteq PageNos
  BY <1>2 DEF Allocated, PageNos
<1>4. \A p \in PageNos : p \in Allocated <=> p < num_pages
  BY <1>2 DEF Allocated, PageNos
<1>5. \A p \in PageNos : pages[p] \in Page /\ pages[p].next_free_page_no \in 0 .. MaxPages
  BY DEF FileInv, Page
<1> QED
  BY <1>1, <1>3, <1>4, <1>5 DEF NotFull

(* A record is in a slot of an allocated page. *)
LEMMA RecordFacts ==
  ASSUME FileInv, NEW r \in Rids, IsRecord(r)
  PROVE  /\ r.page_no \in Allocated /\ r.page_no \in PageNos /\ r.slot_no \in Slots
         /\ r.page_no < num_pages
         /\ pages[r.page_no] \in Page
         /\ pages[r.page_no].slots[r.slot_no] # Free
         /\ num_pages # 1 /\ first_free_page_no \in 1 .. num_pages
<1>1. r.page_no \in PageNos /\ r.slot_no \in Slots
  BY RidParts
<1>2. r.page_no < num_pages /\ pages[r.page_no].slots[r.slot_no] # Free
  BY DEF IsRecord
<1>3. num_pages # 1
  BY <1>1, <1>2, Constants DEF PageNos
<1> QED
  BY <1>1, <1>2, <1>3, FileFacts DEF FileInv

(* The file has its header page only. *)
LEMMA InitFile == Init => FileInv
<1> SUFFICES ASSUME Init PROVE FileInv
  OBVIOUS
<1>1. ZeroPage \in Page /\ \A s \in Slots : ZeroPage.slots[s] = Free
  BY Constants DEF ZeroPage, Page
<1> QED
  BY <1>1, Constants DEF Init, FileInv, PageNos

(* A slot of an existing page is written: update_record, and insert_record *)
(* at a position.                                                          *)
LEMMA WriteFile ==
  ASSUME FileInv, walk = Idle, NEW r \in Rids, NEW v \in Rows, r.page_no < num_pages,
         SlotIsWritten(r.page_no, r.slot_no, v),
         UNCHANGED <<num_pages, first_free_page_no, walk>>, old' \in Nat, put' \in Nat
  PROVE  /\ FileInv'
         /\ SlotBecomes(r.page_no, r.slot_no, v)
         /\ \A p \in PageNos :
              /\ pages'[p].next_free_page_no = pages[p].next_free_page_no
              /\ pages'[p].num_records = pages[p].num_records
              /\ p # r.page_no => pages'[p] = pages[p]
         /\ pages'[r.page_no].slots = [pages[r.page_no].slots EXCEPT ![r.slot_no] = v]
<1>0. pages \in [PageNos -> Page] /\ r.page_no \in PageNos /\ r.slot_no \in Slots
  BY RidParts DEF FileInv
<1>1. \A p \in PageNos : pages[p] \in Page
  BY <1>0
<1>2. /\ pages' \in [PageNos -> Page]
      /\ \A p \in PageNos : /\ pages'[p].next_free_page_no = pages[p].next_free_page_no
                            /\ pages'[p].num_records = pages[p].num_records
                            /\ p # r.page_no => pages'[p] = pages[p]
      /\ pages'[r.page_no].slots = [pages[r.page_no].slots EXCEPT ![r.slot_no] = v]
  BY <1>0, <1>1 DEF SlotIsWritten, Page, Rows
<1>3. SlotBecomes(r.page_no, r.slot_no, v)
  BY <1>0, <1>1, <1>2 DEF SlotBecomes, Page
<1>4. FileInv'
  BY <1>0, <1>2, <1>3, Constants DEF FileInv, PageNos, SlotBecomes
<1> QED
  BY <1>2, <1>3, <1>4

(* The page that insert_record uses, and the slot it finds there. *)
LEMMA InsertPlace ==
  ASSUME FileInv, NEW new \in Page, NumPagesAfter <= MaxPages,
         \E s \in Slots : InsertionPage(new).slots[s] = Free
  PROVE  /\ InsertionPageNo \in PageNos /\ InsertionPageNo < NumPagesAfter
         /\ NumPagesAfter \in num_pages .. MaxPages /\ NumPagesAfter > 1
         /\ InsertionPage(new) \in Page
         /\ InsertionPage(new).next_free_page_no \in 1 .. NumPagesAfter
         /\ FirstZero(InsertionPage(new).slots) \in Slots
         /\ InsertionPage(new).slots[FirstZero(InsertionPage(new).slots)] = Free
         /\ NoFreePage =>
              /\ InsertionPageNo = num_pages /\ NumPagesAfter = num_pages + 1
              /\ InsertionPage(new).slots = new.slots
              /\ InsertionPage(new).num_records = new.num_records
              /\ InsertionPage(new).next_free_page_no = num_pages + 1
              /\ \A s \in Slots : pages[num_pages].slots[s] = Free
         /\ ~ NoFreePage =>
              /\ InsertionPageNo = first_free_page_no /\ NumPagesAfter = num_pages
              /\ InsertionPage(new) = pages[InsertionPageNo]
<1> DEFINE page == InsertionPage(new)
<1>0. /\ num_pages \in 1 .. MaxPages /\ MaxPages \in Nat
      /\ \A p \in PageNos : pages[p] \in Page
  BY Constants DEF FileInv
<1>1. page \in Page => FirstZero(page.slots) \in Slots /\ page.slots[FirstZero(page.slots)] = Free
  BY FirstZeroFacts DEF Page
<1>2. CASE NoFreePage
  <2>1. InsertionPageNo = num_pages /\ NumPagesAfter = num_pages + 1
    BY <1>2 DEF InsertionPageNo, NumPagesAfter
  <2>2. page = [new EXCEPT !.next_free_page_no = num_pages + 1]
    BY <1>2, <2>1 DEF InsertionPage
  <2>3. num_pages \in PageNos /\ num_pages + 1 \in 0 .. MaxPages
    BY <1>0, <2>1 DEF PageNos
  <2>4. \A s \in Slots : pages[num_pages].slots[s] = Free
    BY <1>0, <2>3 DEF FileInv
  <2>5. /\ page \in Page /\ page.next_free_page_no = num_pages + 1
        /\ page.slots = new.slots /\ page.num_records = new.num_records
    BY <2>2, <2>3, LinkedPage
  <2> QED
    BY <1>0, <1>1, <1>2, <2>1, <2>3, <2>4, <2>5
<1>3. CASE ~ NoFreePage
  <2>1. /\ InsertionPageNo = first_free_page_no /\ NumPagesAfter = num_pages
        /\ page = pages[first_free_page_no]
    BY <1>3 DEF InsertionPageNo, NumPagesAfter, InsertionPage
  <2>2. first_free_page_no \in 1 .. num_pages - 1
    BY <1>0, <1>3 DEF FileInv, NoFreePage
  <2>3. first_free_page_no \in PageNos
    BY <1>0, <2>2 DEF PageNos
  <2>4. pages[first_free_page_no].next_free_page_no \in 1 .. num_pages
    BY <1>0, <2>2, <2>3 DEF FileInv
  <2> QED
    BY <1>0, <1>1, <1>3, <2>1, <2>2, <2>3, <2>4
<1> QED
  BY <1>2, <1>3

(* insert_record without a position changes one slot of one page, and      *)
(* brings that page along if it is new.                                    *)
LEMMA InsertFile ==
  ASSUME FileInv, NEW new \in Page, NEW v \in Values, InsertInto(new, v), old' \in Nat
  PROVE  /\ FileInv' /\ walk = Idle /\ walk' = Idle /\ num_pages' \in num_pages .. MaxPages
         /\ InsertionPageNo < num_pages'
         /\ \A p \in PageNos \ {InsertionPageNo} : pages'[p] = pages[p]
         /\ pages'[InsertionPageNo] =
              Filled(InsertionPage(new), FirstZero(InsertionPage(new).slots), v)
         /\ pages'[InsertionPageNo].slots =
              [InsertionPage(new).slots EXCEPT ![FirstZero(InsertionPage(new).slots)] = v]
<1> DEFINE n == InsertionPageNo
           page == InsertionPage(new)
           z == FirstZero(page.slots)
           filled == Filled(page, z, v)
<1>0. /\ walk = Idle /\ walk' = Idle /\ put' = put
      /\ NumPagesAfter <= MaxPages /\ \E s \in Slots : page.slots[s] = Free
      /\ pages' = [pages EXCEPT ![n] = filled]
      /\ first_free_page_no' = FirstFreeAfterInsert(filled)
      /\ num_pages' = NumPagesAfter
  BY DEF InsertInto
<1>1. /\ n \in PageNos /\ n < num_pages' /\ num_pages' \in num_pages .. MaxPages
      /\ num_pages' > 1
      /\ num_pages' = num_pages \/ (num_pages' = num_pages + 1 /\ n = num_pages)
      /\ page \in Page /\ page.next_free_page_no \in 1 .. num_pages'
      /\ z \in Slots
  BY <1>0, InsertPlace
<1>2. /\ num_pages \in 1 .. MaxPages /\ MaxPages \in Nat /\ put \in Nat
      /\ pages \in [PageNos -> Page]
  BY Constants DEF FileInv
<1>3. /\ filled \in Page /\ filled.next_free_page_no = page.next_free_page_no
      /\ filled.slots = [page.slots EXCEPT ![z] = v]
  BY <1>1, FilledPage
<1>4. first_free_page_no' \in {n, page.next_free_page_no}
  BY <1>0, <1>3 DEF FirstFreeAfterInsert
<1> HIDE DEF n, page, z, filled
<1>5. /\ pages' \in [PageNos -> Page]
      /\ \A p \in PageNos : pages'[p] = IF p = n THEN filled ELSE pages[p]
  BY <1>0, <1>1, <1>2, <1>3
<1>6. first_free_page_no' \in 1 .. num_pages'
  BY <1>1, <1>2, <1>4 DEF PageNos
<1>7. ASSUME NEW p \in PageNos
      PROVE  IF p < num_pages' THEN pages'[p].next_free_page_no \in 1 .. num_pages'
             ELSE \A s \in Slots : pages'[p].slots[s] = Free
  <2>1. CASE p = n
    BY <1>1, <1>3, <1>5, <2>1
  <2>2. CASE p # n
    <3>1. pages'[p] = pages[p] /\ (p < num_pages' => p < num_pages)
      BY <1>1, <1>2, <1>5, <2>2 DEF PageNos
    <3>2. IF p < num_pages THEN pages[p].next_free_page_no \in 1 .. num_pages
          ELSE \A s \in Slots : pages[p].slots[s] = Free
      BY DEF FileInv
    <3> QED
      BY <1>1, <1>2, <3>1, <3>2 DEF PageNos
  <2> QED
    BY <2>1, <2>2
<1>8. FileInv'
  BY <1>0, <1>1, <1>2, <1>5, <1>6, <1>7 DEF FileInv
<1> QED
  BY <1>0, <1>1, <1>3, <1>5, <1>8 DEF n, page, z, filled

(* With a zeroed page or one of the list, that slot is the only change,    *)
(* and it was free.                                                        *)
LEMMA InsertRecordFile ==
  ASSUME FileInv, NEW v \in Values, InsertRecord(v)
  PROVE  LET n == InsertionPageNo
             z == FirstZero(InsertionPage(ZeroPage).slots)
         IN  /\ FileInv' /\ walk = Idle /\ walk' = Idle
             /\ num_pages' \in num_pages .. MaxPages
             /\ n \in PageNos /\ z \in Slots /\ n < num_pages'
             /\ pages[n].slots[z] = Free
             /\ SlotBecomes(n, z, v)
<1> DEFINE n == InsertionPageNo
           page == InsertionPage(ZeroPage)
           z == FirstZero(page.slots)
<1>0. ZeroPage \in Page /\ \A s \in Slots : ZeroPage.slots[s] = Free
  BY Constants DEF ZeroPage, Page
<1>1. /\ InsertInto(ZeroPage, v) /\ old' \in Nat /\ NumPagesAfter <= MaxPages
      /\ \E s \in Slots : page.slots[s] = Free
  BY DEF InsertRecord, InsertInto, FileInv
<1>2. /\ n \in PageNos /\ z \in Slots /\ page.slots[z] = Free /\ page \in Page
      /\ NoFreePage => n = num_pages /\ page.slots = ZeroPage.slots
                       /\ \A s \in Slots : pages[num_pages].slots[s] = Free
      /\ ~ NoFreePage => page = pages[n]
  BY <1>0, <1>1, InsertPlace
<1>3. /\ FileInv' /\ walk = Idle /\ walk' = Idle /\ num_pages' \in num_pages .. MaxPages
      /\ n < num_pages'
      /\ \A p \in PageNos \ {n} : pages'[p] = pages[p]
      /\ pages'[n].slots = [page.slots EXCEPT ![z] = v]
  BY <1>0, <1>1, InsertFile
<1> HIDE DEF n, page, z
<1>4. \A s \in Slots : page.slots[s] = pages[n].slots[s]
  BY <1>0, <1>2
<1>5. \A s \in Slots : pages'[n].slots[s] = IF s = z THEN v ELSE page.slots[s]
  BY <1>2, <1>3 DEF Page
<1>6. SlotBecomes(n, z, v)
  BY <1>3, <1>4, <1>5, Zenon DEF SlotBecomes
<1> QED
  BY <1>2, <1>3, <1>4, <1>6 DEF n, page, z

(* A slot is emptied, and the links of pages change: delete_record.        *)
LEMMA RemovalFile ==
  ASSUME FileInv, NEW n \in PageNos, NEW z \in Slots, n < num_pages,
         pages' \in [PageNos -> Page],
         \A p \in PageNos :
           /\ IF p < num_pages THEN pages'[p].next_free_page_no \in 1 .. num_pages
              ELSE pages'[p] = pages[p]
           /\ p # n => pages'[p].slots = pages[p].slots,
         pages'[n].slots = [pages[n].slots EXCEPT ![z] = Free],
         num_pages' = num_pages, walk' = Idle, first_free_page_no' \in 1 .. num_pages,
         UNCHANGED <<old, put>>
  PROVE  FileInv' /\ SlotBecomes(n, z, Free)
<1>0. num_pages \in 2 .. MaxPages /\ MaxPages \in Nat /\ pages[n] \in Page
  <2>1. pages[n] \in Page /\ num_pages \in 1 .. MaxPages
    BY FileFacts DEF FileInv
  <2> QED
    BY <2>1, Constants DEF PageNos
<1>1. SlotBecomes(n, z, Free)
  BY <1>0 DEF SlotBecomes, Page
<1>2. FileInv'
  BY <1>0 DEF FileInv
<1> QED
  BY <1>1, <1>2

(* delete_record on a page with space, and on one that release_page_handle *)
(* puts at the head of the list.                                           *)
LEMMA DeleteFile ==
  ASSUME FileInv, NEW r \in Rids, DeleteRecord(r) \/ DeleteAtHead(r)
  PROVE  /\ FileInv' /\ walk = Idle /\ walk' = Idle /\ num_pages' = num_pages
         /\ SlotBecomes(r.page_no, r.slot_no, Free)
<1> DEFINE n == r.page_no
           z == r.slot_no
           f == IF DeleteRecord(r) THEN pages[n].next_free_page_no ELSE first_free_page_no
           e == [Emptied(pages[n], z) EXCEPT !.next_free_page_no = f]
<1>0. walk = Idle /\ walk' = Idle /\ num_pages' = num_pages /\ UNCHANGED <<old, put>> /\ IsRecord(r)
  BY DEF DeleteRecord, DeleteAtHead
<1>1. /\ n \in PageNos /\ z \in Slots /\ n < num_pages /\ pages[n] \in Page
      /\ first_free_page_no \in 1 .. num_pages
      /\ num_pages \in 1 .. MaxPages /\ MaxPages \in Nat /\ pages \in [PageNos -> Page]
  BY <1>0, RecordFacts, Constants DEF FileInv
<1>2. \A p \in PageNos : p < num_pages => pages[p].next_free_page_no \in 1 .. num_pages
  BY DEF FileInv
<1>3. f \in 1 .. num_pages /\ f \in 0 .. MaxPages
  BY <1>1, <1>2
<1>4. /\ e \in Page /\ e.next_free_page_no = f
      /\ e.slots = [pages[n].slots EXCEPT ![z] = Free]
  <2> HIDE DEF f
  <2>1. Emptied(pages[n], z) \in Page
        /\ Emptied(pages[n], z).slots = [pages[n].slots EXCEPT ![z] = Free]
    BY <1>1, EmptiedPage, Zenon
  <2> QED
    BY <1>3, <2>1, LinkedPage
<1>5. /\ pages' = [pages EXCEPT ![n] = e]
      /\ first_free_page_no' \in 1 .. num_pages
  <2>1. CASE DeleteRecord(r)
    <3>0. /\ Emptied(pages[n], z) \in Page
          /\ Emptied(pages[n], z).next_free_page_no = pages[n].next_free_page_no
      BY <1>1, EmptiedPage, Zenon
    <3>1. Emptied(pages[n], z) = e
      BY <2>1, <3>0 DEF Page
    <3>2. /\ pages' = [pages EXCEPT ![n] = Emptied(pages[n], z)]
          /\ first_free_page_no' = first_free_page_no
      BY <2>1 DEF DeleteRecord
    <3> QED
      BY <1>1, <3>1, <3>2, Zenon
  <2>2. CASE ~ DeleteRecord(r) /\ DeleteAtHead(r)
    <3>1. first_free_page_no' = n /\ n \in 1 .. num_pages
      BY <1>1, <2>2 DEF DeleteAtHead, PageNos
    <3> QED
      BY <2>2, <3>1 DEF DeleteAtHead
  <2> QED
    BY <2>1, <2>2
<1> HIDE DEF e, f
<1>6. /\ pages' \in [PageNos -> Page]
      /\ \A p \in PageNos : pages'[p] = IF p = n THEN e ELSE pages[p]
  BY <1>1, <1>4, <1>5
<1>7. \A p \in PageNos :
        /\ IF p < num_pages THEN pages'[p].next_free_page_no \in 1 .. num_pages
           ELSE pages'[p] = pages[p]
        /\ p # n => pages'[p].slots = pages[p].slots
  BY <1>1, <1>2, <1>3, <1>4, <1>6
<1>8. FileInv' /\ SlotBecomes(n, z, Free)
  BY <1>0, <1>1, <1>4, <1>5, <1>6, <1>7, RemovalFile
<1> QED
  BY <1>0, <1>8

(* release_page_handle's walk is for a record, and leaves the pages as     *)
(* they are until it ends.                                                 *)
LEMMA WalkStartsFile ==
  ASSUME FileInv, NEW r \in Rids, WalkStarts(r)
  PROVE  /\ FileInv' /\ walk = Idle /\ pages' = pages /\ num_pages' = num_pages
         /\ walk'.page_no = r.page_no /\ walk'.slot_no = r.slot_no
<1>1. /\ walk' = [page_no |-> r.page_no, slot_no |-> r.slot_no, prev |-> first_free_page_no]
      /\ walk = Idle /\ IsRecord(r) /\ r.page_no > first_free_page_no
      /\ UNCHANGED <<num_pages, first_free_page_no, pages, old, put>>
  BY DEF WalkStarts
<1>2. /\ r.page_no \in PageNos /\ r.slot_no \in Slots /\ r.page_no < num_pages
      /\ pages[r.page_no].slots[r.slot_no] # Free /\ first_free_page_no \in 1 .. num_pages
      /\ num_pages \in 1 .. MaxPages
  BY <1>1, RecordFacts DEF FileInv
<1>3. r.page_no \in 1 .. num_pages - 1 /\ first_free_page_no \in PageNos
  BY <1>1, <1>2, Constants DEF PageNos
<1>4. FileInv'
  BY <1>1, <1>2, <1>3, Zenon DEF FileInv
<1> QED
  BY <1>1, <1>4

(* During a walk. *)
LEMMA WalkFacts ==
  ASSUME FileInv, walk # Idle
  PROVE  /\ walk \in [page_no : 1 .. num_pages - 1, slot_no : Slots, prev : PageNos]
         /\ walk.page_no \in PageNos /\ walk.slot_no \in Slots /\ walk.prev \in PageNos
         /\ walk.prev < walk.page_no /\ walk.page_no < num_pages /\ walk.prev < num_pages
         /\ pages[walk.page_no].slots[walk.slot_no] # Free
         /\ pages[walk.page_no] \in Page /\ pages[walk.prev] \in Page
         /\ NextOfPrev \in 1 .. num_pages
         /\ num_pages \in 2 .. MaxPages /\ first_free_page_no \in 1 .. num_pages
<1>1. /\ walk \in [page_no : 1 .. num_pages - 1, slot_no : Slots, prev : PageNos]
      /\ walk.prev < walk.page_no
      /\ pages[walk.page_no].slots[walk.slot_no] # Free
      /\ num_pages \in 1 .. MaxPages /\ MaxPages \in Nat
  BY Constants DEF FileInv
<1>2. /\ walk.page_no \in 1 .. num_pages - 1 /\ walk.slot_no \in Slots
      /\ walk.prev \in PageNos
  BY <1>1
<1>3. /\ walk.page_no \in PageNos /\ walk.page_no < num_pages /\ walk.prev < num_pages
      /\ num_pages \in 2 .. MaxPages
  BY <1>1, <1>2 DEF PageNos
<1>4. pages[walk.page_no] \in Page /\ pages[walk.prev] \in Page
  BY <1>2, <1>3, FileFacts
<1>5. NextOfPrev \in 1 .. num_pages /\ first_free_page_no \in 1 .. num_pages
  BY <1>2, <1>3 DEF FileInv, NextOfPrev
<1> QED
  BY <1>1, <1>2, <1>3, <1>4, <1>5

LEMMA WalkGoesOnFile ==
  ASSUME FileInv, WalkGoesOn
  PROVE  /\ FileInv' /\ pages' = pages /\ num_pages' = num_pages
         /\ walk'.page_no = walk.page_no /\ walk'.slot_no = walk.slot_no
         /\ walk'.prev = NextOfPrev /\ walk' # Idle
<1>1. /\ walk # Idle /\ walk' = [walk EXCEPT !.prev = NextOfPrev] /\ NextOfPrev < walk.page_no
      /\ UNCHANGED <<num_pages, first_free_page_no, pages, old, put>>
  BY DEF WalkGoesOn, WalksOn
<1>2. /\ walk \in [page_no : 1 .. num_pages - 1, slot_no : Slots, prev : PageNos]
      /\ NextOfPrev \in 1 .. num_pages /\ walk.page_no \in PageNos
      /\ pages[walk.page_no].slots[walk.slot_no] # Free
  BY <1>1, WalkFacts
<1>3. NextOfPrev \in PageNos
  BY <1>1, <1>2, Constants DEF PageNos
<1>4. /\ walk'.page_no = walk.page_no /\ walk'.slot_no = walk.slot_no
      /\ walk'.prev = NextOfPrev
      /\ walk' \in [page_no : 1 .. num_pages - 1, slot_no : Slots, prev : PageNos]
  BY <1>1, <1>2, <1>3
<1>5. walk' # Idle
  BY <1>2, <1>4, Constants DEF Idle, PageNos
<1>6. FileInv'
  BY <1>1, <1>2, <1>4 DEF FileInv
<1> QED
  BY <1>1, <1>4, <1>5, <1>6

(* The walk ends with the deletion of the record it was for. *)
LEMMA WalkEndsFile ==
  ASSUME FileInv, WalkEnds
  PROVE  /\ FileInv' /\ walk # Idle /\ walk' = Idle /\ num_pages' = num_pages
         /\ SlotBecomes(walk.page_no, walk.slot_no, Free)
         /\ pages'[walk.page_no] = [Emptied(pages[walk.page_no], walk.slot_no) EXCEPT
                                      !.next_free_page_no = NextOfPrev]
         /\ pages'[walk.prev] = [pages[walk.prev] EXCEPT !.next_free_page_no = walk.page_no]
         /\ \A p \in PageNos \ {walk.page_no, walk.prev} : pages'[p] = pages[p]
<1> DEFINE n == walk.page_no
           z == walk.slot_no
           b == walk.prev
           e == [Emptied(pages[n], z) EXCEPT !.next_free_page_no = NextOfPrev]
           l == [pages[b] EXCEPT !.next_free_page_no = n]
<1>0. /\ walk # Idle /\ walk' = Idle
      /\ UNCHANGED <<num_pages, first_free_page_no, old, put>>
      /\ pages' = [pages EXCEPT ![n] = e, ![b].next_free_page_no = n]
  BY DEF WalkEnds
<1>1. /\ n \in PageNos /\ z \in Slots /\ b \in PageNos /\ b < n /\ n < num_pages /\ b < num_pages
      /\ pages[n] \in Page /\ pages[b] \in Page /\ NextOfPrev \in 1 .. num_pages
      /\ num_pages \in 2 .. MaxPages /\ first_free_page_no \in 1 .. num_pages
      /\ MaxPages \in Nat /\ pages \in [PageNos -> Page] /\ n # b
  <2>1. \A i, j \in PageNos : i < j => j # i
    BY Constants DEF PageNos
  <2> QED
    BY <1>0, <2>1, WalkFacts, Constants DEF FileInv
<1>2. /\ e \in Page /\ e.next_free_page_no = NextOfPrev
      /\ e.slots = [pages[n].slots EXCEPT ![z] = Free]
  <2>1. NextOfPrev \in 0 .. MaxPages
    BY <1>1
  <2>2. Emptied(pages[n], z) \in Page
        /\ Emptied(pages[n], z).slots = [pages[n].slots EXCEPT ![z] = Free]
    BY <1>1, EmptiedPage, Zenon
  <2> QED
    BY <2>1, <2>2, LinkedPage
<1>3. l \in Page /\ l.next_free_page_no = n /\ l.slots = pages[b].slots
  <2>1. n \in 0 .. MaxPages
    BY <1>1 DEF PageNos
  <2> QED
    BY <1>1, <2>1, LinkedPage
<1>4. \A p \in PageNos : pages'[p] = IF p = n THEN e ELSE IF p = b THEN l ELSE pages[p]
  BY <1>0, <1>1
<1>5. pages' = [p \in PageNos |-> pages'[p]]
  BY <1>0, <1>1, Zenon
<1> HIDE DEF e, l
<1>6. pages' \in [PageNos -> Page]
  BY <1>1, <1>2, <1>3, <1>4, <1>5
<1>7. \A p \in PageNos : p < num_pages => pages[p].next_free_page_no \in 1 .. num_pages
  BY DEF FileInv
<1>8. n \in 1 .. num_pages
  BY <1>1 DEF PageNos
<1>9. \A p \in PageNos :
        /\ IF p < num_pages THEN pages'[p].next_free_page_no \in 1 .. num_pages
           ELSE pages'[p] = pages[p]
        /\ p # n => pages'[p].slots = pages[p].slots
  BY <1>1, <1>2, <1>3, <1>4, <1>7, <1>8
<1>10. FileInv' /\ SlotBecomes(n, z, Free)
  BY <1>0, <1>1, <1>2, <1>4, <1>6, <1>9, RemovalFile
<1> QED
  BY <1>0, <1>1, <1>4, <1>10 DEF e, l

-----------------------------------------------------------------------------
(* Counts and list, as long as new pages come zeroed *)

(* num_records is not above the number of bits, and below it by no more    *)
(* than the records that were put at a position.                           *)
Counted ==
  \A p \in PageNos :
    pages[p].num_records \in Cardinality(Used(pages[p])) - put .. Cardinality(Used(pages[p]))

(* During a deletion: the record that is to be deleted is on a full page,  *)
(* and the page in hand is in the list.                                    *)
WalkInList ==
  walk # Idle => IsFull(pages[walk.page_no]) /\ walk.prev \in NotFull

Exact == Counted /\ LinksNotFull /\ WalkInList

Inv == FileInv /\ (old = 0 => Exact)

(* The bitmap of a page has at most NumSlots bits set, and all of them are *)
(* set if there are NumSlots.                                              *)
LEMMA UsedFacts ==
  ASSUME NEW page \in Page
  PROVE  /\ IsFiniteSet(Used(page))
         /\ Cardinality(Used(page)) \in 0 .. NumSlots
         /\ Cardinality(Used(page)) = NumSlots => Used(page) = Slots
<1>1. IsFiniteSet(Slots) /\ Cardinality(Slots) = NumSlots
  <2>1. IsFiniteSet(0 .. NumSlots - 1)
    BY FS_Interval, Constants
  <2>2. Cardinality(0 .. NumSlots - 1) = NumSlots
    BY FS_Interval, Constants
  <2> QED
    BY <2>1, <2>2 DEF Slots
<1>2. Used(page) \in SUBSET Slots
  BY DEF Used
<1>3. /\ IsFiniteSet(Used(page))
      /\ Cardinality(Used(page)) <= Cardinality(Slots)
      /\ Cardinality(Slots) = Cardinality(Used(page)) => Slots = Used(page)
  BY <1>1, <1>2, FS_Subset
<1>4. Cardinality(Used(page)) \in Nat
  BY <1>3, FS_CardinalityType
<1> QED
  BY <1>1, <1>3, <1>4, Constants

(* A record put in a free slot makes one bit more, and one taken away one  *)
(* less.                                                                   *)
LEMMA FilledBits ==
  ASSUME NEW page \in Page, NEW s \in Slots, NEW v \in Values, page.slots[s] = Free,
         NEW q \in Page, q.slots = [page.slots EXCEPT ![s] = v]
  PROVE  Cardinality(Used(q)) = Cardinality(Used(page)) + 1
<1>1. Used(q) = Used(page) \cup {s} /\ s \notin Used(page)
  BY Constants DEF Used, Page
<1> QED
  BY <1>1, UsedFacts, FS_AddElement, Zenon

LEMMA EmptiedBits ==
  ASSUME NEW page \in Page, NEW s \in Slots, page.slots[s] # Free,
         NEW q \in Page, q.slots = [page.slots EXCEPT ![s] = Free]
  PROVE  Cardinality(Used(q)) = Cardinality(Used(page)) - 1
<1>1. Used(q) = Used(page) \ {s} /\ s \in Used(page)
  BY Constants DEF Used, Page
<1> QED
  BY <1>1, UsedFacts, FS_RemoveElement, Zenon

(* A page is never counted as more than full. *)
LEMMA CountFacts ==
  ASSUME FileInv, Counted, NEW p \in PageNos
  PROVE  /\ pages[p].num_records \in Int /\ pages[p].num_records <= NumSlots
         /\ Cardinality(Used(pages[p])) \in 0 .. NumSlots
         /\ pages[p].num_records
              \in Cardinality(Used(pages[p])) - put .. Cardinality(Used(pages[p]))
<1>1. pages[p] \in Page /\ put \in Nat
  BY FileFacts DEF FileInv
<1>2. Cardinality(Used(pages[p])) \in 0 .. NumSlots
  BY <1>1, UsedFacts
<1>3. pages[p].num_records
        \in Cardinality(Used(pages[p])) - put .. Cardinality(Used(pages[p]))
  BY DEF Counted
<1> QED
  BY <1>1, <1>2, <1>3, Constants

(* The file has its header page only. *)
LEMMA InitInv == Init => Inv
<1> SUFFICES ASSUME Init PROVE Inv
  OBVIOUS
<1>1. Used(ZeroPage) = {} /\ ZeroPage.num_records = 0
  BY DEF Used, ZeroPage
<1>2. Counted
  BY <1>1, FS_EmptySet DEF Init, Counted
<1>3. LinksNotFull /\ WalkInList
  BY DEF Init, LinksNotFull, NotFull, Allocated, WalkInList
<1> QED
  BY <1>2, <1>3, InitFile DEF Inv, Exact

(* insert_record: the page stays first in the list until it is full. *)
LEMMA InsertRecordExact ==
  ASSUME FileInv, Exact, NEW v \in Values, InsertRecord(v)
  PROVE  Exact'
<1> DEFINE n == InsertionPageNo
           page == InsertionPage(ZeroPage)
           s == FirstZero(page.slots)
           q == Filled(page, s, v)
<1>z. ZeroPage \in Page /\ Used(ZeroPage) = {} /\ ZeroPage.num_records = 0
  BY Constants DEF ZeroPage, Page, Used
<1>a. /\ InsertInto(ZeroPage, v) /\ walk = Idle /\ walk' = Idle /\ put' = put /\ old' \in Nat
      /\ NumPagesAfter <= MaxPages /\ num_pages' = NumPagesAfter
      /\ \E t \in Slots : page.slots[t] = Free
      /\ first_free_page_no' = FirstFreeAfterInsert(q)
  BY DEF InsertRecord, InsertInto, FileInv
<1>b. /\ n \in PageNos /\ page \in Page /\ s \in Slots /\ page.slots[s] = Free
      /\ n < num_pages' /\ num_pages' \in num_pages .. MaxPages
      /\ NoFreePage => /\ n = num_pages /\ num_pages' = num_pages + 1
                       /\ page.slots = ZeroPage.slots /\ page.num_records = 0
                       /\ page.next_free_page_no = num_pages + 1
      /\ ~ NoFreePage => n = first_free_page_no /\ num_pages' = num_pages /\ page = pages[n]
  BY <1>a, <1>z, InsertPlace
<1>c. /\ FileInv' /\ pages'[n] = q
      /\ \A p \in PageNos \ {n} : pages'[p] = pages[p]
  BY <1>a, <1>z, InsertFile, Zenon
<1>d. /\ q \in Page /\ q.num_records = page.num_records + 1
      /\ q.next_free_page_no = page.next_free_page_no
      /\ Cardinality(Used(q)) = Cardinality(Used(page)) + 1
  <2>1. /\ q \in Page /\ q.num_records = page.num_records + 1
        /\ q.next_free_page_no = page.next_free_page_no
        /\ q.slots = [page.slots EXCEPT ![s] = v]
    BY <1>b, FilledPage
  <2> HIDE DEF page, s, q
  <2>2. Cardinality(Used(q)) = Cardinality(Used(page)) + 1
    BY <1>b, <2>1, FilledBits
  <2> QED
    BY <2>1, <2>2
<1>e. first_free_page_no' = IF IsFull(q) THEN page.next_free_page_no ELSE n
  BY <1>a, <1>d DEF FirstFreeAfterInsert, IsFull
<1> HIDE DEF n, page, s, q
<1>f. num_pages \in 1 .. MaxPages /\ MaxPages \in Nat /\ NumSlots \in Nat /\ put \in Nat
  BY Constants DEF FileInv
<1>1. /\ page.num_records \in Cardinality(Used(page)) - put .. Cardinality(Used(page))
      /\ Cardinality(Used(page)) \in 0 .. NumSlots
  <2>1. CASE NoFreePage
    <3>1. Used(page) = {}
      BY <1>b, <1>z, <2>1 DEF Used
    <3> QED
      BY <1>b, <1>f, <2>1, <3>1, FS_EmptySet
  <2>2. CASE ~ NoFreePage
    BY <1>b, <2>2, CountFacts DEF Exact
  <2> QED
    BY <2>1, <2>2
<1>2. Counted'
  <2>1. ASSUME NEW p \in PageNos
        PROVE  pages'[p].num_records
                 \in Cardinality(Used(pages'[p])) - put .. Cardinality(Used(pages'[p]))
    <3>1. CASE p = n
      BY <1>1, <1>c, <1>d, <1>f, <3>1
    <3>2. CASE p # n
      BY <1>c, <3>2 DEF Exact, Counted
    <3> QED
      BY <3>1, <3>2
  <2>2. put' = put
    BY <1>a
  <2> QED
    BY <2>1, <2>2 DEF Counted, Used
<1>3. LinksNotFull'
  <2>a. NotFull' = {p \in 1 .. num_pages' - 1 : ~ IsFull(pages'[p])}
    BY DEF NotFull, Allocated, IsFull
  <2>b. 1 .. num_pages' - 1 \subseteq PageNos
    <3>1. \A k \in Int : k \in 1 .. MaxPages => 1 .. k - 1 \subseteq 1 .. MaxPages - 1
      BY Constants
    <3>2. num_pages' \in 1 .. MaxPages
      BY <1>b, <1>f
    <3>3. num_pages' \in Int
      BY <3>2
    <3>4. 1 .. num_pages' - 1 \subseteq 1 .. MaxPages - 1
      BY <3>1, <3>2, <3>3, Zenon
    <3> QED
      BY <3>4 DEF PageNos
  <2>l. LinksNotFull
    BY DEF Exact
  <2>1. CASE NoFreePage
    <3>1. n = num_pages /\ num_pages' = n + 1 /\ page.next_free_page_no = n + 1
      BY <2>1, <1>b
    <3>2. NotFull = {}
      BY <2>1, <2>l, <1>f DEF NoFreePage, LinksNotFull, IsNextAfter, NotFull, Allocated
    <3>3. NotFull' = IF IsFull(q) THEN {} ELSE {n}
      BY <2>a, <2>b, <3>1, <3>2, <1>b, <1>c, <1>f DEF NotFull, Allocated, PageNos
    <3>4. \A p \in NotFull' : pages'[p].next_free_page_no = n + 1 /\ p = n
      BY <3>1, <3>3, <1>c, <1>d
    <3> QED
      BY <3>1, <3>3, <3>4, <1>b, <1>e, <1>f DEF LinksNotFull, IsNextAfter, PageNos
  <2>2. CASE ~ NoFreePage
    <3>1. n = first_free_page_no /\ num_pages' = num_pages /\ page = pages[n]
      BY <2>2, <1>b
    <3>2. n \in NotFull /\ IsNextAfter(n, 0)
      BY <2>2, <2>l, <3>1 DEF NoFreePage, LinksNotFull, IsNextAfter
    <3>3. NotFull' = IF IsFull(q) THEN NotFull \ {n} ELSE NotFull
      BY <2>a, <2>b, <3>1, <3>2, <1>b, <1>c DEF NotFull, Allocated
    <3>4. \A p \in NotFull : pages'[p].next_free_page_no = pages[p].next_free_page_no
      BY <2>b, <3>1, <1>c, <1>d DEF NotFull, Allocated
    <3>5. /\ NotFull \subseteq PageNos
          /\ \A p \in NotFull : pages[p].next_free_page_no \in Int
          /\ num_pages \in Int
      BY FileFacts
    <3>6. \A p \in NotFull : IsNextAfter(pages[p].next_free_page_no, p)
      BY <2>l DEF LinksNotFull
    <3>7. num_pages' # 1
      BY <3>1, <1>b, <1>f DEF PageNos
    <3>8. IsNextAfter(first_free_page_no, 0)'
      BY <3>1, <3>2, <3>3, <3>5, <3>6, <1>b, <1>e, Constants DEF IsNextAfter, PageNos
    <3>9. \A p \in NotFull' : IsNextAfter(pages[p].next_free_page_no, p)'
      BY <3>1, <3>2, <3>3, <3>4, <3>5, <3>6, Constants DEF IsNextAfter, PageNos
    <3> QED
      BY <3>7, <3>8, <3>9 DEF LinksNotFull
  <2> QED
    BY <2>1, <2>2
<1> QED
  BY <1>2, <1>3, <1>a DEF Exact, WalkInList

(* Steps that change neither count nor link of any page leave the list.    *)
LEMMA ListUnchanged ==
  ASSUME FileInv, LinksNotFull,
         num_pages' = num_pages, first_free_page_no' = first_free_page_no,
         \A p \in PageNos :
           /\ pages'[p].next_free_page_no = pages[p].next_free_page_no
           /\ IsFull(pages'[p]) <=> IsFull(pages[p])
  PROVE  LinksNotFull' /\ NotFull' = NotFull
<1>1. NotFull' = NotFull
  BY FileFacts DEF NotFull, Allocated, IsFull
<1>2. \A p \in NotFull : pages'[p].next_free_page_no = pages[p].next_free_page_no
  BY FileFacts
<1> QED
  BY <1>1, <1>2 DEF LinksNotFull, IsNextAfter

(* update_record leaves bitmap, count and list alone; insert_record at a   *)
(* position adds at most one bit, and leaves count and list alone.         *)
LEMMA WriteExact ==
  ASSUME FileInv, Exact, walk = Idle, NEW r \in Rids, NEW v \in Values, r.page_no < num_pages,
         SlotIsWritten(r.page_no, r.slot_no, v),
         UNCHANGED <<num_pages, first_free_page_no, walk, old>>,
         put' = IF pages[r.page_no].slots[r.slot_no] = Free THEN put + 1 ELSE put
  PROVE  FileInv' /\ Exact'
<1> DEFINE n == r.page_no
           z == r.slot_no
<1>0. /\ n \in PageNos /\ z \in Slots /\ put \in Nat /\ v \in Rows /\ v # Free
      /\ put' \in Nat /\ old' \in Nat
  BY RidParts, Constants DEF FileInv, Rows
<1>1. /\ FileInv'
      /\ \A p \in PageNos :
           /\ pages'[p].next_free_page_no = pages[p].next_free_page_no
           /\ pages'[p].num_records = pages[p].num_records
           /\ p # n => pages'[p] = pages[p]
      /\ pages'[n].slots = [pages[n].slots EXCEPT ![z] = v]
  BY <1>0, WriteFile
<1>2. pages[n] \in Page /\ pages'[n] \in Page
  <2>1. pages' \in [PageNos -> Page]
    BY <1>1 DEF FileInv
  <2> QED
    BY <1>0, <2>1, FileFacts
<1>3. Cardinality(Used(pages'[n])) =
        IF pages[n].slots[z] = Free THEN Cardinality(Used(pages[n])) + 1
        ELSE Cardinality(Used(pages[n]))
  <2>1. CASE pages[n].slots[z] = Free
    <3>1. /\ pages[n] \in Page /\ pages'[n] \in Page /\ z \in Slots
          /\ pages'[n].slots = [pages[n].slots EXCEPT ![z] = v]
      BY <1>0, <1>1, <1>2
    <3>2. Cardinality(Used(pages'[n])) = Cardinality(Used(pages[n])) + 1
      BY <2>1, <3>1, FilledBits
    <3> QED
      BY <2>1, <3>2
  <2>2. CASE pages[n].slots[z] # Free
    <3>1. Used(pages'[n]) = Used(pages[n])
      BY <1>0, <1>1, <1>2, <2>2 DEF Used, Page
    <3> QED
      BY <2>2, <3>1
  <2> QED
    BY <2>1, <2>2
<1>4. Counted'
  <2>1. ASSUME NEW p \in PageNos
        PROVE  pages'[p].num_records
                 \in Cardinality(Used(pages'[p])) - put' .. Cardinality(Used(pages'[p]))
    <3>1. /\ pages[p].num_records \in Int /\ Cardinality(Used(pages[p])) \in 0 .. NumSlots
          /\ pages[p].num_records
               \in Cardinality(Used(pages[p])) - put .. Cardinality(Used(pages[p]))
      BY CountFacts DEF Exact
    <3>2. CASE p = n
      BY <1>0, <1>1, <1>3, <3>1, <3>2, Constants
    <3>3. CASE p # n
      BY <1>0, <1>1, <3>1, <3>3, Constants
    <3> QED
      BY <3>2, <3>3
  <2> QED
    BY <2>1 DEF Counted, Used
<1>5. LinksNotFull'
  BY <1>1, ListUnchanged DEF IsFull, Exact
<1> QED
  BY <1>1, <1>4, <1>5 DEF Exact, WalkInList

(* Taking a record from a page, wherever the page is linked to.            *)
LEMMA RemovalExact ==
  ASSUME FileInv, Counted, NEW n \in Allocated, NEW s \in Slots, NEW k \in 0 .. MaxPages,
         pages[n].slots[s] # Free,
         num_pages' = num_pages, put' = put,
         PageBecomes(n, [Emptied(pages[n], s) EXCEPT !.next_free_page_no = k]),
         \A p \in PageNos \ {n} :
           pages'[p].num_records = pages[p].num_records /\ pages'[p].slots = pages[p].slots
  PROVE  /\ Counted'
         /\ pages'[n].next_free_page_no = k
         /\ NotFull' = NotFull \cup {n}
<1>1. n \in PageNos /\ pages[n] \in Page /\ put \in Nat
  BY FileFacts DEF FileInv
<1> DEFINE e == Emptied(pages[n], s)
<1>2. /\ e \in Page /\ e.num_records = pages[n].num_records - 1
      /\ e.slots = [pages[n].slots EXCEPT ![s] = Free]
      /\ Cardinality(Used(e)) = Cardinality(Used(pages[n])) - 1
  BY <1>1, EmptiedPage, EmptiedBits, Zenon
<1> HIDE DEF e
<1>3. /\ pages'[n].num_records = e.num_records /\ pages'[n].slots = e.slots
      /\ pages'[n].next_free_page_no = k
  BY <1>2, LinkedPage DEF e, PageBecomes
<1>4. Used(pages'[n]) = Used(e) /\ \A p \in PageNos \ {n} : Used(pages'[p]) = Used(pages[p])
  BY <1>3 DEF Used
<1>5. /\ pages[n].num_records \in Int /\ Cardinality(Used(pages[n])) \in 0 .. NumSlots
      /\ pages[n].num_records <= NumSlots
      /\ pages[n].num_records
           \in Cardinality(Used(pages[n])) - put .. Cardinality(Used(pages[n]))
  BY <1>1, CountFacts
<1>6. Counted'
  <2>1. ASSUME NEW p \in PageNos
        PROVE  pages'[p].num_records
                 \in Cardinality(Used(pages'[p])) - put .. Cardinality(Used(pages'[p]))
    <3>1. CASE p = n
      <4>1. /\ pages'[n].num_records = pages[n].num_records - 1
            /\ Cardinality(Used(pages'[n])) = Cardinality(Used(pages[n])) - 1
        BY <1>2, <1>3, <1>4
      <4>2. \A x, c, d \in Int : x \in c - d .. c => x - 1 \in (c - 1) - d .. c - 1
        OBVIOUS
      <4>3. /\ pages[n].num_records \in Int /\ Cardinality(Used(pages[n])) \in Int /\ put \in Int
            /\ pages[n].num_records
                 \in Cardinality(Used(pages[n])) - put .. Cardinality(Used(pages[n]))
        BY <1>1, <1>5, Constants
      <4> QED
        BY <3>1, <4>1, <4>2, <4>3
    <3>2. CASE p # n
      BY <1>4, <3>2 DEF Counted
    <3> QED
      BY <3>1, <3>2
  <2> QED
    BY <2>1 DEF Counted, Used
<1>7. NotFull' = NotFull \cup {n}
  <2>1. ~ IsFull(pages'[n]) /\ \A p \in PageNos \ {n} : IsFull(pages'[p]) <=> IsFull(pages[p])
    BY <1>2, <1>3, <1>5, Constants DEF IsFull
  <2>2. NotFull' = {p \in Allocated : ~ IsFull(pages'[p])}
    BY DEF NotFull, Allocated, IsFull
  <2> QED
    BY <2>1, <2>2, FileFacts DEF NotFull
<1> QED
  BY <1>3, <1>6, <1>7

(* delete_record on a page with space: the page is in the list already. *)
LEMMA DeleteRecordExact ==
  ASSUME FileInv, Exact, NEW r \in Rids, DeleteRecord(r)
  PROVE  Exact'
<1> DEFINE n == r.page_no
           e == Emptied(pages[n], r.slot_no)
<1>a. /\ walk = Idle /\ IsRecord(r) /\ ~ IsFull(pages[n]) /\ put' = put
      /\ pages' = [pages EXCEPT ![n] = e]
      /\ num_pages' = num_pages /\ first_free_page_no' = first_free_page_no /\ walk' = walk
  BY DEF DeleteRecord
<1>1. /\ n \in Allocated /\ n \in PageNos /\ r.slot_no \in Slots /\ pages[n] \in Page
      /\ pages[n].slots[r.slot_no] # Free /\ pages \in [PageNos -> Page]
  BY <1>a, RecordFacts DEF FileInv
<1>2. e \in Page /\ e.next_free_page_no = pages[n].next_free_page_no
  BY <1>1, EmptiedPage, Zenon
<1> HIDE DEF e
<1>3. \A p \in PageNos : pages'[p] = IF p = n THEN e ELSE pages[p]
  BY <1>1, <1>a
<1>4. Counted' /\ NotFull' = NotFull \cup {n}
  <2>1. pages[n].next_free_page_no \in 0 .. MaxPages
    BY <1>1 DEF Page
  <2>2. e = [e EXCEPT !.next_free_page_no = pages[n].next_free_page_no]
    BY <1>2 DEF Page
  <2>3. pages'[n] = [Emptied(pages[n], r.slot_no) EXCEPT
                       !.next_free_page_no = pages[n].next_free_page_no]
    BY <2>2, <1>1, <1>3 DEF e
  <2> QED
    BY <2>1, <2>3, <1>1, <1>3, <1>a, RemovalExact DEF Exact, PageBecomes
<1>5. n \in NotFull
  BY <1>1, <1>a DEF NotFull
<1>6. NotFull' = NotFull /\ \A p \in NotFull :
        pages'[p].next_free_page_no = pages[p].next_free_page_no
  BY <1>2, <1>3, <1>4, <1>5, FileFacts
<1>7. LinksNotFull'
  BY <1>6, <1>a DEF Exact, LinksNotFull, IsNextAfter
<1> QED
  BY <1>4, <1>7, <1>a DEF Exact, WalkInList

(* release_page_handle puts the page before the first one of the list. *)
LEMMA DeleteAtHeadExact ==
  ASSUME FileInv, Exact, NEW r \in Rids, DeleteAtHead(r)
  PROVE  Exact'
<1> DEFINE n == r.page_no
           e == [Emptied(pages[n], r.slot_no) EXCEPT !.next_free_page_no = first_free_page_no]
<1>a. /\ walk = Idle /\ IsRecord(r) /\ IsFull(pages[n]) /\ n < first_free_page_no /\ put' = put
      /\ pages' = [pages EXCEPT ![n] = e]
      /\ num_pages' = num_pages /\ first_free_page_no' = n /\ walk' = walk
  BY DEF DeleteAtHead
<1>1. /\ n \in Allocated /\ n \in PageNos /\ r.slot_no \in Slots /\ pages[n] \in Page
      /\ pages[n].slots[r.slot_no] # Free /\ pages \in [PageNos -> Page]
      /\ num_pages # 1 /\ first_free_page_no \in 1 .. num_pages /\ num_pages \in 1 .. MaxPages
  BY <1>a, RecordFacts DEF FileInv
<1>2. first_free_page_no \in 0 .. MaxPages
  BY <1>1, Constants
<1>3. \A p \in PageNos : pages'[p] = IF p = n THEN e ELSE pages[p]
  BY <1>1, <1>a
<1>4. /\ Counted' /\ NotFull' = NotFull \cup {n}
      /\ pages'[n].next_free_page_no = first_free_page_no
  BY <1>1, <1>2, <1>3, <1>a, RemovalExact DEF Exact, PageBecomes
<1>5. LinksNotFull'
  <2>1. IsNextAfter(first_free_page_no, 0)
        /\ \A p \in NotFull : IsNextAfter(pages[p].next_free_page_no, p)
    BY <1>1 DEF Exact, LinksNotFull
  <2>2. n \notin NotFull /\ NotFull \subseteq PageNos
    BY <1>a, FileFacts DEF NotFull
  <2>3. \A p \in NotFull : pages'[p].next_free_page_no = pages[p].next_free_page_no
    BY <2>2, <1>3
  <2>4. \A p \in NotFull : first_free_page_no <= p /\ n < p
    BY <2>1, <2>2, <1>1, <1>2, <1>a, Constants DEF IsNextAfter, PageNos
  <2>5. IsNextAfter(first_free_page_no, 0)'
    BY <2>2, <2>4, <1>1, <1>4, <1>a, Constants DEF IsNextAfter, PageNos
  <2>6. IsNextAfter(pages[n].next_free_page_no, n)'
    BY <2>1, <2>2, <2>4, <1>1, <1>4, <1>a, Constants DEF IsNextAfter, PageNos
  <2>7. ASSUME NEW p \in NotFull PROVE IsNextAfter(pages[p].next_free_page_no, p)'
    BY <2>1, <2>2, <2>3, <2>4, <1>1, <1>4, <1>a, Constants DEF IsNextAfter, PageNos
  <2> QED
    BY <2>5, <2>6, <2>7, <1>1, <1>4, <1>a DEF LinksNotFull
<1> QED
  BY <1>4, <1>5, <1>a DEF Exact, WalkInList

(* The loop of release_page_handle starts with the first page of the list, *)
(* which is before the page that is to be linked.                          *)
LEMMA WalkStartsExact ==
  ASSUME FileInv, Exact, NEW r \in Rids, WalkStarts(r)
  PROVE  Exact'
<1> DEFINE n == r.page_no
<1>a. /\ IsRecord(r) /\ IsFull(pages[n]) /\ n > first_free_page_no
      /\ walk' = [page_no |-> n, slot_no |-> r.slot_no, prev |-> first_free_page_no]
      /\ UNCHANGED <<pages, num_pages, first_free_page_no, put>>
  BY DEF WalkStarts
<1>1. n \in Allocated /\ num_pages # 1
  BY <1>a, RecordFacts
<1>2. first_free_page_no \in NotFull
  BY <1>1, <1>a, FileFacts DEF Exact, LinksNotFull, IsNextAfter, Allocated
<1>3. NotFull' = NotFull
  BY <1>a DEF NotFull, Allocated
<1>4. Counted' /\ LinksNotFull'
  BY <1>3, <1>a DEF Exact, Counted, LinksNotFull, IsNextAfter
<1>5. WalkInList'
  BY <1>2, <1>3, <1>a DEF WalkInList
<1> QED
  BY <1>4, <1>5 DEF Exact

(* The loop goes on to the next page of the list. *)
LEMMA WalkGoesOnExact ==
  ASSUME FileInv, Exact, WalkGoesOn
  PROVE  Exact'
<1>a. /\ walk # Idle /\ WalksOn
      /\ UNCHANGED <<pages, num_pages, first_free_page_no, put>>
  BY DEF WalkGoesOn
<1>1. walk.prev \in NotFull /\ walk.page_no < num_pages /\ NextOfPrev \in 1 .. num_pages
      /\ walk.page_no \in PageNos /\ num_pages \in Int
  BY <1>a, WalkFacts, FileFacts DEF Exact, WalkInList
<1>2. NextOfPrev \in NotFull
  <2>1. NextOfPrev \in NotFull \cup {num_pages}
    BY <1>1 DEF Exact, LinksNotFull, IsNextAfter, NextOfPrev
  <2>2. NextOfPrev # num_pages
    BY <1>1, <1>a, Constants DEF WalksOn, PageNos
  <2> QED
    BY <2>1, <2>2
<1>3. walk'.page_no = walk.page_no /\ walk'.prev = NextOfPrev
  BY WalkGoesOnFile
<1>4. NotFull' = NotFull
  BY <1>a DEF NotFull, Allocated
<1>5. Counted' /\ LinksNotFull'
  BY <1>4, <1>a DEF Exact, Counted, LinksNotFull, IsNextAfter
<1>6. WalkInList'
  BY <1>2, <1>3, <1>4, <1>a DEF Exact, WalkInList
<1> QED
  BY <1>5, <1>6 DEF Exact

(* The loop has found the place: the page goes between prev and the page   *)
(* that was behind prev.                                                   *)
LEMMA WalkEndsExact ==
  ASSUME FileInv, Exact, WalkEnds
  PROVE  Exact'
<1> DEFINE n == walk.page_no
           b == walk.prev
           k == NextOfPrev
<1>a. /\ walk # Idle /\ ~ WalksOn /\ walk' = Idle
      /\ UNCHANGED <<num_pages, first_free_page_no, put>>
  BY DEF WalkEnds
<1>1. /\ n \in PageNos /\ b \in PageNos /\ b < n /\ n < num_pages
      /\ walk.slot_no \in Slots /\ pages[n].slots[walk.slot_no] # Free
      /\ pages[n] \in Page /\ pages[b] \in Page /\ k \in 1 .. num_pages
      /\ num_pages \in 2 .. MaxPages /\ MaxPages \in Nat
  BY <1>a, WalkFacts, Constants
<1>2. n \in Allocated /\ n \notin NotFull /\ b \in NotFull
  BY <1>1, <1>a, FileFacts DEF Exact, WalkInList, NotFull
<1>3. k = pages[b].next_free_page_no /\ k \in 0 .. MaxPages /\ IsNextAfter(k, b)
  BY <1>1, <1>2 DEF NextOfPrev, Exact, LinksNotFull
<1>4. k > n
  <2>1. k >= n
    BY <1>1, <1>a DEF WalksOn, PageNos
  <2>2. k # n
    BY <1>1, <1>2, <1>3 DEF IsNextAfter
  <2> QED
    BY <2>1, <2>2, <1>1 DEF PageNos
<1>5. /\ PageBecomes(n, [Emptied(pages[n], walk.slot_no) EXCEPT !.next_free_page_no = k])
      /\ PageBecomes(b, [pages[b] EXCEPT !.next_free_page_no = n])
      /\ \A p \in PageNos \ {n, b} : pages'[p] = pages[p]
  BY WalkEndsFile DEF PageBecomes
<1>6. /\ pages'[b].next_free_page_no = n
      /\ pages'[b].num_records = pages[b].num_records /\ pages'[b].slots = pages[b].slots
  <2>1. n \in 0 .. MaxPages
    BY <1>1 DEF PageNos
  <2> QED
    BY <1>1, <1>5, <2>1, LinkedPage DEF PageBecomes
<1>7. /\ Counted' /\ NotFull' = NotFull \cup {n}
      /\ pages'[n].next_free_page_no = k
  <2>1. \A p \in PageNos \ {n} :
          pages'[p].num_records = pages[p].num_records /\ pages'[p].slots = pages[p].slots
    BY <1>1, <1>5, <1>6
  <2> HIDE DEF k, n
  <2> QED
    BY <2>1, <1>1, <1>2, <1>3, <1>5, <1>a, RemovalExact DEF Exact
<1>8. LinksNotFull'
  <2>1. IsNextAfter(first_free_page_no, 0)
        /\ \A p \in NotFull : IsNextAfter(pages[p].next_free_page_no, p)
    BY <1>1 DEF Exact, LinksNotFull
  <2>2. /\ NotFull \subseteq PageNos /\ num_pages \in Int /\ first_free_page_no \in Int
        /\ \A p \in NotFull : pages[p].next_free_page_no \in Int
    BY FileFacts
  <2>3. \A p \in NotFull \ {b} : pages'[p].next_free_page_no = pages[p].next_free_page_no
    BY <2>2, <1>1, <1>2, <1>5
  <2>4. \A p \in NotFull : p > b => p > n /\ k <= p
    BY <2>2, <1>1, <1>3, <1>4 DEF IsNextAfter, PageNos
  <2>5. IsNextAfter(first_free_page_no, 0)'
    <3>1. first_free_page_no <= b
      BY <2>1, <1>1, <1>2 DEF IsNextAfter, PageNos
    <3> QED
      BY <2>1, <2>2, <3>1, <1>1, <1>7, <1>a DEF IsNextAfter, PageNos
  <2>6. ASSUME NEW p \in NotFull \cup {n}
        PROVE  IsNextAfter(pages[p].next_free_page_no, p)'
    <3>1. CASE p = n
      BY <3>1, <2>2, <2>4, <1>1, <1>3, <1>4, <1>7, <1>a DEF IsNextAfter, PageNos
    <3>2. CASE p = b
      BY <3>2, <2>2, <2>4, <1>1, <1>6, <1>7, <1>a DEF IsNextAfter, PageNos
    <3>3. CASE p \in NotFull \ {b}
      <4> DEFINE m == pages[p].next_free_page_no
      <4>1. m \in Int /\ p \in Int /\ b \in Int /\ n \in Int
        BY <3>3, <2>2, <1>1, Constants DEF PageNos
      <4>2. /\ m > p /\ m \in NotFull \cup {num_pages}
            /\ \A q \in NotFull : q > p => m <= q
        BY <3>3, <2>1 DEF IsNextAfter
      <4>3. n > p => m <= n
        BY <3>3, <4>1, <4>2, <2>4, <1>1, <1>2
      <4>4. pages'[p].next_free_page_no = m
        BY <3>3, <2>3
      <4> HIDE DEF m
      <4> QED
        BY <4>2, <4>3, <4>4, <1>7, <1>a DEF IsNextAfter
    <3> QED
      BY <3>1, <3>2, <3>3
  <2>7. num_pages' # 1
    BY <1>1, <1>a
  <2> QED
    BY <2>5, <2>6, <2>7, <1>7, <1>a DEF LinksNotFull
<1> QED
  BY <1>7, <1>8, <1>a DEF Exact, WalkInList

-----------------------------------------------------------------------------
(* The theorems *)

(* Inv is an invariant of the record file: all operations keep the part    *)
(* that does not depend on counts, and all but insert_record on a page     *)
(* with the bytes of an evicted one keep counts and list.                  *)
LEMMA StepKeepsInv ==
  ASSUME Inv, [Next]_vars
  PROVE  Inv'
<1>f. FileInv
  BY DEF Inv
<1>1. ASSUME NEW v \in Values, InsertRecord(v)
      PROVE  Inv'
  <2>1. FileInv' /\ (Exact => Exact')
    BY <1>1, <1>f, InsertRecordFile, InsertRecordExact
  <2> QED
    BY <1>1, <2>1 DEF Inv, InsertRecord
<1>2. ASSUME NEW v \in Values, InsertOnOldPage(v)
      PROVE  Inv'
  <2>1. PICK new \in OldPages : InsertInto(new, v)
    BY <1>2 DEF InsertOnOldPage
  <2>2. new \in Page /\ old' \in Nat /\ old' # 0
    BY <1>2, <1>f, <2>1, Constants DEF OldPages, Page, InsertOnOldPage, FileInv
  <2> QED
    BY <1>f, <2>1, <2>2, InsertFile, Zenon DEF Inv
<1>3. ASSUME NEW r \in Rids, NEW v \in Values, InsertRecordAt(r, v)
      PROVE  Inv'
  <2>1. /\ walk = Idle /\ r.page_no < num_pages /\ SlotIsWritten(r.page_no, r.slot_no, v)
        /\ UNCHANGED <<num_pages, first_free_page_no, walk, old>>
        /\ put' = IF pages[r.page_no].slots[r.slot_no] = Free THEN put + 1 ELSE put
    BY <1>3 DEF InsertRecordAt, SlotIsWritten
  <2>2. v \in Rows /\ old' \in Nat /\ put' \in Nat
    BY <1>f, <2>1 DEF Rows, FileInv
  <2>3. FileInv' /\ (Exact => Exact')
    BY <1>f, <2>1, <2>2, WriteFile, WriteExact, Zenon
  <2> QED
    BY <2>1, <2>3 DEF Inv
<1>4. ASSUME NEW r \in Rids, NEW v \in Values, UpdateRecord(r, v)
      PROVE  Inv'
  <2>1. /\ walk = Idle /\ IsRecord(r) /\ SlotIsWritten(r.page_no, r.slot_no, v)
        /\ UNCHANGED <<num_pages, first_free_page_no, walk, old, put>>
    BY <1>4 DEF UpdateRecord, SlotIsWritten
  <2>2. /\ v \in Rows /\ old' \in Nat /\ put' \in Nat /\ r.page_no < num_pages
        /\ put' = IF pages[r.page_no].slots[r.slot_no] = Free THEN put + 1 ELSE put
    BY <1>f, <2>1 DEF Rows, FileInv, IsRecord
  <2>3. FileInv' /\ (Exact => Exact')
    BY <1>f, <2>1, <2>2, WriteFile, WriteExact, Zenon
  <2> QED
    BY <2>1, <2>3 DEF Inv
<1>5. ASSUME NEW r \in Rids, Delete(r)
      PROVE  Inv'
  <2>1. FileInv' /\ (Exact => Exact')
    BY <1>5, <1>f, DeleteFile, WalkStartsFile, DeleteRecordExact, DeleteAtHeadExact,
       WalkStartsExact DEF Delete
  <2>2. old' = old
    BY <1>5 DEF Delete, DeleteRecord, DeleteAtHead, WalkStarts
  <2> QED
    BY <2>1, <2>2 DEF Inv
<1>6. ASSUME WalkGoesOn \/ WalkEnds
      PROVE  Inv'
  <2>1. FileInv' /\ (Exact => Exact')
    BY <1>6, <1>f, WalkGoesOnFile, WalkEndsFile, WalkGoesOnExact, WalkEndsExact
  <2>2. old' = old
    BY <1>6 DEF WalkGoesOn, WalkEnds
  <2> QED
    BY <2>1, <2>2 DEF Inv
<1>7. ASSUME UNCHANGED vars
      PROVE  Inv'
  BY <1>7 DEF vars, Inv, FileInv, Exact, Counted, LinksNotFull, WalkInList, NotFull, Allocated,
              IsNextAfter
<1> QED
  BY <1>1, <1>2, <1>3, <1>4, <1>5, <1>6, <1>7 DEF Next, ProcessEnded

LEMMA FileSafety == Spec => []Inv
BY InitInv, StepKeepsInv, PTL DEF Spec

(* The header, the pages and the position in the list keep their types. *)
THEOREM TypeCorrect == Spec => []TypeInvariant
<1>1. FileInv => TypeInvariant
  <2> SUFFICES ASSUME FileInv PROVE TypeInvariant
    OBVIOUS
  <2>1. /\ num_pages \in 1 .. MaxPages /\ MaxPages \in Nat
        /\ pages \in [PageNos -> Page] /\ old \in Nat /\ put \in Nat
    BY Constants DEF FileInv
  <2>2. first_free_page_no \in -1 .. MaxPages
    BY <2>1 DEF FileInv
  <2>3. walk \in [page_no : 0 .. MaxPages - 1, slot_no : Slots, prev : 0 .. MaxPages - 1]
    <3>1. CASE walk = Idle
      BY <3>1, <2>1, Constants DEF Idle
    <3>2. CASE walk # Idle
      <4>1. 1 .. num_pages - 1 \subseteq 0 .. MaxPages - 1 /\ PageNos \subseteq 0 .. MaxPages - 1
        BY <2>1 DEF PageNos
      <4> QED
        BY <3>2, <4>1, WalkFacts
    <3> QED
      BY <3>1, <3>2
  <2> QED
    BY <2>1, <2>2, <2>3 DEF TypeInvariant
<1> QED
  BY <1>1, FileSafety, PTL DEF Inv

(* As long as new pages come zeroed, num_records of a page is below the    *)
(* number of bits set in its bitmap by no more than the records that abort *)
(* has put back at their position, and never above; also in the middle of  *)
(* a deletion.                                                             *)
THEOREM CountsFollowBitmaps == Spec => []CountsMatchBitmaps
<1>1. Inv => CountsMatchBitmaps
  <2> SUFFICES ASSUME Inv, NEW p \in PageNos
               PROVE  /\ p >= num_pages => Cardinality(Used(pages[p])) = 0
                      /\ old = 0 => pages[p].num_records
                           \in Cardinality(Used(pages[p])) - put .. Cardinality(Used(pages[p]))
    BY DEF CountsMatchBitmaps
  <2>1. ASSUME p >= num_pages PROVE Cardinality(Used(pages[p])) = 0
    <3>1. ~ (p < num_pages)
      BY <2>1, FileFacts DEF Inv, PageNos
    <3>2. Used(pages[p]) = {}
      BY <3>1 DEF Inv, FileInv, Used
    <3> QED
      BY <3>2, FS_EmptySet
  <2> QED
    BY <2>1 DEF Inv, Exact, Counted
<1> QED
  BY <1>1, FileSafety, PTL

(* As long as new pages come zeroed, the list runs through exactly the     *)
(* pages that are not counted as full, in ascending order, whatever was    *)
(* inserted, deleted and put back in whatever order.                       *)
THEOREM ListIsExact == Spec => []ListHoldsPagesWithSpace
BY FileSafety, PTL DEF Inv, Exact, ListHoldsPagesWithSpace

(* create_page_handle's assertion never fails, release_page_handle's do    *)
(* not fail as long as new pages come zeroed, and insert_record's does not *)
(* fail as long as besides nothing was put at a position.                  *)
THEOREM AssertionSafety == Spec => []AssertionsHold
<1>1. Inv => AssertionsHold
  <2> SUFFICES ASSUME Inv PROVE AssertionsHold
    OBVIOUS
  <2>f. FileInv
    BY DEF Inv
  <2>1. ASSUME ~ NoFreePage
        PROVE  /\ first_free_page_no # 0 /\ first_free_page_no < num_pages
               /\ first_free_page_no \in PageNos
    BY <2>1, <2>f, Constants DEF FileInv, NoFreePage, PageNos
  <2>2. ASSUME old = 0, NEW p \in Allocated, IsFull(pages[p])
        PROVE  p # first_free_page_no
    <3>1. LinksNotFull
      BY <2>2 DEF Inv, Exact
    <3> QED
      BY <2>2, <2>f, <3>1, FileFacts DEF LinksNotFull, IsNextAfter, NotFull, Allocated
  <2>3. ASSUME old = 0, WalkAborts
        PROVE  FALSE
    <3>1. LinksNotFull /\ WalkInList /\ walk # Idle
      BY <2>3 DEF Inv, Exact, WalkAborts
    <3>2. /\ NextOfPrev \in NotFull \cup {num_pages} /\ walk.page_no \notin NotFull
      BY <3>1 DEF LinksNotFull, WalkInList, IsNextAfter, NextOfPrev, NotFull
    <3>3. walk.page_no \in PageNos /\ walk.page_no < num_pages /\ NextOfPrev \in 1 .. num_pages
      BY <2>f, <3>1, WalkFacts
    <3>4. NextOfPrev # walk.page_no /\ NextOfPrev # -1
      BY <2>f, <3>2, <3>3, FileFacts DEF PageNos
    <3> QED
      BY <2>3, <3>4 DEF WalkAborts, AlreadyInList
  <2>4. ASSUME old = 0, put = 0, ~ NoFreePage
        PROVE  \E s \in Slots : pages[first_free_page_no].slots[s] = Free
    <3> DEFINE f == first_free_page_no
    <3>1. Counted /\ LinksNotFull /\ f \in PageNos
      BY <2>1, <2>4 DEF Inv, Exact
    <3>2. f \in NotFull
      BY <2>4, <3>1 DEF NoFreePage, LinksNotFull, IsNextAfter
    <3>3. /\ pages[f] \in Page /\ pages[f].num_records # NumSlots
          /\ pages[f].num_records \in Int /\ Cardinality(Used(pages[f])) \in 0 .. NumSlots
          /\ pages[f].num_records
               \in Cardinality(Used(pages[f])) - put .. Cardinality(Used(pages[f]))
      BY <2>f, <3>1, <3>2, FileFacts, CountFacts DEF NotFull, IsFull
    <3>4. Cardinality(Used(pages[f])) # NumSlots
      BY <2>4, <3>3
    <3>5. Cardinality(0 .. NumSlots - 1) = NumSlots
      BY FS_Interval, Constants
    <3>6. Used(pages[f]) # Slots
      BY <3>4, <3>5 DEF Slots
    <3> QED
      BY <3>6 DEF Used
  <2> QED
    BY <2>1, <2>2, <2>3, <2>4 DEF AssertionsHold
<1> QED
  BY <1>1, FileSafety, PTL

-----------------------------------------------------------------------------
(* The file implements RecordStore *)

(* One slot of one page changes: one record of the store does. *)
LEMMA OneRecord ==
  ASSUME NEW r \in Rids, NEW x, SlotBecomes(r.page_no, r.slot_no, x)
  PROVE  Records' = [Records EXCEPT ![r] = x]
<1>1. \A q \in Rids : /\ q.page_no \in PageNos /\ q.slot_no \in Slots
                      /\ (q.page_no = r.page_no /\ q.slot_no = r.slot_no) <=> q = r
  BY RidParts
<1>2. Records' = [q \in Rids |-> pages'[q.page_no].slots[q.slot_no]]
  BY DEF Records
<1>3. \A q \in Rids : Records'[q] = IF q = r THEN x ELSE Records[q]
  BY <1>1, <1>2 DEF Records, SlotBecomes
<1> QED
  BY <1>2, <1>3, Zenon DEF Records

(* insert_record uses a record number that is not in use. *)
LEMMA InsertMapped ==
  ASSUME FileInv, NEW v \in Values, InsertRecord(v)
  PROVE  \E r \in Rids : Store!Insert(r, v)
<1> DEFINE n == InsertionPageNo
           z == FirstZero(InsertionPage(ZeroPage).slots)
           r == [page_no |-> n, slot_no |-> z]
<1>1. /\ n \in PageNos /\ z \in Slots /\ pages[n].slots[z] = Free /\ SlotBecomes(n, z, v)
      /\ old' = old
  BY InsertRecordFile DEF InsertRecord
<1> HIDE DEF n, z
<1>2. r \in Rids /\ r.page_no = n /\ r.slot_no = z
  BY <1>1 DEF Rids
<1> HIDE DEF r
<1>3. Records' = [Records EXCEPT ![r] = v] /\ Records[r] = Free
  BY <1>1, <1>2, OneRecord DEF Records
<1> QED
  BY <1>1, <1>2, <1>3, Zenon DEF Store!Insert

(* A new page that comes with the bytes of an evicted one brings along     *)
(* records on its own numbers only.                                        *)
LEMMA OldPageMapped ==
  ASSUME FileInv, NEW v \in Values, InsertOnOldPage(v)
  PROVE  \E r \in Rids : Store!InsertAmongOld(r, v)
<1>1. PICK new \in OldPages : InsertInto(new, v)
  BY DEF InsertOnOldPage
<1>2. new \in Page /\ old' \in Nat /\ old' = old + 1 /\ NoFreePage
  BY <1>1, Constants DEF OldPages, Page, InsertOnOldPage, FileInv
<1> DEFINE n == InsertionPageNo
           page == InsertionPage(new)
           z == FirstZero(page.slots)
           r == [page_no |-> n, slot_no |-> z]
<1>3. NumPagesAfter <= MaxPages /\ \E s \in Slots : page.slots[s] = Free
  BY <1>1 DEF InsertInto
<1>4. /\ n \in PageNos /\ z \in Slots /\ page \in Page
      /\ n = num_pages /\ \A s \in Slots : pages[num_pages].slots[s] = Free
  BY <1>2, <1>3, InsertPlace
<1>5. /\ FileInv' /\ pages'[n].slots = [page.slots EXCEPT ![z] = v]
      /\ \A p \in PageNos \ {n} : pages'[p] = pages[p]
  BY <1>1, <1>2, InsertFile
<1> HIDE DEF n, page, z
<1>6. r \in Rids /\ r.page_no = n /\ r.slot_no = z
  BY <1>4 DEF Rids
<1> HIDE DEF r
<1>7. Records' = [q \in Rids |-> pages'[q.page_no].slots[q.slot_no]]
  BY DEF Records
<1>8. Records' \in [Rids -> Values \cup {Free}]
  <2>1. pages' \in [PageNos -> Page]
    BY <1>5 DEF FileInv
  <2>2. \A q \in Rids : pages'[q.page_no].slots[q.slot_no] \in Values \cup {Free}
    BY <2>1, RidParts DEF Page
  <2> QED
    BY <1>7, <2>2
<1>9. Records'[r] = v
  BY <1>4, <1>5, <1>6, <1>7 DEF Page
<1>10. ASSUME NEW q \in Rids
       PROVE  IF q.page_no = r.page_no THEN Records[q] = Free ELSE Records'[q] = Records[q]
  BY <1>4, <1>5, <1>6, <1>7, RidParts DEF Records
<1> QED
  BY <1>2, <1>6, <1>8, <1>9, <1>10 DEF Store!InsertAmongOld

(* update_record, and insert_record at a position. *)
LEMMA WriteMapped ==
  ASSUME FileInv, NEW r \in Rids, NEW v \in Values, InsertRecordAt(r, v) \/ UpdateRecord(r, v)
  PROVE  Store!Insert(r, v) \/ Store!Update(r, v)
<1>1. /\ walk = Idle /\ r.page_no < num_pages /\ SlotIsWritten(r.page_no, r.slot_no, v)
      /\ UNCHANGED <<num_pages, first_free_page_no, walk, old>>
      /\ put' \in {put, put + 1}
  BY DEF InsertRecordAt, UpdateRecord, IsRecord, SlotIsWritten
<1>2. v \in Rows /\ old' \in Nat /\ put' \in Nat
  BY <1>1 DEF Rows, FileInv
<1>3. SlotBecomes(r.page_no, r.slot_no, v)
  BY <1>1, <1>2, WriteFile, Zenon
<1>4. Records' = [Records EXCEPT ![r] = v]
  BY <1>3, OneRecord, Zenon
<1> QED
  BY <1>1, <1>4 DEF Store!Insert, Store!Update

(* The deletions without a walk, and the end of a walk. *)
LEMMA DeleteMapped ==
  ASSUME FileInv, NEW r \in Rids, DeleteRecord(r) \/ DeleteAtHead(r)
  PROVE  Store!Delete(r)
<1>1. IsRecord(r) /\ old' = old
  BY DEF DeleteRecord, DeleteAtHead
<1>2. Records' = [Records EXCEPT ![r] = Free]
  BY DeleteFile, OneRecord
<1>3. Records[r] # Free
  BY <1>1, RecordFacts DEF Records
<1> QED
  BY <1>1, <1>2, <1>3 DEF Store!Delete

LEMMA WalkEndsMapped ==
  ASSUME FileInv, WalkEnds
  PROVE  \E r \in Rids : Store!Delete(r)
<1> DEFINE r == [page_no |-> walk.page_no, slot_no |-> walk.slot_no]
<1>1. walk # Idle /\ old' = old /\ SlotBecomes(walk.page_no, walk.slot_no, Free)
  BY WalkEndsFile DEF WalkEnds
<1>2. /\ walk.page_no \in PageNos /\ walk.slot_no \in Slots
      /\ pages[walk.page_no].slots[walk.slot_no] # Free
  BY <1>1, WalkFacts
<1>3. r \in Rids /\ r.page_no = walk.page_no /\ r.slot_no = walk.slot_no
  BY <1>2 DEF Rids
<1> HIDE DEF r
<1>4. Records' = [Records EXCEPT ![r] = Free] /\ Records[r] # Free
  BY <1>1, <1>2, <1>3, OneRecord DEF Records
<1> QED
  BY <1>1, <1>3, <1>4, Zenon DEF Store!Delete

(* The record file implements RecordStore, whatever its counts are: an     *)
(* insertion never overwrites a record, and list, counts and bitmaps are   *)
(* invisible to the executors.  Records nobody inserted come up only with  *)
(* a new page that has the bytes of an evicted one, and only there.        *)
THEOREM Refinement == Spec => ImplementsRecordStore
<1>1. Init => Store!Init
  BY DEF Init, Store!Init, Records, ZeroPage, Rids
<1>2. Inv /\ [Next]_vars => [Store!Next]_(Store!vars)
  <2> SUFFICES ASSUME Inv, [Next]_vars
               PROVE  Store!Next \/ (Records' = Records /\ old' = old)
    BY DEF Store!vars
  <2>f. FileInv
    BY DEF Inv
  <2>1. CASE \E v \in Values : InsertRecord(v)
    BY <2>1, <2>f, InsertMapped DEF Store!Next
  <2>2. CASE \E v \in Values : InsertOnOldPage(v)
    BY <2>2, <2>f, OldPageMapped DEF Store!Next
  <2>3. CASE \E r \in Rids, v \in Values : InsertRecordAt(r, v) \/ UpdateRecord(r, v)
    BY <2>3, <2>f, WriteMapped DEF Store!Next
  <2>4. CASE \E r \in Rids : DeleteRecord(r) \/ DeleteAtHead(r)
    BY <2>4, <2>f, DeleteMapped DEF Store!Next
  <2>5. CASE WalkEnds
    BY <2>5, <2>f, WalkEndsMapped DEF Store!Next
  <2>6. CASE pages' = pages /\ old' = old
    BY <2>6 DEF Records
  <2> QED
    BY <2>1, <2>2, <2>3, <2>4, <2>5, <2>6
    DEF Next, Delete, WalkStarts, WalkGoesOn, ProcessEnded, vars
<1> QED
  BY <1>1, <1>2, FileSafety, PTL DEF Spec, ImplementsRecordStore, Store!Spec
=============================================================================
