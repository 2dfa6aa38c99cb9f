---------------------- MODULE TableTransactions_proofs ----------------------
(***************************************************************************)
(* With one session, an abort takes back the writes of its transaction and *)
(* nothing else, and the index follows the table, for every number of      *)
(* pages, slots, keys and writes.                                          *)
(***************************************************************************)
EXTENDS TableTransactions, RecordFile_proofs

OneSession == \E s : Sessions = {s}

Tables == [Rids -> Rows]

-----------------------------------------------------------------------------
(* The file *)

\* The record that release_page_handle is about to let delete_record take away.
Leaving(r) == r.page_no = walk.page_no /\ r.slot_no = walk.slot_no

\* The table as the executors see it.
Table == [r \in Rids |-> IF Leaving(r) THEN Free ELSE Records[r]]

(* While nothing is being deleted, the table is what the pages hold. *)
LEMMA TableFacts ==
  ASSUME FileInv
  PROVE  /\ Table \in Tables /\ Records \in Tables
         /\ \A r \in Rids : /\ r.page_no \in PageNos /\ r.slot_no \in Slots
                            /\ r = [page_no |-> r.page_no, slot_no |-> r.slot_no]
                            /\ Records[r] = pages[r.page_no].slots[r.slot_no]
         /\ walk = Idle => Table = Records
<1>1. \A r \in Rids : /\ r.page_no \in PageNos /\ r.slot_no \in Slots
                      /\ r = [page_no |-> r.page_no, slot_no |-> r.slot_no]
                      /\ Records[r] = pages[r.page_no].slots[r.slot_no]
  BY RidParts DEF Records
<1>2. \A r \in Rids : Records[r] \in Rows
  BY <1>1 DEF FileInv, Page, Rows
<1>3. walk = Idle => \A r \in Rids : ~ Leaving(r)
  BY <1>1, Constants DEF Leaving, Idle, PageNos
<1> QED
  BY <1>1, <1>2, <1>3 DEF Table, Records, Tables, Rows

(* One slot changes while no deletion is under way before and after: one   *)
(* row of the table does.                                                  *)
LEMMA RowChanges ==
  ASSUME FileInv, FileInv', walk = Idle, walk' = Idle, NEW r \in Rids, NEW x,
         SlotBecomes(r.page_no, r.slot_no, x)
  PROVE  \A q \in Rids : Table'[q] = IF q = r THEN x ELSE Table[q]
<1>1. Table = Records
  BY TableFacts
<1>2. \A q \in Rids : Table'[q] = Records'[q]
  BY RidParts DEF Table, Leaving, Idle, PageNos
<1>3. Records' = [Records EXCEPT ![r] = x]
  BY OneRecord
<1> QED
  BY <1>1, <1>2, <1>3 DEF Records

(* A slot of an existing page is written: update_record, and insert_record *)
(* at a position.                                                          *)
LEMMA SlotWritten ==
  ASSUME FileInv, walk = Idle, NEW r \in Rids, NEW v \in Rows, r.page_no < num_pages,
         pages' = [pages EXCEPT ![r.page_no].slots[r.slot_no] = v],
         UNCHANGED <<num_pages, first_free_page_no, walk, old>>, put' \in {put, put + 1}
  PROVE  /\ FileInv'
         /\ \A q \in Rids : Table'[q] = IF q = r THEN v ELSE Table[q]
<1>1. old' \in Nat /\ put' \in Nat /\ SlotIsWritten(r.page_no, r.slot_no, v)
  BY DEF FileInv, SlotIsWritten
<1>2. FileInv' /\ SlotBecomes(r.page_no, r.slot_no, v)
  BY <1>1, WriteFile
<1> QED
  BY <1>2, RowChanges

(* insert_record adds a row, at a place where there was none. *)
LEMMA InsertTable ==
  ASSUME FileInv, NEW v \in Values, InsertRecord(v)
  PROVE  /\ FileInv' /\ walk = Idle /\ walk' = Idle /\ num_pages' \in num_pages .. MaxPages
         /\ InsertedRid \in Rids /\ InsertedRid.page_no < num_pages'
         /\ Table[InsertedRid] = Free
         /\ \A q \in Rids : Table'[q] = IF q = InsertedRid THEN v ELSE Table[q]
<1> DEFINE n == InsertionPageNo
           z == FirstZero(InsertionPage(ZeroPage).slots)
<1>1. /\ FileInv' /\ walk = Idle /\ walk' = Idle
      /\ num_pages' \in num_pages .. MaxPages
      /\ n \in PageNos /\ z \in Slots /\ n < num_pages'
      /\ pages[n].slots[z] = Free
      /\ SlotBecomes(n, z, v)
  BY InsertRecordFile
<1>2. InsertedRid = [page_no |-> n, slot_no |-> z]
  BY DEF InsertedRid
<1> HIDE DEF n, z
<1>3. InsertedRid \in Rids /\ InsertedRid.page_no = n /\ InsertedRid.slot_no = z
  BY <1>1, <1>2 DEF Rids
<1>4. \A q \in Rids : Table'[q] = IF q = InsertedRid THEN v ELSE Table[q]
  BY <1>1, <1>3, RowChanges
<1>5. Table[InsertedRid] = Free
  BY <1>1, <1>3, TableFacts
<1> QED
  BY <1>1, <1>3, <1>4, <1>5

(* delete_record takes away a row, whichever way the page returns to the   *)
(* list.                                                                   *)
LEMMA DeleteTable ==
  ASSUME FileInv, NEW r \in Rids, Delete(r)
  PROVE  /\ FileInv' /\ walk = Idle /\ num_pages' = num_pages
         /\ r.page_no < num_pages /\ Table[r] \in Values
         /\ \A q \in Rids : Table'[q] = IF q = r THEN Free ELSE Table[q]
<1>1. walk = Idle /\ IsRecord(r)
  BY DEF Delete, DeleteRecord, DeleteAtHead, WalkStarts
<1>2. r.page_no < num_pages /\ Table[r] \in Values
  <2>1. Table[r] = pages[r.page_no].slots[r.slot_no] /\ Table[r] # Free /\ Table[r] \in Rows
    BY <1>1, TableFacts DEF IsRecord, Tables
  <2> QED
    BY <1>1, <2>1 DEF IsRecord, Rows
<1>3. CASE DeleteRecord(r) \/ DeleteAtHead(r)
  <2>1. FileInv' /\ walk' = Idle /\ num_pages' = num_pages /\ SlotBecomes(r.page_no, r.slot_no, Free)
    BY <1>3, DeleteFile
  <2> QED
    BY <1>1, <1>2, <2>1, RowChanges
<1>4. CASE WalkStarts(r)
  <2>1. /\ FileInv' /\ pages' = pages /\ num_pages' = num_pages
        /\ walk'.page_no = r.page_no /\ walk'.slot_no = r.slot_no
    BY <1>4, WalkStartsFile
  <2>2. ASSUME NEW q \in Rids
        PROVE  Table'[q] = IF q = r THEN Free ELSE Table[q]
    <3>1. Leaving(q)' <=> q = r
      BY <2>1, RidParts DEF Leaving
    <3>2. Records'[q] = Records[q] /\ Table[q] = Records[q]
      BY <1>1, <2>1, TableFacts DEF Records
    <3> QED
      BY <3>1, <3>2 DEF Table
  <2> QED
    BY <1>1, <1>2, <2>1, <2>2
<1> QED
  BY <1>3, <1>4 DEF Delete

(* release_page_handle's walk does not change the table. *)
LEMMA WalkTable ==
  ASSUME FileInv, WalkGoesOn \/ WalkEnds
  PROVE  FileInv' /\ num_pages' = num_pages /\ Table' = Table
<1>1. CASE WalkGoesOn
  <2>1. /\ FileInv' /\ num_pages' = num_pages /\ pages' = pages
        /\ walk'.page_no = walk.page_no /\ walk'.slot_no = walk.slot_no
    BY <1>1, WalkGoesOnFile
  <2> QED
    BY <2>1 DEF Table, Leaving, Records
<1>2. CASE WalkEnds
  <2>1. /\ FileInv' /\ walk # Idle /\ walk' = Idle /\ num_pages' = num_pages
        /\ SlotBecomes(walk.page_no, walk.slot_no, Free)
    BY <1>2, WalkEndsFile
  <2>2. ASSUME NEW q \in Rids
        PROVE  Table'[q] = Table[q]
    <3>1. q.page_no \in PageNos /\ q.slot_no \in Slots /\ ~ Leaving(q)'
      BY <2>1, RidParts DEF Leaving, Idle, PageNos
    <3>2. Records'[q] = IF Leaving(q) THEN Free ELSE Records[q]
      BY <2>1, <3>1 DEF Records, SlotBecomes, Leaving
    <3> QED
      BY <3>1, <3>2 DEF Table
  <2> QED
    BY <2>1, <2>2 DEF Table
<1> QED
  BY <1>1, <1>2

-----------------------------------------------------------------------------
(* Tables, writes and the index *)

UniqueKeys(t) == \A k \in Values, q, r \in Rids : t[q] = k /\ t[r] = k => q = r

\* The index ix has exactly the keys of table t, and leads to their rows.
Indexes(ix, t) == \A k \in Values, r \in Rids : ix[k] = r <=> t[r] = k

Write == [type : {"INSERT_TUPLE", "DELETE_TUPLE", "UPDATE_TUPLE"},
          rid : Rids, record : Rows, old_record : Rows]

\* The write w has made table b of table a.
Changes(a, w, b) ==
  /\ a[w.rid] = w.old_record
  /\ \A r \in Rids : b[r] = IF r = w.rid THEN w.record ELSE a[r]

\* The tables between the writes ws, from the committed table to the present one.
IsHistory(h, ws, from, to) ==
  /\ h \in [0 .. Len(ws) -> Tables]
  /\ h[0] = from
  /\ h[Len(ws)] = to
  /\ \A i \in 0 .. Len(ws) : UniqueKeys(h[i])
  /\ \A i \in 1 .. Len(ws) : Changes(h[i - 1], ws[i], h[i])
  /\ \A i \in 0 .. Len(ws), r \in Rids :
       (\A j \in 1 .. i : ws[j].rid # r) => h[i][r] = from[r]

(* An index has one row for a key. *)
LEMMA IndexedIsUnique ==
  ASSUME NEW ix, NEW t, Indexes(ix, t)
  PROVE  UniqueKeys(t)
BY DEF Indexes, UniqueKeys

(* After commit, abort or a statement of its own: no writes. *)
LEMMA HistoryStarts ==
  ASSUME NEW t \in Tables, UniqueKeys(t)
  PROVE  \E h : IsHistory(h, <<>>, t, t)
<1> DEFINE h == [i \in 0 .. 0 |-> t]
<1>1. Len(<<>>) = 0
  OBVIOUS
<1>2. h \in [0 .. 0 -> Tables] /\ h[0] = t /\ \A i \in 0 .. 0 : h[i] = t
  OBVIOUS
<1> HIDE DEF h
<1>3. IsHistory(h, <<>>, t, t)
  BY <1>1, <1>2 DEF IsHistory
<1> QED
  BY <1>3

(* A write is noted at the end of the write set. *)
LEMMA HistoryGrows ==
  ASSUME NEW ws \in Seq(Write), NEW w \in Write, NEW from, NEW to,
         \E h : IsHistory(h, ws, from, to),
         NEW t \in Tables, UniqueKeys(t), Changes(to, w, t)
  PROVE  \E h : IsHistory(h, Append(ws, w), from, t)
<1> DEFINE n == Len(ws)
           vs == Append(ws, w)
<1>1. PICK h : IsHistory(h, ws, from, to)
  OBVIOUS
<1>2. /\ n \in Nat /\ Len(vs) = n + 1
      /\ \A i \in 1 .. n : vs[i] = ws[i]
      /\ vs[n + 1] = w
  OBVIOUS
<1> DEFINE g == [i \in 0 .. n + 1 |-> IF i <= n THEN h[i] ELSE t]
<1>3. /\ h \in [0 .. n -> Tables] /\ h[0] = from /\ h[n] = to
      /\ \A i \in 0 .. n : UniqueKeys(h[i])
      /\ \A i \in 1 .. n : Changes(h[i - 1], ws[i], h[i])
      /\ \A i \in 0 .. n, r \in Rids : (\A j \in 1 .. i : ws[j].rid # r) => h[i][r] = from[r]
  BY <1>1 DEF IsHistory
<1> HIDE DEF n, vs
<1>4. /\ g \in [0 .. n + 1 -> Tables]
      /\ \A i \in 0 .. n : g[i] = h[i]
      /\ g[n + 1] = t
  BY <1>2, <1>3
<1> HIDE DEF g
<1>5. g[0] = from
  BY <1>2, <1>3, <1>4
<1>6. ASSUME NEW i \in 0 .. n + 1
      PROVE  UniqueKeys(g[i])
  <2>1. i \in 0 .. n \/ i = n + 1
    BY <1>2
  <2> QED
    BY <1>3, <1>4, <2>1
<1>7. ASSUME NEW i \in 1 .. n + 1
      PROVE  Changes(g[i - 1], vs[i], g[i])
  <2>1. CASE i = n + 1
    BY <1>2, <1>3, <1>4, <2>1
  <2>2. CASE i # n + 1
    <3>1. i \in 1 .. n /\ i - 1 \in 0 .. n /\ i \in 0 .. n
      BY <1>2, <2>2
    <3> QED
      BY <1>2, <1>3, <1>4, <3>1
  <2> QED
    BY <2>1, <2>2
<1>8. ASSUME NEW i \in 0 .. n + 1, NEW r \in Rids, \A j \in 1 .. i : vs[j].rid # r
      PROVE  g[i][r] = from[r]
  <2>1. CASE i = n + 1
    <3>1. w.rid # r /\ \A j \in 1 .. n : ws[j].rid # r
      BY <1>2, <1>8, <2>1
    <3>2. t[r] = to[r]
      BY <3>1 DEF Changes
    <3> QED
      BY <1>2, <1>3, <1>4, <2>1, <3>1, <3>2
  <2>2. CASE i # n + 1
    <3>1. i \in 0 .. n /\ \A j \in 1 .. i : j \in 1 .. n
      BY <1>2, <2>2
    <3>2. \A j \in 1 .. i : ws[j].rid # r
      BY <1>2, <1>8, <3>1
    <3> QED
      BY <1>3, <1>4, <3>1, <3>2
  <2> QED
    BY <2>1, <2>2
<1>9. IsHistory(g, vs, from, t)
  BY <1>2, <1>4, <1>5, <1>6, <1>7, <1>8 DEF IsHistory
<1> QED
  BY <1>9 DEF vs

(* The write set without its last entry. *)
LEMMA ButLastFacts ==
  ASSUME NEW S, NEW q \in Seq(S), Len(q) # 0
  PROVE  /\ SubSeq(q, 1, Len(q) - 1) \in Seq(S)
         /\ Len(SubSeq(q, 1, Len(q) - 1)) = Len(q) - 1
         /\ \A i \in 1 .. Len(q) - 1 : SubSeq(q, 1, Len(q) - 1)[i] = q[i]
<1>1. Len(q) \in Nat \ {0} /\ \A i \in 1 .. Len(q) : q[i] \in S
  OBVIOUS
<1>2. SubSeq(q, 1, Len(q) - 1) \in Seq(S)
  BY <1>1
<1>3. Len(SubSeq(q, 1, Len(q) - 1)) = Len(q) - 1
  <2>1. \A m \in 0 .. Len(q) : Len(SubSeq(q, 1, m)) = m
    BY <1>1
  <2>2. Len(q) - 1 \in 0 .. Len(q)
    BY <1>1
  <2> QED
    BY <2>1, <2>2, Zenon
<1>4. \A i \in 1 .. Len(q) - 1 : SubSeq(q, 1, Len(q) - 1)[i] = q[i]
  BY <1>1
<1> QED
  BY <1>2, <1>3, <1>4

(* abort takes the last write off the write set. *)
LEMMA HistoryShrinks ==
  ASSUME NEW ws \in Seq(Write), ws # <<>>, NEW from, NEW to,
         \E h : IsHistory(h, ws, from, to)
  PROVE  \E t \in Tables :
           /\ UniqueKeys(t) /\ UniqueKeys(to) /\ Changes(t, ws[Len(ws)], to)
           /\ \E h : IsHistory(h, SubSeq(ws, 1, Len(ws) - 1), from, t)
<1> DEFINE n == Len(ws) - 1
           vs == SubSeq(ws, 1, n)
<1>1. PICK h : IsHistory(h, ws, from, to)
  OBVIOUS
<1>2. /\ n \in Nat /\ Len(ws) = n + 1 /\ Len(vs) = n
      /\ \A i \in 1 .. n : vs[i] = ws[i]
  <2>1. Len(ws) \in Nat \ {0}
    OBVIOUS
  <2>2. n \in Nat /\ Len(ws) = n + 1
    BY <2>1
  <2>3. Len(vs) = n /\ \A i \in 1 .. n : vs[i] = ws[i]
    BY <2>1, ButLastFacts
  <2> QED
    BY <2>2, <2>3
<1> DEFINE g == [i \in 0 .. n |-> h[i]]
<1>3. /\ h \in [0 .. n + 1 -> Tables] /\ h[0] = from /\ h[n + 1] = to
      /\ \A i \in 0 .. n + 1 : UniqueKeys(h[i])
      /\ \A i \in 1 .. n + 1 : Changes(h[i - 1], ws[i], h[i])
      /\ \A i \in 0 .. n + 1, r \in Rids : (\A j \in 1 .. i : ws[j].rid # r) => h[i][r] = from[r]
  BY <1>1, <1>2 DEF IsHistory
<1> HIDE DEF n, vs
<1>4. g \in [0 .. n -> Tables] /\ \A i \in 0 .. n : g[i] = h[i] /\ i \in 0 .. n + 1
  BY <1>2, <1>3
<1> HIDE DEF g
<1>5. Changes(h[n], ws[n + 1], to) /\ UniqueKeys(to) /\ UniqueKeys(h[n]) /\ h[n] \in Tables
  <2>1. n + 1 \in 1 .. n + 1 /\ n + 1 \in 0 .. n + 1 /\ n \in 0 .. n + 1 /\ n + 1 - 1 = n
    BY <1>2
  <2> QED
    BY <1>3, <2>1
<1>6. ASSUME NEW i \in 1 .. n
      PROVE  Changes(g[i - 1], vs[i], g[i])
  <2>1. i \in 1 .. n + 1 /\ i \in 0 .. n /\ i - 1 \in 0 .. n
    BY <1>2
  <2>2. g[i - 1] = h[i - 1] /\ g[i] = h[i] /\ vs[i] = ws[i]
    BY <1>2, <1>4, <2>1
  <2> QED
    BY <1>3, <2>1, <2>2
<1>7. ASSUME NEW i \in 0 .. n, NEW r \in Rids, \A j \in 1 .. i : vs[j].rid # r
      PROVE  g[i][r] = from[r]
  <2>1. i \in 0 .. n + 1 /\ \A j \in 1 .. i : j \in 1 .. n
    BY <1>2
  <2>2. \A j \in 1 .. i : ws[j].rid # r
    BY <1>2, <1>7, <2>1
  <2> QED
    BY <1>3, <1>4, <2>1, <2>2
<1>8. IsHistory(g, vs, from, h[n])
  BY <1>2, <1>3, <1>4, <1>6, <1>7 DEF IsHistory
<1> QED
  BY <1>2, <1>5, <1>8 DEF vs, n

(* A transaction without writes has changed nothing. *)
LEMMA HistoryEmpty ==
  ASSUME NEW ws, ws = <<>>, NEW from, NEW to, \E h : IsHistory(h, ws, from, to)
  PROVE  to = from
<1>1. Len(ws) = 0
  OBVIOUS
<1> QED
  BY <1>1 DEF IsHistory

-----------------------------------------------------------------------------
(* The invariant *)

\* What abort finds in an entry of the write set, in a file of n pages.
GoodWrite(w, n) ==
  /\ w.rid.page_no < n
  /\ w.type = "INSERT_TUPLE" => w.record \in Values /\ w.old_record = Free
  /\ w.type = "DELETE_TUPLE" => w.record = Free /\ w.old_record \in Values
  /\ w.type = "UPDATE_TUPLE" => w.record \in Values /\ w.old_record \in Values

TxnTypeInv ==
  /\ index \in [Values -> Rids \cup {NoRid}]
  /\ txn_mode \in [Sessions -> {"auto", "explicit", "aborting"}]
  /\ write_set \in [Sessions -> Seq(Write)]
  /\ committed \in Tables

WriteSetInv ==
  \A s \in Sessions :
    /\ txn_mode[s] = "auto" => write_set[s] = <<>>
    /\ \A i \in 1 .. Len(write_set[s]) : GoodWrite(write_set[s][i], num_pages)
    /\ \E h : IsHistory(h, write_set[s], committed, Table)

TableInv ==
  /\ OneSession
  /\ FileInv
  /\ TxnTypeInv
  /\ Indexes(index, Table)
  /\ WriteSetInv

(* An empty table. *)
LEMMA TableInitInv == OneSession /\ TableInit => TableInv
<1> SUFFICES ASSUME OneSession, TableInit PROVE TableInv
  OBVIOUS
<1>1. FileInv
  BY InitFile DEF TableInit
<1>2. \A r \in Rids : Table[r] = Free
  BY <1>1, TableFacts DEF TableInit, Init, ZeroPage
<1>3. TxnTypeInv
  BY DEF TableInit, TxnTypeInv, Tables, Rows
<1>4. Table = committed
  BY <1>2 DEF TableInit, Table
<1>5. Indexes(index, Table)
  BY <1>2, Constants, NoRidAssumption DEF TableInit, Indexes
<1>6. WriteSetInv
  <2>1. \E h : IsHistory(h, <<>>, committed, Table)
    BY <1>3, <1>4, <1>5, HistoryStarts, IndexedIsUnique DEF TxnTypeInv
  <2>2. \A s \in Sessions : write_set[s] = <<>> /\ Len(write_set[s]) = 0
    BY DEF TableInit
  <2> QED
    BY <2>1, <2>2 DEF WriteSetInv
<1> QED
  BY <1>1, <1>3, <1>5, <1>6 DEF TableInv

(* A statement has written a row, and its index entry: the write is noted  *)
(* or committed.                                                           *)
LEMMA RowWritten ==
  ASSUME TableInv, NEW s, Sessions = {s}, NEW w \in Write, GoodWrite(w, num_pages'),
         txn_mode[s] # "aborting", txn_mode' = txn_mode,
         Noted(s, w), FileInv', num_pages' \in num_pages .. MaxPages,
         index' \in [Values -> Rids \cup {NoRid}], Indexes(index', Table'),
         Changes(Table, w, Table')
  PROVE  TableInv'
<1>t. FileInv /\ TxnTypeInv /\ WriteSetInv /\ OneSession
  BY DEF TableInv
<1>1. Table \in Tables /\ Table' \in Tables /\ UniqueKeys(Table')
  <2>1. \A r \in Rids : Table'[r] \in Rows
    BY <1>t, TableFacts DEF Changes, Write, Tables
  <2>2. Table' = [r \in Rids |-> Table'[r]]
    BY DEF Table
  <2> QED
    BY <1>t, <2>1, <2>2, TableFacts, IndexedIsUnique DEF Tables
<1>2. ASSUME NEW v \in Write, GoodWrite(v, num_pages)
      PROVE  GoodWrite(v, num_pages')
  <2>1. v.rid.page_no \in Int
    BY TableFacts, <1>t DEF Write, PageNos
  <2>2. num_pages \in Int /\ num_pages' \in Int /\ num_pages <= num_pages'
    BY <1>t DEF FileInv
  <2> QED
    BY <1>2, <2>1, <2>2 DEF GoodWrite
<1>3. write_set[s] \in Seq(Write) /\ \E h : IsHistory(h, write_set[s], committed, Table)
  BY <1>t DEF TxnTypeInv, WriteSetInv
<1>4. CASE txn_mode[s] = "explicit"
  <2> DEFINE ws == write_set[s]
             vs == Append(ws, w)
  <2>1. write_set' = [write_set EXCEPT ![s] = vs] /\ committed' = committed
    BY <1>4 DEF Noted
  <2>2. write_set'[s] = vs /\ write_set' \in [Sessions -> Seq(Write)]
    BY <1>t, <1>3, <2>1 DEF TxnTypeInv
  <2>3. \E h : IsHistory(h, vs, committed, Table')
    BY <1>1, <1>3, HistoryGrows
  <2>4. ASSUME NEW i \in 1 .. Len(vs)
        PROVE  GoodWrite(vs[i], num_pages')
    <3>1. CASE i = Len(ws) + 1
      <4>1. vs[i] = w
        BY <1>3, <3>1
      <4> QED
        BY <4>1
    <3>2. CASE i # Len(ws) + 1
      <4>1. i \in 1 .. Len(ws) /\ vs[i] = ws[i] /\ ws[i] \in Write
        BY <1>3, <3>2
      <4>2. GoodWrite(ws[i], num_pages)
        BY <1>t, <4>1 DEF WriteSetInv
      <4> QED
        BY <1>2, <4>1, <4>2
    <3> QED
      BY <3>1, <3>2
  <2> HIDE DEF ws, vs
  <2>5. WriteSetInv'
    BY <1>4, <2>1, <2>2, <2>3, <2>4 DEF WriteSetInv
  <2> QED
    BY <1>t, <2>1, <2>2, <2>5, Zenon DEF TableInv, TxnTypeInv, OneSession
<1>5. CASE txn_mode[s] = "auto"
  <2>1. write_set' = write_set /\ committed' = [committed EXCEPT ![w.rid] = w.record]
    BY <1>5 DEF Noted
  <2>2. write_set[s] = <<>>
    BY <1>5, <1>t DEF WriteSetInv
  <2>3. Table = committed
    BY <1>3, <2>2, HistoryEmpty
  <2>4. committed' = Table'
    <3>1. \A r \in Rids : committed'[r] = Table'[r]
      BY <1>1, <2>1, <2>3 DEF Changes, Tables
    <3>2. committed' \in [Rids -> Rows]
      BY <1>1, <2>1, <2>3 DEF Tables, Write
    <3> QED
      BY <1>1, <3>1, <3>2 DEF Tables
  <2>5. \E h : IsHistory(h, <<>>, committed', Table')
    BY <1>1, <2>4, HistoryStarts
  <2>6. WriteSetInv'
    <3>1. Len(<<>>) = 0
      OBVIOUS
    <3> QED
      BY <2>1, <2>2, <2>5, <3>1 DEF WriteSetInv
  <2> QED
    BY <1>1, <1>t, <2>1, <2>4, <2>6, Zenon DEF TableInv, TxnTypeInv, OneSession
<1> QED
  BY <1>4, <1>5, <1>t DEF TxnTypeInv

(* The index entry of a new row. *)
LEMMA IndexInsert ==
  ASSUME NEW ix \in [Values -> Rids \cup {NoRid}], NEW t, Indexes(ix, t),
         NEW r \in Rids, t[r] = Free, NEW k \in Values, ix[k] \notin Rids,
         NEW b, \A q \in Rids : b[q] = IF q = r THEN k ELSE t[q]
  PROVE  /\ [ix EXCEPT ![k] = r] \in [Values -> Rids \cup {NoRid}]
         /\ Indexes([ix EXCEPT ![k] = r], b)
BY Constants DEF Indexes

(* The index entry of a row that is gone. *)
LEMMA IndexDelete ==
  ASSUME NEW ix \in [Values -> Rids \cup {NoRid}], NEW t, Indexes(ix, t),
         NEW r \in Rids, NEW k \in Values, t[r] = k,
         NEW b, \A q \in Rids : b[q] = IF q = r THEN Free ELSE t[q],
         NEW x, \A l \in Values : x[l] = IF l = k THEN NoRid ELSE ix[l]
  PROVE  Indexes(x, b)
BY Constants, NoRidAssumption DEF Indexes

(* The index entries of a row whose key changes. *)
LEMMA IndexUpdate ==
  ASSUME NEW ix \in [Values -> Rids \cup {NoRid}], NEW t, Indexes(ix, t),
         NEW r \in Rids, NEW j \in Values, t[r] = j,
         NEW k \in Values, k = j \/ ix[k] \notin Rids,
         NEW b, \A q \in Rids : b[q] = IF q = r THEN k ELSE t[q],
         NEW x, \A l \in Values : x[l] = IF l = k THEN r ELSE IF l = j THEN NoRid ELSE ix[l]
  PROVE  Indexes(x, b)
BY Constants, NoRidAssumption DEF Indexes

(* A key that an undone write puts back is not in the index.               *)
LEMMA KeyIsFree ==
  ASSUME NEW ix, NEW a, Indexes(ix, a), NEW t, UniqueKeys(t),
         NEW r \in Rids, NEW k \in Values, t[r] = k, a[r] # k,
         \A q \in Rids \ {r} : t[q] = a[q]
  PROVE  ix[k] \notin Rids
<1> SUFFICES ASSUME ix[k] \in Rids PROVE FALSE
  OBVIOUS
<1>1. PICK q \in Rids : q = ix[k]
  OBVIOUS
<1>2. a[q] = k
  BY <1>1 DEF Indexes
<1>3. q # r /\ t[q] = k
  BY <1>2
<1> QED
  BY <1>3 DEF UniqueKeys

-----------------------------------------------------------------------------
(* The statements *)

(* InsertExecutor. *)
LEMMA InsertRowInv ==
  ASSUME TableInv, NEW s, Sessions = {s}, NEW k \in Values, InsertRow(s, k)
  PROVE  TableInv'
<1> DEFINE r == InsertedRid
           w == WriteRecord("INSERT_TUPLE", r, k, Free)
<1>t. /\ FileInv /\ index \in [Values -> Rids \cup {NoRid}] /\ Indexes(index, Table)
  BY DEF TableInv, TxnTypeInv
<1>0. /\ txn_mode[s] # "aborting" /\ txn_mode' = txn_mode
      /\ index[k] = NoRid /\ InsertRecord(k)
      /\ index' = [index EXCEPT ![k] = r]
      /\ Noted(s, w)
  BY DEF InsertRow, MayRun, IsNewKey
<1>1. /\ FileInv' /\ num_pages' \in num_pages .. MaxPages
      /\ r \in Rids /\ r.page_no < num_pages' /\ Table[r] = Free
      /\ \A q \in Rids : Table'[q] = IF q = r THEN k ELSE Table[q]
  BY <1>0, <1>t, InsertTable
<1> HIDE DEF r
<1>2. index' \in [Values -> Rids \cup {NoRid}] /\ Indexes(index', Table')
  BY <1>0, <1>1, <1>t, IndexInsert, NoRidAssumption, Zenon
<1>3. w \in Write /\ GoodWrite(w, num_pages') /\ Changes(Table, w, Table')
  BY <1>1 DEF WriteRecord, Write, GoodWrite, Changes, Rows
<1> HIDE DEF w
<1> QED
  BY <1>0, <1>1, <1>2, <1>3, RowWritten, Zenon

(* DeleteExecutor. *)
LEMMA DeleteRowInv ==
  ASSUME TableInv, NEW s, Sessions = {s}, NEW r \in Rids, DeleteRow(s, r)
  PROVE  TableInv'
<1> DEFINE k == Records[r]
           w == WriteRecord("DELETE_TUPLE", r, Free, k)
<1>t. /\ FileInv /\ index \in [Values -> Rids \cup {NoRid}] /\ Indexes(index, Table)
      /\ num_pages \in 1 .. MaxPages
  BY DEF TableInv, TxnTypeInv, FileInv
<1>0. /\ txn_mode[s] # "aborting" /\ txn_mode' = txn_mode
      /\ Delete(r)
      /\ index' = [index EXCEPT ![k] = NoRid]
      /\ Noted(s, w)
  BY DEF DeleteRow, MayRun
<1>1. /\ FileInv' /\ num_pages' \in num_pages .. MaxPages
      /\ r.page_no < num_pages' /\ Table[r] = k /\ k \in Values
      /\ \A q \in Rids : Table'[q] = IF q = r THEN Free ELSE Table[q]
  BY <1>0, <1>t, DeleteTable, TableFacts
<1> HIDE DEF k
<1>2. index' \in [Values -> Rids \cup {NoRid}] /\ Indexes(index', Table')
  <2>1. /\ index' \in [Values -> Rids \cup {NoRid}]
        /\ \A l \in Values : index'[l] = IF l = k THEN NoRid ELSE index[l]
    BY <1>0, <1>1, <1>t
  <2>2. Table[r] = k /\ k \in Values /\ \A q \in Rids : Table'[q] = IF q = r THEN Free ELSE Table[q]
    BY <1>1
  <2>3. Indexes(index', Table')
    BY <1>t, <2>1, <2>2, IndexDelete
  <2> QED
    BY <2>1, <2>3
<1>3. w \in Write /\ GoodWrite(w, num_pages') /\ Changes(Table, w, Table')
  BY <1>1 DEF WriteRecord, Write, GoodWrite, Changes, Rows
<1> HIDE DEF w
<1> QED
  BY <1>0, <1>1, <1>2, <1>3, RowWritten, Zenon

(* UpdateExecutor. *)
LEMMA UpdateRowInv ==
  ASSUME TableInv, NEW s, Sessions = {s}, NEW r \in Rids, NEW k \in Values, UpdateRow(s, r, k)
  PROVE  TableInv'
<1> DEFINE j == Records[r]
           w == WriteRecord("UPDATE_TUPLE", r, k, j)
<1>t. /\ FileInv /\ index \in [Values -> Rids \cup {NoRid}] /\ Indexes(index, Table)
      /\ num_pages \in 1 .. MaxPages
  BY DEF TableInv, TxnTypeInv, FileInv
<1>0. /\ txn_mode[s] # "aborting" /\ txn_mode' = txn_mode
      /\ k = j \/ index[k] = NoRid
      /\ UpdateRecord(r, k)
      /\ index' = [index EXCEPT ![j] = NoRid, ![k] = r]
      /\ Noted(s, w)
  BY DEF UpdateRow, MayRun, IsNewKey
<1>1. /\ walk = Idle /\ r.page_no < num_pages /\ pages[r.page_no].slots[r.slot_no] # Free
      /\ pages' = [pages EXCEPT ![r.page_no].slots[r.slot_no] = k]
      /\ UNCHANGED <<num_pages, first_free_page_no, walk, old>> /\ put' \in {put, put + 1}
  BY <1>0 DEF UpdateRecord, IsRecord
<1>2. Table[r] = j /\ j \in Values
  BY <1>1, <1>t, TableFacts DEF Tables, Rows
<1>3. /\ FileInv' /\ num_pages' \in num_pages .. MaxPages /\ r.page_no < num_pages'
      /\ \A q \in Rids : Table'[q] = IF q = r THEN k ELSE Table[q]
  <2>1. k \in Rows
    BY DEF Rows
  <2>2. FileInv' /\ \A q \in Rids : Table'[q] = IF q = r THEN k ELSE Table[q]
    BY <1>1, <1>t, <2>1, SlotWritten, Zenon
  <2> QED
    BY <1>1, <1>t, <2>2
<1> HIDE DEF j
<1>4. index' \in [Values -> Rids \cup {NoRid}] /\ Indexes(index', Table')
  <2>1. k = j \/ index[k] \notin Rids
    BY <1>0, NoRidAssumption
  <2>2. \A q \in Rids : Table'[q] = IF q = r THEN k ELSE Table[q]
    BY <1>3
  <2>3. /\ index' \in [Values -> Rids \cup {NoRid}]
        /\ \A l \in Values :
             index'[l] = IF l = k THEN r ELSE IF l = j THEN NoRid ELSE index[l]
    BY <1>0, <1>2, <1>t
  <2>4. Indexes(index', Table')
    BY <1>2, <1>t, <2>1, <2>2, <2>3, IndexUpdate
  <2> QED
    BY <2>3, <2>4
<1>5. w \in Write /\ GoodWrite(w, num_pages') /\ Changes(Table, w, Table')
  BY <1>2, <1>3 DEF WriteRecord, Write, GoodWrite, Changes, Rows
<1> HIDE DEF w
<1> QED
  BY <1>0, <1>3, <1>4, <1>5, RowWritten, Zenon

-----------------------------------------------------------------------------
(* begin, commit and abort *)

(* begin, the start and the end of abort: only the mode changes. *)
LEMMA ModeInv ==
  ASSUME TableInv, NEW s, Sessions = {s}, NEW m \in {"auto", "explicit", "aborting"},
         m = "auto" => write_set[s] = <<>>,
         txn_mode' = [txn_mode EXCEPT ![s] = m],
         UNCHANGED <<vars, index, write_set, committed>>
  PROVE  TableInv'
<1>1. FileInv' /\ Table' = Table
  BY DEF TableInv, FileInv, vars, Table, Leaving, Records
<1>2. TxnTypeInv'
  BY DEF TableInv, TxnTypeInv
<1>3. WriteSetInv'
  BY <1>1 DEF TableInv, TxnTypeInv, WriteSetInv, vars
<1> QED
  BY <1>1, <1>2, <1>3 DEF TableInv, OneSession

(* commit: the rows that the transaction has written are committed. *)
LEMMA CommitInv ==
  ASSUME TableInv, NEW s, Sessions = {s}, Commit(s)
  PROVE  TableInv'
<1>t. FileInv /\ TxnTypeInv /\ Indexes(index, Table) /\ WriteSetInv
  BY DEF TableInv
<1>1. /\ walk = Idle
      /\ committed' = [r \in Rids |-> IF r \in WrittenBy(s) THEN Records[r] ELSE committed[r]]
      /\ txn_mode' = [txn_mode EXCEPT ![s] = "auto"]
      /\ write_set' = [write_set EXCEPT ![s] = <<>>]
      /\ UNCHANGED <<vars, index>>
  BY DEF Commit
<1>2. FileInv' /\ Table' = Table /\ Table = Records /\ Table \in Tables
  BY <1>1, <1>t, TableFacts DEF FileInv, vars, Table, Leaving, Records
<1>3. committed' = Table
  <2>1. \A r \in Rids : r \notin WrittenBy(s) => Table[r] = committed[r]
    <3>1. write_set[s] \in Seq(Write) /\ \E h : IsHistory(h, write_set[s], committed, Table)
      BY <1>t DEF TxnTypeInv, WriteSetInv
    <3>2. \A r \in Rids : r \notin WrittenBy(s) =>
             \A j \in 1 .. Len(write_set[s]) : write_set[s][j].rid # r
      <4>1. DOMAIN write_set[s] = 1 .. Len(write_set[s])
        BY <3>1
      <4> QED
        BY <4>1 DEF WrittenBy
    <3> DEFINE ws == write_set[s]
    <3>3. PICK h : IsHistory(h, ws, committed, Table)
      BY <3>1
    <3>4. Len(ws) \in 0 .. Len(ws)
      BY <3>1
    <3> HIDE DEF ws
    <3>5. \A r \in Rids : (\A j \in 1 .. Len(ws) : ws[j].rid # r) => Table[r] = committed[r]
      BY <3>3, <3>4 DEF IsHistory
    <3> QED
      BY <3>2, <3>5 DEF ws
  <2> QED
    BY <1>1, <1>2, <2>1 DEF Tables
<1>4. TxnTypeInv'
  BY <1>1, <1>2, <1>3, <1>t DEF TxnTypeInv
<1>5. \E h : IsHistory(h, <<>>, committed', Table')
  BY <1>2, <1>3, <1>t, IndexedIsUnique, HistoryStarts
<1>6. write_set'[s] = <<>> /\ Len(<<>>) = 0
  BY <1>1, <1>t DEF TxnTypeInv
<1>7. WriteSetInv'
  BY <1>5, <1>6 DEF WriteSetInv
<1> QED
  BY <1>1, <1>2, <1>4, <1>7, <1>t DEF TableInv, OneSession

(* abort undoes the last write: the table is what it was before it.        *)
LEMMA UndoWriteInv ==
  ASSUME TableInv, NEW s, Sessions = {s}, UndoWrite(s)
  PROVE  TableInv'
<1> DEFINE ws == write_set[s]
           w == Undone(s)
           r == w.rid
<1>t. /\ FileInv /\ TxnTypeInv /\ Indexes(index, Table) /\ WriteSetInv
      /\ index \in [Values -> Rids \cup {NoRid}] /\ num_pages \in 1 .. MaxPages
  BY DEF TableInv, TxnTypeInv, FileInv
<1>1. /\ txn_mode[s] = "aborting" /\ walk = Idle /\ ws # <<>>
      /\ UndoInsert(s) \/ UndoDelete(s) \/ UndoUpdate(s)
      /\ write_set' = [write_set EXCEPT ![s] = SubSeq(ws, 1, Len(ws) - 1)]
      /\ txn_mode' = txn_mode /\ committed' = committed
  BY DEF UndoWrite
<1>2. /\ ws \in Seq(Write) /\ Len(ws) \in Nat \ {0} /\ w = ws[Len(ws)]
      /\ \E h : IsHistory(h, ws, committed, Table)
  <2>1. ws \in Seq(Write) /\ \E h : IsHistory(h, ws, committed, Table)
    BY <1>t DEF TxnTypeInv, WriteSetInv
  <2>2. Len(ws) \in Nat \ {0}
    BY <1>1, <2>1
  <2> QED
    BY <2>1, <2>2 DEF Undone
<1>3. PICK t \in Tables :
        /\ UniqueKeys(t) /\ UniqueKeys(Table) /\ Changes(t, w, Table)
        /\ \E h : IsHistory(h, SubSeq(ws, 1, Len(ws) - 1), committed, t)
  BY <1>1, <1>2, HistoryShrinks, Zenon
<1>4. w \in Write /\ GoodWrite(w, num_pages)
  <2>1. Len(ws) \in 1 .. Len(ws)
    BY <1>2
  <2>2. \A i \in 1 .. Len(ws) : ws[i] \in Write
    BY <1>2
  <2>3. \A i \in 1 .. Len(ws) : GoodWrite(ws[i], num_pages)
    BY <1>t DEF WriteSetInv
  <2> QED
    BY <1>2, <2>1, <2>2, <2>3
<1> HIDE DEF w, ws
<1>5. /\ r \in Rids /\ w.record \in Rows /\ w.old_record \in Rows /\ r.page_no < num_pages
      /\ Table[r] = w.record /\ t[r] = w.old_record
      /\ \A q \in Rids \ {r} : t[q] = Table[q]
  BY <1>3, <1>4 DEF Write, GoodWrite, Changes
<1> HIDE DEF r
<1>6. Records = Table /\ Table \in Tables
  BY <1>1, <1>t, TableFacts
<1>7. /\ FileInv' /\ num_pages' = num_pages
      /\ \A q \in Rids : Table'[q] = t[q]
      /\ index' \in [Values -> Rids \cup {NoRid}] /\ Indexes(index', t)
  <2>1. CASE UndoInsert(s)
    <3>1. /\ w.type = "INSERT_TUPLE" /\ Delete(r)
          /\ index' = [index EXCEPT ![Records[r]] = NoRid]
      BY <2>1 DEF UndoInsert, w, r
    <3>2. w.record \in Values /\ w.old_record = Free /\ Records[r] = w.record
      BY <1>4, <1>5, <1>6, <3>1 DEF GoodWrite
    <3>3. /\ FileInv' /\ num_pages' = num_pages
          /\ \A q \in Rids : Table'[q] = IF q = r THEN Free ELSE Table[q]
      BY <1>5, <1>t, <3>1, DeleteTable
    <3>4. \A q \in Rids : t[q] = IF q = r THEN Free ELSE Table[q]
      BY <1>5, <3>2
    <3>5. /\ index' \in [Values -> Rids \cup {NoRid}]
          /\ \A l \in Values : index'[l] = IF l = w.record THEN NoRid ELSE index[l]
      BY <1>t, <3>1, <3>2
    <3>6. Indexes(index', t)
      BY <1>5, <1>t, <3>2, <3>4, <3>5, IndexDelete
    <3> QED
      BY <3>3, <3>4, <3>5, <3>6
  <2>2. CASE UndoDelete(s)
    <3>1. /\ w.type = "DELETE_TUPLE"
          /\ pages' = [pages EXCEPT ![r.page_no].slots[r.slot_no] = w.old_record]
          /\ UNCHANGED <<num_pages, first_free_page_no, walk, old>> /\ put' \in {put, put + 1}
          /\ index' = [index EXCEPT ![w.old_record] = r]
      BY <2>2 DEF UndoDelete, InsertRecordAt, w, r
    <3>2. w.record = Free /\ w.old_record \in Values
      BY <1>4, <3>1 DEF GoodWrite
    <3>3. /\ FileInv'
          /\ \A q \in Rids : Table'[q] = IF q = r THEN w.old_record ELSE Table[q]
      BY <1>1, <1>5, <1>t, <3>1, SlotWritten, Zenon
    <3>4. \A q \in Rids : t[q] = IF q = r THEN w.old_record ELSE Table[q]
      BY <1>5
    <3>5. index[w.old_record] \notin Rids
      <4>1. Table[r] # w.old_record
        BY <1>5, <3>2, Constants
      <4>2. /\ r \in Rids /\ Indexes(index, Table) /\ UniqueKeys(t)
            /\ t[r] = w.old_record /\ \A q \in Rids \ {r} : t[q] = Table[q]
        BY <1>3, <1>5, <1>t
      <4> QED
        BY <3>2, <4>1, <4>2, KeyIsFree
    <3>6. /\ [index EXCEPT ![w.old_record] = r] \in [Values -> Rids \cup {NoRid}]
          /\ Indexes([index EXCEPT ![w.old_record] = r], t)
      BY <1>5, <1>t, <3>2, <3>4, <3>5, IndexInsert, Zenon
    <3> QED
      BY <3>1, <3>3, <3>4, <3>6
  <2>3. CASE UndoUpdate(s)
    <3>1. /\ w.type = "UPDATE_TUPLE"
          /\ pages' = [pages EXCEPT ![r.page_no].slots[r.slot_no] = w.old_record]
          /\ UNCHANGED <<num_pages, first_free_page_no, walk, old>> /\ put' \in {put, put + 1}
          /\ index' = [index EXCEPT ![w.record] = NoRid, ![w.old_record] = r]
      BY <2>3 DEF UndoUpdate, w, r
    <3>2. w.record \in Values /\ w.old_record \in Values
      BY <1>4, <3>1 DEF GoodWrite
    <3>3. /\ FileInv'
          /\ \A q \in Rids : Table'[q] = IF q = r THEN w.old_record ELSE Table[q]
      BY <1>1, <1>5, <1>t, <3>1, SlotWritten, Zenon
    <3>4. \A q \in Rids : t[q] = IF q = r THEN w.old_record ELSE Table[q]
      BY <1>5
    <3>5. w.old_record = w.record \/ index[w.old_record] \notin Rids
      <4>1. ASSUME w.old_record # w.record PROVE Table[r] # w.old_record
        BY <1>5, <4>1
      <4>2. /\ r \in Rids /\ Indexes(index, Table) /\ UniqueKeys(t)
            /\ t[r] = w.old_record /\ \A q \in Rids \ {r} : t[q] = Table[q]
        BY <1>3, <1>5, <1>t
      <4> QED
        BY <3>2, <4>1, <4>2, KeyIsFree
    <3>6. /\ index' \in [Values -> Rids \cup {NoRid}]
          /\ \A l \in Values : index'[l] = IF l = w.old_record THEN r
                                         ELSE IF l = w.record THEN NoRid ELSE index[l]
      BY <1>5, <1>t, <3>1, <3>2
    <3>7. Indexes(index', t)
      <4>1. r \in Rids /\ Indexes(index, Table) /\ Table[r] = w.record
        BY <1>5, <1>t
      <4>2. index \in [Values -> Rids \cup {NoRid}]
        BY <1>t
      <4> QED
        BY <3>2, <3>4, <3>5, <3>6, <4>1, <4>2, IndexUpdate
    <3> QED
      BY <3>1, <3>3, <3>4, <3>6, <3>7
  <2> QED
    BY <1>1, <2>1, <2>2, <2>3
<1>8. Table' = t
  <2>1. Table' = [q \in Rids |-> Table'[q]]
    BY DEF Table
  <2> QED
    BY <1>3, <1>7, <2>1 DEF Tables
<1> DEFINE vs == SubSeq(ws, 1, Len(ws) - 1)
<1>9. /\ vs \in Seq(Write)
      /\ \A i \in 1 .. Len(vs) : vs[i] = ws[i] /\ i \in 1 .. Len(ws)
  <2>1. /\ vs \in Seq(Write)
        /\ Len(vs) = Len(ws) - 1
        /\ \A i \in 1 .. Len(ws) - 1 : vs[i] = ws[i]
    BY <1>2, ButLastFacts
  <2> HIDE DEF vs
  <2> QED
    BY <1>2, <2>1
<1> HIDE DEF vs
<1>10. write_set' = [write_set EXCEPT ![s] = vs] /\ write_set'[s] = vs
  BY <1>1, <1>t DEF TxnTypeInv, vs
<1>11. TxnTypeInv'
  BY <1>1, <1>7, <1>9, <1>10, <1>t DEF TxnTypeInv
<1>12. WriteSetInv'
  <2>1. \A i \in 1 .. Len(vs) : GoodWrite(vs[i], num_pages')
    BY <1>7, <1>9, <1>t DEF WriteSetInv, ws
  <2>2. \E h : IsHistory(h, vs, committed', Table')
    BY <1>1, <1>3, <1>8 DEF vs
  <2> QED
    BY <1>1, <1>10, <2>1, <2>2, Zenon DEF WriteSetInv
<1> QED
  BY <1>7, <1>8, <1>11, <1>12 DEF TableInv, OneSession

-----------------------------------------------------------------------------

(* Every step of the session preserves the invariant. *)
LEMMA TableNextInv == TableInv /\ [TableNext]_tvars => TableInv'
<1> SUFFICES ASSUME TableInv, [TableNext]_tvars PROVE TableInv'
  OBVIOUS
<1>s. PICK s : Sessions = {s}
  BY DEF TableInv, OneSession
<1>1. CASE DeletionGoesOn
  <2>1. /\ WalkGoesOn \/ WalkEnds
        /\ UNCHANGED <<index, txn_mode, write_set, committed>>
    BY <1>1 DEF DeletionGoesOn
  <2>2. FileInv' /\ num_pages' = num_pages /\ Table' = Table
    BY <2>1, WalkTable DEF TableInv
  <2> QED
    BY <2>1, <2>2, Zenon DEF TableInv, TxnTypeInv, WriteSetInv, OneSession
<1>2. ASSUME NEW k \in Values, InsertRow(s, k) PROVE TableInv'
  BY <1>s, <1>2, InsertRowInv
<1>3. ASSUME NEW r \in Rids, DeleteRow(s, r) PROVE TableInv'
  BY <1>s, <1>3, DeleteRowInv
<1>4. ASSUME NEW r \in Rids, NEW k \in Values, UpdateRow(s, r, k) PROVE TableInv'
  BY <1>s, <1>4, UpdateRowInv
<1>5. CASE Begin(s)
  BY <1>s, <1>5, ModeInv, Zenon DEF Begin
<1>6. CASE Commit(s)
  BY <1>s, <1>6, CommitInv
<1>7. CASE AbortStarts(s)
  BY <1>s, <1>7, ModeInv, Zenon DEF AbortStarts
<1>8. CASE UndoWrite(s)
  BY <1>s, <1>8, UndoWriteInv
<1>9. CASE AbortEnds(s)
  BY <1>s, <1>9, ModeInv, Zenon DEF AbortEnds
<1>10. CASE UNCHANGED tvars
  <2>1. FileInv' /\ Table' = Table /\ num_pages' = num_pages
    BY <1>10 DEF TableInv, FileInv, tvars, vars, Table, Leaving, Records
  <2> QED
    BY <1>10, <2>1 DEF TableInv, TxnTypeInv, WriteSetInv, OneSession, tvars
<1> QED
  BY <1>s, <1>1, <1>2, <1>3, <1>4, <1>5, <1>6, <1>7, <1>8, <1>9, <1>10
  DEF TableNext, SessionNext

(* The invariant of a table that one session uses. *)
THEOREM TableSafety == OneSession /\ TableSpec => []TableInv
<1>1. OneSession /\ TableInit => TableInv
  BY TableInitInv
<1>2. TableInv /\ [TableNext]_tvars => TableInv'
  BY TableNextInv
<1> QED
  BY <1>1, <1>2, PTL DEF TableSpec

(* With one session, an abort takes back every write of its transaction,   *)
(* and nothing else: whatever the mix of inserts, deletes and updates, and *)
(* however often a row was written, between two transactions the table is  *)
(* what the committed writes have made of it.                              *)
THEOREM AbortIsExact == OneSession /\ TableSpec => []OnlyCommittedWritesStay
<1>1. TableInv => OnlyCommittedWritesStay
  <2> SUFFICES ASSUME TableInv, AllClosed PROVE Records = committed
    BY DEF OnlyCommittedWritesStay
  <2>1. PICK s : Sessions = {s}
    BY DEF TableInv, OneSession
  <2>2. walk = Idle /\ write_set[s] = <<>>
    BY <2>1 DEF AllClosed, TableInv, WriteSetInv
  <2>3. write_set[s] \in Seq(Write) /\ \E h : IsHistory(h, write_set[s], committed, Table)
    BY <2>1 DEF TableInv, TxnTypeInv, WriteSetInv
  <2>4. Table = committed
    BY <2>2, <2>3, HistoryEmpty
  <2> QED
    BY <2>2, <2>4, TableFacts DEF TableInv
<1> QED
  BY <1>1, TableSafety, PTL

(* With one session, the unique index has exactly the keys of the table    *)
(* between any two statements, and while an abort is on its way.           *)
THEOREM IndexIsExact == OneSession /\ TableSpec => []IndexMatchesTable
<1>1. TableInv => IndexMatchesTable
  BY TableFacts DEF TableInv, Indexes, IndexMatchesTable
<1> QED
  BY <1>1, TableSafety, PTL
=============================================================================
