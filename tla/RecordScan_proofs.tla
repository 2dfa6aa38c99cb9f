------------------------- MODULE RecordScan_proofs -------------------------
(***************************************************************************)
(* A scan is complete and returns nothing twice while another session      *)
(* changes the file, for every number of pages, slots and contents.        *)
(***************************************************************************)
EXTENDS RecordScan, RecordFile_proofs

\* The scan has passed slot r of the file, its own position included.
Passed(r) ==
  r.page_no < scan.page_no \/ (r.page_no = scan.page_no /\ r.slot_no <= scan.slot_no)

ScanType ==
  /\ scan \in [state : {"off", "seek", "at", "end"}, page_no : Int, slot_no : Int, limit : Int]
  /\ seen \subseteq [page_no : Int, slot_no : Int]

\* What is still due lies ahead of the scan and before the number of pages it
\* has read; what it has returned lies behind it.
ScanInv ==
  /\ ScanType
  /\ due \subseteq Present
  /\ scan.state = "off" => seen = {}
  /\ scan.state \in {"seek", "at"} =>
       /\ \A r \in due : ~Passed(r) /\ r.page_no < scan.limit
       /\ \A r \in seen : Passed(r)
  /\ scan.state \in {"off", "end"} => due = {}

\* A Rid is two integers.
LEMMA RidFacts ==
  ASSUME NEW r \in Rids
  PROVE  r.page_no \in Int /\ r.slot_no \in Slots /\ r.slot_no \in Int /\ r.slot_no >= 0
BY Constants DEF Rids, PageNos, Slots

\* The scan leaves the file alone, so that what is proved of the file holds.
LEMMA ScanKeepsFileSafe == ScanSpec => []Inv
<1>1. ScanInit => Init
  BY DEF ScanInit
<1>2. [ScanStep \/ WriterStep]_svars => [Next]_vars
  BY DEF ScanStep, WriterStep, ScanBegins, FindsRecord, GoesToNextPage, ScanEnds,
         CallsNext, svars
<1> QED
  BY <1>1, <1>2, FileSafety, PTL DEF ScanSpec, Spec

LEMMA ScanInvInit == ScanInit => ScanInv
BY DEF ScanInit, ScanInv, ScanType

\* A step of the scan.
LEMMA ScanInvScan ==
  ASSUME ScanInv, Inv, ScanStep
  PROVE  ScanInv'
<1> num_pages \in Int
  BY FileFacts DEF Inv
<1> UNCHANGED vars
  BY DEF ScanStep, ScanBegins, FindsRecord, GoesToNextPage, ScanEnds, CallsNext
<1>0. Present' = Present
  BY DEF Present, IsRecord, vars
<1>a. \A r \in Present : r \in Rids /\ r.page_no < num_pages
                         /\ pages[r.page_no].slots[r.slot_no] # Free
  BY DEF Present, IsRecord
<1>1. CASE ScanBegins
  BY <1>1, <1>0, <1>a, RidFacts DEF ScanBegins, ScanInv, ScanType, Passed, Rids, PageNos
<1>2. CASE FindsRecord
  <2>1. PICK s \in NextSlots :
          /\ \A t \in NextSlots : s <= t
          /\ scan' = [scan EXCEPT !.state = "at", !.slot_no = s]
          /\ seen' = seen \cup {[page_no |-> scan.page_no, slot_no |-> s]}
          /\ due' = due \ {[page_no |-> scan.page_no, slot_no |-> s]}
    BY <1>2 DEF FindsRecord
  <2>2. /\ s \in Int /\ s > scan.slot_no
        /\ scan.state = "seek" /\ scan.page_no \in Int /\ scan.slot_no \in Int
    BY <1>2, Constants DEF FindsRecord, NextSlots, Slots, ScanInv, ScanType
  <2>3. scan'.state = "at" /\ scan'.page_no = scan.page_no /\ scan'.slot_no = s
        /\ scan'.limit = scan.limit
    BY <2>1 DEF ScanInv, ScanType
  <2>4. ASSUME NEW r \in due' PROVE ~Passed(r)' /\ r.page_no < scan'.limit
    <3>1. r \in due /\ r \in Rids /\ r # [page_no |-> scan.page_no, slot_no |-> s]
      BY <2>1, <1>a DEF ScanInv, ScanType
    <3>2. ~Passed(r) /\ r.page_no < scan.limit
      BY <2>2, <3>1 DEF ScanInv, ScanType
    <3>3. r.page_no = scan.page_no => r.slot_no > s
      <4> SUFFICES ASSUME r.page_no = scan.page_no PROVE r.slot_no > s
        OBVIOUS
      <4>1. r.slot_no \in NextSlots
        BY <1>a, <2>2, <3>1, <3>2, RidFacts DEF ScanInv, ScanType, NextSlots, Passed
      <4>2. r.slot_no # s
        BY <3>1 DEF Rids
      <4> QED
        BY <2>1, <2>2, <3>1, <4>1, <4>2, RidFacts
    <3> QED
      BY <2>2, <2>3, <3>1, <3>2, <3>3, RidFacts DEF Passed
  <2>5. ASSUME NEW r \in seen' PROVE Passed(r)'
    BY <2>1, <2>2, <2>3 DEF ScanInv, ScanType, Passed
  <2> QED
    <3>1. ScanType'
      <4>1. scan' \in [state : {"off", "seek", "at", "end"}, page_no : Int,
                       slot_no : Int, limit : Int]
        BY <2>1, <2>2 DEF ScanInv, ScanType
      <4>2. seen' \subseteq [page_no : Int, slot_no : Int]
        BY <2>1, <2>2 DEF ScanInv, ScanType
      <4> QED
        BY <4>1, <4>2 DEF ScanType
    <3>2. due' \subseteq Present'
      BY <2>1, <1>0 DEF ScanInv
    <3> QED
      BY <2>3, <2>4, <2>5, <3>1, <3>2 DEF ScanInv
<1>3. CASE GoesToNextPage
  <2>1. /\ scan.state = "seek" /\ NextSlots = {} /\ due' = due /\ seen' = seen
        /\ scan' = [scan EXCEPT !.page_no = @ + 1, !.slot_no = -1]
        /\ scan.page_no \in Int /\ scan.slot_no \in Int
    BY <1>3 DEF GoesToNextPage, ScanInv, ScanType
  <2>2. scan'.state = "seek" /\ scan'.page_no = scan.page_no + 1 /\ scan'.slot_no = -1
        /\ scan'.limit = scan.limit
    BY <2>1 DEF ScanInv, ScanType
  <2>3. ASSUME NEW r \in due PROVE ~Passed(r)' /\ r.page_no < scan'.limit
    <3>1. r \in Rids /\ ~Passed(r) /\ r.page_no < scan.limit
      BY <1>a, <2>1 DEF ScanInv, ScanType
    <3>2. r.page_no # scan.page_no
      BY <1>a, <2>1, <3>1, RidFacts DEF ScanInv, ScanType, NextSlots, Passed
    <3> QED
      BY <2>1, <2>2, <3>1, <3>2, RidFacts DEF Passed
  <2>4. ASSUME NEW r \in seen PROVE Passed(r)'
    BY <2>1, <2>2 DEF ScanInv, ScanType, Passed
  <2> QED
    <3>1. ScanType'
      <4>1. -1 \in Int /\ scan.page_no + 1 \in Int
        BY <2>1
      <4>2. scan' \in [state : {"off", "seek", "at", "end"}, page_no : Int,
                       slot_no : Int, limit : Int]
        BY <2>1, <4>1 DEF ScanInv, ScanType
      <4> QED
        BY <2>1, <4>2 DEF ScanInv, ScanType
    <3>2. due' \subseteq Present'
      BY <2>1, <1>0 DEF ScanInv
    <3> QED
      BY <2>1, <2>2, <2>3, <2>4, <3>1, <3>2 DEF ScanInv
<1>4. CASE ScanEnds
  <2>1. due = {}
    BY <1>4, <1>a, RidFacts DEF ScanEnds, ScanInv, ScanType, Passed
  <2> QED
    <3>1. ScanType' /\ scan'.state = "end" /\ due' = {}
      <4>1. scan' = [scan EXCEPT !.state = "end", !.page_no = -1, !.slot_no = -1]
            /\ due' = due /\ seen' = seen
        BY <1>4 DEF ScanEnds
      <4>2. -1 \in Int
        OBVIOUS
      <4> QED
        BY <2>1, <4>1, <4>2 DEF ScanInv, ScanType
    <3> QED
      BY <3>1 DEF ScanInv
<1>5. CASE CallsNext
  BY <1>5, <1>0, <1>a, RidFacts DEF CallsNext, ScanInv, ScanType, Passed
<1> QED
  BY <1>1, <1>2, <1>3, <1>4, <1>5 DEF ScanStep

\* A step of the other session: what it deletes is not due any more.
LEMMA ScanInvWriter ==
  ASSUME ScanInv, WriterStep
  PROVE  ScanInv'
BY DEF WriterStep, ScanInv, ScanType, Passed

THEOREM ScanInvariant == ScanSpec => []ScanInv
<1>1. ScanInv /\ Inv /\ [ScanStep \/ WriterStep]_svars => ScanInv'
  BY ScanInvScan, ScanInvWriter
     DEF svars, vars, ScanInv, ScanType, Passed, Present, IsRecord
<1> QED
  BY <1>1, ScanInvInit, ScanKeepsFileSafe, PTL DEF ScanSpec

\* RmScan misses no record that was in the file when the scan began and was
\* not deleted before the scan ended.
THEOREM ScansAreComplete == ScanSpec => []ScanIsComplete
<1>1. ScanInv => ScanIsComplete
  BY DEF ScanInv, ScanType, ScanIsComplete
<1> QED
  BY <1>1, ScanInvariant, PTL

\* RmScan returns no record number twice, also when slots it has passed are
\* emptied and filled again.
THEOREM ScansReturnOnce == ScanSpec => EachOnce
<1>1. ScanInv /\ [ScanStep \/ WriterStep]_svars
        => [scan.state = "seek" /\ scan'.state = "at" => Rid' \notin seen]_svars
  <2> SUFFICES ASSUME ScanInv, ScanStep \/ WriterStep,
                      scan.state = "seek", scan'.state = "at"
               PROVE  Rid' \notin seen
    OBVIOUS
  <2>1. FindsRecord
    BY DEF ScanInv, ScanType, ScanStep, WriterStep, ScanBegins, GoesToNextPage, ScanEnds, CallsNext
  <2>2. PICK s \in Slots : s > scan.slot_no /\ scan' = [scan EXCEPT !.state = "at", !.slot_no = s]
    BY <2>1 DEF FindsRecord, NextSlots
  <2> QED
    BY <2>2, RidFacts, Constants DEF ScanInv, ScanType, Passed, Rid, Slots
<1> QED
  BY <1>1, ScanInvariant, PTL DEF ScanSpec, EachOnce

=============================================================================
