----------------------------- MODULE PageStore -----------------------------
(***************************************************************************)
(* What the storage layer promises the code above it: every page of every  *)
(* file has one content, shared by all threads.  A thread pins a page,     *)
(* reads or overwrites its content while it holds the pin, and drops the   *)
(* pin.  Frames, the page table, eviction, dirty flags and the disk do not *)
(* exist at this level, so no caching step may be visible here.            *)
(***************************************************************************)
CONSTANTS
  Threads,   \* threads of the server that use pages
  PageIds,   \* identities of pages, PageId{fd, page_no}
  Data,      \* contents a page can have
  Absent     \* the page has not been allocated

VARIABLES
  store,     \* content of every page
  holders    \* the pages each thread has pinned

vars == <<store, holders>>

Init ==
  /\ store = [p \in PageIds |-> Absent]
  /\ holders = [t \in Threads |-> {}]

(* A page is allocated with some content and is pinned by the allocator.   *)
Allocate(t, p) ==
  /\ store[p] = Absent
  /\ \E d \in Data : store' = [store EXCEPT ![p] = d]
  /\ holders' = [holders EXCEPT ![t] = @ \cup {p}]

Pin(t, p) ==
  /\ store[p] # Absent
  /\ p \notin holders[t]
  /\ holders' = [holders EXCEPT ![t] = @ \cup {p}]
  /\ UNCHANGED store

(* The content of a page changes only through a thread that has pinned it. *)
Write(t, p) ==
  /\ p \in holders[t]
  /\ \E d \in Data : store' = [store EXCEPT ![p] = d]
  /\ UNCHANGED holders

Unpin(t, p) ==
  /\ p \in holders[t]
  /\ holders' = [holders EXCEPT ![t] = @ \ {p}]
  /\ UNCHANGED store

Next ==
  \E t \in Threads, p \in PageIds :
    Allocate(t, p) \/ Pin(t, p) \/ Write(t, p) \/ Unpin(t, p)

Spec == Init /\ [][Next]_vars

-----------------------------------------------------------------------------
(* What remains of the promise when a write may fail: an allocation that   *)
(* fails uses up the page.  It then has some content that nobody gave it,  *)
(* and the other pages have theirs.                                        *)
LosePage(p) ==
  /\ store[p] = Absent
  /\ \E d \in Data : store' = [store EXCEPT ![p] = d]
  /\ UNCHANGED holders

LossySpec == Init /\ [][Next \/ \E p \in PageIds : LosePage(p)]_vars
=============================================================================
