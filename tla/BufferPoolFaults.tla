-------------------------- MODULE BufferPoolFaults --------------------------
(***************************************************************************)
(* The buffer pool when write_page throws InternalError.  The exception    *)
(* leaves BufferPoolManager in the middle of an operation: the scoped_lock *)
(* releases latch_ and what was done so far stays done.                    *)
(***************************************************************************)
EXTENDS BufferPool

VictimLeaksClean ==
  /\ HasVictim
  /\ pages[Victim].dirty
  /\ free_list' = FreeListAfterVictim
  /\ lru' = LruAfterVictim
  /\ pages' = [pages EXCEPT ![Victim].dirty = FALSE]
  /\ UNCHANGED <<page_table, disk, held, wrote>>

VictimLeaksUnmapped ==
  /\ HasVictim
  /\ pages[Victim].dirty
  /\ free_list' = FreeListAfterVictim
  /\ lru' = LruAfterVictim
  /\ page_table' = [page_table EXCEPT ![pages[Victim].id] = NoFrame]
  /\ UNCHANGED <<pages, disk, held, wrote>>

(* A dirty victim cannot be written back: find_victim_page has taken it    *)
(* out of its list, update_page has changed nothing yet.                   *)
VictimLeaks ==
  /\ HasVictim
  /\ pages[Victim].dirty
  /\ free_list' = FreeListAfterVictim
  /\ lru' = LruAfterVictim
  /\ UNCHANGED <<pages, page_table, disk, held, wrote>>

FetchWriteThrows(p) ==
  /\ Allocated(p)
  /\ ~ Mapped(p)
  /\ VictimLeaks
  /\ UNCHANGED fd2pageno

(* new_page has already called allocate_page: the page number is lost.     *)
NewPageWriteThrows(fd) ==
  /\ fd2pageno[fd] < MaxPages
  /\ VictimLeaks
  /\ fd2pageno' = [fd2pageno EXCEPT ![fd] = @ + 1]

(* flush_page and delete_page write before they change anything, so that a *)
(* failed write leaves the state as it was.  FetchMiss reads a page whose  *)
(* number was lost only once it is a hole between written pages.           *)
WriteFault ==
  \/ \E p \in PageIds : FetchWriteThrows(p)
  \/ \E fd \in Files : NewPageWriteThrows(fd)

WriteFaultSpec == Init /\ [][Next \/ WriteFault]_vars

-----------------------------------------------------------------------------

(* A frame that find_victim_page can return is unpinned.  (Unpinned frames *)
(* may be missing from both lists: a failed write-back leaks the victim    *)
(* until its page is fetched and unpinned again.)                          *)
PinnedFramesAreNoVictims ==
  \A f \in Range(free_list) \cup Range(lru) : pages[f].pin = 0

(* A frame that leaked keeps its page: it is still in the page table, so   *)
(* that the next fetch_page finds the newest content there and the frame   *)
(* returns to the replacer when the page is unpinned.                      *)
LeakedFramesAreReachable ==
  \A f \in Frames \ (Range(free_list) \cup Range(lru)) :
    /\ pages[f].id # NoPage
    /\ page_table[pages[f].id] = f

(* The pool stays invisible when writes fail, but for the page numbers     *)
(* that new_page loses: no page whose content a client wrote or read has   *)
(* another one afterwards.                                                 *)
ImplementsLossyPageStore == Store!LossySpec
=============================================================================
