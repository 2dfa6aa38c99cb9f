-------------------------- MODULE DeleteRecordPins --------------------------
(***************************************************************************)
(* The buffer pool under RmFileHandle::delete_record on a full page.  The  *)
(* page is fetched once and unpinned twice: release_page_handle unpins it, *)
(* after which delete_record still stores into it through its pointer, and *)
(* then unpins whatever page the frame has by then.                        *)
(***************************************************************************)
EXTENDS BufferPool

VARIABLE released   \* the frame delete_record goes on to use, per client

dvars == <<vars, released>>

PinsInit == Init /\ released = [c \in Clients |-> NoFrame]

(* The last statement of release_page_handle.                              *)
ReleasePageHandle(c, p) ==
  /\ released[c] = NoFrame
  /\ held[c][p] # NoFrame
  /\ Unpin(p, TRUE)
  /\ held' = [held EXCEPT ![c][p] = NoFrame]
  /\ wrote' = [wrote EXCEPT ![c] = @ \ {p}]
  /\ released' = [released EXCEPT ![c] = held[c][p]]
  /\ UNCHANGED <<disk, fd2pageno>>

(* delete_record resets the bit and decrements num_records.                *)
ResetBit(c, v) ==
  /\ released[c] # NoFrame
  /\ pages' = [pages EXCEPT ![released[c]].data = v]
  /\ UNCHANGED <<page_table, free_list, lru, disk, fd2pageno, held, wrote, released>>

(* delete_record's own unpin.  On a page that is not pinned it does        *)
(* nothing.                                                                *)
UnpinAgain(c) ==
  /\ released[c] # NoFrame
  /\ LET p == pages[released[c]].id
     IN  IF p # NoPage /\ FrameOf(p).pin > 0 THEN Unpin(p, TRUE) ELSE UNCHANGED pool
  /\ released' = [released EXCEPT ![c] = NoFrame]
  /\ UNCHANGED <<disk, fd2pageno, held, wrote>>

DeleteStep(c) ==
  \/ \E p \in PageIds : ReleasePageHandle(c, p)
  \/ \E v \in Values : ResetBit(c, v)
  \/ UnpinAgain(c)

PinsSpec ==
  PinsInit /\ [][(Next /\ UNCHANGED released) \/ \E c \in Clients : DeleteStep(c)]_dvars

-----------------------------------------------------------------------------

(* LRUReplacer::pin says that a pinned page cannot be evicted: while a     *)
(* client has not unpinned a page, the page stays in its frame.            *)
PinnedPagesStay == PointersStayValid
=============================================================================
