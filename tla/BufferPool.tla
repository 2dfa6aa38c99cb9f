----------------------------- MODULE BufferPool -----------------------------
(***************************************************************************)
(* The buffer pool manager with its LRU replacer and the page files below  *)
(* it.  Every operation of BufferPoolManager holds latch_ from its first   *)
(* to its last statement, so an operation is one step.  Between the calls  *)
(* the clients read and write page contents through the Page pointers they *)
(* were given, without the latch.                                          *)
(*                                                                         *)
(* A client is one use of the pool: it pins a page at most once, so a      *)
(* thread that pins a page twice counts as two clients.  Clients keep the  *)
(* protocol of the record and index layers: a page is written only while   *)
(* it is pinned, and a page that was written, or newly allocated, is       *)
(* unpinned with is_dirty = true.                                          *)
(*                                                                         *)
(* Next to some definitions stands a variant of them with the mistake its  *)
(* name tells.  Nothing here uses the variants: they show that a property  *)
(* would notice the mistake.                                               *)
(***************************************************************************)
EXTENDS Integers, FiniteSets, LRUReplacer

CONSTANTS
  PoolSize,   \* pool_size_, the number of frames
  Files,      \* file descriptors of open page files
  MaxPages,   \* bound: pages a file may grow to
  Clients,    \* uses of the pool that may overlap
  Values,     \* contents a client may write
  Zero,       \* a page of zero bytes
  Absent,     \* beyond the end of the file: read_page would be short
  NoPage      \* id_ of a frame that holds no page: {0, -1} or, memset, {0, 0}

Frames == 0 .. PoolSize - 1
PageIds == [fd : Files, page_no : 0 .. MaxPages - 1]
Data == Values \cup {Zero}
NoFrame == -1

ASSUME PoolAssumption ==
  /\ PoolSize \in Nat
  /\ MaxPages \in Nat
  /\ IsFiniteSet(Clients)
  /\ Absent \notin Data
  /\ NoPage \notin PageIds

VARIABLES
  pages,       \* pages_: the frames
  page_table,  \* page_table_: frame of a page, NoFrame if there is no entry
  free_list,   \* free_list_
  lru,         \* LRUlist_ of the replacer
  disk,        \* content of the page files
  fd2pageno,   \* fd2pageno_: the next page number of each file
  held,        \* held[c][p]: the Page pointer (a frame) c has for p
  wrote        \* the pages c has to unpin with is_dirty = true

pool == <<pages, page_table, free_list, lru>>
vars == <<pages, page_table, free_list, lru, disk, fd2pageno, held, wrote>>

Page == [id : PageIds \cup {NoPage}, data : Data, dirty : BOOLEAN, pin : Nat]
EmptyPage == [id |-> NoPage, data |-> Zero, dirty |-> FALSE, pin |-> 0]

Init ==
  /\ pages = [f \in Frames |-> EmptyPage]
  /\ page_table = [p \in PageIds |-> NoFrame]
  /\ free_list = [i \in 1 .. PoolSize |-> i - 1]
  /\ lru = <<>>
  /\ disk = [p \in PageIds |-> Absent]
  /\ fd2pageno = [fd \in Files |-> 0]
  /\ held = [c \in Clients |-> [p \in PageIds |-> NoFrame]]
  /\ wrote = [c \in Clients |-> {}]

-----------------------------------------------------------------------------
(* The disk manager *)

(* DiskManager::write_page.  lseek beyond the end followed by write leaves *)
(* a hole, which reads as zeros.                                           *)
Written(d, p, v) ==
  [q \in PageIds |->
     IF q = p THEN v
     ELSE IF d[q] = Absent /\ q.fd = p.fd /\ q.page_no < p.page_no THEN Zero
     ELSE d[q]]

(* DiskManager::read_page throws on a page that is not (fully) there.      *)
Readable(d, p) == d[p] # Absent

NextPageTooFar(fd) == [fd |-> fd, page_no |-> fd2pageno[fd] + 1]

(* DiskManager::allocate_page: fd2pageno_[fd]++. *)
NextPage(fd) == [fd |-> fd, page_no |-> fd2pageno[fd]]

-----------------------------------------------------------------------------
(* Frames and the page table *)

Mapped(p) == page_table[p] # NoFrame
FrameOf(p) == pages[page_table[p]]

(* BufferPoolManager::find_victim_page: the front of the free list, else   *)
(* the replacer's victim.                                                  *)
HasVictim == free_list # <<>> \/ HasLruVictim(lru)
Victim == IF free_list = <<>> THEN LruVictim(lru) ELSE Head(free_list)
FreeListAfterVictim == IF free_list = <<>> THEN free_list ELSE Tail(free_list)
LruAfterVictim == IF free_list = <<>> THEN AfterLruVictim(lru) ELSE lru

NoWriteBack(f) == disk

(* BufferPoolManager::update_page: a dirty victim is written back, ...     *)
DiskAfterUpdate(f) ==
  IF pages[f].dirty THEN Written(disk, pages[f].id, pages[f].data) ELSE disk

PageTableWithOldEntry(f, p) == [page_table EXCEPT ![p] = f]

(* ... its page leaves the page table and the new page enters it.          *)
PageTableAfterUpdate(f, p) ==
  [q \in PageIds |-> IF q = p THEN f
                     ELSE IF q = pages[f].id THEN NoFrame
                     ELSE page_table[q]]

LoadedUnpinnedPage(p, d) == [id |-> p, data |-> d, dirty |-> FALSE, pin |-> 0]

(* The frame starts its new life clean, and pinned once by the caller.     *)
LoadedPage(p, d) == [id |-> p, data |-> d, dirty |-> FALSE, pin |-> 1]

(* What fetch_page and new_page do with the victim: d is the data that the *)
(* frame has afterwards.                                                   *)
TakeVictim(p, d) ==
  /\ pages' = [pages EXCEPT ![Victim] = LoadedPage(p, d)]
  /\ page_table' = PageTableAfterUpdate(Victim, p)
  /\ disk' = DiskAfterUpdate(Victim)
  /\ free_list' = FreeListAfterVictim
  /\ lru' = LruPin(LruAfterVictim, Victim)

-----------------------------------------------------------------------------
(* The operations *)

Allocated(p) == p.page_no < fd2pageno[p.fd]

(* fetch_page, the page is in the pool. *)
FetchHit(c, p) ==
  /\ held[c][p] = NoFrame
  /\ Mapped(p)
  /\ lru' = LruPin(lru, page_table[p])
  /\ pages' = [pages EXCEPT ![page_table[p]].pin = @ + 1]
  /\ held' = [held EXCEPT ![c][p] = page_table[p]]
  /\ UNCHANGED <<page_table, free_list, disk, fd2pageno, wrote>>

(* fetch_page, the page is read from disk into the victim. *)
FetchMiss(c, p) ==
  /\ held[c][p] = NoFrame
  /\ Allocated(p)
  /\ ~ Mapped(p)
  /\ HasVictim
  /\ Readable(DiskAfterUpdate(Victim), p)
  /\ TakeVictim(p, DiskAfterUpdate(Victim)[p])
  /\ held' = [held EXCEPT ![c][p] = Victim]
  /\ UNCHANGED <<fd2pageno, wrote>>

(* new_page: the frame keeps the bytes of the page that was evicted.       *)
NewPage(c, fd) ==
  /\ HasVictim
  /\ fd2pageno[fd] < MaxPages
  /\ TakeVictim(NextPage(fd), pages[Victim].data)
  /\ fd2pageno' = [fd2pageno EXCEPT ![fd] = @ + 1]
  /\ held' = [held EXCEPT ![c][NextPage(fd)] = Victim]
  /\ wrote' = [wrote EXCEPT ![c] = @ \cup {NextPage(fd)}]

(* fetch_page and new_page return nullptr when there is no victim.         *)
NoVictim ==
  /\ ~ HasVictim
  /\ \/ \E p \in PageIds : Allocated(p) /\ ~ Mapped(p)
     \/ \E fd \in Files : fd2pageno[fd] < MaxPages
  /\ UNCHANGED vars

(* A client stores into the page it has pinned, through its pointer.       *)
WritePage(c, p, v) ==
  /\ held[c][p] # NoFrame
  /\ pages' = [pages EXCEPT ![held[c][p]].data = v]
  /\ wrote' = [wrote EXCEPT ![c] = @ \cup {p}]
  /\ UNCHANGED <<page_table, free_list, lru, disk, fd2pageno, held>>

UnpinOverwritesFlag(page, dirty) == [page EXCEPT !.pin = @ - 1, !.dirty = dirty]

(* unpin_page on a pinned page: is_dirty = false leaves the flag alone.    *)
UnpinnedPage(page, dirty) ==
  [page EXCEPT !.pin = @ - 1, !.dirty = IF dirty THEN TRUE ELSE @]

Unpin(p, dirty) ==
  /\ Mapped(p)
  /\ FrameOf(p).pin > 0
  /\ pages' = [pages EXCEPT ![page_table[p]] = UnpinnedPage(@, dirty)]
  /\ lru' = IF FrameOf(p).pin = 1 THEN LruUnpin(lru, page_table[p]) ELSE lru
  /\ UNCHANGED <<page_table, free_list>>

UnpinPage(c, p, dirty) ==
  /\ held[c][p] # NoFrame
  /\ p \in wrote[c] => dirty
  /\ Unpin(p, dirty)
  /\ held' = [held EXCEPT ![c][p] = NoFrame]
  /\ wrote' = [wrote EXCEPT ![c] = @ \ {p}]
  /\ UNCHANGED <<disk, fd2pageno>>

(* flush_page writes the page whether or not it is dirty, or in use.       *)
FlushPage(p) ==
  /\ Mapped(p)
  /\ disk' = Written(disk, p, FrameOf(p).data)
  /\ pages' = [pages EXCEPT ![page_table[p]].dirty = FALSE]
  /\ UNCHANGED <<page_table, free_list, lru, fd2pageno, held, wrote>>

(* delete_page: a dirty page is written, the frame is wiped and goes to    *)
(* the free list; it is not taken out of the replacer's list.              *)
DiscardOnDelete(p) == disk
DiskAfterDelete(p) ==
  IF FrameOf(p).dirty THEN Written(disk, p, FrameOf(p).data) ELSE disk

KeepEntryOnDelete(p) == page_table
PageTableAfterDelete(p) == [page_table EXCEPT ![p] = NoFrame]

DeletePage(p) ==
  /\ Mapped(p)
  /\ FrameOf(p).pin = 0
  /\ disk' = DiskAfterDelete(p)
  /\ pages' = [pages EXCEPT ![page_table[p]] = EmptyPage]
  /\ free_list' = Append(free_list, page_table[p])
  /\ page_table' = PageTableAfterDelete(p)
  /\ UNCHANGED <<lru, fd2pageno, held, wrote>>

(* flush_all_pages(fd): frames in ascending order, so that the last frame  *)
(* with an id decides; the dirty flags stay.                               *)
FramesWith(p) == {f \in Frames : pages[f].id = p}
LastFrameWith(p) == CHOOSE f \in FramesWith(p) : \A g \in FramesWith(p) : g <= f
BelowAFlushed(q) ==
  \E f \in Frames : /\ pages[f].id # NoPage
                    /\ pages[f].id.fd = q.fd
                    /\ q.page_no < pages[f].id.page_no
Flushed(fd) ==
  [q \in PageIds |->
     IF q.fd = fd /\ FramesWith(q) # {} THEN pages[LastFrameWith(q)].data
     ELSE IF q.fd = fd /\ disk[q] = Absent /\ BelowAFlushed(q) THEN Zero
     ELSE disk[q]]

FlushAllPages(fd) ==
  /\ disk' = Flushed(fd)
  /\ UNCHANGED <<pages, page_table, free_list, lru, fd2pageno, held, wrote>>

(* Not actions, because they return without an effect: delete_page on a    *)
(* pinned page, and delete_page, unpin_page or flush_page on a page that   *)
(* is not in the pool.                                                     *)
ClientNext(c) ==
  \/ \E p \in PageIds : FetchHit(c, p) \/ FetchMiss(c, p)
  \/ \E fd \in Files : NewPage(c, fd)
  \/ \E p \in PageIds, v \in Values : WritePage(c, p, v)
  \/ \E p \in PageIds, dirty \in BOOLEAN : UnpinPage(c, p, dirty)

PoolNext ==
  \/ \E p \in PageIds : FlushPage(p) \/ DeletePage(p)
  \/ \E fd \in Files : FlushAllPages(fd)
  \/ NoVictim

Next == (\E c \in Clients : ClientNext(c)) \/ PoolNext

Spec == Init /\ [][Next]_vars

-----------------------------------------------------------------------------
(* Properties *)

(* Frames, page table, lists, disk and the clients' pointers have their    *)
(* types (BufferPoolManager's members, buffer_pool_manager.h).             *)
TypeInvariant ==
  /\ pages \in [Frames -> Page]
  /\ page_table \in [PageIds -> Frames \cup {NoFrame}]
  /\ free_list \in Seq(Frames)
  /\ lru \in Seq(Frames)
  /\ disk \in [PageIds -> Data \cup {Absent}]
  /\ fd2pageno \in [Files -> 0 .. MaxPages]
  /\ held \in [Clients -> [PageIds -> Frames \cup {NoFrame}]]
  /\ wrote \in [Clients -> SUBSET PageIds]

(* A Page pointer stays valid as long as its holder has not unpinned the   *)
(* page: no fetch, allocation, eviction, flush or deletion by anybody else *)
(* moves the page to another frame or gives the frame to another page.     *)
PointersStayValid ==
  \A c \in Clients, p \in PageIds :
    held[c][p] # NoFrame =>
      /\ page_table[p] = held[c][p]
      /\ pages[held[c][p]].id = p

(* pin_count_ is exactly the number of clients that have the page pinned:  *)
(* no unpin is lost and none is counted twice, whatever the interleaving.  *)
Holders(p) == {c \in Clients : held[c][p] # NoFrame}
PinsMatchHolders ==
  \A f \in Frames :
    pages[f].pin = IF pages[f].id = NoPage THEN 0
                   ELSE Cardinality(Holders(pages[f].id))

(* find_victim_page is sound and complete: the free list and the           *)
(* replacer's list together hold exactly the frames with pin_count_ 0, so  *)
(* a pinned frame is never evicted, and fetch_page and new_page return     *)
(* nullptr only when every frame is pinned.                                *)
VictimsAreUnpinned ==
  Range(free_list) \cup Range(lru) = {f \in Frames : pages[f].pin = 0}

(* No frame is twice in the free list or twice in the replacer's list,     *)
(* although delete_page leaves a frame in both.  A second copy would give  *)
(* one frame to two pages.                                                 *)
NoFrameTwice == IsInjective(free_list) /\ IsInjective(lru)

(* The page table and the frames describe the same mapping: a page that is *)
(* in the table is in that frame, and a frame that is not in the free list *)
(* holds a page that is in the table.  In particular no page is in two     *)
(* frames, which would split its updates.                                  *)
PageTableMatchesFrames ==
  /\ \A p \in PageIds : Mapped(p) => FrameOf(p).id = p
  /\ \A f \in Frames :
       IF f \in Range(free_list) THEN pages[f] = EmptyPage
       ELSE pages[f].id # NoPage /\ page_table[pages[f].id] = f

(* A content that differs from the disk's is still going to be written:    *)
(* the frame is dirty, or a client that wrote the page has yet to unpin    *)
(* it.  This fails if an unpin with is_dirty = false may clear the flag of *)
(* another client's unpin, or a flush the flag of a later write.           *)
NoLostUpdate ==
  /\ \A c \in Clients : wrote[c] \subseteq {p \in PageIds : held[c][p] # NoFrame}
  /\ \A p \in PageIds :
       (Mapped(p) /\ FrameOf(p).data # disk[p]) =>
         FrameOf(p).dirty \/ \E c \in Clients : p \in wrote[c]

(* read_page never fails on an allocated page: new_page writes nothing to  *)
(* the file, so the page must not leave the pool before it was written     *)
(* once.  And a page number that new_page has yet to hand out is neither   *)
(* in the pool nor in the file, so that it is handed out once.             *)
AllocatedPagesAreReadable ==
  \A p \in PageIds :
    IF Allocated(p) THEN Mapped(p) \/ Readable(disk, p)
    ELSE ~ Mapped(p) /\ ~ Readable(disk, p)

(* The page that is evicted is the one that was released longest ago.  A   *)
(* step that gives the frame of one page to another takes a frame that is  *)
(* behind all others of the replacer's list; no step changes the order of  *)
(* two frames that stay in the list, and a frame that enters it is behind  *)
(* no frame that was already there.  (LRUReplacer::victim and unpin, over  *)
(* any sequence of fetches, unpins and deletions around them.)             *)
Before(list, f, g) ==
  \E i, j \in DOMAIN list : i < j /\ list[i] = f /\ list[j] = g
Evicts(f) == pages[f].id # NoPage /\ pages'[f].id \notin {pages[f].id, NoPage}
EvictionFollowsRelease ==
  [][/\ \A f \in Frames : Evicts(f) =>
          f \in Range(lru) /\ \A g \in Range(lru) \ {f} : Before(lru, g, f)
     /\ \A f, g \in Range(lru') :
          Before(lru', f, g) => (f \in Range(lru) => Before(lru, f, g))]_<<lru, pages>>

(* The pool is invisible: the content of a page is the frame's if the page *)
(* is in the pool and the disk's otherwise, and every step of the pool is  *)
(* then a step of PageStore or none at all.  (A page that is allocated and *)
(* in neither place will be a hole of the file.  There is none unless a    *)
(* write fails: AllocatedPagesAreReadable.)                                *)
Content ==
  [p \in PageIds |-> IF Mapped(p) THEN FrameOf(p).data
                     ELSE IF Allocated(p) /\ ~ Readable(disk, p) THEN Zero
                     ELSE disk[p]]
PinnedBy == [c \in Clients |-> {p \in PageIds : held[c][p] # NoFrame}]
Store == INSTANCE PageStore WITH
  Threads <- Clients, store <- Content, holders <- PinnedBy
ImplementsPageStore == Store!Spec
=============================================================================
