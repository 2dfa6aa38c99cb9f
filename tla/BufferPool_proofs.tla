-------------------------- MODULE BufferPool_proofs --------------------------
(***************************************************************************)
(* The safety invariants of the buffer pool, the order in which it evicts, *)
(* and that it implements PageStore, with and without failing writes, for  *)
(* every number of frames, files, pages, clients and values.               *)
(***************************************************************************)
EXTENDS BufferPoolFaults, SequenceFacts, FiniteSetTheorems

\* A page number that new_page has yet to hand out is not in use.
NewPagesAreUnused ==
  \A p \in PageIds : ~ Allocated(p) => ~ Mapped(p) /\ ~ Readable(disk, p)

\* The inductive invariant, which a failing write does not break.
Inv ==
  /\ TypeInvariant
  /\ PointersStayValid
  /\ PinsMatchHolders
  /\ PinnedFramesAreNoVictims
  /\ NoFrameTwice
  /\ PageTableMatchesFrames
  /\ NoLostUpdate
  /\ NewPagesAreUnused

\* A page number that new_page has handed out is in the pool or in the file.
NoPageLost == \A p \in PageIds : Allocated(p) => Mapped(p) \/ Readable(disk, p)

\* What else holds as long as no write fails: neither a frame nor a page is lost.
NothingLost == VictimsAreUnpinned /\ NoPageLost

(* A frame is not a missing frame, and a page number is not a missing page. *)
LEMMA Constants ==
  /\ NoFrame \notin Frames
  /\ NoPage \notin PageIds
  /\ Zero \in Data
  /\ Absent \notin Data
  /\ EmptyPage \in Page
BY PoolAssumption DEF NoFrame, Frames, Data, EmptyPage, Page

(* A frame without a page. *)
LEMMA EmptyPageFacts ==
  EmptyPage.id = NoPage /\ EmptyPage.pin = 0 /\ EmptyPage.dirty = FALSE
BY DEF EmptyPage

(* A frame with a page is the one the page table has for it. *)
LEMMA FrameFacts ==
  ASSUME Inv, NEW g \in Frames, pages[g].id # NoPage
  PROVE  pages[g].id \in PageIds /\ page_table[pages[g].id] = g
<1>1. pages[g].id \in PageIds
  BY DEF Inv, TypeInvariant, Page
<1>2. pages[g] # EmptyPage
  BY EmptyPageFacts
<1> QED
  BY <1>1, <1>2 DEF Inv, PageTableMatchesFrames

(* Initially every frame is in the free list and no page exists. *)
LEMMA InitInv == Init => Inv /\ NothingLost
<1> SUFFICES ASSUME Init PROVE Inv /\ NothingLost
  OBVIOUS
<1> USE DEF Init
<1>1. /\ free_list \in Seq(Frames)
      /\ DOMAIN free_list = 1 .. PoolSize
      /\ IsInjective(free_list)
      /\ Range(free_list) = Frames
  <2>1. \A i \in 1 .. PoolSize : i - 1 \in Frames
    BY PoolAssumption DEF Frames
  <2>2. free_list \in [1 .. PoolSize -> Frames]
    BY <2>1
  <2>3. free_list \in Seq(Frames)
    BY <2>2, PoolAssumption
  <2>4. IsInjective(free_list)
    BY PoolAssumption DEF IsInjective
  <2>5. \A f \in Frames : f + 1 \in 1 .. PoolSize /\ free_list[f + 1] = f
    BY PoolAssumption DEF Frames
  <2>6. Range(free_list) = Frames
    BY <2>1, <2>2, <2>5, Zenon DEF Range
  <2> QED
    BY <2>2, <2>3, <2>4, <2>6
<1>2. lru \in Seq(Frames) /\ IsInjective(lru) /\ Range(lru) = {}
  BY DEF IsInjective, Range
<1>3. TypeInvariant
  BY <1>1, <1>2, Constants, PoolAssumption DEF TypeInvariant
<1>4. PointersStayValid
  BY DEF PointersStayValid
<1>5. PinsMatchHolders
  BY DEF PinsMatchHolders, EmptyPage
<1>6. PinnedFramesAreNoVictims /\ VictimsAreUnpinned
  BY <1>1, <1>2, Zenon DEF PinnedFramesAreNoVictims, VictimsAreUnpinned, EmptyPage
<1>7. NoFrameTwice
  BY <1>1, <1>2 DEF NoFrameTwice
<1>8. PageTableMatchesFrames
  BY <1>1, Zenon DEF PageTableMatchesFrames, Mapped
<1>9. NoLostUpdate
  BY DEF NoLostUpdate, Mapped
<1>10. NewPagesAreUnused /\ NoPageLost
  BY DEF NewPagesAreUnused, NoPageLost, Allocated, Mapped, Readable, PageIds
<1> QED
  BY <1>3, <1>4, <1>5, <1>6, <1>7, <1>8, <1>9, <1>10 DEF Inv, NothingLost

-----------------------------------------------------------------------------

(* LRUReplacer::victim takes a frame out of the list ... *)
LEMMA VictimFacts ==
  ASSUME NEW S, NEW s \in Seq(S), HasLruVictim(s), IsInjective(s)
  PROVE  /\ LruVictim(s) \in S
         /\ LruVictim(s) \in Range(s)
         /\ AfterLruVictim(s) \in Seq(S)
         /\ IsInjective(AfterLruVictim(s))
         /\ Range(AfterLruVictim(s)) = Range(s) \ {LruVictim(s)}
         /\ KeepsOrder(AfterLruVictim(s), s)
BY FrontFacts DEF HasLruVictim, LruVictim, AfterLruVictim

(* ... pin takes the given one out ... *)
LEMMA PinFacts ==
  ASSUME NEW S, NEW s \in Seq(S), IsInjective(s), NEW x
  PROVE  /\ LruPin(s, x) \in Seq(S)
         /\ IsInjective(LruPin(s, x))
         /\ Range(LruPin(s, x)) = Range(s) \ {x}
         /\ KeepsOrder(LruPin(s, x), s)
<1>1. CASE InLru(s, x)
  <2>1. LruHash(s, x) \in DOMAIN s /\ s[LruHash(s, x)] = x
    BY <1>1 DEF InLru, LruHash, Range
  <2>2. LruHash(s, x) \in 1 .. Len(s)
    BY <2>1
  <2> QED
    BY <1>1, <2>1, <2>2, WithoutFacts DEF LruPin, Without
<1>2. CASE ~ InLru(s, x)
  BY <1>2 DEF LruPin, InLru, KeepsOrder
<1> QED
  BY <1>1, <1>2

(* ... and unpin puts it back, unless it is there. *)
LEMMA UnpinFacts ==
  ASSUME NEW S, NEW s \in Seq(S), IsInjective(s), NEW x \in S
  PROVE  /\ LruUnpin(s, x) \in Seq(S)
         /\ IsInjective(LruUnpin(s, x))
         /\ Range(LruUnpin(s, x)) = Range(s) \cup {x}
<1>1. CASE InLru(s, x)
  BY <1>1 DEF LruUnpin, InLru
<1>2. CASE ~ InLru(s, x)
  BY <1>2, PrependFacts DEF LruUnpin, InLru
<1> QED
  BY <1>1, <1>2

-----------------------------------------------------------------------------

(* A page that is in the pool has a frame of its own, which is not free.   *)
LEMMA MappedFacts ==
  ASSUME Inv, NEW p \in PageIds, Mapped(p)
  PROVE  /\ page_table[p] \in Frames
         /\ FrameOf(p) \in Page
         /\ FrameOf(p).id = p
         /\ FrameOf(p).id # NoPage
         /\ page_table[p] \notin Range(free_list)
         /\ FrameOf(p).pin = Cardinality(Holders(p))
         /\ \A q \in PageIds : page_table[q] = page_table[p] => q = p
<1>1. page_table[p] \in Frames /\ FrameOf(p) \in Page
  BY DEF Inv, TypeInvariant, Mapped, FrameOf
<1>2. FrameOf(p).id = p /\ FrameOf(p).id # NoPage
  BY Constants DEF Inv, PageTableMatchesFrames
<1>3. page_table[p] \notin Range(free_list)
  BY <1>1, <1>2 DEF Inv, PageTableMatchesFrames, FrameOf, EmptyPage
<1>4. FrameOf(p).pin = Cardinality(Holders(p))
  BY <1>1, <1>2 DEF Inv, PinsMatchHolders, FrameOf
<1>5. \A q \in PageIds : page_table[q] = page_table[p] => q = p
  BY <1>2 DEF Inv, PageTableMatchesFrames, Mapped, FrameOf
<1> QED
  BY <1>1, <1>2, <1>3, <1>4, <1>5

(* Pinning and unpinning change the number of holders by one.              *)
LEMMA HoldersFacts ==
  ASSUME NEW p \in PageIds
  PROVE  /\ IsFiniteSet(Holders(p))
         /\ Cardinality(Holders(p)) \in Nat
         /\ \A c \in Clients \ Holders(p) :
              Cardinality(Holders(p) \cup {c}) = Cardinality(Holders(p)) + 1
         /\ \A c \in Holders(p) :
              /\ Cardinality(Holders(p) \ {c}) = Cardinality(Holders(p)) - 1
              /\ Cardinality(Holders(p)) > 0
<1>1. IsFiniteSet(Holders(p))
  <2>1. Holders(p) \subseteq Clients
    BY DEF Holders
  <2> QED
    BY <2>1, PoolAssumption, FS_Subset
<1>2. Cardinality(Holders(p)) \in Nat
  BY <1>1, FS_CardinalityType
<1>3. \A c \in Clients \ Holders(p) :
         Cardinality(Holders(p) \cup {c}) = Cardinality(Holders(p)) + 1
  BY <1>1, FS_AddElement, Zenon
<1>4. ASSUME NEW c \in Holders(p)
      PROVE  /\ Cardinality(Holders(p) \ {c}) = Cardinality(Holders(p)) - 1
             /\ Cardinality(Holders(p)) > 0
  <2>1. Cardinality(Holders(p) \ {c}) = Cardinality(Holders(p)) - 1
    BY <1>1, FS_RemoveElement
  <2>2. Cardinality(Holders(p)) # 0
    BY <1>1, FS_EmptySet
  <2> QED
    BY <1>2, <2>1, <2>2
<1> QED
  BY <1>1, <1>2, <1>3, <1>4

(* fetch_page of a page in the pool. *)
LEMMA FetchHitInv ==
  ASSUME Inv, NEW c \in Clients, NEW p \in PageIds, FetchHit(c, p)
  PROVE  Inv' /\ (NothingLost => NothingLost')
<1> DEFINE f == page_table[p]
<1> USE DEF FetchHit
<1>0. /\ f \in Frames
      /\ pages[f] \in Page
      /\ pages[f].id = p
      /\ f \notin Range(free_list)
      /\ pages[f].pin = Cardinality(Holders(p))
  BY MappedFacts DEF FrameOf
<1>t. TypeInvariant
  BY DEF Inv
<1>1. /\ lru' \in Seq(Frames)
      /\ IsInjective(lru')
      /\ Range(lru') = Range(lru) \ {f}
  BY PinFacts DEF Inv, TypeInvariant, NoFrameTwice
<1>2. /\ pages' = [pages EXCEPT ![f] = [pages[f] EXCEPT !.pin = pages[f].pin + 1]]
      /\ [pages[f] EXCEPT !.pin = pages[f].pin + 1] \in Page
  BY <1>0 DEF Page
<1>3. /\ \A g \in Frames \ {f} : pages'[g] = pages[g]
      /\ pages'[f] = [pages[f] EXCEPT !.pin = pages[f].pin + 1]
  BY <1>0, <1>2, <1>t DEF TypeInvariant
<1>4. TypeInvariant'
  <2>1. pages' \in [Frames -> Page]
    BY <1>2, <1>t, Zenon DEF TypeInvariant
  <2>2. held' \in [Clients -> [PageIds -> Frames \cup {NoFrame}]]
    BY <1>0, <1>t DEF TypeInvariant
  <2> QED
    BY <1>1, <1>t, <2>1, <2>2 DEF TypeInvariant
<1>5. /\ \A d \in Clients, q \in PageIds :
           held'[d][q] = IF d = c /\ q = p THEN f ELSE held[d][q]
      /\ held[c][p] = NoFrame
  BY <1>t DEF TypeInvariant
<1>6. PointersStayValid'
  <2>1. PointersStayValid
    BY DEF Inv
  <2>2. \A g \in Frames : pages'[g].id = pages[g].id
    BY <1>0, <1>3 DEF Page
  <2> QED
    BY <1>0, <1>5, <1>t, <2>1, <2>2 DEF PointersStayValid, TypeInvariant
<1>7. PinsMatchHolders'
  <2>1. Holders(p)' = Holders(p) \cup {c} /\ c \in Clients \ Holders(p)
    BY <1>0, <1>5, Constants DEF Holders
  <2>2. \A q \in PageIds \ {p} : Holders(q)' = Holders(q)
    BY <1>5 DEF Holders
  <2>3. ASSUME NEW g \in Frames \ {f}
        PROVE  /\ pages'[g] = pages[g]
               /\ pages[g].id # NoPage => pages[g].id \in PageIds \ {p}
    <3>1. pages[g].id # p
      BY <1>0 DEF Inv, PageTableMatchesFrames, EmptyPage
    <3>2. pages[g].id \in PageIds \cup {NoPage}
      BY <1>t DEF TypeInvariant, Page
    <3> QED
      BY <1>3, <3>1, <3>2
  <2>4. pages'[f].pin = Cardinality(Holders(p)') /\ pages'[f].id = p /\ p # NoPage
    BY <1>0, <1>3, <2>1, HoldersFacts, Constants DEF Page
  <2>5. PinsMatchHolders
    BY DEF Inv
  <2> QED
    BY <2>2, <2>3, <2>4, <2>5 DEF PinsMatchHolders
<1>8. PinnedFramesAreNoVictims' /\ (VictimsAreUnpinned => VictimsAreUnpinned')
  <2>1. pages'[f].pin > 0
    BY <1>0, <1>3, <1>2 DEF Page
  <2>2. \A g \in Frames \ {f} : pages'[g].pin = pages[g].pin
    BY <1>3
  <2> QED
    BY <1>0, <1>1, <2>1, <2>2 DEF PinnedFramesAreNoVictims, VictimsAreUnpinned, Inv
<1>9. NoFrameTwice'
  BY <1>1 DEF NoFrameTwice, Inv
<1>10. PageTableMatchesFrames'
  <2>1. \A g \in Frames : pages'[g].id = pages[g].id
    BY <1>0, <1>3 DEF Page
  <2> QED
    BY <1>0, <1>3, <1>t, <2>1 DEF PageTableMatchesFrames, Mapped, FrameOf, Inv, TypeInvariant
<1>11. NoLostUpdate'
  <2>1. \A g \in Frames : pages'[g].data = pages[g].data /\ pages'[g].dirty = pages[g].dirty
    BY <1>0, <1>3 DEF Page
  <2>2. NoLostUpdate
    BY DEF Inv
  <2> QED
    BY <1>0, <1>5, <1>t, <2>1, <2>2, Constants DEF NoLostUpdate, Mapped, FrameOf, TypeInvariant
<1>12. NewPagesAreUnused' /\ (NoPageLost => NoPageLost')
  BY DEF NewPagesAreUnused, NoPageLost, Allocated, Mapped, Readable, Inv
<1> QED
  BY <1>4, <1>6, <1>7, <1>8, <1>9, <1>10, <1>11, <1>12
  DEF Inv, NothingLost

(* A client stores into a page through the pointer it holds. *)
LEMMA WritePageInv ==
  ASSUME Inv, NEW c \in Clients, NEW p \in PageIds, NEW v \in Values,
         WritePage(c, p, v)
  PROVE  Inv' /\ (NothingLost => NothingLost')
<1> DEFINE f == page_table[p]
<1> USE DEF WritePage
<1>t. TypeInvariant
  BY DEF Inv
<1>h. held[c][p] = f /\ Mapped(p)
  BY DEF Inv, PointersStayValid, Mapped
<1>0. /\ f \in Frames
      /\ pages[f] \in Page
      /\ pages[f].id = p
      /\ f \notin Range(free_list)
  BY <1>h, MappedFacts DEF FrameOf
<1>1. /\ pages' = [pages EXCEPT ![f] = [pages[f] EXCEPT !.data = v]]
      /\ [pages[f] EXCEPT !.data = v] \in Page
  BY <1>0, <1>h DEF Page, Data
<1>2. /\ \A g \in Frames \ {f} : pages'[g] = pages[g]
      /\ pages'[f] = [pages[f] EXCEPT !.data = v]
  BY <1>0, <1>1, <1>t DEF TypeInvariant
<1>3. \A g \in Frames : /\ pages'[g].id = pages[g].id
                        /\ pages'[g].pin = pages[g].pin
                        /\ pages'[g].dirty = pages[g].dirty
  BY <1>0, <1>2 DEF Page
<1>4. TypeInvariant'
  <2>1. pages' \in [Frames -> Page]
    BY <1>1, <1>t, Zenon DEF TypeInvariant
  <2>2. wrote' \in [Clients -> SUBSET PageIds]
    BY <1>t DEF TypeInvariant
  <2> QED
    BY <1>t, <2>1, <2>2 DEF TypeInvariant
<1>5. PointersStayValid'
  BY <1>3, <1>t DEF PointersStayValid, Inv, TypeInvariant
<1>6. PinsMatchHolders'
  <2>1. \A q \in PageIds : Holders(q)' = Holders(q)
    BY DEF Holders
  <2>2. \A g \in Frames : pages[g].id \in PageIds \cup {NoPage}
    BY <1>t DEF TypeInvariant, Page
  <2> QED
    BY <1>3, <2>1, <2>2 DEF PinsMatchHolders, Inv
<1>7. PinnedFramesAreNoVictims' /\ (VictimsAreUnpinned => VictimsAreUnpinned') /\ NoFrameTwice'
  BY <1>3 DEF PinnedFramesAreNoVictims, VictimsAreUnpinned, NoFrameTwice, Inv
<1>8. PageTableMatchesFrames'
  <2>1. ASSUME NEW q \in PageIds, Mapped(q)
        PROVE  FrameOf(q)'.id = q
    <3>1. page_table[q] \in Frames /\ pages[page_table[q]].id = q
      BY <2>1, <1>t DEF Inv, PageTableMatchesFrames, Mapped, FrameOf, TypeInvariant
    <3> QED
      BY <3>1, <1>3 DEF FrameOf
  <2>2. ASSUME NEW g \in Frames
        PROVE  IF g \in Range(free_list) THEN pages'[g] = EmptyPage
               ELSE pages'[g].id # NoPage /\ page_table[pages'[g].id] = g
    BY <1>0, <1>2, <1>3 DEF Inv, PageTableMatchesFrames
  <2> QED
    BY <2>1, <2>2 DEF PageTableMatchesFrames, Mapped
<1>9. NoLostUpdate'
  <2>1. \A q \in PageIds \ {p} :
          Mapped(q) => page_table[q] \in Frames \ {f}
    BY <1>h, <1>t, MappedFacts DEF Mapped, TypeInvariant
  <2>2. p \in wrote'[c] /\ \A d \in Clients : wrote[d] \subseteq wrote'[d]
    BY <1>t DEF TypeInvariant
  <2>3. \A d \in Clients : wrote'[d] \subseteq {q \in PageIds : held'[d][q] # NoFrame}
    BY <1>t DEF Inv, NoLostUpdate, TypeInvariant
  <2>4. ASSUME NEW q \in PageIds, Mapped(q), pages'[page_table[q]].data # disk[q]
        PROVE  pages'[page_table[q]].dirty \/ \E d \in Clients : q \in wrote'[d]
    <3>1. CASE q = p
      BY <2>2, <3>1
    <3>2. CASE q # p
      <4>1. pages'[page_table[q]] = pages[page_table[q]]
        BY <1>2, <2>1, <2>4, <3>2
      <4>2. pages[page_table[q]].dirty \/ \E d \in Clients : q \in wrote[d]
        BY <2>4, <4>1, Zenon DEF Inv, NoLostUpdate, FrameOf
      <4> QED
        BY <2>2, <4>1, <4>2
    <3> QED
      BY <3>1, <3>2
  <2> QED
    BY <2>3, <2>4 DEF NoLostUpdate, Mapped, FrameOf
<1>10. NewPagesAreUnused' /\ (NoPageLost => NoPageLost')
  BY DEF NewPagesAreUnused, NoPageLost, Allocated, Mapped, Readable, Inv
<1> QED
  BY <1>4, <1>5, <1>6, <1>7, <1>8, <1>9, <1>10
  DEF Inv, NothingLost

(* Unpinning changes the pin count and the dirty flag of a frame.          *)
LEMMA UnpinnedPageFacts ==
  ASSUME NEW page \in Page, page.pin \in Nat \ {0}, NEW dirty \in BOOLEAN
  PROVE  /\ UnpinnedPage(page, dirty) \in Page
         /\ UnpinnedPage(page, dirty).pin = page.pin - 1
         /\ UnpinnedPage(page, dirty).dirty = IF dirty THEN TRUE ELSE page.dirty
         /\ UnpinnedPage(page, dirty).id = page.id
         /\ UnpinnedPage(page, dirty).data = page.data
<1> DEFINE flag == IF dirty THEN TRUE ELSE page.dirty
<1>0. page.dirty \in BOOLEAN /\ page.pin - 1 \in Nat
  BY DEF Page
<1>1. flag \in BOOLEAN
  BY <1>0, Zenon
<1>2. UnpinnedPage(page, dirty) = [page EXCEPT !.pin = page.pin - 1, !.dirty = flag]
  BY DEF UnpinnedPage
<1> HIDE DEF flag
<1>3. /\ UnpinnedPage(page, dirty) \in Page
      /\ UnpinnedPage(page, dirty).pin = page.pin - 1
      /\ UnpinnedPage(page, dirty).dirty = flag
      /\ UnpinnedPage(page, dirty).id = page.id
      /\ UnpinnedPage(page, dirty).data = page.data
  BY <1>0, <1>1, <1>2, Zenon DEF Page
<1> QED
  BY <1>3 DEF flag

(* unpin_page. *)
LEMMA UnpinPageInv ==
  ASSUME Inv, NEW c \in Clients, NEW p \in PageIds, NEW dirty \in BOOLEAN,
         UnpinPage(c, p, dirty)
  PROVE  Inv' /\ (NothingLost => NothingLost')
<1> DEFINE f == page_table[p]
           page == UnpinnedPage(pages[f], dirty)
<1>t. TypeInvariant
  BY DEF Inv
<1>a. /\ Mapped(p)
      /\ held[c][p] = f
      /\ p \in wrote[c] => dirty
      /\ pages' = [pages EXCEPT ![f] = page]
      /\ lru' = IF pages[f].pin = 1 THEN LruUnpin(lru, f) ELSE lru
      /\ held' = [held EXCEPT ![c][p] = NoFrame]
      /\ wrote' = [wrote EXCEPT ![c] = @ \ {p}]
      /\ UNCHANGED <<page_table, free_list, disk, fd2pageno>>
  BY DEF UnpinPage, Unpin, FrameOf, Inv, PointersStayValid
<1>0. /\ f \in Frames
      /\ pages[f] \in Page
      /\ pages[f].id = p
      /\ p # NoPage
      /\ f \notin Range(free_list)
      /\ pages[f].pin = Cardinality(Holders(p))
      /\ pages[f].pin \in Nat \ {0}
  BY <1>a, MappedFacts, Constants DEF FrameOf, Page, UnpinPage, Unpin
<1>1. /\ page \in Page
      /\ page.pin = pages[f].pin - 1
      /\ page.dirty = IF dirty THEN TRUE ELSE pages[f].dirty
      /\ page.id = pages[f].id
      /\ page.data = pages[f].data
  BY <1>0, UnpinnedPageFacts, Zenon
<1> HIDE DEF page
<1>2. /\ \A g \in Frames \ {f} : pages'[g] = pages[g]
      /\ pages'[f] = page
  BY <1>0, <1>a, <1>t DEF TypeInvariant
<1>3. /\ pages'[f].pin = pages[f].pin - 1
      /\ pages'[f].dirty = IF dirty THEN TRUE ELSE pages[f].dirty
      /\ pages'[f].id = pages[f].id
      /\ pages'[f].data = pages[f].data
  BY <1>1, <1>2, Zenon
<1>4. /\ lru' \in Seq(Frames)
      /\ IsInjective(lru')
      /\ Range(lru') = IF pages[f].pin = 1 THEN Range(lru) \cup {f} ELSE Range(lru)
  <2>1. lru \in Seq(Frames) /\ IsInjective(lru)
    BY DEF Inv, TypeInvariant, NoFrameTwice
  <2>2. CASE pages[f].pin = 1
    BY <1>0, <1>a, <2>1, <2>2, UnpinFacts
  <2>3. CASE pages[f].pin # 1
    BY <1>a, <2>1, <2>3
  <2> QED
    BY <2>2, <2>3
<1>5. TypeInvariant'
  <2>1. pages' \in [Frames -> Page]
    BY <1>1, <1>a, <1>t, Zenon DEF TypeInvariant
  <2>2. wrote' \in [Clients -> SUBSET PageIds]
    BY <1>a, <1>0, <1>t DEF TypeInvariant
  <2>3. held' \in [Clients -> [PageIds -> Frames \cup {NoFrame}]]
    BY <1>a, <1>0, <1>t DEF TypeInvariant
  <2> QED
    BY <1>a, <1>t, <1>4, <2>1, <2>2, <2>3 DEF TypeInvariant
<1>6. /\ \A d \in Clients, q \in PageIds :
           held'[d][q] = IF d = c /\ q = p THEN NoFrame ELSE held[d][q]
      /\ \A d \in Clients : wrote'[d] = IF d = c THEN wrote[d] \ {p} ELSE wrote[d]
  BY <1>a, <1>t, Zenon DEF TypeInvariant
<1>7. PointersStayValid'
  <2>1. \A g \in Frames : pages'[g].id = pages[g].id
    BY <1>2, <1>3
  <2> QED
    BY <1>6, <1>a, <1>t, <2>1 DEF PointersStayValid, Inv, TypeInvariant
<1>8. PinsMatchHolders'
  <2>1. Holders(p)' = Holders(p) \ {c} /\ c \in Holders(p)
    BY <1>0, <1>6, <1>a, Constants DEF Holders
  <2>2. \A q \in PageIds \ {p} : Holders(q)' = Holders(q)
    BY <1>6 DEF Holders
  <2>3. ASSUME NEW g \in Frames \ {f}
        PROVE  /\ pages'[g] = pages[g]
               /\ pages[g].id # NoPage => pages[g].id \in PageIds \ {p}
    <3>1. pages[g].id # p
      BY <1>0 DEF Inv, PageTableMatchesFrames, EmptyPage
    <3>2. pages[g].id \in PageIds \cup {NoPage}
      BY <1>t DEF TypeInvariant, Page
    <3> QED
      BY <1>2, <3>1, <3>2
  <2>4. pages'[f].pin = Cardinality(Holders(p)') /\ pages'[f].id = p /\ p # NoPage
    BY <1>0, <1>2, <1>3, <2>1, HoldersFacts
  <2>5. PinsMatchHolders
    BY DEF Inv
  <2> QED
    BY <2>2, <2>3, <2>4, <2>5 DEF PinsMatchHolders
<1>9. PinnedFramesAreNoVictims' /\ (VictimsAreUnpinned => VictimsAreUnpinned')
  <2>1. pages'[f].pin = 0 <=> pages[f].pin = 1
    BY <1>0, <1>2, <1>3
  <2>2. \A g \in Frames \ {f} : pages'[g].pin = pages[g].pin
    BY <1>2
  <2> QED
    BY <1>0, <1>4, <1>a, <2>1, <2>2 DEF PinnedFramesAreNoVictims, VictimsAreUnpinned, Inv
<1>10. NoFrameTwice'
  BY <1>4, <1>a DEF NoFrameTwice, Inv
<1>11. PageTableMatchesFrames'
  <2>1. \A g \in Frames : pages'[g].id = pages[g].id
    BY <1>2, <1>3
  <2> QED
    BY <1>0, <1>2, <1>a, <1>t, <2>1 DEF PageTableMatchesFrames, Mapped, FrameOf, Inv, TypeInvariant
<1>12. NoLostUpdate'
  <2>0. /\ \A d \in Clients : wrote[d] \subseteq {q \in PageIds : held[d][q] # NoFrame}
        /\ \A q \in PageIds :
             (Mapped(q) /\ pages[page_table[q]].data # disk[q]) =>
               pages[page_table[q]].dirty \/ \E d \in Clients : q \in wrote[d]
    BY DEF Inv, NoLostUpdate, FrameOf
  <2>1. ASSUME NEW d \in Clients, NEW q \in wrote'[d]
        PROVE  q \in PageIds /\ held'[d][q] # NoFrame
    <3>1. q \in wrote[d] /\ (d = c => q # p)
      BY <1>6, <2>1, Zenon
    <3>2. q \in PageIds /\ held[d][q] # NoFrame
      BY <2>0, <3>1
    <3>3. held'[d][q] = held[d][q]
      BY <1>6, <3>1, <3>2
    <3> QED
      BY <3>2, <3>3
  <2>2. ASSUME NEW q \in PageIds, Mapped(q), pages'[page_table[q]].data # disk[q]
        PROVE  pages'[page_table[q]].dirty \/ \E d \in Clients : q \in wrote'[d]
    <3>1. CASE q = p
      <4>1. pages[f].dirty \/ \E d \in Clients : p \in wrote[d]
        BY <1>3, <2>0, <2>2, <3>1
      <4>2. CASE dirty
        BY <1>3, <3>1, <4>2, Zenon
      <4>3. CASE ~ dirty
        BY <1>3, <1>6, <1>a, <3>1, <4>1, <4>3
      <4> QED
        BY <4>2, <4>3
    <3>2. CASE q # p
      <4>1. page_table[q] \in Frames \ {f}
        BY <1>a, <1>t, <2>2, <3>2, MappedFacts DEF Mapped, TypeInvariant
      <4>2. pages[page_table[q]].dirty \/ \E d \in Clients : q \in wrote[d]
        BY <1>2, <2>0, <2>2, <4>1
      <4> QED
        BY <1>2, <1>6, <3>2, <4>1, <4>2, Zenon
    <3> QED
      BY <3>1, <3>2
  <2> QED
    BY <1>a, <2>1, <2>2 DEF NoLostUpdate, Mapped, FrameOf
<1>13. NewPagesAreUnused' /\ (NoPageLost => NoPageLost')
  BY <1>a DEF NewPagesAreUnused, NoPageLost, Allocated, Mapped, Readable, Inv
<1> QED
  BY <1>5, <1>7, <1>8, <1>9, <1>10, <1>11, <1>12, <1>13
  DEF Inv, NothingLost

-----------------------------------------------------------------------------

(* write_page of an allocated page changes that page, and at most turns    *)
(* other allocated pages that were never written into holes.               *)
LEMMA WrittenFacts ==
  ASSUME Inv, NEW p \in PageIds, Allocated(p), NEW v \in Data
  PROVE  /\ Written(disk, p, v) \in [PageIds -> Data \cup {Absent}]
         /\ Written(disk, p, v)[p] = v
         /\ \A q \in PageIds \ {p} :
              /\ Readable(disk, q) => Written(disk, p, v)[q] = disk[q]
              /\ Written(disk, p, v)[q] # disk[q] =>
                   disk[q] = Absent /\ Allocated(q) /\ Written(disk, p, v)[q] = Zero
         /\ \A q \in PageIds : Readable(disk, q) => Readable(Written(disk, p, v), q)
         /\ \A q \in PageIds : ~ Allocated(q) => ~ Readable(Written(disk, p, v), q)
<1> DEFINE D == Written(disk, p, v)
<1>t. TypeInvariant
  BY DEF Inv
<1>1. D \in [PageIds -> Data \cup {Absent}]
  BY <1>t, Constants DEF Written, TypeInvariant
<1>2. D[p] = v
  BY DEF Written
<1>3. ASSUME NEW q \in PageIds \ {p}
      PROVE  /\ disk[q] # Absent => D[q] = disk[q]
             /\ D[q] # disk[q] => /\ disk[q] = Absent /\ D[q] = Zero
                                   /\ q.fd = p.fd /\ q.page_no < p.page_no
  BY DEF Written
<1>4. ASSUME NEW q \in PageIds \ {p}, q.fd = p.fd, q.page_no < p.page_no
      PROVE  Allocated(q)
  <2>1. p.page_no \in Int /\ q.page_no \in Int /\ fd2pageno[p.fd] \in Int
    BY <1>t, PoolAssumption DEF PageIds, TypeInvariant
  <2> QED
    BY <1>4, <2>1 DEF Allocated
<1>5. \A q \in PageIds : Readable(disk, q) => Readable(D, q)
  BY <1>2, <1>3, Constants DEF Readable
<1>6. \A q \in PageIds : ~ Allocated(q) => ~ Readable(D, q)
  <2>1. \A q \in PageIds : ~ Allocated(q) => ~ Readable(disk, q)
    BY DEF Inv, NewPagesAreUnused
  <2> QED
    BY <1>3, <1>4, <2>1 DEF Readable
<1> QED
  BY <1>1, <1>2, <1>3, <1>4, <1>5, <1>6 DEF Readable

(* flush_page. *)
LEMMA FlushPageInv ==
  ASSUME Inv, NEW p \in PageIds, FlushPage(p)
  PROVE  Inv' /\ (NothingLost => NothingLost')
<1> DEFINE f == page_table[p]
<1>t. TypeInvariant
  BY DEF Inv
<1>a. /\ Mapped(p)
      /\ disk' = Written(disk, p, pages[f].data)
      /\ pages' = [pages EXCEPT ![f].dirty = FALSE]
      /\ UNCHANGED <<page_table, free_list, lru, fd2pageno, held, wrote>>
  BY DEF FlushPage, FrameOf
<1>0. /\ f \in Frames
      /\ pages[f] \in Page
      /\ pages[f].id = p
      /\ pages[f].data \in Data
      /\ f \notin Range(free_list)
      /\ Allocated(p)
  BY <1>a, MappedFacts DEF FrameOf, Page, Inv, NewPagesAreUnused
<1>1. /\ disk' \in [PageIds -> Data \cup {Absent}]
      /\ disk'[p] = pages[f].data
      /\ \A q \in PageIds \ {p} : disk'[q] # disk[q] => disk[q] = Absent
      /\ \A q \in PageIds : Readable(disk, q) => Readable(disk', q)
      /\ \A q \in PageIds : ~ Allocated(q) => ~ Readable(disk', q)
  BY <1>0, <1>a, WrittenFacts
<1>2. /\ pages' \in [Frames -> Page]
      /\ \A g \in Frames \ {f} : pages'[g] = pages[g]
      /\ \A g \in Frames : /\ pages'[g].id = pages[g].id
                           /\ pages'[g].pin = pages[g].pin
                           /\ pages'[g].data = pages[g].data
  BY <1>0, <1>a, <1>t, Zenon DEF TypeInvariant, Page
<1>3. TypeInvariant'
  BY <1>1, <1>2, <1>a, <1>t DEF TypeInvariant
<1>4. PointersStayValid'
  BY <1>2, <1>a, <1>t DEF PointersStayValid, Inv, TypeInvariant
<1>5. PinsMatchHolders'
  <2>1. \A q \in PageIds : Holders(q)' = Holders(q)
    BY <1>a DEF Holders
  <2>2. \A g \in Frames : pages[g].id \in PageIds \cup {NoPage}
    BY <1>t DEF TypeInvariant, Page
  <2> QED
    BY <1>2, <2>1, <2>2 DEF PinsMatchHolders, Inv
<1>6. PinnedFramesAreNoVictims' /\ (VictimsAreUnpinned => VictimsAreUnpinned') /\ NoFrameTwice'
  BY <1>2, <1>a DEF PinnedFramesAreNoVictims, VictimsAreUnpinned, NoFrameTwice, Inv
<1>7. PageTableMatchesFrames'
  BY <1>0, <1>2, <1>a, <1>t DEF PageTableMatchesFrames, Mapped, FrameOf, Inv, TypeInvariant
<1>8. NoLostUpdate'
  <2>1. ASSUME NEW q \in PageIds, Mapped(q), pages'[page_table[q]].data # disk'[q]
        PROVE  pages'[page_table[q]].dirty \/ \E d \in Clients : q \in wrote[d]
    <3>1. page_table[q] \in Frames /\ pages[page_table[q]] \in Page
      BY <2>1, MappedFacts DEF FrameOf
    <3>2. q # p
      BY <1>0, <1>1, <1>2, <2>1
    <3>3. page_table[q] \in Frames \ {f}
      BY <1>a, <3>1, <3>2, MappedFacts
    <3>4. pages[page_table[q]].data # disk[q]
      BY <1>1, <1>2, <2>1, <3>1, <3>2, Constants DEF Page
    <3>5. pages[page_table[q]].dirty \/ \E d \in Clients : q \in wrote[d]
      BY <2>1, <3>4 DEF Inv, NoLostUpdate, FrameOf
    <3> QED
      BY <1>2, <3>3, <3>5
  <2> QED
    BY <1>a, <2>1 DEF NoLostUpdate, Mapped, FrameOf, Inv
<1>9. NewPagesAreUnused' /\ (NoPageLost => NoPageLost')
  BY <1>1, <1>a DEF NewPagesAreUnused, NoPageLost, Allocated, Mapped, Inv
<1> QED
  BY <1>3, <1>4, <1>5, <1>6, <1>7, <1>8, <1>9
  DEF Inv, NothingLost

(* flush_all_pages writes the frames of one file and changes nothing else. *)
LEMMA FlushAllPagesInv ==
  ASSUME Inv, NEW fd \in Files, FlushAllPages(fd)
  PROVE  Inv' /\ (NothingLost => NothingLost')
<1>t. TypeInvariant
  BY DEF Inv
<1>a. UNCHANGED <<pages, page_table, free_list, lru, fd2pageno, held, wrote>>
  BY DEF FlushAllPages
<1>1. \A q \in PageIds :
        FramesWith(q) # {} => /\ FramesWith(q) = {page_table[q]}
                              /\ page_table[q] \in Frames
                              /\ LastFrameWith(q) = page_table[q]
                              /\ Mapped(q)
  <2> SUFFICES ASSUME NEW q \in PageIds, NEW g \in FramesWith(q)
               PROVE  /\ FramesWith(q) = {page_table[q]}
                      /\ page_table[q] \in Frames
                      /\ LastFrameWith(q) = page_table[q]
                      /\ Mapped(q)
    OBVIOUS
  <2>1. \A h \in FramesWith(q) : page_table[q] = h /\ h \in Frames
    BY Constants DEF FramesWith, Inv, PageTableMatchesFrames, EmptyPage
  <2>2. FramesWith(q) = {page_table[q]} /\ page_table[q] \in Frames
    BY <2>1
  <2>3. LastFrameWith(q) = page_table[q]
    BY <2>2, PoolAssumption DEF LastFrameWith, Frames
  <2>4. Mapped(q)
    BY <2>2, Constants DEF Mapped
  <2> QED
    BY <2>2, <2>3, <2>4
<1>2. ASSUME NEW q \in PageIds
      PROVE  \/ Mapped(q) /\ disk'[q] = FrameOf(q).data /\ FrameOf(q).data \in Data
             \/ disk[q] = Absent /\ disk'[q] = Zero /\ Allocated(q)
             \/ disk'[q] = disk[q]
  <2>0. disk'[q] = IF q.fd = fd /\ FramesWith(q) # {} THEN pages[LastFrameWith(q)].data
                   ELSE IF q.fd = fd /\ disk[q] = Absent /\ BelowAFlushed(q) THEN Zero
                   ELSE disk[q]
    BY DEF FlushAllPages, Flushed
  <2>1. CASE q.fd = fd /\ FramesWith(q) # {}
    BY <1>1, <1>t, <2>0, <2>1 DEF FrameOf, TypeInvariant, Page
  <2>2. CASE q.fd = fd /\ disk[q] = Absent /\ BelowAFlushed(q) /\ FramesWith(q) = {}
    <3>1. PICK g \in Frames : /\ pages[g].id # NoPage
                              /\ pages[g].id.fd = q.fd
                              /\ q.page_no < pages[g].id.page_no
      BY <2>2 DEF BelowAFlushed
    <3>2. /\ pages[g].id \in PageIds
          /\ page_table[pages[g].id] = g
      BY <3>1, FrameFacts
    <3>3. Allocated(pages[g].id)
      BY <3>2, Constants DEF Inv, NewPagesAreUnused, Mapped
    <3>4. /\ pages[g].id.page_no \in Int
          /\ q.page_no \in Int
          /\ fd2pageno[q.fd] \in Int
      BY <1>t, <3>2, PoolAssumption DEF TypeInvariant, PageIds
    <3>5. Allocated(q)
      BY <3>1, <3>3, <3>4 DEF Allocated
    <3> QED
      BY <2>0, <2>2, <3>5
  <2> QED
    BY <2>0, <2>1, <2>2
<1>3. disk' \in [PageIds -> Data \cup {Absent}]
  <2>1. disk' = [q \in PageIds |-> disk'[q]]
    BY DEF FlushAllPages, Flushed
  <2>2. \A q \in PageIds : disk'[q] \in Data \cup {Absent}
    BY <1>2, <1>t, Constants DEF TypeInvariant
  <2> QED
    BY <2>1, <2>2
<1>4. TypeInvariant'
  BY <1>3, <1>a, <1>t DEF TypeInvariant
<1>5. PointersStayValid' /\ NoFrameTwice'
  BY <1>a DEF PointersStayValid, NoFrameTwice, Inv
<1>v. PinnedFramesAreNoVictims' /\ (VictimsAreUnpinned => VictimsAreUnpinned')
  BY <1>a DEF PinnedFramesAreNoVictims, VictimsAreUnpinned, Inv
<1>6. PinsMatchHolders'
  BY <1>a DEF PinsMatchHolders, Holders, Inv
<1>7. PageTableMatchesFrames'
  BY <1>a DEF PageTableMatchesFrames, Mapped, FrameOf, Inv
<1>8. NoLostUpdate'
  <2>1. ASSUME NEW q \in PageIds, Mapped(q), FrameOf(q).data # disk'[q]
        PROVE  FrameOf(q).data # disk[q]
    <3>1. FrameOf(q).data # Absent
      BY <2>1, MappedFacts, Constants DEF Page
    <3> QED
      BY <1>2, <2>1, <3>1
  <2> QED
    BY <1>a, <2>1 DEF NoLostUpdate, Mapped, FrameOf, Inv
<1>9. NewPagesAreUnused' /\ (NoPageLost => NoPageLost')
  BY <1>2, <1>a, Constants DEF NewPagesAreUnused, NoPageLost, Allocated, Mapped, Readable, Inv
<1> QED
  BY <1>4, <1>5, <1>6, <1>7, <1>8, <1>9, <1>v
  DEF Inv, NothingLost

\* The disk D has the content of page p, and the other pages as they were.
WrittenBack(D, p) ==
  /\ D \in [PageIds -> Data \cup {Absent}]
  /\ D[p] = FrameOf(p).data
  /\ D[p] \in Data
  /\ \A q \in PageIds \ {p} :
       /\ Readable(disk, q) => D[q] = disk[q]
       /\ D[q] # disk[q] => disk[q] = Absent /\ Allocated(q) /\ D[q] = Zero
  /\ \A q \in PageIds : Readable(disk, q) => Readable(D, q)
  /\ \A q \in PageIds : ~ Allocated(q) => ~ Readable(D, q)
  /\ \A c \in Clients : held[c][p] = NoFrame /\ p \notin wrote[c]

(* When a page that nobody has pinned leaves the pool, the write-back of a *)
(* dirty frame leaves its content on disk; a clean frame's is there        *)
(* already.  The other pages do not lose anything.                         *)
LEMMA WriteBackFacts ==
  ASSUME Inv, NEW p \in PageIds, Mapped(p), FrameOf(p).pin = 0,
         NEW D, D = IF FrameOf(p).dirty THEN Written(disk, p, FrameOf(p).data) ELSE disk
  PROVE  WrittenBack(D, p)
<1>1. FrameOf(p).data \in Data /\ Allocated(p)
  BY MappedFacts DEF Page, Inv, NewPagesAreUnused
<1>2. Holders(p) = {}
  <2>1. IsFiniteSet(Holders(p)) /\ Cardinality(Holders(p)) = 0
    BY MappedFacts, HoldersFacts
  <2> QED
    BY <2>1, FS_EmptySet
<1>3. \A c \in Clients : held[c][p] = NoFrame /\ p \notin wrote[c]
  BY <1>2 DEF Holders, Inv, NoLostUpdate
<1>4. CASE FrameOf(p).dirty
  <2>1. D = Written(disk, p, FrameOf(p).data)
    BY <1>4
  <2>2. /\ D \in [PageIds -> Data \cup {Absent}]
        /\ D[p] = FrameOf(p).data
        /\ \A q \in PageIds \ {p} :
             /\ Readable(disk, q) => D[q] = disk[q]
             /\ D[q] # disk[q] => disk[q] = Absent /\ Allocated(q) /\ D[q] = Zero
        /\ \A q \in PageIds : Readable(disk, q) => Readable(D, q)
        /\ \A q \in PageIds : ~ Allocated(q) => ~ Readable(D, q)
    BY <1>1, <2>1, WrittenFacts
  <2> QED
    BY <1>1, <1>3, <2>2 DEF WrittenBack
<1>5. CASE ~ FrameOf(p).dirty
  <2>1. D = disk /\ disk[p] = FrameOf(p).data
    BY <1>3, <1>5 DEF Inv, NoLostUpdate
  <2>2. disk \in [PageIds -> Data \cup {Absent}]
    BY DEF Inv, TypeInvariant
  <2>3. \A q \in PageIds : ~ Allocated(q) => ~ Readable(disk, q)
    BY DEF Inv, NewPagesAreUnused
  <2> QED
    BY <1>1, <1>3, <2>1, <2>2, <2>3 DEF WrittenBack
<1> QED
  BY <1>4, <1>5

(* delete_page. *)
LEMMA DeletePageInv ==
  ASSUME Inv, NEW p \in PageIds, DeletePage(p)
  PROVE  Inv' /\ (NothingLost => NothingLost')
<1> DEFINE f == page_table[p]
<1>t. TypeInvariant
  BY DEF Inv
<1>a. /\ Mapped(p)
      /\ FrameOf(p).pin = 0
      /\ disk' = IF FrameOf(p).dirty THEN Written(disk, p, FrameOf(p).data) ELSE disk
      /\ pages' = [pages EXCEPT ![f] = EmptyPage]
      /\ free_list' = Append(free_list, f)
      /\ page_table' = [page_table EXCEPT ![p] = NoFrame]
      /\ UNCHANGED <<lru, fd2pageno, held, wrote>>
  BY DEF DeletePage, DiskAfterDelete, PageTableAfterDelete
<1>0. /\ f \in Frames
      /\ pages[f].id = p
      /\ pages[f].pin = 0
      /\ f \notin Range(free_list)
  BY <1>a, MappedFacts DEF FrameOf
<1>1. /\ disk' \in [PageIds -> Data \cup {Absent}]
      /\ disk'[p] \in Data
      /\ \A q \in PageIds \ {p} : disk'[q] # disk[q] => disk[q] = Absent
      /\ \A q \in PageIds : Readable(disk, q) => Readable(disk', q)
      /\ \A q \in PageIds : ~ Allocated(q) => ~ Readable(disk', q)
      /\ \A c \in Clients : held[c][p] = NoFrame /\ p \notin wrote[c]
  <2>1. WrittenBack(disk', p)
    BY <1>a, WriteBackFacts
  <2> QED
    BY <2>1 DEF WrittenBack
<1>2. /\ free_list' \in Seq(Frames)
      /\ IsInjective(free_list')
      /\ Range(free_list') = Range(free_list) \cup {f}
  BY <1>0, <1>a, <1>t, AppendFacts DEF TypeInvariant, Inv, NoFrameTwice
<1>3. /\ pages' \in [Frames -> Page]
      /\ pages'[f] = EmptyPage
      /\ \A g \in Frames \ {f} : pages'[g] = pages[g] /\ pages[g].id # p
      /\ page_table' \in [PageIds -> Frames \cup {NoFrame}]
      /\ page_table'[p] = NoFrame
      /\ \A q \in PageIds \ {p} : page_table'[q] = page_table[q] /\ page_table[q] # f
  <2>1. \A g \in Frames \ {f} : pages[g].id # p
    <3>1. \A g \in Frames : pages[g] = EmptyPage \/ page_table[pages[g].id] = g
      BY DEF Inv, PageTableMatchesFrames
    <3>2. EmptyPage.id = NoPage /\ p # NoPage
      BY Constants DEF EmptyPage
    <3> QED
      BY <3>1, <3>2
  <2>2. \A q \in PageIds \ {p} : page_table[q] # f
    BY <1>a, MappedFacts
  <2> QED
    BY <1>0, <1>a, <1>t, <2>1, <2>2, Constants DEF TypeInvariant
<1>4. TypeInvariant'
  BY <1>1, <1>2, <1>3, <1>a, <1>t DEF TypeInvariant
<1>5. PointersStayValid'
  <2>1. ASSUME NEW c \in Clients, NEW q \in PageIds, held[c][q] # NoFrame
        PROVE  page_table'[q] = held[c][q] /\ pages'[held[c][q]].id = q
    <3>1. page_table[q] = held[c][q] /\ pages[held[c][q]].id = q /\ held[c][q] \in Frames
      BY <1>t, <2>1 DEF Inv, PointersStayValid, TypeInvariant
    <3>2. q # p
      BY <1>1, <2>1
    <3> QED
      BY <1>3, <3>1, <3>2
  <2> QED
    <3>1. held' = held
      BY <1>a
    <3> QED
      BY <2>1, <3>1 DEF PointersStayValid
<1>6. PinsMatchHolders'
  <2>1. \A q \in PageIds : Holders(q)' = Holders(q)
    BY <1>a DEF Holders
  <2>2. \A g \in Frames : pages[g].id \in PageIds \cup {NoPage}
    BY <1>t DEF TypeInvariant, Page
  <2>3. pages'[f].id = NoPage /\ pages'[f].pin = 0
    <3>1. pages'[f] = EmptyPage
      BY <1>3
    <3> QED
      BY <3>1, EmptyPageFacts
  <2>4. PinsMatchHolders
    BY DEF Inv
  <2> QED
    BY <1>3, <2>1, <2>2, <2>3, <2>4 DEF PinsMatchHolders
<1>7. PinnedFramesAreNoVictims' /\ (VictimsAreUnpinned => VictimsAreUnpinned')
  <2>1. pages'[f].pin = 0
    <3>1. pages'[f] = EmptyPage
      BY <1>3
    <3> QED
      BY <3>1, EmptyPageFacts
  <2> QED
    BY <1>0, <1>2, <1>3, <1>a, <2>1 DEF PinnedFramesAreNoVictims, VictimsAreUnpinned, Inv
<1>8. NoFrameTwice'
  BY <1>2, <1>a DEF NoFrameTwice, Inv
<1>9. PageTableMatchesFrames'
  <2>1. ASSUME NEW q \in PageIds, page_table'[q] # NoFrame
        PROVE  pages'[page_table'[q]].id = q
    BY <1>3, <1>t, <2>1 DEF Inv, PageTableMatchesFrames, Mapped, FrameOf, TypeInvariant
  <2>2. ASSUME NEW g \in Frames
        PROVE  IF g \in Range(free_list') THEN pages'[g] = EmptyPage
               ELSE pages'[g].id # NoPage /\ page_table'[pages'[g].id] = g
    <3>1. CASE g = f
      BY <1>2, <1>3, <3>1
    <3>2. CASE g # f
      <4>1. /\ g \in Range(free_list') <=> g \in Range(free_list)
            /\ pages'[g] = pages[g] /\ pages[g].id # p
            /\ pages[g].id \in PageIds \cup {NoPage}
        BY <1>2, <1>3, <1>t, <3>2 DEF TypeInvariant, Page
      <4> QED
        <5>1. pages[g].id # NoPage => page_table'[pages[g].id] = page_table[pages[g].id]
          BY <1>3, <4>1
        <5>2. IF g \in Range(free_list) THEN pages[g] = EmptyPage
              ELSE pages[g].id # NoPage /\ page_table[pages[g].id] = g
          BY DEF Inv, PageTableMatchesFrames
        <5> QED
          BY <4>1, <5>1, <5>2
    <3> QED
      BY <3>1, <3>2
  <2> QED
    BY <2>1, <2>2 DEF PageTableMatchesFrames, Mapped, FrameOf
<1>10. NoLostUpdate'
  <2>1. ASSUME NEW q \in PageIds, page_table'[q] # NoFrame,
               pages'[page_table'[q]].data # disk'[q]
        PROVE  pages'[page_table'[q]].dirty \/ \E d \in Clients : q \in wrote[d]
    <3>1. q # p /\ page_table'[q] = page_table[q] /\ Mapped(q) /\ page_table[q] # f
      BY <1>3, <2>1 DEF Mapped
    <3>2. page_table[q] \in Frames /\ pages[page_table[q]] \in Page
      BY <3>1, MappedFacts DEF FrameOf
    <3>3. pages'[page_table[q]] = pages[page_table[q]]
      BY <1>3, <3>1, <3>2
    <3>4. pages[page_table[q]].data # disk[q]
      BY <1>1, <2>1, <3>1, <3>2, <3>3, Constants DEF Page
    <3> QED
      BY <3>1, <3>3, <3>4 DEF Inv, NoLostUpdate, FrameOf
  <2> QED
    BY <1>a, <2>1 DEF NoLostUpdate, Mapped, FrameOf, Inv
<1>11. NewPagesAreUnused' /\ (NoPageLost => NoPageLost')
  <2>1. Readable(disk', p) /\ Allocated(p)
    BY <1>1, <1>a, Constants DEF Readable, Inv, NewPagesAreUnused
  <2> QED
    <3>1. fd2pageno' = fd2pageno
      BY <1>a
    <3>2. \A q \in PageIds : Allocated(q)' <=> Allocated(q)
      BY <3>1 DEF Allocated
    <3>3. \A q \in PageIds \ {p} : Mapped(q)' <=> Mapped(q)
      BY <1>3 DEF Mapped
    <3>4. \A q \in PageIds : ~ Allocated(q)' => ~ Mapped(q)' /\ ~ Readable(disk', q)
      BY <1>1, <2>1, <3>2, <3>3 DEF Inv, NewPagesAreUnused
    <3>5. NoPageLost => \A q \in PageIds : Allocated(q)' => Mapped(q)' \/ Readable(disk', q)
      BY <1>1, <2>1, <3>2, <3>3 DEF NoPageLost
    <3> QED
      BY <3>4, <3>5 DEF NewPagesAreUnused, NoPageLost, Allocated, Mapped, Readable
<1> QED
  BY <1>4, <1>5, <1>6, <1>7, <1>8, <1>9, <1>10, <1>11
  DEF Inv, NothingLost

-----------------------------------------------------------------------------

(* find_victim_page finds a frame that nobody has pinned and takes it out  *)
(* of both lists; update_page leaves the page that was in it on disk.      *)
LEMMA VictimIsEvictable ==
  ASSUME Inv, HasVictim, NEW v, v = Victim
  PROVE  /\ v \in Frames
         /\ pages[v].pin = 0
         /\ \/ pages[v] = EmptyPage
            \/ /\ pages[v].id \in PageIds
               /\ page_table[pages[v].id] = v
               /\ v \notin Range(free_list)
         /\ FreeListAfterVictim \in Seq(Frames)
         /\ IsInjective(FreeListAfterVictim)
         /\ Range(FreeListAfterVictim) = Range(free_list) \ {v}
         /\ LruPin(LruAfterVictim, v) \in Seq(Frames)
         /\ IsInjective(LruPin(LruAfterVictim, v))
         /\ Range(LruPin(LruAfterVictim, v)) = Range(lru) \ {v}
<1>t. TypeInvariant /\ NoFrameTwice /\ PinnedFramesAreNoVictims
  BY DEF Inv
<1>1. CASE free_list = <<>>
  <2>1. /\ v = LruVictim(lru)
        /\ HasLruVictim(lru)
        /\ FreeListAfterVictim = free_list
        /\ LruAfterVictim = AfterLruVictim(lru)
    BY <1>1 DEF Victim, HasVictim, FreeListAfterVictim, LruAfterVictim
  <2>2. /\ v \in Frames /\ v \in Range(lru)
        /\ LruAfterVictim \in Seq(Frames)
        /\ IsInjective(LruAfterVictim)
        /\ Range(LruAfterVictim) = Range(lru) \ {v}
    <3>1. lru \in Seq(Frames) /\ IsInjective(lru)
      BY <1>t DEF TypeInvariant, NoFrameTwice
    <3> QED
      BY <2>1, <3>1, VictimFacts
  <2>3. /\ LruPin(LruAfterVictim, v) \in Seq(Frames)
        /\ IsInjective(LruPin(LruAfterVictim, v))
        /\ Range(LruPin(LruAfterVictim, v)) = Range(lru) \ {v}
    BY <2>2, PinFacts
  <2>4. Range(free_list) = {}
    BY <1>1 DEF Range
  <2>5. pages[v].pin = 0
    BY <1>t, <2>2 DEF PinnedFramesAreNoVictims
  <2>6. pages[v].id \in PageIds /\ page_table[pages[v].id] = v
    BY <1>t, <2>2, <2>4 DEF Inv, PageTableMatchesFrames, TypeInvariant, Page
  <2> QED
    BY <1>t, <2>1, <2>2, <2>3, <2>4, <2>5, <2>6 DEF TypeInvariant, NoFrameTwice
<1>2. CASE free_list # <<>>
  <2>1. /\ v = Head(free_list)
        /\ FreeListAfterVictim = Tail(free_list)
        /\ LruAfterVictim = lru
    BY <1>2 DEF Victim, FreeListAfterVictim, LruAfterVictim
  <2>2. /\ v \in Frames /\ v \in Range(free_list)
        /\ FreeListAfterVictim \in Seq(Frames)
        /\ IsInjective(FreeListAfterVictim)
        /\ Range(FreeListAfterVictim) = Range(free_list) \ {v}
    BY <1>2, <1>t, <2>1, TailFacts DEF TypeInvariant, NoFrameTwice
  <2>3. /\ LruPin(LruAfterVictim, v) \in Seq(Frames)
        /\ IsInjective(LruPin(LruAfterVictim, v))
        /\ Range(LruPin(LruAfterVictim, v)) = Range(lru) \ {v}
    <3>1. lru \in Seq(Frames) /\ IsInjective(lru)
      BY <1>t DEF TypeInvariant, NoFrameTwice
    <3>2. /\ LruPin(lru, v) \in Seq(Frames)
          /\ IsInjective(LruPin(lru, v))
          /\ Range(LruPin(lru, v)) = Range(lru) \ {v}
      BY <3>1, PinFacts
    <3> QED
      BY <2>1, <3>2
  <2>4. pages[v] = EmptyPage
    BY <2>2 DEF Inv, PageTableMatchesFrames
  <2>5. pages[v].pin = 0
    BY <2>4 DEF EmptyPage
  <2> QED
    BY <2>2, <2>3, <2>4, <2>5
<1> QED
  BY <1>1, <1>2

\* The disk D has the page that frame v had, and the other pages as they were.
Updated(D, v) ==
  /\ D \in [PageIds -> Data \cup {Absent}]
  /\ \A q \in PageIds : q # pages[v].id =>
       /\ Readable(disk, q) => D[q] = disk[q]
       /\ D[q] # disk[q] => disk[q] = Absent /\ Allocated(q) /\ D[q] = Zero
  /\ \A q \in PageIds : q = pages[v].id => D[q] = pages[v].data /\ Readable(D, q)
  /\ \A q \in PageIds : Readable(disk, q) => Readable(D, q)
  /\ \A q \in PageIds : ~ Allocated(q) => ~ Readable(D, q)
  /\ \A c \in Clients, q \in PageIds : q = pages[v].id => held[c][q] = NoFrame

(* What update_page does to the disk. *)
LEMMA UpdateFacts ==
  ASSUME Inv, HasVictim, NEW v, v = Victim, NEW D, D = DiskAfterUpdate(v)
  PROVE  Updated(D, v)
<1>1. CASE pages[v] = EmptyPage
  <2>1. D = disk /\ pages[v].id = NoPage
    <3>1. pages[v].id = NoPage /\ pages[v].dirty = FALSE
      BY <1>1, EmptyPageFacts
    <3> QED
      BY <3>1 DEF DiskAfterUpdate
  <2>2. disk \in [PageIds -> Data \cup {Absent}]
    BY DEF Inv, TypeInvariant
  <2>3. \A q \in PageIds : ~ Allocated(q) => ~ Readable(disk, q)
    BY DEF Inv, NewPagesAreUnused
  <2> QED
    BY <2>1, <2>2, <2>3, Constants DEF Updated
<1>2. CASE pages[v].id \in PageIds /\ page_table[pages[v].id] = v
  <2> DEFINE o == pages[v].id
  <2>1. v \in Frames /\ pages[v].pin = 0
    BY VictimIsEvictable
  <2>2. Mapped(o) /\ FrameOf(o) = pages[v]
    BY <1>2, <2>1, Constants DEF Mapped, FrameOf
  <2>3. /\ FrameOf(o).pin = 0
        /\ D = IF FrameOf(o).dirty THEN Written(disk, o, FrameOf(o).data) ELSE disk
    BY <2>1, <2>2 DEF DiskAfterUpdate
  <2>4. WrittenBack(D, o)
    BY <1>2, <2>2, <2>3, WriteBackFacts
  <2>5. Readable(D, o)
    BY <2>4, Constants DEF Readable, WrittenBack
  <2> QED
    BY <2>2, <2>4, <2>5 DEF WrittenBack, Updated
<1> QED
  BY <1>1, <1>2, VictimIsEvictable

(* fetch_page and new_page, in the cases in which they take a victim.  A   *)
(* new page counts as allocated from now on and as written by its client;  *)
(* a fetched page is already allocated and its content is the disk's.      *)
LEMMA TakeVictimInv ==
  ASSUME Inv, HasVictim, NEW c \in Clients, NEW p \in PageIds, ~ Mapped(p),
         NEW d \in Data, TakeVictim(p, d),
         held' = [held EXCEPT ![c][p] = Victim],
         fd2pageno' \in [Files -> 0 .. MaxPages],
         \A q \in PageIds : Allocated(q)' <=> (Allocated(q) \/ q = p),
         \/ wrote' = wrote /\ d = disk'[p]
         \/ wrote' = [wrote EXCEPT ![c] = @ \cup {p}]
  PROVE  Inv' /\ (NothingLost => NothingLost')
<1> DEFINE v == Victim
           o == pages[v].id
<1>t. TypeInvariant
  BY DEF Inv
<1>a. /\ pages' = [pages EXCEPT ![v] = LoadedPage(p, d)]
      /\ page_table' = [q \in PageIds |-> IF q = p THEN v
                                          ELSE IF q = o THEN NoFrame
                                          ELSE page_table[q]]
      /\ disk' = DiskAfterUpdate(v)
      /\ free_list' = FreeListAfterVictim
      /\ lru' = LruPin(LruAfterVictim, v)
  BY DEF TakeVictim, PageTableAfterUpdate
<1>0. /\ v \in Frames
      /\ pages[v].pin = 0
      /\ \/ pages[v] = EmptyPage
         \/ o \in PageIds /\ page_table[o] = v /\ v \notin Range(free_list)
      /\ free_list' \in Seq(Frames)
      /\ IsInjective(free_list')
      /\ Range(free_list') = Range(free_list) \ {v}
      /\ lru' \in Seq(Frames)
      /\ IsInjective(lru')
      /\ Range(lru') = Range(lru) \ {v}
  BY <1>a, VictimIsEvictable
<1>1. /\ disk' \in [PageIds -> Data \cup {Absent}]
      /\ \A q \in PageIds : q # o =>
           /\ Readable(disk, q) => disk'[q] = disk[q]
           /\ disk'[q] # disk[q] => disk[q] = Absent
      /\ \A q \in PageIds : q = o => Readable(disk', q)
      /\ \A q \in PageIds : Readable(disk, q) => Readable(disk', q)
      /\ \A q \in PageIds : ~ Allocated(q) => ~ Readable(disk', q)
      /\ \A e \in Clients, q \in PageIds : q = o => held[e][q] = NoFrame
  <2>1. HasVictim /\ v = Victim /\ disk' = DiskAfterUpdate(v)
    BY <1>a
  <2>2. Updated(disk', v)
    BY <2>1, UpdateFacts
  <2> QED
    BY <2>2 DEF Updated
<1>p. p # NoPage /\ p # o /\ page_table[p] = NoFrame /\ v # NoFrame
  <2>1. p # o
    BY <1>0, Constants DEF Mapped, EmptyPage
  <2> QED
    BY <1>0, <2>1, Constants DEF Mapped
<1>l. LoadedPage(p, d) \in Page /\ LoadedPage(p, d).id = p /\ LoadedPage(p, d).pin = 1
      /\ LoadedPage(p, d).data = d
  BY DEF LoadedPage, Page
<1> HIDE DEF v, o
<1>2. /\ pages' \in [Frames -> Page]
      /\ pages'[v] = LoadedPage(p, d)
      /\ \A g \in Frames \ {v} : pages'[g] = pages[g]
  BY <1>0, <1>a, <1>l, <1>t DEF TypeInvariant
<1>3. /\ page_table' \in [PageIds -> Frames \cup {NoFrame}]
      /\ page_table'[p] = v
      /\ \A q \in PageIds : q = o => page_table'[q] = NoFrame
      /\ \A q \in PageIds \ {p} : q # o => page_table'[q] = page_table[q] /\ page_table[q] # v
  <2>1. \A q \in PageIds : page_table[q] = v => q = o
    BY <1>0, <1>p DEF Inv, PageTableMatchesFrames, Mapped, FrameOf, o
  <2> QED
    BY <1>0, <1>a, <1>p, <1>t, <2>1 DEF TypeInvariant
<1>4. \A e \in Clients, q \in PageIds :
        /\ held'[e][q] = IF e = c /\ q = p THEN v ELSE held[e][q]
        /\ held[e][p] = NoFrame
  BY <1>p, <1>t DEF TypeInvariant, Inv, PointersStayValid, v
<1>5. /\ wrote' \in [Clients -> SUBSET PageIds]
      /\ \A e \in Clients : wrote[e] \subseteq wrote'[e] /\ wrote'[e] \subseteq wrote[e] \cup {p}
      /\ p \in wrote'[c] \/ d = disk'[p]
      /\ \A e \in Clients \ {c} : wrote'[e] = wrote[e]
  <2>1. wrote \in [Clients -> SUBSET PageIds]
    BY <1>t DEF TypeInvariant
  <2>2. CASE wrote' = wrote /\ d = disk'[p]
    BY <2>1, <2>2
  <2>3. CASE wrote' = [wrote EXCEPT ![c] = @ \cup {p}]
    BY <2>1, <2>3
  <2> QED
    BY <2>2, <2>3
<1>6. TypeInvariant'
  <2>1. held' \in [Clients -> [PageIds -> Frames \cup {NoFrame}]]
    BY <1>0, <1>t DEF TypeInvariant, v
  <2> QED
    BY <1>0, <1>1, <1>2, <1>3, <1>5, <2>1 DEF TypeInvariant
<1>7. PointersStayValid'
  <2>1. ASSUME NEW e \in Clients, NEW q \in PageIds, held'[e][q] # NoFrame
        PROVE  page_table'[q] = held'[e][q] /\ pages'[held'[e][q]].id = q
    <3>1. CASE q = p
      BY <1>2, <1>3, <1>4, <1>l, <2>1, <3>1
    <3>2. CASE q # p
      <4>1. held'[e][q] = held[e][q] /\ q # o
        BY <1>1, <1>4, <2>1, <3>2
      <4>2. page_table[q] = held[e][q] /\ pages[held[e][q]].id = q /\ held[e][q] \in Frames
        <5>1. PointersStayValid /\ held[e][q] \in Frames \cup {NoFrame}
          BY <1>t DEF Inv, TypeInvariant
        <5>2. held[e][q] # NoFrame
          BY <2>1, <4>1
        <5> QED
          BY <5>1, <5>2 DEF PointersStayValid
      <4> QED
        BY <1>2, <1>3, <3>2, <4>1, <4>2
    <3> QED
      BY <3>1, <3>2
  <2> QED
    BY <2>1 DEF PointersStayValid
<1>8. PinsMatchHolders'
  <2>1. Holders(p)' = {c}
    BY <1>4, <1>p DEF Holders
  <2>2. Cardinality({c}) = 1
    BY FS_Singleton
  <2>3. \A q \in PageIds \ {p} : Holders(q)' = Holders(q)
    BY <1>4 DEF Holders
  <2>4. ASSUME NEW g \in Frames \ {v}
        PROVE  /\ pages'[g] = pages[g]
               /\ pages[g].id # NoPage => pages[g].id \in PageIds \ {p}
    <3>1. pages[g].id # p
      BY <1>p, Constants DEF Inv, PageTableMatchesFrames, EmptyPage
    <3>2. pages[g].id \in PageIds \cup {NoPage}
      BY <1>t DEF TypeInvariant, Page
    <3> QED
      BY <1>2, <3>1, <3>2
  <2>5. pages'[v].pin = 1 /\ pages'[v].id = p
    BY <1>2, <1>l
  <2>6. PinsMatchHolders
    BY DEF Inv
  <2>7. ASSUME NEW g \in Frames
        PROVE  (pages[g].pin = IF pages[g].id = NoPage THEN 0
                               ELSE Cardinality(Holders(pages[g].id)))'
    <3>1. CASE g = v
      BY <1>p, <2>1, <2>2, <2>5, <3>1
    <3>2. CASE g # v
      BY <2>3, <2>4, <2>6, <3>2 DEF PinsMatchHolders
    <3> QED
      BY <3>1, <3>2
  <2> QED
    BY <2>7 DEF PinsMatchHolders
<1>9. PinnedFramesAreNoVictims' /\ (VictimsAreUnpinned => VictimsAreUnpinned')
  <2>1. pages'[v].pin # 0
    BY <1>2, <1>l
  <2>2. Range(free_list) \cup Range(lru) \subseteq Frames
    BY <1>t DEF TypeInvariant, Range
  <2> QED
    BY <1>0, <1>2, <2>1, <2>2 DEF PinnedFramesAreNoVictims, VictimsAreUnpinned, Inv
<1>10. NoFrameTwice'
  BY <1>0 DEF NoFrameTwice
<1>11. PageTableMatchesFrames'
  <2>1. ASSUME NEW q \in PageIds, page_table'[q] # NoFrame
        PROVE  pages'[page_table'[q]].id = q
    <3>1. CASE q = p
      BY <1>2, <1>3, <1>l, <3>1
    <3>2. CASE q # p
      <4>1. q # o /\ page_table'[q] = page_table[q] /\ page_table[q] \in Frames \ {v}
        BY <1>3, <1>t, <2>1, <3>2 DEF TypeInvariant
      <4> QED
        BY <1>2, <2>1, <4>1 DEF Inv, PageTableMatchesFrames, Mapped, FrameOf
    <3> QED
      BY <3>1, <3>2
  <2>2. ASSUME NEW g \in Frames
        PROVE  IF g \in Range(free_list') THEN pages'[g] = EmptyPage
               ELSE pages'[g].id # NoPage /\ page_table'[pages'[g].id] = g
    <3>1. CASE g = v
      BY <1>0, <1>2, <1>3, <1>l, <1>p, <3>1
    <3>2. CASE g # v
      <4>1. /\ g \in Range(free_list') <=> g \in Range(free_list)
            /\ pages'[g] = pages[g]
            /\ pages[g].id \in PageIds \cup {NoPage}
        BY <1>0, <1>2, <1>t, <3>2 DEF TypeInvariant, Page
      <4>2. CASE g \in Range(free_list)
        BY <4>1, <4>2 DEF Inv, PageTableMatchesFrames
      <4>3. CASE g \notin Range(free_list)
        <5>1. pages[g].id # NoPage /\ page_table[pages[g].id] = g
          BY <4>3 DEF Inv, PageTableMatchesFrames
        <5>2. pages[g].id \in PageIds /\ pages[g].id # p /\ pages[g].id # o
          <6>1. pages[g].id # p
            BY <1>p, <5>1, Constants
          <6>2. pages[g].id # o
            BY <1>0, <3>2, <5>1 DEF EmptyPage, o
          <6> QED
            BY <4>1, <5>1, <6>1, <6>2
        <5> QED
          BY <1>3, <4>1, <4>3, <5>1, <5>2
      <4> QED
        BY <4>2, <4>3
    <3> QED
      BY <3>1, <3>2
  <2> QED
    BY <2>1, <2>2 DEF PageTableMatchesFrames, Mapped, FrameOf
<1>12. NoLostUpdate'
  <2>0. ASSUME NEW e \in Clients, NEW q \in wrote'[e]
        PROVE  q \in PageIds /\ held'[e][q] # NoFrame
    <3>1. CASE q \in wrote[e]
      BY <1>4, <1>p, <3>1 DEF Inv, NoLostUpdate
    <3>2. CASE q \notin wrote[e]
      BY <1>4, <1>5, <1>p, <3>2
    <3> QED
      BY <3>1, <3>2
  <2>1. ASSUME NEW q \in PageIds, page_table'[q] # NoFrame,
               pages'[page_table'[q]].data # disk'[q]
        PROVE  pages'[page_table'[q]].dirty \/ \E e \in Clients : q \in wrote'[e]
    <3>1. CASE q = p
      BY <1>2, <1>3, <1>5, <1>l, <2>1, <3>1
    <3>2. CASE q # p
      <4>1. q # o /\ page_table'[q] = page_table[q] /\ Mapped(q) /\ page_table[q] # v
        BY <1>3, <2>1, <3>2 DEF Mapped
      <4>2. page_table[q] \in Frames /\ pages[page_table[q]] \in Page
        BY <4>1, MappedFacts DEF FrameOf
      <4>3. pages'[page_table[q]] = pages[page_table[q]]
        BY <1>2, <4>1, <4>2
      <4>4. pages[page_table[q]].data # disk[q]
        BY <1>1, <2>1, <4>1, <4>2, <4>3, Constants DEF Page
      <4>5. pages[page_table[q]].dirty \/ \E e \in Clients : q \in wrote[e]
        BY <4>1, <4>4 DEF Inv, NoLostUpdate, FrameOf
      <4> QED
        BY <1>5, <4>1, <4>3, <4>5
    <3> QED
      BY <3>1, <3>2
  <2> QED
    BY <2>0, <2>1 DEF NoLostUpdate, Mapped, FrameOf
<1>13. NewPagesAreUnused' /\ (NoPageLost => NoPageLost')
  <2>1. ASSUME NEW q \in PageIds, ~ Allocated(q)'
        PROVE  page_table'[q] = NoFrame /\ ~ Readable(disk', q)
    <3>1. ~ Allocated(q) /\ q # p
      BY <2>1
    <3>2. page_table[q] = NoFrame
      BY <3>1 DEF Inv, NewPagesAreUnused, Mapped
    <3> QED
      BY <1>1, <1>3, <3>1, <3>2
  <2>2. ASSUME NoPageLost, NEW q \in PageIds, Allocated(q)'
        PROVE  page_table'[q] # NoFrame \/ Readable(disk', q)
    <3>1. CASE q = p
      BY <1>3, <1>p, <3>1
    <3>2. CASE q # p
      <4>1. Mapped(q) \/ Readable(disk, q)
        BY <2>2, <3>2 DEF NoPageLost
      <4> QED
        BY <1>1, <1>3, <3>2, <4>1 DEF Mapped
    <3> QED
      BY <3>1, <3>2
  <2> QED
    BY <2>1, <2>2 DEF NewPagesAreUnused, NoPageLost, Mapped
<1> QED
  BY <1>6, <1>7, <1>8, <1>9, <1>10, <1>11, <1>12, <1>13
  DEF Inv, NothingLost

-----------------------------------------------------------------------------

(* fetch_page of a page that is on disk. *)
LEMMA FetchMissInv ==
  ASSUME Inv, NEW c \in Clients, NEW p \in PageIds, FetchMiss(c, p)
  PROVE  Inv' /\ (NothingLost => NothingLost')
<1> DEFINE d == DiskAfterUpdate(Victim)[p]
<1>1. /\ HasVictim /\ Allocated(p) /\ ~ Mapped(p) /\ d # Absent
      /\ TakeVictim(p, d)
      /\ held' = [held EXCEPT ![c][p] = Victim]
      /\ UNCHANGED <<fd2pageno, wrote>>
  BY DEF FetchMiss, Readable
<1>0. Updated(DiskAfterUpdate(Victim), Victim)
  BY <1>1, UpdateFacts
<1>2. d \in Data
  BY <1>0, <1>1 DEF Updated
<1>3. d = disk'[p]
  BY <1>1 DEF TakeVictim
<1>4. fd2pageno' \in [Files -> 0 .. MaxPages]
  BY <1>1 DEF Inv, TypeInvariant
<1>5. \A q \in PageIds : Allocated(q)' <=> (Allocated(q) \/ q = p)
  BY <1>1 DEF Allocated
<1> HIDE DEF d
<1> QED
  BY <1>1, <1>2, <1>3, <1>4, <1>5, TakeVictimInv, Zenon

(* allocate_page counts one page more as allocated. *)
LEMMA AllocateFacts ==
  ASSUME TypeInvariant, NEW fd \in Files, fd2pageno[fd] < MaxPages,
         fd2pageno' = [fd2pageno EXCEPT ![fd] = @ + 1]
  PROVE  /\ NextPage(fd) \in PageIds /\ ~ Allocated(NextPage(fd))
         /\ fd2pageno' \in [Files -> 0 .. MaxPages]
         /\ \A q \in PageIds : Allocated(q)' <=> (Allocated(q) \/ q = NextPage(fd))
<1> DEFINE p == NextPage(fd)
<1>1. fd2pageno \in [Files -> 0 .. MaxPages] /\ fd2pageno[fd] \in 0 .. MaxPages - 1
  BY PoolAssumption DEF TypeInvariant
<1>2. p \in PageIds /\ p.fd = fd /\ p.page_no = fd2pageno[fd]
  BY <1>1 DEF NextPage, PageIds
<1>3. ~ Allocated(p)
  BY <1>1, <1>2, PoolAssumption DEF Allocated
<1>4. fd2pageno' \in [Files -> 0 .. MaxPages]
  BY <1>1, PoolAssumption
<1>5. ASSUME NEW q \in PageIds
      PROVE  Allocated(q)' <=> (Allocated(q) \/ q = p)
  <2>1. /\ q.fd \in Files /\ q.page_no \in Int
        /\ q = [fd |-> q.fd, page_no |-> q.page_no]
    BY PoolAssumption DEF PageIds
  <2>2. CASE q.fd # fd
    BY <1>1, <1>2, <2>1, <2>2 DEF Allocated
  <2>3. CASE q.fd = fd
    <3>1. q = p <=> q.page_no = fd2pageno[fd]
      BY <1>2, <2>1, <2>3 DEF NextPage
    <3>2. fd2pageno'[fd] = fd2pageno[fd] + 1
      BY <1>1
    <3> QED
      BY <1>1, <2>1, <2>3, <3>1, <3>2, PoolAssumption DEF Allocated
  <2> QED
    BY <2>2, <2>3
<1> QED
  BY <1>2, <1>3, <1>4, <1>5

(* new_page. *)
LEMMA NewPageInv ==
  ASSUME Inv, NEW c \in Clients, NEW fd \in Files, NewPage(c, fd)
  PROVE  Inv' /\ (NothingLost => NothingLost')
<1> DEFINE p == NextPage(fd)
           d == pages[Victim].data
<1>1. /\ HasVictim
      /\ fd2pageno[fd] < MaxPages
      /\ TakeVictim(p, d)
      /\ fd2pageno' = [fd2pageno EXCEPT ![fd] = @ + 1]
      /\ held' = [held EXCEPT ![c][p] = Victim]
      /\ wrote' = [wrote EXCEPT ![c] = @ \cup {p}]
  BY DEF NewPage
<1>2. /\ p \in PageIds /\ ~ Allocated(p)
      /\ fd2pageno' \in [Files -> 0 .. MaxPages]
      /\ \A q \in PageIds : Allocated(q)' <=> (Allocated(q) \/ q = p)
  BY <1>1, AllocateFacts, Zenon DEF Inv
<1>3. ~ Mapped(p)
  BY <1>2 DEF Inv, NewPagesAreUnused
<1>4. d \in Data
  BY <1>1, VictimIsEvictable DEF Inv, TypeInvariant, Page
<1> HIDE DEF p, d
<1> QED
  BY <1>1, <1>2, <1>3, <1>4, TakeVictimInv, Zenon

-----------------------------------------------------------------------------

(* A write-back that throws has taken the victim out of its list and left  *)
(* the frame and the page table as they were.                              *)
LEMMA VictimLeaksInv ==
  ASSUME Inv, VictimLeaks, fd2pageno' \in [Files -> 0 .. MaxPages],
         \A q \in PageIds : Allocated(q) => Allocated(q)'
  PROVE  Inv'
<1> DEFINE v == Victim
<1>t. TypeInvariant
  BY DEF Inv
<1>a. /\ HasVictim /\ pages[v].dirty
      /\ free_list' = FreeListAfterVictim /\ lru' = LruAfterVictim
      /\ pages' = pages /\ page_table' = page_table /\ disk' = disk
      /\ held' = held /\ wrote' = wrote
  BY DEF VictimLeaks
<1>0. free_list = <<>>
  <2> SUFFICES ASSUME free_list # <<>> PROVE FALSE
    OBVIOUS
  <2>1. v = Head(free_list)
    BY DEF Victim
  <2>2. v \in Frames /\ v \in Range(free_list)
    BY <1>t, <2>1, TailFacts DEF TypeInvariant, Inv, NoFrameTwice
  <2>3. pages[v] = EmptyPage
    BY <2>2 DEF Inv, PageTableMatchesFrames
  <2> QED
    BY <1>a, <2>3, EmptyPageFacts
<1>1. /\ free_list' = free_list /\ lru' \in Seq(Frames) /\ IsInjective(lru')
      /\ Range(lru') \subseteq Range(lru)
  <2>1. lru \in Seq(Frames) /\ IsInjective(lru) /\ HasLruVictim(lru)
    BY <1>0, <1>a, <1>t DEF TypeInvariant, Inv, NoFrameTwice, HasVictim
  <2>2. free_list' = free_list /\ lru' = AfterLruVictim(lru)
    BY <1>0, <1>a DEF FreeListAfterVictim, LruAfterVictim
  <2> QED
    BY <2>1, <2>2, VictimFacts
<1>2. TypeInvariant'
  BY <1>1, <1>a, <1>t DEF TypeInvariant
<1>3. PointersStayValid' /\ PinnedFramesAreNoVictims' /\ NoFrameTwice'
  BY <1>1, <1>a DEF PointersStayValid, PinnedFramesAreNoVictims, NoFrameTwice, Inv
<1>4. PinsMatchHolders'
  BY <1>a DEF PinsMatchHolders, Holders, Inv
<1>5. PageTableMatchesFrames'
  BY <1>1, <1>a DEF PageTableMatchesFrames, Mapped, FrameOf, Inv
<1>6. NoLostUpdate'
  BY <1>a DEF NoLostUpdate, Mapped, FrameOf, Inv
<1>7. NewPagesAreUnused'
  BY <1>a DEF NewPagesAreUnused, Mapped, Readable, Inv
<1> QED
  BY <1>2, <1>3, <1>4, <1>5, <1>6, <1>7 DEF Inv

(* Every step of the pool and of its clients preserves the invariant.      *)
LEMMA NextInv ==
  ASSUME Inv, [Next]_vars
  PROVE  Inv' /\ (NothingLost => NothingLost')
<1>1. CASE UNCHANGED vars
  <2>1. /\ pages' = pages /\ page_table' = page_table /\ free_list' = free_list
        /\ lru' = lru /\ disk' = disk /\ fd2pageno' = fd2pageno
        /\ held' = held /\ wrote' = wrote
    BY <1>1 DEF vars
  <2>2. TypeInvariant'
    BY <2>1 DEF Inv, TypeInvariant
  <2>3. PointersStayValid'
    BY <2>1 DEF Inv, PointersStayValid
  <2>4. PinsMatchHolders'
    <3>1. PinsMatchHolders
      BY DEF Inv
    <3> QED
      BY <2>1, <3>1 DEF PinsMatchHolders, Holders
  <2>5. PinnedFramesAreNoVictims' /\ (VictimsAreUnpinned => VictimsAreUnpinned') /\ NoFrameTwice'
    BY <2>1 DEF Inv, PinnedFramesAreNoVictims, VictimsAreUnpinned, NoFrameTwice
  <2>6. PageTableMatchesFrames'
    <3>1. PageTableMatchesFrames
      BY DEF Inv
    <3> QED
      BY <2>1, <3>1 DEF PageTableMatchesFrames, Mapped, FrameOf
  <2>7. NoLostUpdate'
    BY <2>1 DEF Inv, NoLostUpdate, Mapped, FrameOf
  <2>8. NewPagesAreUnused' /\ (NoPageLost => NoPageLost')
    BY <2>1 DEF Inv, NewPagesAreUnused, NoPageLost, Mapped, Allocated
  <2> QED
    BY <2>2, <2>3, <2>4, <2>5, <2>6, <2>7, <2>8 DEF Inv, NothingLost
<1>2. ASSUME NEW c \in Clients, ClientNext(c)
      PROVE  Inv' /\ (NothingLost => NothingLost')
  BY <1>2, FetchHitInv, FetchMissInv, NewPageInv, WritePageInv, UnpinPageInv
  DEF ClientNext
<1>3. CASE PoolNext
  BY <1>1, <1>3, FlushPageInv, DeletePageInv, FlushAllPagesInv DEF PoolNext, NoVictim
<1> QED
  BY <1>1, <1>2, <1>3 DEF Next

(* A failing write preserves the invariant, but may lose a frame and a     *)
(* page number.                                                            *)
LEMMA WriteFaultInv ==
  ASSUME Inv, WriteFault
  PROVE  Inv'
<1>1. ASSUME NEW p \in PageIds, FetchWriteThrows(p)
      PROVE  Inv'
  <2>1. VictimLeaks /\ fd2pageno' = fd2pageno
    BY <1>1 DEF FetchWriteThrows
  <2>2. \A q \in PageIds : Allocated(q) => Allocated(q)'
    BY <2>1 DEF Allocated
  <2>3. fd2pageno' \in [Files -> 0 .. MaxPages]
    BY <2>1 DEF Inv, TypeInvariant
  <2> QED
    BY <2>1, <2>2, <2>3, VictimLeaksInv
<1>2. ASSUME NEW fd \in Files, NewPageWriteThrows(fd)
      PROVE  Inv'
  <2>1. VictimLeaks /\ fd2pageno[fd] < MaxPages /\ fd2pageno' = [fd2pageno EXCEPT ![fd] = @ + 1]
    BY <1>2 DEF NewPageWriteThrows
  <2>2. /\ fd2pageno' \in [Files -> 0 .. MaxPages]
        /\ \A q \in PageIds : Allocated(q) => Allocated(q)'
    BY <2>1, AllocateFacts, Zenon DEF Inv
  <2> QED
    BY <2>1, <2>2, VictimLeaksInv
<1> QED
  BY <1>1, <1>2 DEF WriteFault

(* The invariant of the pool, when writes may fail and when they do not.   *)
THEOREM FaultySafety == WriteFaultSpec => []Inv
<1>1. Init => Inv
  BY InitInv
<1>2. Inv /\ [Next \/ WriteFault]_vars => Inv'
  BY NextInv, WriteFaultInv
<1> QED
  BY <1>1, <1>2, PTL DEF WriteFaultSpec

THEOREM PoolSafety == Spec => [](Inv /\ NothingLost)
<1>1. Init => Inv /\ NothingLost
  BY InitInv
<1>2. Inv /\ NothingLost /\ [Next]_vars => Inv' /\ NothingLost'
  BY NextInv
<1> QED
  BY <1>1, <1>2, PTL DEF Spec

(* The members of the buffer pool manager keep their types.                *)
THEOREM TypeCorrect == Spec => []TypeInvariant
BY PoolSafety, PTL DEF Inv

(* A Page pointer is valid until its holder unpins the page, whatever the  *)
(* other clients fetch, allocate, flush or delete.                         *)
THEOREM PointerSafety == Spec => []PointersStayValid
BY PoolSafety, PTL DEF Inv

(* pin_count_ is the number of clients that have the page pinned.          *)
THEOREM PinAccounting == Spec => []PinsMatchHolders
BY PoolSafety, PTL DEF Inv

(* Only unpinned frames are evicted, and find_victim_page fails only when  *)
(* every frame is pinned.                                                  *)
THEOREM VictimChoice == Spec => []VictimsAreUnpinned
BY PoolSafety, PTL DEF NothingLost

(* Neither the free list nor the replacer hands out a frame twice.         *)
THEOREM FramesAreExclusive == Spec => []NoFrameTwice
BY PoolSafety, PTL DEF Inv

(* page_table_ leads to the frame that holds the page, and to every frame  *)
(* in use.                                                                 *)
THEOREM PageTableIsExact == Spec => []PageTableMatchesFrames
BY PoolSafety, PTL DEF Inv

(* No update of a page is dropped by eviction, flush or deletion.          *)
THEOREM UpdatesSurvive == Spec => []NoLostUpdate
BY PoolSafety, PTL DEF Inv

(* read_page never finds an allocated page missing.                        *)
THEOREM ReadsSucceed == Spec => []AllocatedPagesAreReadable
<1>1. Inv /\ NothingLost => AllocatedPagesAreReadable
  BY DEF Inv, NothingLost, NewPagesAreUnused, NoPageLost, AllocatedPagesAreReadable
<1> QED
  BY <1>1, PoolSafety, PTL

-----------------------------------------------------------------------------
(* What a failing write leaves intact. *)

(* A write-back that throws does not invalidate a Page pointer.            *)
THEOREM FaultyPointerSafety == WriteFaultSpec => []PointersStayValid
BY FaultySafety, PTL DEF Inv

(* A frame that find_victim_page can return is unpinned, though not every  *)
(* unpinned frame can be returned any more.                                *)
THEOREM FaultyVictimChoice == WriteFaultSpec => []PinnedFramesAreNoVictims
BY FaultySafety, PTL DEF Inv

(* A frame that leaked is found through the page table of its page.        *)
THEOREM LeaksAreReachable == WriteFaultSpec => []LeakedFramesAreReachable
<1>1. Inv => LeakedFramesAreReachable
  BY DEF Inv, PageTableMatchesFrames, LeakedFramesAreReachable
<1> QED
  BY <1>1, FaultySafety, PTL

(* A write-back that throws loses no update: the frame stays dirty.        *)
THEOREM FaultyUpdatesSurvive == WriteFaultSpec => []NoLostUpdate
BY FaultySafety, PTL DEF Inv

-----------------------------------------------------------------------------
(* The replacer *)

(* The order of the list, as EvictionFollowsRelease states it of a step.   *)
InOrder(r, s) ==
  \A f, g \in Range(r) : Before(r, f, g) => (f \in Range(s) => Before(s, f, g))

(* A frame that pin, victim or a failing write-back takes out of the list  *)
(* does not change the order of the others.                                *)
LEMMA KeptOrder ==
  ASSUME NEW r, NEW s, KeepsOrder(r, s)
  PROVE  InOrder(r, s)
BY DEF InOrder, Before, KeepsOrder

(* unpin_page puts a frame before the others. *)
LEMMA UnpinOrder ==
  ASSUME NEW S, NEW s \in Seq(S), IsInjective(s), NEW x \in S
  PROVE  InOrder(LruUnpin(s, x), s)
<1>1. CASE InLru(s, x)
  BY <1>1 DEF LruUnpin, InOrder
<1>2. CASE ~ InLru(s, x)
  <2> DEFINE r == <<x>> \o s
  <2>1. LruUnpin(s, x) = r /\ x \notin Range(s)
    BY <1>2 DEF LruUnpin, InLru
  <2>2. KeepsOrderBehind(r, s, x)
    BY <2>1, PrependFacts
  <2> HIDE DEF r
  <2>3. InOrder(r, s)
    BY <2>1, <2>2 DEF InOrder, Before, KeepsOrderBehind
  <2> QED
    BY <2>1, <2>3
<1> QED
  BY <1>1, <1>2

(* The list after find_victim_page and pin. *)
LEMMA VictimOrder ==
  ASSUME Inv, HasVictim
  PROVE  InOrder(LruPin(LruAfterVictim, Victim), lru)
<1>1. lru \in Seq(Frames) /\ IsInjective(lru)
  BY DEF Inv, TypeInvariant, NoFrameTwice
<1>2. /\ LruAfterVictim \in Seq(Frames) /\ IsInjective(LruAfterVictim)
      /\ KeepsOrder(LruAfterVictim, lru)
  <2>1. CASE free_list = <<>>
    BY <1>1, <2>1, VictimFacts DEF HasVictim, LruAfterVictim
  <2>2. CASE free_list # <<>>
    BY <1>1, <2>2 DEF LruAfterVictim, KeepsOrder
  <2> QED
    BY <2>1, <2>2
<1>3. KeepsOrder(LruPin(LruAfterVictim, Victim), LruAfterVictim)
  BY <1>2, PinFacts
<1> QED
  BY <1>2, <1>3, KeepsOrderTransitive, KeptOrder

\* The frames that a step gives to another page are behind all others.
EvictsLast ==
  \A f \in Frames : Evicts(f) =>
    f \in Range(lru) /\ \A g \in Range(lru) \ {f} : Before(lru, g, f)

(* The victim of the replacer is the last frame of its list. *)
LEMMA VictimIsLast ==
  ASSUME NEW S, NEW s \in Seq(S), HasLruVictim(s)
  PROVE  \A g \in Range(s) \ {LruVictim(s)} : Before(s, g, LruVictim(s))
<1> SUFFICES ASSUME NEW g \in Range(s) \ {LruVictim(s)}
             PROVE  Before(s, g, LruVictim(s))
  OBVIOUS
<1>1. Len(s) \in Nat /\ Len(s) > 0 /\ DOMAIN s = 1 .. Len(s)
  BY DEF HasLruVictim
<1>2. PICK i \in 1 .. Len(s) : s[i] = g
  BY <1>1 DEF Range
<1>3. i < Len(s) /\ Len(s) \in DOMAIN s /\ i \in DOMAIN s
  BY <1>1, <1>2 DEF LruVictim
<1> QED
  BY <1>2, <1>3 DEF Before, LruVictim

(* What find_victim_page returns and update_page gives to another page is  *)
(* a frame without a page, or the last one of the replacer's list.         *)
LEMMA VictimIsReleasedFirst ==
  ASSUME Inv, HasVictim, NEW p, NEW d, TakeVictim(p, d)
  PROVE  EvictsLast
<1> SUFFICES ASSUME NEW f \in Frames, Evicts(f)
             PROVE  f \in Range(lru) /\ \A g \in Range(lru) \ {f} : Before(lru, g, f)
  BY DEF EvictsLast
<1>1. Victim \in Frames /\ pages \in [Frames -> Page]
  BY VictimIsEvictable DEF Inv, TypeInvariant
<1>2. f = Victim /\ pages[f].id # NoPage
  BY <1>1 DEF Evicts, TakeVictim
<1>3. pages[Victim] # EmptyPage
  BY <1>2, EmptyPageFacts
<1>4. free_list = <<>>
  <2>1. SUFFICES ASSUME free_list # <<>> PROVE FALSE
    OBVIOUS
  <2>2. Victim = Head(free_list) /\ Head(free_list) \in Range(free_list)
    BY <2>1, TailFacts DEF Inv, TypeInvariant, NoFrameTwice, Victim
  <2> QED
    BY <1>1, <1>3, <2>2 DEF Inv, PageTableMatchesFrames
<1>5. lru \in Seq(Frames) /\ IsInjective(lru) /\ HasLruVictim(lru) /\ Victim = LruVictim(lru)
  BY <1>4 DEF Inv, TypeInvariant, NoFrameTwice, HasVictim, Victim
<1> QED
  BY <1>2, <1>5, VictimFacts, VictimIsLast

(* fetch_page and new_page evict the page that was released longest ago:   *)
(* the frame they give to another page is the last one of the replacer's   *)
(* list, and neither a fetch, an allocation, an unpin nor a deletion       *)
(* changes the order of two frames in that list, which a released frame    *)
(* enters behind those that wait already.                                  *)
THEOREM EvictionOrder == Spec => EvictionFollowsRelease
<1>1. ASSUME Inv, [Next]_vars
      PROVE  EvictsLast /\ (lru' = lru \/ InOrder(lru', lru))
  <2>0. /\ lru \in Seq(Frames) /\ IsInjective(lru)
        /\ pages \in [Frames -> Page]
        /\ page_table \in [PageIds -> Frames \cup {NoFrame}]
    BY <1>1 DEF Inv, TypeInvariant, NoFrameTwice
  <2>1. ASSUME NEW c \in Clients, NEW p \in PageIds, FetchHit(c, p)
        PROVE  EvictsLast /\ InOrder(lru', lru)
    <3>1. \A f \in Frames : ~ Evicts(f)
      BY <2>0, <2>1 DEF FetchHit, Evicts
    <3> QED
      BY <2>0, <2>1, <3>1, PinFacts, KeptOrder DEF FetchHit, EvictsLast
  <2>2. ASSUME NEW c \in Clients, NEW p \in PageIds, FetchMiss(c, p)
        PROVE  EvictsLast /\ InOrder(lru', lru)
    BY <1>1, <2>2, VictimOrder, VictimIsReleasedFirst, Zenon DEF FetchMiss, TakeVictim
  <2>3. ASSUME NEW c \in Clients, NEW fd \in Files, NewPage(c, fd)
        PROVE  EvictsLast /\ InOrder(lru', lru)
    BY <1>1, <2>3, VictimOrder, VictimIsReleasedFirst, Zenon DEF NewPage, TakeVictim
  <2>4. ASSUME NEW c \in Clients, NEW p \in PageIds, NEW dirty \in BOOLEAN,
               UnpinPage(c, p, dirty)
        PROVE  EvictsLast /\ (lru' = lru \/ InOrder(lru', lru))
    <3>1. page_table[p] \in Frames
      BY <1>1, <2>4, MappedFacts DEF UnpinPage, Unpin
    <3>2. \A f \in Frames : ~ Evicts(f)
      BY <2>0, <2>4, <3>1 DEF UnpinPage, Unpin, UnpinnedPage, Evicts
    <3> QED
      BY <2>0, <2>4, <3>1, <3>2, UnpinOrder DEF UnpinPage, Unpin, EvictsLast
  <2>5. ASSUME NEW c \in Clients, NEW p \in PageIds, NEW v \in Values, WritePage(c, p, v)
        PROVE  EvictsLast /\ lru' = lru
    <3>1. \A f \in Frames : pages'[f].id = pages[f].id
      BY <2>0, <2>5 DEF WritePage, Page
    <3>2. \A f \in Frames : ~ Evicts(f)
      BY <3>1 DEF Evicts
    <3> QED
      BY <2>5, <3>2 DEF WritePage, EvictsLast
  <2>6. ASSUME NEW p \in PageIds, FlushPage(p) \/ DeletePage(p)
        PROVE  EvictsLast /\ lru' = lru
    <3>1. ASSUME FlushPage(p)
          PROVE  \A f \in Frames : pages'[f].id = pages[f].id
      BY <2>0, <3>1 DEF FlushPage, Page
    <3>2. ASSUME DeletePage(p)
          PROVE  \A f \in Frames : pages'[f].id \in {pages[f].id, NoPage}
      BY <2>0, <3>2, EmptyPageFacts DEF DeletePage
    <3>3. \A f \in Frames : ~ Evicts(f)
      BY <2>6, <3>1, <3>2 DEF Evicts
    <3> QED
      BY <2>6, <3>3 DEF FlushPage, DeletePage, EvictsLast
  <2>7. ASSUME UNCHANGED vars \/ NoVictim \/ \E fd \in Files : FlushAllPages(fd)
        PROVE  EvictsLast /\ lru' = lru
    <3>1. pages' = pages /\ lru' = lru
      BY <2>7 DEF vars, NoVictim, FlushAllPages
    <3> QED
      BY <3>1 DEF EvictsLast, Evicts
  <2> QED
    BY <1>1, <2>1, <2>2, <2>3, <2>4, <2>5, <2>6, <2>7 DEF Next, ClientNext, PoolNext
<1>2. Inv /\ [Next]_vars =>
        [/\ \A f \in Frames : Evicts(f) =>
              f \in Range(lru) /\ \A g \in Range(lru) \ {f} : Before(lru, g, f)
         /\ \A f, g \in Range(lru') :
              Before(lru', f, g) => (f \in Range(lru) => Before(lru, f, g))]_<<lru, pages>>
  BY <1>1 DEF InOrder, EvictsLast
<1> QED
  BY <1>2, PoolSafety, PTL DEF Spec, EvictionFollowsRelease

-----------------------------------------------------------------------------
(* The buffer pool implements PageStore: page contents do not depend on    *)
(* what is cached.  The refinement mapping is Content and PinnedBy of      *)
(* module BufferPool; flushing, deletion and eviction are stuttering.      *)

(* What the mapping says about a page. *)
LEMMA MappingFacts ==
  ASSUME Inv
  PROVE  /\ Content \in [PageIds -> Data \cup {Absent}]
         /\ PinnedBy \in [Clients -> SUBSET PageIds]
         /\ \A p \in PageIds : Mapped(p) => Content[p] = FrameOf(p).data
         /\ \A p \in PageIds : Content[p] # Absent <=> Allocated(p)
<1>1. \A p \in PageIds : Mapped(p) => FrameOf(p).data \in Data
  BY MappedFacts DEF Page
<1>2. disk \in [PageIds -> Data \cup {Absent}]
  BY DEF Inv, TypeInvariant
<1>3. \A p \in PageIds : Content[p] # Absent <=> Allocated(p)
  BY <1>1, Constants DEF Content, Inv, NewPagesAreUnused, Readable
<1> QED
  BY <1>1, <1>2, <1>3, Constants DEF Content, PinnedBy

(* A write beyond the end of a file fills the pages before it with zeros.  *)
(* Those that are in no frame had this content already.                    *)
LEMMA HoleContent ==
  ASSUME NEW q \in PageIds, ~ Mapped(q), ~ Mapped(q)', Allocated(q)' <=> Allocated(q),
         disk'[q] # disk[q] => disk[q] = Absent /\ Allocated(q) /\ disk'[q] = Zero
  PROVE  Content'[q] = Content[q]
<1>1. /\ Content[q] = IF Allocated(q) /\ disk[q] = Absent THEN Zero ELSE disk[q]
      /\ Content'[q] = IF Allocated(q)' /\ disk'[q] = Absent THEN Zero ELSE disk'[q]
  BY DEF Content, Readable
<1> QED
  BY <1>1

(* Initially no page exists. *)
LEMMA InitMapped == Init => Store!Init
<1> SUFFICES ASSUME Init PROVE Store!Init
  OBVIOUS
<1>1. \A p \in PageIds : ~ Allocated(p) /\ ~ Mapped(p)
  BY PoolAssumption DEF Init, PageIds, Allocated, Mapped
<1> QED
  BY <1>1 DEF Init, Store!Init, Content, PinnedBy

(* fetch_page of a page in the pool is a pin. *)
LEMMA FetchHitMapped ==
  ASSUME Inv, NEW c \in Clients, NEW p \in PageIds, FetchHit(c, p)
  PROVE  Store!Pin(c, p)
<1>t. TypeInvariant
  BY DEF Inv
<1>1. page_table[p] \in Frames /\ FrameOf(p) \in Page /\ Mapped(p)
  BY MappedFacts DEF FetchHit
<1>2. \A g \in Frames : pages'[g].data = pages[g].data
  BY <1>1, <1>t DEF FetchHit, TypeInvariant, Page, FrameOf
<1>3. Content' = Content
  BY <1>2, <1>t DEF FetchHit, Content, Mapped, FrameOf, Allocated, Readable, TypeInvariant
<1>4. PinnedBy' = [PinnedBy EXCEPT ![c] = @ \cup {p}]
  <2>1. \A e \in Clients, q \in PageIds :
          held'[e][q] = IF e = c /\ q = p THEN page_table[p] ELSE held[e][q]
    BY <1>t DEF FetchHit, TypeInvariant
  <2>2. \A e \in Clients :
          PinnedBy'[e] = IF e = c THEN PinnedBy[e] \cup {p} ELSE PinnedBy[e]
    <3>1. \A e \in Clients, q \in PageIds :
            q \in PinnedBy'[e] <=> q \in PinnedBy[e] \/ (e = c /\ q = p)
      BY <1>1, <2>1, Constants DEF PinnedBy
    <3>2. \A e \in Clients : PinnedBy[e] \subseteq PageIds /\ PinnedBy'[e] \subseteq PageIds
      BY DEF PinnedBy
    <3> QED
      BY <3>1, <3>2, Zenon
  <2> QED
    BY <2>2, Zenon DEF PinnedBy
<1>5. Content[p] # Absent /\ p \notin PinnedBy[c]
  BY <1>1, MappingFacts, Constants DEF FetchHit, Page, PinnedBy
<1> QED
  BY <1>3, <1>4, <1>5 DEF Store!Pin

(* A store through a held pointer is a write to the page. *)
LEMMA WritePageMapped ==
  ASSUME Inv, NEW c \in Clients, NEW p \in PageIds, NEW v \in Values, WritePage(c, p, v)
  PROVE  Store!Write(c, p)
<1>t. TypeInvariant
  BY DEF Inv
<1>1. held[c][p] = page_table[p] /\ Mapped(p)
  BY DEF WritePage, Inv, PointersStayValid, Mapped
<1>2. page_table[p] \in Frames /\ pages[page_table[p]] \in Page
  BY <1>1, MappedFacts DEF FrameOf
<1>3. /\ pages'[page_table[p]].data = v
      /\ \A g \in Frames \ {page_table[p]} : pages'[g] = pages[g]
  BY <1>1, <1>2, <1>t DEF WritePage, TypeInvariant, Page
<1>4. \A q \in PageIds \ {p} : Mapped(q) => page_table[q] \in Frames \ {page_table[p]}
  BY <1>1, MappedFacts
<1>5. Content' = [Content EXCEPT ![p] = v]
  <2>1. Content'[p] = v
    BY <1>1, <1>3 DEF WritePage, Content, Mapped, FrameOf
  <2>2. ASSUME NEW q \in PageIds \ {p}
        PROVE  Content'[q] = Content[q]
    <3>1. page_table' = page_table /\ disk' = disk /\ fd2pageno' = fd2pageno
      BY DEF WritePage
    <3>2. CASE Mapped(q)
      BY <1>3, <1>4, <3>1, <3>2, Zenon DEF Content, Mapped, FrameOf
    <3>3. CASE ~ Mapped(q)
      BY <3>1, <3>3 DEF Content, Mapped, Allocated, Readable
    <3> QED
      BY <3>2, <3>3
  <2> QED
    BY <2>1, <2>2, Zenon DEF Content
<1>6. PinnedBy' = PinnedBy /\ p \in PinnedBy[c] /\ v \in Data
  BY DEF WritePage, PinnedBy, Data
<1> QED
  BY <1>5, <1>6, Zenon DEF Store!Write

(* unpin_page is an unpin. *)
LEMMA UnpinPageMapped ==
  ASSUME Inv, NEW c \in Clients, NEW p \in PageIds, NEW dirty \in BOOLEAN,
         UnpinPage(c, p, dirty)
  PROVE  Store!Unpin(c, p)
<1>t. TypeInvariant
  BY DEF Inv
<1>1. Mapped(p) /\ FrameOf(p).pin > 0
  BY DEF UnpinPage, Unpin
<1>2. page_table[p] \in Frames /\ FrameOf(p) \in Page /\ FrameOf(p).pin \in Nat \ {0}
  BY <1>1, MappedFacts DEF Page
<1>3. UnpinnedPage(FrameOf(p), dirty).data = FrameOf(p).data
  BY <1>2, UnpinnedPageFacts, Zenon
<1>4. \A g \in Frames : pages'[g].data = pages[g].data
  BY <1>2, <1>3, <1>t DEF UnpinPage, Unpin, TypeInvariant, FrameOf
<1>5. Content' = Content
  BY <1>4, <1>t
  DEF UnpinPage, Unpin, Content, Mapped, FrameOf, Allocated, Readable, TypeInvariant
<1>6. \A e \in Clients, q \in PageIds :
        held'[e][q] = IF e = c /\ q = p THEN NoFrame ELSE held[e][q]
  BY <1>t DEF UnpinPage, TypeInvariant
<1>7. PinnedBy' = [PinnedBy EXCEPT ![c] = @ \ {p}] /\ p \in PinnedBy[c]
  <2>1. \A e \in Clients :
          PinnedBy'[e] = IF e = c THEN PinnedBy[e] \ {p} ELSE PinnedBy[e]
    BY <1>6 DEF PinnedBy
  <2>2. p \in PinnedBy[c]
    BY DEF UnpinPage, PinnedBy
  <2> QED
    BY <2>1, <2>2, Zenon DEF PinnedBy
<1> QED
  BY <1>5, <1>7 DEF Store!Unpin

(* Steps of the pool alone do not change a content. *)
LEMMA FlushPageMapped ==
  ASSUME Inv, NEW p \in PageIds, FlushPage(p)
  PROVE  UNCHANGED <<Content, PinnedBy>>
<1>t. TypeInvariant
  BY DEF Inv
<1>1. /\ page_table[p] \in Frames /\ FrameOf(p) \in Page /\ Mapped(p)
      /\ FrameOf(p).data \in Data /\ Allocated(p)
  BY MappedFacts DEF FlushPage, Page, Inv, NewPagesAreUnused
<1>2. \A g \in Frames : pages'[g].data = pages[g].data
  BY <1>1, <1>t DEF FlushPage, TypeInvariant, Page, FrameOf
<1>3. UNCHANGED <<page_table, fd2pageno, held>>
  BY DEF FlushPage
<1>4. ASSUME NEW q \in PageIds, ~ Mapped(q)
      PROVE  Content'[q] = Content[q]
  <2>1. disk' = Written(disk, p, FrameOf(p).data) /\ q # p
    BY <1>1, <1>4 DEF FlushPage
  <2>2. disk'[q] # disk[q] => disk[q] = Absent /\ Allocated(q) /\ disk'[q] = Zero
    BY <1>1, <2>1, WrittenFacts
  <2> QED
    BY <1>3, <1>4, <2>2, HoleContent DEF Mapped, Allocated
<1>5. \A q \in PageIds : Mapped(q) => Content'[q] = Content[q]
  BY <1>2, <1>3, <1>t DEF Content, Mapped, FrameOf, TypeInvariant
<1>6. Content' = Content
  BY <1>4, <1>5, Zenon DEF Content
<1> QED
  BY <1>3, <1>6 DEF PinnedBy

(* delete_page leaves the content on disk. *)
LEMMA DeletePageMapped ==
  ASSUME Inv, NEW p \in PageIds, DeletePage(p)
  PROVE  UNCHANGED <<Content, PinnedBy>>
<1>t. TypeInvariant
  BY DEF Inv
<1>1. /\ Mapped(p) /\ FrameOf(p).pin = 0
      /\ disk' = IF FrameOf(p).dirty THEN Written(disk, p, FrameOf(p).data) ELSE disk
  BY DEF DeletePage, DiskAfterDelete
<1>2. page_table[p] \in Frames
  BY <1>1, MappedFacts, Zenon
<1>3. /\ disk'[p] = FrameOf(p).data
      /\ disk'[p] \in Data
      /\ \A q \in PageIds \ {p} :
           disk'[q] # disk[q] => disk[q] = Absent /\ Allocated(q) /\ disk'[q] = Zero
  <2>1. WrittenBack(disk', p)
    BY <1>1, WriteBackFacts
  <2> QED
    BY <2>1 DEF WrittenBack
<1>4. \A q \in PageIds \ {p} :
        /\ page_table'[q] = page_table[q]
        /\ Mapped(q) => pages'[page_table[q]] = pages[page_table[q]]
  BY <1>1, <1>2, <1>t, MappedFacts DEF DeletePage, PageTableAfterDelete, TypeInvariant
<1>5. page_table'[p] = NoFrame
  BY <1>t DEF DeletePage, PageTableAfterDelete, TypeInvariant
<1>6. UNCHANGED <<fd2pageno, held>>
  BY DEF DeletePage
<1>7. Content'[p] = Content[p]
  BY <1>1, <1>3, <1>5, Constants, Zenon DEF Content, Mapped, Readable
<1>8. ASSUME NEW q \in PageIds \ {p}
      PROVE  Content'[q] = Content[q]
  <2>1. CASE Mapped(q)
    BY <1>4, <2>1 DEF Content, Mapped, FrameOf
  <2>2. CASE ~ Mapped(q)
    BY <1>3, <1>4, <1>6, <2>2, HoleContent DEF Mapped, Allocated
  <2> QED
    BY <2>1, <2>2
<1>9. Content' = Content
  BY <1>7, <1>8, Zenon DEF Content
<1> QED
  BY <1>6, <1>9 DEF PinnedBy

(* flush_all_pages copies contents to disk. *)
LEMMA FlushAllPagesMapped ==
  ASSUME Inv, NEW fd \in Files, FlushAllPages(fd)
  PROVE  UNCHANGED <<Content, PinnedBy>>
<1>1. UNCHANGED <<pages, page_table, fd2pageno, held>>
  BY DEF FlushAllPages
<1>2. ASSUME NEW q \in PageIds, ~ Mapped(q)
      PROVE  Content'[q] = Content[q]
  <2>1. FramesWith(q) = {}
    <3>1. ASSUME NEW g \in Frames, pages[g].id = q PROVE FALSE
      <4>1. pages[g].id # NoPage
        BY <3>1, Constants
      <4>2. page_table[q] = g
        BY <3>1, <4>1, FrameFacts
      <4> QED
        BY <1>2, <4>2, Constants DEF Mapped
    <3> QED
      BY <3>1 DEF FramesWith
  <2>2. disk'[q] # disk[q] => disk[q] = Absent /\ disk'[q] = Zero
    BY <2>1 DEF FlushAllPages, Flushed
  <2>3. disk'[q] # disk[q] => Allocated(q)
    <3>1. NewPagesAreUnused'
      BY FlushAllPagesInv DEF Inv
    <3> QED
      BY <1>1, <2>2, <3>1, Constants DEF NewPagesAreUnused, Allocated, Readable
  <2> QED
    BY <1>1, <1>2, <2>2, <2>3, HoleContent, Zenon DEF Mapped, Allocated
<1>3. \A q \in PageIds : Mapped(q) => Content'[q] = Content[q]
  BY <1>1 DEF Content, Mapped, FrameOf
<1>4. Content' = Content
  BY <1>2, <1>3, Zenon DEF Content
<1> QED
  BY <1>1, <1>4 DEF PinnedBy

(* fetch_page of a page on disk is a pin; new_page is an allocation.  The  *)
(* page that makes room keeps its content, now on disk.                    *)
LEMMA TakeVictimMapped ==
  ASSUME Inv, HasVictim, NEW c \in Clients, NEW p \in PageIds, ~ Mapped(p),
         NEW d \in Data, TakeVictim(p, d),
         held' = [held EXCEPT ![c][p] = Victim],
         \A q \in PageIds : Allocated(q)' <=> (Allocated(q) \/ q = p)
  PROVE  /\ Content' = [Content EXCEPT ![p] = d]
         /\ PinnedBy' = [PinnedBy EXCEPT ![c] = @ \cup {p}]
         /\ p \notin PinnedBy[c]
<1> DEFINE v == Victim
           o == pages[v].id
<1>t. TypeInvariant
  BY DEF Inv
<1>1. /\ v \in Frames
      /\ \/ pages[v] = EmptyPage
         \/ o \in PageIds /\ page_table[o] = v
  BY VictimIsEvictable
<1>2. /\ \A q \in PageIds : q # o =>
           (disk'[q] # disk[q] => disk[q] = Absent /\ Allocated(q) /\ disk'[q] = Zero)
      /\ \A q \in PageIds : q = o => disk'[q] = pages[v].data /\ Readable(disk', q)
  <2>1. disk' = DiskAfterUpdate(v)
    BY DEF TakeVictim
  <2>2. Updated(disk', v)
    BY <2>1, UpdateFacts
  <2> QED
    BY <2>2 DEF Updated
<1>3. /\ pages' = [pages EXCEPT ![v] = LoadedPage(p, d)]
      /\ page_table' = [q \in PageIds |-> IF q = p THEN v
                                          ELSE IF q = o THEN NoFrame
                                          ELSE page_table[q]]
  BY DEF TakeVictim, PageTableAfterUpdate
<1>4. v # NoFrame /\ pages'[v].data = d
  BY <1>1, <1>3, <1>t, Constants DEF LoadedPage, TypeInvariant
<1> HIDE DEF v, o
<1>5. Content' = [Content EXCEPT ![p] = d]
  <2>1. Content'[p] = d
    BY <1>3, <1>4 DEF Content, Mapped, FrameOf
  <2>2. ASSUME NEW q \in PageIds \ {p}
        PROVE  Content'[q] = Content[q]
    <3>1. CASE q = o
      <4>1. Content'[q] = pages[v].data
        BY <1>2, <1>3, <3>1 DEF Content, Mapped
      <4>2. page_table[q] = v
        BY <1>1, <3>1, Constants DEF EmptyPage, o
      <4> QED
        BY <1>4, <4>1, <4>2 DEF Content, Mapped, FrameOf
    <3>2. CASE q # o /\ Mapped(q)
      <4>1. page_table[q] \in Frames /\ FrameOf(q).id = q
        BY <3>2, MappedFacts
      <4>2. page_table[q] # v
        BY <3>2, <4>1 DEF FrameOf, o
      <4>3. pages'[page_table[q]] = pages[page_table[q]]
        BY <1>3, <1>t, <4>1, <4>2 DEF TypeInvariant
      <4> QED
        BY <1>3, <3>2, <4>3 DEF Content, Mapped, FrameOf
    <3>3. CASE q # o /\ ~ Mapped(q)
      <4>1. ~ Mapped(q)' /\ (Allocated(q)' <=> Allocated(q))
        BY <1>3, <3>3 DEF Mapped
      <4> QED
        BY <1>2, <3>3, <4>1, HoleContent
    <3> QED
      BY <3>1, <3>2, <3>3
  <2> QED
    BY <2>1, <2>2, Zenon DEF Content
<1>6. held[c][p] = NoFrame
  BY DEF Inv, PointersStayValid, Mapped
<1>7. PinnedBy' = [PinnedBy EXCEPT ![c] = @ \cup {p}]
  <2>1. \A e \in Clients, q \in PageIds :
          held'[e][q] = IF e = c /\ q = p THEN v ELSE held[e][q]
    BY <1>t DEF TypeInvariant, v
  <2>2. \A e \in Clients :
          PinnedBy'[e] = IF e = c THEN PinnedBy[e] \cup {p} ELSE PinnedBy[e]
    BY <1>4, <2>1 DEF PinnedBy
  <2> QED
    BY <2>2, Zenon DEF PinnedBy
<1> QED
  BY <1>5, <1>6, <1>7 DEF PinnedBy

(* fetch_page of a page on disk is a pin. *)
LEMMA FetchMissMapped ==
  ASSUME Inv, NEW c \in Clients, NEW p \in PageIds, FetchMiss(c, p)
  PROVE  Store!Pin(c, p)
<1> DEFINE d == DiskAfterUpdate(Victim)[p]
<1>1. /\ HasVictim /\ Allocated(p) /\ ~ Mapped(p) /\ d # Absent
      /\ TakeVictim(p, d)
      /\ held' = [held EXCEPT ![c][p] = Victim]
      /\ fd2pageno' = fd2pageno
  BY DEF FetchMiss, Readable
<1>0. Updated(DiskAfterUpdate(Victim), Victim)
  BY <1>1, UpdateFacts
<1>2. d \in Data
  BY <1>0, <1>1 DEF Updated
<1>3. Content[p] = d
  <2>1. p # pages[Victim].id
    <3>1. /\ Victim \in Frames
          /\ pages[Victim] = EmptyPage \/ page_table[pages[Victim].id] = Victim
      BY <1>1, VictimIsEvictable
    <3> QED
      BY <1>1, <3>1, EmptyPageFacts, Constants DEF Mapped
  <2>2. d # disk[p] => disk[p] = Absent /\ d = Zero
    BY <1>0, <2>1 DEF Updated
  <2> QED
    BY <1>1, <2>2 DEF Content, Readable
<1> HIDE DEF d
<1>4. /\ Content' = [Content EXCEPT ![p] = d]
      /\ PinnedBy' = [PinnedBy EXCEPT ![c] = @ \cup {p}]
      /\ p \notin PinnedBy[c]
  BY <1>1, <1>2, TakeVictimMapped, Zenon DEF Allocated
<1>5. Content' = Content
  BY <1>3, <1>4, Zenon DEF Content
<1> QED
  BY <1>1, <1>3, <1>4, <1>5 DEF Store!Pin

(* new_page is an allocation. *)
LEMMA NewPageMapped ==
  ASSUME Inv, NEW c \in Clients, NEW fd \in Files, NewPage(c, fd)
  PROVE  NextPage(fd) \in PageIds /\ Store!Allocate(c, NextPage(fd))
<1> DEFINE p == NextPage(fd)
           d == pages[Victim].data
<1>1. /\ HasVictim
      /\ TakeVictim(p, d)
      /\ held' = [held EXCEPT ![c][p] = Victim]
  BY DEF NewPage
<1>2. fd2pageno[fd] < MaxPages /\ fd2pageno' = [fd2pageno EXCEPT ![fd] = @ + 1]
  BY DEF NewPage
<1>3. /\ p \in PageIds /\ ~ Allocated(p)
      /\ \A q \in PageIds : Allocated(q)' <=> (Allocated(q) \/ q = p)
  BY <1>2, AllocateFacts, Zenon DEF Inv
<1>4. ~ Mapped(p) /\ Content[p] = Absent
  BY <1>3, MappingFacts DEF Inv, NewPagesAreUnused
<1>5. d \in Data
  BY <1>1, VictimIsEvictable DEF Inv, TypeInvariant, Page
<1> HIDE DEF p, d
<1>6. /\ Content' = [Content EXCEPT ![p] = d]
      /\ PinnedBy' = [PinnedBy EXCEPT ![c] = @ \cup {p}]
      /\ p \notin PinnedBy[c]
  BY <1>1, <1>3, <1>4, <1>5, TakeVictimMapped, Zenon
<1>7. Store!Allocate(c, p)
  BY <1>4, <1>5, <1>6, Zenon DEF Store!Allocate
<1> QED
  BY <1>3, <1>7 DEF p

(* Every step of the pool is a step of PageStore or leaves it unchanged.   *)
LEMMA NextMapped ==
  ASSUME Inv, [Next]_vars
  PROVE  [Store!Next]_(Store!vars)
<1>1. CASE UNCHANGED vars
  BY <1>1 DEF vars, Store!vars, Content, PinnedBy, Mapped, FrameOf, Allocated, Readable
<1>2. ASSUME NEW c \in Clients, ClientNext(c)
      PROVE  Store!Next
  <2>1. ASSUME NEW p \in PageIds, FetchHit(c, p) PROVE Store!Next
    BY <2>1, FetchHitMapped DEF Store!Next
  <2>2. ASSUME NEW p \in PageIds, FetchMiss(c, p) PROVE Store!Next
    BY <2>2, FetchMissMapped DEF Store!Next
  <2>3. ASSUME NEW fd \in Files, NewPage(c, fd) PROVE Store!Next
    BY <2>3, NewPageMapped DEF Store!Next
  <2>4. ASSUME NEW p \in PageIds, NEW v \in Values, WritePage(c, p, v) PROVE Store!Next
    BY <2>4, WritePageMapped DEF Store!Next
  <2>5. ASSUME NEW p \in PageIds, NEW dirty \in BOOLEAN, UnpinPage(c, p, dirty)
        PROVE  Store!Next
    BY <2>5, UnpinPageMapped DEF Store!Next
  <2> QED
    BY <1>2, <2>1, <2>2, <2>3, <2>4, <2>5 DEF ClientNext
<1>3. CASE PoolNext
  BY <1>1, <1>3, FlushPageMapped, DeletePageMapped, FlushAllPagesMapped
  DEF PoolNext, NoVictim, Store!vars
<1> QED
  BY <1>1, <1>2, <1>3 DEF Next

(* The buffer pool, with its replacer and its files, implements the page   *)
(* store: caching, eviction and write-back are invisible to its clients.   *)
THEOREM Refinement == Spec => ImplementsPageStore
<1>1. Init => Store!Init
  BY InitMapped
<1>2. Inv /\ [Next]_vars => [Store!Next]_(Store!vars)
  BY NextMapped
<1> QED
  BY <1>1, <1>2, PoolSafety, PTL DEF Spec, ImplementsPageStore, Store!Spec

(* A fetch_page whose write-back throws is not visible; a new_page whose   *)
(* write-back throws loses the page number, which reads as zeros.          *)
LEMMA WriteFaultMapped ==
  ASSUME Inv, WriteFault
  PROVE  UNCHANGED Store!vars \/ \E p \in PageIds : Store!LosePage(p)
<1>1. ASSUME NEW p \in PageIds, FetchWriteThrows(p)
      PROVE  UNCHANGED Store!vars
  BY <1>1
  DEF FetchWriteThrows, VictimLeaks, Store!vars, Content, PinnedBy, Mapped, FrameOf,
      Allocated, Readable
<1>2. ASSUME NEW fd \in Files, NewPageWriteThrows(fd)
      PROVE  \E p \in PageIds : Store!LosePage(p)
  <2> DEFINE p == NextPage(fd)
  <2>1. /\ fd2pageno[fd] < MaxPages
        /\ fd2pageno' = [fd2pageno EXCEPT ![fd] = @ + 1]
        /\ UNCHANGED <<pages, page_table, disk, held>>
    BY <1>2 DEF NewPageWriteThrows, VictimLeaks
  <2>2. /\ p \in PageIds /\ ~ Allocated(p)
        /\ \A q \in PageIds : Allocated(q)' <=> (Allocated(q) \/ q = p)
    BY <2>1, AllocateFacts, Zenon DEF Inv
  <2>3. ~ Mapped(p) /\ disk[p] = Absent
    BY <2>2 DEF Inv, NewPagesAreUnused, Readable
  <2> HIDE DEF p
  <2>4. Content'[p] = Zero /\ Content[p] = Absent
    BY <2>1, <2>2, <2>3 DEF Content, Mapped, Readable
  <2>5. ASSUME NEW q \in PageIds \ {p}
        PROVE  Content'[q] = Content[q]
    <3>1. Allocated(q)' <=> Allocated(q)
      BY <2>2
    <3> QED
      BY <2>1, <3>1 DEF Content, Mapped, FrameOf, Readable
  <2>6. Content' = [Content EXCEPT ![p] = Zero]
    BY <2>4, <2>5, Zenon DEF Content
  <2>7. PinnedBy' = PinnedBy
    BY <2>1 DEF PinnedBy
  <2> QED
    BY <2>2, <2>4, <2>6, <2>7, Constants, Zenon DEF Store!LosePage
<1> QED
  BY <1>1, <1>2 DEF WriteFault

(* When writes fail, the pool implements the page store that may lose a    *)
(* page number: no page has its content changed behind its clients' backs. *)
THEOREM FaultyRefinement == WriteFaultSpec => ImplementsLossyPageStore
<1>1. Init => Store!Init
  BY InitMapped
<1>2. Inv /\ [Next \/ WriteFault]_vars =>
        [Store!Next \/ \E p \in PageIds : Store!LosePage(p)]_(Store!vars)
  BY NextMapped, WriteFaultMapped
<1> QED
  BY <1>1, <1>2, FaultySafety, PTL DEF WriteFaultSpec, ImplementsLossyPageStore, Store!LossySpec
=============================================================================
