---------------------------- MODULE LRUReplacer ----------------------------
(***************************************************************************)
(* The LRU replacement policy of the buffer pool.  LRUlist_ holds the      *)
(* frames that may be evicted, the most recently released one first;       *)
(* LRUhash_ holds the position of each of them in the list and carries no  *)
(* further information, so a list is the whole state.                      *)
(***************************************************************************)
EXTENDS Integers, Sequences, Functions

(* LRUReplacer::victim takes the back of the list, if there is one.        *)
HasLruVictim(list) == list # <<>>
LruVictimAtFront(list) == list[1]
LruVictim(list) == list[Len(list)]
AfterLruVictim(list) == SubSeq(list, 1, Len(list) - 1)

(* LRUhash_: whether a frame is in the list, and where.                    *)
InLru(list, f) == f \in Range(list)
LruHash(list, f) == CHOOSE i \in DOMAIN list : list[i] = f

LruPinForgotten(list, f) == list

(* LRUReplacer::pin erases the frame from the list if it is there.         *)
LruPin(list, f) ==
  IF InLru(list, f)
  THEN SubSeq(list, 1, LruHash(list, f) - 1) \o SubSeq(list, LruHash(list, f) + 1, Len(list))
  ELSE list

LruUnpinForgotten(list, f) == list

(* LRUReplacer::unpin puts the frame at the front; a frame that is already *)
(* in the list keeps its place.                                            *)
LruUnpin(list, f) == IF InLru(list, f) THEN list ELSE <<f>> \o list
=============================================================================
