----------------------------- MODULE IndexNode -----------------------------
(***************************************************************************)
(* The nodes of an index file (src/index/): what IxNodeHandle does with    *)
(* the pairs of one node, and what one turn of each loop of IxIndexHandle  *)
(* does with the nodes of the tree.  A node holds its pairs in slot order, *)
(* a pair of a leaf is an index key with the Rid of its record, a pair of  *)
(* an inner node a separator with the page of a child.  Slots are counted  *)
(* from 0, as in the code.                                                 *)
(*                                                                         *)
(* Pages are taken to be resident in the pool and zeroed when created;     *)
(* what the pool does is the subject of BufferPool.  Keys are tuples of    *)
(* integers, one per index column; the Rid of a record is the record.      *)
(***************************************************************************)
EXTENDS Integers, Sequences, Functions

CONSTANTS
  Keys,       \* the index keys records may have, tuples of one length
  Order       \* btree_order_, what fits a page less one

\* The columns of an index have integer values here, and every key has all.
ASSUME KeysAssumption ==
  Keys \subseteq Seq(Int) /\ \A x, y \in Keys : Len(x) = Len(y)

\* IxManager::create_index asserts it.
ASSUME OrderAssumption == Order \in Nat /\ Order > 2

NoPage == -1
LeafHeader == 1
InitRoot == 2
MaxSize == Order + 1
MinSize == MaxSize \div 2

\* ix_compare: the first column that differs decides.
IxLess(x, y) ==
  \E i \in DOMAIN x : x[i] < y[i] /\ \A j \in 1..(i - 1) : x[j] = y[j]

---------------------------------------------------------------------------
(***************************************************************************)
(* IxNodeHandle: searching and changing the pairs of one node.             *)
(***************************************************************************)
Size(n) == Len(n.keys)
KeyAt(n, pos) == n.keys[pos + 1]
RidAt(n, pos) == n.rids[pos + 1]

\* What a loop over the slots of n stops at: the first of S, Size(n) if none.
FirstSlot(n, S) ==
  IF S = {} THEN Size(n) ELSE CHOOSE pos \in S : \A other \in S : pos <= other

Slots(n) == 0..(Size(n) - 1)

\* The first slot with a key not below k.
LowerBound(n, k) == FirstSlot(n, {pos \in Slots(n) : ~IxLess(KeyAt(n, pos), k)})

UpperBoundNotStrict(n, k) == FirstSlot(n, {pos \in Slots(n) : ~IxLess(KeyAt(n, pos), k)})

\* The first slot with a key above k.
UpperBound(n, k) == FirstSlot(n, {pos \in Slots(n) : IxLess(k, KeyAt(n, pos))})

LeafLookup(n, k) ==
  LET pos == LowerBound(n, k)
  IN  IF pos # Size(n) /\ KeyAt(n, pos) = k THEN {RidAt(n, pos)} ELSE {}

\* The child to descend to: the last one whose separator is not above k.
InternalLookup(n, k) ==
  RidAt(n, IF UpperBound(n, k) = 0 THEN 0 ELSE UpperBound(n, k) - 1)

FindChild(n, page) == FirstSlot(n, {pos \in Slots(n) : RidAt(n, pos) = page})

InsertPairs(n, pos, ks, rs) ==
  [n EXCEPT !.keys = SubSeq(@, 1, pos) \o ks \o SubSeq(@, pos + 1, Len(@)),
            !.rids = SubSeq(@, 1, pos) \o rs \o SubSeq(@, pos + 1, Len(@))]

ErasePair(n, pos) ==
  [n EXCEPT !.keys = SubSeq(@, 1, pos) \o SubSeq(@, pos + 2, Len(@)),
            !.rids = SubSeq(@, 1, pos) \o SubSeq(@, pos + 2, Len(@))]

\* IxNodeHandle::insert of a key the node lacks, and remove of one it has.
NodeInsert(n, k, rid) == InsertPairs(n, LowerBound(n, k), <<k>>, <<rid>>)
NodeRemove(n, k) == ErasePair(n, LowerBound(n, k))

\* The pairs from slot `first' up to slot `last'.
Part(n, first, last) ==
  [n EXCEPT !.keys = SubSeq(@, first + 1, last + 1), !.rids = SubSeq(@, first + 1, last + 1)]

---------------------------------------------------------------------------
(***************************************************************************)
(* The file.  create_index writes the leaf header page and an empty root   *)
(* leaf, linked to each other; first_leaf_ never changes afterwards.       *)
(* `next' is the disk manager's page counter for the file, from which      *)
(* create_node takes the page of a new node.                               *)
(***************************************************************************)
EmptyNode ==
  [leaf |-> FALSE, parent |-> NoPage, prev |-> NoPage, next |-> NoPage,
   keys |-> <<>>, rids |-> <<>>]

EmptyLeaf(link) == [EmptyNode EXCEPT !.leaf = TRUE, !.prev = link, !.next = link]

EmptyTree ==
  [node |-> [p \in {LeafHeader, InitRoot} |->
               EmptyLeaf(IF p = InitRoot THEN LeafHeader ELSE InitRoot)],
   root |-> InitRoot, first |-> InitRoot, last |-> InitRoot,
   next |-> InitRoot + 1]

SplitForgetsPrev(t, page) ==
  LET new   == t.next
      n     == t.node[page]
      right == [Part(n, Size(n) \div 2, Size(n) - 1) EXCEPT !.prev = page]
      left  == [Part(n, 0, Size(n) \div 2 - 1) EXCEPT !.next = IF n.leaf THEN new ELSE @]
  IN  [t EXCEPT !.next = @ + 1,
                !.node = [p \in DOMAIN @ \cup {new} |->
                            IF p = new THEN right
                            ELSE IF p = page THEN left
                            ELSE IF ~n.leaf /\ p \in Range(right.rids) THEN [@[p] EXCEPT !.parent = new]
                            ELSE @[p]]]

\* split: the upper half of a node moves to a new right sibling, t.next; the
\* children that move, or the next leaf, are told (maintain_child).  The leaf
\* links of an inner node are never read.
Split(t, page) ==
  LET new   == t.next
      n     == t.node[page]
      half  == Size(n) \div 2
      right == [Part(n, half, Size(n) - 1) EXCEPT !.prev = IF n.leaf THEN page ELSE NoPage]
      left  == [Part(n, 0, half - 1) EXCEPT !.next = IF n.leaf THEN new ELSE @]
  IN  [t EXCEPT !.next = @ + 1,
                !.node = [p \in DOMAIN @ \cup {new} |->
                            IF p = new THEN right
                            ELSE IF p = page THEN left
                            ELSE IF n.leaf /\ p = n.next THEN [@[p] EXCEPT !.prev = new]
                            ELSE IF ~n.leaf /\ p \in Range(right.rids) THEN [@[p] EXCEPT !.parent = new]
                            ELSE @[p]]]

\* insert_into_parent, up to its recursion: the pair of `new' goes behind the
\* one of `old' in their parent, or both go into a new root.
AddToParent(t, old, new) ==
  LET up   == t.node[old].parent
      root == t.next
      key  == KeyAt(t.node[new], 0)
  IN  IF up # NoPage
      THEN [t EXCEPT !.node[up] =
              InsertPairs(@, FindChild(@, old) + 1, <<key>>, <<new>>)]
      ELSE [t EXCEPT !.next = @ + 1, !.root = root,
                     !.node = [p \in DOMAIN @ \cup {root} |->
                        IF p = root
                        THEN [EmptyNode EXCEPT !.keys = <<KeyAt(t.node[old], 0), key>>,
                                               !.rids = <<old, new>>]
                        ELSE IF p \in {old, new} THEN [@[p] EXCEPT !.parent = root]
                        ELSE @[p]]]

\* A node is split and its right half put into the parent; where the node is
\* the last leaf, insert_entry makes the new one last_leaf_.
SplitNode(t, page) ==
  [AddToParent(Split(t, page), page, t.next)
     EXCEPT !.last = IF @ = page THEN t.next ELSE @]

\* The parent is split as well when this makes it full.
ParentIsFull(t, page) ==
  t.node[page].parent # NoPage /\ Size(t.node[t.node[page].parent]) >= MaxSize

SplitsLate(n) == Size(n) > MaxSize

\* insert_entry splits the leaf it has put a pair into when that is full.
IsFull(n) == Size(n) = MaxSize

---------------------------------------------------------------------------
(***************************************************************************)
(* maintain_parent: the separator of a page is made its first key, and so  *)
(* on upwards while it differs.                                            *)
(***************************************************************************)
Rank(t, page) == FindChild(t.node[t.node[page].parent], page)

SeparatorDiffers(t, page) ==
  /\ t.node[page].parent # NoPage
  /\ KeyAt(t.node[t.node[page].parent], Rank(t, page)) # KeyAt(t.node[page], 0)

CopyKeyUp(t, page) ==
  [t EXCEPT !.node[t.node[page].parent].keys[Rank(t, page) + 1] = KeyAt(t.node[page], 0)]

---------------------------------------------------------------------------
(***************************************************************************)
(* Deletion.                                                               *)
(***************************************************************************)

\* adjust_root: an empty root leaf makes page 2 the root again, and an inner
\* root with one child is fetched as its own successor.
AdjustRoot(t, page) ==
  IF t.node[page].leaf
  THEN IF Size(t.node[page]) = 0 THEN [t EXCEPT !.root = InitRoot] ELSE t
  ELSE IF Size(t.node[page]) = 1 THEN [t EXCEPT !.node[t.root].parent = 0] ELSE t

MaintainChild(t, page, pos) ==
  IF t.node[page].leaf THEN t
  ELSE [t EXCEPT !.node[RidAt(t.node[page], pos)].parent = page]

\* redistribute, up to maintain_parent: one pair moves from the neighbour;
\* index 0 says that the neighbour is on the right.
Redistribute(t, nb, page, index) ==
  LET n    == t.node[page]
      s    == t.node[nb]
      from == IF index = 0 THEN 0 ELSE Size(s) - 1
      to   == IF index = 0 THEN Size(n) ELSE 0
  IN  MaintainChild(
        [t EXCEPT
           !.node[page] = InsertPairs(n, to, <<KeyAt(s, from)>>, <<RidAt(s, from)>>),
           !.node[nb] = ErasePair(s, from)],
        page, to)

\* coalesce, up to the recursion: the right node's pairs are appended to the
\* left one, which `index' decides, and slot `index' leaves the parent.  The
\* slots whose children maintain_child is called for lie past the merged pairs;
\* what bytes are there names no child of the node, and it is left out.
Merge(t, nb, page, up, index) ==
  LET left  == IF index = 0 THEN page ELSE nb
      right == IF index = 0 THEN nb ELSE page
      r  == t.node[right]
      l  == InsertPairs(t.node[left], Size(t.node[left]), r.keys, r.rids)
  IN  [t EXCEPT !.node[left] = l, !.node[up] = ErasePair(@, index),
                !.last = IF r.leaf /\ @ = right THEN left ELSE @]

\* coalesce_or_redistribute, up to the loop of maintain_parent or its own
\* recursion, which `then' and `at' name.  ("No siblings found!" is never
\* thrown: the parent holds the node, so that slot 1 is not past its size.)
Coalesce(t, page) ==
  LET n   == t.node[page]
      up  == n.parent
      pos == Rank(t, page)
      sib == IF pos = 0 THEN 1 ELSE pos - 1
      nb  == RidAt(t.node[up], sib)
      Go(tree, then, at) == [tree |-> tree, then |-> then, at |-> at]
  IN  IF up = NoPage THEN Go(AdjustRoot(t, page), "idle", page)
      ELSE IF Size(n) >= MinSize THEN Go(t, "maintain", page)
      ELSE IF Size(n) + Size(t.node[nb]) >= 2 * MinSize
      THEN Go(Redistribute(t, nb, page, sib), "maintain", IF sib = 0 THEN nb ELSE page)
      ELSE Go(Merge(t, nb, page, up, sib), "coalesce", up)

---------------------------------------------------------------------------
(***************************************************************************)
(* Range scans: an Iid is a leaf and a slot, and a slot past the last of a *)
(* leaf is slot 0 of the next leaf, but for the last leaf.                 *)
(***************************************************************************)
StaysInLeaf(t, leaf, pos) == <<leaf, pos>>

Iid(t, leaf, pos) ==
  IF pos = Size(t.node[leaf]) /\ leaf # t.last
  THEN <<t.node[leaf].next, 0>> ELSE <<leaf, pos>>

NoRid == <<>>

InNode(t, iid) == iid[2] < Size(t.node[iid[1]])

\* get_rid: NoRid is IndexEntryNotFoundError.
GetRid(t, iid) == IF InNode(t, iid) THEN RidAt(t.node[iid[1]], iid[2]) ELSE NoRid

---------------------------------------------------------------------------
(***************************************************************************)
(* The operations that work.  A key below the first separator leaves that  *)
(* separator as it was, and a later split of the first leaf then puts a    *)
(* smaller one after it.  A leaf that underflows is handled only when it   *)
(* borrows from a left sibling that is not its parent's first child.       *)
(***************************************************************************)
InsertWorks(t, k) ==
  LET n == t.node[t.root] IN ~n.leaf => ~IxLess(k, n.keys[1])

LosingOneWorks(t, leaf) ==
  LET up  == t.node[leaf].parent
      pos == Rank(t, leaf)
  IN  IF up = NoPage \/ Size(t.node[leaf]) > MinSize THEN TRUE
      ELSE pos > 1 /\ Size(t.node[RidAt(t.node[up], pos - 1)]) > MinSize

=============================================================================
