----------------------------- MODULE IndexTree -----------------------------
(***************************************************************************)
(* The operations IxIndexHandle offers to the executors, each as a whole:  *)
(* root_latch_ makes insert_entry, delete_entry and get_value atomic.  The *)
(* loops and recursions of the code are recursions here over the steps     *)
(* that IndexNode defines.  (IndexSteps takes the same steps one by one.)  *)
(***************************************************************************)
EXTENDS IndexNode

RECURSIVE Descend(_, _, _)
Descend(t, page, k) ==
  IF t.node[page].leaf THEN page
  ELSE Descend(t, InternalLookup(t.node[page], k), k)

FindLeafPage(t, k) == Descend(t, t.root, k)

\* get_value
GetValue(t, k) == LeafLookup(t.node[FindLeafPage(t, k)], k)

\* split and insert_into_parent, up to the first parent with room.
RECURSIVE SplitUp(_, _)
SplitUp(t, page) ==
  LET t1 == SplitNode(t, page)
  IN  IF ParentIsFull(t1, page) THEN SplitUp(t1, t1.node[page].parent) ELSE t1

InsertIntoLeaf(t, leaf, k, rid) ==
  LET t1 == [t EXCEPT !.node[leaf] = NodeInsert(@, k, rid)]
  IN  IF IsFull(t1.node[leaf]) THEN SplitUp(t1, leaf) ELSE t1

\* insert_entry, for a key the tree does not hold (a key it holds is refused).
InsertEntry(t, k, rid) == InsertIntoLeaf(t, FindLeafPage(t, k), k, rid)

RECURSIVE MaintainParent(_, _)
MaintainParent(t, page) ==
  IF SeparatorDiffers(t, page)
  THEN MaintainParent(CopyKeyUp(t, page), t.node[page].parent) ELSE t

RECURSIVE CoalesceOrRedistribute(_, _)
CoalesceOrRedistribute(t, page) ==
  LET c == Coalesce(t, page)
  IN  CASE c.then = "maintain" -> MaintainParent(c.tree, c.at)
        [] c.then = "coalesce" -> CoalesceOrRedistribute(c.tree, c.at)
        [] OTHER -> c.tree

DeleteFromLeaf(t, leaf, k) ==
  IF LeafLookup(t.node[leaf], k) = {} THEN t
  ELSE CoalesceOrRedistribute([t EXCEPT !.node[leaf] = NodeRemove(@, k)], leaf)

\* delete_entry: a key the tree does not hold changes nothing.
DeleteEntry(t, k) == DeleteFromLeaf(t, FindLeafPage(t, k), k)

DeleteWorks(t, k) == LosingOneWorks(t, FindLeafPage(t, k))

---------------------------------------------------------------------------
LowerIid(t, k) ==
  LET leaf == FindLeafPage(t, k) IN Iid(t, leaf, LowerBound(t.node[leaf], k))

UpperIid(t, k) ==
  LET leaf == FindLeafPage(t, k) IN Iid(t, leaf, UpperBound(t.node[leaf], k))

\* The Rids an IxScan from iid to end returns, with NoRid where a walk that
\* leaves the pairs of a leaf fails an assertion or throws.
RECURSIVE IxScan(_, _, _)
IxScan(t, iid, end) ==
  IF iid = end THEN <<>>
  ELSE <<GetRid(t, iid)>> \o
       IF InNode(t, iid) THEN IxScan(t, Iid(t, iid[1], iid[2] + 1), end) ELSE <<>>

=============================================================================
