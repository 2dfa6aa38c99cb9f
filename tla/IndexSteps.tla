---------------------------- MODULE IndexSteps -----------------------------
(***************************************************************************)
(* One index and the rows of its table, with the operations of             *)
(* IxIndexHandle taken one turn of their loops at a time: find_leaf_page   *)
(* goes down a level, insert_into_parent splits a node, maintain_parent    *)
(* copies a key, IxScan::next moves on.  The session of the model has one  *)
(* operation under way, `call', which is at page call.at; root_latch_      *)
(* keeps the updates and get_value of different sessions apart.  (close_db *)
(* writes neither the header nor the pages of an index; what a new process *)
(* finds is not modelled.)                                                 *)
(***************************************************************************)
EXTENDS IndexNode

VARIABLES
  tree,       \* the index file and its header
  rows,       \* the records of the table, kept beside the index
  call,       \* the operation under way, its key and the page it is at
  walk,       \* the bounds of a range scan, its position and its end
  result      \* what get_value or the scan has returned

indexVars == <<tree, rows, call, walk, result>>

Idle == [do |-> "idle", key |-> <<>>, at |-> NoPage]
NoWalk == [low |-> <<>>, high |-> <<>>, from |-> <<>>, to |-> <<>>]

Init == tree = EmptyTree /\ rows = {} /\ call = Idle /\ walk = NoWalk /\ result = <<>>

At == tree.node[call.at]

---------------------------------------------------------------------------
(***************************************************************************)
(* An operation starts with find_leaf_page, at the root.                   *)
(***************************************************************************)
Start(do, k) == call' = [do |-> do, key |-> k, at |-> tree.root]

Begin(do, k) == call = Idle /\ Start(do, k) /\ UNCHANGED <<tree, rows, walk, result>>

BeginGet(k) == Begin("get", k)
BeginInsert(k) == Begin("insert", k)
BeginDelete(k) == Begin("delete", k)

\* The bounds of a scan are ordered: beginTuple fills each column of lower_k
\* and of upper_k with one value, or with that value and an edge of the type.
\* (FLT_MIN is no lower edge of the FLOATs: see FloatBoundsInOrder in Queries.)
BeginScan(low, high) ==
  /\ call = Idle /\ ~IxLess(high, low)
  /\ Start("lower", low)
  /\ walk' = [NoWalk EXCEPT !.low = low, !.high = high]
  /\ UNCHANGED <<tree, rows, result>>

Descending == call.do \in {"get", "insert", "delete", "lower", "upper"}

GoDown ==
  /\ Descending /\ ~At.leaf
  /\ call' = [call EXCEPT !.at = InternalLookup(At, call.key)]
  /\ UNCHANGED <<tree, rows, walk, result>>

AtLeaf(do) == call.do = do /\ At.leaf

---------------------------------------------------------------------------
(***************************************************************************)
(* get_value, and the insertion of a pair.                                 *)
(***************************************************************************)
GetEnds ==
  /\ AtLeaf("get")
  /\ result' = IF LeafLookup(At, call.key) = {} THEN <<>>
               ELSE <<RidAt(At, LowerBound(At, call.key))>>
  /\ call' = [call EXCEPT !.do = "got"]
  /\ UNCHANGED <<tree, rows, walk>>

\* IndexKeyDuplicateError
InsertRefused ==
  /\ AtLeaf("insert") /\ LeafLookup(At, call.key) # {}
  /\ call' = Idle
  /\ UNCHANGED <<tree, rows, walk, result>>

InsertPair ==
  /\ AtLeaf("insert") /\ LeafLookup(At, call.key) = {}
  /\ tree' = [tree EXCEPT !.node[call.at] = NodeInsert(@, call.key, call.key)]
  /\ rows' = rows \cup {call.key}
  /\ call' = IF IsFull(tree'.node[call.at]) THEN [call EXCEPT !.do = "split"] ELSE Idle
  /\ UNCHANGED <<walk, result>>

SplitFullNode ==
  /\ call.do = "split"
  /\ tree' = SplitNode(tree, call.at)
  /\ call' = IF ParentIsFull(tree', call.at)
           THEN [call EXCEPT !.at = tree'.node[call.at].parent] ELSE Idle
  /\ UNCHANGED <<rows, walk, result>>

---------------------------------------------------------------------------
(***************************************************************************)
(* delete_entry; a key the tree does not hold changes nothing.             *)
(***************************************************************************)
DeleteMisses ==
  /\ AtLeaf("delete") /\ LeafLookup(At, call.key) = {}
  /\ call' = Idle
  /\ UNCHANGED <<tree, rows, walk, result>>

DeletePair ==
  /\ AtLeaf("delete") /\ LeafLookup(At, call.key) # {}
  /\ tree' = [tree EXCEPT !.node[call.at] = NodeRemove(@, call.key)]
  /\ rows' = rows \ {call.key}
  /\ call' = [call EXCEPT !.do = "coalesce"]
  /\ UNCHANGED <<walk, result>>

CoalesceNode ==
  /\ call.do = "coalesce"
  /\ LET c == Coalesce(tree, call.at)
     IN  /\ tree' = c.tree
         /\ call' = IF c.then = "idle" THEN Idle ELSE [call EXCEPT !.do = c.then, !.at = c.at]
  /\ UNCHANGED <<rows, walk, result>>

MaintainKey ==
  /\ call.do = "maintain"
  /\ IF SeparatorDiffers(tree, call.at)
     THEN tree' = CopyKeyUp(tree, call.at) /\ call' = [call EXCEPT !.at = At.parent]
     ELSE tree' = tree /\ call' = Idle
  /\ UNCHANGED <<rows, walk, result>>

---------------------------------------------------------------------------
(***************************************************************************)
(* A scan takes its bounds with lower_bound and upper_bound and walks from *)
(* one to the other.  A position outside the pairs of a leaf throws.       *)
(***************************************************************************)
LowerEnds ==
  /\ AtLeaf("lower")
  /\ walk' = [walk EXCEPT !.from = Iid(tree, call.at, LowerBound(At, call.key))]
  /\ Start("upper", walk.high)
  /\ UNCHANGED <<tree, rows, result>>

UpperEnds ==
  /\ AtLeaf("upper")
  /\ walk' = [walk EXCEPT !.to = Iid(tree, call.at, UpperBound(At, call.key))]
  /\ call' = [call EXCEPT !.do = "scan"]
  /\ UNCHANGED <<tree, rows, result>>

ScanNext ==
  /\ call.do = "scan" /\ walk.from # walk.to
  /\ result' = Append(result, GetRid(tree, walk.from))
  /\ walk' = [walk EXCEPT !.from = IF InNode(tree, @) THEN Iid(tree, @[1], @[2] + 1)
                                   ELSE walk.to]
  /\ UNCHANGED <<tree, rows, call>>

ScanEnds ==
  /\ call.do = "scan" /\ walk.from = walk.to
  /\ call' = [call EXCEPT !.do = "scanned"]
  /\ UNCHANGED <<tree, rows, walk, result>>

Return ==
  /\ call.do \in {"got", "scanned"}
  /\ call' = Idle /\ walk' = NoWalk /\ result' = <<>>
  /\ UNCHANGED <<tree, rows>>

---------------------------------------------------------------------------
(***************************************************************************)
(* The specifications: any insertions, and the operations that work.       *)
(***************************************************************************)
Step ==
  \/ GoDown \/ GetEnds
  \/ InsertRefused \/ InsertPair \/ SplitFullNode
  \/ DeleteMisses \/ DeletePair \/ CoalesceNode \/ MaintainKey
  \/ LowerEnds \/ UpperEnds \/ ScanNext \/ ScanEnds
  \/ Return

InsertSpec ==
  Init /\ [][Step \/ \E k \in Keys : BeginGet(k) \/ BeginInsert(k)]_indexVars

WorkingInsert(k) == InsertWorks(tree, k) /\ BeginInsert(k)

WorkingDelete(k) ==
  /\ \A p \in DOMAIN tree.node :
       tree.node[p].leaf /\ k \in Range(tree.node[p].keys) => LosingOneWorks(tree, p)
  /\ BeginDelete(k)

WorkingBegin ==
  \/ \E k \in Keys : BeginGet(k) \/ WorkingInsert(k) \/ WorkingDelete(k)
  \/ \E low, high \in Keys : BeginScan(low, high)

Next == WorkingBegin \/ Step

Spec == Init /\ [][Next]_indexVars

---------------------------------------------------------------------------
(***************************************************************************)
(* Properties.                                                             *)
(***************************************************************************)

\* No update has left the tree half changed.
Whole == call.do \notin {"split", "coalesce", "maintain"}

Pages == DOMAIN tree.node

\* The shape of the tree: as many keys as values in every node, none over-full
\* and none but the root less than half full; and the parent a node names is
\* the node that points to it, which splits of inner nodes and
\* coalesce_or_redistribute rely on.
TreeTypeInvariant ==
  /\ rows \subseteq Keys /\ tree.next \in Nat
  /\ {tree.root, tree.first, tree.last, LeafHeader} \subseteq Pages
  /\ \A p \in Pages :
       LET n == tree.node[p]
       IN  /\ p \in 1..(tree.next - 1) /\ Range(n.keys) \subseteq Keys
           /\ {n.prev, n.next, n.parent} \subseteq Pages \cup {NoPage}
           /\ Len(n.keys) = Len(n.rids)
           /\ Whole => Size(n) < MaxSize
           /\ IF p \in {tree.root, LeafHeader} THEN n.parent = NoPage
              ELSE /\ p \in Range(tree.node[n.parent].rids)
                   /\ Whole => Size(n) >= MinSize

\* get_value returns, for every key, the record that has it and no other: no
\* sequence of splits, borrowings and separator updates makes a key
\* unreachable from the root, or leaves a deleted one reachable.
LookupsAreExact ==
  call.do = "got" => result = IF call.key \in rows THEN <<call.key>> ELSE <<>>

Ascending(s) == \A i \in DOMAIN s, j \in DOMAIN s : i < j => IxLess(s[i], s[j])

\* The leaf list that range scans walk is linked in both directions from
\* first_leaf_ to last_leaf_, and is in key order: the keys of a leaf ascend,
\* the next leaf has keys above them, and no record has one in between.
LeafListIsInOrder ==
  \A p \in Pages \ {LeafHeader} :
    LET n == tree.node[p]
        q == tree.node[n.next]
        Last == n.keys[Size(n)]
    IN  n.leaf =>
        /\ n.next \in Pages /\ q.leaf /\ q.prev = p
        /\ n.next = LeafHeader <=> p = tree.last
        /\ n.prev = LeafHeader <=> p = tree.first
        /\ Ascending(n.keys)
        /\ Whole /\ p # tree.last => 
             /\ IxLess(Last, q.keys[1])
             /\ \A x \in rows : ~(IxLess(Last, x) /\ IxLess(x, q.keys[1]))

\* A scan from lower_bound(low) to upper_bound(high) returns the records with
\* keys in these bounds: each once, in key order, across the leaves.
ScansAreExact ==
  call.do = "scanned" =>
    /\ Ascending(result)
    /\ Range(result) = {x \in rows : ~IxLess(x, walk.low) /\ ~IxLess(walk.high, x)}

=============================================================================
