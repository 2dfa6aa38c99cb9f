----------------------------- MODULE Executors -----------------------------
(***************************************************************************)
(* The executors of a select statement (src/execution/), as operators from *)
(* the relations they read to the relation they return.  An executor is a  *)
(* pipeline of beginTuple, nextTuple and Next calls; what is kept of it is *)
(* the sequence of records it returns, in order, and how it fails.         *)
(*                                                                         *)
(* A relation is its columns with its rows, a row one integer per column   *)
(* (see Values).  `err' is empty, the exception that was thrown, or        *)
(* "Aborted" when an assertion fails or the process is killed.             *)
(***************************************************************************)
EXTENDS IndexTree, Values, SequencesExt, FiniteSets, TLC

CONSTANTS
  Columns,    \* for each table, its columns in order
  Indexes,    \* for each table, its indexes, each the names of its columns
  RunLength   \* records the external sorter holds in memory

ASSUME RunLengthAssumption == RunLength \in Nat \ {0}

Col(tab, name, aggr) == [tab |-> tab, name |-> name, aggr |-> aggr]
NoCol == Col("", "", "NONE")

Relation(cols, rs) == [err |-> "", cols |-> cols, rows |-> rs]
Fail(e) == [err |-> e, cols |-> <<>>, rows |-> <<>>]
Aborted == Fail("Aborted")

\* get_col: the position of a column, 0 where ColumnNotFoundError is thrown.
GetCol(cols, c, aggr) ==
  SelectInSeq(cols, LAMBDA x : /\ x.tab = c.tab /\ x.name = c.name
                               /\ aggr => x.aggr = c.aggr)

\* get_col_offset of the scans looks at the name alone.
GetColByName(cols, c) == SelectInSeq(cols, LAMBDA x : x.name = c.name)

\* col2Value: a DATE is read as an INT.
Field(cols, row, pos) ==
  [type |-> IF cols[pos].type = "DATE" THEN "INT" ELSE cols[pos].type, v |-> row[pos]]

TypeOf(tab, name) == Columns[tab][GetColByName(Columns[tab], Col(tab, name, "NONE"))].type

---------------------------------------------------------------------------
(***************************************************************************)
(* Scans.  evalConditions takes the conditions in order and stops at the   *)
(* first that fails; a condition with a column on its right is asserted    *)
(* away.                                                                   *)
(***************************************************************************)
Holds(cond, cols, row) ==
  cond.isval => Eval(cond.op, Field(cols, row, GetColByName(cols, cond.lhs)), cond.val)

Asserts(conds, cols, row) ==
  \E i \in DOMAIN conds : ~conds[i].isval /\ \A j \in 1..(i - 1) : Holds(conds[j], cols, row)

Filter(tab, conds, rs) ==
  LET cols == Columns[tab]
  IN  IF \E i \in DOMAIN rs : Asserts(conds, cols, rs[i]) THEN Aborted
      ELSE Relation(cols, SelectSeq(rs, LAMBDA r :
                            \A i \in DOMAIN conds : Holds(conds[i], cols, r)))

SeqScan(tab, conds, heap) == Filter(tab, conds, heap)

\* The conditions up to the first that is not an equality, for each column
\* of the index in turn: index_conds_.
IndexConds(conds, ixcols) ==
  LET neq  == SelectInSeq(conds, LAMBDA c : c.op # "=")
      used == IF neq = 0 THEN conds ELSE SubSeq(conds, 1, neq)
  IN  FlattenSeq([j \in DOMAIN ixcols |->
        SelectSeq(used, LAMBDA c : c.lhs.name = ixcols[j])])

\* Field i of lower_k and upper_k comes from the i-th of these conditions,
\* in the bytes of that condition's column.
KeyEdge(tab, ixcols, ixconds, i, isMax) ==
  LET type == TypeOf(tab, ixcols[i])
      cond == ixconds[i]
      own  == TypeOf(tab, cond.lhs.name)
      open == IF isMax THEN {"!=", ">", ">="} ELSE {"!=", "<", "<="}
  IN  IF i > Len(ixconds) THEN EdgeValue(type, isMax)
      ELSE IF cond.op \in open
      THEN RawAs([type |-> own, v |-> EdgeValue(own, isMax)], type, isMax)
      ELSE RawAs(cond.val, type, isMax)

KeepsItsOp(cond) == [cond EXCEPT !.lhs = cond.rhs, !.rhs = cond.lhs]
NotTurned(cond) == cond

\* The condition with its sides exchanged: swap_op.
Turned(cond) == [cond EXCEPT !.lhs = cond.rhs, !.rhs = cond.lhs, !.op = SwapOp(@)]

\* The records between the bounds, in index order.
Between(tab, ixcols, ixconds, t) ==
  LET key(isMax) == [i \in DOMAIN ixcols |-> KeyEdge(tab, ixcols, ixconds, i, isMax)]
  IN  IxScan(t, LowerIid(t, key(FALSE)), UpperIid(t, key(TRUE)))

NotFound == "IndexEntryNotFoundError"

BoundsAreEnough(tab, conds, found) ==
  IF NoRid \in ToSet(found) THEN Fail(NotFound) ELSE Relation(Columns[tab], found)

\* nextTuple: every condition is evaluated on the records found.
FilterFound(tab, conds, found) ==
  IF NoRid \in ToSet(found) THEN Fail(NotFound) ELSE Filter(tab, conds, found)

IndexScan(tab, conds, ixcols, t) ==
  LET turned == [i \in DOMAIN conds |->
                   IF conds[i].lhs.tab = tab THEN conds[i] ELSE Turned(conds[i])]
      ixconds == IndexConds(turned, ixcols)
  IN  IF \/ \E i \in DOMAIN turned : turned[i].lhs.tab # tab
         \/ \E i \in DOMAIN ixconds :
              i <= Len(ixcols) /\ ~ixconds[i].isval /\ ixconds[i].op # "!="
      THEN Aborted
      ELSE FilterFound(tab, turned, Between(tab, ixcols, ixconds, t))

---------------------------------------------------------------------------
(***************************************************************************)
(* ExternalMergeSorter: runs of RunLength records, each sorted when it is  *)
(* full, merged through a tree of losers.  h[0] is the run that won, h[i]  *)
(* the loser at inner node i; NoRun stands for a dummy or an exhausted run.*)
(***************************************************************************)
NoRun == 0

\* qsort_r, taken to keep the order of equal records.
SortRun(run, pos) ==
  LET before(i, j) == run[i][pos] < run[j][pos] \/ (run[i][pos] = run[j][pos] /\ i < j)
      rank(i) == Cardinality({j \in DOMAIN run : before(j, i)}) + 1
  IN  [k \in DOMAIN run |-> run[CHOOSE i \in DOMAIN run : rank(i) = k]]

WriteRuns(rs, pos) ==
  LET n == (Len(rs) + RunLength - 1) \div RunLength
  IN  [i \in 1..n |->
         SortRun(SubSeq(rs, (i - 1) * RunLength + 1,
                        IF i < n THEN i * RunLength ELSE Len(rs)), pos)]

\* 1 << ceil(log2(n)), the first leaf of the tree of losers.
FirstLeaf(n) ==
  CHOOSE p \in {2^h : h \in 0..n} : p >= n /\ (p = 1 \/ p \div 2 < n)

Wins(runs, r, s, pos) ==
  r # NoRun /\ (IF s = NoRun THEN TRUE ELSE runs[r][1][pos] <= runs[s][1][pos])

RECURSIVE Winner(_, _, _)
Winner(runs, node, pos) ==
  LET p == FirstLeaf(Len(runs))
      l == Winner(runs, 2 * node, pos)
      r == Winner(runs, 2 * node + 1, pos)
  IN  IF node >= p
      THEN IF node - p < Len(runs) THEN node - p + 1 ELSE NoRun
      ELSE IF Wins(runs, l, r, pos) THEN l ELSE r

Losers(runs, pos) ==
  [node \in 0..(FirstLeaf(Len(runs)) - 1) |->
     LET l == Winner(runs, 2 * node, pos)
         r == Winner(runs, 2 * node + 1, pos)
     IN  IF node = 0 THEN Winner(runs, 1, pos)
         ELSE IF Wins(runs, l, r, pos) THEN r ELSE l]

\* adjust: the run that was read plays its way up again.
RECURSIVE Adjust(_, _, _, _, _)
Adjust(h, runs, cur, winner, pos) ==
  LET parent == cur \div 2
  IN  IF cur = 1 THEN [h EXCEPT ![0] = winner]
      ELSE IF Wins(runs, winner, h[parent], pos)
      THEN Adjust(h, runs, parent, winner, pos)
      ELSE Adjust([h EXCEPT ![parent] = winner], runs, parent, h[parent], pos)

RECURSIVE ReadAll(_, _, _, _)
ReadAll(h, runs, left, pos) ==
  LET f    == h[0]
      rest == [runs EXCEPT ![f] = Tail(@)]
      next == IF rest[f] = <<>> THEN NoRun ELSE f
  IN  IF left = 0 THEN <<>>
      ELSE <<Head(runs[f])>> \o
           ReadAll(Adjust(h, rest, f - 1 + FirstLeaf(Len(runs)), next, pos),
                   rest, left - 1, pos)

ExternalSort(rs, pos) ==
  LET runs == WriteRuns(rs, pos) IN ReadAll(Losers(runs, pos), runs, Len(rs), pos)

\* The column is looked up when a SortExecutor is made, before its input runs:
\* an aggregation has no get_col_offset, that of a merge join throws, and the
\* others assert that the column exists.
SortColumnError(kind, c) ==
  CASE kind = "Aggregation" -> "InternalError"
    [] kind \in {"SortMerge", "SortMergeWithIndex"} /\ c = NoCol -> "ColumnNotFoundError"
    [] kind \in {"SeqScan", "IndexScan", "NestLoop"} /\ c = NoCol -> "Aborted"
    [] OTHER -> ""

\* SortExecutor: always ascending, and beginRead divides by the number of runs.
Sort(rel, c) ==
  LET pos == IF \A i \in DOMAIN rel.cols : rel.cols[i].tab = rel.cols[1].tab
             THEN GetColByName(rel.cols, c) ELSE GetCol(rel.cols, c, FALSE)
  IN  IF rel.err # "" THEN rel
      ELSE IF rel.rows = <<>> THEN Aborted
      ELSE [rel EXCEPT !.rows = ExternalSort(@, pos)]

---------------------------------------------------------------------------
(***************************************************************************)
(* Joins.                                                                  *)
(***************************************************************************)
NestedLoopJoin(l, r, conds) ==
  LET lpos(c) == GetCol(l.cols, c.lhs, FALSE)
      rpos(c) == GetCol(r.cols, c.rhs, FALSE)
      meets(x, y) == \A i \in DOMAIN conds :
                       Eval(conds[i].op, Field(l.cols, x, lpos(conds[i])),
                                         Field(r.cols, y, rpos(conds[i])))
      matches(x) == SelectSeq(r.rows, LAMBDA y : meets(x, y))
  IN  IF l.err # "" THEN l ELSE IF r.err # "" THEN r
      ELSE IF /\ l.rows # <<>> /\ r.rows # <<>>
              /\ \E i \in DOMAIN conds : lpos(conds[i]) = 0 \/ rpos(conds[i]) = 0
      THEN Aborted
      ELSE Relation(l.cols \o r.cols,
             FlattenSeq([i \in DOMAIN l.rows |->
               LET m == matches(l.rows[i]) IN [k \in DOMAIN m |-> l.rows[i] \o m[k]]]))

\* nextTuple from the first unread records i and j: it returns no record any
\* more as soon as a side has nothing unread and the last two differ.
RECURSIVE MergeFrom(_, _, _, _, _, _)
MergeFrom(l, r, lp, rp, i, j) ==
  LET RECURSIVE seek(_, _)
      seek(x, y) ==     \* x and y are the records read last
        LET a == Field(l.cols, l.rows[x], lp)
            b == Field(r.cols, r.rows[y], rp)
        IN  IF Equal(a, b)
            THEN <<l.rows[x] \o r.rows[y]>> \o MergeFrom(l, r, lp, rp, x + 1, y + 1)
            ELSE IF x = Len(l.rows) \/ y = Len(r.rows) THEN <<>>
            ELSE IF Greater(a, b) THEN seek(x, y + 1) ELSE seek(x + 1, y)
  IN  IF i > Len(l.rows) \/ j > Len(r.rows) THEN <<>> ELSE seek(i, j)

\* MergeJoinExecutor over two scans: the last equality picks the columns,
\* every other condition is dropped.  Without an index both sides are sorted.
MergeJoin(l, r, conds, useIndex) ==
  LET eqs == SelectSeq(conds, LAMBDA c : c.op = "=")
      c   == Last(eqs)
      lp  == GetCol(l.cols, c.lhs, FALSE)
      rp  == GetCol(r.cols, c.rhs, FALSE)
      sorted(x, pos) == IF useIndex THEN x ELSE [x EXCEPT !.rows = ExternalSort(@, pos)]
  IN  IF l.err # "" THEN l ELSE IF r.err # "" THEN r
      ELSE IF eqs = <<>> THEN Fail("Undefined")
      ELSE IF lp = 0 \/ rp = 0 THEN Fail("ColumnNotFoundError")
      ELSE IF ~useIndex /\ (l.rows = <<>> \/ r.rows = <<>>) THEN Aborted
      ELSE Relation(l.cols \o r.cols,
                    MergeFrom(sorted(l, lp), sorted(r, rp), lp, rp, 1, 1))

---------------------------------------------------------------------------
(***************************************************************************)
(* Aggregation and projection.                                             *)
(***************************************************************************)
Null == -9999

\* aggregate_value over the records of a group; COUNT of none is NULL too.
AggregateValue(rs, aggr, pos) ==
  LET vals == {rs[i][pos] : i \in DOMAIN rs}
  IN  IF rs = <<>> THEN Null
      ELSE CASE aggr = "COUNT" -> Len(rs)
             [] aggr = "SUM"   -> FoldLeft(LAMBDA sum, x : sum + x[pos], 0, rs)
             [] aggr = "MAX"   -> CHOOSE v \in vals : \A w \in vals : w <= v
             [] aggr = "MIN"   -> CHOOSE v \in vals : \A w \in vals : v <= w
             [] OTHER          -> rs[1][pos]

\* store_group: groups in the order their first record was read.
Groups(rs, gpos) ==
  LET key(r) == [i \in DOMAIN gpos |-> r[gpos[i]]]
      firsts == SelectSeq([i \in DOMAIN rs |-> i], LAMBDA i :
                  \A j \in 1..(i - 1) : key(rs[j]) # key(rs[i]))
  IN  [g \in DOMAIN firsts |-> SelectSeq(rs, LAMBDA r : key(r) = key(rs[firsts[g]]))]

\* Next: one value for each selected column, over what is left of a group.
GroupRow(rs, sel, pos) == [i \in DOMAIN sel |-> AggregateValue(rs, sel[i].aggr, pos[i])]

Star(c) == c.aggr = "COUNT" /\ c.name = "*"

Aggregate(rel, sel, group, having) ==
  LET pos(c)  == IF Star(c) THEN 1 ELSE GetCol(rel.cols, c, FALSE)
      type(c) == IF c.aggr = "COUNT" THEN "INT" ELSE rel.cols[pos(c)].type
      out     == [i \in DOMAIN sel |->
                    [tab |-> sel[i].tab, name |-> sel[i].name,
                     type |-> type(sel[i]), aggr |-> sel[i].aggr]]
      gpos    == [i \in DOMAIN group |-> GetCol(rel.cols, group[i], FALSE)]
      groups  == Groups(rel.rows, gpos)
      known(c) == Star(c) \/ GetCol(out, c, TRUE) # 0
      left(rs, r, c) == [type |-> type(c),
                         v |-> IF c.aggr = "NONE" THEN r[pos(c)]
                               ELSE AggregateValue(rs, c.aggr, pos(c))]
      meets(rs, r, i) == Eval(having[i].op, left(rs, r, having[i].lhs), having[i].val)
      kept(rs) == SelectSeq(rs, LAMBDA r : \A i \in DOMAIN having : meets(rs, r, i))
      \* the first condition that throws or fails an assertion, and whether
      \* a record meets the ones before it
      bad == SelectInSeq(having, LAMBDA c : ~known(c.lhs) \/ ~c.isval)
      badReached == bad # 0 /\ \E g \in DOMAIN groups : \E r \in ToSet(groups[g]) :
                      \A i \in 1..(bad - 1) : meets(groups[g], r, i)
      row(rs) == GroupRow(rs, sel, [i \in DOMAIN sel |-> pos(sel[i])])
      full == SelectSeq([g \in DOMAIN groups |-> kept(groups[g])], LAMBDA rs : rs # <<>>)
  IN  IF rel.err # "" THEN rel
      ELSE IF 0 \in ToSet(gpos) \/ \E i \in DOMAIN sel : pos(sel[i]) = 0
      THEN Fail("ColumnNotFoundError")
      ELSE IF groups = <<>> /\ group = <<>> THEN Relation(out, <<row(<<>>)>>)
      ELSE IF badReached
      THEN IF known(having[bad].lhs) THEN Aborted ELSE Fail("ColumnNotFoundError")
      ELSE Relation(out, [g \in DOMAIN full |-> row(full[g])])

Project(rel, sel) ==
  LET pos == [i \in DOMAIN sel |-> GetCol(rel.cols, sel[i], TRUE)]
  IN  IF rel.err # "" THEN rel
      ELSE IF 0 \in ToSet(pos) THEN Fail("ColumnNotFoundError")
      ELSE Relation([i \in DOMAIN pos |-> rel.cols[pos[i]]],
                    [k \in DOMAIN rel.rows |-> [i \in DOMAIN pos |-> rel.rows[k][pos[i]]]])

---------------------------------------------------------------------------
(***************************************************************************)
(* The executors that change a table whose index has all of its columns.   *)
(* They work on [tree, rows, err, works]: `works' says that every call of  *)
(* the index was one it handles (see IndexTree).  A row that fails ends    *)
(* the statement and leaves the rows before it changed.                    *)
(***************************************************************************)
Untouched(t, rs) == [tree |-> t, rows |-> rs, err |-> "", works |-> TRUE]

Broken(x) == [x EXCEPT !.works = FALSE]

IndexInsert(x, k) ==
  IF x.works /\ InsertWorks(x.tree, k)
  THEN [x EXCEPT !.tree = InsertEntry(@, k, k), !.rows = @ \cup {k}] ELSE Broken(x)

InsertsUncast(x, tab, vals) ==
  LET k == [i \in DOMAIN vals |-> vals[i].v]
  IN  IF Len(vals) # Len(Columns[tab]) THEN [x EXCEPT !.err = "InvalidValueCountError"]
      ELSE IF GetValue(x.tree, k) # {} THEN [x EXCEPT !.err = "IndexKeyDuplicateError"]
      ELSE IndexInsert(x, k)

InsertValues(x, tab, vals) ==
  LET cols == Columns[tab]
      k    == [i \in DOMAIN vals |-> TryCast(vals[i], cols[i].type).v]
  IN  IF Len(vals) # Len(cols) THEN [x EXCEPT !.err = "InvalidValueCountError"]
      ELSE IF \E i \in DOMAIN vals : ~CanHold(cols[i].type, vals[i].type)
      THEN [x EXCEPT !.err = "IncompatibleTypeError"]
      ELSE IF GetValue(x.tree, k) # {} THEN [x EXCEPT !.err = "IndexKeyDuplicateError"]
      ELSE IndexInsert(x, k)

DeleteTuple(x, r) ==
  IF x.works /\ DeleteWorks(x.tree, r)
  THEN [x EXCEPT !.tree = DeleteEntry(@, r), !.rows = @ \ {r}] ELSE Broken(x)

\* Each clause is a column's position and a value already cast to its type.
SetFields(r, sets) ==
  FoldLeft(LAMBDA row, s : [row EXCEPT ![s.pos] = s.v], r, sets)

UpdateTuple(x, r, sets) ==
  LET k == SetFields(r, sets)
  IN  IF x.err # "" \/ k = r THEN x
      ELSE IF GetValue(x.tree, k) # {} THEN [x EXCEPT !.err = "IndexKeyDuplicateError"]
      ELSE IndexInsert(DeleteTuple(x, r), k)

---------------------------------------------------------------------------
(***************************************************************************)
(* The portal turns a plan into executors and select_from runs them.  `db' *)
(* has the records of each table in the order of its file, and the tree of *)
(* the index of each table that has one.                                   *)
(***************************************************************************)
RECURSIVE Execute(_, _)
Execute(plan, db) ==
  CASE plan.kind = "SeqScan" -> SeqScan(plan.tab, plan.conds, db.heap[plan.tab])
    [] plan.kind = "IndexScan" ->
         IndexScan(plan.tab, plan.conds, plan.ixcols, db.tree[plan.tab])
    [] plan.kind = "NestLoop" ->
         NestedLoopJoin(Execute(plan.left, db), Execute(plan.right, db), plan.conds)
    [] plan.kind \in {"SortMerge", "SortMergeWithIndex"} ->
         MergeJoin(Execute(plan.left, db), Execute(plan.right, db), plan.conds,
                   plan.kind = "SortMergeWithIndex")
    [] plan.kind = "Sort" ->
         IF SortColumnError(plan.sub.kind, plan.col) # ""
         THEN Fail(SortColumnError(plan.sub.kind, plan.col))
         ELSE Sort(Execute(plan.sub, db), plan.col)
    [] plan.kind = "Aggregation" ->
         Aggregate(Execute(plan.sub, db), plan.sel, plan.group, plan.having)
    [] plan.kind = "Projection" -> Project(Execute(plan.sub, db), plan.sel)

=============================================================================
