------------------------------ MODULE Planner ------------------------------
(***************************************************************************)
(* From a parsed select statement to a plan: the analyzer (src/analyze/)   *)
(* completes and checks names and types, the planner (src/optimizer/)      *)
(* chooses scans and joins.                                                *)
(*                                                                         *)
(* A statement has its tables in FROM order, its select list (empty for a  *)
(* star), its conditions, its grouping columns and HAVING conditions, and  *)
(* the name it is ordered by.  A column without a table has tab "".        *)
(***************************************************************************)
EXTENDS Executors

---------------------------------------------------------------------------
(***************************************************************************)
(* Analyze.  The first error met is the one thrown.                        *)
(***************************************************************************)
AllCols(tabs) == FlattenSeq([i \in DOMAIN tabs |-> Columns[tabs[i]]])

\* check_column: a missing table name is inferred.  A given one need not be
\* one of the statement's tables.
CheckColumn(cols, c) ==
  LET named == SelectSeq(cols, LAMBDA x : x.name = c.name)
      ok(x) == [err |-> "", col |-> x]
      bad(e) == [err |-> e, col |-> c]
  IN  IF c.tab = ""
      THEN CASE Len(named) > 1 -> bad("AmbiguousColumnError")
             [] Len(named) = 1 -> ok([c EXCEPT !.tab = named[1].tab])
             [] OTHER -> IF Star(c) THEN ok(c) ELSE bad("ColumnNotFoundError")
      ELSE IF c.tab \notin DOMAIN Columns THEN bad("TableNotFoundError")
      ELSE IF GetCol(Columns[c.tab], c, FALSE) = 0 THEN bad("ColumnNotFoundError")
      ELSE ok(c)

CheckColumns(cols, cs) == [i \in DOMAIN cs |-> CheckColumn(cols, cs[i])]

\* The first error in a sequence of checks, "" when there is none.
FirstError(checks) ==
  LET i == SelectInSeq(checks, LAMBDA c : c.err # "")
  IN  IF i = 0 THEN "" ELSE checks[i].err

ColumnType(c) == IF Star(c) THEN "INT" ELSE TypeOf(c.tab, c.name)

\* check_where_clause, for WHERE and for HAVING; l and r are the two columns,
\* as check_column left them.
CheckedCond(cond, l, r, isHaving) ==
  LET rtype == IF cond.isval THEN cond.val.type ELSE ColumnType(r.col)
      err == IF \/ ~isHaving /\ cond.lhs.aggr # "NONE"
                \/ ~cond.isval /\ cond.rhs.aggr # "NONE"
             THEN "AmbiguousColumnError"
             ELSE IF FirstError(<<l, r>>) # "" THEN FirstError(<<l, r>>)
             ELSE IF ~CanHold(ColumnType(l.col), rtype) THEN "IncompatibleTypeError"
             ELSE ""
  IN  [err |-> err, cond |-> [cond EXCEPT !.lhs = l.col, !.rhs = r.col]]

CheckCond(cols, cond, isHaving) ==
  CheckedCond(cond, CheckColumn(cols, cond.lhs),
              IF cond.isval THEN [err |-> "", col |-> NoCol] ELSE CheckColumn(cols, cond.rhs),
              isHaving)

CheckConds(cols, conds, isHaving) ==
  [i \in DOMAIN conds |-> CheckCond(cols, conds[i], isHaving)]

\* The select list: a star stands for every column.
SelectList(q, all) ==
  IF q.cols # <<>> THEN CheckColumns(all, q.cols)
  ELSE [i \in DOMAIN all |-> [err |-> "", col |-> Col(all[i].tab, all[i].name, "NONE")]]

\* do_analyze of a select statement, with its parts as they were checked.
Analyzed(q, cols, having, group, conds) ==
  LET aggs == {q.cols[i].aggr # "NONE" : i \in DOMAIN q.cols}
      ungrouped == \E i \in DOMAIN cols :
                     /\ cols[i].col.aggr = "NONE"
                     /\ \A j \in DOMAIN group : GetCol(<<group[j].col>>, cols[i].col, FALSE) = 0
      err == IF aggs = {TRUE, FALSE} /\ q.group = <<>> THEN "AmbiguousColumnError"
             ELSE IF FirstError(cols \o having \o group) # ""
             THEN FirstError(cols \o having \o group)
             ELSE IF q.group # <<>> /\ ungrouped THEN "AmbiguousColumnError"
             ELSE FirstError(conds)
  IN  [err |-> err, tabs |-> q.tabs, order |-> q.order, hasAggr |-> TRUE \in aggs,
       cols |-> [i \in DOMAIN cols |-> cols[i].col],
       group |-> [i \in DOMAIN group |-> group[i].col],
       having |-> [i \in DOMAIN having |-> having[i].cond],
       conds |-> [i \in DOMAIN conds |-> conds[i].cond]]

Analyze(q) ==
  LET all == AllCols(q.tabs)
  IN  IF ~(ToSet(q.tabs) \subseteq DOMAIN Columns) THEN [err |-> "TableNotFoundError"]
      ELSE Analyzed(q, SelectList(q, all), CheckConds(all, q.having, TRUE),
                    CheckColumns(all, q.group), CheckConds(all, q.conds, FALSE))

\* check_set_clause: the values are cast to the types of their columns.
CheckSet(tab, s) ==
  LET pos == GetColByName(Columns[tab], Col(tab, s.name, "NONE"))
      type == Columns[tab][pos].type
  IN  IF pos = 0 THEN [err |-> "ColumnNotFoundError"]
      ELSE IF ~CanHold(type, s.val.type) THEN [err |-> "IncompatibleTypeError"]
      ELSE [err |-> "", pos |-> pos, v |-> TryCast(s.val, type).v]

\* do_analyze of a delete or an update statement; an insert is not checked.
AnalyzedChange(q, conds, sets) ==
  [err |-> FirstError(conds \o sets), tabs |-> q.tabs, sets |-> sets,
   conds |-> [i \in DOMAIN conds |-> conds[i].cond]]

AnalyzeChange(q) ==
  IF ~(ToSet(q.tabs) \subseteq DOMAIN Columns) THEN [err |-> "TableNotFoundError"]
  ELSE AnalyzedChange(q, CheckConds(AllCols(q.tabs), q.conds, FALSE),
                      [i \in DOMAIN q.sets |-> CheckSet(q.tabs[1], q.sets[i])])

---------------------------------------------------------------------------
(***************************************************************************)
(* Choosing an index: get_index_cols.                                      *)
(***************************************************************************)
TurnTo(tab, cond) ==
  IF cond.lhs.tab # tab /\ ~cond.isval /\ cond.rhs.tab = tab
  THEN Turned(cond) ELSE cond

\* The last condition on a column with an equality, or without one; 0 if none.
LastCond(conds, name, isEq) ==
  SelectLastInSeq(conds, LAMBDA c : c.lhs.name = name /\ (c.op = "=") = isEq)

\* How many leading columns of an index the conditions match: equalities, and
\* at most one other condition, at the end.
RECURSIVE MatchLength(_, _, _)
MatchLength(conds, ix, j) ==
  IF j > Len(ix) THEN 0
  ELSE IF LastCond(conds, ix[j], TRUE) # 0 THEN 1 + MatchLength(conds, ix, j + 1)
  ELSE IF LastCond(conds, ix[j], FALSE) # 0 THEN 1
  ELSE 0

\* The index with the longest match, the first of them; 0 if none matches.
BestIndex(tab, conds) ==
  LET len(i) == MatchLength(conds, Indexes[tab][i], 1)
  IN  SelectInSeq([i \in DOMAIN Indexes[tab] |-> i], LAMBDA i :
        len(i) > 0 /\ \A j \in DOMAIN Indexes[tab] :
                        len(j) < len(i) \/ (len(j) = len(i) /\ i <= j))

\* The matched conditions, one for each leading column of the index.
Matched(conds, ix) ==
  [j \in 1..MatchLength(conds, ix, 1) |->
     LET eq == LastCond(conds, ix[j], TRUE)
     IN  IF eq # 0 THEN eq ELSE LastCond(conds, ix[j], FALSE)]

\* The matched conditions, and the others after them.
InFront(conds, matched) ==
  [i \in DOMAIN matched |-> conds[matched[i]]] \o
  LET others == SelectSeq([i \in DOMAIN conds |-> i], LAMBDA i : i \notin ToSet(matched))
  IN  [i \in DOMAIN others |-> conds[others[i]]]

UseIndex(tab, conds, best) ==
  LET ix == Indexes[tab][best]
  IN  IF best = 0 THEN [ixcols |-> <<>>, conds |-> conds]
      ELSE [ixcols |-> ix, conds |-> InFront(conds, Matched(conds, ix))]

GetIndexCols(tab, given) ==
  LET conds == [i \in DOMAIN given |-> TurnTo(tab, given[i])]
  IN  UseIndex(tab, conds, BestIndex(tab, conds))

---------------------------------------------------------------------------
(***************************************************************************)
(* make_one_rel: a scan for every table, then the joins.                   *)
(***************************************************************************)

\* pop_conds takes the conditions a scan of the table can check, and every
\* condition that compares two columns of one table, whichever it is.
Pops(tab, cond) ==
  (cond.lhs.tab = tab /\ cond.isval) \/ cond.lhs.tab = cond.rhs.tab

ScanOf(tab, x) ==
  [kind |-> IF x.ixcols = <<>> THEN "SeqScan" ELSE "IndexScan",
   tab |-> tab, conds |-> x.conds, ixcols |-> x.ixcols]

ScanPlan(tab, conds) == ScanOf(tab, GetIndexCols(tab, conds))

FullIndexScan(tab, ixcols) ==
  [kind |-> "IndexScan", tab |-> tab, conds |-> <<>>, ixcols |-> ixcols]

Join(kind, l, r, conds) == [kind |-> kind, left |-> l, right |-> r, conds |-> conds]

\* The tables scanned under a plan.
RECURSIVE TablesOf(_)
TablesOf(p) ==
  IF p.kind \in {"SeqScan", "IndexScan"} THEN {p.tab} ELSE TablesOf(p.left) \cup TablesOf(p.right)

\* push_conds: a condition between tables already joined goes to the join
\* that has one of them on each side, turned so that its left column is there.
RECURSIVE PushCond(_, _)
PushCond(cond, p) ==
  LET both(x) == {cond.lhs.tab, cond.rhs.tab} \subseteq TablesOf(x)
      turned == IF cond.lhs.tab \in TablesOf(p.left) THEN cond ELSE Turned(cond)
  IN  IF both(p.left) THEN [p EXCEPT !.left = PushCond(cond, @)]
      ELSE IF both(p.right) THEN [p EXCEPT !.right = PushCond(cond, @)]
      ELSE [p EXCEPT !.conds = Append(@, turned)]

\* With sort-merge joins, the join by the indexes of its two columns, or by
\* sorting where neither has one.
MergePlan(c, scans, lix, rix) ==
  IF (lix = <<>>) # (rix = <<>>) THEN Aborted
  ELSE IF lix = <<>> THEN Join("SortMerge", scans[c.lhs.tab], scans[c.rhs.tab], <<c>>)
  ELSE Join("SortMergeWithIndex", FullIndexScan(c.lhs.tab, lix),
            FullIndexScan(c.rhs.tab, rix), <<c>>)

FirstJoin(c, scans, knob) ==
  CASE knob = "nestloop" -> Join("NestLoop", scans[c.lhs.tab], scans[c.rhs.tab], <<c>>)
    [] knob = "none" -> Fail("RMDBError")
    [] knob = "sortmerge" ->
         MergePlan(c, scans, GetIndexCols(c.lhs.tab, <<c>>).ixcols,
                   GetIndexCols(c.rhs.tab, <<[c EXCEPT !.lhs = c.rhs, !.rhs = c.lhs]>>).ixcols)

\* The columns of the first condition are put in FROM order, the operator is
\* not.
InFromOrder(c, tabs) ==
  IF c.lhs.tab = tabs[2] /\ c.rhs.tab = tabs[1]
  THEN [c EXCEPT !.lhs = c.rhs, !.rhs = c.lhs] ELSE c

\* One more condition: it joins two new tables, one new table, or none.
AddJoin(p, cond, scans) ==
  LET newL == cond.lhs.tab \notin TablesOf(p)
      newR == cond.rhs.tab \notin TablesOf(p)
  IN  CASE newL /\ newR -> Join("NestLoop", Join("NestLoop", scans[cond.lhs.tab],
                                                 scans[cond.rhs.tab], <<cond>>), p, <<>>)
        [] newR /\ ~newL -> Join("NestLoop", scans[cond.rhs.tab], p, <<Turned(cond)>>)
        [] newL /\ ~newR -> Join("NestLoop", scans[cond.lhs.tab], p, <<cond>>)
        [] OTHER -> PushCond(cond, p)

\* The tables no condition joined, in FROM order, on the left of what there is.
RECURSIVE CrossRest(_, _, _, _)
CrossRest(p, tabs, i, scans) ==
  IF i > Len(tabs) THEN p
  ELSE IF tabs[i] \in TablesOf(p) THEN CrossRest(p, tabs, i + 1, scans)
  ELSE CrossRest(Join("NestLoop", scans[tabs[i]], p, <<>>), tabs, i + 1, scans)

IsFail(p) == "err" \in DOMAIN p

\* The first join, with the conditions and the tables that are left.
JoinRest(first, joins, tabs, scans) ==
  IF IsFail(first) THEN first
  ELSE CrossRest(FoldLeft(LAMBDA p, c : AddJoin(p, c, scans), first, Tail(joins)),
                 tabs, 1, scans)

\* A join condition on a table outside FROM has no scan to join.  (That a
\* later one of several such conditions is dropped instead, and that a merge
\* join by index makes up the scan, is left out.)
JoinTables(tabs, scans, joins, knob) ==
  IF Len(tabs) = 1 THEN scans[tabs[1]]
  ELSE IF joins = <<>> THEN CrossRest(scans[tabs[1]], tabs, 1, scans)
  ELSE IF \E i \in DOMAIN joins : ~({joins[i].lhs.tab, joins[i].rhs.tab} \subseteq ToSet(tabs))
  THEN Aborted
  ELSE JoinRest(FirstJoin(InFromOrder(joins[1], tabs), scans, knob), joins, tabs, scans)

MakeOneRel(a, knob) ==
  LET \* what the tables before the i-th leave of the conditions
      left(i) == SelectSeq(a.conds, LAMBDA c : \A k \in 1..(i - 1) : ~Pops(a.tabs[k], c))
      own(i) == SelectSeq(left(i), LAMBDA c : Pops(a.tabs[i], c))
  IN  JoinTables(a.tabs,
                 [t \in ToSet(a.tabs) |->
                    ScanPlan(t, own(SelectInSeq(a.tabs, LAMBDA x : x = t)))],
                 left(Len(a.tabs) + 1), knob)

\* generate_aggregation_group_plan
AggregationPlan(a, rel) ==
  IF ~a.hasAggr /\ a.group = <<>> THEN rel
  ELSE [kind |-> "Aggregation", sub |-> rel, sel |-> a.cols,
        group |-> a.group, having |-> a.having]

\* generate_sort_plan: the last column of the FROM tables with the name.
SortPlan(a, sub) ==
  LET all == AllCols(a.tabs)
      at  == SelectLastInSeq(all, LAMBDA x : x.name = a.order)
      by  == IF at = 0 THEN NoCol ELSE Col(all[at].tab, all[at].name, "NONE")
  IN  IF a.order = "" THEN sub ELSE [kind |-> "Sort", sub |-> sub, col |-> by]

\* generate_select_plan
SelectPlan(a, rel) ==
  IF IsFail(rel) THEN rel
  ELSE [kind |-> "Projection", sub |-> SortPlan(a, AggregationPlan(a, rel)), sel |-> a.cols]

RunPlan(p, db) == IF IsFail(p) THEN p ELSE Execute(p, db)

\* The answer to an analysed statement, through the planner and the executors.
Answer(a, knob, db) ==
  IF a.err # "" THEN Fail(a.err) ELSE RunPlan(SelectPlan(a, MakeOneRel(a, knob)), db)

\* do_planner of a delete or an update statement: one scan finds the rows.
ChangePlan(a) == ScanPlan(a.tabs[1], a.conds)

\* The portal reads the Rids a scan finds before the executor changes a row.
ChangeRows(kind, a, scan, x) ==
  IF scan.err # "" THEN [x EXCEPT !.err = scan.err]
  ELSE IF kind = "delete" THEN FoldLeft(DeleteTuple, x, scan.rows)
  ELSE FoldLeft(LAMBDA y, r : UpdateTuple(y, r, a.sets), x, scan.rows)

Change(q, a, db, x) ==
  IF a.err # "" THEN [x EXCEPT !.err = a.err]
  ELSE IF q.kind = "insert" THEN InsertValues(x, q.tabs[1], q.vals)
  ELSE ChangeRows(q.kind, a, Execute(ChangePlan(a), db), x)

=============================================================================
