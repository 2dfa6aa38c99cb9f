------------------------------ MODULE Queries ------------------------------
(***************************************************************************)
(* Select statements over a table that is changed while it is indexed: the *)
(* index tree of table T with its rows, as IndexSteps has them, and the    *)
(* statements of the clients, answered by the analyzer, the planner and    *)
(* the executors.  The other tables and the order in which records lie in  *)
(* a file are inputs of a statement.                                       *)
(***************************************************************************)
EXTENDS Planner, IndexSteps

CONSTANTS
  Statements, \* the select statements clients send
  Changes,    \* the insert, delete and update statements on T
  Others      \* what the tables other than T may hold: rows in file order

VARIABLE
  stmt        \* <<>>, or the statement that was answered, with its answer

allVars == <<indexVars, stmt>>

\* create_index over a table with these rows.
BuildIndex(rs) == FoldLeft(LAMBDA t, r : InsertEntry(t, r, r), EmptyTree, rs)

Database(order, o) ==
  [heap |-> [t \in DOMAIN Columns |-> IF t = "T" THEN order ELSE o[t]],
   tree |-> [t \in DOMAIN Columns |-> IF t = "T" THEN tree ELSE BuildIndex(o[t])]]

\* The keys of a set in ascending order.
InKeyOrder(ks) ==
  [i \in 1..Cardinality(ks) |->
     CHOOSE k \in ks : Cardinality({x \in ks : IxLess(x, k)}) = i - 1]

\* How the records of T lie in its file, and what the other tables hold: both
\* vary only for the statements they make a difference to.
FileOrders(q) ==
  LET up == InKeyOrder(rows)
  IN  IF q.kind # "select" THEN {up, Reverse(up)}
      ELSE IF q.order # "" THEN {up, Reverse(up)} ELSE {Reverse(up)}

OthersOf(q) == IF Len(q.tabs) > 1 THEN Others ELSE {CHOOSE o \in Others : TRUE}

\* The statement q, analysed as a, was answered over these tables.
Reply(q, a, db, answer) == <<[q |-> q, a |-> a, heap |-> db.heap, answer |-> answer]>>

Select(q) ==
  /\ stmt = <<>> /\ call = Idle
  /\ \E order \in FileOrders(q), o \in OthersOf(q), a \in {Analyze(q)} :
     \E db \in {Database(order, o)} :
       stmt' = Reply(q, a, db, Answer(a, q.knob, db))
  /\ UNCHANGED indexVars

Deliver == stmt # <<>> /\ stmt' = <<>> /\ UNCHANGED indexVars

Write(q) ==
  /\ stmt = <<>> /\ call = Idle
  /\ \E order \in FileOrders(q), o \in OthersOf(q), a \in {AnalyzeChange(q)} :
     \E db \in {Database(order, o)} :
     \E x \in {Change(q, a, db, Untouched(tree, rows))} :
       /\ x.works
       /\ tree' = x.tree
       /\ rows' = x.rows
       /\ stmt' = Reply(q, a, db, Fail(x.err))
  /\ UNCHANGED <<call, walk, result>>

\* Rows come and go, and are looked up, between the statements.
IndexStep == stmt = <<>> /\ Next /\ UNCHANGED stmt

QueryInit == Init /\ stmt = <<>>

QueryNext ==
  \/ IndexStep
  \/ \E q \in Statements : Select(q)
  \/ \E q \in Changes : Write(q)
  \/ Deliver

QuerySpec == QueryInit /\ [][QueryNext]_allVars

---------------------------------------------------------------------------
(***************************************************************************)
(* What a statement means: the rows of the product of its tables that meet *)
(* every condition, grouped and projected, in any order.                   *)
(***************************************************************************)
Product(tabs, heap) ==
  FoldLeft(LAMBDA acc, t : FlattenSeq([i \in DOMAIN acc |->
             [k \in DOMAIN heap[t] |-> acc[i] \o heap[t][k]]]), << <<>> >>, tabs)

Meaning(cols, c, row) ==
  Eval(c.op, Field(cols, row, GetCol(cols, c.lhs, FALSE)),
       IF c.isval THEN c.val ELSE Field(cols, row, GetCol(cols, c.rhs, FALSE)))

Matching(a, heap) ==
  LET cols == AllCols(a.tabs)
  IN  SelectSeq(Product(a.tabs, heap),
                LAMBDA r : \A i \in DOMAIN a.conds : Meaning(cols, a.conds[i], r))

\* One column of one answer row: over the rows of its group.
OfGroup(cols, c, rs) ==
  LET p == GetCol(cols, c, FALSE)
  IN  CASE c.aggr = "COUNT" -> Len(rs)
        [] c.aggr = "SUM"   -> FoldLeft(LAMBDA n, r : n + r[p], 0, rs)
        [] c.aggr = "MAX"   -> Max({rs[i][p] : i \in DOMAIN rs})
        [] c.aggr = "MIN"   -> Min({rs[i][p] : i \in DOMAIN rs})
        [] OTHER            -> rs[1][p]

Expected(a, heap) ==
  LET cols == AllCols(a.tabs)
      rs   == Matching(a, heap)
      ValueIn(c, g) == [type |-> IF c.aggr = "COUNT" THEN "INT" ELSE ColumnType(c),
                        v |-> OfGroup(cols, c, g)]
      groups == IF a.hasAggr \/ a.group # <<>> THEN
                  Groups(rs, [i \in DOMAIN a.group |-> GetCol(cols, a.group[i], FALSE)])
                ELSE [i \in DOMAIN rs |-> <<rs[i]>>]
      kept == SelectSeq(groups, LAMBDA g : \A i \in DOMAIN a.having :
                Eval(a.having[i].op, ValueIn(a.having[i].lhs, g), a.having[i].val))
  IN  [k \in DOMAIN kept |-> [i \in DOMAIN a.cols |-> OfGroup(cols, a.cols[i], kept[k])]]

Answered(kind) == {s \in ToSet(stmt) : s.q.kind = kind}

CountOf(x, s) == Cardinality({i \in DOMAIN s : s[i] = x})
WithinBag(s, t) == \A i \in DOMAIN s : CountOf(s[i], s) <= CountOf(s[i], t)

---------------------------------------------------------------------------
(***************************************************************************)
(* The statements the engine answers as they are meant.                    *)
(***************************************************************************)
ValueConds(a) == SelectSeq(a.conds, LAMBDA c : c.isval)
JoinConds(a) == SelectSeq(a.conds, LAMBDA c : ~c.isval)

\* Every table a condition names is in FROM, and no condition compares two
\* columns of one table.
WithinFrom(a) ==
  \A i \in DOMAIN a.conds :
    LET c == a.conds[i]
    IN  /\ c.lhs.tab \in ToSet(a.tabs)
        /\ ~c.isval => c.rhs.tab \in ToSet(a.tabs) \ {c.lhs.tab}

\* The first join condition has its columns in FROM order or is an equality.
FirstJoinInOrder(a) ==
  LET c == JoinConds(a)[1]
  IN  JoinConds(a) # <<>> => c.op \in {"=", "!="} \/ c.rhs.tab # a.tabs[1]

\* What the bounds of an index scan rely on: one condition a column, literals
\* of the column's type, and no key at or below the least positive FLOAT.
ExactBounds(a, heap) ==
  LET vs == ValueConds(a)
  IN  /\ \A i, j \in DOMAIN vs : vs[i].lhs = vs[j].lhs => i = j
      /\ \A i \in DOMAIN vs : vs[i].val.type = ColumnType(vs[i].lhs)
      /\ \A i \in DOMAIN heap["T"] : heap["T"][i][2] >= FLT_MIN

\* ORDER BY names a column of a table in FROM: the analyzer does not look.
OrderColumnExists(a) ==
  a.order = "" \/ a.order \in {c.name : c \in ToSet(AllCols(a.tabs))}

\* A sort of no records, an aggregate under a sort, and COUNT of no records.
HasRows(a, heap) == Matching(a, heap) # <<>> \/ (a.order = "" /\ ~a.hasAggr)
Ordered(a) == a.order = "" \/ (OrderColumnExists(a) /\ ~a.hasAggr /\ a.group = <<>>)
HavingSelected(a) ==
  \A i \in DOMAIN a.having : a.having[i].lhs \in ToSet(a.cols) \/ Star(a.having[i].lhs)

\* A condition of HAVING has a literal on its right.
HavingHasLiterals(a) == \A i \in DOMAIN a.having : a.having[i].isval

\* No condition bounds a FLOAT column from above at a value that is, in its
\* bytes, below the least positive FLOAT, where an index scan starts: its
\* upper bound would lie before its lower bound.
FloatBoundsInOrder(a) ==
  LET vs == ValueConds(a)
  IN  \A i \in DOMAIN vs :
        ColumnType(vs[i].lhs) = "FLOAT" /\ vs[i].op \in {"<", "<="}
        => RawAs(vs[i].val, "FLOAT", TRUE) >= FLT_MIN

\* A merge join of one equality without conditions on the tables.
LoneEquality(a) == Len(a.conds) = 1 /\ JoinConds(a) # <<>> /\ a.conds[1].op = "="

Joined(a, knob) ==
  Len(a.tabs) > 1 => IF knob = "nestloop" THEN FirstJoinInOrder(a)
                     ELSE JoinConds(a) = <<>>

\* A sort in a nested-loop plan has records to sort: the statement means some
\* rows, and nothing above makes the plan miss them.
SortsRows(a, heap) ==
  a.order = "" \/ (Matching(a, heap) # <<>> /\ Joined(a, "nestloop") /\ ExactBounds(a, heap))

---------------------------------------------------------------------------
(***************************************************************************)
(* Properties.                                                             *)
(***************************************************************************)

\* A statement within the limits above is answered without an error by
\* exactly the rows it means, each as often as it should, and in ascending
\* order of the ORDER BY column: whatever tree the insertions and deletions
\* left, whatever index get_index_cols chose and however make_one_rel
\* arranged the joins.
AnswersAreExact ==
  \A s \in Answered("select") :
    LET a == s.a
        want == Expected(a, s.heap)
        got  == s.answer.rows
        p    == SelectInSeq(a.cols, LAMBDA c : c.name = a.order)
    IN  (/\ a.err = "" /\ WithinFrom(a) /\ Joined(a, s.q.knob) /\ ExactBounds(a, s.heap)
         /\ HasRows(a, s.heap) /\ Ordered(a) /\ HavingSelected(a) /\ HavingHasLiterals(a))
        => /\ s.answer.err = ""
           /\ Len(got) = Len(want) /\ WithinBag(got, want)
           /\ p # 0 => \A i \in 2..Len(got) : got[i - 1][p] <= got[i][p]

\* Where rows may be missed, none is made up.  The answer to a statement with
\* its conditions within FROM, and with a row to sort or to aggregate, has no
\* row the statement does not mean and none too often: with index bounds that
\* miss rows, with repeated conditions and with literals of another type, over
\* nested loops whose first condition is in FROM order, and over a merge join
\* of one equality alone, which stops early.
AnswersAreSound ==
  \A s \in Answered("select") :
    LET a == s.a
    IN  (/\ a.err = "" /\ WithinFrom(a) /\ HasRows(a, s.heap)
         /\ Joined(a, s.q.knob) \/ LoneEquality(a))
        => WithinBag(s.answer.rows, Expected(a, s.heap))

\* A statement the analyzer accepts runs: it meets the assertions of the
\* executors and finds every index entry it walks over.  Exempt are the
\* statements the analyzer lets pass and the executors do not handle: a
\* comparison of columns of one table or of tables outside FROM, a HAVING
\* condition with a column on its right, ORDER BY of no column, or where the
\* plan may find no rows, a FLOAT column bounded from above below FLT_MIN, and
\* merge joins.
AcceptedStatementsRun ==
  \A s \in Answered("select") :
    LET a == s.a
    IN  (/\ a.err = "" /\ WithinFrom(a) /\ HavingHasLiterals(a)
         /\ OrderColumnExists(a) /\ SortsRows(a, s.heap)
         /\ FloatBoundsInOrder(a) /\ s.q.knob = "nestloop")
        => s.answer.err \notin {"Aborted", "Undefined", NotFound}

\* A change touches only rows that meet its conditions, and all of them when
\* no error ends it: a delete statement removes them, an update statement
\* turns each into itself with the new values, also where it was stopped by a
\* key that exists, and an insert adds the row its literals are cast to.
ChangesAreExact ==
  LET Old(s) == ToSet(s.heap["T"])
      Meant(a, s) == ToSet(Matching(a, s.heap))
      Complete(a, s) == s.answer.err = "" /\ ExactBounds(a, s.heap)
  IN  /\ \A s \in Answered("insert") :
           LET k == [i \in DOMAIN s.q.vals |->
                       TryCast(s.q.vals[i], Columns["T"][i].type).v]
           IN  rows = IF s.answer.err = "" THEN Old(s) \cup {k} ELSE Old(s)
      /\ \A s \in Answered("delete") :
           LET a == s.a
           IN  /\ a.err # "" => rows = Old(s)
               /\ a.err = "" /\ WithinFrom(a) =>
                    /\ rows \subseteq Old(s) /\ Old(s) \ rows \subseteq Meant(a, s)
                    /\ Complete(a, s) => Meant(a, s) \cap rows = {}
      /\ \A s \in Answered("update") :
           LET a == s.a
               New(r) == SetFields(r, a.sets)
           IN  /\ a.err # "" => rows = Old(s)
               /\ a.err = "" /\ WithinFrom(a) =>
                    /\ Old(s) \ rows \subseteq Meant(a, s)
                    /\ rows \ Old(s) \subseteq {New(r) : r \in Meant(a, s)}
                    /\ Cardinality(rows) = Len(s.heap["T"])
                    /\ Complete(a, s) => \A r \in Meant(a, s) : New(r) \in rows

=============================================================================
