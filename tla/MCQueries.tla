----------------------------- MODULE MCQueries -----------------------------
(***************************************************************************)
(* Queries with a small schema: T(a INT, b FLOAT) with an index on (a, b), *)
(* S(a INT, c INT) with an index on (a, c), and U(c INT, d INT) without    *)
(* one.  Eight keys of T with trees of order 3 reach three levels.         *)
(***************************************************************************)
EXTENDS Queries

MCKeys == {1, 2} \X {0, 4, 8, 16}

Meta(tab, name, type) == [tab |-> tab, name |-> name, type |-> type, aggr |-> "NONE"]

MCColumns ==
  [T |-> <<Meta("T", "a", "INT"), Meta("T", "b", "FLOAT")>>,
   S |-> <<Meta("S", "a", "INT"), Meta("S", "c", "INT")>>,
   U |-> <<Meta("U", "c", "INT"), Meta("U", "d", "INT")>>]

MCIndexes == [T |-> << <<"a", "b">> >>, S |-> << <<"a", "c">> >>, U |-> <<>>]

MCOthers ==
  {[S |-> << <<2, 1>>, <<1, 2>> >>, U |-> << <<2, 1>>, <<1, 3>> >>],
   [S |-> << <<2, 2>>, <<1, 1>>, <<2, 1>> >>, U |-> << <<1, 1>> >>],
   [S |-> <<>>, U |-> << <<1, 2>> >>]}

\* Columns and conditions of statements.
a0 == Col("", "a", "NONE")
b0 == Col("", "b", "NONE")
Of(tab, name) == Col(tab, name, "NONE")
Lit(c, op, v) == [lhs |-> c, op |-> op, isval |-> TRUE, val |-> v, rhs |-> NoCol]
Cmp(c, op, d) == [lhs |-> c, op |-> op, isval |-> FALSE, val |-> IntVal(0), rhs |-> d]

Stmt(tabs, cols, conds) ==
  [kind |-> "select", tabs |-> tabs, cols |-> cols, conds |-> conds, group |-> <<>>, having |-> <<>>,
   order |-> "", knob |-> "nestloop"]

ACond(op, i) == Lit(a0, op, IntVal(i))
BCond(op, f) == Lit(b0, op, FloatVal(f))

OneCond ==
  {Stmt(<<"T">>, <<b0, a0>>, <<c>>) :
     c \in {ACond(op, 1) : op \in Ops} \cup {BCond(op, 8) : op \in Ops}}

TwoConds ==
  UNION {{Stmt(<<"T">>, <<>>, <<c, d>>), Stmt(<<"T">>, <<>>, <<d, c>>)} :
           <<c, d>> \in {ACond("=", 1), ACond(">=", 1), ACond("<", 2)}
                        \X {BCond("=", 8), BCond("!=", 8), BCond("<=", 8), BCond(">", 4)}}

\* Bounds at and below FLT_MIN, in FLOAT and in INT literals.
LowBounds ==
  {Stmt(<<"T">>, <<>>, <<ACond("=", 1), c>>) : c \in
     {BCond("<", -8), BCond("<=", 0), BCond("=", -8), BCond(">=", -8), BCond("<", FLT_MIN),
      Lit(b0, "<", IntVal(1)), Lit(b0, "<=", IntVal(-1)), Lit(b0, "=", IntVal(-1))}}

\* Repeated columns, literals of another type, and statements with an error.
Odd ==
  {Stmt(<<"T">>, <<>>, cs) : cs \in
     {<<ACond("=", 1), ACond("<", 2)>>, <<ACond("<", 2), ACond("=", 1), BCond(">", 4)>>,
      <<ACond("=", 1), ACond("=", 1)>>, <<ACond("=", 1), ACond(">=", 1)>>, <<ACond(">=", 1), ACond("<=", 1)>>,
      <<Lit(a0, "=", FloatVal(8))>>, <<Lit(a0, "<=", FloatVal(12))>>,
      <<ACond("=", 1), Lit(b0, ">=", IntVal(1))>>, <<Lit(a0, "=", StrVal(1))>>,
      <<Cmp(a0, "<", b0)>>, <<Lit(Of("S", "a"), "=", IntVal(1))>>,
      <<Lit(Of("", "z"), "=", IntVal(1))>>}}
  \cup {Stmt(<<"T", "S">>, <<a0>>, <<>>), Stmt(<<"X">>, <<>>, <<>>)}

Joins ==
  {Stmt(<<"T", "S">>, <<Of("T", "b"), Of("", "c")>>, cs) : cs \in
     {<<>>, <<Cmp(Of("T", "a"), "=", Of("S", "a"))>>, <<Cmp(Of("S", "a"), "=", Of("T", "a"))>>,
      <<Cmp(Of("T", "a"), "<", Of("S", "a"))>>, <<Cmp(Of("S", "a"), "<", Of("T", "a"))>>,
      <<Cmp(b0, "=", Of("", "c"))>>,
      <<Lit(Of("T", "a"), "=", IntVal(1)), Cmp(Of("S", "a"), "=", Of("T", "a")),
        Cmp(Of("", "c"), "<", b0)>>}}

Merges ==
  {[q EXCEPT !.knob = "sortmerge"] : q \in Joins}
  \cup {[q EXCEPT !.knob = "none"] : q \in {x \in Joins : Len(x.conds) = 3}}

ThreeTables ==
  {Stmt(<<"T", "S", "U">>, <<b0, Of("", "d")>>, cs) : cs \in
     {<<Cmp(Of("T", "a"), "=", Of("S", "a")), Cmp(Of("S", "c"), "<=", Of("U", "c"))>>,
      <<Cmp(Of("U", "c"), "=", Of("S", "c")), Cmp(Of("U", "d"), ">", Of("T", "a"))>>,
      <<Cmp(Of("S", "c"), "=", Of("U", "c"))>>,
      <<Cmp(Of("T", "a"), "=", Of("S", "a")), Cmp(Of("S", "c"), "=", Of("U", "c")),
        Cmp(Of("U", "d"), ">=", Of("T", "a"))>>}}

Aggregates ==
  {[Stmt(<<"T">>, <<Col("", "*", "COUNT"), Col("", "b", "SUM"), Col("", "b", "MAX")>>,
         <<ACond("<=", 1)>>) EXCEPT !.order = o] : o \in {"", "a"}}
  \cup {[Stmt(<<"T">>, <<a0, Col("", "b", "MIN"), Col("", "b", "COUNT")>>, <<>>)
           EXCEPT !.group = <<a0>>, !.having = h] :
          h \in {<<>>, <<Lit(Col("", "*", "COUNT"), ">", IntVal(1))>>,
                 <<Lit(Col("", "b", "MIN"), ">=", FloatVal(4)), Lit(a0, "<", IntVal(2))>>,
                 <<Lit(Col("", "b", "MAX"), ">=", FloatVal(4))>>,
                 <<Lit(Col("", "b", "COUNT"), "<", FloatVal(12))>>,
                 <<Cmp(a0, "=", a0)>>, <<Lit(a0, "<", IntVal(2)), Cmp(a0, "<", b0)>>,
                 <<Cmp(a0, "<", b0), Lit(Col("", "b", "MAX"), ">=", FloatVal(4))>>}}
  \cup {[Stmt(<<"T">>, <<a0, b0>>, <<>>) EXCEPT !.group = <<a0>>],
        Stmt(<<"T">>, <<a0, Col("", "b", "SUM")>>, <<>>)}

Sorts ==
  {[Stmt(<<"T">>, <<>>, cs) EXCEPT !.order = o] :
     cs \in {<<>>, <<BCond(">", 4)>>}, o \in {"a", "b"}}
  \cup {[Stmt(<<"T", "S">>, <<b0, Of("", "c")>>, <<>>) EXCEPT !.order = o] : o \in {"b", "c", "z"}}
  \cup {[Stmt(<<"T">>, <<>>, cs) EXCEPT !.order = "z"] : cs \in {<<>>, <<ACond("=", 1)>>}}
  \cup {[Stmt(<<"T">>, <<>>, <<ACond("=", 1), BCond("<", 8)>>) EXCEPT !.order = "b"],
        [Stmt(<<"T", "S">>, <<>>, <<Cmp(Of("S", "a"), ">", Of("T", "a"))>>) EXCEPT !.order = "c"]}

MCStatements ==
  OneCond \cup TwoConds \cup LowBounds \cup Odd \cup Joins \cup Merges \cup ThreeTables
  \cup Aggregates \cup Sorts

\* A value that needs a cast, a value that is refused and a key that exists
\* are among the literals.
Inserts ==
  {[kind |-> "insert", tabs |-> <<"T">>, conds |-> <<>>, sets |-> <<>>, vals |-> v] : v \in
     {<<IntVal(1), FloatVal(4)>>, <<FloatVal(12), IntVal(1)>>, <<IntVal(2), IntVal(0)>>,
      <<IntVal(2), StrVal(1)>>, <<IntVal(2)>>}}

Deletes ==
  {[kind |-> "delete", tabs |-> <<"T">>, conds |-> cs, sets |-> <<>>] : cs \in
     {<<>>, <<ACond("=", 1), BCond(">", 4)>>, <<BCond("!=", 8)>>, <<ACond(">", 1)>>,
      <<Lit(a0, "<", FloatVal(12))>>, <<ACond("=", 1), ACond("=", 1)>>,
      <<Lit(a0, "=", StrVal(1))>>}}

Updates ==
  {[kind |-> "update", tabs |-> <<"T">>, conds |-> cs, sets |-> ss] :
     cs \in {<<>>, <<ACond("=", 1)>>, <<BCond(">=", 8)>>, <<ACond(">=", 1), BCond("<", 8)>>},
     ss \in {<<[name |-> "a", val |-> FloatVal(20)]>>, <<[name |-> "b", val |-> IntVal(2)]>>,
             <<[name |-> "b", val |-> FloatVal(4)], [name |-> "a", val |-> IntVal(1)]>>,
             <<[name |-> "z", val |-> IntVal(1)]>>, <<[name |-> "a", val |-> StrVal(1)]>>}}

MCChanges == Inserts \cup Deletes \cup Updates

=============================================================================
