--------------------------- MODULE Values_proofs ---------------------------
(***************************************************************************)
(* What the planner and the scans take for granted of values and their     *)
(* comparisons, for every value.                                           *)
(***************************************************************************)
EXTENDS Values, TLAPS

Types == {"INT", "FLOAT", "STRING", "DATE"}
Value == [type : Types, v : Int]

\* Magnitudes are integers, so that the comparisons are total.
LEMMA MagnitudeInt ==
  ASSUME NEW x \in Value
  PROVE  x.v \in Int /\ Magnitude(x) \in Int
BY DEF Value, Magnitude, One

\* operator== and operator> of Value treat their operands alike: exactly one
\* of x == y, x > y and y > x is true.
THEOREM Trichotomy ==
  ASSUME NEW x \in Value, NEW y \in Value
  PROVE  /\ Equal(x, y) <=> Equal(y, x)
         /\ Equal(x, y) => ~Greater(x, y) /\ ~Greater(y, x)
         /\ ~Equal(x, y) => (Greater(x, y) <=> ~Greater(y, x))
<1>1. Mixed(x, y) <=> Mixed(y, x)
  BY DEF Mixed
<1>2. /\ x.v \in Int /\ y.v \in Int
      /\ Magnitude(x) \in Int /\ Magnitude(y) \in Int
  BY MagnitudeInt
<1> QED
  BY <1>1, <1>2 DEF Equal, Greater

\* A condition turned around means the same: get_index_cols, push_conds and
\* the index scan exchange the columns of a condition and replace its operator
\* by swap_op's, and no record changes sides by that, whatever the types.
THEOREM TurnedConditionMeansTheSame ==
  ASSUME NEW x \in Value, NEW y \in Value, NEW op \in Ops
  PROVE  Eval(SwapOp(op), y, x) <=> Eval(op, x, y)
<1>1. CASE op = "="
  BY <1>1, Trichotomy DEF Eval, SwapOp
<1>2. CASE op = "!="
  BY <1>2, Trichotomy DEF Eval, SwapOp
<1>3. CASE op = "<"
  BY <1>3, Trichotomy DEF Eval, SwapOp
<1>4. CASE op = ">"
  BY <1>4, Trichotomy DEF Eval, SwapOp
<1>5. CASE op = "<="
  BY <1>5, Trichotomy DEF Eval, SwapOp
<1>6. CASE op = ">="
  BY <1>6, Trichotomy DEF Eval, SwapOp
<1> QED
  BY <1>1, <1>2, <1>3, <1>4, <1>5, <1>6 DEF Ops

\* Swapping the operator twice gives it back.
THEOREM SwapOpInvolution ==
  ASSUME NEW op \in Ops
  PROVE  SwapOp(op) \in Ops /\ SwapOp(SwapOp(op)) = op
BY DEF Ops, SwapOp

---------------------------------------------------------------------------
\* date2str reads back the year, month and day that set_date packed.
THEOREM DatesReadBack ==
  ASSUME NEW y, NEW m, NEW d, ValidDate(y, m, d)
  PROVE  DateParts(DateVal(y, m, d)) = <<y, m, d>>
<1> y \in Nat /\ m \in 1..12 /\ d \in 1..31
  BY DEF ValidDate
<1> DEFINE x == y * 512 + m * 32 + d
<1>1. x \div 512 = y
  OBVIOUS
<1>2. x \div 32 = y * 16 + m
  OBVIOUS
<1>3. (y * 16 + m) % 16 = m
  OBVIOUS
<1>4. x % 32 = d
  OBVIOUS
<1> QED
  BY <1>1, <1>2, <1>3, <1>4 DEF DateParts, DateVal

\* Dates are compared, and kept in an index, as the packed integers: that is
\* the order of the calendar.
THEOREM DatesInCalendarOrder ==
  ASSUME NEW y, NEW m, NEW d, ValidDate(y, m, d),
         NEW y2, NEW m2, NEW d2, ValidDate(y2, m2, d2)
  PROVE  DateVal(y, m, d) < DateVal(y2, m2, d2)
           <=> \/ y < y2
               \/ y = y2 /\ m < m2
               \/ y = y2 /\ m = m2 /\ d < d2
BY DEF ValidDate, DateVal

=============================================================================
