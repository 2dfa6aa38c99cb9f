------------------------------- MODULE Values -------------------------------
(***************************************************************************)
(* Values, their conversions and comparisons (src/common/common.h) and the *)
(* raw form index keys are compared in (ix_compare, src/index/).           *)
(*                                                                         *)
(* A value is its type with an integer: an INT or a DATE is itself, a      *)
(* STRING its place in the order of strings, and a FLOAT is counted in     *)
(* eighths, so that 1.0 is One, and 1 and 2 stand for floats below every   *)
(* other positive one: a denormal and FLT_MIN.                             *)
(***************************************************************************)
EXTENDS Integers, Sequences

One == 8
Denormal == 1
FLT_MIN == 2
FLT_MAX == 4096
INT_MAX == 4096
INT_MIN == -4096

Ops == {"=", "!=", "<", ">", "<=", ">="}

IntVal(i) == [type |-> "INT", v |-> i]
FloatVal(f) == [type |-> "FLOAT", v |-> f]
StrVal(s) == [type |-> "STRING", v |-> s]

\* colTypeCanHold
CanHold(s, t) == s = t \/ {s, t} = {"INT", "FLOAT"}

\* set_date packs year, month and day into one integer; date2str unpacks it.
DateVal(y, m, d) == y * 512 + m * 32 + d
DateParts(x) == <<x \div 512, (x \div 32) % 16, x % 32>>

ValidDate(y, m, d) == y \in Nat /\ m \in 1..12 /\ d \in 1..31

\* float2int truncates, int2float is exact for the integers used here.
TryCast(x, type) ==
  IF x.type = "FLOAT" /\ type = "INT"
  THEN IntVal(IF x.v >= 0 THEN x.v \div One ELSE -((-x.v) \div One))
  ELSE IF x.type = "INT" /\ type = "FLOAT" THEN FloatVal(x.v * One)
  ELSE x

\* An INT compared with a FLOAT is converted to a FLOAT.
Mixed(x, y) == {x.type, y.type} = {"INT", "FLOAT"}
Magnitude(x) == IF x.type = "INT" THEN x.v * One ELSE x.v

Equal(x, y) == IF Mixed(x, y) THEN Magnitude(x) = Magnitude(y) ELSE x.v = y.v
Greater(x, y) == IF Mixed(x, y) THEN Magnitude(x) > Magnitude(y) ELSE x.v > y.v

\* Condition::eval, with the operators that are derived from == and >.
Eval(op, x, y) ==
  CASE op = "="  -> Equal(x, y)
    [] op = "!=" -> ~Equal(x, y)
    [] op = "<"  -> ~(Equal(x, y) \/ Greater(x, y))
    [] op = ">"  -> Greater(x, y)
    [] op = "<=" -> ~Greater(x, y)
    [] op = ">=" -> Equal(x, y) \/ Greater(x, y)

\* The operator that holds of (y, x) when op holds of (x, y).
SwapOp(op) ==
  CASE op = "<" -> ">" [] op = ">" -> "<" [] op = "<=" -> ">=" [] op = ">=" -> "<="
    [] OTHER -> op

\* makeEdgeValue, as the raw field of a key.
EdgeValue(type, isMax) ==
  IF type = "FLOAT" THEN IF isMax THEN FLT_MAX ELSE FLT_MIN
  ELSE IF isMax THEN INT_MAX ELSE INT_MIN

\* ix_compare finds a NaN equal to every FLOAT.  In the last field of a key
\* it is a bound that excludes nothing: above all others in an upper bound,
\* below them in a lower bound.
NaN(isMax) == IF isMax THEN FLT_MAX + 1 ELSE -FLT_MAX - 1

\* The bytes init_raw stored for a literal, read back as a field of a lower
\* or an upper bound, of the column's type.  The literal keeps its own type:
\* the bits of a small positive INT are a denormal FLOAT, of INT_MIN minus
\* zero, of INT_MAX and of a small negative INT a NaN, and those of a positive
\* FLOAT are a large INT.
RawAs(x, type, isMax) ==
  IF x.type = type \/ x.v = 0 THEN x.v
  ELSE IF type = "FLOAT"
  THEN CASE x.v = INT_MIN -> 0
         [] x.v \in 1..(INT_MAX - 1) -> Denormal
         [] OTHER -> NaN(isMax)
  ELSE IF x.v > 0 THEN INT_MAX \div 2 + x.v ELSE INT_MIN - x.v

=============================================================================
