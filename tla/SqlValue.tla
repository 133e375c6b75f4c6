------------------------------ MODULE SqlValue ------------------------------
(* Values of the SQL layer and what the data types do with them:             *)
(* common/value.cpp, common/type/.                                           *)
(*                                                                           *)
(* A value is a record [type, v] with v an integer.  A FLOATS value is kept  *)
(* in units of 1/SCALE (every quotient of the small numbers of the instances *)
(* is a whole number of units, and one unit is far above EPSILON).  A CHARS  *)
(* value is the string of at most three characters whose codes are the       *)
(* digits of v in base CHARBASE, a missing character being 0: the order of   *)
(* the numbers is the order of strcmp.  The integers of an instance stay far *)
(* below 2^31, so no sum wraps.                                              *)
EXTENDS Integers, Sequences

AttrType == {"UNDEFINED", "CHARS", "INTS", "FLOATS", "BOOLEANS"}

SCALE    == 12
CHARBASE == 4
FLT_MAX  == 1000000 * SCALE

Value(t, n) == [type |-> t, v |-> n]
NoValue     == Value("UNDEFINED", 0)

get_float(x) ==
    CASE x.type = "FLOATS"                -> x.v
      [] x.type \in {"INTS", "BOOLEANS"}  -> x.v * SCALE
      [] x.type \in {"CHARS", "UNDEFINED"} -> 0      \* no character is a digit

get_boolean(x) ==
    CASE x.type \in {"INTS", "FLOATS", "BOOLEANS"} -> x.v # 0
      [] x.type = "CHARS"                          -> TRUE  \* a pointer that is not null
      [] x.type = "UNDEFINED"                      -> FALSE

Sign(n) == IF n > 0 THEN 1 ELSE IF n < 0 THEN -1 ELSE 0

(* IntegerType::compare hands the BITS of both numbers to compare_float when *)
(* the right one is a FLOATS: a small integer read so is as good as 0.       *)
IntegerCompare(l, r) ==
    IF r.type = "INTS" THEN Sign(l.v - r.v) ELSE Sign(0 - r.v)

FloatCompare(l, r) == Sign(get_float(l) - get_float(r))

CharCompare(l, r) == Sign(l.v - r.v)

compare(l, r) ==
    CASE l.type = "INTS"   -> IntegerCompare(l, r)
      [] l.type = "FLOATS" -> FloatCompare(l, r)
      [] l.type = "CHARS"  -> CharCompare(l, r)
      [] OTHER             -> 1                       \* INT32_MAX: not implemented

IntegerArithmetic(op, l, r) ==
    Value("INTS", CASE op = "ADD"      -> l.v + r.v
                    [] op = "SUB"      -> l.v - r.v
                    [] op = "MUL"      -> l.v * r.v
                    [] op = "NEGATIVE" -> 0 - l.v)

FloatArithmetic(op, l, r) ==
    LET x == get_float(l)
        y == get_float(r)
    IN Value("FLOATS", CASE op = "ADD"      -> x + y
                         [] op = "SUB"      -> x - y
                         [] op = "MUL"      -> (x * y) \div SCALE
                         [] op = "DIV"      -> IF y = 0 THEN FLT_MAX
                                               ELSE Sign(x) * Sign(y) *
                                                    ((Sign(x) * x * SCALE) \div (Sign(y) * y))
                         [] op = "NEGATIVE" -> 0 - x)

(* What an operator that the type does not support leaves behind: calc_value *)
(* ignores its return code.                                                  *)
Arithmetic(target, op, l, r) ==
    CASE target = "INTS"   -> IntegerArithmetic(op, l, r)
      [] target = "FLOATS" -> FloatArithmetic(op, l, r)
      [] OTHER             -> Value(target, 0)

INT32_MAX == 2147483647

(* No type converts to another one, neither by cost nor in cast_to.          *)
cast_cost(from, to) == IF from = to THEN 0 ELSE INT32_MAX

(* The comparison operators of ComparisonExpr::compare_value.                *)
compare_value(comp, l, r) ==
    LET c == compare(l, r)
    IN CASE comp = "EQUAL_TO"    -> c = 0
         [] comp = "NOT_EQUAL"   -> c # 0
         [] comp = "LESS_EQUAL"  -> c <= 0
         [] comp = "LESS_THAN"   -> c < 0
         [] comp = "GREAT_EQUAL" -> c >= 0
         [] comp = "GREAT_THAN"  -> c > 0

Bool(b) == Value("BOOLEANS", IF b THEN 1 ELSE 0)

-----------------------------------------------------------------------------
(* Strings in a column of CHAR(2): the third character does not fit.         *)

Truncated(s) == (s \div CHARBASE) * CHARBASE
TooLong(s)   == s % CHARBASE # 0

(* Table::set_value_to_record copies what fits and says nothing.             *)
Stored(x) == IF x.type = "CHARS" THEN [x EXCEPT !.v = Truncated(@)] ELSE x

(* BplusTreeScanner::fix_user_key: a key longer than the column is cut, and  *)
(* the last character is incremented when larger keys are wanted.            *)
fix_user_key(s, want_greater) ==
    IF ~TooLong(s) THEN [key |-> s, should_inclusive |-> FALSE]
    ELSE [key |-> Truncated(s) + IF want_greater THEN CHARBASE ELSE 0,
          should_inclusive |-> TRUE]
=============================================================================
