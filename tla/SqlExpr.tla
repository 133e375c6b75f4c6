------------------------------ MODULE SqlExpr ------------------------------
(* Expressions and tuples: sql/expr/.  An expression is a tree of records    *)
(* tagged with its ExprType.  A tuple is a sequence of cells [spec, value];  *)
(* the spec is <<table, field>>, or <<"", name>> for a computed cell.        *)
EXTENDS SqlValue, SequencesExt

FieldExpr(t, f, a)  == [type |-> "FIELD", table |-> t, field |-> f, attr |-> a]
ValueExpr(x)        == [type |-> "VALUE", value |-> x]
ComparisonExpr(c, l, r) == [type |-> "COMPARISON", comp |-> c, left |-> l, right |-> r]
ConjunctionExpr(s)  == [type |-> "CONJUNCTION", children |-> s]
ArithmeticExpr(o, l, r) == [type |-> "ARITHMETIC", op |-> o, left |-> l, right |-> r]
AggregateExpr(g, e, n) == [type |-> "AGGREGATION", aggregate |-> g, child |-> e, name |-> n]
NoExpr              == [type |-> "NONE"]

(* Expression::value_type; ArithmeticExpr computes with integers only when   *)
(* both sides are integers and it is no division.                            *)
RECURSIVE value_type(_)
ArithmeticType(e) ==
    IF e.right = NoExpr THEN value_type(e.left)
    ELSE IF value_type(e.left) = "INTS" /\ value_type(e.right) = "INTS" /\ e.op # "DIV"
         THEN "INTS" ELSE "FLOATS"

value_type(e) ==
    CASE e.type = "FIELD"       -> e.attr
      [] e.type = "VALUE"       -> e.value.type
      [] e.type \in {"COMPARISON", "CONJUNCTION"} -> "BOOLEANS"
      [] e.type = "AGGREGATION" -> value_type(e.child)
      [] e.type = "ARITHMETIC"  -> ArithmeticType(e)
      [] OTHER                  -> "UNDEFINED"

(* ExpressionIterator::iterate_child_expr: the children, in order.           *)
Children(e) ==
    CASE e.type \in {"COMPARISON", "ARITHMETIC"} -> <<e.left, e.right>>
      [] e.type = "CONJUNCTION"                  -> e.children
      [] e.type = "AGGREGATION"                  -> <<e.child>>
      [] OTHER                                   -> <<>>

(* Expression::equal; only these four kinds can be equal to anything.        *)
RECURSIVE ExprEqual(_, _)
FieldEqual(a, b)      == a.table = b.table /\ a.field = b.field
ValueEqual(a, b)      == compare(a.value, b.value) = 0
ArithmeticEqual(a, b) == a.op = b.op /\ ExprEqual(a.left, b.left) /\ ExprEqual(a.right, b.right)
AggregateEqual(a, b)  == a.aggregate = b.aggregate /\ ExprEqual(a.child, b.child)

ExprEqual(a, b) ==
    /\ a.type = b.type
    /\ CASE a.type = "FIELD"       -> FieldEqual(a, b)
         [] a.type = "VALUE"       -> ValueEqual(a, b)
         [] a.type = "ARITHMETIC"  -> ArithmeticEqual(a, b)
         [] a.type = "AGGREGATION" -> AggregateEqual(a, b)
         [] OTHER                  -> FALSE

-----------------------------------------------------------------------------
(* Return codes travel with the value.                                       *)
Ok(x)   == [rc |-> "SUCCESS", value |-> x]
Err(rc) == [rc |-> rc, value |-> NoValue]

(* Tuple::find_cell: a joined or composite tuple asks its parts in order,    *)
(* so the first cell with the spec is the one.                               *)
find_cell(tuple, spec) ==
    LET at == {i \in DOMAIN tuple : tuple[i].spec = spec}
    IN IF at = {} THEN Err("NOTFOUND")
       ELSE Ok(tuple[CHOOSE i \in at : \A j \in at : i <= j].value)

(* ConjunctionExpr::get_value stops at the first child that decides.         *)
RECURSIVE AllTrue(_)
AllTrue(results) ==
    IF results = <<>> THEN Ok(Bool(TRUE))
    ELSE LET r == Head(results)
         IN IF r.rc # "SUCCESS" THEN r
            ELSE IF ~get_boolean(r.value) THEN Ok(Bool(FALSE))
            ELSE AllTrue(Tail(results))

(* Expression::get_value on a tuple, and try_get_value without one (the      *)
(* tuple is then <<>> and a field cannot be found; the code says             *)
(* UNIMPLEMENTED there).                                                     *)
RECURSIVE get_value(_, _)
FieldValue(e, tuple)       == find_cell(tuple, <<e.table, e.field>>)
AggregateValue(e, tuple)   == find_cell(tuple, <<"", e.name>>)
ConjunctionValue(e, tuple) == AllTrue([i \in DOMAIN e.children |-> get_value(e.children[i], tuple)])

ComparisonValue(e, tuple) ==
    LET l == get_value(e.left, tuple)
        r == get_value(e.right, tuple)
    IN IF l.rc # "SUCCESS" THEN l
       ELSE IF r.rc # "SUCCESS" THEN r
       ELSE Ok(Bool(compare_value(e.comp, l.value, r.value)))

ArithmeticValue(e, tuple) ==
    LET l == get_value(e.left, tuple)
        r == IF e.right = NoExpr THEN Ok(NoValue) ELSE get_value(e.right, tuple)
    IN IF l.rc # "SUCCESS" THEN l
       ELSE IF r.rc # "SUCCESS" THEN r
       ELSE Ok(Arithmetic(value_type(e), e.op, l.value, r.value))

get_value(e, tuple) ==
    CASE e.type = "FIELD"       -> FieldValue(e, tuple)
      [] e.type = "VALUE"       -> Ok(e.value)
      [] e.type = "AGGREGATION" -> AggregateValue(e, tuple)
      [] e.type = "CONJUNCTION" -> ConjunctionValue(e, tuple)
      [] e.type = "COMPARISON"  -> ComparisonValue(e, tuple)
      [] e.type = "ARITHMETIC"  -> ArithmeticValue(e, tuple)
      [] OTHER                  -> Err("UNIMPLEMENTED")

(* ComparisonExpr::try_get_value: only of two constants.                     *)
try_get_value(e) ==
    IF e.left.type = "VALUE" /\ e.right.type = "VALUE"
    THEN Ok(Bool(compare_value(e.comp, e.left.value, e.right.value)))
    ELSE Err("INVALID_ARGUMENT")

(* The cells of a list of expressions over a tuple (ExpressionTuple,         *)
(* ValueListTuple::make): the first failure is the result.                   *)
Failure(results) ==
    LET bad == {i \in DOMAIN results : results[i].rc # "SUCCESS"}
    IN IF bad = {} THEN "SUCCESS" ELSE results[CHOOSE i \in bad : \A j \in bad : i <= j].rc

Values(results) == [i \in DOMAIN results |-> results[i].value]

(* Tuple::compare on lists of the same length: equal cells only.             *)
SameCells(a, b) ==
    /\ Len(a) = Len(b)
    /\ \A i \in DOMAIN a : compare(a[i], b[i]) = 0

-----------------------------------------------------------------------------
(* SumAggregator: the first value is taken as it is.  create_aggregator      *)
(* knows no other function and leaves a null pointer.                        *)
accumulate(sum, x) ==
    IF sum.type = "UNDEFINED" THEN x ELSE Arithmetic(sum.type, "ADD", x, sum)

CanAggregate(e) == e.aggregate = "SUM"
=============================================================================
