---------------------------- MODULE SqlPlanner -----------------------------
(* Logical plans, the rewriter and the physical plans: sql/optimizer/.       *)
(* A logical operator is a record tagged with its LogicalOperatorType;       *)
(* "expressions" and "children" are the vectors of LogicalOperator, and only *)
(* PREDICATE, PROJECTION and CALC put anything into the first.               *)
EXTENDS SqlResolver

CONSTANT Indexed     \* the <<table, field>> pairs that have an index

ASSUME IndexedAssumption ==
    \A p \in Indexed : p[1] \in DOMAIN Schema /\ field(p[1], p[2]) # <<>>

TableGet(t, m)   == [type |-> "TABLE_GET", expressions |-> <<>>, children |-> <<>>,
                     table |-> t, mode |-> m, predicates |-> <<>>]
Predicate(e, c)  == [type |-> "PREDICATE", expressions |-> <<e>>, children |-> <<c>>]
Join(l, r)       == [type |-> "JOIN", expressions |-> <<>>, children |-> <<l, r>>]
GroupBy(g, a, c) == [type |-> "GROUP_BY", expressions |-> <<>>, children |-> <<c>>,
                     group_by |-> g, aggregates |-> a]
Project(es, c)   == [type |-> "PROJECTION", expressions |-> es, children |-> <<c>>]
Calc(es)         == [type |-> "CALC", expressions |-> es, children |-> <<>>]
Insert(t, vs)    == [type |-> "INSERT", expressions |-> <<>>, children |-> <<>>,
                     table |-> t, values |-> vs]
Delete(t, c)     == [type |-> "DELETE", expressions |-> <<>>, children |-> <<c>>, table |-> t]
Explain(c)       == [type |-> "EXPLAIN", expressions |-> <<>>, children |-> <<c>>]
NoPlan           == [type |-> "NONE", expressions |-> <<>>, children |-> <<>>]

Planned(p)       == [rc |-> "SUCCESS", plan |-> p]
Unplanned(rc)    == [rc |-> rc, plan |-> NoPlan]

(* create_plan(FilterStmt): the operands of a comparison must have one type, *)
(* because no type converts to another.                                      *)
Comparable(c) ==
    LET l == value_type(c.left)
        r == value_type(c.right)
    IN l = r \/ cast_cost(l, r) # INT32_MAX \/ cast_cost(r, l) # INT32_MAX

FilterPlan(filter, child) ==
    IF \E i \in DOMAIN filter : ~Comparable(filter[i]) THEN Unplanned("UNSUPPORTED")
    ELSE IF filter = <<>> THEN Planned(child)
    ELSE Planned(Predicate(ConjunctionExpr(filter), child))

(* The three walks of create_group_by_plan over the SELECT list.             *)
RECURSIVE collector(_)
collector(e) ==
    (IF e.type = "AGGREGATION" THEN <<e>> ELSE <<>>)
        \o FlattenSeq([i \in DOMAIN Children(e) |-> collector(Children(e)[i])])

RECURSIVE find_unbound_column(_, _)
find_unbound_column(e, group_by) ==
    /\ e.type # "AGGREGATION"
    /\ \A i \in DOMAIN group_by : ~ExprEqual(e, group_by[i])
    /\ \/ e.type = "FIELD"
       \/ \E i \in DOMAIN Children(e) : find_unbound_column(Children(e)[i], group_by)

create_group_by_plan(s, child) ==
    LET aggregates == FlattenSeq([i \in DOMAIN s.query_expressions |->
                                     collector(s.query_expressions[i])])
    IN IF s.group_by = <<>> /\ aggregates = <<>> THEN Planned(child)
       ELSE IF \E i \in DOMAIN s.query_expressions :
                   find_unbound_column(s.query_expressions[i], s.group_by)
            THEN Unplanned("INVALID_ARGUMENT")
       ELSE Planned(GroupBy(s.group_by, aggregates, child))

(* A left-deep tree over the tables of the FROM list.                        *)
RECURSIVE TablePlan(_)
TablePlan(tables) ==
    IF Len(tables) = 1 THEN TableGet(tables[1], "READ_ONLY")
    ELSE Join(TablePlan(Front(tables)), TableGet(Last(tables), "READ_ONLY"))

SelectPlan(s) ==
    LET filtered == FilterPlan(s.filter, TablePlan(s.tables))
        grouped  == create_group_by_plan(s, filtered.plan)
    IN IF filtered.rc # "SUCCESS" THEN filtered
       ELSE IF grouped.rc # "SUCCESS" THEN grouped
       ELSE Planned(Project(s.query_expressions, grouped.plan))

DeletePlan(s) ==
    LET filtered == FilterPlan(s.filter, TableGet(s.table, "READ_WRITE"))
    IN IF filtered.rc # "SUCCESS" THEN filtered
       ELSE Planned(Delete(s.table, filtered.plan))

(* LogicalPlanGenerator::create                                              *)
RECURSIVE create_logical(_)
ExplainPlan(s) ==
    LET child == create_logical(s.child)
    IN IF child.rc # "SUCCESS" THEN child ELSE Planned(Explain(child.plan))

CalcPlan(s)   == Planned(Calc(s.expressions))
InsertPlan(s) == Planned(Insert(s.table, s.values))

create_logical(s) ==
    CASE s.kind = "CALC"    -> CalcPlan(s)
      [] s.kind = "SELECT"  -> SelectPlan(s)
      [] s.kind = "INSERT"  -> InsertPlan(s)
      [] s.kind = "DELETE"  -> DeletePlan(s)
      [] s.kind = "EXPLAIN" -> ExplainPlan(s)
      [] OTHER              -> Unplanned("UNIMPLEMENTED")

-----------------------------------------------------------------------------
(* The rewriter.  A rule maps a subject to [it, changed].                    *)

Same(x)    == [it |-> x, changed |-> FALSE]
Changed(x) == [it |-> x, changed |-> TRUE]

Then(r, Rule(_)) == [Rule(r.it) EXCEPT !.changed = @ \/ r.changed]
Its(rs)          == [i \in DOMAIN rs |-> rs[i].it]
AnyChanged(rs)   == \E i \in DOMAIN rs : rs[i].changed

(* ComparisonSimplificationRule: a comparison of two constants.              *)
SimplifyComparison(e) ==
    IF e.type = "COMPARISON" /\ e.left.type = "VALUE" /\ e.right.type = "VALUE"
    THEN Changed(ValueExpr(try_get_value(e).value))
    ELSE Same(e)

IsConstant(e, b) == e.type = "VALUE" /\ e.value = Bool(b)

(* A mutant: a constant that is false is dropped as if it were true.         *)
SimplifyConjunction_DropsFalse(e) ==
    IF e.type # "CONJUNCTION" THEN Same(e)
    ELSE LET kept == SelectSeq(e.children, LAMBDA c : c.type # "VALUE")
         IN IF Len(kept) = 1 THEN Changed(kept[1]) ELSE Same(ConjunctionExpr(kept))

(* ConjunctionSimplificationRule, for AND: constants that are true go away;  *)
(* at the first one that is false the expression becomes the first child     *)
(* that is left, which need not be the false one, and no change is reported. *)
SimplifyConjunction(e) ==
    IF e.type # "CONJUNCTION" THEN Same(e)
    ELSE LET kept  == SelectSeq(e.children, LAMBDA c : ~IsConstant(c, TRUE))
             false == {i \in DOMAIN kept : IsConstant(kept[i], FALSE)}
         IN IF false # {} THEN Same(kept[1])
            ELSE IF Len(kept) = 1 THEN Changed(kept[1])
            ELSE Same(ConjunctionExpr(kept))

(* ExpressionRewriter::rewrite_expression: both rules at the node; into the  *)
(* children only when neither reported a change.                             *)
RECURSIVE rewrite_expression(_)
RewriteComparison(e, l, r) ==
    [it |-> [e EXCEPT !.left = l.it, !.right = r.it], changed |-> l.changed \/ r.changed]
RewriteConjunction(cs) == [it |-> ConjunctionExpr(Its(cs)), changed |-> AnyChanged(cs)]

RewriteOperands(r) ==
    CASE r.changed -> r
      [] ~r.changed /\ r.it.type = "COMPARISON" ->
            RewriteComparison(r.it, rewrite_expression(r.it.left), rewrite_expression(r.it.right))
      [] ~r.changed /\ r.it.type = "CONJUNCTION" ->
            RewriteConjunction([i \in DOMAIN r.it.children |-> rewrite_expression(r.it.children[i])])
      [] OTHER -> r

rewrite_expression(e) == RewriteOperands(Then(SimplifyComparison(e), SimplifyConjunction))

(* ExpressionRewriter::rewrite: the expressions of the operator and of all   *)
(* operators below it.                                                       *)
RECURSIVE RewriteExpressions(_)
RewriteParts(o, es, cs) ==
    [it |-> [o EXCEPT !.expressions = Its(es), !.children = Its(cs)],
     changed |-> AnyChanged(es) \/ AnyChanged(cs)]

RewriteExpressions(o) ==
    RewriteParts(o, [i \in DOMAIN o.expressions |-> rewrite_expression(o.expressions[i])],
                    [i \in DOMAIN o.children |-> RewriteExpressions(o.children[i])])


(* PredicateRewriteRule: the only child is a PREDICATE with a constant.      *)
RewritePredicate(o) ==
    IF Len(o.children) # 1 THEN Same(o)
    ELSE LET c == o.children[1]
         IN IF c.type # "PREDICATE" \/ c.expressions[1].type # "VALUE" THEN Same(o)
            ELSE IF get_boolean(c.expressions[1].value)
                 THEN Changed([o EXCEPT !.children = c.children])
                 ELSE Changed([o EXCEPT !.children = <<>>])

(* get_exprs_can_pushdown                                                    *)
CanPushdown(e) ==
    e.type = "COMPARISON" /\ (e.left.type = "FIELD" \/ e.right.type = "FIELD")

get_exprs_can_pushdown(e) ==
    IF e.type = "CONJUNCTION"
    THEN [pushed |-> SelectSeq(e.children, CanPushdown),
          left   |-> SelectSeq(e.children, LAMBDA c : ~CanPushdown(c))]
    ELSE IF CanPushdown(e) THEN [pushed |-> <<e>>, left |-> <<>>]
    ELSE [pushed |-> <<>>, left |-> <<e>>]

(* PredicatePushdownRewriter::rewrite: the comparisons move into the table   *)
(* scan below, and a predicate with nothing left becomes the constant true.  *)
PushdownPredicate(o) ==
    IF o.type # "PREDICATE" \/ Len(o.children) # 1 THEN Same(o)
    ELSE IF o.children[1].type # "TABLE_GET" THEN Same(o)
    ELSE LET e     == o.expressions[1]
             down  == get_exprs_can_pushdown(e)
             left  == IF down.left = <<>> THEN ValueExpr(Bool(TRUE))
                      ELSE IF e.type = "CONJUNCTION" THEN ConjunctionExpr(down.left) ELSE e
             below == IF down.pushed = <<>> THEN o.children[1]
                      ELSE [o.children[1] EXCEPT !.predicates = down.pushed]
         IN [it |-> [o EXCEPT !.expressions = <<left>>, !.children = <<below>>],
             changed |-> down.pushed # <<>>]

(* Rewriter::rewrite: the three rules at the operator, then its children.    *)
RECURSIVE rewrite(_)
WithChildren(r, cs) ==
    [it |-> [r.it EXCEPT !.children = Its(cs)], changed |-> r.changed \/ AnyChanged(cs)]

RewriteChildren(r) ==
    WithChildren(r, [i \in DOMAIN r.it.children |-> rewrite(r.it.children[i])])

rewrite(o) == RewriteChildren(Then(Then(RewriteExpressions(o), RewritePredicate), PushdownPredicate))

-----------------------------------------------------------------------------
(* Physical plans.  An operator that has not been opened is the record of    *)
(* what the generator gives its constructor.                                 *)

(* create_plan(TableGetLogicalOperator): the first equality of an indexed    *)
(* column with a constant chooses the index and the key of the scan.         *)
IndexKey(e) ==
    LET f == IF e.left.type = "FIELD" THEN e.left ELSE e.right
        x == IF e.left.type = "FIELD" THEN e.right ELSE e.left
    IN [field |-> <<f.table, f.field>>, expr |-> x]

(* A mutant: any comparison of the column with a constant will do.           *)
CanUseIndex_AnyComp(e) ==
    /\ "VALUE" \in {e.left.type, e.right.type}
    /\ IndexKey(e).field \in Indexed

CanUseIndex(e) ==
    /\ e.comp = "EQUAL_TO"
    /\ "VALUE" \in {e.left.type, e.right.type}
    /\ IndexKey(e).field \in Indexed

Scan(o) ==
    LET usable == SelectSeq(o.predicates, CanUseIndex)
    IN IF usable = <<>>
       THEN [type |-> "TABLE_SCAN", table |-> o.table, mode |-> o.mode,
             predicates |-> o.predicates]
       ELSE [type |-> "INDEX_SCAN", table |-> o.table, mode |-> o.mode,
             predicates |-> o.predicates, key |-> IndexKey(usable[1]).expr.value,
             field |-> IndexKey(usable[1]).field]

PredicateOper(o, sub) == [type |-> "PREDICATE", children |-> sub, expression |-> o.expressions[1]]
ProjectOper(o, sub)   == [type |-> "PROJECT", children |-> sub, expressions |-> o.expressions]
JoinOper(sub)         == [type |-> "NESTED_LOOP_JOIN", children |-> sub]
InsertOper(o)         == [type |-> "INSERT", table |-> o.table, values |-> o.values]
DeleteOper(o, sub)    == [type |-> "DELETE", table |-> o.table, children |-> sub]
ExplainOper(sub)      == [type |-> "EXPLAIN", children |-> sub]
CalcOper(o)           == [type |-> "CALC", expressions |-> o.expressions]

(* GROUP_BY takes the front of its children whether there is one or not:     *)
(* without one the process dies.                                             *)
GroupByOper(o, sub) ==
    IF sub = <<>> THEN Unplanned("CRASH")
    ELSE Planned([type |-> IF o.group_by = <<>> THEN "SCALAR_GROUP_BY" ELSE "HASH_GROUP_BY",
                  children |-> sub, group_by |-> o.group_by, aggregates |-> o.aggregates])

(* PhysicalPlanGenerator::create                                             *)
RECURSIVE create(_)
create(o) ==
    LET kids == [i \in DOMAIN o.children |-> create(o.children[i])]
        rc   == Failure(kids)
        sub  == [i \in DOMAIN kids |-> kids[i].plan]
    IN IF rc # "SUCCESS" THEN Unplanned(rc)
       ELSE CASE o.type = "TABLE_GET"  -> Planned(Scan(o))
              [] o.type = "PREDICATE"  -> Planned(PredicateOper(o, sub))
              [] o.type = "PROJECTION" -> Planned(ProjectOper(o, sub))
              [] o.type = "JOIN"       -> Planned(JoinOper(sub))
              [] o.type = "INSERT"     -> Planned(InsertOper(o))
              [] o.type = "DELETE"     -> Planned(DeleteOper(o, sub))
              [] o.type = "EXPLAIN"    -> Planned(ExplainOper(sub))
              [] o.type = "CALC"       -> Planned(CalcOper(o))
              [] o.type = "GROUP_BY"   -> GroupByOper(o, sub)

VecScan(o)            == [type |-> "TABLE_SCAN_VEC", table |-> o.table]
VecProject(sub)       == [type |-> "PROJECT_VEC",
                          children |-> IF sub = <<>> THEN <<>>
                                       ELSE <<[type |-> "EXPR_VEC", children |-> sub]>>]
VecExplain(sub)       == [type |-> "EXPLAIN", children |-> sub]
VecGroupBy(o, sub) ==
    IF sub = <<>> THEN Unplanned("CRASH")
    ELSE Planned([type |-> IF o.group_by = <<>> THEN "AGGREGATE_VEC" ELSE "GROUP_BY_VEC",
                  children |-> sub])

(* PhysicalPlanGenerator::create_vec: filters and joins have no chunk        *)
(* version.                                                                  *)
RECURSIVE create_vec(_)
create_vec(o) ==
    LET kids == [i \in DOMAIN o.children |-> create_vec(o.children[i])]
        rc   == Failure(kids)
        sub  == [i \in DOMAIN kids |-> kids[i].plan]
    IN IF o.type \notin {"TABLE_GET", "PROJECTION", "GROUP_BY", "EXPLAIN"}
       THEN Unplanned("INVALID_ARGUMENT")
       ELSE IF rc # "SUCCESS" THEN Unplanned(rc)
       ELSE CASE o.type = "TABLE_GET"  -> Planned(VecScan(o))
              [] o.type = "PROJECTION" -> Planned(VecProject(sub))
              [] o.type = "EXPLAIN"    -> Planned(VecExplain(sub))
              [] o.type = "GROUP_BY"   -> VecGroupBy(o, sub)

(* LogicalOperator::can_generate_vectorized_operator                         *)
can_generate_vectorized_operator(type) == type \notin {"CALC", "DELETE", "INSERT"}

(* OptimizeStage::generate_physical_plan                                     *)
generate_physical_plan(o, execution_mode) ==
    IF execution_mode = "CHUNK_ITERATOR" /\ can_generate_vectorized_operator(o.type)
    THEN create_vec(o) ELSE create(o)
=============================================================================
