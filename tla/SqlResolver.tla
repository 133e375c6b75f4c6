---------------------------- MODULE SqlResolver ----------------------------
(* From the parsed statement to a bound one: expression_binder.cpp and       *)
(* sql/stmt/.  A parsed SELECT is a record [kind, expressions, relations,    *)
(* conditions, group_by]; a condition is a comparison of two operands, each  *)
(* an unbound field or a value.                                              *)
EXTENDS SqlExpr

CONSTANT Schema      \* table name -> its fields, a sequence of [name, attr]

ASSUME SchemaAssumption ==
    \A t \in DOMAIN Schema : \A i \in DOMAIN Schema[t] :
        Schema[t][i].attr \in {"CHARS", "INTS", "FLOATS"}

UnboundField(t, f)      == [type |-> "UNBOUND_FIELD", table |-> t, field |-> f]
UnboundAggregate(g, e, n) ==
    [type |-> "UNBOUND_AGGREGATION", aggregate |-> g, child |-> e, name |-> n]
StarExpr                == [type |-> "STAR"]

(* The parse trees of parse_defs.h.                                          *)
ConditionSqlNode(l, c, r) == [comp |-> c, left |-> l, right |-> r]
SelectSqlNode(es, rs, cs, gs) ==
    [kind |-> "SELECT", expressions |-> es, relations |-> rs, conditions |-> cs, group_by |-> gs]
DeleteSqlNode(r, cs)      == [kind |-> "DELETE", relation |-> r, conditions |-> cs]
InsertSqlNode(r, vs)      == [kind |-> "INSERT", relation |-> r, values |-> vs]
CalcSqlNode(es)           == [kind |-> "CALC", expressions |-> es]
ExplainSqlNode(n)         == [kind |-> "EXPLAIN", child |-> n]
SqlNode(kind)             == [kind |-> kind]      \* the ones without contents here

Bound(es)     == [rc |-> "SUCCESS", exprs |-> es]
Unbound(rc)   == [rc |-> rc, exprs |-> <<>>]

field(t, f)   == SelectSeq(Schema[t], LAMBDA m : m.name = f)

(* wildcard_fields: the user's columns of a table.                           *)
wildcard_fields(t) ==
    [i \in DOMAIN Schema[t] |-> FieldExpr(t, Schema[t][i].name, Schema[t][i].attr)]

(* bind_star_expression                                                      *)
bind_star_expression(tables) ==
    Bound(FlattenSeq([i \in DOMAIN tables |-> wildcard_fields(tables[i])]))

(* bind_unbound_field_expression; a name without a table is resolved only    *)
(* when there is one table.                                                  *)
bind_unbound_field_expression(e, tables) ==
    LET t == IF e.table # "" THEN e.table ELSE tables[1]
    IN IF \/ e.table = "" /\ Len(tables) # 1
          \/ e.table # "" /\ e.table \notin Range(tables)
       THEN Unbound("SCHEMA_TABLE_NOT_EXIST")
       ELSE LET m == field(t, e.field)
            IN IF m = <<>> THEN Unbound("SCHEMA_FIELD_MISSING")
               ELSE Bound(<<FieldExpr(t, e.field, m[1].attr)>>)

RECURSIVE HasAggregate(_)
HasAggregate(e) ==
    \/ e.type = "AGGREGATION"
    \/ \E i \in DOMAIN Children(e) : HasAggregate(Children(e)[i])

(* check_aggregate_expression                                                *)
check_aggregate_expression(e) ==
    IF \/ e.aggregate \in {"SUM", "AVG"} /\ value_type(e.child) \notin {"INTS", "FLOATS"}
       \/ HasAggregate(e.child)
    THEN Unbound("INVALID_ARGUMENT")
    ELSE Bound(<<e>>)

(* bind_expression and its helpers for what a SELECT list or a GROUP BY can  *)
(* hold.  A unary minus has no right child: nothing is bound for it and the  *)
(* statement is refused.                                                     *)
RECURSIVE bind_expression(_, _)
bind_arithmetic_expression(e, tables) ==
    LET l == bind_expression(e.left, tables)
        r == bind_expression(e.right, tables)
    IN IF l.rc # "SUCCESS" THEN l
       ELSE IF Len(l.exprs) # 1 THEN Unbound("INVALID_ARGUMENT")
       ELSE IF r.rc # "SUCCESS" THEN r
       ELSE IF Len(r.exprs) # 1 THEN Unbound("INVALID_ARGUMENT")
       ELSE Bound(<<ArithmeticExpr(e.op, l.exprs[1], r.exprs[1])>>)

bind_aggregate_expression(e, tables) ==
    LET c == IF e.child.type = "STAR" /\ e.aggregate = "COUNT"
             THEN Bound(<<ValueExpr(Value("INTS", 1))>>)
             ELSE bind_expression(e.child, tables)
    IN IF c.rc # "SUCCESS" THEN c
       ELSE IF Len(c.exprs) # 1 THEN Unbound("INVALID_ARGUMENT")
       ELSE check_aggregate_expression(AggregateExpr(e.aggregate, c.exprs[1], e.name))

bind_expression(e, tables) ==
    CASE e.type = "STAR"          -> bind_star_expression(tables)
      [] e.type = "UNBOUND_FIELD" -> bind_unbound_field_expression(e, tables)
      [] e.type = "VALUE"         -> Bound(<<e>>)
      [] e.type = "NONE"          -> Bound(<<>>)
      [] e.type = "ARITHMETIC"    -> bind_arithmetic_expression(e, tables)
      [] e.type = "UNBOUND_AGGREGATION" -> bind_aggregate_expression(e, tables)

(* All expressions of a list, in order, up to the first failure.             *)
BindAll(es, tables) ==
    LET bound == [i \in DOMAIN es |-> bind_expression(es[i], tables)]
        rc    == Failure(bound)
    IN IF rc # "SUCCESS" THEN Unbound(rc)
       ELSE Bound(FlattenSeq([i \in DOMAIN es |-> bound[i].exprs]))

-----------------------------------------------------------------------------
(* get_table_and_field, create_filter_unit                                   *)
FilterObj(e, tables) ==
    IF e.type = "VALUE" THEN Bound(<<e>>)
    ELSE LET t == IF e.table # "" THEN e.table ELSE tables[1]
         IN IF \/ e.table = "" /\ Len(tables) # 1
               \/ e.table # "" /\ e.table \notin Range(tables)
            THEN Unbound("SCHEMA_TABLE_NOT_EXIST")
            ELSE LET m == field(t, e.field)
                 IN IF m = <<>> THEN Unbound("SCHEMA_FIELD_NOT_EXIST")
                    ELSE Bound(<<FieldExpr(t, e.field, m[1].attr)>>)

create_filter_unit(c, tables) ==
    LET l == FilterObj(c.left, tables)
        r == FilterObj(c.right, tables)
    IN IF l.rc # "SUCCESS" THEN l
       ELSE IF r.rc # "SUCCESS" THEN r
       ELSE Bound(<<ComparisonExpr(c.comp, l.exprs[1], r.exprs[1])>>)

(* FilterStmt::create: the filter units in the order of the parsed list.     *)
FilterStmt(conditions, tables) ==
    LET units == [i \in DOMAIN conditions |-> create_filter_unit(conditions[i], tables)]
        rc    == Failure(units)
    IN IF rc # "SUCCESS" THEN Unbound(rc)
       ELSE Bound([i \in DOMAIN units |-> units[i].exprs[1]])

Resolved(s)   == [rc |-> "SUCCESS", stmt |-> s]
Unresolved(rc) == [rc |-> rc, stmt |-> [kind |-> "NONE"]]

(* SelectStmt::create                                                        *)
SelectStmt(node) ==
    IF \E i \in DOMAIN node.relations : node.relations[i] \notin DOMAIN Schema
    THEN Unresolved("SCHEMA_TABLE_NOT_EXIST")
    ELSE LET query  == BindAll(node.expressions, node.relations)
             group  == BindAll(node.group_by, node.relations)
             filter == FilterStmt(node.conditions, node.relations)
         IN IF query.rc # "SUCCESS" THEN Unresolved(query.rc)
            ELSE IF group.rc # "SUCCESS" THEN Unresolved(group.rc)
            ELSE IF filter.rc # "SUCCESS" THEN Unresolved(filter.rc)
            ELSE Resolved([kind |-> "SELECT", tables |-> node.relations,
                           query_expressions |-> query.exprs,
                           group_by |-> group.exprs, filter |-> filter.exprs])

(* InsertStmt::create: the number of values, not their types.                *)
InsertStmt(node) ==
    IF node.relation \notin DOMAIN Schema THEN Unresolved("SCHEMA_TABLE_NOT_EXIST")
    ELSE IF Len(node.values) # Len(Schema[node.relation])
         THEN Unresolved("SCHEMA_FIELD_MISSING")
    ELSE Resolved([kind |-> "INSERT", table |-> node.relation, values |-> node.values])

(* DeleteStmt::create                                                        *)
DeleteStmt(node) ==
    IF node.relation \notin DOMAIN Schema THEN Unresolved("SCHEMA_TABLE_NOT_EXIST")
    ELSE LET filter == FilterStmt(node.conditions, <<node.relation>>)
         IN IF filter.rc # "SUCCESS" THEN Unresolved(filter.rc)
            ELSE Resolved([kind |-> "DELETE", table |-> node.relation, filter |-> filter.exprs])

(* Stmt::create_stmt.  CalcStmt takes its expressions as they are parsed;    *)
(* UPDATE, DROP TABLE and DROP INDEX are not implemented.                    *)
RECURSIVE create_stmt(_)
ExplainStmt(node) ==
    LET child == create_stmt(node.child)
    IN IF child.rc # "SUCCESS" THEN Unresolved(child.rc)
       ELSE Resolved([kind |-> "EXPLAIN", child |-> child.stmt])

CalcStmt(node) == Resolved([kind |-> "CALC", expressions |-> node.expressions])

create_stmt(node) ==
    CASE node.kind = "SELECT"  -> SelectStmt(node)
      [] node.kind = "INSERT"  -> InsertStmt(node)
      [] node.kind = "DELETE"  -> DeleteStmt(node)
      [] node.kind = "CALC"    -> CalcStmt(node)
      [] node.kind = "EXPLAIN" -> ExplainStmt(node)
      [] OTHER                 -> Unresolved("UNIMPLEMENTED")
=============================================================================
