--------------------------- MODULE SqlOperators ----------------------------
(* The physical operators: sql/operator/.  open(o, db) and next(o, db)       *)
(* return the operator as the call leaves it, with a return code; next also  *)
(* returns the current tuple.  A database is a record                        *)
(*   rows    table -> its rows in the order of their rids, each [rid, cells] *)
(*   paged   the tables that have a data page                                *)
(*   locked  the rids another transaction is deleting at the moment.         *)
(* A row tuple carries the rid of its record, any other tuple the rid 0.     *)
EXTENDS SqlPlanner

Tuple(rid, cells)    == [rid |-> rid, cells |-> cells]
NoTuple              == Tuple(0, <<>>)

Opened(o)            == [rc |-> "SUCCESS", oper |-> o]
NotOpened(rc, o)     == [rc |-> rc, oper |-> o]
Got(o, t)            == [rc |-> "SUCCESS", oper |-> o, tuple |-> t]
Nothing(rc, o)       == [rc |-> rc, oper |-> o, tuple |-> NoTuple]

(* RowTuple: the fields of the record under their specs.                     *)
RowTuple(t, row) ==
    Tuple(row.rid, [i \in DOMAIN Schema[t] |->
                       [spec |-> <<t, Schema[t][i].name>>, value |-> row.cells[i]]])

JoinedTuple(l, r) == Tuple(0, l.cells \o r.cells)

(* filter of the two scans.                                                  *)
filter(predicates, tuple) ==
    AllTrue([i \in DOMAIN predicates |-> get_value(predicates[i], tuple.cells)])

(* Trx::visit_record as it matters here: a row that another transaction is   *)
(* deleting can be read and not be written.                                  *)
visit_record(o, row, db) ==
    IF o.mode = "READ_WRITE" /\ row.rid \in db.locked
    THEN "LOCKED_CONCURRENCY_CONFLICT" ELSE "SUCCESS"

(* BplusTreeScanner::open for the interval [key, key], and what it leaves of *)
(* the rows, in the order of the index (column, then rid).                   *)
KeyOf(t, f, row) ==
    row.cells[CHOOSE i \in DOMAIN Schema[t] : <<t, Schema[t][i].name>> = f].v

InRange(o, row) ==
    LET k == KeyOf(o.table, o.field, row)
        l == fix_user_key(o.key.v, TRUE)
        r == fix_user_key(o.key.v, FALSE)
    IN IF o.key.type = "CHARS" THEN l.key <= k /\ k <= r.key ELSE k = o.key.v

IndexEntries(o, db) ==
    LET rows == SelectSeq(db.rows[o.table], LAMBDA row : InRange(o, row))
    IN SortSeq(rows, LAMBDA x, y :
                  \/ KeyOf(o.table, o.field, x) < KeyOf(o.table, o.field, y)
                  \/ /\ KeyOf(o.table, o.field, x) = KeyOf(o.table, o.field, y)
                     /\ x.rid < y.rid)

(* TableScanPhysicalOperator::next: the scanner visits the record first,     *)
(* then the predicates are asked.                                            *)
RECURSIVE ScanNext(_, _)
ScanNext(o, db) ==
    IF o.todo = <<>> THEN Nothing("RECORD_EOF", o)
    ELSE LET row  == Head(o.todo)
             rest == [o EXCEPT !.todo = Tail(@)]
             hit  == filter(o.predicates, RowTuple(o.table, row))
         IN IF visit_record(o, row, db) # "SUCCESS"
            THEN Nothing(visit_record(o, row, db), rest)
            ELSE IF hit.rc # "SUCCESS" THEN Nothing(hit.rc, rest)
            ELSE IF get_boolean(hit.value) THEN Got(rest, RowTuple(o.table, row))
            ELSE ScanNext(rest, db)

(* IndexScanPhysicalOperator::next: the predicates first, then the visit.    *)
RECURSIVE IndexNext(_, _)
IndexNext(o, db) ==
    IF o.todo = <<>> THEN Nothing("RECORD_EOF", o)
    ELSE LET row  == Head(o.todo)
             rest == [o EXCEPT !.todo = Tail(@)]
             hit  == filter(o.predicates, RowTuple(o.table, row))
         IN IF hit.rc # "SUCCESS" THEN Nothing(hit.rc, rest)
            ELSE IF ~get_boolean(hit.value) THEN IndexNext(rest, db)
            ELSE IF visit_record(o, row, db) # "SUCCESS"
            THEN Nothing(visit_record(o, row, db), rest)
            ELSE Got(rest, RowTuple(o.table, row))

-----------------------------------------------------------------------------
(* Grouping: create_aggregator_list, aggregate and evaluate of               *)
(* GroupByPhysicalOperator.  A group is [key, first, sums].                  *)

NewGroup(o, key, tuple) ==
    [key |-> key, first |-> tuple.cells, sums |-> [i \in DOMAIN o.aggregates |-> NoValue]]

aggregate(o, group, tuple) ==
    [group EXCEPT !.sums = [i \in DOMAIN o.aggregates |->
        accumulate(@[i], get_value(o.aggregates[i].child, tuple.cells).value)]]

evaluate(o, group) ==
    Tuple(0, group.first \o [i \in DOMAIN o.aggregates |->
                                [spec |-> <<"", o.aggregates[i].name>>, value |-> group.sums[i]]])

(* HashGroupByPhysicalOperator::find_group and aggregate, for one tuple.     *)
AddToGroups(o, groups, tuple) ==
    LET key == Values([i \in DOMAIN o.group_by |-> get_value(o.group_by[i], tuple.cells)])
        at  == {i \in DOMAIN groups : SameCells(key, groups[i].key)}
    IN IF at = {} THEN Append(groups, aggregate(o, NewGroup(o, key, tuple), tuple))
       ELSE [groups EXCEPT ![CHOOSE i \in at : TRUE] = aggregate(o, @, tuple)]

GroupAll(o, tuples) ==
    FoldLeft(LAMBDA groups, tuple : AddToGroups(o, groups, tuple), <<>>, tuples)

(* The scalar operator has one group, made by the first tuple, or none.      *)
ScalarAll(o, tuples) ==
    IF tuples = <<>> THEN <<>>
    ELSE <<FoldLeft(LAMBDA group, tuple : aggregate(o, group, tuple),
                    NewGroup(o, <<>>, tuples[1]), tuples)>>

-----------------------------------------------------------------------------
RECURSIVE open(_, _), next(_, _), Drain(_, _, _)

(* What a call on the first child gave, with the operator around it.         *)
Around(o, c) == [c EXCEPT !.oper = [o EXCEPT !.children[1] = c.oper]]

(* The tuples of an opened operator up to the first code that is not         *)
(* SUCCESS.                                                                  *)
DrainOn(n, db, tuples) ==
    IF n.rc # "SUCCESS" THEN [rc |-> n.rc, tuples |-> tuples]
    ELSE Drain(n.oper, db, Append(tuples, n.tuple))

Drain(o, db, tuples) == DrainOn(next(o, db), db, tuples)

(* open of the two GROUP BY operators reads the child to its end.  An        *)
(* aggregate without an aggregator is a null pointer that the first tuple    *)
(* runs into.                                                                *)
Evaluated(o, groups) ==
    Opened([type |-> o.type, todo |-> [i \in DOMAIN groups |-> evaluate(o, groups[i])]])

GroupTuples(o, all, Group(_, _)) ==
    IF all.tuples # <<>> /\ \E i \in DOMAIN o.aggregates : ~CanAggregate(o.aggregates[i])
    THEN NotOpened("CRASH", o)
    ELSE IF all.rc # "RECORD_EOF" THEN NotOpened(all.rc, o)
    ELSE Evaluated(o, Group(o, all.tuples))

OpenGroups(o, child, db, Group(_, _)) ==
    IF child.rc # "SUCCESS" THEN NotOpened(child.rc, o)
    ELSE GroupTuples(o, Drain(child.oper, db, <<>>), Group)

OpenHashGroupBy(o, db)   == OpenGroups(o, open(o.children[1], db), db, GroupAll)
OpenScalarGroupBy(o, db) == OpenGroups(o, open(o.children[1], db), db, ScalarAll)

(* open of the operators that only open their first child.                   *)
OpenChild(o, db) == Around(o, open(o.children[1], db))

OpenProject(o, db) == IF o.children = <<>> THEN Opened(o) ELSE OpenChild(o, db)

OpenScan(o, db) ==
    Opened([type |-> o.type, table |-> o.table, mode |-> o.mode,
            predicates |-> o.predicates, todo |-> db.rows[o.table]])

OpenIndexScan(o, db) ==
    Opened([type |-> o.type, table |-> o.table, mode |-> o.mode,
            predicates |-> o.predicates, todo |-> IndexEntries(o, db)])

(* NestedLoopJoinPhysicalOperator::open: the left side only.                 *)
JoinOf(o, left) ==
    [rc |-> left.rc,
     oper |-> [type |-> o.type, left |-> left.oper, tuple |-> NoTuple,
               unopened |-> o.children[2], right |-> o.children[2],
               round_done |-> TRUE]]

OpenJoin(o, db) == JoinOf(o, open(o.children[1], db))

(* The aggregate over chunks reads its child to the end in open.             *)
AfterChunks(o, rc) == IF rc = "RECORD_EOF" THEN Opened(o) ELSE NotOpened(rc, o)

OpenAggregateVec(o, db) == AfterChunks(o, next(open(o.children[1], db).oper, db).rc)

OpenGroupByVec(o) == NotOpened("UNIMPLEMENTED", o)

(* PhysicalOperator::open                                                    *)
open(o, db) ==
    CASE o.type = "TABLE_SCAN" -> OpenScan(o, db)
      [] o.type = "INDEX_SCAN" -> OpenIndexScan(o, db)
      [] o.type = "PREDICATE"  -> OpenChild(o, db)
      [] o.type \in {"PROJECT", "PROJECT_VEC", "EXPR_VEC"} -> OpenProject(o, db)
      [] o.type = "NESTED_LOOP_JOIN" -> OpenJoin(o, db)
      [] o.type = "HASH_GROUP_BY"   -> OpenHashGroupBy(o, db)
      [] o.type = "SCALAR_GROUP_BY" -> OpenScalarGroupBy(o, db)
      [] o.type = "CALC"       -> Opened([type |-> o.type, expressions |-> o.expressions,
                                          emitted |-> FALSE])
      [] o.type = "EXPLAIN"    -> Opened([type |-> o.type, emitted |-> FALSE])
      [] o.type = "TABLE_SCAN_VEC" -> Opened(o)
      [] o.type = "GROUP_BY_VEC"   -> OpenGroupByVec(o)
      [] o.type = "AGGREGATE_VEC"  -> OpenAggregateVec(o, db)

(* left_next and right_next of the nested loop join.                         *)
RightOpened(o, db) ==
    IF o.round_done THEN [o EXCEPT !.right = open(o.unopened, db).oper, !.round_done = FALSE]
    ELSE o

FromRight(o, n) ==
    [rc    |-> n.rc,
     oper  |-> [o EXCEPT !.right = n.oper, !.round_done = (n.rc = "RECORD_EOF")],
     tuple |-> IF n.rc = "SUCCESS" THEN JoinedTuple(o.tuple, n.tuple) ELSE NoTuple]

RightNext(o, db)  == FromRight(o, next(o.right, db))
right_next(o, db) == RightNext(RightOpened(o, db), db)

FromLeft(o, n) ==
    [rc    |-> n.rc,
     oper  |-> [o EXCEPT !.left = n.oper, !.tuple = IF n.rc = "SUCCESS" THEN n.tuple ELSE @],
     tuple |-> NoTuple]

left_next(o, db) == FromLeft(o, next(o.left, db))

(* JoinNext: the rest of the round, or the next left tuple and its round.    *)
NewRound(l, db) == IF l.rc # "SUCCESS" THEN l ELSE right_next(l.oper, db)
NextLeft(o, db) == NewRound(left_next(o, db), db)

AfterRight(r, db) == IF r.rc # "RECORD_EOF" THEN r ELSE NextLeft(r.oper, db)

JoinNext(o, db) ==
    IF o.round_done THEN NextLeft(o, db) ELSE AfterRight(right_next(o, db), db)

(* PredicatePhysicalOperator::next: n is the child's next with o around it.  *)
PredicateOn(n, hit, db) ==
    IF n.rc # "SUCCESS" THEN Nothing(n.rc, n.oper)
    ELSE IF hit.rc # "SUCCESS" THEN Nothing(hit.rc, n.oper)
    ELSE IF get_boolean(hit.value) THEN n
    ELSE next(n.oper, db)

TestPredicate(o, n, db) == PredicateOn(n, get_value(o.expression, n.tuple.cells), db)
PredicateNext(o, db)    == TestPredicate(o, Around(o, next(o.children[1], db)), db)

(* The cells of the projection are evaluated when the tuple is written; the  *)
(* names of its cells play no role then.                                     *)
Projected(expressions, cells) ==
    [i \in DOMAIN expressions |-> get_value(expressions[i], cells)]

ProjectNext(o, db) ==
    IF o.children = <<>> THEN Nothing("RECORD_EOF", o)
    ELSE Around(o, next(o.children[1], db))

(* ProjectVecPhysicalOperator and ExprVecPhysicalOperator pass on the chunks *)
(* of the child; none ever comes.                                            *)
ProjectVecNext(o, db) == ProjectNext(o, db)
ExprVecNext(o, db)    == ProjectNext(o, db)

GroupNext(o) ==
    IF o.todo = <<>> THEN Nothing("RECORD_EOF", o)
    ELSE Got([o EXCEPT !.todo = Tail(@)], Head(o.todo))

(* CalcPhysicalOperator::next evaluates every cell once to see an error.     *)
CalcNext(o) ==
    LET rc == Failure(Projected(o.expressions, <<>>))
    IN IF o.emitted THEN Nothing("RECORD_EOF", o)
       ELSE IF rc # "SUCCESS" THEN Nothing(rc, [o EXCEPT !.emitted = TRUE])
       ELSE Got([o EXCEPT !.emitted = TRUE], NoTuple)

ExplainNext(o) ==
    IF o.emitted THEN Nothing("RECORD_EOF", o)
    ELSE Got([o EXCEPT !.emitted = TRUE], NoTuple)

(* Chunks are not implemented for the row format: the first page that is     *)
(* there ends the scan with an error.                                        *)
VecScanNext(o, db) ==
    Nothing(IF o.table \in db.paged THEN "UNIMPLEMENTED" ELSE "RECORD_EOF", o)

(* AggregateVecPhysicalOperator::next is exit(-1).                           *)
AggregateVecNext(o) == Nothing("CRASH", o)

(* PhysicalOperator::next with current_tuple                                 *)
next(o, db) ==
    CASE o.type = "TABLE_SCAN" -> ScanNext(o, db)
      [] o.type = "INDEX_SCAN" -> IndexNext(o, db)
      [] o.type = "PREDICATE"  -> PredicateNext(o, db)
      [] o.type = "PROJECT"     -> ProjectNext(o, db)
      [] o.type = "PROJECT_VEC" -> ProjectVecNext(o, db)
      [] o.type = "EXPR_VEC"    -> ExprVecNext(o, db)
      [] o.type = "NESTED_LOOP_JOIN" -> JoinNext(o, db)
      [] o.type \in {"SCALAR_GROUP_BY", "HASH_GROUP_BY"} -> GroupNext(o)
      [] o.type = "CALC"       -> CalcNext(o)
      [] o.type = "EXPLAIN"    -> ExplainNext(o)
      [] o.type = "TABLE_SCAN_VEC" -> VecScanNext(o, db)
      [] o.type = "AGGREGATE_VEC"  -> AggregateVecNext(o)

-----------------------------------------------------------------------------
(* The operators that change the table do it in open.                        *)

(* Table::make_record: the types must be the ones of the columns (no cast    *)
(* succeeds), strings that are too long are cut.                             *)
CanMakeRecord(t, values) == \A i \in DOMAIN values : values[i].type = Schema[t][i].attr

RowIds(db) == UNION {{db.rows[t][i].rid : i \in DOMAIN db.rows[t]} : t \in DOMAIN db.rows}
NewRid(db) == CHOOSE r \in 1 .. Cardinality(RowIds(db)) + 1 : r \notin RowIds(db)

InsertRow(db, t, values) ==
    LET row == [rid |-> NewRid(db), cells |-> [i \in DOMAIN values |-> Stored(values[i])]]
        all == Append(db.rows[t], row)
    IN [db EXCEPT !.rows[t] = SortSeq(all, LAMBDA x, y : x.rid < y.rid),
                  !.paged   = @ \cup {t}]

(* A mutant: the record is inserted before it is checked.                    *)
OpenInsert_Unchecked(o, db) ==
    [rc |-> IF CanMakeRecord(o.table, o.values) THEN "SUCCESS" ELSE "UNSUPPORTED",
     db |-> InsertRow(db, o.table, o.values)]

(* InsertPhysicalOperator::open                                              *)
OpenInsert(o, db) ==
    IF CanMakeRecord(o.table, o.values)
    THEN [rc |-> "SUCCESS", db |-> InsertRow(db, o.table, o.values)]
    ELSE [rc |-> "UNSUPPORTED", db |-> db]

(* DeletePhysicalOperator::open collects the rows of its child first.  What  *)
(* ends the loop over the child is not looked at, so a conflict in the       *)
(* middle only shortens the list.                                            *)
OpenDelete(o, db) ==
    IF o.children = <<>> THEN [rc |-> "SUCCESS", records |-> <<>>]
    ELSE LET child == open(o.children[1], db)
         IN [rc      |-> child.rc,
             records |-> IF child.rc = "SUCCESS" THEN Drain(child.oper, db, <<>>).tuples ELSE <<>>]

(* MvccTrx::delete_record looks at the row once more.                        *)
delete_record(o, db, record) ==
    IF record.rid \in db.locked THEN [rc |-> "LOCKED_CONCURRENCY_CONFLICT", db |-> db]
    ELSE [rc |-> "SUCCESS",
          db |-> [db EXCEPT !.rows[o.table] = SelectSeq(@, LAMBDA row : row.rid # record.rid)]]
=============================================================================
