---------------------------- MODULE SqlPipeline ----------------------------
(* One statement on its way through SqlTaskHandler::handle_sql (parse,       *)
(* resolve, optimize, execute) and PlainCommunicator::write_result, on one   *)
(* session in autocommit mode, while another transaction may lock rows.      *)
EXTENDS SqlOperators

CONSTANTS Statements,    \* the parsed statements a client may send
          Databases,     \* the databases to start from
          MaxTurns       \* bound: statements per behaviour

ASSUME TurnsAssumption == MaxTurns \in Nat \ {0}

VARIABLES db,       \* rows, pages and locks
          mode,     \* Session::execution_mode_
          stage,    \* where the statement is
          node,     \* ParsedSqlNode
          plan,     \* Stmt, then the logical plan
          oper,     \* the physical plan
          records,  \* DeletePhysicalOperator::records_ still to be deleted
          out,      \* rows written so far
          answer,   \* what the client was told
          rounds,   \* rounds of the rewriter's loop
          before,   \* db when the statement arrived
          turns

vars == <<db, mode, stage, node, plan, oper, records, out, answer, rounds, before, turns>>

NoNode == SqlNode("NONE")

Init ==
    /\ db \in Databases
    /\ mode \in {"TUPLE_ITERATOR", "CHUNK_ITERATOR"}
    /\ stage = "idle" /\ node = NoNode /\ plan = NoPlan /\ oper = NoPlan
    /\ records = <<>> /\ out = <<>> /\ answer = "" /\ rounds = 0 /\ before = db /\ turns = 0

(* The parser pushes each condition behind the ones to its right: the list   *)
(* of the tree is the list of the text in reverse.                           *)
RECURSIVE parse(_)
parse(n) ==
    CASE n.kind \in {"SELECT", "DELETE"} -> [n EXCEPT !.conditions = Reverse(@)]
      [] n.kind = "EXPLAIN"              -> [n EXCEPT !.child = parse(@)]
      [] OTHER                           -> n

(* write_state: SUCCESS or FAILURE, from the return code of the result.      *)
Answer(a) == /\ stage' = "answered"
             /\ answer' = a
             /\ UNCHANGED <<mode, node, rounds, before, turns>>

write_state(rc) == Answer(IF rc = "SUCCESS" THEN "SUCCESS" ELSE "FAILURE")

Die == Answer("CRASH")

(* ParseStage::handle_request; an empty statement has no tree.               *)
Parse(n) ==
    /\ stage = "idle" /\ turns < MaxTurns
    /\ node' = parse(n) /\ before' = db /\ turns' = turns + 1
    /\ IF n.kind \in {"ERROR", "EMPTY"}
       THEN stage' = "answered" /\ answer' = "FAILURE"
       ELSE stage' = "resolve" /\ answer' = answer
    /\ UNCHANGED <<db, mode, plan, oper, records, out, rounds>>

(* ResolveStage::handle_request                                              *)
Resolve ==
    /\ stage = "resolve"
    /\ LET r == create_stmt(node)
       IN IF r.rc # "SUCCESS" THEN write_state(r.rc) /\ UNCHANGED plan
          ELSE /\ plan' = r.stmt /\ stage' = "plan"
               /\ UNCHANGED <<mode, node, answer, rounds, before, turns>>
    /\ UNCHANGED <<db, oper, records, out>>

(* OptimizeStage::create_logical_plan                                        *)
CreateLogicalPlan ==
    /\ stage = "plan"
    /\ LET l == create_logical(plan)
       IN IF l.rc # "SUCCESS" THEN write_state(l.rc) /\ UNCHANGED plan
          ELSE /\ plan' = l.plan /\ stage' = "rewrite"
               /\ UNCHANGED <<mode, node, answer, rounds, before, turns>>
    /\ UNCHANGED <<db, oper, records, out>>

Rewritten(r) == plan' = r.it /\ stage' = IF r.changed THEN "rewrite" ELSE "generate"

(* One round of the loop of OptimizeStage::rewrite.                          *)
Rewrite ==
    /\ stage = "rewrite"
    /\ Rewritten(rewrite(plan))
    /\ rounds' = rounds + 1
    /\ UNCHANGED <<db, mode, node, oper, records, out, answer, before, turns>>

(* OptimizeStage::generate_physical_plan and                                 *)
(* ExecuteStage::handle_request_with_physical_operator                       *)
GeneratePhysicalPlan ==
    /\ stage = "generate"
    /\ LET p == generate_physical_plan(plan, mode)
       IN CASE p.rc = "CRASH"   -> Die /\ UNCHANGED oper
            [] p.rc = "SUCCESS" -> /\ oper' = p.plan /\ stage' = "open"
                                   /\ UNCHANGED <<mode, node, answer, rounds, before, turns>>
            [] OTHER            -> write_state(p.rc) /\ UNCHANGED oper
    /\ UNCHANGED <<db, plan, records, out>>

(* SqlResult::open on the operators that change a table: nothing comes out   *)
(* of next, so close and write_state follow at once.  A failed open is       *)
(* closed too, and close commits what was done until then.                   *)
ChangeDone(r) == db' = r.db /\ write_state(r.rc)

OpenChange ==
    /\ stage = "open" /\ oper.type = "INSERT"
    /\ ChangeDone(OpenInsert(oper, db))
    /\ UNCHANGED <<plan, oper, records, out>>

CollectRecords ==
    /\ stage = "open" /\ oper.type = "DELETE"
    /\ LET d == OpenDelete(oper, db)
       IN IF d.rc # "SUCCESS" THEN write_state(d.rc) /\ UNCHANGED records
          ELSE /\ records' = d.records /\ stage' = "delete"
               /\ UNCHANGED <<mode, node, answer, rounds, before, turns>>
    /\ UNCHANGED <<db, plan, oper, out>>

(* One turn of the loop of DeletePhysicalOperator::open; an error ends it.   *)
DeleteRecords ==
    /\ stage = "delete"
    /\ IF records = <<>> THEN write_state("SUCCESS") /\ UNCHANGED <<db, records>>
       ELSE LET d == delete_record(oper, db, Head(records))
            IN IF d.rc # "SUCCESS" THEN ChangeDone(d) /\ records' = <<>>
               ELSE /\ db' = d.db /\ records' = Tail(records)
                    /\ UNCHANGED <<mode, stage, node, answer, rounds, before, turns>>
    /\ UNCHANGED <<plan, oper, out>>

(* SqlResult::open on the others.                                            *)
OpenDone(r) ==
    CASE r.rc = "CRASH"   -> Die /\ UNCHANGED oper
      [] r.rc = "SUCCESS" -> /\ oper' = r.oper /\ stage' = "next"
                             /\ UNCHANGED <<mode, node, answer, rounds, before, turns>>
      [] OTHER            -> write_state(r.rc) /\ UNCHANGED oper

Open ==
    /\ stage = "open" /\ oper.type \notin {"INSERT", "DELETE"}
    /\ OpenDone(open(oper, db))
    /\ UNCHANGED <<db, plan, records, out>>

(* The expressions of the topmost operator, evaluated as the row is written. *)
Written(o, tuple) ==
    IF o.type = "EXPLAIN" THEN <<>> ELSE Values(Projected(o.expressions, tuple.cells))

(* write_tuple_result, write_chunk_result: a row at a time; an error leaves  *)
(* the loop without closing the result, and the connection is dropped.       *)
NextDone(n) ==
    CASE n.rc = "SUCCESS" -> /\ oper' = n.oper /\ out' = Append(out, Written(n.oper, n.tuple))
                             /\ UNCHANGED <<mode, stage, node, answer, rounds, before, turns>>
      [] n.rc = "RECORD_EOF" -> Answer("ROWS") /\ UNCHANGED <<oper, out>>
      [] n.rc = "CRASH"   -> Die /\ UNCHANGED <<oper, out>>
      [] OTHER            -> Answer("DISCONNECT") /\ UNCHANGED <<oper, out>>

NextRow ==
    /\ stage = "next"
    /\ NextDone(next(oper, db))
    /\ UNCHANGED <<db, plan, records>>

(* The client has its answer and may go on, over a new connection or with a  *)
(* restarted server if need be.                                              *)
Done ==
    /\ stage = "answered"
    /\ stage' = "idle" /\ node' = NoNode /\ plan' = NoPlan /\ oper' = NoPlan
    /\ out' = <<>> /\ answer' = "" /\ rounds' = 0 /\ before' = db
    /\ UNCHANGED <<db, mode, records, turns>>

(* Another transaction starts to delete a row, or gives that up.  A lock     *)
(* matters only to DELETE, when it collects its rows and when it deletes     *)
(* them one by one.                                                          *)
Locker ==
    /\ (stage = "idle" /\ turns < MaxTurns) \/ (stage = "delete" /\ records # <<>>)
    /\ \/ \E r \in RowIds(db) \ db.locked : db' = [db EXCEPT !.locked = {r}]
       \/ db.locked # {} /\ db' = [db EXCEPT !.locked = {}]
    /\ before' = IF stage = "idle" THEN db' ELSE before
    /\ UNCHANGED <<mode, stage, node, plan, oper, records, out, answer, rounds, turns>>

(* After MaxTurns statements another session starts with another database.   *)
NewSession ==
    /\ stage = "idle" /\ turns = MaxTurns
    /\ db' \in Databases /\ before' = db' /\ turns' = 0
    /\ UNCHANGED <<mode, stage, node, plan, oper, records, out, answer, rounds>>

Next == \/ \E n \in Statements : Parse(n)
        \/ Resolve \/ CreateLogicalPlan \/ Rewrite \/ GeneratePhysicalPlan
        \/ OpenChange \/ CollectRecords \/ DeleteRecords \/ Open \/ NextRow \/ Done
        \/ Locker \/ NewSession

Spec == Init /\ [][Next]_vars

-----------------------------------------------------------------------------
(* What the statement asks for, told from its text and the rows alone.       *)

(* Numbers are compared in units of 1/SCALE; strings by their code.          *)
Number(x) == IF x.type = "INTS" THEN x.v * SCALE ELSE x.v

Columns(t) == {Schema[t][i].name : i \in DOMAIN Schema[t]}

(* The combinations of rows of a FROM list, as functions from table to row.  *)
RECURSIVE Combinations(_)
Combinations(tables) ==
    IF tables = <<>> THEN << <<>> >>
    ELSE LET t    == Last(tables)
             rest == Combinations(Front(tables))
         IN FlattenSeq([i \in DOMAIN rest |->
                [j \in DOMAIN before.rows[t] |-> (t :> before.rows[t][j].cells) @@ rest[i]]])

HomeOf(e, tables) == IF e.table = "" THEN tables[1] ELSE e.table

Cell(e, tables, row) ==
    LET t == HomeOf(e, tables)
    IN row[t][CHOOSE i \in DOMAIN Schema[t] : Schema[t][i].name = e.field]

RECURSIVE Meaning(_, _, _)
Meaning(e, tables, row) ==
    CASE e.type = "VALUE"         -> Number(e.value)
      [] e.type = "UNBOUND_FIELD" -> Number(Cell(e, tables, row))
      [] e.type = "ARITHMETIC"    ->
            LET l == Meaning(e.left, tables, row)
                r == IF e.right = NoExpr THEN 0 ELSE Meaning(e.right, tables, row)
            IN CASE e.op = "ADD" -> l + r
                 [] e.op = "SUB" -> l - r
                 [] e.op = "MUL" -> (l * r) \div SCALE
                 [] e.op = "DIV" -> (l * SCALE) \div r
                 [] e.op = "NEGATIVE" -> 0 - l

Satisfies(c, tables, row) ==
    LET l == Meaning(c.left, tables, row)
        r == Meaning(c.right, tables, row)
    IN CASE c.comp = "EQUAL_TO"    -> l = r
         [] c.comp = "NOT_EQUAL"   -> l # r
         [] c.comp = "LESS_THAN"   -> l < r
         [] c.comp = "LESS_EQUAL"  -> l <= r
         [] c.comp = "GREAT_THAN"  -> l > r
         [] c.comp = "GREAT_EQUAL" -> l >= r

SatisfiesAll(cs, tables, row) == \A i \in DOMAIN cs : Satisfies(cs[i], tables, row)

(* A SELECT list on one combination; a star stands for all columns.          *)
Listed(es, tables, row) ==
    FlattenSeq([i \in DOMAIN es |->
        IF es[i].type = "STAR"
        THEN FlattenSeq([k \in DOMAIN tables |->
                [j \in DOMAIN row[tables[k]] |-> Number(row[tables[k]][j])]])
        ELSE <<Meaning(es[i], tables, row)>>])

(* With GROUP BY or an aggregate: one row for each key that occurs.          *)
Sum(s) == FoldSeq(LAMBDA x, y : x + y, 0, s)

GroupedRow(n, rows) ==
    [i \in DOMAIN n.expressions |->
        LET e == n.expressions[i]
        IN IF e.type = "UNBOUND_AGGREGATION"
           THEN Sum([k \in DOMAIN rows |-> Meaning(e.child, n.relations, rows[k])])
           ELSE Meaning(e, n.relations, rows[1])]

Grouped(n, rows) ==
    LET Key(row) == [i \in DOMAIN n.group_by |-> Meaning(n.group_by[i], n.relations, row)]
        keys     == SetToSeq({Key(rows[i]) : i \in DOMAIN rows})
    IN [k \in DOMAIN keys |-> GroupedRow(n, SelectSeq(rows, LAMBDA row : Key(row) = keys[k]))]

IsGrouped(n) ==
    n.group_by # <<>> \/ \E i \in DOMAIN n.expressions : n.expressions[i].type = "UNBOUND_AGGREGATION"

Reference(n) ==
    CASE n.kind = "CALC"   -> <<[i \in DOMAIN n.expressions |-> Meaning(n.expressions[i], <<>>, <<>>)]>>
      [] n.kind = "SELECT" ->
            LET rows == SelectSeq(Combinations(n.relations),
                                  LAMBDA row : SatisfiesAll(n.conditions, n.relations, row))
            IN IF IsGrouped(n) THEN Grouped(n, rows)
               ELSE [i \in DOMAIN rows |-> Listed(n.expressions, n.relations, rows[i])]

(* Two lists of rows with the same rows equally often.                       *)
SameBag(a, b) ==
    /\ Len(a) = Len(b)
    /\ \A i \in DOMAIN a : Cardinality({j \in DOMAIN a : a[j] = a[i]})
                           = Cardinality({j \in DOMAIN b : b[j] = a[i]})

(* A statement that names what exists and compares what can be compared.     *)
NameOK(e, tables) ==
    \/ e.type = "VALUE"
    \/ /\ e.type = "UNBOUND_FIELD"
       /\ IF e.table = "" THEN Len(tables) = 1 ELSE e.table \in Range(tables)
       /\ e.field \in Columns(HomeOf(e, tables))

TypeOf(e, tables) ==
    IF e.type = "VALUE" THEN e.value.type
    ELSE LET t == HomeOf(e, tables)
         IN Schema[t][CHOOSE i \in DOMAIN Schema[t] : Schema[t][i].name = e.field].attr

ConditionsOK(cs, tables) ==
    \A i \in DOMAIN cs : /\ NameOK(cs[i].left, tables) /\ NameOK(cs[i].right, tables)
                         /\ TypeOf(cs[i].left, tables) = TypeOf(cs[i].right, tables)

RECURSIVE ListOK(_, _)
ListOK(e, tables) ==
    CASE e.type = "STAR"       -> TRUE
      [] e.type = "ARITHMETIC" -> ListOK(e.left, tables) /\ ListOK(e.right, tables)
      [] e.type = "UNBOUND_AGGREGATION" -> /\ e.aggregate = "SUM" /\ NameOK(e.child, tables)
                                           /\ TypeOf(e.child, tables) # "CHARS"
      [] OTHER                 -> NameOK(e, tables)

(* In a grouped list a plain item is one of the GROUP BY items.              *)
GroupingOK(n) ==
    IsGrouped(n) => \A i \in DOMAIN n.expressions :
        \/ n.expressions[i].type = "UNBOUND_AGGREGATION"
        \/ n.expressions[i] \in Range(n.group_by)

TablesOK(tables) == Range(tables) \subseteq DOMAIN Schema

RECURSIVE WellFormed(_)
WellFormed(n) ==
    CASE n.kind = "SELECT"  -> /\ TablesOK(n.relations)
                               /\ \A i \in DOMAIN n.expressions : ListOK(n.expressions[i], n.relations)
                               /\ ConditionsOK(n.conditions, n.relations)
                               /\ GroupingOK(n)
      [] n.kind = "DELETE"  -> /\ TablesOK(<<n.relation>>)
                               /\ ConditionsOK(n.conditions, <<n.relation>>)
      [] n.kind = "INSERT"  -> /\ TablesOK(<<n.relation>>)
                               /\ Len(n.values) = Len(Schema[n.relation])
                               /\ \A i \in DOMAIN n.values : n.values[i].type = Schema[n.relation][i].attr
      [] n.kind = "CALC"    -> \A i \in DOMAIN n.expressions : n.expressions[i].type # "UNBOUND_FIELD"
      [] n.kind = "EXPLAIN" -> WellFormed(n.child)
      [] OTHER              -> FALSE

(* The known hole of ConjunctionSimplificationRule (see SimplifyConjunction):*)
(* a constant condition that is false, behind one that is not constant.      *)
IsConstantCondition(c) == c.left.type = "VALUE" /\ c.right.type = "VALUE"

FalseLost(n) ==
    \E i, j \in DOMAIN n.conditions :
        /\ i < j /\ ~IsConstantCondition(n.conditions[i])
        /\ IsConstantCondition(n.conditions[j]) /\ ~Satisfies(n.conditions[j], <<>>, <<>>)

HasFalse(n) ==
    \E i \in DOMAIN n.conditions : /\ IsConstantCondition(n.conditions[i])
                                   /\ ~Satisfies(n.conditions[i], <<>>, <<>>)

-----------------------------------------------------------------------------
Stages  == {"idle", "resolve", "plan", "rewrite", "generate", "open", "delete", "next", "answered"}
Answers == {"", "SUCCESS", "FAILURE", "ROWS", "DISCONNECT", "CRASH"}

(* Types of the pipeline's state; every stored cell has the type of its      *)
(* column and no stored string is longer than the column.                    *)
TypeOK ==
    /\ stage \in Stages /\ answer \in Answers /\ turns \in 0 .. MaxTurns
    /\ mode \in {"TUPLE_ITERATOR", "CHUNK_ITERATOR"}
    /\ \A i \in DOMAIN records : records[i].rid \in RowIds(db)
    /\ db.locked \subseteq Nat /\ db.paged \subseteq DOMAIN Schema
    /\ \A t \in DOMAIN db.rows : \A i \in DOMAIN db.rows[t] :
          \A k \in DOMAIN Schema[t] :
              LET c == db.rows[t][i].cells[k]
              IN c.type = Schema[t][k].attr /\ (c.type = "CHARS" => ~TooLong(c.v))

(* Rows that reach the client are the rows the statement asks for: through   *)
(* the binder, the rewriter, the choice of the index, the cut key of its     *)
(* scan, the nested loop join and the grouping, in both execution modes.     *)
RowsCorrect ==
    (answer = "ROWS" /\ node.kind \in {"SELECT", "CALC"}) =>
        \/ node.kind = "SELECT" /\ FalseLost(node)
        \/ SameBag([i \in DOMAIN out |-> [k \in DOMAIN out[i] |-> Number(out[i][k])]],
                   Reference(node))

(* The rows a DELETE asks for, the rows it found and the rows it left.       *)
Rids(rows) == {rows[i].rid : i \in DOMAIN rows}
Found      == Rids(before.rows[node.relation])
Kept       == Rids(db.rows[node.relation])
Matching ==
    LET t == node.relation
    IN Rids(SelectSeq(before.rows[t], LAMBDA row : SatisfiesAll(node.conditions, <<t>>, t :> row.cells)))

(* A DELETE that met, after it had collected its rows, one that another      *)
(* transaction had taken meanwhile.  Its client is told FAILURE, and what it *)
(* deleted before stays deleted (sql_result.cpp:50).                         *)
CutDelete ==
    /\ node.kind = "DELETE" /\ WellFormed(node) /\ answer = "FAILURE"
    /\ (db.locked \cap Kept \cap Matching) \ before.locked # {} \/ FalseLost(node)

(* In tuple mode a statement is refused only for what is wrong with it, and  *)
(* what is wrong is always noticed: the connection survives and so does the  *)
(* process, except for an aggregate above a constant that is false.  Nothing *)
(* else but a row taken in the middle of a DELETE refuses a right one.       *)
RefusedIfWrong ==
    (stage = "answered" /\ mode = "TUPLE_ITERATOR") =>
        \/ WellFormed(node) /\ answer \in {"SUCCESS", "ROWS"}
        \/ CutDelete
        \/ ~WellFormed(node) /\ answer = "FAILURE"
        \/ answer = "DISCONNECT" /\ node.kind = "CALC"
        \/ answer = "CRASH" /\ node.kind = "SELECT" /\ IsGrouped(node)
           /\ (HasFalse(node) \/ ~WellFormed(node))


(* A statement that is refused, cut off or only explained leaves the tables  *)
(* as they were; but a DELETE cut in the middle keeps what it has done, rows *)
(* it was to delete and no others.                                           *)
RefusedHasNoEffect ==
    (stage = "answered" /\ (answer # "SUCCESS" \/ node.kind = "EXPLAIN")) =>
        \/ db = before
        \/ /\ CutDelete
           /\ Found \ Kept \subseteq Matching \ before.locked \/ FalseLost(node)
           /\ \A t \in DOMAIN Schema \ {node.relation} : db.rows[t] = before.rows[t]

(* A statement that cannot be carried out is refused and changes nothing but *)
(* for a DELETE cut by a conflict, and one that is carried out leaves the    *)
(* tables as their schema says.                                              *)
RefusedCleanly == TypeOK /\ RefusedIfWrong /\ RefusedHasNoEffect

(* The rewriter may move and drop operators but not change what the plan     *)
(* returns: the plan before a round and the plan after it, run as they are,  *)
(* give the same rows (the hole of RowsCorrect aside).  And it comes to an   *)
(* end, within three rounds whatever the statement: a rule that undoes or    *)
(* repeats another one's work would keep it going.                           *)
PlanRows(p) ==
    LET o == create(p).plan
        d == Drain(open(o, db).oper, db, <<>>)
    IN [i \in DOMAIN d.tuples |-> Written(o, d.tuples[i])]

MaxRounds == 3
RewriteSound ==
    [][/\ rounds' <= MaxRounds
       /\ (stage = "rewrite" /\ node.kind = "SELECT" /\ stage' # "answered"
             /\ create(plan').rc = "SUCCESS") =>
             \/ FalseLost(node)
             \/ SameBag(PlanRows(plan), PlanRows(plan'))]_vars
=============================================================================
