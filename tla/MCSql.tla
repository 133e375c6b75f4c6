------------------------------- MODULE MCSql -------------------------------
(* Tables t(a INT, s CHAR(2)), u(b INT), w(c INT), indexes on t(s) and u(b). *)
(* Strings over the characters 1..3: S(x, y, z) is one of up to three.       *)
EXTENDS SqlPipeline

MCSchema  == [t |-> <<[name |-> "a", attr |-> "INTS"], [name |-> "s", attr |-> "CHARS"]>>,
              u |-> <<[name |-> "b", attr |-> "INTS"]>>,
              w |-> <<[name |-> "c", attr |-> "INTS"]>>]
MCIndexed == {<<"t", "s">>, <<"u", "b">>}

I(n)       == Value("INTS", n)
S(x, y, z) == Value("CHARS", (x * CHARBASE + y) * CHARBASE + z)

F(n)       == UnboundField("", n)
TF(t, n)   == UnboundField(t, n)
C(l, o, r) == ConditionSqlNode(l, o, r)
V(x)       == ValueExpr(x)

(* Conditions on t: on the plain column, on the indexed one with keys that   *)
(* fit and keys that are too long, constants, and wrong ones.                *)
OnT == {C(F("a"), "GREAT_THAN", V(I(1))),
        C(F("s"), "EQUAL_TO", V(S(1, 0, 0))),
        C(V(S(1, 2, 0)), "EQUAL_TO", F("s")),
        C(F("s"), "EQUAL_TO", V(S(1, 2, 3))),
        C(F("s"), "GREAT_EQUAL", V(S(1, 2, 0))),
        C(V(I(1)), "EQUAL_TO", V(I(1))),
        C(V(I(1)), "EQUAL_TO", V(I(2))),
        C(F("a"), "EQUAL_TO", F("s")),
        C(F("x"), "LESS_THAN", V(I(1)))}

OnTU == {C(TF("t", "a"), "EQUAL_TO", TF("u", "b")),
         C(TF("u", "b"), "LESS_THAN", V(I(2))),
         C(V(I(2)), "NOT_EQUAL", V(I(2))),
         C(F("a"), "LESS_EQUAL", V(I(1)))}

UpTo(n, S_) == UNION {[1 .. k -> S_] : k \in 0 .. n}

SumOf(e) == UnboundAggregate("SUM", e, "sum")
Half(e)  == ArithmeticExpr("DIV", e, V(I(2)))
Plus(e)  == ArithmeticExpr("ADD", e, V(I(1)))
Minus(e) == ArithmeticExpr("NEGATIVE", e, NoExpr)

MCStatements ==
    {SelectSqlNode(<<StarExpr>>, <<"t">>, cs, <<>>) : cs \in UpTo(2, OnT)}
  \cup {DeleteSqlNode("t", cs) : cs \in UpTo(2, OnT)}
  \cup {SelectSqlNode(<<F("a"), Plus(F("a")), Half(F("a"))>>, <<"t">>, cs, <<>>) : cs \in UpTo(1, OnT)}
  \cup {SelectSqlNode(<<StarExpr>>, <<"t", "u">>, cs, <<>>) : cs \in UpTo(2, OnTU)}
  \cup {SelectSqlNode(<<TF("u", "b"), TF("t", "s")>>, <<"u", "t">>, cs, <<>>) : cs \in UpTo(1, OnTU)}
  \cup {SelectSqlNode(<<StarExpr>>, <<"u", "w", "t">>, cs, <<>>) : cs \in UpTo(1, OnTU)}
  \cup {SelectSqlNode(<<F("s"), SumOf(F("a"))>>, <<"t">>, cs, <<F("s")>>) : cs \in UpTo(1, OnT)}
  \cup {SelectSqlNode(<<SumOf(F("a"))>>, <<"t">>, cs, <<>>) : cs \in UpTo(1, OnT)}
  \cup {SelectSqlNode(<<F("a"), SumOf(F("a"))>>, <<"t">>, <<>>, <<F("s")>>),
        SelectSqlNode(<<SumOf(F("s"))>>, <<"t">>, <<>>, <<>>),
        SelectSqlNode(<<Minus(F("a"))>>, <<"t">>, <<>>, <<>>),
        SelectSqlNode(<<StarExpr>>, <<"v">>, <<>>, <<>>),
        SelectSqlNode(<<F("x")>>, <<"t">>, <<>>, <<>>)}
  \cup {InsertSqlNode("t", <<I(a), s>>) : a \in {1, 2}, s \in {S(1, 0, 0), S(1, 2, 0), S(1, 2, 3)}}
  \cup {InsertSqlNode("u", <<I(1)>>), InsertSqlNode("t", <<S(1, 0, 0), I(1)>>),
        InsertSqlNode("t", <<I(1)>>), InsertSqlNode("v", <<I(1)>>), DeleteSqlNode("v", <<>>)}
  \cup {CalcSqlNode(<<Half(V(I(3))), Minus(V(I(1)))>>), CalcSqlNode(<<Plus(F("a"))>>)}
  \cup {ExplainSqlNode(SelectSqlNode(<<StarExpr>>, <<"t">>, cs, <<>>)) : cs \in UpTo(1, OnT)}
  \cup {ExplainSqlNode(DeleteSqlNode("t", <<>>))}
  \cup {SqlNode("ERROR"), SqlNode("EMPTY"), SqlNode("UPDATE")}

Row(r, cs) == [rid |-> r, cells |-> cs]
Db(t, u)   == [rows |-> [t |-> t, u |-> u, w |-> <<Row(8, <<I(1)>>), Row(9, <<I(2)>>)>>],
               locked |-> {},
               paged |-> {"w"} \cup {n \in {"t", "u"} : IF n = "t" THEN t # <<>> ELSE u # <<>>}]

MCDatabases ==
    {Db(<<>>, <<>>),
     Db(<<Row(1, <<I(2), S(1, 2, 0)>>), Row(2, <<I(1), S(1, 0, 0)>>), Row(4, <<I(2), S(1, 2, 0)>>)>>,
        <<Row(3, <<I(1)>>), Row(5, <<I(2)>>)>>),
     Db(<<Row(1, <<I(1), S(1, 3, 0)>>), Row(2, <<I(2), S(1, 2, 0)>>)>>, <<>>)}
=============================================================================
