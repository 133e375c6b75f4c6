------------------------- MODULE MCBplusTreeRecovery -------------------------
(* Model-checking instance of BplusTreeRecovery. *)
EXTENDS BplusTreeRecovery

CONSTANTS t1, t2

Insert(a) == [op |-> "INSERT", key |-> make_key(a, 1), right |-> 0]
Delete(a) == [op |-> "DELETE", key |-> make_key(a, 1), right |-> 0]
Does(first, second) == [t \in Threads |-> IF t = t1 THEN first ELSE second]

(* A first leaf, a deletion that empties the tree, and a page used again. *)
Young == [build |-> <<Insert(1)>>, free |-> {}, limit |-> MaxPage, faults |-> 1, crashes |-> 2,
          work |-> Does(<<{Delete(1), Insert(2)}, {Insert(3), Delete(2)}, {Insert(1)}>>, <<>>)]
(* The root leaf is split; the halves are merged again. *)
Grown == [build |-> <<Insert(1), Insert(2), Insert(3), Insert(4)>>, free |-> {}, limit |-> MaxPage, faults |-> 0, crashes |-> 2,
          work |-> Does(<<{Insert(5), Delete(1)}, {Delete(2)}, {Delete(3), Insert(6)}>>, <<>>)]
(* The root is split while another thread works on one of its leaves. *)
Wide == [build |-> [i \in 1 .. 10 |-> Insert(IF i < 6 THEN i ELSE i + 1)], free |-> {}, limit |-> MaxPage, faults |-> 0, crashes |-> 1,
         work |-> Does(<<{Insert(12), Delete(1)}>>, <<{Insert(6)}>>)]
(* Two threads find the tree empty. *)
First == [build |-> <<>>, free |-> {}, limit |-> MaxPage, faults |-> 0, crashes |-> 1,
          work |-> Does(<<{Insert(1)}, {Insert(3), Delete(2)}>>, <<{Insert(2)}, {Delete(1)}>>)]
AllScenarios == {First, Young, Grown, Wide}
=============================================================================
