----------------------------- MODULE MCBplusTree -----------------------------
(* Model-checking instance of BplusTree: one thread that makes any calls   *)
(* on a growing and shrinking tree, and several threads on a built one.    *)
EXTENDS BplusTree

CONSTANTS t1, t2, t3

Insert(a) == [op |-> "INSERT", key |-> make_key(a, 1), right |-> 0]
Delete(a) == [op |-> "DELETE", key |-> make_key(a, 1), right |-> 0]
From(a) == [op |-> "READ", key |-> make_key(a, RidMin), right |-> LastKey]
After(a) == [op |-> "READ", key |-> make_key(a, RidMax), right |-> LastKey]
Between(a, b) == [op |-> "READ", key |-> make_key(a, RidMin), right |-> make_key(b, RidMax)]
All == [op |-> "READ", key |-> FirstKey, right |-> LastKey]

NoWork == [t \in Threads |-> <<>>]
Some == {1, 2, 3, 4, 5, 6}
Alone == [build |-> <<>>, work |-> NoWork, limit |-> MaxPage, faults |-> 0,
          free |-> {Insert(a) : a \in Some} \cup {Delete(a) : a \in Some} \cup {Between(2, 4), Between(3, 2), All}]
Racing == [build |-> <<>>, free |-> {}, limit |-> MaxPage, faults |-> 0,
           work |-> [t \in Threads |-> CASE t = t1 -> <<{Insert(1)}, {Delete(1)}>>
                                         [] t = t2 -> <<{Insert(2), Delete(1)}>>
                                         [] t = t3 -> <<{All, Insert(3)}>>]]
Small == [build |-> <<Insert(1), Insert(2), Insert(4), Insert(5), Insert(6)>>, free |-> {}, limit |-> MaxPage, faults |-> 0,
          work |-> [t \in Threads |-> CASE t = t1 -> <<{Insert(a) : a \in {3, 7}} \cup {Delete(a) : a \in {1, 2, 5}}>>
                                        [] t = t2 -> <<{Insert(7), Delete(4), Delete(2)}>>
                                        [] t = t3 -> <<{All, After(2), From(4)}>>]]
Large == [build |-> [i \in 1 .. 11 |-> Insert(i)], free |-> {}, limit |-> MaxPage, faults |-> 0,
          work |-> [t \in Threads |-> CASE t = t1 -> <<{Delete(a) : a \in {2, 4, 6, 8, 10}}>>
                                        [] t = t2 -> <<{Insert(12), Delete(1), Delete(6)}>>
                                        [] t = t3 -> <<{All, After(4)}>>]]
(* The file is full. *)
Full(last) == [build |-> <<Insert(1), Insert(2)>>, free |-> {}, limit |-> last, faults |-> 0,
               work |-> [t \in Threads |-> CASE t = t1 -> <<{Delete(1), Insert(3)}, {Delete(2), Insert(4)}, {Insert(3), Insert(5)}>>
                                             [] t = t2 -> <<{Insert(6)}>>
                                             [] t = t3 -> <<>>]]
(* One read fails: on a small tree, and on trees of three levels in which  *)
(* an inner node is split, merged, or takes a child from its right or from *)
(* its left neighbour.                                                     *)
FailingOn(build, first, second) ==
    [build |-> build, free |-> {}, limit |-> MaxPage, faults |-> 1,
     work |-> [t \in Threads |-> CASE t = t1 -> first [] t = t2 -> second [] t = t3 -> <<>>]]
Failing == {
    FailingOn(<<>>, <<{Insert(1)}, {Delete(1)}>>, <<{Insert(2)}>>),
    FailingOn([i \in 1 .. 5 |-> Insert(i)], <<{Insert(6), Delete(1)}, {Delete(2)}>>, <<{After(2), All}>>),
    FailingOn([i \in 1 .. 10 |-> Insert(i)], <<{Insert(11)}, {Delete(1)}, {Delete(3), All}>>, <<>>),
    FailingOn([i \in 1 .. 13 |-> Insert(i)], <<{Delete(1), Insert(4)}, {Delete(4)}>>, <<>>),
    FailingOn([i \in 1 .. 13 |-> Insert(14 - i)], <<{Delete(13)}, {Delete(12)}, {Delete(11)}>>, <<>>)}
AllScenarios == {Alone, Racing, Small, Large, Full(2), Full(3)} \cup Failing
=============================================================================
