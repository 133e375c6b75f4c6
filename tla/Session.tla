------------------------------- MODULE Session -------------------------------
(* What a statement does to its session: the executors of BEGIN, COMMIT,     *)
(* ROLLBACK and SET, SqlResult::open and close around INSERT, DELETE and     *)
(* SELECT, and the two kinds of transaction (mvcc, vacuous).                 *)
(*                                                                           *)
(* A session is                                                              *)
(*   trx   : "none" until one is created, then "idle" or "started"           *)
(*   multi : between BEGIN and COMMIT or ROLLBACK                            *)
(*   mode  : the execution mode                                              *)
(*   fate  : what became of the changes of its n-th statement: "none" (there *)
(*           are none), "pending" in the transaction, "committed", "undone", *)
(*           "orphan" (its transaction was destroyed under it)               *)
(* Which rows two transactions may change at once is the subject of MvccTrx; *)
(* here a changing statement succeeds or fails, with or without a part done. *)
EXTENDS Integers, Sequences

Kinds   == {"BEGIN", "COMMIT", "ROLLBACK", "SET", "SELECT", "WRITE", "BAD"}
Fates   == {"none", "pending", "committed", "undone", "orphan"}
NewSession == [trx |-> "none", multi |-> FALSE, mode |-> "TUPLE_ITERATOR", fate |-> <<>>]

(* The statements that come with a physical operator.                        *)
HasOperator(kind) == kind \in {"SELECT", "WRITE"}

-----------------------------------------------------------------------------
(* Trx::start_if_need, commit, rollback.  A vacuous transaction has no state:*)
(* its changes are there at once and stay.                                   *)
start_if_need(s, kit) == [s EXCEPT !.trx = IF kit = "mvcc" THEN "started" ELSE "idle"]

EndTrx(s, end) ==
    [s EXCEPT !.trx = "idle",
              !.fate = [n \in DOMAIN @ |-> IF @[n] = "pending" THEN end ELSE @[n]]]

commit(s)   == EndTrx(s, "committed")
rollback(s) == EndTrx(s, "undone")

(* The executors.                                                            *)
TrxBegin(s, kit) == start_if_need([s EXCEPT !.multi = TRUE], kit)
TrxEnd_StaysMulti(s, kind) == IF kind = "COMMIT" THEN commit(s) ELSE rollback(s)  \* a mutant
TrxEnd(s, kind)  == LET e == [s EXCEPT !.multi = FALSE]
                    IN IF kind = "COMMIT" THEN commit(e) ELSE rollback(e)
SetVariable(s)   == [s EXCEPT !.mode = "CHUNK_ITERATOR"]

(* CommandExecutor::execute, with the return code; a BAD statement has       *)
(* failed in an earlier stage.                                               *)
execute(kind, s, kit) ==
    CASE kind = "BEGIN"                 -> [sess |-> TrxBegin(s, kit), rc |-> "SUCCESS"]
      [] kind \in {"COMMIT", "ROLLBACK"} -> [sess |-> TrxEnd(s, kind), rc |-> "SUCCESS"]
      [] kind = "SET"                   -> [sess |-> SetVariable(s), rc |-> "SUCCESS"]
      [] kind = "BAD"                   -> [sess |-> s, rc |-> "FAILURE"]

-----------------------------------------------------------------------------
(* The outcomes of PhysicalOperator::open: all done, or an error before or   *)
(* after a part was done (DELETE stops at the first row another transaction  *)
(* has taken; INSERT and SELECT do not do things in part).                   *)
Opens(kind) == IF kind = "WRITE" THEN {"SUCCESS", "FAILED", "PARTLY"} ELSE {"SUCCESS"}

(* SqlResult::open of the n-th statement.                                    *)
OpenResult(s, kit, n, kind, outcome) ==
    LET changed == kind = "WRITE" /\ outcome # "FAILED"
    IN [start_if_need(s, kit) EXCEPT
           !.fate[n] = IF ~changed THEN "none"
                       ELSE IF kit = "vacuous" THEN "committed" ELSE "pending"]

(* SqlResult::close: a statement on its own is committed, whatever open said.*)
CloseResult(s) == IF s.multi THEN s ELSE commit(s)

(* SELECT in chunk mode fails after the header, at the first chunk.          *)
RowError(kind, s) == kind = "SELECT" /\ s.mode = "CHUNK_ITERATOR"

(* Session::~Session destroys the transaction and rolls nothing back.        *)
Destroyed(s) == [EndTrx(s, "orphan") EXCEPT !.trx = "none"]
=============================================================================
