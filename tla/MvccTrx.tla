------------------------------ MODULE MvccTrx ------------------------------
(***************************************************************************)
(* The multi-version transactions of src/observer/storage/trx/mvcc_trx.cpp *)
(* (classes MvccTrxKit and MvccTrx), as seen by the rows of a table.       *)
(*                                                                         *)
(* Every row carries two hidden int32 fields, begin_xid and end_xid.  A    *)
(* positive value is the commit id of the transaction that inserted        *)
(* (deleted) the row; a negative value -x marks a change that transaction  *)
(* x has made and not yet committed; end_xid = max_trx_id() means that     *)
(* nobody has deleted the row.                                             *)
(*                                                                         *)
(* A commit or a rollback walks operations_ and touches one row per        *)
(* Table::visit_record, that is under one page latch at a time, so each    *)
(* row is a step of its own here.  The calls on the log are conjoined to   *)
(* these actions in module MvccRecovery.  An ASSERT of the code does not   *)
(* stop a step (deps/common/log/log.h:327, the build without DEBUG); that  *)
(* it holds is stated as an invariant.  The early returns of insert_record *)
(* and delete_record change nothing and are stuttering steps.              *)
(***************************************************************************)
EXTENDS Integers, Sequences

CONSTANTS
    Trxs,        \* the MvccTrx objects: one for each connection
    Rids,        \* the record slots (page number, slot number) of the table
    max_trx_id,  \* MvccTrxKit::max_trx_id(), the largest int32_t
    IdBound,     \* bound on the ids the kit hands out
    OpsBound     \* bound on the operations of one transaction

ASSUME BoundAssumption ==
    /\ max_trx_id \in Nat
    /\ IdBound \in Nat
    /\ IdBound < max_trx_id
    /\ OpsBound \in Nat

VARIABLES
    current_trx_id,  \* MvccTrxKit::current_trx_id_
    rows,            \* the occupied slots: the bitmaps of the record pages
    begin_xid,       \* __trx_xid_begin of each row
    end_xid,         \* __trx_xid_end of each row
    trx_id,          \* MvccTrx::trx_id_
    started,         \* MvccTrx::started_
    operations,      \* MvccTrx::operations_
    phase,           \* what the object's thread is in: "run", "commit" or "rollback"
    commit_xid,      \* the local commit_xid of commit_with_trx_id, 0 outside it
    pos              \* the iterator of the commit or the rollback, 0 outside them

kitVars == <<current_trx_id>>
rowVars == <<rows, begin_xid, end_xid>>
trxVars == <<trx_id, started, operations, phase, commit_xid, pos>>
vars == <<kitVars, rowVars, trxVars>>

Operation == [type : {"INSERT", "DELETE"}, rid : Rids]

TypeOK ==
    /\ current_trx_id \in 0 .. IdBound
    /\ rows \in SUBSET Rids
    /\ begin_xid \in [Rids -> Int]
    /\ end_xid \in [Rids -> Int]
    /\ trx_id \in [Trxs -> Int]
    /\ started \in [Trxs -> BOOLEAN]
    /\ operations \in [Trxs -> Seq(Operation)]
    /\ phase \in [Trxs -> {"run", "commit", "rollback"}]
    /\ commit_xid \in [Trxs -> Int]
    /\ pos \in [Trxs -> Int]

(* An empty table, and objects made by create_trx (trx_id_ = -1). *)
Init ==
    /\ current_trx_id = 0
    /\ rows = {}
    /\ begin_xid = [r \in Rids |-> 0]
    /\ end_xid = [r \in Rids |-> 0]
    /\ trx_id = [t \in Trxs |-> -1]
    /\ started = [t \in Trxs |-> FALSE]
    /\ operations = [t \in Trxs |-> <<>>]
    /\ phase = [t \in Trxs |-> "run"]
    /\ commit_xid = [t \in Trxs |-> 0]
    /\ pos = [t \in Trxs |-> 0]

-----------------------------------------------------------------------------
(* Mutants of VisitResult: no write-write conflict; the lower end of the   *)
(* interval not tested.                                                    *)
VisitResult_NoConflict(x, begin, end, mode) ==
    CASE begin > 0 /\ end > 0 ->
           IF x >= begin /\ x <= end THEN "SUCCESS" ELSE "RECORD_INVISIBLE"
      [] begin < 0 ->
           IF -begin = x THEN "SUCCESS" ELSE "RECORD_INVISIBLE"
      [] begin >= 0 /\ end < 0 ->
           IF -end = x THEN "RECORD_INVISIBLE" ELSE "SUCCESS"
      [] OTHER -> "SUCCESS"

VisitResult_NoLower(x, begin, end, mode) ==
    CASE begin > 0 /\ end > 0 ->
           IF x <= end THEN "SUCCESS" ELSE "RECORD_INVISIBLE"
      [] begin < 0 ->
           IF -begin = x THEN "SUCCESS" ELSE "RECORD_INVISIBLE"
      [] begin >= 0 /\ end < 0 ->
           IF -end = x THEN "RECORD_INVISIBLE"
           ELSE IF mode = "READ_ONLY" THEN "SUCCESS"
           ELSE "LOCKED_CONCURRENCY_CONFLICT"
      [] OTHER -> "SUCCESS"

(* MvccTrx::visit_record on a row with the given fields: the answer to a  *)
(* transaction id x.  A row whose two fields are both positive is decided *)
(* by its interval; a row that is not (a row of LOAD DATA has begin 0)    *)
(* falls through to the next test, and to SUCCESS when none applies.      *)
VisitResult(x, begin, end, mode) ==
    CASE begin > 0 /\ end > 0 ->
           IF x >= begin /\ x <= end THEN "SUCCESS" ELSE "RECORD_INVISIBLE"
      [] begin < 0 ->
           IF -begin = x THEN "SUCCESS" ELSE "RECORD_INVISIBLE"
      [] begin >= 0 /\ end < 0 ->
           IF -end = x THEN "RECORD_INVISIBLE"
           ELSE IF mode = "READ_ONLY" THEN "SUCCESS"
           ELSE "LOCKED_CONCURRENCY_CONFLICT"
      [] OTHER -> "SUCCESS"

visit_record(t, r, mode) == VisitResult(trx_id[t], begin_xid[r], end_xid[r], mode)

(* The rows a SELECT of transaction t returns: RecordFileScanner asks     *)
(* visit_record about every occupied slot.                                *)
Visible(t, r) == r \in rows /\ visit_record(t, r, "READ_ONLY") = "SUCCESS"

-----------------------------------------------------------------------------
(* MvccTrxKit::next_trx_id: the atomic increment and the value it returns. *)
NextTrxId == current_trx_id + 1

TakeTrxId ==
    /\ current_trx_id < IdBound
    /\ current_trx_id' = NextTrxId

start_if_need(t) ==
    /\ phase[t] = "run"
    /\ ~started[t]
    /\ TakeTrxId
    /\ trx_id' = [trx_id EXCEPT ![t] = NextTrxId]
    /\ started' = [started EXCEPT ![t] = TRUE]
    /\ UNCHANGED <<rowVars, operations, phase, commit_xid, pos>>

insert_record(t, r) ==
    /\ phase[t] = "run"
    /\ started[t]
    /\ Len(operations[t]) < OpsBound
    /\ r \notin rows
    /\ rows' = rows \cup {r}
    /\ begin_xid' = [begin_xid EXCEPT ![r] = -trx_id[t]]
    /\ end_xid' = [end_xid EXCEPT ![r] = max_trx_id]
    /\ operations' = [operations EXCEPT ![t] = Append(@, [type |-> "INSERT", rid |-> r])]
    /\ UNCHANGED <<kitVars, trx_id, started, phase, commit_xid, pos>>

delete_record(t, r) ==
    /\ phase[t] = "run"
    /\ started[t]
    /\ Len(operations[t]) < OpsBound
    /\ r \in rows
    /\ visit_record(t, r, "READ_WRITE") = "SUCCESS"
    /\ end_xid' = [end_xid EXCEPT ![r] = -trx_id[t]]
    /\ operations' = [operations EXCEPT ![t] = Append(@, [type |-> "DELETE", rid |-> r])]
    /\ UNCHANGED <<kitVars, rows, begin_xid, trx_id, started, phase, commit_xid, pos>>

(* Mutant: the transaction commits under its own id. *)
commit_OwnId(t) ==
    /\ phase[t] = "run"
    /\ commit_xid' = [commit_xid EXCEPT ![t] = trx_id[t]]
    /\ started' = [started EXCEPT ![t] = FALSE]
    /\ phase' = [phase EXCEPT ![t] = "commit"]
    /\ pos' = [pos EXCEPT ![t] = 1]
    /\ UNCHANGED <<kitVars, rowVars, trx_id, operations>>

(* commit(), then the head of commit_with_trx_id. COMMIT may come from a  *)
(* client that has no transaction open (trx_end_executor.h): the object   *)
(* then has no operations and the walk below is empty.                    *)
commit(t) ==
    /\ phase[t] = "run"
    /\ TakeTrxId
    /\ commit_xid' = [commit_xid EXCEPT ![t] = NextTrxId]
    /\ started' = [started EXCEPT ![t] = FALSE]
    /\ phase' = [phase EXCEPT ![t] = "commit"]
    /\ pos' = [pos EXCEPT ![t] = 1]
    /\ UNCHANGED <<rowVars, trx_id, operations>>

(* One turn of the loop of commit_with_trx_id. *)
CommitOperation(t) ==
    /\ phase[t] = "commit"
    /\ pos[t] <= Len(operations[t])
    /\ LET op == operations[t][pos[t]] IN
         \/ /\ op.type = "INSERT"
            /\ begin_xid' = [begin_xid EXCEPT ![op.rid] = commit_xid[t]]
            /\ UNCHANGED end_xid
         \/ /\ op.type = "DELETE"
            /\ end_xid' = [end_xid EXCEPT ![op.rid] = commit_xid[t]]
            /\ UNCHANGED begin_xid
    /\ pos' = [pos EXCEPT ![t] = @ + 1]
    /\ UNCHANGED <<kitVars, rows, trx_id, started, operations, phase, commit_xid>>

CommitDone(t) ==
    /\ phase[t] = "commit"
    /\ pos[t] > Len(operations[t])
    /\ operations' = [operations EXCEPT ![t] = <<>>]
    /\ phase' = [phase EXCEPT ![t] = "run"]
    /\ commit_xid' = [commit_xid EXCEPT ![t] = 0]
    /\ pos' = [pos EXCEPT ![t] = 0]
    /\ UNCHANGED <<kitVars, rowVars, trx_id, started>>

rollback(t) ==
    /\ phase[t] = "run"
    /\ started' = [started EXCEPT ![t] = FALSE]
    /\ phase' = [phase EXCEPT ![t] = "rollback"]
    /\ pos' = [pos EXCEPT ![t] = Len(operations[t])]
    /\ UNCHANGED <<kitVars, rowVars, trx_id, operations, commit_xid>>

(* One turn of the loop of rollback, which walks operations_ backwards. *)
RollbackOperation(t) ==
    /\ phase[t] = "rollback"
    /\ pos[t] > 0
    /\ LET op == operations[t][pos[t]] IN
         \/ /\ op.type = "INSERT"
            /\ rows' = rows \ {op.rid}
            /\ UNCHANGED end_xid
         \/ /\ op.type = "DELETE"
            /\ end_xid' = [end_xid EXCEPT ![op.rid] = max_trx_id]
            /\ UNCHANGED rows
    /\ pos' = [pos EXCEPT ![t] = @ - 1]
    /\ UNCHANGED <<kitVars, begin_xid, trx_id, started, operations, phase, commit_xid>>

(* Mutant: operations_ is not cleared. *)
RollbackDone_NoClear(t) ==
    /\ phase[t] = "rollback"
    /\ pos[t] = 0
    /\ phase' = [phase EXCEPT ![t] = "run"]
    /\ commit_xid' = [commit_xid EXCEPT ![t] = 0]
    /\ pos' = [pos EXCEPT ![t] = 0]
    /\ UNCHANGED <<kitVars, rowVars, trx_id, started, operations>>

RollbackDone(t) ==
    /\ phase[t] = "rollback"
    /\ pos[t] = 0
    /\ operations' = [operations EXCEPT ![t] = <<>>]
    /\ phase' = [phase EXCEPT ![t] = "run"]
    /\ commit_xid' = [commit_xid EXCEPT ![t] = 0]
    /\ pos' = [pos EXCEPT ![t] = 0]
    /\ UNCHANGED <<kitVars, rowVars, trx_id, started>>

(* The connection is closed: Session::~Session destroys the object without *)
(* rolling it back, and the next connection's current_trx creates another. *)
destroy_trx(t) ==
    /\ phase[t] = "run"
    /\ trx_id' = [trx_id EXCEPT ![t] = -1]
    /\ started' = [started EXCEPT ![t] = FALSE]
    /\ operations' = [operations EXCEPT ![t] = <<>>]
    /\ commit_xid' = [commit_xid EXCEPT ![t] = 0]
    /\ pos' = [pos EXCEPT ![t] = 0]
    /\ UNCHANGED <<kitVars, rowVars, phase>>

(* LOAD DATA calls Table::make_record, which zeroes the hidden fields, and *)
(* Table::insert_record; no transaction takes part.                        *)
load_data(r) ==
    /\ r \notin rows
    /\ rows' = rows \cup {r}
    /\ begin_xid' = [begin_xid EXCEPT ![r] = 0]
    /\ end_xid' = [end_xid EXCEPT ![r] = 0]
    /\ UNCHANGED <<kitVars, trxVars>>

TrxStep(t) ==
    \/ start_if_need(t)
    \/ \E r \in Rids : insert_record(t, r) \/ delete_record(t, r)
    \/ commit(t)
    \/ CommitOperation(t)
    \/ CommitDone(t)
    \/ rollback(t)
    \/ RollbackOperation(t)
    \/ RollbackDone(t)
    \/ destroy_trx(t)

Next ==
    \/ \E t \in Trxs : TrxStep(t)
    \/ \E r \in Rids : load_data(r)

Spec == Init /\ [][Next]_vars

-----------------------------------------------------------------------------
(* The operations of t whose marks are still on the rows: a commit has    *)
(* replaced those before its iterator, a rollback undone those behind it. *)
Pending(t) ==
    {i \in 1 .. Len(operations[t]) : /\ phase[t] = "commit" => i >= pos[t]
                                     /\ phase[t] = "rollback" => i <= pos[t]}

PendingOn(t, r, type) ==
    \E i \in Pending(t) : operations[t][i].type = type /\ operations[t][i].rid = r

(* The ASSERTs of commit_with_trx_id (mvcc_trx.cpp:297, 306, 319) and of  *)
(* rollback (379): the row of every operation still to be walked is in    *)
(* its slot; an inserted one still carries the mark of its inserter, so   *)
(* the commit stamps it and the rollback removes its own row only; a      *)
(* deleted one still carries the mark of its deleter, unless the          *)
(* transaction had inserted the row itself: visit_record lets it delete   *)
(* such a row twice, and the first of the two removes the mark.           *)
OperationsOwnRows ==
    \A t \in Trxs : \A i \in Pending(t) :
        LET op == operations[t][i] IN
        /\ op.rid \in rows
        /\ op.type = "INSERT" => begin_xid[op.rid] = -trx_id[t]
        /\ op.type = "DELETE" =>
              \/ end_xid[op.rid] = -trx_id[t]
              \/ begin_xid[op.rid] = -trx_id[t]
              \/ phase[t] = "commit" /\ begin_xid[op.rid] = commit_xid[t]

(* Write-write conflicts (visit_record in READ_WRITE mode): two           *)
(* transactions never have unfinished changes on the same row.            *)
OneWriter ==
    \A t, u \in Trxs : \A i \in Pending(t), j \in Pending(u) :
        operations[t][i].rid = operations[u][j].rid => t = u

(* A mark on a row is never left behind by commit or rollback: a row      *)
(* marked with the id of a live object is in that object's operations_.   *)
(* (Marks of an object that destroy_trx has removed do stay.)             *)
NoStrayMark ==
    \A t \in Trxs, r \in Rids :
        r \in rows /\ trx_id[t] > 0 =>
            /\ begin_xid[r] = -trx_id[t] => PendingOn(t, r, "INSERT")
            /\ end_xid[r] = -trx_id[t] => PendingOn(t, r, "DELETE")

(* A row with two committed versions was inserted no later than it was    *)
(* deleted: the interval that visit_record tests is never reversed.       *)
VersionOrder ==
    \A r \in Rids : r \in rows /\ begin_xid[r] > 0 /\ end_xid[r] > 0
                        => begin_xid[r] <= end_xid[r]

(* The closed interval of visit_record (trx_id_ <= end_xid) excludes the  *)
(* deleter's own commit only because a commit id is never the id of a     *)
(* running transaction.                                                   *)
IdsDisjoint ==
    \A t \in Trxs, r \in Rids :
        r \in rows /\ trx_id[t] > 0 =>
            begin_xid[r] # trx_id[t] /\ end_xid[r] # trx_id[t]

(* No transaction reads a row another one has inserted and is not yet     *)
(* committing, whether it still runs or is rolling back.                  *)
NoDirtyRead ==
    \A t, u \in Trxs, r \in Rids :
        t # u /\ phase[u] # "commit" /\ PendingOn(u, r, "INSERT")
            => ~Visible(t, r)

(* A transaction older than another's commit id sees none of the rows     *)
(* that commit is stamping, walked or not, unless somebody is deleting    *)
(* the row (visit_record then does not look at begin_xid).                *)
CommitInvisibleToOlder ==
    \A t, u \in Trxs : phase[u] = "commit" /\ t # u /\ trx_id[t] < commit_xid[u] =>
        \A i \in 1 .. Len(operations[u]) :
            LET op == operations[u][i] IN
            op.type = "INSERT" /\ end_xid[op.rid] >= 0 => ~Visible(t, op.rid)

(* A committed (or loaded) row is never taken out of its slot and never   *)
(* changes its begin_xid: a rollback removes uncommitted rows only.       *)
CommittedInsertPermanent ==
    [][\A r \in Rids : r \in rows /\ begin_xid[r] >= 0
                           => r \in rows' /\ begin_xid'[r] = begin_xid[r]]_vars

(* operations_ and the marks on the rows say the same, at every point of   *)
(* the walks of commit and rollback: every operation still to be walked    *)
(* finds its row, every mark of a live object has its operation, and no    *)
(* two transactions have unfinished changes on one row.                    *)
MarksMatchOperations == TypeOK /\ OperationsOwnRows /\ NoStrayMark /\ OneWriter

(* The intervals that visit_record tests are never reversed, and their     *)
(* closed ends never meet the id of a running transaction.                 *)
VersionsOrdered == VersionOrder /\ IdsDisjoint

(* What a transaction reads: no insert of another one before its commit,   *)
(* and nothing of a commit with a larger id, finished or half way.         *)
SnapshotReads == NoDirtyRead /\ CommitInvisibleToOlder
=============================================================================
