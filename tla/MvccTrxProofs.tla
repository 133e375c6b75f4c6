--------------------------- MODULE MvccTrxProofs ---------------------------
(***************************************************************************)
(* Proofs about MvccTrx for every set of objects and of slots and every    *)
(* bound.  None of the safety properties is inductive by itself: that a    *)
(* commit finds its mark on a row rests on nobody else having been able to *)
(* change the row, which rests on the marks of everybody else.  IInv puts  *)
(* these facts together; the properties follow from it.                    *)
(***************************************************************************)
EXTENDS MvccTrx, TLAPS

(* Ids come from one counter: those in use are distinct, and none is above *)
(* it. A commit id is never a transaction id.                              *)
IdsInv ==
    /\ \A t \in Trxs : trx_id[t] = -1 \/ trx_id[t] \in 1 .. current_trx_id
    /\ \A t, u \in Trxs : t # u /\ trx_id[t] > 0 => trx_id[t] # trx_id[u]
    /\ \A t \in Trxs : phase[t] = "commit" =>
           commit_xid[t] \in 1 .. current_trx_id /\ trx_id[t] < commit_xid[t]
    /\ \A t, u \in Trxs : phase[u] = "commit" => commit_xid[u] # trx_id[t]

(* An object between transactions has no operations; this is the ASSERT of *)
(* start_if_need (mvcc_trx.cpp:266).                                       *)
ObjInv ==
    \A t \in Trxs :
        /\ started[t] => trx_id[t] > 0 /\ phase[t] = "run"
        /\ Len(operations[t]) > 0 => trx_id[t] > 0
        /\ phase[t] = "run" /\ Len(operations[t]) > 0 => started[t]
        /\ phase[t] = "commit" => pos[t] \in 1 .. Len(operations[t]) + 1
        /\ phase[t] = "rollback" => pos[t] \in 0 .. Len(operations[t])

RowInv ==
    \A r \in Rids : r \in rows =>
        /\ -current_trx_id <= begin_xid[r] /\ begin_xid[r] <= current_trx_id
        /\ -current_trx_id <= end_xid[r]
        /\ end_xid[r] = max_trx_id \/ end_xid[r] <= current_trx_id
        /\ begin_xid[r] < 0 => end_xid[r] = max_trx_id \/ end_xid[r] = begin_xid[r]
        /\ begin_xid[r] # 0 => end_xid[r] # 0

(* A transaction that works on a row twice has inserted it first. *)
InsertFirst ==
    \A t \in Trxs : \A i, j \in 1 .. Len(operations[t]) :
        i < j /\ operations[t][i].rid = operations[t][j].rid
            => operations[t][j].type = "DELETE"

(* What a pending operation knows of its row.  The mark of a delete may   *)
(* have been replaced only when the transaction inserted the row itself   *)
(* and deleted it twice; and a transaction deletes rows older than itself *)
(* or its own.                                                            *)
OpInv(t, i) ==
    LET type == operations[t][i].type
        r == operations[t][i].rid IN
    /\ r \in rows
    /\ type = "INSERT" => begin_xid[r] = -trx_id[t]
    /\ type = "DELETE" => \/ end_xid[r] = -trx_id[t]
                          \/ phase[t] = "rollback" /\ begin_xid[r] = -trx_id[t]
                          \/ /\ phase[t] = "commit"
                             /\ begin_xid[r] = commit_xid[t]
                             /\ end_xid[r] = commit_xid[t]
    /\ type = "DELETE" /\ begin_xid[r] > 0 =>
           \/ begin_xid[r] < trx_id[t]
           \/ phase[t] = "commit" /\ begin_xid[r] = commit_xid[t]

OpsInv == \A t \in Trxs : \A i \in Pending(t) : OpInv(t, i)

(* A row is deleted twice only by the transaction that inserted it. *)
TwiceInv(t, i, j) ==
    LET r == operations[t][i].rid IN
    /\ i # j
    /\ operations[t][j].rid = r
    /\ operations[t][i].type = "DELETE"
    /\ operations[t][j].type = "DELETE"
    => \/ begin_xid[r] = -trx_id[t]
       \/ phase[t] = "commit" /\ begin_xid[r] = commit_xid[t]

DoubleDelete == \A t \in Trxs : \A i, j \in Pending(t) : TwiceInv(t, i, j)

(* The inserts a commit has walked carry its id. *)
Stamped ==
    \A t \in Trxs : phase[t] = "commit" =>
        \A i \in 1 .. Len(operations[t]) :
            LET op == operations[t][i] IN
            i < pos[t] /\ op.type = "INSERT" =>
                op.rid \in rows /\ begin_xid[op.rid] = commit_xid[t]

IInv ==
    /\ TypeOK
    /\ IdsInv
    /\ ObjInv
    /\ RowInv
    /\ IdsDisjoint
    /\ InsertFirst
    /\ OpsInv
    /\ DoubleDelete
    /\ OneWriter
    /\ NoStrayMark
    /\ VersionOrder
    /\ Stamped

-----------------------------------------------------------------------------
(* Types. *)

LEMMA TypeInit == Init => TypeOK
  BY BoundAssumption DEF Init, TypeOK

LEMMA TypeNext == TypeOK /\ [Next]_vars => TypeOK'
  <1> SUFFICES ASSUME TypeOK, [Next]_vars PROVE TypeOK'
    OBVIOUS
  <1> USE BoundAssumption DEF TypeOK, kitVars, rowVars, trxVars
  <1>1. ASSUME NEW t \in Trxs, start_if_need(t) PROVE TypeOK'
    BY <1>1 DEF start_if_need, TakeTrxId, NextTrxId
  <1>2. ASSUME NEW t \in Trxs, NEW r \in Rids, insert_record(t, r) PROVE TypeOK'
    <2>1. [type |-> "INSERT", rid |-> r] \in Operation
      BY DEF Operation
    <2> QED
      BY <1>2, <2>1 DEF insert_record
  <1>3. ASSUME NEW t \in Trxs, NEW r \in Rids, delete_record(t, r) PROVE TypeOK'
    <2>1. [type |-> "DELETE", rid |-> r] \in Operation
      BY DEF Operation
    <2> QED
      BY <1>3, <2>1 DEF delete_record
  <1>4. ASSUME NEW t \in Trxs, commit(t) PROVE TypeOK'
    BY <1>4 DEF commit, TakeTrxId, NextTrxId
  <1>5. ASSUME NEW t \in Trxs, CommitOperation(t) PROVE TypeOK'
    BY <1>5 DEF CommitOperation
  <1>6. ASSUME NEW t \in Trxs, CommitDone(t) PROVE TypeOK'
    BY <1>6 DEF CommitDone
  <1>7. ASSUME NEW t \in Trxs, rollback(t) PROVE TypeOK'
    BY <1>7 DEF rollback
  <1>8. ASSUME NEW t \in Trxs, RollbackOperation(t) PROVE TypeOK'
    BY <1>8 DEF RollbackOperation
  <1>9. ASSUME NEW t \in Trxs, RollbackDone(t) PROVE TypeOK'
    BY <1>9 DEF RollbackDone
  <1>10. ASSUME NEW t \in Trxs, destroy_trx(t) PROVE TypeOK'
    BY <1>10 DEF destroy_trx
  <1>11. ASSUME NEW r \in Rids, load_data(r) PROVE TypeOK'
    BY <1>11 DEF load_data
  <1>12. CASE UNCHANGED vars
    BY <1>12 DEF vars
  <1> QED
    BY <1>1, <1>2, <1>3, <1>4, <1>5, <1>6, <1>7, <1>8, <1>9, <1>10, <1>11, <1>12
       DEF Next, TrxStep

-----------------------------------------------------------------------------
(* The inductive invariant. *)

LEMMA OpTypes ==
  ASSUME TypeOK
  PROVE  \A u \in Trxs : \A i \in 1 .. Len(operations[u]) :
             /\ operations[u][i].rid \in Rids
             /\ operations[u][i].type \in {"INSERT", "DELETE"}
  <1> TAKE u \in Trxs
  <1> TAKE i \in 1 .. Len(operations[u])
  <1>1. operations[u] \in Seq(Operation)
    BY DEF TypeOK
  <1>2. operations[u][i] \in Operation
    BY <1>1
  <1> QED
    BY <1>2 DEF Operation

LEMMA InitInv == Init => IInv
  <1> SUFFICES ASSUME Init PROVE IInv
    OBVIOUS
  <1>1. TypeOK
    BY TypeInit
  <1> QED
    BY <1>1, BoundAssumption
       DEF Init, IInv, IdsInv, ObjInv, RowInv, IdsDisjoint, InsertFirst, OpsInv, DoubleDelete,
           OneWriter, NoStrayMark, VersionOrder, Stamped, Pending

(* load_data fills a free slot, which no pending operation can be on. *)
LEMMA LoadStep ==
  ASSUME IInv, TypeOK', NEW r \in Rids, load_data(r)
  PROVE  IInv'
  <1> USE DEF IInv
  <1>1. /\ current_trx_id' = current_trx_id /\ trx_id' = trx_id /\ started' = started
        /\ operations' = operations /\ phase' = phase /\ commit_xid' = commit_xid /\ pos' = pos
    BY DEF load_data, kitVars, trxVars
  <1>2. \A u \in Trxs : Pending(u)' = Pending(u)
    BY <1>1 DEF Pending
  <1>3. \A q \in Rids : q # r =>
          /\ q \in rows' <=> q \in rows
          /\ begin_xid'[q] = begin_xid[q] /\ end_xid'[q] = end_xid[q]
    BY DEF load_data, TypeOK
  <1>4. r \in rows' /\ r \notin rows /\ begin_xid'[r] = 0 /\ end_xid'[r] = 0
    BY DEF load_data, TypeOK
  <1>5. \A u \in Trxs : \A i \in Pending(u) :
          operations[u][i].rid \in Rids /\ operations[u][i].rid # r
    BY DEF OpsInv, OpInv, TypeOK, load_data
  <1>6. rows \subseteq Rids
    BY DEF TypeOK
  <1>7. IdsInv'
    BY <1>1, <1>2, <1>3, <1>4, <1>5, <1>6 DEF IdsInv
  <1>8. ObjInv'
    BY <1>1, <1>2, <1>3, <1>4, <1>5, <1>6 DEF ObjInv
  <1>9. RowInv'
    BY <1>1, <1>2, <1>3, <1>4, <1>5, <1>6, BoundAssumption DEF RowInv, TypeOK, load_data, kitVars, trxVars
  <1>10. IdsDisjoint'
    BY <1>1, <1>2, <1>3, <1>4, <1>5, <1>6 DEF IdsDisjoint
  <1>11. InsertFirst'
    BY <1>1, <1>2, <1>3, <1>4, <1>5, <1>6 DEF InsertFirst
  <1>12. OpsInv'
    BY <1>1, <1>2, <1>3, <1>4, <1>5, <1>6 DEF OpsInv, OpInv
  <1>13. DoubleDelete'
    BY <1>1, <1>2, <1>3, <1>4, <1>5, <1>6 DEF DoubleDelete, TwiceInv
  <1>14. OneWriter'
    BY <1>1, <1>2, <1>3, <1>4, <1>5, <1>6 DEF OneWriter
  <1>15. NoStrayMark'
    BY <1>1, <1>2, <1>3, <1>4, <1>5, <1>6, BoundAssumption DEF NoStrayMark, PendingOn, TypeOK, load_data, kitVars, trxVars
  <1>16. VersionOrder'
    BY <1>1, <1>2, <1>3, <1>4, <1>5, <1>6 DEF VersionOrder
  <1>17. Stamped'
    BY <1>1, <1>2, <1>3, <1>4, <1>5, <1>6 DEF Stamped
  <1> QED
    BY <1>7, <1>8, <1>9, <1>10, <1>11, <1>12, <1>13, <1>14, <1>15, <1>16, <1>17

(* start_if_need hands out an id that is on no row and in no object. *)
LEMMA StartStep ==
  ASSUME IInv, TypeOK', NEW t \in Trxs, start_if_need(t)
  PROVE  IInv'
  <1> USE DEF IInv
  <1>1. rows' = rows /\ begin_xid' = begin_xid /\ end_xid' = end_xid /\ operations' = operations /\ phase' = phase
        /\ commit_xid' = commit_xid /\ pos' = pos
    BY DEF start_if_need, TakeTrxId, NextTrxId, rowVars
  <1>2. trx_id'[t] = current_trx_id + 1 /\ current_trx_id' = current_trx_id + 1
    BY DEF start_if_need, TakeTrxId, NextTrxId, rowVars, TypeOK
  <1>3. operations[t] = <<>> /\ Pending(t) = {} /\ Pending(t)' = {} /\ phase[t] = "run"
    BY DEF start_if_need, TakeTrxId, NextTrxId, rowVars, TypeOK, ObjInv, Pending
  <1>4. \A u \in Trxs : u # t =>
          /\ trx_id'[u] = trx_id[u] /\ operations'[u] = operations[u]
          /\ started'[u] = started[u] /\ phase'[u] = phase[u]
          /\ commit_xid'[u] = commit_xid[u] /\ pos'[u] = pos[u]
          /\ Pending(u)' = Pending(u)
    BY DEF Pending, TypeOK, start_if_need, TakeTrxId, NextTrxId, rowVars
  <1>5. IdsInv'
    BY DEF IdsInv, TypeOK, start_if_need, TakeTrxId, NextTrxId, rowVars
  <1>6. ObjInv'
    BY <1>1, <1>2, <1>3, <1>4, BoundAssumption DEF ObjInv, TypeOK
  <1>7. RowInv'
    BY <1>1, <1>2, <1>3, <1>4, BoundAssumption DEF RowInv, TypeOK
  <1>8. IdsDisjoint'
    <2> SUFFICES ASSUME NEW u \in Trxs, NEW r \in Rids, r \in rows, trx_id'[u] > 0
                 PROVE  begin_xid[r] # trx_id'[u] /\ end_xid[r] # trx_id'[u]
      BY <1>1 DEF IdsDisjoint
    <2>1. CASE u = t
      <3>1. begin_xid[r] <= current_trx_id /\ (end_xid[r] = max_trx_id \/ end_xid[r] <= current_trx_id)
        BY DEF RowInv
      <3>2. current_trx_id + 1 < max_trx_id
        BY BoundAssumption DEF start_if_need, TakeTrxId, NextTrxId, rowVars, TypeOK
      <3> QED
        BY <1>2, <2>1, <3>1, <3>2 DEF TypeOK
    <2>2. CASE u # t
      BY <1>4, <2>2 DEF IdsDisjoint
    <2> QED
      BY <2>1, <2>2
  <1>9. InsertFirst'
    BY <1>1, <1>2, <1>3, <1>4 DEF InsertFirst
  <1>10. OpsInv'
    BY <1>1, <1>2, <1>3, <1>4 DEF OpsInv, OpInv
  <1>11. DoubleDelete'
    BY <1>1, <1>2, <1>3, <1>4 DEF DoubleDelete, TwiceInv
  <1>12. OneWriter'
    BY <1>1, <1>2, <1>3, <1>4 DEF OneWriter
  <1>13. NoStrayMark'
    <2> SUFFICES ASSUME NEW u \in Trxs, NEW r \in Rids, r \in rows, trx_id'[u] > 0
                 PROVE  /\ begin_xid[r] = -trx_id'[u] => PendingOn(u, r, "INSERT")'
                        /\ end_xid[r] = -trx_id'[u] => PendingOn(u, r, "DELETE")'
      BY <1>1 DEF NoStrayMark
    <2>1. CASE u = t
      BY <1>2, <2>1 DEF RowInv, TypeOK
    <2>2. CASE u # t
      BY <1>1, <1>4, <2>2 DEF NoStrayMark, PendingOn
    <2> QED
      BY <2>1, <2>2
  <1>14. VersionOrder'
    BY <1>1, <1>2, <1>3, <1>4 DEF VersionOrder
  <1>15. Stamped'
    BY <1>1, <1>2, <1>3, <1>4 DEF Stamped
  <1> QED
    BY <1>5, <1>6, <1>7, <1>8, <1>9, <1>10, <1>11, <1>12, <1>13, <1>14, <1>15

(* commit takes a fresh id and leaves the rows alone. *)
LEMMA CommitStep ==
  ASSUME IInv, TypeOK', NEW t \in Trxs, commit(t)
  PROVE  IInv'
  <1> USE DEF IInv
  <1>1. rows' = rows /\ begin_xid' = begin_xid /\ end_xid' = end_xid /\ trx_id' = trx_id /\ operations' = operations
    BY DEF commit, rowVars
  <1>2. Pending(t)' = Pending(t) /\ phase[t] = "run" /\ phase'[t] = "commit"
    BY DEF Pending, ObjInv, TypeOK, commit, TakeTrxId, NextTrxId, rowVars
  <1>3. \A u \in Trxs : u # t =>
          /\ trx_id'[u] = trx_id[u] /\ operations'[u] = operations[u]
          /\ started'[u] = started[u] /\ phase'[u] = phase[u]
          /\ commit_xid'[u] = commit_xid[u] /\ pos'[u] = pos[u]
          /\ Pending(u)' = Pending(u)
    BY DEF Pending, TypeOK, commit, TakeTrxId, NextTrxId, rowVars
  <1>4. IdsInv'
    <2>1. commit_xid'[t] = current_trx_id + 1 /\ current_trx_id' = current_trx_id + 1
      BY DEF commit, TakeTrxId, NextTrxId, rowVars, TypeOK
    <2>2. \A u \in Trxs : trx_id[u] <= current_trx_id
      BY DEF IdsInv, TypeOK
    <2>3. \A u \in Trxs : phase'[u] = "commit" =>
            commit_xid'[u] \in 1 .. current_trx_id' /\ trx_id[u] < commit_xid'[u]
      <3> TAKE u \in Trxs
      <3>1. CASE u = t
        BY <2>1, <2>2, <3>1 DEF TypeOK
      <3>2. CASE u # t
        BY <1>3, <2>1, <3>2 DEF IdsInv, TypeOK
      <3> QED
        BY <3>1, <3>2
    <2>4. \A v, u \in Trxs : phase'[u] = "commit" => commit_xid'[u] # trx_id[v]
      <3> TAKE v, u \in Trxs
      <3>1. CASE u = t
        BY <2>1, <2>2, <3>1 DEF TypeOK
      <3>2. CASE u # t
        BY <1>3, <3>2 DEF IdsInv
      <3> QED
        BY <3>1, <3>2
    <2> QED
      BY <1>1, <2>1, <2>3, <2>4 DEF IdsInv, TypeOK
  <1>5. ObjInv'
    BY <1>1, <1>2, <1>3, BoundAssumption DEF ObjInv, TypeOK, commit, TakeTrxId, NextTrxId, rowVars
  <1>6. RowInv'
    BY <1>1, <1>2, <1>3, BoundAssumption DEF RowInv, TypeOK, commit, TakeTrxId, NextTrxId, rowVars
  <1>7. IdsDisjoint'
    BY <1>1, <1>2, <1>3 DEF IdsDisjoint
  <1>8. InsertFirst'
    BY <1>1, <1>2, <1>3 DEF InsertFirst
  <1>9. OpsInv'
    <2> SUFFICES ASSUME NEW u \in Trxs, NEW i \in Pending(u) PROVE OpInv(u, i)'
      BY <1>2, <1>3 DEF OpsInv
    <2>1. OpInv(u, i)
      BY DEF OpsInv
    <2>2. CASE u = t
      BY <1>1, <1>2, <2>1, <2>2 DEF OpInv
    <2>3. CASE u # t
      BY <1>1, <1>3, <2>1, <2>3 DEF OpInv
    <2> QED
      BY <2>2, <2>3
  <1>10. DoubleDelete'
    <2> SUFFICES ASSUME NEW u \in Trxs, NEW i \in Pending(u), NEW j \in Pending(u)
                 PROVE  TwiceInv(u, i, j)'
      BY <1>2, <1>3 DEF DoubleDelete
    <2>1. TwiceInv(u, i, j)
      BY DEF DoubleDelete
    <2>2. CASE u = t
      BY <1>1, <1>2, <2>1, <2>2 DEF TwiceInv
    <2>3. CASE u # t
      BY <1>1, <1>3, <2>1, <2>3 DEF TwiceInv
    <2> QED
      BY <2>2, <2>3
  <1>11. OneWriter'
    BY <1>1, <1>2, <1>3 DEF OneWriter
  <1>12. NoStrayMark'
    BY <1>1, <1>2, <1>3 DEF NoStrayMark, PendingOn
  <1>13. VersionOrder'
    BY <1>1, <1>2, <1>3 DEF VersionOrder
  <1>14. Stamped'
    BY <1>1, <1>2, <1>3, BoundAssumption DEF Stamped, TypeOK, commit, TakeTrxId, NextTrxId, rowVars
  <1> QED
    BY <1>4, <1>5, <1>6, <1>7, <1>8, <1>9, <1>10, <1>11, <1>12, <1>13, <1>14

(* rollback starts at the end of operations_. *)
LEMMA RollbackStep ==
  ASSUME IInv, TypeOK', NEW t \in Trxs, rollback(t)
  PROVE  IInv'
  <1> USE DEF IInv
  <1>1. rows' = rows /\ begin_xid' = begin_xid /\ end_xid' = end_xid /\ trx_id' = trx_id /\ operations' = operations
    BY DEF rollback, rowVars
  <1>2. Pending(t)' = Pending(t) /\ phase[t] = "run" /\ phase'[t] = "rollback"
    BY DEF Pending, ObjInv, TypeOK, rollback, kitVars, rowVars
  <1>3. \A u \in Trxs : u # t =>
          /\ trx_id'[u] = trx_id[u] /\ operations'[u] = operations[u]
          /\ started'[u] = started[u] /\ phase'[u] = phase[u]
          /\ commit_xid'[u] = commit_xid[u] /\ pos'[u] = pos[u]
          /\ Pending(u)' = Pending(u)
    BY DEF Pending, TypeOK, rollback, kitVars, rowVars
  <1>4. current_trx_id' = current_trx_id
    BY DEF rollback, kitVars, rowVars
  <1>5. IdsInv'
    BY <1>1, <1>2, <1>3, <1>4 DEF IdsInv
  <1>6. ObjInv'
    BY <1>1, <1>2, <1>3, <1>4, BoundAssumption DEF ObjInv, TypeOK, rollback, kitVars, rowVars
  <1>7. RowInv'
    BY <1>1, <1>2, <1>3, <1>4 DEF RowInv
  <1>8. IdsDisjoint'
    BY <1>1, <1>2, <1>3, <1>4 DEF IdsDisjoint
  <1>9. InsertFirst'
    BY <1>1, <1>2, <1>3, <1>4 DEF InsertFirst
  <1>10. OpsInv'
    <2> SUFFICES ASSUME NEW u \in Trxs, NEW i \in Pending(u) PROVE OpInv(u, i)'
      BY <1>2, <1>3 DEF OpsInv
    <2>1. OpInv(u, i)
      BY DEF OpsInv
    <2>2. CASE u = t
      BY <1>1, <1>2, <2>1, <2>2 DEF OpInv
    <2>3. CASE u # t
      BY <1>1, <1>3, <2>1, <2>3 DEF OpInv
    <2> QED
      BY <2>2, <2>3
  <1>11. DoubleDelete'
    <2> SUFFICES ASSUME NEW u \in Trxs, NEW i \in Pending(u), NEW j \in Pending(u)
                 PROVE  TwiceInv(u, i, j)'
      BY <1>2, <1>3 DEF DoubleDelete
    <2>1. TwiceInv(u, i, j)
      BY DEF DoubleDelete
    <2>2. CASE u = t
      BY <1>1, <1>2, <2>1, <2>2 DEF TwiceInv
    <2>3. CASE u # t
      BY <1>1, <1>3, <2>1, <2>3 DEF TwiceInv
    <2> QED
      BY <2>2, <2>3
  <1>12. OneWriter'
    BY <1>1, <1>2, <1>3, <1>4 DEF OneWriter
  <1>13. NoStrayMark'
    BY <1>1, <1>2, <1>3, <1>4 DEF NoStrayMark, PendingOn
  <1>14. VersionOrder'
    BY <1>1, <1>2, <1>3, <1>4 DEF VersionOrder
  <1>15. Stamped'
    BY <1>1, <1>2, <1>3, <1>4 DEF Stamped
  <1> QED
    BY <1>5, <1>6, <1>7, <1>8, <1>9, <1>10, <1>11, <1>12, <1>13, <1>14, <1>15

(* The walk is over: no operation of t is pending. *)
LEMMA CommitDoneStep ==
  ASSUME IInv, TypeOK', NEW t \in Trxs, CommitDone(t)
  PROVE  IInv'
  <1> USE DEF IInv
  <1>1. rows' = rows /\ begin_xid' = begin_xid /\ end_xid' = end_xid /\ trx_id' = trx_id /\ current_trx_id' = current_trx_id
    BY DEF CommitDone, kitVars, rowVars
  <1>2. Pending(t) = {}
    BY DEF Pending, ObjInv, TypeOK, CommitDone, kitVars, rowVars
  <1>3. Pending(t)' = {} /\ operations'[t] = <<>> /\ phase'[t] = "run"
    BY DEF Pending, TypeOK, CommitDone, kitVars, rowVars
  <1>4. \A u \in Trxs : u # t =>
          /\ trx_id'[u] = trx_id[u] /\ operations'[u] = operations[u]
          /\ started'[u] = started[u] /\ phase'[u] = phase[u]
          /\ commit_xid'[u] = commit_xid[u] /\ pos'[u] = pos[u]
          /\ Pending(u)' = Pending(u)
    BY DEF Pending, TypeOK, CommitDone, kitVars, rowVars
  <1>5. IdsInv'
    BY <1>1, <1>2, <1>3, <1>4 DEF IdsInv
  <1>6. ObjInv'
    BY <1>1, <1>2, <1>3, <1>4, BoundAssumption DEF ObjInv, TypeOK, CommitDone, kitVars, rowVars
  <1>7. RowInv'
    BY <1>1, <1>2, <1>3, <1>4 DEF RowInv
  <1>8. IdsDisjoint'
    BY <1>1, <1>2, <1>3, <1>4 DEF IdsDisjoint
  <1>9. InsertFirst'
    BY <1>1, <1>2, <1>3, <1>4 DEF InsertFirst
  <1>10. OpsInv'
    BY <1>1, <1>2, <1>3, <1>4 DEF OpsInv, OpInv
  <1>11. DoubleDelete'
    BY <1>1, <1>2, <1>3, <1>4 DEF DoubleDelete, TwiceInv
  <1>12. OneWriter'
    BY <1>1, <1>2, <1>3, <1>4 DEF OneWriter
  <1>13. NoStrayMark'
    BY <1>1, <1>2, <1>3, <1>4 DEF NoStrayMark, PendingOn
  <1>14. VersionOrder'
    BY <1>1, <1>2, <1>3, <1>4 DEF VersionOrder
  <1>15. Stamped'
    BY <1>1, <1>2, <1>3, <1>4 DEF Stamped
  <1> QED
    BY <1>5, <1>6, <1>7, <1>8, <1>9, <1>10, <1>11, <1>12, <1>13, <1>14, <1>15

(* The same at the end of a rollback. *)
LEMMA RollbackDoneStep ==
  ASSUME IInv, TypeOK', NEW t \in Trxs, RollbackDone(t)
  PROVE  IInv'
  <1> USE DEF IInv
  <1>1. rows' = rows /\ begin_xid' = begin_xid /\ end_xid' = end_xid /\ trx_id' = trx_id /\ current_trx_id' = current_trx_id
    BY DEF RollbackDone, kitVars, rowVars
  <1>2. Pending(t) = {}
    BY DEF Pending, ObjInv, TypeOK, RollbackDone, kitVars, rowVars
  <1>3. Pending(t)' = {} /\ operations'[t] = <<>> /\ phase'[t] = "run"
    BY DEF Pending, TypeOK, RollbackDone, kitVars, rowVars
  <1>4. \A u \in Trxs : u # t =>
          /\ trx_id'[u] = trx_id[u] /\ operations'[u] = operations[u]
          /\ started'[u] = started[u] /\ phase'[u] = phase[u]
          /\ commit_xid'[u] = commit_xid[u] /\ pos'[u] = pos[u]
          /\ Pending(u)' = Pending(u)
    BY DEF Pending, TypeOK, RollbackDone, kitVars, rowVars
  <1>5. IdsInv'
    BY <1>1, <1>2, <1>3, <1>4 DEF IdsInv
  <1>6. ObjInv'
    BY <1>1, <1>2, <1>3, <1>4, BoundAssumption DEF ObjInv, TypeOK, RollbackDone, kitVars, rowVars
  <1>7. RowInv'
    BY <1>1, <1>2, <1>3, <1>4 DEF RowInv
  <1>8. IdsDisjoint'
    BY <1>1, <1>2, <1>3, <1>4 DEF IdsDisjoint
  <1>9. InsertFirst'
    BY <1>1, <1>2, <1>3, <1>4 DEF InsertFirst
  <1>10. OpsInv'
    BY <1>1, <1>2, <1>3, <1>4 DEF OpsInv, OpInv
  <1>11. DoubleDelete'
    BY <1>1, <1>2, <1>3, <1>4 DEF DoubleDelete, TwiceInv
  <1>12. OneWriter'
    BY <1>1, <1>2, <1>3, <1>4 DEF OneWriter
  <1>13. NoStrayMark'
    BY <1>1, <1>2, <1>3, <1>4 DEF NoStrayMark, PendingOn
  <1>14. VersionOrder'
    BY <1>1, <1>2, <1>3, <1>4 DEF VersionOrder
  <1>15. Stamped'
    BY <1>1, <1>2, <1>3, <1>4 DEF Stamped
  <1> QED
    BY <1>5, <1>6, <1>7, <1>8, <1>9, <1>10, <1>11, <1>12, <1>13, <1>14, <1>15

(* destroy_trx forgets the operations; the marks keep an id nobody has any more. *)
LEMMA DestroyStep ==
  ASSUME IInv, TypeOK', NEW t \in Trxs, destroy_trx(t)
  PROVE  IInv'
  <1> USE DEF IInv
  <1>1. rows' = rows /\ begin_xid' = begin_xid /\ end_xid' = end_xid /\ current_trx_id' = current_trx_id
    BY DEF destroy_trx, kitVars, rowVars
  <1>2. /\ Pending(t)' = {} /\ operations'[t] = <<>> /\ phase'[t] = "run"
        /\ trx_id'[t] = -1
    BY DEF Pending, TypeOK, destroy_trx, kitVars, rowVars
  <1>3. \A u \in Trxs : u # t =>
          /\ trx_id'[u] = trx_id[u] /\ operations'[u] = operations[u]
          /\ started'[u] = started[u] /\ phase'[u] = phase[u]
          /\ commit_xid'[u] = commit_xid[u] /\ pos'[u] = pos[u]
          /\ Pending(u)' = Pending(u)
    BY DEF Pending, TypeOK, destroy_trx, kitVars, rowVars
  <1>4. IdsInv'
    BY <1>1, <1>2, <1>3 DEF IdsInv
  <1>5. ObjInv'
    BY <1>1, <1>2, <1>3, BoundAssumption DEF ObjInv, TypeOK, destroy_trx, kitVars, rowVars
  <1>6. RowInv'
    BY <1>1, <1>2, <1>3 DEF RowInv
  <1>7. IdsDisjoint'
    BY <1>1, <1>2, <1>3 DEF IdsDisjoint
  <1>8. InsertFirst'
    BY <1>1, <1>2, <1>3 DEF InsertFirst
  <1>9. OpsInv'
    BY <1>1, <1>2, <1>3 DEF OpsInv, OpInv
  <1>10. DoubleDelete'
    BY <1>1, <1>2, <1>3 DEF DoubleDelete, TwiceInv
  <1>11. OneWriter'
    BY <1>1, <1>2, <1>3 DEF OneWriter
  <1>12. NoStrayMark'
    BY <1>1, <1>2, <1>3 DEF NoStrayMark, PendingOn
  <1>13. VersionOrder'
    BY <1>1, <1>2, <1>3 DEF VersionOrder
  <1>14. Stamped'
    BY <1>1, <1>2, <1>3 DEF Stamped
  <1> QED
    BY <1>4, <1>5, <1>6, <1>7, <1>8, <1>9, <1>10, <1>11, <1>12, <1>13, <1>14

(* A step that changes nothing. *)
LEMMA StutterStep ==
  ASSUME IInv, TypeOK', UNCHANGED vars
  PROVE  IInv'
  <1> USE DEF IInv
  <1>1. /\ current_trx_id' = current_trx_id /\ trx_id' = trx_id /\ started' = started
        /\ operations' = operations /\ phase' = phase /\ commit_xid' = commit_xid /\ pos' = pos
        /\ rows' = rows
        /\ begin_xid' = begin_xid /\ end_xid' = end_xid
    BY DEF vars, kitVars, rowVars, trxVars
  <1>2. \A u \in Trxs : Pending(u)' = Pending(u)
    BY <1>1 DEF Pending
  <1>3. IdsInv'
    BY <1>1, <1>2 DEF IdsInv
  <1>4. ObjInv'
    BY <1>1, <1>2 DEF ObjInv
  <1>5. RowInv'
    BY <1>1, <1>2 DEF RowInv
  <1>6. IdsDisjoint'
    BY <1>1, <1>2 DEF IdsDisjoint
  <1>7. InsertFirst'
    BY <1>1, <1>2 DEF InsertFirst
  <1>8. OpsInv'
    BY <1>1, <1>2 DEF OpsInv, OpInv
  <1>9. DoubleDelete'
    BY <1>1, <1>2 DEF DoubleDelete, TwiceInv
  <1>10. OneWriter'
    BY <1>1, <1>2 DEF OneWriter
  <1>11. NoStrayMark'
    BY <1>1, <1>2 DEF NoStrayMark, PendingOn
  <1>12. VersionOrder'
    BY <1>1, <1>2 DEF VersionOrder
  <1>13. Stamped'
    BY <1>1, <1>2 DEF Stamped
  <1> QED
    BY <1>3, <1>4, <1>5, <1>6, <1>7, <1>8, <1>9, <1>10, <1>11, <1>12, <1>13

(* insert_record fills a free slot and appends the operation that owns it. *)
LEMMA InsertStep ==
  ASSUME IInv, TypeOK', NEW t \in Trxs, NEW r \in Rids, insert_record(t, r)
  PROVE  IInv'
  <1> USE DEF IInv
  <1>1. /\ current_trx_id' = current_trx_id /\ trx_id' = trx_id /\ phase' = phase
        /\ commit_xid' = commit_xid /\ pos' = pos /\ phase[t] = "run" /\ trx_id[t] > 0
    BY DEF ObjInv, insert_record, kitVars
  <1>2. /\ r \in rows' /\ r \notin rows
        /\ begin_xid'[r] = -trx_id[t] /\ end_xid'[r] = max_trx_id
    BY DEF TypeOK, insert_record, kitVars
  <1>3. \A q \in Rids : q # r =>
          /\ q \in rows' <=> q \in rows
          /\ begin_xid'[q] = begin_xid[q] /\ end_xid'[q] = end_xid[q]
    BY DEF insert_record, kitVars, TypeOK
  <1>4. \A u \in Trxs : u # t =>
          /\ trx_id'[u] = trx_id[u] /\ operations'[u] = operations[u]
          /\ started'[u] = started[u] /\ phase'[u] = phase[u]
          /\ commit_xid'[u] = commit_xid[u] /\ pos'[u] = pos[u]
          /\ Pending(u)' = Pending(u)
    BY DEF Pending, TypeOK, insert_record, kitVars
  <1>5. /\ Len(operations'[t]) = Len(operations[t]) + 1 /\ Len(operations[t]) \in Nat
        /\ \A i \in 1 .. Len(operations[t]) : operations'[t][i] = operations[t][i]
        /\ operations'[t][Len(operations[t]) + 1].type = "INSERT"
        /\ operations'[t][Len(operations[t]) + 1].rid = r
    <2>1. operations'[t] = Append(operations[t], [type |-> "INSERT", rid |-> r])
      BY DEF TypeOK, insert_record, kitVars
    <2> QED
      BY <2>1 DEF TypeOK
  <1>6. \A u \in Trxs : \A i \in Pending(u) :
          i \in Pending(u)' /\ operations'[u][i] = operations[u][i]
    BY <1>1, <1>4, <1>5 DEF Pending
  <1>7. \A u \in Trxs : \A i \in Pending(u)' :
          \/ i \in Pending(u) /\ operations'[u][i] = operations[u][i]
          \/ /\ u = t /\ i = Len(operations[t]) + 1
             /\ operations'[u][i].type = "INSERT" /\ operations'[u][i].rid = r
    BY <1>1, <1>4, <1>5 DEF Pending
  <1>8. \A u \in Trxs : \A i \in Pending(u) :
          operations[u][i].rid \in Rids /\ operations[u][i].rid # r
    BY <1>2, OpTypes DEF OpsInv, OpInv, Pending
  <1>9. IdsInv'
    BY <1>1, <1>2, <1>3, <1>4, <1>5, <1>6, <1>7, <1>8 DEF IdsInv
  <1>10. ObjInv'
    BY <1>1, <1>2, <1>3, <1>4, <1>5, <1>6, <1>7, <1>8, BoundAssumption DEF ObjInv, TypeOK, insert_record, kitVars
  <1>11. RowInv'
    BY SMTT(40), <1>1, <1>2, <1>3, <1>4, <1>5, <1>6, <1>7, <1>8, BoundAssumption DEF RowInv, IdsInv, TypeOK
  <1>12. IdsDisjoint'
    <2> SUFFICES ASSUME NEW u \in Trxs, NEW q \in Rids, q \in rows', trx_id[u] > 0
                 PROVE  begin_xid'[q] # trx_id[u] /\ end_xid'[q] # trx_id[u]
      BY <1>1 DEF IdsDisjoint
    <2>1. CASE q # r
      BY <1>3, <2>1 DEF IdsDisjoint
    <2>2. CASE q = r
      <3>0. trx_id[u] \in 1 .. current_trx_id
        BY DEF IdsInv
      <3>1. trx_id[u] <= IdBound
        BY <3>0, BoundAssumption DEF TypeOK
      <3> QED
        BY <1>1, <1>2, <2>2, <3>1, BoundAssumption DEF TypeOK
    <2> QED
      BY <2>1, <2>2
  <1>13. InsertFirst'
    <2> SUFFICES ASSUME NEW u \in Trxs,
                        NEW i \in 1 .. Len(operations'[u]), NEW j \in 1 .. Len(operations'[u]),
                        i < j, operations'[u][i].rid = operations'[u][j].rid
                 PROVE  operations'[u][j].type = "DELETE"
      BY DEF InsertFirst
    <2>1. CASE u # t
      BY <1>4, <2>1 DEF InsertFirst
    <2>2. CASE u = t /\ j \in 1 .. Len(operations[t])
      BY <1>5, <2>2 DEF InsertFirst
    <2>3. CASE u = t /\ j = Len(operations[t]) + 1
      <3>1. i \in Pending(t)
        BY <1>1, <1>5, <2>3 DEF Pending
      <3> QED
        BY <1>5, <1>8, <2>3, <3>1 DEF Pending
    <2> QED
      BY <1>5, <2>1, <2>2, <2>3
  <1>14. OpsInv'
    <2> SUFFICES ASSUME NEW u \in Trxs, NEW i \in Pending(u)' PROVE OpInv(u, i)'
      BY DEF OpsInv
    <2>1. CASE i \in Pending(u) /\ operations'[u][i] = operations[u][i]
      <3>1. OpInv(u, i) /\ operations[u][i].rid \in Rids
        BY <2>1, <1>8 DEF OpsInv
      <3> QED
        BY <1>1, <1>3, <1>8, <2>1, <3>1 DEF OpInv
    <2>2. CASE /\ u = t /\ operations'[u][i].rid = r
               /\ operations'[u][i].type = "INSERT"
      BY <1>1, <1>2, <2>2 DEF OpInv
    <2> QED
      BY <1>7, <2>1, <2>2
  <1>15. DoubleDelete'
    <2> SUFFICES ASSUME NEW u \in Trxs, NEW i \in Pending(u)', NEW j \in Pending(u)'
                 PROVE  TwiceInv(u, i, j)'
      BY DEF DoubleDelete
    <2>1. CASE /\ i \in Pending(u) /\ operations'[u][i] = operations[u][i]
               /\ j \in Pending(u) /\ operations'[u][j] = operations[u][j]
      <3>1. TwiceInv(u, i, j) /\ operations[u][i].rid \in Rids
        BY <2>1, <1>8 DEF DoubleDelete
      <3> QED
        BY <1>1, <1>3, <1>8, <2>1, <3>1 DEF TwiceInv
    <2>2. CASE operations'[u][i].type = "INSERT" \/ operations'[u][j].type = "INSERT"
      BY <2>2 DEF TwiceInv
    <2> QED
      BY <1>7, <2>1, <2>2
  <1>16. OneWriter'
    <2> SUFFICES ASSUME NEW u \in Trxs, NEW v \in Trxs, u # v,
                        NEW i \in Pending(u)', NEW j \in Pending(v)',
                        operations'[u][i].rid = operations'[v][j].rid
                 PROVE  FALSE
      BY DEF OneWriter
    <2>1. i \in Pending(u) /\ operations'[u][i] = operations[u][i]
      BY <1>7, <1>8
    <2>2. j \in Pending(v) /\ operations'[v][j] = operations[v][j]
      BY <1>7, <1>8
    <2> QED
      BY <2>1, <2>2 DEF OneWriter
  <1>17. NoStrayMark'
    <2> SUFFICES ASSUME NEW u \in Trxs, NEW q \in Rids, q \in rows', trx_id[u] > 0
                 PROVE  /\ begin_xid'[q] = -trx_id[u] => PendingOn(u, q, "INSERT")'
                        /\ end_xid'[q] = -trx_id[u] => PendingOn(u, q, "DELETE")'
      BY <1>1 DEF NoStrayMark
    <2>1. CASE q # r
      BY <1>3, <1>6, <2>1 DEF NoStrayMark, PendingOn
    <2>2. CASE q = r
      <3>1. end_xid'[q] # -trx_id[u]
        BY SMTT(40), <1>2, <2>2, BoundAssumption DEF TypeOK
      <3>2. begin_xid'[q] = -trx_id[u] => u = t
        BY <1>1, <1>2, <2>2 DEF IdsInv, TypeOK
      <3>3. Len(operations[t]) + 1 \in Pending(t)'
        BY <1>1, <1>5 DEF Pending
      <3> QED
        BY <1>5, <2>2, <3>1, <3>2, <3>3 DEF PendingOn
    <2> QED
      BY <2>1, <2>2
  <1>18. VersionOrder'
    BY <1>1, <1>2, <1>3, <1>4, <1>5, <1>6, <1>7, <1>8, BoundAssumption DEF VersionOrder, TypeOK, insert_record, kitVars
  <1>19. Stamped'
    BY SMTT(40), <1>1, <1>2, <1>3, <1>4, <1>5, <1>6, <1>7, <1>8, BoundAssumption DEF Stamped, TypeOK, insert_record, kitVars
  <1> QED
    BY <1>9, <1>10, <1>11, <1>12, <1>13, <1>14, <1>15, <1>16, <1>17, <1>18, <1>19

(* delete_record marks a row nobody else has a pending operation on. *)
LEMMA DeleteStep ==
  ASSUME IInv, TypeOK', NEW t \in Trxs, NEW r \in Rids, delete_record(t, r)
  PROVE  IInv'
  <1> USE DEF IInv
  <1>1. /\ current_trx_id' = current_trx_id /\ trx_id' = trx_id /\ phase' = phase
        /\ commit_xid' = commit_xid /\ pos' = pos /\ phase[t] = "run" /\ trx_id[t] > 0
        /\ rows' = rows /\ begin_xid' = begin_xid /\ r \in rows
    BY DEF ObjInv, delete_record, kitVars
  <1>2. end_xid'[r] = -trx_id[t] /\ \A q \in Rids : q # r => end_xid'[q] = end_xid[q]
    BY DEF delete_record, kitVars, TypeOK
  <1>3. /\ begin_xid[r] > 0 => begin_xid[r] < trx_id[t] /\ end_xid[r] >= trx_id[t]
        /\ begin_xid[r] < 0 => begin_xid[r] = -trx_id[t]
        /\ begin_xid[r] >= 0 => end_xid[r] >= 0
    BY <1>1 DEF delete_record, kitVars, visit_record, VisitResult, TypeOK, IdsDisjoint, RowInv
  <1>4. \A u \in Trxs : u # t =>
          /\ trx_id'[u] = trx_id[u] /\ operations'[u] = operations[u]
          /\ started'[u] = started[u] /\ phase'[u] = phase[u]
          /\ commit_xid'[u] = commit_xid[u] /\ pos'[u] = pos[u]
          /\ Pending(u)' = Pending(u)
    BY DEF Pending, TypeOK, delete_record, kitVars
  <1>5. /\ Len(operations'[t]) = Len(operations[t]) + 1 /\ Len(operations[t]) \in Nat
        /\ \A i \in 1 .. Len(operations[t]) : operations'[t][i] = operations[t][i]
        /\ operations'[t][Len(operations[t]) + 1].type = "DELETE"
        /\ operations'[t][Len(operations[t]) + 1].rid = r
    <2>1. operations'[t] = Append(operations[t], [type |-> "DELETE", rid |-> r])
      BY DEF TypeOK, delete_record, kitVars
    <2> QED
      BY <2>1 DEF TypeOK
  <1>6. \A u \in Trxs : \A i \in Pending(u) :
          i \in Pending(u)' /\ operations'[u][i] = operations[u][i]
    BY <1>1, <1>4, <1>5 DEF Pending
  <1>7. \A u \in Trxs : \A i \in Pending(u)' :
          \/ i \in Pending(u) /\ operations'[u][i] = operations[u][i]
          \/ /\ u = t /\ i = Len(operations[t]) + 1
             /\ operations'[u][i].type = "DELETE" /\ operations'[u][i].rid = r
    BY <1>1, <1>4, <1>5 DEF Pending
  <1>8. \A u \in Trxs : \A i \in Pending(u) : operations[u][i].rid \in Rids
    BY OpTypes DEF Pending
  <1>9. \A u \in Trxs : u # t => \A i \in Pending(u) : operations[u][i].rid # r
    <2> SUFFICES ASSUME NEW u \in Trxs, u # t, NEW i \in Pending(u), operations[u][i].rid = r
                 PROVE  FALSE
      OBVIOUS
    <2>1. OpInv(u, i) /\ operations[u][i].type \in {"INSERT", "DELETE"}
      BY OpTypes DEF OpsInv, Pending
    <2>2. trx_id[u] > 0 /\ trx_id[u] # trx_id[t]
      BY <1>1 DEF ObjInv, IdsInv, Pending, TypeOK
    <2>3. begin_xid[r] # -trx_id[u]
      <3>1. trx_id[u] \in Int /\ trx_id[t] \in Int /\ begin_xid[r] \in Int
        BY DEF TypeOK
      <3> QED
        BY <1>3, <2>2, <3>1
    <2>4. operations[u][i].type = "DELETE"
      BY <2>1, <2>3 DEF OpInv
    <2>5. CASE end_xid[r] = -trx_id[u]
      BY <1>1, <1>3, <2>2, <2>3, <2>5, BoundAssumption DEF RowInv, TypeOK
    <2>6. CASE /\ phase[u] = "commit"
               /\ begin_xid[r] = commit_xid[u]
               /\ end_xid[r] = commit_xid[u]
      BY SMTT(40), <1>3, <2>6 DEF IdsInv, TypeOK
    <2> QED
      BY <2>1, <2>3, <2>4, <2>5, <2>6 DEF OpInv
  <1>10. IdsInv'
    BY <1>1, <1>2, <1>3, <1>4, <1>5, <1>6, <1>7, <1>8, <1>9 DEF IdsInv
  <1>11. ObjInv'
    BY <1>1, <1>2, <1>3, <1>4, <1>5, <1>6, <1>7, <1>8, <1>9, BoundAssumption DEF ObjInv, TypeOK, delete_record, kitVars
  <1>12. RowInv'
    <2> SUFFICES ASSUME NEW q \in Rids, q \in rows
                 PROVE  /\ -current_trx_id <= begin_xid[q] /\ begin_xid[q] <= current_trx_id
                        /\ -current_trx_id <= end_xid'[q]
                        /\ end_xid'[q] = max_trx_id \/ end_xid'[q] <= current_trx_id
                        /\ begin_xid[q] < 0 => end_xid'[q] = max_trx_id \/ end_xid'[q] = begin_xid[q]
                        /\ begin_xid[q] # 0 => end_xid'[q] # 0
      BY <1>1 DEF RowInv
    <2>1. CASE q # r
      BY <1>2, <2>1 DEF RowInv
    <2>2. CASE q = r
      <3>1. trx_id[t] <= current_trx_id
        BY DEF IdsInv, TypeOK
      <3> QED
        BY <1>1, <1>2, <1>3, <2>2, <3>1 DEF RowInv, TypeOK
    <2> QED
      BY <2>1, <2>2
  <1>13. IdsDisjoint'
    BY <1>1, <1>2, <1>3, <1>4, <1>5, <1>6, <1>7, <1>8, <1>9, BoundAssumption DEF IdsDisjoint, TypeOK
  <1>14. InsertFirst'
    BY SMTT(40), <1>1, <1>2, <1>3, <1>4, <1>5, <1>6, <1>7, <1>8, <1>9 DEF InsertFirst
  <1>15. OpsInv'
    <2> SUFFICES ASSUME NEW u \in Trxs, NEW i \in Pending(u)' PROVE OpInv(u, i)'
      BY DEF OpsInv
    <2>1. CASE i \in Pending(u) /\ operations'[u][i] = operations[u][i]
      <3>1. OpInv(u, i) /\ operations[u][i].rid \in Rids
        BY <2>1, <1>8 DEF OpsInv
      <3> QED
        BY <1>1, <1>2, <1>9, <2>1, <3>1 DEF OpInv
    <2>2. CASE /\ u = t /\ operations'[u][i].rid = r
               /\ operations'[u][i].type = "DELETE"
      BY <1>1, <1>2, <1>3, <2>2 DEF OpInv
    <2> QED
      BY <1>7, <2>1, <2>2
  <1>16. DoubleDelete'
    <2> SUFFICES ASSUME NEW u \in Trxs, NEW i \in Pending(u)', NEW j \in Pending(u)'
                 PROVE  TwiceInv(u, i, j)'
      BY DEF DoubleDelete
    <2>1. CASE /\ i \in Pending(u) /\ operations'[u][i] = operations[u][i]
               /\ j \in Pending(u) /\ operations'[u][j] = operations[u][j]
      <3>1. TwiceInv(u, i, j) /\ operations[u][i].rid \in Rids
        BY <2>1, <1>8 DEF DoubleDelete
      <3> QED
        BY <1>1, <2>1, <3>1 DEF TwiceInv
    <2>2. CASE u = t
      <3> SUFFICES ASSUME i # j, operations'[t][i].rid = r, operations'[t][j].rid = r,
                          operations'[t][i].type = "DELETE", operations'[t][j].type = "DELETE",
                          \/ i \in Pending(t) /\ operations'[t][i] = operations[t][i]
                          \/ j \in Pending(t) /\ operations'[t][j] = operations[t][j]
                   PROVE  begin_xid[r] = -trx_id[t]
        BY <1>1, <1>7, <2>1, <2>2 DEF TwiceInv
      <3>1. end_xid[r] = -trx_id[t]
        BY <1>1 DEF OpsInv, OpInv
      <3> QED
        BY <1>1, <1>3, <3>1 DEF TypeOK
    <2> QED
      BY <1>7, <2>1, <2>2
  <1>17. OneWriter'
    <2> SUFFICES ASSUME NEW u \in Trxs, NEW v \in Trxs, u # v,
                        NEW i \in Pending(u)', NEW j \in Pending(v)',
                        operations'[u][i].rid = operations'[v][j].rid
                 PROVE  FALSE
      BY DEF OneWriter
    <2>1. i \in Pending(u) /\ operations'[u][i] = operations[u][i]
      BY <1>7, <1>9
    <2>2. j \in Pending(v) /\ operations'[v][j] = operations[v][j]
      BY <1>7, <1>9
    <2> QED
      BY <2>1, <2>2 DEF OneWriter
  <1>18. NoStrayMark'
    <2> SUFFICES ASSUME NEW u \in Trxs, NEW q \in Rids, q \in rows, trx_id[u] > 0
                 PROVE  /\ begin_xid[q] = -trx_id[u] => PendingOn(u, q, "INSERT")'
                        /\ end_xid'[q] = -trx_id[u] => PendingOn(u, q, "DELETE")'
      BY <1>1 DEF NoStrayMark
    <2>1. begin_xid[q] = -trx_id[u] => PendingOn(u, q, "INSERT")'
      BY <1>6 DEF NoStrayMark, PendingOn
    <2>2. CASE q # r
      BY <1>2, <1>6, <2>1, <2>2 DEF NoStrayMark, PendingOn
    <2>3. CASE q = r
      <3>1. end_xid'[q] = -trx_id[u] => u = t
        BY <1>1, <1>2, <2>3 DEF IdsInv, TypeOK
      <3>2. Len(operations[t]) + 1 \in Pending(t)'
        BY <1>1, <1>5 DEF Pending
      <3> QED
        BY <1>5, <2>1, <2>3, <3>1, <3>2 DEF PendingOn
    <2> QED
      BY <2>2, <2>3
  <1>19. VersionOrder'
    BY <1>1, <1>2, <1>3, <1>4, <1>5, <1>6, <1>7, <1>8, <1>9, BoundAssumption DEF VersionOrder, TypeOK, delete_record, kitVars
  <1>20. Stamped'
    BY <1>1, <1>2, <1>3, <1>4, <1>5, <1>6, <1>7, <1>8, <1>9 DEF Stamped
  <1> QED
    BY <1>10, <1>11, <1>12, <1>13, <1>14, <1>15, <1>16, <1>17, <1>18, <1>19, <1>20

(* The commit replaces the mark of an insert by its id. *)
LEMMA CommitInsertStep ==
  ASSUME IInv, TypeOK', NEW t \in Trxs, CommitOperation(t),
         NEW r, r = operations[t][pos[t]].rid, operations[t][pos[t]].type = "INSERT"
  PROVE  IInv'
  <1> USE DEF IInv
  <1>1. /\ current_trx_id' = current_trx_id /\ trx_id' = trx_id /\ phase' = phase
        /\ commit_xid' = commit_xid /\ started' = started /\ operations' = operations /\ phase[t] = "commit"
    BY DEF CommitOperation, kitVars
  <1>2. pos[t] \in Pending(t) /\ r \in Rids
    BY OpTypes DEF ObjInv, Pending, TypeOK, CommitOperation, kitVars
  <1>3. OpInv(t, pos[t]) /\ trx_id[t] > 0
    BY <1>2 DEF OpsInv, ObjInv, Pending, TypeOK
  <1>4. /\ rows' = rows /\ end_xid' = end_xid /\ begin_xid'[r] = commit_xid[t]
        /\ \A q \in Rids : q # r => begin_xid'[q] = begin_xid[q]
    BY <1>2 DEF TypeOK, CommitOperation, kitVars
  <1>5. \A u \in Trxs : u # t => pos'[u] = pos[u] /\ Pending(u)' = Pending(u)
    BY DEF Pending, TypeOK, CommitOperation, kitVars
  <1>6. \A i \in Pending(t) : i \in Pending(t)' <=> i # pos[t]
    BY DEF Pending, TypeOK, CommitOperation, kitVars
  <1>7. \A u \in Trxs : Pending(u)' \subseteq Pending(u)
    BY <1>5 DEF Pending, TypeOK, CommitOperation, kitVars
  <1>8. \A u \in Trxs : \A i \in Pending(u) : operations[u][i].rid \in Rids
    BY OpTypes DEF Pending
  <1>9. \A u \in Trxs : u # t => \A i \in Pending(u) : operations[u][i].rid # r
    BY <1>2 DEF OneWriter
  <1>10. IdsInv'
    BY <1>1, <1>2, <1>3, <1>4, <1>5, <1>6, <1>7, <1>8, <1>9 DEF IdsInv
  <1>11. ObjInv'
    BY <1>1, <1>2, <1>3, <1>4, <1>5, <1>6, <1>7, <1>8, <1>9, BoundAssumption DEF ObjInv, TypeOK, CommitOperation, kitVars
  <1>12. RowInv'
    <2> SUFFICES ASSUME NEW q \in Rids, q \in rows
                 PROVE  /\ -current_trx_id <= begin_xid'[q] /\ begin_xid'[q] <= current_trx_id
                        /\ -current_trx_id <= end_xid'[q]
                        /\ end_xid'[q] = max_trx_id \/ end_xid'[q] <= current_trx_id
                        /\ begin_xid'[q] < 0 => end_xid'[q] = max_trx_id \/ end_xid'[q] = begin_xid'[q]
                        /\ begin_xid'[q] # 0 => end_xid'[q] # 0
      BY <1>1, <1>4 DEF RowInv
    <2>1. CASE q # r
      BY <1>4, <2>1 DEF RowInv
    <2>2. CASE q = r
      <3>1. begin_xid[r] < 0 /\ begin_xid[r] = -trx_id[t]
        BY <1>3 DEF OpInv, TypeOK
      <3> QED
        BY <1>1, <1>2, <1>3, <1>4, <2>2, <3>1, BoundAssumption DEF OpInv, RowInv, IdsInv, TypeOK
    <2> QED
      BY <2>1, <2>2
  <1>13. IdsDisjoint'
    BY <1>1, <1>2, <1>3, <1>4, <1>5, <1>6, <1>7, <1>8, <1>9, BoundAssumption DEF IdsDisjoint, RowInv, IdsInv, TypeOK
  <1>14. InsertFirst'
    BY <1>1, <1>2, <1>3, <1>4, <1>5, <1>6, <1>7, <1>8, <1>9 DEF InsertFirst
  <1>15. OpsInv'
    <2> SUFFICES ASSUME NEW u \in Trxs, NEW i \in Pending(u)', i \in Pending(u)
                 PROVE  OpInv(u, i)'
      BY <1>7 DEF OpsInv
    <2>1. OpInv(u, i) /\ operations[u][i].rid \in Rids
      BY <1>8 DEF OpsInv
    <2>2. CASE operations[u][i].rid # r
      BY <1>1, <1>4, <2>1, <2>2 DEF OpInv
    <2>3. CASE operations[u][i].rid = r
      <3>1. u = t /\ operations[u][i].type = "DELETE"
        <4>1. u = t /\ i # pos[t]
          BY <1>6, <1>9, <2>3
        <4>2. pos[t] < i /\ i \in 1 .. Len(operations[t]) /\ pos[t] \in 1 .. Len(operations[t])
          BY <1>1, <1>2, <4>1 DEF Pending, TypeOK
        <4> QED
          BY <2>3, <4>1, <4>2 DEF InsertFirst
      <3> QED
        BY <1>1, <1>3, <1>4, <2>1, <2>3, <3>1 DEF OpInv, IdsInv, TypeOK
    <2> QED
      BY <2>2, <2>3
  <1>16. DoubleDelete'
    <2> SUFFICES ASSUME NEW u \in Trxs, NEW i \in Pending(u)', NEW j \in Pending(u)',
                        i \in Pending(u), j \in Pending(u)
                 PROVE  TwiceInv(u, i, j)'
      BY <1>7 DEF DoubleDelete
    <2>1. TwiceInv(u, i, j) /\ operations[u][i].rid \in Rids
      BY <1>8 DEF DoubleDelete
    <2>2. CASE operations[u][i].rid # r
      BY <1>1, <1>4, <2>1, <2>2 DEF TwiceInv
    <2>3. CASE operations[u][i].rid = r
      BY <1>1, <1>4, <1>9, <2>3 DEF TwiceInv
    <2> QED
      BY <2>2, <2>3
  <1>17. OneWriter'
    BY <1>1, <1>7 DEF OneWriter
  <1>18. NoStrayMark'
    <2> SUFFICES ASSUME NEW u \in Trxs, NEW q \in Rids, q \in rows', trx_id[u] > 0
                 PROVE  /\ begin_xid'[q] = -trx_id[u] => PendingOn(u, q, "INSERT")'
                        /\ end_xid'[q] = -trx_id[u] => PendingOn(u, q, "DELETE")'
      BY <1>1 DEF NoStrayMark
    <2>1. ASSUME begin_xid'[q] = -trx_id[u] PROVE PendingOn(u, q, "INSERT")'
      <3>1. q \in rows /\ begin_xid[q] = -trx_id[u] /\ q # r
        BY SMTT(40), <1>1, <1>3, <1>4, <2>1 DEF IdsInv, TypeOK
      <3>2. PICK i \in Pending(u) : operations[u][i].type = "INSERT" /\ operations[u][i].rid = q
        BY <3>1 DEF NoStrayMark, PendingOn
      <3>3. i \in Pending(u)'
        BY <1>5, <1>6, <3>1, <3>2
      <3> QED
        BY <1>1, <3>2, <3>3 DEF PendingOn
    <2>2. ASSUME end_xid'[q] = -trx_id[u] PROVE PendingOn(u, q, "DELETE")'
      <3>1. q \in rows /\ end_xid[q] = -trx_id[u] /\ TRUE
        BY <1>1, <1>3, <1>4, <2>2 DEF IdsInv, TypeOK
      <3>2. PICK i \in Pending(u) : operations[u][i].type = "DELETE" /\ operations[u][i].rid = q
        BY <3>1 DEF NoStrayMark, PendingOn
      <3>3. i \in Pending(u)'
        BY <1>5, <1>6, <3>1, <3>2
      <3> QED
        BY <1>1, <3>2, <3>3 DEF PendingOn
    <2> QED
      BY <2>1, <2>2
  <1>19. VersionOrder'
    <2> SUFFICES ASSUME NEW q \in Rids, q \in rows, begin_xid'[q] > 0, end_xid[q] > 0
                 PROVE  begin_xid'[q] <= end_xid[q]
      BY <1>4 DEF VersionOrder
    <2>1. CASE q # r
      BY <1>4, <2>1 DEF VersionOrder
    <2>2. CASE q = r
      <3>0. begin_xid[r] < 0
        BY <1>3 DEF OpInv, TypeOK
      <3>1. end_xid[r] = max_trx_id
        BY <2>2, <3>0 DEF RowInv, TypeOK
      <3>2. commit_xid[t] \in 1 .. current_trx_id /\ current_trx_id \in 0 .. IdBound
        BY <1>1 DEF IdsInv, TypeOK
      <3>3. commit_xid[t] <= max_trx_id
        BY <3>2, BoundAssumption
      <3> QED
        BY <1>4, <2>2, <3>1, <3>3
    <2> QED
      BY <2>1, <2>2
  <1>20. Stamped'
    <2> SUFFICES ASSUME NEW u \in Trxs, phase[u] = "commit", NEW i \in 1 .. Len(operations[u]),
                        i < pos'[u], operations[u][i].type = "INSERT"
                 PROVE  /\ operations[u][i].rid \in rows
                        /\ begin_xid'[operations[u][i].rid] = commit_xid[u]
      BY <1>1, <1>4 DEF Stamped
    <2>1. operations[u][i].rid \in Rids
      BY OpTypes
    <2>2. CASE i < pos[u]
      <3>1. operations[u][i].rid \in rows /\ begin_xid[operations[u][i].rid] = commit_xid[u]
        BY <2>2 DEF Stamped
      <3>2. operations[u][i].rid # r
        <4>1. begin_xid[r] < 0
          BY SMTT(40), <1>3 DEF OpInv, TypeOK
        <4>2. commit_xid[u] \in 1 .. current_trx_id
          BY DEF IdsInv
        <4>3. begin_xid[r] \in Int /\ current_trx_id \in Int
          BY SMTT(40), <1>2 DEF TypeOK
        <4> QED
          BY <3>1, <4>1, <4>2, <4>3
      <3> QED
        BY <1>4, <2>1, <3>1, <3>2
    <2>3. CASE ~(i < pos[u])
      <3>1. u = t /\ i = pos[t]
        BY <1>5, <2>3 DEF CommitOperation, kitVars, TypeOK
      <3> QED
        BY <1>3, <1>4, <3>1 DEF OpInv
    <2> QED
      BY <2>2, <2>3
  <1> QED
    BY <1>10, <1>11, <1>12, <1>13, <1>14, <1>15, <1>16, <1>17, <1>18, <1>19, <1>20

(* The commit replaces the mark of a delete by its id. *)
LEMMA CommitDeleteStep ==
  ASSUME IInv, TypeOK', NEW t \in Trxs, CommitOperation(t),
         NEW r, r = operations[t][pos[t]].rid, operations[t][pos[t]].type = "DELETE"
  PROVE  IInv'
  <1> USE DEF IInv
  <1>1. /\ current_trx_id' = current_trx_id /\ trx_id' = trx_id /\ phase' = phase
        /\ commit_xid' = commit_xid /\ started' = started /\ operations' = operations /\ phase[t] = "commit"
    BY DEF CommitOperation, kitVars
  <1>2. pos[t] \in Pending(t) /\ r \in Rids
    BY OpTypes DEF ObjInv, Pending, TypeOK, CommitOperation, kitVars
  <1>3. OpInv(t, pos[t]) /\ trx_id[t] > 0
    BY <1>2 DEF OpsInv, ObjInv, Pending, TypeOK
  <1>4. /\ rows' = rows /\ begin_xid' = begin_xid /\ end_xid'[r] = commit_xid[t]
        /\ \A q \in Rids : q # r => end_xid'[q] = end_xid[q]
        /\ begin_xid[r] >= 0
    <2>1. begin_xid[r] >= 0
      <3> SUFFICES ASSUME begin_xid[r] < 0 PROVE FALSE
        BY SMTT(40), <1>2 DEF TypeOK
      <3>1. begin_xid[r] = -trx_id[t]
        BY <1>1, <1>2, <1>3, BoundAssumption DEF OpInv, RowInv, IdsInv, TypeOK
      <3>2. PICK i \in Pending(t) : operations[t][i].type = "INSERT" /\ operations[t][i].rid = r
        BY <1>2, <1>3, <3>1 DEF NoStrayMark, PendingOn, OpInv
      <3>3. pos[t] < i /\ i \in 1 .. Len(operations[t]) /\ pos[t] \in 1 .. Len(operations[t])
        BY <1>1, <1>2, <3>2 DEF Pending, TypeOK
      <3> QED
        BY <3>2, <3>3 DEF InsertFirst
    <2> QED
      BY <1>2, <2>1 DEF TypeOK, CommitOperation, kitVars
  <1>5. \A u \in Trxs : u # t => pos'[u] = pos[u] /\ Pending(u)' = Pending(u)
    BY DEF Pending, TypeOK, CommitOperation, kitVars
  <1>6. \A i \in Pending(t) : i \in Pending(t)' <=> i # pos[t]
    BY DEF Pending, TypeOK, CommitOperation, kitVars
  <1>7. \A u \in Trxs : Pending(u)' \subseteq Pending(u)
    BY <1>5 DEF Pending, TypeOK, CommitOperation, kitVars
  <1>8. \A u \in Trxs : \A i \in Pending(u) : operations[u][i].rid \in Rids
    BY OpTypes DEF Pending
  <1>9. \A u \in Trxs : u # t => \A i \in Pending(u) : operations[u][i].rid # r
    BY <1>2 DEF OneWriter
  <1>10. IdsInv'
    BY <1>1, <1>2, <1>3, <1>4, <1>5, <1>6, <1>7, <1>8, <1>9 DEF IdsInv
  <1>11. ObjInv'
    BY <1>1, <1>2, <1>3, <1>4, <1>5, <1>6, <1>7, <1>8, <1>9, BoundAssumption DEF ObjInv, TypeOK, CommitOperation, kitVars
  <1>12. RowInv'
    <2> SUFFICES ASSUME NEW q \in Rids, q \in rows
                 PROVE  /\ -current_trx_id <= begin_xid'[q] /\ begin_xid'[q] <= current_trx_id
                        /\ -current_trx_id <= end_xid'[q]
                        /\ end_xid'[q] = max_trx_id \/ end_xid'[q] <= current_trx_id
                        /\ begin_xid'[q] < 0 => end_xid'[q] = max_trx_id \/ end_xid'[q] = begin_xid'[q]
                        /\ begin_xid'[q] # 0 => end_xid'[q] # 0
      BY <1>1, <1>4 DEF RowInv
    <2>1. CASE q # r
      BY <1>4, <2>1 DEF RowInv
    <2>2. CASE q = r
      BY <1>1, <1>2, <1>3, <1>4, <2>2, BoundAssumption DEF OpInv, RowInv, IdsInv, TypeOK
    <2> QED
      BY <2>1, <2>2
  <1>13. IdsDisjoint'
    <2> SUFFICES ASSUME NEW u \in Trxs, NEW q \in Rids, q \in rows, trx_id[u] > 0
                 PROVE  begin_xid[q] # trx_id[u] /\ end_xid'[q] # trx_id[u]
      BY <1>1, <1>4 DEF IdsDisjoint
    <2>1. CASE q # r
      BY <1>4, <2>1 DEF IdsDisjoint
    <2>2. CASE q = r
      BY <1>1, <1>4, <2>2 DEF IdsDisjoint, IdsInv
    <2> QED
      BY <2>1, <2>2
  <1>14. InsertFirst'
    BY <1>1, <1>2, <1>3, <1>4, <1>5, <1>6, <1>7, <1>8, <1>9 DEF InsertFirst
  <1>15. OpsInv'
    <2> SUFFICES ASSUME NEW u \in Trxs, NEW i \in Pending(u)', i \in Pending(u)
                 PROVE  OpInv(u, i)'
      BY <1>7 DEF OpsInv
    <2>1. OpInv(u, i) /\ operations[u][i].rid \in Rids
      BY <1>8 DEF OpsInv
    <2>2. CASE operations[u][i].rid # r
      BY <1>1, <1>4, <2>1, <2>2 DEF OpInv
    <2>3. CASE operations[u][i].rid = r
      <3>1. u = t /\ i # pos[t]
        BY <1>6, <1>9, <2>3
      <3>2. operations[t][i].type = "DELETE"
        <4>1. pos[t] < i /\ i \in 1 .. Len(operations[t]) /\ pos[t] \in 1 .. Len(operations[t])
          BY <1>1, <1>2, <3>1 DEF Pending, TypeOK
        <4> QED
          BY <2>3, <3>1, <4>1 DEF InsertFirst
      <3>3. begin_xid[r] = commit_xid[t]
        BY <1>2, <1>3, <1>4, <2>3, <3>1, <3>2 DEF DoubleDelete, TwiceInv, TypeOK
      <3> QED
        BY <1>1, <1>4, <2>1, <2>3, <3>1, <3>2, <3>3 DEF OpInv
    <2> QED
      BY <2>2, <2>3
  <1>16. DoubleDelete'
    <2> SUFFICES ASSUME NEW u \in Trxs, NEW i \in Pending(u)', NEW j \in Pending(u)',
                        i \in Pending(u), j \in Pending(u)
                 PROVE  TwiceInv(u, i, j)'
      BY <1>7 DEF DoubleDelete
    <2>1. TwiceInv(u, i, j) /\ operations[u][i].rid \in Rids
      BY <1>8 DEF DoubleDelete
    <2>2. CASE operations[u][i].rid # r
      BY <1>1, <1>4, <2>1, <2>2 DEF TwiceInv
    <2>3. CASE operations[u][i].rid = r
      BY <1>1, <1>4, <2>1 DEF TwiceInv
    <2> QED
      BY <2>2, <2>3
  <1>17. OneWriter'
    BY <1>1, <1>7 DEF OneWriter
  <1>18. NoStrayMark'
    <2> SUFFICES ASSUME NEW u \in Trxs, NEW q \in Rids, q \in rows', trx_id[u] > 0
                 PROVE  /\ begin_xid'[q] = -trx_id[u] => PendingOn(u, q, "INSERT")'
                        /\ end_xid'[q] = -trx_id[u] => PendingOn(u, q, "DELETE")'
      BY <1>1 DEF NoStrayMark
    <2>1. ASSUME begin_xid'[q] = -trx_id[u] PROVE PendingOn(u, q, "INSERT")'
      <3>1. q \in rows /\ begin_xid[q] = -trx_id[u] /\ q # r
        BY <1>1, <1>3, <1>4, <2>1 DEF IdsInv, TypeOK
      <3>2. PICK i \in Pending(u) : operations[u][i].type = "INSERT" /\ operations[u][i].rid = q
        BY <3>1 DEF NoStrayMark, PendingOn
      <3>3. i \in Pending(u)'
        BY <1>5, <1>6, <3>1, <3>2
      <3> QED
        BY <1>1, <3>2, <3>3 DEF PendingOn
    <2>2. ASSUME end_xid'[q] = -trx_id[u] PROVE PendingOn(u, q, "DELETE")'
      <3>1. q \in rows /\ end_xid[q] = -trx_id[u] /\ q # r
        BY SMTT(40), <1>1, <1>3, <1>4, <2>2 DEF IdsInv, TypeOK
      <3>2. PICK i \in Pending(u) : operations[u][i].type = "DELETE" /\ operations[u][i].rid = q
        BY <3>1 DEF NoStrayMark, PendingOn
      <3>3. i \in Pending(u)'
        BY <1>5, <1>6, <3>1, <3>2
      <3> QED
        BY <1>1, <3>2, <3>3 DEF PendingOn
    <2> QED
      BY <2>1, <2>2
  <1>19. VersionOrder'
    <2> SUFFICES ASSUME NEW q \in Rids, q \in rows, begin_xid[q] > 0, end_xid'[q] > 0
                 PROVE  begin_xid[q] <= end_xid'[q]
      BY <1>4 DEF VersionOrder
    <2>1. CASE q # r
      BY <1>4, <2>1 DEF VersionOrder
    <2>2. CASE q = r
      BY <1>1, <1>3, <1>4, <2>2 DEF OpInv, IdsInv, TypeOK
    <2> QED
      BY <2>1, <2>2
  <1>20. Stamped'
    <2> SUFFICES ASSUME NEW u \in Trxs, phase[u] = "commit", NEW i \in 1 .. Len(operations[u]),
                        i < pos'[u], operations[u][i].type = "INSERT"
                 PROVE  /\ operations[u][i].rid \in rows
                        /\ begin_xid[operations[u][i].rid] = commit_xid[u]
      BY <1>1, <1>4 DEF Stamped
    <2>1. i < pos[u]
      BY <1>1, <1>5 DEF CommitOperation, kitVars, TypeOK
    <2> QED
      BY <2>1 DEF Stamped
  <1> QED
    BY <1>10, <1>11, <1>12, <1>13, <1>14, <1>15, <1>16, <1>17, <1>18, <1>19, <1>20

(* The rollback of an insert frees the slot, and no other operation is on it. *)
LEMMA RollbackInsertStep ==
  ASSUME IInv, TypeOK', NEW t \in Trxs, RollbackOperation(t),
         NEW r, r = operations[t][pos[t]].rid, operations[t][pos[t]].type = "INSERT"
  PROVE  IInv'
  <1> USE DEF IInv
  <1>1. /\ current_trx_id' = current_trx_id /\ trx_id' = trx_id /\ phase' = phase
        /\ commit_xid' = commit_xid /\ started' = started /\ operations' = operations /\ phase[t] = "rollback"
    BY DEF RollbackOperation, kitVars
  <1>2. pos[t] \in Pending(t) /\ r \in Rids
    BY OpTypes DEF ObjInv, Pending, TypeOK, RollbackOperation, kitVars
  <1>3. OpInv(t, pos[t]) /\ trx_id[t] > 0
    BY <1>2 DEF OpsInv, ObjInv, Pending, TypeOK
  <1>4. /\ rows' = rows \ {r} /\ begin_xid' = begin_xid /\ end_xid' = end_xid
    BY <1>2 DEF TypeOK, RollbackOperation, kitVars
  <1>5. \A u \in Trxs : u # t => pos'[u] = pos[u] /\ Pending(u)' = Pending(u)
    BY DEF Pending, TypeOK, RollbackOperation, kitVars
  <1>6. \A i \in Pending(t) : i \in Pending(t)' <=> i # pos[t]
    BY DEF Pending, TypeOK, RollbackOperation, kitVars
  <1>7. \A u \in Trxs : Pending(u)' \subseteq Pending(u)
    BY <1>5 DEF Pending, TypeOK, RollbackOperation, kitVars
  <1>8. \A u \in Trxs : \A i \in Pending(u) : operations[u][i].rid \in Rids
    BY OpTypes DEF Pending
  <1>9. \A u \in Trxs : u # t => \A i \in Pending(u) : operations[u][i].rid # r
    BY <1>2 DEF OneWriter
  <1>10. IdsInv'
    BY <1>1, <1>2, <1>3, <1>4, <1>5, <1>6, <1>7, <1>8, <1>9 DEF IdsInv
  <1>11. ObjInv'
    BY <1>1, <1>2, <1>3, <1>4, <1>5, <1>6, <1>7, <1>8, <1>9, BoundAssumption DEF ObjInv, TypeOK, RollbackOperation, kitVars
  <1>12. RowInv'
    BY <1>1, <1>2, <1>3, <1>4, <1>5, <1>6, <1>7, <1>8, <1>9 DEF RowInv
  <1>13. IdsDisjoint'
    BY <1>1, <1>2, <1>3, <1>4, <1>5, <1>6, <1>7, <1>8, <1>9 DEF IdsDisjoint
  <1>14. InsertFirst'
    BY <1>1, <1>2, <1>3, <1>4, <1>5, <1>6, <1>7, <1>8, <1>9 DEF InsertFirst
  <1>15. OpsInv'
    <2> SUFFICES ASSUME NEW u \in Trxs, NEW i \in Pending(u)', i \in Pending(u)
                 PROVE  OpInv(u, i)'
      BY <1>7 DEF OpsInv
    <2>1. OpInv(u, i) /\ operations[u][i].rid \in Rids
      BY <1>8 DEF OpsInv
    <2>2. CASE operations[u][i].rid # r
      BY <1>1, <1>4, <2>1, <2>2 DEF OpInv
    <2>3. CASE operations[u][i].rid = r
      <3>1. u = t /\ i # pos[t]
        BY <1>6, <1>9, <2>3
      <3>2. i < pos[t] /\ i \in 1 .. Len(operations[t]) /\ pos[t] \in 1 .. Len(operations[t])
        BY <1>1, <1>2, <3>1 DEF Pending, TypeOK
      <3> QED
        BY <2>3, <3>1, <3>2 DEF InsertFirst
    <2> QED
      BY <2>2, <2>3
  <1>16. DoubleDelete'
    <2> SUFFICES ASSUME NEW u \in Trxs, NEW i \in Pending(u)', NEW j \in Pending(u)',
                        i \in Pending(u), j \in Pending(u)
                 PROVE  TwiceInv(u, i, j)'
      BY <1>7 DEF DoubleDelete
    <2>1. TwiceInv(u, i, j) /\ operations[u][i].rid \in Rids
      BY <1>8 DEF DoubleDelete
    <2>2. CASE operations[u][i].rid # r
      BY <1>1, <1>4, <2>1, <2>2 DEF TwiceInv
    <2>3. CASE operations[u][i].rid = r
      BY <1>1, <1>4, <2>1 DEF TwiceInv
    <2> QED
      BY <2>2, <2>3
  <1>17. OneWriter'
    BY <1>1, <1>7 DEF OneWriter
  <1>18. NoStrayMark'
    <2> SUFFICES ASSUME NEW u \in Trxs, NEW q \in Rids, q \in rows', trx_id[u] > 0
                 PROVE  /\ begin_xid'[q] = -trx_id[u] => PendingOn(u, q, "INSERT")'
                        /\ end_xid'[q] = -trx_id[u] => PendingOn(u, q, "DELETE")'
      BY <1>1 DEF NoStrayMark
    <2>1. ASSUME begin_xid'[q] = -trx_id[u] PROVE PendingOn(u, q, "INSERT")'
      <3>1. q \in rows /\ begin_xid[q] = -trx_id[u] /\ q # r
        BY <1>1, <1>3, <1>4, <2>1 DEF IdsInv, TypeOK
      <3>2. PICK i \in Pending(u) : operations[u][i].type = "INSERT" /\ operations[u][i].rid = q
        BY <3>1 DEF NoStrayMark, PendingOn
      <3>3. i \in Pending(u)'
        BY <1>5, <1>6, <3>1, <3>2
      <3> QED
        BY <1>1, <3>2, <3>3 DEF PendingOn
    <2>2. ASSUME end_xid'[q] = -trx_id[u] PROVE PendingOn(u, q, "DELETE")'
      <3>1. q \in rows /\ end_xid[q] = -trx_id[u] /\ q # r
        BY <1>1, <1>3, <1>4, <2>2 DEF IdsInv, TypeOK
      <3>2. PICK i \in Pending(u) : operations[u][i].type = "DELETE" /\ operations[u][i].rid = q
        BY <3>1 DEF NoStrayMark, PendingOn
      <3>3. i \in Pending(u)'
        BY <1>5, <1>6, <3>1, <3>2
      <3> QED
        BY <1>1, <3>2, <3>3 DEF PendingOn
    <2> QED
      BY <2>1, <2>2
  <1>19. VersionOrder'
    BY <1>1, <1>2, <1>3, <1>4, <1>5, <1>6, <1>7, <1>8, <1>9 DEF VersionOrder
  <1>20. Stamped'
    <2> SUFFICES ASSUME NEW u \in Trxs, phase[u] = "commit", NEW i \in 1 .. Len(operations[u]),
                        i < pos'[u], operations[u][i].type = "INSERT"
                 PROVE  /\ operations[u][i].rid \in rows'
                        /\ begin_xid[operations[u][i].rid] = commit_xid[u]
      BY <1>1, <1>4 DEF Stamped
    <2>1. operations[u][i].rid \in rows /\ begin_xid[operations[u][i].rid] = commit_xid[u]
      BY <1>1, <1>5 DEF Stamped
    <2>2. operations[u][i].rid # r
      <3>1. begin_xid[r] < 0
        BY SMTT(40), <1>3 DEF OpInv, TypeOK
      <3>2. commit_xid[u] \in 1 .. current_trx_id
        BY DEF IdsInv
      <3>3. begin_xid[r] \in Int /\ current_trx_id \in Int
        BY SMTT(40), <1>2 DEF TypeOK
      <3> QED
        BY <2>1, <3>1, <3>2, <3>3
    <2> QED
      BY <1>4, <2>1, <2>2
  <1> QED
    BY <1>10, <1>11, <1>12, <1>13, <1>14, <1>15, <1>16, <1>17, <1>18, <1>19, <1>20

(* The rollback of a delete takes the mark off the row. *)
LEMMA RollbackDeleteStep ==
  ASSUME IInv, TypeOK', NEW t \in Trxs, RollbackOperation(t),
         NEW r, r = operations[t][pos[t]].rid, operations[t][pos[t]].type = "DELETE"
  PROVE  IInv'
  <1> USE DEF IInv
  <1>1. /\ current_trx_id' = current_trx_id /\ trx_id' = trx_id /\ phase' = phase
        /\ commit_xid' = commit_xid /\ started' = started /\ operations' = operations /\ phase[t] = "rollback"
    BY DEF RollbackOperation, kitVars
  <1>2. pos[t] \in Pending(t) /\ r \in Rids
    BY OpTypes DEF ObjInv, Pending, TypeOK, RollbackOperation, kitVars
  <1>3. OpInv(t, pos[t]) /\ trx_id[t] > 0
    BY <1>2 DEF OpsInv, ObjInv, Pending, TypeOK
  <1>4. /\ rows' = rows /\ begin_xid' = begin_xid /\ end_xid'[r] = max_trx_id
        /\ \A q \in Rids : q # r => end_xid'[q] = end_xid[q]
    BY <1>2 DEF TypeOK, RollbackOperation, kitVars
  <1>5. \A u \in Trxs : u # t => pos'[u] = pos[u] /\ Pending(u)' = Pending(u)
    BY DEF Pending, TypeOK, RollbackOperation, kitVars
  <1>6. \A i \in Pending(t) : i \in Pending(t)' <=> i # pos[t]
    BY DEF Pending, TypeOK, RollbackOperation, kitVars
  <1>7. \A u \in Trxs : Pending(u)' \subseteq Pending(u)
    BY <1>5 DEF Pending, TypeOK, RollbackOperation, kitVars
  <1>8. \A u \in Trxs : \A i \in Pending(u) : operations[u][i].rid \in Rids
    BY OpTypes DEF Pending
  <1>9. \A u \in Trxs : u # t => \A i \in Pending(u) : operations[u][i].rid # r
    BY <1>2 DEF OneWriter
  <1>10. IdsInv'
    BY <1>1, <1>2, <1>3, <1>4, <1>5, <1>6, <1>7, <1>8, <1>9 DEF IdsInv
  <1>11. ObjInv'
    BY <1>1, <1>2, <1>3, <1>4, <1>5, <1>6, <1>7, <1>8, <1>9, BoundAssumption DEF ObjInv, TypeOK, RollbackOperation, kitVars
  <1>12. RowInv'
    <2> SUFFICES ASSUME NEW q \in Rids, q \in rows
                 PROVE  /\ -current_trx_id <= begin_xid'[q] /\ begin_xid'[q] <= current_trx_id
                        /\ -current_trx_id <= end_xid'[q]
                        /\ end_xid'[q] = max_trx_id \/ end_xid'[q] <= current_trx_id
                        /\ begin_xid'[q] < 0 => end_xid'[q] = max_trx_id \/ end_xid'[q] = begin_xid'[q]
                        /\ begin_xid'[q] # 0 => end_xid'[q] # 0
      BY <1>1, <1>4 DEF RowInv
    <2>1. CASE q # r
      BY <1>4, <2>1 DEF RowInv
    <2>2. CASE q = r
      BY <1>1, <1>2, <1>3, <1>4, <2>2, BoundAssumption DEF OpInv, RowInv, IdsInv, TypeOK
    <2> QED
      BY <2>1, <2>2
  <1>13. IdsDisjoint'
    <2> SUFFICES ASSUME NEW u \in Trxs, NEW q \in Rids, q \in rows, trx_id[u] > 0
                 PROVE  begin_xid[q] # trx_id[u] /\ end_xid'[q] # trx_id[u]
      BY <1>1, <1>4 DEF IdsDisjoint
    <2>1. CASE q # r
      BY <1>4, <2>1 DEF IdsDisjoint
    <2>2. CASE q = r
      <3>1. trx_id[u] \in 1 .. current_trx_id
        BY DEF IdsInv
      <3> QED
        BY SMTT(40), <1>4, <2>2, <3>1, BoundAssumption DEF IdsDisjoint, TypeOK
    <2> QED
      BY <2>1, <2>2
  <1>14. InsertFirst'
    BY <1>1, <1>2, <1>3, <1>4, <1>5, <1>6, <1>7, <1>8, <1>9 DEF InsertFirst
  <1>15. OpsInv'
    <2> SUFFICES ASSUME NEW u \in Trxs, NEW i \in Pending(u)', i \in Pending(u)
                 PROVE  OpInv(u, i)'
      BY <1>7 DEF OpsInv
    <2>1. OpInv(u, i) /\ operations[u][i].rid \in Rids
      BY <1>8 DEF OpsInv
    <2>2. CASE operations[u][i].rid # r
      BY <1>1, <1>4, <2>1, <2>2 DEF OpInv
    <2>3. CASE operations[u][i].rid = r
      <3>1. u = t /\ i # pos[t]
        BY <1>6, <1>9, <2>3
      <3>2. operations[t][i].type = "DELETE" => begin_xid[r] = -trx_id[t]
        BY <1>1, <1>2, <2>3, <3>1 DEF DoubleDelete, TwiceInv
      <3> QED
        BY <1>1, <1>3, <1>4, <2>1, <2>3, <3>1, <3>2 DEF OpInv, TypeOK
    <2> QED
      BY <2>2, <2>3
  <1>16. DoubleDelete'
    <2> SUFFICES ASSUME NEW u \in Trxs, NEW i \in Pending(u)', NEW j \in Pending(u)',
                        i \in Pending(u), j \in Pending(u)
                 PROVE  TwiceInv(u, i, j)'
      BY <1>7 DEF DoubleDelete
    <2>1. TwiceInv(u, i, j) /\ operations[u][i].rid \in Rids
      BY <1>8 DEF DoubleDelete
    <2>2. CASE operations[u][i].rid # r
      BY <1>1, <1>4, <2>1, <2>2 DEF TwiceInv
    <2>3. CASE operations[u][i].rid = r
      BY <1>1, <1>4, <2>1 DEF TwiceInv
    <2> QED
      BY <2>2, <2>3
  <1>17. OneWriter'
    BY <1>1, <1>7 DEF OneWriter
  <1>18. NoStrayMark'
    <2> SUFFICES ASSUME NEW u \in Trxs, NEW q \in Rids, q \in rows', trx_id[u] > 0
                 PROVE  /\ begin_xid'[q] = -trx_id[u] => PendingOn(u, q, "INSERT")'
                        /\ end_xid'[q] = -trx_id[u] => PendingOn(u, q, "DELETE")'
      BY <1>1 DEF NoStrayMark
    <2>1. ASSUME begin_xid'[q] = -trx_id[u] PROVE PendingOn(u, q, "INSERT")'
      <3>1. q \in rows /\ begin_xid[q] = -trx_id[u] /\ operations[t][pos[t]].type # "INSERT"
        BY <1>1, <1>3, <1>4, <2>1 DEF IdsInv, TypeOK
      <3>2. PICK i \in Pending(u) : operations[u][i].type = "INSERT" /\ operations[u][i].rid = q
        BY <3>1 DEF NoStrayMark, PendingOn
      <3>3. i \in Pending(u)'
        BY <1>5, <1>6, <3>1, <3>2
      <3> QED
        BY <1>1, <3>2, <3>3 DEF PendingOn
    <2>2. ASSUME end_xid'[q] = -trx_id[u] PROVE PendingOn(u, q, "DELETE")'
      <3>0. trx_id[u] \in Int /\ trx_id[u] > 0 /\ -trx_id[u] # max_trx_id
        BY SMTT(40), BoundAssumption DEF TypeOK
      <3>1. q \in rows /\ end_xid[q] = -trx_id[u] /\ q # r
        BY <1>1, <1>3, <1>4, <2>2, <3>0
      <3>2. PICK i \in Pending(u) : operations[u][i].type = "DELETE" /\ operations[u][i].rid = q
        BY <3>1 DEF NoStrayMark, PendingOn
      <3>3. i \in Pending(u)'
        BY <1>5, <1>6, <3>1, <3>2
      <3> QED
        BY <1>1, <3>2, <3>3 DEF PendingOn
    <2> QED
      BY <2>1, <2>2
  <1>19. VersionOrder'
    <2> SUFFICES ASSUME NEW q \in Rids, q \in rows, begin_xid[q] > 0, end_xid'[q] > 0
                 PROVE  begin_xid[q] <= end_xid'[q]
      BY <1>4 DEF VersionOrder
    <2>1. CASE q # r
      BY <1>4, <2>1 DEF VersionOrder
    <2>2. CASE q = r
      BY SMTT(40), <1>4, <2>2, BoundAssumption DEF RowInv, TypeOK
    <2> QED
      BY <2>1, <2>2
  <1>20. Stamped'
    BY <1>1, <1>2, <1>3, <1>4, <1>5, <1>6, <1>7, <1>8, <1>9 DEF Stamped
  <1> QED
    BY <1>10, <1>11, <1>12, <1>13, <1>14, <1>15, <1>16, <1>17, <1>18, <1>19, <1>20

-----------------------------------------------------------------------------

LEMMA InvNext == IInv /\ [Next]_vars => IInv'
  <1> SUFFICES ASSUME IInv, [Next]_vars PROVE IInv'
    OBVIOUS
  <1>0. TypeOK'
    BY TypeNext DEF IInv
  <1>1. ASSUME NEW t \in Trxs, start_if_need(t) PROVE IInv'
    BY <1>0, <1>1, StartStep
  <1>2. ASSUME NEW t \in Trxs, NEW r \in Rids, insert_record(t, r) PROVE IInv'
    BY <1>0, <1>2, InsertStep
  <1>3. ASSUME NEW t \in Trxs, NEW r \in Rids, delete_record(t, r) PROVE IInv'
    BY <1>0, <1>3, DeleteStep
  <1>4. ASSUME NEW t \in Trxs, commit(t) PROVE IInv'
    BY <1>0, <1>4, CommitStep
  <1>5. ASSUME NEW t \in Trxs, CommitOperation(t) PROVE IInv'
    <2>1. operations[t][pos[t]].type \in {"INSERT", "DELETE"}
      BY <1>5 DEF CommitOperation
    <2> QED
      BY <1>0, <1>5, <2>1, CommitInsertStep, CommitDeleteStep
  <1>6. ASSUME NEW t \in Trxs, CommitDone(t) PROVE IInv'
    BY <1>0, <1>6, CommitDoneStep
  <1>7. ASSUME NEW t \in Trxs, rollback(t) PROVE IInv'
    BY <1>0, <1>7, RollbackStep
  <1>8. ASSUME NEW t \in Trxs, RollbackOperation(t) PROVE IInv'
    <2>1. operations[t][pos[t]].type \in {"INSERT", "DELETE"}
      BY <1>8 DEF RollbackOperation
    <2> QED
      BY <1>0, <1>8, <2>1, RollbackInsertStep, RollbackDeleteStep
  <1>9. ASSUME NEW t \in Trxs, RollbackDone(t) PROVE IInv'
    BY <1>0, <1>9, RollbackDoneStep
  <1>10. ASSUME NEW t \in Trxs, destroy_trx(t) PROVE IInv'
    BY <1>0, <1>10, DestroyStep
  <1>11. ASSUME NEW r \in Rids, load_data(r) PROVE IInv'
    BY <1>0, <1>11, LoadStep
  <1>12. CASE UNCHANGED vars
    BY <1>0, <1>12, StutterStep
  <1> QED
    BY <1>1, <1>2, <1>3, <1>4, <1>5, <1>6, <1>7, <1>8, <1>9, <1>10, <1>11, <1>12
       DEF Next, TrxStep

(* Every reachable state of MvccTrx satisfies the inductive invariant. *)
THEOREM Invariance == Spec => []IInv
  BY InitInv, InvNext, PTL DEF Spec

(* Type correctness of the model of MvccTrx and MvccTrxKit. *)
THEOREM TypeCorrect == Spec => []TypeOK
  BY TypeInit, TypeNext, PTL DEF Spec

(* The ASSERTs of commit and rollback on inserted rows never fail, and    *)
(* every walked row is in its slot (mvcc_trx.cpp:297, 306, 328, 380, 407). *)
THEOREM OwnRows == Spec => []OperationsOwnRows
  <1>1. IInv => OperationsOwnRows
    BY DEF IInv, OpsInv, OpInv, OperationsOwnRows
  <1> QED
    BY <1>1, Invariance, PTL

(* visit_record in READ_WRITE mode excludes two unfinished writers of a    *)
(* row (mvcc_trx.cpp:228-240).                                             *)
THEOREM NoDirtyWrite == Spec => []OneWriter
  BY Invariance, PTL DEF IInv

(* Commit and rollback leave no mark behind (mvcc_trx.cpp:286-336,         *)
(* 353-415).                                                               *)
THEOREM MarksOwned == Spec => []NoStrayMark
  BY Invariance, PTL DEF IInv

(* operations_ and the marks on the rows agree at every point of commit    *)
(* and rollback (mvcc_trx.cpp:286-336, 353-415).                           *)
THEOREM MarksSound == Spec => []MarksMatchOperations
  BY TypeCorrect, OwnRows, NoDirtyWrite, MarksOwned, PTL DEF MarksMatchOperations

(* Intervals are never reversed, and ids of running transactions are never *)
(* commit ids: the two facts the interval test of visit_record rests on    *)
(* (mvcc_trx.cpp:199-206).                                                 *)
THEOREM IntervalsSound == Spec => []VersionsOrdered
  <1>1. IInv => VersionsOrdered
    BY DEF IInv, VersionsOrdered
  <1> QED
    BY <1>1, Invariance, PTL

(* No transaction reads what another has not begun to commit               *)
(* (mvcc_trx.cpp:207-215).                                                 *)
THEOREM CleanReads == Spec => []NoDirtyRead
  <1>1. IInv => NoDirtyRead
    <2> SUFFICES ASSUME IInv, NEW t \in Trxs, NEW u \in Trxs, NEW r \in Rids,
                        t # u, PendingOn(u, r, "INSERT")
                 PROVE  ~Visible(t, r)
      BY DEF NoDirtyRead
    <2>1. PICK i \in Pending(u) : operations[u][i].type = "INSERT" /\ operations[u][i].rid = r
      BY DEF PendingOn
    <2>2. begin_xid[r] = -trx_id[u]
      BY <2>1 DEF IInv, OpsInv, OpInv
    <2>3. trx_id[u] > 0 /\ trx_id[u] # trx_id[t]
      BY <2>1 DEF IInv, ObjInv, IdsInv, Pending, TypeOK
    <2>4. trx_id[u] \in Int /\ trx_id[t] \in Int
      BY DEF IInv, TypeOK
    <2> QED
      BY <2>2, <2>3, <2>4 DEF Visible, visit_record, VisitResult
  <1> QED
    BY <1>1, Invariance, PTL

(* A transaction older than a commit id sees none of the rows that commit  *)
(* stamps, at any point of its walk (mvcc_trx.cpp:280-336).                *)
THEOREM OlderSnapshots == Spec => []CommitInvisibleToOlder
  <1>1. IInv => CommitInvisibleToOlder
    <2> SUFFICES ASSUME IInv, NEW t \in Trxs, NEW u \in Trxs, phase[u] = "commit", t # u,
                        trx_id[t] < commit_xid[u],
                        NEW i \in 1 .. Len(operations[u]), operations[u][i].type = "INSERT",
                        NEW r \in Rids, r = operations[u][i].rid, r \in rows, end_xid[r] >= 0
                 PROVE  visit_record(t, r, "READ_ONLY") # "SUCCESS"
      BY OpTypes DEF IInv, CommitInvisibleToOlder, Visible
    <2>1. /\ trx_id[u] \in Int /\ trx_id[t] \in Int /\ commit_xid[u] \in Int /\ pos[u] \in Int
          /\ begin_xid[r] \in Int /\ end_xid[r] \in Int /\ current_trx_id \in Int
      BY DEF IInv, TypeOK
    <2>2. CASE i < pos[u]
      <3>1. begin_xid[r] = commit_xid[u]
        BY <2>2 DEF IInv, Stamped
      <3>2. commit_xid[u] \in 1 .. current_trx_id
        BY DEF IInv, IdsInv
      <3>3. end_xid[r] > 0
        BY <2>1, <3>1, <3>2 DEF IInv, RowInv
      <3> QED
        BY <2>1, <3>1, <3>2, <3>3 DEF visit_record, VisitResult
    <2>3. CASE i >= pos[u]
      <3>1. i \in Pending(u)
        BY <2>3 DEF Pending
      <3>2. begin_xid[r] = -trx_id[u]
        BY <3>1 DEF IInv, OpsInv, OpInv
      <3>3. trx_id[u] > 0 /\ trx_id[u] # trx_id[t]
        BY DEF IInv, ObjInv, IdsInv, TypeOK
      <3> QED
        BY <2>1, <3>2, <3>3 DEF visit_record, VisitResult
    <2> QED
      BY <2>1, <2>2, <2>3
  <1> QED
    BY <1>1, Invariance, PTL

(* What visit_record lets a transaction read is its snapshot               *)
(* (mvcc_trx.cpp:190-226).                                                 *)
THEOREM SnapshotsSound == Spec => []SnapshotReads
  BY CleanReads, OlderSnapshots, PTL DEF SnapshotReads

(* A row once committed stays in its slot with its begin_xid: rollback     *)
(* frees slots of uncommitted rows only (mvcc_trx.cpp:379).                *)
THEOREM CommittedStay == Spec => CommittedInsertPermanent
  <1>1. IInv /\ [Next]_vars =>
          [\A r \in Rids : r \in rows /\ begin_xid[r] >= 0
               => r \in rows' /\ begin_xid'[r] = begin_xid[r]]_vars
    <2> SUFFICES ASSUME IInv, Next, NEW q \in Rids, q \in rows, begin_xid[q] >= 0
                 PROVE  q \in rows' /\ begin_xid'[q] = begin_xid[q]
      OBVIOUS
    <2> USE DEF IInv
    <2>1. ASSUME NEW t \in Trxs, NEW r \in Rids, insert_record(t, r) \/ load_data(r)
          PROVE  q \in rows' /\ begin_xid'[q] = begin_xid[q]
      BY <2>1 DEF insert_record, load_data, TypeOK
    <2>2. ASSUME NEW t \in Trxs, CommitOperation(t) \/ RollbackOperation(t)
          PROVE  q \in rows' /\ begin_xid'[q] = begin_xid[q]
      <3>1. pos[t] \in Pending(t)
        BY <2>2 DEF ObjInv, Pending, TypeOK, CommitOperation, RollbackOperation
      <3>2. OpInv(t, pos[t]) /\ trx_id[t] > 0
        BY <3>1 DEF OpsInv, ObjInv, Pending, TypeOK
      <3>3. operations[t][pos[t]].type = "INSERT" => operations[t][pos[t]].rid # q
        BY <3>2 DEF OpInv, TypeOK
      <3> QED
        BY <2>2, <3>3 DEF CommitOperation, RollbackOperation, TypeOK
    <2>3. ASSUME NEW t \in Trxs,
                 \/ start_if_need(t) \/ commit(t) \/ CommitDone(t)
                 \/ rollback(t) \/ RollbackDone(t) \/ destroy_trx(t)
          PROVE  q \in rows' /\ begin_xid'[q] = begin_xid[q]
      BY <2>3 DEF start_if_need, commit, CommitDone, rollback, RollbackDone, destroy_trx, rowVars
    <2>4. ASSUME NEW t \in Trxs, NEW r \in Rids, delete_record(t, r)
          PROVE  q \in rows' /\ begin_xid'[q] = begin_xid[q]
      BY <2>4 DEF delete_record
    <2>5. ASSUME NEW r \in Rids, load_data(r)
          PROVE  q \in rows' /\ begin_xid'[q] = begin_xid[q]
      BY <2>5 DEF load_data, TypeOK
    <2> QED
      BY <2>1, <2>2, <2>3, <2>4, <2>5 DEF Next, TrxStep
  <1> QED
    BY <1>1, Invariance, PTL DEF Spec, CommittedInsertPermanent
=============================================================================
