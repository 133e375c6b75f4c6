------------------------ MODULE MvccRecoveryProofs -------------------------
(***************************************************************************)
(* Proofs about MvccRecovery for every set of objects and of slots and     *)
(* every bound.  The invariant of MvccTrxProofs does not hold here: after  *)
(* a crash rows carry marks of transactions that are gone, and ids may be  *)
(* given out again.  What is left of it is what a transaction knows of the *)
(* rows of its own operations.  The rest says of every page, in memory or  *)
(* on disk, which entry of the log it is the result of.                    *)
(***************************************************************************)
EXTENDS MvccRecovery, MvccTrxProofs, SequenceTheorems, WellFoundedInduction

-----------------------------------------------------------------------------
(* The objects. *)

(* The ids of the objects come from one counter since the last start. *)
RunIds ==
    /\ \A t \in Trxs : trx_id[t] = -1 \/ trx_id[t] \in 1 .. current_trx_id
    /\ \A t, u \in Trxs : t # u /\ trx_id[t] > 0 => trx_id[t] # trx_id[u]
    /\ \A t \in Trxs : phase[t] = "commit" => commit_xid[t] \in 1 .. current_trx_id

(* The row of an operation still to be walked is there, an inserted one    *)
(* with its inserter's mark.                                               *)
PendingRows ==
    \A t \in Trxs : \A i \in Pending(t) :
        LET op == operations[t][i] IN
        op.rid \in rows /\ (op.type = "INSERT" => begin_xid[op.rid] = -trx_id[t])

(* Nobody else works on a row while its insertion is pending. *)
InserterAlone ==
    \A t, u \in Trxs : \A i \in Pending(t), j \in Pending(u) :
        t # u /\ operations[t][i].rid = operations[u][j].rid => operations[t][i].type # "INSERT"

ObjectsInv == RunIds /\ ObjInv /\ InsertFirst /\ PendingRows /\ InserterAlone

-----------------------------------------------------------------------------
(* The log and the pages. *)

RecordEntries ==
    [module : {"RECORD_MANAGER"}, op : {"INSERT", "UPDATE", "DELETE"}, rid : Rids,
     begin : Int, end : Int]
TrxEntries ==
    [module : {"TRANSACTION"}, op : {"INSERT_RECORD", "DELETE_RECORD", "COMMIT", "ROLLBACK"},
     trx_id : 1 .. IdBound]

LogInv == log \in Seq(RecordEntries \cup TrxEntries)

(* Entry i is one of row r. *)
EntryOf(i, r) == i \in 1 .. Len(log) /\ IsRecord(i) /\ log[i].rid = r

(* Page p of row r is what the entry p.lsn left. *)
LeftBy(r, p) ==
    IF p.lsn = 0 THEN ~p.used
    ELSE /\ EntryOf(p.lsn, r)
         /\ p.used <=> log[p.lsn].op # "DELETE"
         /\ p.used => p.begin = log[p.lsn].begin /\ p.end = log[p.lsn].end

(* A page in memory is what the last entry of its row left; a page on disk *)
(* what some flushed entry left, one that is not before the check point.   *)
MemoryInv ==
    \A r \in Rids :
        /\ LeftBy(r, Memory[r])
        /\ \A i \in 1 .. Len(log) : EntryOf(i, r) => i <= page_lsn[r]

DiskInv ==
    \A r \in Rids :
        /\ LeftBy(r, disk[r])
        /\ disk[r].lsn <= flushed_lsn
        /\ \A i \in 1 .. check_point_lsn : EntryOf(i, r) => i <= disk[r].lsn

(* i is the last entry of row r before j, or 0. *)
Before(r, i, j) ==
    /\ i \in 0 .. j - 1
    /\ i # 0 => EntryOf(i, r)
    /\ \A k \in i + 1 .. j - 1 : ~EntryOf(k, r)

(* The entries of a row follow each other as the code that replays them    *)
(* demands: an insert comes first or after a delete, and nothing else does.*)
EntriesFit ==
    \A r \in Rids : \A j \in 1 .. Len(log) :
        EntryOf(j, r) =>
            \E i \in 0 .. j - 1 :
                /\ Before(r, i, j)
                /\ log[j].op = "INSERT" <=> (i = 0 \/ log[i].op = "DELETE")

-----------------------------------------------------------------------------
(* The committed rows. *)

(* From an entry up to k on, every entry of row r keeps it with begin b. *)
Held(r, b, k) ==
    \E i \in 1 .. k :
        /\ EntryOf(i, r)
        /\ \A j \in i .. Len(log) : EntryOf(j, r) => log[j].op # "DELETE" /\ log[j].begin = b

(* The insertions a commit has walked are held since its entry, those that *)
(* were acknowledged since a flushed one.                                  *)
CommitInv ==
    \A t \in Trxs :
        /\ commit_lsn[t] > 0 => phase[t] = "commit" /\ pos[t] > Len(operations[t])
        /\ phase[t] = "commit" =>
             \A i \in 1 .. Len(operations[t]) :
                 i < pos[t] /\ operations[t][i].type = "INSERT" =>
                     Held(operations[t][i].rid, commit_xid[t],
                          IF commit_lsn[t] > 0 THEN commit_lsn[t] ELSE Len(log))

AckedInv ==
    \A a \in acked : a.rid \in Rids /\ a.begin \in Nat \ {0} /\ Held(a.rid, a.begin, flushed_lsn)

(* Only transactions with operations are committed or rolled back. *)
Working == \A t \in Trxs : phase[t] # "run" => operations[t] # <<>>

RInv ==
    /\ RecoveryTypeOK
    /\ ObjectsInv
    /\ LogInv
    /\ MemoryInv
    /\ DiskInv
    /\ EntriesFit
    /\ CommitInv
    /\ AckedInv

-----------------------------------------------------------------------------
(* The steps of MvccTrx keep ObjectsInv. *)

(* A step that leaves the rows and the operations of everybody alone and   *)
(* makes none pending that was not.                                        *)
LEMMA QuietPending ==
  ASSUME ObjectsInv, UNCHANGED rowVars,
         \A u \in Trxs : Pending(u)' \subseteq Pending(u),
         \A u \in Trxs : \A i \in Pending(u)' :
             operations'[u] = operations[u] /\ trx_id'[u] = trx_id[u]
  PROVE  PendingRows' /\ InserterAlone'
  <1>1. PendingRows'
    BY DEF ObjectsInv, PendingRows, rowVars
  <1>2. InserterAlone'
    BY DEF ObjectsInv, InserterAlone
  <1> QED BY <1>1, <1>2

LEMMA ObjectsStart ==
  ASSUME TypeOK, TypeOK', ObjectsInv, NEW t \in Trxs, start_if_need(t)
  PROVE  ObjectsInv'
  <1> USE DEF start_if_need, TakeTrxId, NextTrxId, ObjectsInv
  <1>1. RunIds'
    <2>1. current_trx_id \in Nat /\ current_trx_id' = current_trx_id + 1
      BY BoundAssumption DEF TypeOK
    <2>2. trx_id'[t] = current_trx_id + 1 /\ \A u \in Trxs : u # t => trx_id'[u] = trx_id[u]
      BY DEF TypeOK
    <2>3. \A u \in Trxs : trx_id[u] = -1 \/ trx_id[u] \in 1 .. current_trx_id
      BY DEF RunIds
    <2>4. \A u \in Trxs : trx_id'[u] = -1 \/ trx_id'[u] \in 1 .. current_trx_id'
      BY <2>1, <2>2, <2>3
    <2>5. \A v, u \in Trxs : v # u /\ trx_id'[v] > 0 => trx_id'[v] # trx_id'[u]
      BY <2>1, <2>2, <2>3 DEF RunIds
    <2>6. \A u \in Trxs : phase'[u] = "commit" => commit_xid'[u] \in 1 .. current_trx_id'
      BY <2>1 DEF RunIds
    <2> QED BY <2>4, <2>5, <2>6 DEF RunIds
  <1>2. ObjInv'
    BY DEF ObjInv, TypeOK, RunIds
  <1>3. InsertFirst'
    BY DEF InsertFirst
  <1>4. operations[t] = <<>> /\ Pending(t) = {}
    BY DEF ObjInv, Pending, TypeOK
  <1>5. \A u \in Trxs : Pending(u)' = Pending(u)
    BY DEF Pending
  <1>6. PendingRows' /\ InserterAlone'
    BY <1>4, <1>5, QuietPending DEF TypeOK
  <1> QED BY <1>1, <1>2, <1>3, <1>6

LEMMA ObjectsCommit ==
  ASSUME TypeOK, TypeOK', ObjectsInv, NEW t \in Trxs, commit(t)
  PROVE  ObjectsInv'
  <1> USE DEF commit, TakeTrxId, NextTrxId, ObjectsInv
  <1>1. RunIds'
    BY DEF RunIds, TypeOK
  <1>2. ObjInv'
    BY DEF ObjInv, TypeOK
  <1>3. InsertFirst'
    BY DEF InsertFirst
  <1>5. \A u \in Trxs : Pending(u)' = Pending(u)
    BY DEF Pending, TypeOK
  <1>6. PendingRows' /\ InserterAlone'
    BY <1>5, QuietPending
  <1> QED BY <1>1, <1>2, <1>3, <1>6

LEMMA ObjectsRollback ==
  ASSUME TypeOK, TypeOK', ObjectsInv, NEW t \in Trxs, rollback(t)
  PROVE  ObjectsInv'
  <1> USE DEF rollback, ObjectsInv
  <1>1. RunIds'
    BY DEF RunIds, TypeOK, kitVars
  <1>2. ObjInv'
    BY DEF ObjInv, TypeOK
  <1>3. InsertFirst'
    BY DEF InsertFirst
  <1>5. \A u \in Trxs : Pending(u)' = Pending(u)
    BY DEF Pending, TypeOK
  <1>6. PendingRows' /\ InserterAlone'
    BY <1>5, QuietPending
  <1> QED BY <1>1, <1>2, <1>3, <1>6

LEMMA ObjectsDone ==
  ASSUME TypeOK, TypeOK', ObjectsInv, NEW t \in Trxs,
         CommitDone(t) \/ RollbackDone(t) \/ destroy_trx(t)
  PROVE  ObjectsInv'
  <1> USE DEF ObjectsInv
  <1>a. /\ current_trx_id' = current_trx_id /\ rows' = rows /\ begin_xid' = begin_xid /\ end_xid' = end_xid
        /\ trx_id'[t] \in {trx_id[t], -1} /\ started'[t] \in {started[t], FALSE}
        /\ started[t] => phase[t] = "run"
        /\ operations'[t] = <<>> /\ phase'[t] = "run"
        /\ started'[t] => trx_id'[t] = trx_id[t]
    BY DEF CommitDone, RollbackDone, destroy_trx, kitVars, rowVars, TypeOK, ObjInv
  <1>b. \A u \in Trxs : u # t =>
          /\ trx_id'[u] = trx_id[u] /\ started'[u] = started[u] /\ operations'[u] = operations[u]
          /\ phase'[u] = phase[u] /\ commit_xid'[u] = commit_xid[u] /\ pos'[u] = pos[u]
    <2>1. CASE CommitDone(t)
      BY <2>1 DEF CommitDone, TypeOK
    <2>2. CASE RollbackDone(t)
      BY <2>2 DEF RollbackDone, TypeOK
    <2>3. CASE destroy_trx(t)
      BY <2>3 DEF destroy_trx, TypeOK
    <2> QED BY <2>1, <2>2, <2>3
  <1>1. RunIds'
    BY <1>a, <1>b DEF RunIds
  <1>2. ObjInv'
    <2>1. started'[t] => trx_id'[t] > 0
      BY <1>a DEF ObjInv
    <2>2. Len(operations'[t]) = 0
      BY <1>a
    <2> SUFFICES ASSUME NEW u \in Trxs
                 PROVE  /\ started'[u] => trx_id'[u] > 0 /\ phase'[u] = "run"
                        /\ Len(operations'[u]) > 0 => trx_id'[u] > 0
                        /\ phase'[u] = "run" /\ Len(operations'[u]) > 0 => started'[u]
                        /\ phase'[u] = "commit" => pos'[u] \in 1 .. Len(operations'[u]) + 1
                        /\ phase'[u] = "rollback" => pos'[u] \in 0 .. Len(operations'[u])
      BY DEF ObjInv
    <2>3. CASE u = t
      BY <1>a, <2>1, <2>2, <2>3
    <2>4. CASE u # t
      BY <1>b, <2>4 DEF ObjInv
    <2> QED BY <2>3, <2>4
  <1>3. InsertFirst'
    BY <1>a, <1>b DEF InsertFirst
  <1>4. Pending(t)' = {}
    BY <1>a DEF Pending
  <1>5. \A u \in Trxs : u # t => Pending(u)' = Pending(u)
    BY <1>b DEF Pending
  <1>6. PendingRows' /\ InserterAlone'
    BY <1>a, <1>b, <1>4, <1>5, QuietPending DEF rowVars
  <1> QED BY <1>1, <1>2, <1>3, <1>6

LEMMA ObjectsLoad ==
  ASSUME TypeOK, TypeOK', ObjectsInv, NEW r \in Rids, load_data(r)
  PROVE  ObjectsInv'
  <1> USE DEF load_data, ObjectsInv
  <1>1. RunIds' /\ ObjInv' /\ InsertFirst'
    BY DEF RunIds, ObjInv, InsertFirst, kitVars, trxVars
  <1>2. \A u \in Trxs : Pending(u)' = Pending(u)
    BY DEF Pending, trxVars
  <1>3. PendingRows'
    BY <1>2, OpTypes DEF PendingRows, trxVars, TypeOK, Pending
  <1>4. InserterAlone'
    BY <1>2 DEF InserterAlone, trxVars
  <1> QED BY <1>1, <1>3, <1>4

LEMMA ObjectsInsert ==
  ASSUME TypeOK, TypeOK', ObjectsInv, NEW t \in Trxs, NEW r \in Rids, insert_record(t, r)
  PROVE  ObjectsInv'
  <1> USE DEF ObjectsInv
  <1> DEFINE n == Len(operations[t]) + 1
  <1>1. /\ phase[t] = "run" /\ started[t] /\ r \notin rows /\ n \in Nat
        /\ current_trx_id' = current_trx_id /\ trx_id' = trx_id /\ started' = started
        /\ phase' = phase /\ commit_xid' = commit_xid /\ pos' = pos
        /\ rows' = rows \cup {r} /\ begin_xid'[r] = -trx_id[t]
        /\ \A q \in Rids : q # r => begin_xid'[q] = begin_xid[q]
    BY DEF insert_record, kitVars, TypeOK
  <1>2. /\ Len(operations'[t]) = n /\ operations'[t][n] = [type |-> "INSERT", rid |-> r]
        /\ \A i \in 1 .. Len(operations[t]) : operations'[t][i] = operations[t][i]
        /\ \A u \in Trxs : u # t => operations'[u] = operations[u]
    BY DEF insert_record, TypeOK
  <1>3. /\ \A u \in Trxs : u # t => Pending(u)' = Pending(u)
        /\ Pending(t) = 1 .. n - 1 /\ Pending(t)' = 1 .. n
    BY <1>1, <1>2 DEF Pending
  <1>4. RunIds'
    BY <1>1 DEF RunIds
  <1>5. ObjInv'
    BY <1>1, <1>2 DEF ObjInv
  <1>6. \A u \in Trxs : \A i \in Pending(u) :
          operations[u][i].rid \in rows /\ operations[u][i].rid \in Rids /\ operations[u][i].rid # r
    BY <1>1, OpTypes DEF PendingRows, Pending
  <1>7. InsertFirst'
    <2> SUFFICES ASSUME NEW u \in Trxs, NEW i \in 1 .. Len(operations'[u]), NEW j \in 1 .. Len(operations'[u]),
                        i < j, operations'[u][i].rid = operations'[u][j].rid
                 PROVE  operations'[u][j].type = "DELETE"
      BY DEF InsertFirst
    <2>1. CASE u # t
      BY <1>2, <2>1 DEF InsertFirst
    <2>2. CASE u = t /\ j = n
      BY <1>2, <1>3, <1>6, <2>2
    <2>3. CASE u = t /\ j # n
      <3>1. i \in 1 .. Len(operations[t]) /\ j \in 1 .. Len(operations[t])
        BY <1>1, <1>2, <2>3
      <3>2. operations'[u][i] = operations[t][i] /\ operations'[u][j] = operations[t][j]
        BY <1>2, <2>3, <3>1
      <3> QED BY <3>1, <3>2 DEF InsertFirst
    <2> QED BY <2>1, <2>2, <2>3
  <1>8. PendingRows'
    <2> SUFFICES ASSUME NEW u \in Trxs, NEW i \in Pending(u)'
                 PROVE  /\ operations'[u][i].rid \in rows'
                        /\ operations'[u][i].type = "INSERT" => begin_xid'[operations'[u][i].rid] = -trx_id'[u]
      BY DEF PendingRows
    <2>1. CASE u # t
      BY <1>1, <1>2, <1>3, <1>6, <2>1 DEF PendingRows
    <2>2. CASE u = t /\ i = n
      BY <1>1, <1>2, <2>2
    <2>3. CASE u = t /\ i # n
      <3>1. i \in Pending(t) /\ i \in 1 .. Len(operations[t])
        BY <1>1, <1>3, <2>3
      <3>2. operations'[u][i] = operations[t][i]
        BY <1>2, <2>3, <3>1
      <3>3. /\ operations[t][i].rid \in rows /\ operations[t][i].rid \in Rids /\ operations[t][i].rid # r
            /\ operations[t][i].type = "INSERT" => begin_xid[operations[t][i].rid] = -trx_id[t]
        BY <1>6, <3>1 DEF PendingRows
      <3> QED BY <1>1, <2>3, <3>2, <3>3
    <2> QED BY <2>1, <2>2, <2>3
  <1>9. InserterAlone'
    <2> SUFFICES ASSUME NEW v \in Trxs, NEW u \in Trxs, NEW i \in Pending(v)', NEW j \in Pending(u)',
                        v # u, operations'[v][i].rid = operations'[u][j].rid
                 PROVE  operations'[v][i].type # "INSERT"
      BY DEF InserterAlone
    <2>1. CASE v = t /\ i = n
      BY <1>2, <1>3, <1>6, <2>1
    <2>2. CASE u = t /\ j = n
      BY <1>2, <1>3, <1>6, <2>2
    <2>3. CASE ~(v = t /\ i = n) /\ ~(u = t /\ j = n)
      <3>1. i \in Pending(v) /\ operations'[v][i] = operations[v][i]
        BY <1>1, <1>2, <1>3, <2>3
      <3>2. j \in Pending(u) /\ operations'[u][j] = operations[u][j]
        BY <1>1, <1>2, <1>3, <2>3
      <3> QED BY <3>1, <3>2 DEF InserterAlone
    <2> QED BY <2>1, <2>2, <2>3
  <1> QED BY <1>4, <1>5, <1>7, <1>8, <1>9

(* visit_record lets t delete a row only when no insertion of another      *)
(* object is pending on it.                                                *)
LEMMA ObjectsDelete ==
  ASSUME TypeOK, TypeOK', ObjectsInv, NEW t \in Trxs, NEW r \in Rids, delete_record(t, r)
  PROVE  ObjectsInv'
  <1> USE DEF ObjectsInv
  <1> DEFINE n == Len(operations[t]) + 1
  <1>1. /\ phase[t] = "run" /\ started[t] /\ r \in rows /\ n \in Nat
        /\ current_trx_id' = current_trx_id /\ trx_id' = trx_id /\ started' = started
        /\ phase' = phase /\ commit_xid' = commit_xid /\ pos' = pos
        /\ rows' = rows /\ begin_xid' = begin_xid
    BY DEF delete_record, kitVars, TypeOK
  <1>2. /\ Len(operations'[t]) = n /\ operations'[t][n] = [type |-> "DELETE", rid |-> r]
        /\ \A i \in 1 .. Len(operations[t]) : operations'[t][i] = operations[t][i]
        /\ \A u \in Trxs : u # t => operations'[u] = operations[u]
    BY DEF delete_record, TypeOK
  <1>3. /\ \A u \in Trxs : u # t => Pending(u)' = Pending(u)
        /\ Pending(t) = 1 .. n - 1 /\ Pending(t)' = 1 .. n
    BY <1>1, <1>2 DEF Pending
  <1>4. RunIds'
    BY <1>1 DEF RunIds
  <1>5. ObjInv'
    BY <1>1, <1>2 DEF ObjInv
  <1>6. \A u \in Trxs : u # t => \A i \in Pending(u) :
          operations[u][i].rid = r => operations[u][i].type # "INSERT"
    <2> SUFFICES ASSUME NEW u \in Trxs, u # t, NEW i \in Pending(u),
                        operations[u][i].rid = r, operations[u][i].type = "INSERT"
                 PROVE  FALSE
      OBVIOUS
    <2>1. begin_xid[r] = -trx_id[u]
      BY DEF PendingRows
    <2>2. trx_id[u] > 0 /\ trx_id[u] \in Int /\ trx_id[t] \in Int
      BY DEF ObjInv, TypeOK, Pending
    <2>3. begin_xid[r] < 0 /\ -begin_xid[r] = trx_id[u]
      BY <2>1, <2>2
    <2>4. trx_id[u] = trx_id[t]
      BY <2>3 DEF delete_record, visit_record, VisitResult
    <2> QED BY <2>2, <2>4 DEF RunIds
  <1>7. InsertFirst'
    <2> SUFFICES ASSUME NEW u \in Trxs, NEW i \in 1 .. Len(operations'[u]), NEW j \in 1 .. Len(operations'[u]),
                        i < j, operations'[u][i].rid = operations'[u][j].rid
                 PROVE  operations'[u][j].type = "DELETE"
      BY DEF InsertFirst
    <2>1. CASE u # t
      BY <1>2, <2>1 DEF InsertFirst
    <2>2. CASE u = t /\ j = n
      BY <1>2, <2>2
    <2>3. CASE u = t /\ j # n
      <3>1. i \in 1 .. Len(operations[t]) /\ j \in 1 .. Len(operations[t])
        BY <1>1, <1>2, <2>3
      <3>2. operations'[u][i] = operations[t][i] /\ operations'[u][j] = operations[t][j]
        BY <1>2, <2>3, <3>1
      <3> QED BY <3>1, <3>2 DEF InsertFirst
    <2> QED BY <2>1, <2>2, <2>3
  <1>8. PendingRows'
    <2> SUFFICES ASSUME NEW u \in Trxs, NEW i \in Pending(u)'
                 PROVE  /\ operations'[u][i].rid \in rows'
                        /\ operations'[u][i].type = "INSERT" => begin_xid'[operations'[u][i].rid] = -trx_id'[u]
      BY DEF PendingRows
    <2>1. CASE u = t /\ i = n
      BY <1>1, <1>2, <2>1
    <2>2. CASE ~(u = t /\ i = n)
      BY <1>1, <1>2, <1>3, <2>2 DEF PendingRows
    <2> QED BY <2>1, <2>2
  <1>9. InserterAlone'
    <2> SUFFICES ASSUME NEW v \in Trxs, NEW u \in Trxs, NEW i \in Pending(v)', NEW j \in Pending(u)',
                        v # u, operations'[v][i].rid = operations'[u][j].rid
                 PROVE  operations'[v][i].type # "INSERT"
      BY DEF InserterAlone
    <2>1. CASE v = t /\ i = n
      BY <1>2, <2>1
    <2>2. CASE u = t /\ j = n
      BY <1>2, <1>3, <1>6, <2>2
    <2>3. CASE ~(v = t /\ i = n) /\ ~(u = t /\ j = n)
      <3>1. i \in Pending(v) /\ operations'[v][i] = operations[v][i]
        BY <1>1, <1>2, <1>3, <2>3
      <3>2. j \in Pending(u) /\ operations'[u][j] = operations[u][j]
        BY <1>1, <1>2, <1>3, <2>3
      <3> QED BY <3>1, <3>2 DEF InserterAlone
    <2> QED BY <2>1, <2>2, <2>3
  <1> QED BY <1>4, <1>5, <1>7, <1>8, <1>9

(* The operation a commit or a rollback walks is no longer pending.  An    *)
(* insertion it walks is the first operation of its object on the row.     *)
LEMMA ObjectsCommitOperation ==
  ASSUME TypeOK, TypeOK', ObjectsInv, NEW t \in Trxs, CommitOperation(t)
  PROVE  ObjectsInv'
  <1> USE DEF ObjectsInv
  <1> DEFINE n == pos[t]
             op == operations[t][n]
  <1>1. /\ phase[t] = "commit" /\ n \in 1 .. Len(operations[t])
        /\ current_trx_id' = current_trx_id /\ trx_id' = trx_id /\ started' = started
        /\ phase' = phase /\ commit_xid' = commit_xid /\ operations' = operations /\ rows' = rows
        /\ pos'[t] = n + 1 /\ \A u \in Trxs : u # t => pos'[u] = pos[u]
    BY DEF CommitOperation, kitVars, TypeOK, ObjInv
  <1>2. op.rid \in Rids
    BY <1>1, OpTypes
  <1>3. \A q \in Rids : q # op.rid \/ op.type # "INSERT" => begin_xid'[q] = begin_xid[q]
    BY <1>1, <1>2 DEF CommitOperation, TypeOK
  <1>4. /\ \A u \in Trxs : u # t => Pending(u)' = Pending(u)
        /\ n \in Pending(t) /\ Pending(t)' = {i \in Pending(t) : i > n}
    BY <1>1 DEF Pending
  <1>5. RunIds' /\ ObjInv' /\ InsertFirst'
    BY <1>1 DEF RunIds, ObjInv, InsertFirst
  <1>6. \A u \in Trxs : Pending(u)' \subseteq Pending(u)
    BY <1>4
  <1>7. PendingRows'
    <2> SUFFICES ASSUME NEW u \in Trxs, NEW i \in Pending(u)'
                 PROVE  /\ operations[u][i].rid \in rows
                        /\ operations[u][i].type = "INSERT" => begin_xid'[operations[u][i].rid] = -trx_id[u]
      BY <1>1 DEF PendingRows
    <2>1. i \in Pending(u) /\ i \in 1 .. Len(operations[u])
      BY <1>6 DEF Pending
    <2>2. operations[u][i].rid \in rows /\ operations[u][i].rid \in Rids
      BY <2>1, OpTypes DEF PendingRows
    <2>3. ASSUME operations[u][i].type = "INSERT", op.type = "INSERT" PROVE operations[u][i].rid # op.rid
      <3>1. CASE u # t
        BY <1>4, <2>1, <2>3, <3>1 DEF InserterAlone
      <3>2. CASE u = t
        BY <1>1, <1>4, <2>1, <2>3, <3>2 DEF InsertFirst
      <3> QED BY <3>1, <3>2
    <2> QED BY <1>3, <2>1, <2>2, <2>3 DEF PendingRows
  <1>8. InserterAlone'
    BY <1>1, <1>6 DEF InserterAlone
  <1> QED BY <1>5, <1>7, <1>8

LEMMA ObjectsRollbackOperation ==
  ASSUME TypeOK, TypeOK', ObjectsInv, NEW t \in Trxs, RollbackOperation(t)
  PROVE  ObjectsInv'
  <1> USE DEF ObjectsInv
  <1> DEFINE n == pos[t]
             op == operations[t][n]
  <1>1. /\ phase[t] = "rollback" /\ n \in 1 .. Len(operations[t])
        /\ current_trx_id' = current_trx_id /\ trx_id' = trx_id /\ started' = started
        /\ phase' = phase /\ commit_xid' = commit_xid /\ operations' = operations /\ begin_xid' = begin_xid
        /\ pos'[t] = n - 1 /\ \A u \in Trxs : u # t => pos'[u] = pos[u]
    BY DEF RollbackOperation, kitVars, TypeOK, ObjInv
  <1>2. op.rid \in Rids
    BY <1>1, OpTypes
  <1>3. \A q \in Rids : q # op.rid \/ op.type # "INSERT" => (q \in rows' <=> q \in rows)
    BY <1>1, <1>2 DEF RollbackOperation, TypeOK
  <1>4. /\ \A u \in Trxs : u # t => Pending(u)' = Pending(u)
        /\ n \in Pending(t) /\ Pending(t)' = {i \in Pending(t) : i < n}
    BY <1>1 DEF Pending
  <1>5. RunIds' /\ ObjInv' /\ InsertFirst'
    BY <1>1 DEF RunIds, ObjInv, InsertFirst
  <1>6. \A u \in Trxs : Pending(u)' \subseteq Pending(u)
    BY <1>4
  <1>7. PendingRows'
    <2> SUFFICES ASSUME NEW u \in Trxs, NEW i \in Pending(u)'
                 PROVE  /\ operations[u][i].rid \in rows'
                        /\ operations[u][i].type = "INSERT" => begin_xid[operations[u][i].rid] = -trx_id[u]
      BY <1>1 DEF PendingRows
    <2>1. i \in Pending(u) /\ i \in 1 .. Len(operations[u])
      BY <1>6 DEF Pending
    <2>2. operations[u][i].rid \in rows /\ operations[u][i].rid \in Rids
      BY <2>1, OpTypes DEF PendingRows
    <2>3. ASSUME op.type = "INSERT" PROVE operations[u][i].rid # op.rid
      <3>1. CASE u # t
        BY <1>4, <2>1, <2>3, <3>1 DEF InserterAlone
      <3>2. CASE u = t
        BY <1>1, <1>4, <2>1, <2>3, <3>2 DEF InsertFirst
      <3> QED BY <3>1, <3>2
    <2> QED BY <1>3, <2>1, <2>2, <2>3 DEF PendingRows
  <1>8. InserterAlone'
    BY <1>1, <1>6 DEF InserterAlone
  <1> QED BY <1>5, <1>7, <1>8

LEMMA ObjectsNext == TypeOK /\ ObjectsInv /\ [Next]_vars => TypeOK' /\ ObjectsInv'
  <1> SUFFICES ASSUME TypeOK, ObjectsInv, [Next]_vars PROVE ObjectsInv'
    BY TypeNext
  <1>1. TypeOK'
    BY TypeNext
  <1>2. CASE UNCHANGED vars
    BY <1>2 DEF vars, kitVars, rowVars, trxVars, ObjectsInv, RunIds, ObjInv, InsertFirst, PendingRows,
               InserterAlone, Pending
  <1> QED
    BY <1>1, <1>2, ObjectsStart, ObjectsCommit, ObjectsRollback, ObjectsDone, ObjectsLoad, ObjectsInsert,
       ObjectsDelete, ObjectsCommitOperation, ObjectsRollbackOperation DEF Next, TrxStep

-----------------------------------------------------------------------------
(* The log. *)

LEMMA EntryTypes ==
  ASSUME LogInv
  PROVE  /\ Len(log) \in Nat
         /\ \A i \in 1 .. Len(log) :
              IF IsRecord(i) THEN log[i] \in RecordEntries ELSE log[i] \in TrxEntries
  <1>1. Len(log) \in Nat /\ \A i \in 1 .. Len(log) : log[i] \in RecordEntries \cup TrxEntries
    BY DEF LogInv
  <1>2. \A e \in RecordEntries : e.module = "RECORD_MANAGER"
    BY DEF RecordEntries
  <1>3. \A e \in TrxEntries : e.module # "RECORD_MANAGER"
    BY DEF TrxEntries
  <1> QED BY <1>1, <1>2, <1>3 DEF IsRecord

(* A log that grows: the entries it had stay, and the pages they left are  *)
(* still what they left.                                                   *)
Longer ==
    /\ Len(log) \in Nat /\ Len(log') \in Nat /\ Len(log') >= Len(log)
    /\ \A i \in 1 .. Len(log) : log'[i] = log[i]

LEMMA LongerKeeps ==
  ASSUME Longer
  PROVE  /\ \A i \in 1 .. Len(log), r \in Rids : EntryOf(i, r)' <=> EntryOf(i, r)
         /\ \A i, r : EntryOf(i, r) => EntryOf(i, r)' /\ i \in 1 .. Len(log) /\ log'[i] = log[i]
  BY DEF Longer, EntryOf, IsRecord

LEMMA LongerDisk ==
  ASSUME RecoveryTypeOK, DiskInv, Longer,
         disk' = disk, flushed_lsn' \in Nat, flushed_lsn' >= flushed_lsn, check_point_lsn' = check_point_lsn
  PROVE  DiskInv'
  <1> SUFFICES ASSUME NEW r \in Rids
               PROVE  /\ LeftBy(r, disk[r])'
                      /\ disk[r].lsn <= flushed_lsn'
                      /\ \A i \in 1 .. check_point_lsn : EntryOf(i, r)' => i <= disk[r].lsn
    BY DEF DiskInv
  <1>1. check_point_lsn \in Nat /\ check_point_lsn <= Len(log)
    BY DEF RecoveryTypeOK, Longer
  <1>2. LeftBy(r, disk[r])'
    BY LongerKeeps DEF DiskInv, LeftBy
  <1>3. \A i \in 1 .. check_point_lsn : EntryOf(i, r)' => i <= disk[r].lsn
    BY <1>1, LongerKeeps DEF DiskInv, Longer
  <1>4. disk[r].lsn <= flushed_lsn'
    BY DEF DiskInv, RecoveryTypeOK, Page
  <1> QED BY <1>2, <1>3, <1>4

(* What a row's last entry says of it. *)
LEMMA HeldRow ==
  ASSUME RecoveryTypeOK, LogInv, MemoryInv, NEW r \in Rids, NEW b, NEW k \in 0 .. Len(log), Held(r, b, k)
  PROVE  r \in rows /\ begin_xid[r] = b
  <1>1. PICK i \in 1 .. k : EntryOf(i, r) /\ \A j \in i .. Len(log) :
               EntryOf(j, r) => log[j].op # "DELETE" /\ log[j].begin = b
    BY DEF Held
  <1>2. page_lsn[r] \in 0 .. Len(log) /\ i <= page_lsn[r] /\ i \in Nat \ {0} /\ Len(log) \in Nat
    BY <1>1, EntryTypes DEF MemoryInv, RecoveryTypeOK, EntryOf
  <1>3. /\ Memory[r].lsn = page_lsn[r] /\ Memory[r].begin = begin_xid[r]
        /\ Memory[r].used <=> r \in rows
    BY DEF Memory
  <1>4. EntryOf(page_lsn[r], r) /\ (r \in rows <=> log[page_lsn[r]].op # "DELETE")
        /\ (r \in rows => begin_xid[r] = log[page_lsn[r]].begin)
    BY <1>2, <1>3 DEF MemoryInv, LeftBy
  <1> QED BY <1>1, <1>2, <1>4

(* A step that appends entry e of row r, and perhaps an entry of a         *)
(* transaction, after it has changed the row as e says.                    *)
RowStep(r, e, es) ==
    /\ e \in RecordEntries /\ e.rid = r
    /\ es = <<e>> \/ \E x \in TrxEntries : es = <<e, x>>
    /\ Logged(r, es)
    /\ \A q \in Rids : q # r =>
         /\ q \in rows' <=> q \in rows
         /\ begin_xid'[q] = begin_xid[q] /\ end_xid'[q] = end_xid[q]
    /\ r \in rows' <=> e.op # "DELETE"
    /\ r \in rows' => begin_xid'[r] = e.begin /\ end_xid'[r] = e.end
    /\ e.op = "INSERT" <=> r \notin rows
    /\ r \in rows /\ begin_xid[r] > 0 => e.op # "DELETE" /\ e.begin = begin_xid[r]

LEMMA RowStepLog ==
  ASSUME LogInv, NEW r \in Rids, NEW e, NEW es, RowStep(r, e, es), NEW n, n = Len(log) + 1
  PROVE  /\ LogInv'
         /\ Longer
         /\ n \in Nat /\ Len(log') >= n /\ Len(log') \in Nat
         /\ EntryOf(n, r)' /\ log'[n] = e
         /\ \A q \in Rids : \A i \in n .. Len(log') : EntryOf(i, q)' => q = r /\ i = n
  <1> DEFINE E == RecordEntries \cup TrxEntries
  <1>1. log' = log \o es /\ log \in Seq(E) /\ Len(log) \in Nat
    BY EntryTypes DEF RowStep, Logged, AppendLog, LogInv
  <1>2. e.module = "RECORD_MANAGER" /\ e.rid = r /\ e \in E
    BY DEF RowStep, RecordEntries
  <1>3. /\ es \in Seq(E) /\ Len(es) \in 1 .. 2 /\ es[1] = e
        /\ Len(es) = 2 => es[2].module # "RECORD_MANAGER"
    <2>1. CASE es = <<e>>
      BY <1>2, <2>1
    <2>2. CASE \E x \in TrxEntries : es = <<e, x>>
      <3>1. PICK x \in TrxEntries : es = <<e, x>>
        BY <2>2
      <3>2. x \in E /\ x.module # "RECORD_MANAGER"
        BY DEF TrxEntries
      <3> QED BY <1>2, <3>1, <3>2
    <2> QED BY <2>1, <2>2 DEF RowStep
  <1> HIDE DEF E
  <1>4. /\ log' \in Seq(E) /\ Len(log') = Len(log) + Len(es)
        /\ \A i \in 1 .. Len(log) + Len(es) :
             log'[i] = IF i <= Len(log) THEN log[i] ELSE es[i - Len(log)]
    BY <1>1, <1>3, ConcatProperties
  <1>5. LogInv'
    BY <1>4 DEF LogInv, E
  <1>a. ASSUME NEW a \in Nat, NEW b \in 1 .. 2, NEW c, c = a + b
        PROVE  c \in Nat /\ c >= a + 1 /\ c <= a + 2
    BY <1>a
  <1>b. Len(log') \in Nat /\ Len(log') >= Len(log) + 1 /\ Len(log') <= Len(log) + 2
    BY <1>1, <1>3, <1>4, <1>a
  <1>6. Longer /\ Len(log') >= n /\ Len(log') \in Nat /\ Len(log') <= n + 1 /\ n \in Nat
    BY <1>1, <1>4, <1>b DEF Longer
  <1>7. log'[n] = e
    BY <1>1, <1>3, <1>4
  <1>8. EntryOf(n, r)'
    BY <1>1, <1>2, <1>6, <1>7 DEF EntryOf, IsRecord
  <1>9. ASSUME NEW q \in Rids, NEW i \in n .. Len(log'), EntryOf(i, q)' PROVE q = r /\ i = n
    <2>1. i = n \/ i = n + 1
      BY <1>1, <1>6
    <2>2. CASE i = n
      BY <1>2, <1>7, <1>9, <2>2 DEF EntryOf
    <2>3. CASE i = n + 1
      <3>1. Len(es) = 2 /\ log'[i] = es[2]
        BY <1>1, <1>3, <1>4, <1>6, <2>3
      <3> QED BY <1>3, <1>9, <3>1 DEF EntryOf, IsRecord
    <2> QED BY <2>1, <2>2, <2>3
  <1> QED BY <1>5, <1>6, <1>7, <1>8, <1>9

(* Such a step keeps what the log says of the pages, and every row that is *)
(* held.                                                                   *)
LEMMA RowStepPages ==
  ASSUME RecoveryTypeOK, LogInv, MemoryInv, DiskInv, EntriesFit,
         NEW r \in Rids, NEW e, NEW es, RowStep(r, e, es)
  PROVE  LogInv' /\ MemoryInv' /\ DiskInv' /\ EntriesFit'
  <1>0. PICK n : n = Len(log) + 1
    OBVIOUS
  <1>1. /\ LogInv' /\ Longer /\ n \in Nat /\ Len(log') >= n /\ Len(log') \in Nat
        /\ EntryOf(n, r)' /\ log'[n] = e
        /\ \A q \in Rids : \A i \in n .. Len(log') : EntryOf(i, q)' => q = r /\ i = n
    BY <1>0, RowStepLog
  <1>2. page_lsn'[r] = n /\ (\A q \in Rids : q # r => page_lsn'[q] = page_lsn[q]) /\ Len(log) \in Nat
    BY <1>0, EntryTypes DEF RowStep, Logged, RecoveryTypeOK
  <1>3. \A q \in Rids : page_lsn[q] \in Nat /\ page_lsn[q] <= Len(log)
    BY <1>2 DEF RecoveryTypeOK
  <1>4. \A q \in Rids : \A i \in 1 .. Len(log') :
          EntryOf(i, q)' => (EntryOf(i, q) /\ i \in 1 .. Len(log)) \/ (q = r /\ i = n)
    BY <1>0, <1>1, <1>2, LongerKeeps
  <1>5. MemoryInv'
    <2> SUFFICES ASSUME NEW q \in Rids
                 PROVE  /\ LeftBy(q, Memory[q])'
                        /\ \A i \in 1 .. Len(log') : EntryOf(i, q)' => i <= page_lsn'[q]
      BY DEF MemoryInv
    <2>1. /\ Memory'[q].lsn = page_lsn'[q] /\ Memory'[q].begin = begin_xid'[q] /\ Memory'[q].end = end_xid'[q]
          /\ Memory'[q].used <=> q \in rows'
          /\ Memory[q].lsn = page_lsn[q] /\ Memory[q].begin = begin_xid[q] /\ Memory[q].end = end_xid[q]
          /\ Memory[q].used <=> q \in rows
      BY DEF Memory
    <2>2. CASE q = r
      <3>1. LeftBy(q, Memory[q])'
        BY <1>0, <1>1, <1>2, <2>1, <2>2 DEF LeftBy, RowStep
      <3>2. \A i \in 1 .. Len(log') : EntryOf(i, q)' => i <= page_lsn'[q]
        BY <1>0, <1>2, <1>4, <2>2
      <3> QED BY <3>1, <3>2
    <2>3. CASE q # r
      <3>1. /\ q \in rows' <=> q \in rows
            /\ begin_xid'[q] = begin_xid[q] /\ end_xid'[q] = end_xid[q]
        BY <2>3 DEF RowStep
      <3>2. LeftBy(q, Memory[q])
        BY DEF MemoryInv
      <3>3. LeftBy(q, Memory[q])'
        BY <1>1, <1>2, <2>1, <2>3, <3>1, <3>2, LongerKeeps DEF LeftBy
      <3>4. \A i \in 1 .. Len(log') : EntryOf(i, q)' => i <= page_lsn'[q]
        BY <1>2, <1>4, <2>3 DEF MemoryInv
      <3> QED BY <3>3, <3>4
    <2> QED BY <2>2, <2>3
  <1>6. DiskInv'
    BY <1>1, LongerDisk DEF RowStep, Logged, RecoveryTypeOK
  <1>7. EntriesFit'
    <2> SUFFICES ASSUME NEW q \in Rids, NEW j \in 1 .. Len(log'), EntryOf(j, q)'
                 PROVE  \E i \in 0 .. j - 1 :
                          /\ Before(q, i, j)'
                          /\ log'[j].op = "INSERT" <=> (i = 0 \/ log'[i].op = "DELETE")
      BY DEF EntriesFit
    <2>1. CASE q = r /\ j = n
      <3>1. PICK i : i = page_lsn[r]
        OBVIOUS
      <3>2. i \in 0 .. j - 1 /\ (i # 0 => i \in 1 .. Len(log))
        BY <1>0, <1>2, <1>3, <2>1, <3>1
      <3>3. LeftBy(r, Memory[r]) /\ Memory[r].lsn = i /\ (Memory[r].used <=> r \in rows)
        BY <3>1 DEF MemoryInv, Memory
      <3>4. i # 0 => EntryOf(i, r) /\ EntryOf(i, r)' /\ log'[i] = log[i]
        BY <1>1, <3>2, <3>3, LongerKeeps DEF LeftBy
      <3>5. \A k \in i + 1 .. j - 1 : ~EntryOf(k, r)'
        BY <1>0, <1>2, <1>4, <2>1, <3>1, <3>2 DEF MemoryInv
      <3>6. log'[j].op = "INSERT" <=> (i = 0 \/ log'[i].op = "DELETE")
        BY <1>1, <2>1, <3>3, <3>4 DEF LeftBy, RowStep
      <3> QED BY <2>1, <3>2, <3>4, <3>5, <3>6 DEF Before
    <2>2. CASE ~(q = r /\ j = n)
      <3>1. EntryOf(j, q) /\ j \in 1 .. Len(log)
        BY <1>4, <2>2
      <3>2. PICK i \in 0 .. j - 1 :
                   Before(q, i, j) /\ (log[j].op = "INSERT" <=> (i = 0 \/ log[i].op = "DELETE"))
        BY <3>1 DEF EntriesFit
      <3>3. log'[j] = log[j] /\ (i # 0 => EntryOf(i, q)' /\ log'[i] = log[i])
        BY <1>1, <3>1, <3>2, LongerKeeps DEF Before
      <3>4. \A k \in i + 1 .. j - 1 : ~EntryOf(k, q)'
        <4> TAKE k \in i + 1 .. j - 1
        <4>1. k \in 1 .. Len(log)
          BY <1>2, <3>1, <3>2
        <4>2. ~EntryOf(k, q)
          BY <3>2 DEF Before
        <4> QED BY <1>1, <4>1, <4>2, LongerKeeps
      <3> QED BY <3>2, <3>3, <3>4 DEF Before
    <2> QED BY <2>1, <2>2
  <1> QED BY <1>1, <1>5, <1>6, <1>7

LEMMA RowStepHolds ==
  ASSUME RecoveryTypeOK, LogInv, MemoryInv, NEW r \in Rids, NEW e, NEW es, RowStep(r, e, es),
         NEW q \in Rids, NEW b \in Nat \ {0}, NEW k \in 0 .. Len(log), Held(q, b, k)
  PROVE  Held(q, b, k)'
  <1>0. PICK n : n = Len(log) + 1
    OBVIOUS
  <1>1. /\ Longer /\ n \in Nat /\ Len(log') >= n /\ Len(log') \in Nat /\ log'[n] = e
        /\ \A p \in Rids : \A i \in n .. Len(log') : EntryOf(i, p)' => p = r /\ i = n
    BY <1>0, RowStepLog
  <1>2. q \in rows /\ begin_xid[q] = b
    BY HeldRow
  <1>3. PICK i \in 1 .. k : EntryOf(i, q) /\ \A j \in i .. Len(log) :
               EntryOf(j, q) => log[j].op # "DELETE" /\ log[j].begin = b
    BY DEF Held
  <1>4. q = r => e.op # "DELETE" /\ e.begin = b
    BY <1>2 DEF RowStep
  <1>5. EntryOf(i, q)' /\ Len(log) \in Nat
    BY <1>1, <1>3, LongerKeeps, EntryTypes
  <1>6. ASSUME NEW j \in i .. Len(log'), EntryOf(j, q)'
        PROVE  log'[j].op # "DELETE" /\ log'[j].begin = b
    <2>1. CASE j >= n
      BY <1>1, <1>4, <1>6, <2>1
    <2>2. CASE j < n
      <3>1. j \in i .. Len(log) /\ j \in 1 .. Len(log)
        BY <1>0, <1>5, <2>2
      <3> QED BY <1>1, <1>3, <1>6, <3>1, LongerKeeps
    <2> QED BY <1>1, <2>1, <2>2
  <1> QED BY <1>5, <1>6 DEF Held

(* A step that changes no row and appends at most entries of transactions. *)
QuietStep ==
    /\ Longer
    /\ \A q \in Rids : \A i \in 1 .. Len(log') : EntryOf(i, q)' => i <= Len(log)
    /\ rows' = rows /\ begin_xid' = begin_xid /\ end_xid' = end_xid /\ page_lsn' = page_lsn

LEMMA QuietEntries ==
  ASSUME QuietStep, NEW q \in Rids, NEW i
  PROVE  EntryOf(i, q)' <=> EntryOf(i, q)
  <1>1. EntryOf(i, q) => EntryOf(i, q)'
    BY LongerKeeps DEF QuietStep
  <1>2. EntryOf(i, q)' => i \in 1 .. Len(log') /\ i \in 1 .. Len(log)
    BY DEF QuietStep, EntryOf, Longer
  <1> QED BY <1>1, <1>2, LongerKeeps DEF QuietStep

LEMMA QuietPages ==
  ASSUME LogInv, MemoryInv, EntriesFit, QuietStep
  PROVE  MemoryInv' /\ EntriesFit'
  <1>1. MemoryInv'
    <2> SUFFICES ASSUME NEW q \in Rids
                 PROVE  /\ LeftBy(q, Memory[q])'
                        /\ \A i \in 1 .. Len(log') : EntryOf(i, q)' => i <= page_lsn'[q]
      BY DEF MemoryInv
    <2>1. Memory'[q] = Memory[q]
      BY DEF Memory, QuietStep
    <2>2. LeftBy(q, Memory[q])'
      BY <2>1, LongerKeeps DEF MemoryInv, LeftBy, QuietStep
    <2>3. \A i \in 1 .. Len(log') : EntryOf(i, q)' => i <= page_lsn'[q]
      BY QuietEntries DEF MemoryInv, QuietStep, EntryOf
    <2> QED BY <2>2, <2>3
  <1>2. EntriesFit'
    <2> SUFFICES ASSUME NEW q \in Rids, NEW j \in 1 .. Len(log'), EntryOf(j, q)'
                 PROVE  \E i \in 0 .. j - 1 :
                          /\ Before(q, i, j)'
                          /\ log'[j].op = "INSERT" <=> (i = 0 \/ log'[i].op = "DELETE")
      BY DEF EntriesFit
    <2>1. EntryOf(j, q) /\ j \in 1 .. Len(log) /\ log'[j] = log[j]
      BY QuietEntries, LongerKeeps DEF QuietStep
    <2>2. PICK i \in 0 .. j - 1 :
                 Before(q, i, j) /\ (log[j].op = "INSERT" <=> (i = 0 \/ log[i].op = "DELETE"))
      BY <2>1 DEF EntriesFit
    <2>3. i # 0 => EntryOf(i, q)' /\ log'[i] = log[i]
      BY <2>2, LongerKeeps DEF Before, QuietStep
    <2>4. \A k \in i + 1 .. j - 1 : ~EntryOf(k, q)'
      BY <2>2, QuietEntries DEF Before
    <2> QED BY <2>1, <2>2, <2>3, <2>4 DEF Before
  <1> QED BY <1>1, <1>2

LEMMA QuietHolds ==
  ASSUME QuietStep, NEW q \in Rids, NEW b, NEW k, Held(q, b, k)
  PROVE  Held(q, b, k)'
  <1>1. PICK i \in 1 .. k : EntryOf(i, q) /\ \A j \in i .. Len(log) :
               EntryOf(j, q) => log[j].op # "DELETE" /\ log[j].begin = b
    BY DEF Held
  <1>2. ASSUME NEW j \in i .. Len(log'), EntryOf(j, q)'
        PROVE  log'[j].op # "DELETE" /\ log'[j].begin = b
    <2>1. EntryOf(j, q) /\ j \in 1 .. Len(log) /\ log'[j] = log[j]
      BY <1>2, QuietEntries, LongerKeeps DEF QuietStep
    <2> QED BY <1>1, <2>1
  <1> QED BY <1>1, <1>2, QuietEntries DEF Held

LEMMA HeldLater ==
  ASSUME NEW q, NEW b, NEW k \in Nat, NEW m \in Nat, k <= m
  PROVE  (Held(q, b, k) => Held(q, b, m)) /\ (Held(q, b, k)' => Held(q, b, m)')
  BY DEF Held

-----------------------------------------------------------------------------
(* The replay. *)

LEMMA MaxOf ==
  ASSUME NEW n \in Nat, NEW S, S \subseteq 0 .. n, S # {}
  PROVE  Max(S) \in S /\ \A x \in S : x <= Max(S)
  <1> DEFINE T == {n - x : x \in S}
  <1>0. \A x \in S : x \in Nat /\ n - x \in Nat
    OBVIOUS
  <1>1. T \subseteq Nat /\ T # {}
    BY <1>0
  <1>2. PICK m \in T : \A y \in T : ~(<<y, m>> \in OpToRel(<, Nat))
    BY <1>1, NatLessThanWellFounded, WFMin
  <1>3. PICK x \in S : m = n - x
    OBVIOUS
  <1>4. \A y \in S : y <= x
    <2> TAKE y \in S
    <2>1. n - y \in T /\ n - y \in Nat /\ m \in Nat
      BY <1>1
    <2>2. ~(n - y < m)
      BY <1>2, <2>1 DEF OpToRel
    <2> QED BY <1>3, <2>2
  <1>5. \A y \in S : x >= y
    BY <1>4
  <1> QED BY <1>5 DEF Max

LEMMA ReplayStart ==
  ASSUME check_point_lsn \in Nat
  PROVE  ReplayFrom \in Nat \ {0} /\ (ReplayFrom = 1 \/ ReplayFrom = check_point_lsn)
  <1>1. CASE check_point_lsn = 0
    <2>1. \A x \in {1, check_point_lsn} : (\A y \in {1, check_point_lsn} : x >= y) <=> x = 1
      BY <1>1
    <2> QED BY <2>1 DEF ReplayFrom, Max
  <1>2. CASE check_point_lsn # 0
    <2>1. \A x \in {1, check_point_lsn} : (\A y \in {1, check_point_lsn} : x >= y) <=> x = check_point_lsn
      BY <1>2
    <2> QED BY <1>2, <2>1 DEF ReplayFrom, Max
  <1> QED BY <1>1, <1>2

(* The page of row r after the replay up to n: what the last entry of the  *)
(* row up to n has left, or the page found on disk if that is newer.       *)
LEMMA Replayed ==
  ASSUME RecoveryTypeOK, LogInv, DiskInv, NEW r \in Rids, NEW n \in 0 .. Len(log), NEW p,
         p = ReplayRecord(r, n)
  PROVE  /\ p \in Page
         /\ LeftBy(r, p)
         /\ \A i \in 1 .. n : EntryOf(i, r) => i <= p.lsn
         /\ p.lsn <= n \/ p.lsn = disk[r].lsn
  <1> DEFINE applied == Applied(r, n)
             written == {i \in applied : log[i].op # "DELETE"}
             d == disk[r]
  <1>1. /\ Len(log) \in Nat /\ n \in Nat
        /\ check_point_lsn \in Nat /\ d \in Page /\ d.lsn \in Nat /\ d.begin \in Int /\ d.end \in Int /\ d.used \in BOOLEAN
    BY EntryTypes DEF RecoveryTypeOK, Page
  <1>2. ReplayFrom \in Nat \ {0} /\ (ReplayFrom = 1 \/ ReplayFrom = check_point_lsn)
    BY <1>1, ReplayStart
  <1>3. \A i : i \in applied <=> i \in 1 .. n /\ EntryOf(i, r) /\ i > d.lsn
    <2>1. ASSUME NEW i \in applied PROVE i \in 1 .. n /\ EntryOf(i, r) /\ i > d.lsn
      BY <1>1, <1>2, <2>1 DEF Applied, EntryOf
    <2>2. ASSUME NEW i \in 1 .. n, EntryOf(i, r), i > d.lsn PROVE i \in applied
      <3>1. i > check_point_lsn
        BY <1>1, <2>2 DEF DiskInv
      <3>2. i \in ReplayFrom .. n
        BY <1>1, <1>2, <2>2, <3>1
      <3> QED BY <2>2, <3>2 DEF Applied, EntryOf
    <2> QED BY <2>1, <2>2
  <1>4. applied \subseteq 0 .. n
    BY <1>1, <1>3
  <1>5. p = [used  |-> IF applied = {} THEN d.used ELSE log[Max(applied)].op # "DELETE",
             begin |-> IF written = {} THEN d.begin ELSE log[Max(written)].begin,
             end   |-> IF written = {} THEN d.end ELSE log[Max(written)].end,
             lsn   |-> Max({d.lsn} \cup applied)]
    BY DEF ReplayRecord
  <1> HIDE DEF applied
  <1>6. CASE applied = {}
    <2>1. written = {} /\ Max({d.lsn} \cup applied) = d.lsn
      BY <1>1, <1>6 DEF Max
    <2>2. p.used = d.used /\ p.begin = d.begin /\ p.end = d.end /\ p.lsn = d.lsn /\ p \in Page
      BY <1>1, <1>5, <1>6, <2>1 DEF Page
    <2>3. LeftBy(r, p)
      BY <2>2 DEF LeftBy, DiskInv
    <2>4. \A i \in 1 .. n : EntryOf(i, r) => i <= p.lsn
      BY <1>1, <1>3, <1>6, <2>2
    <2> QED BY <2>2, <2>3, <2>4
  <1>7. CASE applied # {}
    <2> DEFINE m == Max(applied)
    <2>1. m \in applied /\ \A i \in applied : i <= m
      BY <1>1, <1>4, <1>7, MaxOf
    <2> HIDE DEF m
    <2>2. m \in 1 .. n /\ EntryOf(m, r) /\ m > d.lsn /\ m \in 1 .. Len(log)
      BY <1>1, <1>3, <2>1
    <2>3. Max({d.lsn} \cup applied) = m
      <3>1. m \in {d.lsn} \cup applied /\ \A i \in {d.lsn} \cup applied : m >= i /\ i \in Nat
        <4>1. m \in Nat /\ m >= d.lsn /\ d.lsn \in Nat
          BY <1>1, <2>2
        <4>2. \A i \in applied : m >= i /\ i \in Nat
          BY <1>4, <2>1, <4>1
        <4> QED BY <2>1, <4>1, <4>2
      <3>2. \A x \in {d.lsn} \cup applied : (\A i \in {d.lsn} \cup applied : x >= i) => x = m
        BY <3>1
      <3> QED BY <3>1, <3>2 DEF Max
    <2>4. p.lsn = m /\ (p.used <=> log[m].op # "DELETE") /\ p.used \in BOOLEAN
      <3>1. p.lsn = Max({d.lsn} \cup applied)
        BY <1>5
      <3>2. p.used = (log[m].op # "DELETE")
        BY <1>5, <1>7 DEF m
      <3> QED BY <2>3, <3>1, <3>2
    <2>5. \A i \in applied : log[i] \in RecordEntries
      BY <1>1, <1>3, EntryTypes DEF EntryOf
    <2>6. p.begin \in Int /\ p.end \in Int /\ (log[m].op # "DELETE" => p.begin = log[m].begin /\ p.end = log[m].end)
      <3>1. CASE written = {}
        <4>1. p.begin = d.begin /\ p.end = d.end
          BY <1>5, <3>1
        <4>2. log[m].op = "DELETE"
          BY <2>1, <3>1
        <4> QED BY <1>1, <4>1, <4>2
      <3>2. CASE written # {}
        <4> DEFINE w == Max(written)
        <4>1. w \in written /\ \A i \in written : i <= w
          BY <1>1, <1>4, <3>2, MaxOf
        <4>2. p.begin = log[w].begin /\ p.end = log[w].end
          BY <1>5, <3>2
        <4> HIDE DEF w
        <4>3. log[w] \in RecordEntries
          BY <2>5, <4>1
        <4>4. log[m].op # "DELETE" => w = m
          <5>1. w \in applied /\ w <= m /\ w \in Nat /\ m \in Nat
            BY <1>4, <2>1, <4>1
          <5>2. log[m].op # "DELETE" => m <= w
            BY <2>1, <4>1
          <5> QED BY <5>1, <5>2
        <4> QED BY <4>2, <4>3, <4>4 DEF RecordEntries
      <3> QED BY <3>1, <3>2
    <2>7. p \in Page
      BY <1>5, <2>2, <2>4, <2>6 DEF Page
    <2>8. LeftBy(r, p)
      BY <2>2, <2>4, <2>6 DEF LeftBy
    <2>9. \A i \in 1 .. n : EntryOf(i, r) => i <= p.lsn
      BY <1>1, <1>3, <2>1, <2>2, <2>4
    <2> QED BY <2>2, <2>4, <2>7, <2>8, <2>9
  <1> QED BY <1>6, <1>7

-----------------------------------------------------------------------------
(* RInv gives the properties. *)

(* Two pages left by the last entry of a row up to n are the same. *)
LEMMA SameLeft ==
  ASSUME LogInv, NEW r \in Rids, NEW n \in 0 .. Len(log), NEW p, NEW q,
         p \in Page, q \in Page, LeftBy(r, p), LeftBy(r, q), p.lsn <= n, q.lsn <= n,
         \A i \in 1 .. n : EntryOf(i, r) => i <= p.lsn,
         \A i \in 1 .. n : EntryOf(i, r) => i <= q.lsn
  PROVE  SamePage(p, q)
  <1>0. p.lsn \in Nat /\ q.lsn \in Nat /\ p.used \in BOOLEAN /\ q.used \in BOOLEAN /\ n \in Nat
    BY EntryTypes DEF Page
  <1>1. p.lsn <= q.lsn /\ q.lsn <= p.lsn
    BY <1>0 DEF LeftBy
  <1>2. p.lsn = q.lsn
    BY <1>0, <1>1
  <1>3. p.used = q.used
    BY <1>0, <1>2 DEF LeftBy
  <1>4. p.used => p.begin = q.begin /\ p.end = q.end
    BY <1>2, <1>3 DEF LeftBy
  <1>5. p.used => p = q
    <2>1. p = [used |-> p.used, begin |-> p.begin, end |-> p.end, lsn |-> p.lsn]
      BY DEF Page
    <2>2. q = [used |-> q.used, begin |-> q.begin, end |-> q.end, lsn |-> q.lsn]
      BY DEF Page
    <2> QED BY <1>2, <1>3, <1>4, <2>1, <2>2
  <1> QED BY <1>2, <1>3, <1>5 DEF SamePage

LEMMA MemoryPage ==
  ASSUME RecoveryTypeOK, NEW r \in Rids
  PROVE  Memory[r] \in Page /\ Memory[r].lsn = page_lsn[r]
  <1>1. page_lsn[r] \in Nat /\ begin_xid[r] \in Int /\ end_xid[r] \in Int
    BY DEF RecoveryTypeOK, TypeOK
  <1> QED BY <1>1 DEF Memory, Page

LEMMA ExactHistory ==
  ASSUME RecoveryTypeOK, LogInv, MemoryInv, DiskInv
  PROVE  RedoRepeatsHistory
  <1> SUFFICES ASSUME NEW r \in Rids PROVE SamePage(Redo(Len(log))[r], Memory[r])
    BY DEF RedoRepeatsHistory
  <1>1. PICK p : p = ReplayRecord(r, Len(log))
    OBVIOUS
  <1>2. Len(log) \in Nat /\ Len(log) \in 0 .. Len(log)
    BY EntryTypes
  <1>3. /\ p \in Page /\ LeftBy(r, p) /\ \A i \in 1 .. Len(log) : EntryOf(i, r) => i <= p.lsn
        /\ p.lsn <= Len(log) \/ p.lsn = disk[r].lsn
    BY <1>1, <1>2, Replayed
  <1>4. p.lsn <= Len(log)
    BY <1>2, <1>3 DEF DiskInv, RecoveryTypeOK, Page
  <1>5. Memory[r] \in Page /\ Memory[r].lsn = page_lsn[r] /\ page_lsn[r] <= Len(log)
    BY <1>2, MemoryPage DEF RecoveryTypeOK
  <1>6. LeftBy(r, Memory[r]) /\ \A i \in 1 .. Len(log) : EntryOf(i, r) => i <= Memory[r].lsn
    BY <1>5 DEF MemoryInv
  <1>7. SamePage(p, Memory[r])
    BY <1>2, <1>3, <1>4, <1>5, <1>6, SameLeft
  <1> QED BY <1>1, <1>7 DEF Redo

LEMMA EveryEntryFits ==
  ASSUME RecoveryTypeOK, LogInv, DiskInv, EntriesFit
  PROVE  ReplaySucceeds
  <1> SUFFICES ASSUME NEW j \in ReplayFrom .. Len(log), IsRecord(j), ReplayFails(j) PROVE FALSE
    BY DEF ReplaySucceeds
  <1>1. Len(log) \in Nat /\ check_point_lsn \in Nat
    BY EntryTypes DEF RecoveryTypeOK
  <1>2. ReplayFrom \in Nat \ {0}
    BY <1>1, ReplayStart
  <1>3. j \in 1 .. Len(log) /\ j - 1 \in 0 .. Len(log) /\ log[j] \in RecordEntries
    BY <1>1, <1>2, EntryTypes
  <1>4. PICK r \in Rids : log[j].rid = r
    BY <1>3 DEF RecordEntries
  <1>5. EntryOf(j, r)
    BY <1>3, <1>4 DEF EntryOf
  <1>6. PICK p : p = ReplayRecord(r, j - 1)
    OBVIOUS
  <1>7. /\ p \in Page /\ LeftBy(r, p) /\ \A i \in 1 .. j - 1 : EntryOf(i, r) => i <= p.lsn
    BY <1>3, <1>6, Replayed
  <1>8. p.lsn < j /\ (p.used <=> log[j].op = "INSERT") /\ p.lsn \in Nat
    BY <1>4, <1>6, <1>7 DEF ReplayFails, Page
  <1>9. PICK i \in 0 .. j - 1 :
               Before(r, i, j) /\ (log[j].op = "INSERT" <=> (i = 0 \/ log[i].op = "DELETE"))
    BY <1>3, <1>5 DEF EntriesFit
  <1>10. i = p.lsn
    <2>1. i <= p.lsn
      BY <1>3, <1>7, <1>8, <1>9 DEF Before
    <2>2. p.lsn # 0 => EntryOf(p.lsn, r)
      BY <1>7 DEF LeftBy
    <2>3. ~(p.lsn \in i + 1 .. j - 1) \/ p.lsn = 0
      BY <1>9, <2>2 DEF Before
    <2> QED BY <1>3, <1>8, <1>9, <2>1, <2>3
  <1> QED BY <1>7, <1>8, <1>9, <1>10 DEF LeftBy

LEMMA AckedRows ==
  ASSUME RecoveryTypeOK, LogInv, MemoryInv, AckedInv
  PROVE  CommittedDurable
  <1> SUFFICES ASSUME NEW a \in acked PROVE a.rid \in rows /\ begin_xid[a.rid] = a.begin
    BY DEF CommittedDurable
  <1>1. a.rid \in Rids /\ Held(a.rid, a.begin, flushed_lsn) /\ flushed_lsn \in 0 .. Len(log)
    BY DEF AckedInv, RecoveryTypeOK
  <1> QED BY <1>1, HeldRow

-----------------------------------------------------------------------------
(* The steps that change a row. *)

(* The commits under way as such a step sees them: at most, one of them    *)
(* has walked an insertion of the row.                                     *)
CommitsGoOn(r, e) ==
    \A u \in Trxs :
        /\ phase[u] = "commit" => phase'[u] = "commit"
        /\ phase'[u] = "commit" =>
             /\ phase[u] = "commit" /\ operations'[u] = operations[u]
             /\ commit_xid'[u] = commit_xid[u]
             /\ commit_lsn[u] > 0 => pos'[u] = pos[u]
             /\ \A i \in 1 .. Len(operations[u]) :
                  i < pos'[u] /\ operations[u][i].type = "INSERT" =>
                      \/ i < pos[u]
                      \/ /\ commit_lsn[u] = 0 /\ operations[u][i].rid = r
                         /\ e.op # "DELETE" /\ e.begin = commit_xid[u]

LEMMA RowStepCommits ==
  ASSUME RInv, NEW r \in Rids, NEW e, NEW es, RowStep(r, e, es), CommitsGoOn(r, e)
  PROVE  CommitInv' /\ AckedInv'
  <1>0. PICK n : n = Len(log) + 1
    OBVIOUS
  <1>1. /\ Longer /\ n \in Nat /\ Len(log') >= n /\ Len(log') \in Nat /\ Len(log) \in Nat
        /\ EntryOf(n, r)' /\ log'[n] = e
        /\ \A q \in Rids : \A i \in n .. Len(log') : EntryOf(i, q)' => q = r /\ i = n
    BY <1>0, RowStepLog DEF RInv, Longer
  <1>2. commit_lsn' = commit_lsn /\ acked' = acked /\ flushed_lsn' = flushed_lsn
    BY DEF RowStep, Logged
  <1>3. ASSUME NEW q \in Rids, NEW b \in Nat \ {0}, NEW k \in 0 .. Len(log), Held(q, b, k)
        PROVE  Held(q, b, k)'
    BY <1>3, RowStepHolds DEF RInv
  <1>4. CommitInv'
    <2>1. \A u \in Trxs : commit_lsn'[u] > 0 => phase'[u] = "commit" /\ pos'[u] > Len(operations'[u])
      BY <1>2 DEF CommitsGoOn, RInv, CommitInv
    <2>2. ASSUME NEW u \in Trxs, phase'[u] = "commit", NEW i \in 1 .. Len(operations'[u]),
                 i < pos'[u], operations'[u][i].type = "INSERT",
                 NEW q, q = operations'[u][i].rid, NEW b, b = commit_xid'[u],
                 NEW k, k = IF commit_lsn'[u] > 0 THEN commit_lsn'[u] ELSE Len(log')
          PROVE  Held(q, b, k)'
      <3>1. phase[u] = "commit" /\ operations'[u] = operations[u] /\ b = commit_xid[u]
        BY <2>2 DEF CommitsGoOn
      <3>2. b \in Nat \ {0} /\ q \in Rids /\ i \in 1 .. Len(operations[u])
        BY <2>2, <3>1, OpTypes DEF RInv, ObjectsInv, RunIds, RecoveryTypeOK
      <3>3. commit_lsn[u] \in 0 .. Len(log) /\ k \in Nat
        BY <1>1, <1>2, <2>2 DEF RInv, RecoveryTypeOK
      <3>4. CASE i < pos[u]
        <4>1. PICK m : m = IF commit_lsn[u] > 0 THEN commit_lsn[u] ELSE Len(log)
          OBVIOUS
        <4>2. m \in 0 .. Len(log) /\ m \in Nat /\ m <= k
          BY <1>0, <1>1, <1>2, <2>2, <3>3, <4>1
        <4>3. Held(q, b, m)
          BY <2>2, <3>1, <3>2, <3>4, <4>1 DEF RInv, CommitInv
        <4>4. Held(q, b, m)'
          BY <1>3, <3>2, <4>2, <4>3
        <4> QED BY <3>3, <4>2, <4>4, HeldLater
      <3>5. CASE ~(i < pos[u])
        <4>1. commit_lsn[u] = 0 /\ q = r /\ e.op # "DELETE" /\ e.begin = b /\ k = Len(log')
          BY <1>2, <2>2, <3>1, <3>2, <3>5 DEF CommitsGoOn
        <4>2. n \in 1 .. k /\ EntryOf(n, q)'
          BY <1>0, <1>1, <4>1
        <4>3. \A j \in n .. Len(log') : EntryOf(j, q)' => log'[j].op # "DELETE" /\ log'[j].begin = b
          BY <1>1, <3>2, <4>1
        <4> QED BY <4>2, <4>3 DEF Held
      <3> QED BY <3>4, <3>5
    <2>3. ASSUME NEW u \in Trxs, phase'[u] = "commit", NEW i \in 1 .. Len(operations'[u]),
                 i < pos'[u], operations'[u][i].type = "INSERT"
          PROVE  Held(operations[u][i].rid, commit_xid[u], IF commit_lsn[u] > 0 THEN commit_lsn[u] ELSE Len(log))'
      <3>1. PICK q, b, k : /\ q = operations'[u][i].rid /\ b = commit_xid'[u]
                           /\ k = IF commit_lsn'[u] > 0 THEN commit_lsn'[u] ELSE Len(log')
        OBVIOUS
      <3>2. Held(q, b, k)'
        BY <2>2, <2>3, <3>1
      <3> QED BY <3>1, <3>2 DEF Held, EntryOf, IsRecord
    <2> QED BY <2>1, <2>3 DEF CommitInv
  <1>5. AckedInv'
    <2>1. ASSUME NEW a \in acked, NEW f, f = flushed_lsn
          PROVE  a.rid \in Rids /\ a.begin \in Nat \ {0} /\ Held(a.rid, a.begin, f)'
      <3>1. a.rid \in Rids /\ a.begin \in Nat \ {0} /\ Held(a.rid, a.begin, f)
        BY <2>1 DEF RInv, AckedInv
      <3>2. f \in 0 .. Len(log)
        BY <2>1 DEF RInv, RecoveryTypeOK
      <3> QED BY <1>3, <3>1, <3>2
    <2> QED BY <1>2, <2>1 DEF AckedInv, Held, EntryOf, IsRecord
  <1> QED BY <1>4, <1>5

LEMMA RowStepInv ==
  ASSUME RInv, TypeOK', ObjectsInv', NEW r \in Rids, NEW e, NEW es, RowStep(r, e, es), CommitsGoOn(r, e)
  PROVE  RInv'
  <1>0. PICK n : n = Len(log) + 1
    OBVIOUS
  <1>1. LogInv' /\ n \in Nat /\ Len(log') >= n /\ Len(log') \in Nat /\ Len(log) \in Nat
    BY <1>0, RowStepLog, EntryTypes DEF RInv
  <1>2. LogInv' /\ MemoryInv' /\ DiskInv' /\ EntriesFit'
    BY RowStepPages DEF RInv
  <1>3. RecoveryTypeOK'
    BY <1>0, <1>1 DEF RInv, RecoveryTypeOK, RowStep, Logged
  <1> QED BY <1>2, <1>3, RowStepCommits DEF RInv

LEMMA TrxEntryType ==
  ASSUME TypeOK, ObjectsInv, NEW t \in Trxs, trx_id[t] > 0,
         NEW op \in {"INSERT_RECORD", "DELETE_RECORD", "COMMIT", "ROLLBACK"}
  PROVE  TrxEntry(op, t) \in TrxEntries
  <1>1. trx_id[t] \in 1 .. IdBound
    BY BoundAssumption DEF ObjectsInv, RunIds, TypeOK
  <1> QED BY <1>1 DEF TrxEntry, TrxEntries

LEMMA RecordEntryType ==
  ASSUME TypeOK', NEW r \in Rids, NEW op \in {"INSERT", "UPDATE", "DELETE"}, NEW e, e = RecordEntry(op, r)
  PROVE  /\ e \in RecordEntries /\ e.op = op /\ e.rid = r
         /\ e.begin = begin_xid'[r] /\ e.end = end_xid'[r]
  <1>1. begin_xid'[r] \in Int /\ end_xid'[r] \in Int
    BY DEF TypeOK
  <1> QED BY <1>1 DEF RecordEntry, RecordEntries

LEMMA InsertRInv ==
  ASSUME RInv, NEW t \in Trxs, NEW r \in Rids, LoggedInsert(t, r)
  PROVE  RInv'
  <1>1. TypeOK /\ ObjectsInv /\ insert_record(t, r) /\ TypeOK' /\ ObjectsInv'
    BY ObjectsNext DEF RInv, RecoveryTypeOK, LoggedInsert, Next, TrxStep
  <1>2. PICK e, x : e = RecordEntry("INSERT", r) /\ x = TrxEntry("INSERT_RECORD", t)
    OBVIOUS
  <1>3. PICK es : es = <<e, x>>
    OBVIOUS
  <1>4. Logged(r, es)
    BY <1>2, <1>3 DEF LoggedInsert
  <1>5. x \in TrxEntries
    BY <1>1, <1>2, TrxEntryType DEF ObjectsInv, ObjInv, insert_record
  <1>6. /\ e \in RecordEntries /\ e.op = "INSERT" /\ e.rid = r
        /\ e.begin = begin_xid'[r] /\ e.end = end_xid'[r]
    BY <1>1, <1>2, RecordEntryType
  <1>7. /\ r \notin rows /\ r \in rows'
        /\ \A q \in Rids : q # r => /\ q \in rows' <=> q \in rows
                                    /\ begin_xid'[q] = begin_xid[q] /\ end_xid'[q] = end_xid[q]
    BY <1>1 DEF insert_record, TypeOK
  <1>8. RowStep(r, e, es)
    BY <1>3, <1>4, <1>5, <1>6, <1>7 DEF RowStep
  <1>9. CommitsGoOn(r, e)
    BY <1>1 DEF CommitsGoOn, insert_record, TypeOK
  <1> QED BY <1>1, <1>8, <1>9, RowStepInv

LEMMA DeleteRInv ==
  ASSUME RInv, NEW t \in Trxs, NEW r \in Rids, LoggedDelete(t, r)
  PROVE  RInv'
  <1>1. TypeOK /\ ObjectsInv /\ delete_record(t, r) /\ TypeOK' /\ ObjectsInv'
    BY ObjectsNext DEF RInv, RecoveryTypeOK, LoggedDelete, Next, TrxStep
  <1>2. PICK e, x : e = RecordEntry("UPDATE", r) /\ x = TrxEntry("DELETE_RECORD", t)
    OBVIOUS
  <1>3. PICK es : es = <<e, x>>
    OBVIOUS
  <1>4. Logged(r, es)
    BY <1>2, <1>3 DEF LoggedDelete
  <1>5. x \in TrxEntries
    BY <1>1, <1>2, TrxEntryType DEF ObjectsInv, ObjInv, delete_record
  <1>6. /\ e \in RecordEntries /\ e.op = "UPDATE" /\ e.rid = r
        /\ e.begin = begin_xid'[r] /\ e.end = end_xid'[r]
    BY <1>1, <1>2, RecordEntryType
  <1>7. /\ r \in rows /\ rows' = rows /\ begin_xid' = begin_xid
        /\ \A q \in Rids : q # r => end_xid'[q] = end_xid[q]
    BY <1>1 DEF delete_record, TypeOK
  <1>8. RowStep(r, e, es)
    BY <1>3, <1>4, <1>5, <1>6, <1>7 DEF RowStep
  <1>9. CommitsGoOn(r, e)
    BY <1>1 DEF CommitsGoOn, delete_record, TypeOK
  <1> QED BY <1>1, <1>8, <1>9, RowStepInv

LEMMA LoadRInv ==
  ASSUME RInv, NEW r \in Rids, LoggedLoad(r)
  PROVE  RInv'
  <1>1. TypeOK /\ ObjectsInv /\ load_data(r) /\ TypeOK' /\ ObjectsInv'
    BY ObjectsNext DEF RInv, RecoveryTypeOK, LoggedLoad, Next, TrxStep
  <1>2. PICK e : e = RecordEntry("INSERT", r)
    OBVIOUS
  <1>3. PICK es : es = <<e>>
    OBVIOUS
  <1>4. Logged(r, es)
    BY <1>2, <1>3 DEF LoggedLoad
  <1>6. /\ e \in RecordEntries /\ e.op = "INSERT" /\ e.rid = r
        /\ e.begin = begin_xid'[r] /\ e.end = end_xid'[r]
    BY <1>1, <1>2, RecordEntryType
  <1>7. /\ r \notin rows /\ r \in rows'
        /\ \A q \in Rids : q # r => /\ q \in rows' <=> q \in rows
                                    /\ begin_xid'[q] = begin_xid[q] /\ end_xid'[q] = end_xid[q]
    BY <1>1 DEF load_data, TypeOK
  <1>8. RowStep(r, e, es)
    BY <1>3, <1>4, <1>6, <1>7 DEF RowStep
  <1>9. CommitsGoOn(r, e)
    BY <1>1 DEF CommitsGoOn, load_data, trxVars
  <1> QED BY <1>1, <1>8, <1>9, RowStepInv

(* The commit replaces the mark of an insertion, so the row was not held   *)
(* by anybody: a held row has a positive begin.                            *)
LEMMA CommitOperationRInv ==
  ASSUME RInv, NEW t \in Trxs, LoggedCommitOperation(t)
  PROVE  RInv'
  <1>1. TypeOK /\ ObjectsInv /\ CommitOperation(t) /\ TypeOK' /\ ObjectsInv'
    BY ObjectsNext DEF RInv, RecoveryTypeOK, LoggedCommitOperation, Next, TrxStep
  <1>2. PICK op : op = operations[t][pos[t]]
    OBVIOUS
  <1>3. PICK r : r = op.rid
    OBVIOUS
  <1>4. pos[t] \in 1 .. Len(operations[t]) /\ phase[t] = "commit" /\ pos[t] \in Pending(t)
    BY <1>1 DEF CommitOperation, ObjectsInv, ObjInv, TypeOK, Pending
  <1>5. r \in Rids /\ r \in rows /\ op.type \in {"INSERT", "DELETE"} /\ (op.type = "INSERT" => begin_xid[r] = -trx_id[t])
    BY <1>1, <1>2, <1>3, <1>4, OpTypes DEF ObjectsInv, PendingRows
  <1>6. trx_id[t] > 0 /\ trx_id[t] \in Int
    BY <1>1, <1>4 DEF ObjectsInv, ObjInv, TypeOK
  <1>7. op.type = "INSERT" => ~(begin_xid[r] > 0)
    BY <1>5, <1>6
  <1>8. PICK e : e = RecordEntry("UPDATE", r)
    OBVIOUS
  <1>9. PICK es : es = <<e>>
    OBVIOUS
  <1>10. Logged(r, es)
    BY <1>2, <1>3, <1>8, <1>9 DEF LoggedCommitOperation
  <1>11. /\ e \in RecordEntries /\ e.op = "UPDATE" /\ e.rid = r
         /\ e.begin = begin_xid'[r] /\ e.end = end_xid'[r]
    BY <1>1, <1>5, <1>8, RecordEntryType
  <1>12. /\ rows' = rows
         /\ \A q \in Rids : q # r => begin_xid'[q] = begin_xid[q] /\ end_xid'[q] = end_xid[q]
         /\ op.type = "INSERT" => begin_xid'[r] = commit_xid[t]
         /\ op.type = "DELETE" => begin_xid'[r] = begin_xid[r]
    BY <1>1, <1>2, <1>3, <1>5 DEF CommitOperation, TypeOK
  <1>13. RowStep(r, e, es)
    BY <1>5, <1>7, <1>9, <1>10, <1>11, <1>12 DEF RowStep
  <1>14. /\ phase' = phase /\ operations' = operations /\ commit_xid' = commit_xid
         /\ pos'[t] = pos[t] + 1 /\ \A u \in Trxs : u # t => pos'[u] = pos[u]
    BY <1>1 DEF CommitOperation, TypeOK
  <1>15. commit_lsn[t] = 0
    BY <1>1, <1>4 DEF RInv, CommitInv, RecoveryTypeOK
  <1>16. CommitsGoOn(r, e)
    <2> SUFFICES ASSUME NEW u \in Trxs, phase[u] = "commit", NEW i \in 1 .. Len(operations[u]),
                        i < pos'[u], operations[u][i].type = "INSERT"
                 PROVE  \/ i < pos[u]
                        \/ /\ commit_lsn[u] = 0 /\ operations[u][i].rid = r
                           /\ e.op # "DELETE" /\ e.begin = commit_xid[u]
      BY <1>14, <1>15 DEF CommitsGoOn
    <2>1. CASE u = t /\ i = pos[t]
      BY <1>2, <1>3, <1>11, <1>12, <1>15, <2>1
    <2>2. CASE ~(u = t /\ i = pos[t])
      BY <1>4, <1>14, <2>2
    <2> QED BY <2>1, <2>2
  <1> QED BY <1>1, <1>5, <1>13, <1>16, RowStepInv

LEMMA RollbackOperationRInv ==
  ASSUME RInv, NEW t \in Trxs, LoggedRollbackOperation(t)
  PROVE  RInv'
  <1>1. TypeOK /\ ObjectsInv /\ RollbackOperation(t) /\ TypeOK' /\ ObjectsInv'
    BY ObjectsNext DEF RInv, RecoveryTypeOK, LoggedRollbackOperation, Next, TrxStep
  <1>2. PICK op : op = operations[t][pos[t]]
    OBVIOUS
  <1>3. PICK r : r = op.rid
    OBVIOUS
  <1>4. pos[t] \in 1 .. Len(operations[t]) /\ phase[t] = "rollback" /\ pos[t] \in Pending(t)
    BY <1>1 DEF RollbackOperation, ObjectsInv, ObjInv, TypeOK, Pending
  <1>5. r \in Rids /\ r \in rows /\ op.type \in {"INSERT", "DELETE"} /\ (op.type = "INSERT" => begin_xid[r] = -trx_id[t])
    BY <1>1, <1>2, <1>3, <1>4, OpTypes DEF ObjectsInv, PendingRows
  <1>6. trx_id[t] > 0 /\ trx_id[t] \in Int
    BY <1>1, <1>4 DEF ObjectsInv, ObjInv, TypeOK
  <1>7. op.type = "INSERT" => ~(begin_xid[r] > 0)
    BY <1>5, <1>6
  <1>8. PICK kind : kind = IF op.type = "INSERT" THEN "DELETE" ELSE "UPDATE"
    OBVIOUS
  <1>9. PICK e : e = RecordEntry(kind, r)
    OBVIOUS
  <1>10. PICK es : es = <<e>>
    OBVIOUS
  <1>11. Logged(r, es)
    BY <1>2, <1>3, <1>8, <1>9, <1>10 DEF LoggedRollbackOperation
  <1>12. /\ e \in RecordEntries /\ e.op = kind /\ e.rid = r
         /\ e.begin = begin_xid'[r] /\ e.end = end_xid'[r]
    BY <1>1, <1>5, <1>8, <1>9, RecordEntryType
  <1>13. /\ begin_xid' = begin_xid
         /\ \A q \in Rids : q # r => (q \in rows' <=> q \in rows) /\ end_xid'[q] = end_xid[q]
         /\ r \in rows' <=> op.type # "INSERT"
    BY <1>1, <1>2, <1>3, <1>5 DEF RollbackOperation, TypeOK
  <1>14. RowStep(r, e, es)
    BY <1>5, <1>7, <1>8, <1>10, <1>11, <1>12, <1>13 DEF RowStep
  <1>15. /\ phase' = phase /\ operations' = operations /\ commit_xid' = commit_xid
         /\ \A u \in Trxs : u # t => pos'[u] = pos[u]
    BY <1>1 DEF RollbackOperation, TypeOK
  <1>16. CommitsGoOn(r, e)
    BY <1>4, <1>15 DEF CommitsGoOn
  <1> QED BY <1>1, <1>5, <1>14, <1>16, RowStepInv

-----------------------------------------------------------------------------
(* The steps that change no row. *)

LEMMA AppendTrx ==
  ASSUME LogInv, NEW x \in TrxEntries, log' = log \o <<x>>,
         UNCHANGED rowVars, page_lsn' = page_lsn
  PROVE  LogInv' /\ QuietStep /\ Len(log') = Len(log) + 1 /\ Len(log) \in Nat
  <1> DEFINE E == RecordEntries \cup TrxEntries
  <1>1. log \in Seq(E) /\ Len(log) \in Nat /\ x.module # "RECORD_MANAGER"
    BY EntryTypes DEF LogInv, TrxEntries
  <1>2. <<x>> \in Seq(E) /\ Len(<<x>>) = 1 /\ <<x>>[1] = x
    OBVIOUS
  <1> HIDE DEF E
  <1>3. /\ log' \in Seq(E) /\ Len(log') = Len(log) + 1
        /\ \A i \in 1 .. Len(log) + 1 : log'[i] = IF i <= Len(log) THEN log[i] ELSE <<x>>[i - Len(log)]
    <2>1. /\ log' \in Seq(E) /\ Len(log') = Len(log) + Len(<<x>>)
          /\ \A i \in 1 .. Len(log) + Len(<<x>>) :
               log'[i] = IF i <= Len(log) THEN log[i] ELSE <<x>>[i - Len(log)]
      BY <1>1, <1>2, ConcatProperties
    <2> QED BY <1>2, <2>1
  <1>4. LogInv'
    BY <1>3 DEF LogInv, E
  <1>5. Longer
    BY <1>1, <1>3 DEF Longer
  <1>6. \A i \in 1 .. Len(log') : i <= Len(log) \/ log'[i] = x
    BY <1>1, <1>2, <1>3
  <1>7. \A q \in Rids : \A i \in 1 .. Len(log') : EntryOf(i, q)' => i <= Len(log)
    BY <1>1, <1>6 DEF EntryOf, IsRecord
  <1> QED BY <1>1, <1>3, <1>4, <1>5, <1>7 DEF QuietStep, rowVars

LEMMA SameLog ==
  ASSUME LogInv, log' = log, UNCHANGED rowVars, page_lsn' = page_lsn
  PROVE  LogInv' /\ QuietStep
  BY EntryTypes DEF LogInv, QuietStep, Longer, EntryOf, rowVars

(* The commits under way after such a step: one that has begun has walked  *)
(* nothing; one that goes on may have appended its entry.                  *)
LEMMA QuietCommits ==
  ASSUME RInv, QuietStep, commit_lsn' \in [Trxs -> Nat],
         \A u \in Trxs : commit_lsn'[u] > 0 => phase'[u] = "commit" /\ pos'[u] > Len(operations'[u]),
         \A u \in Trxs : phase'[u] = "commit" =>
             \/ pos'[u] = 1
             \/ /\ phase[u] = "commit" /\ operations'[u] = operations[u]
                /\ commit_xid'[u] = commit_xid[u] /\ pos'[u] = pos[u]
                /\ commit_lsn'[u] = commit_lsn[u] \/ (commit_lsn[u] = 0 /\ commit_lsn'[u] > Len(log))
  PROVE  CommitInv'
  <1>1. Len(log) \in Nat /\ Len(log') \in Nat /\ Len(log') >= Len(log)
    BY DEF QuietStep, Longer
  <1>2. ASSUME NEW u \in Trxs, phase'[u] = "commit", NEW i \in 1 .. Len(operations'[u]),
               i < pos'[u], operations'[u][i].type = "INSERT",
               NEW q, q = operations'[u][i].rid, NEW b, b = commit_xid'[u],
               NEW k, k = IF commit_lsn'[u] > 0 THEN commit_lsn'[u] ELSE Len(log')
        PROVE  Held(q, b, k)'
    <2>1. /\ phase[u] = "commit" /\ operations'[u] = operations[u] /\ b = commit_xid[u] /\ i < pos[u]
          /\ commit_lsn'[u] = commit_lsn[u] \/ (commit_lsn[u] = 0 /\ commit_lsn'[u] > Len(log))
      BY <1>2
    <2>2. q \in Rids /\ i \in 1 .. Len(operations[u])
      BY <1>2, <2>1, OpTypes DEF RInv, RecoveryTypeOK
    <2>3. commit_lsn[u] \in 0 .. Len(log) /\ k \in Nat
      BY <1>1, <1>2 DEF RInv, RecoveryTypeOK
    <2>4. PICK m : m = IF commit_lsn[u] > 0 THEN commit_lsn[u] ELSE Len(log)
      OBVIOUS
    <2>5. m \in Nat /\ m <= k
      BY <1>1, <1>2, <2>1, <2>3, <2>4
    <2>6. Held(q, b, m)
      BY <1>2, <2>1, <2>2, <2>4 DEF RInv, CommitInv
    <2>7. Held(q, b, m)'
      BY <2>2, <2>6, QuietHolds
    <2> QED BY <2>3, <2>5, <2>7, HeldLater
  <1>3. ASSUME NEW u \in Trxs, phase'[u] = "commit", NEW i \in 1 .. Len(operations'[u]),
               i < pos'[u], operations'[u][i].type = "INSERT"
        PROVE  Held(operations[u][i].rid, commit_xid[u], IF commit_lsn[u] > 0 THEN commit_lsn[u] ELSE Len(log))'
    <2>1. PICK q, b, k : /\ q = operations'[u][i].rid /\ b = commit_xid'[u]
                         /\ k = IF commit_lsn'[u] > 0 THEN commit_lsn'[u] ELSE Len(log')
      OBVIOUS
    <2>2. Held(q, b, k)'
      BY <1>2, <1>3, <2>1
    <2> QED BY <2>1, <2>2 DEF Held, EntryOf, IsRecord
  <1> QED BY <1>3 DEF CommitInv

LEMMA QuietAcked ==
  ASSUME RInv, QuietStep, acked' = acked, flushed_lsn' \in Nat, flushed_lsn' >= flushed_lsn
  PROVE  AckedInv'
  <1>1. PICK f, g : f = flushed_lsn /\ g = flushed_lsn'
    OBVIOUS
  <1>2. f \in Nat /\ g \in Nat /\ f <= g
    BY <1>1 DEF RInv, RecoveryTypeOK
  <1>3. ASSUME NEW a \in acked
        PROVE  a.rid \in Rids /\ a.begin \in Nat \ {0} /\ Held(a.rid, a.begin, g)'
    <2>1. a.rid \in Rids /\ a.begin \in Nat \ {0} /\ Held(a.rid, a.begin, f)
      BY <1>1 DEF RInv, AckedInv
    <2>2. Held(a.rid, a.begin, f)'
      BY <2>1, QuietHolds
    <2> QED BY <1>2, <2>1, <2>2, HeldLater
  <1> QED BY <1>1, <1>3 DEF AckedInv, Held, EntryOf, IsRecord

(* The steps of the objects that append nothing. *)
LEMMA UnloggedRInv ==
  ASSUME RInv, NEW t \in Trxs, Unlogged,
         start_if_need(t) \/ destroy_trx(t) \/ commit(t) \/ rollback(t)
  PROVE  RInv'
  <1>1. TypeOK /\ ObjectsInv /\ TypeOK' /\ ObjectsInv'
    BY ObjectsNext DEF RInv, RecoveryTypeOK, Next, TrxStep
  <1>2. UNCHANGED rowVars
    BY DEF start_if_need, destroy_trx, commit, rollback
  <1>3. /\ log' = log /\ flushed_lsn' = flushed_lsn /\ check_point_lsn' = check_point_lsn /\ disk' = disk
        /\ page_lsn' = page_lsn /\ commit_lsn' = commit_lsn /\ acked' = acked /\ crashes' = crashes
    BY DEF Unlogged, logVars, pageVars
  <1>4. LogInv' /\ QuietStep
    BY <1>2, <1>3, SameLog DEF RInv
  <1>5. MemoryInv' /\ EntriesFit'
    BY <1>4, QuietPages DEF RInv
  <1>6. RecoveryTypeOK'
    BY <1>1, <1>3 DEF RInv, RecoveryTypeOK
  <1>7. DiskInv'
    BY <1>3, <1>4, LongerDisk DEF RInv, RecoveryTypeOK, QuietStep
  <1>8. AckedInv'
    BY <1>3, <1>4, QuietAcked DEF RInv, RecoveryTypeOK
  <1>9. phase[t] = "run" /\ commit_lsn[t] = 0
    <2>1. phase[t] = "run"
      BY DEF start_if_need, destroy_trx, commit, rollback
    <2>2. commit_lsn[t] \in Nat /\ ~(commit_lsn[t] > 0)
      BY <2>1 DEF RInv, CommitInv, RecoveryTypeOK
    <2> QED BY <2>1, <2>2
  <1>10. \A u \in Trxs : u # t => /\ phase'[u] = phase[u] /\ operations'[u] = operations[u]
                                  /\ commit_xid'[u] = commit_xid[u] /\ pos'[u] = pos[u]
    BY <1>1 DEF TypeOK, start_if_need, destroy_trx, commit, rollback
  <1>11. phase'[t] = "commit" => pos'[t] = 1
    BY <1>1 DEF TypeOK, start_if_need, destroy_trx, commit, rollback
  <1>12. commit_lsn' \in [Trxs -> Nat]
    BY <1>3 DEF RInv, RecoveryTypeOK
  <1>13. CommitInv'
    <2>1. \A u \in Trxs : commit_lsn'[u] > 0 => phase'[u] = "commit" /\ pos'[u] > Len(operations'[u])
      BY <1>3, <1>9, <1>10 DEF RInv, CommitInv
    <2>2. \A u \in Trxs : phase'[u] = "commit" =>
            \/ pos'[u] = 1
            \/ /\ phase[u] = "commit" /\ operations'[u] = operations[u]
               /\ commit_xid'[u] = commit_xid[u] /\ pos'[u] = pos[u]
               /\ commit_lsn'[u] = commit_lsn[u]
      BY <1>3, <1>10, <1>11
    <2> QED BY <1>4, <1>12, <2>1, <2>2, QuietCommits
  <1> QED BY <1>1, <1>4, <1>5, <1>6, <1>7, <1>8, <1>13 DEF RInv

(* The commit appends its entry. *)
LEMMA LogCommitRInv ==
  ASSUME RInv, Working, NEW t \in Trxs, LogCommit(t)
  PROVE  RInv'
  <1>1. UNCHANGED vars /\ TypeOK' /\ ObjectsInv'
    BY ObjectsNext DEF RInv, RecoveryTypeOK, LogCommit
  <1>2. /\ UNCHANGED rowVars /\ page_lsn' = page_lsn /\ phase' = phase /\ operations' = operations
        /\ commit_xid' = commit_xid /\ pos' = pos
        /\ flushed_lsn' = flushed_lsn /\ check_point_lsn' = check_point_lsn /\ disk' = disk
        /\ acked' = acked /\ crashes' = crashes
    BY <1>1 DEF LogCommit, vars, trxVars, pageVars
  <1>3. PICK x : x = TrxEntry("COMMIT", t)
    OBVIOUS
  <1>4. trx_id[t] > 0
    BY DEF RInv, ObjectsInv, ObjInv, RecoveryTypeOK, TypeOK, LogCommit, Working
  <1>5. x \in TrxEntries
    BY <1>3, <1>4, TrxEntryType DEF RInv, RecoveryTypeOK
  <1>6. LogInv' /\ QuietStep /\ Len(log') = Len(log) + 1 /\ Len(log) \in Nat
    BY <1>2, <1>3, <1>5, AppendTrx DEF RInv, LogCommit, AppendLog
  <1>7. MemoryInv' /\ EntriesFit'
    BY <1>6, QuietPages DEF RInv
  <1>8. /\ commit_lsn[t] = 0 /\ commit_lsn'[t] = Len(log) + 1
        /\ \A u \in Trxs : u # t => commit_lsn'[u] = commit_lsn[u]
        /\ commit_lsn' \in [Trxs -> 0 .. Len(log')] /\ commit_lsn' \in [Trxs -> Nat]
    BY <1>6 DEF LogCommit, RInv, RecoveryTypeOK
  <1>9. RecoveryTypeOK'
    BY <1>1, <1>2, <1>6, <1>8 DEF RInv, RecoveryTypeOK
  <1>10. DiskInv'
    BY <1>2, <1>6, LongerDisk DEF RInv, RecoveryTypeOK, QuietStep
  <1>11. AckedInv'
    BY <1>2, <1>6, QuietAcked DEF RInv, RecoveryTypeOK
  <1>12. CommitInv'
    <2>1. \A u \in Trxs : commit_lsn'[u] > 0 => phase'[u] = "commit" /\ pos'[u] > Len(operations'[u])
      BY <1>2, <1>8 DEF RInv, CommitInv, LogCommit
    <2>2. \A u \in Trxs : commit_lsn'[u] = commit_lsn[u] \/ (commit_lsn[u] = 0 /\ commit_lsn'[u] > Len(log))
      BY <1>6, <1>8
    <2> QED BY <1>2, <1>6, <1>8, <2>1, <2>2, QuietCommits
  <1> QED BY <1>1, <1>6, <1>7, <1>9, <1>10, <1>11, <1>12 DEF RInv

(* The rollback appends its own. *)
LEMMA RollbackDoneRInv ==
  ASSUME RInv, Working, NEW t \in Trxs, LoggedRollbackDone(t)
  PROVE  RInv'
  <1>1. RollbackDone(t) /\ TypeOK /\ TypeOK' /\ ObjectsInv'
    BY ObjectsNext DEF RInv, RecoveryTypeOK, LoggedRollbackDone, Next, TrxStep
  <1>2. /\ UNCHANGED rowVars /\ page_lsn' = page_lsn
        /\ flushed_lsn' = flushed_lsn /\ check_point_lsn' = check_point_lsn /\ disk' = disk
        /\ commit_lsn' = commit_lsn /\ acked' = acked /\ crashes' = crashes
    BY <1>1 DEF LoggedRollbackDone, RollbackDone, pageVars
  <1>3. /\ phase[t] = "rollback" /\ phase'[t] = "run"
        /\ \A u \in Trxs : u # t => /\ phase'[u] = phase[u] /\ operations'[u] = operations[u]
                                    /\ commit_xid'[u] = commit_xid[u] /\ pos'[u] = pos[u]
    BY <1>1 DEF RollbackDone, TypeOK
  <1>4. PICK x : x = TrxEntry("ROLLBACK", t)
    OBVIOUS
  <1>5. trx_id[t] > 0
    BY <1>3 DEF RInv, ObjectsInv, ObjInv, RecoveryTypeOK, TypeOK, Working
  <1>6. x \in TrxEntries
    BY <1>4, <1>5, TrxEntryType DEF RInv, RecoveryTypeOK
  <1>7. LogInv' /\ QuietStep /\ Len(log') = Len(log) + 1 /\ Len(log) \in Nat
    BY <1>2, <1>4, <1>6, AppendTrx DEF RInv, LoggedRollbackDone, AppendLog
  <1>8. MemoryInv' /\ EntriesFit'
    BY <1>7, QuietPages DEF RInv
  <1>9. RecoveryTypeOK'
    BY <1>1, <1>2, <1>7 DEF RInv, RecoveryTypeOK
  <1>10. DiskInv'
    BY <1>2, <1>7, LongerDisk DEF RInv, RecoveryTypeOK, QuietStep
  <1>11. AckedInv'
    BY <1>2, <1>7, QuietAcked DEF RInv, RecoveryTypeOK
  <1>12. CommitInv'
    <2>1. commit_lsn' \in [Trxs -> Nat] /\ ~(commit_lsn[t] > 0)
      BY <1>2, <1>3 DEF RInv, RecoveryTypeOK, CommitInv
    <2>2. \A u \in Trxs : commit_lsn'[u] > 0 => phase'[u] = "commit" /\ pos'[u] > Len(operations'[u])
      BY <1>2, <1>3, <2>1 DEF RInv, CommitInv
    <2> QED BY <1>2, <1>3, <1>7, <2>1, <2>2, QuietCommits
  <1> QED BY <1>1, <1>7, <1>8, <1>9, <1>10, <1>11, <1>12 DEF RInv

(* The commit returns after its entry is on disk: the rows it inserted are *)
(* held by entries up to that one, so by flushed ones.                     *)
LEMMA CommitReturnsRInv ==
  ASSUME RInv, NEW t \in Trxs, CommitReturns(t)
  PROVE  RInv'
  <1>1. CommitDone(t) /\ TypeOK /\ TypeOK' /\ ObjectsInv'
    BY ObjectsNext DEF RInv, RecoveryTypeOK, CommitReturns, Next, TrxStep
  <1>2. /\ UNCHANGED rowVars /\ log' = log /\ page_lsn' = page_lsn
        /\ flushed_lsn' = flushed_lsn /\ check_point_lsn' = check_point_lsn /\ disk' = disk
        /\ crashes' = crashes
    BY <1>1 DEF CommitReturns, CommitDone, logVars, pageVars
  <1>3. /\ phase[t] = "commit" /\ phase'[t] = "run" /\ pos[t] > Len(operations[t])
        /\ commit_lsn[t] > 0 /\ flushed_lsn >= commit_lsn[t]
        /\ \A u \in Trxs : u # t => /\ phase'[u] = phase[u] /\ operations'[u] = operations[u]
                                    /\ commit_xid'[u] = commit_xid[u] /\ pos'[u] = pos[u]
    BY <1>1 DEF CommitReturns, CommitDone, TypeOK
  <1>4. /\ commit_lsn'[t] = 0 /\ \A u \in Trxs : u # t => commit_lsn'[u] = commit_lsn[u]
        /\ commit_lsn' \in [Trxs -> 0 .. Len(log)] /\ commit_lsn' \in [Trxs -> Nat] /\ Len(log) \in Nat
    BY EntryTypes DEF CommitReturns, RInv, RecoveryTypeOK
  <1>5. LogInv' /\ QuietStep
    BY <1>2, SameLog DEF RInv
  <1>6. MemoryInv' /\ EntriesFit'
    BY <1>5, QuietPages DEF RInv
  <1>7. RecoveryTypeOK'
    BY <1>1, <1>2, <1>4 DEF RInv, RecoveryTypeOK
  <1>8. DiskInv'
    BY <1>2, <1>5, LongerDisk DEF RInv, RecoveryTypeOK, QuietStep
  <1>9. CommitInv'
    <2>1. \A u \in Trxs : commit_lsn'[u] > 0 => phase'[u] = "commit" /\ pos'[u] > Len(operations'[u])
      BY <1>3, <1>4 DEF RInv, CommitInv
    <2> QED BY <1>3, <1>4, <1>5, <2>1, QuietCommits
  <1>10. AckedInv'
    <2>1. PICK f : f = flushed_lsn
      OBVIOUS
    <2>2. ASSUME NEW a \in acked'
          PROVE  a.rid \in Rids /\ a.begin \in Nat \ {0} /\ Held(a.rid, a.begin, f)
      <3>1. CASE a \in acked
        BY <2>1, <3>1 DEF RInv, AckedInv
      <3>2. CASE a \notin acked
        <4>1. PICK i \in DOMAIN operations[t] :
                     /\ operations[t][i].type = "INSERT"
                     /\ a = [rid |-> operations[t][i].rid, begin |-> commit_xid[t]]
          BY <2>2, <3>2 DEF CommitReturns
        <4>2. i \in 1 .. Len(operations[t]) /\ i < pos[t] /\ operations[t][i].rid \in Rids
          <5>1. operations[t] \in Seq(Operation) /\ pos[t] \in Int
            BY <1>1 DEF TypeOK
          <5>2. i \in 1 .. Len(operations[t]) /\ Len(operations[t]) \in Nat
            BY <4>1, <5>1
          <5>3. i < pos[t]
            BY <1>3, <5>1, <5>2
          <5> QED BY <1>1, <5>2, <5>3, OpTypes
        <4>3. Held(operations[t][i].rid, commit_xid[t], commit_lsn[t])
          BY <1>3, <4>1, <4>2 DEF RInv, CommitInv
        <4>4. commit_xid[t] \in Nat \ {0}
          BY <1>1, <1>3 DEF RInv, ObjectsInv, RunIds, TypeOK
        <4>5. commit_lsn[t] \in Nat /\ f \in Nat /\ commit_lsn[t] <= f
          BY <1>3, <2>1 DEF RInv, RecoveryTypeOK
        <4>6. Held(operations[t][i].rid, commit_xid[t], f)
          BY <4>3, <4>5, HeldLater
        <4> QED BY <4>1, <4>2, <4>4, <4>6
      <3> QED BY <3>1, <3>2
    <2>3. ASSUME NEW a \in acked'
          PROVE  a.rid \in Rids /\ a.begin \in Nat \ {0} /\ Held(a.rid, a.begin, f)'
      BY <1>5, <2>2, QuietHolds
    <2> QED BY <1>2, <2>1, <2>3 DEF AckedInv, Held, EntryOf, IsRecord
  <1> QED BY <1>1, <1>5, <1>6, <1>7, <1>8, <1>9, <1>10 DEF RInv

(* The steps that write to the disk, and those that do nothing. *)
LEMMA DiskStepRInv ==
  ASSUME RInv, UNCHANGED <<vars, log, page_lsn, commit_lsn, acked, crashes>>,
         flushed_lsn' \in flushed_lsn .. Len(log), check_point_lsn' \in 0 .. flushed_lsn',
         disk' \in [Rids -> Page], DiskInv'
  PROVE  RInv'
  <1>1. TypeOK' /\ ObjectsInv'
    BY ObjectsNext DEF RInv, RecoveryTypeOK
  <1>2. /\ UNCHANGED rowVars /\ log' = log /\ page_lsn' = page_lsn /\ phase' = phase /\ pos' = pos
        /\ operations' = operations /\ commit_xid' = commit_xid /\ commit_lsn' = commit_lsn
        /\ acked' = acked /\ crashes' = crashes
    BY DEF vars, trxVars
  <1>3. LogInv' /\ QuietStep /\ Len(log) \in Nat
    BY <1>2, SameLog, EntryTypes DEF RInv
  <1>4. MemoryInv' /\ EntriesFit'
    BY <1>3, QuietPages DEF RInv
  <1>5. flushed_lsn' \in Nat /\ flushed_lsn' >= flushed_lsn /\ flushed_lsn' <= Len(log)
    BY <1>3 DEF RInv, RecoveryTypeOK
  <1>6. RecoveryTypeOK'
    BY <1>1, <1>2, <1>5 DEF RInv, RecoveryTypeOK
  <1>7. AckedInv'
    BY <1>2, <1>3, <1>5, QuietAcked
  <1>8. CommitInv'
    <2>1. commit_lsn' \in [Trxs -> Nat]
      BY <1>2, <1>3 DEF RInv, RecoveryTypeOK
    <2>2. \A u \in Trxs : commit_lsn'[u] > 0 => phase'[u] = "commit" /\ pos'[u] > Len(operations'[u])
      BY <1>2 DEF RInv, CommitInv
    <2> QED BY <1>2, <1>3, <2>1, <2>2, QuietCommits
  <1> QED BY <1>1, <1>3, <1>4, <1>6, <1>7, <1>8 DEF RInv

LEMMA FlushLogRInv ==
  ASSUME RInv, FlushLog \/ UNCHANGED rvars
  PROVE  RInv'
  <1>1. /\ UNCHANGED <<vars, log, page_lsn, commit_lsn, acked, crashes>>
        /\ check_point_lsn' = check_point_lsn /\ disk' = disk
    BY DEF FlushLog, rvars, logVars, pageVars
  <1>2. Len(log) \in Nat /\ flushed_lsn \in 0 .. Len(log) /\ check_point_lsn \in 0 .. flushed_lsn
    BY EntryTypes DEF RInv, RecoveryTypeOK
  <1>3. flushed_lsn' \in flushed_lsn .. Len(log) /\ flushed_lsn' \in Nat /\ flushed_lsn' >= flushed_lsn
    BY <1>2 DEF FlushLog, rvars, logVars
  <1>4. Longer
    BY <1>1, <1>2 DEF Longer
  <1>5. DiskInv'
    BY <1>1, <1>3, <1>4, LongerDisk DEF RInv
  <1>6. disk' \in [Rids -> Page] /\ check_point_lsn' \in 0 .. flushed_lsn'
    BY <1>1, <1>2, <1>3 DEF RInv, RecoveryTypeOK
  <1> QED BY <1>1, <1>3, <1>5, <1>6, DiskStepRInv

(* A page is written after the entries that changed it, so the one on disk *)
(* was left by a flushed entry.                                            *)
LEMMA FlushPageRInv ==
  ASSUME RInv, NEW r \in Rids, FlushPage(r)
  PROVE  RInv'
  <1>1. /\ UNCHANGED <<vars, log, page_lsn, commit_lsn, acked, crashes>>
        /\ check_point_lsn' = check_point_lsn /\ flushed_lsn' = flushed_lsn
    BY DEF FlushPage, logVars
  <1>2. /\ Len(log) \in Nat /\ flushed_lsn \in 0 .. Len(log) /\ check_point_lsn \in 0 .. flushed_lsn
    BY EntryTypes DEF RInv, RecoveryTypeOK
  <1>3. Memory[r] \in Page /\ Memory[r].lsn = page_lsn[r] /\ page_lsn[r] <= flushed_lsn
    BY MemoryPage DEF RInv, FlushPage
  <1>4. /\ disk' \in [Rids -> Page] /\ disk'[r] = Memory[r]
        /\ \A q \in Rids : q # r => disk'[q] = disk[q]
    BY <1>3 DEF FlushPage, RInv, RecoveryTypeOK
  <1>5. DiskInv'
    <2> SUFFICES ASSUME NEW q \in Rids
                 PROVE  /\ LeftBy(q, disk[q])'
                        /\ disk'[q].lsn <= flushed_lsn'
                        /\ \A i \in 1 .. check_point_lsn' : EntryOf(i, q)' => i <= disk'[q].lsn
      BY DEF DiskInv
    <2>1. \A i : EntryOf(i, q)' <=> EntryOf(i, q)
      BY <1>1 DEF EntryOf, IsRecord
    <2>2. CASE q = r
      <3>1. LeftBy(r, Memory[r]) /\ \A i \in 1 .. Len(log) : EntryOf(i, r) => i <= page_lsn[r]
        BY DEF RInv, MemoryInv
      <3>2. LeftBy(q, disk[q])'
        BY <1>1, <1>4, <2>1, <2>2, <3>1 DEF LeftBy
      <3> QED BY <1>1, <1>2, <1>3, <1>4, <2>1, <2>2, <3>1, <3>2
    <2>3. CASE q # r
      <3>1. LeftBy(q, disk[q])'
        BY <1>1, <1>4, <2>1, <2>3 DEF LeftBy, RInv, DiskInv
      <3> QED BY <1>1, <1>4, <2>1, <2>3, <3>1 DEF RInv, DiskInv
    <2> QED BY <2>2, <2>3
  <1> QED BY <1>1, <1>2, <1>4, <1>5, DiskStepRInv

LEMMA SyncRInv ==
  ASSUME RInv, Sync
  PROVE  RInv'
  <1>1. /\ UNCHANGED <<vars, log, page_lsn, commit_lsn, acked, crashes>>
        /\ check_point_lsn' = Len(log) /\ flushed_lsn' = Len(log) /\ disk' = Memory
    BY DEF Sync
  <1>2. Len(log) \in Nat /\ flushed_lsn \in 0 .. Len(log)
    BY EntryTypes DEF RInv, RecoveryTypeOK
  <1>3. \A q \in Rids : Memory[q] \in Page /\ Memory[q].lsn = page_lsn[q] /\ page_lsn[q] <= Len(log)
    BY <1>2, MemoryPage DEF RInv, RecoveryTypeOK
  <1>4. Memory \in [Rids -> Page]
    BY <1>3 DEF Memory
  <1>5. DiskInv'
    <2> SUFFICES ASSUME NEW q \in Rids
                 PROVE  /\ LeftBy(q, disk[q])'
                        /\ disk'[q].lsn <= flushed_lsn'
                        /\ \A i \in 1 .. check_point_lsn' : EntryOf(i, q)' => i <= disk'[q].lsn
      BY DEF DiskInv
    <2>1. \A i : EntryOf(i, q)' <=> EntryOf(i, q)
      BY <1>1 DEF EntryOf, IsRecord
    <2>2. LeftBy(q, Memory[q]) /\ \A i \in 1 .. Len(log) : EntryOf(i, q) => i <= page_lsn[q]
      BY DEF RInv, MemoryInv
    <2>3. disk'[q] = Memory[q]
      BY <1>1
    <2>4. LeftBy(q, disk[q])'
      BY <1>1, <2>1, <2>2, <2>3 DEF LeftBy
    <2> QED BY <1>1, <1>3, <2>1, <2>2, <2>3, <2>4
  <1> QED BY <1>1, <1>2, <1>4, <1>5, DiskStepRInv

-----------------------------------------------------------------------------
(* A crash cuts the log at the last flushed entry, and the replay gives    *)
(* every page the state that the last entry left of it has left.           *)

LEMMA CrashLog ==
  ASSUME RInv, CrashRecover, NEW f, f = flushed_lsn
  PROVE  /\ f \in Nat /\ f <= Len(log) /\ LogInv' /\ Len(log') = f
         /\ \A i \in 1 .. f : log'[i] = log[i]
         /\ \A i, r : EntryOf(i, r)' <=> i <= f /\ EntryOf(i, r)
  <1> DEFINE E == RecordEntries \cup TrxEntries
  <1>1. Len(log) \in Nat /\ f \in Nat /\ f <= Len(log)
    BY EntryTypes DEF RInv, RecoveryTypeOK
  <1>2. \A i \in 1 .. f : log[i] \in E
    BY <1>1, EntryTypes DEF RInv
  <1>3. log' = SubSeq(log, 1, f)
    BY DEF CrashRecover
  <1> HIDE DEF E
  <1>4. /\ log' \in Seq(E) /\ Len(log') = IF 1 <= f THEN f - 1 + 1 ELSE 0
        /\ \A i \in 1 .. f - 1 + 1 : log'[i] = log[1 + i - 1]
    BY <1>1, <1>2, <1>3, SubSeqProperties
  <1>5. Len(log') = f /\ \A i \in 1 .. f : log'[i] = log[i]
    BY <1>1, <1>4
  <1>6. LogInv'
    BY <1>4 DEF LogInv, E
  <1>7. ASSUME NEW i, NEW r PROVE EntryOf(i, r)' <=> i <= f /\ EntryOf(i, r)
    <2>1. CASE i \in 1 .. f
      BY <1>1, <1>5, <2>1 DEF EntryOf, IsRecord
    <2>2. CASE ~(i \in 1 .. f)
      BY <1>1, <1>5, <2>2 DEF EntryOf
    <2> QED BY <2>1, <2>2
  <1> QED BY <1>1, <1>5, <1>6, <1>7

(* The counter restarts at an id of the log. *)
LEMMA CrashCounter ==
  ASSUME RInv
  PROVE  ReplayedTrxId(flushed_lsn) \in 0 .. IdBound
  <1> DEFINE S == {0} \cup {log[i].trx_id : i \in {j \in ReplayFrom .. flushed_lsn : ~IsRecord(j)}}
  <1>1. Len(log) \in Nat /\ flushed_lsn \in 0 .. Len(log) /\ check_point_lsn \in Nat
    BY EntryTypes DEF RInv, RecoveryTypeOK
  <1>2. ReplayFrom \in Nat \ {0}
    BY <1>1, ReplayStart
  <1>3. \A j \in ReplayFrom .. flushed_lsn : ~IsRecord(j) => log[j].trx_id \in 0 .. IdBound
    <2> SUFFICES ASSUME NEW j \in ReplayFrom .. flushed_lsn, ~IsRecord(j) PROVE log[j].trx_id \in 0 .. IdBound
      OBVIOUS
    <2>1. j \in 1 .. Len(log)
      BY <1>1, <1>2
    <2>2. log[j] \in TrxEntries
      BY <2>1, EntryTypes DEF RInv
    <2> QED BY <2>2, BoundAssumption DEF TrxEntries
  <1>4. S \subseteq 0 .. IdBound /\ S # {}
    BY <1>3, BoundAssumption
  <1>5. Max(S) \in S
    <2> HIDE DEF S
    <2> QED BY <1>4, MaxOf, BoundAssumption
  <1> QED BY <1>4, <1>5 DEF ReplayedTrxId

LEMMA CrashRInv ==
  ASSUME RInv, CrashRecover
  PROVE  RInv'
  <1>0. PICK f : f = flushed_lsn
    OBVIOUS
  <1>1. /\ f \in Nat /\ f <= Len(log) /\ LogInv' /\ Len(log') = f /\ Len(log) \in Nat
        /\ \A i \in 1 .. f : log'[i] = log[i]
        /\ \A i, r : EntryOf(i, r)' <=> i <= f /\ EntryOf(i, r)
    BY <1>0, CrashLog, EntryTypes DEF RInv
  <1>2. PICK pg : pg = [r \in Rids |-> ReplayRecord(r, f)]
    OBVIOUS
  <1>3. ASSUME NEW r \in Rids
        PROVE  /\ pg[r] \in Page /\ LeftBy(r, pg[r]) /\ \A i \in 1 .. f : EntryOf(i, r) => i <= pg[r].lsn
               /\ pg[r].lsn <= f /\ pg[r].lsn \in Nat /\ pg[r].begin \in Int /\ pg[r].end \in Int
    <2>1. PICK p : p = ReplayRecord(r, f)
      OBVIOUS
    <2>2. /\ p \in Page /\ LeftBy(r, p) /\ \A i \in 1 .. f : EntryOf(i, r) => i <= p.lsn
          /\ p.lsn <= f \/ p.lsn = disk[r].lsn
      BY <1>0, <1>1, <2>1, Replayed DEF RInv
    <2>3. p.lsn <= f
      BY <1>0, <2>2 DEF RInv, DiskInv
    <2>4. pg[r] = p
      BY <1>2, <2>1
    <2> QED BY <2>2, <2>3, <2>4 DEF Page
  <1>4. /\ rows' = {r \in Rids : pg[r].used}
        /\ begin_xid' = [r \in Rids |-> pg[r].begin]
        /\ end_xid' = [r \in Rids |-> pg[r].end]
        /\ page_lsn' = [r \in Rids |-> pg[r].lsn]
    BY <1>0, <1>2 DEF CrashRecover, Redo
  <1>5. /\ trx_id' = [t \in Trxs |-> -1] /\ started' = [t \in Trxs |-> FALSE]
        /\ operations' = [t \in Trxs |-> <<>>] /\ phase' = [t \in Trxs |-> "run"]
        /\ commit_xid' = [t \in Trxs |-> 0] /\ pos' = [t \in Trxs |-> 0]
        /\ commit_lsn' = [t \in Trxs |-> 0]
        /\ flushed_lsn' = f /\ check_point_lsn' = check_point_lsn /\ disk' = disk /\ acked' = acked
        /\ crashes' \in 0 .. CrashBound
    BY <1>0, RecoveryAssumption DEF CrashRecover, RInv, RecoveryTypeOK
  <1>6. current_trx_id' \in 0 .. IdBound
    BY CrashCounter DEF CrashRecover
  <1>7. TypeOK'
    <2>1. rows' \in SUBSET Rids /\ begin_xid' \in [Rids -> Int] /\ end_xid' \in [Rids -> Int]
      BY <1>3, <1>4
    <2>2. /\ trx_id' \in [Trxs -> Int] /\ started' \in [Trxs -> BOOLEAN]
          /\ operations' \in [Trxs -> Seq(Operation)] /\ phase' \in [Trxs -> {"run", "commit", "rollback"}]
          /\ commit_xid' \in [Trxs -> Int] /\ pos' \in [Trxs -> Int]
      BY <1>5
    <2> QED BY <1>6, <2>1, <2>2 DEF TypeOK
  <1>8. RecoveryTypeOK'
    <2>1. page_lsn' \in [Rids -> 0 .. f]
      BY <1>1, <1>3, <1>4
    <2>2. commit_lsn' \in [Trxs -> 0 .. f]
      BY <1>1, <1>5
    <2> QED BY <1>0, <1>1, <1>5, <1>7, <2>1, <2>2 DEF RInv, RecoveryTypeOK
  <1>9. ObjectsInv'
    <2>1. \A t \in Trxs : Pending(t)' = {}
      BY <1>5 DEF Pending
    <2> QED BY <1>5, <2>1 DEF ObjectsInv, RunIds, ObjInv, InsertFirst, PendingRows, InserterAlone
  <1>10. MemoryInv'
    <2> SUFFICES ASSUME NEW r \in Rids
                 PROVE  /\ LeftBy(r, Memory[r])'
                        /\ \A i \in 1 .. Len(log') : EntryOf(i, r)' => i <= page_lsn'[r]
      BY DEF MemoryInv
    <2>1. /\ Memory'[r].lsn = pg[r].lsn /\ Memory'[r].begin = pg[r].begin /\ Memory'[r].end = pg[r].end
          /\ Memory'[r].used <=> pg[r].used
      BY <1>4 DEF Memory
    <2>2. pg[r].lsn # 0 => EntryOf(pg[r].lsn, r)' /\ log'[pg[r].lsn] = log[pg[r].lsn]
      BY <1>1, <1>3 DEF LeftBy
    <2>3. LeftBy(r, Memory[r])'
      BY <1>3, <2>1, <2>2 DEF LeftBy
    <2> QED BY <1>1, <1>3, <1>4, <2>3
  <1>11. DiskInv'
    <2> SUFFICES ASSUME NEW r \in Rids
                 PROVE  /\ LeftBy(r, disk[r])'
                        /\ disk'[r].lsn <= flushed_lsn'
                        /\ \A i \in 1 .. check_point_lsn' : EntryOf(i, r)' => i <= disk'[r].lsn
      BY DEF DiskInv
    <2>1. LeftBy(r, disk[r]) /\ disk[r].lsn <= f /\ disk[r].lsn \in Nat
      BY <1>0 DEF RInv, DiskInv, RecoveryTypeOK, Page
    <2>2. PICK d : d = disk[r]
      OBVIOUS
    <2>3. d.lsn # 0 => EntryOf(d.lsn, r)' /\ log'[d.lsn] = log[d.lsn]
      BY <1>1, <2>1, <2>2 DEF LeftBy
    <2>4. LeftBy(r, disk[r])'
      BY <1>5, <2>1, <2>2, <2>3 DEF LeftBy
    <2> QED BY <1>1, <1>5, <2>1, <2>4 DEF RInv, DiskInv
  <1>12. EntriesFit'
    <2> SUFFICES ASSUME NEW r \in Rids, NEW j \in 1 .. Len(log'), EntryOf(j, r)'
                 PROVE  \E i \in 0 .. j - 1 :
                          /\ Before(r, i, j)'
                          /\ log'[j].op = "INSERT" <=> (i = 0 \/ log'[i].op = "DELETE")
      BY DEF EntriesFit
    <2>1. EntryOf(j, r) /\ j \in 1 .. Len(log) /\ j \in 1 .. f /\ log'[j] = log[j]
      BY <1>1
    <2>2. PICK i \in 0 .. j - 1 :
                 Before(r, i, j) /\ (log[j].op = "INSERT" <=> (i = 0 \/ log[i].op = "DELETE"))
      BY <2>1 DEF RInv, EntriesFit
    <2>3. i # 0 => EntryOf(i, r)' /\ log'[i] = log[i]
      BY <1>1, <2>1, <2>2 DEF Before
    <2>4. \A k \in i + 1 .. j - 1 : ~EntryOf(k, r)'
      BY <1>1, <2>2 DEF Before
    <2> QED BY <2>1, <2>2, <2>3, <2>4 DEF Before
  <1>13. CommitInv'
    BY <1>5 DEF CommitInv
  <1>14. AckedInv'
    <2>1. ASSUME NEW a \in acked
          PROVE  a.rid \in Rids /\ a.begin \in Nat \ {0} /\ Held(a.rid, a.begin, f)'
      <3>1. a.rid \in Rids /\ a.begin \in Nat \ {0} /\ Held(a.rid, a.begin, f)
        BY <1>0 DEF RInv, AckedInv
      <3>2. PICK i \in 1 .. f : EntryOf(i, a.rid) /\ \A j \in i .. Len(log) :
                   EntryOf(j, a.rid) => log[j].op # "DELETE" /\ log[j].begin = a.begin
        BY <3>1 DEF Held
      <3>3. \A j \in i .. Len(log') : EntryOf(j, a.rid)' => log'[j].op # "DELETE" /\ log'[j].begin = a.begin
        <4> SUFFICES ASSUME NEW j \in i .. Len(log'), EntryOf(j, a.rid)'
                     PROVE  log'[j].op # "DELETE" /\ log'[j].begin = a.begin
          OBVIOUS
        <4>1. j \in i .. Len(log) /\ log'[j] = log[j] /\ EntryOf(j, a.rid)
          BY <1>1, <3>2
        <4> QED BY <3>2, <4>1
      <3>4. EntryOf(i, a.rid)'
        BY <1>1, <3>2
      <3> QED BY <3>1, <3>3, <3>4 DEF Held
    <2> QED BY <1>5, <2>1 DEF AckedInv, Held, EntryOf, IsRecord
  <1> QED BY <1>1, <1>8, <1>9, <1>10, <1>11, <1>12, <1>13, <1>14 DEF RInv

-----------------------------------------------------------------------------
LEMMA WorkingNext ==
  ASSUME RInv, Working, [RecoveryNext]_rvars
  PROVE  Working'
  <1> USE DEF Working, TypeOK
  <1>0. TypeOK
    BY DEF RInv, RecoveryTypeOK
  <1>1. ASSUME NEW t \in Trxs, start_if_need(t) PROVE Working'
    BY <1>1 DEF start_if_need
  <1>2. ASSUME NEW t \in Trxs, operations[t] # <<>>, commit(t) \/ rollback(t) PROVE Working'
    BY <1>0, <1>2 DEF commit, rollback
  <1>3. ASSUME NEW t \in Trxs, CommitDone(t) \/ RollbackDone(t) \/ destroy_trx(t) PROVE Working'
    BY <1>0, <1>3 DEF CommitDone, RollbackDone, destroy_trx
  <1>4. ASSUME NEW t \in Trxs, CommitOperation(t) \/ RollbackOperation(t) PROVE Working'
    BY <1>4 DEF CommitOperation, RollbackOperation
  <1>5. ASSUME NEW t \in Trxs, NEW r \in Rids, insert_record(t, r) \/ delete_record(t, r) PROVE Working'
    BY <1>0, <1>5 DEF insert_record, delete_record
  <1>6. ASSUME NEW r \in Rids, load_data(r) PROVE Working'
    BY <1>6 DEF load_data, trxVars
  <1>7. CASE UNCHANGED vars
    BY <1>7 DEF vars, trxVars
  <1>8. CASE CrashRecover
    BY <1>8 DEF CrashRecover
  <1> HIDE DEF Working
  <1>9. CASE UNCHANGED rvars
    BY <1>7, <1>9 DEF rvars
  <1>10. CASE FlushLog \/ Sync \/ \E r \in Rids : LoggedLoad(r) \/ FlushPage(r)
    BY <1>6, <1>7, <1>10 DEF FlushLog, Sync, LoggedLoad, FlushPage
  <1>11. ASSUME NEW t \in Trxs,
                \/ (start_if_need(t) \/ destroy_trx(t)) /\ Unlogged
                \/ operations[t] # <<>> /\ (commit(t) \/ rollback(t)) /\ Unlogged
                \/ \E r \in Rids : LoggedInsert(t, r) \/ LoggedDelete(t, r)
                \/ LoggedCommitOperation(t)
                \/ LogCommit(t)
                \/ CommitReturns(t)
                \/ LoggedRollbackOperation(t)
                \/ LoggedRollbackDone(t)
         PROVE  Working'
    BY <1>1, <1>2, <1>3, <1>4, <1>5, <1>7, <1>11
       DEF LoggedInsert, LoggedDelete, LoggedCommitOperation, LogCommit, CommitReturns,
           LoggedRollbackOperation, LoggedRollbackDone
  <1> QED BY <1>8, <1>9, <1>10, <1>11 DEF RecoveryNext

LEMMA RInvInit == RecoveryInit => RInv /\ Working
  <1> SUFFICES ASSUME RecoveryInit PROVE RInv /\ Working
    OBVIOUS
  <1>1. TypeOK /\ Init /\ log = <<>> /\ flushed_lsn = 0 /\ check_point_lsn = 0 /\ acked = {}
        /\ page_lsn = [r \in Rids |-> 0] /\ disk = Memory /\ crashes = 0
        /\ commit_lsn = [t \in Trxs |-> 0]
    BY TypeInit DEF RecoveryInit
  <1>2. Len(log) = 0 /\ \A i, r : ~EntryOf(i, r)
    BY <1>1 DEF EntryOf
  <1>3. \A r \in Rids : /\ Memory[r].lsn = 0 /\ ~Memory[r].used /\ Memory[r] \in Page
                        /\ disk[r] = Memory[r] /\ page_lsn[r] = 0
    <2> TAKE r \in Rids
    <2>1. /\ Memory[r].lsn = page_lsn[r] /\ page_lsn[r] = 0 /\ disk[r] = Memory[r]
          /\ Memory[r].used = (r \in rows) /\ Memory[r].begin = begin_xid[r] /\ Memory[r].end = end_xid[r]
      BY <1>1 DEF Memory
    <2>2. rows = {} /\ begin_xid[r] = 0 /\ end_xid[r] = 0
      BY <1>1 DEF Init
    <2>3. Memory[r] \in Page
      BY <2>1, <2>2 DEF Memory, Page
    <2> QED BY <2>1, <2>2, <2>3
  <1>4. disk \in [Rids -> Page]
    BY <1>1, <1>3 DEF Memory
  <1>5. RecoveryTypeOK
    BY <1>1, <1>2, <1>4, RecoveryAssumption DEF RecoveryTypeOK
  <1>6. ObjectsInv
    BY <1>1 DEF Init, ObjectsInv, RunIds, ObjInv, InsertFirst, PendingRows, InserterAlone, Pending
  <1>7. LogInv
    BY <1>1 DEF LogInv
  <1>8. MemoryInv /\ DiskInv /\ EntriesFit
    BY <1>1, <1>2, <1>3 DEF MemoryInv, DiskInv, EntriesFit, LeftBy
  <1>9. CommitInv /\ AckedInv /\ Working
    BY <1>1 DEF CommitInv, AckedInv, Working, Init
  <1> QED BY <1>5, <1>6, <1>7, <1>8, <1>9 DEF RInv

LEMMA RInvNext == RInv /\ Working /\ [RecoveryNext]_rvars => (RInv /\ Working)'
  <1> SUFFICES ASSUME RInv, Working, [RecoveryNext]_rvars PROVE RInv'
    BY WorkingNext
  <1> QED
    BY UnloggedRInv, InsertRInv, DeleteRInv, CommitOperationRInv, LogCommitRInv, CommitReturnsRInv,
       RollbackOperationRInv, RollbackDoneRInv, LoadRInv, FlushPageRInv, FlushLogRInv, SyncRInv, CrashRInv
       DEF RecoveryNext

-----------------------------------------------------------------------------
(* The inductive invariant holds in every state (MvccRecovery.tla).        *)
THEOREM RecoveryInvariance == RecoverySpec => [](RInv /\ Working)
  BY RInvInit, RInvNext, PTL DEF RecoverySpec

(* RecoveryExact: at every moment the pages on disk and the log from the   *)
(* check point give the pages in memory, whatever was flushed and however  *)
(* often the system crashed, and no entry fails in Db::recover.            *)
THEOREM RecoveryIsExact == RecoverySpec => []RecoveryExact
  <1>1. RInv => RecoveryExact
    BY ExactHistory, EveryEntryFits DEF RInv, RecoveryExact
  <1> QED BY <1>1, RecoveryInvariance, PTL

(* CommittedDurable: a row whose commit was acknowledged (mvcc_trx_log.cpp *)
(* MvccTrxLogHandler::commit) stays in its slot with its commit id across  *)
(* every crash.                                                            *)
THEOREM CommitsAreDurable == RecoverySpec => []CommittedDurable
  <1>1. RInv => CommittedDurable
    BY AckedRows DEF RInv
  <1> QED BY <1>1, RecoveryInvariance, PTL

=============================================================================
