--------------------------- MODULE MvccRecovery ----------------------------
(***************************************************************************)
(* Durability of the transactions of MvccTrx.  Every change of a row       *)
(* appends a redo entry of the record manager (record_log.cpp) and every   *)
(* operation of a transaction an entry of its own (mvcc_trx_log.cpp); a    *)
(* commit returns when its entry is on disk.  Pages are written to disk    *)
(* at any time, after the entries they depend on.  After a crash           *)
(* Db::recover replays the log from the check point on the pages found on  *)
(* disk (RecordLogReplayer, MvccTrxLogReplayer).                           *)
(*                                                                         *)
(* An lsn is a position in the log.  The log itself, its files and its     *)
(* flushing thread are those of module DiskLog.  A page holds one row.     *)
(* The log is cut at the last flushed entry by a crash, so the entries an  *)
(* action appends need not be steps of their own.  Transactions without    *)
(* operations, whose COMMIT and ROLLBACK entries do nothing in a replay,   *)
(* are left out.                                                           *)
(***************************************************************************)
EXTENDS MvccTrx, FiniteSetsExt

CONSTANTS
    LogBound,    \* bound on the length of the log when an operation begins
    CrashBound   \* bound on the crashes

ASSUME RecoveryAssumption == LogBound \in Nat /\ CrashBound \in Nat

VARIABLES
    log,              \* the entries appended so far
    flushed_lsn,      \* disk: the entries up to here are in the log files
    check_point_lsn,  \* disk: Db::check_point_lsn_
    disk,             \* disk: the page of each row
    page_lsn,         \* memory: Frame::lsn of the page of each row
    commit_lsn,       \* per transaction: the entry its commit waits for, or 0
    acked,            \* history: the rows whose insertion was acknowledged
    crashes

logVars == <<log, flushed_lsn, check_point_lsn>>
pageVars == <<disk, page_lsn>>
rvars == <<vars, logVars, pageVars, commit_lsn, acked, crashes>>

RecordEntry(op, r) ==
    [module |-> "RECORD_MANAGER", op |-> op, rid |-> r, begin |-> begin_xid'[r], end |-> end_xid'[r]]
TrxEntry(op, t) == [module |-> "TRANSACTION", op |-> op, trx_id |-> trx_id[t]]

Page == [used : BOOLEAN, begin : Int, end : Int, lsn : Nat]

(* The pages as they are in the buffer pool. *)
Memory ==
    [r \in Rids |-> [used |-> r \in rows, begin |-> begin_xid[r], end |-> end_xid[r],
                     lsn |-> page_lsn[r]]]

RecoveryTypeOK ==
    /\ TypeOK
    /\ flushed_lsn \in 0 .. Len(log)
    /\ check_point_lsn \in 0 .. flushed_lsn
    /\ disk \in [Rids -> Page]
    /\ page_lsn \in [Rids -> 0 .. Len(log)]
    /\ commit_lsn \in [Trxs -> 0 .. Len(log)]
    /\ crashes \in 0 .. CrashBound

RecoveryInit ==
    /\ Init
    /\ log = <<>> /\ flushed_lsn = 0 /\ check_point_lsn = 0
    /\ page_lsn = [r \in Rids |-> 0]
    /\ disk = Memory
    /\ commit_lsn = [t \in Trxs |-> 0]
    /\ acked = {}
    /\ crashes = 0

-----------------------------------------------------------------------------
(* Replay. *)

IsRecord(i) == log[i].module = "RECORD_MANAGER"

(* DiskLogHandler::replay hands the entries over in the order of their     *)
(* lsns, from the check point on.                                          *)
ReplayFrom == Max({1, check_point_lsn})

(* RecordLogReplayer::replay of the entries of row r up to an lsn: an      *)
(* entry is skipped when the page already has it, so the entries above the *)
(* lsn found on disk are applied, each one once.                           *)
Applied(r, upto) ==
    {i \in ReplayFrom .. upto : IsRecord(i) /\ log[i].rid = r /\ i > disk[r].lsn}

(* The page they leave.  A DELETE frees the slot and leaves its bytes.     *)
ReplayRecord(r, upto) ==
    LET applied == Applied(r, upto)
        written == {i \in applied : log[i].op # "DELETE"} IN
    [used  |-> IF applied = {} THEN disk[r].used ELSE log[Max(applied)].op # "DELETE",
     begin |-> IF written = {} THEN disk[r].begin ELSE log[Max(written)].begin,
     end   |-> IF written = {} THEN disk[r].end ELSE log[Max(written)].end,
     lsn   |-> Max({disk[r].lsn} \cup applied)]

(* An INSERT into a used slot and an UPDATE or DELETE of a free one are    *)
(* errors of the replay of entry i.                                        *)
ReplayFails(i) ==
    LET p == ReplayRecord(log[i].rid, i - 1) IN
    p.lsn < i /\ (p.used <=> log[i].op = "INSERT")

Redo(upto) == [r \in Rids |-> ReplayRecord(r, upto)]

(* MvccTrxLogReplayer::replay makes a transaction object for every entry,  *)
(* which raises the kit's counter; redo does nothing at COMMIT and         *)
(* ROLLBACK.  The object is not entered into trx_map_, so on_done finds    *)
(* nothing to roll back.                                                   *)
ReplayedTrxId(upto) ==
    Max({0} \cup {log[i].trx_id : i \in {j \in ReplayFrom .. upto : ~IsRecord(j)}})

-----------------------------------------------------------------------------
(* The actions of MvccTrx with the entries they append. *)

AppendLog(es) == log' = log \o es
Room == Len(log) < LogBound

(* A step that changes the row r and appends es, the row's entry first. *)
Logged(r, es) ==
    /\ AppendLog(es)
    /\ page_lsn' = [page_lsn EXCEPT ![r] = Len(log) + 1]
    /\ UNCHANGED <<flushed_lsn, check_point_lsn, disk, commit_lsn, acked, crashes>>

Unlogged == UNCHANGED <<logVars, pageVars, commit_lsn, acked, crashes>>

LoggedInsert(t, r) ==
    /\ Room
    /\ insert_record(t, r)
    /\ Logged(r, <<RecordEntry("INSERT", r), TrxEntry("INSERT_RECORD", t)>>)

LoggedDelete(t, r) ==
    /\ Room
    /\ delete_record(t, r)
    /\ Logged(r, <<RecordEntry("UPDATE", r), TrxEntry("DELETE_RECORD", t)>>)

LoggedCommitOperation(t) ==
    /\ CommitOperation(t)
    /\ LET r == operations[t][pos[t]].rid IN Logged(r, <<RecordEntry("UPDATE", r)>>)

(* MvccTrxLogHandler::commit appends the entry ... *)
LogCommit(t) ==
    /\ phase[t] = "commit"
    /\ pos[t] > Len(operations[t])
    /\ commit_lsn[t] = 0
    /\ AppendLog(<<TrxEntry("COMMIT", t)>>)
    /\ commit_lsn' = [commit_lsn EXCEPT ![t] = Len(log')]
    /\ UNCHANGED <<vars, flushed_lsn, check_point_lsn, pageVars, acked, crashes>>

(* Mutant: the commit does not wait. *)
CommitReturns_NoWait(t) ==
    /\ commit_lsn[t] > 0
    /\ CommitDone(t)
    /\ commit_lsn' = [commit_lsn EXCEPT ![t] = 0]
    /\ acked' = acked \cup
         {[rid |-> operations[t][i].rid, begin |-> commit_xid[t]] :
             i \in {j \in DOMAIN operations[t] : operations[t][j].type = "INSERT"}}
    /\ UNCHANGED <<logVars, pageVars, crashes>>

(* ... and waits for it. *)
CommitReturns(t) ==
    /\ commit_lsn[t] > 0
    /\ flushed_lsn >= commit_lsn[t]
    /\ CommitDone(t)
    /\ commit_lsn' = [commit_lsn EXCEPT ![t] = 0]
    /\ acked' = acked \cup
         {[rid |-> operations[t][i].rid, begin |-> commit_xid[t]] :
             i \in {j \in DOMAIN operations[t] : operations[t][j].type = "INSERT"}}
    /\ UNCHANGED <<logVars, pageVars, crashes>>

LoggedRollbackOperation(t) ==
    /\ RollbackOperation(t)
    /\ LET op == operations[t][pos[t]] IN
         Logged(op.rid, <<RecordEntry(IF op.type = "INSERT" THEN "DELETE" ELSE "UPDATE", op.rid)>>)

LoggedRollbackDone(t) ==
    /\ RollbackDone(t)
    /\ AppendLog(<<TrxEntry("ROLLBACK", t)>>)
    /\ UNCHANGED <<flushed_lsn, check_point_lsn, pageVars, commit_lsn, acked, crashes>>

LoggedLoad(r) ==
    /\ Room
    /\ load_data(r)
    /\ Logged(r, <<RecordEntry("INSERT", r)>>)

-----------------------------------------------------------------------------
(* The flushing thread of the log. *)
FlushLog ==
    /\ flushed_lsn < Len(log)
    /\ flushed_lsn' = flushed_lsn + 1
    /\ UNCHANGED <<vars, log, check_point_lsn, pageVars, commit_lsn, acked, crashes>>

(* Mutant: a page is written before its log. *)
FlushPage_NoWal(r) ==
    /\ disk[r] # Memory[r]
    /\ disk' = [disk EXCEPT ![r] = Memory[r]]
    /\ UNCHANGED <<vars, logVars, page_lsn, commit_lsn, acked, crashes>>

(* DiskBufferPool::flush_page_internal waits for the page's lsn first. *)
FlushPage(r) ==
    /\ page_lsn[r] <= flushed_lsn
    /\ disk[r] # Memory[r]
    /\ disk' = [disk EXCEPT ![r] = Memory[r]]
    /\ UNCHANGED <<vars, logVars, page_lsn, commit_lsn, acked, crashes>>

(* Db::sync, under the constraint its comment states: no transaction is    *)
(* unfinished and none begins.                                             *)
Sync ==
    /\ \A t \in Trxs : phase[t] = "run" /\ ~started[t]
    /\ check_point_lsn < Len(log)
    /\ disk' = Memory
    /\ flushed_lsn' = Len(log)
    /\ check_point_lsn' = Len(log)
    /\ UNCHANGED <<vars, log, page_lsn, commit_lsn, acked, crashes>>

(* The process dies and Db::init runs again. *)
CrashRecover ==
    /\ crashes < CrashBound
    /\ crashes' = crashes + 1
    /\ log' = SubSeq(log, 1, flushed_lsn)
    /\ LET pg == Redo(flushed_lsn) IN
         /\ rows' = {r \in Rids : pg[r].used}
         /\ begin_xid' = [r \in Rids |-> pg[r].begin]
         /\ end_xid' = [r \in Rids |-> pg[r].end]
         /\ page_lsn' = [r \in Rids |-> pg[r].lsn]
    /\ current_trx_id' = ReplayedTrxId(flushed_lsn)
    /\ trx_id' = [t \in Trxs |-> -1]
    /\ started' = [t \in Trxs |-> FALSE]
    /\ operations' = [t \in Trxs |-> <<>>]
    /\ phase' = [t \in Trxs |-> "run"]
    /\ commit_xid' = [t \in Trxs |-> 0]
    /\ pos' = [t \in Trxs |-> 0]
    /\ commit_lsn' = [t \in Trxs |-> 0]
    /\ UNCHANGED <<flushed_lsn, check_point_lsn, disk, acked>>

RecoveryNext ==
    \/ \E t \in Trxs :
         \/ (start_if_need(t) \/ destroy_trx(t)) /\ Unlogged
         \/ operations[t] # <<>> /\ (commit(t) \/ rollback(t)) /\ Unlogged
         \/ \E r \in Rids : LoggedInsert(t, r) \/ LoggedDelete(t, r)
         \/ LoggedCommitOperation(t)
         \/ LogCommit(t)
         \/ CommitReturns(t)
         \/ LoggedRollbackOperation(t)
         \/ LoggedRollbackDone(t)
    \/ \E r \in Rids : LoggedLoad(r) \/ FlushPage(r)
    \/ FlushLog
    \/ Sync
    \/ CrashRecover

RecoverySpec == RecoveryInit /\ [][RecoveryNext]_rvars

-----------------------------------------------------------------------------
(* Recovery repeats history: at every moment, the pages on disk and the    *)
(* log from the check point give the pages in memory (record_log.cpp:206). *)
SamePage(p, q) == p.used = q.used /\ p.lsn = q.lsn /\ (p.used => p = q)

RedoRepeatsHistory ==
    LET final == Redo(Len(log)) IN \A r \in Rids : SamePage(final[r], Memory[r])

(* No entry of the replay meets a slot it cannot be applied to: an insert  *)
(* finds a free slot and a delete or an update a used one, so Db::recover  *)
(* does not fail (record_log.cpp:206-250).                                 *)
ReplaySucceeds ==
    \A i \in ReplayFrom .. Len(log) : IsRecord(i) => ~ReplayFails(i)

(* Durability: a row whose insertion was committed and acknowledged is in  *)
(* its slot with its commit id, whatever crashes.                          *)
CommittedDurable ==
    \A a \in acked : a.rid \in rows /\ begin_xid[a.rid] = a.begin

-----------------------------------------------------------------------------
(* mvcc_trx_log.cpp:179: after the replay the transactions that did not    *)
(* commit are rolled back; so a replayed transaction has no mark left.     *)
LosersRolledBack ==
    [][crashes' > crashes =>
         \A i \in ReplayFrom .. flushed_lsn, r \in rows' :
             ~IsRecord(i) => begin_xid'[r] # -log[i].trx_id /\ end_xid'[r] # -log[i].trx_id]_rvars

(* A restart at any moment brings the pages back as they were, each entry  *)
(* of the log being applied exactly once and none failing.                 *)
RecoveryExact == RecoveryTypeOK /\ RedoRepeatsHistory /\ ReplaySucceeds
=============================================================================
