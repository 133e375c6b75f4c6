-------------------------- MODULE BplusTreeRecovery --------------------------
(***************************************************************************)
(* The B+ tree of BplusTree with its write-ahead log, the pages on disk,   *)
(* crashes and redo (bplus_tree_log.cpp, bplus_tree_log_entry.cpp, and the *)
(* allocation of pages in disk_buffer_pool.cpp).                           *)
(*                                                                         *)
(* The entries of a mini transaction become one log record when it         *)
(* commits; allocating and giving back a page is logged at once.  A page   *)
(* reaches the disk when its unpinned frame is evicted with its dirty mark *)
(* set or when everything is flushed, after the log up to the lsn of the   *)
(* page; without the mark an eviction drops the frame.  After a crash the  *)
(* handler is opened on what is on disk and the log is replayed on top.    *)
(***************************************************************************)
EXTENDS BplusTree

Bitmap == 0              \* the pool's header page: which pages are allocated
AllPages == {Bitmap, Header} \cup Pages

VARIABLES
    lsn,        \* Frame::lsn of every page in memory
    dirty,      \* the pages whose Frame::dirty_ is set
    page_count, \* BPFileHeader::page_count: how far the file goes
    disk,       \* the pages on disk, their lsns included
    log,        \* the records since the last check point, records 1 ..
    durable,    \* how many of them are on disk for sure
    appended,   \* the lsn of a mini transaction that is between append and set_lsn
    phase,      \* "build", "run", "redo", then "open" or "garbled"
    next,       \* the record to redo
    crashes,
    base,       \* the keys at the check point
    holes,      \* how the lsn of some page came to say less than the page contains
    lost        \* since the last crash memory has lost a change that the log has

logVars == <<lsn, dirty, page_count, disk, log, durable, appended, phase, next, crashes, base, holes, lost>>
recoveryVars == <<vars, logVars>>

Contents == [node |-> tree.node, header |-> tree.header, allocated |-> tree.allocated, page_count |-> page_count]

RecoveryInit ==
    /\ Init
    /\ lsn = [p \in AllPages |-> 0] /\ dirty = {} /\ page_count = Header + 1
    /\ disk = Contents @@ [lsn |-> lsn]
    /\ log = <<>> /\ durable = 0 /\ appended = [t \in Threads |-> 0]
    /\ phase = "build" /\ next = 1 /\ crashes = 0 /\ base = {} /\ holes = {} /\ lost = FALSE

(***************************************************************************)
(* Log records                                                             *)
(***************************************************************************)
PageRecord(op, p) == [op |-> op, page |-> p, entries |-> <<>>, call |-> NoCall]
TreeRecord(t) == [op |-> "BTREE", page |-> NoPage, entries |-> entries[t], call |-> call[t]]

Touched(es) == {es[i].page : i \in 1 .. Len(es)}

(* Where mark_dirty is called: for every page that a step changes, but in  *)
(* coalesce only for the children that get a new parent, and in            *)
(* adjust_root only for the page with the number of the root.              *)
MarkDirty(t) ==
    LET es == SubSeq(entries'[t], Len(entries[t]) + 1, Len(entries'[t]))
        marked == CASE pc[t] = "neighbor" /\ pc'[t] = "coalesce" -> Touched(SelectSeq(es, LAMBDA e : e.op = "SET_PARENT_PAGE"))
                    [] pc[t] = "coalesce" -> Touched(es) \cap {Header}
                    [] OTHER -> Touched(es) IN
    dirty' = dirty \cup marked \cup (IF tree'.allocated = tree.allocated THEN {} ELSE {Bitmap})

(* What threads make of a tree that has lost a change is not followed; the *)
(* process can only crash.                                                 *)
Running == phase \in {"build", "run"} /\ ~lost

(* The steps that neither commit nor give a page back; a page they         *)
(* allocate is logged, and the lsn of the pool's header page set.          *)
Step(t) ==
    LET new == tree'.allocated \ tree.allocated IN
    /\ Running
    /\ \/ Begin(t) /\ (phase = "run" \/ plan.build # <<>>)
       \/ create_new_tree(t) \/ LockRoot(t) \/ crabing_protocal_fetch_page(t)
       \/ insert_entry_into_leaf_node(t) \/ insert_entry_into_parent(t)
       \/ delete_entry_internal(t) \/ coalesce_or_redistribute(t) \/ LatchNeighbor(t)
       \/ Rollback(t) \/ release(t)
    /\ log' = log \o SetToSeq({PageRecord("ALLOCATE", p) : p \in new})
    /\ lsn' = [lsn EXCEPT ![Bitmap] = IF new = {} THEN @ ELSE Len(log')]
    /\ MarkDirty(t)
    /\ page_count' = Max({page_count} \cup {p + 1 : p \in new})
    /\ UNCHANGED <<disk, durable, appended, phase, next, crashes, base, holes, lost>>

(* Pages that this mini transaction logs before the one that created them: *)
(* the first leaf of a tree is not latched while its creation goes on.     *)
Overtaking(t) == {p \in Touched(entries[t]) :
    \E u \in Threads \ {t} : appended[u] = 0 /\ [op |-> "LEAF_INIT_EMPTY", page |-> p] \in ToSet(entries[u])}

(* BplusTreeLogger::commit: first the record, then the lsn of its pages.   *)
AppendLog(t) ==
    /\ Running /\ pc[t] = "commit" /\ appended[t] = 0
    /\ log' = Append(log, TreeRecord(t))
    /\ appended' = [appended EXCEPT ![t] = Len(log')]
    /\ holes' = holes \cup {"creation logged late" : p \in Overtaking(t)}
    /\ UNCHANGED <<vars, lsn, dirty, page_count, disk, durable, phase, next, crashes, base, lost>>

SetLsn(t) ==
    /\ Running /\ appended[t] # 0
    /\ lsn' = [p \in AllPages |-> IF p \in Touched(entries[t]) THEN appended[t] ELSE lsn[p]]
    /\ holes' = holes \cup {"lsn set back" : p \in {q \in Touched(entries[t]) : lsn[q] > appended[t]}}
    /\ Commit(t)
    /\ appended' = [appended EXCEPT ![t] = 0]
    /\ UNCHANGED <<dirty, page_count, disk, log, durable, phase, next, crashes, base, lost>>

(* A mutant: the lsn of the pool's header page stays as it was. *)
Dispose_NoLsn(t) ==
    LET p == Head(disposed[t]) IN
    /\ Running /\ dispose_page(t)
    /\ log' = Append(log, PageRecord("DEALLOCATE", p))
    /\ lsn' = [lsn EXCEPT ![p] = disk.lsn[p]] /\ dirty' = (dirty \ {p}) \cup {Bitmap}
    /\ UNCHANGED <<page_count, disk, durable, appended, phase, next, crashes, base, holes, lost>>

(* dispose_page drops the frame, whether it is dirty or not: what is left  *)
(* of the page is its copy on disk.                                        *)
Dispose(t) ==
    LET p == Head(disposed[t]) IN
    /\ Running /\ dispose_page(t)
    /\ log' = Append(log, PageRecord("DEALLOCATE", p))
    /\ lsn' = [lsn EXCEPT ![Bitmap] = Len(log'), ![p] = disk.lsn[p]] /\ dirty' = (dirty \ {p}) \cup {Bitmap}
    /\ UNCHANGED <<page_count, disk, durable, appended, phase, next, crashes, base, holes, lost>>

(***************************************************************************)
(* Pages reach the disk                                                    *)
(***************************************************************************)
Changed(p) ==
    \/ lsn[p] # disk.lsn[p]
    \/ p \in Pages /\ p \in tree.allocated /\ tree.node[p] # disk.node[p]
    \/ p = Header /\ tree.header # disk.header
    \/ p = Bitmap /\ tree.allocated # disk.allocated

flush_page(p) ==
    /\ disk' = [node |-> IF p \in Pages THEN [disk.node EXCEPT ![p] = tree.node[p]] ELSE disk.node,
                header |-> IF p = Header THEN tree.header ELSE disk.header,
                allocated |-> IF p = Bitmap THEN tree.allocated ELSE disk.allocated,
                page_count |-> IF p = Bitmap THEN page_count ELSE disk.page_count,
                lsn |-> [disk.lsn EXCEPT ![p] = lsn[p]]]
    /\ durable' = Max({durable, lsn[p]})

(* The frame of an unpinned page is evicted: a dirty one is written.  The  *)
(* frame of the pool's own header stays pinned.  The frame of a new root   *)
(* is not pinned while its mini transaction goes on.                       *)
CanEvict(p) ==
    /\ phase \in {"run", "redo"} /\ Changed(p)
    /\ p = Header \/ p \in tree.allocated
    /\ \A t \in Threads : ~Holds(t, "P", p)

Evict(p) ==
    /\ CanEvict(p) /\ p \in dirty
    /\ flush_page(p) /\ dirty' = dirty \ {p}
    /\ holes' = holes \cup {"root written early" : t \in {u \in Threads : p \in Touched(entries[u])}}
    /\ UNCHANGED <<vars, lsn, page_count, log, appended, phase, next, crashes, base, lost>>

(* A frame that is not marked is dropped as it is: the next reader finds   *)
(* the page as it was last written.                                        *)
Drop(p) ==
    /\ CanEvict(p) /\ p \notin dirty
    /\ tree' = [tree EXCEPT !.node = IF p \in Pages THEN [@ EXCEPT ![p] = disk.node[p]] ELSE @,
                            !.header = IF p = Header THEN disk.header ELSE @]
    /\ lsn' = [lsn EXCEPT ![p] = disk.lsn[p]]
    /\ lost' = TRUE
    /\ UNCHANGED <<threadVars, dirty, page_count, disk, log, durable, appended, phase, next, crashes, base, holes>>

(* Db::sync, of which only the flushing is seen here: it writes every      *)
(* page, marked or not.                                                    *)
Flush(p) ==
    /\ phase = "run" /\ ~lost /\ Changed(p) /\ \A t \in Threads : pc[t] = "idle"
    /\ flush_page(p) /\ dirty' = dirty \ {p}
    /\ UNCHANGED <<vars, lsn, page_count, log, appended, phase, next, crashes, base, holes, lost>>

(* Db::sync: every page is flushed, and the log before is not read again. *)
Checkpoint ==
    /\ phase = "build" /\ plan.build = <<>> /\ \A t \in Threads : pc[t] = "idle"
    /\ lsn' = [p \in AllPages |-> 0]
    /\ disk' = Contents @@ [lsn |-> lsn']
    /\ log' = <<>> /\ durable' = 0 /\ base' = TreeKeys(tree)
    /\ phase' = "run" /\ dirty' = {}
    /\ UNCHANGED <<vars, page_count, appended, next, crashes, holes, lost>>

(***************************************************************************)
(* Crash, BplusTreeHandler::open and redo                                  *)
(***************************************************************************)
Crash ==
    /\ phase \in {"run", "redo"} /\ crashes < plan.crashes
    /\ \E keep \in durable .. Len(log) :
        /\ log' = SubSeq(log, 1, keep)
        /\ durable' = keep
    /\ tree' = [node |-> disk.node, header |-> disk.header, root_page |-> disk.header, allocated |-> disk.allocated]
    /\ lsn' = disk.lsn /\ dirty' = {} /\ lost' = FALSE /\ page_count' = disk.page_count
    /\ pc' = [t \in Threads |-> "dead"] /\ call' = [t \in Threads |-> NoCall]
    /\ frame' = [t \in Threads |-> NoPage] /\ other' = [t \in Threads |-> NoPage]
    /\ up' = [t \in Threads |-> 0] /\ memo' = [t \in Threads |-> <<>>]
    /\ disposed' = [t \in Threads |-> <<>>] /\ entries' = [t \in Threads |-> <<>>]
    /\ rc' = [t \in Threads |-> "SUCCESS"]
    /\ appended' = [t \in Threads |-> 0]
    /\ phase' = "redo" /\ next' = 1 /\ crashes' = crashes + 1
    /\ UNCHANGED <<disk, base, holes, iter, seen, plan, broken>>

(* A page inside the file is marked without the lsn, a page at its end     *)
(* with it; a page further out is an error.                                *)
redo_allocate_page(n, p) ==
    IF lsn[Bitmap] >= n \/ p \in tree.allocated THEN UNCHANGED <<tree, lsn, dirty, page_count>>
    ELSE /\ p <= page_count
         /\ tree' = [tree EXCEPT !.allocated = @ \cup {p}] /\ dirty' = dirty \cup {Bitmap}
         /\ IF p < page_count THEN UNCHANGED <<lsn, page_count>>
            ELSE lsn' = [lsn EXCEPT ![Bitmap] = n] /\ page_count' = page_count + 1

redo_deallocate_page(n, p) ==
    IF lsn[Bitmap] >= n THEN UNCHANGED <<tree, lsn, dirty>>
    ELSE /\ p \in tree.allocated
         /\ tree' = [tree EXCEPT !.allocated = @ \ {p}] /\ dirty' = dirty \cup {Bitmap}
         /\ lsn' = [lsn EXCEPT ![Bitmap] = n]

(* An entry whose position is outside the page garbles the page. *)
Fits(tr, e) ==
    CASE e.op = "NODE_INSERT" -> e.index <= Size(tr.node[e.page]) + 1
      [] e.op = "NODE_REMOVE" -> e.index + e.num <= Size(tr.node[e.page]) + 1
      [] e.op = "INTERNAL_UPDATE_KEY" -> e.index <= Size(tr.node[e.page])
      [] OTHER -> TRUE
Replay(es) == FoldLeft(LAMBDA acc, e : IF acc.ok /\ Fits(acc.tree, e) THEN [tree |-> Apply(acc.tree, e), ok |-> TRUE]
                                                                       ELSE [acc EXCEPT !.ok = FALSE],
                       [tree |-> tree, ok |-> TRUE], es)

(* A mutant: a page is compared with the record again after each entry has *)
(* set its lsn, so only the first entry of a page is applied.              *)
StaleEntries_First(n, es) ==
    LET first == {i \in 1 .. Len(es) : lsn[es[i].page] < n /\ \A j \in 1 .. i - 1 : es[j].page # es[i].page}
        marked == SelectSeq([i \in 1 .. Len(es) |-> [entry |-> es[i], on |-> i \in first]], LAMBDA x : x.on) IN
    [i \in 1 .. Len(marked) |-> marked[i].entry]

StaleEntries(n, es) == SelectSeq(es, LAMBDA e : lsn[e.page] < n)

(* The entries of pages that are older than the record are applied, and    *)
(* only then the lsn of these pages is set.  The handler that applies them *)
(* is a temporary one: the root page in the handler of the index stays.    *)
(* Only the page with the number of the root is marked dirty.  A page that *)
(* cannot be read ends the record where it is needed, without the lsns,    *)
(* and the answer is SUCCESS all the same.                                 *)
redo(n, es) ==
    LET stale == StaleEntries(n, es) IN
    \E done \in {Len(stale)} \cup (IF plan.faults > 0 THEN 0 .. Len(stale) - 1 ELSE {}) :
        LET applied == SubSeq(stale, 1, done)
            result == Replay(applied)
            whole == done = Len(stale) IN
        /\ tree' = [result.tree EXCEPT !.root_page = tree.root_page]
        /\ lsn' = [p \in AllPages |-> IF whole /\ p \in Touched(stale) THEN n ELSE lsn[p]]
        /\ dirty' = dirty \cup (Touched(applied) \cap {Header})
        /\ phase' = IF result.ok THEN phase ELSE "garbled"
        /\ plan' = IF whole THEN plan ELSE [plan EXCEPT !.faults = @ - 1]
        /\ lost' = (lost \/ ~whole)

Redo ==
    /\ phase = "redo" /\ next <= Len(log)
    /\ LET r == log[next] IN
        \/ r.op = "ALLOCATE" /\ redo_allocate_page(next, r.page) /\ UNCHANGED <<plan, phase, lost>>
        \/ r.op = "DEALLOCATE" /\ redo_deallocate_page(next, r.page) /\ UNCHANGED <<plan, phase, page_count, lost>>
        \/ r.op = "BTREE" /\ redo(next, r.entries) /\ UNCHANGED page_count
    /\ next' = next + 1
    /\ UNCHANGED <<pc, call, frame, other, up, memo, disposed, entries, iter, rc, seen, broken>>
    /\ UNCHANGED <<disk, log, durable, appended, crashes, base, holes>>

Recovered ==
    /\ phase = "redo" /\ next = Len(log) + 1
    /\ phase' = "open"
    /\ UNCHANGED <<vars, lsn, dirty, page_count, disk, log, durable, appended, next, crashes, base, holes, lost>>

RecoveryNext ==
    \/ \E t \in Threads : Step(t) \/ AppendLog(t) \/ SetLsn(t) \/ Dispose(t)
    \/ \E p \in AllPages : Evict(p) \/ Drop(p) \/ Flush(p)
    \/ Checkpoint \/ Crash \/ Redo \/ Recovered

RecoverySpec == RecoveryInit /\ [][RecoveryNext]_recoveryVars
-----------------------------------------------------------------------------
RecoveryTypeOK ==
    /\ lsn \in [AllPages -> 0 .. Len(log)] /\ disk.lsn \in [AllPages -> 0 .. Len(log)]
    /\ disk.node \in [Pages -> Node] /\ disk.allocated \subseteq Pages /\ dirty \subseteq AllPages
    /\ durable \in 0 .. Len(log) /\ \A t \in Threads : appended[t] \in 0 .. Len(log)
    /\ phase \in {"build", "run", "redo", "open", "garbled"} /\ next \in 1 .. Len(log) + 1

(* The keys after the operations whose records survived. *)
Surviving ==
    FoldLeft(LAMBDA acc, r : IF r.call.op = "INSERT" THEN acc \cup {r.call.key}
                             ELSE IF r.call.op = "DELETE" THEN acc \ {r.call.key} ELSE acc, base, log)

(* Whatever mixture of old and new pages the crash left on disk, and       *)
(* however often recovery itself was interrupted, the replayed tree is     *)
(* valid and holds exactly the keys of the operations whose records        *)
(* survived, also when memory had lost a change before the crash: a frame  *)
(* of a merge dropped, or a recovery that went wrong.  It is not so when   *)
(* the last replay itself loses something, because a frame it has changed  *)
(* is dropped or a page it needs cannot be read; nor when the lsn of a     *)
(* page says less than the page contains: it was set back by a mini        *)
(* transaction that logged first and set it last, or the page is a root    *)
(* that was written before it was logged, or the creation of the tree was  *)
(* logged after a change of its first leaf.                                *)
RedoExact == (phase = "open" /\ holes = {} /\ ~lost) =>
    /\ validate_tree(tree)
    /\ TreeKeys(tree) = Surviving

(* No page of the recovered tree is free to be given to somebody else.     *)
RecoveredAllocated == (phase = "open" /\ holes = {} /\ ~lost) => Reachable(tree) \subseteq tree.allocated

(* Redo gets to its end: it never meets an entry that lies outside its     *)
(* page, a page to give back that is not allocated, or a page beyond the   *)
(* end of the file, unless it has lost a change that it had redone.        *)
RedoSucceeds == (holes = {} /\ ~lost) =>
    /\ phase # "garbled"
    /\ (phase = "redo" /\ next <= Len(log) /\ log[next].op = "DEALLOCATE") =>
        lsn[Bitmap] >= next \/ log[next].page \in tree.allocated
    /\ (phase = "redo" /\ next <= Len(log) /\ log[next].op = "ALLOCATE") =>
        lsn[Bitmap] >= next \/ log[next].page <= page_count

(* While threads work, a page whose frame is not marked and not pinned is  *)
(* on disk as it is in memory, unless the last to change it was a merge:   *)
(* its left node, its parent, or the child that became the root.           *)
OnlyMergesUnmarked == (phase = "run" /\ ~lost /\ holes = {}) =>
    \A p \in AllPages : (CanEvict(p) /\ p \notin dirty) =>
        /\ lsn[p] > 0 /\ log[lsn[p]].call.op = "DELETE"
        /\ "LEAF_SET_NEXT_PAGE" \in {e.op : e \in ToSet(log[lsn[p]].entries)}

(* Redo restores the tree and the allocation of its pages. *)
TreeRecovered == RecoveryTypeOK /\ RedoExact /\ RecoveredAllocated /\ OnlyMergesUnmarked
=============================================================================
