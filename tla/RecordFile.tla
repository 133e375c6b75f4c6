----------------------------- MODULE RecordFile -----------------------------
(***************************************************************************)
(* The record file of a table, src/observer/storage/record/                *)
(* record_manager.cpp: pages with a bitmap of slots, the set free_pages_   *)
(* of pages that may have room, and the two kinds of locks around them,    *)
(* lock_ (for free_pages_) and the latch of each page.  It is the build    *)
(* with CONCURRENCY=ON; otherwise the locks do nothing.                    *)
(*                                                                         *)
(* Every thread runs one statement at a time.  A step ends where the code  *)
(* waits for a lock or gives one up, so a step never waits in its middle.  *)
(* Who holds a latch is not a variable: it follows from where a thread and *)
(* its scanners are.  Records are their slots; what a record contains, and *)
(* visit_record and get_record, which hold one latch and change contents   *)
(* at most, are left out, as is a failing append to the log, which only a  *)
(* log that is shutting down reports.  Page 0 is the header of the file    *)
(* and has no records.                                                     *)
(***************************************************************************)
EXTENDS Integers, Sequences, FiniteSets

CONSTANTS
    Threads,          \* the threads of the connections
    NoThread,         \* the holder of a free lock
    Scanning,         \* the threads that scan the table
    Joining,          \* those of them that join it with itself
    Changing,         \* the threads that insert and delete records
    record_capacity,  \* slots of a page
    MAX_PAGE_NUM      \* BPFileHeader::MAX_PAGE_NUM, the last page of a file

ASSUME CapacityAssumption ==
    /\ NoThread \notin Threads
    /\ Scanning \subseteq Threads /\ Changing \subseteq Threads
    /\ Joining \subseteq Scanning
    /\ record_capacity \in Nat \ {0}
    /\ MAX_PAGE_NUM \in Nat

VARIABLES
    page_count,  \* number of pages with records: BPFileHeader::page_count - 1
    formatted,   \* the pages init_empty_page has prepared (others have capacity 0)
    bitmap,      \* the used slots of each page
    free_pages,  \* RecordFileHandler::free_pages_
    unlisted,    \* history: pages with room that an init_free_pages cut short left out
    lock,        \* the holder of RecordFileHandler::lock_
    pc,          \* where a thread is: see Steps
    page,        \* its current_page_num or the page of its rid
    slot,        \* the slot of its rid, in delete_record
    scanners     \* its open RecordFileScanners, the inner one of a join last

fileVars == <<page_count, formatted, bitmap>>
threadVars == <<pc, page, slot>>
vars == <<fileVars, free_pages, unlisted, lock, threadVars, scanners>>

Pages == 1 .. MAX_PAGE_NUM
Slots == 0 .. record_capacity - 1
Rids == Pages \X Slots

(* insert_record: waiting for lock_, looking at free_pages_, waiting for   *)
(* the latch of a free page, erasing a full one, about to allocate a page, *)
(* waiting for its latch, for lock_ to register it, and inserting.         *)
(* delete_record: waiting for the latch, and for lock_ afterwards.         *)
Steps == {"idle", "lock", "search", "latch", "erase", "allocate", "init", "register",
          "insert", "delete", "release"}

Scanner ==
    [rw_mode : {"READ_ONLY", "READ_WRITE"},
     page    : 0 .. MAX_PAGE_NUM,     \* bp_iterator_.current_page_num_
     latched : BOOLEAN,               \* record_page_handler_ holds that page
     limit   : 0 .. MAX_PAGE_NUM,     \* the page count when the scan was opened
     next    : 0 .. record_capacity,  \* record_page_iterator_.next_slot_num_ or less
     eof     : BOOLEAN,
     missing : SUBSET Rids]           \* there since open_scan, and not yet returned

TypeOK ==
    /\ page_count \in 0 .. MAX_PAGE_NUM
    /\ formatted \subseteq 1 .. page_count
    /\ bitmap \in [Pages -> SUBSET Slots]
    /\ free_pages \subseteq formatted
    /\ unlisted \subseteq formatted
    /\ lock \in Threads \cup {NoThread}
    /\ pc \in [Threads -> Steps]
    /\ page \in [Threads -> 0 .. MAX_PAGE_NUM]
    /\ slot \in [Threads -> Slots]
    /\ scanners \in [Threads -> Seq(Scanner)]
    /\ \A t \in Threads : Len(scanners[t]) <= 2

Init ==
    /\ page_count = 0
    /\ formatted = {}
    /\ bitmap = [p \in Pages |-> {}]
    /\ free_pages = {} /\ unlisted = {}
    /\ lock = NoThread
    /\ pc = [t \in Threads |-> "idle"]
    /\ page = [t \in Threads |-> 0]
    /\ slot = [t \in Threads |-> 0]
    /\ scanners = [t \in Threads |-> <<>>]

-----------------------------------------------------------------------------
(* RecordPageHandler::is_full: record_num >= record_capacity, where a page *)
(* that is not formatted has 0 for both.                                   *)
is_full(p) == p \notin formatted \/ bitmap[p] = Slots

Lowest(S) == {n \in S : \A m \in S : n <= m}

(* The latches (Frame::write_latch and read_latch). *)
ScanHolders(p, mode) ==
    {t \in Threads : \E k \in DOMAIN scanners[t] :
        scanners[t][k].latched /\ scanners[t][k].page = p /\ scanners[t][k].rw_mode \in mode}

(* Mutant: delete_record keeps its latch while it waits for lock_. *)
Writers_DeleteKeeps(p) ==
    {t \in Threads : pc[t] \in {"register", "insert", "release"} /\ page[t] = p}
        \cup ScanHolders(p, {"READ_WRITE"})


Writers(p) ==
    {t \in Threads : pc[t] \in {"register", "insert"} /\ page[t] = p}
        \cup ScanHolders(p, {"READ_WRITE"})

Holders(p) == Writers(p) \cup ScanHolders(p, {"READ_ONLY"})

Goto(t, step) == pc' = [pc EXCEPT ![t] = step]
Return(t) ==
    /\ Goto(t, "idle")
    /\ page' = [page EXCEPT ![t] = 0]
    /\ slot' = [slot EXCEPT ![t] = 0]

-----------------------------------------------------------------------------
(* RecordFileHandler::insert_record. *)
insert_record(t) ==
    /\ t \in Changing
    /\ pc[t] = "idle" /\ scanners[t] = <<>>
    /\ Goto(t, "lock")
    /\ UNCHANGED <<fileVars, free_pages, unlisted, lock, page, slot, scanners>>

InsertLock(t) ==
    /\ pc[t] = "lock"
    /\ lock = NoThread
    /\ lock' = t
    /\ Goto(t, "search")
    /\ UNCHANGED <<fileVars, free_pages, unlisted, page, slot, scanners>>

(* The head of the loop: the first of the free pages, or a new page. *)
InsertSearch(t) ==
    /\ pc[t] = "search"
    /\ \/ /\ \E p \in Lowest(free_pages) : page' = [page EXCEPT ![t] = p]
          /\ Goto(t, "latch")
          /\ UNCHANGED lock
       \/ /\ free_pages = {}
          /\ lock' = NoThread
          /\ Goto(t, "allocate")
          /\ UNCHANGED page
    /\ UNCHANGED <<fileVars, free_pages, unlisted, slot, scanners>>

(* The latch is taken with lock_ held.  A page with room is kept latched   *)
(* and lock_ given up; a full one is given up at once.                     *)
InsertLatch(t) ==
    /\ pc[t] = "latch"
    /\ Holders(page[t]) = {}
    /\ \/ /\ is_full(page[t])
          /\ Goto(t, "erase")
          /\ UNCHANGED lock
       \/ /\ ~is_full(page[t])
          /\ lock' = NoThread
          /\ Goto(t, "insert")
    /\ UNCHANGED <<fileVars, free_pages, unlisted, page, slot, scanners>>

InsertErase(t) ==
    /\ pc[t] = "erase"
    /\ free_pages' = free_pages \ Lowest(free_pages)
    /\ Goto(t, "search")
    /\ UNCHANGED <<fileVars, unlisted, lock, page, slot, scanners>>

(* DiskBufferPool::allocate_page appends a page to the file (a record file *)
(* never disposes of one), or fails when the file is full.                 *)
allocate_page(t) ==
    /\ pc[t] = "allocate"
    /\ \/ /\ page_count < MAX_PAGE_NUM
          /\ page_count' = page_count + 1
          /\ page' = [page EXCEPT ![t] = page_count + 1]
          /\ Goto(t, "init")
          /\ UNCHANGED slot
       \/ /\ page_count = MAX_PAGE_NUM
          /\ Return(t)
          /\ UNCHANGED page_count
    /\ UNCHANGED <<formatted, bitmap, free_pages, unlisted, lock, scanners>>

(* RecordPageHandler::init_empty_page: latches the page and keeps it. *)
init_empty_page(t) ==
    /\ pc[t] = "init"
    /\ Holders(page[t]) = {}
    /\ formatted' = formatted \cup {page[t]}
    /\ bitmap' = [bitmap EXCEPT ![page[t]] = {}]
    /\ Goto(t, "register")
    /\ UNCHANGED <<page_count, free_pages, unlisted, lock, page, slot, scanners>>

(* lock_ is taken with the latch of the new page held. *)
InsertRegister(t) ==
    /\ pc[t] = "register"
    /\ lock = NoThread
    /\ free_pages' = free_pages \cup {page[t]}
    /\ Goto(t, "insert")
    /\ UNCHANGED <<fileVars, unlisted, lock, page, slot, scanners>>

(* RowRecordPageHandler::insert_record; a full page would be left as it    *)
(* is (RECORD_NOMEM).  The handler's destructor releases the latch.        *)
InsertInPage(t) ==
    /\ pc[t] = "insert"
    /\ bitmap' = [bitmap EXCEPT ![page[t]] = @ \cup Lowest(Slots \ @)]
    /\ Return(t)
    /\ UNCHANGED <<page_count, formatted, free_pages, unlisted, lock, scanners>>

-----------------------------------------------------------------------------
(* RecordFileHandler::delete_record, with a rid the caller has read before. *)
delete_record(t, p, s) ==
    /\ t \in Changing
    /\ pc[t] = "idle" /\ scanners[t] = <<>>
    /\ p \in formatted
    /\ page' = [page EXCEPT ![t] = p]
    /\ slot' = [slot EXCEPT ![t] = s]
    /\ Goto(t, "delete")
    /\ UNCHANGED <<fileVars, free_pages, unlisted, lock, scanners>>

(* Mutant: lock_ is not taken when the page already is in free_pages_. *)
DeleteInPage_IfNeeded(t) ==
    /\ pc[t] = "delete"
    /\ Holders(page[t]) = {}
    /\ slot[t] \in bitmap[page[t]]
    /\ bitmap' = [bitmap EXCEPT ![page[t]] = @ \ {slot[t]}]
    /\ scanners' = [u \in Threads |-> [k \in DOMAIN scanners[u] |->
          [scanners[u][k] EXCEPT !.missing = @ \ {<<page[t], slot[t]>>}]]]
    /\ Goto(t, IF page[t] \in free_pages THEN "idle" ELSE "release")
    /\ UNCHANGED <<page_count, formatted, free_pages, unlisted, lock, page, slot>>

(* RowRecordPageHandler::delete_record under the latch, and cleanup. *)
DeleteInPage(t) ==
    /\ pc[t] = "delete"
    /\ Holders(page[t]) = {}
    /\ \/ /\ slot[t] \in bitmap[page[t]]
          /\ bitmap' = [bitmap EXCEPT ![page[t]] = @ \ {slot[t]}]
          /\ scanners' = [u \in Threads |-> [k \in DOMAIN scanners[u] |->
                [scanners[u][k] EXCEPT !.missing = @ \ {<<page[t], slot[t]>>}]]]
          /\ Goto(t, "release")
          /\ UNCHANGED <<page, slot>>
       \/ /\ slot[t] \notin bitmap[page[t]]
          /\ Return(t)
          /\ UNCHANGED <<bitmap, scanners>>
    /\ UNCHANGED <<page_count, formatted, free_pages, unlisted, lock>>

(* Only now the page is put back among the free ones. *)
DeleteRelease(t) ==
    /\ pc[t] = "release"
    /\ lock = NoThread
    /\ free_pages' = free_pages \cup {page[t]}
    /\ unlisted' = unlisted \ {page[t]}
    /\ Return(t)
    /\ UNCHANGED <<fileVars, lock, scanners>>

-----------------------------------------------------------------------------
(* RecordFileScanner. *)
Top(t) == scanners[t][Len(scanners[t])]
SetTop(t, s) == scanners' = [scanners EXCEPT ![t] = [@ EXCEPT ![Len(@)] = s]]

Existing == {r \in Rids : r[1] \in formatted /\ r[2] \in bitmap[r[1]]}

(* Mutant: BufferPoolIterator::init takes start_page for the current page. *)
NewScanner_Second(mode) ==
    [rw_mode |-> mode, page |-> 1, latched |-> FALSE, limit |-> page_count, next |-> 0,
     eof |-> FALSE, missing |-> Existing]


NewScanner(mode) ==
    [rw_mode |-> mode, page |-> 0, latched |-> FALSE, limit |-> page_count, next |-> 0,
     eof |-> FALSE, missing |-> Existing]

(* The scan of a SELECT, or of a DELETE, whose scanner latches for writing *)
(* and is closed before the first record is deleted.                       *)
open_scan(t, mode) ==
    /\ t \in Scanning
    /\ pc[t] = "idle" /\ scanners[t] = <<>>
    /\ scanners' = [scanners EXCEPT ![t] = <<NewScanner(mode)>>]
    /\ UNCHANGED <<fileVars, free_pages, unlisted, lock, threadVars>>

(* NestedLoopJoinPhysicalOperator::right_next opens the right scan while   *)
(* the left scanner stands on a record.                                    *)
open_right(t) ==
    /\ t \in Joining
    /\ Len(scanners[t]) = 1
    /\ Top(t).rw_mode = "READ_ONLY" /\ Top(t).latched /\ Top(t).next > 0
    /\ scanners' = [scanners EXCEPT ![t] = Append(@, NewScanner("READ_ONLY"))]
    /\ UNCHANGED <<fileVars, free_pages, unlisted, lock, threadVars>>

RecordsFrom(s) == {n \in bitmap[s.page] : s.page \in formatted /\ n >= s.next}

(* fetch_next_record_in_page returns the next record of the page. *)
fetch_next_record_in_page(t) ==
    /\ scanners[t] # <<>>
    /\ Top(t).latched
    /\ \E n \in Lowest(RecordsFrom(Top(t))) :
           SetTop(t, [Top(t) EXCEPT !.next = n + 1, !.missing = @ \ {<<Top(t).page, n>>}])
    /\ UNCHANGED <<fileVars, free_pages, unlisted, lock, threadVars>>

(* fetch_next_record leaves a page that has no more records ... *)
LeavePage(t) ==
    /\ scanners[t] # <<>>
    /\ Top(t).latched
    /\ RecordsFrom(Top(t)) = {}
    /\ SetTop(t, [Top(t) EXCEPT !.latched = FALSE])
    /\ UNCHANGED <<fileVars, free_pages, unlisted, lock, threadVars>>

CanLatch(t, p, mode) == IF mode = "READ_ONLY" THEN Writers(p) = {} ELSE Holders(p) = {}

(* ... waits for the latch of the next one ... *)
NextPage(t) ==
    /\ scanners[t] # <<>>
    /\ ~Top(t).latched
    /\ Top(t).page < Top(t).limit
    /\ CanLatch(t, Top(t).page + 1, Top(t).rw_mode)
    /\ SetTop(t, [Top(t) EXCEPT !.page = @ + 1, !.latched = TRUE, !.next = 0])
    /\ UNCHANGED <<fileVars, free_pages, unlisted, lock, threadVars>>

(* ... or finds that the last page was the last (RECORD_EOF). *)
EndOfScan(t) ==
    /\ scanners[t] # <<>>
    /\ ~Top(t).latched /\ ~Top(t).eof
    /\ Top(t).page = Top(t).limit
    /\ SetTop(t, [Top(t) EXCEPT !.eof = TRUE])
    /\ UNCHANGED <<fileVars, free_pages, unlisted, lock, threadVars>>

(* At the end, or earlier when the statement fails. *)
close_scan(t) ==
    /\ scanners[t] # <<>>
    /\ Top(t).latched \/ Top(t).eof
    /\ scanners' = [scanners EXCEPT ![t] = SubSeq(@, 1, Len(@) - 1)]
    /\ UNCHANGED <<fileVars, free_pages, unlisted, lock, threadVars>>

-----------------------------------------------------------------------------
(* A page cannot be read: RecordPageHandler::init fails before it latches. *)
(* insert_record gives up lock_; a page it has just allocated stays        *)
(* allocated and unformatted.  A statement whose scan fails closes it.     *)
get_this_page_failed(t) ==
    /\ \/ /\ pc[t] \in {"latch", "init", "delete"}
          /\ lock' = IF lock = t THEN NoThread ELSE lock
          /\ Return(t)
          /\ UNCHANGED scanners
       \/ /\ scanners[t] # <<>>
          /\ ~Top(t).latched /\ Top(t).page < Top(t).limit
          /\ scanners' = [scanners EXCEPT ![t] = <<>>]
          /\ UNCHANGED <<lock, threadVars>>
    /\ UNCHANGED <<fileVars, free_pages, unlisted>>

-----------------------------------------------------------------------------
(* close and init: the table is opened again after a clean shutdown, and   *)
(* init_free_pages looks at every page up to the first that cannot be      *)
(* read, if there is one; init drops its rc.                               *)
init_free_pages ==
    /\ \A t \in Threads : pc[t] = "idle" /\ scanners[t] = <<>>
    /\ \E unread \in 1 .. page_count + 1 :
         /\ free_pages' = {p \in 1 .. unread - 1 : ~is_full(p)}
         /\ unlisted' = {p \in unread .. page_count : ~is_full(p)}
    /\ UNCHANGED <<fileVars, lock, threadVars, scanners>>

ThreadStep(t) ==
    \/ insert_record(t) \/ InsertLock(t) \/ InsertSearch(t) \/ InsertLatch(t)
    \/ InsertErase(t) \/ allocate_page(t) \/ init_empty_page(t) \/ InsertRegister(t)
    \/ InsertInPage(t)
    \/ \E p \in Pages, s \in Slots : delete_record(t, p, s)
    \/ DeleteInPage(t) \/ DeleteRelease(t)
    \/ \E mode \in {"READ_ONLY", "READ_WRITE"} : open_scan(t, mode)
    \/ open_right(t) \/ fetch_next_record_in_page(t) \/ LeavePage(t) \/ NextPage(t)
    \/ EndOfScan(t) \/ close_scan(t) \/ get_this_page_failed(t)

Next == init_free_pages \/ \E t \in Threads : ThreadStep(t)

Spec == Init /\ [][Next]_vars

-----------------------------------------------------------------------------
(* No room is lost: a page with a free slot is among the free pages, or a  *)
(* thread is on its way to put it there (after a delete or an allocation), *)
(* or the table was opened when a page before it could not be read, and no *)
(* record of it was deleted since.                                         *)
NoLostFreePage ==
    \A p \in formatted \ unlisted :
        ~is_full(p) /\ p \notin free_pages =>
            \E t \in Threads : pc[t] \in {"register", "release"} /\ page[t] = p

(* The page an insert has settled on still has room when it gets there:    *)
(* RowRecordPageHandler::insert_record never returns RECORD_NOMEM.         *)
InsertFindsRoom == \A t \in Threads : pc[t] = "insert" => ~is_full(page[t])

(* A scan that reaches the end has returned every record that was there    *)
(* from its first to its last moment, whatever others inserted or deleted. *)
ScanComplete ==
    \A t \in Threads : \A k \in DOMAIN scanners[t] :
        scanners[t][k].eof => scanners[t][k].missing = {}

(* The threads t waits for. *)
WaitsFor(t) ==
    CASE pc[t] \in {"lock", "register", "release"} -> {lock} \ {NoThread}
      [] pc[t] \in {"latch", "init", "delete"} -> Holders(page[t])
      [] scanners[t] # <<>> ->
           IF Top(t).latched \/ Top(t).page = Top(t).limit THEN {}
           ELSE IF Top(t).rw_mode = "READ_ONLY" THEN Writers(Top(t).page + 1)
                ELSE Holders(Top(t).page + 1)
      [] OTHER -> {}

Deadlocked(S) == S # {} /\ \A t \in S : WaitsFor(t) \cap S # {}

(* The locks are taken in both orders (insert_record takes lock_ before a  *)
(* latch when it searches, and after one when it registers a new page);    *)
(* all the same no set of threads waits for itself, unless one of them is  *)
(* in the inner scan of a join and so holds one latch and wants another.   *)
DeadlockNeedsJoin ==
    \A S \in SUBSET Threads : Deadlocked(S) => \E t \in S : Len(scanners[t]) = 2

(* free_pages_ against the pages: none with room is forgotten, none that   *)
(* is not formatted is in the set, and an insert finds the room it was     *)
(* promised.                                                               *)
FreePagesExact == TypeOK /\ NoLostFreePage /\ InsertFindsRoom
=============================================================================
