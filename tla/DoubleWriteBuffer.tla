------------------------- MODULE DoubleWriteBuffer -------------------------
(***************************************************************************)
(* DiskDoubleWriteBuffer of src/observer/storage/buffer                    *)
(* (double_write_buffer.cpp) between the buffer pools and their files      *)
(* (load_page, flush_page_internal, write_page and close_file of           *)
(* disk_buffer_pool.cpp), and the way Db opens, synchronises and closes    *)
(* it (db.cpp).                                                            *)
(*                                                                         *)
(* A page a pool flushes goes to memory and to a slot of the shared file   *)
(* dblwr.db.  When max_pages_ pages are buffered they are all written to   *)
(* their own files, and each slot is then marked invalid.  A crash may     *)
(* tear the page or the slot that is being written; on restart load_pages  *)
(* reads the slots and recover writes the valid ones to their files.       *)
(*                                                                         *)
(* lock_ serialises the operations, and tables are closed one after the    *)
(* other by Db::~Db when no client is left, so one operation is under way  *)
(* at a time; a crash may hit it between any two writes.  The contents of  *)
(* a page are a version number.  A slot that is marked invalid differs     *)
(* from its old contents in one byte, so only that write is never torn.    *)
(***************************************************************************)
EXTENDS Integers, FiniteSets, FiniteSetsExt, Functions

CONSTANTS
    Keys,           \* the pages: a buffer pool and a page number each
    Registered,     \* the pools that the table metas name at the start
    Scenarios       \* what may happen in one behaviour, records of
                    \*   pages      the pages that are used, of Keys
                    \*   max_pages  DiskDoubleWriteBuffer::max_pages_
                    \*   powerLoss  TRUE: a crash loses writes that were not synced
                    \*   versions   bound on the versions of a page
                    \*   crashes    bound on crashes
                    \*   closes     bound on clean shutdowns
                    \*   fails      bound on failing writes

ASSUME DoubleWriteAssumption ==
    /\ IsFiniteSet(Keys)
    /\ Registered \subseteq {k[1] : k \in Keys}
    /\ \A k \in Keys : k[2] \in Nat
    /\ \A s \in Scenarios : s.pages \subseteq Keys /\ s.max_pages \in Nat \ {0}
                           /\ s.powerLoss \in BOOLEAN /\ s.versions \in Nat
                           /\ s.crashes \in Nat /\ s.closes \in Nat /\ s.fails \in Nat

Pools == {k[1] : k \in Keys}     \* data files of tables and of indexes
Slots == 0 .. Cardinality(Keys) - 1
NoKey == <<>>
NoPool == <<>>
Torn == -1      \* contents whose checksum does not match

VARIABLES
    scen,           \* the scenario
    dblwr_pages,    \* key -> its DoubleWritePage [page_index, valid, page]
    page_cnt,       \* header_.page_cnt in memory
    disk,           \* [page_cnt, slot, data]: dblwr.db and the data files
    unsynced,       \* what each place of the disk may hold after a power loss
    op,             \* where the operation under way is, and on which page
    work,           \* the pages flush_page or clear_pages has still to write
    phase,          \* of the database
    opened, closing,\* pools that are open; the one close_file is closing
    registered,     \* pools named by the table metas on disk
    created,        \* pools whose file exists
    version,        \* history: the contents each page was last flushed with
    crashes, closes, fails

memory == <<dblwr_pages, page_cnt, work, op>>
database == <<phase, opened, closing, registered, created>>
bounds == <<scen, crashes, closes, fails>>
vars == <<memory, disk, unsynced, database, version, bounds>>

Versions == Nat
Entry == [page_index : Slots, valid : BOOLEAN, page : Versions]
NoSlot == [key |-> NoKey, valid |-> FALSE, page |-> Torn]
Slot == [key : Keys, valid : BOOLEAN, page : Versions] \cup {NoSlot}
Disks ==
    [page_cnt : 0 .. Cardinality(Keys),
     slot : [Slots -> Slot],
     data : [Keys -> Versions \cup {Torn}]]
UnsyncedDisks ==
    [page_cnt : SUBSET (0 .. Cardinality(Keys)),
     slot : [Slots -> SUBSET Slot],
     data : [Keys -> SUBSET (Versions \cup {Torn})]]
At(at, key, by) == [at |-> at, key |-> key, by |-> by]
Idle == At("idle", NoKey, "none")

TypeOK ==
    /\ DOMAIN dblwr_pages \subseteq Keys /\ dblwr_pages \in [DOMAIN dblwr_pages -> Entry]
    /\ DOMAIN work \subseteq Keys /\ work \in [DOMAIN work -> Entry]
    /\ page_cnt \in 0 .. Cardinality(Keys)
    /\ disk \in Disks /\ unsynced \in UnsyncedDisks
    /\ op \in [at : {"idle", "slot", "header", "flush", "next", "page", "invalidate"},
               key : Keys \cup {NoKey},
               by : {"none", "insert", "overwrite", "flush_page", "clear_pages"}]
    /\ phase \in {"down", "stopped", "loaded", "recovering", "running", "closing", "undefined"}
    /\ opened \subseteq created /\ registered \subseteq created /\ created \subseteq Pools
    /\ closing \in Pools \cup {NoPool}
    /\ version \in [Keys -> Versions \cup {Torn}]
    /\ scen \in Scenarios
    /\ crashes \in 0 .. scen.crashes /\ closes \in 0 .. scen.closes /\ fails \in 0 .. scen.fails

-----------------------------------------------------------------------------
(* The disk. *)

AsUnsynced(d) ==
    [page_cnt |-> {d.page_cnt},
     slot |-> [i \in Slots |-> {d.slot[i]}],
     data |-> [k \in Keys |-> {d.data[k]}]]

(* A write reaches the page cache; without a sync the order in which the   *)
(* writes reach the disk is not known.                                     *)
Put(d) ==
    /\ disk' = d
    /\ unsynced' =
         IF ~scen.powerLoss THEN unsynced
         ELSE [page_cnt |-> unsynced.page_cnt \cup {d.page_cnt},
               slot |-> [i \in Slots |-> unsynced.slot[i] \cup {d.slot[i]}],
               data |-> [k \in Keys |-> unsynced.data[k] \cup {d.data[k]}]]

Sync == unsynced' = IF scen.powerLoss THEN AsUnsynced(disk) ELSE unsynced

PutSlot(i, s) == Put([disk EXCEPT !.slot[i] = s])
PutPage(k, v) == Put([disk EXCEPT !.data[k] = v])
SlotOf(k, e) == [key |-> k, valid |-> e.valid, page |-> e.page]

(* What may be on the disk after a crash of the process, or of the machine. *)
AfterCrash ==
    IF ~scen.powerLoss THEN {disk}
    ELSE {[page_cnt |-> c, slot |-> s, data |-> d] :
            c \in unsynced.page_cnt,
            s \in {f \in [Slots -> UNION Range(unsynced.slot)] :
                     \A i \in Slots : f[i] \in unsynced.slot[i]},
            d \in {f \in [Keys -> UNION Range(unsynced.data)] :
                     \A k \in Keys : f[k] \in unsynced.data[k]}}

-----------------------------------------------------------------------------
(* Pages in memory. *)

(* DiskDoubleWriteBuffer::read_page and, when it has no such page,         *)
(* DiskBufferPool::load_page: the contents a pool gets, never verified.    *)
load_page(k) ==
    IF k \in DOMAIN dblwr_pages THEN dblwr_pages[k].page ELSE disk.data[k]

(* DiskDoubleWriteBuffer::load_pages: the intact slots the header counts,  *)
(* also those marked invalid; insert keeps the first of two for a page.    *)
load_pages ==
    LET intact == {i \in Slots : i < disk.page_cnt /\ disk.slot[i].page # Torn}
        found == {disk.slot[i].key : i \in intact}
        first(k) == Min({i \in intact : disk.slot[i].key = k})
    IN [k \in found |-> [page_index |-> first(k),
                         valid |-> disk.slot[first(k)].valid,
                         page |-> disk.slot[first(k)].page]]

(* What a data page holds once load_pages and recover have run on the disk *)
(* as it is now.                                                           *)
Recovered(k) ==
    IF k \in DOMAIN load_pages /\ load_pages[k].valid THEN load_pages[k].page
                                                      ELSE disk.data[k]

Init ==
    /\ scen \in Scenarios
    /\ dblwr_pages = <<>> /\ work = <<>> /\ page_cnt = 0 /\ op = Idle
    /\ disk = [page_cnt |-> 0, slot |-> [i \in Slots |-> NoSlot],
               data |-> [k \in Keys |-> 0]]
    /\ unsynced = AsUnsynced(disk)
    /\ phase = "down" /\ opened = {} /\ closing = NoPool
    /\ registered = Registered /\ created = Registered
    /\ version = [k \in Keys |-> 0]
    /\ crashes = 0 /\ closes = 0 /\ fails = 0

-----------------------------------------------------------------------------
(* add_page *)

(* The pool flushes its page: DiskBufferPool::flush_page_internal, from    *)
(* an eviction, an allocation or a sync while the database runs, and from  *)
(* purge_all_pages when close_file is closing the pool.                    *)
CanFlush(k) ==
    /\ op.at = "idle"
    /\ k \in scen.pages /\ k[1] \in opened
    /\ \/ phase = "running"
       \/ phase = "closing" /\ closing = k[1]


(* The page in memory: a buffered page is overwritten in place, a new one  *)
(* gets the slot numbered by the number of buffered pages.                 *)
Buffered(k, v) ==
    IF k \in DOMAIN dblwr_pages
    THEN [dblwr_pages EXCEPT ![k].page = v]
    ELSE [x \in DOMAIN dblwr_pages \cup {k} |->
            IF x # k THEN dblwr_pages[x]
            ELSE [page_index |-> Cardinality(DOMAIN dblwr_pages), valid |-> TRUE, page |-> v]]

AddToMemory(k) ==
    /\ CanFlush(k)
    /\ version[k] < scen.versions
    /\ version' = [version EXCEPT ![k] = @ + 1]
    /\ dblwr_pages' = Buffered(k, version'[k])
    /\ UNCHANGED <<page_cnt, work, database>>

(* add_page up to the middle of its write to the slot. *)
add_page(k) ==
    /\ AddToMemory(k)
    /\ PutSlot(dblwr_pages'[k].page_index, NoSlot)
    /\ op' = At("slot", k, IF k \in DOMAIN dblwr_pages THEN "overwrite" ELSE "insert")
    /\ UNCHANGED bounds

(* lseek or the first write fails: the page is only in memory. *)
add_page_unwritten(k) ==
    /\ fails < scen.fails
    /\ fails' = fails + 1
    /\ AddToMemory(k)
    /\ UNCHANGED <<disk, unsynced, op, scen, crashes, closes>>

(* The end of add_page when its slot is counted: flush if it is full. *)
FlushIfFull ==
    op' = IF Cardinality(DOMAIN dblwr_pages) >= scen.max_pages
          THEN At("flush", NoKey, "flush_page") ELSE Idle

(* The slot is written.  A new page goes on to the header or to the flush. *)
add_page_written ==
    /\ op.at = "slot"
    /\ PutSlot(dblwr_pages[op.key].page_index, SlotOf(op.key, dblwr_pages[op.key]))
    /\ IF op.by = "overwrite" THEN op' = Idle
       ELSE IF dblwr_pages[op.key].page_index + 1 > page_cnt
       THEN op' = [op EXCEPT !.at = "header"]
       ELSE FlushIfFull
    /\ UNCHANGED <<dblwr_pages, page_cnt, work, database, version, bounds>>

(* The header is raised to count the slot, in memory and on disk. *)
add_page_header ==
    /\ op.at = "header"
    /\ page_cnt' = dblwr_pages[op.key].page_index + 1
    /\ Put([disk EXCEPT !.page_cnt = page_cnt'])
    /\ FlushIfFull
    /\ UNCHANGED <<dblwr_pages, work, database, version, bounds>>

(* The write of the slot or of the header fails and add_page returns; the  *)
(* page stays buffered.                                                    *)
add_page_failed ==
    /\ fails < scen.fails
    /\ fails' = fails + 1
    /\ op.at \in {"slot", "header"}
    /\ op' = Idle
    /\ page_cnt' = IF op.at = "header" THEN dblwr_pages[op.key].page_index + 1 ELSE page_cnt
    /\ UNCHANGED <<dblwr_pages, disk, unsynced, work, database, version, scen, crashes, closes>>

-----------------------------------------------------------------------------
(* flush_page and clear_pages *)

(* flush_page syncs the slots and starts its loop over the buffered pages. *)
flush_page ==
    /\ op.at = "flush"
    /\ Sync
    /\ work' = dblwr_pages
    /\ op' = At("next", NoKey, "flush_page")
    /\ UNCHANGED <<dblwr_pages, page_cnt, disk, database, version, bounds>>

(* Mutant: clear_pages empties the whole buffer. *)
clear_pages_All ==
    /\ op.at = "idle"
    /\ phase = "closing" /\ closing # NoPool
    /\ work' = Restrict(dblwr_pages, {k \in DOMAIN dblwr_pages : k[1] = closing})
    /\ dblwr_pages' = <<>>
    /\ op' = At("next", NoKey, "clear_pages")
    /\ UNCHANGED <<page_cnt, disk, unsynced, database, version, bounds>>

(* Mutant: clear_pages drops the pages of the pool unwritten. *)
clear_pages_Drop ==
    /\ op.at = "idle"
    /\ phase = "closing" /\ closing # NoPool
    /\ dblwr_pages' = Restrict(dblwr_pages, {k \in DOMAIN dblwr_pages : k[1] # closing})
    /\ op' = At("next", NoKey, "clear_pages")
    /\ UNCHANGED <<page_cnt, work, disk, unsynced, database, version, bounds>>

(* clear_pages takes the pages of the pool that is being closed out of the *)
(* buffer, after purge_all_pages, and goes through them without a sync.    *)
clear_pages ==
    /\ op.at = "idle"
    /\ phase = "closing" /\ closing # NoPool
    /\ work' = Restrict(dblwr_pages, {k \in DOMAIN dblwr_pages : k[1] = closing})
    /\ dblwr_pages' = Restrict(dblwr_pages, {k \in DOMAIN dblwr_pages : k[1] # closing})
    /\ op' = At("next", NoKey, "clear_pages")
    /\ UNCHANGED <<page_cnt, disk, unsynced, database, version, bounds>>

(* The loops' next page: flush_page follows the hash map, clear_pages the  *)
(* page numbers.                                                           *)
NextPages ==
    {k \in DOMAIN work :
       op.by = "clear_pages" => \A x \in DOMAIN work : k[2] <= x[2]}

(* Mutant: the slot is marked invalid before the page is written. *)
write_page_InvalidFirst(k) ==
    /\ op.at = "next"
    /\ k \in NextPages
    /\ k[1] \in opened
    /\ op' = [op EXCEPT !.at = "page", !.key = k]
    /\ Put([disk EXCEPT !.data[k] = Torn, !.slot[work[k].page_index].valid = FALSE])
    /\ UNCHANGED <<dblwr_pages, page_cnt, work, database, version, bounds>>

(* DiskDoubleWriteBuffer::write_page and DiskBufferPool::write_page up to  *)
(* the middle of the write; flush_page skips invalid pages.                *)
write_page(k) ==
    /\ op.at = "next"
    /\ k \in NextPages
    /\ IF op.by = "flush_page" /\ ~work[k].valid
       THEN /\ op' = [op EXCEPT !.at = "invalidate", !.key = k]
            /\ UNCHANGED <<disk, unsynced>>
       ELSE /\ k[1] \in opened
            /\ op' = [op EXCEPT !.at = "page", !.key = k]
            /\ PutPage(k, Torn)
    /\ UNCHANGED <<dblwr_pages, page_cnt, work, database, version, bounds>>

(* The data page is whole. *)
write_page_written ==
    /\ op.at = "page"
    /\ PutPage(op.key, work[op.key].page)
    /\ op' = [op EXCEPT !.at = "invalidate"]
    /\ UNCHANGED <<dblwr_pages, page_cnt, work, database, version, bounds>>

Done(k) == Restrict(work, DOMAIN work \ {k})

(* The slot is marked invalid; an error of that write is ignored. *)
invalidate ==
    /\ op.at = "invalidate"
    /\ \/ /\ PutSlot(work[op.key].page_index, [SlotOf(op.key, work[op.key]) EXCEPT !.valid = FALSE])
          /\ UNCHANGED fails
       \/ /\ fails < scen.fails
          /\ fails' = fails + 1
          /\ UNCHANGED <<disk, unsynced>>
    /\ work' = Done(op.key)
    /\ op' = At("next", NoKey, op.by)
    /\ UNCHANGED <<dblwr_pages, page_cnt, database, version, scen, crashes, closes>>

(* The end of flush_page: the header is reset in memory only.  The flush   *)
(* of recover is the last step before the redo log.                        *)
flush_page_done ==
    /\ op.at = "next" /\ op.by = "flush_page" /\ work = <<>>
    /\ dblwr_pages' = <<>>
    /\ page_cnt' = 0
    /\ op' = Idle
    /\ phase' = IF phase = "recovering" THEN "running" ELSE phase
    /\ UNCHANGED <<work, disk, unsynced, opened, closing, registered, created, version, bounds>>

(* The end of clear_pages and of close_file. *)
clear_pages_done ==
    /\ op.at = "next" /\ op.by = "clear_pages" /\ work = <<>>
    /\ op' = Idle
    /\ opened' = opened \ {closing}
    /\ closing' = NoPool
    /\ UNCHANGED <<dblwr_pages, page_cnt, work, disk, unsynced, phase, registered, created, version, bounds>>

-----------------------------------------------------------------------------
(* The database. *)

Forget ==
    /\ dblwr_pages' = <<>> /\ work' = <<>> /\ page_cnt' = 0 /\ op' = Idle
    /\ opened' = {} /\ closing' = NoPool

(* A write to a data file fails.  clear_pages drops what is left and still *)
(* returns success.  flush_page returns at once: pages it has been through *)
(* are freed and still in dblwr_pages_, and using them is undefined.       *)
(* During recover Db::init fails and the server does not start.            *)
write_page_failed ==
    /\ op.at = "page"
    /\ fails < scen.fails
    /\ fails' = fails + 1
    /\ \/ /\ op.by = "clear_pages"
          /\ work' = <<>>
          /\ op' = At("next", NoKey, "clear_pages")
          /\ UNCHANGED <<dblwr_pages, page_cnt, database>>
       \/ /\ op.by = "flush_page" /\ phase # "recovering"
          /\ work' = <<>>
          /\ op' = Idle
          /\ phase' = IF DOMAIN work = DOMAIN dblwr_pages THEN phase ELSE "undefined"
          /\ UNCHANGED <<dblwr_pages, page_cnt, opened, closing, registered, created>>
       \/ /\ op.by = "flush_page" /\ phase = "recovering"
          /\ Forget
          /\ phase' = "down"
          /\ UNCHANGED <<registered, created>>
    /\ UNCHANGED <<disk, unsynced, version, scen, crashes, closes>>

(* DiskDoubleWriteBuffer::open_file; Db::init then opens the tables that   *)
(* have a meta file, and their pools.                                      *)
open_file ==
    /\ phase \in {"down", "stopped"}
    /\ dblwr_pages' = load_pages
    /\ page_cnt' = disk.page_cnt
    /\ phase' = "loaded"
    /\ opened' = registered
    /\ version' = [k \in Keys |-> Recovered(k)]
    /\ UNCHANGED <<work, op, disk, unsynced, closing, registered, created, bounds>>

(* DiskDoubleWriteBuffer::recover, from Db::init_dblwr_buffer. *)
recover ==
    /\ phase = "loaded"
    /\ phase' = "recovering"
    /\ op' = At("flush", NoKey, "flush_page")
    /\ UNCHANGED <<dblwr_pages, page_cnt, work, disk, unsynced, opened, closing, registered,
                   created, version, bounds>>

(* No pool has the id of a valid page: the ASSERT of write_page, or in a   *)
(* build without it the use of the null pool, ends the process.            *)
write_page_assert ==
    /\ op.at = "next" /\ op.by = "flush_page"
    /\ \E k \in NextPages : work[k].valid /\ k[1] \notin opened
    /\ Forget
    /\ phase' = "down"
    /\ UNCHANGED <<disk, unsynced, registered, created, version, bounds>>

(* The flush of Db::sync, after the pools flushed their pages. *)
sync ==
    /\ phase = "running" /\ op.at = "idle"
    /\ op' = At("flush", NoKey, "flush_page")
    /\ UNCHANGED <<dblwr_pages, page_cnt, work, disk, unsynced, database, version, bounds>>

(* Table::create_index makes and fills the file of the index first, ...    *)
create_index(b) ==
    /\ phase = "running" /\ op.at = "idle"
    /\ b \notin created
    /\ created' = created \cup {b}
    /\ opened' = opened \cup {b}
    /\ UNCHANGED <<memory, disk, unsynced, phase, closing, registered, version, bounds>>

(* ... and names it in the meta file of the table at its end. *)
create_index_meta(b) ==
    /\ phase = "running" /\ op.at = "idle"
    /\ b \in opened \ registered
    /\ registered' = registered \cup {b}
    /\ UNCHANGED <<memory, disk, unsynced, phase, opened, closing, created, version, bounds>>

(* Db::~Db deletes the tables, which close their pools one by one, ...     *)
shutdown ==
    /\ phase = "running" /\ op.at = "idle"
    /\ closes < scen.closes
    /\ closes' = closes + 1
    /\ phase' = "closing"
    /\ UNCHANGED <<memory, disk, unsynced, opened, closing, registered, created, version,
                   scen, crashes, fails>>

close_file(b) ==
    /\ phase = "closing" /\ op.at = "idle" /\ closing = NoPool
    /\ b \in opened
    /\ closing' = b
    /\ UNCHANGED <<memory, disk, unsynced, phase, opened, registered, created, version, bounds>>

(* ... and then the double write buffer, which has no page left to flush.  *)
stop ==
    /\ phase = "closing" /\ op.at = "idle"
    /\ opened = {}
    /\ Forget
    /\ phase' = "stopped"
    /\ UNCHANGED <<disk, unsynced, registered, created, version, bounds>>

(* The process or the machine stops anywhere. *)
crash ==
    /\ phase \notin {"down", "stopped"}
    /\ crashes < scen.crashes
    /\ crashes' = crashes + 1
    /\ disk' \in AfterCrash
    /\ unsynced' = AsUnsynced(disk')
    /\ Forget
    /\ phase' = "down"
    /\ UNCHANGED <<registered, created, version, scen, closes, fails>>

(* What a process does with freed pages is not modelled: it rests. *)
undefined == phase = "undefined" /\ UNCHANGED vars

Next ==
    \/ \E k \in Keys : add_page(k) \/ add_page_unwritten(k) \/ write_page(k)
    \/ add_page_written \/ add_page_header \/ add_page_failed
    \/ flush_page \/ flush_page_done \/ clear_pages \/ clear_pages_done
    \/ write_page_written \/ write_page_failed \/ write_page_assert \/ invalidate
    \/ open_file \/ recover \/ sync \/ shutdown \/ stop \/ crash \/ undefined
    \/ \E b \in Pools : create_index(b) \/ create_index_meta(b) \/ close_file(b)

Spec == Init /\ [][Next]_vars

-----------------------------------------------------------------------------
(* Properties. *)

(* No write has failed and no power loss dropped what the code does not    *)
(* sync (the README says what happens then).                               *)
WritesHold == fails = 0 /\ ~scen.powerLoss

(* Should the process stop now, load_pages and recover leave no data page  *)
(* half written: every page flush_page has begun to write still has an     *)
(* intact and valid slot, and load_pages takes that slot.  A shutdown is   *)
(* left out: the pages that close_file flushes may share a slot.           *)
Repairable == (WritesHold /\ closes = 0) => \A k \in Keys : Recovered(k) # Torn

(* And nothing that was flushed is lost: the slots and the data files      *)
(* together hold the last contents of every page, except for the page      *)
(* add_page is just writing (with the exceptions of Repairable).           *)
CopyLatest ==
    (phase \in {"loaded", "recovering", "running"} /\ WritesHold /\ closes = 0) =>
      \A k \in Keys :
        (op.at \in {"slot", "header"} /\ op.key = k) \/ Recovered(k) = version[k]

(* A page that is not in the buffer pool is read back as it was last       *)
(* flushed, also after a failing write.  While the tables are opened,      *)
(* before recover, a slot marked invalid can serve older contents (see the *)
(* README); otherwise the page is right then too, if no write failed.      *)
ServedInvalid(k) == k \in DOMAIN dblwr_pages /\ ~dblwr_pages[k].valid
ReadLatest ==
    op.at = "idle" =>
      \A k \in Keys : k[1] \in opened =>
        /\ phase \in {"running", "closing"} => load_page(k) = version[k]
        /\ phase = "loaded" /\ WritesHold => ServedInvalid(k) \/ load_page(k) = version[k]

(* A shutdown without write errors leaves the last contents of every page  *)
(* in the data files, whatever pages share a slot.                         *)
CleanShutdown ==
    (phase = "stopped" /\ fails = 0) => \A k \in Keys : disk.data[k] = version[k]

(* When a data page is being written the same contents are on the disk in  *)
(* a slot, whichever of the unsynced writes a power loss drops.  Not so in *)
(* a shutdown, as clear_pages does not sync, and when a slot could not be  *)
(* written.                                                                *)
CopyBeforePage ==
    (scen.powerLoss /\ op.at = "page" /\ fails = 0 /\ closes = 0) =>
      unsynced.slot[work[op.key].page_index] = {SlotOf(op.key, work[op.key])}

(* Whenever the process or the machine stops, what the double write buffer *)
(* has on disk makes good for every page that is half written, and loses   *)
(* nothing that was flushed.                                               *)
CrashSafe == TypeOK /\ Repairable /\ CopyLatest /\ CopyBeforePage
=============================================================================
