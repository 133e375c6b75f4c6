----------------------------- MODULE BufferPool -----------------------------
(***************************************************************************)
(* The buffer pools, src/observer/storage/buffer/disk_buffer_pool.cpp:     *)
(* every file is a DiskBufferPool, and all of them share the frames of one *)
(* BPFrameManager.  Pages come and go with pins, evictions, allocation and *)
(* disposal.                                                               *)
(*                                                                         *)
(* Four locks are involved: lock_ of a pool, lock_ of the frame manager,   *)
(* which purge_frames keeps while it writes a page, lock_ of the           *)
(* BufferPoolManager, and lock_ of the double write buffer, which keeps it *)
(* while it empties itself and looks the pools up under the manager's      *)
(* lock_.  A step ends where the code waits for one of them.               *)
(*                                                                         *)
(* The double write buffer and the data file are one place for each page,  *)
(* disk (module DoubleWriteBuffer is about the two); waiting for the log   *)
(* in flush_page_internal always ends and is left out (module DiskLog).    *)
(* Changes of a page are atomic, as its latch makes them (RecordFile), and *)
(* are numbered.  The header page of a pool takes a frame for good; its    *)
(* contents are the variables page_count and allocated.                    *)
(***************************************************************************)
EXTENDS Integers, FiniteSets, FiniteSetsExt

CONSTANTS
    Threads,       \* the threads of the connections
    NoThread,      \* the holder of a free lock
    Pools,         \* the files
    Frames,        \* the frames of the allocator
    NoFrame,       \* a page that is not in memory
    MAX_PAGE_NUM,  \* BPFileHeader::MAX_PAGE_NUM, the last page of each file
    HoldBound,     \* pages a thread pins at a time
    WriteBound,    \* changes of a page
    SpoilBound,    \* spoiled pages after which no operation begins any more
    FailBound      \* failing reads and writes

ASSUME PoolAssumption ==
    /\ NoThread \notin Threads /\ NoFrame \notin Frames /\ Pools # {}
    /\ MAX_PAGE_NUM \in [Pools -> Nat]
    /\ {HoldBound, WriteBound, SpoilBound, FailBound} \subseteq Nat

Keys == UNION {{b} \X (0 .. MAX_PAGE_NUM[b]) : b \in Pools}   \* FrameId: pool and page number
Header(b) == <<b, 0>>

VARIABLES
    frames,        \* BPFrameManager::frames_: the frame of a page
    pin,           \* Frame::pin_count_
    dirty,         \* the frames with Frame::dirty_ set
    data,          \* Frame::page_: which change of which page it holds
    disk,          \* the same, for the page on disk
    page_count,    \* BPFileHeader::page_count - 1
    allocated,     \* BPFileHeader::bitmap
    opened,        \* BufferPoolManager::buffer_pools_
    lock,          \* holder of DiskBufferPool::lock_
    frame_lock,    \* holder of BPFrameManager::lock_
    manager_lock,  \* holder of BufferPoolManager::lock_
    dblwr_lock,    \* holder of DiskDoubleWriteBuffer::lock_, where it waits for another
    pc,            \* where a thread is: see Steps
    mode,          \* what it wants a frame for
    key,           \* the page it is about
    frame,         \* the frame it has got for it, or the one it purges
    held,          \* the pages it has pinned, with the frames it was given
    version,       \* the last change of a page
    leaked,        \* frames left with a pin of nobody by a failed load or flush_all_pages
    spoiled,       \* pages hit by one of the cases NoChangeLost names
    failures

memVars == <<frames, pin, dirty, data>>
fileVars == <<disk, page_count, allocated>>
lockVars == <<lock, frame_lock, manager_lock, dblwr_lock>>
threadVars == <<pc, mode, key, frame>>
vars == <<memVars, fileVars, opened, lockVars, threadVars, held, version, leaked, spoiled, failures>>

(* get_this_page: looking for the page, waiting for lock_ after a miss.    *)
(* allocate_frame: waiting for the frame manager to get a frame, to purge  *)
(* one, for the manager's lock_ and for the lock_ of another pool to write *)
(* a page of it, and for the double write buffer to evict the page.  Then: *)
(* loading the page or appending it to the file, and extending the file;   *)
(* writing and freeing the frame when the page could not be loaded.        *)
(* dispose_page: find and drop.                                            *)
Steps == {"idle", "get", "miss", "alloc", "purge", "manager", "foreign", "evict", "load",
          "extend", "discard", "free", "find", "drop"}
Modes == {"get", "append", "open"}

Versions == -1 .. WriteBound           \* -1: the file does not reach this page
Contents == Keys \X Versions

TypeOK ==
    /\ frames \in [Keys -> Frames \cup {NoFrame}]
    /\ pin \in [Frames -> Nat]
    /\ dirty \subseteq Frames
    /\ data \in [Frames -> Contents]
    /\ disk \in [Keys -> Contents]
    /\ page_count \in [Pools -> Nat]
    /\ allocated \in [Pools -> SUBSET Nat]
    /\ \A b \in Pools : allocated[b] \subseteq 1 .. page_count[b] /\ page_count[b] <= MAX_PAGE_NUM[b]
    /\ opened \subseteq Pools
    /\ lock \in [Pools -> Threads \cup {NoThread}]
    /\ {frame_lock, manager_lock, dblwr_lock} \subseteq Threads \cup {NoThread}
    /\ pc \in [Threads -> Steps]
    /\ mode \in [Threads -> Modes]
    /\ key \in [Threads -> Keys]
    /\ frame \in [Threads -> Frames \cup {NoFrame}]
    /\ held \in [Threads -> SUBSET (Keys \X Frames)]
    /\ version \in [Keys -> 0 .. WriteBound]
    /\ leaked \subseteq Frames
    /\ spoiled \subseteq Keys
    /\ failures \in 0 .. FailBound

AnyKey == Header(CHOOSE b \in Pools : TRUE)
Garbage == <<AnyKey, 0>>   \* what a free frame holds: nothing a page is taken for

Init ==
    /\ frames = [k \in Keys |-> NoFrame]
    /\ pin = [f \in Frames |-> 0]
    /\ dirty = {}
    /\ data = [f \in Frames |-> Garbage]
    /\ disk = [k \in Keys |-> <<k, IF k[2] = 0 THEN 0 ELSE -1>>]
    /\ page_count = [b \in Pools |-> 0]
    /\ allocated = [b \in Pools |-> {}]
    /\ opened = {}
    /\ lock = [b \in Pools |-> NoThread]
    /\ frame_lock = NoThread
    /\ manager_lock = NoThread
    /\ dblwr_lock = NoThread
    /\ pc = [t \in Threads |-> "idle"]
    /\ mode = [t \in Threads |-> "get"]
    /\ key = [t \in Threads |-> AnyKey]
    /\ frame = [t \in Threads |-> NoFrame]
    /\ held = [t \in Threads |-> {}]
    /\ version = [k \in Keys |-> 0]
    /\ leaked = {}
    /\ spoiled = {}
    /\ failures = 0

-----------------------------------------------------------------------------
Used == {frames[k] : k \in Keys} \ {NoFrame}

Free == Frames \ Used
KeyOf(f) == CHOOSE k \in Keys : frames[k] = f
Allocated(k) == k[2] \in allocated[k[1]]

Goto(t, step) == pc' = [pc EXCEPT ![t] = step]
Begin(t, step, m, k) ==
    /\ Goto(t, step)
    /\ mode' = [mode EXCEPT ![t] = m]
    /\ key' = [key EXCEPT ![t] = k]
Return(t) ==
    /\ Begin(t, "idle", "get", AnyKey)
    /\ frame' = [frame EXCEPT ![t] = NoFrame]
Fail == failures < FailBound /\ failures' = failures + 1

(* Which lock the caller of allocate_frame gives up when it returns. *)
Unlock(t) ==
    /\ lock' = [b \in Pools |-> IF lock[b] = t THEN NoThread ELSE lock[b]]
    /\ manager_lock' = IF manager_lock = t THEN NoThread ELSE manager_lock

-----------------------------------------------------------------------------
(* A thread may call an operation. *)
Ready(t) == pc[t] = "idle" /\ Cardinality(spoiled) <= SpoilBound

(* DiskBufferPool::get_this_page: BPFrameManager::get pins a page that is  *)
(* in memory, loaded or not.  Whoever gets it before it is loaded reads    *)
(* something else and may have its changes overwritten: a spoiled page.    *)
(* Whoever gets it while it is freed, its load having failed, is left with *)
(* a frame any other page may be given: then all are spoiled.              *)
InHand(k, step) == \E t \in Threads : pc[t] = step /\ frame[t] = frames[k]

get_internal(f) == pin' = [pin EXCEPT ![f] = @ + 1]

Lookup(t, k) ==
    /\ frame_lock = NoThread
    /\ \/ /\ frames[k] # NoFrame
          /\ get_internal(frames[k])
          /\ held' = [held EXCEPT ![t] = @ \cup {<<k, frames[k]>>}]
          /\ spoiled' = CASE InHand(k, "load") -> spoiled \cup {k}
                          [] InHand(k, "discard") \/ InHand(k, "free") -> Keys
                          [] OTHER -> spoiled
          /\ Return(t)
       \/ /\ frames[k] = NoFrame
          /\ Begin(t, "miss", "get", k)
          /\ UNCHANGED <<pin, held, spoiled, frame>>
    /\ UNCHANGED <<leaked, frames, dirty, data, fileVars, opened, lockVars, version, failures>>

get_this_page(t, k) ==
    /\ Ready(t)
    /\ Cardinality(held[t]) < HoldBound
    /\ Allocated(k)
    /\ k[1] \in opened
    /\ \A h \in held[t] : h[1] # k
    /\ \A u \in Threads : ~(pc[u] \in {"find", "drop"} /\ key[u] = k)
    /\ Lookup(t, k)

Get(t) == pc[t] = "get" /\ Lookup(t, key[t])

(* After a miss the pool's lock_ is taken. *)
Miss(t) ==
    /\ pc[t] = "miss"
    /\ lock[key[t][1]] = NoThread
    /\ lock' = [lock EXCEPT ![key[t][1]] = t]
    /\ Goto(t, "alloc")
    /\ UNCHANGED <<leaked, memVars, fileVars, opened, frame_lock, manager_lock, dblwr_lock, mode, key,
                   frame, held, version, spoiled, failures>>

(* BPFrameManager::alloc: the frame of the page, if somebody was faster    *)
(* (get_this_page then loads the page once more, over what others may have *)
(* changed), or a free frame.                                              *)
alloc(t) ==
    /\ pc[t] = "alloc"
    /\ frame_lock = NoThread
    /\ \/ /\ frames[key[t]] # NoFrame
          /\ frame' = [frame EXCEPT ![t] = frames[key[t]]]
          /\ get_internal(frames[key[t]])
          /\ spoiled' = spoiled \cup {key[t]}
          /\ Goto(t, "load")
          /\ UNCHANGED frames
       \/ /\ frames[key[t]] = NoFrame
          /\ \E f \in Free :
                /\ frames' = [frames EXCEPT ![key[t]] = f]
                /\ frame' = [frame EXCEPT ![t] = f]
                /\ pin' = [pin EXCEPT ![f] = @ + 1]
          /\ Goto(t, "load")
          /\ UNCHANGED spoiled
       \/ /\ frames[key[t]] = NoFrame /\ Free = {}
          /\ Goto(t, "purge")
          /\ UNCHANGED <<frames, frame, pin, spoiled>>
    /\ UNCHANGED <<leaked, dirty, data, fileVars, opened, lockVars, mode, key, held, version, failures>>

-----------------------------------------------------------------------------
(* BPFrameManager::purge_frames with the purger of allocate_frame.  The    *)
(* victim is the least recently used of the frames nobody has pinned; here *)
(* any of them.                                                            *)
(* Mutant: pins are not respected. *)
can_purge_Any == Used

can_purge == {f \in Used : pin[f] = 0}

(* What the frame contains is nobody's from now on (set_page_num(-1)); its *)
(* dirty flag is left as it is.                                            *)
free_internal(k) ==
    /\ frames' = [frames EXCEPT ![k] = NoFrame]
    /\ data' = [data EXCEPT ![frames[k]] = Garbage]

(* add_page with the double write buffer's lock_: at once, or, when the    *)
(* page makes the buffer full, after a wait for the manager's lock_ with   *)
(* the former kept.                                                        *)
add_page(t) ==
    \/ dblwr_lock = NoThread /\ UNCHANGED dblwr_lock
    \/ dblwr_lock = t /\ manager_lock = NoThread /\ dblwr_lock' = NoThread

BufferFull(t) ==
    /\ pc[t] \in {"evict", "extend", "discard"}
    /\ dblwr_lock = NoThread
    /\ dblwr_lock' = t
    /\ UNCHANGED <<leaked, memVars, fileVars, opened, lock, frame_lock, manager_lock, threadVars, held,
                   version, spoiled, failures>>

(* The page is in the buffer before it is written to the buffer's file, so *)
(* whoever reads it gets its new contents even when that write fails.      *)
flush_page_internal(t, f) ==
    /\ add_page(t)
    /\ disk' = [disk EXCEPT ![KeyOf(f)] = data[f]]
    /\ dirty' = dirty \ {f}
    /\ UNCHANGED <<spoiled, failures>>

(* Mutant: the flag is cleared and the page is not in the buffer. *)
FlushFailed_Clean(t, f) ==
    /\ add_page(t)
    /\ Fail
    /\ dirty' = dirty \ {f}
    /\ UNCHANGED <<disk, spoiled>>

(* When emptying the buffer fails in the middle, pages are left in it that *)
(* are deleted already, and nothing can be said of any page any more       *)
(* (module DoubleWriteBuffer).                                             *)
FlushFailed(t, f) ==
    /\ add_page(t)
    /\ Fail
    /\ disk' = [disk EXCEPT ![KeyOf(f)] = data[f]]
    /\ UNCHANGED spoiled \/ (dblwr_lock = t /\ spoiled' = Keys)
    /\ UNCHANGED dirty

(* A clean frame is freed.  A dirty one is written first, by flush_page of *)
(* the manager if it is of another pool; the frame manager stays locked.   *)
(* When nothing can be purged allocate_frame tries again.                  *)
purge_frames(t) ==
    /\ pc[t] = "purge"
    /\ frame_lock = NoThread
    /\ \/ \E f \in can_purge :
            \/ /\ f \notin dirty
               /\ free_internal(KeyOf(f))
               /\ Goto(t, "alloc")
               /\ UNCHANGED <<pin, frame_lock, frame>>
            \/ /\ f \in dirty
               /\ pin' = [pin EXCEPT ![f] = @ + 1]
               /\ frame_lock' = t
               /\ frame' = [frame EXCEPT ![t] = f]
               /\ Goto(t, IF KeyOf(f)[1] = key[t][1] THEN "evict" ELSE "manager")
               /\ UNCHANGED <<frames, data>>
       \/ /\ can_purge = {}
          /\ Goto(t, "alloc")
          /\ UNCHANGED <<frames, pin, data, frame_lock, frame>>
    /\ UNCHANGED <<dirty, fileVars, opened, lock, manager_lock, dblwr_lock, mode, key, held, version,
                   leaked, spoiled, failures>>

(* BufferPoolManager::flush_page: the manager's lock_, then the lock_ of   *)
(* the other pool.  open_file holds the former already.                    *)
LockManager(t) ==
    /\ pc[t] = "manager"
    /\ manager_lock = NoThread
    /\ manager_lock' = t
    /\ Goto(t, "foreign")
    /\ UNCHANGED <<leaked, memVars, fileVars, opened, lock, frame_lock, dblwr_lock, mode, key, frame,
                   held, version, spoiled, failures>>

flush_page(t) ==
    /\ pc[t] = "foreign"
    /\ lock[KeyOf(frame[t])[1]] = NoThread
    /\ lock' = [lock EXCEPT ![KeyOf(frame[t])[1]] = t]
    /\ Goto(t, "evict")
    /\ UNCHANGED <<leaked, memVars, fileVars, opened, frame_lock, manager_lock, dblwr_lock, mode, key,
                   frame, held, version, spoiled, failures>>

(* The victim is of another pool than the page it makes room for. *)
Foreign(t) == KeyOf(frame[t])[1] # key[t][1]

(* The purger's write, and what purge_frames and flush_page do after it. *)
Evict(t) ==
    /\ pc[t] = "evict"
    /\ \/ flush_page_internal(t, frame[t]) /\ free_internal(KeyOf(frame[t]))
       \/ FlushFailed(t, frame[t]) /\ UNCHANGED <<frames, data>>
    /\ pin' = [pin EXCEPT ![frame[t]] = @ - 1]
    /\ frame_lock' = NoThread
    /\ IF Foreign(t)
       THEN lock' = [lock EXCEPT ![KeyOf(frame[t])[1]] = NoThread] /\ manager_lock' = NoThread
       ELSE UNCHANGED <<lock, manager_lock>>
    /\ frame' = [frame EXCEPT ![t] = NoFrame]
    /\ Goto(t, "alloc")
    /\ UNCHANGED <<page_count, allocated, opened, mode, key, held, version, leaked>>

-----------------------------------------------------------------------------
(* load_page at the end of get_this_page; read_page takes the double write *)
(* buffer's lock_.                                                         *)
load_page(t) ==
    /\ pc[t] = "load" /\ mode[t] = "get"
    /\ dblwr_lock = NoThread
    /\ disk[key[t]][2] >= 0
    /\ data' = [data EXCEPT ![frame[t]] = disk[key[t]]]
    /\ held' = [held EXCEPT ![t] = @ \cup {<<key[t], frame[t]>>}]
    /\ Unlock(t)
    /\ Return(t)
    /\ UNCHANGED <<leaked, frames, pin, dirty, fileVars, opened, frame_lock, dblwr_lock, version,
                   spoiled, failures>>

(* The frame stays without the page, with a pin nobody gives back. *)
Leak(t) ==
    /\ leaked' = leaked \cup {frame[t]}
    /\ Unlock(t)
    /\ Return(t)

(* The page cannot be read, and purge_frame is to free the frame.  If it   *)
(* is pinned by others, or by nobody any more since an earlier load into   *)
(* it failed, it stays.  If its last page was disposed of while dirty, the *)
(* flag is still set and the frame is to be written, whatever it contains. *)
load_page_failed(t) ==
    /\ pc[t] = "load" /\ mode[t] # "append"
    /\ dblwr_lock = NoThread
    /\ \/ Fail
       \/ disk[key[t]][2] < 0 /\ UNCHANGED failures
    /\ \/ /\ pin[frame[t]] # 1
          /\ Leak(t)
          /\ spoiled' = spoiled \cup {key[t]}
       \/ /\ pin[frame[t]] = 1
          /\ Goto(t, IF frame[t] \in dirty THEN "discard" ELSE "free")
          /\ UNCHANGED <<lock, manager_lock, mode, key, frame, leaked, spoiled>>
    /\ UNCHANGED <<memVars, fileVars, opened, frame_lock, dblwr_lock, held, version>>

(* The disk that could not be read may not be written either. *)
Discard(t) ==
    /\ pc[t] = "discard"
    /\ add_page(t)
    /\ disk' = [disk EXCEPT ![key[t]] = data[frame[t]]]
    /\ \/ /\ dirty' = dirty \ {frame[t]}
          /\ spoiled' = spoiled \cup {key[t]}
          /\ Goto(t, "free")
          /\ UNCHANGED <<lock, manager_lock, mode, key, frame, leaked>>
       \/ /\ Leak(t)
          /\ spoiled' = spoiled \cup {key[t]} \/ (dblwr_lock = t /\ spoiled' = Keys)
          /\ UNCHANGED dirty
    /\ UNCHANGED <<frames, pin, data, page_count, allocated, opened, frame_lock, held, version, failures>>

free(t) ==
    /\ pc[t] = "free"
    /\ frame_lock = NoThread
    /\ free_internal(key[t])
    /\ pin' = [pin EXCEPT ![frame[t]] = @ - 1]
    /\ Unlock(t)
    /\ Return(t)
    /\ UNCHANGED <<leaked, dirty, fileVars, opened, frame_lock, dblwr_lock, held, version, spoiled,
                   failures>>

-----------------------------------------------------------------------------
(* DiskBufferPool::allocate_page: a number that was disposed of, and the   *)
(* page as it was left on disk; otherwise the file grows by a page.        *)
Disposed(b) == (1 .. page_count[b]) \ allocated[b]

(* Mutant: lock_ is kept for get_this_page, which takes it itself. *)
ReusePage_Locked(t, b) ==
    /\ Disposed(b) # {}
    /\ lock' = [lock EXCEPT ![b] = t]
    /\ allocated' = [allocated EXCEPT ![b] = @ \cup {Min(Disposed(b))}]
    /\ Begin(t, "get", "get", <<b, Min(Disposed(b))>>)

ReusePage(t, b) ==
    /\ Disposed(b) # {}
    /\ allocated' = [allocated EXCEPT ![b] = @ \cup {Min(Disposed(b))}]
    /\ Begin(t, "get", "get", <<b, Min(Disposed(b))>>)
    /\ UNCHANGED lock

AppendPage(t, b) ==
    /\ Disposed(b) = {} /\ page_count[b] < MAX_PAGE_NUM[b]
    /\ lock' = [lock EXCEPT ![b] = t]
    /\ Begin(t, "alloc", "append", <<b, page_count[b] + 1>>)
    /\ UNCHANGED allocated

allocate_page(t, b) ==
    /\ Ready(t)
    /\ Cardinality(held[t]) < HoldBound
    /\ b \in opened
    /\ lock[b] = NoThread
    /\ ReusePage(t, b) \/ AppendPage(t, b)
    /\ UNCHANGED <<memVars, disk, page_count, opened, frame_lock, manager_lock, dblwr_lock, frame, held,
                   version, leaked, spoiled, failures>>

(* The end of allocate_page: the header, and an empty page that is written *)
(* at once to extend the file.  When that fails the page is given out all  *)
(* the same.                                                               *)
clear_page(t) ==
    /\ pc[t] = "load" /\ mode[t] = "append"
    /\ page_count' = [page_count EXCEPT ![key[t][1]] = @ + 1]
    /\ allocated' = [allocated EXCEPT ![key[t][1]] = @ \cup {key[t][2]}]
    /\ data' = [data EXCEPT ![frame[t]] = <<key[t], 0>>]
    /\ Goto(t, "extend")
    /\ UNCHANGED <<frames, pin, dirty, disk, opened, lockVars, mode, key, frame, held, version, leaked,
                   spoiled, failures>>

Extend(t) ==
    /\ pc[t] = "extend"
    /\ flush_page_internal(t, frame[t]) \/ FlushFailed(t, frame[t])
    /\ held' = [held EXCEPT ![t] = @ \cup {<<key[t], frame[t]>>}]
    /\ Unlock(t)
    /\ Return(t)
    /\ UNCHANGED <<frames, pin, data, page_count, allocated, opened, frame_lock, version, leaked>>

(* dispose_page, called by the B+ tree for a page it has unlinked: nobody  *)
(* uses it or looks for it (LatchMemo::release), nor will until it is      *)
(* allocated again.  Changes of the page that are not on disk are dropped  *)
(* with the frame.                                                         *)
Wanted(k) ==
    \E t \in Threads : (pc[t] # "idle" /\ key[t] = k) \/ \E h \in held[t] : h[1] = k

dispose_page(t, k) ==
    /\ Ready(t)
    /\ k[1] \in opened /\ Allocated(k) /\ ~Wanted(k)
    /\ lock[k[1]] = NoThread
    /\ lock' = [lock EXCEPT ![k[1]] = t]
    /\ Begin(t, "find", "get", k)
    /\ UNCHANGED <<leaked, memVars, fileVars, opened, frame_lock, manager_lock, dblwr_lock, frame, held,
                   version, spoiled, failures>>

Deallocate(t) ==
    /\ allocated' = [allocated EXCEPT ![key[t][1]] = @ \ {key[t][2]}]
    /\ version' = [version EXCEPT ![key[t]] = Max({0, disk[key[t]][2]})]
    /\ Unlock(t)
    /\ Return(t)

find(t) ==
    /\ pc[t] = "find"
    /\ frame_lock = NoThread
    /\ \/ /\ frames[key[t]] # NoFrame
          /\ get_internal(frames[key[t]])
          /\ frame' = [frame EXCEPT ![t] = frames[key[t]]]
          /\ Goto(t, "drop")
          /\ UNCHANGED <<allocated, version, lock, manager_lock, mode, key>>
       \/ /\ frames[key[t]] = NoFrame
          /\ Deallocate(t)
          /\ UNCHANGED pin
    /\ UNCHANGED <<leaked, frames, dirty, data, disk, page_count, opened, frame_lock, dblwr_lock, held,
                   spoiled, failures>>

drop(t) ==
    /\ pc[t] = "drop"
    /\ frame_lock = NoThread
    /\ free_internal(key[t])
    /\ pin' = [pin EXCEPT ![frame[t]] = @ - 1]
    /\ Deallocate(t)
    /\ UNCHANGED <<leaked, dirty, disk, page_count, opened, frame_lock, dblwr_lock, held, spoiled,
                   failures>>

-----------------------------------------------------------------------------
(* BufferPoolManager::open_file holds the manager's lock_ while the header *)
(* gets a frame and is loaded.                                             *)
open_file(t, b) ==
    /\ Ready(t)
    /\ b \notin opened
    /\ manager_lock = NoThread
    /\ manager_lock' = t
    /\ Begin(t, "alloc", "open", Header(b))
    /\ UNCHANGED <<leaked, memVars, fileVars, opened, lock, frame_lock, dblwr_lock, frame, held, version,
                   spoiled, failures>>

OpenDone(t) ==
    /\ pc[t] = "load" /\ mode[t] = "open"
    /\ dblwr_lock = NoThread
    /\ data' = [data EXCEPT ![frame[t]] = disk[key[t]]]
    /\ opened' = opened \cup {key[t][1]}
    /\ Unlock(t)
    /\ Return(t)
    /\ UNCHANGED <<leaked, frames, pin, dirty, fileVars, frame_lock, dblwr_lock, held, version, spoiled,
                   failures>>

(* What users of a page do: change it under its latch, and unpin it. *)
Write(t, h) ==
    /\ Ready(t)
    /\ version[h[1]] < WriteBound
    /\ version' = [version EXCEPT ![h[1]] = @ + 1]
    /\ data' = [data EXCEPT ![h[2]] = <<h[1], version[h[1]] + 1>>]
    /\ dirty' = dirty \cup {h[2]}
    /\ UNCHANGED <<leaked, frames, pin, fileVars, opened, lockVars, threadVars, held, spoiled, failures>>

unpin_page(t, h) ==
    /\ pc[t] = "idle"
    /\ pin' = [pin EXCEPT ![h[2]] = @ - 1]
    /\ held' = [held EXCEPT ![t] = @ \ {h}]
    /\ UNCHANGED <<leaked, frames, dirty, data, fileVars, opened, lockVars, threadVars, version, spoiled,
                   failures>>

(* flush_all_pages of Db::sync, while no statement is inside the pool.     *)
(* find_list has pinned all frames of the pool, and a failing write ends   *)
(* the loop: the frames after it keep that pin for good.                   *)
FramesOf(b) == {frames[k] : k \in {l \in Keys : l[1] = b}} \ {NoFrame}

FlushAll(b, written) ==
    disk' = [k \in Keys |-> IF k[1] = b /\ frames[k] \in written THEN data[frames[k]] ELSE disk[k]]

flush_all_pages(b) ==
    /\ b \in opened
    /\ \A t \in Threads : pc[t] = "idle"
    /\ FramesOf(b) \cap dirty # {}
    /\ \/ /\ FlushAll(b, FramesOf(b))
          /\ dirty' = dirty \ FramesOf(b)
          /\ UNCHANGED <<pin, leaked, spoiled, failures>>
       \/ /\ Fail
          /\ \E done \in SUBSET FramesOf(b) : \E f \in FramesOf(b) \ done :
                LET rest == FramesOf(b) \ (done \cup {f}) IN
                /\ FlushAll(b, done \cup {f})
                /\ dirty' = dirty \ done
                /\ pin' = [g \in Frames |-> IF g \in rest THEN pin[g] + 1 ELSE pin[g]]
                /\ leaked' = leaked \cup rest
          /\ UNCHANGED spoiled \/ spoiled' = Keys
    /\ UNCHANGED <<frames, data, page_count, allocated, opened, lockVars, threadVars, held, version>>

(* The pools are closed and the server starts again.  purge_frame writes   *)
(* no frame with a pin besides those of the pool itself, and close_file    *)
(* does not hear of it.  When a write of clear_pages fails the page and    *)
(* the ones after it are deleted from the double write buffer; what the    *)
(* file, or a slot of the buffer's file, has of them is older.  A header   *)
(* that is not written takes the numbers of the pages with it.             *)
Refused == {k \in Keys : frames[k] \in Frames /\ pin[frames[k]] # (IF k[2] = 0 THEN 1 ELSE 0)}

OlderHeaders(b) == UNION {{n} \X SUBSET (1 .. n) : n \in 0 .. page_count[b]}

Closed(lost) ==
    \E old \in [lost -> Versions], header \in [Pools -> UNION {OlderHeaders(b) : b \in Pools}] :
        /\ \A k \in lost : old[k] <= version[k] /\ (k[2] = 0 => old[k] = 0)
        /\ \A b \in Pools :
              IF b \in opened /\ Header(b) \in lost \cup Refused THEN header[b] \in OlderHeaders(b)
              ELSE header[b] = <<page_count[b], allocated[b]>>
        /\ disk' = [k \in Keys |->
                      IF k \in lost THEN <<k, old[k]>>
                      ELSE IF frames[k] \in dirty /\ k \notin Refused THEN data[frames[k]]
                      ELSE disk[k]]
        /\ page_count' = [b \in Pools |-> header[b][1]]
        /\ allocated' = [b \in Pools |-> header[b][2]]
        /\ spoiled' = spoiled \cup {k \in lost : old[k] # version[k] /\ version[k] > 0}
                        \cup {k \in Refused : frames[k] \in dirty}
                        \cup {k \in Keys : header[k[1]] # <<page_count[k[1]], allocated[k[1]]>>}

close_file ==
    /\ opened # {}
    /\ \A t \in Threads : pc[t] = "idle" /\ held[t] = {}
    /\ \/ Closed({}) /\ UNCHANGED failures
       \/ Fail /\ \E b \in opened : \E lost \in SUBSET ({b} \X (0 .. page_count[b])) : Closed(lost)
    /\ frames' = [k \in Keys |-> NoFrame]
    /\ pin' = [f \in Frames |-> 0]
    /\ dirty' = {}
    /\ data' = [f \in Frames |-> Garbage]
    /\ opened' = {}
    /\ leaked' = {}
    /\ UNCHANGED <<lockVars, threadVars, held, version>>

ThreadStep(t) ==
    \/ \E k \in Keys : get_this_page(t, k) \/ dispose_page(t, k)
    \/ \E b \in Pools : allocate_page(t, b) \/ open_file(t, b)
    \/ \E h \in held[t] : Write(t, h) \/ unpin_page(t, h)
    \/ Get(t) \/ Miss(t) \/ alloc(t) \/ purge_frames(t) \/ LockManager(t) \/ flush_page(t)
    \/ BufferFull(t) \/ Evict(t) \/ load_page(t) \/ load_page_failed(t) \/ Discard(t) \/ free(t)
    \/ clear_page(t) \/ Extend(t) \/ find(t) \/ drop(t) \/ OpenDone(t)

Next ==
    \/ \E t \in Threads : ThreadStep(t)
    \/ \E b \in Pools : flush_all_pages(b)
    \/ close_file

Spec == Init /\ [][Next]_vars

-----------------------------------------------------------------------------
(* A page someone has pinned stays where it is, and its frame is given to  *)
(* no other page, whatever is purged, disposed of or fails meanwhile.      *)
HeldInPlace ==
    /\ \A t \in Threads : \A h \in held[t] : h[1] \notin spoiled => frames[h[1]] = h[2]
    /\ \A k, l \in Keys : k # l /\ frames[k] # NoFrame => frames[k] # frames[l]

(* Every pin of a frame has an owner: a thread that holds the page in it,  *)
(* loads, frees, drops or writes it, or the pool whose header it is.  So a *)
(* frame somebody uses cannot be purged, and one nobody uses can, unless a *)
(* failed load or flush_all_pages has left a pin on it.                    *)
Holders(f) == {h \in Threads \X Keys : <<h[2], f>> \in held[h[1]]}
Workers(f) ==
    {t \in Threads :
        /\ pc[t] \in {"manager", "foreign", "evict", "load", "extend", "discard", "free", "drop"}
        /\ frame[t] = f}
Headers(f) == {b \in opened : frames[Header(b)] = f}

Owners(f) == Cardinality(Holders(f)) + Cardinality(Workers(f)) + Cardinality(Headers(f))

PinsOwned ==
    \A f \in Frames :
        /\ pin[f] >= Owners(f)
        /\ f \notin leaked => pin[f] = Owners(f)

Loading(k) == InHand(k, "load") \/ InHand(k, "discard") \/ InHand(k, "free")

(* No change of a page is lost by purging, disposing of others, failures   *)
(* or closing: the last one is in the frame, or on disk when there is none *)
(* or the frame is clean; a page nobody has changed may be missing from    *)
(* the file until it is extended.  Changes can be lost only for the pages  *)
(* of spoiled:                                                             *)
(*   - found in memory before they are loaded, or while they are freed, or *)
(*     after a failed load left them there;                                *)
(*   - loaded twice after two threads missed them;                         *)
(*   - written after a failed load, the frame dirty from an earlier page;  *)
(*   - dirty when close_file refuses them because of a leaked pin;         *)
(*   - deleted by clear_pages after one of its writes failed, or with an   *)
(*     allocation lost to one of these two, the header being the page;     *)
(*   - all, once the full double write buffer failed to empty itself.      *)
OnDisk(k) == disk[k] = <<k, version[k]>> \/ (disk[k][2] < 0 /\ version[k] = 0)

NoChangeLost ==
    \A k \in Keys \ spoiled : Allocated(k) =>
        /\ frames[k] = NoFrame \/ Loading(k) => OnDisk(k)
        /\ frames[k] # NoFrame /\ ~Loading(k) =>
               data[frames[k]] = <<k, version[k]>> /\ (frames[k] \in dirty \/ OnDisk(k))

(* The contents of a page change under those who hold it only when one of  *)
(* them changes it.                                                        *)
HeldContents ==
    [][\A t \in Threads : \A h \in held[t] \cap held'[t] :
          data'[h[2]] # data[h[2]] => version'[h[1]] # version[h[1]] \/ h[1] \in spoiled']_vars

(* The thread t waits for: a thread that has the double write buffer's     *)
(* lock_ for the manager's, or for itself if it has that too.              *)
WaitsFor(t) ==
    (CASE pc[t] = "miss" -> {lock[key[t][1]]}
       [] pc[t] \in {"get", "alloc", "purge", "free", "find", "drop"} -> {frame_lock}
       [] pc[t] = "manager" \/ dblwr_lock = t -> {manager_lock}
       [] pc[t] = "foreign" -> {lock[KeyOf(frame[t])[1]]}
       [] pc[t] \in {"evict", "extend", "discard"} /\ dblwr_lock # t -> {dblwr_lock}
       [] pc[t] = "load" /\ mode[t] # "append" -> {dblwr_lock}
       [] OTHER -> {}) \ {NoThread}

Deadlocked(S) == S # {} /\ \A t \in S : WaitsFor(t) \cap S # {}

(* Threads block each other, or themselves, only when one of them has the  *)
(* frame manager locked to write a page of another pool, or fills the      *)
(* double write buffer while one of them opens a file.                     *)
DeadlockNeedsFlush ==
    \A S \in SUBSET Threads : Deadlocked(S) =>
        \/ \E t \in S : frame_lock = t /\ Foreign(t)
        \/ \E t, u \in S : dblwr_lock = t /\ mode[u] = "open"

(* A pin keeps its frame: the frame stays with its page and holds its      *)
(* contents, and every pin has an owner that will give it back.            *)
PinsKept == [](TypeOK /\ HeldInPlace /\ PinsOwned) /\ HeldContents
=============================================================================
