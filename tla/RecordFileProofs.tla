-------------------------- MODULE RecordFileProofs --------------------------
(***************************************************************************)
(* Proofs about RecordFile for any number of threads, pages and slots.     *)
(* lock_ and the latches never protect the same data, so no property is    *)
(* inductive by itself: what a thread knows of its page while it has the   *)
(* latch, and of free_pages_ while it has lock_, is stated in IInv.        *)
(***************************************************************************)
EXTENDS RecordFile, SequenceTheorems, TLAPS

(* lock_ is held where the code says so, and nowhere else. *)
LockInv == \A t \in Threads : lock = t <=> pc[t] \in {"search", "latch", "erase"}

(* The page of a thread, step by step. *)
PageInv ==
    \A t \in Threads :
        /\ pc[t] \in {"latch", "erase"} => page[t] \in Lowest(free_pages)
        /\ pc[t] \in {"register", "insert", "delete", "release"} => page[t] \in formatted
        /\ pc[t] = "init" => page[t] \in 1 .. page_count /\ page[t] \notin formatted

(* An allocated page belongs to one insert until it is formatted. *)
InitOwned ==
    \A t, u \in Threads :
        pc[t] = "init" /\ pc[u] = "init" /\ page[t] = page[u] => t = u

(* A statement scans or changes the table, never both at a time. *)
ScanIdle == \A t \in Threads : scanners[t] # <<>> => pc[t] = "idle"

(* insert_record keeps the latch of its page exclusively. *)
Inserting(t) == pc[t] \in {"register", "insert"}

Exclusive ==
    \A t \in Threads : Inserting(t) =>
        /\ \A u \in Threads : Inserting(u) /\ page[u] = page[t] => u = t
        /\ \A u \in Threads : \A k \in DOMAIN scanners[u] :
               ~(scanners[u][k].latched /\ scanners[u][k].page = page[t])

(* A new page is unknown to others until it is registered. *)
NewPage ==
    \A t \in Threads : pc[t] = "register" =>
        /\ bitmap[page[t]] = {}
        /\ page[t] \notin free_pages
        /\ \A u \in Threads : pc[u] = "release" => page[u] # page[t]

(* The page about to be erased from free_pages_ was full; if it no longer  *)
(* is, the thread that made room will put it back.                         *)
EraseInv ==
    \A t \in Threads : pc[t] = "erase" =>
        is_full(page[t]) \/ \E u \in Threads : pc[u] = "release" /\ page[u] = page[t]

(* What a scanner has not returned lies ahead of it. *)
ScanOK(s) ==
    /\ s.page <= s.limit
    /\ s.limit <= page_count
    /\ s.eof => s.page = s.limit /\ ~s.latched
    /\ \A r \in s.missing :
           /\ r[1] \in formatted /\ r[2] \in bitmap[r[1]]
           /\ r[1] <= s.limit
           /\ \/ r[1] > s.page
              \/ s.latched /\ r[1] = s.page /\ r[2] >= s.next

ScanInv == \A t \in Threads : \A k \in DOMAIN scanners[t] : ScanOK(scanners[t][k])

IInv ==
    /\ TypeOK /\ LockInv /\ PageInv /\ InitOwned /\ ScanIdle /\ Exclusive /\ NewPage
    /\ EraseInv /\ NoLostFreePage /\ InsertFindsRoom /\ ScanInv

-----------------------------------------------------------------------------
(* Latches. *)
LEMMA LatchFree ==
    ASSUME TypeOK, NEW p, Holders(p) = {}
    PROVE  \A u \in Threads :
             /\ ~(Inserting(u) /\ page[u] = p)
             /\ \A k \in DOMAIN scanners[u] : ~(scanners[u][k].latched /\ scanners[u][k].page = p)
<1>1. \A u \in Threads : \A k \in DOMAIN scanners[u] : scanners[u][k] \in Scanner
    BY DEF TypeOK
<1> QED BY <1>1 DEF Holders, Writers, ScanHolders, Inserting, Scanner

LEMMA WriteFree ==
    ASSUME NEW p, Writers(p) = {}
    PROVE  \A u \in Threads : ~(Inserting(u) /\ page[u] = p)
BY DEF Writers, Inserting

(* The parts of the types that steps rest on. *)
LEMMA Basics ==
    ASSUME TypeOK
    PROVE  /\ page_count \in Nat /\ page_count <= MAX_PAGE_NUM
           /\ formatted \subseteq 1 .. page_count /\ formatted \subseteq Pages
           /\ free_pages \subseteq formatted
           /\ \A p \in Pages : bitmap[p] \subseteq Slots
           /\ bitmap \in [Pages -> SUBSET Slots]
           /\ lock \in Threads \cup {NoThread}
           /\ \A t \in Threads : \A k \in DOMAIN scanners[t] : scanners[t][k] \in Scanner
<1>1. \A t \in Threads : scanners[t] \in Seq(Scanner)
    BY DEF TypeOK
<1>2. \A t \in Threads : \A k \in DOMAIN scanners[t] : scanners[t][k] \in Scanner
    BY <1>1
<1> QED BY <1>2, CapacityAssumption DEF TypeOK, Pages

LEMMA LowestUnique ==
    ASSUME NEW S \in SUBSET Nat, NEW p \in Lowest(S)
    PROVE  Lowest(S) = {p} /\ p \in S
<1>1. p \in S /\ \A q \in Lowest(S) : q <= p /\ p <= q /\ q \in Nat
    BY DEF Lowest
<1>2. \A q \in Lowest(S) : q = p
    BY <1>1
<1> QED BY <1>1, <1>2

LEMMA ReturnType ==
    ASSUME TypeOK, NEW t \in Threads, Return(t)
    PROVE  /\ pc' \in [Threads -> Steps]
           /\ page' \in [Threads -> 0 .. MAX_PAGE_NUM]
           /\ slot' \in [Threads -> Slots]
<1>1. 0 \in Slots /\ 0 \in 0 .. MAX_PAGE_NUM /\ "idle" \in Steps
    BY CapacityAssumption DEF Slots, Steps
<1> QED BY <1>1 DEF TypeOK, Return, Goto

(* A change of the scanner on top of a thread's stack. *)
LEMMA SetTopFacts ==
    ASSUME TypeOK, NEW t \in Threads, scanners[t] # <<>>, NEW s \in Scanner, SetTop(t, s)
    PROVE  /\ scanners' \in [Threads -> Seq(Scanner)]
           /\ \A u \in Threads : Len(scanners'[u]) = Len(scanners[u])
           /\ \A u \in Threads : DOMAIN scanners'[u] = DOMAIN scanners[u]
           /\ \A u \in Threads : \A k \in DOMAIN scanners[u] :
                  scanners'[u][k] = IF u = t /\ k = Len(scanners[t]) THEN s ELSE scanners[u][k]
           /\ Top(t) \in Scanner
           /\ Len(scanners[t]) \in DOMAIN scanners[t]
<1>1. scanners \in [Threads -> Seq(Scanner)]
    BY DEF TypeOK
<1>2. Len(scanners[t]) \in 1 .. Len(scanners[t])
    BY <1>1
<1>3. [scanners[t] EXCEPT ![Len(scanners[t])] = s] \in Seq(Scanner)
    BY <1>1
<1> QED BY <1>1, <1>2, <1>3 DEF SetTop, Top

(* A step that only changes scanners. *)
LEMMA ScannerStep ==
    ASSUME IInv, UNCHANGED <<fileVars, free_pages, unlisted, lock, threadVars>>,
           scanners' \in [Threads -> Seq(Scanner)],
           \A u \in Threads : Len(scanners'[u]) <= 2,
           ScanIdle', ScanInv',
           \A u \in Threads : \A k \in DOMAIN scanners'[u] : scanners'[u][k].latched =>
               \A v \in Threads : ~(Inserting(v) /\ page[v] = scanners'[u][k].page)
    PROVE  IInv'
<1>1. TypeOK'
    BY DEF IInv, TypeOK, fileVars, threadVars
<1>2. LockInv' /\ PageInv' /\ InitOwned' /\ NewPage'
    BY DEF IInv, LockInv, PageInv, InitOwned, NewPage, fileVars, threadVars, Lowest
<1>3. Exclusive'
    BY DEF IInv, Exclusive, Inserting, threadVars
<1>4. EraseInv' /\ NoLostFreePage' /\ InsertFindsRoom'
    BY DEF IInv, EraseInv, NoLostFreePage, InsertFindsRoom, is_full, fileVars, threadVars
<1> QED BY <1>1, <1>2, <1>3, <1>4 DEF IInv

(* Scanners do not mind what happens to pages without records. *)
LEMMA QuietScan ==
    ASSUME IInv, UNCHANGED <<fileVars, scanners>>
    PROVE  ScanInv'
BY DEF IInv, ScanInv, ScanOK, fileVars

-----------------------------------------------------------------------------
(* Inserts and deletes. *)

LEMMA insert_record_Step ==
    ASSUME IInv, NEW t \in Threads, insert_record(t)
    PROVE  IInv'
<1>1. TypeOK'
    BY DEF IInv, TypeOK, Steps, insert_record, Goto, fileVars
<1>2. /\ \A u \in Threads : u # t => pc'[u] = pc[u] /\ page'[u] = page[u]
      /\ pc[t] = "idle" /\ pc'[t] = "lock" /\ scanners[t] = <<>>
      /\ UNCHANGED <<fileVars, free_pages, unlisted, lock, page, slot, scanners>>
    BY DEF IInv, TypeOK, insert_record, Goto, fileVars
<1>3. LockInv'
    BY <1>2, CapacityAssumption, Basics DEF IInv, LockInv, fileVars
<1>4. PageInv'
    BY <1>2 DEF IInv, PageInv, fileVars
<1>5. InitOwned'
    BY <1>2 DEF IInv, InitOwned, PageInv, fileVars
<1>6. ScanIdle'
    BY <1>2 DEF IInv, ScanIdle, fileVars
<1>7. Exclusive'
    BY <1>2 DEF IInv, Exclusive, Inserting, fileVars
<1>8. NewPage'
    BY <1>2 DEF IInv, NewPage, fileVars
<1>9. EraseInv'
    BY <1>2 DEF IInv, EraseInv, is_full, fileVars
<1>10. NoLostFreePage'
    BY <1>2 DEF IInv, NoLostFreePage, is_full, fileVars
<1>11. InsertFindsRoom'
    BY <1>2 DEF IInv, InsertFindsRoom, is_full, fileVars
<1>12. ScanInv'
    BY <1>2, QuietScan
<1> QED BY <1>1, <1>3, <1>4, <1>5, <1>6, <1>7, <1>8, <1>9, <1>10, <1>11, <1>12 DEF IInv

LEMMA InsertLock_Step ==
    ASSUME IInv, NEW t \in Threads, InsertLock(t)
    PROVE  IInv'
<1>1. TypeOK'
    BY DEF IInv, TypeOK, Steps, InsertLock, Goto, fileVars
<1>2. /\ \A u \in Threads : u # t => pc'[u] = pc[u] /\ page'[u] = page[u]
      /\ pc[t] = "lock" /\ pc'[t] = "search" /\ lock = NoThread /\ lock' = t
      /\ UNCHANGED <<fileVars, free_pages, unlisted, page, slot, scanners>>
    BY DEF IInv, TypeOK, InsertLock, Goto, fileVars
<1>3. LockInv'
    BY <1>2, CapacityAssumption, Basics DEF IInv, LockInv, fileVars
<1>4. PageInv'
    BY <1>2 DEF IInv, PageInv, fileVars
<1>5. InitOwned'
    BY <1>2 DEF IInv, InitOwned, PageInv, fileVars
<1>6. ScanIdle'
    BY <1>2 DEF IInv, ScanIdle, fileVars
<1>7. Exclusive'
    BY <1>2 DEF IInv, Exclusive, Inserting, fileVars
<1>8. NewPage'
    BY <1>2 DEF IInv, NewPage, fileVars
<1>9. EraseInv'
    BY <1>2 DEF IInv, EraseInv, is_full, fileVars
<1>10. NoLostFreePage'
    BY <1>2 DEF IInv, NoLostFreePage, is_full, fileVars
<1>11. InsertFindsRoom'
    BY <1>2 DEF IInv, InsertFindsRoom, is_full, fileVars
<1>12. ScanInv'
    BY <1>2, QuietScan
<1> QED BY <1>1, <1>3, <1>4, <1>5, <1>6, <1>7, <1>8, <1>9, <1>10, <1>11, <1>12 DEF IInv

LEMMA InsertSearch_Step ==
    ASSUME IInv, NEW t \in Threads, InsertSearch(t)
    PROVE  IInv'
<1>1. TypeOK'
    <2>1. page' \in [Threads -> 0 .. MAX_PAGE_NUM]
        <3>1. Lowest(free_pages) \subseteq 0 .. MAX_PAGE_NUM
            BY Basics DEF IInv, Lowest, Pages
        <3> QED BY <3>1 DEF IInv, TypeOK, InsertSearch
    <2>2. pc' \in [Threads -> Steps] /\ lock' \in Threads \cup {NoThread}
        BY DEF IInv, TypeOK, Steps, InsertSearch, Goto
    <2> QED BY <2>1, <2>2 DEF IInv, TypeOK, InsertSearch, fileVars
<1>2. /\ \A u \in Threads : u # t => pc'[u] = pc[u] /\ page'[u] = page[u]
      /\ pc[t] = "search"
      /\ \/ pc'[t] = "latch" /\ page'[t] \in Lowest(free_pages) /\ lock' = lock
         \/ pc'[t] = "allocate" /\ page'[t] = page[t] /\ lock' = NoThread
      /\ UNCHANGED <<fileVars, free_pages, unlisted, slot, scanners>>
    BY DEF IInv, TypeOK, InsertSearch, Goto, fileVars
<1>3. LockInv'
    BY <1>2, CapacityAssumption, Basics DEF IInv, LockInv, fileVars
<1>4. PageInv'
    BY <1>2 DEF IInv, PageInv, fileVars
<1>5. InitOwned'
    BY <1>2 DEF IInv, InitOwned, PageInv, fileVars
<1>6. ScanIdle'
    BY <1>2 DEF IInv, ScanIdle, fileVars
<1>7. Exclusive'
    BY <1>2 DEF IInv, Exclusive, Inserting, fileVars
<1>8. NewPage'
    BY <1>2 DEF IInv, NewPage, fileVars
<1>9. EraseInv'
    BY <1>2 DEF IInv, EraseInv, is_full, fileVars
<1>10. NoLostFreePage'
    BY <1>2 DEF IInv, NoLostFreePage, is_full, fileVars
<1>11. InsertFindsRoom'
    BY <1>2 DEF IInv, InsertFindsRoom, is_full, fileVars
<1>12. ScanInv'
    BY <1>2, QuietScan
<1> QED BY <1>1, <1>3, <1>4, <1>5, <1>6, <1>7, <1>8, <1>9, <1>10, <1>11, <1>12 DEF IInv

LEMMA InsertLatch_Step ==
    ASSUME IInv, NEW t \in Threads, InsertLatch(t)
    PROVE  IInv'
<1>1. TypeOK'
    BY DEF IInv, TypeOK, Steps, InsertLatch, Goto, fileVars
<1>2. /\ \A u \in Threads : u # t => pc'[u] = pc[u] /\ page'[u] = page[u]
      /\ pc[t] = "latch"
      /\ \/ pc'[t] = "erase" /\ is_full(page[t]) /\ lock' = lock
         \/ pc'[t] = "insert" /\ ~is_full(page[t]) /\ lock' = NoThread
      /\ UNCHANGED <<fileVars, free_pages, unlisted, page, slot, scanners>>
    BY DEF IInv, TypeOK, InsertLatch, Goto, fileVars
<1>3. \A u \in Threads :
         /\ ~(Inserting(u) /\ page[u] = page[t])
         /\ \A k \in DOMAIN scanners[u] :
                ~(scanners[u][k].latched /\ scanners[u][k].page = page[t])
    BY LatchFree DEF IInv, InsertLatch
<1>4. LockInv'
    BY <1>2, CapacityAssumption, Basics DEF IInv, LockInv, fileVars
<1>5. PageInv'
    BY <1>2, Basics, LowestUnique DEF IInv, PageInv, fileVars
<1>6. InitOwned'
    BY <1>2 DEF IInv, InitOwned, PageInv, fileVars
<1>7. ScanIdle'
    BY <1>2 DEF IInv, ScanIdle, fileVars
<1>8. Exclusive'
    BY <1>2, <1>3 DEF IInv, Exclusive, Inserting, fileVars
<1>9. NewPage'
    BY <1>2, <1>3 DEF IInv, NewPage, fileVars
<1>10. EraseInv'
    BY <1>2 DEF IInv, EraseInv, is_full, fileVars
<1>11. NoLostFreePage'
    BY <1>2 DEF IInv, NoLostFreePage, is_full, fileVars
<1>12. InsertFindsRoom'
    BY <1>2, <1>3 DEF IInv, InsertFindsRoom, is_full, fileVars
<1>13. ScanInv'
    BY <1>2, QuietScan
<1> QED BY <1>1, <1>4, <1>5, <1>6, <1>7, <1>8, <1>9, <1>10, <1>11, <1>12, <1>13 DEF IInv

LEMMA InsertErase_Step ==
    ASSUME IInv, NEW t \in Threads, InsertErase(t)
    PROVE  IInv'
<1>1. TypeOK'
    BY DEF IInv, TypeOK, Steps, InsertErase, Goto, fileVars
<1>2. /\ \A u \in Threads : u # t => pc'[u] = pc[u] /\ page'[u] = page[u]
      /\ pc[t] = "erase" /\ pc'[t] = "search"
      /\ free_pages' = free_pages \ Lowest(free_pages)
      /\ UNCHANGED <<fileVars, unlisted, lock, page, slot, scanners>>
    BY DEF IInv, TypeOK, InsertErase, Goto, fileVars
<1>3. Lowest(free_pages) = {page[t]}
    <2>1. free_pages \in SUBSET Nat
        BY Basics DEF IInv
    <2> QED BY <1>2, <2>1, LowestUnique DEF IInv, PageInv
<1>4. LockInv'
    BY <1>2, CapacityAssumption, Basics DEF IInv, LockInv, fileVars
<1>5. PageInv'
    BY <1>2, CapacityAssumption DEF IInv, PageInv, LockInv, fileVars
<1>6. InitOwned'
    BY <1>2 DEF IInv, InitOwned, PageInv, fileVars
<1>7. ScanIdle'
    BY <1>2 DEF IInv, ScanIdle, fileVars
<1>8. Exclusive'
    BY <1>2 DEF IInv, Exclusive, Inserting, fileVars
<1>9. NewPage'
    BY <1>2 DEF IInv, NewPage, fileVars
<1>10. EraseInv'
    BY <1>2 DEF IInv, EraseInv, is_full, fileVars
<1>11. NoLostFreePage'
    BY <1>2, <1>3 DEF IInv, NoLostFreePage, EraseInv, is_full, fileVars
<1>12. InsertFindsRoom'
    BY <1>2 DEF IInv, InsertFindsRoom, is_full, fileVars
<1>13. ScanInv'
    BY <1>2, QuietScan
<1> QED BY <1>1, <1>4, <1>5, <1>6, <1>7, <1>8, <1>9, <1>10, <1>11, <1>12, <1>13 DEF IInv

LEMMA allocate_page_Step ==
    ASSUME IInv, NEW t \in Threads, allocate_page(t)
    PROVE  IInv'
<1>1. TypeOK'
    <2>1. page_count' \in 0 .. MAX_PAGE_NUM /\ formatted' \subseteq 1 .. page_count'
        BY Basics, CapacityAssumption DEF IInv, allocate_page
    <2>2. page' \in [Threads -> 0 .. MAX_PAGE_NUM] /\ slot' \in [Threads -> Slots]
        <3>1. page_count < MAX_PAGE_NUM => page_count + 1 \in 0 .. MAX_PAGE_NUM
            BY Basics, CapacityAssumption DEF IInv
        <3> QED BY <3>1, ReturnType DEF IInv, TypeOK, allocate_page
    <2>3. pc' \in [Threads -> Steps]
        BY ReturnType DEF IInv, TypeOK, Steps, allocate_page, Goto
    <2> QED BY <2>1, <2>2, <2>3 DEF IInv, TypeOK, allocate_page
<1>2. /\ \A u \in Threads : u # t => pc'[u] = pc[u] /\ page'[u] = page[u]
      /\ pc[t] = "allocate"
      /\ \/ /\ pc'[t] = "init" /\ page'[t] = page_count + 1
            /\ page_count < MAX_PAGE_NUM /\ page_count' = page_count + 1
         \/ pc'[t] = "idle" /\ page'[t] = 0 /\ page_count' = page_count
      /\ UNCHANGED <<formatted, bitmap, free_pages, unlisted, lock, scanners>>
    BY DEF IInv, TypeOK, allocate_page, Goto, Return
<1>3. LockInv'
    BY <1>2, CapacityAssumption, Basics DEF IInv, LockInv
<1>4. PageInv'
    BY <1>2, Basics DEF IInv, PageInv
<1>5. InitOwned'
    BY <1>2, Basics DEF IInv, InitOwned, PageInv
<1>6. ScanIdle'
    BY <1>2 DEF IInv, ScanIdle
<1>7. Exclusive'
    BY <1>2 DEF IInv, Exclusive, Inserting
<1>8. NewPage'
    BY <1>2 DEF IInv, NewPage
<1>9. EraseInv'
    BY <1>2 DEF IInv, EraseInv, is_full
<1>10. NoLostFreePage'
    BY <1>2 DEF IInv, NoLostFreePage, is_full
<1>11. InsertFindsRoom'
    BY <1>2 DEF IInv, InsertFindsRoom, is_full
<1>12. ScanInv'
    BY <1>2, Basics DEF IInv, ScanInv, ScanOK, Scanner
<1> QED BY <1>1, <1>3, <1>4, <1>5, <1>6, <1>7, <1>8, <1>9, <1>10, <1>11, <1>12 DEF IInv

LEMMA init_empty_page_Step ==
    ASSUME IInv, NEW t \in Threads, init_empty_page(t)
    PROVE  IInv'
<1>1. TypeOK'
    BY DEF IInv, TypeOK, PageInv, Steps, init_empty_page, Goto, fileVars
<1>2. /\ \A u \in Threads : u # t => pc'[u] = pc[u] /\ page'[u] = page[u]
      /\ pc[t] = "init" /\ pc'[t] = "register"
      /\ formatted' = formatted \cup {page[t]}
      /\ bitmap' = [bitmap EXCEPT ![page[t]] = {}]
      /\ UNCHANGED <<page_count, free_pages, unlisted, lock, page, slot, scanners>>
    BY DEF IInv, TypeOK, init_empty_page, Goto
<1>3. \A u \in Threads :
         /\ ~(Inserting(u) /\ page[u] = page[t])
         /\ \A k \in DOMAIN scanners[u] :
                ~(scanners[u][k].latched /\ scanners[u][k].page = page[t])
    BY LatchFree DEF IInv, init_empty_page
<1>4. LockInv'
    BY <1>2, CapacityAssumption, Basics DEF IInv, LockInv
<1>5. PageInv'
    BY <1>2, Basics DEF IInv, PageInv, InitOwned
<1>6. InitOwned'
    BY <1>2 DEF IInv, InitOwned, PageInv
<1>7. ScanIdle'
    BY <1>2 DEF IInv, ScanIdle
<1>8. Exclusive'
    BY <1>2, <1>3 DEF IInv, Exclusive, Inserting
<1>9. NewPage'
    <2>1. page[t] \in Pages /\ page[t] \notin formatted
        BY <1>2, Basics, CapacityAssumption DEF IInv, PageInv, Pages
    <2>2. \A p \in Pages : bitmap'[p] = IF p = page[t] THEN {} ELSE bitmap[p]
        BY <1>2, Basics DEF IInv
    <2>3. \A u \in Threads : pc[u] \in {"register", "release"} =>
              page[u] \in Pages /\ page[u] # page[t]
        BY <2>1, Basics DEF IInv, PageInv
    <2> QED BY <1>2, <2>1, <2>2, <2>3, Basics DEF IInv, NewPage
<1>10. EraseInv'
    BY <1>2, Basics, LowestUnique DEF IInv, EraseInv, PageInv, is_full
<1>11. NoLostFreePage'
    BY <1>2, Basics DEF IInv, NoLostFreePage, PageInv, is_full
<1>12. InsertFindsRoom'
    BY <1>2, <1>3, Basics DEF IInv, InsertFindsRoom, Inserting, PageInv, is_full
<1>13. ScanInv'
    BY <1>2, Basics DEF IInv, ScanInv, ScanOK, PageInv
<1> QED BY <1>1, <1>4, <1>5, <1>6, <1>7, <1>8, <1>9, <1>10, <1>11, <1>12, <1>13 DEF IInv

LEMMA InsertRegister_Step ==
    ASSUME IInv, NEW t \in Threads, InsertRegister(t)
    PROVE  IInv'
<1>1. TypeOK'
    BY DEF IInv, TypeOK, PageInv, Steps, InsertRegister, Goto, fileVars
<1>2. /\ \A u \in Threads : u # t => pc'[u] = pc[u] /\ page'[u] = page[u]
      /\ pc[t] = "register" /\ pc'[t] = "insert" /\ lock = NoThread
      /\ free_pages' = free_pages \cup {page[t]}
      /\ UNCHANGED <<fileVars, unlisted, lock, page, slot, scanners>>
    BY DEF IInv, TypeOK, InsertRegister, Goto, fileVars
<1>3. LockInv'
    BY <1>2, CapacityAssumption, Basics DEF IInv, LockInv, fileVars
<1>4. PageInv'
    BY <1>2, CapacityAssumption DEF IInv, PageInv, LockInv, fileVars
<1>5. InitOwned'
    BY <1>2 DEF IInv, InitOwned, PageInv, fileVars
<1>6. ScanIdle'
    BY <1>2 DEF IInv, ScanIdle, fileVars
<1>7. Exclusive'
    BY <1>2 DEF IInv, Exclusive, Inserting, fileVars
<1>8. NewPage'
    BY <1>2 DEF IInv, NewPage, Exclusive, Inserting, fileVars
<1>9. EraseInv'
    BY <1>2 DEF IInv, EraseInv, is_full, fileVars
<1>10. NoLostFreePage'
    BY <1>2 DEF IInv, NoLostFreePage, is_full, fileVars
<1>11. InsertFindsRoom'
    <2>1. Slots # {}
        BY CapacityAssumption DEF Slots
    <2> QED BY <1>2, <2>1 DEF IInv, InsertFindsRoom, NewPage, PageInv, is_full, fileVars
<1>12. ScanInv'
    BY <1>2, QuietScan
<1> QED BY <1>1, <1>3, <1>4, <1>5, <1>6, <1>7, <1>8, <1>9, <1>10, <1>11, <1>12 DEF IInv

LEMMA InsertInPage_Step ==
    ASSUME IInv, NEW t \in Threads, InsertInPage(t)
    PROVE  IInv'
<1>1. TypeOK'
    BY ReturnType DEF IInv, TypeOK, Lowest, InsertInPage
<1>2. /\ \A u \in Threads : u # t => pc'[u] = pc[u] /\ page'[u] = page[u]
      /\ pc[t] = "insert" /\ pc'[t] = "idle" /\ page'[t] = 0
      /\ \A p \in Pages : bitmap[p] \subseteq bitmap'[p] /\ bitmap'[p] \subseteq Slots
      /\ \A p \in Pages : p # page[t] => bitmap'[p] = bitmap[p]
      /\ UNCHANGED <<page_count, formatted, free_pages, unlisted, lock, scanners>>
    BY DEF IInv, TypeOK, InsertInPage, Goto, Return, Lowest, Slots, Pages
<1>3. LockInv'
    BY <1>2, CapacityAssumption, Basics DEF IInv, LockInv
<1>4. PageInv'
    BY <1>2 DEF IInv, PageInv
<1>5. InitOwned'
    BY <1>2 DEF IInv, InitOwned, PageInv
<1>6. ScanIdle'
    BY <1>2 DEF IInv, ScanIdle
<1>7. Exclusive'
    BY <1>2 DEF IInv, Exclusive, Inserting
<1>8. NewPage'
    BY <1>2, Basics DEF IInv, NewPage, Exclusive, Inserting, PageInv
<1>9. EraseInv'
    <2>1. \A p \in formatted : bitmap[p] = Slots => bitmap'[p] = Slots
        BY <1>2, Basics DEF IInv
    <2>2. \A u \in Threads : pc[u] = "erase" => page[u] \in formatted
        BY Basics DEF IInv, PageInv, Lowest
    <2> QED BY <1>2, <2>1, <2>2 DEF IInv, EraseInv, is_full
<1>10. NoLostFreePage'
    <2>1. \A p \in formatted : bitmap[p] = Slots => bitmap'[p] = Slots
        BY <1>2, Basics DEF IInv
    <2> QED BY <1>2, <2>1 DEF IInv, NoLostFreePage, is_full
<1>11. InsertFindsRoom'
    BY <1>2, Basics DEF IInv, InsertFindsRoom, Exclusive, Inserting, PageInv, is_full
<1>12. ScanInv'
    BY <1>2, Basics DEF IInv, ScanInv, ScanOK
<1> QED BY <1>1, <1>3, <1>4, <1>5, <1>6, <1>7, <1>8, <1>9, <1>10, <1>11, <1>12 DEF IInv

LEMMA DeleteRelease_Step ==
    ASSUME IInv, NEW t \in Threads, DeleteRelease(t)
    PROVE  IInv'
<1>1. TypeOK'
    <2>1. free_pages' \subseteq formatted
        BY DEF IInv, TypeOK, PageInv, DeleteRelease
    <2> QED BY <2>1, ReturnType DEF IInv, TypeOK, DeleteRelease, fileVars
<1>2. /\ \A u \in Threads : u # t => pc'[u] = pc[u] /\ page'[u] = page[u]
      /\ pc[t] = "release" /\ pc'[t] = "idle" /\ page'[t] = 0 /\ lock = NoThread
      /\ free_pages' = free_pages \cup {page[t]} /\ unlisted' = unlisted \ {page[t]}
      /\ UNCHANGED <<fileVars, lock, scanners>>
    BY DEF IInv, TypeOK, DeleteRelease, Goto, Return, fileVars
<1>3. LockInv'
    BY <1>2, CapacityAssumption, Basics DEF IInv, LockInv, fileVars
<1>4. PageInv'
    BY <1>2, CapacityAssumption DEF IInv, PageInv, LockInv, fileVars
<1>5. InitOwned'
    BY <1>2 DEF IInv, InitOwned, PageInv, fileVars
<1>6. ScanIdle'
    BY <1>2 DEF IInv, ScanIdle, fileVars
<1>7. Exclusive'
    BY <1>2 DEF IInv, Exclusive, Inserting, fileVars
<1>8. NewPage'
    BY <1>2 DEF IInv, NewPage, fileVars
<1>9. EraseInv'
    BY <1>2, CapacityAssumption DEF IInv, EraseInv, LockInv, fileVars
<1>10. NoLostFreePage'
    BY <1>2 DEF IInv, NoLostFreePage, is_full, fileVars
<1>11. InsertFindsRoom'
    BY <1>2 DEF IInv, InsertFindsRoom, is_full, fileVars
<1>12. ScanInv'
    BY <1>2, QuietScan
<1> QED BY <1>1, <1>3, <1>4, <1>5, <1>6, <1>7, <1>8, <1>9, <1>10, <1>11, <1>12 DEF IInv

LEMMA LessMissing ==
    ASSUME NEW s \in Scanner, NEW R
    PROVE  LET z == [s EXCEPT !.missing = @ \ R] IN
           /\ z \in Scanner
           /\ z.page = s.page /\ z.latched = s.latched /\ z.limit = s.limit
           /\ z.next = s.next /\ z.eof = s.eof /\ z.rw_mode = s.rw_mode
           /\ z.missing = s.missing \ R
<1>1. s.missing \ R \in SUBSET Rids
    BY DEF Scanner
<1> QED BY <1>1 DEF Scanner

(* A record a scanner has yet to return is no longer missing once it has   *)
(* been deleted.                                                           *)
LEMMA DeleteScans ==
    ASSUME TypeOK, NEW t \in Threads,
           scanners' = [u \in Threads |-> [k \in DOMAIN scanners[u] |->
               [scanners[u][k] EXCEPT !.missing = @ \ {<<page[t], slot[t]>>}]]]
    PROVE  /\ scanners' \in [Threads -> Seq(Scanner)]
           /\ \A u \in Threads : Len(scanners'[u]) = Len(scanners[u])
           /\ \A u \in Threads : DOMAIN scanners'[u] = DOMAIN scanners[u]
           /\ \A u \in Threads : scanners[u] = <<>> => scanners'[u] = <<>>
           /\ \A u \in Threads : \A k \in DOMAIN scanners[u] :
                  scanners'[u][k] =
                      [scanners[u][k] EXCEPT !.missing = @ \ {<<page[t], slot[t]>>}]
<1>1. \A u \in Threads : scanners[u] \in Seq(Scanner)
    BY DEF TypeOK
<1>2. \A u \in Threads : \A k \in DOMAIN scanners[u] :
          [scanners[u][k] EXCEPT !.missing = @ \ {<<page[t], slot[t]>>}] \in Scanner
    BY Basics, LessMissing
<1>3. ASSUME NEW u \in Threads
      PROVE  /\ scanners'[u] \in Seq(Scanner)
             /\ Len(scanners'[u]) = Len(scanners[u])
    <2>1. /\ scanners'[u] = [k \in 1 .. Len(scanners[u]) |->
                [scanners[u][k] EXCEPT !.missing = @ \ {<<page[t], slot[t]>>}]]
          /\ Len(scanners[u]) \in Nat
        BY <1>1
    <2>2. \A k \in 1 .. Len(scanners[u]) : scanners'[u][k] \in Scanner
        BY <1>1, <1>2, <2>1
    <2>3. scanners'[u] \in [1 .. Len(scanners[u]) -> Scanner]
        BY <2>1, <2>2
    <2>4. scanners'[u] \in Seq(Scanner)
        BY <2>1, <2>3, SeqDef
    <2> QED BY <2>1, <2>3, <2>4
<1>4. \A u \in Threads : scanners[u] = <<>> => scanners'[u] = <<>>
    BY <1>1, <1>3
<1> QED BY <1>1, <1>3, <1>4

(* The two outcomes of delete_record under the latch. *)
LEMMA DeleteInPage_Facts ==
    ASSUME IInv, NEW t \in Threads, DeleteInPage(t)
    PROVE  /\ pc[t] = "delete"
           /\ \A u \in Threads : u # t => pc'[u] = pc[u] /\ page'[u] = page[u]
           /\ UNCHANGED <<page_count, formatted, free_pages, unlisted, lock>>
           /\ \/ /\ pc'[t] = "release" /\ page' = page /\ slot' = slot
                 /\ bitmap' = [bitmap EXCEPT ![page[t]] = @ \ {slot[t]}]
                 /\ scanners' = [u \in Threads |-> [k \in DOMAIN scanners[u] |->
                        [scanners[u][k] EXCEPT !.missing = @ \ {<<page[t], slot[t]>>}]]]
              \/ pc'[t] = "idle" /\ page'[t] = 0 /\ bitmap' = bitmap /\ scanners' = scanners
BY DEF IInv, TypeOK, DeleteInPage, Goto, Return

LEMMA DeleteInPage_Step ==
    ASSUME IInv, NEW t \in Threads, DeleteInPage(t)
    PROVE  IInv'
<1>1. /\ scanners' \in [Threads -> Seq(Scanner)]
      /\ \A u \in Threads : Len(scanners'[u]) = Len(scanners[u])
      /\ \A u \in Threads : DOMAIN scanners'[u] = DOMAIN scanners[u]
      /\ \A u \in Threads : scanners[u] = <<>> => scanners'[u] = <<>>
    BY DeleteInPage_Facts, DeleteScans DEF IInv, TypeOK
<1>2. \A u \in Threads : \A k \in DOMAIN scanners[u] :
          /\ scanners'[u][k].page = scanners[u][k].page
          /\ scanners'[u][k].latched = scanners[u][k].latched
          /\ scanners'[u][k].limit = scanners[u][k].limit
          /\ scanners'[u][k].next = scanners[u][k].next
          /\ scanners'[u][k].eof = scanners[u][k].eof
          /\ scanners'[u][k].missing \subseteq scanners[u][k].missing
          /\ pc'[t] = "release" => <<page[t], slot[t]>> \notin scanners'[u][k].missing
    <2>1. CASE pc'[t] = "release"
        <3>1. \A u \in Threads : \A k \in DOMAIN scanners[u] : scanners'[u][k] =
                  [scanners[u][k] EXCEPT !.missing = @ \ {<<page[t], slot[t]>>}]
            BY <2>1, DeleteInPage_Facts, DeleteScans DEF IInv
        <3> SUFFICES ASSUME NEW u \in Threads, NEW k \in DOMAIN scanners[u]
                     PROVE  /\ scanners'[u][k].page = scanners[u][k].page
                            /\ scanners'[u][k].latched = scanners[u][k].latched
                            /\ scanners'[u][k].limit = scanners[u][k].limit
                            /\ scanners'[u][k].next = scanners[u][k].next
                            /\ scanners'[u][k].eof = scanners[u][k].eof
                            /\ scanners'[u][k].missing =
                                   scanners[u][k].missing \ {<<page[t], slot[t]>>}
            OBVIOUS
        <3>2. scanners[u][k] \in Scanner
            BY Basics DEF IInv
        <3>3. scanners'[u][k] =
                  [scanners[u][k] EXCEPT !.missing = @ \ {<<page[t], slot[t]>>}]
            BY <3>1
        <3> QED BY <3>2, <3>3 DEF Scanner
    <2>2. CASE pc'[t] # "release"
        BY <2>2, DeleteInPage_Facts
    <2> QED BY <2>1, <2>2
<1>3. \A u \in Threads :
         /\ ~(Inserting(u) /\ page[u] = page[t])
         /\ \A k \in DOMAIN scanners[u] :
                ~(scanners[u][k].latched /\ scanners[u][k].page = page[t])
    BY LatchFree DEF IInv, DeleteInPage
<1>4. TypeOK'
    <2>1. /\ pc' \in [Threads -> Steps]
          /\ bitmap' \in [Pages -> SUBSET Slots]
          /\ page' \in [Threads -> 0 .. MAX_PAGE_NUM]
          /\ slot' \in [Threads -> Slots]
        <3>1. CASE Return(t) /\ bitmap' = bitmap
            BY <3>1, ReturnType DEF IInv, TypeOK
        <3>2. CASE /\ Goto(t, "release") /\ page' = page /\ slot' = slot
                   /\ bitmap' = [bitmap EXCEPT ![page[t]] = @ \ {slot[t]}]
            BY <3>2 DEF IInv, TypeOK, Steps, Goto
        <3> QED BY <3>1, <3>2 DEF DeleteInPage
    <2> QED BY <1>1, <2>1, DeleteInPage_Facts DEF IInv, TypeOK
<1>5. \A p \in Pages : p # page[t] => bitmap'[p] = bitmap[p]
    BY DeleteInPage_Facts, Basics DEF IInv
<1>6. LockInv' /\ PageInv' /\ InitOwned'
    BY DeleteInPage_Facts DEF IInv, LockInv, PageInv, InitOwned
<1>7. ScanIdle'
    BY DeleteInPage_Facts, <1>1 DEF IInv, ScanIdle
<1>8. Exclusive'
    <2>1. \A u \in Threads : Inserting(u)' => Inserting(u) /\ page'[u] = page[u]
        BY DeleteInPage_Facts DEF Inserting
    <2>2. \A u \in Threads : \A k \in DOMAIN scanners'[u] :
              /\ k \in DOMAIN scanners[u]
              /\ scanners'[u][k].latched = scanners[u][k].latched
              /\ scanners'[u][k].page = scanners[u][k].page
        BY <1>1, <1>2
    <2> QED BY <2>1, <2>2 DEF IInv, Exclusive
<1>9. NewPage'
    BY DeleteInPage_Facts, <1>3, <1>5, Basics DEF IInv, NewPage, PageInv, Inserting
<1>10. EraseInv'
    <2>1. \A u \in Threads : pc[u] = "erase" => page[u] \in formatted
        BY Basics DEF IInv, PageInv, Lowest
    <2> QED BY DeleteInPage_Facts, <1>5, <2>1, Basics DEF IInv, EraseInv, is_full
<1>11. NoLostFreePage'
    BY DeleteInPage_Facts, <1>5, Basics DEF IInv, NoLostFreePage, is_full
<1>12. InsertFindsRoom'
    BY DeleteInPage_Facts, <1>3, <1>5, Basics DEF IInv, InsertFindsRoom, PageInv, Inserting, is_full
<1>13. ScanInv'
    <2> SUFFICES ASSUME NEW u \in Threads, NEW k \in DOMAIN scanners'[u]
                 PROVE  ScanOK(scanners[u][k])'
        BY DEF ScanInv
    <2>1. k \in DOMAIN scanners[u] /\ ScanOK(scanners[u][k])
        BY <1>1 DEF IInv, ScanInv
    <2>2. ASSUME NEW r \in scanners'[u][k].missing
          PROVE  r[1] \in formatted' /\ r[2] \in bitmap'[r[1]]
        <3>1. r \in scanners[u][k].missing /\ r \in Rids
            BY <1>2, <2>1, Basics DEF IInv, Scanner
        <3>2. r[1] \in formatted /\ r[2] \in bitmap[r[1]] /\ r[1] \in Pages
            BY <2>1, <3>1, Basics DEF IInv, ScanOK
        <3>3. CASE pc'[t] = "release"
            <4>1. r # <<page[t], slot[t]>> /\ r = <<r[1], r[2]>>
                BY <1>2, <2>1, <3>1, <3>3 DEF Rids
            <4>2. bitmap' = [bitmap EXCEPT ![page[t]] = @ \ {slot[t]}]
                BY <3>3, DeleteInPage_Facts
            <4> QED BY <3>2, <4>1, <4>2, DeleteInPage_Facts, Basics DEF IInv
        <3>4. CASE pc'[t] # "release"
            BY <3>2, <3>4, DeleteInPage_Facts
        <3> QED BY <3>3, <3>4
    <2>3. page_count' = page_count
        BY DeleteInPage_Facts
    <2> QED BY <1>2, <2>1, <2>2, <2>3 DEF ScanOK
<1> QED BY <1>4, <1>6, <1>7, <1>8, <1>9, <1>10, <1>11, <1>12, <1>13 DEF IInv

LEMMA delete_record_Step ==
    ASSUME IInv, NEW t \in Threads, NEW p \in Pages, NEW s \in Slots, delete_record(t, p, s)
    PROVE  IInv'
<1>1. /\ \A u \in Threads : u # t => pc'[u] = pc[u] /\ page'[u] = page[u]
      /\ pc[t] = "idle" /\ pc'[t] = "delete" /\ page'[t] = p /\ p \in formatted
      /\ scanners[t] = <<>>
      /\ UNCHANGED <<fileVars, free_pages, unlisted, lock, scanners>>
    BY DEF IInv, TypeOK, delete_record, Goto
<1>2. TypeOK'
    <2>1. /\ pc' \in [Threads -> Steps]
          /\ page' \in [Threads -> 0 .. MAX_PAGE_NUM]
          /\ slot' \in [Threads -> Slots]
        BY CapacityAssumption DEF IInv, TypeOK, Steps, Pages, delete_record, Goto
    <2> QED BY <1>1, <2>1 DEF IInv, TypeOK, fileVars
<1>3. LockInv' /\ PageInv' /\ InitOwned' /\ ScanIdle'
    BY <1>1 DEF IInv, LockInv, PageInv, InitOwned, ScanIdle, fileVars
<1>4. Exclusive' /\ NewPage'
    <2>1. \A u \in Threads : Inserting(u)' => Inserting(u) /\ page'[u] = page[u]
        BY <1>1 DEF Inserting
    <2>2. Exclusive'
        BY <1>1, <2>1 DEF IInv, Exclusive
    <2>3. NewPage'
        BY <1>1 DEF IInv, NewPage, fileVars
    <2> QED BY <2>2, <2>3
<1>5. EraseInv' /\ NoLostFreePage' /\ InsertFindsRoom'
    BY <1>1 DEF IInv, EraseInv, NoLostFreePage, InsertFindsRoom, is_full, fileVars
<1>6. ScanInv'
    BY <1>1, QuietScan
<1> QED BY <1>2, <1>3, <1>4, <1>5, <1>6 DEF IInv

-----------------------------------------------------------------------------
(* Scans. *)

(* A new value for the scanner on top, with the page it has or a page that *)
(* nobody writes to.                                                       *)
LEMMA SetTopStep ==
    ASSUME IInv, NEW t \in Threads, scanners[t] # <<>>, NEW s \in Scanner, SetTop(t, s),
           UNCHANGED <<fileVars, free_pages, unlisted, lock, threadVars>>,
           ScanOK(s),
           s.latched => \A v \in Threads : ~(Inserting(v) /\ page[v] = s.page)
    PROVE  IInv'
<1>1. TypeOK
    BY DEF IInv
<1>2. /\ scanners' \in [Threads -> Seq(Scanner)]
      /\ \A u \in Threads : Len(scanners'[u]) = Len(scanners[u])
      /\ \A u \in Threads : DOMAIN scanners'[u] = DOMAIN scanners[u]
      /\ \A u \in Threads : \A k \in DOMAIN scanners[u] :
             scanners'[u][k] = IF u = t /\ k = Len(scanners[t]) THEN s ELSE scanners[u][k]
    BY <1>1, SetTopFacts
<1>3. ScanIdle'
    <2>1. \A u \in Threads : u # t => scanners'[u] = scanners[u]
        BY <1>1 DEF SetTop, TypeOK
    <2> QED BY <2>1 DEF IInv, ScanIdle, threadVars
<1>4. ScanInv'
    <2> SUFFICES ASSUME NEW u \in Threads, NEW k \in DOMAIN scanners'[u]
                 PROVE  ScanOK(scanners[u][k])'
        BY DEF ScanInv
    <2>1. \/ scanners'[u][k] = s
          \/ scanners'[u][k] = scanners[u][k] /\ ScanOK(scanners[u][k])
        BY <1>2 DEF IInv, ScanInv
    <2> QED BY <2>1 DEF ScanOK, fileVars
<1>5. \A u \in Threads : \A k \in DOMAIN scanners'[u] : scanners'[u][k].latched =>
          \A v \in Threads : ~(Inserting(v) /\ page[v] = scanners'[u][k].page)
    BY <1>2 DEF IInv, Exclusive
<1>6. \A u \in Threads : Len(scanners'[u]) <= 2
    BY <1>1, <1>2 DEF TypeOK
<1> QED BY <1>2, <1>3, <1>4, <1>5, <1>6, ScannerStep

LEMMA TopFacts ==
    ASSUME IInv, NEW t \in Threads, scanners[t] # <<>>
    PROVE  /\ Top(t) \in Scanner
           /\ ScanOK(Top(t))
           /\ Top(t).latched =>
                \A v \in Threads : ~(Inserting(v) /\ page[v] = Top(t).page)
<1>1. scanners[t] \in Seq(Scanner)
    BY DEF IInv, TypeOK
<1>2. Len(scanners[t]) \in DOMAIN scanners[t]
    BY <1>1
<1> QED BY <1>1, <1>2 DEF IInv, ScanInv, Exclusive, Top

LEMMA fetch_next_record_in_page_Step ==
    ASSUME IInv, NEW t \in Threads, fetch_next_record_in_page(t)
    PROVE  IInv'
<1> DEFINE s == Top(t)
<1>1. /\ s \in Scanner /\ ScanOK(s) /\ s.latched /\ scanners[t] # <<>>
      /\ \A v \in Threads : ~(Inserting(v) /\ page[v] = s.page)
    BY TopFacts DEF fetch_next_record_in_page
<1>2. PICK n \in Lowest(RecordsFrom(s)) :
          SetTop(t, [s EXCEPT !.next = n + 1, !.missing = @ \ {<<s.page, n>>}])
    BY DEF fetch_next_record_in_page
<1> DEFINE z == [s EXCEPT !.next = n + 1, !.missing = @ \ {<<s.page, n>>}]
<1> HIDE DEF s
<1>3. /\ n \in bitmap[s.page] /\ s.page \in formatted /\ n \in Slots /\ n >= s.next
      /\ \A m \in RecordsFrom(s) : n <= m
    BY <1>1, <1>2, Basics DEF IInv, Lowest, RecordsFrom, Scanner
<1>4. n + 1 \in 0 .. record_capacity /\ n \in Int
    BY <1>3, CapacityAssumption DEF Slots
<1>5. /\ z \in Scanner
      /\ z.page = s.page /\ z.latched = s.latched /\ z.limit = s.limit /\ z.eof = s.eof
      /\ z.next = n + 1 /\ z.missing = s.missing \ {<<s.page, n>>}
    BY <1>1, <1>4 DEF Scanner
<1> HIDE DEF z
<1>6. ASSUME NEW r \in z.missing
      PROVE  \/ r[1] > z.page
             \/ z.latched /\ r[1] = z.page /\ r[2] >= z.next
    <2>1. /\ r \in s.missing /\ r # <<s.page, n>> /\ r \in Rids
          /\ r[1] \in formatted /\ r[2] \in bitmap[r[1]]
          /\ r[1] > s.page \/ (r[1] = s.page /\ r[2] >= s.next)
        <3>1. r \in s.missing /\ r # <<s.page, n>>
            BY <1>5
        <3>2. r \in Rids
            BY <1>1, <3>1 DEF Scanner
        <3> QED BY <1>1, <3>1, <3>2 DEF ScanOK
    <2>2. CASE r[1] = s.page
        <3>1. r = <<r[1], r[2]>> /\ r[2] \in Int /\ s.page \in Int /\ s.next \in Int
            BY <1>1, <2>1 DEF Rids, Slots, Scanner
        <3>2. r[2] \in RecordsFrom(s) /\ r[2] # n
            BY <2>1, <2>2, <3>1 DEF RecordsFrom
        <3> QED BY <1>1, <1>3, <1>4, <1>5, <2>2, <3>1, <3>2
    <2> QED BY <1>5, <2>1, <2>2
<1>7. ScanOK(z)
    BY <1>1, <1>5, <1>6 DEF ScanOK
<1>8. UNCHANGED <<fileVars, free_pages, unlisted, lock, threadVars>>
    BY DEF fetch_next_record_in_page
<1>9. SetTop(t, z)
    BY <1>2 DEF z
<1> QED BY <1>1, <1>5, <1>7, <1>8, <1>9, SetTopStep

LEMMA LeavePage_Step ==
    ASSUME IInv, NEW t \in Threads, LeavePage(t)
    PROVE  IInv'
<1> DEFINE s == Top(t)
           z == [s EXCEPT !.latched = FALSE]
<1>1. s \in Scanner /\ ScanOK(s) /\ s.latched /\ scanners[t] # <<>> /\ RecordsFrom(s) = {}
    BY TopFacts DEF LeavePage
<1>2. SetTop(t, z) /\ UNCHANGED <<fileVars, free_pages, unlisted, lock, threadVars>>
    BY DEF LeavePage
<1> HIDE DEF s
<1>3. /\ z \in Scanner
      /\ z.page = s.page /\ ~z.latched /\ z.limit = s.limit /\ z.eof = s.eof
      /\ z.next = s.next /\ z.missing = s.missing
    BY <1>1 DEF Scanner
<1> HIDE DEF z
<1>4. \A r \in s.missing : r[1] # s.page
    <2> SUFFICES ASSUME NEW r \in s.missing, r[1] = s.page
                 PROVE  FALSE
        OBVIOUS
    <2>1. s.page \in Int
        BY <1>1 DEF Scanner
    <2>2. r[1] \in formatted /\ r[2] \in bitmap[r[1]] /\ r[2] >= s.next
        BY <1>1, <2>1 DEF ScanOK
    <2>3. r[2] \in RecordsFrom(s)
        BY <2>2 DEF RecordsFrom
    <2> QED BY <1>1, <2>3
<1>5. ScanOK(z)
    BY <1>1, <1>3, <1>4 DEF ScanOK
<1> QED BY <1>1, <1>2, <1>3, <1>5, SetTopStep

LEMMA NextPage_Step ==
    ASSUME IInv, NEW t \in Threads, NextPage(t)
    PROVE  IInv'
<1> DEFINE s == Top(t)
           z == [s EXCEPT !.page = @ + 1, !.latched = TRUE, !.next = 0]
<1>1. /\ s \in Scanner /\ ScanOK(s) /\ ~s.latched /\ scanners[t] # <<>>
      /\ s.page < s.limit /\ CanLatch(t, s.page + 1, s.rw_mode)
    BY TopFacts DEF NextPage
<1>2. SetTop(t, z) /\ UNCHANGED <<fileVars, free_pages, unlisted, lock, threadVars>>
    BY DEF NextPage
<1> HIDE DEF s
<1>3. s.page + 1 \in 0 .. MAX_PAGE_NUM /\ 0 \in 0 .. record_capacity
    BY <1>1, CapacityAssumption DEF Scanner
<1>4. /\ z \in Scanner
      /\ z.page = s.page + 1 /\ z.latched /\ z.limit = s.limit /\ z.eof = s.eof
      /\ z.next = 0 /\ z.missing = s.missing
    BY <1>1, <1>3 DEF Scanner
<1> HIDE DEF z
<1>5. Writers(s.page + 1) = {}
    BY <1>1 DEF CanLatch, Holders
<1>6. \A v \in Threads : ~(Inserting(v) /\ page[v] = z.page)
    BY <1>4, <1>5, WriteFree
<1>7. ~s.eof /\ s.page \in Nat /\ s.limit \in Nat
    BY <1>1 DEF ScanOK, Scanner
<1>8. \A r \in s.missing : r[1] \in Nat /\ r[2] \in Nat /\ r[1] > s.page
    BY <1>1 DEF ScanOK, Scanner, Rids, Pages, Slots
<1>9. ScanOK(z)
    BY <1>1, <1>4, <1>7, <1>8 DEF ScanOK
<1> QED BY <1>1, <1>2, <1>4, <1>6, <1>9, SetTopStep

LEMMA EndOfScan_Step ==
    ASSUME IInv, NEW t \in Threads, EndOfScan(t)
    PROVE  IInv'
<1> DEFINE s == Top(t)
           z == [s EXCEPT !.eof = TRUE]
<1>1. s \in Scanner /\ ScanOK(s) /\ ~s.latched /\ s.page = s.limit /\ scanners[t] # <<>>
    BY TopFacts DEF EndOfScan
<1>2. SetTop(t, z) /\ UNCHANGED <<fileVars, free_pages, unlisted, lock, threadVars>>
    BY DEF EndOfScan
<1> HIDE DEF s
<1>3. /\ z \in Scanner
      /\ z.page = s.page /\ ~z.latched /\ z.limit = s.limit /\ z.missing = s.missing
    BY <1>1 DEF Scanner
<1> HIDE DEF z
<1>4. ScanOK(z)
    BY <1>1, <1>3 DEF ScanOK
<1> QED BY <1>1, <1>2, <1>3, <1>4, SetTopStep

(* Opening and closing replace the whole stack of a thread. *)
LEMMA StackStep ==
    ASSUME IInv, NEW t \in Threads, NEW q \in Seq(Scanner), Len(q) <= 2,
           pc[t] = "idle",
           scanners' = [scanners EXCEPT ![t] = q],
           UNCHANGED <<fileVars, free_pages, unlisted, lock, threadVars>>,
           \A k \in DOMAIN q :
               \/ k \in DOMAIN scanners[t] /\ q[k] = scanners[t][k]
               \/ ScanOK(q[k]) /\ ~q[k].latched
    PROVE  IInv'
<1>1. scanners \in [Threads -> Seq(Scanner)] /\ \A u \in Threads : Len(scanners[u]) <= 2
    BY DEF IInv, TypeOK
<1>2. /\ scanners'[t] = q
      /\ \A u \in Threads : u # t => scanners'[u] = scanners[u]
    BY <1>1
<1>3. scanners' \in [Threads -> Seq(Scanner)] /\ \A u \in Threads : Len(scanners'[u]) <= 2
    BY <1>1, <1>2
<1>4. ScanIdle'
    BY <1>2 DEF IInv, ScanIdle, threadVars
<1>5. ASSUME NEW u \in Threads, NEW k \in DOMAIN scanners'[u]
      PROVE  \/ k \in DOMAIN scanners[u] /\ scanners'[u][k] = scanners[u][k]
             \/ ScanOK(scanners'[u][k]) /\ ~scanners'[u][k].latched
    BY <1>2
<1>6. ScanInv'
    <2> SUFFICES ASSUME NEW u \in Threads, NEW k \in DOMAIN scanners'[u]
                 PROVE  ScanOK(scanners[u][k])'
        BY DEF ScanInv
    <2>1. ScanOK(scanners'[u][k])
        BY <1>5 DEF IInv, ScanInv
    <2> QED BY <2>1 DEF ScanOK, fileVars
<1>7. \A u \in Threads : \A k \in DOMAIN scanners'[u] : scanners'[u][k].latched =>
          \A v \in Threads : ~(Inserting(v) /\ page[v] = scanners'[u][k].page)
    BY <1>5 DEF IInv, Exclusive
<1> QED BY <1>3, <1>4, <1>6, <1>7, ScannerStep

LEMMA NewScannerFacts ==
    ASSUME IInv, NEW mode \in {"READ_ONLY", "READ_WRITE"}
    PROVE  /\ NewScanner(mode) \in Scanner
           /\ ScanOK(NewScanner(mode)) /\ ~NewScanner(mode).latched
<1> DEFINE s == NewScanner(mode)
<1>1. /\ s.page = 0 /\ ~s.latched /\ s.limit = page_count /\ ~s.eof /\ s.missing = Existing
      /\ s \in Scanner
    <2>1. 0 \in 0 .. MAX_PAGE_NUM /\ 0 \in 0 .. record_capacity /\ page_count \in 0 .. MAX_PAGE_NUM
        BY Basics, CapacityAssumption DEF IInv
    <2>2. Existing \in SUBSET Rids
        BY DEF Existing
    <2> QED BY <2>1, <2>2 DEF NewScanner, Scanner
<1> HIDE DEF s
<1>2. \A r \in Existing : r[1] \in formatted /\ r[2] \in bitmap[r[1]]
    BY DEF Existing
<1>3. \A r \in Existing : r[1] <= page_count /\ r[1] > 0
    BY <1>2, Basics DEF IInv
<1>4. ScanOK(s)
    BY <1>1, <1>2, <1>3, Basics DEF IInv, ScanOK
<1> QED BY <1>1, <1>4 DEF s

LEMMA open_scan_Step ==
    ASSUME IInv, NEW t \in Threads, NEW mode \in {"READ_ONLY", "READ_WRITE"}, open_scan(t, mode)
    PROVE  IInv'
<1> DEFINE z == NewScanner(mode)
           q == <<z>>
<1>1. z \in Scanner /\ ScanOK(z) /\ ~z.latched
    BY NewScannerFacts
<1>2. /\ pc[t] = "idle" /\ scanners' = [scanners EXCEPT ![t] = q]
      /\ UNCHANGED <<fileVars, free_pages, unlisted, lock, threadVars>>
    BY DEF open_scan
<1> HIDE DEF z
<1>3. q \in Seq(Scanner) /\ Len(q) <= 2 /\ \A k \in DOMAIN q : q[k] = z
    BY <1>1
<1> HIDE DEF q
<1> QED BY <1>1, <1>2, <1>3, StackStep

LEMMA open_right_Step ==
    ASSUME IInv, NEW t \in Threads, open_right(t)
    PROVE  IInv'
<1> DEFINE z == NewScanner("READ_ONLY")
           q == Append(scanners[t], z)
<1>1. z \in Scanner /\ ScanOK(z) /\ ~z.latched
    BY NewScannerFacts
<1>2. /\ Len(scanners[t]) = 1 /\ scanners' = [scanners EXCEPT ![t] = q]
      /\ UNCHANGED <<fileVars, free_pages, unlisted, lock, threadVars>>
    BY DEF open_right
<1> HIDE DEF z
<1>3. scanners[t] \in Seq(Scanner)
    BY DEF IInv, TypeOK
<1>4. pc[t] = "idle"
    BY <1>2, <1>3 DEF IInv, ScanIdle
<1>5. /\ q \in Seq(Scanner) /\ Len(q) <= 2
      /\ \A k \in DOMAIN q : (k \in DOMAIN scanners[t] /\ q[k] = scanners[t][k]) \/ q[k] = z
    <2>1. /\ q \in Seq(Scanner) /\ Len(q) = 2 /\ DOMAIN q = 1 .. 2
          /\ q[1] = scanners[t][1] /\ q[2] = z
        <3>1. Len(scanners[t]) = 1
            BY <1>2
        <3>2. /\ q \in Seq(Scanner) /\ Len(q) = Len(scanners[t]) + 1
              /\ \A i \in 1 .. Len(scanners[t]) : q[i] = scanners[t][i]
              /\ q[Len(scanners[t]) + 1] = z
            BY <1>1, <1>3, AppendProperties
        <3> HIDE DEF q
        <3>3. DOMAIN q = 1 .. Len(q)
            BY <3>2
        <3> QED BY <3>1, <3>2, <3>3
    <2>2. 1 \in DOMAIN scanners[t]
        BY <1>2, <1>3
    <2>3. \A k \in DOMAIN q : k = 1 \/ k = 2
        BY <2>1
    <2> QED BY <2>1, <2>2, <2>3
<1> HIDE DEF q
<1> QED BY <1>1, <1>2, <1>4, <1>5, StackStep

LEMMA close_scan_Step ==
    ASSUME IInv, NEW t \in Threads, close_scan(t)
    PROVE  IInv'
<1> DEFINE q == SubSeq(scanners[t], 1, Len(scanners[t]) - 1)
<1>1. /\ scanners[t] # <<>> /\ scanners' = [scanners EXCEPT ![t] = q]
      /\ UNCHANGED <<fileVars, free_pages, unlisted, lock, threadVars>>
    BY DEF close_scan
<1>2. scanners[t] \in Seq(Scanner) /\ Len(scanners[t]) <= 2
    BY DEF IInv, TypeOK
<1>3. pc[t] = "idle"
    BY <1>1 DEF IInv, ScanIdle
<1>4. /\ q \in Seq(Scanner) /\ Len(q) <= 2
      /\ \A k \in DOMAIN q : k \in DOMAIN scanners[t] /\ q[k] = scanners[t][k]
    BY <1>1, <1>2
<1> HIDE DEF q
<1> QED BY <1>1, <1>3, <1>4, StackStep

-----------------------------------------------------------------------------
(* Pages that cannot be read, and opening the table again. *)
LEMMA get_this_page_failed_Step ==
    ASSUME IInv, NEW t \in Threads, get_this_page_failed(t)
    PROVE  IInv'
<1>1. CASE pc[t] \in {"latch", "init", "delete"} /\ Return(t) /\ UNCHANGED scanners
           /\ lock' = IF lock = t THEN NoThread ELSE lock
    <2>1. /\ \A u \in Threads : u # t => pc'[u] = pc[u] /\ page'[u] = page[u]
          /\ pc'[t] = "idle" /\ page'[t] = 0
          /\ UNCHANGED <<fileVars, free_pages, unlisted, scanners>>
        BY <1>1 DEF IInv, TypeOK, get_this_page_failed, Return, Goto
    <2>2. TypeOK'
        BY <1>1, <2>1, ReturnType DEF IInv, TypeOK, fileVars
    <2>3. LockInv'
        BY <1>1, <2>1, CapacityAssumption, Basics DEF IInv, LockInv
    <2>4. PageInv' /\ InitOwned' /\ ScanIdle'
        BY <2>1 DEF IInv, PageInv, InitOwned, ScanIdle, fileVars
    <2>5. Exclusive' /\ NewPage'
        BY <2>1 DEF IInv, Exclusive, NewPage, Inserting, fileVars
    <2>6. EraseInv' /\ NoLostFreePage' /\ InsertFindsRoom'
        BY <1>1, <2>1 DEF IInv, EraseInv, NoLostFreePage, InsertFindsRoom, is_full, fileVars
    <2>7. ScanInv'
        BY <2>1, QuietScan
    <2> QED BY <2>2, <2>3, <2>4, <2>5, <2>6, <2>7 DEF IInv
<1>2. CASE scanners[t] # <<>> /\ scanners' = [scanners EXCEPT ![t] = <<>>]
           /\ UNCHANGED <<lock, threadVars>>
    <2>1. pc[t] = "idle"
        BY <1>2 DEF IInv, ScanIdle
    <2>2. <<>> \in Seq(Scanner) /\ Len(<<>>) <= 2 /\ DOMAIN <<>> = {}
        OBVIOUS
    <2>3. UNCHANGED <<fileVars, free_pages, unlisted, lock, threadVars>>
        BY <1>2 DEF get_this_page_failed
    <2> DEFINE q == <<>>
    <2>4. /\ q \in Seq(Scanner) /\ Len(q) <= 2 /\ DOMAIN q = {}
          /\ scanners' = [scanners EXCEPT ![t] = q]
        BY <1>2, <2>2
    <2> HIDE DEF q
    <2> QED BY <2>1, <2>3, <2>4, StackStep
<1> QED BY <1>1, <1>2 DEF get_this_page_failed

LEMMA init_free_pages_Step ==
    ASSUME IInv, init_free_pages
    PROVE  IInv'
<1>0. PICK unread \in 1 .. page_count + 1 :
          /\ free_pages' = {p \in 1 .. unread - 1 : ~is_full(p)}
          /\ unlisted' = {p \in unread .. page_count : ~is_full(p)}
    BY DEF init_free_pages
<1>1. /\ \A t \in Threads : pc'[t] = "idle" /\ pc[t] = "idle"
      /\ UNCHANGED <<fileVars, lock, threadVars, scanners>>
    BY DEF init_free_pages, threadVars
<1>2. free_pages' \subseteq formatted /\ unlisted' \subseteq formatted
    BY <1>0 DEF is_full
<1>3. TypeOK'
    BY <1>1, <1>2 DEF IInv, TypeOK, fileVars, threadVars
<1>4. LockInv' /\ PageInv' /\ InitOwned' /\ ScanIdle'
    BY <1>1 DEF IInv, LockInv, PageInv, InitOwned, ScanIdle
<1>5. Exclusive' /\ NewPage' /\ EraseInv' /\ InsertFindsRoom'
    BY <1>1 DEF Exclusive, NewPage, Inserting, EraseInv, InsertFindsRoom
<1>6. NoLostFreePage'
    <2>1. \A p \in formatted : p \in 1 .. unread - 1 \/ p \in unread .. page_count
        BY Basics DEF IInv
    <2> QED BY <1>0, <1>1, <2>1 DEF NoLostFreePage, is_full, fileVars
<1>7. ScanInv'
    BY <1>1, QuietScan
<1> QED BY <1>3, <1>4, <1>5, <1>6, <1>7 DEF IInv

-----------------------------------------------------------------------------
(* The initial state satisfies the invariant. *)
LEMMA InvInit == Init => IInv
<1> SUFFICES ASSUME Init PROVE IInv
    OBVIOUS
<1>1. 0 \in Slots /\ 0 \in 0 .. MAX_PAGE_NUM /\ "idle" \in Steps
    BY CapacityAssumption DEF Slots, Steps
<1>2. <<>> \in Seq(Scanner) /\ Len(<<>>) <= 2 /\ DOMAIN <<>> = {}
    OBVIOUS
<1>3. TypeOK
    BY <1>1, <1>2 DEF Init, TypeOK
<1>4. LockInv /\ PageInv /\ InitOwned /\ ScanIdle /\ Exclusive /\ NewPage /\ EraseInv
    BY CapacityAssumption
    DEF Init, LockInv, PageInv, InitOwned, ScanIdle, Exclusive, Inserting, NewPage, EraseInv
<1>5. NoLostFreePage /\ InsertFindsRoom
    BY DEF Init, NoLostFreePage, InsertFindsRoom
<1>6. ScanInv
    BY <1>2 DEF Init, ScanInv
<1> QED BY <1>3, <1>4, <1>5, <1>6 DEF IInv

(* Every step of every thread preserves it. *)
LEMMA InvNext == IInv /\ [Next]_vars => IInv'
<1> SUFFICES ASSUME IInv, [Next]_vars PROVE IInv'
    OBVIOUS
<1>1. CASE init_free_pages
    BY <1>1, init_free_pages_Step
<1>2. ASSUME NEW t \in Threads, ThreadStep(t)
      PROVE  IInv'
    <2>1. CASE \/ insert_record(t) \/ InsertLock(t) \/ InsertSearch(t) \/ InsertLatch(t)
               \/ InsertErase(t) \/ allocate_page(t) \/ init_empty_page(t)
               \/ InsertRegister(t) \/ InsertInPage(t)
        BY <2>1, insert_record_Step, InsertLock_Step, InsertSearch_Step, InsertLatch_Step,
           InsertErase_Step, allocate_page_Step, init_empty_page_Step,
           InsertRegister_Step, InsertInPage_Step
    <2>2. CASE \/ \E p \in Pages, s \in Slots : delete_record(t, p, s)
               \/ DeleteInPage(t) \/ DeleteRelease(t)
        BY <2>2, delete_record_Step, DeleteInPage_Step, DeleteRelease_Step
    <2>3. CASE \/ \E mode \in {"READ_ONLY", "READ_WRITE"} : open_scan(t, mode)
               \/ open_right(t) \/ fetch_next_record_in_page(t) \/ LeavePage(t)
               \/ NextPage(t) \/ EndOfScan(t) \/ close_scan(t) \/ get_this_page_failed(t)
        BY <2>3, open_scan_Step, open_right_Step, fetch_next_record_in_page_Step,
           LeavePage_Step, NextPage_Step, EndOfScan_Step, close_scan_Step,
           get_this_page_failed_Step
    <2> QED BY <1>2, <2>1, <2>2, <2>3 DEF ThreadStep
<1>3. CASE UNCHANGED vars
    <2>1. UNCHANGED <<fileVars, free_pages, unlisted, lock, threadVars>> /\ scanners' = scanners
        BY <1>3 DEF vars
    <2>2. \A u \in Threads : \A k \in DOMAIN scanners'[u] : scanners'[u][k].latched =>
              \A v \in Threads : ~(Inserting(v) /\ page[v] = scanners'[u][k].page)
        BY <2>1 DEF IInv, Exclusive
    <2>3. scanners' \in [Threads -> Seq(Scanner)] /\ \A u \in Threads : Len(scanners'[u]) <= 2
        BY <2>1 DEF IInv, TypeOK
    <2>4. ScanIdle' /\ ScanInv'
        BY <2>1 DEF IInv, ScanIdle, ScanInv, ScanOK, fileVars, threadVars
    <2> QED BY <2>1, <2>2, <2>3, <2>4, ScannerStep
<1> QED BY <1>1, <1>2, <1>3 DEF Next

(* The inductive invariant of the record file. *)
THEOREM Invariance == Spec => []IInv
<1> QED BY InvInit, InvNext, PTL DEF Spec

(* Type correctness; free_pages_ holds formatted pages only. *)
THEOREM TypeCorrect == Spec => []TypeOK
<1>1. IInv => TypeOK
    BY DEF IInv
<1> QED BY <1>1, Invariance, PTL

(* insert_record and delete_record forget no page with room, although      *)
(* neither looks at a page and at free_pages_ under one lock.              *)
THEOREM NoFreePageLost == Spec => []NoLostFreePage
<1>1. IInv => NoLostFreePage
    BY DEF IInv
<1> QED BY <1>1, Invariance, PTL

(* RowRecordPageHandler::insert_record never answers RECORD_NOMEM. *)
THEOREM RoomKept == Spec => []InsertFindsRoom
<1>1. IInv => InsertFindsRoom
    BY DEF IInv
<1> QED BY <1>1, Invariance, PTL

(* free_pages_ and the pages agree, as far as insert_record relies on it.  *)
THEOREM FreePagesSound == Spec => []FreePagesExact
<1> QED BY TypeCorrect, NoFreePageLost, RoomKept, PTL DEF FreePagesExact

(* A scan that ends has returned every record that was there all the time. *)
THEOREM ScansComplete == Spec => []ScanComplete
<1>1. IInv => ScanComplete
    <2> SUFFICES ASSUME IInv, NEW t \in Threads, NEW k \in DOMAIN scanners[t],
                        scanners[t][k].eof, NEW r \in scanners[t][k].missing
                 PROVE  FALSE
        BY DEF ScanComplete
    <2>1. scanners[t][k] \in Scanner /\ ScanOK(scanners[t][k])
        BY Basics DEF IInv, ScanInv
    <2>2. r[1] \in Nat
        BY <2>1 DEF Scanner, Rids, Pages
    <2> QED BY <2>1, <2>2 DEF ScanOK, Scanner
<1> QED BY <1>1, Invariance, PTL

(* Who waits for whom: a thread that holds a latch and waits is registering *)
(* a new page or in the inner scan of a join, and nobody at all knows the   *)
(* new page.  So a chain of waiting threads ends after at most three.       *)
THEOREM DeadlocksNeedJoin == Spec => []DeadlockNeedsJoin
<1>1. IInv => DeadlockNeedsJoin
    <2> SUFFICES ASSUME IInv, NEW S \in SUBSET Threads, Deadlocked(S),
                        \A t \in S : Len(scanners[t]) # 2
                 PROVE  FALSE
        BY DEF DeadlockNeedsJoin
    <2>1. ASSUME NEW t \in S, NEW p, t \in Holders(p)
          PROVE  pc[t] = "register" /\ page[t] = p
        <3>1. PICK u \in S : u \in WaitsFor(t)
            BY DEF Deadlocked
        <3>2. CASE Inserting(t) /\ page[t] = p
            <4>1. pc[t] # "insert"
                <5>1. ASSUME pc[t] = "insert" PROVE WaitsFor(t) = {}
                    <6>1. scanners[t] = <<>>
                        BY <5>1 DEF IInv, ScanIdle
                    <6> QED BY <5>1, <6>1 DEF WaitsFor
                <5> QED BY <3>1, <5>1
            <4> QED BY <3>2, <4>1 DEF Inserting
        <3>3. CASE \E k \in DOMAIN scanners[t] : scanners[t][k].latched
            <4>1. scanners[t] \in Seq(Scanner) /\ Len(scanners[t]) <= 2 /\ Len(scanners[t]) # 2
                BY DEF IInv, TypeOK
            <4>2. Len(scanners[t]) = 1 /\ scanners[t] # <<>> /\ scanners[t][1].latched
                <5>1. DOMAIN scanners[t] = 1 .. Len(scanners[t]) /\ Len(scanners[t]) \in Nat
                    BY <4>1
                <5>2. Len(scanners[t]) = 1
                    <6>1. PICK k \in DOMAIN scanners[t] : TRUE
                        BY <3>3
                    <6> DEFINE n == Len(scanners[t])
                    <6>2. 1 <= n /\ n <= 2 /\ n # 2 /\ n \in Nat
                        BY <4>1, <5>1, <6>1
                    <6> HIDE DEF n
                    <6>3. n = 1
                        BY <6>2
                    <6> QED BY <6>3 DEF n
                <5>3. \A k \in DOMAIN scanners[t] : k = 1
                    BY <5>1, <5>2
                <5> QED BY <3>3, <5>2, <5>3
            <4>3. pc[t] = "idle" /\ Top(t).latched
                BY <4>2 DEF IInv, ScanIdle, Top
            <4>4. WaitsFor(t) = {}
                BY <4>2, <4>3 DEF WaitsFor
            <4> QED BY <3>1, <4>4
        <3> QED BY <2>1, <3>2, <3>3 DEF Holders, Writers, ScanHolders, Inserting
    <2>2. ASSUME NEW t \in S PROVE \E u \in S : pc[u] = "register"
        <3>1. PICK u \in S : u \in WaitsFor(t)
            BY DEF Deadlocked
        <3>2. CASE lock = u
            <4>1. pc[u] \in {"search", "latch", "erase"}
                BY <3>2 DEF IInv, LockInv
            <4>2. PICK v \in S : v \in WaitsFor(u)
                BY DEF Deadlocked
            <4>3. scanners[u] = <<>>
                BY <4>1 DEF IInv, ScanIdle
            <4>4. v \in Holders(page[u])
                BY <4>1, <4>2, <4>3 DEF WaitsFor
            <4> QED BY <2>1, <4>4
        <3>3. CASE \E p : u \in Holders(p)
            BY <2>1, <3>3
        <3>4. lock = u \/ \E p : u \in Holders(p)
            <4>1. \/ WaitsFor(t) = {lock} \ {NoThread} \/ WaitsFor(t) = {}
                  \/ \E p : WaitsFor(t) = Holders(p) \/ WaitsFor(t) = Writers(p)
                BY DEF WaitsFor
            <4> QED BY <3>1, <4>1 DEF Holders
        <3> QED BY <3>2, <3>3, <3>4
    <2>3. PICK t \in S : pc[t] = "register"
        BY <2>2 DEF Deadlocked
    <2>4. PICK u \in S : u = lock
        <3>1. WaitsFor(t) = {lock} \ {NoThread}
            BY <2>3 DEF WaitsFor, IInv, ScanIdle
        <3> QED BY <3>1 DEF Deadlocked
    <2>5. PICK v \in S : v \in WaitsFor(u)
        BY DEF Deadlocked
    <2>6. pc[u] = "latch" /\ v \in Holders(page[u])
        <3>1. pc[u] \in {"search", "latch", "erase"}
            BY <2>4 DEF IInv, LockInv
        <3>2. scanners[u] = <<>>
            BY <3>1 DEF IInv, ScanIdle
        <3> QED BY <2>5, <3>1, <3>2 DEF WaitsFor
    <2>7. pc[v] = "register" /\ page[v] = page[u]
        BY <2>1, <2>6
    <2>8. page[u] \in free_pages
        BY <2>6 DEF IInv, PageInv, Lowest
    <2> QED BY <2>7, <2>8 DEF IInv, NewPage
<1> QED BY <1>1, Invariance, PTL
=============================================================================
