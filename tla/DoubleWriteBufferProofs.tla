---------------------- MODULE DoubleWriteBufferProofs ----------------------
(***************************************************************************)
(* Proofs about DoubleWriteBuffer.  The inductive invariant IInv says what *)
(* is in the buffer, in the slots of dblwr.db and in the data files at     *)
(* every point of every operation; CrashSafe, ReadLatest and CleanShutdown *)
(* follow from it.                                                         *)
(***************************************************************************)
EXTENDS DoubleWriteBuffer, FiniteSetTheorems, WellFoundedInduction, TLAPS

-----------------------------------------------------------------------------
(* The inductive invariant. *)

(* The loop of flush_page or of clear_pages is under way. *)
InLoop == op.at \in {"next", "page", "invalidate"}
Flushing == InLoop /\ op.by = "flush_page"
Clearing == op.by = "clear_pages"
Adding(k) == op.at \in {"slot", "header"} /\ op.key = k

(* Where the operation under way can be in each phase of the database, and *)
(* that it works on a page it may use.                                     *)
OpInv ==
    /\ op.at \in {"slot", "header"} =>
         op.key \in DOMAIN dblwr_pages /\ phase \in {"running", "closing"}
    /\ op.at \in {"page", "invalidate"} => op.key \in DOMAIN work
    /\ InLoop => op.by \in {"flush_page", "clear_pages"}
    /\ ~InLoop => DOMAIN work = {}
    /\ Clearing => InLoop /\ phase = "closing" /\ closing # NoPool
    /\ phase \in {"down", "stopped", "loaded", "undefined"} => op.at = "idle"
    /\ phase \in {"down", "stopped"} => closing = NoPool
    /\ phase = "recovering" => ~Clearing /\ op.at # "idle"
    /\ phase = "undefined" => fails > 0
    /\ phase \in {"closing", "stopped"} => closes > 0

(* Which pages are buffered: what a loop has still to write is a part of   *)
(* the buffer or was taken out of it, and once recover is done every       *)
(* buffered page is valid and belongs to an open pool.                     *)
WorkInv ==
    /\ closing # NoPool => closing \in opened
    /\ op.at = "page" => work[op.key].valid
    /\ Flushing => \A k \in DOMAIN work : k \in DOMAIN dblwr_pages /\ work[k] = dblwr_pages[k]
    /\ Clearing => /\ \A k \in DOMAIN work : k[1] = closing
                   /\ \A k \in DOMAIN dblwr_pages : k[1] # closing
    /\ phase \in {"running", "closing"} =>
         /\ \A k \in DOMAIN dblwr_pages : dblwr_pages[k].valid /\ k[1] \in opened
         /\ \A k \in DOMAIN work : work[k].valid /\ k[1] \in opened

(* The data file of the page has still to be written. *)
Pending(k) ==
    \/ k \in DOMAIN work /\ work[k].valid /\ ~(op.at = "invalidate" /\ op.key = k)
    \/ ~Flushing /\ k \in DOMAIN dblwr_pages /\ dblwr_pages[k].valid

(* clear_pages dropped the page when a write failed. *)
Dropped(k) ==
    fails > 0 /\ phase = "closing" /\ (k[1] \notin opened \/ (Clearing /\ k[1] = closing))

Live == phase \in {"loaded", "recovering", "running", "closing"}

(* The last contents of a page are in the buffer, or else in its file. *)
FreshInv ==
    Live => \A k \in Keys :
      /\ k \in DOMAIN dblwr_pages /\ dblwr_pages[k].valid => dblwr_pages[k].page = version[k]
      /\ k \in DOMAIN work /\ work[k].valid => work[k].page = version[k]
      /\ Pending(k) \/ Dropped(k) \/ disk.data[k] = version[k]

NoFailure == fails = 0 /\ closes = 0

(* Each buffered page has a slot of its own, and the slot holds it as long *)
(* as it is to be written.                                                 *)
SlotInv ==
    NoFailure =>
      /\ page_cnt <= disk.page_cnt
      /\ \A k, l \in DOMAIN dblwr_pages :
           dblwr_pages[k].page_index = dblwr_pages[l].page_index => k = l
      /\ \A k \in DOMAIN dblwr_pages :
           LET i == dblwr_pages[k].page_index
           IN /\ i < disk.page_cnt \/ Adding(k)
              /\ IF op.at = "slot" /\ op.key = k THEN disk.slot[i] = NoSlot
                 ELSE IF Flushing /\ k \notin DOMAIN work
                 THEN disk.slot[i].key = k /\ ~disk.slot[i].valid
                 ELSE disk.slot[i] = SlotOf(k, dblwr_pages[k])

(* While the database runs the slots of the buffered pages are the first   *)
(* ones, and a page that is being added has the last of them.              *)
DenseInv ==
    NoFailure /\ phase = "running" =>
      /\ \A i \in 0 .. Cardinality(DOMAIN dblwr_pages) - 1 :
           \E k \in DOMAIN dblwr_pages : dblwr_pages[k].page_index = i
      /\ \A k \in DOMAIN dblwr_pages :
           dblwr_pages[k].page_index < Cardinality(DOMAIN dblwr_pages)
      /\ \A k \in Keys : Adding(k) /\ op.by # "overwrite" =>
           dblwr_pages[k].page_index = Cardinality(DOMAIN dblwr_pages) - 1
      /\ \A k \in Keys : Adding(k) /\ op.by = "overwrite" =>
           op.at = "slot" /\ dblwr_pages[k].page_index < disk.page_cnt

(* Nothing but the copy can be in the slot of a page that flush_page has   *)
(* still to write, whichever unsynced writes are lost.                     *)
SyncedInv ==
    NoFailure /\ scen.powerLoss /\ Flushing =>
      \A k \in DOMAIN work : unsynced.slot[work[k].page_index] = {SlotOf(k, work[k])}

Counted(i) == i < disk.page_cnt /\ disk.slot[i].page # Torn

(* On disk, while no write was lost: a valid slot is the first intact one  *)
(* of its page, it is the slot of a buffered page, and there is one for    *)
(* every page that is half written.                                        *)
DiskInv ==
    NoFailure /\ ~scen.powerLoss =>
      /\ \A i, j \in Slots :
           Counted(i) /\ disk.slot[i].valid /\ Counted(j) /\ disk.slot[i].key = disk.slot[j].key
             => i <= j
      /\ \A k \in Keys : disk.data[k] = Torn =>
           \E i \in Slots : Counted(i) /\ disk.slot[i].valid /\ disk.slot[i].key = k
      /\ Live =>
           /\ \A i \in Slots : Counted(i) /\ disk.slot[i].valid =>
                /\ disk.slot[i].key \in DOMAIN dblwr_pages
                /\ dblwr_pages[disk.slot[i].key].page_index = i
           /\ \A k \in DOMAIN dblwr_pages : \A j \in Slots :
                Counted(j) /\ disk.slot[j].key = k => dblwr_pages[k].page_index <= j
           /\ \A k \in Keys : version[k] # Torn
      /\ phase = "running" =>
           \A k \in Keys : disk.data[k] = Torn => op.at = "page" /\ op.key = k

IInv ==
    /\ TypeOK /\ OpInv /\ WorkInv /\ FreshInv /\ CleanShutdown
    /\ SlotInv /\ DenseInv /\ SyncedInv /\ DiskInv

-----------------------------------------------------------------------------
(* Lemmas about the disk and the buffer. *)

LEMMA KeysFinite ==
    /\ IsFiniteSet(Keys) /\ Cardinality(Keys) \in Nat
    /\ Slots \subseteq Nat
    /\ \A S \in SUBSET Keys :
         IsFiniteSet(S) /\ Cardinality(S) \in Nat /\ Cardinality(S) <= Cardinality(Keys)
    /\ \A S \in SUBSET Keys : \A k \in Keys \ S :
         Cardinality(S) \in Slots /\ Cardinality(S \cup {k}) = Cardinality(S) + 1
  <1>1. IsFiniteSet(Keys) /\ Cardinality(Keys) \in Nat
    BY DoubleWriteAssumption, FS_CardinalityType
  <1>2. \A S \in SUBSET Keys :
          IsFiniteSet(S) /\ Cardinality(S) \in Nat /\ Cardinality(S) <= Cardinality(Keys)
    BY <1>1, FS_Subset, FS_CardinalityType
  <1>3. ASSUME NEW S \in SUBSET Keys, NEW k \in Keys \ S
        PROVE  Cardinality(S) \in Slots /\ Cardinality(S \cup {k}) = Cardinality(S) + 1
    <2>1. Cardinality(S) # Cardinality(Keys)
      BY <1>1, FS_Subset
    <2>2. Cardinality(S) \in Nat /\ Cardinality(S) < Cardinality(Keys)
      BY <1>1, <1>2, <2>1
    <2>3. Cardinality(S \cup {k}) = Cardinality(S) + 1
      BY <1>2, FS_AddElement
    <2> QED BY <1>1, <2>2, <2>3 DEF Slots
  <1> QED BY <1>1, <1>2, <1>3 DEF Slots

LEMMA SlotKinds ==
    /\ NoSlot \in Slot /\ NoSlot.key = NoKey /\ NoSlot.valid = FALSE /\ NoSlot.page = Torn
    /\ \A s \in Slot : s # NoSlot => s.key \in Keys /\ s.valid \in BOOLEAN /\ s.page \in Nat
    /\ \A s \in Slot : s.page # Torn => s # NoSlot
    /\ \A s \in Slot : s.valid => s # NoSlot
    /\ \A k \in Keys, e \in Entry :
         SlotOf(k, e) \in Slot /\ SlotOf(k, e).key = k /\ SlotOf(k, e).valid = e.valid
           /\ SlotOf(k, e).page = e.page /\ e.page # Torn
  BY DEF NoSlot, Slot, Torn, NoKey, Versions, SlotOf, Entry

LEMMA CountersType ==
    ASSUME TypeOK
    PROVE  /\ fails \in Nat /\ closes \in Nat /\ crashes \in Nat
           /\ scen.fails \in Nat /\ scen.closes \in Nat /\ scen.crashes \in Nat
           /\ page_cnt \in Nat /\ disk.page_cnt \in Nat /\ Cardinality(DOMAIN dblwr_pages) \in Nat
           /\ \A k \in DOMAIN dblwr_pages :
                dblwr_pages[k] \in Entry /\ dblwr_pages[k].page_index \in Slots
                  /\ dblwr_pages[k].page_index \in Nat /\ dblwr_pages[k].page \in Nat
           /\ \A k \in DOMAIN work :
                work[k] \in Entry /\ work[k].page_index \in Slots
                  /\ work[k].page_index \in Nat /\ work[k].page \in Nat
           /\ \A i \in Slots : disk.slot[i] \in Slot
  <1>1. /\ fails \in Nat /\ closes \in Nat /\ crashes \in Nat
        /\ scen.fails \in Nat /\ scen.closes \in Nat /\ scen.crashes \in Nat
    BY DoubleWriteAssumption DEF TypeOK
  <1>2. /\ page_cnt \in Nat /\ disk.page_cnt \in Nat /\ Cardinality(DOMAIN dblwr_pages) \in Nat
        /\ \A i \in Slots : disk.slot[i] \in Slot
    BY KeysFinite DEF TypeOK, Disks
  <1>3. \A e \in Entry : e.page_index \in Slots /\ e.page_index \in Nat /\ e.page \in Nat
    BY KeysFinite DEF Entry, Versions
  <1>4. /\ \A k \in DOMAIN dblwr_pages : dblwr_pages[k] \in Entry
        /\ \A k \in DOMAIN work : work[k] \in Entry
    BY DEF TypeOK
  <1> QED BY <1>1, <1>2, <1>3, <1>4

(* What a write does to the disk. *)
LEMMA PutFields ==
    ASSUME TypeOK, NEW d \in Disks, Put(d)
    PROVE  /\ disk' = d /\ unsynced' \in UnsyncedDisks
           /\ ~scen.powerLoss => unsynced' = unsynced
           /\ scen.powerLoss =>
                \A i \in Slots : unsynced'.slot[i] = unsynced.slot[i] \cup {d.slot[i]}
  BY DEF Put, TypeOK, Disks, UnsyncedDisks

LEMMA PutSlotFields ==
    ASSUME TypeOK, NEW i \in Slots, NEW s \in Slot, PutSlot(i, s)
    PROVE  /\ disk' \in Disks /\ unsynced' \in UnsyncedDisks
           /\ disk'.page_cnt = disk.page_cnt /\ disk'.data = disk.data
           /\ \A j \in Slots : disk'.slot[j] = IF j = i THEN s ELSE disk.slot[j]
           /\ scen.powerLoss =>
                \A j \in Slots : unsynced'.slot[j] = unsynced.slot[j] \cup {disk'.slot[j]}
  <1> DEFINE d == [disk EXCEPT !.slot[i] = s]
  <1>1. /\ d \in Disks /\ d.page_cnt = disk.page_cnt /\ d.data = disk.data
        /\ \A j \in Slots : d.slot[j] = IF j = i THEN s ELSE disk.slot[j]
    BY DEF TypeOK, Disks
  <1>2. Put(d)
    BY DEF PutSlot
  <1> HIDE DEF d
  <1> QED BY <1>1, <1>2, PutFields

LEMMA PutPageFields ==
    ASSUME TypeOK, NEW k \in Keys, NEW v \in Versions \cup {Torn}, PutPage(k, v)
    PROVE  /\ disk' \in Disks /\ unsynced' \in UnsyncedDisks
           /\ disk'.page_cnt = disk.page_cnt /\ disk'.slot = disk.slot
           /\ \A l \in Keys : disk'.data[l] = IF l = k THEN v ELSE disk.data[l]
           /\ scen.powerLoss =>
                \A j \in Slots : unsynced'.slot[j] = unsynced.slot[j] \cup {disk'.slot[j]}
  <1> DEFINE d == [disk EXCEPT !.data[k] = v]
  <1>1. /\ d \in Disks /\ d.page_cnt = disk.page_cnt /\ d.slot = disk.slot
        /\ \A l \in Keys : d.data[l] = IF l = k THEN v ELSE disk.data[l]
    BY DEF TypeOK, Disks
  <1>2. Put(d)
    BY DEF PutPage
  <1> HIDE DEF d
  <1> QED BY <1>1, <1>2, PutFields

LEMMA AsUnsyncedType ==
    ASSUME NEW d \in Disks
    PROVE  /\ AsUnsynced(d) \in UnsyncedDisks
           /\ \A i \in Slots : AsUnsynced(d).slot[i] = {d.slot[i]}
  BY DEF AsUnsynced, Disks, UnsyncedDisks

LEMMA CrashDisk ==
    ASSUME TypeOK, NEW d \in AfterCrash
    PROVE  d \in Disks /\ (~scen.powerLoss => d = disk)
  BY DEF TypeOK, AfterCrash, Disks, UnsyncedDisks

LEMMA NoFunction ==
    /\ DOMAIN <<>> = {} /\ <<>> \in [DOMAIN <<>> -> Entry]
    /\ \A f \in [{} -> Entry] : f = <<>>
  OBVIOUS

(* load_pages takes the first intact slot of each page that has one. *)
LEMMA LoadPages ==
    ASSUME TypeOK
    PROVE  /\ DOMAIN load_pages \subseteq Keys /\ load_pages \in [DOMAIN load_pages -> Entry]
           /\ \A k : k \in DOMAIN load_pages <=>
                       \E i \in Slots : Counted(i) /\ disk.slot[i].key = k
           /\ \A k \in DOMAIN load_pages :
                LET i == load_pages[k].page_index
                IN /\ i \in Slots /\ Counted(i)
                   /\ disk.slot[i] = SlotOf(k, load_pages[k])
                   /\ \A j \in Slots : Counted(j) /\ disk.slot[j].key = k => i <= j
  <1> DEFINE intact == {i \in Slots : i < disk.page_cnt /\ disk.slot[i].page # Torn}
             found == {disk.slot[i].key : i \in intact}
             own(k) == {i \in intact : disk.slot[i].key = k}
             first(k) == Min(own(k))
  <1>1. load_pages = [k \in found |-> [page_index |-> first(k),
                                       valid |-> disk.slot[first(k)].valid,
                                       page |-> disk.slot[first(k)].page]]
    BY DEF load_pages
  <1>2. \A i : i \in intact <=> i \in Slots /\ Counted(i)
    BY DEF Counted
  <1>3. ASSUME NEW k \in found
        PROVE  first(k) \in own(k) /\ \A j \in own(k) : first(k) <= j
    <2>1. own(k) # {} /\ own(k) \subseteq Nat
      BY KeysFinite
    <2> HIDE DEF own
    <2>2. PICK x \in own(k) : \A y \in own(k) : ~(<<y, x>> \in OpToRel(<, Nat))
      BY <2>1, NatLessThanWellFounded, WFMin
    <2>3. ASSUME NEW y \in own(k) PROVE x <= y
      <3>1. ~(<<y, x>> \in OpToRel(<, Nat))
        BY <2>2
      <3>2. x \in Nat /\ y \in Nat
        BY <2>1
      <3>3. ~(y < x)
        BY <3>1, <3>2 DEF OpToRel
      <3> QED BY <3>2, <3>3
    <2> QED BY <2>1, <2>3 DEF Min
  <1>4. \A i \in intact : disk.slot[i] \in Slot /\ disk.slot[i] # NoSlot /\ disk.slot[i].key \in Keys
    BY SlotKinds DEF TypeOK, Disks
  <1>5. ASSUME NEW k \in found
        PROVE  /\ k \in Keys /\ load_pages[k] \in Entry
               /\ load_pages[k].page_index = first(k)
               /\ disk.slot[first(k)] = SlotOf(k, load_pages[k])
    <2>1. first(k) \in intact /\ disk.slot[first(k)].key = k
      BY <1>3
    <2>2. PICK i \in intact : i = first(k)
      BY <2>1
    <2> HIDE DEF first, intact, found
    <2>3. load_pages[k] = [page_index |-> i, valid |-> disk.slot[i].valid, page |-> disk.slot[i].page]
      BY <1>1, <2>2
    <2>4. disk.slot[i] \in [key : Keys, valid : BOOLEAN, page : Versions] /\ disk.slot[i].key = k
      BY <1>4, <2>1, <2>2 DEF Slot
    <2>5. i \in Slots
      BY <1>2
    <2>6. load_pages[k] \in Entry /\ load_pages[k].page_index = i
      BY <2>3, <2>4, <2>5 DEF Entry
    <2>7. disk.slot[i] = SlotOf(k, load_pages[k])
      BY <2>3, <2>4 DEF SlotOf
    <2> QED BY <2>2, <2>4, <2>6, <2>7
  <1>6. DOMAIN load_pages = found
    BY <1>1
  <1>7. \A k : k \in found <=> \E i \in Slots : Counted(i) /\ disk.slot[i].key = k
    BY <1>2
  <1>8. \A k \in found : \A j \in Slots : Counted(j) /\ disk.slot[j].key = k => first(k) <= j
    BY <1>2, <1>3
  <1>9. \A k \in found : first(k) \in Slots /\ Counted(first(k))
    BY <1>2, <1>3
  <1>10. load_pages \in [found -> Entry]
    BY <1>1, <1>5
  <1> HIDE DEF first, found, intact, own
  <1> QED BY <1>5, <1>6, <1>7, <1>8, <1>9, <1>10

(* A valid slot repairs its page when it is the first intact one. *)
LEMMA RecoveredIs ==
    ASSUME TypeOK, NEW k \in Keys,
           \A i, j \in Slots :
             Counted(i) /\ disk.slot[i].valid /\ Counted(j) /\ disk.slot[i].key = disk.slot[j].key
               => i <= j
    PROVE  /\ \A i \in Slots : Counted(i) /\ disk.slot[i].valid /\ disk.slot[i].key = k
                => Recovered(k) = disk.slot[i].page
           /\ (\A i \in Slots : ~(Counted(i) /\ disk.slot[i].valid /\ disk.slot[i].key = k))
                => Recovered(k) = disk.data[k]
  <1>1. ASSUME NEW i \in Slots, Counted(i), disk.slot[i].valid, disk.slot[i].key = k
        PROVE  Recovered(k) = disk.slot[i].page
    <2>1. k \in DOMAIN load_pages
      BY <1>1, LoadPages
    <2>2. PICK j \in Slots : j = load_pages[k].page_index
      BY <2>1, LoadPages
    <2>3. Counted(j) /\ disk.slot[j] = SlotOf(k, load_pages[k]) /\ j <= i
      BY <1>1, <2>1, <2>2, LoadPages
    <2>4. disk.slot[j].key = k
      BY <2>3 DEF SlotOf
    <2>5. i <= j
      BY <1>1, <2>3, <2>4
    <2>6. i = j
      BY <2>3, <2>5, KeysFinite
    <2>7. load_pages[k].valid = disk.slot[i].valid /\ load_pages[k].page = disk.slot[i].page
      BY <2>3, <2>6 DEF SlotOf
    <2> QED BY <1>1, <2>1, <2>7 DEF Recovered
  <1>2. ASSUME \A i \in Slots : ~(Counted(i) /\ disk.slot[i].valid /\ disk.slot[i].key = k)
        PROVE  Recovered(k) = disk.data[k]
    <2>1. SUFFICES ASSUME k \in DOMAIN load_pages PROVE ~load_pages[k].valid
      BY DEF Recovered
    <2>2. PICK j \in Slots : j = load_pages[k].page_index
      BY <2>1, LoadPages
    <2>3. Counted(j) /\ disk.slot[j] = SlotOf(k, load_pages[k])
      BY <2>1, <2>2, LoadPages
    <2>4. disk.slot[j].key = k /\ disk.slot[j].valid = load_pages[k].valid
      BY <2>3 DEF SlotOf
    <2> QED BY <1>2, <2>3, <2>4
  <1> QED BY <1>1, <1>2

-----------------------------------------------------------------------------
(* What follows from the invariant. *)

(* Every half written page can be repaired. *)
LEMMA RepairableHolds ==
    ASSUME IInv
    PROVE  Repairable
  <1>1. SUFFICES ASSUME NoFailure, ~scen.powerLoss, NEW k \in Keys PROVE Recovered(k) # Torn
    BY DEF Repairable, WritesHold, NoFailure
  <1>2. TypeOK
    BY DEF IInv
  <1>3. \A i, j \in Slots :
          Counted(i) /\ disk.slot[i].valid /\ Counted(j) /\ disk.slot[i].key = disk.slot[j].key
            => i <= j
    BY <1>1 DEF IInv, DiskInv
  <1>4. CASE \E i \in Slots : Counted(i) /\ disk.slot[i].valid /\ disk.slot[i].key = k
    <2>1. PICK i \in Slots : Counted(i) /\ disk.slot[i].valid /\ disk.slot[i].key = k
      BY <1>4
    <2>2. Recovered(k) = disk.slot[i].page
      BY <1>2, <1>3, <2>1, RecoveredIs
    <2> QED BY <2>1, <2>2 DEF Counted
  <1>5. CASE \A i \in Slots : ~(Counted(i) /\ disk.slot[i].valid /\ disk.slot[i].key = k)
    <2>1. Recovered(k) = disk.data[k]
      BY <1>2, <1>3, <1>5, RecoveredIs
    <2>2. disk.data[k] # Torn
      BY <1>1, <1>5 DEF IInv, DiskInv
    <2> QED BY <2>1, <2>2
  <1> QED BY <1>4, <1>5

(* And repairing gives every page its last contents. *)
LEMMA CopyLatestHolds ==
    ASSUME IInv
    PROVE  CopyLatest
  <1>1. SUFFICES ASSUME phase \in {"loaded", "recovering", "running"}, NoFailure, ~scen.powerLoss,
                        NEW k \in Keys, ~Adding(k)
                 PROVE  Recovered(k) = version[k]
    BY DEF CopyLatest, WritesHold, NoFailure, Adding
  <1>2. TypeOK /\ Live
    BY <1>1 DEF IInv, Live
  <1>3. \A i, j \in Slots :
          Counted(i) /\ disk.slot[i].valid /\ Counted(j) /\ disk.slot[i].key = disk.slot[j].key
            => i <= j
    BY <1>1 DEF IInv, DiskInv
  <1>4. CASE \E i \in Slots : Counted(i) /\ disk.slot[i].valid /\ disk.slot[i].key = k
    <2>1. PICK i \in Slots : Counted(i) /\ disk.slot[i].valid /\ disk.slot[i].key = k
      BY <1>4
    <2>2. Recovered(k) = disk.slot[i].page
      BY <1>2, <1>3, <2>1, RecoveredIs
    <2>3. k \in DOMAIN dblwr_pages /\ dblwr_pages[k].page_index = i
      BY <1>1, <1>2, <2>1 DEF IInv, DiskInv
    <2>4. disk.slot[i] = SlotOf(k, dblwr_pages[k])
      BY <1>1, <2>1, <2>3 DEF IInv, SlotInv, Adding
    <2>5. dblwr_pages[k].valid /\ dblwr_pages[k].page = disk.slot[i].page
      BY <2>1, <2>4 DEF SlotOf
    <2>6. dblwr_pages[k].page = version[k]
      BY <1>2, <2>3, <2>5 DEF IInv, FreshInv
    <2> QED BY <2>2, <2>5, <2>6
  <1>5. CASE \A i \in Slots : ~(Counted(i) /\ disk.slot[i].valid /\ disk.slot[i].key = k)
    <2>1. Recovered(k) = disk.data[k]
      BY <1>2, <1>3, <1>5, RecoveredIs
    <2>2. ~Pending(k)
      <3>1. SUFFICES ASSUME Pending(k) PROVE FALSE
        OBVIOUS
      <3>2. k \in DOMAIN dblwr_pages /\ dblwr_pages[k].valid /\ (Flushing => k \in DOMAIN work)
        BY <1>1, <3>1 DEF Pending, IInv, WorkInv, OpInv, Flushing, Clearing
      <3>3. PICK e \in Entry : e = dblwr_pages[k]
        BY <1>2, <3>2 DEF TypeOK
      <3>4. disk.slot[e.page_index] = SlotOf(k, e) /\ e.page_index < disk.page_cnt
        BY <1>1, <3>2, <3>3 DEF IInv, SlotInv, Adding
      <3>5. e.page_index \in Slots
        BY DEF Entry
      <3> QED BY <1>5, <3>2, <3>3, <3>4, <3>5, SlotKinds DEF Counted
    <2>3. ~Dropped(k)
      BY <1>1 DEF Dropped, NoFailure
    <2> QED BY <1>2, <2>1, <2>2, <2>3 DEF IInv, FreshInv
  <1> QED BY <1>4, <1>5

LEMMA CopyBeforePageHolds ==
    ASSUME IInv
    PROVE  CopyBeforePage
  <1>1. SUFFICES ASSUME scen.powerLoss, op.at = "page", NoFailure
                 PROVE  unsynced.slot[work[op.key].page_index] = {SlotOf(op.key, work[op.key])}
    BY DEF CopyBeforePage, NoFailure
  <1>2. op.key \in DOMAIN work /\ Flushing
    BY <1>1 DEF IInv, OpInv, TypeOK, NoFailure, Flushing, InLoop, Clearing
  <1> QED BY <1>1, <1>2 DEF IInv, SyncedInv

LEMMA ReadLatestHolds ==
    ASSUME IInv
    PROVE  ReadLatest
  <1>1. SUFFICES ASSUME op.at = "idle", NEW k \in Keys, k[1] \in opened, Live
                 PROVE  /\ phase \in {"running", "closing"} => load_page(k) = version[k]
                        /\ phase = "loaded" => ServedInvalid(k) \/ load_page(k) = version[k]
    BY DEF ReadLatest, Live
  <1>2. DOMAIN work = {} /\ ~Clearing /\ ~Flushing
    BY <1>1 DEF IInv, OpInv, InLoop, Flushing, Clearing
  <1>3. CASE k \in DOMAIN dblwr_pages
    <2>1. phase \in {"running", "closing"} => dblwr_pages[k].valid
      BY <1>3 DEF IInv, WorkInv
    <2>2. dblwr_pages[k].valid => dblwr_pages[k].page = version[k]
      BY <1>1, <1>3 DEF IInv, FreshInv
    <2> QED BY <1>3, <2>1, <2>2 DEF load_page, ServedInvalid
  <1>4. CASE k \notin DOMAIN dblwr_pages
    <2>1. ~Pending(k) /\ ~Dropped(k)
      BY <1>1, <1>2, <1>4 DEF Pending, Dropped
    <2>2. disk.data[k] = version[k]
      BY <1>1, <2>1 DEF IInv, FreshInv
    <2> QED BY <1>4, <2>2 DEF load_page
  <1> QED BY <1>3, <1>4

-----------------------------------------------------------------------------
(* The invariant holds at the start. *)

LEMMA InitIInv ==
    ASSUME Init
    PROVE  IInv
  <1>1. disk \in Disks
    BY KeysFinite, SlotKinds DEF Init, Disks, Versions
  <1>2. TypeOK
    <2>1. unsynced \in UnsyncedDisks
      BY <1>1, AsUnsyncedType DEF Init
    <2>2. version \in [Keys -> Versions \cup {Torn}]
      BY DEF Init, Versions
    <2>3. scen \in Scenarios /\ crashes \in 0 .. scen.crashes /\ closes \in 0 .. scen.closes
            /\ fails \in 0 .. scen.fails
      BY DoubleWriteAssumption DEF Init
    <2>4. page_cnt \in 0 .. Cardinality(Keys)
      BY KeysFinite DEF Init
    <2>5. opened \subseteq created /\ registered \subseteq created /\ created \subseteq Pools
            /\ closing \in Pools \cup {NoPool} /\ phase = "down"
      BY DoubleWriteAssumption DEF Init, Pools
    <2>6. op \in [at : {"idle", "slot", "header", "flush", "next", "page", "invalidate"},
                  key : Keys \cup {NoKey},
                  by : {"none", "insert", "overwrite", "flush_page", "clear_pages"}]
      BY DEF Init, Idle, At
    <2>7. DOMAIN dblwr_pages = {} /\ dblwr_pages \in [DOMAIN dblwr_pages -> Entry]
            /\ DOMAIN work = {} /\ work \in [DOMAIN work -> Entry]
      BY NoFunction DEF Init
    <2> QED BY <1>1, <2>1, <2>2, <2>3, <2>4, <2>5, <2>6, <2>7 DEF TypeOK
  <1>3. op.at = "idle" /\ op.by = "none" /\ DOMAIN work = {} /\ DOMAIN dblwr_pages = {}
    BY NoFunction DEF Init, Idle, At
  <1>4. OpInv /\ WorkInv /\ FreshInv /\ CleanShutdown /\ DenseInv
    BY <1>3 DEF Init, OpInv, WorkInv, FreshInv, Live, CleanShutdown, DenseInv, InLoop, Clearing, Flushing
  <1>5. SlotInv /\ SyncedInv
    BY <1>3 DEF Init, SlotInv, SyncedInv, Flushing, InLoop
  <1>6. DiskInv
    BY <1>3, SlotKinds DEF Init, DiskInv, Counted, Live, Torn
  <1> QED BY <1>2, <1>4, <1>5, <1>6 DEF IInv

-----------------------------------------------------------------------------
(* add_page keeps the invariant. *)

LEMMA AddToMemoryFields ==
    ASSUME TypeOK, NEW k \in Keys, AddToMemory(k)
    PROVE  /\ op.at = "idle" /\ k[1] \in opened /\ phase \in {"running", "closing"}
           /\ DOMAIN dblwr_pages' = DOMAIN dblwr_pages \cup {k}
           /\ DOMAIN dblwr_pages' \subseteq Keys
           /\ dblwr_pages' \in [DOMAIN dblwr_pages' -> Entry]
           /\ \A x \in DOMAIN dblwr_pages : x # k => dblwr_pages'[x] = dblwr_pages[x]
           /\ dblwr_pages'[k] \in Entry
           /\ dblwr_pages'[k].page = version'[k]
           /\ k \in DOMAIN dblwr_pages =>
                /\ dblwr_pages'[k].page_index = dblwr_pages[k].page_index
                /\ dblwr_pages'[k].valid = dblwr_pages[k].valid
           /\ k \notin DOMAIN dblwr_pages =>
                /\ dblwr_pages'[k].page_index = Cardinality(DOMAIN dblwr_pages)
                /\ dblwr_pages'[k].valid
           /\ version' \in [Keys -> Versions \cup {Torn}] /\ version'[k] # Torn
           /\ \A l \in Keys : l # k => version'[l] = version[l]
           /\ page_cnt' = page_cnt /\ work' = work /\ phase' = phase /\ opened' = opened
           /\ closing' = closing /\ registered' = registered /\ created' = created
  <1>1. op.at = "idle" /\ k[1] \in opened /\ phase \in {"running", "closing"}
    BY DEF AddToMemory, CanFlush
  <1>2. /\ version[k] + 1 \in Nat /\ version' \in [Keys -> Versions \cup {Torn}]
        /\ version'[k] = version[k] + 1 /\ version'[k] # Torn
        /\ \A l \in Keys : l # k => version'[l] = version[l]
    BY DEF AddToMemory, TypeOK, Versions, Torn
  <1>3. dblwr_pages' = Buffered(k, version'[k])
    BY DEF AddToMemory
  <1> DEFINE v == version'[k]
  <1>4. v \in Versions /\ dblwr_pages' = Buffered(k, v)
    BY <1>2, <1>3 DEF Versions
  <1>5. /\ page_cnt' = page_cnt /\ work' = work /\ phase' = phase /\ opened' = opened
        /\ closing' = closing /\ registered' = registered /\ created' = created
    BY DEF AddToMemory, database
  <1>6. DOMAIN dblwr_pages \subseteq Keys /\ dblwr_pages \in [DOMAIN dblwr_pages -> Entry]
    BY DEF TypeOK
  <1> HIDE DEF v
  <1>7. CASE k \in DOMAIN dblwr_pages
    <2>1. dblwr_pages' = [dblwr_pages EXCEPT ![k].page = v]
      BY <1>4, <1>7 DEF Buffered
    <2>2. dblwr_pages[k] \in Entry
      BY <1>6, <1>7
    <2>3. dblwr_pages'[k] = [dblwr_pages[k] EXCEPT !.page = v]
      BY <1>6, <1>7, <2>1
    <2>4. dblwr_pages'[k] \in Entry /\ dblwr_pages'[k].page = v
            /\ dblwr_pages'[k].page_index = dblwr_pages[k].page_index
            /\ dblwr_pages'[k].valid = dblwr_pages[k].valid
      BY <1>4, <2>2, <2>3 DEF Entry
    <2>5. DOMAIN dblwr_pages' = DOMAIN dblwr_pages
            /\ \A x \in DOMAIN dblwr_pages : x # k => dblwr_pages'[x] = dblwr_pages[x]
      BY <1>6, <2>1
    <2>6. dblwr_pages' \in [DOMAIN dblwr_pages' -> Entry]
      BY <1>6, <2>1, <2>3, <2>4, <2>5
    <2> QED BY <1>1, <1>2, <1>5, <1>6, <1>7, <2>4, <2>5, <2>6 DEF v
  <1>8. CASE k \notin DOMAIN dblwr_pages
    <2> DEFINE e == [page_index |-> Cardinality(DOMAIN dblwr_pages), valid |-> TRUE, page |-> v]
    <2>1. dblwr_pages' = [x \in DOMAIN dblwr_pages \cup {k} |->
                            IF x # k THEN dblwr_pages[x] ELSE e]
      BY <1>4, <1>8 DEF Buffered
    <2>2. Cardinality(DOMAIN dblwr_pages) \in Slots
      BY <1>6, <1>8, KeysFinite
    <2>3. e \in Entry /\ e.page = v /\ e.page_index = Cardinality(DOMAIN dblwr_pages) /\ e.valid
      BY <1>4, <2>2 DEF Entry
    <2> HIDE DEF e
    <2>4. /\ DOMAIN dblwr_pages' = DOMAIN dblwr_pages \cup {k}
          /\ \A x \in DOMAIN dblwr_pages : x # k => dblwr_pages'[x] = dblwr_pages[x]
          /\ dblwr_pages'[k] = e
      BY <2>1
    <2>5. dblwr_pages' \in [DOMAIN dblwr_pages' -> Entry]
      BY <1>6, <2>1, <2>3, <2>4
    <2> QED BY <1>1, <1>2, <1>5, <1>6, <1>8, <2>3, <2>4, <2>5 DEF v
  <1> QED BY <1>7, <1>8

(* The parts that a page added in memory concerns, while the slot is still *)
(* being written or could not be written.                                  *)
LEMMA AddToMemoryFresh ==
    ASSUME IInv, NEW k \in Keys, AddToMemory(k), disk'.data = disk.data, op'.at \in {"idle", "slot"},
           op'.by # "clear_pages", fails' \in Nat, fails' >= fails
    PROVE  WorkInv' /\ FreshInv' /\ CleanShutdown' /\ SyncedInv'
  <1>0. TypeOK
    BY DEF IInv
  <1>f. /\ op.at = "idle" /\ k[1] \in opened /\ phase \in {"running", "closing"}
        /\ DOMAIN dblwr_pages' = DOMAIN dblwr_pages \cup {k}
        /\ \A x \in DOMAIN dblwr_pages : x # k => dblwr_pages'[x] = dblwr_pages[x]
        /\ dblwr_pages'[k].page = version'[k]
        /\ k \in DOMAIN dblwr_pages => dblwr_pages'[k].valid = dblwr_pages[k].valid
        /\ k \notin DOMAIN dblwr_pages => dblwr_pages'[k].valid
        /\ \A l \in Keys : l # k => version'[l] = version[l]
        /\ work' = work /\ phase' = phase /\ opened' = opened /\ closing' = closing
    BY <1>0, AddToMemoryFields
  <1>1. ~Flushing /\ ~Clearing /\ ~Flushing' /\ ~Clearing' /\ DOMAIN work = {} /\ DOMAIN work' = {}
    BY <1>f DEF IInv, OpInv, Flushing, Clearing, InLoop
  <1>2. WorkInv'
    <2>1. phase \in {"running", "closing"} /\ WorkInv
      BY <1>f DEF IInv
    <2>2. \A l \in DOMAIN dblwr_pages' : dblwr_pages'[l].valid /\ l[1] \in opened'
      <3>1. SUFFICES ASSUME NEW l \in DOMAIN dblwr_pages'
                     PROVE  dblwr_pages'[l].valid /\ l[1] \in opened'
        OBVIOUS
      <3>2. CASE l = k
        <4>1. k \in DOMAIN dblwr_pages => dblwr_pages[k].valid
          BY <2>1 DEF WorkInv
        <4> QED BY <1>f, <3>2, <4>1
      <3>3. CASE l # k
        <4>1. l \in DOMAIN dblwr_pages /\ dblwr_pages'[l] = dblwr_pages[l] /\ opened' = opened
          BY <1>f, <3>3
        <4> QED BY <2>1, <4>1 DEF WorkInv
      <3> QED BY <3>2, <3>3
    <2>3. closing' # NoPool => closing' \in opened'
      BY <1>f, <2>1 DEF WorkInv
    <2> QED BY <1>1, <2>2, <2>3 DEF WorkInv
  <1>3. FreshInv'
    <2>1. SUFFICES ASSUME NEW l \in Keys
                   PROVE  /\ l \in DOMAIN dblwr_pages' /\ dblwr_pages'[l].valid
                               => dblwr_pages'[l].page = version'[l]
                          /\ Pending(l)' \/ Dropped(l)' \/ disk'.data[l] = version'[l]
      BY <1>1 DEF FreshInv
    <2>2. CASE l = k
      BY <1>f, <1>1, <1>2, <2>2 DEF Pending, WorkInv
    <2>3. CASE l # k
      <3>1. Live
        BY <1>f DEF Live
      <3>2. Pending(l)' <=> Pending(l)
        BY <1>f, <1>1, <2>3 DEF Pending
      <3>3. Dropped(l) => Dropped(l)'
        BY <1>0, <1>f, <1>1, CountersType DEF Dropped
      <3> QED BY <1>f, <2>3, <3>1, <3>2, <3>3 DEF IInv, FreshInv
    <2> QED BY <2>2, <2>3
  <1>4. CleanShutdown' /\ SyncedInv'
    BY <1>f, <1>1 DEF CleanShutdown, SyncedInv
  <1> QED BY <1>2, <1>3, <1>4

(* add_page: the page is in memory and its slot half written. *)
LEMMA AddPageInv ==
    ASSUME IInv, NEW k \in Keys, add_page(k)
    PROVE  IInv'
  <1>0. TypeOK /\ AddToMemory(k)
    BY DEF IInv, add_page
  <1>1. PICK i \in Slots : i = dblwr_pages'[k].page_index
    BY <1>0, AddToMemoryFields DEF Entry
  <1>2. PutSlot(i, NoSlot)
    BY <1>1 DEF add_page
  <1>3. /\ disk' \in Disks /\ unsynced' \in UnsyncedDisks
        /\ disk'.page_cnt = disk.page_cnt /\ disk'.data = disk.data
        /\ \A j \in Slots : disk'.slot[j] = IF j = i THEN NoSlot ELSE disk.slot[j]
    BY <1>0, <1>2, PutSlotFields, SlotKinds
  <1>4. /\ op'.at = "slot" /\ op'.key = k
        /\ op'.by = IF k \in DOMAIN dblwr_pages THEN "overwrite" ELSE "insert"
        /\ op' = At("slot", k, op'.by)
        /\ scen' = scen /\ crashes' = crashes /\ closes' = closes /\ fails' = fails
    BY DEF add_page, At, bounds
  <1>f. /\ op.at = "idle" /\ k[1] \in opened /\ phase \in {"running", "closing"}
        /\ DOMAIN dblwr_pages' = DOMAIN dblwr_pages \cup {k}
        /\ \A x \in DOMAIN dblwr_pages : x # k => dblwr_pages'[x] = dblwr_pages[x]
        /\ k \in DOMAIN dblwr_pages => dblwr_pages[k].page_index = i
        /\ k \notin DOMAIN dblwr_pages => i = Cardinality(DOMAIN dblwr_pages)
        /\ version' \in [Keys -> Versions \cup {Torn}] /\ version'[k] # Torn
        /\ \A l \in Keys : l # k => version'[l] = version[l]
        /\ page_cnt' = page_cnt /\ work' = work /\ phase' = phase /\ opened' = opened
        /\ closing' = closing /\ registered' = registered /\ created' = created
    BY <1>0, <1>1, AddToMemoryFields
  <1>5. DOMAIN work = {} /\ ~Flushing /\ ~Flushing' /\ ~InLoop /\ ~InLoop' /\ ~Clearing /\ ~Clearing'
    BY <1>f, <1>4 DEF IInv, OpInv, Flushing, Clearing, InLoop
  <1>6. TypeOK'
    <2>1. op' \in [at : {"idle", "slot", "header", "flush", "next", "page", "invalidate"},
                   key : Keys \cup {NoKey},
                   by : {"none", "insert", "overwrite", "flush_page", "clear_pages"}]
      BY <1>4 DEF At
    <2>2. DOMAIN dblwr_pages' \subseteq Keys /\ dblwr_pages' \in [DOMAIN dblwr_pages' -> Entry]
      BY <1>0, AddToMemoryFields
    <2> QED BY <1>0, <1>3, <1>4, <1>f, <2>1, <2>2 DEF TypeOK
  <1>7. OpInv'
    BY <1>f, <1>4, <1>5 DEF IInv, OpInv
  <1>8. WorkInv' /\ FreshInv' /\ CleanShutdown' /\ SyncedInv'
    <2>1. fails' \in Nat /\ fails' >= fails
      BY <1>0, <1>4, CountersType
    <2> QED BY <1>0, <1>3, <1>4, <2>1, AddToMemoryFresh
  <1>9. ASSUME NoFailure PROVE phase = "running"
    BY <1>f, <1>9 DEF NoFailure, IInv, OpInv
  <1>d. ASSUME NoFailure
        PROVE  /\ \A x \in DOMAIN dblwr_pages : x # k => dblwr_pages[x].page_index # i
               /\ Cardinality(DOMAIN dblwr_pages') =
                    Cardinality(DOMAIN dblwr_pages) + (IF k \in DOMAIN dblwr_pages THEN 0 ELSE 1)
    <2>1. \A x \in DOMAIN dblwr_pages : x # k => dblwr_pages[x].page_index # i
      BY <1>0, <1>9, <1>d, <1>f, CountersType DEF IInv, SlotInv, DenseInv
    <2>2. CASE k \in DOMAIN dblwr_pages
      <3>1. DOMAIN dblwr_pages' = DOMAIN dblwr_pages
        BY <1>f, <2>2
      <3> QED BY <1>0, <2>1, <2>2, <3>1, CountersType
    <2>3. CASE k \notin DOMAIN dblwr_pages
      BY <1>0, <1>f, <2>1, <2>3, KeysFinite DEF TypeOK
    <2> QED BY <2>2, <2>3
  <1>10. SlotInv'
    <2>1. SUFFICES ASSUME NoFailure
                   PROVE  /\ page_cnt' <= disk'.page_cnt
                          /\ \A x, y \in DOMAIN dblwr_pages' :
                               dblwr_pages'[x].page_index = dblwr_pages'[y].page_index => x = y
                          /\ \A x \in DOMAIN dblwr_pages' :
                               /\ dblwr_pages'[x].page_index < disk'.page_cnt \/ Adding(x)'
                               /\ IF x = k THEN disk'.slot[dblwr_pages'[x].page_index] = NoSlot
                                  ELSE disk'.slot[dblwr_pages'[x].page_index] = SlotOf(x, dblwr_pages'[x])
      BY <1>4, <1>5 DEF SlotInv, NoFailure
    <2>2. page_cnt' <= disk'.page_cnt
      BY <1>3, <1>f, <2>1 DEF IInv, SlotInv
    <2>3. \A x, y \in DOMAIN dblwr_pages' :
            dblwr_pages'[x].page_index = dblwr_pages'[y].page_index => x = y
      BY <1>1, <1>d, <1>f, <2>1 DEF IInv, SlotInv
    <2>4. ASSUME NEW x \in DOMAIN dblwr_pages', x # k
          PROVE  /\ dblwr_pages'[x].page_index < disk'.page_cnt
                 /\ disk'.slot[dblwr_pages'[x].page_index] = SlotOf(x, dblwr_pages'[x])
      <3>1. x \in DOMAIN dblwr_pages /\ dblwr_pages'[x] = dblwr_pages[x]
              /\ dblwr_pages[x].page_index \in Slots
        BY <1>0, <1>f, <2>4, CountersType
      <3>2. dblwr_pages[x].page_index < disk.page_cnt
              /\ disk.slot[dblwr_pages[x].page_index] = SlotOf(x, dblwr_pages[x])
        BY <1>5, <1>f, <2>1, <3>1 DEF IInv, SlotInv, Adding
      <3> QED BY <1>3, <1>d, <2>1, <2>4, <3>1, <3>2
    <2>5. Adding(k)' /\ disk'.slot[dblwr_pages'[k].page_index] = NoSlot
      BY <1>1, <1>3, <1>4 DEF Adding
    <2> QED BY <2>2, <2>3, <2>4, <2>5
  <1>11. DenseInv'
    <2>1. SUFFICES ASSUME NoFailure
                   PROVE  /\ \A j \in 0 .. Cardinality(DOMAIN dblwr_pages') - 1 :
                               \E x \in DOMAIN dblwr_pages' : dblwr_pages'[x].page_index = j
                          /\ \A x \in DOMAIN dblwr_pages' :
                               dblwr_pages'[x].page_index < Cardinality(DOMAIN dblwr_pages')
                          /\ k \notin DOMAIN dblwr_pages => i = Cardinality(DOMAIN dblwr_pages') - 1
                          /\ k \in DOMAIN dblwr_pages => i < disk'.page_cnt
      BY <1>1, <1>4 DEF DenseInv, NoFailure, Adding
    <2>2. phase = "running" /\ DenseInv /\ SlotInv
      BY <1>9, <2>1 DEF IInv
    <2>3. \A x \in DOMAIN dblwr_pages' :
            dblwr_pages'[x].page_index = IF x = k THEN i ELSE dblwr_pages[x].page_index
      BY <1>1, <1>f
    <2>4. CASE k \in DOMAIN dblwr_pages
      <3>1. DOMAIN dblwr_pages' = DOMAIN dblwr_pages
        BY <1>f, <2>4
      <3>2. \A x \in DOMAIN dblwr_pages : dblwr_pages'[x].page_index = dblwr_pages[x].page_index
        BY <1>f, <2>3, <2>4, <3>1
      <3>3. i < disk'.page_cnt
        BY <1>3, <1>f, <2>1, <2>2, <2>4 DEF SlotInv, Adding
      <3> QED BY <2>1, <2>2, <2>4, <3>1, <3>2, <3>3 DEF DenseInv
    <2>5. CASE k \notin DOMAIN dblwr_pages
      <3>1. Cardinality(DOMAIN dblwr_pages') = i + 1 /\ i = Cardinality(DOMAIN dblwr_pages) /\ i \in Nat
        BY <1>0, <1>d, <1>f, <2>1, <2>5, CountersType
      <3>2. ASSUME NEW j \in 0 .. i
            PROVE  \E x \in DOMAIN dblwr_pages' : dblwr_pages'[x].page_index = j
        <4>1. CASE j = i
          BY <1>f, <2>3, <4>1
        <4>2. CASE j # i
          <5>1. PICK x \in DOMAIN dblwr_pages : dblwr_pages[x].page_index = j
            BY <2>1, <2>2, <3>1, <4>2 DEF DenseInv
          <5> QED BY <1>f, <2>3, <2>5, <5>1
        <4> QED BY <4>1, <4>2
      <3>3. \A x \in DOMAIN dblwr_pages : dblwr_pages[x].page_index < i
        BY <2>1, <2>2, <3>1 DEF DenseInv
      <3>4. \A x \in DOMAIN dblwr_pages' : dblwr_pages'[x].page_index < i + 1
        BY <1>0, <1>f, <2>3, <3>1, <3>3, CountersType
      <3> QED BY <2>5, <3>1, <3>2, <3>4
    <2> QED BY <2>4, <2>5
  <1>12. DiskInv'
    <2>1. SUFFICES ASSUME NoFailure, ~scen.powerLoss PROVE DiskInv'
      BY <1>4 DEF DiskInv, NoFailure
    <2>2. phase = "running" /\ DiskInv /\ SlotInv /\ DenseInv /\ Live /\ Live'
      BY <1>9, <1>f, <2>1 DEF IInv, Live
    <2>3. \A j \in Slots : Counted(j)' <=> Counted(j) /\ j # i
      BY <1>3, SlotKinds DEF Counted
    <2>4. \A j \in Slots : j # i => disk'.slot[j] = disk.slot[j]
      BY <1>3
    <2>5. \A l \in Keys : disk'.data[l] # Torn
      BY <1>3, <1>f, <2>1, <2>2 DEF DiskInv
    <2>6. \A j \in Slots : Counted(j)' /\ disk'.slot[j].valid =>
            /\ disk'.slot[j].key \in DOMAIN dblwr_pages'
            /\ dblwr_pages'[disk'.slot[j].key].page_index = j
      BY <1>1, <1>f, <2>1, <2>2, <2>3, <2>4 DEF DiskInv
    <2>7. ASSUME NEW x \in DOMAIN dblwr_pages', NEW j \in Slots, Counted(j)', disk'.slot[j].key = x
          PROVE  dblwr_pages'[x].page_index <= j
      <3>1. Counted(j) /\ j # i /\ disk.slot[j].key = x
        BY <2>3, <2>4, <2>7
      <3>2. CASE x \in DOMAIN dblwr_pages
        <4>1. dblwr_pages'[x].page_index = dblwr_pages[x].page_index
          BY <1>1, <1>f, <3>2
        <4> QED BY <2>1, <2>2, <3>1, <3>2, <4>1 DEF DiskInv
      <3>3. CASE x \notin DOMAIN dblwr_pages
        <4>1. x = k /\ dblwr_pages'[x].page_index = i /\ i = Cardinality(DOMAIN dblwr_pages)
          BY <1>1, <1>f, <3>3
        <4>0. i \in Nat /\ j \in Nat
          BY KeysFinite
        <4>2. SUFFICES ASSUME j < i PROVE FALSE
          BY <4>0, <4>1
        <4>3. j \in 0 .. Cardinality(DOMAIN dblwr_pages) - 1
          BY <4>1, <4>2, KeysFinite
        <4>4. PICK y \in DOMAIN dblwr_pages : dblwr_pages[y].page_index = j
          BY <2>1, <2>2, <4>3 DEF DenseInv
        <4>5. disk.slot[j] = SlotOf(y, dblwr_pages[y])
          BY <1>5, <1>f, <2>1, <2>2, <4>4 DEF SlotInv
        <4> QED BY <3>1, <3>3, <4>4, <4>5 DEF SlotOf
      <3> QED BY <3>2, <3>3
    <2>8. \A l \in Keys : version'[l] # Torn
      BY <1>f, <2>1, <2>2 DEF DiskInv
    <2>9. \A j, m \in Slots :
            Counted(j)' /\ disk'.slot[j].valid /\ Counted(m)' /\ disk'.slot[j].key = disk'.slot[m].key
              => j <= m
      BY <2>1, <2>2, <2>3, <2>4 DEF DiskInv
    <2> QED BY <2>5, <2>6, <2>7, <2>8, <2>9 DEF DiskInv
  <1> QED BY <1>6, <1>7, <1>8, <1>10, <1>11, <1>12 DEF IInv

(* What the invariant says after a failure is little. *)
LEMMA AfterFailure ==
    ASSUME fails' \in Nat, fails' > 0
    PROVE  SlotInv' /\ DenseInv' /\ SyncedInv' /\ DiskInv'
  BY DEF SlotInv, DenseInv, SyncedInv, DiskInv, NoFailure

LEMMA AddPageUnwrittenInv ==
    ASSUME IInv, NEW k \in Keys, add_page_unwritten(k)
    PROVE  IInv'
  <1>0. TypeOK /\ AddToMemory(k)
    BY DEF IInv, add_page_unwritten
  <1>1. /\ fails' = fails + 1 /\ fails < scen.fails /\ disk' = disk /\ unsynced' = unsynced /\ op' = op
        /\ scen' = scen /\ crashes' = crashes /\ closes' = closes
    BY DEF add_page_unwritten
  <1>2. fails' \in Nat /\ fails' > 0 /\ fails' >= fails /\ fails' \in 0 .. scen.fails
    BY <1>0, <1>1, CountersType
  <1>f. /\ op.at = "idle" /\ phase \in {"running", "closing"}
        /\ DOMAIN dblwr_pages' \subseteq Keys /\ dblwr_pages' \in [DOMAIN dblwr_pages' -> Entry]
        /\ version' \in [Keys -> Versions \cup {Torn}]
        /\ page_cnt' = page_cnt /\ work' = work /\ phase' = phase /\ opened' = opened
        /\ closing' = closing /\ registered' = registered /\ created' = created
    BY <1>0, AddToMemoryFields
  <1>3. TypeOK'
    BY <1>0, <1>1, <1>2, <1>f DEF TypeOK
  <1>4. OpInv'
    BY <1>1, <1>2, <1>f DEF IInv, OpInv, InLoop, Clearing
  <1>5. WorkInv' /\ FreshInv' /\ CleanShutdown'
    <2>1. op'.at = "idle" /\ op'.by # "clear_pages"
      BY <1>1, <1>f DEF IInv, OpInv, InLoop, Clearing
    <2> QED BY <1>0, <1>1, <1>2, <2>1, AddToMemoryFresh
  <1> QED BY <1>2, <1>3, <1>4, <1>5, AfterFailure DEF IInv

(* The slot is written whole. *)
LEMMA AddPageWrittenInv ==
    ASSUME IInv, add_page_written
    PROVE  IInv'
  <1>0. /\ TypeOK /\ op.at = "slot"
        /\ dblwr_pages' = dblwr_pages /\ page_cnt' = page_cnt /\ work' = work /\ phase' = phase
        /\ opened' = opened /\ closing' = closing /\ registered' = registered /\ created' = created
        /\ version' = version /\ scen' = scen /\ crashes' = crashes /\ closes' = closes /\ fails' = fails
    BY DEF IInv, add_page_written, database, bounds
  <1>1. PICK k \in Keys : k = op.key /\ k \in DOMAIN dblwr_pages
    BY <1>0 DEF IInv, OpInv, TypeOK
  <1>2. PICK i \in Slots : i = dblwr_pages[k].page_index /\ i \in Nat
    BY <1>0, <1>1, CountersType
  <1>3. PICK s \in Slot : s = SlotOf(k, dblwr_pages[k]) /\ s.key = k /\ s.page # Torn
    BY <1>0, <1>1, CountersType, SlotKinds
  <1>4. PutSlot(i, s)
    BY <1>1, <1>2, <1>3 DEF add_page_written
  <1>5. /\ disk' \in Disks /\ unsynced' \in UnsyncedDisks
        /\ disk'.page_cnt = disk.page_cnt /\ disk'.data = disk.data
        /\ \A j \in Slots : disk'.slot[j] = IF j = i THEN s ELSE disk.slot[j]
    BY <1>0, <1>4, PutSlotFields
  <1>6. /\ \/ op' = Idle
           \/ op' = At("flush", NoKey, "flush_page")
           \/ op' = [op EXCEPT !.at = "header"] /\ op.by # "overwrite"
        /\ op'.at # "header" /\ op.by # "overwrite" => i + 1 <= page_cnt
    <2>1. [op EXCEPT !.at = "header"].at = "header"
      BY <1>0 DEF TypeOK
    <2>2. op.by = "overwrite" => op' = Idle
      BY DEF add_page_written
    <2>3. op.by # "overwrite" =>
            IF i + 1 > page_cnt THEN op' = [op EXCEPT !.at = "header"] ELSE FlushIfFull
      BY <1>1, <1>2 DEF add_page_written
    <2>4. CASE op.by = "overwrite"
      BY <2>2, <2>4
    <2>5. CASE op.by # "overwrite" /\ i + 1 > page_cnt
      BY <2>1, <2>3, <2>5
    <2>6. CASE op.by # "overwrite" /\ ~(i + 1 > page_cnt)
      <3>1. i + 1 <= page_cnt
        BY <1>0, <1>2, <2>6, CountersType
      <3> QED BY <2>3, <2>6, <3>1 DEF FlushIfFull
    <2> QED BY <2>4, <2>5, <2>6
  <1>7. /\ op' \in [at : {"idle", "slot", "header", "flush", "next", "page", "invalidate"},
                    key : Keys \cup {NoKey},
                    by : {"none", "insert", "overwrite", "flush_page", "clear_pages"}]
        /\ op'.at \in {"idle", "flush", "header"}
        /\ op'.at = "header" => op'.key = k /\ op'.by = op.by /\ op.by # "overwrite"
        /\ op'.by # "clear_pages"
    <2>1. op \in [at : {"idle", "slot", "header", "flush", "next", "page", "invalidate"},
                  key : Keys \cup {NoKey},
                  by : {"none", "insert", "overwrite", "flush_page", "clear_pages"}]
            /\ op.by # "clear_pages"
      BY <1>0 DEF TypeOK, IInv, OpInv, Clearing, InLoop
    <2> QED BY <1>1, <1>6, <2>1 DEF Idle, At
  <1>8. ~InLoop /\ ~InLoop' /\ ~Flushing /\ ~Flushing' /\ ~Clearing /\ ~Clearing' /\ DOMAIN work = {}
    BY <1>0, <1>7 DEF InLoop, Flushing, Clearing, IInv, OpInv
  <1>9. TypeOK'
    BY <1>0, <1>5, <1>7 DEF TypeOK
  <1>10. OpInv' /\ WorkInv' /\ CleanShutdown' /\ SyncedInv'
    <2>1. phase \in {"running", "closing"}
      BY <1>0 DEF IInv, OpInv
    <2>2. OpInv'
      BY <1>0, <1>1, <1>7, <1>8, <2>1 DEF IInv, OpInv
    <2> QED BY <1>0, <1>7, <1>8, <2>1, <2>2 DEF IInv, WorkInv, CleanShutdown, SyncedInv
  <1>11. FreshInv'
    <2>1. \A l \in Keys : (Pending(l)' <=> Pending(l)) /\ (Dropped(l)' <=> Dropped(l))
      BY <1>0, <1>8 DEF Pending, Dropped
    <2> QED BY <1>0, <1>5, <2>1 DEF IInv, FreshInv, Live
  <1>12. ASSUME NoFailure PROVE phase = "running" /\ SlotInv /\ DenseInv
    BY <1>0, <1>12 DEF NoFailure, IInv, OpInv
  <1>13. SlotInv'
    <2>1. SUFFICES ASSUME NoFailure, NEW x \in DOMAIN dblwr_pages
                   PROVE  /\ dblwr_pages[x].page_index < disk.page_cnt \/ Adding(x)'
                          /\ disk'.slot[dblwr_pages[x].page_index] = SlotOf(x, dblwr_pages[x])
      BY <1>0, <1>5, <1>7, <1>8 DEF IInv, SlotInv, NoFailure
    <2>2. CASE x = k
      <3>1. op.by = "overwrite" => i < disk.page_cnt
        BY <1>0, <1>1, <1>2, <1>12, <2>1 DEF DenseInv, Adding
      <3>2. op.by # "overwrite" => i < disk.page_cnt \/ Adding(k)'
        <4>1. page_cnt <= disk.page_cnt
          BY <1>12, <2>1 DEF SlotInv
        <4> QED BY <1>0, <1>2, <1>6, <1>7, <4>1, CountersType DEF Adding
      <3> QED BY <1>2, <1>3, <1>5, <2>2, <3>1, <3>2
    <2>3. CASE x # k
      <3>1. dblwr_pages[x].page_index \in Slots /\ dblwr_pages[x].page_index # i
        BY <1>0, <1>1, <1>2, <1>12, <2>1, <2>3, CountersType DEF SlotInv
      <3>2. dblwr_pages[x].page_index < disk.page_cnt
              /\ disk.slot[dblwr_pages[x].page_index] = SlotOf(x, dblwr_pages[x])
        BY <1>1, <1>8, <1>12, <2>1, <2>3 DEF SlotInv, Adding
      <3> QED BY <1>5, <3>1, <3>2
    <2> QED BY <2>2, <2>3
  <1>14. DenseInv'
    <2>1. ASSUME NoFailure, NEW x \in Keys, Adding(x)' PROVE op'.by # "overwrite" /\ Adding(x) /\ op.by # "overwrite"
      BY <1>0, <1>1, <1>7, <2>1 DEF Adding
    <2> QED BY <1>0, <1>5, <1>12, <2>1 DEF DenseInv, NoFailure
  <1>15. DiskInv'
    <2>1. SUFFICES ASSUME NoFailure, ~scen.powerLoss PROVE DiskInv'
      BY <1>0 DEF DiskInv, NoFailure
    <2>2. phase = "running" /\ phase' = "running" /\ DiskInv /\ Live /\ Live'
      BY <1>0, <1>12, <2>1 DEF IInv, Live
    <2>3. \A j \in Slots : j # i => disk'.slot[j] = disk.slot[j] /\ (Counted(j)' <=> Counted(j))
      BY <1>5 DEF Counted
    <2>4. disk'.slot[i] = s /\ (Counted(i)' <=> i < disk.page_cnt)
      BY <1>3, <1>5 DEF Counted
    <2>5. \A l \in Keys : disk'.data[l] # Torn
      BY <1>0, <1>5, <2>1, <2>2 DEF DiskInv
    <2>6. \A j \in Slots : Counted(j)' /\ disk'.slot[j].valid =>
            /\ disk'.slot[j].key \in DOMAIN dblwr_pages
            /\ dblwr_pages[disk'.slot[j].key].page_index = j
      BY <1>1, <1>2, <1>3, <2>1, <2>2, <2>3, <2>4 DEF DiskInv
    <2>7. \A x \in DOMAIN dblwr_pages, j \in Slots :
            Counted(j)' /\ disk'.slot[j].key = x => dblwr_pages[x].page_index <= j
      BY <1>1, <1>2, <1>3, <2>1, <2>2, <2>3, <2>4 DEF DiskInv
    <2>9. \A j, m \in Slots :
            Counted(j)' /\ disk'.slot[j].valid /\ Counted(m)' /\ disk'.slot[j].key = disk'.slot[m].key
              => j <= m
      BY <2>6, <2>7
    <2> QED BY <1>0, <2>1, <2>2, <2>5, <2>6, <2>7, <2>9 DEF DiskInv
  <1> QED BY <1>9, <1>10, <1>11, <1>13, <1>14, <1>15 DEF IInv

(* The header counts the slot. *)
LEMMA AddPageHeaderInv ==
    ASSUME IInv, add_page_header
    PROVE  IInv'
  <1>0. /\ TypeOK /\ op.at = "header"
        /\ dblwr_pages' = dblwr_pages /\ work' = work /\ phase' = phase
        /\ opened' = opened /\ closing' = closing /\ registered' = registered /\ created' = created
        /\ version' = version /\ scen' = scen /\ crashes' = crashes /\ closes' = closes /\ fails' = fails
    BY DEF IInv, add_page_header, database, bounds
  <1>1. PICK k \in Keys : k = op.key /\ k \in DOMAIN dblwr_pages
    BY <1>0 DEF IInv, OpInv, TypeOK
  <1>2. PICK i \in Slots : i = dblwr_pages[k].page_index /\ i \in Nat
    BY <1>0, <1>1, CountersType
  <1>3. page_cnt' = i + 1 /\ i + 1 \in 0 .. Cardinality(Keys)
    BY <1>1, <1>2, KeysFinite DEF add_page_header, Slots
  <1>4. /\ disk' \in Disks /\ unsynced' \in UnsyncedDisks
        /\ disk'.page_cnt = i + 1 /\ disk'.data = disk.data /\ disk'.slot = disk.slot
    <2> DEFINE d == [disk EXCEPT !.page_cnt = i + 1]
    <2>1. Put(d)
      BY <1>3 DEF add_page_header
    <2>2. d \in Disks /\ d.page_cnt = i + 1 /\ d.data = disk.data /\ d.slot = disk.slot
      BY <1>0, <1>3 DEF TypeOK, Disks
    <2> HIDE DEF d
    <2> QED BY <1>0, <2>1, <2>2, PutFields
  <1>6. /\ op' \in [at : {"idle", "slot", "header", "flush", "next", "page", "invalidate"},
                    key : Keys \cup {NoKey},
                    by : {"none", "insert", "overwrite", "flush_page", "clear_pages"}]
        /\ op'.at \in {"idle", "flush"} /\ op'.by # "clear_pages"
    BY DEF add_page_header, FlushIfFull, Idle, At
  <1>8. ~InLoop /\ ~InLoop' /\ ~Flushing /\ ~Flushing' /\ ~Clearing /\ ~Clearing' /\ DOMAIN work = {}
    BY <1>0, <1>6 DEF InLoop, Flushing, Clearing, IInv, OpInv
  <1>9. TypeOK'
    BY <1>0, <1>3, <1>4, <1>6 DEF TypeOK
  <1>10. OpInv' /\ WorkInv' /\ CleanShutdown' /\ SyncedInv'
    <2>1. phase \in {"running", "closing"}
      BY <1>0 DEF IInv, OpInv
    <2>2. OpInv'
      BY <1>0, <1>1, <1>6, <1>8, <2>1 DEF IInv, OpInv
    <2> QED BY <1>0, <1>6, <1>8, <2>1, <2>2 DEF IInv, WorkInv, CleanShutdown, SyncedInv
  <1>11. FreshInv'
    <2>1. \A l \in Keys : (Pending(l)' <=> Pending(l)) /\ (Dropped(l)' <=> Dropped(l))
      BY <1>0, <1>8 DEF Pending, Dropped
    <2> QED BY <1>0, <1>4, <2>1 DEF IInv, FreshInv, Live
  <1>12. ASSUME NoFailure
         PROVE  /\ phase = "running" /\ SlotInv /\ DenseInv
                /\ i + 1 = Cardinality(DOMAIN dblwr_pages)
                /\ \A x \in DOMAIN dblwr_pages :
                     disk.slot[dblwr_pages[x].page_index] = SlotOf(x, dblwr_pages[x])
    <2>1. phase = "running" /\ SlotInv /\ DenseInv
      BY <1>0, <1>12 DEF NoFailure, IInv, OpInv
    <2>2. i = Cardinality(DOMAIN dblwr_pages) - 1
      BY <1>0, <1>1, <1>2, <1>12, <2>1 DEF DenseInv, Adding
    <2>3. i + 1 = Cardinality(DOMAIN dblwr_pages)
      BY <1>0, <1>2, <2>2, CountersType
    <2>4. \A x \in DOMAIN dblwr_pages :
            disk.slot[dblwr_pages[x].page_index] = SlotOf(x, dblwr_pages[x])
      BY <1>0, <1>8, <1>12, <2>1 DEF SlotInv
    <2> QED BY <2>1, <2>3, <2>4
  <1>13. SlotInv'
    BY <1>0, <1>3, <1>4, <1>6, <1>8, <1>12, CountersType DEF SlotInv, DenseInv, NoFailure
  <1>14. DenseInv'
    BY <1>0, <1>6, <1>12 DEF DenseInv, NoFailure, Adding
  <1>15. DiskInv'
    <2>1. SUFFICES ASSUME NoFailure, ~scen.powerLoss PROVE DiskInv'
      BY <1>0 DEF DiskInv, NoFailure
    <2>2. phase = "running" /\ phase' = "running" /\ DiskInv /\ DenseInv /\ SlotInv /\ Live /\ Live'
      BY <1>0, <1>12, <2>1 DEF IInv, Live
    <2>3. ASSUME NEW j \in Slots, Counted(j)'
          PROVE  /\ disk.slot[j].key \in DOMAIN dblwr_pages
                 /\ dblwr_pages[disk.slot[j].key].page_index = j
      <3>1. j \in 0 .. Cardinality(DOMAIN dblwr_pages) - 1
        <4>1. j < i + 1 /\ j \in Nat
          BY <1>4, <2>3, KeysFinite DEF Counted
        <4>2. i + 1 = Cardinality(DOMAIN dblwr_pages)
          BY <1>12, <2>1
        <4> QED BY <1>2, <4>1, <4>2
      <3>2. PICK x \in DOMAIN dblwr_pages : dblwr_pages[x].page_index = j
        BY <2>1, <2>2, <3>1 DEF DenseInv
      <3>3. disk.slot[j] = SlotOf(x, dblwr_pages[x])
        BY <1>12, <2>1, <3>2
      <3> QED BY <3>2, <3>3 DEF SlotOf
    <2>5. \A l \in Keys : disk'.data[l] # Torn
      BY <1>0, <1>4, <2>1, <2>2 DEF DiskInv
    <2>7. \A x \in DOMAIN dblwr_pages, j \in Slots :
            Counted(j)' /\ disk'.slot[j].key = x => dblwr_pages[x].page_index <= j
      BY <1>4, <2>3, KeysFinite
    <2>9. \A j, m \in Slots :
            Counted(j)' /\ disk'.slot[j].valid /\ Counted(m)' /\ disk'.slot[j].key = disk'.slot[m].key
              => j <= m
      BY <1>4, <2>3, KeysFinite
    <2>10. \A l \in Keys : version'[l] # Torn
      BY <1>0, <2>1, <2>2 DEF DiskInv
    <2> QED BY <1>0, <1>4, <2>2, <2>3, <2>5, <2>7, <2>9, <2>10 DEF DiskInv
  <1> QED BY <1>9, <1>10, <1>11, <1>13, <1>14, <1>15 DEF IInv

LEMMA AddPageFailedInv ==
    ASSUME IInv, add_page_failed
    PROVE  IInv'
  <1>0. /\ TypeOK /\ op.at \in {"slot", "header"} /\ op' = Idle
        /\ fails' = fails + 1 /\ fails < scen.fails
        /\ dblwr_pages' = dblwr_pages /\ disk' = disk /\ unsynced' = unsynced /\ work' = work
        /\ phase' = phase /\ opened' = opened /\ closing' = closing /\ registered' = registered
        /\ created' = created /\ version' = version /\ scen' = scen /\ crashes' = crashes
        /\ closes' = closes
    BY DEF IInv, add_page_failed, database
  <1>1. fails' \in Nat /\ fails' > 0 /\ fails' \in 0 .. scen.fails /\ fails >= 0
    BY <1>0, CountersType
  <1>2. op'.at = "idle" /\ op'.by = "none"
    BY <1>0 DEF Idle, At
  <1>3. page_cnt' \in 0 .. Cardinality(Keys)
    <2>1. PICK k \in DOMAIN dblwr_pages : k = op.key
      BY <1>0 DEF IInv, OpInv
    <2>2. dblwr_pages[k].page_index \in Slots
      BY <1>0, CountersType
    <2>3. dblwr_pages[k].page_index + 1 \in 0 .. Cardinality(Keys)
      BY <2>2, KeysFinite DEF Slots
    <2> QED BY <1>0, <2>1, <2>3 DEF add_page_failed, TypeOK
  <1>8. ~InLoop /\ ~InLoop' /\ ~Flushing /\ ~Flushing' /\ ~Clearing /\ ~Clearing' /\ DOMAIN work = {}
    BY <1>0, <1>2 DEF InLoop, Flushing, Clearing, IInv, OpInv
  <1>9. TypeOK'
    <2>1. op' \in [at : {"idle", "slot", "header", "flush", "next", "page", "invalidate"},
                   key : Keys \cup {NoKey},
                   by : {"none", "insert", "overwrite", "flush_page", "clear_pages"}]
      BY <1>0 DEF Idle, At
    <2> QED BY <1>0, <1>1, <1>3, <2>1 DEF TypeOK
  <1>10. OpInv' /\ WorkInv' /\ CleanShutdown'
    <2>1. phase \in {"running", "closing"}
      BY <1>0 DEF IInv, OpInv
    <2>2. OpInv'
      BY <1>0, <1>1, <1>2, <1>8, <2>1 DEF IInv, OpInv
    <2> QED BY <1>0, <1>2, <1>8, <2>1, <2>2 DEF IInv, WorkInv, CleanShutdown
  <1>11. FreshInv'
    <2>1. \A l \in Keys : (Pending(l)' <=> Pending(l)) /\ (Dropped(l) => Dropped(l)')
      BY <1>0, <1>1, <1>8 DEF Pending, Dropped
    <2> QED BY <1>0, <2>1 DEF IInv, FreshInv, Live
  <1> QED BY <1>1, <1>9, <1>10, <1>11, AfterFailure DEF IInv

-----------------------------------------------------------------------------
(* flush_page and clear_pages keep the invariant. *)

(* flush_page starts: the slots are synced and the loop has every page     *)
(* still to write.                                                         *)
LEMMA FlushPageInv ==
    ASSUME IInv, flush_page
    PROVE  IInv'
  <1>0. /\ TypeOK /\ op.at = "flush" /\ Sync
        /\ work' = dblwr_pages /\ dblwr_pages' = dblwr_pages /\ page_cnt' = page_cnt /\ disk' = disk
        /\ phase' = phase /\ opened' = opened /\ closing' = closing /\ registered' = registered
        /\ created' = created /\ version' = version /\ scen' = scen /\ crashes' = crashes
        /\ closes' = closes /\ fails' = fails
    BY DEF IInv, flush_page, database, bounds
  <1>1. /\ op' = At("next", NoKey, "flush_page")
        /\ op'.at = "next" /\ op'.by = "flush_page"
    BY DEF flush_page, At
  <1>2. /\ unsynced' \in UnsyncedDisks
        /\ scen.powerLoss => \A i \in Slots : unsynced'.slot[i] = {disk.slot[i]}
    <2>1. disk \in Disks
      BY <1>0 DEF TypeOK
    <2> QED BY <1>0, <2>1, AsUnsyncedType DEF Sync, TypeOK
  <1>3. ~InLoop /\ InLoop' /\ ~Flushing /\ Flushing' /\ ~Clearing /\ ~Clearing' /\ DOMAIN work = {}
    BY <1>0, <1>1 DEF InLoop, Flushing, Clearing, IInv, OpInv
  <1>4. TypeOK'
    <2>1. op' \in [at : {"idle", "slot", "header", "flush", "next", "page", "invalidate"},
                   key : Keys \cup {NoKey},
                   by : {"none", "insert", "overwrite", "flush_page", "clear_pages"}]
      BY <1>1 DEF At
    <2> QED BY <1>0, <1>2, <2>1 DEF TypeOK
  <1>5. OpInv' /\ WorkInv' /\ CleanShutdown'
    <2>1. phase \notin {"down", "stopped", "loaded"}
      BY <1>0 DEF IInv, OpInv
    <2> QED BY <1>0, <1>1, <1>3, <2>1 DEF IInv, OpInv, WorkInv, CleanShutdown
  <1>6. FreshInv'
    <2>1. \A l \in Keys : (Pending(l)' <=> Pending(l)) /\ (Dropped(l)' <=> Dropped(l))
      BY <1>0, <1>1, <1>3 DEF Pending, Dropped
    <2> QED BY <1>0, <2>1 DEF IInv, FreshInv, Live
  <1>7. \A x \in Keys : ~Adding(x) /\ ~Adding(x)'
    BY <1>0, <1>1 DEF Adding
  <1>8. SlotInv' /\ DenseInv'
    BY <1>0, <1>1, <1>3, <1>7 DEF IInv, SlotInv, DenseInv, NoFailure, TypeOK
  <1>9. SyncedInv'
    <2>1. SUFFICES ASSUME NoFailure, scen.powerLoss, NEW k \in DOMAIN dblwr_pages
                   PROVE  unsynced'.slot[dblwr_pages[k].page_index] = {SlotOf(k, dblwr_pages[k])}
      BY <1>0 DEF SyncedInv, NoFailure
    <2>2. disk.slot[dblwr_pages[k].page_index] = SlotOf(k, dblwr_pages[k])
      BY <1>0, <1>3, <2>1 DEF IInv, SlotInv
    <2> QED BY <1>0, <1>2, <2>1, <2>2, CountersType
  <1>10. DiskInv'
    <2>1. \A j \in Slots : Counted(j)' <=> Counted(j)
      BY <1>0 DEF Counted
    <2> QED BY <1>0, <2>1 DEF IInv, DiskInv, NoFailure, Live
  <1> QED BY <1>4, <1>5, <1>6, <1>8, <1>9, <1>10 DEF IInv

(* clear_pages takes the pages of the pool out of the buffer. *)
LEMMA ClearPagesInv ==
    ASSUME IInv, clear_pages
    PROVE  IInv'
  <1>0. /\ TypeOK /\ op.at = "idle" /\ phase = "closing" /\ closing # NoPool
        /\ page_cnt' = page_cnt /\ disk' = disk /\ unsynced' = unsynced
        /\ phase' = phase /\ opened' = opened /\ closing' = closing /\ registered' = registered
        /\ created' = created /\ version' = version /\ scen' = scen /\ crashes' = crashes
        /\ closes' = closes /\ fails' = fails
    BY DEF IInv, clear_pages, database, bounds
  <1>1. /\ op' = At("next", NoKey, "clear_pages")
        /\ op'.at = "next" /\ op'.by = "clear_pages"
    BY DEF clear_pages, At
  <1>2. /\ DOMAIN work' = {k \in DOMAIN dblwr_pages : k[1] = closing}
        /\ DOMAIN dblwr_pages' = {k \in DOMAIN dblwr_pages : k[1] # closing}
        /\ \A k \in DOMAIN work' : work'[k] = dblwr_pages[k]
        /\ \A k \in DOMAIN dblwr_pages' : dblwr_pages'[k] = dblwr_pages[k]
        /\ work' \in [DOMAIN work' -> Entry] /\ dblwr_pages' \in [DOMAIN dblwr_pages' -> Entry]
        /\ DOMAIN dblwr_pages \subseteq Keys
    <2>1. /\ work' = Restrict(dblwr_pages, {k \in DOMAIN dblwr_pages : k[1] = closing})
          /\ dblwr_pages' = Restrict(dblwr_pages, {k \in DOMAIN dblwr_pages : k[1] # closing})
      BY DEF clear_pages
    <2> QED BY <1>0, <2>1 DEF Restrict, TypeOK
  <1>3. ~InLoop /\ InLoop' /\ ~Flushing /\ ~Flushing' /\ ~Clearing /\ Clearing' /\ DOMAIN work = {}
    BY <1>0, <1>1 DEF InLoop, Flushing, Clearing, IInv, OpInv
  <1>4. TypeOK'
    <2>1. op' \in [at : {"idle", "slot", "header", "flush", "next", "page", "invalidate"},
                   key : Keys \cup {NoKey},
                   by : {"none", "insert", "overwrite", "flush_page", "clear_pages"}]
      BY <1>1 DEF At
    <2>2. DOMAIN work' \subseteq Keys /\ DOMAIN dblwr_pages' \subseteq Keys
      BY <1>2
    <2> QED BY <1>0, <1>2, <2>1, <2>2 DEF TypeOK
  <1>5. OpInv' /\ WorkInv' /\ CleanShutdown'
    BY <1>0, <1>1, <1>2, <1>3 DEF IInv, OpInv, WorkInv, CleanShutdown
  <1>6. FreshInv'
    <2>1. \A l \in Keys : (Pending(l)' <=> Pending(l)) /\ (Dropped(l) => Dropped(l)')
      BY <1>0, <1>1, <1>2, <1>3 DEF Pending, Dropped
    <2> QED BY <1>0, <1>2, <2>1 DEF IInv, FreshInv, Live
  <1>7. closes' > 0
    BY <1>0 DEF IInv, OpInv
  <1>8. SlotInv' /\ DenseInv' /\ SyncedInv' /\ DiskInv'
    BY <1>7 DEF SlotInv, DenseInv, SyncedInv, DiskInv, NoFailure
  <1> QED BY <1>4, <1>5, <1>6, <1>8 DEF IInv

(* write_page up to the middle of the write, or past an invalid page. *)
LEMMA WritePageInv ==
    ASSUME IInv, NEW k \in Keys, write_page(k)
    PROVE  IInv'
  <1>0. /\ TypeOK /\ op.at = "next" /\ k \in DOMAIN work
        /\ dblwr_pages' = dblwr_pages /\ page_cnt' = page_cnt /\ work' = work /\ phase' = phase
        /\ opened' = opened /\ closing' = closing /\ registered' = registered /\ created' = created
        /\ version' = version /\ scen' = scen /\ crashes' = crashes /\ closes' = closes /\ fails' = fails
    BY DEF IInv, write_page, NextPages, database, bounds
  <1>1. /\ op'.at \in {"page", "invalidate"} /\ op'.key = k /\ op'.by = op.by
        /\ op' \in [at : {"idle", "slot", "header", "flush", "next", "page", "invalidate"},
                    key : Keys \cup {NoKey},
                    by : {"none", "insert", "overwrite", "flush_page", "clear_pages"}]
    BY <1>0 DEF write_page, TypeOK
  <1>2. \/ op'.at = "invalidate" /\ ~work[k].valid /\ op.by = "flush_page"
             /\ disk' = disk /\ unsynced' = unsynced
        \/ op'.at = "page" /\ (op.by = "flush_page" => work[k].valid) /\ PutPage(k, Torn)
    BY <1>0 DEF write_page, TypeOK
  <1>3. /\ disk' \in Disks /\ unsynced' \in UnsyncedDisks
        /\ disk'.page_cnt = disk.page_cnt /\ disk'.slot = disk.slot
        /\ \A l \in Keys : disk'.data[l] =
             IF l = k /\ op'.at = "page" THEN Torn ELSE disk.data[l]
        /\ scen.powerLoss =>
             \A j \in Slots : \/ unsynced'.slot[j] = unsynced.slot[j]
                              \/ unsynced'.slot[j] = unsynced.slot[j] \cup {disk.slot[j]}
    <2>1. CASE op'.at = "invalidate"
      BY <1>0, <1>2, <2>1 DEF TypeOK
    <2>2. CASE op'.at = "page"
      BY <1>0, <1>2, <2>2, PutPageFields
    <2> QED BY <1>1, <2>1, <2>2
  <1>4. InLoop /\ InLoop' /\ (Flushing' <=> Flushing) /\ (Clearing' <=> Clearing)
    BY <1>0, <1>1 DEF InLoop, Flushing, Clearing
  <1>4b. Flushing \/ Clearing
    BY <1>0 DEF IInv, OpInv, Flushing, Clearing, InLoop
  <1>4c. ~(Flushing /\ Clearing)
    BY DEF Flushing, Clearing
  <1>5. TypeOK'
    BY <1>0, <1>1, <1>3 DEF TypeOK
  <1>7. phase \notin {"down", "stopped", "loaded", "undefined"}
    BY <1>0 DEF IInv, OpInv
  <1>9. ASSUME op'.at = "page" PROVE work[k].valid
    BY <1>0, <1>2, <1>9, <1>4b DEF IInv, OpInv, WorkInv, Clearing, Flushing
  <1>6. OpInv' /\ WorkInv'
    BY <1>0, <1>1, <1>4, <1>9 DEF IInv, OpInv, WorkInv
  <1>8. CleanShutdown'
    BY <1>0, <1>7 DEF CleanShutdown
  <1>10. FreshInv'
    <2>1. SUFFICES ASSUME Live, NEW l \in Keys
                   PROVE  Pending(l)' \/ Dropped(l)' \/ disk'.data[l] = version[l]
      BY <1>0 DEF IInv, FreshInv, Live
    <2>2. Pending(l) \/ Dropped(l) \/ disk.data[l] = version[l]
      BY <2>1 DEF IInv, FreshInv
    <2>3. Dropped(l) => Dropped(l)'
      BY <1>0, <1>4 DEF Dropped
    <2>4. CASE l = k /\ op'.at = "page"
      BY <1>0, <1>9, <2>4 DEF Pending
    <2>5. CASE ~(l = k /\ op'.at = "page")
      <3>1. disk'.data[l] = disk.data[l]
        BY <1>3, <2>5
      <3>2. Pending(l) => Pending(l)'
        BY <1>0, <1>1, <1>2, <1>4, <2>5 DEF Pending, Flushing
      <3> QED BY <2>2, <2>3, <3>1, <3>2
    <2> QED BY <2>4, <2>5
  <1>11. \A x \in Keys : ~Adding(x) /\ ~Adding(x)'
    BY <1>0, <1>1 DEF Adding
  <1>12. SlotInv' /\ DenseInv'
    BY <1>0, <1>1, <1>3, <1>4, <1>11 DEF IInv, SlotInv, DenseInv, NoFailure, TypeOK
  <1>13. SyncedInv'
    <2>1. SUFFICES ASSUME NoFailure, scen.powerLoss, Flushing, NEW x \in DOMAIN work
                   PROVE  unsynced'.slot[work[x].page_index] = {SlotOf(x, work[x])}
      BY <1>0, <1>4 DEF SyncedInv, NoFailure
    <2>2. unsynced.slot[work[x].page_index] = {SlotOf(x, work[x])}
      BY <2>1 DEF IInv, SyncedInv
    <2>3. x \in DOMAIN dblwr_pages /\ dblwr_pages[x] = work[x]
      BY <2>1 DEF IInv, WorkInv
    <2>4. disk.slot[work[x].page_index] = SlotOf(x, work[x])
      BY <1>0, <2>1, <2>3 DEF IInv, SlotInv
    <2> QED BY <1>0, <1>3, <2>1, <2>2, <2>4, CountersType
  <1>14. DiskInv'
    <2>1. SUFFICES ASSUME NoFailure, ~scen.powerLoss PROVE DiskInv'
      BY <1>0 DEF DiskInv, NoFailure
    <2>2. DiskInv /\ (Live' <=> Live) /\ Live
      BY <1>0, <1>7, <2>1 DEF IInv, Live, TypeOK, OpInv, NoFailure
    <2>3. \A j \in Slots : (Counted(j)' <=> Counted(j)) /\ disk'.slot[j] = disk.slot[j]
      BY <1>3 DEF Counted
    <2>4. ASSUME op'.at = "page"
          PROVE  \E i \in Slots : Counted(i) /\ disk.slot[i].valid /\ disk.slot[i].key = k
      <3>1. Flushing /\ work[k].valid
        BY <1>4b, <1>9, <2>1, <2>2, <2>4 DEF IInv, OpInv, NoFailure
      <3>2. PICK e \in Entry : e = work[k] /\ k \in DOMAIN dblwr_pages /\ dblwr_pages[k] = e
                                /\ e.page_index \in Slots
        BY <1>0, <3>1, CountersType DEF IInv, WorkInv
      <3>3. e.page_index < disk.page_cnt /\ disk.slot[e.page_index] = SlotOf(k, e)
        BY <1>0, <1>11, <2>1, <3>2 DEF IInv, SlotInv
      <3> QED BY <3>1, <3>2, <3>3, SlotKinds DEF Counted
    <2>5. \A l \in Keys : disk'.data[l] = Torn =>
            \E i \in Slots : Counted(i) /\ disk.slot[i].valid /\ disk.slot[i].key = l
      BY <1>3, <2>1, <2>2, <2>4 DEF DiskInv
    <2>6. phase = "running" => \A l \in Keys : disk'.data[l] = Torn => op'.at = "page" /\ op'.key = l
      BY <1>0, <1>1, <1>3, <2>1, <2>2 DEF DiskInv
    <2> QED BY <1>0, <2>1, <2>2, <2>3, <2>5, <2>6 DEF DiskInv
  <1> QED BY <1>5, <1>6, <1>8, <1>10, <1>12, <1>13, <1>14 DEF IInv

(* The data page is whole. *)
LEMMA WritePageWrittenInv ==
    ASSUME IInv, write_page_written
    PROVE  IInv'
  <1>0. /\ TypeOK /\ op.at = "page"
        /\ dblwr_pages' = dblwr_pages /\ page_cnt' = page_cnt /\ work' = work /\ phase' = phase
        /\ opened' = opened /\ closing' = closing /\ registered' = registered /\ created' = created
        /\ version' = version /\ scen' = scen /\ crashes' = crashes /\ closes' = closes /\ fails' = fails
    BY DEF IInv, write_page_written, database, bounds
  <1>k. PICK k \in Keys : k = op.key /\ k \in DOMAIN work
    BY <1>0 DEF IInv, OpInv, TypeOK
  <1>1. /\ op'.at = "invalidate" /\ op'.key = k /\ op'.by = op.by
        /\ op' \in [at : {"idle", "slot", "header", "flush", "next", "page", "invalidate"},
                    key : Keys \cup {NoKey},
                    by : {"none", "insert", "overwrite", "flush_page", "clear_pages"}]
    BY <1>0, <1>k DEF write_page_written, TypeOK
  <1>v. PICK v \in Versions : v = work[k].page /\ v # Torn
    BY <1>0, <1>k, CountersType DEF Versions, Torn
  <1>3. /\ disk' \in Disks /\ unsynced' \in UnsyncedDisks
        /\ disk'.page_cnt = disk.page_cnt /\ disk'.slot = disk.slot
        /\ \A l \in Keys : disk'.data[l] = IF l = k THEN v ELSE disk.data[l]
        /\ scen.powerLoss =>
             \A j \in Slots : unsynced'.slot[j] = unsynced.slot[j] \cup {disk.slot[j]}
    <2>1. PutPage(k, v)
      BY <1>k, <1>v DEF write_page_written
    <2> QED BY <1>0, <2>1, PutPageFields
  <1>4. InLoop /\ InLoop' /\ (Flushing' <=> Flushing) /\ (Clearing' <=> Clearing)
    BY <1>0, <1>1 DEF InLoop, Flushing, Clearing
  <1>4b. Flushing \/ Clearing
    BY <1>0 DEF IInv, OpInv, Flushing, Clearing, InLoop
  <1>5. TypeOK'
    BY <1>0, <1>1, <1>3 DEF TypeOK
  <1>6. OpInv' /\ WorkInv'
    BY <1>0, <1>k, <1>1, <1>4 DEF IInv, OpInv, WorkInv
  <1>7. phase \notin {"down", "stopped", "loaded"}
    BY <1>0 DEF IInv, OpInv
  <1>8. CleanShutdown'
    BY <1>0, <1>7 DEF CleanShutdown
  <1>10. FreshInv'
    <2>1. SUFFICES ASSUME Live, NEW l \in Keys
                   PROVE  Pending(l)' \/ Dropped(l)' \/ disk'.data[l] = version[l]
      BY <1>0 DEF IInv, FreshInv, Live
    <2>2. /\ Pending(l) \/ Dropped(l) \/ disk.data[l] = version[l]
          /\ l \in DOMAIN work /\ work[l].valid => work[l].page = version[l]
      BY <2>1 DEF IInv, FreshInv
    <2>3. Dropped(l) => Dropped(l)'
      BY <1>0, <1>4 DEF Dropped
    <2>4. CASE l = k
      <3>1. work[k].valid
        BY <1>0, <1>k DEF IInv, WorkInv
      <3> QED BY <1>k, <1>v, <1>3, <2>2, <2>4, <3>1
    <2>5. CASE l # k
      <3>1. disk'.data[l] = disk.data[l]
        BY <1>3, <2>5
      <3>2. Pending(l) => Pending(l)'
        BY <1>0, <1>k, <1>1, <1>4, <2>5 DEF Pending
      <3> QED BY <2>2, <2>3, <3>1, <3>2
    <2> QED BY <2>4, <2>5
  <1>11. \A x \in Keys : ~Adding(x) /\ ~Adding(x)'
    BY <1>0, <1>1 DEF Adding
  <1>12. SlotInv' /\ DenseInv'
    BY <1>0, <1>1, <1>3, <1>4, <1>11 DEF IInv, SlotInv, DenseInv, NoFailure, TypeOK
  <1>13. SyncedInv'
    <2>1. SUFFICES ASSUME NoFailure, scen.powerLoss, Flushing, NEW x \in DOMAIN work
                   PROVE  unsynced'.slot[work[x].page_index] = {SlotOf(x, work[x])}
      BY <1>0, <1>4 DEF SyncedInv, NoFailure
    <2>2. unsynced.slot[work[x].page_index] = {SlotOf(x, work[x])}
      BY <2>1 DEF IInv, SyncedInv
    <2>3. x \in DOMAIN dblwr_pages /\ dblwr_pages[x] = work[x]
      BY <2>1 DEF IInv, WorkInv
    <2>4. disk.slot[work[x].page_index] = SlotOf(x, work[x])
      BY <1>0, <2>1, <2>3 DEF IInv, SlotInv
    <2> QED BY <1>0, <1>3, <2>1, <2>2, <2>4, CountersType
  <1>14. DiskInv'
    <2>1. SUFFICES ASSUME NoFailure, ~scen.powerLoss PROVE DiskInv'
      BY <1>0 DEF DiskInv, NoFailure
    <2>2. DiskInv /\ (Live' <=> Live)
      BY <1>0 DEF IInv, Live
    <2>3. \A j \in Slots : (Counted(j)' <=> Counted(j)) /\ disk'.slot[j] = disk.slot[j]
      BY <1>3 DEF Counted
    <2>5. \A l \in Keys : disk'.data[l] = Torn => disk.data[l] = Torn /\ l # k
      BY <1>3, <1>v
    <2>6. phase = "running" => \A l \in Keys : disk'.data[l] # Torn
      BY <1>0, <1>k, <2>1, <2>2, <2>5 DEF DiskInv
    <2> QED BY <1>0, <2>1, <2>2, <2>3, <2>5, <2>6 DEF DiskInv
  <1> QED BY <1>5, <1>6, <1>8, <1>10, <1>12, <1>13, <1>14 DEF IInv

(* The slot is marked invalid and the loop goes on. *)
LEMMA InvalidateInv ==
    ASSUME IInv, invalidate
    PROVE  IInv'
  <1>0. /\ TypeOK /\ op.at = "invalidate" /\ work' = Done(op.key)
        /\ dblwr_pages' = dblwr_pages /\ page_cnt' = page_cnt /\ phase' = phase
        /\ opened' = opened /\ closing' = closing /\ registered' = registered /\ created' = created
        /\ version' = version /\ scen' = scen /\ crashes' = crashes /\ closes' = closes
    BY DEF IInv, invalidate, database
  <1>k. PICK k \in Keys : k = op.key /\ k \in DOMAIN work
    BY <1>0 DEF IInv, OpInv, TypeOK
  <1>1. /\ op'.at = "next" /\ op'.by = op.by
        /\ op' \in [at : {"idle", "slot", "header", "flush", "next", "page", "invalidate"},
                    key : Keys \cup {NoKey},
                    by : {"none", "insert", "overwrite", "flush_page", "clear_pages"}]
    BY <1>0 DEF invalidate, TypeOK, At
  <1>2. /\ DOMAIN work' = DOMAIN work \ {k} /\ work' \in [DOMAIN work' -> Entry]
        /\ \A l \in DOMAIN work' : work'[l] = work[l]
    BY <1>0, <1>k DEF Done, Restrict, TypeOK
  <1>e. PICK e \in Entry : e = work[k] /\ e.page_index \in Slots
    BY <1>0, <1>k, CountersType
  <1>s. PICK s \in Slot : s = [SlotOf(k, e) EXCEPT !.valid = FALSE] /\ s.key = k /\ ~s.valid
                           /\ s.page # Torn
    <2> DEFINE r == SlotOf(k, e)
    <2>1. r \in [key : Keys, valid : BOOLEAN, page : Versions] /\ r.key = k /\ r.page # Torn
      BY DEF SlotOf, Entry, Versions, Torn
    <2> HIDE DEF r
    <2> DEFINE s == [r EXCEPT !.valid = FALSE]
    <2>2. s \in [key : Keys, valid : BOOLEAN, page : Versions] /\ s.key = r.key /\ ~s.valid
            /\ s.page = r.page
      BY <2>1
    <2> QED BY <2>1, <2>2 DEF Slot, r
  <1>i. PICK i \in Slots : i = e.page_index
    BY <1>e
  <1>3. \/ fails' = fails /\ PutSlot(i, s)
        \/ fails < scen.fails /\ fails' = fails + 1 /\ disk' = disk /\ unsynced' = unsynced
    BY <1>k, <1>e, <1>s, <1>i DEF invalidate
  <1>f. fails' \in Nat /\ fails' \in 0 .. scen.fails /\ (fails > 0 => fails' > 0)
    BY <1>0, <1>3, CountersType DEF TypeOK
  <1>4. /\ disk' \in Disks /\ unsynced' \in UnsyncedDisks
        /\ disk'.page_cnt = disk.page_cnt /\ disk'.data = disk.data
    <2>1. CASE PutSlot(i, s)
      BY <1>0, <2>1, PutSlotFields
    <2>2. CASE disk' = disk /\ unsynced' = unsynced
      BY <1>0, <2>2 DEF TypeOK
    <2> QED BY <1>3, <2>1, <2>2
  <1>5. ASSUME NoFailure'
        PROVE  /\ NoFailure /\ PutSlot(i, s)
               /\ \A j \in Slots : disk'.slot[j] = IF j = i THEN s ELSE disk.slot[j]
               /\ scen.powerLoss =>
                    \A j \in Slots : unsynced'.slot[j] = unsynced.slot[j] \cup {disk'.slot[j]}
    <2>1. NoFailure /\ PutSlot(i, s)
      BY <1>0, <1>3, <1>5, CountersType DEF NoFailure
    <2> QED BY <1>0, <2>1, PutSlotFields
  <1>6. InLoop /\ InLoop' /\ (Flushing' <=> Flushing) /\ (Clearing' <=> Clearing)
    BY <1>0, <1>1 DEF InLoop, Flushing, Clearing
  <1>6b. Flushing \/ Clearing
    BY <1>0 DEF IInv, OpInv, Flushing, Clearing, InLoop
  <1>7. TypeOK'
    <2>1. DOMAIN work' \subseteq Keys
      BY <1>0, <1>2 DEF TypeOK
    <2> QED BY <1>0, <1>1, <1>2, <1>4, <1>f, <2>1 DEF TypeOK
  <1>8. phase \notin {"down", "stopped", "loaded", "undefined"}
    BY <1>0 DEF IInv, OpInv
  <1>9. OpInv' /\ WorkInv' /\ CleanShutdown'
    BY <1>0, <1>1, <1>2, <1>6, <1>8, <1>f DEF IInv, OpInv, WorkInv, CleanShutdown
  <1>10. FreshInv'
    <2>1. SUFFICES ASSUME Live, NEW l \in Keys
                   PROVE  Pending(l)' \/ Dropped(l)' \/ disk'.data[l] = version[l]
      BY <1>0, <1>2 DEF IInv, FreshInv, Live
    <2>2. Pending(l) \/ Dropped(l) \/ disk.data[l] = version[l]
      BY <2>1 DEF IInv, FreshInv
    <2>3. Dropped(l) => Dropped(l)'
      BY <1>0, <1>6, <1>f DEF Dropped
    <2>4. Pending(l) => Pending(l)'
      BY <1>0, <1>k, <1>1, <1>2, <1>6 DEF Pending
    <2> QED BY <1>4, <2>2, <2>3, <2>4
  <1>11. \A x \in Keys : ~Adding(x) /\ ~Adding(x)'
    BY <1>0, <1>1 DEF Adding
  <1>12. ASSUME NoFailure'
         PROVE  /\ Flushing /\ phase \in {"recovering", "running"} /\ k \in DOMAIN dblwr_pages
                /\ dblwr_pages[k] = e
                /\ \A x \in DOMAIN dblwr_pages : x # k => dblwr_pages[x].page_index # i
                /\ DOMAIN dblwr_pages \subseteq Keys
    <2>1. NoFailure
      BY <1>5, <1>12
    <2>2. Flushing /\ phase \in {"recovering", "running"}
      BY <1>0, <1>6b, <1>8, <2>1 DEF IInv, OpInv, NoFailure, TypeOK
    <2>3. k \in DOMAIN dblwr_pages /\ dblwr_pages[k] = e
      BY <1>k, <1>e, <2>2 DEF IInv, WorkInv
    <2>4. \A x \in DOMAIN dblwr_pages : x # k => dblwr_pages[x].page_index # i
      BY <1>i, <2>1, <2>3 DEF IInv, SlotInv
    <2> QED BY <1>0, <2>2, <2>3, <2>4 DEF TypeOK
  <1>13. SlotInv'
    <2>1. SUFFICES ASSUME NoFailure', NEW x \in DOMAIN dblwr_pages
                   PROVE  /\ dblwr_pages[x].page_index < disk.page_cnt
                          /\ IF x \notin DOMAIN work'
                             THEN disk'.slot[dblwr_pages[x].page_index].key = x
                                  /\ ~disk'.slot[dblwr_pages[x].page_index].valid
                             ELSE disk'.slot[dblwr_pages[x].page_index] = SlotOf(x, dblwr_pages[x])
      BY <1>0, <1>1, <1>4, <1>5, <1>6, <1>12 DEF IInv, SlotInv, NoFailure
    <2>2. NoFailure /\ x \in Keys /\ dblwr_pages[x].page_index \in Slots
      BY <1>0, <1>5, <2>1, CountersType DEF TypeOK
    <2>3. /\ dblwr_pages[x].page_index < disk.page_cnt
          /\ IF x \notin DOMAIN work
             THEN disk.slot[dblwr_pages[x].page_index].key = x
                  /\ ~disk.slot[dblwr_pages[x].page_index].valid
             ELSE disk.slot[dblwr_pages[x].page_index] = SlotOf(x, dblwr_pages[x])
      BY <1>0, <1>11, <1>12, <2>1, <2>2 DEF IInv, SlotInv
    <2>4. CASE x = k
      BY <1>2, <1>5, <1>i, <1>s, <1>12, <2>1, <2>3, <2>4
    <2>5. CASE x # k
      <3>1. disk'.slot[dblwr_pages[x].page_index] = disk.slot[dblwr_pages[x].page_index]
        BY <1>5, <1>12, <2>1, <2>2, <2>5
      <3> QED BY <1>2, <2>3, <2>5, <3>1
    <2> QED BY <2>4, <2>5
  <1>14. DenseInv'
    BY <1>0, <1>4, <1>5, <1>11 DEF IInv, DenseInv, NoFailure
  <1>15. SyncedInv'
    <2>1. SUFFICES ASSUME NoFailure', scen.powerLoss, NEW x \in DOMAIN work'
                   PROVE  unsynced'.slot[work[x].page_index] = {SlotOf(x, work[x])}
      BY <1>0, <1>2 DEF SyncedInv
    <2>2. x \in DOMAIN work /\ x # k /\ NoFailure /\ Flushing
      BY <1>2, <1>5, <1>12, <2>1
    <2>3. unsynced.slot[work[x].page_index] = {SlotOf(x, work[x])}
      BY <2>1, <2>2 DEF IInv, SyncedInv
    <2>4. x \in DOMAIN dblwr_pages /\ dblwr_pages[x] = work[x]
      BY <2>2 DEF IInv, WorkInv
    <2>5. disk.slot[work[x].page_index] = SlotOf(x, work[x]) /\ work[x].page_index \in Slots
      BY <1>0, <2>2, <2>4, CountersType DEF IInv, SlotInv
    <2>6. work[x].page_index # i
      BY <1>12, <2>1, <2>2, <2>4
    <2> QED BY <1>5, <2>1, <2>3, <2>5, <2>6
  <1>16. DiskInv'
    <2>1. SUFFICES ASSUME NoFailure', ~scen.powerLoss PROVE DiskInv'
      BY <1>0 DEF DiskInv
    <2>2. NoFailure /\ DiskInv /\ Live /\ Live'
      BY <1>0, <1>5, <1>12, <2>1 DEF IInv, Live
    <2>3. \A j \in Slots : j # i => (Counted(j)' <=> Counted(j)) /\ disk'.slot[j] = disk.slot[j]
      BY <1>4, <1>5, <2>1 DEF Counted
    <2>4. disk'.slot[i].key = k /\ ~disk'.slot[i].valid /\ (Counted(i)' => Counted(i))
            /\ disk.slot[i].key = k
      <3>1. disk.slot[i] = SlotOf(k, e)
        BY <1>0, <1>k, <1>i, <1>12, <2>1, <2>2 DEF IInv, SlotInv
      <3>2. disk.slot[i].key = k /\ disk.slot[i].page # Torn
        BY <3>1, SlotKinds
      <3>3. disk'.slot[i] = s
        BY <1>5, <2>1
      <3> QED BY <1>4, <1>s, <3>2, <3>3 DEF Counted
    <2>5. disk.data[k] # Torn
      <3>1. ~Pending(k) /\ ~Dropped(k)
        BY <1>0, <1>k, <1>12, <2>1, <2>2 DEF Pending, Dropped, NoFailure
      <3>2. disk.data[k] = version[k]
        BY <2>2, <3>1 DEF IInv, FreshInv
      <3> QED BY <2>1, <2>2, <3>2 DEF DiskInv
    <2>6. \A l \in Keys : disk'.data[l] = Torn =>
            \E j \in Slots : Counted(j)' /\ disk'.slot[j].valid /\ disk'.slot[j].key = l
      <3>1. SUFFICES ASSUME NEW l \in Keys, disk.data[l] = Torn
                     PROVE  \E j \in Slots : Counted(j)' /\ disk'.slot[j].valid /\ disk'.slot[j].key = l
        BY <1>4
      <3>2. PICK j \in Slots : Counted(j) /\ disk.slot[j].valid /\ disk.slot[j].key = l
        BY <2>1, <2>2, <3>1 DEF DiskInv
      <3>3. j # i
        BY <2>4, <2>5, <3>1, <3>2
      <3> QED BY <2>3, <3>2, <3>3
    <2>7. \A j \in Slots : Counted(j)' => Counted(j) /\ disk'.slot[j].key = disk.slot[j].key
                                          /\ (disk'.slot[j].valid => disk.slot[j].valid)
      BY <2>3, <2>4
    <2>8. phase = "running" => \A l \in Keys : disk'.data[l] # Torn
      BY <1>0, <1>4, <2>1, <2>2 DEF DiskInv
    <2> QED BY <1>0, <2>1, <2>2, <2>6, <2>7, <2>8 DEF DiskInv
  <1> QED BY <1>7, <1>9, <1>10, <1>13, <1>14, <1>15, <1>16 DEF IInv

(* The end of flush_page: everything it had to write is written, and no    *)
(* valid slot is left.                                                     *)
LEMMA FlushPageDoneInv ==
    ASSUME IInv, flush_page_done
    PROVE  IInv'
  <1>0. /\ TypeOK /\ op.at = "next" /\ op.by = "flush_page" /\ work = <<>>
        /\ dblwr_pages' = <<>> /\ page_cnt' = 0 /\ op' = Idle
        /\ phase' = IF phase = "recovering" THEN "running" ELSE phase
        /\ work' = work /\ disk' = disk /\ unsynced' = unsynced
        /\ opened' = opened /\ closing' = closing /\ registered' = registered /\ created' = created
        /\ version' = version /\ scen' = scen /\ crashes' = crashes /\ closes' = closes /\ fails' = fails
    BY DEF IInv, flush_page_done, bounds
  <1>1. /\ op'.at = "idle" /\ op'.by = "none"
        /\ op' \in [at : {"idle", "slot", "header", "flush", "next", "page", "invalidate"},
                    key : Keys \cup {NoKey},
                    by : {"none", "insert", "overwrite", "flush_page", "clear_pages"}]
    BY <1>0 DEF Idle, At
  <1>2. /\ DOMAIN work = {} /\ DOMAIN dblwr_pages' = {}
        /\ dblwr_pages' \in [DOMAIN dblwr_pages' -> Entry]
        /\ Cardinality(DOMAIN dblwr_pages') = 0
    BY <1>0, NoFunction, FS_EmptySet
  <1>3. /\ phase \in {"recovering", "running", "closing"} /\ phase' \in {"running", "closing"}
        /\ Live /\ Live' /\ (phase' = "closing" <=> phase = "closing")
    BY <1>0 DEF IInv, OpInv, TypeOK, Live
  <1>4. InLoop /\ ~InLoop' /\ Flushing /\ ~Flushing' /\ ~Clearing /\ ~Clearing'
    BY <1>0, <1>1 DEF InLoop, Flushing, Clearing
  <1>5. TypeOK'
    <2>1. page_cnt' \in 0 .. Cardinality(Keys)
      BY <1>0, KeysFinite
    <2> QED BY <1>0, <1>1, <1>2, <1>3, <2>1 DEF TypeOK
  <1>6. OpInv' /\ WorkInv' /\ CleanShutdown' /\ SyncedInv'
    BY <1>0, <1>1, <1>2, <1>3, <1>4 DEF IInv, OpInv, WorkInv, CleanShutdown, SyncedInv
  <1>7. \A l \in Keys : Dropped(l) \/ disk.data[l] = version[l]
    BY <1>2, <1>3, <1>4 DEF IInv, FreshInv, Pending
  <1>8. FreshInv'
    <2>1. \A l \in Keys : Dropped(l) => Dropped(l)'
      BY <1>0, <1>3, <1>4 DEF Dropped
    <2> QED BY <1>0, <1>2, <1>7, <2>1 DEF FreshInv
  <1>9. SlotInv' /\ DenseInv'
    BY <1>0, <1>1, <1>2, CountersType DEF SlotInv, DenseInv, Adding
  <1>10. DiskInv'
    <2>1. SUFFICES ASSUME NoFailure, ~scen.powerLoss PROVE DiskInv'
      BY <1>0 DEF DiskInv, NoFailure
    <2>2. DiskInv /\ SlotInv
      BY DEF IInv
    <2>3. \A j \in Slots : (Counted(j)' <=> Counted(j)) /\ disk'.slot[j] = disk.slot[j]
      BY <1>0 DEF Counted
    <2>4. \A j \in Slots : ~(Counted(j) /\ disk.slot[j].valid)
      <3>1. SUFFICES ASSUME NEW j \in Slots, Counted(j), disk.slot[j].valid PROVE FALSE
        OBVIOUS
      <3>2. PICK x \in DOMAIN dblwr_pages : dblwr_pages[x].page_index = j
        BY <1>3, <2>1, <2>2, <3>1 DEF DiskInv
      <3>3. ~disk.slot[j].valid
        BY <1>0, <1>2, <1>4, <2>1, <2>2, <3>2 DEF SlotInv
      <3> QED BY <3>1, <3>3
    <2>5. \A l \in Keys : disk.data[l] # Torn /\ version[l] # Torn
      <3>1. \A l \in Keys : ~Dropped(l)
        BY <2>1 DEF Dropped, NoFailure
      <3> QED BY <1>3, <1>7, <2>1, <2>2, <3>1 DEF DiskInv
    <2> QED BY <1>0, <1>2, <2>3, <2>4, <2>5 DEF DiskInv
  <1> QED BY <1>5, <1>6, <1>8, <1>9, <1>10 DEF IInv

(* The end of clear_pages and of close_file. *)
LEMMA ClearPagesDoneInv ==
    ASSUME IInv, clear_pages_done
    PROVE  IInv'
  <1>0. /\ TypeOK /\ op.at = "next" /\ op.by = "clear_pages" /\ work = <<>> /\ op' = Idle
        /\ opened' = opened \ {closing} /\ closing' = NoPool
        /\ dblwr_pages' = dblwr_pages /\ page_cnt' = page_cnt /\ work' = work /\ disk' = disk
        /\ unsynced' = unsynced /\ phase' = phase /\ registered' = registered /\ created' = created
        /\ version' = version /\ scen' = scen /\ crashes' = crashes /\ closes' = closes /\ fails' = fails
    BY DEF IInv, clear_pages_done, bounds
  <1>1. /\ op'.at = "idle" /\ op'.by = "none"
        /\ op' \in [at : {"idle", "slot", "header", "flush", "next", "page", "invalidate"},
                    key : Keys \cup {NoKey},
                    by : {"none", "insert", "overwrite", "flush_page", "clear_pages"}]
    BY <1>0 DEF Idle, At
  <1>2. DOMAIN work = {}
    BY <1>0, NoFunction
  <1>3. ~Flushing /\ ~InLoop' /\ ~Flushing' /\ Clearing /\ ~Clearing' /\ phase = "closing" /\ closes > 0
    BY <1>0, <1>1 DEF InLoop, Flushing, Clearing, IInv, OpInv
  <1>4. TypeOK'
    BY <1>0, <1>1 DEF TypeOK
  <1>5. OpInv' /\ WorkInv' /\ CleanShutdown'
    BY <1>0, <1>1, <1>2, <1>3 DEF IInv, OpInv, WorkInv, CleanShutdown
  <1>6. FreshInv'
    <2>1. \A l \in Keys : (Pending(l) => Pending(l)') /\ (Dropped(l) => Dropped(l)')
      BY <1>0, <1>2, <1>3 DEF Pending, Dropped
    <2> QED BY <1>0, <2>1 DEF IInv, FreshInv, Live
  <1>7. SlotInv' /\ DenseInv' /\ SyncedInv' /\ DiskInv'
    BY <1>0, <1>3 DEF SlotInv, DenseInv, SyncedInv, DiskInv, NoFailure
  <1> QED BY <1>4, <1>5, <1>6, <1>7 DEF IInv

(* What is left when the process stops: the disk, and nothing in memory. *)
LEMMA ForgetInv ==
    ASSUME IInv, Forget, phase' = "down", TypeOK',
           scen' = scen, closes' = closes, fails' >= fails, fails' \in Nat,
           ~scen.powerLoss => disk' = disk
    PROVE  IInv'
  <1>0. TypeOK
    BY DEF IInv
  <1>1. /\ op'.at = "idle" /\ op'.by = "none" /\ DOMAIN work' = {} /\ DOMAIN dblwr_pages' = {}
        /\ page_cnt' = 0 /\ closing' = NoPool
    BY NoFunction DEF Forget, Idle, At
  <1>2. ~InLoop' /\ ~Flushing' /\ ~Clearing' /\ ~Live'
    BY <1>1 DEF InLoop, Flushing, Clearing, Live
  <1>3. OpInv' /\ WorkInv' /\ CleanShutdown' /\ FreshInv' /\ SyncedInv' /\ DenseInv'
    BY <1>1, <1>2 DEF OpInv, WorkInv, CleanShutdown, FreshInv, SyncedInv, DenseInv
  <1>4. SlotInv'
    <2>1. disk'.page_cnt \in Nat
      BY KeysFinite DEF TypeOK, Disks
    <2> QED BY <1>1, <2>1 DEF SlotInv
  <1>5. DiskInv'
    <2>1. SUFFICES ASSUME NoFailure', ~scen.powerLoss PROVE DiskInv'
      BY DEF DiskInv
    <2>2. NoFailure /\ disk' = disk
      BY <1>0, <2>1, CountersType DEF NoFailure
    <2>3. \A j \in Slots : Counted(j)' <=> Counted(j)
      BY <2>2 DEF Counted
    <2> QED BY <1>2, <2>1, <2>2, <2>3 DEF IInv, DiskInv
  <1> QED BY <1>3, <1>4, <1>5 DEF IInv

LEMMA ForgetType ==
    ASSUME Forget
    PROVE  /\ DOMAIN dblwr_pages' \subseteq Keys /\ dblwr_pages' \in [DOMAIN dblwr_pages' -> Entry]
           /\ DOMAIN work' \subseteq Keys /\ work' \in [DOMAIN work' -> Entry]
           /\ page_cnt' \in 0 .. Cardinality(Keys)
           /\ op' \in [at : {"idle", "slot", "header", "flush", "next", "page", "invalidate"},
                       key : Keys \cup {NoKey},
                       by : {"none", "insert", "overwrite", "flush_page", "clear_pages"}]
           /\ opened' = {} /\ closing' = NoPool
  BY NoFunction, KeysFinite DEF Forget, Idle, At

LEMMA WritePageFailedInv ==
    ASSUME IInv, write_page_failed
    PROVE  IInv'
  <1>0. /\ TypeOK /\ op.at = "page" /\ fails < scen.fails /\ fails' = fails + 1
        /\ disk' = disk /\ unsynced' = unsynced /\ version' = version
        /\ scen' = scen /\ crashes' = crashes /\ closes' = closes
    BY DEF IInv, write_page_failed
  <1>1. fails' \in Nat /\ fails' > 0 /\ fails' >= fails /\ fails' \in 0 .. scen.fails
    BY <1>0, CountersType
  <1>2. phase \in {"recovering", "running", "closing"} /\ InLoop /\ Live
    BY <1>0 DEF IInv, OpInv, TypeOK, InLoop, Live
  <1>3. CASE /\ op.by = "clear_pages" /\ work' = <<>> /\ op' = At("next", NoKey, "clear_pages")
             /\ UNCHANGED <<dblwr_pages, page_cnt, database>>
    <2>0. /\ dblwr_pages' = dblwr_pages /\ page_cnt' = page_cnt /\ phase' = phase /\ opened' = opened
          /\ closing' = closing /\ registered' = registered /\ created' = created
      BY <1>3 DEF database
    <2>1. /\ op'.at = "next" /\ op'.by = "clear_pages" /\ DOMAIN work' = {}
          /\ work' \in [DOMAIN work' -> Entry]
          /\ op' \in [at : {"idle", "slot", "header", "flush", "next", "page", "invalidate"},
                      key : Keys \cup {NoKey},
                      by : {"none", "insert", "overwrite", "flush_page", "clear_pages"}]
      BY <1>3, NoFunction DEF At
    <2>2. Clearing /\ Clearing' /\ InLoop' /\ ~Flushing /\ ~Flushing' /\ phase = "closing"
      BY <1>3, <2>1 DEF Clearing, InLoop, Flushing, IInv, OpInv
    <2>3. TypeOK'
      BY <1>0, <1>1, <2>0, <2>1 DEF TypeOK
    <2>4. OpInv' /\ WorkInv' /\ CleanShutdown'
      BY <1>0, <1>1, <2>0, <2>1, <2>2 DEF IInv, OpInv, WorkInv, CleanShutdown
    <2>5. FreshInv'
      <3>1. SUFFICES ASSUME NEW l \in Keys
                     PROVE  Pending(l)' \/ Dropped(l)' \/ disk.data[l] = version[l]
        BY <1>0, <1>2, <2>0, <2>1 DEF IInv, FreshInv
      <3>2. CASE l \in DOMAIN work
        <4>1. l[1] = closing
          BY <2>2, <3>2 DEF IInv, WorkInv
        <4> QED BY <1>1, <2>0, <2>2, <4>1 DEF Dropped
      <3>3. CASE l \notin DOMAIN work
        <4>1. (Pending(l) => Pending(l)') /\ (Dropped(l) => Dropped(l)')
          BY <1>1, <2>0, <2>1, <2>2, <3>3 DEF Pending, Dropped
        <4> QED BY <1>2, <4>1 DEF IInv, FreshInv
      <3> QED BY <3>2, <3>3
    <2> QED BY <1>1, <2>3, <2>4, <2>5, AfterFailure DEF IInv
  <1>4. CASE /\ op.by = "flush_page" /\ phase # "recovering" /\ work' = <<>> /\ op' = Idle
             /\ phase' = IF DOMAIN work = DOMAIN dblwr_pages THEN phase ELSE "undefined"
             /\ UNCHANGED <<dblwr_pages, page_cnt, opened, closing, registered, created>>
    <2>1. /\ op'.at = "idle" /\ op'.by = "none" /\ DOMAIN work' = {}
          /\ work' \in [DOMAIN work' -> Entry]
          /\ op' \in [at : {"idle", "slot", "header", "flush", "next", "page", "invalidate"},
                      key : Keys \cup {NoKey},
                      by : {"none", "insert", "overwrite", "flush_page", "clear_pages"}]
      BY <1>4, NoFunction DEF Idle, At
    <2>2. ~Clearing /\ ~Clearing' /\ ~InLoop' /\ Flushing /\ ~Flushing'
      BY <1>2, <1>4, <2>1 DEF Clearing, InLoop, Flushing
    <2>3. TypeOK'
      BY <1>0, <1>1, <1>4, <2>1 DEF TypeOK
    <2>4. OpInv' /\ WorkInv' /\ CleanShutdown'
      BY <1>0, <1>1, <1>2, <1>4, <2>1, <2>2 DEF IInv, OpInv, WorkInv, CleanShutdown
    <2>5. FreshInv'
      <3>1. SUFFICES ASSUME DOMAIN work = DOMAIN dblwr_pages, phase' = phase, NEW l \in Keys
                     PROVE  Pending(l)' \/ Dropped(l)' \/ disk.data[l] = version[l]
        BY <1>0, <1>2, <1>4, <2>1 DEF IInv, FreshInv, Live
      <3>2. Pending(l) => Pending(l)'
        BY <1>4, <2>1, <2>2, <3>1 DEF Pending, IInv, WorkInv
      <3>3. Dropped(l) => Dropped(l)'
        BY <1>1, <1>4, <2>2, <3>1 DEF Dropped
      <3> QED BY <1>2, <3>2, <3>3 DEF IInv, FreshInv
    <2> QED BY <1>1, <2>3, <2>4, <2>5, AfterFailure DEF IInv
  <1>5. CASE /\ op.by = "flush_page" /\ phase = "recovering" /\ Forget /\ phase' = "down"
             /\ UNCHANGED <<registered, created>>
    <2>1. TypeOK'
      BY <1>0, <1>1, <1>5, ForgetType DEF TypeOK
    <2> QED BY <1>0, <1>1, <1>5, <2>1, ForgetInv
  <1> QED BY <1>3, <1>4, <1>5 DEF write_page_failed

-----------------------------------------------------------------------------
(* The database keeps the invariant. *)

(* open_file takes what load_pages finds. *)
LEMMA OpenFileInv ==
    ASSUME IInv, open_file
    PROVE  IInv'
  <1>0. /\ TypeOK /\ phase \in {"down", "stopped"} /\ phase' = "loaded"
        /\ dblwr_pages' = load_pages /\ page_cnt' = disk.page_cnt /\ opened' = registered
        /\ version' = [k \in Keys |-> Recovered(k)]
        /\ work' = work /\ op' = op /\ disk' = disk /\ unsynced' = unsynced /\ closing' = closing
        /\ registered' = registered /\ created' = created
        /\ scen' = scen /\ crashes' = crashes /\ closes' = closes /\ fails' = fails
    BY DEF IInv, open_file, bounds
  <1>1. op.at = "idle" /\ DOMAIN work = {} /\ ~InLoop /\ ~InLoop' /\ ~Flushing' /\ ~Clearing' /\ ~Clearing
    BY <1>0 DEF IInv, OpInv, InLoop, Flushing, Clearing
  <1>2. closing = NoPool
    BY <1>0, <1>1 DEF IInv, OpInv
  <1>3. TypeOK'
    <2>1. \A k \in Keys : Recovered(k) \in Versions \cup {Torn}
      <3>1. SUFFICES ASSUME NEW k \in Keys PROVE Recovered(k) \in Versions \cup {Torn}
        OBVIOUS
      <3>2. disk.data[k] \in Versions \cup {Torn}
        BY <1>0 DEF TypeOK, Disks
      <3>3. k \in DOMAIN load_pages => load_pages[k].page \in Versions
        BY <1>0, LoadPages DEF Entry
      <3> QED BY <3>2, <3>3 DEF Recovered
    <2>2. disk.page_cnt \in 0 .. Cardinality(Keys)
      BY <1>0 DEF TypeOK, Disks
    <2>3. /\ DOMAIN dblwr_pages' \subseteq Keys /\ dblwr_pages' \in [DOMAIN dblwr_pages' -> Entry]
      BY <1>0, LoadPages
    <2> QED BY <1>0, <2>1, <2>2, <2>3 DEF TypeOK
  <1>4. OpInv' /\ WorkInv' /\ CleanShutdown' /\ SyncedInv' /\ DenseInv'
    BY <1>0, <1>1, <1>2 DEF IInv, OpInv, WorkInv, CleanShutdown, SyncedInv, DenseInv
  <1>5. FreshInv'
    <2>1. SUFFICES ASSUME NEW k \in Keys
                   PROVE  /\ k \in DOMAIN load_pages /\ load_pages[k].valid
                               => load_pages[k].page = Recovered(k)
                          /\ Pending(k)' \/ disk.data[k] = Recovered(k)
      BY <1>0, <1>1 DEF FreshInv
    <2> QED BY <1>0, <1>1 DEF Pending, Recovered
  <1>6. SlotInv'
    <2>1. SUFFICES ASSUME NEW k \in DOMAIN load_pages
                   PROVE  /\ load_pages[k].page_index < disk.page_cnt
                          /\ disk.slot[load_pages[k].page_index] = SlotOf(k, load_pages[k])
                          /\ \A l \in DOMAIN load_pages :
                               load_pages[k].page_index = load_pages[l].page_index => k = l
      BY <1>0, <1>1, CountersType DEF SlotInv
    <2>2. load_pages[k].page_index < disk.page_cnt
            /\ disk.slot[load_pages[k].page_index] = SlotOf(k, load_pages[k])
      BY <1>0, <2>1, LoadPages DEF Counted
    <2>3. ASSUME NEW l \in DOMAIN load_pages, load_pages[k].page_index = load_pages[l].page_index
          PROVE  k = l
      <3>1. SlotOf(k, load_pages[k]) = SlotOf(l, load_pages[l])
        BY <1>0, <2>2, <2>3, LoadPages
      <3>2. SlotOf(k, load_pages[k]).key = k /\ SlotOf(l, load_pages[l]).key = l
        BY DEF SlotOf
      <3> QED BY <3>1, <3>2
    <2> QED BY <2>2, <2>3
  <1>7. DiskInv'
    <2>1. SUFFICES ASSUME NoFailure, ~scen.powerLoss PROVE DiskInv'
      BY <1>0 DEF DiskInv, NoFailure
    <2>2. DiskInv /\ Repairable
      BY RepairableHolds DEF IInv
    <2>3. \A j \in Slots : (Counted(j)' <=> Counted(j)) /\ disk'.slot[j] = disk.slot[j]
      BY <1>0 DEF Counted
    <2>4. \A k \in Keys : version'[k] # Torn
      BY <1>0, <2>1, <2>2 DEF Repairable, WritesHold, NoFailure
    <2>5. ASSUME NEW i \in Slots, Counted(i), disk.slot[i].valid
          PROVE  /\ disk.slot[i].key \in DOMAIN load_pages
                 /\ load_pages[disk.slot[i].key].page_index = i
      <3>1. PICK k : k = disk.slot[i].key /\ k \in DOMAIN load_pages
        BY <1>0, <2>5, LoadPages
      <3>2. PICK j \in Slots : j = load_pages[k].page_index
        BY <1>0, <3>1, LoadPages
      <3>3. Counted(j) /\ disk.slot[j] = SlotOf(k, load_pages[k]) /\ j <= i
        BY <1>0, <2>5, <3>1, <3>2, LoadPages
      <3>4. disk.slot[j].key = k
        BY <3>3 DEF SlotOf
      <3>5. i <= j
        BY <2>1, <2>2, <2>5, <3>1, <3>3, <3>4 DEF DiskInv
      <3>6. i = j
        BY <3>3, <3>5, KeysFinite
      <3> QED BY <3>1, <3>2, <3>6
    <2>6. \A k \in DOMAIN load_pages : \A j \in Slots :
            Counted(j) /\ disk.slot[j].key = k => load_pages[k].page_index <= j
      BY <1>0, LoadPages
    <2> QED BY <1>0, <2>1, <2>2, <2>3, <2>4, <2>5, <2>6 DEF DiskInv
  <1> QED BY <1>3, <1>4, <1>5, <1>6, <1>7 DEF IInv

(* recover and sync call flush_page. *)
LEMMA CallFlushInv ==
    ASSUME IInv, recover \/ sync
    PROVE  IInv'
  <1>0. /\ TypeOK /\ op.at = "idle" /\ op' = At("flush", NoKey, "flush_page")
        /\ \/ phase = "loaded" /\ phase' = "recovering"
           \/ phase = "running" /\ phase' = "running"
        /\ dblwr_pages' = dblwr_pages /\ page_cnt' = page_cnt /\ work' = work /\ disk' = disk
        /\ unsynced' = unsynced /\ opened' = opened /\ closing' = closing
        /\ registered' = registered /\ created' = created /\ version' = version
        /\ scen' = scen /\ crashes' = crashes /\ closes' = closes /\ fails' = fails
    BY DEF IInv, OpInv, recover, sync, bounds, database
  <1>1. /\ op'.at = "flush" /\ op'.by = "flush_page"
        /\ op' \in [at : {"idle", "slot", "header", "flush", "next", "page", "invalidate"},
                    key : Keys \cup {NoKey},
                    by : {"none", "insert", "overwrite", "flush_page", "clear_pages"}]
    BY <1>0 DEF At
  <1>2. ~InLoop /\ ~InLoop' /\ ~Flushing /\ ~Flushing' /\ ~Clearing /\ ~Clearing' /\ DOMAIN work = {}
    BY <1>0, <1>1 DEF InLoop, Flushing, Clearing, IInv, OpInv
  <1>3. TypeOK'
    BY <1>0, <1>1 DEF TypeOK
  <1>4. OpInv' /\ WorkInv' /\ CleanShutdown' /\ SyncedInv'
    BY <1>0, <1>1, <1>2 DEF IInv, OpInv, WorkInv, CleanShutdown, SyncedInv
  <1>5. FreshInv'
    <2>1. \A l \in Keys : (Pending(l)' <=> Pending(l)) /\ (Dropped(l) => Dropped(l)')
      BY <1>0, <1>1, <1>2 DEF Pending, Dropped
    <2> QED BY <1>0, <2>1 DEF IInv, FreshInv, Live
  <1>6. \A x : ~Adding(x) /\ ~Adding(x)'
    BY <1>0, <1>1 DEF Adding
  <1>7. SlotInv' /\ DenseInv'
    BY <1>0, <1>1, <1>2, <1>6 DEF IInv, SlotInv, DenseInv, NoFailure
  <1>8. DiskInv'
    <2>1. (\A j \in Slots : Counted(j)' <=> Counted(j)) /\ (Live' <=> Live)
      BY <1>0 DEF Counted, Live
    <2> QED BY <1>0, <1>1, <2>1 DEF IInv, DiskInv, NoFailure
  <1> QED BY <1>3, <1>4, <1>5, <1>7, <1>8 DEF IInv

(* Index files, the start of a shutdown and of close_file change nothing   *)
(* but the pools and the phase.                                            *)
LEMMA PoolsInv ==
    ASSUME IInv, TypeOK', op.at = "idle",
           dblwr_pages' = dblwr_pages, page_cnt' = page_cnt, work' = work, op' = op, disk' = disk,
           unsynced' = unsynced, version' = version, scen' = scen, fails' = fails,
           opened \subseteq opened', closing' # NoPool => closing' \in opened',
           closing' = closing \/ phase = "closing",
           \/ phase = "running" /\ phase' = "running" /\ closes' = closes
           \/ phase = "running" /\ phase' = "closing" /\ closes' > 0 /\ opened' = opened
           \/ phase = "closing" /\ phase' = "closing" /\ closes' = closes /\ opened' = opened
    PROVE  IInv'
  <1>1. ~InLoop /\ ~InLoop' /\ ~Flushing /\ ~Flushing' /\ ~Clearing /\ ~Clearing' /\ DOMAIN work = {}
    BY DEF InLoop, Flushing, Clearing, IInv, OpInv
  <1>2. OpInv' /\ WorkInv' /\ CleanShutdown' /\ SyncedInv'
    BY <1>1 DEF IInv, OpInv, WorkInv, CleanShutdown, SyncedInv
  <1>3. FreshInv'
    <2>1. \A l \in Keys : (Pending(l)' <=> Pending(l)) /\ (Dropped(l) => Dropped(l)')
      BY <1>1 DEF Pending, Dropped
    <2> QED BY <2>1 DEF IInv, FreshInv, Live
  <1>4. \A x : ~Adding(x) /\ ~Adding(x)'
    BY DEF Adding
  <1>5. NoFailure' => NoFailure /\ phase' = phase
    BY DEF NoFailure, IInv, OpInv
  <1>6. SlotInv' /\ DenseInv'
    BY <1>1, <1>4, <1>5 DEF IInv, SlotInv, DenseInv
  <1>7. DiskInv'
    <2>1. (\A j \in Slots : Counted(j)' <=> Counted(j)) /\ (Live' <=> Live)
      BY DEF Counted, Live
    <2> QED BY <1>5, <2>1 DEF IInv, DiskInv
  <1> QED BY <1>2, <1>3, <1>6, <1>7 DEF IInv

(* The end of a shutdown: every page is in its file. *)
LEMMA StopInv ==
    ASSUME IInv, stop
    PROVE  IInv'
  <1>0. /\ TypeOK /\ phase = "closing" /\ op.at = "idle" /\ opened = {} /\ Forget /\ phase' = "stopped"
        /\ disk' = disk /\ unsynced' = unsynced /\ registered' = registered /\ created' = created
        /\ version' = version /\ scen' = scen /\ crashes' = crashes /\ closes' = closes /\ fails' = fails
    BY DEF IInv, stop, bounds
  <1>1. /\ op'.at = "idle" /\ op'.by = "none" /\ DOMAIN work' = {} /\ DOMAIN dblwr_pages' = {}
        /\ page_cnt' = 0 /\ closing' = NoPool /\ closes' > 0
    BY <1>0, NoFunction DEF Forget, Idle, At, IInv, OpInv
  <1>2. ~InLoop' /\ ~Flushing' /\ ~Clearing' /\ ~Live' /\ ~Clearing /\ DOMAIN work = {} /\ Live
    BY <1>0, <1>1 DEF InLoop, Flushing, Clearing, Live, IInv, OpInv
  <1>3. TypeOK'
    BY <1>0, ForgetType DEF TypeOK
  <1>4. OpInv' /\ WorkInv' /\ FreshInv'
    BY <1>0, <1>1, <1>2 DEF OpInv, WorkInv, FreshInv
  <1>5. CleanShutdown'
    <2>1. SUFFICES ASSUME fails = 0, NEW k \in Keys PROVE disk.data[k] = version[k]
      BY <1>0 DEF CleanShutdown
    <2>2. DOMAIN dblwr_pages = {}
      BY <1>0 DEF IInv, WorkInv
    <2>3. ~Pending(k) /\ ~Dropped(k)
      BY <1>2, <2>1, <2>2 DEF Pending, Dropped
    <2> QED BY <1>2, <2>3 DEF IInv, FreshInv
  <1>6. SlotInv' /\ DenseInv' /\ SyncedInv' /\ DiskInv'
    BY <1>1 DEF SlotInv, DenseInv, SyncedInv, DiskInv, NoFailure
  <1> QED BY <1>3, <1>4, <1>5, <1>6 DEF IInv

LEMMA CrashInv ==
    ASSUME IInv, crash
    PROVE  IInv'
  <1>0. /\ TypeOK /\ crashes < scen.crashes /\ crashes' = crashes + 1
        /\ disk' \in AfterCrash /\ unsynced' = AsUnsynced(disk') /\ Forget /\ phase' = "down"
        /\ registered' = registered /\ created' = created /\ version' = version /\ scen' = scen
        /\ closes' = closes /\ fails' = fails
    BY DEF IInv, crash
  <1>1. disk' \in Disks /\ unsynced' \in UnsyncedDisks /\ (~scen.powerLoss => disk' = disk)
    BY <1>0, CrashDisk, AsUnsyncedType
  <1>2. crashes' \in 0 .. scen.crashes /\ fails \in Nat /\ fails' >= fails
    BY <1>0, CountersType
  <1>3. TypeOK'
    BY <1>0, <1>1, <1>2, ForgetType DEF TypeOK
  <1> QED BY <1>0, <1>1, <1>2, <1>3, ForgetInv

LEMMA NextIInv ==
    ASSUME IInv, [Next]_vars
    PROVE  IInv'
  <1>0. TypeOK
    BY DEF IInv
  <1>1. ASSUME NEW k \in Keys, add_page(k) \/ add_page_unwritten(k) \/ write_page(k) PROVE IInv'
    BY <1>1, AddPageInv, AddPageUnwrittenInv, WritePageInv
  <1>2. ASSUME add_page_written \/ add_page_header \/ add_page_failed PROVE IInv'
    BY <1>2, AddPageWrittenInv, AddPageHeaderInv, AddPageFailedInv
  <1>3. ASSUME flush_page \/ flush_page_done \/ clear_pages \/ clear_pages_done PROVE IInv'
    BY <1>3, FlushPageInv, FlushPageDoneInv, ClearPagesInv, ClearPagesDoneInv
  <1>4. ASSUME write_page_written \/ write_page_failed \/ invalidate PROVE IInv'
    BY <1>4, WritePageWrittenInv, WritePageFailedInv, InvalidateInv
  <1>5. ASSUME write_page_assert PROVE IInv'
    <2>1. /\ Forget /\ phase' = "down" /\ disk' = disk /\ unsynced' = unsynced
          /\ registered' = registered /\ created' = created /\ version' = version
          /\ scen' = scen /\ crashes' = crashes /\ closes' = closes /\ fails' = fails
      BY <1>5 DEF write_page_assert, bounds
    <2>2. TypeOK' /\ fails \in Nat /\ fails' >= fails
      BY <1>0, <2>1, ForgetType, CountersType DEF TypeOK
    <2> QED BY <2>1, <2>2, ForgetInv
  <1>6. ASSUME open_file \/ recover \/ sync PROVE IInv'
    BY <1>6, OpenFileInv, CallFlushInv
  <1>7. ASSUME shutdown PROVE IInv'
    <2>1. /\ phase = "running" /\ op.at = "idle" /\ closes < scen.closes /\ closes' = closes + 1
          /\ phase' = "closing"
          /\ dblwr_pages' = dblwr_pages /\ page_cnt' = page_cnt /\ work' = work /\ op' = op
          /\ disk' = disk /\ unsynced' = unsynced /\ opened' = opened /\ closing' = closing
          /\ registered' = registered /\ created' = created /\ version' = version
          /\ scen' = scen /\ crashes' = crashes /\ fails' = fails
      BY <1>7 DEF shutdown, memory
    <2>2. TypeOK' /\ closes' > 0
      BY <1>0, <2>1, CountersType DEF TypeOK
    <2>3. closing # NoPool => closing \in opened
      BY DEF IInv, WorkInv
    <2> QED BY <2>1, <2>2, <2>3, PoolsInv
  <1>8. ASSUME stop \/ crash PROVE IInv'
    BY <1>8, StopInv, CrashInv
  <1>9. ASSUME NEW b \in Pools, create_index(b) \/ create_index_meta(b) \/ close_file(b) PROVE IInv'
    <2>1. /\ op.at = "idle" /\ phase' = phase
          /\ dblwr_pages' = dblwr_pages /\ page_cnt' = page_cnt /\ work' = work /\ op' = op
          /\ disk' = disk /\ unsynced' = unsynced /\ version' = version
          /\ scen' = scen /\ crashes' = crashes /\ closes' = closes /\ fails' = fails
          /\ opened \subseteq opened'
      BY <1>9 DEF create_index, create_index_meta, close_file, memory, bounds
    <2>2. \/ phase = "running" /\ closing' = closing
          \/ phase = "closing" /\ opened' = opened /\ closing' = b /\ b \in opened
      BY <1>9 DEF create_index, create_index_meta, close_file
    <2>3. TypeOK'
      BY <1>0, <1>9, <2>1 DEF create_index, create_index_meta, close_file, TypeOK
    <2>4. closing' # NoPool => closing' \in opened'
      BY <2>1, <2>2 DEF IInv, WorkInv
    <2> QED BY <2>1, <2>2, <2>3, <2>4, PoolsInv
  <1>10. ASSUME UNCHANGED vars PROVE IInv'
    BY <1>10 DEF vars, memory, database, bounds, IInv, TypeOK, OpInv, WorkInv, FreshInv, CleanShutdown,
                 SlotInv, DenseInv, SyncedInv, DiskInv, InLoop, Flushing, Clearing, Adding, Pending,
                 Dropped, Live, NoFailure, Counted
  <1> QED BY <1>1, <1>2, <1>3, <1>4, <1>5, <1>6, <1>7, <1>8, <1>9, <1>10 DEF Next, undefined

-----------------------------------------------------------------------------
(* The theorems. *)

(* The invariant holds in every reachable state: whatever the operation,   *)
(* crash, failing write, shutdown or restart, and however many pages,      *)
(* pools and slots there are.                                              *)
THEOREM Invariance == Spec => []IInv
  <1>1. Init => IInv
    BY InitIInv
  <1>2. IInv /\ [Next]_vars => IInv'
    BY NextIInv
  <1> QED BY <1>1, <1>2, PTL DEF Spec

(* Whenever the process stops, load_pages and recover leave no page half   *)
(* written and lose nothing that was flushed; and flush_page writes a data *)
(* page only when its copy cannot be lost even by a power loss.            *)
THEOREM CrashesAreSafe == Spec => []CrashSafe
  <1>1. IInv => CrashSafe
    BY RepairableHolds, CopyLatestHolds, CopyBeforePageHolds DEF CrashSafe, IInv
  <1> QED BY <1>1, Invariance, PTL

(* A page that is read back has the contents it was last flushed with,     *)
(* whether the buffer or the data file serves it, also after a write that  *)
(* failed.                                                                 *)
THEOREM ReadsAreLatest == Spec => []ReadLatest
  <1>1. IInv => ReadLatest
    BY ReadLatestHolds
  <1> QED BY <1>1, Invariance, PTL

(* A shutdown without write errors leaves the last contents of every page  *)
(* in its data file.                                                       *)
THEOREM ShutdownIsClean == Spec => []CleanShutdown
  <1>1. IInv => CleanShutdown
    BY DEF IInv
  <1> QED BY <1>1, Invariance, PTL

=============================================================================
