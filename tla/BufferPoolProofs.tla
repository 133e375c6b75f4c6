-------------------------- MODULE BufferPoolProofs --------------------------
(***************************************************************************)
(* Proofs about BufferPool for every set of threads, of files and of       *)
(* frames, every file size and every bound.                                *)
(*                                                                         *)
(* The properties need each other: that a pinned page is not evicted rests *)
(* on every use of a frame being counted in its pins, that the pins are    *)
(* counted rests on a frame belonging to one page, and that no change is   *)
(* lost rests on both and on who can hold which lock.  IInv has a part for *)
(* each of these.                                                          *)
(***************************************************************************)
EXTENDS BufferPool, FiniteSetTheorems, WellFoundedInduction, TLAPS

(* The steps at which a thread has a lock of its own: the one of its pool, *)
(* or the manager's when it opens a file.                                  *)
LockSteps == {"alloc", "purge", "manager", "foreign", "evict", "load", "extend", "discard", "free",
              "find", "drop"}
PurgeSteps == {"manager", "foreign", "evict"}
PageSteps == {"load", "extend", "discard", "free", "drop"}
WriteSteps == {"evict", "extend", "discard"}
LoadSteps == {"load", "discard", "free"}

LockInv ==
    \A t \in Threads :
        /\ frame_lock = t <=> pc[t] \in PurgeSteps
        /\ \A b \in Pools :
              /\ pc[t] \in LockSteps /\ mode[t] # "open" /\ key[t][1] = b => lock[b] = t
              /\ lock[b] = t => pc[t] \in LockSteps
        /\ mode[t] = "open" /\ pc[t] \in LockSteps => manager_lock = t
        /\ dblwr_lock = t => pc[t] \in WriteSteps

(* Who writes a page of another pool has the locks of the manager and of   *)
(* that pool, and only such a thread or one that opens a file has the      *)
(* former.                                                                 *)
ForeignOK(t) ==
    /\ pc[t] \in {"manager", "foreign"} => Foreign(t)
    /\ pc[t] = "foreign" => manager_lock = t /\ mode[t] # "open"
    /\ pc[t] = "evict" /\ Foreign(t) =>
          manager_lock = t /\ mode[t] # "open" /\ lock[KeyOf(frame[t])[1]] = t
    /\ manager_lock = t =>
          \/ pc[t] \in LockSteps /\ mode[t] = "open"
          \/ pc[t] \in {"foreign", "evict"} /\ Foreign(t)

ForeignInv == \A t \in Threads : ForeignOK(t)

(* What a thread is about: an allocated page, the header of a file that is *)
(* not open yet, or the page behind the end of the file, which it becomes  *)
(* part of before it is extended; not one it holds.                        *)
KeyInv ==
    \A t \in Threads : pc[t] # "idle" =>
        /\ mode[t] = "get" => Allocated(key[t])
        /\ mode[t] = "open" =>
              /\ pc[t] \in LockSteps \ {"find", "drop"}
              /\ key[t][2] = 0 /\ key[t][1] \notin opened
        /\ mode[t] = "append" =>
              /\ pc[t] \in LockSteps \ {"discard", "free", "find", "drop"}
              /\ IF pc[t] = "extend" THEN Allocated(key[t])
                 ELSE key[t][2] = page_count[key[t][1]] + 1
        /\ pc[t] = "extend" => mode[t] = "append"
        /\ \A h \in held[t] : h[1] # key[t]

(* Nobody else is about a page that is disposed of. *)
DropInv ==
    \A t, u \in Threads : pc[t] \in {"find", "drop"} =>
        /\ u # t /\ pc[u] # "idle" => key[u] # key[t]
        /\ \A h \in held[u] : h[1] # key[t]

(* A frame belongs to one page.  The one a thread loads, writes, frees or  *)
(* drops is that of its page, and the one it purges is in nobody else's    *)
(* hands.                                                                  *)
FrameInv ==
    /\ \A k, l \in Keys : k # l /\ frames[k] # NoFrame => frames[k] # frames[l]
    /\ \A t \in Threads : pc[t] \in PageSteps =>
          frame[t] \in Frames /\ frames[key[t]] = frame[t]
    /\ \A t \in Threads : pc[t] \in PurgeSteps => frame[t] \in Used
    /\ \A t \in Threads, f \in Frames : pc[t] \in PurgeSteps /\ frame[t] = f =>
          Holders(f) = {} /\ Headers(f) = {} /\ Workers(f) = {t}

(* Held pages are allocated and in the frames their holders were given,    *)
(* unless one was found while it was freed; a page found before it was     *)
(* loaded is spoiled.                                                      *)
HeldInv ==
    /\ \A t \in Threads : \A h \in held[t] : Allocated(h[1])
    /\ spoiled = Keys \/ \A t \in Threads : \A h \in held[t] : frames[h[1]] = h[2]
    /\ \A t, u \in Threads : \A h \in held[u] : h[1] = key[t] =>
          /\ pc[t] = "load" => key[t] \in spoiled
          /\ pc[t] \in {"discard", "free"} => spoiled = Keys

PinInv ==
    \A f \in Frames :
        /\ IsFiniteSet(Holders(f)) /\ IsFiniteSet(Workers(f)) /\ IsFiniteSet(Headers(f))
        /\ pin[f] >= Owners(f)
        /\ f \notin leaked => pin[f] = Owners(f)

(* Pages of the file are as NoChangeLost says, or disposed of and on disk; *)
(* the ones behind its end are untouched.                                  *)
DataInv ==
    \A k \in Keys \ spoiled : k[2] > 0 =>
        /\ disk[k][1] = k
        /\ k[2] > page_count[k[1]] =>
              /\ version[k] = 0 /\ disk[k][2] = -1
              /\ frames[k] # NoFrame =>
                    \E t \in Threads : pc[t] = "load" /\ mode[t] = "append" /\ key[t] = k
        /\ k[2] <= page_count[k[1]] /\ ~Allocated(k) => frames[k] = NoFrame /\ OnDisk(k)

IInv ==
    /\ TypeOK
    /\ LockInv
    /\ ForeignInv
    /\ KeyInv
    /\ DropInv
    /\ FrameInv
    /\ HeldInv
    /\ PinInv
    /\ DataInv
    /\ NoChangeLost

-----------------------------------------------------------------------------
(* The operators. *)

LEMMA KeyParts ==
    ASSUME NEW k \in Keys
    PROVE  /\ k[1] \in Pools /\ k[2] \in 0 .. MAX_PAGE_NUM[k[1]] /\ k[2] \in Nat
           /\ MAX_PAGE_NUM[k[1]] \in Nat
           /\ k = <<k[1], k[2]>>
  BY PoolAssumption DEF Keys

LEMMA KeyMade ==
    ASSUME NEW b \in Pools, NEW n \in 0 .. MAX_PAGE_NUM[b]
    PROVE  <<b, n>> \in Keys
  BY DEF Keys

LEMMA SomeKey ==
    /\ AnyKey \in Keys
    /\ Garbage \in Contents
    /\ \A b \in Pools : Header(b) \in Keys /\ Header(b)[1] = b /\ Header(b)[2] = 0
  <1>1. \A b \in Pools : 0 \in 0 .. MAX_PAGE_NUM[b]
    BY PoolAssumption
  <1>2. \A b \in Pools : Header(b) \in Keys
    BY <1>1, KeyMade DEF Header
  <1>3. (CHOOSE b \in Pools : TRUE) \in Pools
    BY PoolAssumption
  <1>4. 0 \in Versions
    BY PoolAssumption DEF Versions
  <1> QED BY <1>2, <1>3, <1>4 DEF AnyKey, Garbage, Contents, Header

LEMMA ContentParts ==
    ASSUME NEW c \in Contents
    PROVE  c[1] \in Keys /\ c[2] \in Versions /\ c[2] \in Int /\ c = <<c[1], c[2]>>
  BY PoolAssumption DEF Contents, Versions

(* The page of a frame. *)
LEMMA KeyOfUsed ==
    ASSUME TypeOK, NEW f \in Used
    PROVE  f \in Frames /\ KeyOf(f) \in Keys /\ frames[KeyOf(f)] = f
  <1>1. PICK k \in Keys : frames[k] = f
    BY DEF Used
  <1> QED BY <1>1, PoolAssumption DEF Used, KeyOf, TypeOK

LEMMA KeyOfFrames ==
    ASSUME TypeOK, FrameInv, NEW k \in Keys, frames[k] # NoFrame
    PROVE  frames[k] \in Used /\ KeyOf(frames[k]) = k
  <1>1. frames[k] \in Used
    BY DEF Used
  <1> QED BY <1>1, KeyOfUsed DEF FrameInv

LEMMA MinDisposed ==
    ASSUME TypeOK, NEW b \in Pools, Disposed(b) # {}
    PROVE  /\ Min(Disposed(b)) \in Disposed(b)
           /\ Min(Disposed(b)) \in 1 .. page_count[b]
           /\ <<b, Min(Disposed(b))>> \in Keys
  <1>1. Disposed(b) \subseteq Nat
    BY DEF Disposed, TypeOK
  <1>2. PICK x \in Disposed(b) : \A y \in Disposed(b) : ~(<<y, x>> \in OpToRel(<, Nat))
    BY <1>1, NatLessThanWellFounded, WFMin
  <1>3. ASSUME NEW y \in Disposed(b) PROVE x <= y
    <2>1. ~(<<y, x>> \in OpToRel(<, Nat))
      BY <1>2
    <2>2. x \in Nat /\ y \in Nat
      BY <1>1
    <2>3. ~(y < x)
      BY <2>1, <2>2 DEF OpToRel
    <2> QED BY <2>2, <2>3
  <1>4. Min(Disposed(b)) \in Disposed(b)
    BY <1>3 DEF Min
  <1>5. Min(Disposed(b)) \in 1 .. page_count[b] /\ page_count[b] \in Nat /\ page_count[b] <= MAX_PAGE_NUM[b]
    BY <1>4 DEF Disposed, TypeOK
  <1>6. Min(Disposed(b)) \in 0 .. MAX_PAGE_NUM[b]
    BY <1>5, PoolAssumption
  <1> QED BY <1>4, <1>5, <1>6, KeyMade

LEMMA MaxZero ==
    ASSUME NEW n \in Int
    PROVE  Max({0, n}) = IF n >= 0 THEN n ELSE 0
  BY DEF Max

(* A frame in somebody's hands is pinned. *)
LEMMA HolderPins ==
    ASSUME TypeOK, PinInv, NEW t \in Threads, NEW h \in held[t]
    PROVE  h[2] \in Frames /\ h[1] \in Keys /\ h = <<h[1], h[2]>> /\ pin[h[2]] >= 1
  <1>1. h \in Keys \X Frames
    BY DEF TypeOK
  <1>2. <<t, h[1]>> \in Holders(h[2])
    BY <1>1 DEF Holders
  <1>3. Cardinality(Holders(h[2])) # 0
    BY <1>1, <1>2, FS_EmptySet DEF PinInv
  <1> QED BY <1>1, <1>3, FS_CardinalityType DEF PinInv, Owners, TypeOK

LEMMA WorkerPins ==
    ASSUME TypeOK, PinInv, NEW f \in Frames, NEW t \in Workers(f)
    PROVE  pin[f] >= 1 /\ (pin[f] = 1 => Holders(f) = {} /\ Headers(f) = {} /\ Workers(f) = {t})
  <1>1. IsFiniteSet(Holders(f)) /\ IsFiniteSet(Workers(f)) /\ IsFiniteSet(Headers(f))
    BY DEF PinInv
  <1>2. /\ Cardinality(Holders(f)) \in Nat /\ (Cardinality(Holders(f)) = 0 => Holders(f) = {})
        /\ Cardinality(Headers(f)) \in Nat /\ (Cardinality(Headers(f)) = 0 => Headers(f) = {})
        /\ Cardinality(Workers(f)) \in Nat /\ Cardinality(Workers(f)) # 0
    BY <1>1, FS_EmptySet, FS_CardinalityType
  <1>3. Cardinality(Workers(f)) = 1 => Workers(f) = {t}
    BY <1>1, FS_Singleton
  <1>4. pin[f] \in Nat
    BY DEF TypeOK
  <1>5. pin[f] >= Cardinality(Holders(f)) + Cardinality(Workers(f)) + Cardinality(Headers(f))
    BY DEF PinInv, Owners
  <1> QED BY <1>2, <1>3, <1>4, <1>5

LEMMA UnpinnedUnowned ==
    ASSUME TypeOK, PinInv, NEW f \in Frames, pin[f] = 0
    PROVE  Holders(f) = {} /\ Headers(f) = {} /\ Workers(f) = {}
  <1>1. IsFiniteSet(Holders(f)) /\ IsFiniteSet(Workers(f)) /\ IsFiniteSet(Headers(f))
    BY DEF PinInv
  <1>2. /\ Cardinality(Holders(f)) \in Nat /\ (Cardinality(Holders(f)) = 0 => Holders(f) = {})
        /\ Cardinality(Headers(f)) \in Nat /\ (Cardinality(Headers(f)) = 0 => Headers(f) = {})
        /\ Cardinality(Workers(f)) \in Nat /\ (Cardinality(Workers(f)) = 0 => Workers(f) = {})
    BY <1>1, FS_EmptySet, FS_CardinalityType
  <1>3. 0 >= Cardinality(Holders(f)) + Cardinality(Workers(f)) + Cardinality(Headers(f))
    BY DEF PinInv, Owners
  <1> QED BY <1>2, <1>3

LEMMA NotHeld ==
    ASSUME TypeOK, NEW f \in Frames, Holders(f) = {}, NEW u \in Threads, NEW h \in held[u]
    PROVE  h[1] \in Keys /\ h[2] # f
  <1>1. h \in Keys \X Frames
    BY DEF TypeOK
  <1>2. SUFFICES ASSUME h[2] = f PROVE FALSE
    BY <1>1
  <1>3. h = <<h[1], f>> /\ h[1] \in Keys
    BY <1>1, <1>2
  <1>4. <<u, h[1]>> \in Holders(f)
    BY <1>3 DEF Holders
  <1> QED BY <1>4

(* Two threads that have a lock are about different pages. *)
LEMMA OneLocker ==
    ASSUME TypeOK, LockInv, KeyInv, NEW t \in Threads, NEW u \in Threads, t # u,
           pc[t] \in LockSteps, pc[u] \in LockSteps
    PROVE  key[t] # key[u]
  <1>1. key[t] \in Keys /\ key[u] \in Keys /\ mode[t] \in Modes /\ mode[u] \in Modes
    BY DEF TypeOK
  <1>2. key[t][1] \in Pools /\ key[u][1] \in Pools
    BY <1>1, KeyParts
  <1>3. CASE mode[t] = "open" /\ mode[u] = "open"
    BY <1>3 DEF LockInv
  <1>4. CASE mode[t] # "open" /\ mode[u] # "open"
    BY <1>2, <1>4 DEF LockInv
  <1>5. ASSUME NEW v \in Threads, mode[v] # "open", pc[v] \in LockSteps, key[v] \in Keys
        PROVE  key[v][2] # 0
    <2>1. mode[v] \in {"get", "append"} /\ key[v][1] \in Pools
      BY <1>5, KeyParts DEF TypeOK, Modes
    <2>2. page_count[key[v][1]] \in Nat /\ allocated[key[v][1]] \subseteq 1 .. page_count[key[v][1]]
      BY <2>1 DEF TypeOK
    <2>3. Allocated(key[v]) \/ key[v][2] = page_count[key[v][1]] + 1
      BY <1>5, <2>1, Zenon DEF KeyInv, LockSteps
    <2> QED BY <2>2, <2>3 DEF Allocated
  <1>6. ASSUME NEW v \in Threads, mode[v] = "open", pc[v] \in LockSteps PROVE key[v][2] = 0
    BY <1>6 DEF KeyInv, LockSteps
  <1> QED BY <1>1, <1>3, <1>4, <1>5, <1>6

(* A page is being loaded or freed by the thread that is about it. *)
LEMMA LoadingKey ==
    ASSUME TypeOK, FrameInv, NEW k \in Keys
    PROVE  /\ Loading(k) <=> \E t \in Threads : pc[t] \in LoadSteps /\ key[t] = k
           /\ \A step \in LoadSteps :
                 InHand(k, step) <=> \E t \in Threads : pc[t] = step /\ key[t] = k
  <1>1. ASSUME NEW t \in Threads, pc[t] \in LoadSteps
        PROVE  frame[t] = frames[k] <=> key[t] = k
    <2>1. frame[t] \in Frames /\ frames[key[t]] = frame[t] /\ key[t] \in Keys
      BY <1>1 DEF FrameInv, TypeOK, PageSteps, LoadSteps
    <2> QED BY <2>1, PoolAssumption DEF FrameInv
  <1>2. ASSUME NEW step \in LoadSteps
        PROVE  InHand(k, step) <=> \E t \in Threads : pc[t] = step /\ key[t] = k
    BY <1>1 DEF InHand
  <1> QED BY <1>2 DEF Loading, LoadSteps

-----------------------------------------------------------------------------
(* Who has the manager's lock. *)

(* A step of a thread that does not purge. *)
LEMMA ForeignKept ==
    ASSUME TypeOK, LockInv, ForeignInv, FrameInv, NEW t \in Threads,
           pc[t] \notin PurgeSteps, pc'[t] \notin PurgeSteps,
           \/ manager_lock' = t => pc'[t] \in LockSteps /\ mode'[t] = "open"
           \/ /\ manager_lock' = manager_lock
              /\ pc[t] \in LockSteps => pc'[t] \in LockSteps /\ mode'[t] = mode[t],
           \A u \in Threads : u # t =>
               /\ pc'[u] = pc[u] /\ mode'[u] = mode[u] /\ key'[u] = key[u] /\ frame'[u] = frame[u]
               /\ manager_lock' = u <=> manager_lock = u
               /\ \A b \in Pools : lock[b] = u => lock'[b] = u,
           frames' = frames \/ frame_lock = NoThread
    PROVE  ForeignInv'
  <1> SUFFICES ASSUME NEW u \in Threads PROVE ForeignOK(u)'
    BY DEF ForeignInv
  <1>0. ForeignOK(u) /\ ForeignOK(t)
    BY DEF ForeignInv
  <1>1. CASE u = t
    BY <1>0, <1>1 DEF ForeignOK, PurgeSteps
  <1>2. CASE u # t /\ pc[u] \notin PurgeSteps
    BY <1>0, <1>2 DEF ForeignOK, PurgeSteps
  <1>3. CASE u # t /\ pc[u] \in PurgeSteps
    <2>1. frame_lock = u
      BY <1>3 DEF LockInv
    <2>2. frames' = frames
      BY <2>1, PoolAssumption
    <2>3. frame[u] \in Frames \cup {NoFrame} /\ frame'[u] = frame[u] /\ key'[u] = key[u]
      BY <1>3 DEF TypeOK
    <2>4. KeyOf(frame[u])' = KeyOf(frame[u])
      BY <2>2, <2>3 DEF KeyOf
    <2>5. Foreign(u)' <=> Foreign(u)
      BY <2>3, <2>4 DEF Foreign
    <2>6. ASSUME pc[u] = "evict", Foreign(u) PROVE lock'[KeyOf(frame[u])[1]] = u
      <3>1. lock[KeyOf(frame[u])[1]] = u
        BY <1>0, <2>6 DEF ForeignOK
      <3>2. KeyOf(frame[u])[1] \in Pools
        BY <1>3, KeyOfUsed, KeyParts DEF FrameInv
      <3> QED BY <1>3, <3>1, <3>2
    <2> QED BY <1>0, <1>3, <2>3, <2>4, <2>5, <2>6 DEF ForeignOK
  <1> QED BY <1>1, <1>2, <1>3

LEMMA ForeignSame ==
    ASSUME ForeignInv, UNCHANGED <<lockVars, threadVars, frames>> PROVE ForeignInv'
  BY DEF ForeignInv, ForeignOK, Foreign, KeyOf, lockVars, threadVars

-----------------------------------------------------------------------------
(* Steps that leave the frames and their pins alone. *)

LEMMA OwnersKept ==
    ASSUME UNCHANGED <<held, opened, frames>>,
           \A f \in Frames : Workers(f)' = Workers(f)
    PROVE  \A f \in Frames :
               /\ Holders(f)' = Holders(f) /\ Workers(f)' = Workers(f) /\ Headers(f)' = Headers(f)
               /\ Owners(f)' = Owners(f)
  <1> SUFFICES ASSUME NEW f \in Frames
               PROVE  /\ Holders(f)' = Holders(f) /\ Workers(f)' = Workers(f) /\ Headers(f)' = Headers(f)
                      /\ Owners(f)' = Owners(f)
    OBVIOUS
  <1>1. Holders(f)' = Holders(f)
    BY DEF Holders
  <1>2. Headers(f)' = Headers(f)
    BY DEF Headers
  <1> QED BY <1>1, <1>2 DEF Owners

(* A thread that goes from one step at which it has no pin to another. *)
LEMMA GotoKept ==
    ASSUME IInv, NEW t \in Threads, NEW step \in Steps \ (PurgeSteps \cup PageSteps),
           pc[t] \notin PurgeSteps \cup PageSteps, Goto(t, step),
           key' = [key EXCEPT ![t] = key'[t]], frame' = [frame EXCEPT ![t] = frame'[t]],
           UNCHANGED <<memVars, held, opened, leaked>>
    PROVE  FrameInv' /\ PinInv'
  <1> USE DEF memVars
  <1>0. TypeOK /\ FrameInv /\ PinInv
    BY DEF IInv
  <1>1. pc' = [pc EXCEPT ![t] = step] /\ pc \in [Threads -> Steps]
    BY <1>0 DEF Goto, TypeOK
  <1>2. \A u \in Threads : u # t => pc'[u] = pc[u] /\ key'[u] = key[u] /\ frame'[u] = frame[u]
    BY <1>0, <1>1 DEF TypeOK
  <1>3. pc'[t] = step
    BY <1>1
  <1>4. \A f \in Frames : Workers(f)' = Workers(f)
    BY <1>2, <1>3 DEF Workers, PurgeSteps, PageSteps
  <1>5. \A f \in Frames :
               /\ Holders(f)' = Holders(f) /\ Workers(f)' = Workers(f) /\ Headers(f)' = Headers(f)
               /\ Owners(f)' = Owners(f)
    BY <1>4, OwnersKept
  <1>6. PinInv'
    BY <1>0, <1>5 DEF PinInv
  <1>7. ASSUME NEW u \in Threads, pc'[u] \in PurgeSteps
        PROVE  /\ frame'[u] \in Used'
               /\ \A f \in Frames : frame'[u] = f =>
                     Holders(f)' = {} /\ Headers(f)' = {} /\ Workers(f)' = {u}
    <2>1. u # t /\ pc[u] \in PurgeSteps /\ frame'[u] = frame[u]
      BY <1>2, <1>3, <1>7
    <2>2. frame'[u] \in Used'
      BY <1>0, <2>1 DEF FrameInv, Used
    <2> QED BY <1>0, <1>5, <2>1, <2>2 DEF FrameInv
  <1>8. ASSUME NEW u \in Threads, pc'[u] \in PageSteps
        PROVE  frame'[u] \in Frames /\ frames'[key'[u]] = frame'[u]
    BY <1>0, <1>2, <1>3, <1>8 DEF FrameInv
  <1> QED BY <1>0, <1>6, <1>7, <1>8 DEF FrameInv

LEMMA MissStep ==
    ASSUME IInv, NEW t \in Threads, Miss(t) PROVE IInv'
  <1> USE DEF memVars, fileVars, Goto
  <1>0. /\ TypeOK /\ LockInv /\ ForeignInv /\ KeyInv /\ DropInv /\ FrameInv /\ HeldInv /\ DataInv
        /\ NoChangeLost
    BY DEF IInv
  <1>a. /\ pc' = [pc EXCEPT ![t] = "alloc"] /\ pc[t] = "miss" /\ key[t][1] \in Pools
        /\ lock' = [lock EXCEPT ![key[t][1]] = t] /\ lock[key[t][1]] = NoThread
        /\ UNCHANGED <<leaked, memVars, fileVars, opened, frame_lock, manager_lock, dblwr_lock, mode, key, frame,
                       held, version, spoiled, failures>>
    BY <1>0, KeyParts DEF Miss, TypeOK
  <1>1. TypeOK'
    BY <1>0, <1>a DEF TypeOK, Steps
  <1>2. LockInv'
    <2>1. \A u \in Threads : pc'[u] = IF u = t THEN "alloc" ELSE pc[u]
      BY <1>0, <1>a DEF TypeOK
    <2>2. \A b \in Pools : lock'[b] = IF b = key[t][1] THEN t ELSE lock[b]
      BY <1>0, <1>a DEF TypeOK
    <2>3. mode[t] # "open"
      BY <1>0, <1>a DEF KeyInv, LockSteps
    <2> QED BY <1>0, <1>a, <2>1, <2>2, <2>3, PoolAssumption DEF LockInv, LockSteps, PurgeSteps, WriteSteps
  <1>l. ForeignInv'
    <2>1. \A u \in Threads : pc'[u] = IF u = t THEN "alloc" ELSE pc[u]
      BY <1>0, <1>a DEF TypeOK
    <2>2. \A b \in Pools : lock'[b] = IF b = key[t][1] THEN t ELSE lock[b]
      BY <1>0, <1>a DEF TypeOK
    <2>3. \A u \in Threads, b \in Pools : lock[b] = u => lock'[b] = u
      BY <1>a, <2>2, PoolAssumption
    <2> QED BY <1>0, <1>a, <2>1, <2>3, ForeignKept DEF LockSteps, PurgeSteps
  <1>3. KeyInv'
    BY <1>0, <1>a DEF KeyInv, LockSteps, Allocated, TypeOK
  <1>4. DropInv'
    BY <1>0, <1>a DEF DropInv, TypeOK
  <1>5. FrameInv' /\ PinInv'
    BY <1>0, <1>a, GotoKept DEF PurgeSteps, PageSteps, Steps, TypeOK
  <1>6. HeldInv'
    BY <1>0, <1>a DEF HeldInv, Allocated, TypeOK
  <1>7. DataInv'
    BY <1>0, <1>a DEF DataInv, Allocated, OnDisk, TypeOK
  <1>8. NoChangeLost'
    BY <1>0, <1>a DEF NoChangeLost, Loading, InHand, Allocated, OnDisk, TypeOK
  <1> QED BY <1>1, <1>2, <1>l, <1>3, <1>4, <1>5, <1>6, <1>7, <1>8 DEF IInv

LEMMA OpenFileStep ==
    ASSUME IInv, NEW t \in Threads, NEW b \in Pools, open_file(t, b) PROVE IInv'
  <1> USE DEF memVars, fileVars, Goto, Begin
  <1>0. /\ TypeOK /\ LockInv /\ ForeignInv /\ KeyInv /\ DropInv /\ FrameInv /\ HeldInv /\ DataInv
        /\ NoChangeLost
    BY DEF IInv
  <1>a. /\ pc' = [pc EXCEPT ![t] = "alloc"] /\ pc[t] = "idle"
        /\ mode' = [mode EXCEPT ![t] = "open"] /\ key' = [key EXCEPT ![t] = Header(b)]
        /\ b \notin opened /\ manager_lock = NoThread /\ manager_lock' = t
        /\ UNCHANGED <<leaked, memVars, fileVars, opened, lock, frame_lock, dblwr_lock, frame, held, version,
                       spoiled, failures>>
    BY DEF open_file, Ready
  <1>b. \A u \in Threads :
          /\ pc'[u] = IF u = t THEN "alloc" ELSE pc[u]
          /\ mode'[u] = IF u = t THEN "open" ELSE mode[u]
          /\ key'[u] = IF u = t THEN Header(b) ELSE key[u]
    BY <1>0, <1>a DEF TypeOK
  <1>c. Header(b) \in Keys /\ Header(b)[1] = b /\ Header(b)[2] = 0
    BY SomeKey
  <1>d. \A u \in Threads : \A h \in held[u] : h[1] \in Keys /\ h[1][2] # 0
    <2>1. ASSUME NEW u \in Threads, NEW h \in held[u] PROVE h[1] \in Keys /\ h[1][2] # 0
      <3>1. h[1] \in Keys /\ Allocated(h[1])
        BY <1>0 DEF TypeOK, HeldInv
      <3>2. h[1][1] \in Pools
        BY <3>1, KeyParts
      <3> QED BY <1>0, <3>1, <3>2 DEF TypeOK, Allocated
    <2> QED BY <2>1
  <1>1. TypeOK'
    BY <1>0, <1>a, <1>c DEF TypeOK, Steps, Modes
  <1>2. LockInv'
    BY <1>0, <1>a, <1>b, PoolAssumption DEF LockInv, LockSteps, PurgeSteps, WriteSteps
  <1>l. ForeignInv'
    BY <1>0, <1>a, <1>b, ForeignKept, PoolAssumption DEF LockSteps, PurgeSteps
  <1>3. KeyInv'
    BY <1>0, <1>a, <1>b, <1>c, <1>d DEF KeyInv, LockSteps, Allocated
  <1>4. DropInv'
    <2>1. ASSUME NEW u \in Threads, pc[u] \in {"find", "drop"} PROVE key[u][2] # 0
      <3>1. Allocated(key[u]) /\ key[u] \in Keys
        BY <1>0, <2>1 DEF KeyInv, TypeOK, Modes
      <3>2. key[u][1] \in Pools
        BY <3>1, KeyParts
      <3> QED BY <1>0, <3>1, <3>2 DEF TypeOK, Allocated
    <2> QED BY <1>0, <1>a, <1>b, <1>c, <2>1 DEF DropInv
  <1>5. FrameInv' /\ PinInv'
    BY <1>0, <1>a, GotoKept DEF PurgeSteps, PageSteps, Steps, TypeOK
  <1>6. HeldInv'
    BY <1>0, <1>a, <1>b DEF HeldInv, Allocated
  <1>7. DataInv'
    BY <1>0, <1>a, <1>b DEF DataInv, Allocated, OnDisk
  <1>8. NoChangeLost'
    BY <1>0, <1>a, <1>b DEF NoChangeLost, Loading, InHand, Allocated, OnDisk
  <1> QED BY <1>1, <1>2, <1>l, <1>3, <1>4, <1>5, <1>6, <1>7, <1>8 DEF IInv

LEMMA DisposePageStep ==
    ASSUME IInv, NEW t \in Threads, NEW k \in Keys, dispose_page(t, k) PROVE IInv'
  <1> USE DEF memVars, fileVars, Goto, Begin
  <1>0. /\ TypeOK /\ LockInv /\ ForeignInv /\ KeyInv /\ DropInv /\ FrameInv /\ HeldInv /\ DataInv
        /\ NoChangeLost
    BY DEF IInv
  <1>a. /\ pc' = [pc EXCEPT ![t] = "find"] /\ pc[t] = "idle"
        /\ mode' = [mode EXCEPT ![t] = "get"] /\ key' = [key EXCEPT ![t] = k]
        /\ Allocated(k) /\ ~Wanted(k)
        /\ lock[k[1]] = NoThread /\ lock' = [lock EXCEPT ![k[1]] = t]
        /\ UNCHANGED <<leaked, memVars, fileVars, opened, frame_lock, manager_lock, dblwr_lock, frame, held,
                       version, spoiled, failures>>
    BY DEF dispose_page, Ready
  <1>b. \A u \in Threads :
          /\ pc'[u] = IF u = t THEN "find" ELSE pc[u]
          /\ mode'[u] = IF u = t THEN "get" ELSE mode[u]
          /\ key'[u] = IF u = t THEN k ELSE key[u]
    BY <1>0, <1>a DEF TypeOK
  <1>c. k[1] \in Pools
    BY KeyParts
  <1>d. \A b \in Pools : lock'[b] = IF b = k[1] THEN t ELSE lock[b]
    BY <1>0, <1>a DEF TypeOK
  <1>1. TypeOK'
    BY <1>0, <1>a, <1>c DEF TypeOK, Steps, Modes
  <1>2. LockInv'
    BY <1>0, <1>a, <1>b, <1>c, <1>d, PoolAssumption DEF LockInv, LockSteps, PurgeSteps, WriteSteps
  <1>l. ForeignInv'
    BY <1>0, <1>a, <1>b, <1>d, ForeignKept, PoolAssumption DEF LockSteps, PurgeSteps
  <1>3. KeyInv'
    BY <1>0, <1>a, <1>b DEF KeyInv, LockSteps, Allocated, Wanted
  <1>4. DropInv'
    BY <1>0, <1>a, <1>b DEF DropInv, Wanted
  <1>5. FrameInv' /\ PinInv'
    BY <1>0, <1>a, GotoKept DEF PurgeSteps, PageSteps, Steps, TypeOK
  <1>6. HeldInv'
    BY <1>0, <1>a, <1>b DEF HeldInv, Allocated
  <1>7. DataInv'
    BY <1>0, <1>a, <1>b DEF DataInv, Allocated, OnDisk
  <1>8. NoChangeLost'
    BY <1>0, <1>a, <1>b DEF NoChangeLost, Loading, InHand, Allocated, OnDisk
  <1> QED BY <1>1, <1>2, <1>l, <1>3, <1>4, <1>5, <1>6, <1>7, <1>8 DEF IInv

(* A page number that was disposed of is used again: nobody is about the   *)
(* page or holds it, and it is on disk.                                    *)
LEMMA ReusePageStep ==
    ASSUME IInv, NEW t \in Threads, NEW b \in Pools, allocate_page(t, b), ReusePage(t, b)
    PROVE  IInv'
  <1> USE DEF memVars, fileVars, Goto, Begin
  <1>0. /\ TypeOK /\ LockInv /\ ForeignInv /\ KeyInv /\ DropInv /\ FrameInv /\ HeldInv /\ DataInv
        /\ NoChangeLost
    BY DEF IInv
  <1> DEFINE k == <<b, Min(Disposed(b))>>
  <1>a. /\ pc' = [pc EXCEPT ![t] = "get"] /\ pc[t] = "idle"
        /\ mode' = [mode EXCEPT ![t] = "get"] /\ key' = [key EXCEPT ![t] = k]
        /\ allocated' = [allocated EXCEPT ![b] = @ \cup {k[2]}]
        /\ UNCHANGED <<leaked, memVars, disk, page_count, opened, lock, frame_lock, manager_lock, dblwr_lock,
                       frame, held, version, spoiled, failures>>
    BY DEF allocate_page, ReusePage, Ready
  <1>c. /\ k \in Keys /\ k[1] = b /\ k[2] \in 1 .. page_count[b] /\ k[2] \notin allocated[b]
        /\ page_count[b] \in Nat
    BY <1>0, MinDisposed DEF ReusePage, allocate_page, Disposed, TypeOK
  <1> HIDE DEF k
  <1>b. \A u \in Threads :
          /\ pc'[u] = IF u = t THEN "get" ELSE pc[u]
          /\ mode'[u] = IF u = t THEN "get" ELSE mode[u]
          /\ key'[u] = IF u = t THEN k ELSE key[u]
    BY <1>0, <1>a DEF TypeOK
  <1>d. \A l \in Keys : Allocated(l)' <=> Allocated(l) \/ l = k
    <2>1. ASSUME NEW l \in Keys PROVE Allocated(l)' <=> Allocated(l) \/ l = k
      <3>1. l[1] \in Pools /\ l = <<l[1], l[2]>> /\ k = <<k[1], k[2]>>
        BY <1>c, KeyParts
      <3>2. allocated'[l[1]] = IF l[1] = b THEN allocated[b] \cup {k[2]} ELSE allocated[l[1]]
        BY <1>0, <1>a, <3>1 DEF TypeOK
      <3> QED BY <1>c, <3>1, <3>2 DEF Allocated
    <2> QED BY <2>1
  <1>e. ~Allocated(k)
    BY <1>c DEF Allocated
  <1>f. \A u \in Threads : \A h \in held[u] : h[1] \in Keys /\ h[1] # k
    BY <1>0, <1>e DEF HeldInv, TypeOK
  <1>1. TypeOK'
    <2>1. allocated' \in [Pools -> SUBSET Nat]
      BY <1>0, <1>a, <1>c DEF TypeOK
    <2>2. \A c \in Pools : allocated'[c] \subseteq 1 .. page_count[c] /\ page_count[c] <= MAX_PAGE_NUM[c]
      BY <1>0, <1>a, <1>c DEF TypeOK
    <2> QED BY <1>0, <1>a, <1>c, <2>1, <2>2 DEF TypeOK, Steps, Modes
  <1>2. LockInv'
    BY <1>0, <1>a, <1>b, PoolAssumption DEF LockInv, LockSteps, PurgeSteps, WriteSteps
  <1>l. ForeignInv'
    BY <1>0, <1>a, <1>b, ForeignKept, PoolAssumption DEF LockSteps, PurgeSteps
  <1>3. KeyInv'
    <2>1. \A u \in Threads : key[u] \in Keys /\ key'[u] \in Keys
      BY <1>0, <1>b, <1>c DEF TypeOK
    <2>2. \A u \in Threads : pc'[u] # "idle" /\ mode'[u] = "get" =>
              key'[u][2] \in allocated'[key'[u][1]]
      BY <1>0, <1>b, <1>d, <2>1 DEF KeyInv, Allocated
    <2> QED BY <1>0, <1>a, <1>b, <1>f, <2>2 DEF KeyInv, LockSteps, Allocated
  <1>4. DropInv'
    <2>1. ASSUME NEW u \in Threads, pc[u] \in {"find", "drop"} PROVE key[u] # k
      BY <1>0, <1>e, <2>1 DEF KeyInv, TypeOK, Modes
    <2> QED BY <1>0, <1>a, <1>b, <2>1 DEF DropInv
  <1>5. FrameInv' /\ PinInv'
    BY <1>0, <1>a, GotoKept DEF PurgeSteps, PageSteps, Steps, TypeOK
  <1>6. HeldInv'
    <2>1. \A u \in Threads : \A h \in held[u] : Allocated(h[1])'
      BY <1>0, <1>d, <1>f DEF HeldInv
    <2> QED BY <1>0, <1>a, <1>b, <2>1 DEF HeldInv
  <1>7. DataInv'
    BY <1>0, <1>a, <1>b, <1>d DEF DataInv, OnDisk
  <1>8. NoChangeLost'
    <2>1. \A l \in Keys : Loading(l)' <=> Loading(l)
      BY <1>a, <1>b DEF Loading, InHand
    <2>2. k \notin spoiled => frames[k] = NoFrame /\ OnDisk(k)
      BY <1>0, <1>c, <1>e DEF DataInv
    <2> QED BY <1>0, <1>a, <1>d, <2>1, <2>2 DEF NoChangeLost, OnDisk
  <1> QED BY <1>1, <1>2, <1>l, <1>3, <1>4, <1>5, <1>6, <1>7, <1>8 DEF IInv

(* The file grows by the page behind its end. *)
LEMMA AppendPageStep ==
    ASSUME IInv, NEW t \in Threads, NEW b \in Pools, allocate_page(t, b), AppendPage(t, b)
    PROVE  IInv'
  <1> USE DEF memVars, fileVars, Goto, Begin
  <1>0. /\ TypeOK /\ LockInv /\ ForeignInv /\ KeyInv /\ DropInv /\ FrameInv /\ HeldInv /\ DataInv
        /\ NoChangeLost
    BY DEF IInv
  <1> DEFINE k == <<b, page_count[b] + 1>>
  <1>a. /\ pc' = [pc EXCEPT ![t] = "alloc"] /\ pc[t] = "idle"
        /\ mode' = [mode EXCEPT ![t] = "append"] /\ key' = [key EXCEPT ![t] = k]
        /\ lock[b] = NoThread /\ lock' = [lock EXCEPT ![b] = t]
        /\ UNCHANGED <<leaked, memVars, fileVars, opened, frame_lock, manager_lock, dblwr_lock,
                       frame, held, version, spoiled, failures>>
    BY DEF allocate_page, AppendPage, Ready
  <1>c. /\ k \in Keys /\ k[1] = b /\ k[2] = page_count[b] + 1 /\ ~Allocated(k)
    <2>1. page_count[b] \in Nat /\ page_count[b] < MAX_PAGE_NUM[b] /\ MAX_PAGE_NUM[b] \in Nat
      BY <1>0, PoolAssumption DEF AppendPage, TypeOK
    <2>2. page_count[b] + 1 \in 0 .. MAX_PAGE_NUM[b]
      BY <2>1
    <2>3. page_count[b] + 1 \notin allocated[b]
      BY <1>0, <2>1 DEF TypeOK
    <2> QED BY <2>2, <2>3, KeyMade DEF Allocated
  <1> HIDE DEF k
  <1>b. \A u \in Threads :
          /\ pc'[u] = IF u = t THEN "alloc" ELSE pc[u]
          /\ mode'[u] = IF u = t THEN "append" ELSE mode[u]
          /\ key'[u] = IF u = t THEN k ELSE key[u]
    BY <1>0, <1>a DEF TypeOK
  <1>d. \A c \in Pools : lock'[c] = IF c = b THEN t ELSE lock[c]
    BY <1>0, <1>a DEF TypeOK
  <1>1. TypeOK'
    BY <1>0, <1>a, <1>c DEF TypeOK, Steps, Modes
  <1>2. LockInv'
    BY <1>0, <1>a, <1>b, <1>c, <1>d, PoolAssumption DEF LockInv, LockSteps, PurgeSteps, WriteSteps
  <1>l. ForeignInv'
    BY <1>0, <1>a, <1>b, <1>d, <1>c, ForeignKept, PoolAssumption DEF LockSteps, PurgeSteps
  <1>3. KeyInv'
    <2>1. \A h \in held[t] : h[1] # k
      BY <1>0, <1>c DEF HeldInv
    <2> QED BY <1>0, <1>a, <1>b, <1>c, <2>1 DEF KeyInv, LockSteps, Allocated
  <1>4. DropInv'
    <2>1. ASSUME NEW u \in Threads, pc[u] \in {"find", "drop"} PROVE key[u] # k
      BY <1>0, <1>c, <2>1 DEF KeyInv, TypeOK, Modes
    <2> QED BY <1>0, <1>a, <1>b, <2>1 DEF DropInv
  <1>5. FrameInv' /\ PinInv'
    BY <1>0, <1>a, GotoKept DEF PurgeSteps, PageSteps, Steps, TypeOK
  <1>6. HeldInv'
    BY <1>0, <1>a, <1>b DEF HeldInv, Allocated
  <1>7. DataInv'
    BY <1>0, <1>a, <1>b DEF DataInv, Allocated, OnDisk
  <1>8. NoChangeLost'
    <2>1. \A l \in Keys : Loading(l)' <=> Loading(l)
      BY <1>a, <1>b DEF Loading, InHand
    <2> QED BY <1>0, <1>a, <2>1 DEF NoChangeLost, Allocated, OnDisk
  <1> QED BY <1>1, <1>2, <1>l, <1>3, <1>4, <1>5, <1>6, <1>7, <1>8 DEF IInv

(* Locks taken on the way to the write of a page. *)
LEMMA LocksTaken ==
    ASSUME IInv, NEW t \in Threads, NEW step \in Steps, pc[t] \in PurgeSteps \cup PageSteps,
           step = pc[t] \/ {pc[t], step} \subseteq PurgeSteps,
           Goto(t, step), LockInv', ForeignInv',
           lock' \in [Pools -> Threads \cup {NoThread}],
           {manager_lock', dblwr_lock'} \subseteq Threads \cup {NoThread},
           UNCHANGED <<leaked, memVars, fileVars, opened, frame_lock, mode, key, frame, held, version,
                       spoiled, failures>>
    PROVE  IInv'
  <1> USE DEF memVars, fileVars, Goto
  <1>0. /\ TypeOK /\ LockInv /\ ForeignInv /\ KeyInv /\ DropInv /\ FrameInv /\ HeldInv /\ PinInv
        /\ DataInv /\ NoChangeLost
    BY DEF IInv
  <1>b. \A u \in Threads :
          /\ pc'[u] = pc[u] \/ (pc[u] \in PurgeSteps /\ pc'[u] \in PurgeSteps)
          /\ pc'[u] \in PurgeSteps \/ pc[u] \in PurgeSteps => pc'[u] \in PurgeSteps /\ pc[u] \in PurgeSteps
    BY <1>0 DEF TypeOK
  <1>c. \A f \in Frames : Workers(f)' = Workers(f)
    BY <1>b DEF Workers, PurgeSteps
  <1>d. \A f \in Frames :
               /\ Holders(f)' = Holders(f) /\ Workers(f)' = Workers(f) /\ Headers(f)' = Headers(f)
               /\ Owners(f)' = Owners(f)
    BY <1>c, OwnersKept
  <1>1. TypeOK'
    BY <1>0 DEF TypeOK
  <1>3. KeyInv'
    BY <1>0, <1>b DEF KeyInv, LockSteps, PurgeSteps, Allocated
  <1>4. DropInv'
    BY <1>0, <1>b DEF DropInv, PurgeSteps
  <1>5. FrameInv'
    BY <1>0, <1>b, <1>d DEF FrameInv, PurgeSteps, PageSteps, Used
  <1>6. HeldInv'
    BY <1>0, <1>b DEF HeldInv, Allocated, PurgeSteps
  <1>7. PinInv'
    BY <1>0, <1>d DEF PinInv
  <1>8. DataInv'
    BY <1>0, <1>b DEF DataInv, Allocated, OnDisk, PurgeSteps
  <1>9. NoChangeLost'
    <2>1. \A l \in Keys : Loading(l)' <=> Loading(l)
      BY <1>b DEF Loading, InHand, PurgeSteps
    <2> QED BY <1>0, <2>1 DEF NoChangeLost, Allocated, OnDisk
  <1> QED BY <1>1, <1>3, <1>4, <1>5, <1>6, <1>7, <1>8, <1>9 DEF IInv

LEMMA LockManagerStep ==
    ASSUME IInv, NEW t \in Threads, LockManager(t) PROVE IInv'
  <1>0. TypeOK /\ LockInv /\ ForeignInv
    BY DEF IInv
  <1>a. /\ pc' = [pc EXCEPT ![t] = "foreign"] /\ pc[t] = "manager"
        /\ manager_lock = NoThread /\ manager_lock' = t
        /\ UNCHANGED <<leaked, memVars, fileVars, opened, lock, frame_lock, dblwr_lock, mode, key, frame,
                       held, version, spoiled, failures>>
    BY DEF LockManager, Goto
  <1>b. \A u \in Threads : pc'[u] = IF u = t THEN "foreign" ELSE pc[u]
    BY <1>0, <1>a DEF TypeOK
  <1>1. LockInv'
    BY <1>0, <1>a, <1>b, PoolAssumption DEF LockInv, LockSteps, PurgeSteps, WriteSteps
  <1>2. ForeignInv'
    <2>1. \A u \in Threads : Foreign(u)' <=> Foreign(u)
      BY <1>a DEF Foreign, KeyOf, memVars
    <2>2. \A u \in Threads : KeyOf(frame[u])' = KeyOf(frame[u])
      BY <1>a DEF KeyOf, memVars
    <2>3. mode[t] # "open"
      BY <1>0, <1>a, PoolAssumption DEF LockInv, LockSteps
    <2> SUFFICES ASSUME NEW u \in Threads PROVE ForeignOK(u)'
      BY DEF ForeignInv
    <2>4. ForeignOK(u) /\ ForeignOK(t)
      BY <1>0 DEF ForeignInv
    <2>5. CASE u = t
      BY <1>a, <1>b, <2>1, <2>3, <2>4, <2>5 DEF ForeignOK
    <2>6. CASE u # t
      BY <1>a, <1>b, <2>1, <2>2, <2>4, <2>6, PoolAssumption DEF ForeignOK
    <2> QED BY <2>5, <2>6
  <1>3. "foreign" \in Steps /\ {"manager", "foreign"} \subseteq PurgeSteps
    BY DEF Steps, PurgeSteps
  <1>4. lock' \in [Pools -> Threads \cup {NoThread}] /\ {manager_lock', dblwr_lock'} \subseteq Threads \cup {NoThread}
    BY <1>0, <1>a DEF TypeOK
  <1> QED BY <1>a, <1>1, <1>2, <1>3, <1>4, LocksTaken DEF Goto

LEMMA FlushPageStep ==
    ASSUME IInv, NEW t \in Threads, flush_page(t) PROVE IInv'
  <1>0. TypeOK /\ LockInv /\ ForeignInv /\ FrameInv
    BY DEF IInv
  <1>p. PICK p \in Pools : p = KeyOf(frame[t])[1]
    <2>1. frame[t] \in Used
      BY <1>0 DEF flush_page, FrameInv, PurgeSteps
    <2> QED BY <1>0, <2>1, KeyOfUsed, KeyParts
  <1>a. /\ pc' = [pc EXCEPT ![t] = "evict"] /\ pc[t] = "foreign"
        /\ lock[p] = NoThread /\ lock' = [lock EXCEPT ![p] = t]
        /\ UNCHANGED <<leaked, memVars, fileVars, opened, frame_lock, manager_lock, dblwr_lock, mode, key,
                       frame, held, version, spoiled, failures>>
    BY <1>p DEF flush_page, Goto
  <1>b. /\ \A u \in Threads : pc'[u] = IF u = t THEN "evict" ELSE pc[u]
        /\ \A b \in Pools : lock'[b] = IF b = p THEN t ELSE lock[b]
    BY <1>0, <1>a DEF TypeOK
  <1>1. LockInv'
    BY <1>0, <1>a, <1>b, PoolAssumption DEF LockInv, LockSteps, PurgeSteps, WriteSteps
  <1>2. ForeignInv'
    <2>1. \A u \in Threads : Foreign(u)' <=> Foreign(u)
      BY <1>a DEF Foreign, KeyOf, memVars
    <2>2. \A u \in Threads : KeyOf(frame[u])' = KeyOf(frame[u])
      BY <1>a DEF KeyOf, memVars
    <2> SUFFICES ASSUME NEW u \in Threads PROVE ForeignOK(u)'
      BY DEF ForeignInv
    <2>4. ForeignOK(u) /\ ForeignOK(t)
      BY <1>0 DEF ForeignInv
    <2>5. CASE u = t
      BY <1>p, <1>a, <1>b, <2>1, <2>2, <2>4, <2>5 DEF ForeignOK
    <2>6. CASE u # t
      <3>1. pc[u] \notin PurgeSteps
        BY <1>0, <1>a, <2>6 DEF LockInv, PurgeSteps
      <3> QED BY <1>a, <1>b, <2>1, <2>4, <2>6, <3>1 DEF ForeignOK, PurgeSteps
    <2> QED BY <2>5, <2>6
  <1>3. "evict" \in Steps /\ {"evict", "foreign"} \subseteq PurgeSteps
    BY DEF Steps, PurgeSteps
  <1>4. lock' \in [Pools -> Threads \cup {NoThread}] /\ {manager_lock', dblwr_lock'} \subseteq Threads \cup {NoThread}
    BY <1>0, <1>a DEF TypeOK
  <1> QED BY <1>a, <1>1, <1>2, <1>3, <1>4, LocksTaken DEF Goto

LEMMA BufferFullStep ==
    ASSUME IInv, NEW t \in Threads, BufferFull(t) PROVE IInv'
  <1>0. TypeOK /\ LockInv /\ ForeignInv
    BY DEF IInv
  <1>a. /\ pc[t] \in WriteSteps /\ dblwr_lock' = t
        /\ UNCHANGED <<leaked, memVars, fileVars, opened, lock, frame_lock, manager_lock, pc, mode, key,
                       frame, held, version, spoiled, failures>>
    BY DEF BufferFull, WriteSteps, threadVars
  <1>1. LockInv'
    BY <1>0, <1>a DEF LockInv
  <1>2. ForeignInv'
    BY <1>0, <1>a DEF ForeignInv, ForeignOK, Foreign, KeyOf, memVars
  <1>3. pc[t] \in Steps /\ Goto(t, pc[t]) /\ pc[t] \in PurgeSteps \cup PageSteps
    BY <1>0, <1>a DEF TypeOK, Goto, WriteSteps, PurgeSteps, PageSteps
  <1>4. lock' \in [Pools -> Threads \cup {NoThread}] /\ {manager_lock', dblwr_lock'} \subseteq Threads \cup {NoThread}
    BY <1>0, <1>a DEF TypeOK
  <1> QED BY <1>a, <1>1, <1>2, <1>3, <1>4, LocksTaken

-----------------------------------------------------------------------------
(* Getting pages, and giving them back. *)

(* What allows a thread to look a page up. *)
MayLookup(t, k) ==
    /\ pc[t] \in {"idle", "get"}
    /\ Allocated(k)
    /\ \A h \in held[t] : h[1] # k
    /\ \A u \in Threads : pc[u] \in {"find", "drop"} => key[u] # k

LEMMA LookupMiss ==
    ASSUME IInv, NEW t \in Threads, NEW k \in Keys, MayLookup(t, k), Lookup(t, k),
           frames[k] = NoFrame
    PROVE  IInv'
  <1> USE DEF memVars, fileVars, lockVars, Goto, Begin
  <1>0. /\ TypeOK /\ LockInv /\ ForeignInv /\ KeyInv /\ DropInv /\ FrameInv /\ HeldInv /\ DataInv
        /\ NoChangeLost
    BY DEF IInv
  <1>a. /\ pc' = [pc EXCEPT ![t] = "miss"] /\ pc[t] \in {"idle", "get"}
        /\ mode' = [mode EXCEPT ![t] = "get"] /\ key' = [key EXCEPT ![t] = k]
        /\ UNCHANGED <<leaked, memVars, fileVars, opened, lockVars, frame, held, version, spoiled,
                       failures>>
    BY DEF Lookup, MayLookup
  <1>b. \A u \in Threads :
          /\ pc'[u] = IF u = t THEN "miss" ELSE pc[u]
          /\ mode'[u] = IF u = t THEN "get" ELSE mode[u]
          /\ key'[u] = IF u = t THEN k ELSE key[u]
    BY <1>0, <1>a DEF TypeOK
  <1>1. TypeOK'
    BY <1>0, <1>a DEF TypeOK, Steps, Modes
  <1>2. LockInv'
    BY <1>0, <1>a, <1>b, PoolAssumption DEF LockInv, LockSteps, PurgeSteps, WriteSteps
  <1>l. ForeignInv'
    BY <1>0, <1>a, <1>b, ForeignKept, PoolAssumption DEF LockSteps, PurgeSteps
  <1>3. KeyInv'
    BY <1>0, <1>a, <1>b DEF KeyInv, LockSteps, Allocated, MayLookup
  <1>4. DropInv'
    BY <1>0, <1>a, <1>b DEF DropInv, MayLookup
  <1>5. FrameInv' /\ PinInv'
    BY <1>0, <1>a, GotoKept DEF PurgeSteps, PageSteps, Steps, TypeOK
  <1>6. HeldInv'
    BY <1>0, <1>a, <1>b DEF HeldInv, Allocated
  <1>7. DataInv'
    BY <1>0, <1>a, <1>b DEF DataInv, Allocated, OnDisk
  <1>8. NoChangeLost'
    BY <1>0, <1>a, <1>b DEF NoChangeLost, Loading, InHand, Allocated, OnDisk
  <1> QED BY <1>1, <1>2, <1>l, <1>3, <1>4, <1>5, <1>6, <1>7, <1>8 DEF IInv

LEMMA LookupHit ==
    ASSUME IInv, NEW t \in Threads, NEW k \in Keys, MayLookup(t, k), Lookup(t, k),
           frames[k] # NoFrame
    PROVE  IInv'
  <1> USE DEF memVars, fileVars, lockVars, Goto, Begin, Return, get_internal
  <1>0. /\ TypeOK /\ LockInv /\ ForeignInv /\ KeyInv /\ DropInv /\ FrameInv /\ HeldInv /\ PinInv
        /\ DataInv /\ NoChangeLost
    BY DEF IInv
  <1>a. /\ pc' = [pc EXCEPT ![t] = "idle"] /\ pc[t] \in {"idle", "get"} /\ frame_lock = NoThread
        /\ mode' = [mode EXCEPT ![t] = "get"] /\ key' = [key EXCEPT ![t] = AnyKey]
        /\ frame' = [frame EXCEPT ![t] = NoFrame]
        /\ pin' = [pin EXCEPT ![frames[k]] = @ + 1]
        /\ held' = [held EXCEPT ![t] = @ \cup {<<k, frames[k]>>}]
        /\ spoiled' = CASE InHand(k, "load") -> spoiled \cup {k}
                        [] InHand(k, "discard") \/ InHand(k, "free") -> Keys
                        [] OTHER -> spoiled
        /\ UNCHANGED <<leaked, frames, dirty, data, fileVars, opened, lockVars, version, failures>>
    BY DEF Lookup, MayLookup
  <1>b. \A u \in Threads :
          /\ pc'[u] = IF u = t THEN "idle" ELSE pc[u]
          /\ mode'[u] = IF u = t THEN "get" ELSE mode[u]
          /\ key'[u] = IF u = t THEN AnyKey ELSE key[u]
          /\ frame'[u] = IF u = t THEN NoFrame ELSE frame[u]
          /\ held'[u] = IF u = t THEN held[t] \cup {<<k, frames[k]>>} ELSE held[u]
    BY <1>0, <1>a DEF TypeOK
  <1>c. frames[k] \in Frames
    BY <1>0 DEF TypeOK
  <1>d. spoiled \subseteq spoiled' /\ spoiled' \subseteq Keys
    BY <1>0, <1>a DEF TypeOK
  <1>e. \A u \in Threads : pc[u] \notin PurgeSteps
    BY <1>0, <1>a, PoolAssumption DEF LockInv
  <1>f. \A f \in Frames :
          /\ Holders(f)' = IF f = frames[k] THEN Holders(f) \cup {<<t, k>>} ELSE Holders(f)
          /\ Workers(f)' = Workers(f)
          /\ Headers(f)' = Headers(f)
    <2> SUFFICES ASSUME NEW f \in Frames
                 PROVE  /\ Holders(f)' = IF f = frames[k] THEN Holders(f) \cup {<<t, k>>} ELSE Holders(f)
                        /\ Workers(f)' = Workers(f)
                        /\ Headers(f)' = Headers(f)
      OBVIOUS
    <2>1. Holders(f)' = IF f = frames[k] THEN Holders(f) \cup {<<t, k>>} ELSE Holders(f)
      BY <1>b DEF Holders
    <2>2. Workers(f)' = Workers(f)
      BY <1>a, <1>b DEF Workers
    <2> QED BY <1>a, <2>1, <2>2 DEF Headers
  <1>1. TypeOK'
    BY <1>0, <1>a, <1>c, <1>d, SomeKey DEF TypeOK, Steps, Modes
  <1>2. LockInv'
    BY <1>0, <1>a, <1>b, PoolAssumption DEF LockInv, LockSteps, PurgeSteps, WriteSteps
  <1>l. ForeignInv'
    BY <1>0, <1>a, <1>b, ForeignKept, PoolAssumption DEF LockSteps, PurgeSteps
  <1>3. KeyInv'
    BY <1>0, <1>a, <1>b DEF KeyInv, LockSteps, Allocated
  <1>4. DropInv'
    BY <1>0, <1>a, <1>b DEF DropInv, MayLookup
  <1>5. FrameInv'
    BY <1>0, <1>a, <1>b, <1>e DEF FrameInv, PurgeSteps, PageSteps
  <1>6. HeldInv'
    <2>1. \A u \in Threads : \A h \in held'[u] : Allocated(h[1])'
      BY <1>0, <1>a, <1>b DEF HeldInv, MayLookup, Allocated
    <2>2. spoiled' = Keys \/ \A u \in Threads : \A h \in held'[u] : frames[h[1]] = h[2]
      <3>1. CASE spoiled = Keys
        BY <1>d, <3>1
      <3>2. CASE \A u \in Threads : \A h \in held[u] : frames[h[1]] = h[2]
        BY <1>b, <3>2
      <3> QED BY <1>0, <3>1, <3>2 DEF HeldInv
    <2>3. ASSUME NEW u \in Threads, key[u] = k
          PROVE  /\ pc[u] = "load" => k \in spoiled'
                 /\ pc[u] \in {"discard", "free"} => spoiled' = Keys
      <3>1. /\ pc[u] = "load" => InHand(k, "load")
            /\ pc[u] \in {"discard", "free"} => InHand(k, "discard") \/ InHand(k, "free")
        BY <1>0, <2>3, LoadingKey DEF LoadSteps
      <3>2. pc[u] \in {"discard", "free"} => ~InHand(k, "load")
        <4>1. InHand(k, "load") => \E v \in Threads : pc[v] = "load" /\ key[v] = k
          BY <1>0, LoadingKey DEF LoadSteps
        <4> QED BY <1>0, <2>3, <4>1, OneLocker DEF LockSteps
      <3>3. CASE InHand(k, "load")
        BY <1>a, <3>2, <3>3
      <3>4. CASE ~InHand(k, "load")
        BY <1>a, <3>1, <3>4
      <3> QED BY <3>3, <3>4
    <2> QED BY <1>0, <1>a, <1>b, <1>d, <2>1, <2>2, <2>3 DEF HeldInv
  <1>7. PinInv'
    <2>1. <<t, k>> \notin Holders(frames[k])
      BY DEF Holders, MayLookup
    <2> SUFFICES ASSUME NEW f \in Frames
                 PROVE  /\ IsFiniteSet(Holders(f)') /\ IsFiniteSet(Workers(f)') /\ IsFiniteSet(Headers(f)')
                        /\ pin'[f] >= Owners(f)'
                        /\ f \notin leaked' => pin'[f] = Owners(f)'
      BY DEF PinInv
    <2>2. Owners(f) \in Nat /\ pin[f] \in Nat
      BY <1>0, FS_CardinalityType DEF PinInv, Owners, TypeOK
    <2>3. CASE f # frames[k]
      BY <1>0, <1>a, <1>f, <2>3 DEF PinInv, Owners, TypeOK
    <2>4. CASE f = frames[k]
      <3>1. Holders(f)' = Holders(f) \cup {<<t, k>>} /\ <<t, k>> \notin Holders(f)
        BY <1>f, <2>1, <2>4
      <3>2. IsFiniteSet(Holders(f)') /\ Cardinality(Holders(f)') = Cardinality(Holders(f)) + 1
        BY <1>0, <3>1, FS_AddElement DEF PinInv
      <3>3. Owners(f)' = Owners(f) + 1
        BY <1>0, <1>f, <3>2, FS_CardinalityType DEF Owners, PinInv
      <3>4. pin'[f] = pin[f] + 1
        BY <1>0, <1>a, <2>4 DEF TypeOK
      <3> QED BY <1>0, <1>a, <1>f, <2>2, <3>2, <3>3, <3>4 DEF PinInv
    <2> QED BY <2>3, <2>4
  <1>8. DataInv'
    BY <1>0, <1>a, <1>b, <1>d DEF DataInv, Allocated, OnDisk
  <1>9. NoChangeLost'
    BY <1>0, <1>a, <1>b, <1>d DEF NoChangeLost, Loading, InHand, Allocated, OnDisk
  <1> QED BY <1>1, <1>2, <1>l, <1>3, <1>4, <1>5, <1>6, <1>7, <1>8, <1>9 DEF IInv

LEMMA GetThisPageStep ==
    ASSUME IInv, NEW t \in Threads, NEW k \in Keys, get_this_page(t, k) PROVE IInv'
  <1>1. MayLookup(t, k) /\ Lookup(t, k)
    BY DEF get_this_page, MayLookup, Ready
  <1> QED BY <1>1, LookupMiss, LookupHit

LEMMA GetStep ==
    ASSUME IInv, NEW t \in Threads, Get(t) PROVE IInv'
  <1>1. pc[t] = "get" /\ Lookup(t, key[t]) /\ key[t] \in Keys /\ mode[t] \in Modes
    BY DEF Get, IInv, TypeOK
  <1>2. mode[t] = "get"
    BY <1>1 DEF IInv, KeyInv, LockSteps, Modes
  <1>3. MayLookup(t, key[t])
    <2>1. Allocated(key[t]) /\ \A h \in held[t] : h[1] # key[t]
      BY <1>1, <1>2 DEF IInv, KeyInv
    <2>2. \A u \in Threads : pc[u] \in {"find", "drop"} => key[u] # key[t]
      BY <1>1 DEF IInv, DropInv
    <2> QED BY <1>1, <2>1, <2>2 DEF MayLookup
  <1> QED BY <1>1, <1>3, LookupMiss, LookupHit

LEMMA UnpinPageStep ==
    ASSUME IInv, NEW t \in Threads, NEW h \in held[t], unpin_page(t, h) PROVE IInv'
  <1> USE DEF memVars, fileVars, lockVars, threadVars
  <1>0. /\ TypeOK /\ LockInv /\ ForeignInv /\ KeyInv /\ DropInv /\ FrameInv /\ HeldInv /\ PinInv
        /\ DataInv /\ NoChangeLost
    BY DEF IInv
  <1>a. /\ pin' = [pin EXCEPT ![h[2]] = @ - 1]
        /\ held' = [held EXCEPT ![t] = @ \ {h}]
        /\ UNCHANGED <<leaked, frames, dirty, data, fileVars, opened, lockVars, threadVars, version,
                       spoiled, failures>>
    BY DEF unpin_page
  <1>b. \A u \in Threads : held'[u] = IF u = t THEN held[t] \ {h} ELSE held[u]
    BY <1>0, <1>a DEF TypeOK
  <1>c. h[2] \in Frames /\ h[1] \in Keys /\ h = <<h[1], h[2]>> /\ pin[h[2]] >= 1
    BY <1>0, HolderPins
  <1>d. \A u \in Threads : held'[u] \subseteq held[u]
    BY <1>b
  <1>f. \A f \in Frames :
          /\ Holders(f)' = IF f = h[2] THEN Holders(f) \ {<<t, h[1]>>} ELSE Holders(f)
          /\ Workers(f)' = Workers(f)
          /\ Headers(f)' = Headers(f)
    <2> SUFFICES ASSUME NEW f \in Frames
                 PROVE  /\ Holders(f)' = IF f = h[2] THEN Holders(f) \ {<<t, h[1]>>} ELSE Holders(f)
                        /\ Workers(f)' = Workers(f)
                        /\ Headers(f)' = Headers(f)
      OBVIOUS
    <2>1. Holders(f)' = IF f = h[2] THEN Holders(f) \ {<<t, h[1]>>} ELSE Holders(f)
      BY <1>b, <1>c DEF Holders
    <2>2. Workers(f)' = Workers(f)
      BY <1>a DEF Workers
    <2> QED BY <1>a, <2>1, <2>2 DEF Headers
  <1>1. TypeOK'
    <2>1. pin' \in [Frames -> Nat]
      BY <1>0, <1>a, <1>c DEF TypeOK
    <2>2. held' \in [Threads -> SUBSET (Keys \X Frames)]
      BY <1>0, <1>a DEF TypeOK
    <2> QED BY <1>0, <1>a, <2>1, <2>2 DEF TypeOK
  <1>2. LockInv'
    BY <1>0, <1>a DEF LockInv
  <1>l. ForeignInv'
    BY <1>0, <1>a, ForeignSame
  <1>3. KeyInv'
    BY <1>0, <1>a, <1>d DEF KeyInv, Allocated
  <1>4. DropInv'
    BY <1>0, <1>a, <1>d DEF DropInv
  <1>5. FrameInv'
    <2>1. \A u \in Threads, f \in Frames : pc[u] \in PurgeSteps /\ frame[u] = f =>
              Holders(f)' = {} /\ Headers(f)' = {} /\ Workers(f)' = {u}
      BY <1>0, <1>f DEF FrameInv
    <2> QED BY <1>0, <1>a, <2>1 DEF FrameInv, Used
  <1>6. HeldInv'
    BY <1>0, <1>a, <1>d DEF HeldInv, Allocated
  <1>7. PinInv'
    <2>1. <<t, h[1]>> \in Holders(h[2])
      BY <1>c DEF Holders
    <2> SUFFICES ASSUME NEW f \in Frames
                 PROVE  /\ IsFiniteSet(Holders(f)') /\ IsFiniteSet(Workers(f)') /\ IsFiniteSet(Headers(f)')
                        /\ pin'[f] >= Owners(f)'
                        /\ f \notin leaked' => pin'[f] = Owners(f)'
      BY DEF PinInv
    <2>2. Owners(f) \in Nat /\ pin[f] \in Nat
      <3>1. IsFiniteSet(Holders(f)) /\ IsFiniteSet(Workers(f)) /\ IsFiniteSet(Headers(f))
        BY <1>0 DEF PinInv
      <3>2. Cardinality(Holders(f)) \in Nat /\ Cardinality(Workers(f)) \in Nat /\ Cardinality(Headers(f)) \in Nat
        BY <3>1, FS_CardinalityType
      <3> QED BY <1>0, <3>2 DEF Owners, TypeOK
    <2>3. CASE f # h[2]
      BY <1>0, <1>a, <1>f, <2>3 DEF PinInv, Owners, TypeOK
    <2>4. CASE f = h[2]
      <3>1. Holders(f)' = Holders(f) \ {<<t, h[1]>>} /\ <<t, h[1]>> \in Holders(f)
        BY <1>f, <2>1, <2>4
      <3>f. IsFiniteSet(Holders(f))
        BY <1>0 DEF PinInv
      <3>2. IsFiniteSet(Holders(f)') /\ Cardinality(Holders(f)') = Cardinality(Holders(f)) - 1
        BY <3>1, <3>f, FS_RemoveElement
      <3>3. Owners(f)' = Owners(f) - 1
        BY <1>0, <1>f, <3>2, FS_CardinalityType DEF Owners, PinInv
      <3>4. pin'[f] = pin[f] - 1
        BY <1>0, <1>a, <2>4 DEF TypeOK
      <3> QED BY <1>0, <1>a, <1>f, <2>2, <3>2, <3>3, <3>4 DEF PinInv
    <2> QED BY <2>3, <2>4
  <1>8. DataInv'
    BY <1>0, <1>a DEF DataInv, Allocated, OnDisk
  <1>9. NoChangeLost'
    BY <1>0, <1>a DEF NoChangeLost, Loading, InHand, Allocated, OnDisk
  <1> QED BY <1>1, <1>2, <1>l, <1>3, <1>4, <1>5, <1>6, <1>7, <1>8, <1>9 DEF IInv

(* A page that is held is loaded, or spoiled. *)
LEMMA WriteStep ==
    ASSUME IInv, NEW t \in Threads, NEW h \in held[t], Write(t, h) PROVE IInv'
  <1> USE DEF memVars, fileVars, lockVars, threadVars
  <1>0. /\ TypeOK /\ LockInv /\ ForeignInv /\ KeyInv /\ DropInv /\ FrameInv /\ HeldInv /\ PinInv
        /\ DataInv /\ NoChangeLost
    BY DEF IInv
  <1>a. /\ version' = [version EXCEPT ![h[1]] = @ + 1] /\ version[h[1]] < WriteBound
        /\ data' = [data EXCEPT ![h[2]] = <<h[1], version[h[1]] + 1>>]
        /\ dirty' = dirty \cup {h[2]}
        /\ UNCHANGED <<leaked, frames, pin, fileVars, opened, lockVars, threadVars, held, spoiled,
                       failures>>
    BY DEF Write
  <1>c. h[2] \in Frames /\ h[1] \in Keys /\ h = <<h[1], h[2]>>
    BY <1>0, HolderPins
  <1>d. version[h[1]] + 1 \in 0 .. WriteBound /\ version[h[1]] + 1 \in Versions
    BY <1>0, <1>a, <1>c, PoolAssumption DEF TypeOK, Versions
  <1>e. \A f \in Frames :
               /\ Holders(f)' = Holders(f) /\ Workers(f)' = Workers(f) /\ Headers(f)' = Headers(f)
               /\ Owners(f)' = Owners(f)
    <2>1. \A f \in Frames : Workers(f)' = Workers(f)
      BY <1>a DEF Workers
    <2> QED BY <1>a, <2>1, OwnersKept
  <1>f. Allocated(h[1])
    BY <1>0 DEF HeldInv
  <1>1. TypeOK'
    <2>1. version' \in [Keys -> 0 .. WriteBound]
      BY <1>0, <1>a, <1>d DEF TypeOK
    <2>2. data' \in [Frames -> Contents]
      BY <1>0, <1>a, <1>c, <1>d DEF TypeOK, Contents
    <2> QED BY <1>0, <1>a, <1>c, <2>1, <2>2 DEF TypeOK
  <1>2. LockInv'
    BY <1>0, <1>a DEF LockInv
  <1>l. ForeignInv'
    BY <1>0, <1>a, ForeignSame
  <1>3. KeyInv'
    BY <1>0, <1>a DEF KeyInv, Allocated
  <1>4. DropInv'
    BY <1>0, <1>a DEF DropInv
  <1>5. FrameInv'
    BY <1>0, <1>a, <1>e DEF FrameInv, Used
  <1>6. HeldInv'
    BY <1>0, <1>a DEF HeldInv, Allocated
  <1>7. PinInv'
    BY <1>0, <1>a, <1>e DEF PinInv
  <1>8. DataInv'
    <2>1. \A k \in Keys : k # h[1] => version'[k] = version[k]
      BY <1>0, <1>a DEF TypeOK
    <2>2. ~(h[1][2] > page_count[h[1][1]])
      <3>1. h[1][1] \in Pools
        BY <1>c, KeyParts
      <3> QED BY <1>0, <1>f, <3>1 DEF TypeOK, Allocated
    <2> QED BY <1>0, <1>a, <1>f, <2>1, <2>2 DEF DataInv, Allocated, OnDisk
  <1>9. NoChangeLost'
    <2> SUFFICES ASSUME NEW k \in Keys \ spoiled, Allocated(k)
                 PROVE  /\ frames[k] = NoFrame \/ Loading(k) => OnDisk(k)'
                        /\ frames[k] # NoFrame /\ ~Loading(k) =>
                              data'[frames[k]] = <<k, version'[k]>> /\ (frames[k] \in dirty' \/ OnDisk(k)')
      BY <1>a DEF NoChangeLost, Loading, InHand, Allocated
    <2>1. spoiled # Keys /\ frames[h[1]] = h[2]
      BY <1>0 DEF HeldInv
    <2>2. CASE k # h[1]
      <3>1. version'[k] = version[k] /\ frames[k] # h[2]
        BY <1>0, <1>a, <1>c, <2>1, <2>2, PoolAssumption DEF TypeOK, FrameInv
      <3>2. frames[k] # NoFrame => frames[k] \in Frames
        BY <1>0 DEF TypeOK
      <3>3. frames[k] # NoFrame => data'[frames[k]] = data[frames[k]]
        BY <1>0, <1>a, <3>1, <3>2 DEF TypeOK
      <3> QED BY <1>0, <1>a, <3>1, <3>3 DEF NoChangeLost, OnDisk
    <2>3. CASE k = h[1]
      <3>1. ~Loading(k)
        BY <1>0, <2>1, <2>3, LoadingKey DEF HeldInv, LoadSteps
      <3>2. data'[frames[k]] = <<k, version'[k]>> /\ frames[k] \in dirty'
        BY <1>0, <1>a, <1>c, <2>1, <2>3 DEF TypeOK
      <3>3. frames[k] # NoFrame
        BY <1>c, <2>1, <2>3, PoolAssumption
      <3> QED BY <3>1, <3>2, <3>3
    <2> QED BY <2>2, <2>3
  <1> QED BY <1>1, <1>2, <1>l, <1>3, <1>4, <1>5, <1>6, <1>7, <1>8, <1>9 DEF IInv

-----------------------------------------------------------------------------
(* A thread gets, moves or gives back the pin of a frame it works on. *)

LEMMA WorkerAdded ==
    ASSUME TypeOK, PinInv, NEW t \in Threads, NEW g \in Frames, t \notin Workers(g),
           \A f \in Frames :
               /\ Workers(f)' = IF f = g THEN Workers(f) \cup {t} ELSE Workers(f)
               /\ Holders(f)' = Holders(f) /\ Headers(f)' = Headers(f),
           pin' = [pin EXCEPT ![g] = @ + 1], leaked' = leaked
    PROVE  PinInv'
  <1> SUFFICES ASSUME NEW f \in Frames
               PROVE  /\ IsFiniteSet(Holders(f)') /\ IsFiniteSet(Workers(f)') /\ IsFiniteSet(Headers(f)')
                      /\ pin'[f] >= Owners(f)'
                      /\ f \notin leaked => pin'[f] = Owners(f)'
    BY DEF PinInv
  <1>1. Owners(f) \in Nat /\ pin[f] \in Nat
    BY FS_CardinalityType DEF PinInv, Owners, TypeOK
  <1>2. CASE f # g
    BY <1>2 DEF PinInv, Owners, TypeOK
  <1>3. CASE f = g
    <2>1. IsFiniteSet(Workers(f)') /\ Cardinality(Workers(f)') = Cardinality(Workers(f)) + 1
      BY <1>3, FS_AddElement DEF PinInv
    <2>2. Owners(f)' = Owners(f) + 1
      BY <2>1, FS_CardinalityType DEF Owners, PinInv
    <2>3. pin'[f] = pin[f] + 1
      BY <1>3 DEF TypeOK
    <2> QED BY <1>1, <2>1, <2>2, <2>3 DEF PinInv
  <1> QED BY <1>2, <1>3

LEMMA WorkerRemoved ==
    ASSUME TypeOK, PinInv, NEW t \in Threads, NEW g \in Frames, t \in Workers(g),
           \A f \in Frames :
               /\ Workers(f)' = IF f = g THEN Workers(f) \ {t} ELSE Workers(f)
               /\ Holders(f)' = Holders(f) /\ Headers(f)' = Headers(f),
           \/ pin' = [pin EXCEPT ![g] = @ - 1] /\ leaked' = leaked
           \/ pin' = pin /\ leaked' = leaked \cup {g}
    PROVE  PinInv'
  <1> SUFFICES ASSUME NEW f \in Frames
               PROVE  /\ IsFiniteSet(Holders(f)') /\ IsFiniteSet(Workers(f)') /\ IsFiniteSet(Headers(f)')
                      /\ pin'[f] >= Owners(f)'
                      /\ f \notin leaked' => pin'[f] = Owners(f)'
    BY DEF PinInv
  <1>1. Owners(f) \in Nat /\ pin[f] \in Nat
    BY FS_CardinalityType DEF PinInv, Owners, TypeOK
  <1>2. CASE f # g
    BY <1>2 DEF PinInv, Owners, TypeOK
  <1>3. CASE f = g
    <2>1. IsFiniteSet(Workers(f)') /\ Cardinality(Workers(f)') = Cardinality(Workers(f)) - 1
      BY <1>3, FS_RemoveElement DEF PinInv
    <2>2. Owners(f)' = Owners(f) - 1
      BY <2>1, FS_CardinalityType DEF Owners, PinInv
    <2>3. (pin'[f] = pin[f] - 1 /\ leaked' = leaked) \/ (pin'[f] = pin[f] /\ f \in leaked')
      BY <1>3 DEF TypeOK
    <2> QED BY <1>1, <2>1, <2>2, <2>3 DEF PinInv
  <1> QED BY <1>2, <1>3

LEMMA WorkerMoved ==
    ASSUME TypeOK, PinInv, NEW t \in Threads, NEW g \in Frames, t \in Workers(g), NEW x,
           \A f \in Frames : Workers(f)' = IF f = g THEN Workers(f) \ {t} ELSE Workers(f),
           \/ /\ x \notin Holders(g)
              /\ \A f \in Frames :
                    /\ Holders(f)' = IF f = g THEN Holders(f) \cup {x} ELSE Holders(f)
                    /\ Headers(f)' = Headers(f)
           \/ /\ x \notin Headers(g)
              /\ \A f \in Frames :
                    /\ Headers(f)' = IF f = g THEN Headers(f) \cup {x} ELSE Headers(f)
                    /\ Holders(f)' = Holders(f),
           UNCHANGED <<pin, leaked>>
    PROVE  PinInv'
  <1> SUFFICES ASSUME NEW f \in Frames
               PROVE  /\ IsFiniteSet(Holders(f)') /\ IsFiniteSet(Workers(f)') /\ IsFiniteSet(Headers(f)')
                      /\ Owners(f)' = Owners(f)
    BY DEF PinInv
  <1>1. CASE f # g
    BY <1>1 DEF PinInv, Owners
  <1>2. CASE f = g
    <2>1. IsFiniteSet(Workers(f)') /\ Cardinality(Workers(f)') = Cardinality(Workers(f)) - 1
      BY <1>2, FS_RemoveElement DEF PinInv
    <2>2. \/ /\ IsFiniteSet(Holders(f)') /\ Cardinality(Holders(f)') = Cardinality(Holders(f)) + 1
             /\ Headers(f)' = Headers(f)
          \/ /\ IsFiniteSet(Headers(f)') /\ Cardinality(Headers(f)') = Cardinality(Headers(f)) + 1
             /\ Holders(f)' = Holders(f)
      BY <1>2, FS_AddElement DEF PinInv
    <2>3. /\ IsFiniteSet(Holders(f)) /\ IsFiniteSet(Workers(f)) /\ IsFiniteSet(Headers(f))
          /\ Cardinality(Holders(f)) \in Nat /\ Cardinality(Workers(f)) \in Nat /\ Cardinality(Headers(f)) \in Nat
      BY FS_CardinalityType DEF PinInv
    <2> QED BY <2>1, <2>2, <2>3 DEF Owners
  <1> QED BY <1>1, <1>2

(* Threads that are not about the header of an open file. *)
LEMMA NotAHeader ==
    ASSUME TypeOK, KeyInv, NEW t \in Threads, pc[t] # "idle", NEW b \in opened
    PROVE  key[t] # Header(b)
  <1>1. b \in Pools /\ key[t] \in Keys /\ mode[t] \in Modes
    BY DEF TypeOK
  <1>2. Header(b)[1] = b /\ Header(b)[2] = 0
    BY <1>1, SomeKey
  <1>3. key[t][1] \in Pools
    BY <1>1, KeyParts
  <1>4. page_count[key[t][1]] \in Nat /\ allocated[key[t][1]] \subseteq 1 .. page_count[key[t][1]]
    BY <1>3 DEF TypeOK
  <1>5. CASE mode[t] = "get"
    BY <1>2, <1>4, <1>5 DEF KeyInv, Allocated
  <1>6. CASE mode[t] = "open"
    BY <1>2, <1>6 DEF KeyInv
  <1>7. CASE mode[t] = "append"
    BY <1>2, <1>4, <1>7 DEF KeyInv, Allocated
  <1> QED BY <1>1, <1>5, <1>6, <1>7 DEF Modes

-----------------------------------------------------------------------------
(* BPFrameManager::alloc. *)

(* Somebody was faster: the page has a frame, and is spoiled. *)
LEMMA AllocFound ==
    ASSUME IInv, NEW t \in Threads, alloc(t), frames[key[t]] # NoFrame PROVE IInv'
  <1> USE DEF memVars, fileVars, lockVars, Goto, get_internal
  <1>0. /\ TypeOK /\ LockInv /\ ForeignInv /\ KeyInv /\ DropInv /\ FrameInv /\ HeldInv /\ PinInv
        /\ DataInv /\ NoChangeLost
    BY DEF IInv
  <1>k. PICK k \in Keys : k = key[t]
    BY <1>0 DEF TypeOK
  <1>g. PICK g \in Frames : g = frames[k]
    BY <1>0, <1>k DEF TypeOK
  <1>a. /\ pc' = [pc EXCEPT ![t] = "load"] /\ pc[t] = "alloc" /\ frame_lock = NoThread
        /\ frame' = [frame EXCEPT ![t] = g]
        /\ pin' = [pin EXCEPT ![g] = @ + 1]
        /\ spoiled' = spoiled \cup {k}
        /\ UNCHANGED <<frames, leaked, dirty, data, fileVars, opened, lockVars, mode, key, held,
                       version, failures>>
    BY <1>k, <1>g DEF alloc
  <1>b. \A u \in Threads :
          /\ pc'[u] = IF u = t THEN "load" ELSE pc[u]
          /\ frame'[u] = IF u = t THEN g ELSE frame[u]
    BY <1>0, <1>a DEF TypeOK
  <1>c. \A u \in Threads : pc[u] \notin PurgeSteps
    BY <1>0, <1>a, PoolAssumption DEF LockInv
  <1>1. TypeOK'
    BY <1>0, <1>a DEF TypeOK, Steps
  <1>2. LockInv'
    BY <1>0, <1>a, <1>b DEF LockInv, LockSteps, PurgeSteps, WriteSteps
  <1>l. ForeignInv'
    BY <1>0, <1>a, <1>b, ForeignKept, PoolAssumption DEF LockSteps, PurgeSteps
  <1>3. KeyInv'
    BY <1>0, <1>a, <1>b DEF KeyInv, LockSteps, Allocated
  <1>4. DropInv'
    BY <1>0, <1>a, <1>b DEF DropInv
  <1>5. FrameInv'
    BY <1>0, <1>k, <1>g, <1>a, <1>b, <1>c DEF FrameInv, PurgeSteps, PageSteps
  <1>6. HeldInv'
    <2>1. spoiled = Keys => spoiled' = Keys
      BY <1>a
    <2> QED BY <1>0, <1>k, <1>a, <1>b, <2>1 DEF HeldInv, Allocated
  <1>7. PinInv'
    <2>1. \A f \in Frames : Workers(f)' = IF f = g THEN Workers(f) \cup {t} ELSE Workers(f)
      BY <1>a, <1>b DEF Workers
    <2>2. t \notin Workers(g)
      BY <1>a DEF Workers
    <2>3. \A f \in Frames : Holders(f)' = Holders(f) /\ Headers(f)' = Headers(f)
      BY <1>a DEF Holders, Headers
    <2> QED BY <1>0, <1>a, <2>1, <2>2, <2>3, WorkerAdded
  <1>8. DataInv'
    BY <1>0, <1>a, <1>b DEF DataInv, Allocated, OnDisk
  <1>9. NoChangeLost'
    <2>1. ASSUME NEW l \in Keys, l # k PROVE Loading(l)' <=> Loading(l)
      <3>1. frames[l] # g
        BY <1>0, <1>g, <2>1, PoolAssumption DEF FrameInv
      <3> QED BY <1>a, <1>b, <3>1 DEF Loading, InHand
    <2> QED BY <1>0, <1>a, <2>1 DEF NoChangeLost, Allocated, OnDisk
  <1> QED BY <1>1, <1>2, <1>l, <1>3, <1>4, <1>5, <1>6, <1>7, <1>8, <1>9 DEF IInv

LEMMA AllocFree ==
    ASSUME IInv, NEW t \in Threads, alloc(t), frames[key[t]] = NoFrame, Goto(t, "load") PROVE IInv'
  <1> USE DEF memVars, fileVars, lockVars, Goto, get_internal
  <1>0. /\ TypeOK /\ LockInv /\ ForeignInv /\ KeyInv /\ DropInv /\ FrameInv /\ HeldInv /\ PinInv
        /\ DataInv /\ NoChangeLost
    BY DEF IInv
  <1>k. PICK k \in Keys : k = key[t]
    BY <1>0 DEF TypeOK
  <1>g. PICK g \in Free : frames' = [frames EXCEPT ![k] = g] /\ frame' = [frame EXCEPT ![t] = g]
                          /\ pin' = [pin EXCEPT ![g] = @ + 1]
    <2>1. pc[t] = "alloc" /\ pc' = [pc EXCEPT ![t] = "load"] /\ pc \in [Threads -> Steps]
      BY <1>0 DEF alloc, TypeOK
    <2>2. pc' # [pc EXCEPT ![t] = "purge"]
      BY <2>1
    <2> QED BY <1>k, <2>2 DEF alloc
  <1>h. g \in Frames /\ \A l \in Keys : frames[l] # g
    BY <1>g, PoolAssumption DEF Free, Used
  <1>a. /\ pc' = [pc EXCEPT ![t] = "load"] /\ pc[t] = "alloc" /\ frame_lock = NoThread
        /\ frames[k] = NoFrame
        /\ UNCHANGED <<leaked, dirty, data, fileVars, opened, lockVars, mode, key, held,
                       version, failures>>
    BY <1>k DEF alloc
  <1>s. UNCHANGED spoiled
    BY <1>k, <1>a DEF alloc
  <1>b. \A u \in Threads :
          /\ pc'[u] = IF u = t THEN "load" ELSE pc[u]
          /\ frame'[u] = IF u = t THEN g ELSE frame[u]
    BY <1>0, <1>g, <1>a DEF TypeOK
  <1>c. \A u \in Threads : pc[u] \notin PurgeSteps
    BY <1>0, <1>a, PoolAssumption DEF LockInv
  <1>d. \A l \in Keys : frames'[l] = IF l = k THEN g ELSE frames[l]
    BY <1>0, <1>g DEF TypeOK
  <1>1. TypeOK'
    BY <1>0, <1>a, <1>g, <1>h, <1>s DEF TypeOK, Steps
  <1>2. LockInv'
    BY <1>0, <1>a, <1>b DEF LockInv, LockSteps, PurgeSteps, WriteSteps
  <1>l. ForeignInv'
    BY <1>0, <1>a, <1>b, <1>d, ForeignKept, PoolAssumption DEF LockSteps, PurgeSteps
  <1>3. KeyInv'
    BY <1>0, <1>a, <1>b DEF KeyInv, LockSteps, Allocated
  <1>4. DropInv'
    BY <1>0, <1>a, <1>b DEF DropInv
  <1>5. FrameInv'
    <2>1. ASSUME NEW u \in Threads, pc'[u] \in PageSteps
          PROVE  frame'[u] \in Frames /\ frames'[key[u]] = frame'[u]
      <3>1. CASE u = t
        BY <1>k, <1>b, <1>d, <1>h, <3>1
      <3>2. CASE u # t
        BY <1>0, <1>a, <1>b, <1>d, <2>1, <3>2, PoolAssumption DEF FrameInv, TypeOK
      <3> QED BY <3>1, <3>2
    <2>2. \A l, m \in Keys : l # m /\ frames'[l] # NoFrame => frames'[l] # frames'[m]
      BY <1>0, <1>d, <1>h DEF FrameInv
    <2>3. \A u \in Threads : pc'[u] \notin PurgeSteps
      BY <1>b, <1>c DEF PurgeSteps
    <2> QED BY <1>a, <2>1, <2>2, <2>3 DEF FrameInv
  <1>6. HeldInv'
    <2>1. spoiled # Keys => \A u \in Threads : \A h \in held[u] : h[1] \in Keys /\ h[2] \in Frames /\ h[1] # k
      BY <1>0, <1>a, PoolAssumption DEF HeldInv, TypeOK
    <2>2. spoiled = Keys \/ \A u \in Threads : \A h \in held[u] : frames'[h[1]] = h[2]
      BY <1>0, <1>d, <2>1 DEF HeldInv
    <2>3. ASSUME NEW v \in Threads, NEW u \in Threads, NEW h \in held[u], h[1] = key[v]
          PROVE  /\ pc'[v] = "load" => key[v] \in spoiled
                 /\ pc'[v] \in {"discard", "free"} => spoiled = Keys
      BY <1>0, <1>k, <1>b, <2>1, <2>3 DEF HeldInv
    <2> QED BY <1>0, <1>a, <1>s, <2>2, <2>3 DEF HeldInv, Allocated
  <1>7. PinInv'
    <2>1. \A f \in Frames : Workers(f)' = IF f = g THEN Workers(f) \cup {t} ELSE Workers(f)
      BY <1>a, <1>b DEF Workers
    <2>2. t \notin Workers(g)
      BY <1>a DEF Workers
    <2>3. \A b \in opened : Header(b) \in Keys /\ frames'[Header(b)] = frames[Header(b)]
      BY <1>0, <1>k, <1>a, <1>d, NotAHeader, SomeKey DEF TypeOK
    <2>4. \A f \in Frames : Holders(f)' = Holders(f) /\ Headers(f)' = Headers(f)
      BY <1>a, <2>3 DEF Holders, Headers
    <2> QED BY <1>0, <1>a, <1>g, <1>h, <2>1, <2>2, <2>4, WorkerAdded
  <1>p. /\ k[2] > page_count[k[1]] => mode[t] = "append"
        /\ k[2] > 0 /\ k[2] <= page_count[k[1]] => Allocated(k)
    <2>1. k[1] \in Pools /\ k[2] \in Nat /\ mode[t] \in Modes
      BY <1>0, KeyParts DEF TypeOK
    <2>2. page_count[k[1]] \in Nat /\ allocated[k[1]] \subseteq 1 .. page_count[k[1]]
      BY <1>0, <2>1 DEF TypeOK
    <2> QED BY <1>0, <1>k, <1>a, <2>1, <2>2 DEF KeyInv, Allocated, Modes
  <1>8. DataInv'
    <2> SUFFICES ASSUME NEW l \in Keys \ spoiled, l[2] > 0
                 PROVE  /\ disk[l][1] = l
                        /\ l[2] > page_count[l[1]] =>
                              /\ version[l] = 0 /\ disk[l][2] = -1
                              /\ frames'[l] # NoFrame =>
                                    \E u \in Threads : pc'[u] = "load" /\ mode[u] = "append" /\ key[u] = l
                        /\ l[2] <= page_count[l[1]] /\ ~Allocated(l) => frames'[l] = NoFrame /\ OnDisk(l)
      BY <1>a, <1>s DEF DataInv, Allocated, OnDisk
    <2>1. CASE l = k
      BY <1>0, <1>k, <1>b, <1>p, <2>1 DEF DataInv
    <2>2. CASE l # k
      BY <1>0, <1>b, <1>d, <2>2 DEF DataInv
    <2> QED BY <2>1, <2>2
  <1>9. NoChangeLost'
    <2>1. ASSUME NEW l \in Keys, l # k PROVE Loading(l)' <=> Loading(l)
      BY <1>a, <1>b, <1>d, <1>h, <2>1 DEF Loading, InHand
    <2>2. Loading(k)'
      BY <1>b, <1>d DEF Loading, InHand
    <2> QED BY <1>0, <1>a, <1>s, <1>d, <2>1, <2>2 DEF NoChangeLost, Allocated, OnDisk
  <1> QED BY <1>1, <1>2, <1>l, <1>3, <1>4, <1>5, <1>6, <1>7, <1>8, <1>9 DEF IInv

LEMMA AllocNone ==
    ASSUME IInv, NEW t \in Threads, alloc(t), frames[key[t]] = NoFrame, Goto(t, "purge") PROVE IInv'
  <1> USE DEF memVars, fileVars, lockVars, Goto
  <1>0. /\ TypeOK /\ LockInv /\ ForeignInv /\ KeyInv /\ DropInv /\ FrameInv /\ HeldInv /\ DataInv
        /\ NoChangeLost
    BY DEF IInv
  <1>a. /\ pc' = [pc EXCEPT ![t] = "purge"] /\ pc[t] = "alloc"
        /\ UNCHANGED <<memVars, frame, leaked, fileVars, opened, lockVars, mode, key, held,
                       version, spoiled, failures>>
    <2>1. pc[t] = "alloc" /\ pc' = [pc EXCEPT ![t] = "purge"] /\ pc \in [Threads -> Steps]
      BY <1>0 DEF alloc, TypeOK
    <2>2. pc' # [pc EXCEPT ![t] = "load"]
      BY <2>1
    <2> QED BY <2>1, <2>2 DEF alloc
  <1>b. \A u \in Threads : pc'[u] = IF u = t THEN "purge" ELSE pc[u]
    BY <1>0, <1>a DEF TypeOK
  <1>1. TypeOK'
    BY <1>0, <1>a DEF TypeOK, Steps
  <1>2. LockInv'
    BY <1>0, <1>a, <1>b DEF LockInv, LockSteps, PurgeSteps, WriteSteps
  <1>l. ForeignInv'
    BY <1>0, <1>a, <1>b, ForeignKept, PoolAssumption DEF LockSteps, PurgeSteps
  <1>3. KeyInv'
    BY <1>0, <1>a, <1>b DEF KeyInv, LockSteps, Allocated
  <1>4. DropInv'
    BY <1>0, <1>a, <1>b DEF DropInv
  <1>5. FrameInv' /\ PinInv'
    BY <1>0, <1>a, GotoKept DEF PurgeSteps, PageSteps, Steps, TypeOK
  <1>6. HeldInv'
    BY <1>0, <1>a, <1>b DEF HeldInv, Allocated
  <1>7. DataInv'
    BY <1>0, <1>a, <1>b DEF DataInv, Allocated, OnDisk
  <1>8. NoChangeLost'
    <2>1. \A l \in Keys : Loading(l)' <=> Loading(l)
      BY <1>a, <1>b DEF Loading, InHand
    <2> QED BY <1>0, <1>a, <2>1 DEF NoChangeLost, Allocated, OnDisk
  <1> QED BY <1>1, <1>2, <1>l, <1>3, <1>4, <1>5, <1>6, <1>7, <1>8 DEF IInv

LEMMA AllocStep ==
    ASSUME IInv, NEW t \in Threads, alloc(t) PROVE IInv'
  <1>1. frames[key[t]] = NoFrame => Goto(t, "load") \/ Goto(t, "purge")
    BY DEF alloc
  <1> QED BY <1>1, AllocFound, AllocFree, AllocNone

-----------------------------------------------------------------------------
(* BPFrameManager::purge_frames and flush_page. *)

LEMMA PurgeNothing ==
    ASSUME IInv, NEW t \in Threads, purge_frames(t), Goto(t, "alloc"),
           UNCHANGED <<frames, pin, data, frame_lock, frame>>
    PROVE  IInv'
  <1> USE DEF memVars, fileVars, lockVars, Goto
  <1>0. /\ TypeOK /\ LockInv /\ ForeignInv /\ KeyInv /\ DropInv /\ FrameInv /\ HeldInv /\ DataInv
        /\ NoChangeLost
    BY DEF IInv
  <1>a. /\ pc' = [pc EXCEPT ![t] = "alloc"] /\ pc[t] = "purge"
        /\ UNCHANGED <<memVars, frame, leaked, fileVars, opened, lockVars, mode, key, held,
                       version, spoiled, failures>>
    BY DEF purge_frames
  <1>b. \A u \in Threads : pc'[u] = IF u = t THEN "alloc" ELSE pc[u]
    BY <1>0, <1>a DEF TypeOK
  <1>1. TypeOK'
    BY <1>0, <1>a DEF TypeOK, Steps
  <1>2. LockInv'
    BY <1>0, <1>a, <1>b DEF LockInv, LockSteps, PurgeSteps, WriteSteps
  <1>l. ForeignInv'
    BY <1>0, <1>a, <1>b, ForeignKept, PoolAssumption DEF LockSteps, PurgeSteps
  <1>3. KeyInv'
    BY <1>0, <1>a, <1>b DEF KeyInv, LockSteps, Allocated
  <1>4. DropInv'
    BY <1>0, <1>a, <1>b DEF DropInv
  <1>5. FrameInv' /\ PinInv'
    BY <1>0, <1>a, GotoKept DEF PurgeSteps, PageSteps, Steps, TypeOK
  <1>6. HeldInv'
    BY <1>0, <1>a, <1>b DEF HeldInv, Allocated
  <1>7. DataInv'
    BY <1>0, <1>a, <1>b DEF DataInv, Allocated, OnDisk
  <1>8. NoChangeLost'
    <2>1. \A l \in Keys : Loading(l)' <=> Loading(l)
      BY <1>a, <1>b DEF Loading, InHand
    <2> QED BY <1>0, <1>a, <2>1 DEF NoChangeLost, Allocated, OnDisk
  <1> QED BY <1>1, <1>2, <1>l, <1>3, <1>4, <1>5, <1>6, <1>7, <1>8 DEF IInv

(* A frame nobody loads a page into is freed, written before if dirty. *)
LEMMA FreedData ==
    ASSUME TypeOK, FrameInv, DataInv, NoChangeLost,
           NEW k \in Keys, frames[k] # NoFrame,
           \A u \in Threads : pc[u] \in LoadSteps => key[u] # k,
           frames' = [frames EXCEPT ![k] = NoFrame],
           data' = [data EXCEPT ![frames[k]] = Garbage],
           \/ disk' = disk /\ dirty' = dirty /\ frames[k] \notin dirty
           \/ disk' = [disk EXCEPT ![k] = data[frames[k]]] /\ dirty' = dirty \ {frames[k]},
           \A u \in Threads :
               /\ pc'[u] \in LoadSteps \/ pc[u] \in LoadSteps => pc'[u] = pc[u]
               /\ pc[u] \in LoadSteps => frame'[u] = frame[u],
           UNCHANGED <<mode, key, version, spoiled, allocated, page_count>>
    PROVE  DataInv' /\ NoChangeLost'
  <1>1. k \notin spoiled /\ k[2] > 0 => Allocated(k)
    <2>1. k[1] \in Pools /\ k[2] \in Nat
      BY KeyParts
    <2>2. page_count[k[1]] \in Nat
      BY <2>1 DEF TypeOK
    <2> QED BY <2>1, <2>2 DEF DataInv, LoadSteps
  <1>2. Allocated(k) /\ k \notin spoiled =>
            data[frames[k]] = <<k, version[k]>> /\ (frames[k] \in dirty \/ OnDisk(k))
    BY LoadingKey DEF NoChangeLost
  <1>3. Allocated(k) /\ k \notin spoiled => OnDisk(k)' /\ disk'[k][1] = k
    <2>1. k[2] > 0 \/ ~Allocated(k)
      <3>1. k[1] \in Pools /\ k[2] \in Nat
        BY KeyParts
      <3> QED BY <3>1 DEF TypeOK, Allocated
    <2>2. CASE disk' = disk /\ frames[k] \notin dirty
      BY <1>2, <2>1, <2>2 DEF OnDisk, DataInv
    <2>3. CASE disk' = [disk EXCEPT ![k] = data[frames[k]]]
      BY <1>2, <2>3 DEF OnDisk, TypeOK
    <2> QED BY <2>2, <2>3
  <1>4. \A l \in Keys : l # k => frames'[l] = frames[l] /\ disk'[l] = disk[l]
    BY DEF TypeOK
  <1>5. frames'[k] = NoFrame
    BY DEF TypeOK
  <1>6. ASSUME NEW l \in Keys, l # k, frames[l] # NoFrame
        PROVE  data'[frames[l]] = data[frames[l]] /\ (frames[l] \in dirty => frames[l] \in dirty')
    <2>1. frames[l] # frames[k] /\ frames[l] \in Frames
      BY <1>6 DEF FrameInv, TypeOK
    <2> QED BY <2>1 DEF TypeOK
  <1>7. ASSUME NEW l \in Keys, l # k PROVE Loading(l)' <=> Loading(l)
    BY <1>4, <1>7 DEF Loading, InHand, LoadSteps
  <1>8. DataInv'
    <2> SUFFICES ASSUME NEW l \in Keys \ spoiled, l[2] > 0
                 PROVE  /\ disk'[l][1] = l
                        /\ l[2] > page_count[l[1]] =>
                              /\ version[l] = 0 /\ disk'[l][2] = -1
                              /\ frames'[l] # NoFrame =>
                                    \E u \in Threads : pc'[u] = "load" /\ mode[u] = "append" /\ key[u] = l
                        /\ l[2] <= page_count[l[1]] /\ ~Allocated(l) => frames'[l] = NoFrame /\ OnDisk(l)'
      BY DEF DataInv, Allocated
    <2>1. CASE l = k
      <3>1. Allocated(k) /\ k[1] \in Pools
        BY <1>1, <2>1, KeyParts
      <3>2. ~(k[2] > page_count[k[1]])
        BY <3>1 DEF TypeOK, Allocated
      <3> QED BY <1>3, <2>1, <3>1, <3>2
    <2>2. CASE l # k
      BY <1>4, <2>2 DEF DataInv, OnDisk, LoadSteps
    <2> QED BY <2>1, <2>2
  <1>9. NoChangeLost'
    <2> SUFFICES ASSUME NEW l \in Keys \ spoiled, Allocated(l)
                 PROVE  /\ frames'[l] = NoFrame \/ Loading(l)' => OnDisk(l)'
                        /\ frames'[l] # NoFrame /\ ~Loading(l)' =>
                              data'[frames'[l]] = <<l, version[l]>> /\ (frames'[l] \in dirty' \/ OnDisk(l)')
      BY DEF NoChangeLost, Allocated
    <2>1. CASE l = k
      BY <1>3, <1>5, <2>1
    <2>2. CASE l # k
      BY <1>4, <1>6, <1>7, <2>2 DEF NoChangeLost, OnDisk
    <2> QED BY <2>1, <2>2
  <1> QED BY <1>8, <1>9

(* The page of a frame nobody loads a page into is written. *)
LEMMA WrittenData ==
    ASSUME TypeOK, FrameInv, DataInv, NoChangeLost,
           NEW k \in Keys, frames[k] # NoFrame, ~Loading(k), ~Loading(k)',
           \A u \in Threads : pc[u] = "load" => key[u] # k,
           disk' = [disk EXCEPT ![k] = data[frames[k]]],
           dirty' = dirty \/ dirty' = dirty \ {frames[k]},
           spoiled \subseteq spoiled',
           \A l \in Keys : l # k => (Loading(l)' <=> Loading(l)),
           \A u \in Threads : pc[u] = "load" =>
               pc'[u] = "load" /\ mode'[u] = mode[u] /\ key'[u] = key[u],
           UNCHANGED <<frames, data, version, allocated, page_count>>
    PROVE  DataInv' /\ NoChangeLost'
  <1>0. k[1] \in Pools /\ k[2] \in Nat /\ page_count[k[1]] \in Nat
    BY KeyParts DEF TypeOK
  <1>1. k \notin spoiled /\ k[2] > 0 => Allocated(k)
    BY <1>0 DEF DataInv
  <1>2. Allocated(k) => k[2] > 0 /\ ~(k[2] > page_count[k[1]])
    BY <1>0 DEF TypeOK, Allocated
  <1>3. Allocated(k) /\ k \notin spoiled => data[frames[k]] = <<k, version[k]>>
    BY DEF NoChangeLost
  <1>4. disk'[k] = data[frames[k]] /\ \A l \in Keys : l # k => disk'[l] = disk[l]
    BY DEF TypeOK
  <1>5. Allocated(k) /\ k \notin spoiled => OnDisk(k)' /\ disk'[k][1] = k
    BY <1>3, <1>4 DEF OnDisk
  <1>6. ASSUME NEW l \in Keys, l # k
        PROVE  (OnDisk(l)' <=> OnDisk(l)) /\ (frames[l] # NoFrame /\ frames[l] \in dirty => frames[l] \in dirty')
    BY <1>4, <1>6 DEF OnDisk, FrameInv
  <1>7. DataInv'
    <2> SUFFICES ASSUME NEW l \in Keys \ spoiled, l[2] > 0
                 PROVE  /\ disk'[l][1] = l
                        /\ l[2] > page_count[l[1]] =>
                              /\ version[l] = 0 /\ disk'[l][2] = -1
                              /\ frames[l] # NoFrame =>
                                    \E u \in Threads : pc'[u] = "load" /\ mode'[u] = "append" /\ key'[u] = l
                        /\ l[2] <= page_count[l[1]] /\ ~Allocated(l) => frames[l] = NoFrame /\ OnDisk(l)'
      BY DEF DataInv, Allocated
    <2>1. CASE l = k
      BY <1>1, <1>2, <1>5, <2>1
    <2>2. CASE l # k
      BY <1>4, <1>6, <2>2 DEF DataInv
    <2> QED BY <2>1, <2>2
  <1>8. NoChangeLost'
    <2> SUFFICES ASSUME NEW l \in Keys \ spoiled, Allocated(l)
                 PROVE  /\ frames[l] = NoFrame \/ Loading(l)' => OnDisk(l)'
                        /\ frames[l] # NoFrame /\ ~Loading(l)' =>
                              data[frames[l]] = <<l, version[l]>> /\ (frames[l] \in dirty' \/ OnDisk(l)')
      BY DEF NoChangeLost, Allocated
    <2>1. CASE l = k
      BY <1>3, <1>5, <2>1
    <2>2. CASE l # k
      BY <1>6, <2>2 DEF NoChangeLost
    <2> QED BY <2>1, <2>2
  <1> QED BY <1>7, <1>8

LEMMA PurgeFreed ==
    ASSUME IInv, NEW t \in Threads, purge_frames(t), NEW f \in can_purge,
           free_internal(KeyOf(f)), Goto(t, "alloc"), f \notin dirty,
           UNCHANGED <<pin, frame_lock, frame>>
    PROVE  IInv'
  <1> USE DEF memVars, fileVars, lockVars, Goto
  <1>0. /\ TypeOK /\ LockInv /\ ForeignInv /\ KeyInv /\ DropInv /\ FrameInv /\ HeldInv /\ PinInv
        /\ DataInv /\ NoChangeLost
    BY DEF IInv
  <1>f. f \in Used /\ f \in Frames /\ pin[f] = 0
    BY <1>0, KeyOfUsed DEF can_purge
  <1>k. PICK k \in Keys : k = KeyOf(f) /\ frames[k] = f
    BY <1>0, <1>f, KeyOfUsed
  <1>n. Holders(f) = {} /\ Headers(f) = {} /\ Workers(f) = {} /\ f # NoFrame
    BY <1>0, <1>f, UnpinnedUnowned, PoolAssumption
  <1>a. /\ pc' = [pc EXCEPT ![t] = "alloc"] /\ pc[t] = "purge" /\ frame_lock = NoThread
        /\ frames' = [frames EXCEPT ![k] = NoFrame]
        /\ data' = [data EXCEPT ![frames[k]] = Garbage]
        /\ frames[k] \notin dirty
        /\ UNCHANGED <<disk, dirty, pin, frame, failures, page_count, allocated, opened, lockVars, mode, key, held,
                       version, leaked, spoiled>>
    BY <1>k DEF purge_frames, free_internal
  <1>b. \A u \in Threads : pc'[u] = IF u = t THEN "alloc" ELSE pc[u]
    BY <1>0, <1>a DEF TypeOK
  <1>c. \A u \in Threads : pc[u] \notin PurgeSteps
    BY <1>0, <1>a, PoolAssumption DEF LockInv
  <1>d. \A l \in Keys : frames'[l] = IF l = k THEN NoFrame ELSE frames[l]
    BY <1>0, <1>a DEF TypeOK
  <1>e. \A u \in Threads : pc[u] \in PageSteps => key[u] # k
    BY <1>0, <1>k, <1>n DEF FrameInv, Workers, PageSteps
  <1>1. TypeOK'
    <2>1. frames' \in [Keys -> Frames \cup {NoFrame}]
      BY <1>0, <1>a DEF TypeOK
    <2>2. data' \in [Frames -> Contents]
      BY <1>0, <1>a, SomeKey DEF TypeOK
    <2> QED BY <1>0, <1>a, <2>1, <2>2 DEF TypeOK, Steps
  <1>2. LockInv'
    BY <1>0, <1>a, <1>b DEF LockInv, LockSteps, PurgeSteps, WriteSteps
  <1>l. ForeignInv'
    BY <1>0, <1>a, <1>b, ForeignKept, PoolAssumption DEF LockSteps, PurgeSteps
  <1>3. KeyInv'
    BY <1>0, <1>a, <1>b DEF KeyInv, LockSteps, Allocated
  <1>4. DropInv'
    BY <1>0, <1>a, <1>b DEF DropInv
  <1>5. FrameInv'
    <2>1. \A l, m \in Keys : l # m /\ frames'[l] # NoFrame => frames'[l] # frames'[m]
      BY <1>0, <1>d DEF FrameInv
    <2>2. \A u \in Threads : pc'[u] \in PageSteps => frame[u] \in Frames /\ frames'[key[u]] = frame[u]
      BY <1>0, <1>b, <1>d, <1>e DEF FrameInv, PageSteps, TypeOK
    <2>3. \A u \in Threads : pc'[u] \notin PurgeSteps
      BY <1>b, <1>c DEF PurgeSteps
    <2> QED BY <1>a, <2>1, <2>2, <2>3 DEF FrameInv
  <1>6. HeldInv'
    <2>1. ASSUME NEW u \in Threads, NEW h \in held[u]
          PROVE  h[1] \in Keys /\ (frames[h[1]] = h[2] => h[1] # k)
      BY <1>0, <1>f, <1>k, <1>n, NotHeld
    <2>2. spoiled = Keys \/ \A u \in Threads : \A h \in held[u] : frames'[h[1]] = h[2]
      BY <1>0, <1>d, <2>1 DEF HeldInv
    <2> QED BY <1>0, <1>a, <1>b, <2>2 DEF HeldInv, Allocated
  <1>7. PinInv'
    <2>1. \A b \in opened : frames'[Header(b)] = frames[Header(b)]
      BY <1>0, <1>k, <1>n, <1>d, SomeKey DEF Headers, TypeOK
    <2>2. \A g \in Frames : Workers(g)' = Workers(g) /\ Headers(g)' = Headers(g) /\ Holders(g)' = Holders(g)
      BY <1>a, <1>b, <2>1 DEF Workers, Headers, Holders
    <2> QED BY <1>0, <1>a, <2>2 DEF PinInv, Owners
  <1>8. DataInv' /\ NoChangeLost'
    <2>1. /\ \A u \in Threads : pc[u] \in LoadSteps => key[u] # k
          /\ \A u \in Threads : pc'[u] \in LoadSteps \/ pc[u] \in LoadSteps => pc'[u] = pc[u]
      BY <1>a, <1>b, <1>e DEF PageSteps, LoadSteps
    <2> QED BY <1>0, <1>k, <1>n, <1>a, <2>1, FreedData
  <1> QED BY <1>1, <1>2, <1>l, <1>3, <1>4, <1>5, <1>6, <1>7, <1>8 DEF IInv

(* A dirty page is to be written: the frame manager stays locked. *)
LEMMA PurgeWrites ==
    ASSUME IInv, NEW t \in Threads, purge_frames(t), NEW f \in can_purge,
           pin' = [pin EXCEPT ![f] = @ + 1],
           frame_lock' = t,
           frame' = [frame EXCEPT ![t] = f],
           Goto(t, IF KeyOf(f)[1] = key[t][1] THEN "evict" ELSE "manager"),
           UNCHANGED <<frames, data>>
    PROVE  IInv'
  <1> USE DEF memVars, fileVars, lockVars, Goto
  <1>0. /\ TypeOK /\ LockInv /\ ForeignInv /\ KeyInv /\ DropInv /\ FrameInv /\ HeldInv /\ PinInv
        /\ DataInv /\ NoChangeLost
    BY DEF IInv
  <1>f. f \in Used /\ f \in Frames /\ pin[f] = 0
    BY <1>0, KeyOfUsed DEF can_purge
  <1>n. Holders(f) = {} /\ Headers(f) = {} /\ Workers(f) = {} /\ f # NoFrame
    BY <1>0, <1>f, UnpinnedUnowned, PoolAssumption
  <1>s. PICK step \in {"evict", "manager"} : step = IF KeyOf(f)[1] = key[t][1] THEN "evict" ELSE "manager"
    OBVIOUS
  <1>a. /\ pc' = [pc EXCEPT ![t] = step] /\ pc[t] = "purge" /\ frame_lock = NoThread
        /\ UNCHANGED <<dirty, disk, failures, page_count, allocated, opened, lock, manager_lock, dblwr_lock, mode, key, held,
                       version, leaked, spoiled>>
    BY <1>s DEF purge_frames
  <1>b. \A u \in Threads :
          /\ pc'[u] = IF u = t THEN step ELSE pc[u]
          /\ frame'[u] = IF u = t THEN f ELSE frame[u]
    BY <1>0, <1>a DEF TypeOK
  <1>c. \A u \in Threads : pc[u] \notin PurgeSteps
    BY <1>0, <1>a, PoolAssumption DEF LockInv
  <1>d. \A g \in Frames :
          /\ Workers(g)' = IF g = f THEN Workers(g) \cup {t} ELSE Workers(g)
          /\ Holders(g)' = Holders(g) /\ Headers(g)' = Headers(g)
    <2>1. \A g \in Frames : Workers(g)' = IF g = f THEN Workers(g) \cup {t} ELSE Workers(g)
      BY <1>a, <1>b, <1>s DEF Workers
    <2>2. \A g \in Frames : Holders(g)' = Holders(g) /\ Headers(g)' = Headers(g)
      BY <1>a DEF Holders, Headers
    <2> QED BY <2>1, <2>2
  <1>1. TypeOK'
    BY <1>0, <1>f, <1>a DEF TypeOK, Steps
  <1>2. LockInv'
    BY <1>0, <1>a, <1>b, PoolAssumption DEF LockInv, LockSteps, PurgeSteps, WriteSteps
  <1>l. ForeignInv'
    <2> SUFFICES ASSUME NEW u \in Threads PROVE ForeignOK(u)'
      BY DEF ForeignInv
    <2>0. ForeignOK(u) /\ mode'[u] = mode[u]
      BY <1>0, <1>a DEF ForeignInv
    <2>1. CASE u # t
      BY <1>a, <1>b, <1>c, <2>0, <2>1 DEF ForeignOK, PurgeSteps
    <2>2. CASE u = t
      <3>1. KeyOf(frame[t])' = KeyOf(f)
        BY <1>b DEF KeyOf
      <3>2. Foreign(t)' <=> step = "manager"
        BY <1>s, <1>a, <3>1 DEF Foreign
      <3>3. manager_lock = t => mode[t] = "open"
        BY <1>a, <2>0, <2>2 DEF ForeignOK
      <3> QED BY <1>s, <1>a, <1>b, <2>2, <3>2, <3>3 DEF ForeignOK, LockSteps
    <2> QED BY <2>1, <2>2
  <1>3. KeyInv'
    BY <1>0, <1>a, <1>b DEF KeyInv, LockSteps, Allocated
  <1>4. DropInv'
    BY <1>0, <1>a, <1>b DEF DropInv
  <1>5. FrameInv'
    <2>1. \A u \in Threads : pc'[u] \in PageSteps => frame'[u] \in Frames /\ frames[key[u]] = frame'[u]
      BY <1>0, <1>b DEF FrameInv, PageSteps
    <2>2. \A u \in Threads : pc'[u] \in PurgeSteps => u = t
      BY <1>b, <1>c
    <2>3. f \in Used' /\ Holders(f)' = {} /\ Headers(f)' = {} /\ Workers(f)' = {t}
      BY <1>f, <1>n, <1>d DEF Used
    <2> QED BY <1>0, <1>a, <1>b, <2>1, <2>2, <2>3 DEF FrameInv
  <1>6. HeldInv'
    BY <1>0, <1>a, <1>b DEF HeldInv, Allocated
  <1>7. PinInv'
    BY <1>0, <1>f, <1>n, <1>a, <1>d, WorkerAdded
  <1>8. DataInv'
    BY <1>0, <1>a, <1>b DEF DataInv, Allocated, OnDisk
  <1>9. NoChangeLost'
    <2>1. \A l \in Keys : Loading(l)' <=> Loading(l)
      BY <1>a, <1>b DEF Loading, InHand
    <2> QED BY <1>0, <1>a, <2>1 DEF NoChangeLost, Allocated, OnDisk
  <1> QED BY <1>1, <1>2, <1>l, <1>3, <1>4, <1>5, <1>6, <1>7, <1>8, <1>9 DEF IInv

LEMMA FailCounted ==
    ASSUME TypeOK, Fail PROVE failures' \in 0 .. FailBound
  BY PoolAssumption DEF TypeOK, Fail

LEMMA PurgeFramesStep ==
    ASSUME IInv, NEW t \in Threads, purge_frames(t) PROVE IInv'
  <1>1. CASE \E f \in can_purge :
               /\ f \notin dirty
               /\ free_internal(KeyOf(f))
               /\ Goto(t, "alloc")
               /\ UNCHANGED <<pin, frame_lock, frame>>
    BY <1>1, PurgeFreed
  <1>2. CASE \E f \in can_purge :
               /\ pin' = [pin EXCEPT ![f] = @ + 1]
               /\ frame_lock' = t
               /\ frame' = [frame EXCEPT ![t] = f]
               /\ Goto(t, IF KeyOf(f)[1] = key[t][1] THEN "evict" ELSE "manager")
               /\ UNCHANGED <<frames, data>>
    BY <1>2, PurgeWrites
  <1>3. CASE Goto(t, "alloc") /\ UNCHANGED <<frames, pin, data, frame_lock, frame>>
    BY <1>3, PurgeNothing
  <1> QED BY <1>1, <1>2, <1>3 DEF purge_frames

(* What a thread gives up after the write. *)
LEMMA EvictLocks ==
    ASSUME TypeOK, LockInv, ForeignInv, FrameInv, NEW t \in Threads, Evict(t)
    PROVE  /\ LockInv' /\ ForeignInv'
           /\ lock' \in [Pools -> Threads \cup {NoThread}]
           /\ {manager_lock', dblwr_lock'} \subseteq Threads \cup {NoThread}
  <1>a. /\ pc' = [pc EXCEPT ![t] = "alloc"] /\ pc[t] = "evict"
        /\ frame_lock' = NoThread /\ dblwr_lock' = NoThread
        /\ frame' = [frame EXCEPT ![t] = NoFrame]
        /\ UNCHANGED <<mode, key>>
        /\ IF Foreign(t)
           THEN lock' = [lock EXCEPT ![KeyOf(frame[t])[1]] = NoThread] /\ manager_lock' = NoThread
           ELSE UNCHANGED <<lock, manager_lock>>
    BY DEF Evict, flush_page_internal, FlushFailed, add_page, Goto
  <1>b. \A u \in Threads :
          /\ pc'[u] = IF u = t THEN "alloc" ELSE pc[u]
          /\ frame'[u] = IF u = t THEN NoFrame ELSE frame[u]
    BY <1>a DEF TypeOK
  <1>c. \A u \in Threads : pc[u] \in PurgeSteps => u = t
    BY <1>a DEF LockInv, PurgeSteps
  <1>d. \A u \in Threads : u # t => dblwr_lock # u \/ pc[u] \in WriteSteps
    BY DEF LockInv
  <1>e. /\ \A u \in Threads : u # t => (manager_lock' = u <=> manager_lock = u)
        /\ \A u \in Threads, b \in Pools : u # t => (lock'[b] = u <=> lock[b] = u)
        /\ \A b \in Pools : lock'[b] = t => lock[b] = t
        /\ mode[t] # "open" => lock'[key[t][1]] = lock[key[t][1]]
        /\ mode[t] = "open" => manager_lock' = manager_lock
        /\ manager_lock' = t => mode[t] = "open"
    <2>0. ForeignOK(t)
      BY DEF ForeignInv
    <2>1. CASE Foreign(t)
      <3>1. lock[KeyOf(frame[t])[1]] = t /\ manager_lock = t /\ mode[t] # "open"
        BY <1>a, <2>0, <2>1 DEF ForeignOK
      <3>2. KeyOf(frame[t])[1] \in Pools /\ KeyOf(frame[t])[1] # key[t][1] /\ key[t][1] \in Pools
        <4>1. frame[t] \in Used /\ key[t] \in Keys
          BY <1>a DEF FrameInv, PurgeSteps, TypeOK
        <4> QED BY <2>1, <4>1, KeyOfUsed, KeyParts DEF Foreign
      <3>3. \A b \in Pools : lock'[b] = IF b = KeyOf(frame[t])[1] THEN NoThread ELSE lock[b]
        BY <1>a, <2>1 DEF TypeOK
      <3> QED BY <1>a, <2>1, <3>1, <3>2, <3>3, PoolAssumption
    <2>2. CASE ~Foreign(t)
      BY <1>a, <2>0, <2>2 DEF ForeignOK
    <2> QED BY <2>1, <2>2
  <1>1. LockInv'
    <2> SUFFICES ASSUME NEW u \in Threads
                 PROVE  /\ frame_lock' = u <=> pc'[u] \in PurgeSteps
                        /\ \A b \in Pools :
                              /\ pc'[u] \in LockSteps /\ mode[u] # "open" /\ key[u][1] = b => lock'[b] = u
                              /\ lock'[b] = u => pc'[u] \in LockSteps
                        /\ mode[u] = "open" /\ pc'[u] \in LockSteps => manager_lock' = u
                        /\ dblwr_lock' = u => pc'[u] \in WriteSteps
      BY <1>a DEF LockInv
    <2>1. CASE u = t
      BY <1>a, <1>b, <1>e, <2>1, PoolAssumption DEF LockInv, LockSteps, PurgeSteps
    <2>2. CASE u # t
      BY <1>a, <1>b, <1>c, <1>e, <2>2, PoolAssumption DEF LockInv
    <2> QED BY <2>1, <2>2
  <1>2. ForeignInv'
    <2> SUFFICES ASSUME NEW u \in Threads PROVE ForeignOK(u)'
      BY DEF ForeignInv
    <2>0. ForeignOK(u)
      BY DEF ForeignInv
    <2>1. CASE u = t
      BY <1>a, <1>b, <1>e, <2>1 DEF ForeignOK, LockSteps
    <2>2. CASE u # t
      BY <1>a, <1>b, <1>c, <1>e, <2>0, <2>2 DEF ForeignOK, PurgeSteps
    <2> QED BY <2>1, <2>2
  <1>3. /\ lock' \in [Pools -> Threads \cup {NoThread}]
        /\ {manager_lock', dblwr_lock'} \subseteq Threads \cup {NoThread}
    BY <1>a DEF TypeOK
  <1> QED BY <1>1, <1>2, <1>3

(* The write failed: the page is in the buffer and stays dirty. *)
LEMMA EvictFails ==
    ASSUME IInv, NEW t \in Threads, Evict(t), FlushFailed(t, frame[t]), UNCHANGED <<frames, data>>
    PROVE  IInv'
  <1> USE DEF memVars, fileVars, lockVars, Goto
  <1>0. /\ TypeOK /\ LockInv /\ ForeignInv /\ KeyInv /\ DropInv /\ FrameInv /\ HeldInv /\ PinInv
        /\ DataInv /\ NoChangeLost
    BY DEF IInv
  <1>f. PICK f \in Frames : f = frame[t] /\ f \in Used
    BY <1>0, KeyOfUsed DEF FrameInv, PurgeSteps, Evict
  <1>k. PICK k \in Keys : k = KeyOf(f) /\ frames[k] = f
    BY <1>0, <1>f, KeyOfUsed
  <1>a. /\ pc' = [pc EXCEPT ![t] = "alloc"] /\ pc[t] = "evict"
        /\ pin' = [pin EXCEPT ![f] = @ - 1]
        /\ frame' = [frame EXCEPT ![t] = NoFrame]
        /\ disk' = [disk EXCEPT ![k] = data[frames[k]]]
        /\ spoiled' = spoiled \/ spoiled' = Keys
        /\ failures' \in 0 .. FailBound
        /\ UNCHANGED <<frames, dirty, data, page_count, allocated, opened, mode, key, held, version,
                       leaked>>
    BY <1>0, <1>f, <1>k, FailCounted DEF Evict, FlushFailed
  <1>n. Holders(f) = {} /\ Headers(f) = {} /\ Workers(f) = {t}
    BY <1>0, <1>f, <1>a DEF FrameInv, PurgeSteps
  <1>b. \A u \in Threads :
          /\ pc'[u] = IF u = t THEN "alloc" ELSE pc[u]
          /\ frame'[u] = IF u = t THEN NoFrame ELSE frame[u]
    BY <1>0, <1>a DEF TypeOK
  <1>c. \A u \in Threads : pc[u] \in PurgeSteps => u = t
    BY <1>0, <1>a DEF LockInv, PurgeSteps
  <1>d. \A g \in Frames :
          /\ Workers(g)' = IF g = f THEN Workers(g) \ {t} ELSE Workers(g)
          /\ Holders(g)' = Holders(g) /\ Headers(g)' = Headers(g)
    <2>1. \A g \in Frames : Workers(g)' = IF g = f THEN Workers(g) \ {t} ELSE Workers(g)
      BY <1>f, <1>a, <1>b DEF Workers
    <2>2. \A g \in Frames : Holders(g)' = Holders(g) /\ Headers(g)' = Headers(g)
      BY <1>a DEF Holders, Headers
    <2> QED BY <2>1, <2>2
  <1>2. /\ LockInv' /\ ForeignInv'
        /\ lock' \in [Pools -> Threads \cup {NoThread}]
        /\ {manager_lock', dblwr_lock'} \subseteq Threads \cup {NoThread}
    BY <1>0, EvictLocks
  <1>s. spoiled \subseteq spoiled' /\ spoiled' \subseteq Keys /\ frame_lock' = NoThread
    BY <1>0, <1>a DEF TypeOK, Evict
  <1>1. TypeOK'
    <2>1. pin[f] >= 1
      BY <1>0, <1>n, WorkerPins
    <2>2. pin' \in [Frames -> Nat]
      BY <1>0, <1>a, <2>1 DEF TypeOK
    <2>3. disk' \in [Keys -> Contents]
      BY <1>0, <1>a, <1>k DEF TypeOK
    <2> QED BY <1>0, <1>a, <1>2, <1>s, <2>2, <2>3 DEF TypeOK, Steps
  <1>3. KeyInv'
    BY <1>0, <1>a, <1>b DEF KeyInv, LockSteps, Allocated
  <1>4. DropInv'
    BY <1>0, <1>a, <1>b DEF DropInv
  <1>5. FrameInv'
    <2>1. \A u \in Threads : pc'[u] \in PageSteps => frame'[u] \in Frames /\ frames[key[u]] = frame'[u]
      BY <1>0, <1>b DEF FrameInv, PageSteps
    <2>2. \A u \in Threads : pc'[u] \notin PurgeSteps
      BY <1>b, <1>c DEF PurgeSteps
    <2> QED BY <1>0, <1>a, <2>1, <2>2 DEF FrameInv
  <1>6. HeldInv'
    <2>1. spoiled = Keys => spoiled' = Keys
      BY <1>a
    <2>2. ASSUME NEW v \in Threads, NEW u \in Threads, NEW h \in held[u], h[1] = key[v]
          PROVE  /\ pc'[v] = "load" => key[v] \in spoiled'
                 /\ pc'[v] \in {"discard", "free"} => spoiled' = Keys
      BY <1>0, <1>b, <1>s, <2>1, <2>2 DEF HeldInv
    <2> QED BY <1>0, <1>a, <2>1, <2>2 DEF HeldInv, Allocated
  <1>7. PinInv'
    BY <1>0, <1>n, <1>a, <1>d, WorkerRemoved
  <1>8. DataInv' /\ NoChangeLost'
    <2>1. \A l \in Keys : Loading(l)' <=> Loading(l)
      BY <1>a, <1>b DEF Loading, InHand
    <2>2. \A u \in Threads : pc[u] \in PageSteps => key[u] # k
      BY <1>0, <1>k, <1>n, <1>a DEF FrameInv, Workers, PageSteps
    <2>3. ~Loading(k) /\ f # NoFrame
      BY <1>0, <2>2, LoadingKey, PoolAssumption DEF LoadSteps, PageSteps
    <2>4. \A u \in Threads : pc[u] = "load" =>
              key[u] # k /\ pc'[u] = "load" /\ mode'[u] = mode[u] /\ key'[u] = key[u]
      BY <1>a, <1>b, <2>2 DEF PageSteps
    <2> QED BY <1>0, <1>k, <1>a, <1>s, <2>1, <2>3, <2>4, WrittenData
  <1> QED BY <1>1, <1>2, <1>3, <1>4, <1>5, <1>6, <1>7, <1>8 DEF IInv

LEMMA EvictFrees ==
    ASSUME IInv, NEW t \in Threads, Evict(t), flush_page_internal(t, frame[t]),
           free_internal(KeyOf(frame[t]))
    PROVE  IInv'
  <1> USE DEF memVars, fileVars, lockVars, Goto
  <1>0. /\ TypeOK /\ LockInv /\ ForeignInv /\ KeyInv /\ DropInv /\ FrameInv /\ HeldInv /\ PinInv
        /\ DataInv /\ NoChangeLost
    BY DEF IInv
  <1>f. PICK f \in Frames : f = frame[t] /\ f \in Used
    BY <1>0, KeyOfUsed DEF FrameInv, PurgeSteps, Evict
  <1>k. PICK k \in Keys : k = KeyOf(f) /\ frames[k] = f
    BY <1>0, <1>f, KeyOfUsed
  <1>a. /\ pc' = [pc EXCEPT ![t] = "alloc"] /\ pc[t] = "evict"
        /\ frames' = [frames EXCEPT ![k] = NoFrame]
        /\ data' = [data EXCEPT ![frames[k]] = Garbage]
        /\ disk' = [disk EXCEPT ![k] = data[frames[k]]] /\ dirty' = dirty \ {frames[k]}
        /\ pin' = [pin EXCEPT ![f] = @ - 1]
        /\ frame' = [frame EXCEPT ![t] = NoFrame]
        /\ frame_lock' = NoThread
        /\ UNCHANGED <<failures, page_count, allocated, opened, mode, key, held,
                       version, leaked, spoiled>>
    BY <1>f, <1>k DEF Evict, flush_page_internal, free_internal
  <1>n. Holders(f) = {} /\ Headers(f) = {} /\ Workers(f) = {t} /\ f # NoFrame
    BY <1>0, <1>f, <1>a, PoolAssumption DEF FrameInv, PurgeSteps
  <1>b. \A u \in Threads :
          /\ pc'[u] = IF u = t THEN "alloc" ELSE pc[u]
          /\ frame'[u] = IF u = t THEN NoFrame ELSE frame[u]
    BY <1>0, <1>a DEF TypeOK
  <1>c. \A u \in Threads : pc[u] \in PurgeSteps => u = t
    BY <1>0, <1>a DEF LockInv, PurgeSteps
  <1>d. \A l \in Keys : frames'[l] = IF l = k THEN NoFrame ELSE frames[l]
    BY <1>0, <1>a DEF TypeOK
  <1>e. \A u \in Threads : pc[u] \in PageSteps => key[u] # k
    BY <1>0, <1>k, <1>n, <1>a DEF FrameInv, Workers, PageSteps
  <1>2. /\ LockInv' /\ ForeignInv'
        /\ lock' \in [Pools -> Threads \cup {NoThread}]
        /\ {manager_lock', dblwr_lock'} \subseteq Threads \cup {NoThread}
    BY <1>0, EvictLocks
  <1>1. TypeOK'
    <2>1. pin[f] >= 1
      BY <1>0, <1>n, WorkerPins
    <2>2. pin' \in [Frames -> Nat]
      BY <1>0, <1>a, <2>1 DEF TypeOK
    <2>3. frames' \in [Keys -> Frames \cup {NoFrame}]
      BY <1>0, <1>a DEF TypeOK
    <2>4. data' \in [Frames -> Contents]
      BY <1>0, <1>a, SomeKey DEF TypeOK
    <2>5. disk' \in [Keys -> Contents] /\ dirty' \subseteq Frames
      BY <1>0, <1>a, <1>k DEF TypeOK
    <2> QED BY <1>0, <1>a, <1>2, <2>2, <2>3, <2>4, <2>5 DEF TypeOK, Steps
  <1>3. KeyInv'
    BY <1>0, <1>a, <1>b DEF KeyInv, LockSteps, Allocated
  <1>4. DropInv'
    BY <1>0, <1>a, <1>b DEF DropInv
  <1>5. FrameInv'
    <2>1. \A l, m \in Keys : l # m /\ frames'[l] # NoFrame => frames'[l] # frames'[m]
      BY <1>0, <1>d DEF FrameInv
    <2>2. \A u \in Threads : pc'[u] \in PageSteps => frame'[u] \in Frames /\ frames'[key[u]] = frame'[u]
      BY <1>0, <1>b, <1>d, <1>e DEF FrameInv, PageSteps, TypeOK
    <2>3. \A u \in Threads : pc'[u] \notin PurgeSteps
      BY <1>b, <1>c DEF PurgeSteps
    <2> QED BY <1>a, <2>1, <2>2, <2>3 DEF FrameInv
  <1>6. HeldInv'
    <2>1. ASSUME NEW u \in Threads, NEW h \in held[u]
          PROVE  h[1] \in Keys /\ (frames[h[1]] = h[2] => h[1] # k)
      BY <1>0, <1>k, <1>n, NotHeld
    <2>2. spoiled = Keys \/ \A u \in Threads : \A h \in held[u] : frames'[h[1]] = h[2]
      BY <1>0, <1>d, <2>1 DEF HeldInv
    <2> QED BY <1>0, <1>a, <1>b, <2>2 DEF HeldInv, Allocated
  <1>7. PinInv'
    <2>1. \A b \in opened : frames'[Header(b)] = frames[Header(b)]
      BY <1>0, <1>k, <1>n, <1>d, SomeKey DEF Headers, TypeOK
    <2>2. \A g \in Frames : Headers(g)' = Headers(g) /\ Holders(g)' = Holders(g)
      BY <1>a, <2>1 DEF Headers, Holders
    <2>3. \A g \in Frames : Workers(g)' = IF g = f THEN Workers(g) \ {t} ELSE Workers(g)
      BY <1>f, <1>a, <1>b DEF Workers
    <2>4. t \in Workers(f)
      BY <1>n
    <2>5. pin' = [pin EXCEPT ![f] = @ - 1] /\ leaked' = leaked
      BY <1>a
    <2>6. TypeOK /\ PinInv
      BY <1>0
    <2> QED BY <2>2, <2>3, <2>4, <2>5, <2>6, WorkerRemoved
  <1>8. DataInv' /\ NoChangeLost'
    <2>1. \A u \in Threads : pc[u] \in LoadSteps => key[u] # k
      BY <1>e DEF PageSteps, LoadSteps
    <2>2. \A u \in Threads :
            /\ pc'[u] \in LoadSteps \/ pc[u] \in LoadSteps => pc'[u] = pc[u]
            /\ pc[u] \in LoadSteps => frame'[u] = frame[u]
      BY <1>a, <1>b DEF LoadSteps
    <2> QED BY <1>0, <1>k, <1>n, <1>a, <2>1, <2>2, FreedData
  <1> QED BY <1>1, <1>2, <1>3, <1>4, <1>5, <1>6, <1>7, <1>8 DEF IInv

LEMMA EvictStep ==
    ASSUME IInv, NEW t \in Threads, Evict(t) PROVE IInv'
  BY EvictFails, EvictFrees DEF Evict

-----------------------------------------------------------------------------
(* The page is loaded, or could not be. *)

(* A thread that returns gives up its lock. *)
LEMMA ReturnLocks ==
    ASSUME TypeOK, LockInv, ForeignInv, FrameInv, NEW t \in Threads, pc[t] \in LockSteps \ PurgeSteps,
           Unlock(t), Return(t), UNCHANGED frame_lock,
           frames' = frames \/ frame_lock = NoThread,
           dblwr_lock' = NoThread \/ (dblwr_lock' = dblwr_lock /\ pc[t] \notin WriteSteps)
    PROVE  /\ LockInv' /\ ForeignInv'
           /\ lock' \in [Pools -> Threads \cup {NoThread}]
           /\ {manager_lock', dblwr_lock'} \subseteq Threads \cup {NoThread}
           /\ pc' \in [Threads -> Steps] /\ mode' \in [Threads -> Modes]
           /\ key' \in [Threads -> Keys] /\ frame' \in [Threads -> Frames \cup {NoFrame}]
           /\ \A u \in Threads :
                 /\ pc'[u] = IF u = t THEN "idle" ELSE pc[u]
                 /\ mode'[u] = IF u = t THEN "get" ELSE mode[u]
                 /\ key'[u] = IF u = t THEN AnyKey ELSE key[u]
                 /\ frame'[u] = IF u = t THEN NoFrame ELSE frame[u]
  <1> USE DEF Return, Begin, Goto, Unlock
  <1>1. \A u \in Threads :
                 /\ pc'[u] = IF u = t THEN "idle" ELSE pc[u]
                 /\ mode'[u] = IF u = t THEN "get" ELSE mode[u]
                 /\ key'[u] = IF u = t THEN AnyKey ELSE key[u]
                 /\ frame'[u] = IF u = t THEN NoFrame ELSE frame[u]
    BY DEF TypeOK
  <1>2. \A b \in Pools : lock'[b] = IF lock[b] = t THEN NoThread ELSE lock[b]
    BY DEF TypeOK
  <1>3. /\ lock' \in [Pools -> Threads \cup {NoThread}]
        /\ {manager_lock', dblwr_lock'} \subseteq Threads \cup {NoThread}
    BY DEF TypeOK
  <1>4. /\ pc' \in [Threads -> Steps] /\ mode' \in [Threads -> Modes]
        /\ key' \in [Threads -> Keys] /\ frame' \in [Threads -> Frames \cup {NoFrame}]
    BY SomeKey DEF TypeOK, Steps, Modes
  <1>5. LockInv'
    <2> SUFFICES ASSUME NEW u \in Threads
                 PROVE  /\ frame_lock = u <=> pc'[u] \in PurgeSteps
                        /\ \A b \in Pools :
                              /\ pc'[u] \in LockSteps /\ mode'[u] # "open" /\ key'[u][1] = b => lock'[b] = u
                              /\ lock'[b] = u => pc'[u] \in LockSteps
                        /\ mode'[u] = "open" /\ pc'[u] \in LockSteps => manager_lock' = u
                        /\ dblwr_lock' = u => pc'[u] \in WriteSteps
      BY DEF LockInv
    <2>1. CASE u = t
      BY <1>1, <1>2, <2>1, PoolAssumption DEF LockInv, LockSteps, PurgeSteps
    <2>2. CASE u # t
      BY <1>1, <1>2, <2>2, PoolAssumption DEF LockInv
    <2> QED BY <2>1, <2>2
  <1>6. ForeignInv'
    <2>1. pc'[t] \notin PurgeSteps /\ manager_lock' # t
      BY <1>1, PoolAssumption DEF PurgeSteps
    <2>2. \A u \in Threads : u # t =>
               /\ pc'[u] = pc[u] /\ mode'[u] = mode[u] /\ key'[u] = key[u] /\ frame'[u] = frame[u]
               /\ manager_lock' = u <=> manager_lock = u
               /\ \A b \in Pools : lock[b] = u => lock'[b] = u
      BY <1>1, <1>2, PoolAssumption
    <2> QED BY <2>1, <2>2, ForeignKept
  <1> QED BY <1>1, <1>3, <1>4, <1>5, <1>6

LEMMA LoadPageStep ==
    ASSUME IInv, NEW t \in Threads, load_page(t) PROVE IInv'
  <1> USE DEF memVars, fileVars
  <1>0. /\ TypeOK /\ LockInv /\ ForeignInv /\ KeyInv /\ DropInv /\ FrameInv /\ HeldInv /\ PinInv
        /\ DataInv /\ NoChangeLost
    BY DEF IInv
  <1>k. PICK k \in Keys : k = key[t]
    BY <1>0 DEF TypeOK
  <1>f. PICK f \in Frames : f = frame[t] /\ frames[k] = f
    BY <1>0, <1>k DEF FrameInv, PageSteps, load_page
  <1>a. /\ pc[t] = "load" /\ mode[t] = "get" /\ disk[k][2] >= 0
        /\ data' = [data EXCEPT ![f] = disk[k]]
        /\ held' = [held EXCEPT ![t] = @ \cup {<<k, f>>}]
        /\ UNCHANGED <<leaked, frames, pin, dirty, fileVars, opened, frame_lock, dblwr_lock, version, spoiled,
                       failures>>
    BY <1>k, <1>f DEF load_page
  <1>b. /\ LockInv' /\ ForeignInv'
        /\ lock' \in [Pools -> Threads \cup {NoThread}]
        /\ {manager_lock', dblwr_lock'} \subseteq Threads \cup {NoThread}
        /\ pc' \in [Threads -> Steps] /\ mode' \in [Threads -> Modes]
        /\ key' \in [Threads -> Keys] /\ frame' \in [Threads -> Frames \cup {NoFrame}]
        /\ \A u \in Threads :
              /\ pc'[u] = IF u = t THEN "idle" ELSE pc[u]
              /\ mode'[u] = IF u = t THEN "get" ELSE mode[u]
              /\ key'[u] = IF u = t THEN AnyKey ELSE key[u]
              /\ frame'[u] = IF u = t THEN NoFrame ELSE frame[u]
    BY <1>0, <1>a, ReturnLocks DEF load_page, LockSteps, PurgeSteps, WriteSteps
  <1>c. \A u \in Threads : held'[u] = IF u = t THEN held[t] \cup {<<k, f>>} ELSE held[u]
    BY <1>0, <1>a DEF TypeOK
  <1>d. \A u \in Threads : u # t /\ pc[u] \in LockSteps => key[u] # k
    BY <1>0, <1>k, <1>a, OneLocker DEF LockSteps
  <1>e. t \in Workers(f) /\ Allocated(k) /\ \A h \in held[t] : h[1] # k
    BY <1>0, <1>k, <1>f, <1>a DEF Workers, KeyInv
  <1>h. \A g \in Frames :
          /\ Workers(g)' = IF g = f THEN Workers(g) \ {t} ELSE Workers(g)
          /\ Holders(g)' = IF g = f THEN Holders(g) \cup {<<t, k>>} ELSE Holders(g)
          /\ Headers(g)' = Headers(g)
    <2>1. \A g \in Frames : Workers(g)' = IF g = f THEN Workers(g) \ {t} ELSE Workers(g)
      BY <1>f, <1>a, <1>b DEF Workers
    <2>2. \A g \in Frames : Holders(g)' = IF g = f THEN Holders(g) \cup {<<t, k>>} ELSE Holders(g)
      BY <1>c DEF Holders
    <2>3. \A g \in Frames : Headers(g)' = Headers(g)
      BY <1>a DEF Headers
    <2> QED BY <2>1, <2>2, <2>3
  <1>1. TypeOK'
    <2>1. data' \in [Frames -> Contents]
      BY <1>0, <1>a DEF TypeOK
    <2>2. held' \in [Threads -> SUBSET (Keys \X Frames)]
      BY <1>0, <1>a DEF TypeOK
    <2> QED BY <1>0, <1>a, <1>b, <2>1, <2>2 DEF TypeOK
  <1>3. KeyInv'
    BY <1>0, <1>a, <1>b, <1>c DEF KeyInv, Allocated
  <1>4. DropInv'
    BY <1>0, <1>a, <1>b, <1>c, <1>d DEF DropInv, LockSteps
  <1>5. FrameInv'
    <2>1. \A u \in Threads : pc'[u] \in PageSteps => frame'[u] \in Frames /\ frames[key'[u]] = frame'[u]
      BY <1>0, <1>b DEF FrameInv, PageSteps
    <2>2. ASSUME NEW u \in Threads, NEW g \in Frames, pc'[u] \in PurgeSteps, frame'[u] = g
          PROVE  g \in Used' /\ Holders(g)' = {} /\ Headers(g)' = {} /\ Workers(g)' = {u}
      <3>1. u # t /\ pc[u] \in PurgeSteps /\ frame[u] = g
        BY <1>b, <2>2 DEF PurgeSteps
      <3>2. Holders(g) = {} /\ Headers(g) = {} /\ Workers(g) = {u} /\ g \in Used
        BY <1>0, <3>1 DEF FrameInv
      <3>3. g # f
        BY <1>e, <3>1, <3>2
      <3> QED BY <1>a, <1>h, <3>2, <3>3 DEF Used
    <2>3. \A u \in Threads : pc'[u] \in PurgeSteps => frame'[u] \in Frames
      BY <1>0, <1>b, KeyOfUsed DEF FrameInv, PurgeSteps
    <2> QED BY <1>0, <1>a, <2>1, <2>2, <2>3 DEF FrameInv
  <1>6. HeldInv'
    <2>1. \A u \in Threads : \A h \in held'[u] : Allocated(h[1])'
      BY <1>0, <1>a, <1>c, <1>e DEF HeldInv, Allocated
    <2>2. spoiled = Keys \/ \A u \in Threads : \A h \in held'[u] : frames[h[1]] = h[2]
      BY <1>0, <1>c, <1>f DEF HeldInv
    <2>3. \A v, u \in Threads : \A h \in held'[u] : h[1] = key'[v] =>
              /\ pc'[v] = "load" => key'[v] \in spoiled
              /\ pc'[v] \in {"discard", "free"} => spoiled = Keys
      BY <1>0, <1>b, <1>c, <1>d DEF HeldInv, LockSteps
    <2> QED BY <1>a, <2>1, <2>2, <2>3 DEF HeldInv
  <1>7. PinInv'
    <2>1. <<t, k>> \notin Holders(f)
      BY <1>e DEF Holders
    <2> QED BY <1>0, <1>a, <1>e, <1>h, <2>1, WorkerMoved
  <1>8. DataInv'
    BY <1>0, <1>a, <1>b DEF DataInv, Allocated, OnDisk
  <1>9. NoChangeLost'
    <2> SUFFICES ASSUME NEW l \in Keys \ spoiled, Allocated(l)
                 PROVE  /\ frames[l] = NoFrame \/ Loading(l)' => OnDisk(l)
                        /\ frames[l] # NoFrame /\ ~Loading(l)' =>
                              data'[frames[l]] = <<l, version[l]>> /\ (frames[l] \in dirty \/ OnDisk(l))
      BY <1>a DEF NoChangeLost, Allocated, OnDisk
    <2>1. CASE l = k
      <3>1. Loading(k)
        BY <1>f, <1>a DEF Loading, InHand
      <3>2. OnDisk(k) /\ disk[k] = <<k, version[k]>>
        <4>1. disk[k][2] \in Int
          BY <1>0, ContentParts DEF TypeOK
        <4>2. OnDisk(k)
          BY <1>0, <2>1, <3>1 DEF NoChangeLost
        <4> QED BY <1>a, <4>1, <4>2 DEF OnDisk
      <3>3. data'[f] = disk[k]
        BY <1>0, <1>a DEF TypeOK
      <3> QED BY <1>f, <2>1, <3>2, <3>3
    <2>2. CASE l # k
      <3>1. frames[l] # f /\ (frames[l] # NoFrame => frames[l] \in Frames)
        BY <1>0, <1>f, <2>2, PoolAssumption DEF FrameInv, TypeOK
      <3>2. Loading(l)' <=> Loading(l)
        BY <1>f, <1>a, <1>b, <3>1 DEF Loading, InHand
      <3>3. frames[l] # NoFrame => data'[frames[l]] = data[frames[l]]
        BY <1>0, <1>a, <3>1 DEF TypeOK
      <3> QED BY <1>0, <3>2, <3>3 DEF NoChangeLost
    <2> QED BY <2>1, <2>2
  <1> QED BY <1>1, <1>b, <1>3, <1>4, <1>5, <1>6, <1>7, <1>8, <1>9 DEF IInv

(* The load failed, and so did freeing the frame, or its write before. *)
LEMMA Leaked ==
    ASSUME IInv, NEW t \in Threads, pc[t] \in {"load", "discard"}, mode[t] # "append", Leak(t),
           failures' \in 0 .. FailBound, UNCHANGED frame_lock,
           dblwr_lock' = NoThread \/ (dblwr_lock' = dblwr_lock /\ pc[t] \notin WriteSteps),
           spoiled' = spoiled \cup {key[t]} \/ spoiled' = Keys,
           disk' = disk \/ disk' = [disk EXCEPT ![key[t]] = data[frame[t]]],
           UNCHANGED <<memVars, page_count, allocated, opened, held, version>>
    PROVE  IInv'
  <1> USE DEF memVars, fileVars
  <1>0. /\ TypeOK /\ LockInv /\ ForeignInv /\ KeyInv /\ DropInv /\ FrameInv /\ HeldInv /\ PinInv
        /\ DataInv /\ NoChangeLost
    BY DEF IInv
  <1>k. PICK k \in Keys : k = key[t]
    BY <1>0 DEF TypeOK
  <1>f. PICK f \in Frames : f = frame[t] /\ frames[k] = f
    BY <1>0, <1>k DEF FrameInv, PageSteps
  <1>a. /\ pc[t] \in {"load", "discard"} /\ mode[t] # "append"
        /\ leaked' = leaked \cup {f} /\ (spoiled' = spoiled \cup {k} \/ spoiled' = Keys)
        /\ disk' = disk \/ disk' = [disk EXCEPT ![k] = data[f]]
        /\ UNCHANGED <<memVars, page_count, allocated, opened, frame_lock, held, version>>
    BY <1>k, <1>f DEF Leak
  <1>s. spoiled \subseteq spoiled' /\ spoiled' \subseteq Keys /\ k \in spoiled'
    BY <1>0, <1>a DEF TypeOK
  <1>m. disk' \in [Keys -> Contents] /\ \A l \in Keys : l # k => disk'[l] = disk[l]
    BY <1>0, <1>a DEF TypeOK
  <1>b. /\ LockInv' /\ ForeignInv'
        /\ lock' \in [Pools -> Threads \cup {NoThread}]
        /\ {manager_lock', dblwr_lock'} \subseteq Threads \cup {NoThread}
        /\ pc' \in [Threads -> Steps] /\ mode' \in [Threads -> Modes]
        /\ key' \in [Threads -> Keys] /\ frame' \in [Threads -> Frames \cup {NoFrame}]
        /\ \A u \in Threads :
              /\ pc'[u] = IF u = t THEN "idle" ELSE pc[u]
              /\ mode'[u] = IF u = t THEN "get" ELSE mode[u]
              /\ key'[u] = IF u = t THEN AnyKey ELSE key[u]
              /\ frame'[u] = IF u = t THEN NoFrame ELSE frame[u]
    BY <1>0, <1>a, ReturnLocks DEF Leak, LockSteps, PurgeSteps
  <1>e. t \in Workers(f)
    BY <1>f, <1>a DEF Workers
  <1>h. \A g \in Frames :
          /\ Workers(g)' = IF g = f THEN Workers(g) \ {t} ELSE Workers(g)
          /\ Holders(g)' = Holders(g) /\ Headers(g)' = Headers(g)
    <2>1. \A g \in Frames : Workers(g)' = IF g = f THEN Workers(g) \ {t} ELSE Workers(g)
      BY <1>f, <1>a, <1>b DEF Workers
    <2>2. \A g \in Frames : Holders(g)' = Holders(g) /\ Headers(g)' = Headers(g)
      BY <1>a DEF Holders, Headers
    <2> QED BY <2>1, <2>2
  <1>1. TypeOK'
    BY <1>0, <1>a, <1>b, <1>s, <1>m DEF TypeOK
  <1>3. KeyInv'
    BY <1>0, <1>a, <1>b DEF KeyInv, Allocated
  <1>4. DropInv'
    BY <1>0, <1>a, <1>b DEF DropInv
  <1>5. FrameInv'
    <2>1. \A u \in Threads : pc'[u] \in PageSteps => frame'[u] \in Frames /\ frames[key'[u]] = frame'[u]
      BY <1>0, <1>b DEF FrameInv, PageSteps
    <2>2. ASSUME NEW u \in Threads, NEW g \in Frames, pc'[u] \in PurgeSteps, frame'[u] = g
          PROVE  g \in Used' /\ Holders(g)' = {} /\ Headers(g)' = {} /\ Workers(g)' = {u}
      <3>1. u # t /\ pc[u] \in PurgeSteps /\ frame[u] = g
        BY <1>b, <2>2 DEF PurgeSteps
      <3>2. Holders(g) = {} /\ Headers(g) = {} /\ Workers(g) = {u} /\ g \in Used
        BY <1>0, <3>1 DEF FrameInv
      <3>3. g # f
        BY <1>e, <3>1, <3>2
      <3> QED BY <1>a, <1>h, <3>2, <3>3 DEF Used
    <2>3. \A u \in Threads : pc'[u] \in PurgeSteps => frame'[u] \in Frames
      BY <1>0, <1>b, KeyOfUsed DEF FrameInv, PurgeSteps
    <2> QED BY <1>0, <1>a, <2>1, <2>2, <2>3 DEF FrameInv
  <1>6. HeldInv'
    <2>1. spoiled = Keys => spoiled' = Keys
      BY <1>a
    <2> QED BY <1>0, <1>a, <1>b, <1>s, <2>1 DEF HeldInv, Allocated
  <1>7. PinInv'
    BY <1>0, <1>a, <1>e, <1>h, WorkerRemoved
  <1>8. DataInv'
    <2>1. ASSUME NEW l \in Keys \ spoiled', NEW u \in Threads, key[u] = l PROVE u # t
      BY <1>k, <1>s, <2>1
    <2>2. \A l \in Keys \ spoiled' : l \in Keys \ spoiled /\ disk'[l] = disk[l]
      BY <1>s, <1>m
    <2> QED BY <1>0, <1>a, <1>b, <2>1, <2>2 DEF DataInv, Allocated, OnDisk
  <1>9. NoChangeLost'
    <2>1. ASSUME NEW l \in Keys, l # k PROVE Loading(l)' <=> Loading(l)
      <3>1. frames[l] # f
        BY <1>0, <1>f, <2>1, PoolAssumption DEF FrameInv
      <3> QED BY <1>f, <1>a, <1>b, <3>1 DEF Loading, InHand
    <2>2. \A l \in Keys \ spoiled' : l \in Keys \ spoiled /\ disk'[l] = disk[l] /\ l # k
      BY <1>s, <1>m
    <2> QED BY <1>0, <1>a, <2>1, <2>2 DEF NoChangeLost, Allocated, OnDisk
  <1> QED BY <1>1, <1>b, <1>3, <1>4, <1>5, <1>6, <1>7, <1>8, <1>9 DEF IInv

(* The load failed, and the frame will be written or freed: nobody else    *)
(* has it, unless all pages are spoiled.                                   *)
LEMMA ToBeFreed ==
    ASSUME IInv, NEW t \in Threads, NEW step \in {"discard", "free"}, Goto(t, step),
           \/ pc[t] = "load" /\ mode[t] # "append" /\ pin[frame[t]] = 1
           \/ pc[t] = "discard",
           failures' \in 0 .. FailBound,
           dblwr_lock' = NoThread \/ (dblwr_lock' = dblwr_lock /\ pc[t] \notin WriteSteps),
           \/ UNCHANGED <<disk, dirty, spoiled>>
           \/ /\ disk' = [disk EXCEPT ![key[t]] = data[frame[t]]] /\ dirty' = dirty \ {frame[t]}
              /\ spoiled' = spoiled \cup {key[t]},
           UNCHANGED <<frames, pin, data, page_count, allocated, opened, lock, frame_lock, manager_lock,
                       held, version, mode, key, frame, leaked>>
    PROVE  IInv'
  <1> USE DEF memVars, fileVars, Goto
  <1>0. /\ TypeOK /\ LockInv /\ ForeignInv /\ KeyInv /\ DropInv /\ FrameInv /\ HeldInv /\ PinInv
        /\ DataInv /\ NoChangeLost
    BY DEF IInv
  <1>k. PICK k \in Keys : k = key[t]
    BY <1>0 DEF TypeOK
  <1>f. PICK f \in Frames : f = frame[t] /\ frames[k] = f
    BY <1>0, <1>k DEF FrameInv, PageSteps
  <1>a. /\ pc[t] \in {"load", "discard"} /\ mode[t] # "append" /\ pc' = [pc EXCEPT ![t] = step]
        /\ \/ disk' = disk /\ dirty' = dirty /\ spoiled' = spoiled
           \/ disk' = [disk EXCEPT ![k] = data[f]] /\ dirty' = dirty \ {f} /\ spoiled' = spoiled \cup {k}
        /\ UNCHANGED <<frames, pin, data, page_count, allocated, opened, lock, frame_lock, manager_lock,
                       held, version, mode, key, frame, leaked>>
    BY <1>0, <1>k, <1>f DEF KeyInv
  <1>b. \A u \in Threads : pc'[u] = IF u = t THEN step ELSE pc[u]
    BY <1>0, <1>a DEF TypeOK
  <1>n. spoiled = Keys \/ \A u \in Threads : \A h \in held[u] : h[1] # k
    <2>1. CASE pc[t] = "load" /\ pin[frame[t]] = 1
      <3>1. Holders(f) = {}
        BY <1>0, <1>f, <2>1, WorkerPins DEF Workers
      <3> QED BY <1>0, <1>f, <3>1, NotHeld DEF HeldInv
    <2>2. CASE pc[t] = "discard"
      BY <1>0, <1>k, <2>2 DEF HeldInv
    <2> QED BY <2>1, <2>2
  <1>d. \A g \in Frames :
               /\ Holders(g)' = Holders(g) /\ Workers(g)' = Workers(g) /\ Headers(g)' = Headers(g)
               /\ Owners(g)' = Owners(g)
    <2>1. \A g \in Frames : Workers(g)' = Workers(g)
      BY <1>a, <1>b DEF Workers
    <2> QED BY <1>a, <2>1, OwnersKept
  <1>s. spoiled \subseteq spoiled' /\ spoiled' \subseteq Keys
    BY <1>0, <1>a DEF TypeOK
  <1>1. TypeOK'
    <2>1. disk' \in [Keys -> Contents] /\ dirty' \subseteq Frames
      BY <1>0, <1>a DEF TypeOK
    <2>2. dblwr_lock' \in Threads \cup {NoThread}
      BY <1>0 DEF TypeOK
    <2> QED BY <1>0, <1>a, <1>s, <2>1, <2>2 DEF TypeOK, Steps
  <1>2. LockInv'
    BY <1>0, <1>a, <1>b, PoolAssumption DEF LockInv, LockSteps, PurgeSteps, WriteSteps
  <1>l. ForeignInv'
    BY <1>0, <1>a, <1>b, ForeignKept DEF LockSteps, PurgeSteps
  <1>3. KeyInv'
    BY <1>0, <1>a, <1>b DEF KeyInv, LockSteps, Allocated, TypeOK, Modes
  <1>4. DropInv'
    BY <1>0, <1>a, <1>b DEF DropInv
  <1>5. FrameInv'
    BY <1>0, <1>a, <1>b, <1>d DEF FrameInv, PurgeSteps, PageSteps, Used
  <1>6. HeldInv'
    <2>1. spoiled = Keys => spoiled' = Keys
      BY <1>s
    <2>2. ASSUME NEW v \in Threads, NEW u \in Threads, NEW h \in held[u], h[1] = key[v]
          PROVE  /\ pc'[v] = "load" => key[v] \in spoiled'
                 /\ pc'[v] \in {"discard", "free"} => spoiled' = Keys
      BY <1>0, <1>k, <1>b, <1>n, <1>s, <2>1, <2>2 DEF HeldInv
    <2> QED BY <1>0, <1>a, <2>1, <2>2 DEF HeldInv, Allocated
  <1>7. PinInv'
    BY <1>0, <1>a, <1>d DEF PinInv
  <1>8. DataInv'
    <2>1. ASSUME NEW l \in Keys \ spoiled' PROVE disk'[l] = disk[l]
      BY <1>0, <1>a DEF TypeOK
    <2>2. k[2] > page_count[k[1]] => k[2] = 0
      <3>1. k[1] \in Pools /\ mode[t] \in Modes
        BY <1>0, KeyParts DEF TypeOK
      <3> QED BY <1>0, <1>k, <1>a, <3>1 DEF KeyInv, Allocated, TypeOK, Modes
    <2>3. ASSUME NEW l \in Keys, l[2] > 0, l[2] > page_count[l[1]], NEW u \in Threads, key[u] = l
          PROVE  u # t
      BY <1>k, <2>2, <2>3
    <2> QED BY <1>0, <1>a, <1>b, <1>s, <2>1, <2>3 DEF DataInv, Allocated, OnDisk
  <1>9. NoChangeLost'
    <2>1. \A l \in Keys : Loading(l)' <=> Loading(l)
      BY <1>a, <1>b DEF Loading, InHand
    <2>2. ASSUME NEW l \in Keys \ spoiled'
          PROVE  disk'[l] = disk[l] /\ (frames[l] # NoFrame /\ frames[l] \in dirty => frames[l] \in dirty')
      <3>1. CASE dirty' = dirty
        BY <1>0, <1>a, <2>2, <3>1 DEF TypeOK
      <3>2. CASE dirty' = dirty \ {f} /\ spoiled' = spoiled \cup {k}
        BY <1>0, <1>f, <1>a, <2>2, <3>2 DEF TypeOK, FrameInv
      <3> QED BY <1>a, <3>1, <3>2
    <2> QED BY <1>0, <1>a, <1>s, <2>1, <2>2 DEF NoChangeLost, Allocated, OnDisk
  <1> QED BY <1>1, <1>2, <1>l, <1>3, <1>4, <1>5, <1>6, <1>7, <1>8, <1>9 DEF IInv

LEMMA LoadPageFailedStep ==
    ASSUME IInv, NEW t \in Threads, load_page_failed(t) PROVE IInv'
  <1>0. TypeOK
    BY DEF IInv
  <1>1. failures' \in 0 .. FailBound
    BY <1>0, FailCounted DEF TypeOK, load_page_failed
  <1>a. /\ pc[t] = "load" /\ mode[t] # "append" /\ pc[t] \notin WriteSteps
        /\ UNCHANGED <<memVars, fileVars, opened, frame_lock, dblwr_lock, held, version>>
    BY DEF load_page_failed, WriteSteps
  <1>2. CASE Leak(t) /\ spoiled' = spoiled \cup {key[t]}
    BY <1>1, <1>a, <1>2, Leaked DEF fileVars
  <1>3. CASE /\ pin[frame[t]] = 1
             /\ Goto(t, IF frame[t] \in dirty THEN "discard" ELSE "free")
             /\ UNCHANGED <<lock, manager_lock, mode, key, frame, leaked, spoiled>>
    <2>1. PICK step \in {"discard", "free"} : step = IF frame[t] \in dirty THEN "discard" ELSE "free"
      OBVIOUS
    <2> QED BY <1>1, <1>a, <1>3, <2>1, ToBeFreed DEF memVars, fileVars
  <1> QED BY <1>2, <1>3 DEF load_page_failed

LEMMA DiscardStep ==
    ASSUME IInv, NEW t \in Threads, Discard(t) PROVE IInv'
  <1>0. TypeOK /\ KeyInv
    BY DEF IInv
  <1>a. /\ pc[t] = "discard" /\ mode[t] # "append"
        /\ dblwr_lock' = NoThread
        /\ disk' = [disk EXCEPT ![key[t]] = data[frame[t]]]
        /\ failures' \in 0 .. FailBound
        /\ UNCHANGED <<frames, pin, data, page_count, allocated, opened, frame_lock, held, version>>
    BY <1>0 DEF Discard, add_page, KeyInv, TypeOK
  <1>1. CASE /\ dirty' = dirty \ {frame[t]}
             /\ spoiled' = spoiled \cup {key[t]}
             /\ Goto(t, "free")
             /\ UNCHANGED <<lock, manager_lock, mode, key, frame, leaked>>
    BY <1>a, <1>1, ToBeFreed
  <1>2. CASE /\ Leak(t)
             /\ spoiled' = spoiled \cup {key[t]} \/ (dblwr_lock = t /\ spoiled' = Keys)
             /\ UNCHANGED dirty
    BY <1>a, <1>2, Leaked DEF memVars
  <1> QED BY <1>1, <1>2 DEF Discard

(* Nobody else has the frame, unless all pages are spoiled. *)
LEMMA FreeStep ==
    ASSUME IInv, NEW t \in Threads, free(t) PROVE IInv'
  <1> USE DEF fileVars
  <1>0. /\ TypeOK /\ LockInv /\ ForeignInv /\ KeyInv /\ DropInv /\ FrameInv /\ HeldInv /\ PinInv
        /\ DataInv /\ NoChangeLost
    BY DEF IInv
  <1>k. PICK k \in Keys : k = key[t]
    BY <1>0 DEF TypeOK
  <1>f. PICK f \in Frames : f = frame[t] /\ frames[k] = f
    BY <1>0, <1>k DEF FrameInv, PageSteps, free
  <1>a. /\ pc[t] = "free" /\ frame_lock = NoThread
        /\ frames' = [frames EXCEPT ![k] = NoFrame]
        /\ data' = [data EXCEPT ![f] = Garbage]
        /\ pin' = [pin EXCEPT ![f] = @ - 1]
        /\ UNCHANGED <<leaked, dirty, fileVars, opened, frame_lock, dblwr_lock, held, version, spoiled, failures>>
    BY <1>k, <1>f DEF free, free_internal
  <1>b. /\ LockInv' /\ ForeignInv'
        /\ lock' \in [Pools -> Threads \cup {NoThread}]
        /\ {manager_lock', dblwr_lock'} \subseteq Threads \cup {NoThread}
        /\ pc' \in [Threads -> Steps] /\ mode' \in [Threads -> Modes]
        /\ key' \in [Threads -> Keys] /\ frame' \in [Threads -> Frames \cup {NoFrame}]
        /\ \A u \in Threads :
              /\ pc'[u] = IF u = t THEN "idle" ELSE pc[u]
              /\ mode'[u] = IF u = t THEN "get" ELSE mode[u]
              /\ key'[u] = IF u = t THEN AnyKey ELSE key[u]
              /\ frame'[u] = IF u = t THEN NoFrame ELSE frame[u]
    BY <1>0, <1>a, ReturnLocks DEF free, LockSteps, PurgeSteps, WriteSteps
  <1>c. \A u \in Threads : pc[u] \notin PurgeSteps
    BY <1>0, <1>a, PoolAssumption DEF LockInv
  <1>d. \A l \in Keys : frames'[l] = IF l = k THEN NoFrame ELSE frames[l]
    BY <1>0, <1>a DEF TypeOK
  <1>e. \A u \in Threads : u # t /\ pc[u] \in LockSteps => key[u] # k
    BY <1>0, <1>k, <1>a, OneLocker DEF LockSteps
  <1>n. t \in Workers(f)
    BY <1>f, <1>a DEF Workers
  <1>1. TypeOK'
    <2>1. pin[f] >= 1
      BY <1>0, <1>n, WorkerPins
    <2>2. pin' \in [Frames -> Nat]
      BY <1>0, <1>a, <2>1 DEF TypeOK
    <2>3. frames' \in [Keys -> Frames \cup {NoFrame}]
      BY <1>0, <1>a DEF TypeOK
    <2>4. data' \in [Frames -> Contents]
      BY <1>0, <1>a, SomeKey DEF TypeOK
    <2> QED BY <1>0, <1>a, <1>b, <2>2, <2>3, <2>4 DEF TypeOK
  <1>3. KeyInv'
    BY <1>0, <1>a, <1>b DEF KeyInv, Allocated
  <1>4. DropInv'
    BY <1>0, <1>a, <1>b DEF DropInv
  <1>5. FrameInv'
    <2>1. \A l, m \in Keys : l # m /\ frames'[l] # NoFrame => frames'[l] # frames'[m]
      BY <1>0, <1>d DEF FrameInv
    <2>2. \A u \in Threads : pc'[u] \in PageSteps => frame'[u] \in Frames /\ frames'[key'[u]] = frame'[u]
      BY <1>0, <1>b, <1>d, <1>e DEF FrameInv, PageSteps, LockSteps, TypeOK
    <2>3. \A u \in Threads : pc'[u] \notin PurgeSteps
      BY <1>b, <1>c DEF PurgeSteps
    <2> QED BY <2>1, <2>2, <2>3 DEF FrameInv
  <1>6. HeldInv'
    <2>1. spoiled = Keys \/ \A u \in Threads : \A h \in held[u] : h[1] \in Keys /\ h[1] # k
      BY <1>0, <1>k, <1>a DEF HeldInv, TypeOK
    <2>2. spoiled = Keys \/ \A u \in Threads : \A h \in held[u] : frames'[h[1]] = h[2]
      BY <1>0, <1>d, <2>1 DEF HeldInv
    <2> QED BY <1>0, <1>a, <1>b, <2>2 DEF HeldInv, Allocated
  <1>7. PinInv'
    <2>1. \A b \in opened : Header(b) \in Keys /\ frames'[Header(b)] = frames[Header(b)]
      BY <1>0, <1>k, <1>a, <1>d, NotAHeader, SomeKey DEF TypeOK
    <2>2. \A g \in Frames : Headers(g)' = Headers(g) /\ Holders(g)' = Holders(g)
      BY <1>a, <2>1 DEF Headers, Holders
    <2>3. \A g \in Frames : Workers(g)' = IF g = f THEN Workers(g) \ {t} ELSE Workers(g)
      BY <1>f, <1>a, <1>b DEF Workers
    <2> QED BY <1>0, <1>n, <1>a, <2>2, <2>3, WorkerRemoved
  <1>8. DataInv'
    <2>1. k[2] > page_count[k[1]] => k[2] = 0
      <3>1. k[1] \in Pools /\ mode[t] \in Modes
        BY <1>0, KeyParts DEF TypeOK
      <3> QED BY <1>0, <1>k, <1>a, <3>1 DEF KeyInv, Allocated, TypeOK, Modes
    <2>2. k[2] > 0 => Allocated(k)
      BY <1>0, <1>k, <1>a DEF KeyInv, TypeOK, Modes
    <2> QED BY <1>0, <1>a, <1>b, <1>d, <2>1, <2>2 DEF DataInv, Allocated, OnDisk
  <1>9. NoChangeLost'
    <2>1. ASSUME NEW l \in Keys, l # k, frames[l] # NoFrame
          PROVE  /\ data'[frames[l]] = data[frames[l]]
                 /\ Loading(l)' <=> Loading(l)
      <3>1. frames[l] # f /\ frames[l] \in Frames
        BY <1>0, <1>f, <2>1 DEF FrameInv, TypeOK
      <3>2. Loading(l)' <=> Loading(l)
        BY <1>f, <1>a, <1>b, <1>d, <2>1, <3>1 DEF Loading, InHand
      <3> QED BY <1>0, <1>a, <3>1, <3>2 DEF TypeOK
    <2>2. k \notin spoiled /\ Allocated(k) => OnDisk(k)
      <3>1. Loading(k)
        BY <1>f, <1>a DEF Loading, InHand
      <3> QED BY <1>0, <3>1 DEF NoChangeLost
    <2>3. ASSUME NEW l \in Keys \ spoiled, Allocated(l)
          PROVE  /\ frames'[l] = NoFrame \/ Loading(l)' => OnDisk(l)
                 /\ frames'[l] # NoFrame /\ ~Loading(l)' =>
                       data'[frames'[l]] = <<l, version[l]>> /\ (frames'[l] \in dirty \/ OnDisk(l))
      BY <1>0, <1>d, <2>1, <2>2, <2>3 DEF NoChangeLost
    <2> QED BY <1>a, <2>3 DEF NoChangeLost, Allocated, OnDisk
  <1> QED BY <1>1, <1>b, <1>3, <1>4, <1>5, <1>6, <1>7, <1>8, <1>9 DEF IInv

-----------------------------------------------------------------------------
(* dispose_page. *)

(* The page leaves the file, and memory if it is there. *)
LEMMA Deallocated ==
    ASSUME IInv, NEW t \in Threads, pc[t] \in {"find", "drop"}, Deallocate(t),
           frame_lock = NoThread,
           frames' = [frames EXCEPT ![key[t]] = NoFrame],
           data' \in [Frames -> Contents],
           \A g \in Frames : g # frames[key[t]] => data'[g] = data[g],
           pin' \in [Frames -> Nat],
           UNCHANGED <<leaked, dirty, disk, page_count, opened, frame_lock, dblwr_lock, held, spoiled, failures>>
    PROVE  /\ TypeOK' /\ LockInv' /\ ForeignInv' /\ KeyInv' /\ DropInv' /\ FrameInv' /\ HeldInv' /\ DataInv'
           /\ NoChangeLost'
           /\ \A u \in Threads :
                 /\ pc'[u] = IF u = t THEN "idle" ELSE pc[u]
                 /\ frame'[u] = IF u = t THEN NoFrame ELSE frame[u]
           /\ \A f \in Frames : Holders(f)' = Holders(f) /\ Headers(f)' = Headers(f)
  <1>0. /\ TypeOK /\ LockInv /\ ForeignInv /\ KeyInv /\ DropInv /\ FrameInv /\ HeldInv /\ DataInv
        /\ NoChangeLost
    BY DEF IInv
  <1>k. PICK k \in Keys : k = key[t]
    BY <1>0 DEF TypeOK
  <1>a. /\ allocated' = [allocated EXCEPT ![k[1]] = @ \ {k[2]}]
        /\ version' = [version EXCEPT ![k] = Max({0, disk[k][2]})]
    BY <1>k DEF Deallocate
  <1>b. /\ LockInv' /\ ForeignInv'
        /\ lock' \in [Pools -> Threads \cup {NoThread}]
        /\ {manager_lock', dblwr_lock'} \subseteq Threads \cup {NoThread}
        /\ pc' \in [Threads -> Steps] /\ mode' \in [Threads -> Modes]
        /\ key' \in [Threads -> Keys] /\ frame' \in [Threads -> Frames \cup {NoFrame}]
        /\ \A u \in Threads :
              /\ pc'[u] = IF u = t THEN "idle" ELSE pc[u]
              /\ mode'[u] = IF u = t THEN "get" ELSE mode[u]
              /\ key'[u] = IF u = t THEN AnyKey ELSE key[u]
              /\ frame'[u] = IF u = t THEN NoFrame ELSE frame[u]
    BY <1>0, ReturnLocks DEF Deallocate, LockSteps, PurgeSteps, WriteSteps
  <1>c. \A u \in Threads : pc[u] \notin PurgeSteps
    BY <1>0, PoolAssumption DEF LockInv
  <1>d. \A l \in Keys : frames'[l] = IF l = k THEN NoFrame ELSE frames[l]
    BY <1>0, <1>k DEF TypeOK
  <1>e. /\ \A u \in Threads : u # t /\ pc[u] # "idle" => key[u] # k
        /\ \A u \in Threads : \A h \in held[u] : h[1] \in Keys /\ h[1] # k
    BY <1>0, <1>k DEF DropInv, TypeOK
  <1>g. k[1] \in Pools /\ k[2] \in Nat /\ k = <<k[1], k[2]>> /\ Allocated(k)
    BY <1>0, <1>k, KeyParts DEF KeyInv, TypeOK, Modes
  <1>h. \A l \in Keys : Allocated(l)' <=> Allocated(l) /\ l # k
    <2>1. ASSUME NEW l \in Keys PROVE Allocated(l)' <=> Allocated(l) /\ l # k
      <3>1. l[1] \in Pools /\ l = <<l[1], l[2]>>
        BY KeyParts
      <3>2. allocated'[l[1]] = IF l[1] = k[1] THEN allocated[l[1]] \ {k[2]} ELSE allocated[l[1]]
        BY <1>0, <1>a, <3>1 DEF TypeOK
      <3> QED BY <1>g, <3>1, <3>2 DEF Allocated
    <2> QED BY <2>1
  <1>v. /\ \A l \in Keys : l # k => version'[l] = version[l]
        /\ version'[k] = IF disk[k][2] >= 0 THEN disk[k][2] ELSE 0
        /\ disk[k][2] \in Versions /\ disk[k][2] \in Int /\ disk[k] = <<disk[k][1], disk[k][2]>>
    <2>1. disk[k][2] \in Versions /\ disk[k][2] \in Int /\ disk[k] = <<disk[k][1], disk[k][2]>>
      BY <1>0, ContentParts DEF TypeOK
    <2> QED BY <1>0, <1>a, <2>1, MaxZero DEF TypeOK
  <1>1. TypeOK'
    <2>1. frames' \in [Keys -> Frames \cup {NoFrame}]
      BY <1>0, <1>k DEF TypeOK
    <2>2. version'[k] \in 0 .. WriteBound
      BY <1>v, PoolAssumption DEF Versions
    <2>3. version' \in [Keys -> 0 .. WriteBound]
      BY <1>0, <1>a, <1>v, <2>2 DEF TypeOK
    <2>4. allocated' \in [Pools -> SUBSET Nat]
      BY <1>0, <1>a DEF TypeOK
    <2>5. \A b \in Pools : allocated'[b] \subseteq 1 .. page_count[b] /\ page_count[b] <= MAX_PAGE_NUM[b]
      BY <1>0, <1>a DEF TypeOK
    <2> QED BY <1>0, <1>b, <2>1, <2>3, <2>4, <2>5 DEF TypeOK
  <1>3. KeyInv'
    <2>1. \A u \in Threads : pc'[u] # "idle" /\ (mode'[u] = "get" \/ (mode'[u] = "append" /\ pc'[u] = "extend")) =>
              key'[u][2] \in allocated'[key'[u][1]]
      BY <1>0, <1>b, <1>e, <1>h DEF KeyInv, Allocated, TypeOK
    <2> QED BY <1>0, <1>b, <2>1 DEF KeyInv, LockSteps, Allocated
  <1>4. DropInv'
    BY <1>0, <1>b DEF DropInv
  <1>5. FrameInv'
    <2>1. \A l, m \in Keys : l # m /\ frames'[l] # NoFrame => frames'[l] # frames'[m]
      BY <1>0, <1>d DEF FrameInv
    <2>2. \A u \in Threads : pc'[u] \in PageSteps => frame'[u] \in Frames /\ frames'[key'[u]] = frame'[u]
      BY <1>0, <1>b, <1>d, <1>e DEF FrameInv, PageSteps, TypeOK
    <2>3. \A u \in Threads : pc'[u] \notin PurgeSteps
      BY <1>b, <1>c DEF PurgeSteps
    <2> QED BY <2>1, <2>2, <2>3 DEF FrameInv
  <1>6. HeldInv'
    <2>1. \A u \in Threads : \A h \in held[u] : Allocated(h[1])'
      BY <1>0, <1>e, <1>h DEF HeldInv
    <2>2. spoiled = Keys \/ \A u \in Threads : \A h \in held[u] : frames'[h[1]] = h[2]
      BY <1>0, <1>d, <1>e DEF HeldInv
    <2> QED BY <1>0, <1>b, <2>1, <2>2 DEF HeldInv
  <1>7. \A f \in Frames : Holders(f)' = Holders(f) /\ Headers(f)' = Headers(f)
    <2>1. \A b \in opened : Header(b) \in Keys /\ frames'[Header(b)] = frames[Header(b)]
      BY <1>0, <1>k, <1>d, NotAHeader, SomeKey DEF TypeOK
    <2> QED BY <2>1 DEF Headers, Holders
  <1>8. DataInv'
    <2> SUFFICES ASSUME NEW l \in Keys \ spoiled, l[2] > 0
                 PROVE  /\ disk[l][1] = l
                        /\ l[2] > page_count[l[1]] =>
                              /\ version'[l] = 0 /\ disk[l][2] = -1
                              /\ frames'[l] # NoFrame =>
                                    \E u \in Threads : pc'[u] = "load" /\ mode'[u] = "append" /\ key'[u] = l
                        /\ l[2] <= page_count[l[1]] /\ ~Allocated(l)' => frames'[l] = NoFrame /\ OnDisk(l)'
      BY DEF DataInv
    <2>1. CASE l = k
      <3>1. disk[k][1] = k
        BY <1>0, <2>1 DEF DataInv
      <3>2. OnDisk(k)'
        BY <1>v, <3>1 DEF OnDisk
      <3>3. ~(k[2] > page_count[k[1]])
        BY <1>0, <1>g DEF TypeOK, Allocated
      <3> QED BY <1>d, <2>1, <3>1, <3>2, <3>3
    <2>2. CASE l # k
      BY <1>0, <1>b, <1>d, <1>h, <1>v, <2>2 DEF DataInv, OnDisk
    <2> QED BY <2>1, <2>2
  <1>9. NoChangeLost'
    <2>1. ASSUME NEW l \in Keys, l # k, frames[l] # NoFrame
          PROVE  data'[frames[l]] = data[frames[l]] /\ (Loading(l)' <=> Loading(l))
      <3>1. frames[l] # frames[k] /\ frames[l] \in Frames
        BY <1>0, <2>1 DEF FrameInv, TypeOK
      <3>2. Loading(l)' <=> Loading(l)
        BY <1>b, <1>d, <2>1 DEF Loading, InHand
      <3> QED BY <1>k, <3>1, <3>2
    <2>2. ASSUME NEW l \in Keys \ spoiled, Allocated(l)'
          PROVE  /\ frames'[l] = NoFrame \/ Loading(l)' => OnDisk(l)'
                 /\ frames'[l] # NoFrame /\ ~Loading(l)' =>
                       data'[frames'[l]] = <<l, version'[l]>> /\ (frames'[l] \in dirty \/ OnDisk(l)')
      <3>1. l # k /\ Allocated(l)
        BY <1>h, <2>2
      <3>2. /\ frames[l] = NoFrame \/ Loading(l) => OnDisk(l)
            /\ frames[l] # NoFrame /\ ~Loading(l) =>
                  data[frames[l]] = <<l, version[l]>> /\ (frames[l] \in dirty \/ OnDisk(l))
        BY <1>0, <3>1 DEF NoChangeLost
      <3>3. frames'[l] = frames[l] /\ version'[l] = version[l] /\ (OnDisk(l) => OnDisk(l)')
        BY <1>d, <1>v, <3>1 DEF OnDisk
      <3>4. CASE frames[l] = NoFrame
        BY <3>2, <3>3, <3>4
      <3>5. CASE frames[l] # NoFrame
        BY <2>1, <3>1, <3>2, <3>3, <3>5
      <3> QED BY <3>4, <3>5
    <2> QED BY <2>2 DEF NoChangeLost
  <1> QED BY <1>1, <1>b, <1>3, <1>4, <1>5, <1>6, <1>7, <1>8, <1>9

LEMMA FindStep ==
    ASSUME IInv, NEW t \in Threads, find(t) PROVE IInv'
  <1>0. /\ TypeOK /\ LockInv /\ ForeignInv /\ KeyInv /\ DropInv /\ FrameInv /\ HeldInv /\ PinInv
        /\ DataInv /\ NoChangeLost
    BY DEF IInv
  <1>k. PICK k \in Keys : k = key[t]
    BY <1>0 DEF TypeOK
  <1>a. /\ pc[t] = "find" /\ frame_lock = NoThread
        /\ UNCHANGED <<leaked, frames, dirty, data, disk, page_count, opened, frame_lock, dblwr_lock, held, spoiled,
                       failures>>
    BY DEF find
  <1>1. CASE frames[k] = NoFrame
    <2>1. Deallocate(t) /\ pin' = pin
      BY <1>k, <1>1 DEF find
    <2>2. frames' = [frames EXCEPT ![key[t]] = NoFrame]
      BY <1>0, <1>k, <1>1, <1>a DEF TypeOK
    <2>3. data' \in [Frames -> Contents] /\ pin' \in [Frames -> Nat]
      BY <1>0, <1>a, <2>1 DEF TypeOK
    <2>4. /\ TypeOK' /\ LockInv' /\ ForeignInv' /\ KeyInv' /\ DropInv' /\ FrameInv' /\ HeldInv' /\ DataInv'
          /\ NoChangeLost'
          /\ \A u \in Threads :
                /\ pc'[u] = IF u = t THEN "idle" ELSE pc[u]
                /\ frame'[u] = IF u = t THEN NoFrame ELSE frame[u]
          /\ \A f \in Frames : Holders(f)' = Holders(f) /\ Headers(f)' = Headers(f)
      BY <1>a, <2>1, <2>2, <2>3, Deallocated
    <2>5. \A f \in Frames : Workers(f)' = Workers(f)
      BY <1>a, <2>4 DEF Workers
    <2>6. PinInv'
      BY <1>0, <1>a, <2>1, <2>4, <2>5 DEF PinInv, Owners
    <2> QED BY <2>4, <2>6 DEF IInv
  <1>2. CASE frames[k] # NoFrame
    <2>f. PICK f \in Frames : f = frames[k]
      BY <1>0, <1>2 DEF TypeOK
    <2>a. /\ pc' = [pc EXCEPT ![t] = "drop"]
          /\ frame' = [frame EXCEPT ![t] = f]
          /\ pin' = [pin EXCEPT ![f] = @ + 1]
          /\ UNCHANGED <<allocated, version, lock, manager_lock, mode, key>>
      BY <1>k, <1>2, <2>f DEF find, Goto, get_internal
    <2>b. \A u \in Threads :
            /\ pc'[u] = IF u = t THEN "drop" ELSE pc[u]
            /\ frame'[u] = IF u = t THEN f ELSE frame[u]
      BY <1>0, <2>a DEF TypeOK
    <2>c. \A u \in Threads : pc[u] \notin PurgeSteps
      BY <1>0, <1>a, PoolAssumption DEF LockInv
    <2>1. TypeOK'
      BY <1>0, <1>a, <2>a DEF TypeOK, Steps
    <2>2. LockInv'
      BY <1>0, <1>a, <2>a, <2>b DEF LockInv, LockSteps, PurgeSteps, WriteSteps
    <2>l. ForeignInv'
      BY <1>0, <1>a, <2>a, <2>b, ForeignKept DEF LockSteps, PurgeSteps
    <2>3. KeyInv'
      BY <1>0, <1>a, <2>a, <2>b DEF KeyInv, LockSteps, Allocated
    <2>4. DropInv'
      BY <1>0, <1>a, <2>a, <2>b DEF DropInv
    <2>5. FrameInv'
      BY <1>0, <1>k, <2>f, <1>a, <2>a, <2>b, <2>c DEF FrameInv, PurgeSteps, PageSteps
    <2>6. HeldInv'
      BY <1>0, <1>a, <2>a, <2>b DEF HeldInv, Allocated
    <2>7. PinInv'
      <3>1. \A g \in Frames : Workers(g)' = IF g = f THEN Workers(g) \cup {t} ELSE Workers(g)
        BY <1>a, <2>b DEF Workers
      <3>2. t \notin Workers(f)
        BY <1>a DEF Workers
      <3>3. \A g \in Frames : Holders(g)' = Holders(g) /\ Headers(g)' = Headers(g)
        BY <1>a DEF Holders, Headers
      <3> QED BY <1>0, <1>a, <2>a, <3>1, <3>2, <3>3, WorkerAdded
    <2>8. DataInv'
      BY <1>0, <1>a, <2>a, <2>b DEF DataInv, Allocated, OnDisk
    <2>9. NoChangeLost'
      <3>1. \A l \in Keys : Loading(l)' <=> Loading(l)
        BY <1>a, <2>b DEF Loading, InHand
      <3> QED BY <1>0, <1>a, <2>a, <3>1 DEF NoChangeLost, Allocated, OnDisk
    <2> QED BY <2>1, <2>2, <2>l, <2>3, <2>4, <2>5, <2>6, <2>7, <2>8, <2>9 DEF IInv
  <1> QED BY <1>1, <1>2

LEMMA DropStep ==
    ASSUME IInv, NEW t \in Threads, drop(t) PROVE IInv'
  <1>0. TypeOK /\ FrameInv /\ PinInv
    BY DEF IInv
  <1>k. PICK k \in Keys : k = key[t]
    BY <1>0 DEF TypeOK
  <1>f. PICK f \in Frames : f = frame[t] /\ frames[k] = f
    BY <1>0, <1>k DEF FrameInv, PageSteps, drop
  <1>a. /\ pc[t] = "drop" /\ frame_lock = NoThread /\ Deallocate(t)
        /\ frames' = [frames EXCEPT ![key[t]] = NoFrame]
        /\ data' = [data EXCEPT ![f] = Garbage]
        /\ pin' = [pin EXCEPT ![f] = @ - 1]
        /\ UNCHANGED <<leaked, dirty, disk, page_count, opened, frame_lock, dblwr_lock, held, spoiled, failures>>
    BY <1>k, <1>f DEF drop, free_internal
  <1>n. t \in Workers(f)
    BY <1>f, <1>a DEF Workers
  <1>1. data' \in [Frames -> Contents] /\ \A g \in Frames : g # frames[key[t]] => data'[g] = data[g]
    BY <1>0, <1>k, <1>f, <1>a, SomeKey DEF TypeOK
  <1>2. pin' \in [Frames -> Nat]
    BY <1>0, <1>a, <1>n, WorkerPins DEF TypeOK
  <1>3. /\ TypeOK' /\ LockInv' /\ ForeignInv' /\ KeyInv' /\ DropInv' /\ FrameInv' /\ HeldInv' /\ DataInv'
        /\ NoChangeLost'
        /\ \A u \in Threads :
              /\ pc'[u] = IF u = t THEN "idle" ELSE pc[u]
              /\ frame'[u] = IF u = t THEN NoFrame ELSE frame[u]
        /\ \A g \in Frames : Holders(g)' = Holders(g) /\ Headers(g)' = Headers(g)
    BY <1>a, <1>1, <1>2, Deallocated
  <1>4. PinInv'
    <2>1. \A g \in Frames : Workers(g)' = IF g = f THEN Workers(g) \ {t} ELSE Workers(g)
      BY <1>f, <1>a, <1>3 DEF Workers
    <2> QED BY <1>0, <1>n, <1>a, <1>3, <2>1, WorkerRemoved
  <1> QED BY <1>3, <1>4 DEF IInv

-----------------------------------------------------------------------------
(* The file has grown, or is open. *)

LEMMA ClearPageStep ==
    ASSUME IInv, NEW t \in Threads, clear_page(t) PROVE IInv'
  <1> USE DEF lockVars
  <1>0. /\ TypeOK /\ LockInv /\ ForeignInv /\ KeyInv /\ DropInv /\ FrameInv /\ HeldInv /\ PinInv
        /\ DataInv /\ NoChangeLost
    BY DEF IInv
  <1>k. PICK k \in Keys : k = key[t]
    BY <1>0 DEF TypeOK
  <1>f. PICK f \in Frames : f = frame[t] /\ frames[k] = f
    BY <1>0, <1>k DEF FrameInv, PageSteps, clear_page
  <1>a. /\ pc[t] = "load" /\ mode[t] = "append" /\ pc' = [pc EXCEPT ![t] = "extend"]
        /\ page_count' = [page_count EXCEPT ![k[1]] = @ + 1]
        /\ allocated' = [allocated EXCEPT ![k[1]] = @ \cup {k[2]}]
        /\ data' = [data EXCEPT ![f] = <<k, 0>>]
        /\ UNCHANGED <<frames, pin, dirty, disk, opened, lockVars, mode, key, frame, held, version, leaked,
                       spoiled, failures>>
    BY <1>k, <1>f DEF clear_page, Goto
  <1>b. \A u \in Threads : pc'[u] = IF u = t THEN "extend" ELSE pc[u]
    BY <1>0, <1>a DEF TypeOK
  <1>g. /\ k[1] \in Pools /\ k = <<k[1], k[2]>> /\ page_count[k[1]] \in Nat
        /\ k[2] = page_count[k[1]] + 1 /\ k[2] <= MAX_PAGE_NUM[k[1]]
        /\ page_count'[k[1]] = k[2]
    <2>1. k[1] \in Pools /\ k = <<k[1], k[2]>> /\ k[2] \in 0 .. MAX_PAGE_NUM[k[1]]
          /\ MAX_PAGE_NUM[k[1]] \in Nat
      BY KeyParts
    <2>2. page_count[k[1]] \in Nat /\ k[2] = page_count[k[1]] + 1
      BY <1>0, <1>k, <1>a, <2>1 DEF KeyInv, TypeOK
    <2> QED BY <1>0, <1>a, <2>1, <2>2 DEF TypeOK
  <1>i. \A l \in Keys : Allocated(l)' <=> Allocated(l) \/ l = k
    <2>1. ASSUME NEW l \in Keys PROVE Allocated(l)' <=> Allocated(l) \/ l = k
      <3>1. l[1] \in Pools /\ l = <<l[1], l[2]>>
        BY KeyParts
      <3>2. allocated'[l[1]] = IF l[1] = k[1] THEN allocated[l[1]] \cup {k[2]} ELSE allocated[l[1]]
        BY <1>0, <1>a, <3>1 DEF TypeOK
      <3> QED BY <1>g, <3>1, <3>2 DEF Allocated
    <2> QED BY <2>1
  <1>j. \A b \in Pools : page_count'[b] = IF b = k[1] THEN page_count[b] + 1 ELSE page_count[b]
    BY <1>0, <1>a DEF TypeOK
  <1>n. ~Allocated(k)
    BY <1>0, <1>g DEF Allocated, TypeOK
  <1>h. \A g \in Frames :
               /\ Holders(g)' = Holders(g) /\ Workers(g)' = Workers(g) /\ Headers(g)' = Headers(g)
               /\ Owners(g)' = Owners(g)
    <2>1. \A g \in Frames : Workers(g)' = Workers(g)
      BY <1>a, <1>b DEF Workers
    <2> QED BY <1>a, <2>1, OwnersKept
  <1>1. TypeOK'
    <2>0. <<k, 0>> \in Contents
      BY PoolAssumption DEF Contents, Versions
    <2>1. data' \in [Frames -> Contents]
      BY <1>0, <1>a, <2>0 DEF TypeOK
    <2>4. page_count' \in [Pools -> Nat]
      BY <1>0, <1>a, <1>g DEF TypeOK
    <2>5. allocated' \in [Pools -> SUBSET Nat]
      BY <1>0, <1>a, <1>g DEF TypeOK
    <2>6. \A b \in Pools : allocated'[b] \subseteq 1 .. page_count'[b] /\ page_count'[b] <= MAX_PAGE_NUM[b]
      BY <1>0, <1>a, <1>g, <1>j DEF TypeOK
    <2> QED BY <1>0, <1>a, <2>1, <2>4, <2>5, <2>6 DEF TypeOK, Steps
  <1>2. LockInv'
    BY <1>0, <1>a, <1>b DEF LockInv, LockSteps, PurgeSteps, WriteSteps
  <1>l. ForeignInv'
    BY <1>0, <1>a, <1>b, ForeignKept DEF LockSteps, PurgeSteps
  <1>3. KeyInv'
    <2>1. \A u \in Threads : Allocated(key[u]) => Allocated(key[u])'
      BY <1>0, <1>a, <1>i DEF TypeOK, Allocated
    <2>2. ASSUME NEW u \in Threads, u # t, pc[u] # "idle", mode[u] = "append", pc[u] # "extend"
          PROVE  key[u][2] = page_count'[key[u][1]] + 1
      <3>1. pc[u] \in LockSteps /\ key[u][2] = page_count[key[u][1]] + 1
        BY <1>0, <2>2 DEF KeyInv
      <3>2. key[u][1] \in Pools
        BY <1>0, KeyParts DEF TypeOK
      <3>3. key[u][1] # k[1]
        BY <1>0, <1>k, <1>a, <1>g, <2>2, <3>1, <3>2 DEF LockInv, LockSteps
      <3> QED BY <1>j, <3>1, <3>2, <3>3
    <2>3. Allocated(key[t])'
      BY <1>k, <1>a, <1>i DEF Allocated
    <2> SUFFICES ASSUME NEW u \in Threads, pc'[u] # "idle"
                 PROVE  /\ mode[u] = "get" => Allocated(key[u])'
                        /\ mode[u] = "open" =>
                              /\ pc'[u] \in LockSteps \ {"find", "drop"}
                              /\ key[u][2] = 0 /\ key[u][1] \notin opened
                        /\ mode[u] = "append" =>
                              /\ pc'[u] \in LockSteps \ {"discard", "free", "find", "drop"}
                              /\ IF pc'[u] = "extend" THEN Allocated(key[u])'
                                 ELSE key[u][2] = page_count'[key[u][1]] + 1
                        /\ pc'[u] = "extend" => mode[u] = "append"
                        /\ \A h \in held[u] : h[1] # key[u]
      BY <1>a DEF KeyInv, Allocated
    <2>4. CASE u = t
      BY <1>0, <1>a, <1>b, <2>3, <2>4 DEF KeyInv, LockSteps
    <2>5. CASE u # t
      BY <1>0, <1>a, <1>b, <2>1, <2>2, <2>5 DEF KeyInv
    <2> QED BY <2>4, <2>5
  <1>4. DropInv'
    BY <1>0, <1>a, <1>b DEF DropInv
  <1>5. FrameInv'
    <2>1. \A u \in Threads : /\ pc'[u] \in PageSteps <=> pc[u] \in PageSteps
                             /\ pc'[u] \in PurgeSteps <=> pc[u] \in PurgeSteps
      BY <1>a, <1>b DEF PurgeSteps, PageSteps
    <2>2. Used' = Used
      BY <1>a DEF Used
    <2>3. \A u \in Threads, g \in Frames : pc'[u] \in PurgeSteps /\ frame'[u] = g =>
              Holders(g)' = {} /\ Headers(g)' = {} /\ Workers(g)' = {u}
      BY <1>0, <1>a, <1>h, <2>1 DEF FrameInv
    <2> QED BY <1>0, <1>a, <2>1, <2>2, <2>3 DEF FrameInv
  <1>6. HeldInv'
    <2>1. \A u \in Threads : \A h \in held[u] : Allocated(h[1])'
      BY <1>0, <1>i DEF HeldInv, TypeOK
    <2> QED BY <1>0, <1>a, <1>b, <2>1 DEF HeldInv
  <1>7. PinInv'
    BY <1>0, <1>a, <1>h DEF PinInv
  <1>v. k \notin spoiled => disk[k][1] = k /\ version[k] = 0 /\ disk[k][2] = -1
    BY <1>0, <1>g DEF DataInv
  <1>8. DataInv'
    <2> SUFFICES ASSUME NEW l \in Keys \ spoiled, l[2] > 0
                 PROVE  /\ disk[l][1] = l
                        /\ l[2] > page_count'[l[1]] =>
                              /\ version[l] = 0 /\ disk[l][2] = -1
                              /\ frames[l] # NoFrame =>
                                    \E u \in Threads : pc'[u] = "load" /\ mode[u] = "append" /\ key[u] = l
                        /\ l[2] <= page_count'[l[1]] /\ ~Allocated(l)' => frames[l] = NoFrame /\ OnDisk(l)
      BY <1>a DEF DataInv, OnDisk
    <2>1. CASE l = k
      BY <1>g, <1>i, <1>v, <2>1
    <2>2. CASE l # k
      <3>1. l[1] \in Pools /\ l[2] \in Nat /\ l = <<l[1], l[2]>> /\ page_count[l[1]] \in Nat
        BY <1>0, KeyParts DEF TypeOK
      <3>2. /\ l[2] > page_count'[l[1]] => l[2] > page_count[l[1]]
            /\ l[2] <= page_count'[l[1]] => l[2] <= page_count[l[1]]
        BY <1>g, <1>j, <2>2, <3>1
      <3> QED BY <1>0, <1>k, <1>b, <1>i, <2>2, <3>2 DEF DataInv
    <2> QED BY <2>1, <2>2
  <1>9. NoChangeLost'
    <2> SUFFICES ASSUME NEW l \in Keys \ spoiled, Allocated(l)'
                 PROVE  /\ frames[l] = NoFrame \/ Loading(l)' => OnDisk(l)
                        /\ frames[l] # NoFrame /\ ~Loading(l)' =>
                              data'[frames[l]] = <<l, version[l]>> /\ (frames[l] \in dirty \/ OnDisk(l))
      BY <1>a DEF NoChangeLost, OnDisk
    <2>1. CASE l = k
      <3>1. data'[f] = <<k, 0>>
        BY <1>0, <1>a DEF TypeOK
      <3> QED BY <1>f, <1>v, <2>1, <3>1 DEF OnDisk
    <2>2. CASE l # k
      <3>1. frames[l] # f /\ (frames[l] # NoFrame => frames[l] \in Frames)
        BY <1>0, <1>f, <2>2, PoolAssumption DEF FrameInv, TypeOK
      <3>2. Loading(l)' <=> Loading(l)
        BY <1>f, <1>a, <1>b, <3>1 DEF Loading, InHand
      <3>3. frames[l] # NoFrame => data'[frames[l]] = data[frames[l]]
        BY <1>0, <1>a, <3>1 DEF TypeOK
      <3> QED BY <1>0, <1>i, <2>2, <3>2, <3>3 DEF NoChangeLost
    <2> QED BY <2>1, <2>2
  <1> QED BY <1>1, <1>2, <1>l, <1>3, <1>4, <1>5, <1>6, <1>7, <1>8, <1>9 DEF IInv

LEMMA ExtendStep ==
    ASSUME IInv, NEW t \in Threads, Extend(t) PROVE IInv'
  <1>0. /\ TypeOK /\ LockInv /\ ForeignInv /\ KeyInv /\ DropInv /\ FrameInv /\ HeldInv /\ PinInv
        /\ DataInv /\ NoChangeLost
    BY DEF IInv
  <1>k. PICK k \in Keys : k = key[t]
    BY <1>0 DEF TypeOK
  <1>f. PICK f \in Frames : f = frame[t] /\ frames[k] = f
    BY <1>0, <1>k DEF FrameInv, PageSteps, Extend
  <1>g. KeyOf(f) = k
    BY <1>0, <1>f, KeyOfFrames, PoolAssumption
  <1>a. /\ pc[t] = "extend"
        /\ disk' = [disk EXCEPT ![k] = data[frames[k]]]
        /\ dirty' = dirty \/ dirty' = dirty \ {frames[k]}
        /\ spoiled' = spoiled \/ spoiled' = Keys
        /\ dblwr_lock' = NoThread
        /\ held' = [held EXCEPT ![t] = @ \cup {<<k, f>>}]
        /\ UNCHANGED <<frames, pin, data, page_count, allocated, opened, frame_lock, version, leaked>>
    BY <1>k, <1>f, <1>g DEF Extend, flush_page_internal, FlushFailed, add_page
  <1>s. spoiled \subseteq spoiled' /\ spoiled' \subseteq Keys
    BY <1>0, <1>a DEF TypeOK
  <1>x. failures' \in 0 .. FailBound
    BY <1>0, FailCounted DEF Extend, TypeOK, flush_page_internal, FlushFailed
  <1>b. /\ LockInv' /\ ForeignInv'
        /\ lock' \in [Pools -> Threads \cup {NoThread}]
        /\ {manager_lock', dblwr_lock'} \subseteq Threads \cup {NoThread}
        /\ pc' \in [Threads -> Steps] /\ mode' \in [Threads -> Modes]
        /\ key' \in [Threads -> Keys] /\ frame' \in [Threads -> Frames \cup {NoFrame}]
        /\ \A u \in Threads :
              /\ pc'[u] = IF u = t THEN "idle" ELSE pc[u]
              /\ mode'[u] = IF u = t THEN "get" ELSE mode[u]
              /\ key'[u] = IF u = t THEN AnyKey ELSE key[u]
              /\ frame'[u] = IF u = t THEN NoFrame ELSE frame[u]
    BY <1>0, <1>a, ReturnLocks DEF Extend, LockSteps, PurgeSteps
  <1>c. \A u \in Threads : held'[u] = IF u = t THEN held[t] \cup {<<k, f>>} ELSE held[u]
    BY <1>0, <1>a DEF TypeOK
  <1>d. \A u \in Threads : u # t /\ pc[u] \in LockSteps => key[u] # k
    BY <1>0, <1>k, <1>a, OneLocker DEF LockSteps
  <1>e. t \in Workers(f) /\ Allocated(k) /\ \A h \in held[t] : h[1] # k
    BY <1>0, <1>k, <1>f, <1>a DEF Workers, KeyInv
  <1>h. \A g \in Frames :
          /\ Workers(g)' = IF g = f THEN Workers(g) \ {t} ELSE Workers(g)
          /\ Holders(g)' = IF g = f THEN Holders(g) \cup {<<t, k>>} ELSE Holders(g)
          /\ Headers(g)' = Headers(g)
    <2>1. \A g \in Frames : Workers(g)' = IF g = f THEN Workers(g) \ {t} ELSE Workers(g)
      BY <1>f, <1>a, <1>b DEF Workers
    <2>2. \A g \in Frames : Holders(g)' = IF g = f THEN Holders(g) \cup {<<t, k>>} ELSE Holders(g)
      BY <1>c DEF Holders
    <2>3. \A g \in Frames : Headers(g)' = Headers(g)
      BY <1>a DEF Headers
    <2> QED BY <2>1, <2>2, <2>3
  <1>1. TypeOK'
    <2>2. held' \in [Threads -> SUBSET (Keys \X Frames)]
      BY <1>0, <1>a DEF TypeOK
    <2>3. disk' \in [Keys -> Contents] /\ dirty' \subseteq Frames
      BY <1>0, <1>f, <1>a DEF TypeOK
    <2> QED BY <1>0, <1>a, <1>b, <1>s, <1>x, <2>2, <2>3 DEF TypeOK
  <1>3. KeyInv'
    BY <1>0, <1>a, <1>b, <1>c DEF KeyInv, Allocated
  <1>4. DropInv'
    BY <1>0, <1>a, <1>b, <1>c, <1>d DEF DropInv, LockSteps
  <1>5. FrameInv'
    <2>1. \A u \in Threads : pc'[u] \in PageSteps => frame'[u] \in Frames /\ frames[key'[u]] = frame'[u]
      BY <1>0, <1>b DEF FrameInv, PageSteps
    <2>2. ASSUME NEW u \in Threads, NEW g \in Frames, pc'[u] \in PurgeSteps, frame'[u] = g
          PROVE  g \in Used' /\ Holders(g)' = {} /\ Headers(g)' = {} /\ Workers(g)' = {u}
      <3>1. u # t /\ pc[u] \in PurgeSteps /\ frame[u] = g
        BY <1>b, <2>2 DEF PurgeSteps
      <3>2. Holders(g) = {} /\ Headers(g) = {} /\ Workers(g) = {u} /\ g \in Used
        BY <1>0, <3>1 DEF FrameInv
      <3>3. g # f
        BY <1>e, <3>1, <3>2
      <3> QED BY <1>a, <1>h, <3>2, <3>3 DEF Used
    <2>3. \A u \in Threads : pc'[u] \in PurgeSteps => frame'[u] \in Frames
      BY <1>0, <1>b, KeyOfUsed DEF FrameInv, PurgeSteps
    <2> QED BY <1>0, <1>a, <2>1, <2>2, <2>3 DEF FrameInv
  <1>6. HeldInv'
    <2>0. spoiled = Keys => spoiled' = Keys
      BY <1>a
    <2>1. \A u \in Threads : \A h \in held'[u] : Allocated(h[1])'
      BY <1>0, <1>a, <1>c, <1>e DEF HeldInv, Allocated
    <2>2. spoiled' = Keys \/ \A u \in Threads : \A h \in held'[u] : frames[h[1]] = h[2]
      BY <1>0, <1>c, <1>f, <2>0 DEF HeldInv
    <2>3. ASSUME NEW v \in Threads, NEW u \in Threads, NEW h \in held'[u], h[1] = key'[v]
          PROVE  /\ pc'[v] = "load" => key'[v] \in spoiled'
                 /\ pc'[v] \in {"discard", "free"} => spoiled' = Keys
      <3>1. CASE pc'[v] \notin LoadSteps
        BY <3>1 DEF LoadSteps
      <3>2. CASE pc'[v] \in LoadSteps
        <4>1. v # t /\ pc[v] = pc'[v] /\ key[v] = key'[v] /\ key[v] # k
          BY <1>b, <1>d, <3>2 DEF LoadSteps, LockSteps
        <4>2. h \in held[u]
          BY <1>c, <2>3, <4>1
        <4> QED BY <1>0, <1>s, <2>0, <2>3, <4>1, <4>2 DEF HeldInv
      <3> QED BY <3>1, <3>2
    <2> QED BY <1>a, <2>1, <2>2, <2>3 DEF HeldInv
  <1>7. PinInv'
    <2>1. <<t, k>> \notin Holders(f)
      BY <1>e DEF Holders
    <2> QED BY <1>0, <1>a, <1>e, <1>h, <2>1, WorkerMoved
  <1>8. DataInv' /\ NoChangeLost'
    <2>1. \A u \in Threads : pc[u] \in LoadSteps => u # t /\ key[u] # k
      BY <1>a, <1>d DEF LoadSteps, LockSteps
    <2>2. \A l \in Keys : Loading(l)' <=> Loading(l)
      BY <1>a, <1>b DEF Loading, InHand
    <2>3. ~Loading(k) /\ frames[k] # NoFrame
      BY <1>0, <1>f, <2>1, LoadingKey, PoolAssumption
    <2>4. \A u \in Threads : pc[u] = "load" =>
              key[u] # k /\ pc'[u] = "load" /\ mode'[u] = mode[u] /\ key'[u] = key[u]
      BY <1>b, <2>1 DEF LoadSteps
    <2> QED BY <1>0, <1>a, <1>s, <2>2, <2>3, <2>4, WrittenData
  <1> QED BY <1>1, <1>b, <1>3, <1>4, <1>5, <1>6, <1>7, <1>8 DEF IInv

LEMMA OpenDoneStep ==
    ASSUME IInv, NEW t \in Threads, OpenDone(t) PROVE IInv'
  <1> USE DEF fileVars
  <1>0. /\ TypeOK /\ LockInv /\ ForeignInv /\ KeyInv /\ DropInv /\ FrameInv /\ HeldInv /\ PinInv
        /\ DataInv /\ NoChangeLost
    BY DEF IInv
  <1>k. PICK k \in Keys : k = key[t]
    BY <1>0 DEF TypeOK
  <1>f. PICK f \in Frames : f = frame[t] /\ frames[k] = f
    BY <1>0, <1>k DEF FrameInv, PageSteps, OpenDone
  <1>a. /\ pc[t] = "load" /\ mode[t] = "open"
        /\ data' = [data EXCEPT ![f] = disk[k]]
        /\ opened' = opened \cup {k[1]}
        /\ UNCHANGED <<leaked, frames, pin, dirty, fileVars, frame_lock, dblwr_lock, held, version, spoiled,
                       failures>>
    BY <1>k, <1>f DEF OpenDone
  <1>b. /\ LockInv' /\ ForeignInv'
        /\ lock' \in [Pools -> Threads \cup {NoThread}]
        /\ {manager_lock', dblwr_lock'} \subseteq Threads \cup {NoThread}
        /\ pc' \in [Threads -> Steps] /\ mode' \in [Threads -> Modes]
        /\ key' \in [Threads -> Keys] /\ frame' \in [Threads -> Frames \cup {NoFrame}]
        /\ \A u \in Threads :
              /\ pc'[u] = IF u = t THEN "idle" ELSE pc[u]
              /\ mode'[u] = IF u = t THEN "get" ELSE mode[u]
              /\ key'[u] = IF u = t THEN AnyKey ELSE key[u]
              /\ frame'[u] = IF u = t THEN NoFrame ELSE frame[u]
    BY <1>0, <1>a, ReturnLocks DEF OpenDone, LockSteps, PurgeSteps, WriteSteps
  <1>g. /\ k[1] \in Pools /\ k[2] = 0 /\ k = Header(k[1]) /\ k[1] \notin opened
    BY <1>0, <1>k, <1>a, KeyParts DEF KeyInv, Header
  <1>e. t \in Workers(f)
    BY <1>f, <1>a DEF Workers
  <1>h. \A g \in Frames :
          /\ Workers(g)' = IF g = f THEN Workers(g) \ {t} ELSE Workers(g)
          /\ Headers(g)' = IF g = f THEN Headers(g) \cup {k[1]} ELSE Headers(g)
          /\ Holders(g)' = Holders(g)
    <2>1. \A g \in Frames : Workers(g)' = IF g = f THEN Workers(g) \ {t} ELSE Workers(g)
      BY <1>f, <1>a, <1>b DEF Workers
    <2>2. \A g \in Frames : Headers(g)' = IF g = f THEN Headers(g) \cup {k[1]} ELSE Headers(g)
      BY <1>f, <1>a, <1>g DEF Headers
    <2>3. \A g \in Frames : Holders(g)' = Holders(g)
      BY <1>a DEF Holders
    <2> QED BY <2>1, <2>2, <2>3
  <1>1. TypeOK'
    <2>1. data' \in [Frames -> Contents]
      BY <1>0, <1>a DEF TypeOK
    <2> QED BY <1>0, <1>a, <1>b, <1>g, <2>1 DEF TypeOK
  <1>3. KeyInv'
    <2>1. \A u \in Threads : u # t /\ pc[u] # "idle" => mode[u] # "open"
      BY <1>0, <1>a DEF KeyInv, LockInv, LockSteps
    <2> QED BY <1>0, <1>a, <1>b, <2>1 DEF KeyInv, Allocated
  <1>4. DropInv'
    BY <1>0, <1>a, <1>b DEF DropInv
  <1>5. FrameInv'
    <2>1. \A u \in Threads : pc'[u] \in PageSteps => frame'[u] \in Frames /\ frames[key'[u]] = frame'[u]
      BY <1>0, <1>b DEF FrameInv, PageSteps
    <2>2. ASSUME NEW u \in Threads, NEW g \in Frames, pc'[u] \in PurgeSteps, frame'[u] = g
          PROVE  g \in Used' /\ Holders(g)' = {} /\ Headers(g)' = {} /\ Workers(g)' = {u}
      <3>1. u # t /\ pc[u] \in PurgeSteps /\ frame[u] = g
        BY <1>b, <2>2 DEF PurgeSteps
      <3>2. Holders(g) = {} /\ Headers(g) = {} /\ Workers(g) = {u} /\ g \in Used
        BY <1>0, <3>1 DEF FrameInv
      <3>3. g # f
        BY <1>e, <3>1, <3>2
      <3> QED BY <1>a, <1>h, <3>2, <3>3 DEF Used
    <2>3. \A u \in Threads : pc'[u] \in PurgeSteps => frame'[u] \in Frames
      BY <1>0, <1>b, KeyOfUsed DEF FrameInv, PurgeSteps
    <2> QED BY <1>0, <1>a, <2>1, <2>2, <2>3 DEF FrameInv
  <1>6. HeldInv'
    BY <1>0, <1>a, <1>b DEF HeldInv, Allocated
  <1>7. PinInv'
    <2>1. k[1] \notin Headers(f)
      BY <1>g DEF Headers
    <2> QED BY <1>0, <1>a, <1>e, <1>h, <2>1, WorkerMoved
  <1>8. DataInv'
    BY <1>0, <1>a, <1>b DEF DataInv, Allocated, OnDisk
  <1>9. NoChangeLost'
    <2> SUFFICES ASSUME NEW l \in Keys \ spoiled, Allocated(l)
                 PROVE  /\ frames[l] = NoFrame \/ Loading(l)' => OnDisk(l)
                        /\ frames[l] # NoFrame /\ ~Loading(l)' =>
                              data'[frames[l]] = <<l, version[l]>> /\ (frames[l] \in dirty \/ OnDisk(l))
      BY <1>a DEF NoChangeLost, Allocated, OnDisk
    <2>1. l # k
      BY <1>0, <1>g DEF Allocated, TypeOK
    <2>2. frames[l] # f /\ (frames[l] # NoFrame => frames[l] \in Frames)
      BY <1>0, <1>f, <2>1, PoolAssumption DEF FrameInv, TypeOK
    <2>3. Loading(l)' <=> Loading(l)
      BY <1>f, <1>a, <1>b, <2>2 DEF Loading, InHand
    <2>4. frames[l] # NoFrame => data'[frames[l]] = data[frames[l]]
      BY <1>0, <1>a, <2>2 DEF TypeOK
    <2> QED BY <1>0, <2>3, <2>4 DEF NoChangeLost
  <1> QED BY <1>1, <1>b, <1>3, <1>4, <1>5, <1>6, <1>7, <1>8, <1>9 DEF IInv

-----------------------------------------------------------------------------
(* Db::sync and the restart: no thread is inside. *)

LEMMA FlushAllPagesStep ==
    ASSUME IInv, NEW b \in Pools, flush_all_pages(b) PROVE IInv'
  <1> USE DEF lockVars, threadVars
  <1>0. /\ TypeOK /\ LockInv /\ ForeignInv /\ KeyInv /\ DropInv /\ FrameInv /\ HeldInv /\ PinInv
        /\ DataInv /\ NoChangeLost
    BY DEF IInv
  <1>a. /\ \A t \in Threads : pc[t] = "idle"
        /\ UNCHANGED <<frames, data, page_count, allocated, opened, lockVars, threadVars, held, version>>
    BY DEF flush_all_pages
  <1>w. PICK written, cleaned : written \subseteq FramesOf(b) /\ cleaned \subseteq written
                               /\ FlushAll(b, written) /\ dirty' = dirty \ cleaned
    <2>1. CASE FlushAll(b, FramesOf(b)) /\ dirty' = dirty \ FramesOf(b)
      BY <2>1
    <2>2. CASE \E done \in SUBSET FramesOf(b) : \E f \in FramesOf(b) \ done :
                  FlushAll(b, done \cup {f}) /\ dirty' = dirty \ done
      <3>1. PICK done \in SUBSET FramesOf(b), f \in FramesOf(b) :
              FlushAll(b, done \cup {f}) /\ dirty' = dirty \ done
        BY <2>2
      <3>2. done \cup {f} \in SUBSET FramesOf(b) /\ done \in SUBSET (done \cup {f})
        BY <3>1
      <3> QED BY <3>1, <3>2
    <2> QED BY <2>1, <2>2 DEF flush_all_pages
  <1>p. PICK rest \in SUBSET Frames :
          pin' = [g \in Frames |-> IF g \in rest THEN pin[g] + 1 ELSE pin[g]] /\ leaked' = leaked \cup rest
    <2>0. FramesOf(b) \subseteq Frames
      BY <1>0 DEF FramesOf, TypeOK
    <2>1. CASE UNCHANGED <<pin, leaked>>
      <3>1. pin = [g \in Frames |-> IF g \in {} THEN pin[g] + 1 ELSE pin[g]]
        BY <1>0 DEF TypeOK
      <3>2. {} \in SUBSET Frames /\ leaked' = leaked \cup {}
        BY <2>1
      <3>3. pin' = [g \in Frames |-> IF g \in {} THEN pin[g] + 1 ELSE pin[g]]
        BY <2>1, <3>1
      <3> QED BY <3>2, <3>3
    <2>2. CASE \E done \in SUBSET FramesOf(b) : \E f \in FramesOf(b) \ done :
                  LET rest == FramesOf(b) \ (done \cup {f}) IN
                  /\ pin' = [g \in Frames |-> IF g \in rest THEN pin[g] + 1 ELSE pin[g]]
                  /\ leaked' = leaked \cup rest
      <3>1. PICK done \in SUBSET FramesOf(b), f \in FramesOf(b) :
                  /\ pin' = [g \in Frames |->
                                IF g \in FramesOf(b) \ (done \cup {f}) THEN pin[g] + 1 ELSE pin[g]]
                  /\ leaked' = leaked \cup (FramesOf(b) \ (done \cup {f}))
        BY <2>2
      <3> QED BY <2>0, <3>1
    <2> QED BY <2>1, <2>2 DEF flush_all_pages
  <1>f. failures' \in 0 .. FailBound /\ (spoiled' = spoiled \/ spoiled' = Keys)
    BY <1>0, FailCounted DEF flush_all_pages, TypeOK
  <1>s. spoiled \subseteq spoiled' /\ spoiled' \subseteq Keys
    BY <1>0, <1>f DEF TypeOK
  <1>b. \A l \in Keys : ~Loading(l) /\ ~Loading(l)'
    BY <1>a DEF Loading, InHand
  <1>c. \A f \in Frames :
               /\ Holders(f)' = Holders(f) /\ Workers(f)' = Workers(f) /\ Headers(f)' = Headers(f)
               /\ Owners(f)' = Owners(f)
    <2>1. \A f \in Frames : Workers(f)' = Workers(f)
      BY <1>a DEF Workers
    <2> QED BY <1>a, <2>1, OwnersKept
  <1>e. /\ \A k \in Keys : disk'[k] = IF k[1] = b /\ frames[k] \in written THEN data[frames[k]] ELSE disk[k]
        /\ \A k \in Keys : frames[k] \in written => frames[k] \in Frames /\ frames[k] # NoFrame /\ k[1] = b
    <2>1. ASSUME NEW k \in Keys, frames[k] \in written
          PROVE  frames[k] \in Frames /\ frames[k] # NoFrame /\ k[1] = b
      <3>1. PICK l \in Keys : l[1] = b /\ frames[k] = frames[l] /\ frames[k] # NoFrame
        BY <1>w, <2>1 DEF FramesOf
      <3>2. l = k
        BY <1>0, <3>1 DEF FrameInv
      <3> QED BY <1>0, <3>1, <3>2 DEF TypeOK
    <2> QED BY <1>w, <2>1 DEF FlushAll
  <1>1. TypeOK'
    <2>1. \A k \in Keys : frames[k] \in written => data[frames[k]] \in Contents
      BY <1>0, <1>e DEF TypeOK
    <2>2. disk' \in [Keys -> Contents] /\ dirty' \subseteq Frames
      BY <1>0, <1>w, <2>1 DEF TypeOK, FlushAll
    <2>3. pin' \in [Frames -> Nat] /\ leaked' \subseteq Frames
      BY <1>0, <1>p DEF TypeOK
    <2> QED BY <1>0, <1>a, <1>f, <1>s, <2>2, <2>3 DEF TypeOK
  <1>2. LockInv'
    BY <1>0, <1>a DEF LockInv
  <1>l. ForeignInv'
    BY <1>0, <1>a, ForeignSame
  <1>3. KeyInv'
    BY <1>a DEF KeyInv
  <1>4. DropInv'
    BY <1>a DEF DropInv
  <1>5. FrameInv'
    BY <1>0, <1>a DEF FrameInv, PurgeSteps, PageSteps
  <1>6. HeldInv'
    BY <1>0, <1>a, <1>f DEF HeldInv, Allocated
  <1>7. PinInv'
    <2> SUFFICES ASSUME NEW f \in Frames
                 PROVE  /\ IsFiniteSet(Holders(f)') /\ IsFiniteSet(Workers(f)') /\ IsFiniteSet(Headers(f)')
                        /\ pin'[f] >= Owners(f)'
                        /\ f \notin leaked' => pin'[f] = Owners(f)'
      BY DEF PinInv
    <2>1. /\ IsFiniteSet(Holders(f)) /\ IsFiniteSet(Workers(f)) /\ IsFiniteSet(Headers(f))
          /\ pin[f] >= Owners(f) /\ (f \notin leaked => pin[f] = Owners(f)) /\ pin[f] \in Nat
      BY <1>0 DEF PinInv, TypeOK
    <2>2. Owners(f) \in Nat
      BY <2>1, FS_CardinalityType DEF Owners
    <2>3. pin'[f] = IF f \in rest THEN pin[f] + 1 ELSE pin[f]
      BY <1>p
    <2>4. f \notin leaked' => f \notin rest /\ f \notin leaked
      BY <1>p
    <2> QED BY <1>c, <2>1, <2>2, <2>3, <2>4
  <1>d. ASSUME NEW l \in Keys \ spoiled, l[2] > 0
        PROVE  disk'[l] = disk[l] \/ (Allocated(l) /\ disk'[l] = <<l, version[l]>>)
    <2>1. l[1] \in Pools /\ l[2] \in Nat /\ page_count[l[1]] \in Nat
      BY <1>0, KeyParts DEF TypeOK
    <2>2. frames[l] # NoFrame => Allocated(l)
      BY <1>0, <1>a, <1>d, <2>1 DEF DataInv
    <2>3. frames[l] # NoFrame => data[frames[l]] = <<l, version[l]>>
      BY <1>0, <1>b, <2>2 DEF NoChangeLost
    <2> QED BY <1>e, <2>2, <2>3
  <1>8. DataInv'
    <2> SUFFICES ASSUME NEW l \in Keys \ spoiled, l[2] > 0
                 PROVE  /\ disk'[l][1] = l
                        /\ l[2] > page_count[l[1]] =>
                              /\ version[l] = 0 /\ disk'[l][2] = -1
                              /\ frames[l] # NoFrame =>
                                    \E t \in Threads : pc[t] = "load" /\ mode[t] = "append" /\ key[t] = l
                        /\ l[2] <= page_count[l[1]] /\ ~Allocated(l) => frames[l] = NoFrame /\ OnDisk(l)'
      BY <1>a, <1>s DEF DataInv, Allocated
    <2>1. CASE disk'[l] = disk[l]
      BY <1>0, <1>a, <2>1 DEF DataInv, OnDisk
    <2>2. CASE Allocated(l) /\ disk'[l] = <<l, version[l]>>
      <3>1. l[1] \in Pools
        BY KeyParts
      <3>2. ~(l[2] > page_count[l[1]])
        BY <1>0, <2>2, <3>1 DEF TypeOK, Allocated
      <3> QED BY <2>2, <3>2
    <2> QED BY <1>d, <2>1, <2>2
  <1>9. NoChangeLost'
    <2> SUFFICES ASSUME NEW l \in Keys \ spoiled, Allocated(l)
                 PROVE  /\ frames[l] = NoFrame => OnDisk(l)'
                        /\ frames[l] # NoFrame =>
                              data[frames[l]] = <<l, version[l]>> /\ (frames[l] \in dirty' \/ OnDisk(l)')
      BY <1>a, <1>b, <1>s DEF NoChangeLost, Allocated
    <2>1. CASE frames[l] \notin written
      <3>1. disk'[l] = disk[l] /\ (frames[l] \in dirty => frames[l] \in dirty')
        BY <1>w, <1>e, <2>1
      <3> QED BY <1>0, <1>a, <1>b, <3>1 DEF NoChangeLost, OnDisk
    <2>2. CASE frames[l] \in written
      <3>1. frames[l] # NoFrame /\ disk'[l] = data[frames[l]]
        BY <1>e, <2>2
      <3>2. data[frames[l]] = <<l, version[l]>>
        BY <1>0, <1>b, <3>1 DEF NoChangeLost
      <3> QED BY <1>a, <3>1, <3>2 DEF OnDisk
    <2> QED BY <2>1, <2>2
  <1> QED BY <1>1, <1>2, <1>l, <1>3, <1>4, <1>5, <1>6, <1>7, <1>8, <1>9 DEF IInv

(* What close_file leaves on disk. *)
LEMMA ClosedStep ==
    ASSUME IInv, close_file, NEW lost \in SUBSET Keys, Closed(lost), failures' \in 0 .. FailBound,
           \A l \in lost : l[2] <= page_count[l[1]]
    PROVE  IInv'
  <1> USE DEF lockVars, threadVars
  <1>0. /\ TypeOK /\ LockInv /\ ForeignInv /\ KeyInv /\ DropInv /\ FrameInv /\ HeldInv /\ PinInv
        /\ DataInv /\ NoChangeLost
    BY DEF IInv
  <1>a. /\ \A t \in Threads : pc[t] = "idle" /\ held[t] = {}
        /\ frames' = [k \in Keys |-> NoFrame]
        /\ pin' = [f \in Frames |-> 0]
        /\ dirty' = {}
        /\ data' = [f \in Frames |-> Garbage]
        /\ opened' = {}
        /\ leaked' = {}
        /\ UNCHANGED <<lockVars, threadVars, held, version>>
    BY DEF close_file
  <1>h. PICK old \in [lost -> Versions], header \in [Pools -> UNION {OlderHeaders(b) : b \in Pools}] :
          /\ \A k \in lost : old[k] <= version[k] /\ (k[2] = 0 => old[k] = 0)
          /\ \A b \in Pools :
                IF b \in opened /\ Header(b) \in lost \cup Refused THEN header[b] \in OlderHeaders(b)
                ELSE header[b] = <<page_count[b], allocated[b]>>
          /\ disk' = [k \in Keys |->
                        IF k \in lost THEN <<k, old[k]>>
                        ELSE IF frames[k] \in dirty /\ k \notin Refused THEN data[frames[k]]
                        ELSE disk[k]]
          /\ page_count' = [b \in Pools |-> header[b][1]]
          /\ allocated' = [b \in Pools |-> header[b][2]]
          /\ spoiled' = spoiled \cup {k \in lost : old[k] # version[k] /\ version[k] > 0}
                          \cup {k \in Refused : frames[k] \in dirty}
                          \cup {k \in Keys : header[k[1]] # <<page_count[k[1]], allocated[k[1]]>>}
    BY DEF Closed
  <1>b. \A l \in Keys : ~Loading(l) /\ ~Loading(l)' /\ frames'[l] = NoFrame
    BY <1>a DEF Loading, InHand
  <1>c. \A f \in Frames : Holders(f)' = {} /\ Workers(f)' = {} /\ Headers(f)' = {}
    BY <1>a DEF Holders, Workers, Headers
  <1>s. spoiled \subseteq spoiled' /\ spoiled' \subseteq Keys
    BY <1>0, <1>h DEF TypeOK, Refused
  <1>1. TypeOK'
    <2>1. ASSUME NEW k \in Keys
          PROVE  /\ k \in lost => <<k, old[k]>> \in Contents
                 /\ k \notin lost /\ frames[k] \in dirty => data[frames[k]] \in Contents
                 /\ disk[k] \in Contents
      BY <1>0, <1>h DEF TypeOK, Contents
    <2>2. disk' \in [Keys -> Contents]
      BY <1>h, <2>1
    <2>3. data' \in [Frames -> Contents] /\ pin' \in [Frames -> Nat]
      BY <1>a, SomeKey
    <2>4. frames' \in [Keys -> Frames \cup {NoFrame}]
      BY <1>a
    <2>5. ASSUME NEW b \in Pools
          PROVE  /\ header[b][1] \in Nat /\ header[b][1] <= MAX_PAGE_NUM[b]
                 /\ header[b][2] \subseteq 1 .. header[b][1]
      <3>0. page_count[b] \in Nat /\ page_count[b] <= MAX_PAGE_NUM[b] /\ allocated[b] \subseteq 1 .. page_count[b]
            /\ MAX_PAGE_NUM[b] \in Nat
        BY <1>0, PoolAssumption DEF TypeOK
      <3>1. CASE header[b] = <<page_count[b], allocated[b]>>
        BY <3>0, <3>1
      <3>2. CASE header[b] \in OlderHeaders(b)
        <4>1. PICK n \in 0 .. page_count[b] : header[b] \in {n} \X SUBSET (1 .. n)
          BY <3>2 DEF OlderHeaders
        <4>2. header[b][1] = n /\ header[b][2] \subseteq 1 .. n
          BY <4>1
        <4> QED BY <3>0, <4>1, <4>2
      <3> QED BY <1>h, <3>1, <3>2
    <2>6. page_count' \in [Pools -> Nat] /\ \A b \in Pools : page_count'[b] = header[b][1]
      BY <1>h, <2>5
    <2>7. \A b \in Pools : allocated'[b] = header[b][2]
      BY <1>h
    <2>8. allocated' \in [Pools -> SUBSET Nat]
      <3>1. \A b \in Pools : header[b][2] \in SUBSET Nat
        BY <2>5
      <3> QED BY <1>h, <3>1
    <2>9. \A b \in Pools : allocated'[b] \subseteq 1 .. page_count'[b] /\ page_count'[b] <= MAX_PAGE_NUM[b]
      BY <2>5, <2>6, <2>7
    <2> QED BY <1>0, <1>a, <1>s, <2>2, <2>3, <2>4, <2>6, <2>8, <2>9 DEF TypeOK
  <1>2. LockInv'
    BY <1>0, <1>a DEF LockInv
  <1>l. ForeignInv'
    BY <1>0, <1>a DEF ForeignInv, ForeignOK, LockSteps
  <1>3. KeyInv'
    BY <1>a DEF KeyInv
  <1>4. DropInv'
    BY <1>a DEF DropInv
  <1>5. FrameInv'
    BY <1>a, <1>b DEF FrameInv, PurgeSteps, PageSteps
  <1>6. HeldInv'
    BY <1>a DEF HeldInv
  <1>7. PinInv'
    <2> SUFFICES ASSUME NEW f \in Frames
                 PROVE  /\ IsFiniteSet(Holders(f)') /\ IsFiniteSet(Workers(f)') /\ IsFiniteSet(Headers(f)')
                        /\ Owners(f)' = 0 /\ pin'[f] = 0
      BY DEF PinInv
    <2>1. /\ IsFiniteSet(Holders(f)') /\ IsFiniteSet(Workers(f)') /\ IsFiniteSet(Headers(f)')
          /\ Cardinality(Holders(f)') = 0 /\ Cardinality(Workers(f)') = 0 /\ Cardinality(Headers(f)') = 0
      BY <1>c, FS_EmptySet
    <2>2. Owners(f)' = 0
      BY <2>1 DEF Owners
    <2> QED BY <1>a, <2>1, <2>2
  <1>d. ASSUME NEW l \in Keys \ spoiled', l[2] > 0
        PROVE  /\ page_count'[l[1]] = page_count[l[1]] /\ (Allocated(l)' <=> Allocated(l))
               /\ disk'[l][1] = l
               /\ Allocated(l) \/ l[2] <= page_count[l[1]] => OnDisk(l)'
               /\ l[2] > page_count[l[1]] => version[l] = 0 /\ disk'[l][2] = -1
    <2>0. l[1] \in Pools /\ l[2] \in Nat /\ page_count[l[1]] \in Nat /\ l \notin spoiled /\ l \in Keys
      BY <1>0, <1>s, KeyParts DEF TypeOK
    <2>1. header[l[1]] = <<page_count[l[1]], allocated[l[1]]>>
      BY <1>h, <2>0
    <2>2. page_count'[l[1]] = page_count[l[1]] /\ allocated'[l[1]] = allocated[l[1]]
      BY <1>h, <2>0, <2>1
    <2>3. Allocated(l)' <=> Allocated(l)
      BY <2>2 DEF Allocated
    <2>d. disk[l][1] = l /\ disk[l][2] \in Int
      BY <1>0, <1>d, <2>0, ContentParts DEF DataInv, TypeOK
    <2>v. version[l] \in Nat
      BY <1>0, PoolAssumption DEF TypeOK
    <2>4. CASE l \in lost
      <3>1. disk'[l] = <<l, old[l]>> /\ old[l] \in Versions /\ old[l] <= version[l]
        BY <1>h, <2>0, <2>4
      <3>2. old[l] = version[l] \/ version[l] = 0
        BY <1>h, <2>0, <2>4, <2>v
      <3>3. old[l] \in Int /\ old[l] >= -1
        BY <3>1, PoolAssumption DEF Versions
      <3>4. OnDisk(l)'
        BY <1>a, <2>v, <3>1, <3>2, <3>3 DEF OnDisk
      <3>5. ~(l[2] > page_count[l[1]])
        BY <2>0, <2>4
      <3> QED BY <2>2, <2>3, <2>4, <3>1, <3>4, <3>5
    <2>5. CASE l \notin lost
      <3>0. Allocated(l) => l[2] <= page_count[l[1]]
        BY <1>0, <2>0 DEF TypeOK, Allocated
      <3>1. CASE frames[l] = NoFrame \/ frames[l] \notin dirty
        <4>1. disk'[l] = disk[l]
          <5>1. frames[l] \notin dirty
            BY <1>0, <3>1, PoolAssumption DEF TypeOK
          <5> QED BY <1>h, <2>0, <2>5, <5>1
        <4>2. l[2] <= page_count[l[1]] => OnDisk(l)
          BY <1>0, <1>b, <1>d, <2>0, <3>1 DEF DataInv, NoChangeLost
        <4>3. l[2] > page_count[l[1]] => version[l] = 0 /\ disk[l][2] = -1
          BY <1>0, <1>d, <2>0 DEF DataInv
        <4> QED BY <1>a, <2>2, <2>3, <2>5, <2>d, <3>0, <4>1, <4>2, <4>3 DEF OnDisk
      <3>2. CASE frames[l] # NoFrame /\ frames[l] \in dirty
        <4>1. Allocated(l)
          BY <1>0, <1>a, <1>d, <2>0, <3>2 DEF DataInv
        <4>2. data[frames[l]] = <<l, version[l]>>
          BY <1>0, <1>b, <2>0, <3>2, <4>1 DEF NoChangeLost
        <4>3. l \notin Refused
          BY <1>h, <2>0, <3>2
        <4>4. disk'[l] = <<l, version[l]>>
          BY <1>h, <2>0, <2>5, <3>2, <4>2, <4>3
        <4> QED BY <1>a, <2>0, <2>2, <2>3, <3>0, <4>1, <4>4 DEF OnDisk
      <3> QED BY <3>1, <3>2
    <2> QED BY <2>4, <2>5
  <1>8. DataInv'
    BY <1>a, <1>b, <1>d DEF DataInv
  <1>9. NoChangeLost'
    <2>1. ASSUME NEW l \in Keys, Allocated(l)' PROVE l[2] > 0
      <3>1. l[1] \in Pools
        BY KeyParts
      <3> QED BY <1>1, <2>1, <3>1 DEF TypeOK, Allocated
    <2> QED BY <1>b, <1>d, <2>1 DEF NoChangeLost
  <1> QED BY <1>1, <1>2, <1>l, <1>3, <1>4, <1>5, <1>6, <1>7, <1>8, <1>9 DEF IInv

LEMMA CloseFileStep ==
    ASSUME IInv, close_file PROVE IInv'
  <1>0. TypeOK
    BY DEF IInv
  <1>1. CASE Closed({}) /\ UNCHANGED failures
    <2>1. {} \in SUBSET Keys /\ (\A l \in {} : l[2] <= page_count[l[1]]) /\ failures' \in 0 .. FailBound
      BY <1>0, <1>1 DEF TypeOK
    <2> QED BY <1>1, <2>1, ClosedStep
  <1>2. CASE Fail /\ \E b \in opened : \E lost \in SUBSET ({b} \X (0 .. page_count[b])) : Closed(lost)
    <2>0. PICK b \in opened : \E lost \in SUBSET ({b} \X (0 .. page_count[b])) : Closed(lost)
      BY <1>2
    <2>1. PICK lost \in SUBSET ({b} \X (0 .. page_count[b])) : Closed(lost)
      BY <2>0
    <2>2. b \in Pools /\ page_count[b] \in Nat /\ page_count[b] <= MAX_PAGE_NUM[b] /\ MAX_PAGE_NUM[b] \in Nat
      BY <1>0, PoolAssumption DEF TypeOK
    <2>3. \A l \in lost : l \in Keys /\ l[2] <= page_count[l[1]]
      <3> SUFFICES ASSUME NEW l \in lost PROVE l \in Keys /\ l[2] <= page_count[l[1]]
        OBVIOUS
      <3>1. l = <<b, l[2]>> /\ l[1] = b /\ l[2] \in 0 .. page_count[b]
        OBVIOUS
      <3>2. l[2] \in 0 .. MAX_PAGE_NUM[b]
        BY <2>2, <3>1
      <3>3. <<b, l[2]>> \in Keys
        BY <2>2, <3>2, KeyMade
      <3> QED BY <2>2, <3>1, <3>3
    <2>4. lost \in SUBSET Keys /\ failures' \in 0 .. FailBound
      BY <1>0, <1>2, <2>3, FailCounted
    <2> QED BY <2>1, <2>3, <2>4, ClosedStep
  <1> QED BY <1>1, <1>2 DEF close_file

LEMMA InitIInv ==
    ASSUME Init PROVE IInv
  <1> USE DEF Init
  <1>1. TypeOK
    <2>1. \A k \in Keys : <<k, IF k[2] = 0 THEN 0 ELSE -1>> \in Contents
      BY PoolAssumption DEF Contents, Versions
    <2>2. disk \in [Keys -> Contents] /\ data \in [Frames -> Contents]
      BY <2>1, SomeKey
    <2>3. version \in [Keys -> 0 .. WriteBound] /\ failures \in 0 .. FailBound
      BY PoolAssumption
    <2>4. \A b \in Pools : allocated[b] \subseteq 1 .. page_count[b] /\ page_count[b] <= MAX_PAGE_NUM[b]
      BY PoolAssumption
    <2> QED BY <2>2, <2>3, <2>4, SomeKey DEF TypeOK, Steps, Modes
  <1>2. LockInv
    BY PoolAssumption DEF LockInv, LockSteps, PurgeSteps
  <1>l. ForeignInv
    BY PoolAssumption DEF ForeignInv, ForeignOK
  <1>3. KeyInv /\ DropInv /\ HeldInv
    BY DEF KeyInv, DropInv, HeldInv
  <1>4. FrameInv
    BY DEF FrameInv, PurgeSteps, PageSteps
  <1>5. PinInv
    <2>1. \A f \in Frames : Holders(f) = {} /\ Workers(f) = {} /\ Headers(f) = {}
      BY DEF Holders, Workers, Headers
    <2> SUFFICES ASSUME NEW f \in Frames
                 PROVE  /\ IsFiniteSet(Holders(f)) /\ IsFiniteSet(Workers(f)) /\ IsFiniteSet(Headers(f))
                        /\ Owners(f) = 0 /\ pin[f] = 0
      BY DEF PinInv
    <2>2. pin[f] = 0
      OBVIOUS
    <2> HIDE DEF Init
    <2> QED BY <2>1, <2>2, FS_EmptySet DEF Owners
  <1>6. DataInv
    <2>1. \A k \in Keys : k[2] \in Nat /\ k[1] \in Pools
      BY KeyParts
    <2> QED BY <2>1 DEF DataInv
  <1>7. NoChangeLost
    <2>1. \A k \in Keys : ~Allocated(k)
      BY KeyParts DEF Allocated
    <2> QED BY <2>1 DEF NoChangeLost
  <1> QED BY <1>1, <1>2, <1>l, <1>3, <1>4, <1>5, <1>6, <1>7 DEF IInv

LEMMA NextIInv ==
    ASSUME IInv, [Next]_vars PROVE IInv'
  <1>1. CASE UNCHANGED vars
    <2>0. /\ TypeOK /\ LockInv /\ ForeignInv /\ KeyInv /\ DropInv /\ FrameInv /\ HeldInv /\ PinInv
          /\ DataInv /\ NoChangeLost
      BY DEF IInv
    <2>l. ForeignInv'
      BY <1>1, <2>0, ForeignSame DEF vars, memVars
    <2> USE <1>1, <2>0 DEF vars, memVars, fileVars, lockVars, threadVars
    <2>1. TypeOK'
      BY DEF TypeOK
    <2>2. LockInv' /\ KeyInv' /\ DropInv'
      BY DEF LockInv, KeyInv, DropInv, Allocated
    <2>3. \A f \in Frames :
               /\ Holders(f)' = Holders(f) /\ Workers(f)' = Workers(f) /\ Headers(f)' = Headers(f)
               /\ Owners(f)' = Owners(f)
      BY OwnersKept DEF Workers
    <2>4. FrameInv'
      BY <2>3 DEF FrameInv, Used
    <2>5. HeldInv'
      BY DEF HeldInv, Allocated
    <2>6. PinInv'
      BY <2>3 DEF PinInv
    <2>7. DataInv'
      BY DEF DataInv, Allocated, OnDisk
    <2>8. NoChangeLost'
      BY DEF NoChangeLost, Loading, InHand, Allocated, OnDisk
    <2> QED BY <2>1, <2>2, <2>l, <2>4, <2>5, <2>6, <2>7, <2>8 DEF IInv
  <1>2. ASSUME NEW t \in Threads, NEW k \in Keys, get_this_page(t, k) \/ dispose_page(t, k) PROVE IInv'
    BY <1>2, GetThisPageStep, DisposePageStep
  <1>3. ASSUME NEW t \in Threads, NEW b \in Pools, allocate_page(t, b) \/ open_file(t, b) PROVE IInv'
    <2>1. CASE allocate_page(t, b)
      BY <2>1, ReusePageStep, AppendPageStep DEF allocate_page
    <2> QED BY <1>3, <2>1, OpenFileStep
  <1>4. ASSUME NEW t \in Threads, NEW h \in held[t], Write(t, h) \/ unpin_page(t, h) PROVE IInv'
    BY <1>4, WriteStep, UnpinPageStep
  <1>5. ASSUME NEW t \in Threads,
               \/ Get(t) \/ Miss(t) \/ alloc(t) \/ purge_frames(t) \/ LockManager(t) \/ flush_page(t)
               \/ BufferFull(t) \/ Evict(t) \/ load_page(t) \/ load_page_failed(t) \/ Discard(t) \/ free(t)
               \/ clear_page(t) \/ Extend(t) \/ find(t) \/ drop(t) \/ OpenDone(t)
        PROVE  IInv'
    BY <1>5, GetStep, MissStep, AllocStep, PurgeFramesStep, LockManagerStep, FlushPageStep,
       BufferFullStep, EvictStep, LoadPageStep, LoadPageFailedStep, DiscardStep, FreeStep,
       ClearPageStep, ExtendStep, FindStep, DropStep, OpenDoneStep
  <1>6. ASSUME NEW b \in Pools, flush_all_pages(b) PROVE IInv'
    BY <1>6, FlushAllPagesStep
  <1>7. CASE close_file
    BY <1>7, CloseFileStep
  <1> QED BY <1>1, <1>2, <1>3, <1>4, <1>5, <1>6, <1>7 DEF Next, ThreadStep

-----------------------------------------------------------------------------
(* The theorems. *)

THEOREM Invariance == Spec => []IInv
  <1>1. Init => IInv
    BY InitIInv
  <1>2. IInv /\ [Next]_vars => IInv'
    BY NextIInv
  <1> QED BY <1>1, <1>2, PTL DEF Spec

(* No change of a page is lost by eviction, disposal, failing reads and    *)
(* writes or a restart, but for the pages the code can spoil.              *)
THEOREM ChangesKept == Spec => []NoChangeLost
  <1>1. IInv => NoChangeLost
    BY DEF IInv
  <1> QED BY <1>1, Invariance, PTL

(* Only purge_frames, writing a page of another pool under the lock of the *)
(* frame manager, or a full double write buffer, emptied while a file is   *)
(* opened, can close a circle of waiting threads.  A thread that waits for *)
(* the manager's lock with the double write buffer's waits for one of      *)
(* these two; so outside them nobody in the circle has the buffer's lock,  *)
(* nobody who waits for it has the frame manager's, and who waits for the  *)
(* lock of a pool after a miss has none itself.                            *)
THEOREM NoOtherDeadlock == Spec => []DeadlockNeedsFlush
  <1>1. IInv => DeadlockNeedsFlush
    <2> SUFFICES ASSUME TypeOK, LockInv, ForeignInv, NEW S \in SUBSET Threads, Deadlocked(S),
                        \A t \in S : frame_lock = t => ~Foreign(t),
                        \A t, u \in S : dblwr_lock = t => mode[u] # "open"
                 PROVE  FALSE
      BY DEF IInv, DeadlockNeedsFlush
    <2>0. \A t \in S : \E w \in S : w \in WaitsFor(t) /\ w # NoThread
      BY PoolAssumption DEF Deadlocked
    <2>1. ASSUME NEW t \in S, dblwr_lock = t PROVE FALSE
      <3>1. pc[t] \in WriteSteps
        BY <2>1 DEF LockInv
      <3>2. WaitsFor(t) \subseteq {manager_lock}
        BY <2>1, <3>1 DEF WaitsFor, WriteSteps
      <3>3. PICK w \in S : manager_lock = w
        BY <2>0, <3>2
      <3>4. mode[w] # "open"
        BY <2>1
      <3>5. pc[w] \in PurgeSteps /\ Foreign(w)
        BY <3>3, <3>4 DEF ForeignInv, ForeignOK, PurgeSteps
      <3> QED BY <3>5 DEF LockInv
    <2>f. ASSUME NEW t \in S, frame_lock = t PROVE FALSE
      <3>1. pc[t] \in PurgeSteps /\ ~Foreign(t)
        BY <2>f DEF LockInv
      <3>2. pc[t] = "evict"
        BY <3>1 DEF ForeignInv, ForeignOK, PurgeSteps
      <3>3. dblwr_lock # t
        BY <2>1
      <3>4. WaitsFor(t) \subseteq {dblwr_lock}
        BY <3>2, <3>3 DEF WaitsFor
      <3> QED BY <2>0, <2>1, <3>4
    <2>2. ASSUME NEW t \in S
          PROVE  pc[t] = "miss"
      <3>1. PICK w \in S : w \in WaitsFor(t)
        BY <2>0
      <3>2. pc[t] \in Steps /\ pc[t] \notin PurgeSteps
        BY <2>f DEF TypeOK, LockInv
      <3>3. w # frame_lock /\ w # dblwr_lock /\ t # dblwr_lock
        BY <2>1, <2>f
      <3> QED BY <3>1, <3>2, <3>3 DEF WaitsFor, Steps, PurgeSteps
    <2>3. PICK t \in S : TRUE
      BY DEF Deadlocked
    <2>4. PICK w \in S : w \in WaitsFor(t)
      BY DEF Deadlocked
    <2>5. w = lock[key[t][1]]
      <3>1. dblwr_lock # t
        BY <2>1
      <3> QED BY <2>2, <2>4, <3>1 DEF WaitsFor
    <2>6. key[t][1] \in Pools
      BY KeyParts DEF TypeOK
    <2>7. pc[w] \in LockSteps
      BY <2>5, <2>6 DEF LockInv
    <2> QED BY <2>2, <2>7 DEF LockSteps
  <1> QED BY <1>1, Invariance, PTL

(* What HeldContents allows in one step. *)
ContentsKept ==
    \A t \in Threads : \A h \in held[t] \cap held'[t] :
        data'[h[2]] # data[h[2]] => version'[h[1]] # version[h[1]] \/ h[1] \in spoiled'

(* Only frames nobody holds, or whose pages are spoiled, change otherwise. *)
LEMMA OneFrameChanges ==
    ASSUME TypeOK, NEW f \in Frames,
           \A g \in Frames : g # f => data'[g] = data[g],
           \A u \in Threads : \A h \in held[u] : h[2] = f => h[1] \in spoiled'
    PROVE  ContentsKept
  <1>1. \A u \in Threads : \A h \in held[u] : h[2] \in Frames
    BY DEF TypeOK
  <1> QED BY <1>1 DEF ContentsKept

LEMMA NextContents ==
    ASSUME IInv, [Next]_vars PROVE ContentsKept
  <1> USE DEF memVars
  <1>0. /\ TypeOK /\ LockInv /\ KeyInv /\ DropInv /\ FrameInv /\ HeldInv /\ PinInv
    BY DEF IInv
  <1>a. CASE data' = data
    BY <1>a DEF ContentsKept
  <1>b. ASSUME NEW f \in Frames, Holders(f) = {}, \A g \in Frames : g # f => data'[g] = data[g]
        PROVE  ContentsKept
    <2>1. \A u \in Threads : \A h \in held[u] : h[2] # f
      BY <1>0, <1>b, NotHeld
    <2> QED BY <1>0, <1>b, <2>1, OneFrameChanges
  <1>c. ASSUME NEW t \in Threads, pc[t] \in PageSteps \ {"extend"}, spoiled' = spoiled,
               \A g \in Frames : g # frame[t] => data'[g] = data[g]
        PROVE  ContentsKept
    <2>k. PICK k \in Keys : k = key[t]
      BY <1>0 DEF TypeOK
    <2>f. PICK f \in Frames : f = frame[t] /\ frames[k] = f
      BY <1>0, <1>c, <2>k DEF FrameInv
    <2>1. ASSUME NEW u \in Threads, NEW h \in held[u], h[2] = f PROVE h[1] \in spoiled
      <3>1. h[1] \in Keys
        BY <1>0, HolderPins
      <3>2. CASE spoiled = Keys
        BY <3>1, <3>2
      <3>3. CASE frames[h[1]] = h[2]
        <4>1. h[1] = k
          BY <1>0, <2>f, <2>1, <3>1, <3>3, PoolAssumption DEF FrameInv
        <4> QED BY <1>0, <1>c, <2>k, <3>1, <4>1 DEF PageSteps, HeldInv, DropInv
      <3> QED BY <1>0, <3>2, <3>3 DEF HeldInv
    <2> QED BY <1>0, <1>c, <2>f, <2>1, OneFrameChanges
  <1>1. CASE UNCHANGED vars
    BY <1>a, <1>1 DEF vars
  <1>2. ASSUME NEW t \in Threads, NEW k \in Keys, get_this_page(t, k) \/ dispose_page(t, k)
        PROVE  ContentsKept
    BY <1>a, <1>2 DEF get_this_page, Lookup, dispose_page
  <1>3. ASSUME NEW t \in Threads, NEW b \in Pools, allocate_page(t, b) \/ open_file(t, b)
        PROVE  ContentsKept
    BY <1>a, <1>3 DEF allocate_page, open_file
  <1>4. ASSUME NEW t \in Threads, NEW h \in held[t], unpin_page(t, h) PROVE ContentsKept
    BY <1>a, <1>4 DEF unpin_page
  <1>5. ASSUME NEW t \in Threads, NEW h \in held[t], Write(t, h) PROVE ContentsKept
    <2>a. /\ version' = [version EXCEPT ![h[1]] = @ + 1]
          /\ data' = [data EXCEPT ![h[2]] = <<h[1], version[h[1]] + 1>>]
          /\ UNCHANGED spoiled
      BY <1>5 DEF Write
    <2>b. h[1] \in Keys /\ h[2] \in Frames
      BY <1>0, HolderPins
    <2>c. version'[h[1]] # version[h[1]]
      BY <1>0, <2>a, <2>b DEF TypeOK
    <2>1. ASSUME NEW u \in Threads, NEW i \in held[u], data'[i[2]] # data[i[2]]
          PROVE  i[1] = h[1] \/ i[1] \in spoiled
      <3>1. i[1] \in Keys /\ i[2] \in Frames
        BY <1>0, HolderPins
      <3>2. i[2] = h[2]
        BY <1>0, <2>a, <2>1, <3>1 DEF TypeOK
      <3>3. CASE spoiled = Keys
        BY <3>1, <3>3
      <3>4. CASE frames[i[1]] = i[2] /\ frames[h[1]] = h[2]
        BY <1>0, <2>b, <3>1, <3>2, <3>4, PoolAssumption DEF FrameInv
      <3> QED BY <1>0, <3>3, <3>4 DEF HeldInv
    <2> QED BY <2>a, <2>c, <2>1 DEF ContentsKept
  <1>6. ASSUME NEW t \in Threads,
               \/ Get(t) \/ Miss(t) \/ alloc(t) \/ LockManager(t) \/ flush_page(t) \/ BufferFull(t)
               \/ load_page_failed(t) \/ Discard(t) \/ Extend(t) \/ find(t)
        PROVE  ContentsKept
    BY <1>a, <1>6 DEF Get, Lookup, Miss, alloc, LockManager, flush_page, BufferFull, load_page_failed,
                      Discard, Extend, find
  <1>7. ASSUME NEW t \in Threads, purge_frames(t) PROVE ContentsKept
    <2>1. data' = data \/ \E f \in can_purge : data' = [data EXCEPT ![frames[KeyOf(f)]] = Garbage]
      BY <1>7 DEF purge_frames, free_internal
    <2>2. ASSUME NEW f \in can_purge, data' = [data EXCEPT ![frames[KeyOf(f)]] = Garbage]
          PROVE  ContentsKept
      <3>1. f \in Frames /\ pin[f] = 0 /\ frames[KeyOf(f)] = f
        BY <1>0, KeyOfUsed DEF can_purge
      <3>2. Holders(f) = {}
        BY <1>0, <3>1, UnpinnedUnowned
      <3>3. \A g \in Frames : g # f => data'[g] = data[g]
        BY <1>0, <2>2, <3>1 DEF TypeOK
      <3> QED BY <1>b, <3>1, <3>2, <3>3
    <2> QED BY <1>a, <2>1, <2>2
  <1>8. ASSUME NEW t \in Threads, Evict(t) PROVE ContentsKept
    <2>1. PICK f \in Frames : f = frame[t] /\ f \in Used /\ Holders(f) = {}
      BY <1>0, <1>8, KeyOfUsed DEF FrameInv, PurgeSteps, Evict
    <2>2. data' = data \/ data' = [data EXCEPT ![frames[KeyOf(f)]] = Garbage]
      BY <1>8, <2>1 DEF Evict, free_internal
    <2>3. \A g \in Frames : g # f => data'[g] = data[g]
      BY <1>0, <2>1, <2>2, KeyOfUsed DEF TypeOK
    <2> QED BY <1>b, <2>1, <2>3
  <1>9. ASSUME NEW t \in Threads, load_page(t) \/ clear_page(t) \/ OpenDone(t) PROVE ContentsKept
    <2>1. pc[t] \in PageSteps \ {"extend"} /\ spoiled' = spoiled
      BY <1>9 DEF load_page, clear_page, OpenDone, PageSteps
    <2>2. \A g \in Frames : g # frame[t] => data'[g] = data[g]
      BY <1>0, <1>9 DEF load_page, clear_page, OpenDone, TypeOK
    <2> QED BY <1>c, <2>1, <2>2
  <1>10. ASSUME NEW t \in Threads, free(t) \/ drop(t) PROVE ContentsKept
    <2>1. pc[t] \in PageSteps \ {"extend"} /\ spoiled' = spoiled
      BY <1>10 DEF free, drop, PageSteps
    <2>2. frames[key[t]] = frame[t]
      BY <1>0, <2>1 DEF FrameInv
    <2>3. \A g \in Frames : g # frame[t] => data'[g] = data[g]
      BY <1>0, <1>10, <2>2 DEF free, drop, free_internal, TypeOK
    <2> QED BY <1>c, <2>1, <2>3
  <1>11. ASSUME NEW b \in Pools, flush_all_pages(b) PROVE ContentsKept
    BY <1>a, <1>11 DEF flush_all_pages
  <1>12. CASE close_file
    BY <1>12 DEF close_file, ContentsKept
  <1> QED BY <1>1, <1>2, <1>3, <1>4, <1>5, <1>6, <1>7, <1>8, <1>9, <1>10, <1>11, <1>12
          DEF Next, ThreadStep

(* A pin keeps its frame: the frame stays with its page and holds its      *)
(* contents, and every pin has an owner that will give it back.            *)
THEOREM PinsAreKept == Spec => PinsKept
  <1>1. IInv => TypeOK /\ HeldInPlace /\ PinsOwned
    <2> SUFFICES ASSUME IInv PROVE HeldInPlace /\ PinsOwned
      BY DEF IInv
    <2>1. \A t \in Threads : \A h \in held[t] : h[1] \notin spoiled => frames[h[1]] = h[2]
      BY HolderPins DEF IInv, HeldInv
    <2>2. HeldInPlace
      BY <2>1 DEF IInv, FrameInv, HeldInPlace
    <2> QED BY <2>2 DEF IInv, PinInv, PinsOwned
  <1>2. IInv /\ [Next]_vars => [ContentsKept]_vars
    BY NextContents
  <1>3. [ContentsKept]_vars =>
          [\A t \in Threads : \A h \in held[t] \cap held'[t] :
             data'[h[2]] # data[h[2]] => version'[h[1]] # version[h[1]] \/ h[1] \in spoiled']_vars
    BY DEF ContentsKept
  <1> QED BY <1>1, <1>2, <1>3, Invariance, PTL DEF Spec, PinsKept, HeldContents
=============================================================================
