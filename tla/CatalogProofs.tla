--------------------------- MODULE CatalogProofs ----------------------------
(***************************************************************************)
(* Proofs about Catalog for every finite set of tables, indexes and rows,  *)
(* any number of sessions, every scenario and every bound: what was        *)
(* answered survives, the database opens, a replay finds the files it was  *)
(* written for and brings them back to what the log says, and the indexes  *)
(* follow their tables.                                                    *)
(*                                                                         *)
(* CatalogInvariants has the inductive invariant, IInv.                    *)
(***************************************************************************)
EXTENDS CatalogInvariants, SequenceTheorems, FiniteSetTheorems, WellFoundedInduction, TLAPS

-----------------------------------------------------------------------------
(* Names and numbers. *)

LEMMA DataFiles ==
    \A t \in Table : Data(t) \in File /\ TableOf(Data(t)) = t /\ Data(t)[2] = "data" /\ Data(t)[2] \notin Index
  BY NameAssumption DEF File, Data, TableOf

LEMMA IndexFiles ==
    \A t \in Table, i \in Index : <<t, i>> \in File /\ TableOf(<<t, i>>) = t /\ Data(t) # <<t, i>>
  <1>1. \A t \in Table, i \in Index : <<t, i>> \in File /\ TableOf(<<t, i>>) = t /\ <<t, i>>[2] = i
    BY DEF File, TableOf
  <1> QED BY <1>1, DataFiles

LEMMA FileParts ==
    \A f \in File : /\ TableOf(f) \in Table /\ f = <<TableOf(f), f[2]>>
                    /\ f = Data(TableOf(f)) \/ f[2] \in Index
  BY DEF File, TableOf, Data

(* A finite set of integers that is not empty has a largest element. *)
LEMMA FiniteMax ==
    ASSUME NEW S \in SUBSET Int, IsFiniteSet(S), S # {}
    PROVE  Max(S) \in S /\ \A x \in S : x <= Max(S)
  <1> DEFINE HasMax(T) == \E m \in T : \A x \in T : x <= m
             Bad == {n \in Nat : \E T \in SUBSET Int : IsFiniteSet(T) /\ T # {} /\ Cardinality(T) = n /\ ~HasMax(T)}
  <1>1. Bad = {}
    <2> SUFFICES ASSUME Bad # {} PROVE FALSE
      OBVIOUS
    <2>1. PICK n \in Bad : \A y \in Bad : ~(<<y, n>> \in OpToRel(<, Nat))
      <3>1. Bad \subseteq Nat
        OBVIOUS
      <3> HIDE DEF Bad
      <3> QED BY <3>1, NatLessThanWellFounded, WFMin
    <2>2. PICK T \in SUBSET Int : IsFiniteSet(T) /\ T # {} /\ Cardinality(T) = n /\ ~HasMax(T)
      OBVIOUS
    <2>3. PICK x \in T : TRUE
      BY <2>2
    <2>4. /\ IsFiniteSet(T \ {x}) /\ Cardinality(T \ {x}) = n - 1 /\ n \in Nat
          /\ Cardinality(T \ {x}) \in Nat
      BY <2>2, <2>3, FS_RemoveElement, FS_CardinalityType
    <2>5. CASE T \ {x} = {}
      <3>1. HasMax(T)
        BY <2>3, <2>5
      <3> QED BY <3>1, <2>2
    <2>6. CASE T \ {x} # {}
      <3>1. HasMax(T \ {x})
        <4> SUFFICES ASSUME ~HasMax(T \ {x}) PROVE FALSE
          OBVIOUS
        <4>1. n - 1 \in Bad
          BY <2>4, <2>6
        <4>2. <<n - 1, n>> \in OpToRel(<, Nat)
          BY <2>4 DEF OpToRel
        <4> QED BY <2>1, <4>1, <4>2
      <3>2. PICK m \in T \ {x} : \A y \in T \ {x} : y <= m
        BY <3>1
      <3>3. m \in Int /\ x \in Int
        BY <2>3, <3>2
      <3>4. CASE x <= m
        BY <2>2, <3>2, <3>4
      <3>5. CASE m < x
        BY <2>2, <2>3, <3>2, <3>3, <3>5
      <3> QED BY <3>3, <3>4, <3>5
    <2> QED BY <2>5, <2>6
  <1>2. HasMax(S)
    <2>1. Cardinality(S) \in Nat
      BY FS_CardinalityType
    <2> QED BY <1>1, <2>1
  <1>3. PICK m \in S : \A x \in S : m >= x
    BY <1>2
  <1> QED BY <1>3 DEF Max

LEMMA IdTypes == ASSUME TypeOK PROVE IdFacts
  <1>1. \A f \in File : file[f] \in {NoFile, EmptyFile} \cup [id : 1 .. MaxPool, img : Images(0 .. flushed)]
    BY DEF TypeOK
  <1>2. \A f \in File : pool[f] \in {Closed} \cup [id : 1 .. MaxPool, img : Images(0 .. Len(log))]
    BY DEF TypeOK
  <1>3. \A t \in Table : meta[t] \in Metas /\ opened[t] \in Metas
    BY DEF TypeOK
  <1>4. ASSUME NEW f \in File
        PROVE  /\ file[f].id \in Int /\ pool[f].id \in Int
               /\ Complete(f) <=> file[f].id \in 1 .. MaxPool
               /\ ~Complete(f) => file[f] \in {NoFile, EmptyFile}
               /\ file[f] = NoFile <=> file[f].id = -2
               /\ file[f] = EmptyFile <=> file[f].id = -1
               /\ Open(f) <=> pool[f].id # 0
               /\ Open(f) => pool[f].id \in 1 .. MaxPool
    BY <1>1, <1>2, BoundAssumption DEF NoFile, EmptyFile, Closed, Complete, Open
  <1>5. ASSUME NEW t \in Table, NEW m \in Metas
        PROVE  /\ m.id \in Int /\ m.indexes \subseteq Index
               /\ m = NoMeta <=> m.id = -2
               /\ m = EmptyMeta <=> m.id = -1
               /\ m.id \in Nat <=> m.id >= 0
               /\ m.id \notin Nat => m.indexes = {}
    BY DEF Metas, NoMeta, EmptyMeta
  <1> QED BY <1>3, <1>4, <1>5 DEF IdFacts

LEMMA ToOpenFiles == ASSUME TypeOK PROVE ToOpenFacts
  <1>1. ToOpen = {Data(t) : t \in Found} \cup {f \in Table \X Index : f[2] \in meta[f[1]].indexes}
    <2>1. \A t \in Table : meta[t].indexes \subseteq Index /\ (meta[t].indexes # {} => meta[t] # NoMeta)
      BY IdTypes DEF IdFacts, NoMeta
    <2>2. \A f : f \in ToOpen <=> \E t \in Found : f = Data(t) \/ f \in {t} \X meta[t].indexes
      BY DEF ToOpen, FilesOf
    <2>3. ASSUME NEW t \in Table, NEW f
          PROVE  f \in {t} \X meta[t].indexes <=> f \in Table \X Index /\ f[1] = t /\ f[2] \in meta[t].indexes
      BY <2>1
    <2> QED BY <2>1, <2>2, <2>3 DEF Found
  <1>2. \A t \in Table : meta[t].indexes \subseteq Index
    BY IdTypes DEF IdFacts
  <1>3. /\ ToOpen \subseteq File
        /\ \A t \in Table : Data(t) \in ToOpen <=> meta[t] # NoMeta
        /\ \A t \in Table, i \in Index : <<t, i>> \in ToOpen <=> i \in meta[t].indexes
    BY <1>1, <1>2, DataFiles, IndexFiles, FileParts DEF Found, File, TableOf
  <1>4. ASSUME NEW f \in File
        PROVE  f \in ToOpen <=> \/ f = Data(TableOf(f)) /\ meta[TableOf(f)] # NoMeta
                               \/ f[2] \in meta[TableOf(f)].indexes
    <2>1. TableOf(f) \in Table /\ f = <<TableOf(f), f[2]>> /\ (f = Data(TableOf(f)) \/ f[2] \in Index)
      BY FileParts
    <2>2. CASE f = Data(TableOf(f))
      BY <1>2, <1>3, <2>1, <2>2, DataFiles
    <2>3. CASE f[2] \in Index
      BY <1>3, <2>1, <2>3, DataFiles
    <2> QED BY <2>1, <2>2, <2>3
  <1> QED BY <1>3, <1>4 DEF ToOpenFacts

(* The files a sync flushes. *)
LEMMA SyncedFiles ==
    ASSUME NEW tables \in [Table -> Metas]
    PROVE  /\ Synced(tables) \subseteq File
           /\ \A t \in Table : Data(t) \in Synced(tables) <=> tables[t] # NoMeta
           /\ \A t \in Table, i \in Index : <<t, i>> \in Synced(tables) <=> i \in tables[t].indexes
  <1>1. Synced(tables) = {Data(t) : t \in Tables(tables)} \cup {f \in Table \X Index : f[2] \in tables[f[1]].indexes}
    <2>1. \A t \in Table : tables[t].indexes \subseteq Index /\ (tables[t].indexes # {} => tables[t] # NoMeta)
      BY DEF Metas, NoMeta, EmptyMeta
    <2>2. \A f : f \in Synced(tables) <=> \E t \in Tables(tables) : f = Data(t) \/ f \in {t} \X tables[t].indexes
      BY DEF Synced, FilesOf
    <2>3. ASSUME NEW t \in Table, NEW f
          PROVE  f \in {t} \X tables[t].indexes <=> f \in Table \X Index /\ f[1] = t /\ f[2] \in tables[t].indexes
      BY <2>1
    <2> QED BY <2>1, <2>2, <2>3 DEF Tables
  <1> QED BY <1>1, DataFiles, IndexFiles, FileParts DEF Tables, File

LEMMA ReplayedRange == ASSUME TypeOK PROVE RangeFacts
  <1>1. /\ Len(log) \in Nat /\ flushed \in Nat /\ ckpt \in Nat /\ ckpt <= flushed /\ flushed <= Len(log)
    BY LenProperties DEF TypeOK
  <1>2. {ckpt, 1} \in SUBSET Int /\ IsFiniteSet({ckpt, 1}) /\ {ckpt, 1} # {}
    <2>1. {ckpt, 1} \subseteq 0 .. ckpt + 1
      BY <1>1
    <2>2. IsFiniteSet(0 .. ckpt + 1)
      BY <1>1, FS_Interval
    <2> QED BY <1>1, <2>1, <2>2, FS_Subset
  <1>3. Max({ckpt, 1}) \in {ckpt, 1} /\ Max({ckpt, 1}) >= ckpt /\ Max({ckpt, 1}) >= 1
    BY <1>1, <1>2, FiniteMax
  <1>4. ASSUME NEW m \in {ckpt, 1}, m >= ckpt, m >= 1, NEW n
        PROVE  n \in m .. Len(log) <=> n \in 1 .. Len(log) /\ n >= ckpt
    BY <1>1, <1>4
  <1>5. \A n : n \in Max({ckpt, 1}) .. Len(log) <=> n \in 1 .. Len(log) /\ n >= ckpt
    BY <1>3, <1>4
  <1> QED BY <1>1, <1>5 DEF RangeFacts, Replayed

LEMMA RecordTypes == ASSUME TypeOK PROVE RecordFacts
  <1>1. \A n \in 1 .. Len(log) : log[n] \in Records
    BY ElementOfSeq DEF TypeOK
  <1> QED BY <1>1 DEF RecordFacts, Records

LEMMA Typed == ASSUME TypeOK PROVE Facts
  BY IdTypes, ToOpenFiles, ReplayedRange, RecordTypes DEF Facts

LEMMA SessionTypes ==
    ASSUME NEW s \in Sessions
    PROVE  /\ s.pc \in Pcs /\ s.t \in Table \cup {""} /\ s.i \in Index \cup {""}
           /\ s.row \in Row \cup {0} /\ s.id \in Nat /\ s.lsn \in Nat
           /\ s.todo \subseteq File /\ s.did \subseteq File /\ s.lines \in Seq({"good", "bad"})
           /\ s.load \in BOOLEAN /\ s.ok \in BOOLEAN
  BY DEF Sessions

LEMMA IdleSession ==
    /\ Idle \in Sessions
    /\ Idle.pc = "idle" /\ Idle.t = "" /\ Idle.i = "" /\ Idle.row = 0 /\ Idle.todo = {} /\ Idle.did = {}
  <1>1. <<>> \in Seq({"good", "bad"})
    OBVIOUS
  <1>2. ASSUME NEW pc \in Pcs, NEW t \in Table \cup {""}, NEW i \in Index \cup {""}, NEW row \in Row \cup {0},
               NEW id \in Nat, NEW lsn \in Nat, NEW todo \in SUBSET File, NEW did \in SUBSET File,
               NEW lines \in Seq({"good", "bad"}), NEW load \in BOOLEAN, NEW ok \in BOOLEAN
        PROVE  [pc |-> pc, t |-> t, i |-> i, row |-> row, id |-> id, lsn |-> lsn,
                todo |-> todo, did |-> did, lines |-> lines, load |-> load, ok |-> ok] \in Sessions
    BY DEF Sessions
  <1>3. /\ "idle" \in Pcs /\ "" \in Table \cup {""} /\ "" \in Index \cup {""} /\ 0 \in Row \cup {0}
        /\ 0 \in Nat /\ {} \in SUBSET File
    BY DEF Pcs
  <1>4. FALSE \in BOOLEAN /\ TRUE \in BOOLEAN
    BY Zenon
  <1>5. Idle \in Sessions
    BY <1>1, <1>2, <1>3, <1>4, Zenon DEF Idle
  <1> QED BY <1>5 DEF Idle

(* One session changes. *)
LEMMA SessionStep ==
    ASSUME TypeOK, NEW a \in Actor, NEW s \in Sessions, client' = [client EXCEPT ![a] = s]
    PROVE  /\ client' \in [Actor -> Sessions] /\ client'[a] = s
           /\ \A b \in Actor : b # a => client'[b] = client[b]
  BY DEF TypeOK

(* The ways a session goes on. *)
LEMMA GotoStep ==
    ASSUME TypeOK, NEW a \in Actor, NEW pc \in Pcs, Goto(a, pc)
    PROVE  \E s \in Sessions :
              /\ client' = [client EXCEPT ![a] = s]
              /\ s.pc = pc /\ s.t = client[a].t /\ s.i = client[a].i /\ s.row = client[a].row
              /\ s.id = client[a].id /\ s.todo = client[a].todo /\ s.did = client[a].did
  <1> DEFINE s == [client[a] EXCEPT !.pc = pc]
  <1>1. client[a] \in Sessions
    BY DEF TypeOK, Actor
  <1>2. s \in Sessions
    BY <1>1 DEF Sessions
  <1>3. client' = [client EXCEPT ![a] = s]
    BY DEF Goto
  <1>4. /\ s.pc = pc /\ s.t = client[a].t /\ s.i = client[a].i /\ s.row = client[a].row
        /\ s.id = client[a].id /\ s.todo = client[a].todo /\ s.did = client[a].did
    BY <1>1 DEF Sessions
  <1> QED BY <1>2, <1>3, <1>4

(* A session at work: the server is up and the main thread waits. *)
LEMMA Working ==
    ASSUME TypeOK, ActorInv, NEW c \in Client, client[c].pc # "idle"
    PROVE  /\ status = "up" /\ client[Main].pc = "idle" /\ client[c] \in Sessions
           /\ client[c].t \in Table /\ c \in Actor
  BY IdleSession DEF ActorInv, Actor, TypeOK

(* ActorInv speaks of pcs, tables and rows only. *)
LEMMA ActorStep ==
    ASSUME TypeOK, ActorInv, NEW c \in Client, NEW s \in Sessions, client' = [client EXCEPT ![c] = s],
           status = "up", status' = "up", client[Main].pc = "idle",
           s.pc # "close", s.pc # "idle" => s.t \in Table,
           s.pc \in TablePcs => s.i = "", s.pc \in IndexPcs => s.i \in Index,
           s.row # 0 <=> s.pc \in RowPcs,
           Ddl(c)' => Ddl(c) \/ \A a \in Actor : ~Ddl(a)
    PROVE  ActorInv'
  <1>1. /\ c \in Actor /\ Main \in Actor /\ Main # c
    BY MainAssumption DEF Actor
  <1>2. /\ client'[c] = s /\ \A b \in Actor : b # c => client'[b] = client[b]
    BY <1>1, SessionStep
  <1>3. \A a, b \in Actor : (Ddl(a) /\ Ddl(b))' => a = b
    <2>1. \A b \in Actor : b # c => (Ddl(b)' <=> Ddl(b))
      BY <1>2 DEF Ddl
    <2> QED BY <1>1, <2>1 DEF ActorInv
  <1>4. s.pc \in {"idle", "l_line"} \cup TablePcs \cup IndexPcs \cup SyncPcs \cup RowPcs
    BY SessionTypes DEF Pcs
  <1>5. \A b \in Client :
          /\ client'[b].pc \in {"idle", "l_line"} \cup TablePcs \cup IndexPcs \cup SyncPcs \cup RowPcs
          /\ client'[b].pc # "idle" => client'[b].t \in Table
          /\ client'[b].pc \in TablePcs => client'[b].i = ""
          /\ client'[b].pc \in IndexPcs => client'[b].i \in Index
          /\ client'[b].row # 0 <=> client'[b].pc \in RowPcs
    <2> SUFFICES ASSUME NEW b \in Client
                 PROVE /\ client'[b].pc \in {"idle", "l_line"} \cup TablePcs \cup IndexPcs \cup SyncPcs \cup RowPcs
                       /\ client'[b].pc # "idle" => client'[b].t \in Table
                       /\ client'[b].pc \in TablePcs => client'[b].i = ""
                       /\ client'[b].pc \in IndexPcs => client'[b].i \in Index
                       /\ client'[b].row # 0 <=> client'[b].pc \in RowPcs
      OBVIOUS
    <2>1. CASE b = c
      BY <2>1, <1>2, <1>4
    <2>2. CASE b # c
      <3>1. client'[b] = client[b]
        BY <2>2, <1>2 DEF Actor
      <3> QED BY <3>1 DEF ActorInv
    <2> QED BY <2>1, <2>2
  <1>6. client'[Main] = client[Main]
    BY <1>1, <1>2
  <1> QED BY <1>3, <1>5, <1>6 DEF ActorInv

(* A step of a sync, also of the main thread. *)
LEMMA ActorSyncStep ==
    ASSUME TypeOK, ActorInv, NEW a \in Actor, NEW s \in Sessions, client' = [client EXCEPT ![a] = s],
           client[a].pc \in SyncPcs, status' = status,
           s.pc \in SyncPcs \/ (s = Idle /\ a \in Client) \/ (s.pc = "close" /\ a = Main),
           s.pc \in SyncPcs => s.t = client[a].t /\ s.row = client[a].row
    PROVE  ActorInv'
  <1>1. status = "up"
    BY IdleSession DEF ActorInv, SyncPcs
  <1>2. CASE a \in Client
    <2>1. client[Main].pc = "idle" /\ a # Main /\ client[a].t \in Table
      BY <1>2, MainAssumption, Working DEF SyncPcs
    <2>2. /\ s.pc # "close" /\ s.pc \notin TablePcs /\ s.pc \notin IndexPcs
          /\ s.pc # "idle" => s.t \in Table
      BY <2>1, IdleSession DEF SyncPcs, TablePcs, IndexPcs
    <2>3. s.row # 0 <=> s.pc \in RowPcs
      <3>1. client[a].row = 0
        BY <1>2 DEF ActorInv, SyncPcs, RowPcs
      <3> QED BY <2>1, <3>1, IdleSession DEF SyncPcs, RowPcs
    <2>4. Ddl(a)
      BY DEF Ddl
    <2> QED BY <1>1, <1>2, <2>1, <2>2, <2>3, <2>4, ActorStep
  <1>3. CASE a = Main
    <2>1. /\ client'[Main] = s /\ \A c \in Client : client'[c] = client[c] /\ c # Main
      BY <1>3, SessionStep, MainAssumption DEF Actor
    <2>2. client[Main].pc # "idle" /\ \A c \in Client : client[c].pc = "idle"
      BY <1>3 DEF ActorInv, SyncPcs
    <2>3. s.pc \in {"idle", "close"} \cup SyncPcs
      BY <1>3, MainAssumption
    <2>4. \A b \in Actor : Ddl(b)' => b = Main
      BY <2>1, <2>2 DEF Ddl, Actor, TablePcs, IndexPcs, SyncPcs
    <2> QED BY <1>1, <2>1, <2>2, <2>3, <2>4 DEF ActorInv
  <1> QED BY <1>2, <1>3 DEF Actor

-----------------------------------------------------------------------------
(* What a step that gives no file a new id leaves true of the directory.   *)

LEMMA DirectoryStep ==
    ASSUME TypeOK, TypeOK', SchemaInv, IdInv, UnfinishedInv, DirectoryKept, LogKept, DblwrKept
    PROVE  IdInv' /\ UnfinishedInv'
  <1>0. Facts /\ Facts'
    BY Typed, PTL
  <1>1. /\ Len(log) \in Nat /\ Len(log') \in Nat /\ ckpt \in Nat /\ ckpt' \in Nat
        /\ \A n : n \in Replayed <=> n \in 1 .. Len(log) /\ n >= ckpt
    BY <1>0 DEF Facts, RangeFacts
  <1>2. \A n : n \in Replayed' <=> n \in 1 .. Len(log') /\ n >= ckpt'
    BY <1>0 DEF Facts, RangeFacts
  <1>3. \A n \in 1 .. Len(log) : log[n].file \in File /\ log[n].id \in 1 .. MaxPool
    BY <1>0 DEF Facts, RecordFacts
  <1>4. \A n \in 1 .. Len(log') : log'[n].file \in File /\ log'[n].id \in 1 .. MaxPool
    BY <1>0 DEF Facts, RecordFacts
  <1>5. \A f \in File : file[f].id \in Int /\ (Complete(f) <=> file[f].id \in 1 .. MaxPool)
    BY <1>0 DEF Facts, IdFacts
  <1>6. \A f \in File : Open(f) => Live(f)
    BY DEF SchemaInv, Live
  <1>7. \A f \in File : Live(f) => Complete(f)
    BY DEF Live
  <1>8. \A n \in 1 .. Len(log') :
           /\ n > Len(log) => Live(log'[n].file) /\ log'[n].id = file[log'[n].file].id
           /\ n <= Len(log) => n \in 1 .. Len(log) /\ log'[n] = log[n]
    BY <1>1 DEF LogKept
  <1>9. \A f, g \in File : Live(f)' /\ Live(g)' /\ f # g => file'[f].id # file'[g].id
    BY <1>7 DEF DirectoryKept, IdInv
  <1>10. \A n \in 1 .. Len(log') : file'[log'[n].file].id = log'[n].id /\ Complete(log'[n].file)
    <2> SUFFICES ASSUME NEW n \in 1 .. Len(log')
                 PROVE  file'[log'[n].file].id = log'[n].id /\ Complete(log'[n].file)
      OBVIOUS
    <2>1. file[log'[n].file].id = log'[n].id /\ log'[n].file \in File /\ log'[n].id \in 1 .. MaxPool
      BY <1>1, <1>4, <1>8 DEF IdInv
    <2> QED BY <2>1, <1>5 DEF DirectoryKept
  <1>11. \A f \in File, n \in Replayed' : Live(f)' /\ file'[f].id = log'[n].id => log'[n].file = f
    <2> SUFFICES ASSUME NEW f \in File, NEW n \in Replayed', Live(f)', file'[f].id = log'[n].id
                 PROVE  log'[n].file = f
      OBVIOUS
    <2>1. Live(f) /\ file[f].id = log'[n].id
      BY <1>7 DEF DirectoryKept
    <2>2. CASE n > Len(log)
      BY <2>1, <2>2, <1>2, <1>4, <1>8 DEF IdInv
    <2>3. CASE n <= Len(log)
      <3>1. n \in Replayed /\ log'[n] = log[n]
        BY <2>3, <1>1, <1>2, <1>8 DEF DirectoryKept
      <3> QED BY <2>1, <3>1 DEF IdInv
    <2> QED BY <2>2, <2>3, <1>1, <1>2
  <1>12. \A p \in 1 .. MaxPool : dblwr'[p] # NoImage =>
           \E f \in File : file'[f].id = p /\ f \in ToOpen' \cup hist'.unfinished /\ (status' = "up" => Open(f)')
    <2> SUFFICES ASSUME NEW p \in 1 .. MaxPool, dblwr'[p] # NoImage
                 PROVE  \E f \in File : file'[f].id = p /\ f \in ToOpen' \cup hist'.unfinished /\ (status' = "up" => Open(f)')
      OBVIOUS
    <2>1. PICK f \in File : file[f].id = p /\ f \in ToOpen \cup hist.unfinished /\ (status = "up" => Open(f))
      <3>1. CASE dblwr[p] # NoImage
        BY <3>1 DEF IdInv
      <3>2. CASE \E f \in File : Open(f) /\ file[f].id = p
        BY <3>2, <1>6 DEF UnfinishedInv
      <3> QED BY <3>1, <3>2 DEF DblwrKept
    <2>2. Complete(f)
      BY <2>1, <1>5
    <2> QED BY <2>1, <2>2 DEF DirectoryKept
  <1>13. status' = "up" =>
           /\ \A f \in File : Live(f)' => file'[f].id < nextPool'
           /\ \A n \in Replayed' : log'[n].id < nextPool'
           /\ \A f \in ToOpen' : Complete(f)' => Open(f)' \/ Opening(f)'
    <2> HAVE status' = "up"
    <2>1. status = "up" /\ nextPool' = nextPool
      BY DEF DirectoryKept
    <2>2. \A f \in File : Live(f) => file[f].id < nextPool
      BY <2>1 DEF IdInv
    <2>3. \A f \in File : Live(f)' => file'[f].id < nextPool'
      BY <2>1, <2>2, <1>7 DEF DirectoryKept
    <2>4. \A n \in Replayed' : log'[n].id < nextPool'
      <3> SUFFICES ASSUME NEW n \in Replayed' PROVE log'[n].id < nextPool'
        OBVIOUS
      <3>1. CASE n > Len(log)
        BY <3>1, <2>1, <2>2, <1>2, <1>4, <1>8
      <3>2. CASE n <= Len(log)
        <4>1. n \in Replayed /\ log'[n] = log[n]
          BY <3>2, <1>1, <1>2, <1>8 DEF DirectoryKept
        <4> QED BY <2>1, <4>1 DEF IdInv
      <3> QED BY <3>1, <3>2, <1>1, <1>2
    <2>5. ToOpen' \subseteq File
      BY <1>0 DEF Facts, ToOpenFacts
    <2>6. \A f \in ToOpen' : Complete(f)' => Open(f)' \/ Opening(f)'
      BY <2>1, <2>5 DEF DirectoryKept, IdInv
    <2> QED BY <2>3, <2>4, <2>6
  <1>14. IdInv'
    BY <1>9, <1>10, <1>11, <1>12, <1>13 DEF IdInv
  <1>15. ToOpen' \subseteq File /\ ToOpen \subseteq File
    BY <1>0 DEF Facts, ToOpenFacts
  <1>16. UnfinishedInv'
    <2>1. \A t \in Table : meta'[t] = EmptyMeta => Data(t) \in hist'.unfinished
      BY DEF DirectoryKept
    <2>2. \A f \in ToOpen' : Complete(f)' \/ f \in hist'.unfinished
      BY <1>15, <1>6, <1>7 DEF DirectoryKept, UnfinishedInv
    <2>3. \A f \in File : Live(f)' => f \in ToOpen' \/ f \in hist'.unfinished
      BY DEF DirectoryKept, UnfinishedInv
    <2>4. \A n \in 1 .. Len(log') : log'[n].file \in ToOpen' \/ log'[n].file \in hist'.unfinished
      <3> SUFFICES ASSUME NEW n \in 1 .. Len(log')
                   PROVE  log'[n].file \in ToOpen' \/ log'[n].file \in hist'.unfinished
        OBVIOUS
      <3>1. log'[n].file \in ToOpen \cup hist.unfinished /\ log'[n].file \in File
        BY <1>1, <1>4, <1>8 DEF UnfinishedInv
      <3> QED BY <3>1 DEF DirectoryKept
    <2> QED BY <2>1, <2>2, <2>3, <2>4 DEF UnfinishedInv
  <1> QED BY <1>14, <1>16

(* What was answered stays as long as ids and indexes do. *)
LEMMA AnsweredStep ==
    ASSUME TypeOK, TypeOK', AnsweredInv, hist'.answered = hist.answered, status' = "up" => status = "up",
           \A f \in File : Complete(f) => file'[f].id = file[f].id,
           \A t \in Table : /\ meta[t].id \in Nat => meta'[t].id = meta[t].id /\ meta[t].indexes \subseteq meta'[t].indexes
                            /\ status' = "up" /\ opened[t] # NoMeta => opened'[t] # NoMeta
    PROVE  AnsweredInv'
  <1> SUFFICES ASSUME NEW x \in hist.answered
               PROVE  LET t == TableOf(x.file) IN
                      /\ meta'[t].id = x.table /\ file'[x.file].id = x.pool
                      /\ x.file # Data(t) => x.file[2] \in meta'[t].indexes
                      /\ status' = "up" => opened'[t] # NoMeta
    BY DEF AnsweredInv
  <1>1. x.file \in File /\ x.table \in Nat /\ x.pool \in 1 .. MaxPool
    BY DEF TypeOK, Remembered
  <1>2. TableOf(x.file) \in Table
    BY <1>1, FileParts
  <1>3. Complete(x.file)
    BY <1>1, Typed DEF Facts, IdFacts, AnsweredInv
  <1> QED BY <1>1, <1>2, <1>3 DEF AnsweredInv

(* While one session changes the schema the others work on rows. *)
LEMMA OthersMade ==
    ASSUME TypeOK, ActorInv, WorkInv, NEW c \in Actor, Ddl(c), NEW b \in Client, b # c, client'[b] = client[b],
           \A t \in Table : opened[t] # NoMeta => opened'[t] # NoMeta /\ opened[t].indexes \subseteq opened'[t].indexes
    PROVE  Made(b)'
  <1>1. ~Ddl(b)
    BY DEF ActorInv, Actor
  <1>2. client'[b].pc \notin TablePcs \cup IndexPcs \cup SyncPcs
    BY <1>1 DEF Ddl
  <1>3. WorkMade(b)
    BY DEF WorkInv
  <1>4. TableMade(b)' /\ IndexMade(b)'
    BY <1>2 DEF TableMade, IndexMade
  <1>5. CASE client[b].pc = "idle"
    BY <1>5 DEF WorkMade, RowPcs, SyncPcs, Made, TableMade, IndexMade, TablePcs, IndexPcs
  <1>6. CASE client[b].pc # "idle"
    <2>1. client[b].t \in Table
      BY <1>6, Working
    <2>2. client[b].pc \in RowPcs \cup {"l_line"}
      BY <1>2, <1>6 DEF ActorInv
    <2>3. client[b].pc \in RowPcs => client[b].todo \cup client[b].did \subseteq {client[b].t} \X opened'[client[b].t].indexes
      BY <1>3, <2>1, <2>2 DEF WorkMade
    <2>4. WorkMade(b)'
      BY <1>2, <1>3, <2>1, <2>2, <2>3 DEF WorkMade
    <2> QED BY <1>4, <2>4 DEF Made
  <1> QED BY <1>5, <1>6

-----------------------------------------------------------------------------
(* Steps that keep the names: the tables, their files and the ids.  Only   *)
(* files of G change, and only in the log and in the pool.                 *)

LEMMA NamesStep ==
    ASSUME TypeOK, TypeOK', SchemaInv, IdInv, UnfinishedInv, AnsweredInv,
           NEW G \in SUBSET File, \A f \in G : Open(f), NamesKept(G), OpeningKept
    PROVE  SchemaInv' /\ IdInv' /\ UnfinishedInv' /\ AnsweredInv'
  <1>1. Facts /\ Facts'
    BY Typed, PTL
  <1>2. \A f \in File : (Open(f)' <=> Open(f)) /\ (Complete(f)' <=> Complete(f))
    BY <1>1 DEF NamesKept, Facts, IdFacts
  <1>3. ToOpen' = ToOpen
    BY DEF NamesKept, ToOpen, Found, FilesOf
  <1>4. \A f \in File : Opening(f)' <=> Opening(f)
    BY DEF OpeningKept, Opening, Target
  <1>5. \A f \in File : Live(f)' <=> Live(f)
    BY <1>2, <1>3, <1>4 DEF Live
  <1>6. DirectoryKept
    <2>1. ckpt' >= ckpt
      BY <1>1 DEF NamesKept, Facts, RangeFacts
    <2>2. \A t \in Table : meta'[t] = EmptyMeta => Data(t) \in hist'.unfinished
      BY DEF NamesKept, UnfinishedInv
    <2>3. \A f \in hist.unfinished : f \in hist'.unfinished
      BY DEF NamesKept
    <2>4. \A f \in File : file'[f].id = file[f].id
      BY DEF NamesKept
    <2>5. status' = status /\ nextPool' = nextPool
      BY DEF NamesKept
    <2>6. \A f \in File :
            /\ Complete(f)' <=> Complete(f)
            /\ Complete(f) => file'[f].id = file[f].id
            /\ Live(f)' => Live(f)
            /\ Open(f) => Open(f)'
            /\ Opening(f) => Opening(f)' \/ Open(f)'
            /\ f \in ToOpen \cup hist.unfinished => f \in ToOpen' \cup hist'.unfinished
            /\ f \in ToOpen' => f \in ToOpen
      BY <1>2, <1>3, <1>4, <1>5, <2>3, <2>4
    <2> QED BY <2>1, <2>2, <2>3, <2>5, <2>6 DEF DirectoryKept
  <1>7. \A f \in File : Open(f) => Live(f) /\ pool[f].id = file[f].id
    BY DEF SchemaInv, Live
  <1>8. LogKept
    BY <1>7 DEF LogKept, NamesKept
  <1>9. DblwrKept
    BY <1>7 DEF DblwrKept, NamesKept
  <1>10. SchemaInv'
    <2>1. \A t \in Table : Data(t) \in File /\ \A i \in opened[t].indexes \cup meta[t].indexes : <<t, i>> \in File
      BY <1>1, DataFiles, IndexFiles DEF Facts, IdFacts
    <2>2. \A f \in File : (file'[f] = NoFile <=> file[f] = NoFile)
      BY <1>1 DEF NamesKept, Facts, IdFacts
    <2> QED BY <1>2, <2>1, <2>2 DEF SchemaInv, NamesKept
  <1>11. AnsweredInv'
    BY AnsweredStep DEF NamesKept
  <1> QED BY <1>6, <1>8, <1>9, <1>10, <1>11, DirectoryStep

LEMMA NamesTableIds ==
    ASSUME TypeOK, TypeOK', TableIdInv, NEW G, NamesKept(G),
           \A c \in Client : client'[c].pc \in {"ct_meta", "ct_init"} => client'[c] = client[c]
    PROVE  TableIdInv'
  <1>1. nextTable \in Nat /\ nextTable' \in Nat /\ nextTable' >= nextTable /\ meta' = meta /\ status' = status
    BY DEF TypeOK, NamesKept
  <1>2. \A t \in Table : meta[t].id \in Int
    BY Typed DEF Facts, IdFacts
  <1>3. \A c \in Client : client'[c].pc \in {"ct_meta", "ct_init"} =>
           client[c].id \in Nat /\ client'[c] = client[c]
    BY SessionTypes DEF TypeOK, Actor
  <1> QED BY <1>1, <1>2, <1>3 DEF TableIdInv

LEMMA NamesMade ==
    ASSUME TypeOK, TypeOK', ActorInv, WorkInv, SchemaInv, NEW G \in SUBSET File, \A f \in G : Open(f), NamesKept(G),
           NEW c \in Client, client'[c] = client[c],
           client[c].pc \in {"ci_sync", "ci_scan"} => <<client[c].t, client[c].i>> \notin G
    PROVE  Made(c)'
  <1>1. Facts /\ Facts'
    BY Typed, PTL
  <1>2. \A f \in File : (Open(f)' <=> Open(f)) /\ (Complete(f)' <=> Complete(f))
    BY <1>1 DEF NamesKept, Facts, IdFacts
  <1>3. TableMade(c) /\ IndexMade(c) /\ WorkMade(c)
    BY DEF WorkInv
  <1>4. WorkMade(c)'
    BY <1>3 DEF WorkMade, NamesKept
  <1>5. ASSUME NEW f \in File \ G PROVE RecordsOf(f)' = RecordsOf(f) /\ \A n \in RecordsOf(f) : log'[n] = log[n]
    BY <1>1 DEF NamesKept, Facts, RangeFacts, RecordsOf
  <1>6. TableMade(c)'
    <2> DEFINE f == Data(client[c].t)
    <2>1. CASE client[c].pc \in TablePcs
      <3>1. client[c].t \in Table /\ f \in File
        BY <2>1, Working, DataFiles DEF TablePcs
      <3>2. f \notin G /\ ~Open(f)
        BY <2>1, <1>3, <3>1 DEF TableMade, SchemaInv
      <3>3. file'[f] = file[f] /\ RecordsOf(f)' = RecordsOf(f) /\ (Complete(f)' <=> Complete(f))
        BY <3>1, <3>2, <1>2, <1>5 DEF NamesKept
      <3> QED BY <1>3, <3>1, <3>3 DEF TableMade, NamesKept
    <2>2. CASE client[c].pc \notin TablePcs
      BY <2>2 DEF TableMade
    <2> QED BY <2>1, <2>2
  <1>7. IndexMade(c)'
    <2>1. CASE client[c].pc \in IndexPcs
      <3>1. PICK f \in File : f = <<client[c].t, client[c].i>>
        BY <2>1, Working, IndexFiles DEF IndexPcs, ActorInv
      <3>2. client[c].pc = "ci_create" => f \notin G /\ ~Open(f)
        BY <2>1, <1>3, <3>1 DEF IndexMade
      <3>3. client[c].pc = "ci_header" => file'[f] = EmptyFile
        <4>1. ASSUME client[c].pc = "ci_header" PROVE file[f].id = -1
          BY <4>1, <2>1, <3>1, <1>3 DEF IndexMade, EmptyFile
        <4> QED BY <3>1, <4>1, <1>1 DEF NamesKept, Facts, IdFacts
      <3>4. \A n \in RecordsOf(f)' : n \in RecordsOf(f) \/ n > ckpt
        BY <1>1 DEF NamesKept, Facts, RangeFacts, RecordsOf
      <3>5. client[c].pc \in {"ci_create", "ci_sync", "ci_scan"} =>
              /\ pool'[f] = pool[f] /\ RecordsOf(f)' = RecordsOf(f) /\ \A n \in RecordsOf(f) : log'[n] = log[n]
        BY <3>1, <3>2, <1>5 DEF NamesKept
      <3>6. client[c].pc = "ci_create" => file'[f] = file[f]
        BY <3>1, <3>2 DEF NamesKept
      <3>7. /\ opened'[client[c].t] # NoMeta /\ f \in hist'.unfinished /\ client[c].i \notin meta'[client[c].t].indexes
            /\ client[c].i \in opened'[client[c].t].indexes <=> client[c].pc = "ci_rename"
        BY <1>3, <2>1, <3>1 DEF IndexMade, NamesKept
      <3>8. client[c].pc = "ci_create" => /\ Complete(f)' /\ file'[f].img = NewImage /\ RecordsOf(f)' = {} /\ ~Open(f)'
        BY <1>2, <1>3, <2>1, <3>1, <3>5, <3>6 DEF IndexMade
      <3>9. client[c].pc \in {"ci_sync", "ci_scan"} =>
              /\ Open(f)' /\ pool'[f].img.rows = {} /\ \A n \in RecordsOf(f)' : log'[n].op = "alloc" /\ log'[n].row = 0
        BY <1>2, <1>3, <2>1, <3>1, <3>5 DEF IndexMade
      <3>10. /\ client[c].pc \in {"ci_push", "ci_rename"} => Open(f)'
             /\ client[c].pc \in {"ci_sync", "ci_scan", "ci_push", "ci_rename"} => \A n \in RecordsOf(f)' : n > ckpt'
        BY <1>2, <1>3, <2>1, <3>1, <3>4 DEF IndexMade, NamesKept
      <3> QED BY <3>1, <3>3, <3>7, <3>8, <3>9, <3>10 DEF IndexMade
    <2>2. CASE client[c].pc \notin IndexPcs
      BY <2>2 DEF IndexMade
    <2> QED BY <2>1, <2>2
  <1> QED BY <1>4, <1>6, <1>7 DEF Made

-----------------------------------------------------------------------------
(* The names, the ids and the sessions together. *)
LEMMA SyncedOpen ==
    ASSUME TypeOK, SchemaInv
    PROVE  /\ Synced(opened) \subseteq File /\ \A f \in Synced(opened) : Open(f)
           /\ \A t \in Table : opened[t] # NoMeta => Data(t) \in Synced(opened)
           /\ \A t \in Table : {t} \X opened[t].indexes \subseteq Synced(opened)
           /\ \A c \in Client : client[c].t \in Table /\ client[c].i \in Index
                                /\ client[c].i \notin opened[client[c].t].indexes
                                => <<client[c].t, client[c].i>> \notin Synced(opened)
  <1>1. opened \in [Table -> Metas]
    BY DEF TypeOK
  <1>2. /\ Synced(opened) \subseteq File
        /\ \A t \in Table : Data(t) \in Synced(opened) <=> opened[t] # NoMeta
        /\ \A t \in Table, i \in Index : <<t, i>> \in Synced(opened) <=> i \in opened[t].indexes
    BY <1>1, SyncedFiles
  <1>3. \A t \in Table : opened[t].indexes \subseteq Index /\ (opened[t].indexes # {} => opened[t] # NoMeta)
    BY Typed DEF Facts, IdFacts, NoMeta
  <1>4. ASSUME NEW f \in Synced(opened) PROVE Open(f)
    <2>1. f \in File /\ TableOf(f) \in Table /\ f = <<TableOf(f), f[2]>> /\ (f = Data(TableOf(f)) \/ f[2] \in Index)
      BY <1>2, FileParts
    <2>2. CASE f = Data(TableOf(f))
      BY <1>2, <2>1, <2>2 DEF SchemaInv
    <2>3. CASE f[2] \in Index
      <3>1. f[2] \in opened[TableOf(f)].indexes
        BY <1>2, <2>1, <2>3
      <3> QED BY <1>3, <2>1, <3>1 DEF SchemaInv
    <2> QED BY <2>1, <2>2, <2>3
  <1>5. \A t \in Table : {t} \X opened[t].indexes \subseteq Synced(opened)
    BY <1>2, <1>3
  <1> QED BY <1>2, <1>4, <1>5

(* The sessions that keep the names, and what follows for everyone else. *)
LEMMA NamesStruct ==
    ASSUME Struct, TypeOK', ActorInv', NEW a \in Actor, NEW s \in Sessions, client' = [client EXCEPT ![a] = s],
           NEW G \in SUBSET File, \A f \in G : Open(f), NamesKept(G), G \subseteq Synced(opened) \/ Ddl(a),
           a \in Client => /\ Made(a)' /\ client[a].pc \notin {"ct_open", "ci_create"}
                           /\ s.pc \notin {"ct_open", "ci_create"}
                           /\ s.pc \in {"ct_meta", "ct_init"} => TableIdInv'
    PROVE  Struct'
  <1>1. client'[a] = s /\ \A b \in Actor : b # a => client'[b] = client[b]
    BY SessionStep DEF Struct
  <1>2. SchemaInv' /\ IdInv' /\ UnfinishedInv' /\ AnsweredInv'
    <2>1. OpeningKept
      BY <1>1 DEF OpeningKept, Actor
    <2> QED BY <2>1, NamesStep DEF Struct
  <1>3. TableIdInv'
    <2>1. CASE a \in Client /\ s.pc \in {"ct_meta", "ct_init"}
      BY <2>1
    <2>2. CASE ~(a \in Client /\ s.pc \in {"ct_meta", "ct_init"})
      <3>1. \A c \in Client : client'[c].pc \in {"ct_meta", "ct_init"} => client'[c] = client[c]
        BY <1>1, <2>2 DEF Actor
      <3> QED BY <3>1, NamesTableIds DEF Struct
    <2> QED BY <2>1, <2>2
  <1>4. ASSUME NEW b \in Client, b # a PROVE Made(b)'
    <2>1. client'[b] = client[b]
      BY <1>1, <1>4 DEF Actor
    <2>2. client[b].pc \in {"ci_sync", "ci_scan"} => <<client[b].t, client[b].i>> \notin G
      <3> HAVE client[b].pc \in {"ci_sync", "ci_scan"}
      <3>1. Ddl(b) /\ ~Ddl(a) /\ client[b].t \in Table /\ client[b].i \in Index
        BY <1>4 DEF Struct, ActorInv, Ddl, IndexPcs, Actor
      <3>2. client[b].i \notin opened[client[b].t].indexes
        BY DEF Struct, WorkInv, IndexMade, IndexPcs
      <3> QED BY <3>1, <3>2, SyncedOpen DEF Struct
    <2> QED BY <2>1, <2>2, NamesMade DEF Struct
  <1>5. WorkInv'
    BY <1>4 DEF WorkInv, Made
  <1> QED BY <1>2, <1>3, <1>5 DEF Struct

LEMMA RowSessionStep ==
    ASSUME Struct, TypeOK', NEW c \in Client, client[c].pc \in RowPcs \cup {"l_line", "idle"},
           status = "up", client[Main].pc = "idle",
           NEW s, RowSession(s), client' = [client EXCEPT ![c] = s],
           NEW G \in SUBSET Synced(opened), NamesKept(G)
    PROVE  Struct'
  <1>1. c \in Actor /\ s \in Sessions /\ client'[c] = s
    BY SessionStep DEF RowSession, Struct, Actor
  <1>2. s.pc \notin TablePcs \cup IndexPcs \cup SyncPcs \cup {"close"}
    BY DEF RowSession, TablePcs, IndexPcs, SyncPcs, RowPcs
  <1>3. ~Ddl(c)'
    BY <1>1, <1>2 DEF Ddl
  <1>4. ActorInv'
    <2>1. status' = "up"
      BY DEF NamesKept
    <2>2. s.pc # "idle" => s.t \in Table
      BY DEF RowSession
    <2>3. s.row # 0 <=> s.pc \in RowPcs
      BY DEF RowSession
    <2> QED BY <1>1, <1>2, <1>3, <2>1, <2>2, <2>3, ActorStep DEF Struct
  <1>5. Made(c)'
    <2>1. opened' = opened
      BY DEF NamesKept
    <2>2. TableMade(c)' /\ IndexMade(c)'
      BY <1>1, <1>2 DEF TableMade, IndexMade
    <2>3. WorkMade(c)'
      BY <1>1, <1>2, <2>1 DEF WorkMade, RowSession, RowPcs
    <2> QED BY <2>2, <2>3 DEF Made
  <1>6. \A f \in G : Open(f)
    BY SyncedOpen DEF Struct
  <1>7. G \in SUBSET File
    BY SyncedOpen DEF Struct
  <1>8. client[c].pc \notin {"ct_open", "ci_create"} /\ s.pc \notin {"ct_open", "ci_create", "ct_meta", "ct_init"}
    BY <1>2 DEF RowPcs, TablePcs, IndexPcs
  <1> QED BY <1>1, <1>4, <1>5, <1>6, <1>7, <1>8, NamesStruct

(* A statement that changes the schema is refused. *)
LEMMA AnswerStep ==
    ASSUME Struct, TypeOK', NEW c \in Client, client[c].pc \notin {"idle", "ct_open", "ci_create"}, Answer(c), NamesKept({})
    PROVE  Struct'
  <1>1. /\ status = "up" /\ client[Main].pc = "idle" /\ c \in Actor
    BY Working DEF Struct
  <1>2. client' = [client EXCEPT ![c] = Idle] /\ client'[c] = Idle
    BY <1>1, SessionStep, IdleSession DEF Answer, Struct
  <1>3. ~Ddl(c)'
    BY <1>2, IdleSession DEF Ddl, TablePcs, IndexPcs, SyncPcs
  <1>4. ActorInv'
    <2>1. status' = "up"
      BY <1>1 DEF NamesKept
    <2>2. Idle.pc \notin TablePcs \cup IndexPcs \cup RowPcs \cup {"close"}
      BY IdleSession DEF TablePcs, IndexPcs, RowPcs
    <2> QED BY <1>1, <1>2, <1>3, <2>1, <2>2, ActorStep, IdleSession DEF Struct
  <1>5. Made(c)'
    BY <1>2, IdleSession DEF Made, TableMade, IndexMade, WorkMade, TablePcs, IndexPcs, SyncPcs, RowPcs
  <1> QED BY <1>1, <1>2, <1>4, <1>5, NamesStruct, IdleSession

(* A step of a sync. *)
LEMMA SyncSessionStep ==
    ASSUME Struct, TypeOK', NEW a \in Actor, client[a].pc \in SyncPcs,
           NEW s \in Sessions, s.pc \in SyncPcs, s.t = client[a].t, s.i = client[a].i, s.row = client[a].row,
           client' = [client EXCEPT ![a] = s], NamesKept({})
    PROVE  Struct'
  <1>1. ActorInv'
    BY ActorSyncStep DEF Struct, NamesKept
  <1>2. client'[a] = s
    BY SessionStep DEF Struct
  <1>3. ASSUME a \in Client PROVE Made(a)'
    <2>1. s.pc \notin TablePcs \cup IndexPcs \cup RowPcs \cup {"l_line"}
      BY DEF SyncPcs, TablePcs, IndexPcs, RowPcs
    <2>2. WorkMade(a) /\ opened' = opened /\ meta' = meta
      BY <1>3 DEF Struct, WorkInv, NamesKept
    <2>3. TableMade(a)' /\ IndexMade(a)'
      BY <1>2, <2>1 DEF TableMade, IndexMade
    <2>4. WorkMade(a)'
      BY <1>2, <2>1, <2>2 DEF WorkMade, RowPcs
    <2> QED BY <2>3, <2>4 DEF Made
  <1>4. client[a].pc \notin {"ct_open", "ci_create"} /\ s.pc \notin {"ct_open", "ci_create", "ct_meta", "ct_init"}
    BY DEF SyncPcs
  <1> QED BY <1>1, <1>3, <1>4, NamesStruct

-----------------------------------------------------------------------------
(* Changes of rows. *)

LEMMA ImageTypes ==
    ASSUME TypeOK
    PROVE  /\ \A f \in File : Open(f) =>
                 /\ pool[f] \in [id : 1 .. MaxPool, img : Images(0 .. Len(log))] /\ pool[f].id \in 1 .. MaxPool
                 /\ pool[f].img \in Images(0 .. Len(log)) /\ pool[f].img.rows \subseteq Row /\ pool[f].img.lsn \in 0 .. Len(log)
           /\ \A f \in File : Complete(f) =>
                 /\ file[f] \in [id : 1 .. MaxPool, img : Images(0 .. flushed)] /\ file[f].id \in 1 .. MaxPool
                 /\ file[f].img \in Images(0 .. flushed) /\ file[f].img.rows \subseteq Row /\ file[f].img.lsn \in 0 .. flushed
           /\ \A p \in 1 .. MaxPool : dblwr[p] # NoImage =>
                 dblwr[p] \in Images(0 .. flushed) /\ dblwr[p].rows \subseteq Row /\ dblwr[p].lsn \in 0 .. flushed
  <1>1. \A f \in File : Open(f) => pool[f] \in [id : 1 .. MaxPool, img : Images(0 .. Len(log))]
    BY DEF TypeOK, Open
  <1>2. \A f \in File : Complete(f) => file[f] \in [id : 1 .. MaxPool, img : Images(0 .. flushed)]
    BY DEF TypeOK, Complete, NoFile, EmptyFile
  <1>3. \A p \in 1 .. MaxPool : dblwr[p] # NoImage => dblwr[p] \in Images(0 .. flushed)
    BY DEF TypeOK
  <1> QED BY <1>1, <1>2, <1>3 DEF Images

LEMMA LargerImages ==
    ASSUME NEW m \in Nat, NEW n \in Nat, m <= n
    PROVE  Images(0 .. m) \subseteq Images(0 .. n)
  BY DEF Images

LEMMA RowChanged ==
    ASSUME TypeOK, NEW f \in File, Open(f), NEW op \in {"ins", "del"}, NEW r \in Row, Change(f, op, r)
    PROVE  /\ log' \in Seq(Records) /\ Len(log') = Len(log) + 1
           /\ \A n \in 1 .. Len(log) : log'[n] = log[n]
           /\ log'[Len(log) + 1] = Rec(f, op, r)
           /\ pool' \in [File -> {Closed} \cup [id : 1 .. MaxPool, img : Images(0 .. Len(log'))]]
           /\ pool'[f].id = pool[f].id /\ pool'[f].img.lsn = Len(log) + 1
           /\ pool'[f].img.rows = Changed(pool[f].img, op, r)
           /\ \A g \in File : g # f => pool'[g] = pool[g]
  <1>1. log \in Seq(Records) /\ Len(log) \in Nat
    BY LenProperties DEF TypeOK
  <1>2. pool[f] \in [id : 1 .. MaxPool, img : Images(0 .. Len(log))] /\ pool[f].id \in 1 .. MaxPool
    BY ImageTypes
  <1>3. Rec(f, op, r) \in Records
    BY <1>2 DEF Rec, Records
  <1>4. log' = Append(log, Rec(f, op, r))
    BY DEF Change
  <1>5. /\ log' \in Seq(Records) /\ Len(log') = Len(log) + 1
        /\ \A n \in 1 .. Len(log) : log'[n] = log[n]
        /\ log'[Len(log) + 1] = Rec(f, op, r)
    BY <1>1, <1>3, <1>4, AppendProperties
  <1> DEFINE img == [rows |-> Changed(pool[f].img, op, r), lsn |-> Len(log) + 1]
  <1>6. pool' = [pool EXCEPT ![f] = [pool[f] EXCEPT !.img = img]]
    BY DEF Change
  <1>7. img \in Images(0 .. Len(log'))
    <2>1. Changed(pool[f].img, op, r) \subseteq Row
      BY <1>2 DEF Changed, Images
    <2>2. Len(log) + 1 \in 0 .. Len(log')
      BY <1>1, <1>5
    <2> QED BY <2>1, <2>2 DEF Images
  <1>8. [pool[f] EXCEPT !.img = img] \in [id : 1 .. MaxPool, img : Images(0 .. Len(log'))]
    <2> HIDE DEF img
    <2> QED BY <1>2, <1>7
  <1>9. Images(0 .. Len(log)) \subseteq Images(0 .. Len(log'))
    BY <1>1, <1>5, LargerImages
  <1>10. \A g \in File : pool[g] \in {Closed} \cup [id : 1 .. MaxPool, img : Images(0 .. Len(log'))]
    BY <1>9 DEF TypeOK
  <1>11. pool \in [File -> {Closed} \cup [id : 1 .. MaxPool, img : Images(0 .. Len(log))]]
    BY DEF TypeOK
  <1>12. pool' \in [File -> {Closed} \cup [id : 1 .. MaxPool, img : Images(0 .. Len(log'))]]
    <2> HIDE DEF img
    <2> QED BY <1>6, <1>8, <1>10, <1>11
  <1>13. /\ pool'[f] = [pool[f] EXCEPT !.img = img] /\ \A g \in File : g # f => pool'[g] = pool[g]
    <2> HIDE DEF img
    <2> QED BY <1>6, <1>11
  <1>14. pool'[f].id = pool[f].id /\ pool'[f].img = img
    <2> HIDE DEF img
    <2> QED BY <1>2, <1>13
  <1>15. pool'[f].img.lsn = Len(log) + 1 /\ pool'[f].img.rows = Changed(pool[f].img, op, r)
    BY <1>14
  <1> HIDE DEF img
  <1> QED BY <1>5, <1>12, <1>13, <1>14, <1>15

LEMMA RowWorkStruct ==
    ASSUME Struct, NEW c \in Client, client[c].pc \in RowPcs \cup {"l_line", "idle"},
           status = "up", client[Main].pc = "idle",
           NEW s, RowSession(s), client' = [client EXCEPT ![c] = s],
           NEW f, NEW op, NEW r, RowWork(f, op, r)
    PROVE  Struct'
  <1>1. f \in File /\ Open(f)
    BY SyncedOpen DEF Struct, RowWork
  <1>2. /\ log' \in Seq(Records) /\ Len(log') = Len(log) + 1
        /\ \A n \in 1 .. Len(log) : log'[n] = log[n]
        /\ log'[Len(log) + 1] = Rec(f, op, r)
        /\ pool' \in [File -> {Closed} \cup [id : 1 .. MaxPool, img : Images(0 .. Len(log'))]]
        /\ pool'[f].id = pool[f].id
        /\ \A g \in File : g # f => pool'[g] = pool[g]
    BY <1>1, RowChanged DEF RowWork, Struct
  <1>3. c \in Actor /\ client' \in [Actor -> Sessions]
    BY SessionStep DEF Struct, RowSession, Actor
  <1>4. Len(log) \in Nat /\ flushed \in 0 .. Len(log')
    BY <1>2, LenProperties DEF Struct, TypeOK
  <1>5. TypeOK'
    BY <1>2, <1>3, <1>4 DEF TypeOK, Struct, RowWork
  <1>6. NamesKept({f})
    <2>1. Rec(f, op, r).file = f /\ Rec(f, op, r).id = pool[f].id
      BY DEF Rec
    <2>2. \A n \in 1 .. Len(log') : n > Len(log) => n = Len(log) + 1
      BY <1>2, <1>4
    <2>3. \A n \in 1 .. Len(log') : n > Len(log) => log'[n].file \in {f} /\ log'[n].id = pool[log'[n].file].id
      BY <1>2, <2>1, <2>2
    <2>4. nextTable' >= nextTable /\ Len(log') >= Len(log)
      BY <1>2, <1>4 DEF RowWork, Struct, TypeOK
    <2> QED BY <1>1, <1>2, <2>3, <2>4 DEF NamesKept, RowWork
  <1>7. {f} \in SUBSET Synced(opened)
    BY DEF RowWork
  <1> QED BY <1>5, <1>6, <1>7, RowSessionStep

(* A session step that leaves the files, the pools and the log alone. *)
LEMMA OnlySessions ==
    ASSUME TypeOK, client' \in [Actor -> Sessions], hist' \in Remembered, nextTable' \in Nat, nextTable' >= nextTable,
           hist'.answered = hist.answered, hist.unfinished \subseteq hist'.unfinished,
           UNCHANGED <<scen, crashes, dirVars, status, opened, pool, nextPool>>, quota' \in [Client -> Nat]
    PROVE  TypeOK' /\ NamesKept({})
  <1>1. UNCHANGED <<scen, crashes, meta, file, dblwr, ckpt, log, flushed, status, opened, pool, nextPool>>
    BY DEF dirVars
  <1>2. TypeOK'
    BY <1>1 DEF TypeOK
  <1>3. NamesKept({})
    <2>1. Len(log) \in Nat
      BY LenProperties DEF TypeOK
    <2>2. \A n \in 1 .. Len(log) : ~(n > Len(log))
      BY <2>1
    <2> QED BY <1>1, <2>1, <2>2 DEF NamesKept
  <1> QED BY <1>2, <1>3

LEMMA HistTypes ==
    ASSUME TypeOK
    PROVE  /\ hist.answered \subseteq [file : File, table : Nat, pool : 1 .. MaxPool] /\ hist.unfinished \subseteq File
           /\ hist.apart \subseteq File \X Row /\ hist.late \subseteq File \X Row /\ hist.lost \subseteq File \X Row
           /\ hist.refused \subseteq Table \X Row /\ hist.stale \subseteq File
  BY DEF TypeOK, Remembered

LEMMA MarkTypes ==
    ASSUME TypeOK, ActorInv, NEW f \in File, NEW r \in Row
    PROVE  Late(f, r) \subseteq File \X Row /\ Overlaps(TableOf(f), r) \subseteq File \X Row
  <1>1. \A a \in Creating(TableOf(f)) : <<client[a].t, client[a].i>> \in File
    <2> TAKE a \in Creating(TableOf(f))
    <2>1. a \in Client /\ client[a].pc = "ci_push"
      BY DEF Creating
    <2>2. client[a].t \in Table /\ client[a].i \in Index
      BY <2>1 DEF ActorInv, IndexPcs
    <2> QED BY <2>2, IndexFiles
  <1> QED BY <1>1 DEF Late, Overlaps

(* ChangeRow, as part of a statement. *)
LEMMA ChangeRowWork ==
    ASSUME Struct, NEW f \in Synced(opened), NEW op \in {"ins", "del"}, NEW r \in Row, ChangeRow(f, op, r),
           UNCHANGED <<scen, crashes, meta, file, dblwr, ckpt, flushed, status, opened, nextTable, nextPool>>,
           quota' \in [Client -> Nat]
    PROVE  /\ RowWork(f, op, r)
           /\ hist'.apart = hist.apart \cup Overlaps(TableOf(f), r) /\ hist'.refused = hist.refused
  <1>1. f \in File
    BY SyncedOpen DEF Struct
  <1>2. Late(f, r) \subseteq File \X Row /\ Overlaps(TableOf(f), r) \subseteq File \X Row
    BY <1>1, MarkTypes DEF Struct
  <1>3. hist' = [hist EXCEPT !.late = @ \cup Late(f, r), !.apart = @ \cup Overlaps(TableOf(f), r)] /\ Change(f, op, r)
    BY DEF ChangeRow
  <1>4. hist \in Remembered
    BY DEF Struct, TypeOK
  <1>5. /\ hist'.answered = hist.answered /\ hist'.unfinished = hist.unfinished
        /\ hist'.stale = hist.stale /\ hist'.lost = hist.lost /\ hist'.late = hist.late \cup Late(f, r)
        /\ hist'.apart = hist.apart \cup Overlaps(TableOf(f), r) /\ hist'.refused = hist.refused
    BY <1>3, <1>4 DEF Remembered
  <1>6. hist' \in Remembered
    BY <1>2, <1>3, <1>4 DEF Remembered
  <1> QED BY <1>3, <1>5, <1>6 DEF RowWork

LEMMA IssueFacts ==
    ASSUME Struct, NEW c \in Client, NEW op, Issue(c, op)
    PROVE  /\ status = "up" /\ client[c].pc = "idle" /\ client[Main].pc = "idle" /\ c \in Actor
           /\ quota' \in [Client -> Nat]
  BY DEF Issue, Quiet, Struct, TypeOK, Actor

LEMMA InsertWork ==
    ASSUME Struct, NEW c \in Client, NEW t \in Table, NEW r \in Row, Insert(c, t, r)
    PROVE  /\ RowWork(Data(t), "ins", r) /\ Free(t, r)
           /\ hist'.apart = hist.apart \cup Overlaps(t, r) /\ hist'.refused = hist.refused
           /\ \E s : RowTo(c, s) /\ s.pc = "i_begin" /\ s.t = t /\ s.row = r
  <1> DEFINE s == [Idle EXCEPT !.pc = "i_begin", !.t = t, !.row = r]
  <1>1. Free(t, r) /\ ChangeRow(Data(t), "ins", r) /\ client' = [client EXCEPT ![c] = s] /\ quota' \in [Client -> Nat]
        /\ UNCHANGED <<scen, crashes, meta, file, dblwr, ckpt, flushed, status, opened, nextTable, nextPool>>
    BY IssueFacts DEF Insert
  <1>2. opened[t] # NoMeta
    BY <1>1 DEF Free
  <1>3. Data(t) \in Synced(opened) /\ TableOf(Data(t)) = t
    BY <1>2, SyncedOpen, DataFiles DEF Struct
  <1>4. s \in Sessions /\ s.pc = "i_begin" /\ s.t = t /\ s.row = r /\ s.todo = {} /\ s.did = {}
    BY IdleSession DEF Sessions, Pcs, RowPcs
  <1>5. r # 0
    BY NameAssumption
  <1> HIDE DEF s
  <1>6. RowTo(c, s)
    BY <1>1, <1>2, <1>4, <1>5 DEF RowTo, RowSession, RowPcs
  <1> QED BY <1>1, <1>3, <1>4, <1>6, ChangeRowWork

(* What a session knows that works on a row. *)
LEMMA RowWorker ==
    ASSUME Struct, NEW c \in Client, client[c].pc \in RowPcs \cup {"l_line"}
    PROVE  /\ status = "up" /\ client[Main].pc = "idle" /\ c \in Actor /\ client[c] \in Sessions
           /\ client[c].t \in Table /\ opened[client[c].t] # NoMeta /\ Data(client[c].t) \in Synced(opened)
           /\ client[c].pc \in RowPcs =>
                 /\ client[c].row \in Row /\ client[c].row # 0
                 /\ client[c].todo \cup client[c].did \subseteq {client[c].t} \X opened[client[c].t].indexes
           /\ client[c].pc = "l_line" => client[c].todo = {} /\ client[c].did = {} /\ client[c].row = 0
           /\ client[c].pc = "i_begin" => client[c].did = {}
           /\ client[c].pc = "i_entry" => client[c].todo \cap client[c].did = {}
  <1>1. /\ status = "up" /\ client[Main].pc = "idle" /\ c \in Actor /\ client[c] \in Sessions /\ client[c].t \in Table
    BY Working DEF Struct, RowPcs
  <1>2. WorkMade(c)
    BY DEF Struct, WorkInv
  <1>3. opened[client[c].t] # NoMeta
    BY <1>2 DEF WorkMade
  <1>4. client[c].row # 0 <=> client[c].pc \in RowPcs
    BY DEF Struct, ActorInv
  <1>5. client[c].row \in Row \cup {0}
    BY <1>1, SessionTypes
  <1>6. Data(client[c].t) \in Synced(opened)
    BY <1>1, <1>3, SyncedOpen DEF Struct
  <1> QED BY <1>1, <1>2, <1>3, <1>4, <1>5, <1>6 DEF WorkMade, RowPcs

LEMMA LoadLineWork ==
    ASSUME Struct, NEW c \in Client, NEW r \in Row, LoadLine(c, r), NEW t, t = client[c].t
    PROVE  /\ client[c].pc = "l_line" /\ RowWork(Data(t), "ins", r) /\ Free(t, r)
           /\ hist'.apart = hist.apart \cup Overlaps(t, r) /\ hist'.refused = hist.refused
           /\ \E s : RowTo(c, s) /\ s.pc = "i_begin" /\ s.t = t /\ s.row = r
  <1> DEFINE s == [client[c] EXCEPT !.pc = "i_begin", !.row = r, !.lines = Tail(client[c].lines)]
  <1>1. /\ client[c].pc = "l_line" /\ client[c].lines # <<>>
        /\ Free(t, r) /\ ChangeRow(Data(t), "ins", r) /\ client' = [client EXCEPT ![c] = s] /\ UNCHANGED bounds
        /\ UNCHANGED <<meta, file, dblwr, ckpt, flushed, status, opened, nextTable, nextPool>>
    BY DEF LoadLine
  <1>2. UNCHANGED <<scen, crashes>> /\ quota' \in [Client -> Nat]
    BY <1>1 DEF bounds, Struct, TypeOK
  <1>3. /\ client[c] \in Sessions /\ t \in Table /\ opened[t] # NoMeta /\ Data(t) \in Synced(opened)
        /\ client[c].todo = {} /\ client[c].did = {}
    BY <1>1, RowWorker
  <1>4. Tail(client[c].lines) \in Seq({"good", "bad"})
    BY <1>1, <1>3, SessionTypes, HeadTailProperties
  <1>5. s \in Sessions /\ s.pc = "i_begin" /\ s.t = t /\ s.row = r /\ s.todo = {} /\ s.did = {}
    BY <1>3, <1>4 DEF Sessions, Pcs, RowPcs
  <1>6. r # 0
    BY NameAssumption
  <1> HIDE DEF s
  <1>7. RowTo(c, s)
    BY <1>1, <1>3, <1>5, <1>6 DEF RowTo, RowSession, RowPcs
  <1> QED BY <1>1, <1>2, <1>3, <1>5, <1>7, ChangeRowWork, DataFiles

(* An entry is made or taken back. *)
LEMMA EntryWork ==
    ASSUME Struct, NEW c \in Client, client[c].pc \in {"i_entry", "i_undo", "d_entry"},
           NEW f \in client[c].todo, NEW op \in {"ins", "del"}, ChangeRow(f, op, client[c].row),
           UNCHANGED <<bounds, meta, file, dblwr, ckpt, flushed, status, opened, nextTable, nextPool>>
    PROVE  /\ RowWork(f, op, client[c].row) /\ TableOf(f) = client[c].t
           /\ f[2] \in opened[client[c].t].indexes /\ f = <<client[c].t, f[2]>>
           /\ hist'.apart = hist.apart \cup Overlaps(client[c].t, client[c].row) /\ hist'.refused = hist.refused
  <1>1. /\ client[c].t \in Table /\ client[c].row \in Row
        /\ client[c].todo \subseteq {client[c].t} \X opened[client[c].t].indexes
    BY RowWorker DEF RowPcs
  <1>2. f \in Synced(opened) /\ TableOf(f) = client[c].t /\ f[2] \in opened[client[c].t].indexes /\ f = <<client[c].t, f[2]>>
    BY <1>1, SyncedOpen DEF Struct, TableOf
  <1>3. UNCHANGED <<scen, crashes>> /\ quota' \in [Client -> Nat]
    BY DEF bounds, Struct, TypeOK
  <1> QED BY <1>1, <1>2, <1>3, ChangeRowWork

LEMMA InsertEntryWork ==
    ASSUME Struct, NEW c \in Client, NEW f, InsertEntry(c, f)
    PROVE  /\ client[c].pc = "i_entry" /\ f \in client[c].todo
           /\ RowWork(f, "ins", client[c].row) /\ TableOf(f) = client[c].t
           /\ f[2] \in opened[client[c].t].indexes /\ f = <<client[c].t, f[2]>>
           /\ hist'.apart = hist.apart \cup Overlaps(client[c].t, client[c].row) /\ hist'.refused = hist.refused
           /\ \E s : /\ RowTo(c, s) /\ s.pc = "i_entry" /\ s.t = client[c].t /\ s.row = client[c].row
                     /\ s.todo = client[c].todo \ {f} /\ s.did = client[c].did \cup {f}
  <1> DEFINE s == [client[c] EXCEPT !.todo = client[c].todo \ {f}, !.did = client[c].did \cup {f}]
  <1>1. /\ client[c].pc = "i_entry" /\ f \in client[c].todo /\ ChangeRow(f, "ins", client[c].row)
        /\ client' = [client EXCEPT ![c] = s]
        /\ UNCHANGED <<bounds, meta, file, dblwr, ckpt, flushed, status, opened, nextTable, nextPool>>
    BY DEF InsertEntry
  <1>2. /\ client[c] \in Sessions /\ client[c].t \in Table /\ opened[client[c].t] # NoMeta
        /\ client[c].row # 0 /\ client[c].todo \cap client[c].did = {}
        /\ client[c].todo \cup client[c].did \subseteq {client[c].t} \X opened[client[c].t].indexes
    BY <1>1, RowWorker DEF RowPcs
  <1>3. f \in File
    BY <1>1, <1>2, SessionTypes
  <1>4. /\ s \in Sessions /\ s.pc = "i_entry" /\ s.t = client[c].t /\ s.row = client[c].row
        /\ s.todo = client[c].todo \ {f} /\ s.did = client[c].did \cup {f}
    BY <1>1, <1>2, <1>3 DEF Sessions
  <1> HIDE DEF s
  <1>5. RowTo(c, s)
    BY <1>1, <1>2, <1>4 DEF RowTo, RowSession, RowPcs
  <1> QED BY <1>1, <1>4, <1>5, EntryWork

LEMMA UndoEntryWork ==
    ASSUME Struct, NEW c \in Client, NEW f,
           \/ UndoEntry(c, f)
           \/ DeleteEntry(c, f) /\ client[c].row \in pool[f].img.rows
    PROVE  /\ client[c].pc \in {"i_undo", "d_entry"} /\ f \in client[c].todo
           /\ RowWork(f, "del", client[c].row) /\ TableOf(f) = client[c].t
           /\ f[2] \in opened[client[c].t].indexes /\ f = <<client[c].t, f[2]>>
           /\ hist'.apart = hist.apart \cup Overlaps(client[c].t, client[c].row) /\ hist'.refused = hist.refused
           /\ \E s : /\ RowTo(c, s) /\ s.pc = client[c].pc /\ s.t = client[c].t /\ s.row = client[c].row
                     /\ s.todo = client[c].todo \ {f}
  <1> DEFINE s == [client[c] EXCEPT !.todo = client[c].todo \ {f}]
  <1>1. /\ client[c].pc \in {"i_undo", "d_entry"} /\ f \in client[c].todo /\ ChangeRow(f, "del", client[c].row)
        /\ client' = [client EXCEPT ![c] = s]
        /\ UNCHANGED <<bounds, meta, file, dblwr, ckpt, flushed, status, opened, nextTable, nextPool>>
    BY DEF UndoEntry, DeleteEntry
  <1>2. /\ client[c] \in Sessions /\ client[c].t \in Table /\ opened[client[c].t] # NoMeta
        /\ client[c].row # 0
        /\ client[c].todo \cup client[c].did \subseteq {client[c].t} \X opened[client[c].t].indexes
    BY <1>1, RowWorker DEF RowPcs
  <1>3. /\ s \in Sessions /\ s.pc = client[c].pc /\ s.t = client[c].t /\ s.row = client[c].row
        /\ s.todo = client[c].todo \ {f} /\ s.did = client[c].did
    BY <1>1, <1>2 DEF Sessions
  <1> HIDE DEF s
  <1>4. RowTo(c, s)
    BY <1>1, <1>2, <1>3 DEF RowTo, RowSession, RowPcs
  <1> QED BY <1>1, <1>3, <1>4, EntryWork

(* The record goes, of an INSERT taken back or of a DELETE. *)
LEMMA RecordWork ==
    ASSUME Struct, NEW c \in Client, UndoRecord(c) \/ DeleteRecord(c), NEW t, t = client[c].t, NEW r, r = client[c].row
    PROVE  /\ client[c].pc \in {"i_undo", "d_entry"} /\ client[c].todo = {} /\ t \in Table /\ r \in Row
           /\ RowWork(Data(t), "del", r) /\ RowTo(c, Idle)
           /\ hist'.refused \subseteq hist.refused \cup {<<t, r>>} /\ hist'.apart \subseteq hist.apart \cup Overlaps(t, r)
  <1>1. /\ client[c].pc \in {"i_undo", "d_entry"} /\ client[c].todo = {}
        /\ client' = [client EXCEPT ![c] = Idle]
        /\ UNCHANGED <<bounds, meta, file, dblwr, ckpt, flushed, status, opened, nextTable, nextPool>>
    BY DEF UndoRecord, DeleteRecord, Answer
  <1>2. t \in Table /\ r \in Row /\ Data(t) \in Synced(opened) /\ Data(t) \in File
    BY <1>1, RowWorker, DataFiles DEF RowPcs
  <1>3. UNCHANGED <<scen, crashes>> /\ quota' \in [Client -> Nat]
    BY <1>1 DEF bounds, Struct, TypeOK
  <1>4. RowTo(c, Idle)
    BY <1>1, IdleSession DEF RowTo, RowSession, RowPcs
  <1>5. CASE DeleteRecord(c)
    <2>1. ChangeRow(Data(t), "del", r)
      BY <1>5 DEF DeleteRecord
    <2>2. TableOf(Data(t)) = t
      BY <1>2, DataFiles
    <2> QED BY <1>1, <1>2, <1>3, <1>4, <2>1, <2>2, ChangeRowWork
  <1>6. CASE UndoRecord(c)
    <2>1. /\ Change(Data(t), "del", r)
          /\ hist' = [hist EXCEPT !.late = @ \cup Late(Data(t), r), !.refused = @ \cup {<<t, r>>}]
      BY <1>6 DEF UndoRecord
    <2>2. Late(Data(t), r) \subseteq File \X Row
      BY <1>2, MarkTypes DEF Struct
    <2>3. hist \in Remembered
      BY DEF Struct, TypeOK
    <2>4. /\ hist'.answered = hist.answered /\ hist'.unfinished = hist.unfinished
          /\ hist'.stale = hist.stale /\ hist'.lost = hist.lost /\ hist'.late = hist.late \cup Late(Data(t), r)
          /\ hist'.apart = hist.apart /\ hist'.refused = hist.refused \cup {<<t, r>>}
      BY <2>1, <2>3 DEF Remembered
    <2>5. {<<t, r>>} \subseteq Table \X Row
      BY <1>2
    <2>6. hist' \in Remembered
      BY <2>1, <2>2, <2>3, <2>5 DEF Remembered
    <2> QED BY <1>1, <1>2, <1>3, <1>4, <2>1, <2>4, <2>6 DEF RowWork
  <1> QED BY <1>5, <1>6

LEMMA RowPauseStruct ==
    ASSUME Struct, NEW c \in Client, client[c].pc \in RowPcs \cup {"l_line", "idle"},
           status = "up", client[Main].pc = "idle", NEW s, RowTo(c, s), RowPause
    PROVE  Struct'
  <1>1. client' \in [Actor -> Sessions]
    BY SessionStep DEF Struct, RowTo, RowSession, Actor
  <1>2. nextTable' \in Nat /\ nextTable' >= nextTable
    BY DEF RowPause, Struct, TypeOK
  <1>3. TypeOK' /\ NamesKept({})
    BY <1>1, <1>2, OnlySessions DEF Struct, RowPause
  <1>4. {} \in SUBSET Synced(opened)
    OBVIOUS
  <1> QED BY <1>3, <1>4, RowSessionStep DEF RowTo

LEMMA PlainPause ==
    ASSUME TypeOK, UNCHANGED <<bounds, dirVars, memVars, hist>>
    PROVE  RowPause
  BY DEF RowPause, TypeOK, bounds, memVars

LEMMA LoadPause ==
    ASSUME Struct, NEW c \in Client, NEW t \in Table, NEW lines \in Seq({"good", "bad"}), Load(c, t, lines)
    PROVE  RowPause /\ \E s : RowTo(c, s) /\ s.pc = "l_line" /\ s.t = t /\ hist' = hist
  <1> DEFINE s == [Idle EXCEPT !.pc = "l_line", !.t = t, !.lines = lines, !.load = TRUE]
  <1>1. /\ opened[t] # NoMeta /\ client' = [client EXCEPT ![c] = s] /\ quota' \in [Client -> Nat]
        /\ UNCHANGED <<scen, crashes, dirVars, memVars, hist>>
    BY IssueFacts DEF Load
  <1>2. RowPause
    BY <1>1 DEF RowPause, memVars, Struct, TypeOK
  <1>3. s \in Sessions
    BY IdleSession DEF Sessions, Pcs
  <1>4. s.pc = "l_line" /\ s.t = t /\ s.row = 0 /\ s.todo = {} /\ s.did = {}
    BY IdleSession DEF Sessions
  <1> HIDE DEF s
  <1>5. RowTo(c, s)
    BY <1>1, <1>3, <1>4 DEF RowTo, RowSession, RowPcs
  <1> QED BY <1>1, <1>2, <1>4, <1>5

LEMMA LoadEndPause ==
    ASSUME Struct, NEW c \in Client, LoadEnd(c)
    PROVE  RowPause /\ client[c].pc = "l_line" /\ RowTo(c, Idle) /\ hist' = hist
  <1>1. /\ client[c].pc = "l_line" /\ client' = [client EXCEPT ![c] = Idle]
        /\ UNCHANGED <<bounds, dirVars, memVars, hist>>
    BY DEF LoadEnd, Answer
  <1>2. RowTo(c, Idle)
    BY <1>1, IdleSession DEF RowTo, RowSession, RowPcs
  <1> QED BY <1>1, <1>2, PlainPause DEF Struct

LEMMA BeginEntriesPause ==
    ASSUME Struct, NEW c \in Client, BeginEntries(c, "i_begin", "i_entry")
    PROVE  /\ RowPause /\ client[c].pc = "i_begin" /\ hist' = hist
           /\ \E s : /\ RowTo(c, s) /\ s.pc = "i_entry" /\ s.t = client[c].t /\ s.row = client[c].row
                     /\ s.todo = {client[c].t} \X opened[client[c].t].indexes /\ s.did = {}
  <1> DEFINE s == [client[c] EXCEPT !.pc = "i_entry", !.todo = {client[c].t} \X opened[client[c].t].indexes]
  <1>1. /\ client[c].pc = "i_begin" /\ client' = [client EXCEPT ![c] = s]
        /\ UNCHANGED <<bounds, dirVars, memVars, hist>>
    BY DEF BeginEntries
  <1>2. /\ client[c] \in Sessions /\ client[c].t \in Table /\ opened[client[c].t] # NoMeta /\ client[c].did = {}
        /\ client[c].row # 0
    BY <1>1, RowWorker DEF RowPcs
  <1>3. {client[c].t} \X opened[client[c].t].indexes \subseteq File
    BY <1>2, SyncedOpen DEF Struct
  <1>4. s \in Sessions
    BY <1>2, <1>3 DEF Sessions, Pcs, RowPcs
  <1>5. /\ s.pc = "i_entry" /\ s.t = client[c].t /\ s.row = client[c].row
        /\ s.todo = {client[c].t} \X opened[client[c].t].indexes /\ s.did = {}
    BY <1>2 DEF Sessions
  <1> HIDE DEF s
  <1>6. RowTo(c, s)
    BY <1>1, <1>2, <1>4, <1>5 DEF RowTo, RowSession, RowPcs
  <1> QED BY <1>1, <1>5, <1>6, PlainPause DEF Struct

LEMMA EntryFailsPause ==
    ASSUME Struct, NEW c \in Client, EntryFails(c)
    PROVE  /\ RowPause /\ client[c].pc = "i_entry" /\ hist' = hist
           /\ \E s : /\ RowTo(c, s) /\ s.pc = "i_undo" /\ s.t = client[c].t /\ s.row = client[c].row
                     /\ s.todo = client[c].did
  <1> DEFINE s == [client[c] EXCEPT !.pc = "i_undo", !.todo = client[c].did]
  <1>1. /\ client[c].pc = "i_entry" /\ client' = [client EXCEPT ![c] = s]
        /\ UNCHANGED <<bounds, dirVars, memVars, hist>>
    BY DEF EntryFails
  <1>2. /\ client[c] \in Sessions /\ client[c].t \in Table /\ opened[client[c].t] # NoMeta
        /\ client[c].row # 0
        /\ client[c].todo \cup client[c].did \subseteq {client[c].t} \X opened[client[c].t].indexes
    BY <1>1, RowWorker DEF RowPcs
  <1>3. s \in Sessions
    BY <1>2 DEF Sessions, Pcs, RowPcs
  <1>4. /\ s.pc = "i_undo" /\ s.t = client[c].t /\ s.row = client[c].row
        /\ s.todo = client[c].did /\ s.did = client[c].did
    BY <1>2 DEF Sessions
  <1> HIDE DEF s
  <1>5. RowTo(c, s)
    BY <1>1, <1>2, <1>3, <1>4 DEF RowTo, RowSession, RowPcs
  <1> QED BY <1>1, <1>4, <1>5, PlainPause DEF Struct

LEMMA InsertEndPause ==
    ASSUME Struct, NEW c \in Client, InsertEnd(c), NEW t, t = client[c].t, NEW r, r = client[c].row
    PROVE  /\ RowPause /\ client[c].pc = "i_entry" /\ client[c].todo = {}
           /\ hist'.apart = hist.apart /\ hist'.refused = hist.refused \ {<<t, r>>}
           /\ \E s : RowTo(c, s) /\ s.row = 0 /\ s.pc \in {"idle", "l_line"}
  <1> DEFINE s == [client[c] EXCEPT !.pc = "l_line", !.row = 0, !.did = {}]
  <1>1. /\ client[c].pc = "i_entry" /\ client[c].todo = {}
        /\ client' = [client EXCEPT ![c] = s] \/ client' = [client EXCEPT ![c] = Idle]
        /\ hist' = [hist EXCEPT !.refused = @ \ {<<t, r>>}]
        /\ UNCHANGED <<bounds, dirVars, memVars>>
    BY DEF InsertEnd, Answer
  <1>2. hist \in Remembered
    BY DEF Struct, TypeOK
  <1>3. /\ hist' \in Remembered /\ hist'.answered = hist.answered /\ hist'.unfinished = hist.unfinished
        /\ hist'.stale = hist.stale /\ hist'.lost = hist.lost /\ hist'.late = hist.late /\ hist'.apart = hist.apart
        /\ hist'.refused = hist.refused \ {<<t, r>>}
    BY <1>1, <1>2 DEF Remembered
  <1>4. RowPause
    BY <1>1, <1>3 DEF RowPause, bounds, memVars, Struct, TypeOK
  <1>5. /\ client[c] \in Sessions /\ client[c].t \in Table /\ opened[client[c].t] # NoMeta
    BY <1>1, RowWorker DEF RowPcs
  <1>6. s \in Sessions
    BY <1>5 DEF Sessions, Pcs
  <1>7. s.pc = "l_line" /\ s.t = client[c].t /\ s.row = 0 /\ s.todo = {} /\ s.did = {}
    BY <1>1, <1>5 DEF Sessions
  <1> HIDE DEF s
  <1>8. CASE client' = [client EXCEPT ![c] = s]
    <2>1. RowTo(c, s)
      BY <1>5, <1>6, <1>7, <1>8 DEF RowTo, RowSession, RowPcs
    <2> QED BY <1>1, <1>3, <1>4, <1>7, <2>1
  <1>9. CASE client' = [client EXCEPT ![c] = Idle]
    <2>1. RowTo(c, Idle)
      BY <1>9, IdleSession DEF RowTo, RowSession, RowPcs
    <2> QED BY <1>1, <1>3, <1>4, <2>1, IdleSession
  <1> QED BY <1>1, <1>8, <1>9

LEMMA DeletePause ==
    ASSUME Struct, NEW c \in Client, NEW t \in Table, NEW r \in Row, Delete(c, t, r)
    PROVE  /\ RowPause /\ OnRow(t, r) = {} /\ opened[t] # NoMeta /\ r \in pool[Data(t)].img.rows
           /\ hist'.apart = hist.apart \cup Overlaps(t, r) /\ hist'.refused = hist.refused
           /\ \E s : /\ RowTo(c, s) /\ s.pc = "d_entry" /\ s.t = t /\ s.row = r
                     /\ s.todo = {t} \X opened[t].indexes
  <1> DEFINE s == [Idle EXCEPT !.pc = "d_entry", !.t = t, !.row = r, !.todo = {t} \X opened[t].indexes]
  <1>1. /\ OnRow(t, r) = {} /\ opened[t] # NoMeta /\ r \in pool[Data(t)].img.rows
        /\ client' = [client EXCEPT ![c] = s] /\ quota' \in [Client -> Nat]
        /\ hist' = [hist EXCEPT !.apart = @ \cup Overlaps(t, r)]
        /\ UNCHANGED <<scen, crashes, dirVars, memVars>>
    BY IssueFacts DEF Delete
  <1>2. hist \in Remembered
    BY DEF Struct, TypeOK
  <1>3. Overlaps(t, r) \subseteq File \X Row
    BY MarkTypes, DataFiles DEF Struct
  <1>4. /\ hist'.answered = hist.answered /\ hist'.unfinished = hist.unfinished
        /\ hist'.stale = hist.stale /\ hist'.lost = hist.lost /\ hist'.late = hist.late /\ hist'.refused = hist.refused
        /\ hist'.apart = hist.apart \cup Overlaps(t, r)
    BY <1>1, <1>2 DEF Remembered
  <1>5. hist' \in Remembered
    BY <1>1, <1>2, <1>3 DEF Remembered
  <1>6. RowPause
    BY <1>1, <1>4, <1>5 DEF RowPause, memVars
  <1>7. {t} \X opened[t].indexes \subseteq File
    BY SyncedOpen DEF Struct
  <1>8. s \in Sessions
    BY <1>7, IdleSession DEF Sessions, Pcs, RowPcs
  <1>9. s.pc = "d_entry" /\ s.t = t /\ s.row = r /\ s.todo = {t} \X opened[t].indexes /\ s.did = {}
    BY IdleSession DEF Sessions
  <1>10. r # 0
    BY NameAssumption
  <1> HIDE DEF s
  <1>11. RowTo(c, s)
    BY <1>1, <1>8, <1>9, <1>10 DEF RowTo, RowSession, RowPcs
  <1> QED BY <1>1, <1>4, <1>6, <1>9, <1>11

(* The entry is not there. *)
LEMMA DeleteEntryPause ==
    ASSUME Struct, NEW c \in Client, NEW f, DeleteEntry(c, f), client[c].row \notin pool[f].img.rows
    PROVE  /\ RowPause /\ client[c].pc = "d_entry" /\ f \in client[c].todo /\ hist' = hist
           /\ \E s : /\ RowTo(c, s) /\ s.pc = "d_entry" /\ s.t = client[c].t /\ s.row = client[c].row
                     /\ s.todo = client[c].todo \ {f}
  <1> DEFINE s == [client[c] EXCEPT !.todo = client[c].todo \ {f}]
  <1>1. /\ client[c].pc = "d_entry" /\ f \in client[c].todo /\ client' = [client EXCEPT ![c] = s]
        /\ UNCHANGED <<bounds, meta, file, dblwr, ckpt, log, flushed, status, opened, pool, nextTable, nextPool>>
        /\ UNCHANGED <<unmarked, hist>>
    BY DEF DeleteEntry
  <1>2. /\ client[c] \in Sessions /\ client[c].t \in Table /\ opened[client[c].t] # NoMeta
        /\ client[c].row # 0
        /\ client[c].todo \cup client[c].did \subseteq {client[c].t} \X opened[client[c].t].indexes
    BY <1>1, RowWorker DEF RowPcs
  <1>3. s \in Sessions
    BY <1>2 DEF Sessions
  <1>4. /\ s.pc = "d_entry" /\ s.t = client[c].t /\ s.row = client[c].row
        /\ s.todo = client[c].todo \ {f} /\ s.did = client[c].did
    BY <1>1, <1>2 DEF Sessions
  <1> HIDE DEF s
  <1>5. RowTo(c, s)
    BY <1>1, <1>2, <1>3, <1>4 DEF RowTo, RowSession, RowPcs
  <1>6. UNCHANGED <<bounds, dirVars, memVars, hist>>
    BY <1>1 DEF dirVars, memVars
  <1> QED BY <1>1, <1>4, <1>5, <1>6, PlainPause DEF Struct

(* A failure that leaves an entry or a record behind. *)
LEMMA ApartPause ==
    ASSUME Struct, NEW S \in SUBSET (File \X Row), hist' = [hist EXCEPT !.apart = @ \cup S],
           UNCHANGED <<bounds, dirVars, memVars>>
    PROVE  RowPause /\ hist'.apart = hist.apart \cup S /\ hist'.refused = hist.refused
  <1>1. hist \in Remembered
    BY DEF Struct, TypeOK
  <1>2. /\ hist' \in Remembered /\ hist'.answered = hist.answered /\ hist'.unfinished = hist.unfinished
        /\ hist'.stale = hist.stale /\ hist'.lost = hist.lost /\ hist'.late = hist.late
        /\ hist'.apart = hist.apart \cup S /\ hist'.refused = hist.refused
    BY <1>1 DEF Remembered
  <1> QED BY <1>2 DEF RowPause, bounds, memVars, Struct, TypeOK

(* The files of todo become the next ones, without S. *)
LEMMA SkipPause ==
    ASSUME Struct, NEW c \in Client, client[c].pc \in {"i_undo", "d_entry"}, NEW S, S \subseteq client[c].todo,
           client' = [client EXCEPT ![c].todo = @ \ S],
           hist' = [hist EXCEPT !.apart = @ \cup (S \X {client[c].row})],
           UNCHANGED <<bounds, dirVars, memVars>>
    PROVE  /\ RowPause /\ hist'.apart = hist.apart \cup (S \X {client[c].row}) /\ hist'.refused = hist.refused
           /\ \E s : /\ RowTo(c, s) /\ s.pc = client[c].pc /\ s.t = client[c].t /\ s.row = client[c].row
                     /\ s.todo = client[c].todo \ S
  <1> DEFINE s == [client[c] EXCEPT !.todo = client[c].todo \ S]
  <1>1. client' = [client EXCEPT ![c] = s]
    BY DEF Struct, TypeOK
  <1>2. /\ client[c] \in Sessions /\ client[c].t \in Table /\ opened[client[c].t] # NoMeta
        /\ client[c].row # 0
        /\ client[c].todo \cup client[c].did \subseteq {client[c].t} \X opened[client[c].t].indexes
    BY RowWorker DEF RowPcs
  <1>3. s \in Sessions
    BY <1>2 DEF Sessions
  <1>4. /\ s.pc = client[c].pc /\ s.t = client[c].t /\ s.row = client[c].row
        /\ s.todo = client[c].todo \ S /\ s.did = client[c].did
    BY <1>2 DEF Sessions
  <1> HIDE DEF s
  <1>5. RowTo(c, s)
    BY <1>1, <1>2, <1>3, <1>4 DEF RowTo, RowSession, RowPcs
  <1>6. S \X {client[c].row} \in SUBSET (File \X Row)
    <2>1. client[c].todo \subseteq File /\ client[c].row \in Row
      BY <1>2 DEF Sessions
    <2> QED BY <2>1
  <1>7. RowPause /\ hist'.apart = hist.apart \cup (S \X {client[c].row}) /\ hist'.refused = hist.refused
    BY <1>6, ApartPause
  <1> QED BY <1>4, <1>5, <1>7

LEMMA UndoFailsPause ==
    ASSUME Struct, NEW c \in Client, UndoFails(c)
    PROVE  /\ RowPause /\ client[c].pc = "i_undo" /\ hist'.refused = hist.refused
           /\ hist'.apart = hist.apart \cup (client[c].todo \X {client[c].row})
           /\ \E s : /\ RowTo(c, s) /\ s.pc = "i_undo" /\ s.t = client[c].t /\ s.row = client[c].row
                     /\ s.todo = {}
  <1>1. client[c].todo \ client[c].todo = {} /\ client[c].todo \subseteq client[c].todo
    OBVIOUS
  <1>2. /\ client[c].pc = "i_undo" /\ client' = [client EXCEPT ![c].todo = @ \ client[c].todo]
        /\ hist' = [hist EXCEPT !.apart = @ \cup (client[c].todo \X {client[c].row})]
        /\ UNCHANGED <<bounds, dirVars, memVars>>
    BY <1>1 DEF UndoFails
  <1>3. /\ RowPause /\ hist'.apart = hist.apart \cup (client[c].todo \X {client[c].row}) /\ hist'.refused = hist.refused
        /\ \E s : /\ RowTo(c, s) /\ s.pc = client[c].pc /\ s.t = client[c].t /\ s.row = client[c].row
                  /\ s.todo = client[c].todo \ client[c].todo
    <2>1. client[c].pc \in {"i_undo", "d_entry"}
      BY <1>2
    <2> QED BY <1>1, <1>2, <2>1, SkipPause, Zenon
  <1> QED BY <1>1, <1>2, <1>3

LEMMA DeleteEntryFailsPause ==
    ASSUME Struct, NEW c \in Client, NEW f, DeleteEntryFails(c, f)
    PROVE  /\ RowPause /\ client[c].pc = "d_entry" /\ f \in client[c].todo /\ hist'.refused = hist.refused
           /\ hist'.apart = hist.apart \cup ({f} \X {client[c].row})
           /\ \E s : /\ RowTo(c, s) /\ s.pc = "d_entry" /\ s.t = client[c].t /\ s.row = client[c].row
                     /\ s.todo = client[c].todo \ {f}
  <1>1. {<<f, client[c].row>>} = {f} \X {client[c].row}
    OBVIOUS
  <1>2. /\ client[c].pc = "d_entry" /\ f \in client[c].todo /\ client' = [client EXCEPT ![c].todo = @ \ {f}]
        /\ hist' = [hist EXCEPT !.apart = @ \cup ({f} \X {client[c].row})]
        /\ UNCHANGED <<bounds, dirVars, memVars>>
    BY <1>1 DEF DeleteEntryFails
  <1>3. {f} \subseteq client[c].todo /\ client[c].pc \in {"i_undo", "d_entry"}
    BY <1>2
  <1>4. /\ RowPause /\ hist'.apart = hist.apart \cup ({f} \X {client[c].row}) /\ hist'.refused = hist.refused
        /\ \E s : /\ RowTo(c, s) /\ s.pc = client[c].pc /\ s.t = client[c].t /\ s.row = client[c].row
                  /\ s.todo = client[c].todo \ {f}
    BY <1>2, <1>3, SkipPause, Zenon
  <1> QED BY <1>2, <1>4

(* All files of the table then differ in the row, as after a crash. *)
LEMMA RecordFailsPause ==
    ASSUME Struct, NEW c \in Client, RecordFails(c)
    PROVE  /\ RowPause /\ client[c].pc \in {"i_undo", "d_entry"} /\ RowTo(c, Idle) /\ hist'.refused = hist.refused
           /\ hist'.apart = hist.apart \cup ({f \in File : TableOf(f) = client[c].t} \X {client[c].row})
  <1>1. client[c].pc \in {"i_undo", "d_entry"} /\ Answer(c) /\ UNCHANGED <<bounds, dirVars, memVars>>
    BY DEF RecordFails
  <1>2. client[c] \in Sessions /\ client[c].row # 0
    BY <1>1, RowWorker DEF RowPcs
  <1>3. client[c].row \in Row
    BY <1>2 DEF Sessions
  <1> DEFINE S == {f \in File : TableOf(f) = client[c].t} \X {client[c].row}
  <1>4. S \in SUBSET (File \X Row)
    BY <1>3
  <1>5. hist' = [hist EXCEPT !.apart = @ \cup S]
    BY DEF RecordFails
  <1>6. RowTo(c, Idle)
    BY <1>1, IdleSession DEF Answer, RowTo, RowSession, RowPcs
  <1> HIDE DEF S
  <1>7. RowPause /\ hist'.apart = hist.apart \cup S /\ hist'.refused = hist.refused
    BY <1>1, <1>4, <1>5, ApartPause
  <1> QED BY <1>1, <1>6, <1>7 DEF S

-----------------------------------------------------------------------------
(* Pages and the log go to disk. *)

LEMMA QuietStruct ==
    ASSUME Struct, TypeOK', client' = client, status = "up", NamesKept({})
    PROVE  Struct'
  <1>1. Main \in Actor /\ Main \notin Client /\ client[Main] \in Sessions
    BY MainAssumption DEF Actor, Struct, TypeOK
  <1>2. client' = [client EXCEPT ![Main] = client[Main]]
    BY <1>1 DEF Struct, TypeOK
  <1>3. ActorInv'
    <2>1. status' = "up"
      BY DEF NamesKept
    <2> QED BY <2>1 DEF ActorInv, Ddl, Struct
  <1> QED BY <1>1, <1>2, <1>3, NamesStruct

LEMMA Flushed ==
    ASSUME TypeOK, NEW f \in File, CanFlush(f), FlushFile(f)
    PROVE  /\ pool[f].id \in 1 .. MaxPool /\ pool[f].img \in Images(0 .. flushed) /\ pool[f].img # NoImage
           /\ dblwr' \in [1 .. MaxPool -> {NoImage} \cup Images(0 .. flushed)]
           /\ dblwr'[pool[f].id] = pool[f].img
           /\ \A p \in 1 .. MaxPool : p # pool[f].id => dblwr'[p] = dblwr[p]
  <1>1. Open(f) /\ flushed >= pool[f].img.lsn
    BY DEF CanFlush
  <1>2. pool[f].id \in 1 .. MaxPool /\ pool[f].img \in Images(0 .. Len(log))
    BY <1>1, ImageTypes
  <1>3. Len(log) \in Nat /\ flushed \in Nat
    BY Typed DEF Facts, RangeFacts
  <1>4. pool[f].img \in Images(0 .. flushed) /\ pool[f].img # NoImage
    BY <1>1, <1>2, <1>3 DEF Images, NoImage
  <1>5. dblwr' = [dblwr EXCEPT ![pool[f].id] = pool[f].img]
    BY DEF FlushFile
  <1> QED BY <1>2, <1>4, <1>5 DEF TypeOK

(* The double write buffer is written out: what a page reads as is the same. *)
LEMMA WrittenOut ==
    ASSUME TypeOK, SchemaInv, file' = Written(file, {f \in File : Open(f)}), dblwr' = Emptied, flushed' = flushed
    PROVE  /\ file' \in [File -> {NoFile, EmptyFile} \cup [id : 1 .. MaxPool, img : Images(0 .. flushed)]]
           /\ dblwr' \in [1 .. MaxPool -> {NoImage} \cup Images(0 .. flushed)]
           /\ \A p \in 1 .. MaxPool : dblwr'[p] = NoImage
           /\ \A f \in File : file'[f].id = file[f].id /\ (~Open(f) => file'[f] = file[f])
           /\ \A f \in File : Open(f) => file'[f].img = Loaded(f)
  <1>1. \A p \in 1 .. MaxPool : dblwr'[p] = NoImage
    BY DEF Emptied
  <1>2. dblwr' \in [1 .. MaxPool -> {NoImage} \cup Images(0 .. flushed)]
    BY DEF Emptied
  <1>3. ASSUME NEW f \in File
        PROVE  file'[f] = IF Open(f) /\ dblwr[file[f].id] # NoImage
                          THEN [file[f] EXCEPT !.img = dblwr[file[f].id]] ELSE file[f]
    BY DEF Written
  <1>4. ASSUME NEW f \in File
        PROVE  /\ file'[f] \in {NoFile, EmptyFile} \cup [id : 1 .. MaxPool, img : Images(0 .. flushed)]
               /\ file'[f].id = file[f].id /\ (~Open(f) => file'[f] = file[f])
               /\ Open(f) => file'[f].img = Loaded(f)
    <2>1. CASE Open(f) /\ dblwr[file[f].id] # NoImage
      <3>1. Complete(f)
        BY <2>1 DEF SchemaInv
      <3>2. file[f] \in [id : 1 .. MaxPool, img : Images(0 .. flushed)] /\ file[f].id \in 1 .. MaxPool
        BY <3>1, ImageTypes
      <3>3. dblwr[file[f].id] \in Images(0 .. flushed)
        BY <2>1, <3>2, ImageTypes
      <3>4. file'[f] = [file[f] EXCEPT !.img = dblwr[file[f].id]]
        BY <2>1, <1>3
      <3> QED BY <2>1, <3>2, <3>3, <3>4 DEF Loaded
    <2>2. CASE ~(Open(f) /\ dblwr[file[f].id] # NoImage)
      BY <2>2, <1>3 DEF Loaded, TypeOK
    <2> QED BY <2>1, <2>2
  <1>5. file' = [f \in File |-> file'[f]]
    BY DEF Written
  <1> QED BY <1>1, <1>2, <1>4, <1>5

LEMMA FlushKeepsNames ==
    ASSUME Struct, NEW f \in File, CanFlush(f), FlushFile(f), client' \in [Actor -> Sessions],
           hist' \in Remembered, hist'.answered = hist.answered, hist'.unfinished = hist.unfinished,
           UNCHANGED <<bounds, meta, file, ckpt, log, flushed, status, opened, pool, nextTable, nextPool>>
    PROVE  TypeOK' /\ NamesKept({})
  <1>1. UNCHANGED <<scen, quota, crashes, meta, file, ckpt, log, flushed, status, opened, pool, nextTable, nextPool>>
    BY DEF bounds
  <1>2. /\ pool[f].id \in 1 .. MaxPool /\ dblwr' \in [1 .. MaxPool -> {NoImage} \cup Images(0 .. flushed)]
        /\ \A p \in 1 .. MaxPool : p # pool[f].id => dblwr'[p] = dblwr[p]
    BY Flushed DEF Struct
  <1>3. TypeOK'
    BY <1>1, <1>2 DEF TypeOK, Struct
  <1>4. Len(log) \in Nat /\ nextTable \in Nat
    BY LenProperties DEF Struct, TypeOK
  <1>5. \A n \in 1 .. Len(log) : ~(n > Len(log))
    BY <1>4
  <1>6. \A p \in 1 .. MaxPool : dblwr'[p] # NoImage => dblwr[p] # NoImage \/ (Open(f) /\ pool[f].id = p)
    BY <1>2 DEF CanFlush
  <1> QED BY <1>1, <1>3, <1>4, <1>5, <1>6 DEF NamesKept

LEMMA WriteKeepsNames ==
    ASSUME Struct, file' = Written(file, {f \in File : Open(f)}), dblwr' = Emptied, client' \in [Actor -> Sessions],
           UNCHANGED <<bounds, meta, ckpt, log, flushed, memVars, hist>>
    PROVE  TypeOK' /\ NamesKept({})
  <1>1. UNCHANGED <<scen, quota, crashes, meta, ckpt, log, flushed, status, opened, pool, nextTable, nextPool, hist>>
    BY DEF bounds, memVars
  <1>2. /\ file' \in [File -> {NoFile, EmptyFile} \cup [id : 1 .. MaxPool, img : Images(0 .. flushed)]]
        /\ dblwr' \in [1 .. MaxPool -> {NoImage} \cup Images(0 .. flushed)]
        /\ \A p \in 1 .. MaxPool : dblwr'[p] = NoImage
        /\ \A f \in File : file'[f].id = file[f].id /\ (~Open(f) => file'[f] = file[f])
    BY <1>1, WrittenOut DEF Struct
  <1>3. TypeOK'
    BY <1>1, <1>2 DEF TypeOK, Struct
  <1>4. Len(log) \in Nat /\ nextTable \in Nat
    BY LenProperties DEF Struct, TypeOK
  <1>5. \A n \in 1 .. Len(log) : ~(n > Len(log))
    BY <1>4
  <1> QED BY <1>1, <1>2, <1>3, <1>4, <1>5 DEF NamesKept

(* What a flush of f makes of the late changes. *)
LEMMA FlushMarks ==
    ASSUME TypeOK, NEW f \in File, hist' = [hist EXCEPT !.late = @ \ ({f} \X Row)]
    PROVE  /\ hist' \in Remembered /\ hist'.answered = hist.answered /\ hist'.unfinished = hist.unfinished
           /\ hist'.stale = hist.stale /\ hist'.lost = hist.lost /\ hist'.late = hist.late \ ({f} \X Row)
           /\ hist'.apart = hist.apart /\ hist'.refused = hist.refused
  <1>1. hist \in Remembered
    BY DEF TypeOK
  <1> QED BY <1>1 DEF Remembered

LEMMA SyncFileSession ==
    ASSUME Struct, NEW a \in Actor, NEW f \in File, SyncFile(a, f)
    PROVE  \E s \in Sessions :
              /\ client' = [client EXCEPT ![a] = s]
              /\ s.pc = "s_files" /\ s.t = client[a].t /\ s.i = client[a].i /\ s.row = client[a].row
              /\ s.todo = client[a].todo \ {f}
  <1> DEFINE s == [client[a] EXCEPT !.todo = client[a].todo \ {f}]
  <1>1. client[a] \in Sessions
    BY DEF Struct, TypeOK
  <1>2. s \in Sessions
    BY <1>1 DEF Sessions
  <1>3. client' = [client EXCEPT ![a] = s] /\ client[a].pc = "s_files"
    BY DEF SyncFile
  <1>4. /\ s.pc = "s_files" /\ s.t = client[a].t /\ s.i = client[a].i /\ s.row = client[a].row
        /\ s.todo = client[a].todo \ {f}
    BY <1>1, <1>3 DEF Sessions
  <1> QED BY <1>2, <1>3, <1>4

LEMMA SyncFileStruct ==
    ASSUME Struct, NEW a \in Actor, NEW f \in File, SyncFile(a, f)
    PROVE  Struct'
  <1>1. PICK s \in Sessions :
              /\ client' = [client EXCEPT ![a] = s]
              /\ s.pc = "s_files" /\ s.t = client[a].t /\ s.i = client[a].i /\ s.row = client[a].row
    BY SyncFileSession
  <1>2. client' \in [Actor -> Sessions]
    BY <1>1, SessionStep DEF Struct
  <1>3. TypeOK' /\ NamesKept({})
    BY <1>2, FlushKeepsNames, FlushMarks DEF SyncFile, Struct
  <1>4. client[a].pc \in SyncPcs /\ s.pc \in SyncPcs
    BY <1>1 DEF SyncFile, SyncPcs
  <1> QED BY <1>1, <1>3, <1>4, SyncSessionStep

LEMMA SyncDblwrStruct ==
    ASSUME Struct, NEW a \in Actor, SyncDblwr(a)
    PROVE  Struct'
  <1>1. PICK s \in Sessions :
              /\ client' = [client EXCEPT ![a] = s]
              /\ s.pc = "s_lsn" /\ s.t = client[a].t /\ s.i = client[a].i /\ s.row = client[a].row
    BY GotoStep DEF SyncDblwr, Struct, Pcs, SyncPcs
  <1>2. client' \in [Actor -> Sessions]
    BY <1>1, SessionStep DEF Struct
  <1>3. TypeOK' /\ NamesKept({})
    BY <1>2, WriteKeepsNames DEF SyncDblwr
  <1>4. client[a].pc \in SyncPcs /\ s.pc \in SyncPcs
    BY <1>1 DEF SyncDblwr, SyncPcs
  <1> QED BY <1>1, <1>3, <1>4, SyncSessionStep

LEMMA SyncLsnSession ==
    ASSUME Struct, NEW a \in Actor, SyncLsn(a)
    PROVE  \E s \in Sessions :
              /\ client' = [client EXCEPT ![a] = s]
              /\ s.pc = "s_wait" /\ s.t = client[a].t /\ s.i = client[a].i /\ s.row = client[a].row
              /\ s.lsn = Len(log)
  <1> DEFINE s == [client[a] EXCEPT !.pc = "s_wait", !.lsn = Len(log)]
  <1>1. client[a] \in Sessions /\ Len(log) \in Nat
    BY LenProperties DEF Struct, TypeOK
  <1>2. s \in Sessions
    BY <1>1 DEF Sessions, Pcs, SyncPcs
  <1>3. client' = [client EXCEPT ![a] = s]
    BY DEF SyncLsn, current_lsn
  <1>4. /\ s.pc = "s_wait" /\ s.t = client[a].t /\ s.i = client[a].i /\ s.row = client[a].row
        /\ s.lsn = Len(log)
    BY <1>1, <1>3 DEF Sessions
  <1> QED BY <1>2, <1>3, <1>4

LEMMA SyncLsnStruct ==
    ASSUME Struct, NEW a \in Actor, SyncLsn(a)
    PROVE  Struct'
  <1>1. PICK s \in Sessions :
              /\ client' = [client EXCEPT ![a] = s]
              /\ s.pc = "s_wait" /\ s.t = client[a].t /\ s.i = client[a].i /\ s.row = client[a].row
    BY SyncLsnSession
  <1>2. client' \in [Actor -> Sessions]
    BY <1>1, SessionStep DEF Struct
  <1>3. UNCHANGED <<bounds, dirVars, memVars, hist>>
    BY DEF SyncLsn
  <1>4. hist' \in Remembered /\ quota' \in [Client -> Nat] /\ nextTable' \in Nat /\ nextTable' >= nextTable
    BY <1>3 DEF Struct, TypeOK, bounds, memVars
  <1>5. TypeOK' /\ NamesKept({})
    BY <1>2, <1>3, <1>4, OnlySessions DEF bounds, memVars, Struct
  <1>6. client[a].pc \in SyncPcs /\ s.pc \in SyncPcs
    BY <1>1 DEF SyncLsn, SyncPcs
  <1> QED BY <1>1, <1>5, <1>6, SyncSessionStep

LEMMA FlushLogStruct ==
    ASSUME Struct, FlushLog
    PROVE  Struct'
  <1>1. UNCHANGED <<scen, quota, crashes, meta, file, dblwr, ckpt, log, status, opened, pool, nextTable, nextPool, client, hist>>
    BY DEF FlushLog, bounds, memVars
  <1>2. /\ Len(log) \in Nat /\ flushed \in Nat /\ flushed < Len(log) /\ nextTable \in Nat /\ ckpt \in 0 .. flushed
    BY LenProperties DEF FlushLog, Struct, TypeOK
  <1>3. flushed' \in Nat /\ flushed' <= Len(log) /\ flushed' >= flushed
    BY <1>2 DEF FlushLog
  <1>4. Images(0 .. flushed) \subseteq Images(0 .. flushed')
    BY <1>2, <1>3, LargerImages
  <1>5. file \in [File -> {NoFile, EmptyFile} \cup [id : 1 .. MaxPool, img : Images(0 .. flushed')]]
    BY <1>4 DEF Struct, TypeOK
  <1>6. dblwr \in [1 .. MaxPool -> {NoImage} \cup Images(0 .. flushed')]
    BY <1>4 DEF Struct, TypeOK
  <1>7. flushed' \in 0 .. Len(log) /\ ckpt \in 0 .. flushed'
    BY <1>2, <1>3
  <1>8. TypeOK'
    BY <1>1, <1>5, <1>6, <1>7 DEF TypeOK, Struct
  <1>9. \A n \in 1 .. Len(log) : ~(n > Len(log))
    BY <1>2
  <1>10. NamesKept({})
    BY <1>1, <1>2, <1>9 DEF NamesKept
  <1> QED BY <1>1, <1>8, <1>10, QuietStruct DEF FlushLog

LEMMA EvictStruct ==
    ASSUME Struct, NEW f \in File, Evict(f)
    PROVE  Struct'
  <1>1. client' = client /\ client' \in [Actor -> Sessions] /\ status = "up"
    BY DEF Evict, Struct, TypeOK
  <1>2. TypeOK' /\ NamesKept({})
    BY <1>1, FlushKeepsNames, FlushMarks DEF Evict, Struct, memVars
  <1> QED BY <1>1, <1>2, QuietStruct

LEMMA DropMarks ==
    ASSUME Struct, NEW f \in File, NEW rows \in SUBSET Row, Drop(f, rows)
    PROVE  /\ Open(f) /\ status = "up" /\ pool' \in [File -> {Closed} \cup [id : 1 .. MaxPool, img : Images(0 .. Len(log))]]
           /\ pool'[f].id = pool[f].id /\ pool'[f].img.lsn = pool[f].img.lsn
           /\ \A r \in Row \ rows : r \in pool'[f].img.rows <=> r \in pool[f].img.rows
           /\ \A g \in File : g # f => pool'[g] = pool[g]
           /\ hist' \in Remembered /\ hist'.answered = hist.answered /\ hist'.unfinished = hist.unfinished
           /\ hist'.stale = hist.stale /\ hist'.lost = hist.lost \cup ({f} \X rows) /\ hist'.late = hist.late
           /\ hist'.apart = hist.apart /\ hist'.refused = hist.refused
  <1> DEFINE new == (pool[f].img.rows \ rows) \cup (rows \cap Loaded(f).rows)
  <1>1. f \in Synced(opened) /\ pool' = [pool EXCEPT ![f].img.rows = new]
    BY DEF Drop
  <1>2. Open(f)
    BY <1>1, SyncedOpen DEF Struct
  <1>3. status = "up"
    BY <1>2 DEF Struct, ActorInv, Open
  <1>4. pool[f] \in [id : 1 .. MaxPool, img : Images(0 .. Len(log))]
    BY <1>2 DEF Open, Struct, TypeOK
  <1>5. new \in SUBSET Row
    BY <1>4 DEF Images
  <1>6. pool[f].img \in Images(0 .. Len(log)) /\ [pool[f].img EXCEPT !.rows = new] \in Images(0 .. Len(log))
    BY <1>4, <1>5 DEF Images
  <1>7. pool'[f] = [pool[f] EXCEPT !.img = [pool[f].img EXCEPT !.rows = new]]
    BY <1>1 DEF Struct, TypeOK
  <1>8. /\ pool'[f] \in [id : 1 .. MaxPool, img : Images(0 .. Len(log))]
        /\ pool'[f].id = pool[f].id /\ pool'[f].img.rows = new /\ pool'[f].img.lsn = pool[f].img.lsn
    BY <1>4, <1>6, <1>7 DEF Images
  <1>9. /\ pool' \in [File -> {Closed} \cup [id : 1 .. MaxPool, img : Images(0 .. Len(log))]]
        /\ \A g \in File : g # f => pool'[g] = pool[g]
    BY <1>1, <1>8 DEF Struct, TypeOK
  <1>10. hist \in Remembered /\ hist' = [hist EXCEPT !.lost = @ \cup ({f} \X rows)]
    BY DEF Drop, Struct, TypeOK
  <1>11. /\ hist' \in Remembered /\ hist'.answered = hist.answered /\ hist'.unfinished = hist.unfinished
         /\ hist'.stale = hist.stale /\ hist'.lost = hist.lost \cup ({f} \X rows) /\ hist'.late = hist.late
         /\ hist'.apart = hist.apart /\ hist'.refused = hist.refused
    BY <1>10 DEF Remembered
  <1>12. \A r \in Row \ rows : r \in pool'[f].img.rows <=> r \in pool[f].img.rows
    BY <1>8
  <1> HIDE DEF new
  <1> QED BY <1>2, <1>3, <1>8, <1>9, <1>11, <1>12

LEMMA DropStruct ==
    ASSUME Struct, NEW f \in File, NEW rows \in SUBSET Row, Drop(f, rows)
    PROVE  Struct'
  <1>1. /\ f \in Synced(opened) /\ client' = client
        /\ UNCHANGED <<scen, quota, crashes, meta, file, dblwr, ckpt, log, flushed, status, opened, nextTable, nextPool>>
    BY DEF Drop, bounds, dirVars
  <1>2. /\ status = "up" /\ pool' \in [File -> {Closed} \cup [id : 1 .. MaxPool, img : Images(0 .. Len(log))]]
        /\ pool'[f].id = pool[f].id /\ \A g \in File : g # f => pool'[g] = pool[g]
        /\ hist' \in Remembered /\ hist'.answered = hist.answered /\ hist'.unfinished = hist.unfinished
    BY DropMarks
  <1>3. TypeOK'
    BY <1>1, <1>2 DEF TypeOK, Struct
  <1>4. Len(log) \in Nat /\ nextTable \in Nat
    BY LenProperties DEF Struct, TypeOK
  <1>5. \A n \in 1 .. Len(log) : ~(n > Len(log))
    BY <1>4
  <1>6. NamesKept({f})
    BY <1>1, <1>2, <1>4, <1>5 DEF NamesKept
  <1>7. Main \in Actor /\ Main \notin Client /\ client[Main] \in Sessions
    BY MainAssumption DEF Actor, Struct, TypeOK
  <1>8. client' = [client EXCEPT ![Main] = client[Main]]
    BY <1>1, <1>7 DEF Struct, TypeOK
  <1>9. ActorInv'
    BY <1>1, <1>2 DEF ActorInv, Ddl, Struct
  <1>10. {f} \in SUBSET File /\ {f} \subseteq Synced(opened) /\ \A g \in {f} : Open(g)
    BY <1>1, DropMarks
  <1> QED BY <1>3, <1>6, <1>7, <1>8, <1>9, <1>10, NamesStruct

LEMMA DblwrFullStruct ==
    ASSUME Struct, DblwrFull
    PROVE  Struct'
  <1>1. client' = client /\ client' \in [Actor -> Sessions] /\ status = "up"
    BY DEF DblwrFull, Struct, TypeOK
  <1> QED BY <1>1, WriteKeepsNames, QuietStruct DEF DblwrFull

LEMMA DestroySession ==
    ASSUME Struct, Destroy
    PROVE  \E s \in Sessions :
              client' = [client EXCEPT ![Main] = s] /\ s.pc = "s_files" /\ s.todo = Synced(opened) /\ s.row = 0
  <1> DEFINE s == [Idle EXCEPT !.pc = "s_files", !.todo = Synced(opened)]
  <1>1. Synced(opened) \subseteq File
    BY SyncedOpen DEF Struct
  <1>2. s \in Sessions
    BY <1>1, IdleSession DEF Sessions, Pcs, SyncPcs
  <1>3. s.pc = "s_files" /\ s.todo = Synced(opened) /\ s.row = 0
    BY IdleSession DEF Sessions
  <1>4. client' = [client EXCEPT ![Main] = s]
    BY DEF Destroy
  <1> QED BY <1>2, <1>3, <1>4

LEMMA DestroyStruct ==
    ASSUME Struct, Destroy
    PROVE  Struct'
  <1>1. PICK s \in Sessions : client' = [client EXCEPT ![Main] = s] /\ s.pc = "s_files"
    BY DestroySession
  <1>2. Main \in Actor /\ Main \notin Client /\ status = "up" /\ \A c \in Client : client[c].pc = "idle"
    BY MainAssumption DEF Actor, Destroy
  <1>3. client' \in [Actor -> Sessions] /\ client'[Main] = s /\ \A c \in Client : client'[c] = client[c]
    BY <1>1, <1>2, SessionStep DEF Struct, Actor
  <1>4. UNCHANGED <<bounds, dirVars, memVars, hist>>
    BY DEF Destroy
  <1>5. hist' \in Remembered /\ quota' \in [Client -> Nat] /\ nextTable' \in Nat /\ nextTable' >= nextTable
    BY <1>4 DEF Struct, TypeOK, bounds, memVars
  <1>6. TypeOK' /\ NamesKept({})
    BY <1>3, <1>4, <1>5, OnlySessions DEF bounds, memVars, Struct
  <1>7. ActorInv'
    <2>1. \A b \in Actor : Ddl(b)' => b = Main
      BY <1>2, <1>3 DEF Ddl, Actor, TablePcs, IndexPcs, SyncPcs
    <2>2. status' = "up" /\ client'[Main].pc \in {"idle", "close"} \cup SyncPcs
      BY <1>1, <1>2, <1>3, <1>4 DEF memVars, SyncPcs
    <2> QED BY <1>2, <1>3, <2>1, <2>2 DEF ActorInv, Struct
  <1> QED BY <1>1, <1>2, <1>6, <1>7, NamesStruct

-----------------------------------------------------------------------------
(* A schema change begins, or is refused. *)

LEMMA CreateTableStruct ==
    ASSUME Struct, NEW c \in Client, NEW t \in Table, NEW good \in BOOLEAN, CreateTable(c, t, good), opened[t] = NoMeta
    PROVE  /\ Struct' /\ \A f \in File : pool'[f] = pool[f]
           /\ \E s \in Sessions : client' = [client EXCEPT ![c] = s] /\ s.pc = "ct_meta" /\ s.t = t /\ s.row = 0
  <1> DEFINE s == [Idle EXCEPT !.pc = "ct_meta", !.t = t, !.id = nextTable, !.ok = good]
  <1>1. /\ \A a \in Actor : ~Ddl(a)
        /\ client' = [client EXCEPT ![c] = s] /\ nextTable' = nextTable + 1
        /\ hist' = [hist EXCEPT !.unfinished = @ \cup {Data(t)}]
        /\ UNCHANGED <<scen, crashes, dirVars, status, opened, pool, nextPool>>
    BY DEF CreateTable
  <1>2. /\ status = "up" /\ client[c].pc = "idle" /\ client[Main].pc = "idle" /\ c \in Actor
        /\ quota' \in [Client -> Nat]
    BY IssueFacts DEF CreateTable
  <1>3. nextTable \in Nat /\ hist \in Remembered
    BY DEF Struct, TypeOK
  <1>4. s \in Sessions
    BY <1>3, IdleSession DEF Sessions, Pcs, TablePcs
  <1>5. s.pc = "ct_meta" /\ s.t = t /\ s.i = "" /\ s.row = 0 /\ s.id = nextTable
    BY IdleSession DEF Sessions
  <1> HIDE DEF s
  <1>6. client'[c] = s /\ client' \in [Actor -> Sessions] /\ \A b \in Actor : b # c => client'[b] = client[b]
    BY <1>1, <1>2, <1>4, SessionStep DEF Struct
  <1>7. /\ hist'.answered = hist.answered /\ hist'.unfinished = hist.unfinished \cup {Data(t)}
    BY <1>1, <1>3 DEF Remembered
  <1>8. hist' \in Remembered
    BY <1>1, <1>3, DataFiles DEF Remembered
  <1>9. TypeOK' /\ NamesKept({})
    BY <1>1, <1>2, <1>3, <1>6, <1>7, <1>8, OnlySessions DEF Struct
  <1>10. ActorInv'
    <2>1. status' = "up" /\ s.pc \notin IndexPcs /\ s.pc \notin RowPcs /\ s.pc # "close" /\ s.pc # "idle"
      BY <1>1, <1>2, <1>5 DEF IndexPcs, RowPcs
    <2> QED BY <1>1, <1>2, <1>4, <1>5, <2>1, ActorStep DEF Struct
  <1>11. Made(c)'
    BY <1>1, <1>5, <1>6, <1>7 DEF Made, TableMade, IndexMade, WorkMade, TablePcs, IndexPcs, SyncPcs, RowPcs
  <1>12. TableIdInv'
    <2>1. \A u \in Table : meta[u].id \in Int /\ meta[u].id < nextTable
      BY <1>2, Typed DEF Facts, IdFacts, Struct, TableIdInv
    <2>2. meta' = meta /\ status' = status
      BY <1>1 DEF dirVars
    <2>3. ASSUME NEW b \in Client, client'[b].pc \in {"ct_meta", "ct_init"}
          PROVE  client'[b].id < nextTable' /\ \A u \in Table : meta'[u].id # client'[b].id
      <3>1. CASE b = c
        <4>1. client'[b].id = nextTable
          BY <1>5, <1>6, <3>1
        <4> QED BY <1>1, <1>3, <2>1, <2>2, <4>1
      <3>2. CASE b # c
        <4>1. client'[b] = client[b] /\ b \in Actor
          BY <1>6, <3>2 DEF Actor
        <4>2. Ddl(b)
          BY <4>1, <2>3 DEF Ddl, TablePcs
        <4> QED BY <1>1, <4>1, <4>2
      <3> QED BY <3>1, <3>2
    <2>4. \A u, v \in Table : u # v /\ meta'[u].id \in Nat => meta'[u].id # meta'[v].id
      BY <2>2 DEF Struct, TableIdInv
    <2>5. \A u \in Table : meta'[u].id < nextTable'
      BY <1>1, <1>3, <2>1, <2>2
    <2> QED BY <2>3, <2>4, <2>5 DEF TableIdInv
  <1>13. client[c].pc \notin {"ct_open", "ci_create"} /\ s.pc \notin {"ct_open", "ci_create"}
    BY <1>2, <1>5
  <1>14. Struct'
    BY <1>1, <1>2, <1>4, <1>9, <1>10, <1>11, <1>12, <1>13, NamesStruct
  <1> QED BY <1>1, <1>4, <1>5, <1>14

LEMMA CreateIndexStruct ==
    ASSUME Struct, NEW c \in Client, NEW t \in Table, NEW i \in Index, CreateIndex(c, t, i),
           opened[t] # NoMeta, i \notin opened[t].indexes
    PROVE  /\ Struct'
           /\ \E s \in Sessions : client' = [client EXCEPT ![c] = s] /\ s.pc = "ci_file" /\ s.t = t /\ s.row = 0
  <1> DEFINE s == [Idle EXCEPT !.pc = "ci_file", !.t = t, !.i = i]
  <1>1. /\ \A a \in Actor : ~Ddl(a)
        /\ client' = [client EXCEPT ![c] = s]
        /\ hist' = [hist EXCEPT !.unfinished = @ \cup {<<t, i>>}]
        /\ UNCHANGED <<scen, crashes, dirVars, memVars>>
    BY DEF CreateIndex
  <1>2. /\ status = "up" /\ client[c].pc = "idle" /\ client[Main].pc = "idle" /\ c \in Actor
        /\ quota' \in [Client -> Nat]
    BY IssueFacts DEF CreateIndex
  <1>3. nextTable \in Nat /\ hist \in Remembered /\ <<t, i>> \in File
    BY IndexFiles DEF Struct, TypeOK
  <1>4. s \in Sessions
    BY IdleSession DEF Sessions, Pcs, IndexPcs
  <1>5. s.pc = "ci_file" /\ s.t = t /\ s.i = i /\ s.row = 0
    BY IdleSession DEF Sessions
  <1> HIDE DEF s
  <1>6. client'[c] = s /\ client' \in [Actor -> Sessions] /\ \A b \in Actor : b # c => client'[b] = client[b]
    BY <1>1, <1>2, <1>4, SessionStep DEF Struct
  <1>7. /\ hist'.answered = hist.answered /\ hist'.unfinished = hist.unfinished \cup {<<t, i>>}
    BY <1>1, <1>3 DEF Remembered
  <1>8. hist' \in Remembered
    BY <1>1, <1>3 DEF Remembered
  <1>9. nextTable' \in Nat /\ nextTable' >= nextTable
    BY <1>1, <1>3 DEF memVars
  <1>10. TypeOK' /\ NamesKept({})
    BY <1>1, <1>2, <1>6, <1>7, <1>8, <1>9, OnlySessions DEF Struct, memVars
  <1>11. ActorInv'
    <2>1. status' = "up" /\ s.pc \notin TablePcs /\ s.pc \notin RowPcs /\ s.pc # "close" /\ s.pc # "idle"
      BY <1>1, <1>2, <1>5 DEF TablePcs, RowPcs, memVars
    <2> QED BY <1>1, <1>2, <1>4, <1>5, <2>1, ActorStep DEF Struct
  <1>12. Made(c)'
    <2>1. i \notin meta[t].indexes /\ meta' = meta /\ opened' = opened
      BY <1>1 DEF Struct, SchemaInv, dirVars, memVars
    <2> QED BY <1>5, <1>6, <1>7, <2>1 DEF Made, TableMade, IndexMade, WorkMade, TablePcs, IndexPcs, SyncPcs, RowPcs
  <1>13. client[c].pc \notin {"ct_open", "ci_create"} /\ s.pc \notin {"ct_open", "ci_create", "ct_meta", "ct_init"}
    BY <1>2, <1>5
  <1>14. Struct'
    BY <1>1, <1>2, <1>4, <1>10, <1>11, <1>12, <1>13, NamesStruct
  <1> QED BY <1>1, <1>4, <1>5, <1>14

(* The name is taken, or there is no such table. *)
LEMMA RefusedStruct ==
    ASSUME Struct, NEW c \in Client, NEW op, Issue(c, op), UNCHANGED <<client, hist>>,
           UNCHANGED <<scen, crashes, dirVars, memVars>>
    PROVE  Struct'
  <1>1. status = "up" /\ quota' \in [Client -> Nat]
    BY IssueFacts
  <1>2. hist' \in Remembered /\ client' \in [Actor -> Sessions] /\ nextTable' \in Nat /\ nextTable' >= nextTable
    BY DEF Struct, TypeOK, memVars
  <1>3. TypeOK' /\ NamesKept({})
    BY <1>1, <1>2, OnlySessions DEF Struct, memVars
  <1> QED BY <1>1, <1>3, QuietStruct

(* A schema change ends half way. *)
LEMMA HalfWayStruct ==
    ASSUME Struct, NEW c \in Client, client[c].pc \notin {"idle", "ct_open", "ci_create"}, Answer(c),
           UNCHANGED <<bounds, dirVars, memVars, hist>>
    PROVE  Struct'
  <1>1. c \in Actor /\ client' \in [Actor -> Sessions]
    BY SessionStep, IdleSession DEF Answer, Struct, Actor
  <1>2. hist' \in Remembered /\ quota' \in [Client -> Nat] /\ nextTable' \in Nat /\ nextTable' >= nextTable
    BY DEF Struct, TypeOK, bounds, memVars
  <1>3. TypeOK' /\ NamesKept({})
    BY <1>1, <1>2, OnlySessions DEF Struct, bounds, memVars
  <1> QED BY <1>3, AnswerStep

-----------------------------------------------------------------------------
(* A schema change goes on. *)

LEMMA GotoSchema ==
    ASSUME TypeOK, NEW c \in Client, client[c].pc \in TablePcs \cup IndexPcs, NEW pc, Goto(c, pc),
           pc \in TablePcs \cup IndexPcs, pc \in TablePcs <=> client[c].pc \in TablePcs
    PROVE  \E s : SchemaSession(c, s) /\ s.pc = pc
  <1>1. c \in Actor /\ pc \in Pcs
    BY DEF Actor, Pcs
  <1>2. PICK s \in Sessions :
              /\ client' = [client EXCEPT ![c] = s]
              /\ s.pc = pc /\ s.t = client[c].t /\ s.i = client[c].i /\ s.row = client[c].row
              /\ s.id = client[c].id /\ s.todo = client[c].todo /\ s.did = client[c].did
    BY <1>1, GotoStep
  <1>3. pc \in IndexPcs => client[c].pc \in IndexPcs
    BY DEF TablePcs, IndexPcs
  <1> QED BY <1>2, <1>3 DEF SchemaSession

LEMMA SchemaStep ==
    ASSUME Struct, NEW c \in Client, NEW s, SchemaSession(c, s), status' = status,
           \A t \in Table : opened[t] # NoMeta => opened'[t] # NoMeta /\ opened[t].indexes \subseteq opened'[t].indexes
    PROVE  /\ status = "up" /\ client[Main].pc = "idle" /\ client[c].t \in Table /\ client[c].row = 0 /\ client[c] \in Sessions
           /\ client[c].pc \in TablePcs => client[c].i = "" /\ Target(c) = Data(client[c].t)
           /\ client[c].pc \in IndexPcs => client[c].i \in Index /\ Target(c) = <<client[c].t, client[c].i>>
           /\ client[c].pc \in TablePcs <=> client[c].pc \notin IndexPcs
           /\ Target(c) \in File
           /\ ActorInv' /\ client' \in [Actor -> Sessions] /\ client'[c] = s
           /\ \A b \in Actor : b # c => ~Ddl(b) /\ client'[b] = client[b]
           /\ \A b \in Client : b # c => Made(b)'
           /\ \A f : Opening(f) <=> client[c].pc \in {"ct_open", "ci_create"} /\ Target(c) = f
           /\ \A f : Opening(f)' <=> s.pc \in {"ct_open", "ci_create"} /\ Target(c) = f
  <1>1. client[c].pc # "idle" /\ Ddl(c) /\ c \in Actor
    BY DEF SchemaSession, Ddl, TablePcs, IndexPcs, Actor
  <1>2. /\ status = "up" /\ client[Main].pc = "idle" /\ client[c].t \in Table /\ client[c] \in Sessions
    BY <1>1, Working DEF Struct
  <1>3. client[c].row = 0
    BY DEF SchemaSession, Struct, ActorInv, TablePcs, IndexPcs, RowPcs
  <1>4. "" \notin Index
    BY NameAssumption
  <1>5. /\ client[c].pc \in TablePcs => client[c].i = "" /\ Target(c) = Data(client[c].t)
        /\ client[c].pc \in IndexPcs => client[c].i \in Index /\ Target(c) = <<client[c].t, client[c].i>>
        /\ client[c].pc \in TablePcs <=> client[c].pc \notin IndexPcs
    <2>1. client[c].pc \in TablePcs <=> client[c].pc \notin IndexPcs
      BY DEF SchemaSession, TablePcs, IndexPcs
    <2>2. /\ client[c].pc \in TablePcs => client[c].i = ""
          /\ client[c].pc \in IndexPcs => client[c].i \in Index
      BY DEF Struct, ActorInv
    <2> QED BY <1>4, <2>1, <2>2 DEF Target
  <1>6. Target(c) \in File
    BY <1>2, <1>5, DataFiles, IndexFiles DEF SchemaSession
  <1>7. client'[c] = s /\ client' \in [Actor -> Sessions] /\ \A b \in Actor : b # c => client'[b] = client[b]
    BY <1>1, SessionStep DEF SchemaSession, Struct
  <1>8. \A b \in Actor : b # c => ~Ddl(b)
    BY <1>1 DEF Struct, ActorInv
  <1>9. ActorInv'
    <2>1. s.pc \notin RowPcs /\ s.pc # "close" /\ s.row = 0
      BY <1>3 DEF SchemaSession, TablePcs, IndexPcs, SyncPcs, RowPcs
    <2>2. s.pc \in TablePcs => s.i = ""
      BY <1>5 DEF SchemaSession
    <2>3. s.pc \in IndexPcs => s.i \in Index
      BY <1>5 DEF SchemaSession
    <2>4. s.t \in Table /\ s \in Sessions /\ client' = [client EXCEPT ![c] = s]
      BY <1>2 DEF SchemaSession
    <2> QED BY <1>1, <1>2, <2>1, <2>2, <2>3, <2>4, ActorStep DEF Struct
  <1>10. \A b \in Client : b # c => Made(b)'
    BY <1>1, <1>7, OthersMade DEF Struct, Actor
  <1>11. \A b \in Client : b # c => client[b].pc \notin {"ct_open", "ci_create"} /\ client'[b].pc \notin {"ct_open", "ci_create"}
    BY <1>7, <1>8 DEF Ddl, TablePcs, IndexPcs, Actor
  <1>12. \A f : Opening(f) <=> client[c].pc \in {"ct_open", "ci_create"} /\ Target(c) = f
    BY <1>11 DEF Opening
  <1>13. Target(c)' = Target(c)
    <2>1. client'[c].t = client[c].t /\ client'[c].i = client[c].i
      BY <1>7 DEF SchemaSession
    <2> QED BY <2>1 DEF Target, Data
  <1>14. \A f : Opening(f)' <=> s.pc \in {"ct_open", "ci_create"} /\ Target(c) = f
    BY <1>7, <1>11, <1>13 DEF Opening
  <1> QED BY <1>2, <1>3, <1>5, <1>6, <1>7, <1>8, <1>9, <1>10, <1>12, <1>14

LEMMA SchemaStruct ==
    ASSUME Struct, TypeOK', NEW c \in Client, NEW s, SchemaSession(c, s), status' = status,
           \A t \in Table : opened[t] # NoMeta => opened'[t] # NoMeta /\ opened[t].indexes \subseteq opened'[t].indexes,
           Made(c)', SchemaInv', IdInv', UnfinishedInv', AnsweredInv', TableIdInv'
    PROVE  Struct'
  <1>1. ActorInv' /\ \A b \in Client : b # c => Made(b)'
    BY SchemaStep
  <1>2. WorkInv'
    BY <1>1 DEF WorkInv, Made
  <1> QED BY <1>1, <1>2 DEF Struct

(* Table ids, when no meta file gets a new one. *)
LEMMA TableIdsKept ==
    ASSUME Struct, NEW c \in Client, NEW s, SchemaSession(c, s), client'[c] = s,
           \A b \in Client : b # c => client'[b] = client[b],
           s.pc \in {"ct_meta", "ct_init"} => client[c].pc \in {"ct_meta", "ct_init"},
           status' = status, nextTable' = nextTable, \A t \in Table : meta'[t].id = meta[t].id
    PROVE  TableIdInv'
  <1>1. ASSUME NEW b \in Client, client'[b].pc \in {"ct_meta", "ct_init"}
        PROVE  client[b].pc \in {"ct_meta", "ct_init"} /\ client'[b].id = client[b].id
    BY <1>1 DEF SchemaSession
  <1> QED BY <1>1 DEF Struct, TableIdInv

LEMMA NoNewRecords ==
    ASSUME TypeOK, UNCHANGED <<log, dblwr>>
    PROVE  LogKept /\ DblwrKept
  <1>1. Len(log) \in Nat
    BY LenProperties DEF TypeOK
  <1>2. \A n \in 1 .. Len(log) : ~(n > Len(log))
    BY <1>1
  <1> QED BY <1>1, <1>2 DEF LogKept, DblwrKept

LEMMA CreateMetaFileStruct ==
    ASSUME Struct, NEW c \in Client, CreateMetaFile(c), meta[client[c].t] = NoMeta
    PROVE  /\ Struct' /\ \E s : SchemaSession(c, s) /\ s.pc = "ct_init"
           /\ \A f \in File : (Live(f)' => Live(f)) /\ (Complete(f) /\ f \in ToOpen' => f \in ToOpen)
  <1>1. /\ client[c].pc = "ct_meta" /\ Goto(c, "ct_init")
        /\ UNCHANGED <<scen, quota, crashes, file, dblwr, ckpt, log, flushed, status, opened, pool, nextTable, nextPool, hist>>
    BY DEF CreateMetaFile, bounds, memVars
  <1>2. PICK s : SchemaSession(c, s) /\ s.pc = "ct_init"
    BY <1>1, GotoSchema DEF Struct, TablePcs, IndexPcs
  <1>3. \A t \in Table : opened[t] # NoMeta => opened'[t] # NoMeta /\ opened[t].indexes \subseteq opened'[t].indexes
    BY <1>1
  <1>4. PICK t \in Table : t = client[c].t
    BY <1>1, <1>2, <1>3, SchemaStep
  <1>5. /\ client'[c] = s /\ client' \in [Actor -> Sessions] /\ \A b \in Client : b # c => client'[b] = client[b]
        /\ \A f : ~Opening(f) /\ ~Opening(f)'
    <2>1. /\ client'[c] = s /\ client' \in [Actor -> Sessions]
          /\ \A b \in Actor : b # c => ~Ddl(b) /\ client'[b] = client[b]
          /\ \A g : Opening(g) <=> client[c].pc \in {"ct_open", "ci_create"} /\ Target(c) = g
          /\ \A g : Opening(g)' <=> s.pc \in {"ct_open", "ci_create"} /\ Target(c) = g
      BY <1>1, <1>2, <1>3, SchemaStep
    <2>2. client[c].pc \notin {"ct_open", "ci_create"} /\ s.pc \notin {"ct_open", "ci_create"}
      BY <1>1, <1>2
    <2> QED BY <2>1, <2>2 DEF Actor
  <1>6. meta' = [meta EXCEPT ![t] = EmptyMeta] /\ meta[t] = NoMeta
    BY <1>4 DEF CreateMetaFile
  <1>7. TypeOK'
    <2>1. meta' \in [Table -> Metas]
      BY <1>6 DEF Struct, TypeOK, Metas
    <2> QED BY <1>1, <1>5, <2>1 DEF Struct, TypeOK
  <1>8. Facts /\ Facts'
    BY <1>7, Typed, PTL DEF Struct
  <1>9. opened[t] = NoMeta /\ Data(t) \in hist.unfinished /\ file[Data(t)] = NoFile /\ ~Complete(Data(t)) /\ Data(t) \in File
    <2>1. TableMade(c)
      BY DEF Struct, WorkInv
    <2>2. opened[t] = NoMeta /\ Data(t) \in hist.unfinished
      BY <1>1, <1>4, <2>1 DEF TableMade, TablePcs
    <2>3. file[Data(t)] = NoFile
      BY <1>6 DEF Struct, SchemaInv
    <2> QED BY <2>2, <2>3, <1>8, DataFiles DEF Complete, NoFile
  <1>10. /\ meta'[t] = EmptyMeta /\ \A u \in Table : u # t => meta'[u] = meta[u]
    BY <1>6 DEF Struct, TypeOK
  <1>11. \A f \in File : f \in ToOpen' <=> f \in ToOpen \/ f = Data(t)
    <2>1. \A u \in Table : meta'[u].indexes = meta[u].indexes /\ (meta'[u] # NoMeta <=> meta[u] # NoMeta \/ u = t)
      BY <1>6, <1>10 DEF EmptyMeta, NoMeta
    <2> QED BY <1>8, <2>1, FileParts DEF Facts, ToOpenFacts
  <1>12. DirectoryKept
    <2>1. \A f \in File : (Complete(f)' <=> Complete(f)) /\ (Open(f)' <=> Open(f))
      BY <1>1 DEF Complete, Open
    <2>2. \A f \in File : Live(f)' => Live(f)
      BY <1>5, <1>9, <1>11, <2>1 DEF Live
    <2>3. ckpt' >= ckpt
      BY <1>1, <1>8 DEF Facts, RangeFacts
    <2>4. \A u \in Table : meta'[u] = EmptyMeta => Data(u) \in hist'.unfinished
      BY <1>1, <1>9, <1>10 DEF Struct, UnfinishedInv
    <2> QED BY <1>1, <1>5, <1>9, <1>11, <2>1, <2>2, <2>3, <2>4 DEF DirectoryKept
  <1>13. IdInv' /\ UnfinishedInv'
    BY <1>1, <1>7, <1>12, NoNewRecords, DirectoryStep DEF Struct
  <1>14. SchemaInv'
    <2>1. \A u \in Table : meta'[u].indexes = meta[u].indexes /\ (meta'[u] = NoMeta => meta[u] = NoMeta)
      BY <1>6, <1>10 DEF EmptyMeta, NoMeta
    <2>2. \A u \in Table : opened[u] # NoMeta => meta'[u].id = meta[u].id
      BY <1>9, <1>10
    <2> QED BY <1>1, <2>1, <2>2 DEF Struct, SchemaInv, Open, Complete
  <1>15. AnsweredInv'
    <2>1. \A u \in Table : meta[u].id \in Nat => meta'[u] = meta[u]
      BY <1>6, <1>10 DEF NoMeta
    <2> QED BY <1>1, <1>7, <2>1, AnsweredStep DEF Struct
  <1>16. TableIdInv'
    <2>1. client[c].id \in Nat
      BY SessionTypes DEF Struct, TypeOK, Actor
    <2>2. \A b \in Client : client'[b].pc \in {"ct_meta", "ct_init"} =>
             client[b].pc \in {"ct_meta", "ct_init"} /\ client'[b].id = client[b].id
      BY <1>1, <1>2, <1>5 DEF SchemaSession
    <2>3. \A b \in Client : client[b].id \in Nat
      BY SessionTypes DEF Struct, TypeOK, Actor
    <2>4. meta'[t].id = -1 /\ nextTable \in Nat /\ \A u \in Table : meta[u].id \in Int
      BY <1>8, <1>10 DEF EmptyMeta, Struct, TypeOK, Facts, IdFacts
    <2>5. \A u, v \in Table : u # v /\ meta'[u].id \in Nat => meta'[u].id # meta'[v].id
      BY <1>10, <2>4 DEF Struct, TableIdInv
    <2>6. status' = "up" => \A u \in Table : meta'[u].id < nextTable'
      BY <1>1, <1>10, <2>4 DEF Struct, TableIdInv
    <2>7. \A b \in Client : client'[b].pc \in {"ct_meta", "ct_init"} =>
            client'[b].id < nextTable' /\ \A u \in Table : meta'[u].id # client'[b].id
      BY <1>1, <1>10, <2>2, <2>3, <2>4 DEF Struct, TableIdInv
    <2> QED BY <2>5, <2>6, <2>7 DEF TableIdInv
  <1>17. Made(c)'
    <2>1. client'[c].pc = "ct_init" /\ client'[c].t = t
      BY <1>2, <1>4, <1>5 DEF SchemaSession
    <2> QED BY <1>1, <1>9, <1>10, <2>1 DEF Made, TableMade, IndexMade, WorkMade, TablePcs, IndexPcs, SyncPcs, RowPcs
  <1>18. Struct'
    BY <1>1, <1>2, <1>3, <1>7, <1>13, <1>14, <1>15, <1>16, <1>17, SchemaStruct
  <1> QED BY <1>2, <1>9, <1>11, <1>12, <1>18 DEF DirectoryKept

LEMMA WriteMetaStruct ==
    ASSUME Struct, NEW c \in Client, WriteMeta(c), FieldsOk(c)
    PROVE  /\ Struct' /\ \E s : SchemaSession(c, s) /\ s.pc = "ct_data"
           /\ \A f \in File : (Live(f)' => Live(f)) /\ (f \in ToOpen' => f \in ToOpen)
  <1>1. /\ client[c].pc = "ct_init" /\ Goto(c, "ct_data")
        /\ UNCHANGED <<scen, quota, crashes, file, dblwr, ckpt, log, flushed, status, opened, pool, nextTable, nextPool, hist>>
    BY DEF WriteMeta, bounds, memVars
  <1>2. PICK s : SchemaSession(c, s) /\ s.pc = "ct_data"
    BY <1>1, GotoSchema DEF Struct, TablePcs, IndexPcs
  <1>3. \A t \in Table : opened[t] # NoMeta => opened'[t] # NoMeta /\ opened[t].indexes \subseteq opened'[t].indexes
    BY <1>1
  <1>4. PICK t \in Table : t = client[c].t
    BY <1>1, <1>2, <1>3, SchemaStep
  <1>5. /\ client'[c] = s /\ client' \in [Actor -> Sessions] /\ \A b \in Client : b # c => client'[b] = client[b] /\ ~Ddl(b)
        /\ \A f : ~Opening(f) /\ ~Opening(f)'
    <2>1. /\ client'[c] = s /\ client' \in [Actor -> Sessions]
          /\ \A b \in Actor : b # c => ~Ddl(b) /\ client'[b] = client[b]
          /\ \A g : Opening(g) <=> client[c].pc \in {"ct_open", "ci_create"} /\ Target(c) = g
          /\ \A g : Opening(g)' <=> s.pc \in {"ct_open", "ci_create"} /\ Target(c) = g
      BY <1>1, <1>2, <1>3, SchemaStep
    <2>2. client[c].pc \notin {"ct_open", "ci_create"} /\ s.pc \notin {"ct_open", "ci_create"}
      BY <1>1, <1>2
    <2> QED BY <2>1, <2>2 DEF Actor
  <1>6. PICK id \in Nat : id = client[c].id
    BY SessionTypes DEF Struct, TypeOK, Actor
  <1>7. meta' = [meta EXCEPT ![t] = [id |-> id, indexes |-> {}]]
    BY <1>4, <1>6 DEF WriteMeta, serialize
  <1>8. TypeOK'
    <2>1. meta' \in [Table -> Metas]
      BY <1>7 DEF Struct, TypeOK, Metas
    <2> QED BY <1>1, <1>5, <2>1 DEF Struct, TypeOK
  <1>9. Facts /\ Facts'
    BY <1>8, Typed, PTL DEF Struct
  <1>10. /\ opened[t] = NoMeta /\ Data(t) \in hist.unfinished /\ meta[t] = EmptyMeta /\ file[Data(t)] = NoFile
    <2>1. TableMade(c)
      BY DEF Struct, WorkInv
    <2> QED BY <1>1, <1>4, <2>1 DEF TableMade, TablePcs
  <1>11. /\ meta'[t] = [id |-> id, indexes |-> {}] /\ \A u \in Table : u # t => meta'[u] = meta[u]
    BY <1>7 DEF Struct, TypeOK
  <1>12. \A u \in Table : meta'[u].indexes = meta[u].indexes /\ (meta'[u] # NoMeta <=> meta[u] # NoMeta)
    BY <1>10, <1>11 DEF EmptyMeta, NoMeta
  <1>13. \A f \in File : f \in ToOpen' <=> f \in ToOpen
    BY <1>9, <1>12, FileParts DEF Facts, ToOpenFacts
  <1>14. \A u \in Table : meta[u].id \in Nat => u # t
    BY <1>10 DEF EmptyMeta
  <1>15. DirectoryKept
    <2>1. \A f \in File : (Complete(f)' <=> Complete(f)) /\ (Open(f)' <=> Open(f))
      BY <1>1 DEF Complete, Open
    <2>2. \A f \in File : Live(f)' => Live(f)
      BY <1>5, <1>13, <2>1 DEF Live
    <2>3. ckpt' >= ckpt
      BY <1>1, <1>9 DEF Facts, RangeFacts
    <2>4. \A u \in Table : meta'[u] = EmptyMeta => Data(u) \in hist'.unfinished
      BY <1>1, <1>10, <1>11 DEF Struct, UnfinishedInv
    <2> QED BY <1>1, <1>5, <1>13, <2>1, <2>2, <2>3, <2>4 DEF DirectoryKept
  <1>16. IdInv' /\ UnfinishedInv'
    BY <1>1, <1>8, <1>15, NoNewRecords, DirectoryStep DEF Struct
  <1>17. SchemaInv'
    <2>1. \A u \in Table : opened[u] # NoMeta => meta'[u].id = meta[u].id
      BY <1>10, <1>11
    <2> QED BY <1>1, <1>12, <2>1 DEF Struct, SchemaInv, Open, Complete
  <1>18. AnsweredInv'
    <2>1. \A u \in Table : meta[u].id \in Nat => meta'[u] = meta[u]
      BY <1>11, <1>14
    <2> QED BY <1>1, <1>8, <2>1, AnsweredStep DEF Struct
  <1>19. TableIdInv'
    <2>1. \A b \in Client : client'[b].pc \notin {"ct_meta", "ct_init"}
      BY <1>2, <1>5 DEF Ddl, TablePcs
    <2>2. id < nextTable /\ \A u \in Table : meta[u].id # id
      BY <1>1, <1>6 DEF Struct, TableIdInv
    <2>3. meta'[t].id = id /\ nextTable \in Nat /\ \A u \in Table : meta[u].id \in Int
      BY <1>9, <1>11 DEF Struct, TypeOK, Facts, IdFacts
    <2>4. \A u, v \in Table : u # v /\ meta'[u].id \in Nat => meta'[u].id # meta'[v].id
      BY <1>11, <2>2, <2>3 DEF Struct, TableIdInv
    <2>5. status' = "up" => \A u \in Table : meta'[u].id < nextTable'
      BY <1>1, <1>11, <2>2, <2>3 DEF Struct, TableIdInv
    <2> QED BY <2>1, <2>4, <2>5 DEF TableIdInv
  <1>20. Made(c)'
    <2>1. client'[c].pc = "ct_data" /\ client'[c].t = t /\ client'[c].id = id
      BY <1>2, <1>4, <1>5, <1>6 DEF SchemaSession
    <2> QED BY <1>1, <1>10, <1>11, <2>1 DEF Made, TableMade, IndexMade, WorkMade, TablePcs, IndexPcs, SyncPcs, RowPcs
  <1>21. Struct'
    BY <1>1, <1>2, <1>3, <1>8, <1>16, <1>17, <1>18, <1>19, <1>20, SchemaStruct
  <1> QED BY <1>2, <1>13, <1>15, <1>21 DEF DirectoryKept

(* The file of a table or index is created, and still empty. *)
LEMMA CreateFileStruct ==
    ASSUME Struct, NEW c \in Client, NEW f \in File, file[f] = NoFile,
           \/ CreateFile(c, "ct_data", f, "ct_header") /\ f = Data(client[c].t)
           \/ CreateFile(c, "ci_file", f, "ci_header") /\ f = <<client[c].t, client[c].i>>
    PROVE  /\ Struct' /\ \E s : SchemaSession(c, s) /\ s.pc \in {"ct_header", "ci_header"}
           /\ \A g \in File : (Live(g)' => Live(g)) /\ (Complete(g) => file'[g] = file[g]) /\ (Complete(g)' <=> Complete(g))
           /\ ToOpen' = ToOpen
  <1>1. PICK pc \in {"ct_header", "ci_header"} :
           /\ Goto(c, pc) /\ client[c].pc = (IF pc = "ct_header" THEN "ct_data" ELSE "ci_file")
           /\ f = IF pc = "ct_header" THEN Data(client[c].t) ELSE <<client[c].t, client[c].i>>
    BY DEF CreateFile
  <1>2. /\ file' = [file EXCEPT ![f] = EmptyFile]
        /\ UNCHANGED <<scen, quota, crashes, meta, dblwr, ckpt, log, flushed, status, opened, pool, nextTable, nextPool, hist>>
    BY DEF CreateFile, bounds, memVars
  <1>3. PICK s : SchemaSession(c, s) /\ s.pc = pc
    BY <1>1, GotoSchema DEF Struct, TablePcs, IndexPcs
  <1>4. \A t \in Table : opened[t] # NoMeta => opened'[t] # NoMeta /\ opened[t].indexes \subseteq opened'[t].indexes
    BY <1>2
  <1>5. PICK t \in Table : t = client[c].t
    BY <1>2, <1>3, <1>4, SchemaStep
  <1>6. /\ client'[c] = s /\ client' \in [Actor -> Sessions] /\ \A b \in Client : b # c => client'[b] = client[b]
        /\ \A g : ~Opening(g) /\ ~Opening(g)'
    <2>1. /\ client'[c] = s /\ client' \in [Actor -> Sessions]
          /\ \A b \in Actor : b # c => ~Ddl(b) /\ client'[b] = client[b]
          /\ \A g : Opening(g) <=> client[c].pc \in {"ct_open", "ci_create"} /\ Target(c) = g
          /\ \A g : Opening(g)' <=> s.pc \in {"ct_open", "ci_create"} /\ Target(c) = g
      BY <1>2, <1>3, <1>4, SchemaStep
    <2>2. client[c].pc \notin {"ct_open", "ci_create"} /\ s.pc \notin {"ct_open", "ci_create"}
      BY <1>1, <1>3
    <2> QED BY <2>1, <2>2 DEF Actor
  <1>7. TypeOK'
    <2>1. file' \in [File -> {NoFile, EmptyFile} \cup [id : 1 .. MaxPool, img : Images(0 .. flushed)]]
      BY <1>2 DEF Struct, TypeOK
    <2> QED BY <1>2, <1>6, <2>1 DEF Struct, TypeOK
  <1>8. Facts /\ Facts'
    BY <1>7, Typed, PTL DEF Struct
  <1>9. file'[f] = EmptyFile /\ \A g \in File : g # f => file'[g] = file[g]
    BY <1>2 DEF Struct, TypeOK
  <1>10. ~Complete(f) /\ ~Complete(f)'
    BY <1>8, <1>9 DEF Facts, IdFacts, Complete, EmptyFile, NoFile
  <1>11. \A g \in File : /\ Complete(g) => file'[g] = file[g]
                         /\ Complete(g)' <=> Complete(g)
                         /\ Open(g)' <=> Open(g)
    BY <1>2, <1>9, <1>10 DEF Complete, Open
  <1>12. ToOpen' = ToOpen
    BY <1>2 DEF ToOpen, Found, FilesOf
  <1>13. DirectoryKept
    <2>1. \A g \in File : Live(g)' => Live(g)
      BY <1>6, <1>11, <1>12 DEF Live
    <2>2. ckpt' >= ckpt
      BY <1>2, <1>8 DEF Facts, RangeFacts
    <2>3. \A u \in Table : meta'[u] = EmptyMeta => Data(u) \in hist'.unfinished
      BY <1>2 DEF Struct, UnfinishedInv
    <2> QED BY <1>2, <1>6, <1>11, <1>12, <2>1, <2>2, <2>3 DEF DirectoryKept
  <1>14. IdInv' /\ UnfinishedInv'
    BY <1>2, <1>7, <1>13, NoNewRecords, DirectoryStep DEF Struct
  <1>15. pc = "ct_header" => opened[t] = NoMeta /\ meta[t] = [id |-> client[c].id, indexes |-> {}] /\ Data(t) \in hist.unfinished
    <2>1. TableMade(c)
      BY DEF Struct, WorkInv
    <2> QED BY <1>1, <1>5, <2>1 DEF TableMade, TablePcs
  <1>16. SchemaInv'
    <2>1. \A u \in Table : meta[u] = NoMeta => file'[Data(u)] = NoFile
      <3> SUFFICES ASSUME NEW u \in Table, meta[u] = NoMeta PROVE file'[Data(u)] = NoFile
        OBVIOUS
      <3>1. file[Data(u)] = NoFile /\ Data(u) \in File
        BY DataFiles DEF Struct, SchemaInv
      <3>2. Data(u) # f
        <4>1. CASE pc = "ct_header"
          <5>1. client[c].id \in Nat
            BY SessionTypes DEF Struct, TypeOK, Actor
          <5>2. meta[t].id # -2
            BY <1>15, <4>1, <5>1
          <5>3. u # t
            BY <5>2 DEF NoMeta
          <5> QED BY <1>1, <1>5, <4>1, <5>3, DataFiles
        <4>2. CASE pc = "ci_header"
          <5>1. client[c].i \in Index
            BY <1>1, <4>2 DEF Struct, ActorInv, IndexPcs
          <5>2. f[2] = client[c].i
            BY <1>1, <4>2
          <5> QED BY <5>1, <5>2, DataFiles
        <4> QED BY <4>1, <4>2
      <3> QED BY <1>9, <3>1, <3>2
    <2>2. \A u \in Table : \A i \in meta[u].indexes : <<u, i>> \in File /\ Complete(<<u, i>>)'
      BY <1>8, <1>11, IndexFiles DEF Struct, SchemaInv, Facts, IdFacts
    <2>3. \A g \in File : Open(g)' => Complete(g)' /\ pool'[g].id = file'[g].id
      BY <1>2, <1>11 DEF Struct, SchemaInv
    <2> QED BY <1>2, <2>1, <2>2, <2>3 DEF Struct, SchemaInv, Open
  <1>17. AnsweredInv'
    BY <1>2, <1>7, <1>11, AnsweredStep DEF Struct
  <1>18. TableIdInv'
    BY <1>2, <1>3, <1>6, TableIdsKept
  <1>19. Made(c)'
    <2>1. client'[c].pc = pc /\ client'[c].t = t /\ client'[c].i = client[c].i /\ client'[c].id = client[c].id
      BY <1>3, <1>5, <1>6 DEF SchemaSession
    <2>2. TableMade(c)'
      BY <1>1, <1>2, <1>5, <1>9, <1>15, <2>1 DEF TableMade, TablePcs
    <2>3. IndexMade(c)'
      <3>1. IndexMade(c)
        BY DEF Struct, WorkInv
      <3> QED BY <1>1, <1>2, <1>5, <1>9, <2>1, <3>1 DEF IndexMade, IndexPcs
    <2>4. WorkMade(c)'
      BY <2>1 DEF WorkMade, RowPcs, SyncPcs
    <2> QED BY <2>2, <2>3, <2>4 DEF Made
  <1>20. Struct'
    BY <1>2, <1>3, <1>4, <1>7, <1>14, <1>16, <1>17, <1>18, <1>19, SchemaStruct
  <1> QED BY <1>3, <1>11, <1>12, <1>13, <1>20 DEF DirectoryKept

(* The header of the file, with the next id: no file that is live and no   *)
(* record that would be replayed has it.                                   *)
LEMMA WriteHeaderStruct ==
    ASSUME Struct, NEW c \in Client, NEW f \in File,
           \/ WriteHeader(c, "ct_header", f, "ct_open") /\ f = Data(client[c].t)
           \/ WriteHeader(c, "ci_header", f, "ci_create") /\ f = <<client[c].t, client[c].i>>
    PROVE  /\ Struct' /\ \E s : SchemaSession(c, s) /\ s.pc \in {"ct_open", "ci_create"}
           /\ \A g \in File : g # f => (Live(g)' => Live(g)) /\ file'[g] = file[g]
           /\ file'[f].img = NewImage /\ dblwr[file'[f].id] = NoImage /\ RecordsOf(f) = {} /\ ~Complete(f)
           /\ ToOpen' = ToOpen
  <1>1. PICK pc \in {"ct_open", "ci_create"} :
           /\ Goto(c, pc) /\ client[c].pc = (IF pc = "ct_open" THEN "ct_header" ELSE "ci_header")
           /\ f = IF pc = "ct_open" THEN Data(client[c].t) ELSE <<client[c].t, client[c].i>>
    BY DEF WriteHeader
  <1>2. /\ file' = [file EXCEPT ![f] = [id |-> nextPool, img |-> NewImage]]
        /\ nextPool <= MaxPool /\ nextPool' = nextPool + 1
        /\ UNCHANGED <<scen, quota, crashes, meta, dblwr, ckpt, log, flushed, status, opened, pool, nextTable, hist>>
    BY DEF WriteHeader, bounds
  <1>3. PICK s : SchemaSession(c, s) /\ s.pc = pc
    BY <1>1, GotoSchema DEF Struct, TablePcs, IndexPcs
  <1>4. \A t \in Table : opened[t] # NoMeta => opened'[t] # NoMeta /\ opened[t].indexes \subseteq opened'[t].indexes
    BY <1>2
  <1>5. PICK t \in Table : t = client[c].t
    BY <1>2, <1>3, <1>4, SchemaStep
  <1>6. /\ client'[c] = s /\ client' \in [Actor -> Sessions] /\ \A b \in Client : b # c => client'[b] = client[b]
        /\ \A g : ~Opening(g) /\ (Opening(g)' <=> g = f)
    <2>1. client[c].pc = "ct_header" => Target(c) = f
      BY <1>1, <1>2, <1>3, <1>4, SchemaStep DEF TablePcs
    <2>2. client[c].pc = "ci_header" => Target(c) = f
      BY <1>1, <1>2, <1>3, <1>4, SchemaStep DEF IndexPcs
    <2>3. Target(c) = f
      BY <1>1, <2>1, <2>2
    <2>4. /\ client'[c] = s /\ client' \in [Actor -> Sessions]
          /\ \A b \in Actor : b # c => client'[b] = client[b]
          /\ \A g : Opening(g) <=> client[c].pc \in {"ct_open", "ci_create"} /\ Target(c) = g
          /\ \A g : Opening(g)' <=> s.pc \in {"ct_open", "ci_create"} /\ Target(c) = g
      BY <1>2, <1>3, <1>4, SchemaStep
    <2>5. client[c].pc \notin {"ct_open", "ci_create"} /\ s.pc \in {"ct_open", "ci_create"}
      BY <1>1, <1>3
    <2> QED BY <2>3, <2>4, <2>5 DEF Actor
  <1>7. status = "up"
    BY <1>2, <1>3, <1>4, SchemaStep
  <1>8. nextPool \in 1 .. MaxPool /\ nextPool' \in 1 .. MaxPool + 1
    BY <1>2, BoundAssumption DEF Struct, TypeOK
  <1>9. TypeOK'
    <2>1. NewImage \in Images(0 .. flushed)
      <3>1. 0 \in 0 .. flushed
        BY LenProperties DEF Struct, TypeOK
      <3> QED BY <3>1 DEF Images, NewImage
    <2>2. file' \in [File -> {NoFile, EmptyFile} \cup [id : 1 .. MaxPool, img : Images(0 .. flushed)]]
      <3>1. [id |-> nextPool, img |-> NewImage] \in [id : 1 .. MaxPool, img : Images(0 .. flushed)]
        BY <1>8, <2>1
      <3>2. file \in [File -> {NoFile, EmptyFile} \cup [id : 1 .. MaxPool, img : Images(0 .. flushed)]]
        BY DEF Struct, TypeOK
      <3> QED BY <1>2, <3>1, <3>2
    <2> QED BY <1>2, <1>6, <1>8, <2>2 DEF Struct, TypeOK
  <1>10. Facts /\ Facts'
    BY <1>9, Typed, PTL DEF Struct
  <1>11. /\ file'[f].id = nextPool /\ file'[f].img = NewImage /\ \A g \in File : g # f => file'[g] = file[g]
    BY <1>2 DEF Struct, TypeOK
  <1>12. /\ f \in hist.unfinished /\ file[f] = EmptyFile
    <2>1. TableMade(c) /\ IndexMade(c)
      BY DEF Struct, WorkInv
    <2>2. CASE pc = "ct_open"
      BY <1>1, <2>1, <2>2 DEF TableMade, TablePcs
    <2>3. CASE pc = "ci_create"
      BY <1>1, <2>1, <2>3 DEF IndexMade, IndexPcs
    <2> QED BY <2>2, <2>3
  <1>13. ~Complete(f) /\ ~Open(f) /\ Complete(f)'
    <2>1. ~Complete(f)
      BY <1>12 DEF Complete, EmptyFile
    <2>2. ~Open(f)
      BY <2>1 DEF Struct, SchemaInv
    <2> QED BY <1>8, <1>11, <2>1, <2>2 DEF Complete
  <1>14. \A g \in File : /\ Open(g)' <=> Open(g)
                         /\ g # f => (Complete(g)' <=> Complete(g))
    BY <1>2, <1>11 DEF Open, Complete
  <1>15. ToOpen' = ToOpen /\ ToOpen \subseteq File
    BY <1>2, <1>10 DEF ToOpen, Found, FilesOf, Facts, ToOpenFacts
  <1>16. \A g \in File : g # f => (Live(g)' <=> Live(g))
    BY <1>6, <1>14, <1>15 DEF Live
  <1>17. \A n \in 1 .. Len(log) : log[n].file # f /\ log[n].file \in File /\ file[log[n].file].id = log[n].id
    <2>1. \A n \in 1 .. Len(log) : file[log[n].file].id = log[n].id /\ log[n].id \in 1 .. MaxPool /\ log[n].file \in File
      BY <1>10 DEF Struct, IdInv, Facts, RecordFacts
    <2> QED BY <1>13, <2>1 DEF Complete
  <1>18. /\ \A g \in File : Live(g) => file[g].id < nextPool
         /\ \A n \in Replayed : log[n].id < nextPool
         /\ \A g \in ToOpen : Complete(g) => Open(g) \/ Opening(g)
    BY <1>7 DEF Struct, IdInv
  <1>19. Replayed' = Replayed
    BY <1>2 DEF Replayed
  <1>20. \A g \in File : file[g].id \in Int
    BY <1>10 DEF Facts, IdFacts
  <1>21. IdInv'
    <2>1. \A g, h \in File : Live(g)' /\ Live(h)' /\ g # h => file'[g].id # file'[h].id
      BY <1>8, <1>11, <1>16, <1>18, <1>20 DEF Struct, IdInv
    <2>2. \A n \in 1 .. Len(log') : file'[log'[n].file].id = log'[n].id
      BY <1>2, <1>11, <1>17
    <2>3. \A g \in File, n \in Replayed' : Live(g)' /\ file'[g].id = log'[n].id => log'[n].file = g
      <3> SUFFICES ASSUME NEW g \in File, NEW n \in Replayed, Live(g)', file'[g].id = log[n].id
                   PROVE  log[n].file = g
        BY <1>2, <1>19
      <3>1. g # f
        BY <1>8, <1>11, <1>18
      <3> QED BY <1>11, <1>16, <3>1 DEF Struct, IdInv
    <2>4. \A p \in 1 .. MaxPool : dblwr'[p] # NoImage =>
            \E g \in File : file'[g].id = p /\ g \in ToOpen' \cup hist'.unfinished /\ (status' = "up" => Open(g)')
      <3> SUFFICES ASSUME NEW p \in 1 .. MaxPool, dblwr[p] # NoImage
                   PROVE  \E g \in File : file'[g].id = p /\ g \in ToOpen \cup hist.unfinished /\ Open(g)'
        BY <1>2, <1>15
      <3>1. PICK g \in File : file[g].id = p /\ g \in ToOpen \cup hist.unfinished /\ Open(g)
        BY <1>7 DEF Struct, IdInv
      <3> QED BY <1>11, <1>13, <1>14, <3>1
    <2>5. \A g \in File : Live(g)' => file'[g].id < nextPool'
      BY <1>2, <1>8, <1>11, <1>16, <1>18, <1>20
    <2>6. \A n \in Replayed' : log'[n].id < nextPool'
      <3>1. \A n \in Replayed : log[n].id \in Int /\ log[n].id < nextPool
        BY <1>10, <1>18 DEF Facts, RangeFacts, RecordFacts
      <3> QED BY <1>2, <1>8, <1>19, <3>1
    <2>7. \A g \in ToOpen' : Complete(g)' => Open(g)' \/ Opening(g)'
      BY <1>6, <1>14, <1>15, <1>18
    <2> QED BY <2>1, <2>2, <2>3, <2>4, <2>5, <2>6, <2>7 DEF IdInv
  <1>22. UnfinishedInv'
    <2>1. \A g \in ToOpen' : Complete(g)' \/ g \in hist'.unfinished
      BY <1>2, <1>12, <1>14, <1>15 DEF Struct, UnfinishedInv
    <2>2. \A g \in File : Live(g)' => g \in ToOpen' \/ g \in hist'.unfinished
      BY <1>2, <1>12, <1>15, <1>16 DEF Struct, UnfinishedInv
    <2> QED BY <1>2, <1>15, <2>1, <2>2 DEF Struct, UnfinishedInv
  <1>23. SchemaInv'
    <2>1. \A u \in Table : meta[u] = NoMeta => file'[Data(u)] = NoFile
      <3>1. EmptyFile # NoFile
        BY DEF EmptyFile, NoFile
      <3> QED BY <1>11, <1>12, <3>1, DataFiles DEF Struct, SchemaInv
    <2>2. \A u \in Table : \A i \in meta[u].indexes : <<u, i>> \in File /\ Complete(<<u, i>>)'
      BY <1>10, <1>13, <1>14, IndexFiles DEF Struct, SchemaInv, Facts, IdFacts
    <2>3. \A g \in File : Open(g)' => Complete(g)' /\ pool'[g].id = file'[g].id
      BY <1>2, <1>11, <1>13, <1>14 DEF Struct, SchemaInv
    <2> QED BY <1>2, <2>1, <2>2, <2>3 DEF Struct, SchemaInv, Open
  <1>24. AnsweredInv'
    BY <1>2, <1>9, <1>11, <1>13, AnsweredStep DEF Struct
  <1>25. TableIdInv'
    BY <1>2, <1>3, <1>6, TableIdsKept
  <1>26. RecordsOf(f) = {} /\ RecordsOf(f)' = {}
    BY <1>2, <1>17 DEF RecordsOf
  <1>27. Made(c)'
    <2>1. client'[c].pc = pc /\ client'[c].t = t /\ client'[c].i = client[c].i /\ client'[c].id = client[c].id
      BY <1>3, <1>5, <1>6 DEF SchemaSession
    <2>2. TableMade(c)'
      <3>1. TableMade(c)
        BY DEF Struct, WorkInv
      <3> QED BY <1>1, <1>2, <1>5, <1>11, <1>13, <1>26, <2>1, <3>1 DEF TableMade, TablePcs
    <2>3. IndexMade(c)'
      <3>1. IndexMade(c)
        BY DEF Struct, WorkInv
      <3>2. ~Open(f)'
        BY <1>13, <1>14
      <3> QED BY <1>1, <1>2, <1>5, <1>11, <1>13, <1>26, <2>1, <3>1, <3>2 DEF IndexMade, IndexPcs
    <2>4. WorkMade(c)'
      BY <2>1 DEF WorkMade, RowPcs, SyncPcs
    <2> QED BY <2>2, <2>3, <2>4 DEF Made
  <1>28. Struct'
    BY <1>2, <1>3, <1>4, <1>9, <1>21, <1>22, <1>23, <1>24, <1>25, <1>27, SchemaStruct
  <1>29. dblwr[file'[f].id] = NoImage
    <2> SUFFICES ASSUME dblwr[nextPool] # NoImage PROVE FALSE
      BY <1>11
    <2>1. PICK g \in File : file[g].id = nextPool /\ Open(g)
      BY <1>7, <1>8 DEF Struct, IdInv
    <2>2. Live(g)
      BY <2>1 DEF Struct, SchemaInv, Live
    <2> QED BY <1>8, <1>18, <2>1, <2>2
  <1> QED BY <1>3, <1>11, <1>13, <1>15, <1>16, <1>26, <1>28, <1>29

LEMMA OpensFileStep ==
    ASSUME Struct, TypeOK', NEW c \in Client, NEW f \in File, OpensFile(c, f), NEW s, SchemaSession(c, s),
           s.pc \notin {"ct_open", "ci_create", "ct_meta", "ct_init"},
           \A t \in Table : opened[t] # NoMeta => opened'[t] # NoMeta /\ opened[t].indexes \subseteq opened'[t].indexes
    PROVE  /\ IdInv' /\ UnfinishedInv' /\ TableIdInv' /\ AnsweredInv'
           /\ Complete(f) /\ \A g \in File : (Live(g)' => Live(g)) /\ (Open(g)' <=> Open(g) \/ g = f)
           /\ ToOpen' = ToOpen
  <1>1. /\ UNCHANGED <<meta, file, dblwr, ckpt, flushed, status, nextTable, nextPool, hist>>
        /\ Open(f)' /\ \A g \in File : g # f => pool'[g] = pool[g]
    BY DEF OpensFile
  <1>2. /\ client'[c] = s /\ \A b \in Client : b # c => client'[b] = client[b]
        /\ \A g : (Opening(g) <=> g = f) /\ ~Opening(g)'
    <2>0. status' = status
      BY <1>1
    <2>1. /\ client'[c] = s /\ \A b \in Actor : b # c => client'[b] = client[b]
          /\ \A g : Opening(g) <=> client[c].pc \in {"ct_open", "ci_create"} /\ Target(c) = g
          /\ \A g : Opening(g)' <=> s.pc \in {"ct_open", "ci_create"} /\ Target(c) = g
      BY <2>0, SchemaStep
    <2>2. client[c].pc \in {"ct_open", "ci_create"} /\ Target(c) = f
      BY DEF OpensFile
    <2> QED BY <2>1, <2>2 DEF Actor
  <1>3. Complete(f)
    <2>1. TableMade(c) /\ IndexMade(c)
      BY DEF Struct, WorkInv
    <2>2. CASE client[c].pc = "ct_open"
      <3>1. f = Data(client[c].t)
        BY <1>1, <2>2, SchemaStep DEF OpensFile, TablePcs
      <3> QED BY <2>1, <2>2, <3>1 DEF TableMade, TablePcs
    <2>3. CASE client[c].pc = "ci_create"
      <3>1. f = <<client[c].t, client[c].i>>
        BY <1>1, <2>3, SchemaStep DEF OpensFile, IndexPcs
      <3> QED BY <2>1, <2>3, <3>1 DEF IndexMade, IndexPcs
    <2> QED BY <2>2, <2>3 DEF OpensFile
  <1>4. \A g \in File : /\ Complete(g)' <=> Complete(g)
                        /\ Open(g)' <=> Open(g) \/ g = f
    BY <1>1 DEF Complete, Open
  <1>5. ToOpen' = ToOpen
    BY <1>1 DEF ToOpen, Found, FilesOf
  <1>6. \A g \in File : Live(g)' => Live(g)
    BY <1>2, <1>3, <1>4, <1>5 DEF Live
  <1>7. Facts /\ Facts'
    BY Typed, PTL DEF Struct
  <1>8. DirectoryKept
    <2>1. ckpt' >= ckpt
      BY <1>1, <1>7 DEF Facts, RangeFacts
    <2>2. \A u \in Table : meta'[u] = EmptyMeta => Data(u) \in hist'.unfinished
      BY <1>1 DEF Struct, UnfinishedInv
    <2> QED BY <1>1, <1>2, <1>4, <1>5, <1>6, <2>1, <2>2 DEF DirectoryKept
  <1>9. Live(f)
    BY <1>2, <1>3 DEF Live
  <1>10. LogKept
    BY <1>9 DEF LogKept, OpensFile
  <1>11. DblwrKept
    BY <1>1 DEF DblwrKept
  <1>12. IdInv' /\ UnfinishedInv'
    BY <1>8, <1>10, <1>11, DirectoryStep DEF Struct
  <1>13. AnsweredInv'
    BY <1>1, AnsweredStep DEF Struct
  <1>14. TableIdInv'
    BY <1>1, <1>2, TableIdsKept
  <1> QED BY <1>3, <1>4, <1>5, <1>6, <1>12, <1>13, <1>14

LEMMA CreateTableEndStruct ==
    ASSUME Struct, NEW c \in Client, CreateTableEnd(c), NEW f, f = Data(client[c].t)
    PROVE  /\ Struct' /\ OpensFile(c, f) /\ f \in File /\ client[c].pc = "ct_open"
           /\ \E s : SchemaSession(c, s) /\ s.pc = "s_files" /\ s.todo = Synced(opened')
           /\ \A t \in Table : opened'[t] = opened[t] \/ (t = client[c].t /\ opened'[t].indexes = {})
           /\ pool'[f] = file[f] /\ file[f].img = NewImage /\ RecordsOf(f) = {} /\ log' = log
           /\ ToOpen' = ToOpen /\ \A g \in File : (Live(g)' => Live(g)) /\ (Open(g)' <=> Open(g) \/ g = f)
  <1>1. client[c].pc = "ct_open" /\ client[c].pc # "idle"
    BY DEF CreateTableEnd
  <1>2. client[c] \in Sessions /\ c \in Actor
    BY <1>1, Working DEF Struct
  <1>3. PICK t \in Table : t = client[c].t
    BY <1>1, Working DEF Struct
  <1>4. PICK id \in Nat : id = client[c].id
    BY <1>2, SessionTypes
  <1>5. /\ opened' = [opened EXCEPT ![t] = [id |-> id, indexes |-> {}]]
        /\ pool' = [pool EXCEPT ![f] = file[f]]
        /\ client' = [client EXCEPT ![c].pc = "s_files", ![c].todo = Synced(opened')]
        /\ UNCHANGED <<scen, quota, crashes, meta, file, dblwr, ckpt, log, flushed, status, nextTable, nextPool, hist>>
    BY <1>3, <1>4 DEF CreateTableEnd, bounds, dirVars
  <1>6. opened' \in [Table -> Metas] /\ opened'[t] = [id |-> id, indexes |-> {}] /\ \A u \in Table : u # t => opened'[u] = opened[u]
    BY <1>5 DEF Struct, TypeOK, Metas
  <1>7. PICK todo \in SUBSET File : todo = Synced(opened')
    BY <1>6, SyncedFiles
  <1> DEFINE s == [client[c] EXCEPT !.pc = "s_files", !.todo = todo]
  <1>8. s \in Sessions
    BY <1>2, <1>7 DEF Sessions, Pcs, SyncPcs
  <1>9. /\ s.pc = "s_files" /\ s.todo = todo /\ s.t = client[c].t /\ s.i = client[c].i /\ s.row = client[c].row /\ s.id = client[c].id
    BY <1>2 DEF Sessions
  <1>10. client' = [client EXCEPT ![c] = s]
    BY <1>5, <1>7
  <1> HIDE DEF s
  <1>11. SchemaSession(c, s)
    BY <1>1, <1>8, <1>9, <1>10 DEF SchemaSession, TablePcs, IndexPcs, SyncPcs
  <1>12. /\ opened[t] = NoMeta /\ meta[t] = [id |-> id, indexes |-> {}] /\ Complete(f)
         /\ file[f].img = NewImage /\ RecordsOf(f) = {}
    <2>1. TableMade(c)
      BY DEF Struct, WorkInv
    <2> QED BY <1>1, <1>3, <1>4, <2>1 DEF TableMade, TablePcs
  <1>13. f \in File /\ f = Data(t)
    BY <1>3, DataFiles
  <1>14. \A u \in Table : opened[u] # NoMeta => opened'[u] # NoMeta /\ opened[u].indexes \subseteq opened'[u].indexes
    BY <1>6, <1>12
  <1>15. Target(c) = f /\ client'[c] = s /\ client' \in [Actor -> Sessions]
    BY <1>1, <1>5, <1>11, <1>14, SchemaStep DEF TablePcs
  <1>16. /\ file[f] \in [id : 1 .. MaxPool, img : Images(0 .. flushed)] /\ file[f].id \in 1 .. MaxPool
    BY <1>12, <1>13, ImageTypes DEF Struct
  <1>17. pool'[f] = file[f] /\ \A g \in File : g # f => pool'[g] = pool[g]
    BY <1>5, <1>13 DEF Struct, TypeOK
  <1>18. TypeOK'
    <2>1. Images(0 .. flushed) \subseteq Images(0 .. Len(log))
      BY LargerImages, Typed DEF Struct, Facts, RangeFacts
    <2>2. file[f] \in [id : 1 .. MaxPool, img : Images(0 .. Len(log))]
      BY <1>16, <2>1
    <2>3. pool' \in [File -> {Closed} \cup [id : 1 .. MaxPool, img : Images(0 .. Len(log))]]
      BY <1>5, <2>2 DEF Struct, TypeOK
    <2> QED BY <1>5, <1>6, <1>15, <2>3 DEF Struct, TypeOK
  <1>19. Facts /\ Facts'
    BY <1>18, Typed, PTL DEF Struct
  <1>20. Open(f)'
    BY <1>13, <1>16, <1>17, <1>19 DEF Facts, IdFacts
  <1>21. OpensFile(c, f)
    <2>1. Len(log) \in Nat
      BY <1>19 DEF Facts, RangeFacts
    <2>2. \A n \in 1 .. Len(log') : ~(n > Len(log))
      BY <1>5, <2>1
    <2>3. Len(log') >= Len(log) /\ \A n \in 1 .. Len(log) : log'[n] = log[n]
      BY <1>5, <2>1
    <2> QED BY <1>1, <1>5, <1>15, <1>17, <1>20, <2>2, <2>3 DEF OpensFile
  <1>22. s.pc \notin {"ct_open", "ci_create", "ct_meta", "ct_init"}
    BY <1>9
  <1>23. /\ IdInv' /\ UnfinishedInv' /\ TableIdInv' /\ AnsweredInv' /\ ToOpen' = ToOpen
         /\ \A g \in File : (Live(g)' => Live(g)) /\ (Open(g)' <=> Open(g) \/ g = f)
    BY <1>11, <1>13, <1>14, <1>18, <1>21, <1>22, OpensFileStep
  <1>24. SchemaInv'
    <2>1. ASSUME NEW u \in Table
          PROVE  /\ opened'[u] # NoMeta =>
                      /\ opened'[u].id = meta[u].id /\ opened'[u].id \in Nat
                      /\ meta[u].indexes \subseteq opened'[u].indexes
                      /\ Open(Data(u))' /\ \A i \in opened'[u].indexes : Open(<<u, i>>)'
                 /\ Open(Data(u))' => opened'[u] # NoMeta
                 /\ opened'[u] = NoMeta => opened[u] = NoMeta
      <3>1. CASE u = t
        <4>1. opened'[t].id = id /\ opened'[t].indexes = {} /\ opened'[t] # NoMeta
          BY <1>6 DEF NoMeta
        <4>2. Open(Data(t))'
          BY <1>13, <1>20
        <4> QED BY <3>1, <4>1, <4>2, <1>12
      <3>2. CASE u # t
        <4>1. Data(u) # f /\ Data(u) \in File
          BY <1>13, <3>2, DataFiles
        <4>2. opened'[u] = opened[u] /\ \A i \in opened[u].indexes : <<u, i>> \in File
          BY <1>6, <1>19, <3>2, IndexFiles DEF Facts, IdFacts
        <4>3. Open(Data(u))' <=> Open(Data(u))
          BY <1>23, <4>1
        <4> QED BY <1>23, <4>1, <4>2, <4>3 DEF Struct, SchemaInv
      <3> QED BY <3>1, <3>2
    <2>2. \A g \in File : Open(g)' => Complete(g)' /\ pool'[g].id = file'[g].id
      BY <1>5, <1>12, <1>17, <1>23 DEF Struct, SchemaInv, Complete
    <2>3. \A u \in Table : \A i \in meta'[u].indexes : Complete(<<u, i>>)'
      BY <1>5 DEF Struct, SchemaInv, Complete
    <2> QED BY <1>5, <2>1, <2>2, <2>3 DEF Struct, SchemaInv
  <1>25. Made(c)'
    <2>1. client'[c].pc = "s_files" /\ client'[c].t = t /\ client'[c].i = ""
      BY <1>1, <1>3, <1>9, <1>15 DEF Struct, ActorInv, TablePcs
    <2>2. opened'[t] # NoMeta
      BY <1>6 DEF NoMeta
    <2> QED BY <2>1, <2>2 DEF Made, TableMade, IndexMade, WorkMade, TablePcs, IndexPcs, SyncPcs, RowPcs
  <1>26. Struct'
    BY <1>5, <1>11, <1>14, <1>18, <1>23, <1>24, <1>25, SchemaStruct
  <1>27. \A u \in Table : opened'[u] = opened[u] \/ (u = client[c].t /\ opened'[u].indexes = {})
    BY <1>3, <1>6
  <1>28. SchemaSession(c, s) /\ s.pc = "s_files" /\ s.todo = Synced(opened')
    BY <1>7, <1>9, <1>11
  <1> QED BY <1>1, <1>5, <1>12, <1>13, <1>17, <1>21, <1>23, <1>26, <1>27, <1>28

(* The session of a CREATE INDEX. *)
LEMMA IndexSession ==
    ASSUME Struct, NEW c \in Client, client[c].pc \in IndexPcs
    PROVE  /\ client[c].t \in Table /\ client[c].i \in Index /\ IndexFile(c) \in File
           /\ IndexFile(c) = <<client[c].t, client[c].i>> /\ IndexFile(c) = Target(c) /\ IndexMade(c)
           /\ status = "up" /\ client[Main].pc = "idle" /\ client[c] \in Sessions /\ c \in Actor /\ Ddl(c)
           /\ client[c].pc \notin TablePcs \cup SyncPcs \cup RowPcs
  <1>1. client[c].pc # "idle" /\ Ddl(c) /\ client[c].pc \notin TablePcs \cup SyncPcs \cup RowPcs
    BY DEF IndexPcs, TablePcs, SyncPcs, RowPcs, Ddl
  <1>2. status = "up" /\ client[Main].pc = "idle" /\ client[c] \in Sessions /\ client[c].t \in Table /\ c \in Actor
    BY <1>1, Working DEF Struct
  <1>3. client[c].i \in Index /\ client[c].i # ""
    BY NameAssumption DEF Struct, ActorInv
  <1>4. IndexFile(c) = <<client[c].t, client[c].i>> /\ IndexFile(c) \in File
    BY <1>2, <1>3, IndexFiles DEF IndexFile
  <1> QED BY <1>1, <1>2, <1>3, <1>4 DEF Target, Struct, WorkInv

LEMMA CreateTreeStruct ==
    ASSUME Struct, NEW c \in Client, CreateTree(c), NEW f, f = IndexFile(c)
    PROVE  /\ Struct' /\ OpensFile(c, f) /\ f \in File /\ client[c].pc = "ci_create"
           /\ \E s : SchemaSession(c, s) /\ s.pc = "ci_sync"
           /\ opened' = opened /\ pool'[f].img.rows = {} /\ RecordsOf(f) = {} /\ file[f].img = NewImage
           /\ Len(log') = Len(log) + 1 /\ pool'[f].img.lsn = Len(log') /\ log'[Len(log')].row = 0
           /\ ToOpen' = ToOpen /\ \A g \in File : (Live(g)' => Live(g)) /\ (Open(g)' <=> Open(g) \/ g = f)
  <1>1. client[c].pc = "ci_create" /\ client[c].pc \in IndexPcs
    BY DEF CreateTree, IndexPcs
  <1>2. /\ f \in File /\ f = <<client[c].t, client[c].i>> /\ Target(c) = f /\ c \in Actor
    BY <1>1, IndexSession
  <1>3. PICK t \in Table : t = client[c].t
    BY <1>1, IndexSession
  <1>4. /\ opened[t] # NoMeta /\ f \in hist.unfinished /\ client[c].i \notin meta[t].indexes
        /\ client[c].i \notin opened[t].indexes
        /\ Complete(f) /\ file[f].img = NewImage /\ RecordsOf(f) = {} /\ ~Open(f)
    BY <1>1, <1>2, <1>3, IndexSession DEF IndexMade
  <1>5. PICK id \in 1 .. MaxPool : id = file[f].id
    BY <1>2, <1>4, ImageTypes DEF Struct
  <1> DEFINE rec == [id |-> id, file |-> f, op |-> "alloc", row |-> 0]
  <1>6. /\ log' = Append(log, rec) /\ Goto(c, "ci_sync")
        /\ pool' = [pool EXCEPT ![f] = [file[f] EXCEPT !.img.lsn = Len(log) + 1]]
        /\ UNCHANGED <<scen, quota, crashes, meta, file, dblwr, ckpt, flushed, status, opened, nextTable, nextPool, hist>>
    BY <1>5 DEF CreateTree, bounds
  <1>7. rec \in Records /\ rec.file = f /\ rec.id = id /\ rec.op = "alloc" /\ rec.row = 0
    BY <1>2, <1>5 DEF Records
  <1> HIDE DEF rec
  <1>8. /\ log' \in Seq(Records) /\ Len(log') = Len(log) + 1 /\ Len(log) \in Nat
        /\ \A n \in 1 .. Len(log) : log'[n] = log[n]
        /\ log'[Len(log) + 1] = rec
    BY <1>6, <1>7, AppendProperties, LenProperties DEF Struct, TypeOK
  <1>9. PICK page : page = [file[f] EXCEPT !.img.lsn = Len(log) + 1]
    OBVIOUS
  <1>10. /\ page \in [id : 1 .. MaxPool, img : Images(0 .. Len(log) + 1)]
         /\ page.id = id /\ page.img.rows = {} /\ page.img.lsn = Len(log) + 1
    <2>1. file[f] \in [id : 1 .. MaxPool, img : Images(0 .. flushed)]
      BY <1>2, <1>4, ImageTypes DEF Struct
    <2>2. Len(log) + 1 \in 0 .. Len(log) + 1
      BY <1>8
    <2>3. file[f].img \in Images(0 .. flushed) /\ file[f].img.rows = {}
      BY <1>4, <2>1 DEF NewImage
    <2>4. PICK img : img = [file[f].img EXCEPT !.lsn = Len(log) + 1]
      OBVIOUS
    <2>5. img \in Images(0 .. Len(log) + 1) /\ img.rows = {} /\ img.lsn = Len(log) + 1
      BY <2>2, <2>3, <2>4 DEF Images
    <2>6. page = [file[f] EXCEPT !.img = img]
      BY <1>9, <2>4, Zenon
    <2> QED BY <1>5, <2>1, <2>5, <2>6
  <1>11. pool'[f] = page /\ \A g \in File : g # f => pool'[g] = pool[g]
    BY <1>2, <1>6, <1>9 DEF Struct, TypeOK
  <1>12. PICK s : SchemaSession(c, s) /\ s.pc = "ci_sync"
    BY <1>1, <1>6, GotoSchema DEF Struct, TablePcs, IndexPcs
  <1>13. \A u \in Table : opened[u] # NoMeta => opened'[u] # NoMeta /\ opened[u].indexes \subseteq opened'[u].indexes
    BY <1>6
  <1>14. client'[c] = s /\ client' \in [Actor -> Sessions]
    BY <1>6, <1>12, <1>13, SchemaStep
  <1>15. TypeOK'
    <2>1. Images(0 .. Len(log)) \subseteq Images(0 .. Len(log'))
      BY <1>8, LargerImages
    <2>2. pool' \in [File -> {Closed} \cup [id : 1 .. MaxPool, img : Images(0 .. Len(log'))]]
      <3>1. pool \in [File -> {Closed} \cup [id : 1 .. MaxPool, img : Images(0 .. Len(log'))]]
        BY <2>1 DEF Struct, TypeOK
      <3> QED BY <1>6, <1>8, <1>9, <1>10, <3>1
    <2>3. flushed \in 0 .. Len(log')
      BY <1>8 DEF Struct, TypeOK
    <2> QED BY <1>6, <1>8, <1>14, <2>2, <2>3 DEF Struct, TypeOK
  <1>16. Facts /\ Facts'
    BY <1>15, Typed, PTL DEF Struct
  <1>17. Open(f)'
    BY <1>2, <1>10, <1>11, <1>16 DEF Facts, IdFacts
  <1>18. OpensFile(c, f)
    <2>1. \A n \in 1 .. Len(log') : n > Len(log) => log'[n].file = f /\ log'[n].id = file[f].id
      <3>1. \A n \in 1 .. Len(log') : n > Len(log) => n = Len(log) + 1
        BY <1>8
      <3> QED BY <1>5, <1>7, <1>8, <3>1
    <2>2. Len(log') >= Len(log)
      BY <1>8
    <2> QED BY <1>1, <1>2, <1>5, <1>6, <1>8, <1>10, <1>11, <1>17, <2>1, <2>2 DEF OpensFile
  <1>19. /\ IdInv' /\ UnfinishedInv' /\ TableIdInv' /\ AnsweredInv' /\ ToOpen' = ToOpen
         /\ \A g \in File : (Live(g)' => Live(g)) /\ (Open(g)' <=> Open(g) \/ g = f)
    BY <1>2, <1>12, <1>13, <1>15, <1>18, OpensFileStep
  <1>20. SchemaInv'
    <2>1. \A u \in Table : Data(u) # f /\ Data(u) \in File /\ (Open(Data(u))' <=> Open(Data(u)))
      <3>1. f[2] \in Index
        BY <1>1, <1>2, IndexSession
      <3> QED BY <1>19, <3>1, DataFiles
    <2>2. \A u \in Table : \A i \in opened[u].indexes : <<u, i>> \in File
      BY <1>16, IndexFiles DEF Facts, IdFacts
    <2>3. \A g \in File : Open(g)' => Complete(g)' /\ pool'[g].id = file'[g].id
      BY <1>4, <1>5, <1>6, <1>10, <1>11, <1>19 DEF Struct, SchemaInv, Complete
    <2>4. \A u \in Table : \A i \in meta'[u].indexes : Complete(<<u, i>>)'
      BY <1>6 DEF Struct, SchemaInv, Complete
    <2>5. ASSUME NEW u \in Table
          PROVE  /\ opened'[u] # NoMeta =>
                      /\ opened'[u].id = meta'[u].id /\ opened'[u].id \in Nat
                      /\ meta'[u].indexes \subseteq opened'[u].indexes
                      /\ Open(Data(u))' /\ \A i \in opened'[u].indexes : Open(<<u, i>>)'
                 /\ Open(Data(u))' => opened'[u] # NoMeta
      BY <1>6, <1>19, <2>1, <2>2 DEF Struct, SchemaInv
    <2> QED BY <1>6, <2>3, <2>4, <2>5 DEF Struct, SchemaInv
  <1>21. Made(c)'
    <2>1. client'[c].pc = "ci_sync" /\ client'[c].t = t /\ client'[c].i = client[c].i
      BY <1>3, <1>12, <1>14 DEF SchemaSession
    <2>2. \A n \in RecordsOf(f)' : n = Len(log) + 1
      BY <1>4, <1>8 DEF RecordsOf
    <2>3. Len(log) + 1 > ckpt
      BY <1>16 DEF Facts, RangeFacts
    <2>4. \A n \in RecordsOf(f)' : log'[n].op = "alloc" /\ log'[n].row = 0 /\ n > ckpt'
      BY <1>6, <1>7, <1>8, <2>2, <2>3
    <2>5. IndexMade(c)'
      BY <1>2, <1>3, <1>4, <1>6, <1>10, <1>11, <1>17, <2>1, <2>4 DEF IndexMade, IndexPcs
    <2> QED BY <2>1, <2>5 DEF Made, TableMade, WorkMade, TablePcs, SyncPcs, RowPcs
  <1>22. Struct'
    BY <1>6, <1>12, <1>13, <1>15, <1>19, <1>20, <1>21, SchemaStruct
  <1>23. pool'[f].img.rows = {} /\ pool'[f].img.lsn = Len(log')
    BY <1>8, <1>10, <1>11
  <1>24. log'[Len(log')].row = 0
    BY <1>7, <1>8
  <1> QED BY <1>1, <1>2, <1>4, <1>6, <1>8, <1>12, <1>18, <1>19, <1>22, <1>23, <1>24

LEMMA FlushTreeStruct ==
    ASSUME Struct, NEW c \in Client, FlushTree(c)
    PROVE  /\ Struct' /\ \E s : SchemaSession(c, s) /\ s.pc = "ci_scan"
           /\ client[c].pc = "ci_sync" /\ IndexFile(c) \in File
  <1>1. client[c].pc = "ci_sync" /\ client[c].pc \in IndexPcs
    BY DEF FlushTree, IndexPcs
  <1>2. PICK f \in File : f = IndexFile(c)
    BY <1>1, IndexSession
  <1>3. /\ CanFlush(f) /\ FlushFile(f) /\ Goto(c, "ci_scan")
        /\ UNCHANGED <<bounds, meta, file, ckpt, log, flushed, memVars, hist>>
    BY <1>2 DEF FlushTree
  <1>4. PICK s : SchemaSession(c, s) /\ s.pc = "ci_scan"
    BY <1>1, <1>3, GotoSchema DEF Struct, TablePcs, IndexPcs
  <1>5. UNCHANGED <<opened, status, pool>>
    BY <1>3 DEF memVars
  <1>6. /\ ActorInv' /\ client' \in [Actor -> Sessions] /\ client'[c] = s
    BY <1>4, <1>5, SchemaStep
  <1>7. TypeOK' /\ NamesKept({})
    <2>1. /\ UNCHANGED <<bounds, meta, file, ckpt, log, flushed, status, opened, pool, nextTable, nextPool>>
          /\ hist' \in Remembered /\ hist'.answered = hist.answered /\ hist'.unfinished = hist.unfinished
      BY <1>3 DEF memVars, Struct, TypeOK
    <2> QED BY <1>3, <1>6, <2>1, FlushKeepsNames
  <1>8. Made(c)'
    <2>1. client'[c].pc = "ci_scan" /\ client'[c].t = client[c].t /\ client'[c].i = client[c].i
      BY <1>4, <1>6 DEF SchemaSession
    <2>2. IndexMade(c)
      BY DEF Struct, WorkInv
    <2>3. IndexMade(c)'
      BY <1>1, <1>3, <1>5, <2>1, <2>2 DEF IndexMade, IndexPcs, Open, RecordsOf
    <2> QED BY <2>1, <2>3 DEF Made, TableMade, WorkMade, TablePcs, SyncPcs, RowPcs
  <1>9. Struct'
    <2>1. c \in Actor /\ s \in Sessions /\ client' = [client EXCEPT ![c] = s]
      BY <1>4 DEF SchemaSession, Actor
    <2>2. client[c].pc \notin {"ct_open", "ci_create"} /\ s.pc \notin {"ct_open", "ci_create", "ct_meta", "ct_init"}
      BY <1>1, <1>4
    <2> QED BY <1>6, <1>7, <1>8, <2>1, <2>2, NamesStruct
  <1> QED BY <1>1, <1>2, <1>4, <1>9

LEMMA ScanWork ==
    ASSUME Struct, NEW c \in Client, ScanRows(c), NEW f, f = IndexFile(c),
           NEW rows, rows = {r \in pool[Data(client[c].t)].img.rows : Sees(c, client[c].t, r)}
    PROVE  /\ Scanned(f, rows) /\ f \in File /\ client[c].t \in Table /\ client[c].pc = "ci_scan" /\ rows \subseteq Row
           /\ Goto(c, "ci_push") /\ log' \in Seq(Records)
           /\ pool' \in [File -> {Closed} \cup [id : 1 .. MaxPool, img : Images(0 .. Len(log'))]]
           /\ hist' \in Remembered /\ hist'.answered = hist.answered /\ hist'.unfinished = hist.unfinished
           /\ hist'.lost = hist.lost /\ hist'.late = hist.late /\ hist'.stale = hist.stale /\ hist'.refused = hist.refused
           /\ hist'.apart = hist.apart
                 \cup ({f} \X {r \in Row : OnRow(client[c].t, r) # {} \/ ~Sees(c, client[c].t, r)})
  <1> DEFINE seen  == {r \in pool[Data(client[c].t)].img.rows : Sees(c, client[c].t, r)}
             size  == Cardinality(seen)
             list  == CHOOSE l \in [1 .. size -> seen] : \A r \in seen : \E n \in 1 .. size : l[n] = r
             recs  == [n \in 1 .. size |-> Rec(IndexFile(c), "ins", list[n])]
             lsn   == IF seen = {} THEN pool[IndexFile(c)].img.lsn ELSE Len(log) + Len(recs)
             img   == [rows |-> seen, lsn |-> lsn]
             marks == {IndexFile(c)} \X {r \in Row : OnRow(client[c].t, r) # {} \/ ~Sees(c, client[c].t, r)}
  <1>1. client[c].pc = "ci_scan" /\ client[c].pc \in IndexPcs
    BY DEF ScanRows, IndexPcs
  <1>2. f \in File /\ f = <<client[c].t, client[c].i>> /\ c \in Actor /\ client[c].t \in Table /\ IndexMade(c)
    BY <1>1, IndexSession
  <1>3. Open(f) /\ opened[client[c].t] # NoMeta
    BY <1>1, <1>2 DEF IndexMade
  <1>4. seen \subseteq Row /\ seen = rows
    <2>1. Open(Data(client[c].t)) /\ Data(client[c].t) \in File
      BY <1>2, <1>3, DataFiles DEF Struct, SchemaInv
    <2>2. pool[Data(client[c].t)].img.rows \subseteq Row
      BY <2>1, ImageTypes DEF Struct
    <2> QED BY <2>2
  <1>12. /\ log' = log \o recs
         /\ pool' = [pool EXCEPT ![IndexFile(c)].img = img]
         /\ hist' = [hist EXCEPT !.apart = @ \cup marks]
         /\ Goto(c, "ci_push")
         /\ UNCHANGED <<scen, quota, crashes, meta, file, dblwr, ckpt, flushed, status, opened, nextTable, nextPool>>
    BY DEF ScanRows, bounds
  <1> HIDE DEF seen, size, list, recs, lsn, img, marks
  <1>6. IsFiniteSet(seen)
    BY <1>4, NameAssumption, FS_Subset
  <1>7. size \in Nat /\ \E l \in [1 .. size -> seen] : \A r \in seen : \E n \in 1 .. size : l[n] = r
    <2>1. size \in Nat /\ ExistsBijection(1 .. size, seen)
      BY <1>6, FS_CardinalityType DEF size
    <2> QED BY <2>1 DEF ExistsBijection, Bijection, Surjection, Injection
  <1>9. list \in [1 .. size -> seen] /\ \A r \in seen : \E n \in 1 .. size : list[n] = r
    BY <1>7 DEF list
  <1>13. /\ pool[f] \in [id : 1 .. MaxPool, img : Images(0 .. Len(log))] /\ pool[f].id \in 1 .. MaxPool
         /\ pool[f].img.lsn \in 0 .. Len(log)
    BY <1>2, <1>3, ImageTypes DEF Struct
  <1>14. \A r \in Row : /\ Rec(f, "ins", r) \in Records /\ Rec(f, "ins", r).file = f /\ Rec(f, "ins", r).id = pool[f].id
                        /\ Rec(f, "ins", r).op = "ins" /\ Rec(f, "ins", r).row = r
    BY <1>2, <1>13 DEF Rec, Records
  <1>15. recs \in Seq(Records) /\ Len(recs) = size /\ \A n \in 1 .. size : recs[n] = Rec(f, "ins", list[n])
    <2>1. \A n \in 1 .. size : list[n] \in Row
      BY <1>4, <1>9
    <2>2. recs = [n \in 1 .. size |-> Rec(f, "ins", list[n])]
      BY DEF recs
    <2>3. recs \in [1 .. size -> Records]
      BY <1>14, <2>1, <2>2
    <2> QED BY <1>7, <2>2, <2>3
  <1>16. log \in Seq(Records) /\ Len(log) \in Nat
    BY LenProperties DEF Struct, TypeOK
  <1>17. /\ log' \in Seq(Records) /\ Len(log') = Len(log) + size
         /\ \A n \in 1 .. Len(log) + size : log'[n] = IF n <= Len(log) THEN log[n] ELSE recs[n - Len(log)]
    BY <1>12, <1>15, <1>16, ConcatProperties
  <1>18. \A n \in 1 .. Len(log) : log'[n] = log[n]
    BY <1>7, <1>16, <1>17
  <1>19. \A n \in 1 .. Len(log') : n > Len(log) => n - Len(log) \in 1 .. size /\ log'[n] = Rec(f, "ins", list[n - Len(log)])
    BY <1>7, <1>15, <1>16, <1>17
  <1>20. \A n \in 1 .. Len(log') : n > Len(log) =>
           log'[n].file = f /\ log'[n].id = pool[f].id /\ log'[n].op = "ins" /\ log'[n].row \in rows
    <2>1. \A m \in 1 .. size : list[m] \in rows /\ list[m] \in Row
      BY <1>4, <1>9
    <2> QED BY <1>14, <1>19, <2>1
  <1>21. \A r \in rows : \E n \in 1 .. Len(log') : n > Len(log) /\ log'[n].row = r
    <2> TAKE r \in rows
    <2>1. PICK m \in 1 .. size : list[m] = r
      BY <1>4, <1>9
    <2>2. Len(log) + m \in 1 .. Len(log') /\ Len(log) + m > Len(log) /\ (Len(log) + m) - Len(log) = m
      BY <1>7, <1>16, <1>17
    <2>3. log'[Len(log) + m].row = r
      BY <1>4, <1>14, <1>19, <2>1, <2>2
    <2> QED BY <2>2, <2>3
  <1>22. img \in Images(0 .. Len(log')) /\ img.rows = rows /\ img.lsn = IF rows = {} THEN pool[f].img.lsn ELSE Len(log')
    <2>1. lsn = IF rows = {} THEN pool[f].img.lsn ELSE Len(log')
      BY <1>4, <1>15, <1>17 DEF lsn
    <2>2. lsn \in 0 .. Len(log')
      BY <1>7, <1>13, <1>16, <1>17, <2>1
    <2> QED BY <1>4, <2>1, <2>2 DEF Images, img
  <1>23. Len(log') >= Len(log) /\ Len(log') \in Nat
    BY <1>7, <1>16, <1>17
  <1>24. pool \in [File -> {Closed} \cup [id : 1 .. MaxPool, img : Images(0 .. Len(log))]]
    BY DEF Struct, TypeOK
  <1>25. Images(0 .. Len(log)) \subseteq Images(0 .. Len(log'))
    BY <1>16, <1>23, LargerImages
  <1>26. PICK page : page = [pool[f] EXCEPT !.img = img]
    OBVIOUS
  <1>27. page \in [id : 1 .. MaxPool, img : Images(0 .. Len(log'))] /\ page.id = pool[f].id /\ page.img = img
    BY <1>13, <1>22, <1>26
  <1>28. pool' = [pool EXCEPT ![f] = page]
    BY <1>12, <1>26
  <1>29. pool'[f] = page /\ \A g \in File : g # f => pool'[g] = pool[g]
    BY <1>2, <1>24, <1>28
  <1>30. pool' \in [File -> {Closed} \cup [id : 1 .. MaxPool, img : Images(0 .. Len(log'))]]
    <2>1. pool \in [File -> {Closed} \cup [id : 1 .. MaxPool, img : Images(0 .. Len(log'))]]
      BY <1>24, <1>25
    <2> QED BY <1>27, <1>28, <2>1
  <1>31. /\ hist' \in Remembered /\ hist'.answered = hist.answered /\ hist'.unfinished = hist.unfinished
         /\ hist'.lost = hist.lost /\ hist'.late = hist.late /\ hist'.stale = hist.stale /\ hist'.refused = hist.refused
         /\ hist'.apart = hist.apart
               \cup ({f} \X {r \in Row : OnRow(client[c].t, r) # {} \/ ~Sees(c, client[c].t, r)})
    <2>1. marks = {f} \X {r \in Row : OnRow(client[c].t, r) # {} \/ ~Sees(c, client[c].t, r)}
      BY DEF marks
    <2>2. marks \subseteq File \X Row
      BY <1>2, <2>1
    <2>3. hist' = [hist EXCEPT !.apart = hist.apart \cup marks] /\ hist \in Remembered
      BY <1>12 DEF Struct, TypeOK
    <2>4. /\ hist' \in Remembered /\ hist'.answered = hist.answered /\ hist'.unfinished = hist.unfinished
          /\ hist'.lost = hist.lost /\ hist'.late = hist.late /\ hist'.stale = hist.stale /\ hist'.refused = hist.refused
          /\ hist'.apart = hist.apart \cup marks
      BY <2>2, <2>3 DEF Remembered
    <2> QED BY <2>1, <2>4
  <1>32. Scanned(f, rows)
    BY <1>12, <1>18, <1>20, <1>21, <1>22, <1>23, <1>27, <1>29 DEF Scanned
  <1> QED BY <1>1, <1>2, <1>4, <1>12, <1>17, <1>30, <1>31, <1>32

LEMMA ScanRowsStruct ==
    ASSUME Struct, NEW c \in Client, ScanRows(c)
    PROVE  Struct' /\ \E s : SchemaSession(c, s) /\ s.pc = "ci_push"
  <1>2. PICK rows : rows = {r \in pool[Data(client[c].t)].img.rows : Sees(c, client[c].t, r)}
    OBVIOUS
  <1>3. PICK f : f = IndexFile(c)
    OBVIOUS
  <1>4. /\ Scanned(f, rows) /\ f \in File /\ client[c].pc = "ci_scan"
        /\ Goto(c, "ci_push") /\ log' \in Seq(Records)
        /\ pool' \in [File -> {Closed} \cup [id : 1 .. MaxPool, img : Images(0 .. Len(log'))]]
        /\ hist' \in Remembered /\ hist'.answered = hist.answered /\ hist'.unfinished = hist.unfinished
    BY <1>2, <1>3, ScanWork
  <1>5. client[c].pc \in IndexPcs
    BY <1>4 DEF IndexPcs
  <1>6. PICK s : SchemaSession(c, s) /\ s.pc = "ci_push"
    BY <1>4, <1>5, GotoSchema DEF Struct, TablePcs, IndexPcs
  <1>7. /\ UNCHANGED <<scen, quota, crashes, meta, file, dblwr, ckpt, flushed, status, opened, nextTable, nextPool>>
        /\ Len(log') >= Len(log) /\ \A n \in 1 .. Len(log) : log'[n] = log[n]
        /\ \A n \in 1 .. Len(log') : n > Len(log) => log'[n].file = f /\ log'[n].id = pool[f].id
        /\ \A g \in File : g # f => pool'[g] = pool[g]
        /\ pool'[f].id = pool[f].id
    BY <1>4 DEF Scanned
  <1>8. /\ ActorInv' /\ client' \in [Actor -> Sessions] /\ client'[c] = s
    BY <1>6, <1>7, SchemaStep
  <1>9. Len(log) \in Nat /\ Len(log') \in Nat
    BY <1>4, LenProperties DEF Struct, TypeOK
  <1>10. TypeOK'
    <2>1. flushed \in 0 .. Len(log')
      BY <1>7, <1>9 DEF Struct, TypeOK
    <2> QED BY <1>4, <1>7, <1>8, <2>1 DEF Struct, TypeOK
  <1>11. IndexMade(c) /\ f = <<client[c].t, client[c].i>> /\ Ddl(c) /\ c \in Actor
    BY <1>3, <1>5, IndexSession
  <1>12. Open(f)
    BY <1>4, <1>11 DEF IndexMade, IndexPcs
  <1>13. NamesKept({f})
    <2>1. \A n \in 1 .. Len(log') : n > Len(log) => log'[n].file \in {f} /\ log'[n].id = pool[log'[n].file].id
      BY <1>7
    <2>2. nextTable' >= nextTable
      BY <1>7 DEF Struct, TypeOK
    <2> QED BY <1>4, <1>7, <2>1, <2>2 DEF NamesKept
  <1>14. Made(c)'
    <2>1. client'[c].pc = "ci_push" /\ client'[c].t = client[c].t /\ client'[c].i = client[c].i
      BY <1>6, <1>8 DEF SchemaSession
    <2>2. Facts /\ Facts'
      BY <1>10, Typed, PTL DEF Struct
    <2>3. Open(f)'
      BY <1>4, <1>7, <1>12, <2>2 DEF Facts, IdFacts
    <2>4. \A n \in RecordsOf(f) : n > ckpt
      BY <1>4, <1>11 DEF IndexMade, IndexPcs
    <2>5. \A n \in RecordsOf(f)' : n > ckpt'
      BY <1>7, <1>9, <2>2, <2>4 DEF RecordsOf, Facts, RangeFacts
    <2>6. IndexMade(c)'
      BY <1>4, <1>7, <1>11, <2>1, <2>3, <2>5 DEF IndexMade, IndexPcs
    <2> QED BY <2>1, <2>6 DEF Made, TableMade, WorkMade, TablePcs, SyncPcs, RowPcs
  <1>15. Struct'
    <2>1. s \in Sessions /\ client' = [client EXCEPT ![c] = s]
      BY <1>6 DEF SchemaSession
    <2>2. client[c].pc \notin {"ct_open", "ci_create"} /\ s.pc \notin {"ct_open", "ci_create", "ct_meta", "ct_init"}
      BY <1>4, <1>6
    <2>3. {f} \in SUBSET File /\ \A g \in {f} : Open(g)
      BY <1>4, <1>12
    <2> QED BY <1>8, <1>10, <1>11, <1>13, <1>14, <2>1, <2>2, <2>3, NamesStruct
  <1> QED BY <1>6, <1>15

(* The index is entered: nothing of the directory changes. *)
LEMMA PushIndexStruct ==
    ASSUME Struct, NEW c \in Client, PushIndex(c)
    PROVE  /\ Struct' /\ \E s : SchemaSession(c, s) /\ s.pc = "ci_rename"
           /\ client[c].pc = "ci_push" /\ client[c].t \in Table /\ ToOpen' = ToOpen
           /\ \A g \in File : (Live(g)' => Live(g)) /\ (Open(g)' <=> Open(g))
           /\ \A u \in Table : opened'[u].indexes = opened[u].indexes \cup (IF u = client[c].t THEN {client[c].i} ELSE {})
           /\ hist' \in Remembered /\ hist'.answered = hist.answered /\ hist'.unfinished = hist.unfinished
           /\ hist'.lost = hist.lost /\ hist'.late = hist.late /\ hist'.stale = hist.stale /\ hist'.refused = hist.refused
           /\ hist'.apart = hist.apart \cup ({IndexFile(c)} \X {r \in Row : OnRow(client[c].t, r) # {}})
  <1> DEFINE marks == {IndexFile(c)} \X {r \in Row : OnRow(client[c].t, r) # {}}
  <1>1. client[c].pc = "ci_push" /\ client[c].pc \in IndexPcs
    BY DEF PushIndex, IndexPcs
  <1>2. PICK t \in Table : t = client[c].t
    BY <1>1, IndexSession
  <1>3. PICK i \in Index : i = client[c].i
    BY <1>1, IndexSession
  <1>4. PICK f \in File : f = <<t, i>> /\ f = IndexFile(c)
    BY <1>1, <1>2, <1>3, IndexSession
  <1>5. IndexMade(c) /\ status = "up"
    BY <1>1, IndexSession
  <1>6. /\ opened[t] # NoMeta /\ f \in hist.unfinished /\ i \notin meta[t].indexes /\ Open(f)
        /\ \A n \in RecordsOf(f) : n > ckpt
    BY <1>1, <1>2, <1>3, <1>4, <1>5 DEF IndexMade
  <1>7. /\ opened' = [opened EXCEPT ![t].indexes = @ \cup {i}]
        /\ hist' = [hist EXCEPT !.apart = @ \cup marks]
        /\ Goto(c, "ci_rename")
        /\ UNCHANGED <<scen, quota, crashes, meta, file, dblwr, ckpt, log, flushed, status, pool, nextTable, nextPool>>
    BY <1>2, <1>3 DEF PushIndex, bounds, dirVars
  <1>8. /\ hist' \in Remembered /\ hist'.answered = hist.answered /\ hist'.unfinished = hist.unfinished
        /\ hist'.lost = hist.lost /\ hist'.late = hist.late /\ hist'.stale = hist.stale /\ hist'.refused = hist.refused
        /\ hist'.apart = hist.apart \cup marks
    <2>1. marks \subseteq File \X Row
      BY <1>4
    <2> HIDE DEF marks
    <2>2. hist \in Remembered
      BY DEF Struct, TypeOK
    <2> QED BY <1>7, <2>1, <2>2 DEF Remembered
  <1> HIDE DEF marks
  <1>9. PICK s : SchemaSession(c, s) /\ s.pc = "ci_rename"
    BY <1>1, <1>7, GotoSchema DEF Struct, TablePcs, IndexPcs
  <1>10. /\ opened' \in [Table -> Metas] /\ opened'[t].id = opened[t].id /\ opened'[t].indexes = opened[t].indexes \cup {i}
         /\ \A u \in Table : u # t => opened'[u] = opened[u]
    <2>1. PICK new : new = [opened[t] EXCEPT !.indexes = opened[t].indexes \cup {i}]
      OBVIOUS
    <2>2. opened[t] \in [id : Nat, indexes : SUBSET Index]
      <3>1. opened[t].id \in Nat
        BY <1>6 DEF Struct, SchemaInv
      <3> QED BY <3>1 DEF Struct, TypeOK, Metas, NoMeta, EmptyMeta
    <2>3. new \in [id : Nat, indexes : SUBSET Index] /\ new.id = opened[t].id /\ new.indexes = opened[t].indexes \cup {i}
      BY <2>1, <2>2
    <2>4. opened' = [opened EXCEPT ![t] = new]
      BY <1>7, <2>1
    <2>5. opened \in [Table -> Metas] /\ new \in Metas
      BY <2>3 DEF Struct, TypeOK, Metas
    <2> QED BY <2>3, <2>4, <2>5
  <1>11. opened'[t] # NoMeta
    BY <1>6, <1>10 DEF Struct, SchemaInv, NoMeta
  <1>12. \A u \in Table : opened[u] # NoMeta => opened'[u] # NoMeta /\ opened[u].indexes \subseteq opened'[u].indexes
    BY <1>10, <1>11
  <1>13. /\ client'[c] = s /\ client' \in [Actor -> Sessions] /\ \A b \in Client : b # c => client'[b] = client[b]
    BY <1>7, <1>9, <1>12, SchemaStep DEF Actor
  <1>14. \A g : ~Opening(g) /\ ~Opening(g)'
    <2>1. /\ \A g : Opening(g) <=> client[c].pc \in {"ct_open", "ci_create"} /\ Target(c) = g
          /\ \A g : Opening(g)' <=> s.pc \in {"ct_open", "ci_create"} /\ Target(c) = g
      BY <1>7, <1>9, <1>12, SchemaStep
    <2> QED BY <1>1, <1>9, <2>1
  <1>15. TypeOK'
    BY <1>7, <1>8, <1>10, <1>13 DEF Struct, TypeOK
  <1>16. Facts /\ Facts'
    BY <1>15, Typed, PTL DEF Struct
  <1>17. \A g \in File : (Open(g)' <=> Open(g)) /\ (Complete(g)' <=> Complete(g))
    BY <1>7 DEF Open, Complete
  <1>18. ToOpen' = ToOpen
    BY <1>7 DEF ToOpen, Found, FilesOf
  <1>19. \A g \in File : Live(g)' <=> Live(g)
    BY <1>14, <1>17, <1>18 DEF Live
  <1>20. IdInv' /\ UnfinishedInv'
    <2>1. DirectoryKept
      <3>1. ckpt' >= ckpt
        BY <1>7, <1>16 DEF Facts, RangeFacts
      <3>2. \A u \in Table : meta'[u] = EmptyMeta => Data(u) \in hist'.unfinished
        BY <1>7, <1>8 DEF Struct, UnfinishedInv
      <3> QED BY <1>7, <1>8, <1>14, <1>17, <1>18, <1>19, <3>1, <3>2 DEF DirectoryKept
    <2> QED BY <1>7, <1>15, <2>1, NoNewRecords, DirectoryStep DEF Struct
  <1>21. SchemaInv'
    <2>1. ASSUME NEW u \in Table
          PROVE  /\ opened'[u] # NoMeta =>
                      /\ opened'[u].id = meta'[u].id /\ opened'[u].id \in Nat
                      /\ meta'[u].indexes \subseteq opened'[u].indexes
                      /\ Open(Data(u))' /\ \A j \in opened'[u].indexes : Open(<<u, j>>)'
                 /\ Open(Data(u))' => opened'[u] # NoMeta
                 /\ opened'[u] = NoMeta => opened[u] = NoMeta
      <3>1. Data(u) \in File /\ \A j \in opened[u].indexes : <<u, j>> \in File
        BY <1>16, DataFiles, IndexFiles DEF Facts, IdFacts
      <3>2. CASE u = t
        BY <1>4, <1>6, <1>7, <1>10, <1>11, <1>17, <3>1, <3>2 DEF Struct, SchemaInv
      <3>3. CASE u # t
        BY <1>7, <1>10, <1>17, <3>1, <3>3 DEF Struct, SchemaInv
      <3> QED BY <3>2, <3>3
    <2> QED BY <1>7, <2>1 DEF Struct, SchemaInv, Complete, Open
  <1>22. AnsweredInv'
    BY <1>7, <1>8, <1>12, <1>15, AnsweredStep DEF Struct
  <1>23. TableIdInv'
    BY <1>7, <1>9, <1>13, TableIdsKept
  <1>24. Made(c)'
    <2>1. client'[c].pc = "ci_rename" /\ client'[c].t = t /\ client'[c].i = i
      BY <1>2, <1>3, <1>9, <1>13 DEF SchemaSession
    <2>2. RecordsOf(f)' = RecordsOf(f) /\ Open(f)'
      BY <1>6, <1>7, <1>17 DEF RecordsOf
    <2>3. IndexMade(c)'
      BY <1>4, <1>6, <1>7, <1>8, <1>10, <1>11, <2>1, <2>2 DEF IndexMade, IndexPcs
    <2> QED BY <2>1, <2>3 DEF Made, TableMade, WorkMade, TablePcs, SyncPcs, RowPcs
  <1>25. Struct'
    BY <1>7, <1>9, <1>12, <1>15, <1>20, <1>21, <1>22, <1>23, <1>24, SchemaStruct
  <1>26. \A u \in Table : opened'[u].indexes = opened[u].indexes \cup (IF u = client[c].t THEN {client[c].i} ELSE {})
    BY <1>2, <1>3, <1>10
  <1>27. hist'.apart = hist.apart \cup ({IndexFile(c)} \X {r \in Row : OnRow(client[c].t, r) # {}})
    BY <1>8 DEF marks
  <1> QED BY <1>1, <1>2, <1>8, <1>9, <1>17, <1>18, <1>19, <1>25, <1>26, <1>27

(* The meta file names the index: a start would open its file, which is open. *)
LEMMA RenameMetaStruct ==
    ASSUME Struct, NEW c \in Client, RenameMeta(c), NEW f, f = IndexFile(c)
    PROVE  /\ Struct' /\ \E s : SchemaSession(c, s) /\ s.pc = "s_files" /\ s.todo = Synced(opened)
           /\ client[c].pc = "ci_rename" /\ client[c].t \in Table /\ client[c].i \in opened[client[c].t].indexes
           /\ f \in File /\ Open(f) /\ f \in Synced(opened) /\ \A n \in RecordsOf(f) : n > ckpt
           /\ \A g \in File : (Live(g)' => Live(g)) /\ (g \in ToOpen' <=> g \in ToOpen \/ g = f)
           /\ \A u \in Table : meta'[u].indexes = meta[u].indexes \cup (IF u = client[c].t THEN {client[c].i} ELSE {})
  <1>1. client[c].pc = "ci_rename" /\ client[c].pc \in IndexPcs
    BY DEF RenameMeta, IndexPcs
  <1>2. PICK t \in Table : t = client[c].t
    BY <1>1, IndexSession
  <1>3. PICK i \in Index : i = client[c].i
    BY <1>1, IndexSession
  <1>4. f \in File /\ f = <<t, i>> /\ TableOf(f) = t /\ f[2] = i /\ f # Data(t)
    BY <1>1, <1>2, <1>3, IndexSession, IndexFiles
  <1>5. IndexMade(c) /\ status = "up" /\ client[c] \in Sessions
    BY <1>1, IndexSession
  <1>6. /\ opened[t] # NoMeta /\ f \in hist.unfinished /\ i \in opened[t].indexes /\ Open(f)
        /\ \A n \in RecordsOf(f) : n > ckpt
    BY <1>1, <1>2, <1>3, <1>4, <1>5 DEF IndexMade
  <1>7. PICK id \in Nat : id = meta[t].id
    BY <1>6 DEF Struct, SchemaInv
  <1>8. PICK todo \in SUBSET File : todo = Synced(opened)
    BY SyncedOpen DEF Struct
  <1>9. /\ meta' = [meta EXCEPT ![t] = [id |-> id, indexes |-> meta[t].indexes \cup {i}]]
        /\ client' = [client EXCEPT ![c].pc = "s_files", ![c].todo = todo]
        /\ UNCHANGED <<scen, quota, crashes, file, dblwr, ckpt, log, flushed, status, opened, pool, nextTable, nextPool, hist>>
    BY <1>2, <1>3, <1>7, <1>8 DEF RenameMeta, add_index, serialize, bounds, memVars
  <1> DEFINE s == [client[c] EXCEPT !.pc = "s_files", !.todo = todo]
  <1>10. s \in Sessions
    BY <1>5, <1>8 DEF Sessions, Pcs, SyncPcs
  <1>11. /\ s.pc = "s_files" /\ s.todo = todo /\ s.t = client[c].t /\ s.i = client[c].i /\ s.row = client[c].row /\ s.id = client[c].id
    BY <1>5 DEF Sessions
  <1>12. client' = [client EXCEPT ![c] = s]
    BY <1>9
  <1> HIDE DEF s
  <1>13. SchemaSession(c, s)
    BY <1>1, <1>10, <1>11, <1>12 DEF SchemaSession, TablePcs, IndexPcs, SyncPcs
  <1>14. \A u \in Table : opened[u] # NoMeta => opened'[u] # NoMeta /\ opened[u].indexes \subseteq opened'[u].indexes
    BY <1>9
  <1>15. /\ client'[c] = s /\ client' \in [Actor -> Sessions] /\ \A b \in Client : b # c => client'[b] = client[b]
    BY <1>9, <1>13, <1>14, SchemaStep DEF Actor
  <1>16. \A g : ~Opening(g) /\ ~Opening(g)'
    <2>1. /\ \A g : Opening(g) <=> client[c].pc \in {"ct_open", "ci_create"} /\ Target(c) = g
          /\ \A g : Opening(g)' <=> s.pc \in {"ct_open", "ci_create"} /\ Target(c) = g
      BY <1>9, <1>13, <1>14, SchemaStep
    <2> QED BY <1>1, <1>11, <2>1
  <1>17. /\ meta'[t] = [id |-> id, indexes |-> meta[t].indexes \cup {i}] /\ \A u \in Table : u # t => meta'[u] = meta[u]
         /\ meta' \in [Table -> Metas]
    <2>1. meta[t].indexes \subseteq Index
      BY Typed DEF Struct, Facts, IdFacts
    <2> QED BY <1>9, <2>1 DEF Struct, TypeOK, Metas
  <1>18. TypeOK'
    BY <1>9, <1>15, <1>17 DEF Struct, TypeOK
  <1>19. Facts /\ Facts'
    BY <1>18, Typed, PTL DEF Struct
  <1>20. \A g \in File : (Open(g)' <=> Open(g)) /\ (Complete(g)' <=> Complete(g))
    BY <1>9 DEF Open, Complete
  <1>21. \A u \in Table : /\ meta'[u].indexes = meta[u].indexes \cup (IF u = t THEN {i} ELSE {})
                          /\ meta'[u].id = meta[u].id
                          /\ meta'[u] # NoMeta <=> meta[u] # NoMeta
                          /\ meta'[u] = EmptyMeta <=> meta[u] = EmptyMeta
    <2>1. \A u \in Table : meta'[u].indexes = meta[u].indexes \cup (IF u = t THEN {i} ELSE {}) /\ meta'[u].id = meta[u].id
      BY <1>7, <1>17
    <2> QED BY <1>19, <2>1 DEF Facts, IdFacts
  <1>22. \A g \in File : g \in ToOpen' <=> g \in ToOpen \/ g = f
    <2> TAKE g \in File
    <2>1. TableOf(g) \in Table /\ g = <<TableOf(g), g[2]>>
      BY FileParts
    <2>2. g \in ToOpen <=> (g = Data(TableOf(g)) /\ meta[TableOf(g)] # NoMeta) \/ g[2] \in meta[TableOf(g)].indexes
      BY <1>19 DEF Facts, ToOpenFacts
    <2>3. g \in ToOpen' <=> (g = Data(TableOf(g)) /\ meta'[TableOf(g)] # NoMeta) \/ g[2] \in meta'[TableOf(g)].indexes
      BY <1>19 DEF Facts, ToOpenFacts
    <2> QED BY <1>4, <1>21, <2>1, <2>2, <2>3
  <1>23. Complete(f)
    BY <1>4, <1>6 DEF Struct, SchemaInv
  <1>24. \A g \in File : Live(g)' => Live(g)
    BY <1>6, <1>16, <1>20, <1>22 DEF Live
  <1>25. IdInv' /\ UnfinishedInv'
    <2>1. DirectoryKept
      <3>1. ckpt' >= ckpt
        BY <1>9, <1>19 DEF Facts, RangeFacts
      <3>2. \A u \in Table : meta'[u] = EmptyMeta => Data(u) \in hist'.unfinished
        BY <1>9, <1>21 DEF Struct, UnfinishedInv
      <3> QED BY <1>6, <1>9, <1>16, <1>20, <1>22, <1>24, <3>1, <3>2 DEF DirectoryKept
    <2> QED BY <1>9, <1>18, <2>1, NoNewRecords, DirectoryStep DEF Struct
  <1>26. SchemaInv'
    <2>1. \A u \in Table : opened[u] # NoMeta => meta'[u].indexes \subseteq opened[u].indexes
      BY <1>6, <1>21 DEF Struct, SchemaInv
    <2>2. \A u \in Table : \A j \in meta'[u].indexes : Complete(<<u, j>>)
      <3> SUFFICES ASSUME NEW u \in Table, NEW j \in meta'[u].indexes PROVE Complete(<<u, j>>)
        OBVIOUS
      <3>1. CASE j \in meta[u].indexes
        BY <3>1 DEF Struct, SchemaInv
      <3>2. CASE u = t /\ j = i
        BY <1>4, <1>23, <3>2
      <3> QED BY <1>21, <3>1, <3>2
    <2>3. \A u \in Table : opened[u] = NoMeta => meta'[u].indexes = meta[u].indexes
      BY <1>6, <1>21
    <2> QED BY <1>9, <1>21, <2>1, <2>2, <2>3 DEF Struct, SchemaInv, Complete, Open
  <1>27. AnsweredInv'
    BY <1>9, <1>18, <1>21, AnsweredStep DEF Struct
  <1>28. TableIdInv'
    BY <1>9, <1>11, <1>13, <1>15, <1>21, TableIdsKept
  <1>29. Made(c)'
    <2>1. client'[c].pc = "s_files" /\ client'[c].t = t /\ client'[c].i = i
      BY <1>2, <1>3, <1>11, <1>15
    <2>2. opened'[t] # NoMeta /\ i \in meta'[t].indexes
      BY <1>6, <1>9, <1>21
    <2> QED BY <2>1, <2>2 DEF Made, TableMade, IndexMade, WorkMade, TablePcs, IndexPcs, SyncPcs, RowPcs
  <1>30. Struct'
    BY <1>9, <1>13, <1>14, <1>18, <1>25, <1>26, <1>27, <1>28, <1>29, SchemaStruct
  <1>31. f \in Synced(opened)
    BY <1>3, <1>4, <1>6, SyncedOpen DEF Struct
  <1>32. \A u \in Table : meta'[u].indexes = meta[u].indexes \cup (IF u = client[c].t THEN {client[c].i} ELSE {})
    BY <1>2, <1>3, <1>21
  <1>33. SchemaSession(c, s) /\ s.pc = "s_files" /\ s.todo = Synced(opened)
    BY <1>8, <1>11, <1>13
  <1> QED BY <1>1, <1>2, <1>3, <1>4, <1>6, <1>22, <1>24, <1>30, <1>31, <1>32, <1>33

-----------------------------------------------------------------------------
(* A sync ends. *)

(* What a schema change made, when its sync ends. *)
LEMMA SyncedTarget ==
    ASSUME Struct, NEW c \in Client, client[c].pc \in SyncPcs, NEW f, f = Target(c)
    PROVE  /\ status = "up" /\ client[c].t \in Table /\ opened[client[c].t] # NoMeta /\ c # Main
           /\ f \in File /\ TableOf(f) = client[c].t /\ f \in ToOpen /\ Complete(f)
           /\ meta[client[c].t].id = opened[client[c].t].id /\ opened[client[c].t].id \in Nat
           /\ meta[client[c].t] # EmptyMeta
           /\ f # Data(client[c].t) => f[2] \in meta[client[c].t].indexes
  <1>1. PICK t \in Table : t = client[c].t
    BY Working DEF Struct, SyncPcs
  <1>2. status = "up" /\ client[c] \in Sessions /\ c # Main
    BY Working, MainAssumption DEF Struct, SyncPcs
  <1>3. opened[t] # NoMeta /\ (client[c].i # "" => client[c].i \in meta[t].indexes)
    BY <1>1 DEF Struct, WorkInv, WorkMade
  <1>4. meta[t].id = opened[t].id /\ opened[t].id \in Nat /\ Open(Data(t))
    BY <1>3 DEF Struct, SchemaInv
  <1>5. meta[t] # NoMeta /\ meta[t] # EmptyMeta
    BY <1>4 DEF NoMeta, EmptyMeta
  <1>6. Facts
    BY Typed DEF Struct
  <1>7. CASE client[c].i = ""
    <2>1. f = Data(t)
      BY <1>1, <1>7 DEF Target
    <2>2. f \in File /\ TableOf(f) = t /\ f \in ToOpen /\ Complete(f)
      BY <1>4, <1>5, <1>6, <2>1, DataFiles DEF Struct, SchemaInv, Facts, ToOpenFacts
    <2> QED BY <1>1, <1>2, <1>3, <1>4, <1>5, <2>1, <2>2
  <1>8. CASE client[c].i # ""
    <2>1. PICK i \in Index : i = client[c].i
      BY <1>2, <1>8, SessionTypes
    <2>2. f = <<t, i>> /\ i \in meta[t].indexes
      BY <1>1, <1>3, <1>8, <2>1 DEF Target
    <2>3. f \in File /\ TableOf(f) = t /\ f[2] = i
      BY <2>2, IndexFiles
    <2>4. Complete(f)
      BY <2>2 DEF Struct, SchemaInv
    <2>5. f \in ToOpen
      BY <1>6, <2>2 DEF Facts, ToOpenFacts
    <2> QED BY <1>1, <1>2, <1>3, <1>4, <1>5, <2>2, <2>3, <2>4, <2>5
  <1> QED BY <1>7, <1>8

LEMMA SyncMetaCheckpoint ==
    ASSUME Struct, WaitInv, NEW a \in Actor, SyncMeta(a)
    PROVE  \E s : Checkpoint(a, s)
  <1>1. /\ client[a].pc = "s_wait" /\ flushed >= client[a].lsn /\ ckpt' = client[a].lsn
        /\ UNCHANGED <<scen, quota, crashes, meta, file, dblwr, log, flushed, status, opened, pool, nextTable, nextPool>>
    BY DEF SyncMeta, LsnFlushed, bounds, memVars
  <1>2. client[a] \in Sessions /\ client[a].lsn \in Nat
    BY SessionTypes DEF Struct, TypeOK
  <1>3. ckpt' \in 0 .. flushed /\ ckpt' >= ckpt
    <2>1. flushed \in Nat /\ ckpt \in Nat
      BY Typed DEF Struct, Facts, RangeFacts
    <2> QED BY <1>1, <1>2, <2>1 DEF WaitInv
  <1>4. hist \in Remembered
    BY DEF Struct, TypeOK
  <1>5. CASE a = Main
    <2>1. Goto(a, "close") /\ hist' = hist
      BY <1>5 DEF SyncMeta
    <2>2. "close" \in Pcs
      BY DEF Pcs
    <2>3. PICK s \in Sessions : client' = [client EXCEPT ![a] = s] /\ s.pc = "close"
      BY <2>1, <2>2, GotoStep DEF Struct
    <2> QED BY <1>1, <1>3, <1>4, <1>5, <2>1, <2>3 DEF Checkpoint
  <1>6. CASE a # Main
    <2>1. a \in Client /\ client[a].pc \in SyncPcs
      BY <1>1, <1>6 DEF Actor, SyncPcs
    <2>2. PICK f \in File : f = Target(a)
      BY <2>1, SyncedTarget
    <2>3. PICK x : x = [file |-> f, table |-> opened[client[a].t].id, pool |-> file[f].id]
      OBVIOUS
    <2>4. x \in [file : File, table : Nat, pool : 1 .. MaxPool]
      <3>1. opened[client[a].t].id \in Nat /\ Complete(f)
        BY <2>1, <2>2, SyncedTarget
      <3>2. file[f].id \in 1 .. MaxPool
        BY <2>2, <3>1, ImageTypes DEF Struct
      <3> QED BY <2>2, <2>3, <3>1, <3>2
    <2>5. Answer(a) /\ hist' = [hist EXCEPT !.answered = @ \cup {x}, !.unfinished = @ \ {f}]
      BY <1>6, <2>2, <2>3 DEF SyncMeta, Target
    <2>6. /\ hist' \in Remembered /\ hist'.apart = hist.apart /\ hist'.lost = hist.lost /\ hist'.late = hist.late
          /\ hist'.refused = hist.refused /\ hist'.stale = hist.stale
          /\ hist'.answered = hist.answered \cup {x} /\ hist'.unfinished = hist.unfinished \ {f}
      BY <1>4, <2>4, <2>5 DEF Remembered
    <2>7. client' = [client EXCEPT ![a] = Idle]
      BY <2>5 DEF Answer
    <2>8. Checkpoint(a, Idle)
      BY <1>1, <1>3, <2>1, <2>2, <2>3, <2>6, <2>7, IdleSession DEF Checkpoint
    <2> QED BY <2>8
  <1> QED BY <1>5, <1>6

LEMMA SyncMetaStruct ==
    ASSUME Struct, NEW a \in Actor, NEW s, Checkpoint(a, s)
    PROVE  /\ Struct' /\ ToOpen' = ToOpen /\ \A f \in File : (Live(f)' => Live(f)) /\ (Open(f)' <=> Open(f))
           /\ client'[a] = s /\ \A b \in Actor : b # a => client'[b] = client[b] /\ ~Ddl(b)
  <1>1. /\ UNCHANGED <<scen, quota, crashes, meta, file, dblwr, log, flushed, status, opened, pool, nextTable, nextPool>>
        /\ ckpt' \in 0 .. flushed /\ ckpt' >= ckpt
        /\ client[a].pc \in SyncPcs /\ s \in Sessions /\ client' = [client EXCEPT ![a] = s]
        /\ hist' \in Remembered
    BY DEF Checkpoint, SyncPcs
  <1>2. client' \in [Actor -> Sessions] /\ client'[a] = s /\ \A b \in Actor : b # a => client'[b] = client[b]
    BY <1>1, SessionStep DEF Struct
  <1>3. TypeOK'
    BY <1>1, <1>2 DEF Struct, TypeOK
  <1>4. Facts /\ Facts'
    BY <1>3, Typed, PTL DEF Struct
  <1>5. s.pc \in {"idle", "close"} /\ (a \in Client => s = Idle) /\ (s.pc = "close" => a = Main) /\ (s = Idle => a \in Client)
    BY MainAssumption, IdleSession DEF Checkpoint
  <1>6. ActorInv'
    <2>1. s.pc \notin SyncPcs /\ ((s = Idle /\ a \in Client) \/ (s.pc = "close" /\ a = Main))
      BY <1>5 DEF Checkpoint, SyncPcs
    <2> QED BY <1>1, <2>1, ActorSyncStep DEF Struct
  <1>7. Ddl(a) /\ \A b \in Actor : b # a => ~Ddl(b)
    BY <1>1 DEF Ddl, Struct, ActorInv
  <1>8. WorkInv'
    <2>1. \A b \in Client : b # a => Made(b)'
      BY <1>1, <1>2, <1>7, OthersMade DEF Struct, Actor
    <2>2. a \in Client => Made(a)'
      BY <1>2, <1>5, IdleSession DEF Made, TableMade, IndexMade, WorkMade, TablePcs, IndexPcs, SyncPcs, RowPcs
    <2> QED BY <2>1, <2>2 DEF WorkInv, Made
  <1>9. \A f \in File : (Open(f)' <=> Open(f)) /\ (Complete(f)' <=> Complete(f))
    BY <1>1 DEF Open, Complete
  <1>10. ToOpen' = ToOpen
    BY <1>1 DEF ToOpen, Found, FilesOf
  <1>11. \A f : Opening(f)' <=> Opening(f)
    <2>1. \A b \in Client : \/ client'[b] = client[b]
                            \/ client[b].pc \notin {"ct_open", "ci_create"} /\ client'[b].pc \notin {"ct_open", "ci_create"}
      BY <1>1, <1>2, <1>5 DEF SyncPcs, Actor
    <2> QED BY <2>1 DEF Opening, Target
  <1>12. \A f \in File : Live(f)' <=> Live(f)
    BY <1>9, <1>10, <1>11 DEF Live
  <1>13. SchemaInv'
    BY <1>1 DEF Struct, SchemaInv, Complete, Open
  <1>14. TableIdInv'
    <2>1. \A b \in Client : client'[b].pc \in {"ct_meta", "ct_init"} => client'[b] = client[b]
      BY <1>2, <1>5 DEF Actor
    <2> QED BY <1>1, <2>1 DEF Struct, TableIdInv
  <1>15. CASE a = Main
    <2>1. hist' = hist
      BY <1>15, <1>5, IdleSession, MainAssumption DEF Checkpoint
    <2>2. DirectoryKept
      <3>1. \A t \in Table : meta'[t] = EmptyMeta => Data(t) \in hist'.unfinished
        BY <1>1, <2>1 DEF Struct, UnfinishedInv
      <3> QED BY <1>1, <1>9, <1>10, <1>11, <1>12, <2>1, <3>1 DEF DirectoryKept
    <2>3. IdInv' /\ UnfinishedInv'
      BY <1>1, <1>3, <2>2, NoNewRecords, DirectoryStep DEF Struct
    <2>4. AnsweredInv'
      BY <1>1, <2>1 DEF Struct, AnsweredInv
    <2> QED BY <1>2, <1>3, <1>6, <1>7, <1>8, <1>9, <1>10, <1>12, <1>13, <1>14, <2>3, <2>4 DEF Struct
  <1>16. CASE a \in Client
    <2>1. PICK f : f = Target(a)
      OBVIOUS
    <2>2. PICK t \in Table : t = client[a].t
      BY <1>1, <1>16, <2>1, SyncedTarget
    <2>3. /\ f \in File /\ TableOf(f) = t /\ f \in ToOpen /\ Complete(f) /\ opened[t] # NoMeta /\ status = "up"
          /\ meta[t].id = opened[t].id /\ meta[t] # EmptyMeta
          /\ f # Data(t) => f[2] \in meta[t].indexes
      BY <1>1, <1>16, <2>1, <2>2, SyncedTarget
    <2>4. PICK x : x = [file |-> f, table |-> opened[t].id, pool |-> file[f].id]
      OBVIOUS
    <2>5. hist'.answered = hist.answered \cup {x} /\ hist'.unfinished = hist.unfinished \ {f}
      BY <1>16, <2>1, <2>2, <2>4, MainAssumption DEF Checkpoint
    <2>6. DirectoryKept
      <3>1. \A u \in Table : meta'[u] = EmptyMeta => Data(u) \in hist'.unfinished
        <4> SUFFICES ASSUME NEW u \in Table, meta[u] = EmptyMeta PROVE Data(u) \in hist'.unfinished
          BY <1>1
        <4>1. Data(u) \in hist.unfinished
          BY DEF Struct, UnfinishedInv
        <4>2. Data(u) # f
          BY <2>3, DataFiles
        <4> QED BY <2>5, <4>1, <4>2
      <3>2. \A g \in hist.unfinished : g \in hist'.unfinished \/ (Complete(g) /\ g \in ToOpen')
        BY <1>10, <2>3, <2>5
      <3>3. \A g \in File : g \in ToOpen \cup hist.unfinished => g \in ToOpen' \cup hist'.unfinished
        BY <1>10, <2>3, <2>5
      <3> QED BY <1>1, <1>9, <1>10, <1>11, <1>12, <3>1, <3>2, <3>3 DEF DirectoryKept
    <2>7. IdInv' /\ UnfinishedInv'
      BY <1>1, <1>3, <2>6, NoNewRecords, DirectoryStep DEF Struct
    <2>8. AnsweredInv'
      <3> SUFFICES ASSUME NEW y \in hist'.answered
                   PROVE  /\ meta[TableOf(y.file)].id = y.table /\ file[y.file].id = y.pool
                          /\ y.file # Data(TableOf(y.file)) => y.file[2] \in meta[TableOf(y.file)].indexes
                          /\ status = "up" => opened[TableOf(y.file)] # NoMeta
        BY <1>1 DEF AnsweredInv
      <3>1. CASE y = x
        <4>1. y.file = f /\ y.table = opened[t].id /\ y.pool = file[f].id
          BY <2>4, <3>1
        <4> QED BY <2>3, <4>1
      <3>2. CASE y \in hist.answered
        BY <3>2 DEF Struct, AnsweredInv
      <3> QED BY <2>5, <3>1, <3>2
    <2> QED BY <1>2, <1>3, <1>6, <1>7, <1>8, <1>9, <1>10, <1>12, <1>13, <1>14, <2>7, <2>8 DEF Struct
  <1> QED BY <1>15, <1>16 DEF Actor

-----------------------------------------------------------------------------
(* The server stops and starts. *)

LEMMA GoneTypes ==
    ASSUME Gone
    PROVE  /\ status' \in {"down", "up", "failed"} /\ opened' \in [Table -> Metas]
           /\ pool' \in [File -> {Closed} \cup [id : 1 .. MaxPool, img : Images(0 .. Len(log'))]]
           /\ nextTable' \in Nat /\ nextPool' \in 1 .. MaxPool + 1 /\ client' \in [Actor -> Sessions]
  <1>1. /\ status' = "down" /\ opened' = [t \in Table |-> NoMeta] /\ pool' = [f \in File |-> Closed]
        /\ nextTable' = 0 /\ nextPool' = 1 /\ client' = [a \in Actor |-> Idle]
    BY DEF Gone
  <1>2. nextTable' \in Nat /\ nextPool' \in 1 .. MaxPool + 1
    BY <1>1, BoundAssumption
  <1>3. opened' \in [Table -> Metas] /\ client' \in [Actor -> Sessions]
    BY <1>1, IdleSession DEF Metas
  <1> QED BY <1>1, <1>2, <1>3

LEMMA GoneStruct ==
    ASSUME Struct, TypeOK', GoneKeeps
    PROVE  /\ Struct' /\ ToOpen' = ToOpen
           /\ \A f \in File : ~Open(f)' /\ (Live(f)' <=> Complete(f) /\ f \in ToOpen)
           /\ \A a \in Actor : client'[a] = Idle
  <1>1. /\ status' = "down" /\ \A t \in Table : opened'[t] = NoMeta
        /\ \A f \in File : pool'[f] = Closed
        /\ \A a \in Actor : client'[a] = Idle
    BY DEF GoneKeeps, Gone
  <1>2. /\ meta' = meta /\ ckpt' = ckpt
        /\ \A f \in File : file'[f].id = file[f].id /\ (~Open(f) => file'[f] = file[f])
        /\ Len(log') <= Len(log) /\ \A n \in 1 .. Len(log') : n \in 1 .. Len(log) /\ log'[n] = log[n]
        /\ \A p \in 1 .. MaxPool : dblwr'[p] # NoImage => dblwr[p] # NoImage
        /\ hist'.unfinished = hist.unfinished /\ hist'.answered = hist.answered
    BY DEF GoneKeeps
  <1>3. Facts /\ Facts'
    BY Typed, PTL DEF Struct
  <1>4. \A a \in Actor : client'[a].pc = "idle" /\ ~Ddl(a)' /\ client'[a].row = 0
    BY <1>1, IdleSession DEF Ddl, TablePcs, IndexPcs, SyncPcs
  <1>5. Main \in Actor /\ \A c \in Client : c \in Actor
    BY DEF Actor
  <1>6. ActorInv'
    BY <1>1, <1>4, <1>5 DEF ActorInv, TablePcs, IndexPcs, RowPcs
  <1>7. WorkInv'
    BY <1>4, <1>5 DEF WorkInv, TableMade, IndexMade, WorkMade, TablePcs, IndexPcs, SyncPcs, RowPcs
  <1>8. \A f \in File : ~Open(f)' /\ (Complete(f)' <=> Complete(f))
    BY <1>1, <1>2 DEF Open, Complete
  <1>9. \A f : ~Opening(f)'
    BY <1>4, <1>5 DEF Opening
  <1>10. ToOpen' = ToOpen /\ ToOpen \subseteq File
    BY <1>2, <1>3 DEF ToOpen, Found, FilesOf, Facts, ToOpenFacts
  <1>11. \A f \in File : Live(f)' <=> Complete(f) /\ f \in ToOpen
    BY <1>8, <1>9, <1>10 DEF Live
  <1>12. \A f \in File : Live(f)' => Live(f)
    BY <1>11 DEF Live
  <1>13. \A n \in Replayed' : n \in Replayed /\ n \in 1 .. Len(log') /\ log'[n] = log[n]
    BY <1>2, <1>3 DEF Facts, RangeFacts
  <1>14. SchemaInv'
    <2>1. \A t \in Table : Data(t) \in File /\ ~Open(Data(t))'
      BY <1>8, DataFiles
    <2>2. \A t \in Table : meta[t] = NoMeta => file'[Data(t)] = NoFile
      <3>1. \A t \in Table : meta[t] = NoMeta => file[Data(t)] = NoFile
        BY DEF Struct, SchemaInv
      <3> QED BY <1>2, <1>3, <2>1, <3>1 DEF Facts, IdFacts
    <2>3. \A t \in Table : \A i \in meta[t].indexes : Complete(<<t, i>>)'
      <3>1. \A t \in Table : \A i \in meta[t].indexes : <<t, i>> \in File /\ Complete(<<t, i>>)
        BY <1>3, IndexFiles DEF Struct, SchemaInv, Facts, IdFacts
      <3> QED BY <1>8, <3>1
    <2> QED BY <1>1, <1>2, <1>8, <2>1, <2>2, <2>3 DEF SchemaInv
  <1>15. IdInv'
    <2>1. \A f, g \in File : Live(f)' /\ Live(g)' /\ f # g => file'[f].id # file'[g].id
      BY <1>2, <1>12 DEF Struct, IdInv
    <2>2. \A n \in 1 .. Len(log') : file'[log'[n].file].id = log'[n].id
      BY <1>2, <1>3 DEF Struct, IdInv, Facts, RecordFacts
    <2>3. \A f \in File, n \in Replayed' : Live(f)' /\ file'[f].id = log'[n].id => log'[n].file = f
      BY <1>2, <1>12, <1>13 DEF Struct, IdInv
    <2>4. \A p \in 1 .. MaxPool : dblwr'[p] # NoImage =>
             \E f \in File : file'[f].id = p /\ f \in ToOpen' \cup hist'.unfinished
      BY <1>2, <1>10 DEF Struct, IdInv
    <2> QED BY <1>1, <2>1, <2>2, <2>3, <2>4 DEF IdInv
  <1>16. TableIdInv'
    BY <1>1, <1>2, <1>4, <1>5 DEF Struct, TableIdInv
  <1>17. UnfinishedInv'
    <2>1. \A f \in ToOpen' : Complete(f)' \/ f \in hist'.unfinished
      BY <1>2, <1>8, <1>10 DEF Struct, UnfinishedInv
    <2> QED BY <1>2, <1>10, <1>11, <2>1 DEF Struct, UnfinishedInv
  <1>18. AnsweredInv'
    BY <1>1, <1>2, AnsweredStep DEF Struct
  <1> QED BY <1>1, <1>6, <1>7, <1>8, <1>10, <1>11, <1>14, <1>15, <1>16, <1>17, <1>18 DEF Struct

LEMMA CloseKeeps ==
    ASSUME Struct, Close
    PROVE  /\ GoneKeeps /\ TypeOK' /\ log' = log /\ status = "up" /\ client[Main].pc = "close"
           /\ hist'.lost = hist.lost /\ hist'.late = {} /\ hist'.refused = hist.refused /\ hist'.stale = hist.stale
           /\ hist'.apart = hist.apart
           /\ \A f \in File : Open(f) => file'[f] = pool[f] /\ dblwr'[pool[f].id] = NoImage
           /\ \A p \in 1 .. MaxPool : dblwr'[p] \in {NoImage, dblwr[p]}
  <1>1. /\ client[Main].pc = "close" /\ Gone /\ flushed' = Len(log)
        /\ file' = [f \in File |-> IF Open(f) THEN pool[f] ELSE file[f]]
        /\ dblwr' = [p \in 1 .. MaxPool |-> IF \E f \in File : pool[f].id = p THEN NoImage ELSE dblwr[p]]
        /\ hist' = [hist EXCEPT !.late = {}]
        /\ UNCHANGED <<scen, quota, crashes, meta, ckpt, log>>
    BY DEF Close, bounds
  <1>h. /\ hist' \in Remembered /\ hist'.answered = hist.answered /\ hist'.unfinished = hist.unfinished
        /\ hist'.lost = hist.lost /\ hist'.late = {} /\ hist'.refused = hist.refused /\ hist'.stale = hist.stale
        /\ hist'.apart = hist.apart
    <2>1. hist \in Remembered
      BY DEF Struct, TypeOK
    <2> QED BY <1>1, <2>1 DEF Remembered
  <1>2. status = "up"
    BY <1>1, IdleSession DEF Struct, ActorInv, Actor
  <1>3. Facts
    BY Typed DEF Struct
  <1>4. \A f \in File : (Open(f) => file'[f] = pool[f]) /\ (~Open(f) => file'[f] = file[f])
    BY <1>1
  <1>5. \A f \in File : file'[f].id = file[f].id
    BY <1>4 DEF Struct, SchemaInv
  <1>6. \A p \in 1 .. MaxPool : dblwr'[p] \in {NoImage, dblwr[p]}
    BY <1>1
  <1>7. \A f \in File : Open(f) => dblwr'[pool[f].id] = NoImage
    BY <1>1, <1>3 DEF Facts, IdFacts
  <1>8. TypeOK'
    <2>1. Images(0 .. flushed) \subseteq Images(0 .. flushed')
      BY <1>1, <1>3, LargerImages DEF Facts, RangeFacts
    <2>2. \A f \in File : file'[f] \in {NoFile, EmptyFile} \cup [id : 1 .. MaxPool, img : Images(0 .. flushed')]
      <3> TAKE f \in File
      <3>1. CASE Open(f)
        BY <1>1, <1>4, <3>1, ImageTypes DEF Struct
      <3>2. CASE ~Open(f)
        BY <1>4, <2>1, <3>2 DEF Struct, TypeOK
      <3> QED BY <3>1, <3>2
    <2>3. file' \in [File -> {NoFile, EmptyFile} \cup [id : 1 .. MaxPool, img : Images(0 .. flushed')]]
      BY <1>1, <2>2
    <2>4. \A p \in 1 .. MaxPool : dblwr'[p] \in {NoImage} \cup Images(0 .. flushed')
      BY <1>6, <2>1 DEF Struct, TypeOK
    <2>5. dblwr' \in [1 .. MaxPool -> {NoImage} \cup Images(0 .. flushed')]
      BY <1>1, <2>4
    <2>6. flushed' \in 0 .. Len(log') /\ ckpt' \in 0 .. flushed'
      BY <1>1, <1>3 DEF Facts, RangeFacts
    <2> QED BY <1>1, <1>h, <2>3, <2>5, <2>6, GoneTypes DEF Struct, TypeOK
  <1>9. GoneKeeps
    <2>1. Len(log') <= Len(log) /\ \A n \in 1 .. Len(log') : n \in 1 .. Len(log) /\ log'[n] = log[n]
      BY <1>1, <1>3 DEF Facts, RangeFacts
    <2>2. \A p \in 1 .. MaxPool : dblwr'[p] # NoImage => dblwr[p] # NoImage
      BY <1>6
    <2> QED BY <1>1, <1>h, <1>4, <1>5, <2>1, <2>2 DEF GoneKeeps
  <1> QED BY <1>1, <1>h, <1>2, <1>4, <1>6, <1>7, <1>8, <1>9

LEMMA CrashKeeps ==
    ASSUME Struct, Crash
    PROVE  /\ GoneKeeps /\ TypeOK' /\ UNCHANGED <<file, dblwr, ckpt, flushed>> /\ status = "up"
           /\ Len(log') = flushed
           /\ hist'.lost = hist.lost \cup hist.late /\ hist'.late = {}
           /\ hist'.refused = hist.refused /\ hist'.stale = hist.stale
           /\ hist'.apart = hist.apart \cup {y \in File \X Row : <<TableOf(y[1]), y[2]>> \in Cut}
  <1> DEFINE marks == {y \in File \X Row : <<TableOf(y[1]), y[2]>> \in Cut}
  <1>1. /\ crashes > 0 /\ crashes' = crashes - 1 /\ log' = SubSeq(log, 1, flushed) /\ status = "up"
        /\ hist' = [hist EXCEPT !.apart = @ \cup marks, !.lost = @ \cup hist.late, !.late = {}] /\ Gone
        /\ UNCHANGED <<scen, quota, meta, file, dblwr, ckpt, flushed>>
    BY DEF Crash
  <1>2. Facts
    BY Typed DEF Struct
  <1>3. flushed \in Nat /\ Len(log) \in Nat /\ flushed <= Len(log) /\ ckpt \in Nat /\ ckpt <= flushed
    BY <1>2 DEF Facts, RangeFacts
  <1>4. \A n \in 1 .. flushed : n \in 1 .. Len(log) /\ log[n] \in Records
    BY <1>2, <1>3 DEF Facts, RecordFacts
  <1>5. /\ log' \in Seq(Records) /\ Len(log') = flushed
        /\ \A n \in 1 .. flushed : log'[n] = log[n]
    <2>1. 1 \in Int /\ flushed \in Int
      BY <1>3
    <2>2. /\ SubSeq(log, 1, flushed) \in Seq(Records)
          /\ Len(SubSeq(log, 1, flushed)) = IF 1 <= flushed THEN flushed - 1 + 1 ELSE 0
          /\ \A i \in 1 .. flushed - 1 + 1 : SubSeq(log, 1, flushed)[i] = log[1 + i - 1]
      BY <1>4, <2>1, SubSeqProperties
    <2>3. flushed - 1 + 1 = flushed /\ (~(1 <= flushed) => flushed = 0) /\ \A i \in 1 .. flushed : 1 + i - 1 = i
      BY <1>3
    <2> QED BY <1>1, <2>2, <2>3
  <1>6. marks \subseteq File \X Row
    OBVIOUS
  <1> HIDE DEF marks
  <1>7. /\ hist' \in Remembered /\ hist'.answered = hist.answered /\ hist'.unfinished = hist.unfinished
        /\ hist'.lost = hist.lost \cup hist.late /\ hist'.late = {} /\ hist'.stale = hist.stale /\ hist'.refused = hist.refused
        /\ hist'.apart = hist.apart \cup marks
    <2>1. hist \in Remembered
      BY DEF Struct, TypeOK
    <2> QED BY <1>1, <1>6, <2>1 DEF Remembered
  <1>8. TypeOK'
    <2>1. crashes' \in Nat
      BY <1>1 DEF Struct, TypeOK
    <2>2. flushed' \in 0 .. Len(log') /\ ckpt' \in 0 .. flushed'
      BY <1>1, <1>3, <1>5
    <2> QED BY <1>1, <1>5, <1>7, <2>1, <2>2, GoneTypes DEF Struct, TypeOK
  <1>9. GoneKeeps
    <2>1. Len(log') <= Len(log) /\ \A n \in 1 .. Len(log') : n \in 1 .. Len(log) /\ log'[n] = log[n]
      BY <1>3, <1>4, <1>5
    <2> QED BY <1>1, <1>7, <2>1 DEF GoneKeeps
  <1>10. hist'.apart = hist.apart \cup {y \in File \X Row : <<TableOf(y[1]), y[2]>> \in Cut}
    BY <1>7 DEF marks
  <1> QED BY <1>1, <1>5, <1>7, <1>8, <1>9, <1>10

(* What a start reads. *)
LEMMA LoadedTypes ==
    ASSUME Struct, NEW f \in File, Complete(f)
    PROVE  /\ Loaded(f) \in Images(0 .. flushed) /\ Loaded(f).rows \subseteq Row /\ Loaded(f).lsn \in Nat
           /\ Loaded(f).lsn <= flushed /\ Loaded(f).lsn <= Len(log)
  <1>1. file[f].id \in 1 .. MaxPool /\ file[f].img \in Images(0 .. flushed)
    BY ImageTypes DEF Struct
  <1>2. dblwr[file[f].id] # NoImage => dblwr[file[f].id] \in Images(0 .. flushed)
    BY <1>1, ImageTypes DEF Struct
  <1>3. Loaded(f) \in Images(0 .. flushed)
    BY <1>1, <1>2 DEF Loaded
  <1>4. flushed \in Nat /\ Len(log) \in Nat /\ flushed <= Len(log)
    BY Typed DEF Struct, Facts, RangeFacts
  <1> QED BY <1>3, <1>4 DEF Images

(* A set of lsns has a largest one. *)
LEMMA LsnMax ==
    ASSUME Struct, NEW S \in SUBSET (1 .. Len(log)), S # {}
    PROVE  Max(S) \in S /\ \A n \in S : n <= Max(S)
  <1>1. Len(log) \in Nat
    BY Typed DEF Struct, Facts, RangeFacts
  <1>2. IsFiniteSet(1 .. Len(log))
    BY <1>1, FS_Interval
  <1>3. IsFiniteSet(S)
    BY <1>2, FS_Subset
  <1>4. S \in SUBSET Int
    BY <1>1
  <1> QED BY <1>3, <1>4, FiniteMax

LEMMA RedoneTypes ==
    ASSUME Struct, NEW f \in File, Complete(f)
    PROVE  Redone(f) \in Images(0 .. Len(log))
  <1> DEFINE img  == Loaded(f)
             all  == {n \in Replayed : n > img.lsn /\ log[n].id = file[f].id}
             lsn  == IF all = {} THEN img.lsn ELSE Max(all)
             rows == {r \in Row : IF {n \in Replayed : n > img.lsn /\ log[n].id = file[f].id /\ log[n].row = r} = {}
                                  THEN r \in img.rows
                                  ELSE log[Max({n \in Replayed : n > img.lsn /\ log[n].id = file[f].id /\ log[n].row = r})].op = "ins"}
  <1>1. Redone(f) = [rows |-> rows, lsn |-> lsn]
    BY DEF Redone
  <1>2. rows \subseteq Row
    OBVIOUS
  <1>3. lsn \in 0 .. Len(log)
    <2>1. Len(log) \in Nat /\ all \in SUBSET (1 .. Len(log))
      BY Typed DEF Struct, Facts, RangeFacts
    <2>2. img.lsn \in Nat /\ img.lsn <= Len(log)
      BY LoadedTypes
    <2>3. all # {} => Max(all) \in 1 .. Len(log)
      <3> HIDE DEF all
      <3> QED BY <2>1, LsnMax
    <2> HIDE DEF all, img
    <2> QED BY <2>1, <2>2, <2>3
  <1> HIDE DEF rows, lsn
  <1> QED BY <1>1, <1>2, <1>3 DEF Images

(* The id counters go on behind everything that was opened. *)
LEMMA AfterIds ==
    ASSUME NEW ids \in SUBSET Int, IsFiniteSet(ids), NEW first \in Nat
    PROVE  /\ After(ids, first) \in Int /\ After(ids, first) >= first /\ \A n \in ids : n < After(ids, first)
           /\ After(ids, first) = first \/ \E n \in ids : After(ids, first) = n + 1
  <1>1. IsFiniteSet(ids \cup {first - 1})
    BY FS_AddElement
  <1>2. PICK all : all = ids \cup {first - 1}
    OBVIOUS
  <1>3. all \in SUBSET Int /\ IsFiniteSet(all) /\ all # {} /\ first - 1 \in all /\ ids \subseteq all
    BY <1>1, <1>2
  <1>4. PICK m : m = Max(all)
    OBVIOUS
  <1>5. m \in all /\ \A x \in all : x <= m
    BY <1>3, <1>4, FiniteMax
  <1>6. m \in Int /\ (m = first - 1 \/ m \in ids)
    BY <1>2, <1>3, <1>5
  <1>7. After(ids, first) = m + 1
    BY <1>2, <1>4 DEF After
  <1>8. m + 1 >= first /\ \A n \in ids : n < m + 1
    BY <1>3, <1>5, <1>6
  <1> QED BY <1>6, <1>7, <1>8

LEMMA StartStarted ==
    ASSUME Struct, Start, InitSucceeds
    PROVE  TypeOK' /\ Started
  <1>1. /\ status = "down" /\ status' = "up"
        /\ opened' = [t \in Table |-> IF t \in Found THEN meta[t] ELSE NoMeta]
        /\ pool' = [f \in File |-> IF f \in ToOpen THEN [file[f] EXCEPT !.img = Redone(f)] ELSE Closed]
        /\ file' = Written(file, ToOpen) /\ dblwr' = Emptied
        /\ nextTable' = After({meta[t].id : t \in Found}, 0)
        /\ nextPool' = After({file[f].id : f \in ToOpen}, 1)
        /\ hist' = [hist EXCEPT !.stale = @ \cup StaleRoots, !.unfinished = @ \ ToOpen]
        /\ UNCHANGED <<scen, quota, crashes, meta, ckpt, log, flushed, client>>
    BY DEF Start, bounds
  <1>2. (\A t \in Found : Opens(t)) /\ \A n \in Replayed : Known(log[n].id)
    BY DEF InitSucceeds, Recovers
  <1>3. Facts
    BY Typed DEF Struct
  <1>4. \A t \in Table : meta[t] # EmptyMeta /\ (t \notin Found => meta[t] = NoMeta)
    BY <1>2 DEF Opens, Found, NoMeta, EmptyMeta
  <1>5. \A f \in ToOpen : f \in File /\ Complete(f)
    <2> SUFFICES ASSUME NEW f \in ToOpen PROVE f \in File /\ Complete(f)
      OBVIOUS
    <2>1. f \in File
      BY <1>3 DEF Facts, ToOpenFacts
    <2>2. PICK t \in Found : f \in FilesOf(t, meta[t].indexes)
      BY DEF ToOpen
    <2>3. file[f] \notin {NoFile, EmptyFile}
      BY <1>2, <2>2 DEF Opens
    <2> QED BY <1>3, <2>1, <2>3 DEF Facts, IdFacts
  <1>6. \A f \in File : ~Opening(f)
    BY IdleSession, <1>1 DEF Opening, Struct, ActorInv, Actor
  <1>7. \A f \in File : Live(f) <=> f \in ToOpen
    BY <1>1, <1>5, <1>6 DEF Live, Struct, ActorInv, Open
  <1>8. ASSUME NEW f \in File
        PROVE  /\ file'[f] \in {NoFile, EmptyFile} \cup [id : 1 .. MaxPool, img : Images(0 .. flushed)]
               /\ file'[f].id = file[f].id /\ (f \notin ToOpen => file'[f] = file[f])
               /\ f \in ToOpen => file'[f].img = Loaded(f)
    <2>1. file'[f] = IF f \in ToOpen /\ dblwr[file[f].id] # NoImage
                     THEN [file[f] EXCEPT !.img = dblwr[file[f].id]] ELSE file[f]
      BY <1>1 DEF Written
    <2>2. CASE f \in ToOpen /\ dblwr[file[f].id] # NoImage
      <3>1. file[f] \in [id : 1 .. MaxPool, img : Images(0 .. flushed)] /\ file[f].id \in 1 .. MaxPool
        BY <1>5, <2>2, ImageTypes DEF Struct
      <3>2. dblwr[file[f].id] \in Images(0 .. flushed)
        BY <2>2, <3>1, ImageTypes DEF Struct
      <3>3. file'[f] = [file[f] EXCEPT !.img = dblwr[file[f].id]]
        BY <2>1, <2>2
      <3> QED BY <2>2, <3>1, <3>2, <3>3 DEF Loaded
    <2>3. CASE ~(f \in ToOpen /\ dblwr[file[f].id] # NoImage)
      BY <2>1, <2>3 DEF Loaded, Struct, TypeOK
    <2> QED BY <2>2, <2>3
  <1>9. file' \in [File -> {NoFile, EmptyFile} \cup [id : 1 .. MaxPool, img : Images(0 .. flushed)]]
    <2>1. file' = [f \in File |-> file'[f]]
      BY <1>1 DEF Written
    <2> QED BY <1>8, <2>1
  <1>10. /\ dblwr' \in [1 .. MaxPool -> {NoImage} \cup Images(0 .. flushed)]
         /\ \A p \in 1 .. MaxPool : dblwr'[p] = NoImage
    BY <1>1 DEF Emptied
  <1>11. \A f \in File : pool'[f] = IF f \in ToOpen THEN [file[f] EXCEPT !.img = Redone(f)] ELSE Closed
    BY <1>1
  <1>12. pool' \in [File -> {Closed} \cup [id : 1 .. MaxPool, img : Images(0 .. Len(log))]]
    <2>1. ASSUME NEW f \in File PROVE pool'[f] \in {Closed} \cup [id : 1 .. MaxPool, img : Images(0 .. Len(log))]
      <3>1. CASE f \in ToOpen
        <4>1. file[f] \in [id : 1 .. MaxPool, img : Images(0 .. flushed)] /\ Redone(f) \in Images(0 .. Len(log))
          BY <1>5, <3>1, ImageTypes, RedoneTypes DEF Struct
        <4> QED BY <1>11, <3>1, <4>1
      <3>2. CASE f \notin ToOpen
        BY <1>11, <3>2
      <3> QED BY <3>1, <3>2
    <2>2. pool' = [f \in File |-> pool'[f]]
      BY <1>1
    <2> QED BY <2>1, <2>2
  <1>13. opened' \in [Table -> Metas] /\ \A t \in Table : opened'[t] = meta[t]
    BY <1>1, <1>4 DEF Struct, TypeOK, Metas
  <1>14. nextTable' \in Nat /\ \A t \in Table : meta[t].id < nextTable'
    <2>1. PICK ids : ids = {meta[t].id : t \in Found}
      OBVIOUS
    <2>2. Found \subseteq Table /\ \A t \in Table : meta[t].id \in Int
      BY <1>3 DEF Found, Facts, IdFacts
    <2>3. IsFiniteSet(Found)
      BY <2>2, NameAssumption, FS_Subset
    <2>4. IsFiniteSet(ids)
      <3> DEFINE g == [t \in Found |-> meta[t].id]
      <3>1. g \in Surjection(Found, ids)
        BY <2>1 DEF Surjection
      <3> QED BY <2>3, <3>1, FS_Surjection
    <2>5. nextTable' = After(ids, 0) /\ ids \subseteq Int
      BY <1>1, <2>1, <2>2
    <2>6. nextTable' \in Int /\ nextTable' >= 0 /\ \A n \in ids : n < nextTable'
      BY <2>4, <2>5, AfterIds
    <2>7. \A t \in Table : t \notin Found => meta[t].id < 0
      BY <1>4 DEF NoMeta
    <2> QED BY <2>1, <2>2, <2>6, <2>7
  <1>15. nextPool' \in 1 .. MaxPool + 1 /\ \A f \in ToOpen : file[f].id < nextPool'
    <2>1. PICK ids : ids = {file[f].id : f \in ToOpen}
      OBVIOUS
    <2>2. ids \subseteq 1 .. MaxPool
      BY <1>5, <2>1, ImageTypes DEF Struct
    <2>3. IsFiniteSet(ids)
      <3>1. IsFiniteSet(1 .. MaxPool)
        BY BoundAssumption, FS_Interval
      <3>2. ids \in SUBSET (1 .. MaxPool)
        BY <2>2
      <3> QED BY <3>1, <3>2, FS_Subset
    <2>4. nextPool' = After(ids, 1) /\ ids \in SUBSET Int
      BY <1>1, <2>1, <2>2, BoundAssumption
    <2>5. /\ nextPool' \in Int /\ nextPool' >= 1 /\ \A n \in ids : n < nextPool'
          /\ nextPool' = 1 \/ \E n \in ids : nextPool' = n + 1
      BY <2>3, <2>4, AfterIds
    <2>6. nextPool' <= MaxPool + 1
      BY <2>2, <2>5, BoundAssumption
    <2> QED BY <2>1, <2>5, <2>6, BoundAssumption
  <1>16. /\ hist' \in Remembered /\ hist'.answered = hist.answered /\ hist'.unfinished = hist.unfinished \ ToOpen
         /\ hist'.apart = hist.apart /\ hist'.lost = hist.lost /\ hist'.late = hist.late /\ hist'.refused = hist.refused
         /\ hist'.stale = hist.stale \cup StaleRoots
    <2>1. hist \in Remembered /\ StaleRoots \subseteq File
      BY <1>5 DEF Struct, TypeOK, StaleRoots
    <2> QED BY <1>1, <2>1 DEF Remembered
  <1>17. TypeOK'
    BY <1>1, <1>9, <1>10, <1>12, <1>13, <1>14, <1>15, <1>16 DEF Struct, TypeOK
  <1>18. Started
    BY <1>1, <1>2, <1>4, <1>5, <1>7, <1>8, <1>10, <1>11, <1>13, <1>14, <1>15, <1>16 DEF Started
  <1> QED BY <1>17, <1>18

LEMMA StartStruct ==
    ASSUME Struct, TypeOK', Started
    PROVE  /\ Struct' /\ ToOpen' = ToOpen
           /\ \A f \in File : (Open(f)' <=> f \in ToOpen) /\ (Live(f)' <=> f \in ToOpen) /\ (Live(f) <=> f \in ToOpen)
           /\ \A a \in Actor : client[a] = Idle
  <1>1. /\ status = "down" /\ status' = "up"
        /\ UNCHANGED <<scen, quota, crashes, meta, ckpt, log, flushed, client>>
        /\ \A t \in Table : opened'[t] = meta[t] /\ meta[t] # EmptyMeta
        /\ \A f \in ToOpen : Complete(f)
        /\ \A f \in File : pool'[f] = IF f \in ToOpen THEN [file[f] EXCEPT !.img = Redone(f)] ELSE Closed
        /\ \A f \in File : file'[f].id = file[f].id /\ (f \notin ToOpen => file'[f] = file[f])
        /\ \A p \in 1 .. MaxPool : dblwr'[p] = NoImage
        /\ \A n \in Replayed : Known(log[n].id)
        /\ \A t \in Table : meta[t].id < nextTable'
        /\ \A f \in ToOpen : file[f].id < nextPool'
        /\ hist'.answered = hist.answered /\ hist'.unfinished = hist.unfinished \ ToOpen
    BY DEF Started
  <1>2. Facts /\ Facts'
    BY Typed, PTL DEF Struct
  <1>3. \A a \in Actor : client[a] = Idle /\ client[a].pc = "idle" /\ ~Ddl(a) /\ ~Ddl(a)'
    BY <1>1, IdleSession DEF Struct, ActorInv, Ddl, TablePcs, IndexPcs, SyncPcs
  <1>4. Main \in Actor /\ \A c \in Client : c \in Actor
    BY DEF Actor
  <1>5. ActorInv'
    BY <1>1, <1>3, <1>4, IdleSession DEF ActorInv, TablePcs, IndexPcs, RowPcs
  <1>6. WorkInv'
    BY <1>1, <1>3, <1>4 DEF WorkInv, TableMade, IndexMade, WorkMade, TablePcs, IndexPcs, SyncPcs, RowPcs
  <1>7. \A f \in File : (Complete(f)' <=> Complete(f)) /\ ~Open(f)
    BY <1>1 DEF Complete, Struct, ActorInv, Open
  <1>8. \A f : ~Opening(f) /\ ~Opening(f)'
    BY <1>1, <1>3, <1>4 DEF Opening
  <1>9. ToOpen' = ToOpen /\ ToOpen \subseteq File
    BY <1>1, <1>2 DEF ToOpen, Found, FilesOf, Facts, ToOpenFacts
  <1>10. \A f \in File : (f \in ToOpen => pool'[f].id = file[f].id) /\ (Open(f)' <=> f \in ToOpen)
    <2> TAKE f \in File
    <2>1. CASE f \in ToOpen
      <3>1. file[f] \in [id : 1 .. MaxPool, img : Images(0 .. flushed)]
        BY <1>1, <2>1, ImageTypes DEF Struct
      <3>2. pool'[f].id = file[f].id
        BY <1>1, <2>1, <3>1
      <3>3. file[f].id # 0
        BY <3>1, BoundAssumption
      <3> QED BY <1>2, <2>1, <3>2, <3>3 DEF Facts, IdFacts
    <2>2. CASE f \notin ToOpen
      BY <1>1, <2>2 DEF Open
    <2> QED BY <2>1, <2>2
  <1>11. \A f \in File : (Live(f)' <=> f \in ToOpen) /\ (Live(f) <=> f \in ToOpen)
    BY <1>1, <1>7, <1>8, <1>9, <1>10 DEF Live
  <1>12. SchemaInv'
    <2>1. ASSUME NEW t \in Table
          PROVE  /\ opened'[t] # NoMeta =>
                      /\ opened'[t].id = meta'[t].id /\ opened'[t].id \in Nat
                      /\ meta'[t].indexes \subseteq opened'[t].indexes
                      /\ Open(Data(t))' /\ \A i \in opened'[t].indexes : Open(<<t, i>>)'
                 /\ Open(Data(t))' => opened'[t] # NoMeta
                 /\ meta'[t] = NoMeta => file'[Data(t)] = NoFile
                 /\ opened'[t] = NoMeta => meta'[t].indexes = {}
                 /\ \A i \in meta'[t].indexes : Complete(<<t, i>>)'
      <3>1. Data(t) \in File /\ (Data(t) \in ToOpen <=> meta[t] # NoMeta) /\ opened'[t] = meta[t] /\ meta[t] # EmptyMeta /\ meta' = meta
        BY <1>1, <1>2, DataFiles DEF Facts, ToOpenFacts
      <3>2. \A i \in meta[t].indexes : <<t, i>> \in File /\ <<t, i>> \in ToOpen /\ Complete(<<t, i>>)
        BY <1>1, <1>2, IndexFiles DEF Facts, ToOpenFacts, IdFacts
      <3>3. meta[t] # NoMeta => meta[t].id \in Nat
        BY <3>1 DEF Struct, TypeOK, Metas
      <3>4. Open(Data(t))' <=> meta[t] # NoMeta
        BY <1>10, <3>1
      <3>5. \A i \in meta[t].indexes : Open(<<t, i>>)' /\ Complete(<<t, i>>)'
        BY <1>7, <1>10, <3>2
      <3>6. meta[t] = NoMeta => file'[Data(t)] = NoFile
        BY <1>1, <3>1 DEF Struct, SchemaInv
      <3>7. meta[t] = NoMeta => meta[t].indexes = {}
        BY DEF NoMeta
      <3> QED BY <3>1, <3>3, <3>4, <3>5, <3>6, <3>7
    <2>2. \A f \in File : Open(f)' => Complete(f)' /\ pool'[f].id = file'[f].id
      BY <1>1, <1>7, <1>10
    <2> QED BY <2>1, <2>2 DEF SchemaInv
  <1>13. Replayed' = Replayed
    BY <1>1 DEF Replayed
  <1>14. IdInv'
    <2>1. \A f, g \in File : Live(f)' /\ Live(g)' /\ f # g => file'[f].id # file'[g].id
      BY <1>1, <1>11 DEF Struct, IdInv
    <2>2. \A n \in 1 .. Len(log') : file'[log'[n].file].id = log'[n].id
      BY <1>1, <1>2 DEF Struct, IdInv, Facts, RecordFacts
    <2>3. \A f \in File, n \in Replayed' : Live(f)' /\ file'[f].id = log'[n].id => log'[n].file = f
      BY <1>1, <1>11, <1>13 DEF Struct, IdInv
    <2>4. \A f \in File : Live(f)' => file'[f].id < nextPool'
      BY <1>1, <1>11
    <2>5. \A n \in Replayed' : log'[n].id < nextPool'
      BY <1>1, <1>13 DEF Known
    <2>6. \A f \in ToOpen' : Complete(f)' => Open(f)' \/ Opening(f)'
      BY <1>9, <1>10
    <2> QED BY <1>1, <2>1, <2>2, <2>3, <2>4, <2>5, <2>6 DEF IdInv
  <1>15. TableIdInv'
    <2>1. \A c \in Client : client'[c].pc \notin {"ct_meta", "ct_init"}
      BY <1>1, <1>3, <1>4
    <2> QED BY <1>1, <2>1 DEF Struct, TableIdInv
  <1>16. UnfinishedInv'
    <2>1. \A f \in ToOpen' : Complete(f)'
      BY <1>1, <1>7, <1>9
    <2>2. \A n \in 1 .. Len(log') : log'[n].file \in ToOpen' \/ log'[n].file \in hist'.unfinished
      BY <1>1, <1>9 DEF Struct, UnfinishedInv
    <2> QED BY <1>1, <1>9, <1>11, <2>1, <2>2 DEF UnfinishedInv
  <1>17. AnsweredInv'
    <2> SUFFICES ASSUME NEW x \in hist.answered
                 PROVE  /\ meta[TableOf(x.file)].id = x.table /\ file'[x.file].id = x.pool
                        /\ x.file # Data(TableOf(x.file)) => x.file[2] \in meta[TableOf(x.file)].indexes
                        /\ opened'[TableOf(x.file)] # NoMeta
      BY <1>1 DEF AnsweredInv
    <2>1. x.file \in File /\ x.table \in Nat /\ TableOf(x.file) \in Table
      BY FileParts DEF Struct, TypeOK, Remembered
    <2>2. /\ meta[TableOf(x.file)].id = x.table /\ file[x.file].id = x.pool
          /\ x.file # Data(TableOf(x.file)) => x.file[2] \in meta[TableOf(x.file)].indexes
      BY DEF Struct, AnsweredInv
    <2>3. meta[TableOf(x.file)] # NoMeta
      BY <2>1, <2>2 DEF NoMeta
    <2> QED BY <1>1, <2>1, <2>2, <2>3
  <1> QED BY <1>3, <1>5, <1>6, <1>9, <1>10, <1>11, <1>12, <1>14, <1>15, <1>16, <1>17 DEF Struct

LEMMA StartFails ==
    ASSUME Struct, Start, ~InitSucceeds
    PROVE  /\ Struct' /\ status = "down" /\ status' = "failed"
           /\ UNCHANGED <<scen, quota, crashes, dirVars, opened, pool, nextTable, nextPool, client, hist>>
  <1>1. /\ status = "down" /\ status' = "failed"
        /\ UNCHANGED <<scen, quota, crashes, meta, file, dblwr, ckpt, log, flushed, opened, pool, nextTable, nextPool, client, hist>>
    BY DEF Start, bounds
  <1>2. TypeOK'
    BY <1>1 DEF Struct, TypeOK
  <1>3. ActorInv'
    BY <1>1 DEF Struct, ActorInv, Ddl
  <1>4. WorkInv'
    <2>1. \A c \in Client : client'[c].pc = "idle"
      BY <1>1, IdleSession DEF Struct, ActorInv, Actor
    <2> QED BY <2>1 DEF WorkInv, TableMade, IndexMade, WorkMade, TablePcs, IndexPcs, SyncPcs, RowPcs
  <1>5. SchemaInv' /\ TableIdInv' /\ AnsweredInv'
    BY <1>1 DEF Struct, SchemaInv, TableIdInv, AnsweredInv, Complete, Open
  <1>6. ToOpen' = ToOpen /\ Replayed' = Replayed
    BY <1>1 DEF ToOpen, Found, FilesOf, Replayed
  <1>7. \A f : (Live(f)' <=> Live(f)) /\ (Complete(f)' <=> Complete(f))
    BY <1>1, <1>6 DEF Live, Complete, Open, Opening, Target
  <1>8. IdInv'
    BY <1>1, <1>6, <1>7 DEF Struct, IdInv
  <1>9. UnfinishedInv'
    BY <1>1, <1>6, <1>7 DEF Struct, UnfinishedInv
  <1> QED BY <1>1, <1>2, <1>3, <1>4, <1>5, <1>8, <1>9 DEF Struct, dirVars

LEMMA InitStruct == Init => Struct /\ WaitInv
  <1> SUFFICES ASSUME Init PROVE Struct /\ WaitInv
    OBVIOUS
  <1>1. /\ scen \in Scenarios /\ quota = scen.quota /\ crashes = scen.crashes
        /\ meta = [t \in Table |-> NoMeta] /\ file = [f \in File |-> NoFile]
        /\ dblwr = [p \in 1 .. MaxPool |-> NoImage] /\ ckpt = 0 /\ log = <<>> /\ flushed = 0
        /\ status = "down" /\ opened = [t \in Table |-> NoMeta] /\ pool = [f \in File |-> Closed]
        /\ nextTable = 0 /\ nextPool = 1 /\ client = [a \in Actor |-> Idle]
        /\ hist = [answered |-> {}, unfinished |-> {}, apart |-> {}, late |-> {}, lost |-> {}, refused |-> {},
                   stale |-> {}]
    BY DEF Init, Emptied
  <1>2. quota \in [Client -> Nat] /\ crashes \in Nat
    BY <1>1, ScenarioAssumption
  <1>3. log \in Seq(Records) /\ Len(log) = 0
    BY <1>1
  <1>4. flushed \in 0 .. Len(log) /\ ckpt \in 0 .. flushed
    BY <1>1, <1>3
  <1>5. nextTable \in Nat /\ nextPool \in 1 .. MaxPool + 1
    BY <1>1, BoundAssumption
  <1>6. meta \in [Table -> Metas] /\ opened \in [Table -> Metas]
    BY <1>1 DEF Metas
  <1>7. hist \in Remembered /\ hist.answered = {}
    BY <1>1 DEF Remembered
  <1>8. client \in [Actor -> Sessions] /\ \A a \in Actor : client[a] = Idle /\ client[a].pc = "idle" /\ client[a].row = 0
    BY <1>1, IdleSession
  <1>9. TypeOK
    BY <1>1, <1>2, <1>3, <1>4, <1>5, <1>6, <1>7, <1>8 DEF TypeOK
  <1>10. Facts
    BY <1>9, Typed
  <1>11. Main \in Actor /\ \A c \in Client : c \in Actor
    BY DEF Actor
  <1>12. /\ \A t \in Table : meta[t] = NoMeta /\ meta[t].id = -2 /\ meta[t].indexes = {}
         /\ \A f \in File : ~Complete(f) /\ ~Open(f) /\ file[f] = NoFile
    BY <1>1 DEF NoMeta, NoFile, Complete, Open
  <1>13. ActorInv
    BY <1>1, <1>8, <1>11 DEF ActorInv, Ddl, TablePcs, IndexPcs, SyncPcs, RowPcs
  <1>14. WorkInv
    BY <1>8, <1>11 DEF WorkInv, TableMade, IndexMade, WorkMade, TablePcs, IndexPcs, SyncPcs, RowPcs
  <1>15. SchemaInv
    BY <1>1, <1>12, DataFiles DEF SchemaInv
  <1>16. ToOpen = {}
    <2>1. Found = {}
      BY <1>12 DEF Found
    <2> QED BY <2>1 DEF ToOpen
  <1>17. \A n : n \notin 1 .. Len(log) /\ n \notin Replayed
    BY <1>3, <1>10 DEF Facts, RangeFacts
  <1>18. IdInv
    BY <1>1, <1>12, <1>17 DEF IdInv, Live
  <1>19. TableIdInv
    BY <1>1, <1>8, <1>11, <1>12 DEF TableIdInv
  <1>20. UnfinishedInv
    BY <1>12, <1>16, <1>17 DEF UnfinishedInv, Live, NoMeta, EmptyMeta
  <1>21. AnsweredInv
    BY <1>7 DEF AnsweredInv
  <1>22. WaitInv
    BY <1>8 DEF WaitInv
  <1> QED BY <1>9, <1>13, <1>14, <1>15, <1>18, <1>19, <1>20, <1>21, <1>22 DEF Struct

-----------------------------------------------------------------------------
(* The steps together. *)

(* A session that is not about to write a check point. *)
LEMMA WaitStep ==
    ASSUME TypeOK, WaitInv, NEW a \in Actor, NEW s \in Sessions, client' = [client EXCEPT ![a] = s],
           s.pc # "s_wait", ckpt' = ckpt
    PROVE  WaitInv'
  <1>1. client'[a] = s /\ \A b \in Actor : b # a => client'[b] = client[b]
    BY SessionStep
  <1> QED BY <1>1 DEF WaitInv

LEMMA NextSteps ==
    ASSUME TypeOK, Next
    PROVE  \/ \E c \in Client : RowStep(c) \/ SchemaAction(c)
           \/ \E a \in Actor : SyncStep(a)
           \/ FlushLog \/ DblwrFull \/ (\E f \in File : Evict(f))
           \/ (\E f \in File, rows \in SUBSET Row : Drop(f, rows))
           \/ Destroy \/ Close \/ Crash \/ Start
           \/ UNCHANGED vars
  <1>1. /\ scen.tables \subseteq Table /\ scen.indexes \subseteq Index /\ scen.rows \subseteq Row
        /\ scen.loads \subseteq Seq({"good", "bad"})
    BY ScenarioAssumption DEF TypeOK
  <1>2. Main \in Actor /\ \A c \in Client : c \in Actor
    BY DEF Actor
  <1>3. ASSUME NEW c \in Client, Statement(c) PROVE RowStep(c) \/ SchemaAction(c)
    <2>1. PICK t \in scen.tables :
              \/ \E good \in BOOLEAN : CreateTable(c, t, good)
              \/ \E i \in scen.indexes : CreateIndex(c, t, i)
              \/ \E r \in scen.rows : Insert(c, t, r) \/ Delete(c, t, r)
              \/ \E lines \in scen.loads : Load(c, t, lines)
      BY <1>3, Zenon DEF Statement
    <2>2. t \in Table
      BY <1>1
    <2>3. CASE \E good \in BOOLEAN : CreateTable(c, t, good)
      BY <2>2, <2>3, Zenon DEF SchemaAction
    <2>4. CASE \E i \in scen.indexes : CreateIndex(c, t, i)
      <3>1. \E i \in Index : CreateIndex(c, t, i)
        BY <1>1, <2>4, Zenon
      <3> QED BY <2>2, <3>1, Zenon DEF SchemaAction
    <2>5. CASE \E r \in scen.rows : Insert(c, t, r) \/ Delete(c, t, r)
      <3>1. \E r \in Row : Insert(c, t, r) \/ Delete(c, t, r)
        BY <1>1, <2>5, Zenon
      <3> QED BY <2>2, <3>1, Zenon DEF RowStep
    <2>6. CASE \E lines \in scen.loads : Load(c, t, lines)
      <3>1. \E lines \in Seq({"good", "bad"}) : Load(c, t, lines)
        BY <1>1, <2>6, Zenon
      <3> QED BY <2>2, <3>1, Zenon DEF RowStep
    <2> QED BY <2>1, <2>3, <2>4, <2>5, <2>6
  <1>4. ASSUME NEW c \in Client, Work(c) PROVE RowStep(c) \/ SchemaAction(c) \/ SyncStep(c)
    <2>1. CASE \/ CreateMetaFile(c) \/ WriteMeta(c) \/ CreateTableEnd(c)
               \/ CreateFile(c, "ct_data", Data(client[c].t), "ct_header")
               \/ WriteHeader(c, "ct_header", Data(client[c].t), "ct_open")
               \/ CreateFile(c, "ci_file", IndexFile(c), "ci_header")
               \/ WriteHeader(c, "ci_header", IndexFile(c), "ci_create")
               \/ CreateTree(c) \/ FlushTree(c) \/ ScanRows(c) \/ CreateIndexFails(c) \/ PushIndex(c) \/ RenameMeta(c)
               \/ SyncFails(c)
      BY <2>1, Zenon DEF SchemaAction
    <2>2. CASE SyncStep(c)
      BY <2>2
    <2>3. CASE \E r \in scen.rows : LoadLine(c, r)
      <3>1. \E r \in Row : LoadLine(c, r)
        BY <1>1, <2>3, Zenon
      <3> QED BY <3>1, Zenon DEF RowStep
    <2>4. CASE \/ LoadEnd(c) \/ BeginEntries(c, "i_begin", "i_entry")
               \/ InsertEnd(c) \/ EntryFails(c) \/ UndoFails(c) \/ UndoRecord(c) \/ DeleteRecord(c) \/ RecordFails(c)
               \/ \E f \in File : InsertEntry(c, f) \/ UndoEntry(c, f) \/ DeleteEntry(c, f) \/ DeleteEntryFails(c, f)
      BY <2>4, Zenon DEF RowStep
    <2> QED BY <1>4, <2>1, <2>2, <2>3, <2>4, Zenon DEF Work
  <1>5. ASSUME NEW f \in File, NEW rows \in SUBSET scen.rows, Drop(f, rows)
        PROVE  \E q \in SUBSET Row : Drop(f, q)
    <2>1. rows \in SUBSET Row
      BY <1>1
    <2> QED BY <1>5, <2>1, Zenon
  <1> QED BY <1>2, <1>3, <1>4, <1>5, Zenon DEF Next

(* What the row statements share: they work on one row of one file, or on none. *)
LEMMA RowSteps ==
    ASSUME Struct, NEW c \in Client, RowStep(c)
    PROVE  /\ status = "up" /\ client[Main].pc = "idle" /\ client[c].pc \in RowPcs \cup {"l_line", "idle"} /\ c \in Actor
           /\ \E s : RowTo(c, s) /\ (RowPause \/ \E f, op, r : RowWork(f, op, r))
  <1>1. c \in Actor
    BY DEF Actor
  <1>2. \A op : Issue(c, op) => status = "up" /\ client[Main].pc = "idle" /\ client[c].pc = "idle"
    BY DEF Issue, Quiet
  <1>3. client[c].pc # "idle" => status = "up" /\ client[Main].pc = "idle"
    BY Working DEF Struct
  <1>4. ASSUME NEW t \in Table, NEW r \in Row, Insert(c, t, r)
        PROVE  client[c].pc = "idle" /\ status = "up" /\ client[Main].pc = "idle"
               /\ \E s : RowTo(c, s) /\ \E f, op, q : RowWork(f, op, q)
    <2>1. Issue(c, "insert")
      BY <1>4 DEF Insert
    <2>2. client[c].pc = "idle" /\ status = "up" /\ client[Main].pc = "idle"
      BY <1>2, <2>1
    <2> QED BY <1>4, <2>2, InsertWork
  <1>5. ASSUME NEW t \in Table, NEW r \in Row, Delete(c, t, r)
        PROVE  client[c].pc = "idle" /\ status = "up" /\ client[Main].pc = "idle" /\ RowPause /\ \E s : RowTo(c, s)
    <2>1. Issue(c, "delete")
      BY <1>5 DEF Delete
    <2>2. client[c].pc = "idle" /\ status = "up" /\ client[Main].pc = "idle"
      BY <1>2, <2>1
    <2> QED BY <1>5, <2>2, DeletePause
  <1>6. ASSUME NEW t \in Table, NEW lines \in Seq({"good", "bad"}), Load(c, t, lines)
        PROVE  client[c].pc = "idle" /\ status = "up" /\ client[Main].pc = "idle" /\ RowPause /\ \E s : RowTo(c, s)
    <2>1. Issue(c, "load")
      BY <1>6 DEF Load
    <2>2. client[c].pc = "idle" /\ status = "up" /\ client[Main].pc = "idle"
      BY <1>2, <2>1
    <2> QED BY <1>6, <2>2, LoadPause
  <1>7. ASSUME NEW r \in Row, LoadLine(c, r)
        PROVE  client[c].pc = "l_line" /\ \E s : RowTo(c, s) /\ \E f, op, q : RowWork(f, op, q)
    <2>1. PICK t : t = client[c].t
      OBVIOUS
    <2>2. client[c].pc = "l_line" /\ RowWork(Data(t), "ins", r) /\ \E s : RowTo(c, s)
      BY <1>7, <2>1, LoadLineWork
    <2> QED BY <2>2
  <1>8. ASSUME LoadEnd(c) PROVE client[c].pc = "l_line" /\ RowPause /\ \E s : RowTo(c, s)
    BY <1>8, LoadEndPause
  <1>9. ASSUME BeginEntries(c, "i_begin", "i_entry") PROVE client[c].pc = "i_begin" /\ RowPause /\ \E s : RowTo(c, s)
    BY <1>9, BeginEntriesPause
  <1>10. ASSUME NEW f, InsertEntry(c, f)
         PROVE  client[c].pc = "i_entry" /\ \E s : RowTo(c, s) /\ \E g, op, q : RowWork(g, op, q)
    BY <1>10, InsertEntryWork
  <1>11. ASSUME NEW f, UndoEntry(c, f) \/ (DeleteEntry(c, f) /\ client[c].row \in pool[f].img.rows)
         PROVE  client[c].pc \in {"i_undo", "d_entry"} /\ \E s : RowTo(c, s) /\ \E g, op, q : RowWork(g, op, q)
    BY <1>11, UndoEntryWork
  <1>12. ASSUME NEW f, DeleteEntry(c, f), client[c].row \notin pool[f].img.rows
         PROVE  client[c].pc = "d_entry" /\ RowPause /\ \E s : RowTo(c, s)
    BY <1>12, DeleteEntryPause
  <1>13. ASSUME InsertEnd(c) PROVE client[c].pc = "i_entry" /\ RowPause /\ \E s : RowTo(c, s)
    <2>1. PICK t, r : t = client[c].t /\ r = client[c].row
      OBVIOUS
    <2> QED BY <1>13, <2>1, InsertEndPause
  <1>14. ASSUME EntryFails(c) PROVE client[c].pc = "i_entry" /\ RowPause /\ \E s : RowTo(c, s)
    BY <1>14, EntryFailsPause
  <1>15. ASSUME UndoRecord(c) \/ DeleteRecord(c)
         PROVE  client[c].pc \in {"i_undo", "d_entry"} /\ \E s : RowTo(c, s) /\ \E g, op, q : RowWork(g, op, q)
    <2>1. PICK t, r : t = client[c].t /\ r = client[c].row
      OBVIOUS
    <2>2. client[c].pc \in {"i_undo", "d_entry"} /\ RowWork(Data(t), "del", r) /\ RowTo(c, Idle)
      BY <1>15, <2>1, RecordWork
    <2> QED BY <2>2
  <1>f. ASSUME UndoFails(c) \/ RecordFails(c) \/ \E f : DeleteEntryFails(c, f)
        PROVE  client[c].pc \in {"i_undo", "d_entry"} /\ RowPause /\ \E s : RowTo(c, s)
    <2>1. CASE UndoFails(c)
      BY <2>1, UndoFailsPause
    <2>2. CASE RecordFails(c)
      BY <2>2, RecordFailsPause
    <2>3. CASE \E f : DeleteEntryFails(c, f)
      BY <2>3, DeleteEntryFailsPause
    <2> QED BY <1>f, <2>1, <2>2, <2>3
  <1>16. {"i_begin", "i_entry", "i_undo", "d_entry"} = RowPcs
    BY DEF RowPcs
  <1>17. \/ client[c].pc = "idle" /\ status = "up" /\ client[Main].pc = "idle"
         \/ client[c].pc \in RowPcs \cup {"l_line"}
    BY <1>4, <1>5, <1>6, <1>7, <1>8, <1>9, <1>10, <1>11, <1>12, <1>13, <1>14, <1>15, <1>f, <1>16 DEF RowStep
  <1>18. \E s : RowTo(c, s) /\ (RowPause \/ \E f, op, r : RowWork(f, op, r))
    BY <1>4, <1>5, <1>6, <1>7, <1>8, <1>9, <1>10, <1>11, <1>12, <1>13, <1>14, <1>15, <1>f, Zenon DEF RowStep
  <1>19. client[c].pc # "idle" \/ (status = "up" /\ client[Main].pc = "idle")
    BY <1>16, <1>17
  <1> QED BY <1>1, <1>3, <1>17, <1>18, <1>19

LEMMA RowStepStruct ==
    ASSUME Struct, WaitInv, NEW c \in Client, RowStep(c)
    PROVE  Struct' /\ WaitInv'
  <1>1. /\ status = "up" /\ client[Main].pc = "idle" /\ client[c].pc \in RowPcs \cup {"l_line", "idle"} /\ c \in Actor
        /\ \E s : RowTo(c, s) /\ (RowPause \/ \E f, op, r : RowWork(f, op, r))
    BY RowSteps
  <1>2. PICK s : RowTo(c, s) /\ (RowPause \/ \E f, op, r : RowWork(f, op, r))
    BY <1>1
  <1>3. s \in Sessions /\ s.pc # "s_wait" /\ RowSession(s) /\ client' = [client EXCEPT ![c] = s]
    BY <1>2 DEF RowTo, RowSession, RowPcs
  <1>4. CASE RowPause
    <2>1. Struct'
      BY <1>1, <1>2, <1>4, RowPauseStruct
    <2>2. ckpt' = ckpt
      BY <1>4 DEF RowPause, dirVars
    <2> QED BY <1>1, <1>3, <2>1, <2>2, WaitStep DEF Struct
  <1>5. CASE \E f, op, r : RowWork(f, op, r)
    <2>1. PICK f, op, r : RowWork(f, op, r)
      BY <1>5
    <2>2. Struct'
      BY <1>1, <1>3, <2>1, RowWorkStruct
    <2>3. ckpt' = ckpt
      BY <2>1 DEF RowWork
    <2> QED BY <1>1, <1>3, <2>2, <2>3, WaitStep DEF Struct
  <1> QED BY <1>2, <1>4, <1>5

LEMMA RefusedSteps ==
    ASSUME Struct, WaitInv, NEW c \in Client, Refused(c)
    PROVE  Struct' /\ WaitInv'
  <1>1. c \in Actor /\ ckpt' = ckpt
    BY DEF Actor, Refused, dirVars
  <1>2. CASE UNCHANGED client /\ \E op : Issue(c, op)
    <2>1. PICK op : Issue(c, op)
      BY <1>2
    <2>2. Struct'
      BY <1>2, <2>1, RefusedStruct DEF Refused
    <2>3. WaitInv'
      BY <1>1, <1>2 DEF WaitInv
    <2> QED BY <2>2, <2>3
  <1>3. CASE /\ UNCHANGED quota /\ Answer(c)
             /\ client[c].pc \in (TablePcs \cup IndexPcs \cup SyncPcs) \ {"ct_open", "ci_create"}
    <2>1. UNCHANGED <<bounds, dirVars, memVars, hist>>
      BY <1>3 DEF Refused, bounds
    <2>2. client[c].pc \notin {"idle", "ct_open", "ci_create"}
      BY <1>3 DEF TablePcs, IndexPcs, SyncPcs
    <2>3. Struct'
      BY <1>3, <2>1, <2>2, HalfWayStruct
    <2>4. client' = [client EXCEPT ![c] = Idle] /\ Idle \in Sessions /\ Idle.pc # "s_wait"
      BY <1>3, IdleSession DEF Answer
    <2> QED BY <1>1, <2>3, <2>4, WaitStep DEF Struct
  <1> QED BY <1>2, <1>3 DEF Refused

LEMMA SchemaActions ==
    ASSUME Struct, NEW c \in Client, SchemaAction(c)
    PROVE  Creates(c) \/ Refused(c)
  <1>1. client[c].pc \in TablePcs => Data(client[c].t) \in File
    BY DataFiles DEF Struct, ActorInv, TablePcs
  <1>2. client[c].pc \in IndexPcs => <<client[c].t, client[c].i>> \in File /\ IndexFile(c) = <<client[c].t, client[c].i>>
    BY IndexFiles DEF Struct, ActorInv, IndexPcs, IndexFile
  <1>3. ASSUME NEW t \in Table, NEW good \in BOOLEAN, CreateTable(c, t, good) PROVE Creates(c) \/ Refused(c)
    <2>1. CASE opened[t] = NoMeta
      BY <1>3, <2>1, Zenon DEF Creates
    <2>2. CASE opened[t] # NoMeta
      BY <1>3, <2>2 DEF CreateTable, Refused, memVars
    <2> QED BY <2>1, <2>2
  <1>4. ASSUME NEW t \in Table, NEW i \in Index, CreateIndex(c, t, i) PROVE Creates(c) \/ Refused(c)
    <2>1. CASE opened[t] # NoMeta /\ i \notin opened[t].indexes
      BY <1>4, <2>1, Zenon DEF Creates
    <2>2. CASE ~(opened[t] # NoMeta /\ i \notin opened[t].indexes)
      BY <1>4, <2>2 DEF CreateIndex, Refused
    <2> QED BY <2>1, <2>2
  <1>5. ASSUME CreateMetaFile(c) PROVE Creates(c) \/ Refused(c)
    <2>1. CASE meta[client[c].t] = NoMeta
      BY <1>5, <2>1 DEF Creates
    <2>2. CASE meta[client[c].t] # NoMeta
      BY <1>5, <2>2 DEF CreateMetaFile, Refused, TablePcs, dirVars, bounds
    <2> QED BY <2>1, <2>2
  <1>6. ASSUME WriteMeta(c) PROVE Creates(c) \/ Refused(c)
    <2>1. CASE FieldsOk(c)
      BY <1>6, <2>1 DEF Creates
    <2>2. CASE ~FieldsOk(c)
      BY <1>6, <2>2 DEF WriteMeta, Refused, TablePcs, dirVars, bounds
    <2> QED BY <2>1, <2>2
  <1>7. ASSUME CreateFile(c, "ct_data", Data(client[c].t), "ct_header") PROVE Creates(c) \/ Refused(c)
    <2>1. client[c].pc = "ct_data"
      BY <1>7 DEF CreateFile
    <2>2. Data(client[c].t) \in File
      BY <1>1, <2>1 DEF TablePcs
    <2>3. CASE file[Data(client[c].t)] = NoFile
      BY <1>7, <2>2, <2>3, Zenon DEF Creates
    <2>4. CASE file[Data(client[c].t)] # NoFile
      BY <1>7, <2>1, <2>4 DEF CreateFile, Refused, TablePcs, dirVars, bounds
    <2> QED BY <2>3, <2>4
  <1>8. ASSUME CreateFile(c, "ci_file", IndexFile(c), "ci_header") PROVE Creates(c) \/ Refused(c)
    <2>1. client[c].pc = "ci_file"
      BY <1>8 DEF CreateFile
    <2>2. IndexFile(c) = <<client[c].t, client[c].i>> /\ <<client[c].t, client[c].i>> \in File
      BY <1>2, <2>1 DEF IndexPcs
    <2>3. PICK f \in File : f = <<client[c].t, client[c].i>>
      BY <2>2
    <2>4. CreateFile(c, "ci_file", f, "ci_header")
      BY <1>8, <2>2, <2>3
    <2>5. CASE file[f] = NoFile
      BY <2>3, <2>4, <2>5, Zenon DEF Creates
    <2>6. CASE file[f] # NoFile
      BY <2>1, <2>4, <2>6 DEF CreateFile, Refused, IndexPcs, dirVars, bounds
    <2> QED BY <2>5, <2>6
  <1>9. ASSUME WriteHeader(c, "ct_header", Data(client[c].t), "ct_open") PROVE Creates(c)
    <2>1. client[c].pc = "ct_header"
      BY <1>9 DEF WriteHeader
    <2>2. Data(client[c].t) \in File
      BY <1>1, <2>1 DEF TablePcs
    <2> QED BY <1>9, <2>2, Zenon DEF Creates
  <1>10. ASSUME WriteHeader(c, "ci_header", IndexFile(c), "ci_create") PROVE Creates(c)
    <2>1. client[c].pc = "ci_header"
      BY <1>10 DEF WriteHeader
    <2>2. IndexFile(c) = <<client[c].t, client[c].i>> /\ <<client[c].t, client[c].i>> \in File
      BY <1>2, <2>1 DEF IndexPcs
    <2>3. PICK f \in File : f = <<client[c].t, client[c].i>>
      BY <2>2
    <2>4. WriteHeader(c, "ci_header", f, "ci_create")
      BY <1>10, <2>2, <2>3
    <2> QED BY <2>3, <2>4, Zenon DEF Creates
  <1>11. ASSUME CreateIndexFails(c) PROVE Refused(c)
    BY <1>11 DEF CreateIndexFails, Refused, IndexPcs, bounds
  <1>s. ASSUME SyncFails(c) PROVE Refused(c)
    BY <1>s DEF SyncFails, Refused, SyncPcs, bounds
  <1>12. ASSUME CreateTableEnd(c) \/ CreateTree(c) \/ FlushTree(c) \/ ScanRows(c) \/ PushIndex(c) \/ RenameMeta(c)
         PROVE  Creates(c)
    BY <1>12 DEF Creates
  <1> QED BY <1>3, <1>4, <1>5, <1>6, <1>7, <1>8, <1>9, <1>10, <1>11, <1>s, <1>12, Zenon DEF SchemaAction

LEMMA CreatesStruct ==
    ASSUME Struct, WaitInv, NEW c \in Client, Creates(c)
    PROVE  Struct' /\ WaitInv'
  <1>1. c \in Actor
    BY DEF Actor
  <1>2. ASSUME \E s : SchemaSession(c, s) /\ s.pc # "s_wait", ckpt' = ckpt PROVE WaitInv'
    <2>1. PICK s : SchemaSession(c, s) /\ s.pc # "s_wait"
      BY <1>2
    <2> QED BY <1>1, <1>2, <2>1, WaitStep DEF SchemaSession, Struct
  <1>3. ASSUME NEW t \in Table, NEW good \in BOOLEAN, CreateTable(c, t, good), opened[t] = NoMeta PROVE Struct' /\ WaitInv'
    <2>1. Struct' /\ \E s \in Sessions : client' = [client EXCEPT ![c] = s] /\ s.pc = "ct_meta"
      BY <1>3, CreateTableStruct
    <2>2. ckpt' = ckpt
      BY <1>3 DEF CreateTable, dirVars
    <2> QED BY <1>1, <2>1, <2>2, WaitStep DEF Struct
  <1>4. ASSUME NEW t \in Table, NEW i \in Index, CreateIndex(c, t, i), opened[t] # NoMeta, i \notin opened[t].indexes
        PROVE  Struct' /\ WaitInv'
    <2>1. Struct' /\ \E s \in Sessions : client' = [client EXCEPT ![c] = s] /\ s.pc = "ci_file"
      BY <1>4, CreateIndexStruct
    <2>2. ckpt' = ckpt
      BY <1>4 DEF CreateIndex, dirVars
    <2> QED BY <1>1, <2>1, <2>2, WaitStep DEF Struct
  <1>5. ASSUME CreateMetaFile(c), meta[client[c].t] = NoMeta PROVE Struct' /\ WaitInv'
    <2>1. Struct' /\ \E s : SchemaSession(c, s) /\ s.pc # "s_wait"
      BY <1>5, CreateMetaFileStruct
    <2>2. ckpt' = ckpt
      BY <1>5 DEF CreateMetaFile
    <2> QED BY <1>2, <2>1, <2>2
  <1>6. ASSUME WriteMeta(c), FieldsOk(c) PROVE Struct' /\ WaitInv'
    <2>1. Struct' /\ \E s : SchemaSession(c, s) /\ s.pc # "s_wait"
      BY <1>6, WriteMetaStruct
    <2>2. ckpt' = ckpt
      BY <1>6 DEF WriteMeta
    <2> QED BY <1>2, <2>1, <2>2
  <1>7. ASSUME NEW f \in File, file[f] = NoFile,
               \/ CreateFile(c, "ct_data", f, "ct_header") /\ f = Data(client[c].t)
               \/ CreateFile(c, "ci_file", f, "ci_header") /\ f = <<client[c].t, client[c].i>>
        PROVE  Struct' /\ WaitInv'
    <2>1. Struct' /\ \E s : SchemaSession(c, s) /\ s.pc \in {"ct_header", "ci_header"}
      BY <1>7, CreateFileStruct
    <2>2. ckpt' = ckpt
      BY <1>7 DEF CreateFile
    <2> QED BY <1>2, <2>1, <2>2
  <1>8. ASSUME NEW f \in File,
               \/ WriteHeader(c, "ct_header", f, "ct_open") /\ f = Data(client[c].t)
               \/ WriteHeader(c, "ci_header", f, "ci_create") /\ f = <<client[c].t, client[c].i>>
        PROVE  Struct' /\ WaitInv'
    <2>1. Struct' /\ \E s : SchemaSession(c, s) /\ s.pc \in {"ct_open", "ci_create"}
      BY <1>8, WriteHeaderStruct
    <2>2. ckpt' = ckpt
      BY <1>8 DEF WriteHeader
    <2> QED BY <1>2, <2>1, <2>2
  <1>9. ASSUME CreateTableEnd(c) PROVE Struct' /\ WaitInv'
    <2>1. PICK f : f = Data(client[c].t)
      OBVIOUS
    <2>2. Struct' /\ OpensFile(c, f) /\ \E s : SchemaSession(c, s) /\ s.pc = "s_files"
      BY <1>9, <2>1, CreateTableEndStruct
    <2>3. ckpt' = ckpt
      BY <2>2 DEF OpensFile
    <2> QED BY <1>2, <2>2, <2>3
  <1>10. ASSUME CreateTree(c) PROVE Struct' /\ WaitInv'
    <2>1. PICK f : f = IndexFile(c)
      OBVIOUS
    <2>2. Struct' /\ OpensFile(c, f) /\ \E s : SchemaSession(c, s) /\ s.pc = "ci_sync"
      BY <1>10, <2>1, CreateTreeStruct
    <2>3. ckpt' = ckpt
      BY <2>2 DEF OpensFile
    <2> QED BY <1>2, <2>2, <2>3
  <1>11. ASSUME FlushTree(c) PROVE Struct' /\ WaitInv'
    <2>1. Struct' /\ \E s : SchemaSession(c, s) /\ s.pc = "ci_scan"
      BY <1>11, FlushTreeStruct
    <2>2. ckpt' = ckpt
      BY <1>11 DEF FlushTree
    <2> QED BY <1>2, <2>1, <2>2
  <1>12. ASSUME ScanRows(c) PROVE Struct' /\ WaitInv'
    <2>1. Struct' /\ \E s : SchemaSession(c, s) /\ s.pc = "ci_push"
      BY <1>12, ScanRowsStruct
    <2>2. ckpt' = ckpt
      BY <1>12 DEF ScanRows
    <2> QED BY <1>2, <2>1, <2>2
  <1>13. ASSUME PushIndex(c) PROVE Struct' /\ WaitInv'
    <2>1. Struct' /\ \E s : SchemaSession(c, s) /\ s.pc = "ci_rename"
      BY <1>13, PushIndexStruct
    <2>2. ckpt' = ckpt
      BY <1>13 DEF PushIndex, dirVars
    <2> QED BY <1>2, <2>1, <2>2
  <1>14. ASSUME RenameMeta(c) PROVE Struct' /\ WaitInv'
    <2>1. PICK f : f = IndexFile(c)
      OBVIOUS
    <2>2. Struct' /\ \E s : SchemaSession(c, s) /\ s.pc = "s_files"
      BY <1>14, <2>1, RenameMetaStruct
    <2>3. ckpt' = ckpt
      BY <1>14 DEF RenameMeta
    <2> QED BY <1>2, <2>2, <2>3
  <1> QED BY <1>3, <1>4, <1>5, <1>6, <1>7, <1>8, <1>9, <1>10, <1>11, <1>12, <1>13, <1>14, Zenon DEF Creates

LEMMA SyncStepStruct ==
    ASSUME Struct, WaitInv, NEW a \in Actor, SyncStep(a)
    PROVE  Struct' /\ WaitInv'
  <1>1. ASSUME NEW f \in File, SyncFile(a, f) PROVE Struct' /\ WaitInv'
    <2>1. \E s \in Sessions : client' = [client EXCEPT ![a] = s] /\ s.pc = "s_files"
      BY <1>1, SyncFileSession
    <2>2. ckpt' = ckpt
      BY <1>1 DEF SyncFile
    <2> QED BY <1>1, <2>1, <2>2, SyncFileStruct, WaitStep DEF Struct
  <1>2. ASSUME SyncDblwr(a) PROVE Struct' /\ WaitInv'
    <2>1. \E s \in Sessions : client' = [client EXCEPT ![a] = s] /\ s.pc = "s_lsn"
      BY <1>2, GotoStep DEF SyncDblwr, Struct, Pcs, SyncPcs
    <2>2. ckpt' = ckpt
      BY <1>2 DEF SyncDblwr
    <2> QED BY <1>2, <2>1, <2>2, SyncDblwrStruct, WaitStep DEF Struct
  <1>3. ASSUME SyncLsn(a) PROVE Struct' /\ WaitInv'
    <2>1. PICK s \in Sessions : client' = [client EXCEPT ![a] = s] /\ s.lsn = Len(log)
      BY <1>3, SyncLsnSession
    <2>2. client'[a] = s /\ \A b \in Actor : b # a => client'[b] = client[b]
      BY <2>1, SessionStep DEF Struct
    <2>3. ckpt' = ckpt
      BY <1>3 DEF SyncLsn, dirVars
    <2>4. ckpt <= Len(log)
      BY Typed DEF Struct, Facts, RangeFacts
    <2>5. WaitInv'
      BY <2>1, <2>2, <2>3, <2>4 DEF WaitInv
    <2> QED BY <1>3, <2>5, SyncLsnStruct
  <1>4. ASSUME SyncMeta(a) PROVE Struct' /\ WaitInv'
    <2>1. PICK s : Checkpoint(a, s)
      BY <1>4, SyncMetaCheckpoint
    <2>2. Struct' /\ client'[a] = s /\ \A b \in Actor : b # a => client'[b] = client[b] /\ ~Ddl(b)
      BY <2>1, SyncMetaStruct
    <2>3. s.pc # "s_wait"
      BY <2>1, IdleSession DEF Checkpoint
    <2> QED BY <2>2, <2>3 DEF WaitInv, Ddl, SyncPcs
  <1> QED BY <1>1, <1>2, <1>3, <1>4, Zenon DEF SyncStep

LEMMA GoneWait ==
    ASSUME \A a \in Actor : client'[a] = Idle
    PROVE  WaitInv'
  BY IdleSession DEF WaitInv

LEMMA StructStep ==
    ASSUME Struct, WaitInv, [Next]_vars
    PROVE  Struct' /\ WaitInv'
  <1>1. ASSUME NEW c \in Client, RowStep(c) PROVE Struct' /\ WaitInv'
    BY <1>1, RowStepStruct
  <1>2. ASSUME NEW c \in Client, SchemaAction(c) PROVE Struct' /\ WaitInv'
    BY <1>2, SchemaActions, CreatesStruct, RefusedSteps
  <1>3. ASSUME NEW a \in Actor, SyncStep(a) PROVE Struct' /\ WaitInv'
    BY <1>3, SyncStepStruct
  <1>4. ASSUME client' = client, ckpt' = ckpt PROVE WaitInv'
    BY <1>4 DEF WaitInv
  <1>5. ASSUME FlushLog \/ DblwrFull \/ \E f \in File : Evict(f) PROVE Struct' /\ WaitInv'
    <2>1. client' = client /\ ckpt' = ckpt
      BY <1>5 DEF FlushLog, DblwrFull, Evict
    <2> QED BY <1>4, <1>5, <2>1, FlushLogStruct, DblwrFullStruct, EvictStruct
  <1>d. ASSUME NEW f \in File, NEW rows \in SUBSET Row, Drop(f, rows) PROVE Struct' /\ WaitInv'
    <2>1. client' = client /\ ckpt' = ckpt
      BY <1>d DEF Drop, dirVars
    <2> QED BY <1>4, <1>d, <2>1, DropStruct
  <1>6. ASSUME Destroy PROVE Struct' /\ WaitInv'
    <2>1. Main \in Actor /\ \E s \in Sessions : client' = [client EXCEPT ![Main] = s] /\ s.pc = "s_files"
      BY <1>6, DestroySession DEF Actor
    <2>2. ckpt' = ckpt
      BY <1>6 DEF Destroy, dirVars
    <2> QED BY <1>6, <2>1, <2>2, DestroyStruct, WaitStep DEF Struct
  <1>7. ASSUME Close PROVE Struct' /\ WaitInv'
    BY <1>7, CloseKeeps, GoneStruct, GoneWait
  <1>8. ASSUME Crash PROVE Struct' /\ WaitInv'
    BY <1>8, CrashKeeps, GoneStruct, GoneWait
  <1>9. ASSUME Start PROVE Struct' /\ WaitInv'
    <2>1. client' = client /\ ckpt' = ckpt
      BY <1>9 DEF Start
    <2>2. CASE InitSucceeds
      BY <1>4, <1>9, <2>1, <2>2, StartStarted, StartStruct
    <2>3. CASE ~InitSucceeds
      BY <1>4, <1>9, <2>1, <2>3, StartFails
    <2> QED BY <2>2, <2>3
  <1>10. ASSUME UNCHANGED vars PROVE Struct' /\ WaitInv'
    <2>1. UNCHANGED <<scen, quota, crashes, meta, file, dblwr, ckpt, log, flushed, status, opened, pool, nextTable, nextPool, client, hist>>
      BY <1>10 DEF vars, bounds, dirVars, memVars
    <2>2. TypeOK' /\ ActorInv' /\ WaitInv'
      BY <2>1 DEF Struct, TypeOK, ActorInv, WaitInv, Ddl
    <2>3. WorkInv'
      <3> SUFFICES ASSUME NEW c \in Client PROVE TableMade(c)' /\ IndexMade(c)' /\ WorkMade(c)'
        BY DEF WorkInv
      <3>1. TableMade(c) /\ IndexMade(c) /\ WorkMade(c)
        BY DEF Struct, WorkInv
      <3>2. TableMade(c)'
        BY <2>1, <3>1 DEF TableMade, RecordsOf, Complete
      <3>3. IndexMade(c)'
        BY <2>1, <3>1 DEF IndexMade, RecordsOf, Complete, Open
      <3>4. WorkMade(c)'
        BY <2>1, <3>1 DEF WorkMade
      <3> QED BY <3>2, <3>3, <3>4
    <2>4. SchemaInv' /\ TableIdInv' /\ AnsweredInv'
      BY <2>1 DEF Struct, SchemaInv, TableIdInv, AnsweredInv, Complete, Open
    <2>5. ToOpen' = ToOpen /\ Replayed' = Replayed
      BY <2>1 DEF ToOpen, Found, FilesOf, Replayed
    <2>6. \A f : (Live(f)' <=> Live(f)) /\ (Complete(f)' <=> Complete(f)) /\ (Open(f)' <=> Open(f)) /\ (Opening(f)' <=> Opening(f))
      BY <2>1, <2>5 DEF Live, Complete, Open, Opening, Target
    <2>7. IdInv' /\ UnfinishedInv'
      BY <2>1, <2>5, <2>6 DEF Struct, IdInv, UnfinishedInv
    <2> QED BY <2>2, <2>3, <2>4, <2>7 DEF Struct
  <1>11. TypeOK
    BY DEF Struct
  <1> QED BY <1>1, <1>2, <1>3, <1>5, <1>d, <1>6, <1>7, <1>8, <1>9, <1>10, <1>11, NextSteps, Zenon

(* A start that fails found a file that was left half made. *)
LEMMA FailsUnfinished ==
    ASSUME Struct, ~InitSucceeds
    PROVE  hist.unfinished # {}
  <1> SUFFICES ASSUME hist.unfinished = {} PROVE InitSucceeds
    OBVIOUS
  <1>1. Facts
    BY Typed DEF Struct
  <1>2. ASSUME NEW t \in Found PROVE Opens(t)
    <2>1. t \in Table /\ meta[t] # NoMeta
      BY DEF Found
    <2>2. meta[t] # EmptyMeta
      BY <2>1 DEF Struct, UnfinishedInv
    <2>3. ASSUME NEW f \in FilesOf(t, meta[t].indexes) PROVE file[f] \notin {NoFile, EmptyFile}
      <3>1. f \in ToOpen /\ f \in File
        BY <1>1 DEF ToOpen, Facts, ToOpenFacts
      <3>2. Complete(f)
        BY <3>1 DEF Struct, UnfinishedInv
      <3> QED BY <1>1, <3>1, <3>2 DEF Facts, IdFacts, Complete, NoFile, EmptyFile
    <2> QED BY <2>2, <2>3 DEF Opens
  <1>3. \A p \in 1 .. MaxPool : dblwr[p] # NoImage => Known(p)
    BY DEF Struct, IdInv, Known
  <1>4. \A n \in Replayed : Known(log[n].id)
    <2> TAKE n \in Replayed
    <2>1. n \in 1 .. Len(log)
      BY <1>1 DEF Facts, RangeFacts
    <2>2. log[n].file \in ToOpen /\ file[log[n].file].id = log[n].id
      BY <2>1 DEF Struct, UnfinishedInv, IdInv
    <2> QED BY <2>2 DEF Known
  <1> QED BY <1>2, <1>3, <1>4 DEF InitSucceeds, Recovers

(* The server goes up and down with a shutdown, a crash or a start only. *)
LEMMA UpSteps ==
    ASSUME Struct, [Next]_vars
    PROVE  (status = "up" /\ status' = "up") \/ Close \/ Crash \/ Start \/ UNCHANGED vars
  <1>1. SUFFICES ASSUME ~(status = "up" /\ status' = "up") PROVE Close \/ Crash \/ Start \/ UNCHANGED vars
    OBVIOUS
  <1>2. ASSUME NEW c \in Client, RowStep(c) PROVE FALSE
    <2>1. status = "up" /\ (RowPause \/ \E f, op, r : RowWork(f, op, r))
      BY <1>2, RowSteps
    <2>2. status' = status
      BY <2>1 DEF RowPause, RowWork
    <2> QED BY <1>1, <2>1, <2>2
  <1>3. ASSUME NEW c \in Client, SchemaAction(c) PROVE FALSE
    <2>1. CASE Refused(c)
      <3>1. status' = status
        BY <2>1 DEF Refused, memVars
      <3>2. client[c].pc # "idle" \/ \E op : Issue(c, op)
        BY <2>1 DEF Refused, TablePcs, IndexPcs, SyncPcs
      <3>3. status = "up"
        BY <3>2, Working, IssueFacts DEF Struct
      <3> QED BY <1>1, <3>1, <3>3
    <2>2. CASE Creates(c)
      <3>1. CASE \E t \in Table, good \in BOOLEAN : CreateTable(c, t, good)
        BY <1>1, <3>1 DEF CreateTable, Issue, Quiet
      <3>2. CASE \E t \in Table, i \in Index : CreateIndex(c, t, i)
        BY <1>1, <3>2 DEF CreateIndex, Issue, Quiet, memVars
      <3>3. CASE CreateMetaFile(c) \/ WriteMeta(c) \/ CreateTableEnd(c)
        <4>1. client[c].pc # "idle" /\ status' = status
          BY <3>3 DEF CreateMetaFile, WriteMeta, CreateTableEnd, memVars
        <4> QED BY <1>1, <4>1, Working DEF Struct
      <3>4. CASE \E f : \/ CreateFile(c, "ct_data", f, "ct_header") \/ CreateFile(c, "ci_file", f, "ci_header")
                        \/ WriteHeader(c, "ct_header", f, "ct_open") \/ WriteHeader(c, "ci_header", f, "ci_create")
        <4>1. client[c].pc # "idle" /\ status' = status
          BY <3>4 DEF CreateFile, WriteHeader, memVars
        <4> QED BY <1>1, <4>1, Working DEF Struct
      <3>5. CASE CreateTree(c) \/ FlushTree(c) \/ ScanRows(c) \/ PushIndex(c) \/ RenameMeta(c)
        <4>1. client[c].pc # "idle"
          BY <3>5 DEF CreateTree, FlushTree, ScanRows, PushIndex, RenameMeta
        <4>2. status' = status
          BY <3>5 DEF CreateTree, FlushTree, ScanRows, PushIndex, RenameMeta, memVars
        <4> QED BY <1>1, <4>1, <4>2, Working DEF Struct
      <3> QED BY <2>2, <3>1, <3>2, <3>3, <3>4, <3>5, Zenon DEF Creates
    <2> QED BY <1>3, <2>1, <2>2, SchemaActions
  <1>4. ASSUME NEW a \in Actor, SyncStep(a) PROVE FALSE
    <2>1. client[a].pc \in SyncPcs /\ status' = status
      BY <1>4 DEF SyncStep, SyncFile, SyncDblwr, SyncLsn, SyncMeta, SyncPcs, memVars
    <2>2. status = "up"
      BY <2>1, IdleSession DEF Struct, ActorInv, SyncPcs
    <2> QED BY <1>1, <2>1, <2>2
  <1>5. ASSUME FlushLog \/ DblwrFull \/ (\E f \in File : Evict(f)) \/ Destroy PROVE FALSE
    BY <1>1, <1>5 DEF FlushLog, DblwrFull, Evict, Destroy, memVars
  <1>6. ASSUME NEW f \in File, NEW rows \in SUBSET Row, Drop(f, rows) PROVE FALSE
    <2>1. status = "up"
      BY <1>6, DropMarks
    <2>2. status' = status
      BY <1>6 DEF Drop
    <2> QED BY <1>1, <2>1, <2>2
  <1>7. TypeOK
    BY DEF Struct
  <1> QED BY <1>2, <1>3, <1>4, <1>5, <1>6, <1>7, NextSteps, Zenon

(* Only a start takes the server to "failed", and nothing goes on from there. *)
LEMMA FailedStep ==
    ASSUME Struct, DatabaseOpens, [Next]_vars
    PROVE  DatabaseOpens'
  <1>1. SUFFICES ASSUME status' = "failed" PROVE hist'.unfinished # {}
    BY DEF DatabaseOpens
  <1>2. CASE Close \/ Crash
    BY <1>1, <1>2 DEF Close, Crash, Gone
  <1>3. CASE Start
    <2>1. ~InitSucceeds /\ hist' = hist
      BY <1>1, <1>3 DEF Start
    <2> QED BY <2>1, FailsUnfinished
  <1>4. CASE UNCHANGED vars
    BY <1>1, <1>4 DEF vars, memVars, DatabaseOpens
  <1> QED BY <1>1, <1>2, <1>3, <1>4, UpSteps

(* Nothing is late while the server is down. *)
LEMMA LateStep ==
    ASSUME Struct, LateInv, [Next]_vars
    PROVE  LateInv'
  <1>1. SUFFICES ASSUME status' # "up" PROVE hist'.late = {}
    BY DEF LateInv
  <1>2. CASE Close
    BY <1>2, CloseKeeps
  <1>3. CASE Crash
    BY <1>3, CrashKeeps
  <1>4. CASE Start
    BY <1>1, <1>4 DEF Start, LateInv
  <1>5. CASE UNCHANGED vars
    BY <1>1, <1>5 DEF vars, memVars, LateInv
  <1> QED BY <1>1, <1>2, <1>3, <1>4, <1>5, UpSteps

(* The catalog in memory, the files and the sessions fit together in every *)
(* state: through every schema change, crash and start.                    *)
THEOREM CatalogInvariant == Spec => [](Struct /\ WaitInv /\ DatabaseOpens)
  <1>1. Init => Struct /\ WaitInv /\ DatabaseOpens
    BY InitStruct DEF Init, DatabaseOpens
  <1>2. Struct /\ WaitInv /\ DatabaseOpens /\ [Next]_vars => (Struct /\ WaitInv /\ DatabaseOpens)'
    BY StructStep, FailedStep
  <1> QED BY <1>1, <1>2, PTL DEF Spec

(* A table or index whose creation was answered SUCCESS is there, with its *)
(* ids, whenever the database is open; and Db::init succeeds after every   *)
(* shutdown and crash, unless a schema change was left half made.          *)
THEOREM CatalogCorrect == Spec => []CatalogSurvives
  <1>1. Struct /\ WaitInv /\ DatabaseOpens => CatalogSurvives
    <2> SUFFICES ASSUME Struct, DatabaseOpens PROVE TypeOK /\ AnsweredSurvives
      BY DEF CatalogSurvives
    <2>1. TypeOK
      BY DEF Struct
    <2>2. ASSUME status = "up", NEW x \in hist.answered, NEW t, t = TableOf(x.file)
          PROVE  /\ opened[t].id = x.table /\ meta[t].id = x.table
                 /\ pool[x.file].id = x.pool
                 /\ x.file # Data(t) => x.file[2] \in opened[t].indexes /\ x.file[2] \in meta[t].indexes
      <3>1. x.file \in File /\ t \in Table /\ x.file = <<t, x.file[2]>>
        BY <2>2, FileParts DEF Struct, TypeOK, Remembered
      <3>2. /\ meta[t].id = x.table /\ file[x.file].id = x.pool /\ opened[t] # NoMeta
            /\ x.file # Data(t) => x.file[2] \in meta[t].indexes
        BY <2>2 DEF Struct, AnsweredInv
      <3>3. opened[t].id = meta[t].id /\ meta[t].indexes \subseteq opened[t].indexes /\ Open(Data(t))
            /\ \A i \in opened[t].indexes : Open(<<t, i>>)
        BY <3>1, <3>2 DEF Struct, SchemaInv
      <3>4. Open(x.file)
        BY <3>1, <3>2, <3>3
      <3>5. pool[x.file].id = file[x.file].id
        BY <3>1, <3>4 DEF Struct, SchemaInv
      <3> QED BY <3>2, <3>3, <3>5
    <2>3. AnsweredSurvives
      BY <2>2 DEF AnsweredSurvives
    <2> QED BY <2>1, <2>3
  <1> QED BY <1>1, CatalogInvariant, PTL

(* Two open pools never share an id, and every log record that a restart   *)
(* replays into a pool was written for the file of that pool.              *)
LEMMA DistinctIds ==
    ASSUME Struct
    PROVE  IdsDistinct
  <1>1. \A f \in File : Open(f) => Live(f) /\ pool[f].id = file[f].id
    BY DEF Struct, SchemaInv, Live
  <1>2. \A f, g \in File : Open(f) /\ Open(g) /\ f # g => pool[f].id # pool[g].id
    BY <1>1 DEF Struct, IdInv
  <1>3. \A f \in File, n \in Replayed : Open(f) /\ log[n].id = pool[f].id => log[n].file = f
    BY <1>1 DEF Struct, IdInv
  <1>4. \A t, u \in Table : opened[t] # NoMeta /\ opened[u] # NoMeta /\ t # u => opened[t].id # opened[u].id
    BY DEF Struct, SchemaInv, TableIdInv
  <1> QED BY <1>2, <1>3, <1>4 DEF IdsDistinct

-----------------------------------------------------------------------------
(* Contents: what is on disk and in the pools, and what the log says. *)

(* The record of the last change of a row decides. *)
LEMMA HoldsMax ==
    ASSUME Struct, NEW f \in File, NEW r \in Row
    PROVE  Holds(f, r, Len(log)) <=> History(f, r) # {} /\ log[Max(History(f, r))].op = "ins"
  <1>1. PICK S : S = History(f, r)
    OBVIOUS
  <1>2. S \in SUBSET (1 .. Len(log)) /\ Len(log) \in Nat
    BY <1>1, Typed DEF History, Struct, Facts, RangeFacts
  <1>3. HistoryTo(f, r, Len(log)) = S
    BY <1>1, <1>2 DEF HistoryTo
  <1>4. Holds(f, r, Len(log)) <=> \E n \in S : log[n].op = "ins" /\ \A m \in S : m <= n
    BY <1>3 DEF Holds
  <1>5. CASE S = {}
    BY <1>1, <1>4, <1>5
  <1>6. CASE S # {}
    <2>1. PICK m : m = Max(S)
      OBVIOUS
    <2>2. m \in S /\ \A n \in S : n <= m
      BY <1>2, <1>6, <2>1, LsnMax
    <2>3. \A n \in S : n \in Int
      BY <1>2
    <2>4. \A n \in S : (\A k \in S : k <= n) => n = m
      BY <2>2, <2>3
    <2>5. Holds(f, r, Len(log)) <=> log[m].op = "ins"
      BY <1>4, <2>2, <2>4
    <2> QED BY <1>1, <1>6, <2>1, <2>5
  <1> QED BY <1>5, <1>6

LEMMA GrownHistory ==
    ASSUME LogGrows, NEW f, NEW r
    PROVE  /\ \A n : n \in History(f, r) => n \in History(f, r)' /\ n \in Nat /\ n <= Len(log)
           /\ \A n : n \in History(f, r)' => n \in Nat /\ n <= Len(log') /\ (n \in History(f, r) \/ n > Len(log))
           /\ NotChanged(f, r) => History(f, r)' = History(f, r)
  <1>1. \A n : n \in History(f, r) => n \in History(f, r)' /\ n \in Nat /\ n <= Len(log)
    BY DEF History, LogGrows
  <1>2. ASSUME NEW n \in History(f, r)' PROVE n \in Nat /\ n <= Len(log') /\ (n \in History(f, r) \/ n > Len(log))
    BY DEF History, LogGrows
  <1>3. ASSUME NotChanged(f, r), NEW n \in History(f, r)' PROVE n \in History(f, r)
    <2>1. n \in 1 .. Len(log') /\ log'[n].file = f /\ log'[n].row = r
      BY <1>3 DEF History
    <2> QED BY <1>2, <1>3, <2>1 DEF NotChanged
  <1> QED BY <1>1, <1>2, <1>3

(* What the log says up to an lsn that was there stays. *)
LEMMA HoldsGrown ==
    ASSUME LogGrows, NEW f, NEW r, NEW upto \in Nat, upto <= Len(log)
    PROVE  (\E n \in {k \in History(f, r)' : k <= upto} :
               log'[n].op = "ins" /\ \A m \in {k \in History(f, r)' : k <= upto} : m <= n)
           <=> Holds(f, r, upto)
  <1>1. {k \in History(f, r)' : k <= upto} = HistoryTo(f, r, upto)
    BY GrownHistory DEF HistoryTo, LogGrows
  <1>2. \A n \in HistoryTo(f, r, upto) : log'[n] = log[n]
    BY DEF HistoryTo, History, LogGrows
  <1> QED BY <1>1, <1>2 DEF Holds

LEMMA PoolKept ==
    ASSUME LogGrows, NEW f, NEW r, NotChanged(f, r), pool'[f].img = pool[f].img, PoolRight(f, r)
    PROVE  PoolRight(f, r)'
  <1>1. History(f, r)' = History(f, r) /\ \A n \in History(f, r) : n \in Nat /\ n <= Len(log)
    BY GrownHistory
  <1>2. HistoryTo(f, r, Len(log))' = History(f, r) /\ HistoryTo(f, r, Len(log)) = History(f, r)
    BY <1>1 DEF HistoryTo, LogGrows
  <1>3. \A n \in History(f, r) : log'[n] = log[n]
    BY DEF History, LogGrows
  <1>4. Holds(f, r, Len(log))' <=> Holds(f, r, Len(log))
    BY <1>2, <1>3 DEF Holds
  <1> QED BY <1>1, <1>4 DEF PoolRight

LEMMA DiskKept ==
    ASSUME LogGrows, NEW f, NEW r, NEW img, Loaded(f) = img, Loaded(f)' = img, img.lsn \in Nat, img.lsn <= Len(log),
           DiskRight(f, r)
    PROVE  DiskRight(f, r)'
  <1>1. (\E n \in {k \in History(f, r)' : k <= img.lsn} :
            log'[n].op = "ins" /\ \A m \in {k \in History(f, r)' : k <= img.lsn} : m <= n)
        <=> Holds(f, r, img.lsn)
    BY HoldsGrown
  <1>2. r \in img.rows <=> Holds(f, r, img.lsn)
    BY DEF DiskRight
  <1> QED BY <1>1, <1>2 DEF DiskRight, Holds, HistoryTo

LEMMA ReachedKept ==
    ASSUME LogGrows, NEW f, NEW r, Loaded(f)' = Loaded(f), NEW upto \in Nat,
           NotChanged(f, r) \/ upto <= Len(log), Reached(f, r, upto)
    PROVE  \A n \in History(f, r)' : n <= upto => n <= Loaded(f)'.lsn
  BY GrownHistory DEF Reached, LogGrows

LEMMA RightKept ==
    ASSUME Struct, LogGrows, NEW f \in File, NEW r \in Row, FileKept(f), NotChanged(f, r), Right(f, r),
           ckpt' \in Nat, f \in ToOpen /\ Complete(f) /\ <<f, r>> \notin hist'.late => Reached(f, r, ckpt')
    PROVE  Right(f, r)'
  <1>1. Open(f)' => PoolRight(f, r)'
    BY PoolKept DEF Right, FileKept
  <1>2. Live(f)' => DiskRight(f, r)'
    <2> HAVE Live(f)'
    <2>1. Live(f) /\ Loaded(f)' = Loaded(f) /\ DiskRight(f, r)
      BY DEF Right, FileKept
    <2>2. Loaded(f).lsn \in Nat /\ Loaded(f).lsn <= Len(log)
      BY <2>1, LoadedTypes DEF Live
    <2> QED BY <2>1, <2>2, DiskKept
  <1>3. f \in ToOpen' /\ Complete(f)' /\ <<f, r>> \notin hist'.late => Reached(f, r, ckpt)'
    <2> HAVE f \in ToOpen' /\ Complete(f)' /\ <<f, r>> \notin hist'.late
    <2>1. Live(f)' /\ f \in ToOpen /\ Complete(f) /\ Loaded(f)' = Loaded(f)
      BY DEF FileKept, Live
    <2>2. PICK k \in Nat : k = ckpt'
      OBVIOUS
    <2>3. Reached(f, r, k)
      BY <2>1, <2>2
    <2>4. \A n \in History(f, r)' : n <= k => n <= Loaded(f)'.lsn
      BY <2>1, <2>3, ReachedKept
    <2> QED BY <2>2, <2>4 DEF Reached
  <1> QED BY <1>1, <1>2, <1>3 DEF Right

LEMMA WantedTypes ==
    ASSUME TypeOK, NEW a \in Actor, NEW f, client[a].pc = "s_wait" => client[a].lsn <= Len(log)
    PROVE  Wanted(a, f) \in Nat /\ Wanted(a, f) <= Len(log) /\ Len(log) \in Nat
  <1>1. client[a] \in Sessions /\ client[a].lsn \in Nat
    BY SessionTypes DEF TypeOK
  <1>2. Len(log) \in Nat
    BY LenProperties DEF TypeOK
  <1> QED BY <1>1, <1>2 DEF Wanted

(* A step that leaves the files outside X as they are. *)
LEMMA ContentStep ==
    ASSUME Struct, Struct', Contents, LogGrows, NEW X \in SUBSET File,
           hist.lost \subseteq hist'.lost,
           \A f \in File \ X, r \in Row : <<f, r>> \in hist.late => <<f, r>> \in hist'.late,
           ckpt' = ckpt \/ \E a \in Actor : client[a].pc = "s_wait" /\ ckpt' = client[a].lsn,
           \A f \in File \ X : FileKept(f),
           \A n \in 1 .. Len(log') : n > Len(log) => log'[n].file \in X,
           \A f \in X, r \in Row : <<f, r>> \notin hist'.lost => Right(f, r)',
           \A a \in Actor : client'[a].pc = "s_wait" => client'[a].lsn <= Len(log'),
           \A a \in Actor, f \in File \ X :
              f \in ToOpen' /\ Complete(f)' => Wanted(a, f)' <= Wanted(a, f) \/ Wanted(a, f) = Len(log),
           \A a \in Actor, f \in X, r \in Row :
              f \in ToOpen' /\ Complete(f)' /\ <<f, r>> \notin hist'.lost \cup hist'.late => Reached(f, r, Wanted(a, f))'
    PROVE  Contents'
  <1>1. \A f \in File \ X, r \in Row : NotChanged(f, r)
    BY DEF NotChanged
  <1>2. ImageInv'
    <2> SUFFICES ASSUME NEW f \in File, NEW r \in Row, <<f, r>> \notin hist'.lost PROVE Right(f, r)'
      BY DEF ImageInv
    <2>1. CASE f \in X
      BY <2>1
    <2>2. CASE f \notin X
      <3>1. Right(f, r) /\ FileKept(f) /\ NotChanged(f, r)
        BY <1>1, <2>2 DEF Contents, ImageInv
      <3>2. ckpt' \in Nat
        BY DEF Struct, TypeOK
      <3>3. f \in ToOpen /\ Complete(f) /\ <<f, r>> \notin hist'.late => Reached(f, r, ckpt')
        <4> HAVE f \in ToOpen /\ Complete(f) /\ <<f, r>> \notin hist'.late
        <4>n. <<f, r>> \notin hist.late /\ <<f, r>> \notin hist.lost
          BY <2>2
        <4>1. CASE ckpt' = ckpt
          BY <3>1, <4>1, <4>n DEF Right
        <4>2. ASSUME NEW a \in Actor, client[a].pc = "s_wait", ckpt' = client[a].lsn PROVE Reached(f, r, ckpt')
          <5>1. Wanted(a, f) = ckpt'
            BY <4>2 DEF Wanted
          <5>2. Reached(f, r, Wanted(a, f))
            BY <4>n DEF Contents, SyncInv
          <5> QED BY <5>1, <5>2
        <4> QED BY <4>1, <4>2
      <3> QED BY <3>1, <3>2, <3>3, RightKept
    <2> QED BY <2>1, <2>2
  <1>3. SyncInv'
    <2> SUFFICES ASSUME NEW a \in Actor, NEW f \in File, NEW r \in Row,
                        f \in ToOpen', Complete(f)', <<f, r>> \notin hist'.lost \cup hist'.late
                 PROVE  Reached(f, r, Wanted(a, f))'
      BY DEF SyncInv
    <2>1. CASE f \in X
      BY <2>1
    <2>2. CASE f \notin X
      <3>n. <<f, r>> \notin hist.late /\ <<f, r>> \notin hist.lost
        BY <2>2
      <3>1. FileKept(f) /\ Live(f)' /\ History(f, r)' = History(f, r)
        BY <1>1, <2>2, GrownHistory DEF Live
      <3>2. f \in ToOpen /\ Complete(f) /\ Loaded(f)' = Loaded(f)
        BY <3>1 DEF FileKept
      <3>3. Reached(f, r, Wanted(a, f))
        BY <3>2, <3>n DEF Contents, SyncInv
      <3>4. PICK w, v : w = Wanted(a, f) /\ v = Wanted(a, f)'
        OBVIOUS
      <3>5. /\ w \in Nat /\ v \in Nat
            /\ v <= w \/ w = Len(log)
        <4>1. w \in Nat
          BY <3>4, WantedTypes DEF Struct, Contents, SyncInv
        <4>2. Wanted(a, f)' \in Nat
          <5>1. TypeOK' /\ (client'[a].pc = "s_wait" => client'[a].lsn <= Len(log'))
            BY DEF Struct
          <5>2. client'[a].lsn \in Nat /\ Len(log') \in Nat
            BY <5>1, SessionTypes DEF TypeOK, LogGrows
          <5> QED BY <5>2 DEF Wanted
        <4> QED BY <2>2, <3>4, <4>1, <4>2
      <3>6. \A n \in History(f, r) : n \in Nat /\ n <= Len(log) /\ (n <= w => n <= Loaded(f).lsn)
        BY <3>3, <3>4, GrownHistory DEF Reached
      <3>7. \A n \in History(f, r) : n <= v => n <= w
        BY <3>5, <3>6
      <3> QED BY <3>1, <3>2, <3>4, <3>6, <3>7 DEF Reached
    <2> QED BY <2>1, <2>2
  <1> QED BY <1>2, <1>3 DEF Contents

(* Sessions that do not sync, or go on as they were. *)
LEMMA WantedKept ==
    ASSUME TypeOK, SyncInv, LogGrows, \A a \in Actor : client'[a].pc \notin SyncPcs \/ client'[a] = client[a]
    PROVE  /\ \A a \in Actor : client'[a].pc = "s_wait" => client'[a].lsn <= Len(log')
           /\ \A a \in Actor : \A f : Wanted(a, f)' <= Wanted(a, f) \/ Wanted(a, f) = Len(log)
           /\ \A a \in Actor : \A f : ~Ddl(a)' => Wanted(a, f)' = 0
  <1>1. \A a \in Actor : client'[a].pc = "s_wait" => client'[a].lsn <= Len(log')
    <2> TAKE a \in Actor
    <2> HAVE client'[a].pc = "s_wait"
    <2>1. client'[a] = client[a]
      BY DEF SyncPcs
    <2>2. client[a].lsn <= Len(log) /\ client[a].lsn \in Nat
      BY <2>1, SessionTypes DEF SyncInv, TypeOK
    <2> QED BY <2>1, <2>2 DEF LogGrows
  <1>2. ASSUME NEW a \in Actor, NEW f PROVE Wanted(a, f)' <= Wanted(a, f) \/ Wanted(a, f) = Len(log)
    <2>1. Wanted(a, f) \in Nat
      BY WantedTypes DEF SyncInv
    <2>2. CASE client'[a].pc \notin SyncPcs
      <3>1. Wanted(a, f)' = 0
        BY <2>2 DEF Wanted, SyncPcs
      <3> QED BY <2>1, <3>1
    <2>3. CASE client'[a] = client[a]
      <3>1. Wanted(a, f)' = Wanted(a, f) \/ Wanted(a, f) = Len(log)
        BY <2>3 DEF Wanted
      <3> QED BY <2>1, <3>1
    <2> QED BY <2>2, <2>3
  <1>3. \A a \in Actor : \A f : ~Ddl(a)' => Wanted(a, f)' = 0
    BY DEF Wanted, Ddl, SyncPcs
  <1> QED BY <1>1, <1>2, <1>3

(* A step that changes neither the log nor a file. *)
LEMMA ContentKept ==
    ASSUME Struct, Struct', Contents, log' = log, ckpt' = ckpt,
           hist.lost \subseteq hist'.lost, hist.late \subseteq hist'.late,
           \A f \in File : FileKept(f),
           \A a \in Actor : client'[a].pc \notin SyncPcs \/ client'[a] = client[a]
    PROVE  Contents'
  <1>1. Len(log) \in Nat
    BY Typed DEF Struct, Facts, RangeFacts
  <1>2. LogGrows /\ \A n \in 1 .. Len(log') : ~(n > Len(log))
    BY <1>1 DEF LogGrows
  <1>3. /\ \A a \in Actor : client'[a].pc = "s_wait" => client'[a].lsn <= Len(log')
        /\ \A a \in Actor : \A f : Wanted(a, f)' <= Wanted(a, f) \/ Wanted(a, f) = Len(log)
    BY <1>2, WantedKept DEF Struct, Contents
  <1>4. {} \in SUBSET File
    OBVIOUS
  <1> QED BY <1>2, <1>3, <1>4, ContentStep

(* The steps that change neither the log nor a file. *)
LEMMA FilesKept ==
    ASSUME UNCHANGED <<meta, file, dblwr, pool>>,
           \A c \in Client : client'[c] = client[c] \/ client'[c].pc \notin {"ct_open", "ci_create"}
    PROVE  \A f \in File : FileKept(f)
  <1> TAKE f \in File
  <1>1. ToOpen' = ToOpen
    BY DEF ToOpen, Found, FilesOf
  <1>2. (Open(f)' <=> Open(f)) /\ (Complete(f)' <=> Complete(f)) /\ Loaded(f)' = Loaded(f) /\ pool'[f].img = pool[f].img
    BY DEF Open, Complete, Loaded
  <1>3. Opening(f)' => Opening(f)
    BY DEF Opening, Target
  <1> QED BY <1>1, <1>2, <1>3 DEF FileKept, Live

LEMMA SessionContents ==
    ASSUME Struct, Struct', Contents, UNCHANGED <<meta, file, dblwr, log, ckpt, pool>>,
           hist.lost \subseteq hist'.lost, hist.late \subseteq hist'.late,
           NEW c \in Actor, NEW s \in Sessions, client' = [client EXCEPT ![c] = s], s.pc \notin SyncPcs \cup {"ct_open", "ci_create"}
    PROVE  Contents'
  <1>1. client'[c] = s /\ \A b \in Actor : b # c => client'[b] = client[b]
    BY SessionStep DEF Struct
  <1>2. \A f \in File : FileKept(f)
    BY <1>1, FilesKept DEF Actor
  <1>3. \A a \in Actor : client'[a].pc \notin SyncPcs \/ client'[a] = client[a]
    BY <1>1
  <1> QED BY <1>2, <1>3, ContentKept

LEMMA RowPauseContents ==
    ASSUME Struct, Struct', Contents, NEW c \in Client, NEW s, RowTo(c, s), RowPause
    PROVE  Contents'
  <1>1. UNCHANGED <<meta, file, dblwr, log, ckpt, pool>> /\ hist'.lost = hist.lost /\ hist'.late = hist.late
    BY DEF RowPause, dirVars
  <1>2. s \in Sessions /\ client' = [client EXCEPT ![c] = s] /\ s.pc \notin SyncPcs \cup {"ct_open", "ci_create"} /\ c \in Actor
    BY DEF RowTo, RowSession, RowPcs, SyncPcs, Actor
  <1> QED BY <1>1, <1>2, SessionContents

LEMMA RefusedContents ==
    ASSUME Struct, Struct', Contents, NEW c \in Client, Refused(c)
    PROVE  Contents'
  <1>1. UNCHANGED <<meta, file, dblwr, log, ckpt, pool, hist>> /\ c \in Actor
    BY DEF Refused, dirVars, memVars, Actor
  <1>2. CASE UNCHANGED client
    <2>1. \A f \in File : FileKept(f)
      BY <1>1, <1>2, FilesKept
    <2> QED BY <1>1, <1>2, <2>1, ContentKept
  <1>3. CASE Answer(c)
    BY <1>1, <1>3, SessionContents, IdleSession DEF Answer, SyncPcs
  <1> QED BY <1>2, <1>3 DEF Refused

(* The steps of a CREATE statement that write no page. *)
LEMMA NameContents ==
    ASSUME Struct, Struct', Contents, log' = log, ckpt' = ckpt,
           hist.lost \subseteq hist'.lost, hist.late \subseteq hist'.late, dblwr' = dblwr, pool' = pool,
           \A f \in File : (Complete(f)' => Complete(f) /\ file'[f] = file[f]) /\ (Live(f)' => Live(f)),
           \A f \in File : f \in ToOpen' /\ Complete(f) => f \in ToOpen,
           NEW c \in Client, NEW s \in Sessions, client' = [client EXCEPT ![c] = s], s.pc \notin SyncPcs
    PROVE  Contents'
  <1>1. c \in Actor /\ client'[c] = s /\ \A b \in Actor : b # c => client'[b] = client[b]
    BY SessionStep DEF Struct, Actor
  <1>2. \A f \in File : FileKept(f)
    <2> TAKE f \in File
    <2>1. Complete(f)' => Loaded(f)' = Loaded(f)
      BY DEF Loaded
    <2> QED BY <2>1 DEF FileKept, Live, Open
  <1>3. \A a \in Actor : client'[a].pc \notin SyncPcs \/ client'[a] = client[a]
    BY <1>1
  <1> QED BY <1>2, <1>3, ContentKept

LEMMA CreatesName ==
    ASSUME Struct, Struct', Contents, NEW c \in Client,
           \/ \E t \in Table, good \in BOOLEAN : CreateTable(c, t, good) /\ opened[t] = NoMeta
           \/ \E t \in Table, i \in Index : CreateIndex(c, t, i) /\ opened[t] # NoMeta /\ i \notin opened[t].indexes
           \/ CreateMetaFile(c) /\ meta[client[c].t] = NoMeta
           \/ WriteMeta(c) /\ FieldsOk(c)
           \/ \E f \in File :
                 /\ file[f] = NoFile
                 /\ \/ CreateFile(c, "ct_data", f, "ct_header") /\ f = Data(client[c].t)
                    \/ CreateFile(c, "ci_file", f, "ci_header") /\ f = <<client[c].t, client[c].i>>
           \/ PushIndex(c)
    PROVE  Contents'
  <1>1. c \in Actor
    BY DEF Actor
  <1>2. ASSUME NEW t \in Table, NEW good \in BOOLEAN, CreateTable(c, t, good), opened[t] = NoMeta PROVE Contents'
    <2>1. UNCHANGED <<meta, file, dblwr, log, ckpt, pool>>
      BY <1>2 DEF CreateTable, dirVars
    <2>2. hist'.lost = hist.lost /\ hist'.late = hist.late
      BY <1>2 DEF CreateTable, Struct, TypeOK, Remembered
    <2>3. PICK s \in Sessions : client' = [client EXCEPT ![c] = s] /\ s.pc = "ct_meta"
      BY <1>2, CreateTableStruct
    <2> QED BY <1>1, <2>1, <2>2, <2>3, SessionContents DEF SyncPcs
  <1>3. ASSUME NEW t \in Table, NEW i \in Index, CreateIndex(c, t, i), opened[t] # NoMeta, i \notin opened[t].indexes
        PROVE  Contents'
    <2>1. UNCHANGED <<meta, file, dblwr, log, ckpt, pool>>
      BY <1>3 DEF CreateIndex, dirVars, memVars
    <2>2. hist'.lost = hist.lost /\ hist'.late = hist.late
      BY <1>3 DEF CreateIndex, Struct, TypeOK, Remembered
    <2>3. PICK s \in Sessions : client' = [client EXCEPT ![c] = s] /\ s.pc = "ci_file"
      BY <1>3, CreateIndexStruct
    <2> QED BY <1>1, <2>1, <2>2, <2>3, SessionContents DEF SyncPcs
  <1>4. ASSUME CreateMetaFile(c), meta[client[c].t] = NoMeta PROVE Contents'
    <2>1. UNCHANGED <<file, dblwr, log, ckpt, pool, hist>>
      BY <1>4 DEF CreateMetaFile, memVars
    <2>2. PICK s : SchemaSession(c, s) /\ s.pc = "ct_init"
      BY <1>4, CreateMetaFileStruct
    <2>3. \A f \in File : (Live(f)' => Live(f)) /\ (Complete(f) /\ f \in ToOpen' => f \in ToOpen)
      BY <1>4, CreateMetaFileStruct
    <2>4. \A f \in File : Complete(f)' => Complete(f) /\ file'[f] = file[f]
      BY <2>1 DEF Complete
    <2> QED BY <2>1, <2>2, <2>3, <2>4, NameContents DEF SchemaSession, SyncPcs
  <1>5. ASSUME WriteMeta(c), FieldsOk(c) PROVE Contents'
    <2>1. UNCHANGED <<file, dblwr, log, ckpt, pool, hist>>
      BY <1>5 DEF WriteMeta, memVars
    <2>2. PICK s : SchemaSession(c, s) /\ s.pc = "ct_data"
      BY <1>5, WriteMetaStruct
    <2>3. \A f \in File : (Live(f)' => Live(f)) /\ (f \in ToOpen' => f \in ToOpen)
      BY <1>5, WriteMetaStruct
    <2>4. \A f \in File : Complete(f)' => Complete(f) /\ file'[f] = file[f]
      BY <2>1 DEF Complete
    <2> QED BY <2>1, <2>2, <2>3, <2>4, NameContents DEF SchemaSession, SyncPcs
  <1>6. ASSUME NEW f \in File, file[f] = NoFile,
               \/ CreateFile(c, "ct_data", f, "ct_header") /\ f = Data(client[c].t)
               \/ CreateFile(c, "ci_file", f, "ci_header") /\ f = <<client[c].t, client[c].i>>
        PROVE  Contents'
    <2>1. UNCHANGED <<dblwr, log, ckpt, pool, hist>>
      BY <1>6 DEF CreateFile, memVars
    <2>2. PICK s : SchemaSession(c, s) /\ s.pc \in {"ct_header", "ci_header"}
      BY <1>6, CreateFileStruct
    <2>3. /\ \A g \in File : (Live(g)' => Live(g)) /\ (Complete(g) => file'[g] = file[g]) /\ (Complete(g)' <=> Complete(g))
          /\ ToOpen' = ToOpen
      BY <1>6, CreateFileStruct
    <2> QED BY <2>1, <2>2, <2>3, NameContents DEF SchemaSession, SyncPcs
  <1>7. ASSUME PushIndex(c) PROVE Contents'
    <2>1. UNCHANGED <<meta, file, dblwr, log, ckpt, pool>>
      BY <1>7 DEF PushIndex, dirVars
    <2>2. hist'.lost = hist.lost /\ hist'.late = hist.late
      BY <1>7, PushIndexStruct
    <2>3. PICK s : SchemaSession(c, s) /\ s.pc = "ci_rename"
      BY <1>7, PushIndexStruct
    <2> QED BY <1>1, <2>1, <2>2, <2>3, SessionContents DEF SchemaSession, SyncPcs
  <1> QED BY <1>2, <1>3, <1>4, <1>5, <1>6, <1>7, Zenon

(* A change of a row in one file. *)
LEMMA LastRecord ==
    ASSUME LogGrows, NEW f, NEW r, NEW k, k \in History(f, r)', k > Len(log), NEW op,
           \A n \in History(f, r)' : n > Len(log) => log'[n].op = op
    PROVE  Holds(f, r, Len(log))' <=> op = "ins"
  <1>1. PICK S : S = History(f, r)'
    OBVIOUS
  <1>2. PICK len : len = Len(log')
    OBVIOUS
  <1>3. S \in SUBSET (1 .. len) /\ len \in Nat
    BY <1>1, <1>2 DEF History, LogGrows
  <1>4. IsFiniteSet(1 .. len)
    BY <1>3, FS_Interval
  <1>5. IsFiniteSet(S)
    BY <1>3, <1>4, FS_Subset
  <1>6. S \in SUBSET Int /\ S # {}
    BY <1>1, <1>3
  <1>7. PICK m \in S : \A n \in S : n <= m
    BY <1>5, <1>6, FiniteMax
  <1>8. k \in Nat /\ m \in Nat /\ Len(log) \in Nat /\ m > Len(log)
    BY <1>1, <1>3, <1>7 DEF LogGrows
  <1>9. log'[m].op = op
    BY <1>1, <1>7, <1>8
  <1>10. HistoryTo(f, r, Len(log))' = S
    BY <1>1, <1>2, <1>3 DEF HistoryTo
  <1>11. \A n \in S : (\A j \in S : j <= n) => n = m
    BY <1>6, <1>7
  <1> QED BY <1>7, <1>9, <1>10, <1>11 DEF Holds

LEMMA PoolGrown ==
    ASSUME LogGrows, NEW f, NEW r, NotChanged(f, r), PoolRight(f, r),
           r \in pool'[f].img.rows <=> r \in pool[f].img.rows,
           pool'[f].img.lsn \in Nat, pool'[f].img.lsn >= Len(log) \/ pool'[f].img.lsn = pool[f].img.lsn
    PROVE  PoolRight(f, r)'
  <1>1. History(f, r)' = History(f, r) /\ \A n \in History(f, r) : n \in Nat /\ n <= Len(log)
    BY GrownHistory
  <1>2. HistoryTo(f, r, Len(log))' = History(f, r) /\ HistoryTo(f, r, Len(log)) = History(f, r)
    BY <1>1 DEF HistoryTo, LogGrows
  <1>3. \A n \in History(f, r) : log'[n] = log[n]
    BY DEF History, LogGrows
  <1>4. Holds(f, r, Len(log))' <=> Holds(f, r, Len(log))
    BY <1>2, <1>3 DEF Holds
  <1>5. \A n \in History(f, r) : n <= pool'[f].img.lsn
    BY <1>1 DEF PoolRight, LogGrows
  <1> QED BY <1>1, <1>4, <1>5 DEF PoolRight

LEMMA ReachedOn ==
    ASSUME LogGrows, NEW f, NEW r, Loaded(f)' = Loaded(f), NEW w \in Nat, NEW v \in Nat, Reached(f, r, w),
           \/ NotChanged(f, r) /\ (v <= w \/ w = Len(log))
           \/ v <= w /\ w <= Len(log)
    PROVE  \A n \in History(f, r)' : n <= v => n <= Loaded(f)'.lsn
  <1> TAKE n \in History(f, r)'
  <1> HAVE n <= v
  <1>1. n \in Nat /\ (n \in History(f, r) \/ n > Len(log)) /\ (NotChanged(f, r) => n \in History(f, r))
    BY GrownHistory
  <1>2. n \in History(f, r) => n <= Len(log)
    BY GrownHistory
  <1>3. Len(log) \in Nat
    BY DEF LogGrows
  <1>4. n \in History(f, r) /\ n <= w
    BY <1>1, <1>2, <1>3
  <1> QED BY <1>4 DEF Reached

(* Rows of other files, while a session works on rows. *)
LEMMA OtherSessions ==
    ASSUME TypeOK, NEW c \in Client, NEW s, RowTo(c, s)
    PROVE  /\ client'[c] = s /\ \A a \in Actor : a # c => client'[a] = client[a]
           /\ \A a \in Actor : client'[a].pc \notin SyncPcs \/ client'[a] = client[a]
           /\ \A b \in Client : client'[b] = client[b] \/ client'[b].pc \notin {"ct_open", "ci_create"}
  <1>1. c \in Actor /\ s \in Sessions /\ client' = [client EXCEPT ![c] = s] /\ s.pc \notin SyncPcs \cup {"ct_open", "ci_create"}
    BY DEF RowTo, RowSession, RowPcs, SyncPcs, Actor
  <1>2. client'[c] = s /\ \A a \in Actor : a # c => client'[a] = client[a]
    BY <1>1, SessionStep
  <1> QED BY <1>1, <1>2 DEF Actor

LEMMA RowWorkContents ==
    ASSUME Struct, Struct', Contents, NEW c \in Client, NEW s, RowTo(c, s), NEW f, NEW op, NEW r, RowWork(f, op, r)
    PROVE  Contents'
  <1>1. f \in File /\ Open(f) /\ r \in Row /\ op \in {"ins", "del"} /\ Live(f)
    BY SyncedOpen DEF Struct, RowWork, Live, SchemaInv
  <1>2. /\ Len(log') = Len(log) + 1
        /\ \A n \in 1 .. Len(log) : log'[n] = log[n]
        /\ log'[Len(log) + 1] = Rec(f, op, r)
        /\ pool'[f].id = pool[f].id /\ pool'[f].img.lsn = Len(log) + 1
        /\ pool'[f].img.rows = Changed(pool[f].img, op, r)
        /\ \A g \in File : g # f => pool'[g] = pool[g]
    BY <1>1, RowChanged DEF RowWork, Struct
  <1>3. /\ UNCHANGED <<meta, file, dblwr, ckpt>> /\ hist'.lost = hist.lost /\ hist'.late = hist.late \cup Late(f, r)
    BY DEF RowWork
  <1>4. Len(log) \in Nat /\ ckpt \in Nat /\ ckpt <= Len(log)
    BY Typed DEF Struct, Facts, RangeFacts
  <1>5. LogGrows
    BY <1>2, <1>4 DEF LogGrows
  <1>6. \A n \in 1 .. Len(log') : n > Len(log) => n = Len(log) + 1
    BY <1>2, <1>4
  <1>7. log'[Len(log) + 1].file = f /\ log'[Len(log) + 1].row = r /\ log'[Len(log) + 1].op = op
    BY <1>2 DEF Rec
  <1>8. \A q : q # r => NotChanged(f, q)
    BY <1>6, <1>7 DEF NotChanged
  <1>9. /\ \A a \in Actor : client'[a].pc \notin SyncPcs \/ client'[a] = client[a]
        /\ \A b \in Client : client'[b] = client[b] \/ client'[b].pc \notin {"ct_open", "ci_create"}
    BY OtherSessions DEF Struct
  <1>10. ToOpen' = ToOpen /\ \A g : (Complete(g)' <=> Complete(g)) /\ Loaded(g)' = Loaded(g)
    BY <1>3 DEF ToOpen, Found, FilesOf, Complete, Loaded
  <1>11. \A g \in File \ {f} : FileKept(g)
    <2> TAKE g \in File \ {f}
    <2>1. pool'[g] = pool[g]
      BY <1>2
    <2>2. Opening(g)' => Opening(g)
      BY <1>9 DEF Opening, Target
    <2> QED BY <1>10, <2>1, <2>2 DEF FileKept, Live, Open
  <1>12. ASSUME NEW q \in Row, <<f, q>> \notin hist'.lost PROVE Right(f, q)'
    <2>1. Right(f, q) /\ PoolRight(f, q) /\ DiskRight(f, q)
      BY <1>1, <1>3, <1>12 DEF Contents, ImageInv, Right
    <2>2. PoolRight(f, q)'
      <3>1. CASE q # r
        <4>1. q \in pool'[f].img.rows <=> q \in pool[f].img.rows
          BY <1>2, <3>1 DEF Changed
        <4>2. pool'[f].img.lsn \in Nat /\ pool'[f].img.lsn >= Len(log)
          BY <1>2, <1>4
        <4> QED BY <1>5, <1>8, <2>1, <3>1, <4>1, <4>2, PoolGrown
      <3>2. CASE q = r
        <4>1. r \in pool'[f].img.rows <=> op = "ins"
          BY <1>1, <1>2 DEF Changed
        <4>2. Len(log) + 1 \in 1 .. Len(log') /\ Len(log) + 1 > Len(log)
          BY <1>2, <1>4
        <4>3. Len(log) + 1 \in History(f, r)'
          BY <1>7, <4>2 DEF History
        <4>4. \A n \in History(f, r)' : n > Len(log) => log'[n].op = op
          BY <1>6, <1>7 DEF History
        <4>5. Holds(f, r, Len(log))' <=> op = "ins"
          BY <1>5, <4>2, <4>3, <4>4, LastRecord
        <4>6. \A n \in History(f, r)' : n <= Len(log')
          BY <1>5, GrownHistory
        <4>7. \A n \in History(f, r)' : n <= pool'[f].img.lsn
          BY <1>2, <4>6
        <4> QED BY <3>2, <4>1, <4>5, <4>7 DEF PoolRight
      <3> QED BY <3>1, <3>2
    <2>3. DiskRight(f, q)'
      <3>1. PICK img : img = Loaded(f)
        OBVIOUS
      <3>2. img.lsn \in Nat /\ img.lsn <= Len(log) /\ Loaded(f)' = img
        BY <1>1, <1>10, <3>1, LoadedTypes DEF Live
      <3> QED BY <1>5, <2>1, <3>1, <3>2, DiskKept
    <2>4. f \in ToOpen' /\ Complete(f)' /\ <<f, q>> \notin hist'.late => Reached(f, q, ckpt)'
      <3> HAVE f \in ToOpen' /\ Complete(f)' /\ <<f, q>> \notin hist'.late
      <3>1. Reached(f, q, ckpt)
        BY <1>3, <1>10, <2>1 DEF Right
      <3>2. \A n \in History(f, q)' : n <= ckpt => n <= Loaded(f)'.lsn
        BY <1>4, <1>5, <1>10, <3>1, ReachedKept
      <3> QED BY <1>3, <3>2 DEF Reached
    <2> QED BY <2>2, <2>3, <2>4 DEF Right
  <1>13. /\ \A a \in Actor : client'[a].pc = "s_wait" => client'[a].lsn <= Len(log')
         /\ \A a \in Actor : \A g : Wanted(a, g)' <= Wanted(a, g) \/ Wanted(a, g) = Len(log)
    BY <1>5, <1>9, WantedKept DEF Struct, Contents
  <1>14. ASSUME NEW a \in Actor, NEW q \in Row, f \in ToOpen', Complete(f)', <<f, q>> \notin hist'.lost \cup hist'.late
         PROVE  Reached(f, q, Wanted(a, f))'
    <2>1. PICK w, v : w = Wanted(a, f) /\ v = Wanted(a, f)'
      OBVIOUS
    <2>2. Reached(f, q, w)
      BY <1>1, <1>3, <1>10, <1>14, <2>1 DEF Contents, SyncInv
    <2>3. w \in Nat /\ w <= Len(log)
      BY <2>1, WantedTypes DEF Struct, Contents, SyncInv
    <2>4. Wanted(a, f)' \in Nat
      <3>1. TypeOK' /\ (client'[a].pc = "s_wait" => client'[a].lsn <= Len(log'))
        BY <1>13 DEF Struct
      <3>2. client'[a].lsn \in Nat /\ Len(log') \in Nat
        BY <1>5, <3>1, SessionTypes DEF TypeOK, LogGrows
      <3> QED BY <3>2 DEF Wanted
    <2>5. v \in Nat /\ (v <= w \/ w = Len(log))
      BY <1>13, <2>1, <2>4
    <2>6. q = r => v <= w
      <3> HAVE q = r
      <3>1. Late(f, r) = {}
        BY <1>3, <1>14 DEF Late
      <3>2. ~(client[a].pc = "s_lsn" \/ (client[a].pc = "s_files" /\ f \notin client[a].todo))
        BY <3>1 DEF Late
      <3>3. client'[a] = client[a] \/ client'[a].pc \notin SyncPcs
        BY <1>9
      <3>4. Wanted(a, f)' = Wanted(a, f) \/ Wanted(a, f)' = 0
        BY <3>2, <3>3 DEF Wanted, SyncPcs
      <3> QED BY <2>1, <2>3, <3>4
    <2>7. \A n \in History(f, q)' : n <= v => n <= Loaded(f)'.lsn
      <3>1. q # r => NotChanged(f, q)
        BY <1>8
      <3> QED BY <1>5, <1>10, <2>2, <2>3, <2>5, <2>6, <3>1, ReachedOn
    <2> QED BY <2>1, <2>7 DEF Reached
  <1>15. \A n \in 1 .. Len(log') : n > Len(log) => log'[n].file \in {f}
    BY <1>6, <1>7
  <1>16. {f} \in SUBSET File /\ hist.lost \subseteq hist'.lost /\ hist.late \subseteq hist'.late /\ ckpt' = ckpt
    BY <1>1, <1>3
  <1>17. PICK X \in SUBSET File : X = {f}
    BY <1>16
  <1>18. /\ \A g \in File \ X : FileKept(g)
         /\ \A g \in File \ X, q \in Row : <<g, q>> \in hist.late => <<g, q>> \in hist'.late
         /\ \A n \in 1 .. Len(log') : n > Len(log) => log'[n].file \in X
         /\ \A g \in X, q \in Row : <<g, q>> \notin hist'.lost => Right(g, q)'
         /\ \A a \in Actor, g \in X, q \in Row :
               g \in ToOpen' /\ Complete(g)' /\ <<g, q>> \notin hist'.lost \cup hist'.late => Reached(g, q, Wanted(a, g))'
    BY <1>11, <1>12, <1>14, <1>15, <1>16, <1>17
  <1> QED BY <1>5, <1>13, <1>16, <1>18, ContentStep

(* Pages that are written. *)

(* A file of which the page on disk is now the one in memory. *)
LEMMA FlushedRight ==
    ASSUME Struct, log' = log, NEW f, NEW r, PoolRight(f, r), Loaded(f)' = pool[f].img
    PROVE  /\ DiskRight(f, r)'
           /\ \A n \in History(f, r)' : n <= Loaded(f)'.lsn
  <1>1. Len(log) \in Nat
    BY Typed DEF Struct, Facts, RangeFacts
  <1>2. History(f, r)' = History(f, r) /\ \A n \in History(f, r) : n \in Nat /\ n <= Len(log)
    BY <1>1 DEF History
  <1>3. \A n \in History(f, r) : n <= pool[f].img.lsn
    BY DEF PoolRight
  <1>4. HistoryTo(f, r, Loaded(f).lsn)' = History(f, r) /\ HistoryTo(f, r, Len(log)) = History(f, r)
    BY <1>2, <1>3 DEF HistoryTo
  <1>5. Holds(f, r, Loaded(f).lsn)' <=> Holds(f, r, Len(log))
    BY <1>4 DEF Holds
  <1> QED BY <1>2, <1>3, <1>5 DEF PoolRight, DiskRight

LEMMA SameLog ==
    ASSUME Struct, log' = log
    PROVE  LogGrows /\ (\A n \in 1 .. Len(log') : ~(n > Len(log))) /\ \A f, r : NotChanged(f, r)
  <1>1. Len(log) \in Nat
    BY Typed DEF Struct, Facts, RangeFacts
  <1>2. \A n \in 1 .. Len(log) : ~(n > Len(log))
    BY <1>1
  <1> QED BY <1>1, <1>2 DEF LogGrows, NotChanged

LEMMA FlushContents ==
    ASSUME Struct, Struct', Contents, NEW f \in File, CanFlush(f), FlushFile(f), UNCHANGED <<meta, file, ckpt, log, pool>>,
           hist.lost \subseteq hist'.lost, hist.late \ ({f} \X Row) \subseteq hist'.late,
           \A c \in Client : client'[c] = client[c] \/ client'[c].pc \notin {"ct_open", "ci_create"},
           \A a \in Actor : client'[a].pc = "s_wait" => client'[a].lsn <= Len(log'),
           \A a \in Actor, g \in File \ {f} : Wanted(a, g)' <= Wanted(a, g) \/ Wanted(a, g) = Len(log)
    PROVE  Contents'
  <1>1. Open(f) /\ Live(f) /\ pool[f].id = file[f].id
    BY DEF CanFlush, Live, Struct, SchemaInv
  <1>2. /\ pool[f].id \in 1 .. MaxPool /\ pool[f].img # NoImage /\ dblwr'[pool[f].id] = pool[f].img
        /\ \A p \in 1 .. MaxPool : p # pool[f].id => dblwr'[p] = dblwr[p]
    BY Flushed DEF Struct
  <1>3. Loaded(f)' = pool[f].img
    BY <1>1, <1>2 DEF Loaded
  <1>4. ToOpen' = ToOpen /\ \A g : (Complete(g)' <=> Complete(g)) /\ (Open(g)' <=> Open(g)) /\ (Opening(g)' => Opening(g))
    BY DEF ToOpen, Found, FilesOf, Complete, Open, Opening, Target
  <1>5. \A g \in File \ {f} : FileKept(g)
    <2> TAKE g \in File \ {f}
    <2>1. Live(g)' => Live(g)
      BY <1>4 DEF Live
    <2>2. Live(g) => Loaded(g)' = Loaded(g)
      <3> HAVE Live(g)
      <3>1. file[g].id # file[f].id
        BY <1>1 DEF Struct, IdInv
      <3>2. file[g].id \in 1 .. MaxPool
        BY Typed DEF Struct, Live, Facts, IdFacts
      <3>3. dblwr'[file[g].id] = dblwr[file[g].id]
        BY <1>1, <1>2, <3>1, <3>2
      <3> QED BY <3>3 DEF Loaded
    <2> QED BY <1>4, <2>1, <2>2 DEF FileKept
  <1>6. LogGrows /\ (\A n \in 1 .. Len(log') : ~(n > Len(log))) /\ \A g, r : NotChanged(g, r)
    BY SameLog
  <1>7. ASSUME NEW r \in Row, <<f, r>> \notin hist'.lost
        PROVE  PoolRight(f, r)' /\ DiskRight(f, r)' /\ \A n \in History(f, r)' : n <= Loaded(f)'.lsn
    <2>1. PoolRight(f, r)
      BY <1>1, <1>7 DEF Contents, ImageInv, Right
    <2>2. PoolRight(f, r)'
      BY <1>6, <2>1, PoolKept
    <2> QED BY <1>3, <2>1, <2>2, FlushedRight
  <1>8. \A r \in Row : <<f, r>> \notin hist'.lost => Right(f, r)'
    BY <1>7 DEF Right, Reached
  <1>9. \A a \in Actor, r \in Row : <<f, r>> \notin hist'.lost => Reached(f, r, Wanted(a, f))'
    BY <1>7 DEF Reached
  <1>10. {f} \in SUBSET File /\ \A g \in File \ {f}, r \in Row : <<g, r>> \in hist.late => <<g, r>> \in hist'.late
    OBVIOUS
  <1>11. PICK X \in SUBSET File : X = {f}
    BY <1>10
  <1>12. /\ \A g \in File \ X : FileKept(g)
         /\ \A g \in File \ X, r \in Row : <<g, r>> \in hist.late => <<g, r>> \in hist'.late
         /\ \A g \in X, r \in Row : <<g, r>> \notin hist'.lost => Right(g, r)'
         /\ \A a \in Actor, g \in X, r \in Row :
               g \in ToOpen' /\ Complete(g)' /\ <<g, r>> \notin hist'.lost \cup hist'.late => Reached(g, r, Wanted(a, g))'
         /\ \A a \in Actor, g \in File \ X : Wanted(a, g)' <= Wanted(a, g) \/ Wanted(a, g) = Len(log)
    BY <1>5, <1>8, <1>9, <1>10, <1>11
  <1> QED BY <1>6, <1>12, ContentStep

LEMMA WriteContents ==
    ASSUME Struct, Struct', Contents, status = "up",
           file' = Written(file, {f \in File : Open(f)}), dblwr' = Emptied, UNCHANGED <<meta, ckpt, log, flushed, pool, hist>>,
           \A c \in Client : client'[c] = client[c] \/ client'[c].pc \notin {"ct_open", "ci_create"},
           \A a \in Actor : client'[a].pc = "s_wait" => client'[a].lsn <= Len(log'),
           \A a \in Actor, g \in File : Wanted(a, g)' <= Wanted(a, g) \/ Wanted(a, g) = Len(log)
    PROVE  Contents'
  <1>1. /\ \A p \in 1 .. MaxPool : dblwr'[p] = NoImage
        /\ \A f \in File : file'[f].id = file[f].id /\ (~Open(f) => file'[f] = file[f])
        /\ \A f \in File : Open(f) => file'[f].img = Loaded(f)
    BY WrittenOut DEF Struct
  <1>2. ToOpen' = ToOpen /\ \A g : (Open(g)' <=> Open(g)) /\ (Opening(g)' => Opening(g))
    BY DEF ToOpen, Found, FilesOf, Open, Opening, Target
  <1>3. \A g \in File : Complete(g)' <=> Complete(g)
    BY <1>1 DEF Complete
  <1>4. \A g \in File : FileKept(g)
    <2> TAKE g \in File
    <2>1. Live(g)' => Live(g)
      BY <1>2, <1>3 DEF Live
    <2>2. Live(g) => Loaded(g)' = Loaded(g)
      <3> HAVE Live(g)
      <3>1. file[g].id \in 1 .. MaxPool
        BY Typed DEF Struct, Live, Facts, IdFacts
      <3>2. Loaded(g)' = file'[g].img
        BY <1>1, <3>1 DEF Loaded
      <3>3. CASE Open(g)
        BY <1>1, <3>2, <3>3
      <3>4. CASE ~Open(g)
        <4>1. dblwr[file[g].id] = NoImage
          <5> SUFFICES ASSUME dblwr[file[g].id] # NoImage PROVE FALSE
            OBVIOUS
          <5>1. PICK h \in File : file[h].id = file[g].id /\ Open(h)
            BY <3>1 DEF Struct, IdInv
          <5>2. Live(h)
            BY <5>1 DEF Live, Struct, SchemaInv
          <5>3. h # g
            BY <3>4, <5>1
          <5> QED BY <5>1, <5>2, <5>3 DEF Struct, IdInv
        <4>2. file'[g] = file[g]
          BY <1>1, <3>4
        <4> QED BY <3>2, <4>1, <4>2 DEF Loaded
      <3> QED BY <3>3, <3>4
    <2> QED BY <1>2, <1>3, <2>1, <2>2 DEF FileKept
  <1>5. LogGrows /\ (\A n \in 1 .. Len(log') : ~(n > Len(log)))
    BY SameLog
  <1>6. {} \in SUBSET File /\ hist.lost \subseteq hist'.lost /\ hist.late \subseteq hist'.late
    OBVIOUS
  <1> QED BY <1>4, <1>5, <1>6, ContentStep

LEMMA AllSynced ==
    ASSUME Struct, NoneOpening
    PROVE  SyncsAll
  <1> SUFFICES ASSUME NEW f \in File, f \in ToOpen, Complete(f) PROVE f \in Synced(opened)
    BY DEF SyncsAll
  <1>1. Open(f)
    BY DEF Struct, IdInv, NoneOpening, Opening
  <1>2. TableOf(f) \in Table /\ f = <<TableOf(f), f[2]>> /\ (f = Data(TableOf(f)) \/ f[2] \in Index)
    BY FileParts
  <1>3. opened \in [Table -> Metas]
    BY DEF Struct, TypeOK
  <1>4. CASE f = Data(TableOf(f))
    <2>1. opened[TableOf(f)] # NoMeta
      BY <1>1, <1>2, <1>4 DEF Struct, SchemaInv
    <2> QED BY <1>2, <1>3, <1>4, <2>1, SyncedFiles
  <1>5. CASE f # Data(TableOf(f))
    <2>1. f[2] \in Index /\ f[2] \in meta[TableOf(f)].indexes
      BY <1>2, <1>5, Typed DEF Struct, Facts, ToOpenFacts
    <2>2. opened[TableOf(f)] # NoMeta
      BY <1>2, <2>1 DEF Struct, SchemaInv, NoneOpening
    <2>3. f[2] \in opened[TableOf(f)].indexes
      BY <1>2, <2>1, <2>2 DEF Struct, SchemaInv
    <2> QED BY <1>2, <1>3, <2>1, <2>3, SyncedFiles
  <1> QED BY <1>4, <1>5

LEMMA SyncBegins ==
    ASSUME Struct', NoneOpening', NEW a \in Actor, client'[a].pc = "s_files", client'[a].todo = Synced(opened')
    PROVE  \A f \in File : f \in ToOpen' /\ Complete(f)' => Wanted(a, f)' = 0
  <1>1. SyncsAll'
    BY AllSynced, PTL
  <1>2. Synced(opened)' = Synced(opened')
    BY DEF Synced, Tables, FilesOf
  <1> QED BY <1>1, <1>2 DEF Wanted, SyncsAll

(* The syncs. *)
LEMMA SyncFileContents ==
    ASSUME Struct, Struct', Contents, NEW a \in Actor, NEW f \in File, SyncFile(a, f)
    PROVE  Contents'
  <1>1. /\ client[a].pc = "s_files" /\ CanFlush(f) /\ FlushFile(f) /\ UNCHANGED <<meta, file, ckpt, log, pool>>
        /\ hist'.lost = hist.lost /\ hist'.late = hist.late \ ({f} \X Row)
    BY FlushMarks DEF SyncFile, Struct
  <1>2. PICK s \in Sessions : client' = [client EXCEPT ![a] = s] /\ s.pc = "s_files" /\ s.todo = client[a].todo \ {f}
    BY SyncFileSession
  <1>3. client'[a] = s /\ \A b \in Actor : b # a => client'[b] = client[b]
    BY <1>2, SessionStep DEF Struct
  <1>4. \A c \in Client : client'[c] = client[c] \/ client'[c].pc \notin {"ct_open", "ci_create"}
    BY <1>2, <1>3 DEF Actor
  <1>5. \A b \in Actor : client'[b].pc = "s_wait" => client'[b].lsn <= Len(log')
    BY <1>1, <1>2, <1>3 DEF Contents, SyncInv
  <1>6. ASSUME NEW b \in Actor, NEW g \in File \ {f} PROVE Wanted(b, g)' <= Wanted(b, g) \/ Wanted(b, g) = Len(log)
    <2>1. Wanted(b, g)' = Wanted(b, g)
      <3>1. CASE b = a
        <4>1. g \in client'[a].todo <=> g \in client[a].todo
          BY <1>2, <1>3
        <4> QED BY <1>1, <1>2, <1>3, <3>1, <4>1 DEF Wanted
      <3>2. CASE b # a
        BY <1>1, <1>3, <3>2 DEF Wanted
      <3> QED BY <3>1, <3>2
    <2>2. Wanted(b, g) \in Nat
      BY WantedTypes DEF Struct, Contents, SyncInv
    <2> QED BY <2>1, <2>2
  <1> QED BY <1>1, <1>4, <1>5, <1>6, FlushContents

LEMMA SyncDblwrContents ==
    ASSUME Struct, Struct', Contents, NEW a \in Actor, SyncDblwr(a)
    PROVE  Contents'
  <1>1. /\ client[a].pc = "s_files" /\ client[a].todo = {} /\ Goto(a, "s_lsn")
        /\ file' = Written(file, {f \in File : Open(f)}) /\ dblwr' = Emptied /\ UNCHANGED <<meta, ckpt, log, flushed, pool, hist>>
    BY DEF SyncDblwr, memVars
  <1>2. PICK s \in Sessions : client' = [client EXCEPT ![a] = s] /\ s.pc = "s_lsn"
    BY <1>1, GotoStep DEF Struct, Pcs, SyncPcs
  <1>3. client'[a] = s /\ \A b \in Actor : b # a => client'[b] = client[b]
    BY <1>2, SessionStep DEF Struct
  <1>4. \A c \in Client : client'[c] = client[c] \/ client'[c].pc \notin {"ct_open", "ci_create"}
    BY <1>2, <1>3 DEF Actor
  <1>5. \A b \in Actor : client'[b].pc = "s_wait" => client'[b].lsn <= Len(log')
    BY <1>1, <1>2, <1>3 DEF Contents, SyncInv
  <1>6. ASSUME NEW b \in Actor, NEW g \in File PROVE Wanted(b, g)' <= Wanted(b, g) \/ Wanted(b, g) = Len(log)
    <2>1. CASE b = a
      BY <1>1, <2>1 DEF Wanted
    <2>2. CASE b # a
      <3>1. Wanted(b, g)' = Wanted(b, g)
        BY <1>1, <1>3, <2>2 DEF Wanted
      <3>2. Wanted(b, g) \in Nat
        BY WantedTypes DEF Struct, Contents, SyncInv
      <3> QED BY <3>1, <3>2
    <2> QED BY <2>1, <2>2
  <1>7. status = "up"
    BY <1>1, IdleSession DEF Struct, ActorInv
  <1> QED BY <1>1, <1>4, <1>5, <1>6, <1>7, WriteContents

LEMMA SyncLsnContents ==
    ASSUME Struct, Struct', Contents, NEW a \in Actor, SyncLsn(a)
    PROVE  Contents'
  <1>1. client[a].pc = "s_lsn" /\ UNCHANGED <<meta, file, dblwr, ckpt, log, pool, hist>>
    BY DEF SyncLsn, dirVars, memVars
  <1>2. PICK s \in Sessions : client' = [client EXCEPT ![a] = s] /\ s.pc = "s_wait" /\ s.lsn = Len(log)
    BY SyncLsnSession
  <1>3. client'[a] = s /\ \A b \in Actor : b # a => client'[b] = client[b]
    BY <1>2, SessionStep DEF Struct
  <1>4. \A f \in File : FileKept(f)
    BY <1>1, <1>2, <1>3, FilesKept DEF Actor
  <1>5. LogGrows /\ (\A n \in 1 .. Len(log') : ~(n > Len(log))) /\ Len(log) \in Nat
    BY <1>1, SameLog DEF LogGrows
  <1>6. \A b \in Actor : client'[b].pc = "s_wait" => client'[b].lsn <= Len(log')
    BY <1>1, <1>2, <1>3, <1>5 DEF Contents, SyncInv
  <1>7. ASSUME NEW b \in Actor, NEW g \in File PROVE Wanted(b, g)' <= Wanted(b, g) \/ Wanted(b, g) = Len(log)
    <2>1. CASE b = a
      BY <1>1, <2>1 DEF Wanted
    <2>2. CASE b # a
      <3>1. Wanted(b, g)' = Wanted(b, g)
        BY <1>1, <1>3, <2>2 DEF Wanted
      <3>2. Wanted(b, g) \in Nat
        BY WantedTypes DEF Struct, Contents, SyncInv
      <3> QED BY <3>1, <3>2
    <2> QED BY <2>1, <2>2
  <1>8. {} \in SUBSET File /\ hist.lost \subseteq hist'.lost /\ hist.late \subseteq hist'.late
    BY <1>1
  <1> QED BY <1>1, <1>4, <1>5, <1>6, <1>7, <1>8, ContentStep

LEMMA SyncMetaContents ==
    ASSUME Struct, Struct', Contents, NEW a \in Actor, NEW s, Checkpoint(a, s)
    PROVE  Contents'
  <1>1. /\ client[a].pc = "s_wait" /\ UNCHANGED <<meta, file, dblwr, log, pool>> /\ ckpt' = client[a].lsn
        /\ hist'.lost = hist.lost /\ hist'.late = hist.late /\ s \in Sessions /\ client' = [client EXCEPT ![a] = s] /\ s.pc \in {"close", "idle"}
    BY IdleSession DEF Checkpoint
  <1>2. client'[a] = s /\ \A b \in Actor : b # a => client'[b] = client[b]
    BY <1>1, SessionStep DEF Struct
  <1>3. \A f \in File : FileKept(f)
    BY <1>1, <1>2, FilesKept DEF Actor
  <1>4. LogGrows /\ (\A n \in 1 .. Len(log') : ~(n > Len(log)))
    BY <1>1, SameLog
  <1>5. \A b \in Actor : client'[b].pc \notin SyncPcs \/ client'[b] = client[b]
    BY <1>1, <1>2 DEF SyncPcs
  <1>6. /\ \A b \in Actor : client'[b].pc = "s_wait" => client'[b].lsn <= Len(log')
        /\ \A b \in Actor : \A f : Wanted(b, f)' <= Wanted(b, f) \/ Wanted(b, f) = Len(log)
    BY <1>4, <1>5, WantedKept DEF Struct, Contents
  <1>7. {} \in SUBSET File /\ hist.lost \subseteq hist'.lost /\ hist.late \subseteq hist'.late
    BY <1>1
  <1> QED BY <1>1, <1>3, <1>4, <1>6, <1>7, ContentStep

LEMMA DestroyContents ==
    ASSUME Struct, Struct', Contents, Destroy
    PROVE  Contents'
  <1>1. UNCHANGED <<meta, file, dblwr, ckpt, log, pool, hist, opened, status>> /\ status = "up" /\ \A a \in Actor : client[a].pc = "idle"
    BY DEF Destroy, dirVars, memVars
  <1>2. Main \in Actor /\ \A c \in Client : c \in Actor /\ c # Main
    BY MainAssumption DEF Actor
  <1>3. PICK s \in Sessions : client' = [client EXCEPT ![Main] = s] /\ s.pc = "s_files" /\ s.todo = Synced(opened)
    BY DestroySession
  <1>4. client'[Main] = s /\ \A b \in Actor : b # Main => client'[b] = client[b]
    BY <1>2, <1>3, SessionStep DEF Struct
  <1>5. \A f \in File : FileKept(f)
    BY <1>1, <1>2, <1>4, FilesKept
  <1>6. LogGrows /\ (\A n \in 1 .. Len(log') : ~(n > Len(log)))
    BY <1>1, SameLog
  <1>7. NoneOpening'
    BY <1>1, <1>2, <1>4 DEF NoneOpening
  <1>8. \A f \in File : f \in ToOpen' /\ Complete(f)' => Wanted(Main, f)' = 0
    <2>1. client'[Main].pc = "s_files" /\ client'[Main].todo = Synced(opened')
      BY <1>1, <1>3, <1>4
    <2> QED BY <1>2, <1>7, <2>1, SyncBegins
  <1>9. \A b \in Actor : \A f : b # Main => Wanted(b, f)' = 0
    BY <1>1, <1>4 DEF Wanted
  <1>10. \A b \in Actor : \A f : Wanted(b, f) \in Nat
    BY WantedTypes DEF Struct, Contents, SyncInv
  <1>11. \A b \in Actor, f \in File : f \in ToOpen' /\ Complete(f)' => Wanted(b, f)' <= Wanted(b, f)
    BY <1>8, <1>9, <1>10
  <1>12. \A b \in Actor : client'[b].pc # "s_wait"
    BY <1>1, <1>3, <1>4
  <1>13. {} \in SUBSET File /\ hist.lost \subseteq hist'.lost /\ hist.late \subseteq hist'.late
    BY <1>1
  <1> QED BY <1>1, <1>5, <1>6, <1>11, <1>12, <1>13, ContentStep

(* The log thread and the pages that make room. *)
LEMMA QuietContents ==
    ASSUME Struct, Struct', Contents, FlushLog \/ DblwrFull \/ \E f \in File : Evict(f)
    PROVE  Contents'
  <1>1. UNCHANGED <<meta, ckpt, log, pool, client>> /\ status = "up"
    BY DEF FlushLog, DblwrFull, Evict, memVars
  <1>2. LogGrows
    BY <1>1, SameLog
  <1>3. /\ \A a \in Actor : client'[a].pc = "s_wait" => client'[a].lsn <= Len(log')
        /\ \A a \in Actor : \A f : Wanted(a, f)' <= Wanted(a, f) \/ Wanted(a, f) = Len(log)
    BY <1>1, <1>2, WantedKept DEF Struct, Contents
  <1>4. CASE FlushLog
    <2>1. UNCHANGED <<file, dblwr, hist>>
      BY <1>4 DEF FlushLog
    <2>2. \A f \in File : FileKept(f)
      BY <1>1, <2>1, FilesKept
    <2>3. hist.lost \subseteq hist'.lost /\ hist.late \subseteq hist'.late
      BY <2>1
    <2> QED BY <1>1, <2>2, <2>3, ContentKept
  <1>5. CASE DblwrFull
    <2>1. file' = Written(file, {f \in File : Open(f)}) /\ dblwr' = Emptied /\ flushed' = flushed
          /\ hist' = hist
      BY <1>5 DEF DblwrFull
    <2> QED BY <1>1, <1>3, <2>1, WriteContents
  <1>6. ASSUME NEW f \in File, Evict(f) PROVE Contents'
    <2>1. CanFlush(f) /\ FlushFile(f) /\ file' = file
      BY <1>6 DEF Evict
    <2>2. hist'.lost = hist.lost /\ hist'.late = hist.late \ ({f} \X Row)
      BY <1>6, FlushMarks DEF Evict, Struct
    <2>3. hist.lost \subseteq hist'.lost /\ hist.late \ ({f} \X Row) \subseteq hist'.late
      BY <2>2
    <2>4. \A c \in Client : client'[c] = client[c] \/ client'[c].pc \notin {"ct_open", "ci_create"}
      BY <1>1
    <2>5. \A a \in Actor, g \in File \ {f} : Wanted(a, g)' <= Wanted(a, g) \/ Wanted(a, g) = Len(log)
      BY <1>3
    <2> QED BY <1>1, <1>3, <2>1, <2>3, <2>4, <2>5, FlushContents
  <1> QED BY <1>4, <1>5, <1>6

(* What is dropped is lost; the other rows, and what is on disk, stay. *)
LEMMA DropContents ==
    ASSUME Struct, Struct', Contents, NEW f \in File, NEW rows \in SUBSET Row, Drop(f, rows)
    PROVE  Contents'
  <1>1. UNCHANGED <<meta, file, dblwr, ckpt, log, client>>
    BY DEF Drop, dirVars
  <1>2. /\ Open(f) /\ pool'[f].id = pool[f].id /\ pool'[f].img.lsn = pool[f].img.lsn
        /\ \A r \in Row \ rows : r \in pool'[f].img.rows <=> r \in pool[f].img.rows
        /\ \A g \in File : g # f => pool'[g] = pool[g]
        /\ hist'.lost = hist.lost \cup ({f} \X rows) /\ hist'.late = hist.late
    BY DropMarks
  <1>3. LogGrows /\ (\A n \in 1 .. Len(log') : ~(n > Len(log))) /\ \A g, r : NotChanged(g, r)
    BY <1>1, SameLog
  <1>4. /\ \A a \in Actor : client'[a].pc = "s_wait" => client'[a].lsn <= Len(log')
        /\ \A a \in Actor : \A g : Wanted(a, g)' <= Wanted(a, g) \/ Wanted(a, g) = Len(log)
    BY <1>1, <1>3, WantedKept DEF Struct, Contents
  <1>5. /\ ToOpen' = ToOpen /\ \A g : (Complete(g)' <=> Complete(g)) /\ Loaded(g)' = Loaded(g) /\ (Opening(g)' <=> Opening(g))
        /\ \A g, r : History(g, r)' = History(g, r)
    BY <1>1 DEF ToOpen, Found, FilesOf, Complete, Loaded, Opening, Target, History
  <1>6. \A g \in File \ {f} : FileKept(g)
    BY <1>2, <1>5 DEF FileKept, Live, Open
  <1>7. ASSUME NEW r \in Row, <<f, r>> \notin hist'.lost PROVE Right(f, r)'
    <2>1. r \notin rows /\ <<f, r>> \notin hist.lost
      BY <1>2, <1>7
    <2>2. Right(f, r) /\ Live(f) /\ PoolRight(f, r) /\ DiskRight(f, r)
      BY <1>2, <2>1 DEF Contents, ImageInv, Right, Live, Struct, SchemaInv
    <2>3. PoolRight(f, r)'
      <3>1. pool[f].img.lsn \in Nat
        <4>1. pool[f].img \in Images(0 .. Len(log)) /\ Len(log) \in Nat
          BY <1>2, ImageTypes, Typed DEF Struct, Facts, RangeFacts
        <4> QED BY <4>1 DEF Images
      <3> QED BY <1>2, <1>3, <2>1, <2>2, <3>1, PoolGrown
    <2>4. DiskRight(f, r)'
      <3>1. Loaded(f).lsn \in Nat /\ Loaded(f).lsn <= Len(log)
        BY <2>2, LoadedTypes DEF Live
      <3> QED BY <1>3, <1>5, <2>2, <3>1, DiskKept
    <2>5. f \in ToOpen' /\ Complete(f)' /\ <<f, r>> \notin hist'.late => Reached(f, r, ckpt)'
      BY <1>1, <1>2, <1>5, <2>2 DEF Right, Reached
    <2> QED BY <2>3, <2>4, <2>5 DEF Right
  <1>8. ASSUME NEW a \in Actor, NEW r \in Row, f \in ToOpen', Complete(f)', <<f, r>> \notin hist'.lost \cup hist'.late
        PROVE  Reached(f, r, Wanted(a, f))'
    <2>1. Reached(f, r, Wanted(a, f))
      BY <1>2, <1>5, <1>8 DEF Contents, SyncInv
    <2>2. Wanted(a, f)' = Wanted(a, f)
      BY <1>1 DEF Wanted
    <2> QED BY <1>5, <2>1, <2>2 DEF Reached
  <1>9. PICK X \in SUBSET File : X = {f}
    OBVIOUS
  <1>10. /\ \A g \in File \ X : FileKept(g)
         /\ \A g \in File \ X, r \in Row : <<g, r>> \in hist.late => <<g, r>> \in hist'.late
         /\ \A g \in X, r \in Row : <<g, r>> \notin hist'.lost => Right(g, r)'
         /\ \A a \in Actor, g \in X, r \in Row :
               g \in ToOpen' /\ Complete(g)' /\ <<g, r>> \notin hist'.lost \cup hist'.late => Reached(g, r, Wanted(a, g))'
         /\ hist.lost \subseteq hist'.lost
    BY <1>2, <1>6, <1>7, <1>8, <1>9
  <1> QED BY <1>1, <1>3, <1>4, <1>10, ContentStep

LEMMA FlushTreeContents ==
    ASSUME Struct, Struct', Contents, NEW c \in Client, FlushTree(c)
    PROVE  Contents'
  <1>1. UNCHANGED <<meta, file, ckpt, log, pool, hist>> /\ CanFlush(IndexFile(c)) /\ FlushFile(IndexFile(c))
    BY DEF FlushTree, memVars
  <1>2. PICK f \in File : f = IndexFile(c)
    BY FlushTreeStruct
  <1>3. PICK s : SchemaSession(c, s) /\ s.pc = "ci_scan"
    BY FlushTreeStruct
  <1>4. c \in Actor /\ client'[c] = s /\ \A b \in Actor : b # c => client'[b] = client[b]
    BY <1>3, SessionStep DEF Struct, SchemaSession, Actor
  <1>5. \A a \in Actor : client'[a].pc \notin SyncPcs \/ client'[a] = client[a]
    BY <1>3, <1>4 DEF SyncPcs
  <1>6. \A b \in Client : client'[b] = client[b] \/ client'[b].pc \notin {"ct_open", "ci_create"}
    BY <1>3, <1>4 DEF Actor
  <1>7. LogGrows
    BY <1>1, SameLog
  <1>8. /\ \A a \in Actor : client'[a].pc = "s_wait" => client'[a].lsn <= Len(log')
        /\ \A a \in Actor : \A g : Wanted(a, g)' <= Wanted(a, g) \/ Wanted(a, g) = Len(log)
    BY <1>5, <1>7, WantedKept DEF Struct, Contents
  <1>9. hist.lost \subseteq hist'.lost /\ hist.late \ ({f} \X Row) \subseteq hist'.late
    BY <1>1
  <1> QED BY <1>1, <1>2, <1>6, <1>8, <1>9, FlushContents

(* What a schema change does to its own file; a sync that begins wants     *)
(* nothing yet.                                                            *)
LEMMA SchemaWanted ==
    ASSUME Struct, Struct', NEW c \in Client, NEW s, SchemaSession(c, s), status' = status,
           s.pc \in SyncPcs => s.pc = "s_files" /\ s.todo = Synced(opened')
    PROVE  /\ \A a \in Actor : client'[a].pc # "s_wait"
           /\ \A a \in Actor, f \in File : f \in ToOpen' /\ Complete(f)' => Wanted(a, f)' = 0
  <1>1. c \in Actor /\ c # Main /\ client'[c] = s /\ \A b \in Actor : b # c => client'[b] = client[b]
    BY SessionStep, MainAssumption DEF Struct, SchemaSession, Actor
  <1>2. Ddl(c)
    BY DEF SchemaSession, Ddl
  <1>3. \A b \in Actor : b # c => ~Ddl(b)
    BY <1>1, <1>2 DEF Struct, ActorInv
  <1>4. \A b \in Actor : b # c => client'[b].pc \notin SyncPcs
    BY <1>1, <1>3 DEF Ddl
  <1>5. \A b \in Actor : \A f : b # c => Wanted(b, f)' = 0
    BY <1>4 DEF Wanted, SyncPcs
  <1>6. CASE s.pc \notin SyncPcs
    <2>1. \A f : Wanted(c, f)' = 0
      BY <1>1, <1>6 DEF Wanted, SyncPcs
    <2> QED BY <1>1, <1>4, <1>5, <1>6, <2>1 DEF SyncPcs
  <1>7. CASE s.pc \in SyncPcs
    <2>1. client'[c].pc = "s_files" /\ client'[c].todo = Synced(opened')
      BY <1>1, <1>7
    <2>2. status' = "up"
      BY <1>1, Working DEF Struct, SchemaSession, TablePcs, IndexPcs
    <2>3. \A b \in Client : client'[b].pc \notin {"ct_open", "ci_create"}
      BY <1>1, <1>3, <2>1 DEF Ddl, TablePcs, IndexPcs, Actor
    <2>4. NoneOpening'
      BY <2>2, <2>3 DEF NoneOpening
    <2>5. \A f \in File : f \in ToOpen' /\ Complete(f)' => Wanted(c, f)' = 0
      BY <1>1, <2>1, <2>4, SyncBegins
    <2> QED BY <1>1, <1>4, <1>5, <2>1, <2>5 DEF SyncPcs
  <1> QED BY <1>6, <1>7

LEMMA SchemaContents ==
    ASSUME Struct, Struct', Contents, LogGrows, ckpt' = ckpt, status' = status,
           hist.lost \subseteq hist'.lost, hist.late \subseteq hist'.late,
           NEW c \in Client, NEW s, SchemaSession(c, s),
           s.pc \in SyncPcs => s.pc = "s_files" /\ s.todo = Synced(opened'),
           NEW f \in File, \A g \in File \ {f} : FileKept(g),
           \A n \in 1 .. Len(log') : n > Len(log) => log'[n].file = f,
           \A r \in Row : <<f, r>> \notin hist'.lost => Right(f, r)'
    PROVE  Contents'
  <1>1. /\ \A a \in Actor : client'[a].pc # "s_wait"
        /\ \A a \in Actor, g \in File : g \in ToOpen' /\ Complete(g)' => Wanted(a, g)' = 0
    BY SchemaWanted
  <1>2. \A a \in Actor : \A g : Wanted(a, g) \in Nat
    BY WantedTypes DEF Struct, Contents, SyncInv
  <1>3. \A a \in Actor, g \in File : g \in ToOpen' /\ Complete(g)' => Wanted(a, g)' <= Wanted(a, g)
    BY <1>1, <1>2
  <1>4. \A r : \A n \in History(f, r)' : ~(n <= 0)
    BY DEF History
  <1>5. \A a \in Actor, r \in Row : f \in ToOpen' /\ Complete(f)' => Reached(f, r, Wanted(a, f))'
    BY <1>1, <1>4 DEF Reached
  <1>6. PICK X \in SUBSET File : X = {f}
    OBVIOUS
  <1>7. /\ \A g \in File \ X : FileKept(g)
        /\ \A n \in 1 .. Len(log') : n > Len(log) => log'[n].file \in X
        /\ \A g \in X, r \in Row : <<g, r>> \notin hist'.lost => Right(g, r)'
    BY <1>6
  <1>8. \A a \in Actor, g \in X, r \in Row :
           g \in ToOpen' /\ Complete(g)' /\ <<g, r>> \notin hist'.lost \cup hist'.late => Reached(g, r, Wanted(a, g))'
    BY <1>5, <1>6
  <1>9. /\ \A a \in Actor : client'[a].pc = "s_wait" => client'[a].lsn <= Len(log')
        /\ \A a \in Actor, g \in File \ X :
              g \in ToOpen' /\ Complete(g)' => Wanted(a, g)' <= Wanted(a, g) \/ Wanted(a, g) = Len(log)
    BY <1>1, <1>3
  <1> QED BY <1>7, <1>8, <1>9, ContentStep

LEMMA Untouched ==
    ASSUME NEW f, NEW r, History(f, r)' = {}
    PROVE  /\ r \notin pool'[f].img.rows => PoolRight(f, r)'
           /\ r \notin Loaded(f)'.rows => DiskRight(f, r)'
           /\ Reached(f, r, ckpt)'
  <1>1. ~Holds(f, r, Len(log))' /\ ~Holds(f, r, Loaded(f).lsn)'
    BY DEF Holds, HistoryTo
  <1> QED BY <1>1 DEF PoolRight, DiskRight, Reached

LEMMA RenameMetaContents ==
    ASSUME Struct, Struct', Contents, NEW c \in Client, RenameMeta(c)
    PROVE  Contents'
  <1>1. UNCHANGED <<file, dblwr, ckpt, log, pool, hist, opened, status>>
    BY DEF RenameMeta, memVars
  <1>2. PICK f : f = IndexFile(c)
    OBVIOUS
  <1>3. /\ f \in File /\ Open(f) /\ \A n \in RecordsOf(f) : n > ckpt
        /\ \A g \in File : (Live(g)' => Live(g)) /\ (g \in ToOpen' <=> g \in ToOpen \/ g = f)
    BY <1>2, RenameMetaStruct
  <1>4. PICK s : SchemaSession(c, s) /\ s.pc = "s_files" /\ s.todo = Synced(opened)
    BY <1>2, RenameMetaStruct
  <1>5. \A g : (Complete(g)' <=> Complete(g)) /\ (Open(g)' <=> Open(g)) /\ Loaded(g)' = Loaded(g)
    BY <1>1 DEF Complete, Open, Loaded
  <1>6. \A g \in File \ {f} : FileKept(g)
    BY <1>1, <1>3, <1>5 DEF FileKept
  <1>7. LogGrows /\ (\A n \in 1 .. Len(log') : ~(n > Len(log))) /\ \A g, r : NotChanged(g, r)
    BY <1>1, SameLog
  <1>8. ASSUME NEW r \in Row, <<f, r>> \notin hist'.lost PROVE Right(f, r)'
    <2>1. Live(f) /\ PoolRight(f, r) /\ DiskRight(f, r)
      BY <1>1, <1>3, <1>8 DEF Contents, ImageInv, Right, Live, Struct, SchemaInv
    <2>2. PoolRight(f, r)'
      BY <1>1, <1>7, <2>1, PoolKept
    <2>3. DiskRight(f, r)'
      <3>1. Loaded(f).lsn \in Nat /\ Loaded(f).lsn <= Len(log)
        BY <1>3, <2>1, LoadedTypes DEF Live
      <3> QED BY <1>5, <1>7, <2>1, <3>1, DiskKept
    <2>4. Reached(f, r, ckpt)'
      <3>1. \A n \in History(f, r) : n > ckpt /\ n \in Nat /\ ckpt \in Nat
        BY <1>3, Typed DEF History, RecordsOf, Struct, Facts, RangeFacts
      <3> QED BY <1>1, <3>1 DEF Reached, History
    <2> QED BY <2>2, <2>3, <2>4 DEF Right
  <1> QED BY <1>1, <1>3, <1>4, <1>6, <1>7, <1>8, SchemaContents

LEMMA OpensContents ==
    ASSUME Struct, Struct', Contents, NEW c \in Client, NEW f \in File, OpensFile(c, f), NEW s, SchemaSession(c, s),
           s.pc \in SyncPcs => s.pc = "s_files" /\ s.todo = Synced(opened'),
           ToOpen' = ToOpen, \A g \in File : (Live(g)' => Live(g)) /\ (Open(g)' <=> Open(g) \/ g = f),
           RecordsOf(f) = {}, pool'[f].img.rows = {}, \A r \in Row : NotChanged(f, r)
    PROVE  Contents'
  <1>1. UNCHANGED <<meta, file, dblwr, ckpt, status, hist>> /\ \A g \in File : g # f => pool'[g] = pool[g]
    BY DEF OpensFile
  <1>2. LogGrows
    BY Typed DEF OpensFile, LogGrows, Struct, Facts, RangeFacts
  <1>3. \A g : (Complete(g)' <=> Complete(g)) /\ Loaded(g)' = Loaded(g)
    BY <1>1 DEF Complete, Loaded
  <1>4. \A g \in File \ {f} : FileKept(g)
    BY <1>1, <1>3 DEF FileKept
  <1>5. ASSUME NEW r \in Row, <<f, r>> \notin hist'.lost PROVE Right(f, r)'
    <2>1. History(f, r)' = {}
      BY <1>2, GrownHistory DEF History, RecordsOf
    <2>2. PoolRight(f, r)' /\ Reached(f, r, ckpt)'
      BY <2>1, Untouched
    <2>3. Live(f)' => DiskRight(f, r)'
      <3> HAVE Live(f)'
      <3>1. Live(f) /\ DiskRight(f, r)
        BY <1>1, <1>5 DEF Contents, ImageInv, Right
      <3>2. Loaded(f).lsn \in Nat /\ Loaded(f).lsn <= Len(log)
        BY <3>1, LoadedTypes DEF Live
      <3> QED BY <1>2, <1>3, <3>1, <3>2, DiskKept
    <2> QED BY <2>2, <2>3 DEF Right
  <1>6. \A n \in 1 .. Len(log') : n > Len(log) => log'[n].file = f
    BY DEF OpensFile
  <1> QED BY <1>1, <1>2, <1>4, <1>5, <1>6, SchemaContents

LEMMA CreateTableEndContents ==
    ASSUME Struct, Struct', Contents, NEW c \in Client, CreateTableEnd(c)
    PROVE  Contents'
  <1>1. PICK f : f = Data(client[c].t)
    OBVIOUS
  <1>2. /\ OpensFile(c, f) /\ f \in File
        /\ pool'[f] = file[f] /\ file[f].img = NewImage /\ RecordsOf(f) = {} /\ log' = log
        /\ ToOpen' = ToOpen /\ \A g \in File : (Live(g)' => Live(g)) /\ (Open(g)' <=> Open(g) \/ g = f)
    BY <1>1, CreateTableEndStruct
  <1>3. PICK s : SchemaSession(c, s) /\ s.pc = "s_files" /\ s.todo = Synced(opened')
    BY <1>1, CreateTableEndStruct
  <1>4. pool'[f].img.rows = {}
    BY <1>2 DEF NewImage
  <1>5. \A r \in Row : NotChanged(f, r)
    BY <1>2, SameLog
  <1> QED BY <1>2, <1>3, <1>4, <1>5, OpensContents

LEMMA CreateTreeContents ==
    ASSUME Struct, Struct', Contents, NEW c \in Client, CreateTree(c)
    PROVE  Contents'
  <1>1. PICK f : f = IndexFile(c)
    OBVIOUS
  <1>2. /\ OpensFile(c, f) /\ f \in File /\ pool'[f].img.rows = {} /\ RecordsOf(f) = {}
        /\ Len(log') = Len(log) + 1 /\ log'[Len(log')].row = 0
        /\ ToOpen' = ToOpen /\ \A g \in File : (Live(g)' => Live(g)) /\ (Open(g)' <=> Open(g) \/ g = f)
    BY <1>1, CreateTreeStruct
  <1>3. PICK s : SchemaSession(c, s) /\ s.pc = "ci_sync"
    BY <1>1, CreateTreeStruct
  <1>4. Len(log) \in Nat /\ 0 \notin Row
    BY Typed, NameAssumption DEF Struct, Facts, RangeFacts
  <1>5. \A n \in 1 .. Len(log') : n > Len(log) => n = Len(log')
    BY <1>2, <1>4
  <1>6. \A r \in Row : NotChanged(f, r)
    BY <1>2, <1>4, <1>5 DEF NotChanged
  <1>7. s.pc \notin SyncPcs
    BY <1>3 DEF SyncPcs
  <1> QED BY <1>2, <1>3, <1>6, <1>7, OpensContents

LEMMA WriteHeaderContents ==
    ASSUME Struct, Struct', Contents, NEW c \in Client, NEW f \in File,
           \/ WriteHeader(c, "ct_header", f, "ct_open") /\ f = Data(client[c].t)
           \/ WriteHeader(c, "ci_header", f, "ci_create") /\ f = <<client[c].t, client[c].i>>
    PROVE  Contents'
  <1>1. UNCHANGED <<dblwr, ckpt, log, pool, hist, status>>
    BY DEF WriteHeader
  <1>2. /\ \A g \in File : g # f => (Live(g)' => Live(g)) /\ file'[g] = file[g]
        /\ file'[f].img = NewImage /\ dblwr[file'[f].id] = NoImage /\ RecordsOf(f) = {} /\ ~Complete(f)
        /\ ToOpen' = ToOpen
    BY WriteHeaderStruct
  <1>3. PICK s : SchemaSession(c, s) /\ s.pc \in {"ct_open", "ci_create"}
    BY WriteHeaderStruct
  <1>4. s.pc \notin SyncPcs
    BY <1>3 DEF SyncPcs
  <1>5. \A g \in File \ {f} : FileKept(g)
    BY <1>1, <1>2 DEF FileKept, Open, Loaded, Complete
  <1>6. LogGrows /\ (\A n \in 1 .. Len(log') : ~(n > Len(log)))
    BY <1>1, SameLog
  <1>7. Loaded(f)' = NewImage /\ ~Open(f)'
    BY <1>1, <1>2 DEF Loaded, Open, Struct, SchemaInv
  <1>8. ASSUME NEW r \in Row PROVE Right(f, r)'
    <2>1. History(f, r)' = {}
      BY <1>1, <1>2 DEF History, RecordsOf
    <2>2. r \notin Loaded(f)'.rows
      BY <1>7 DEF NewImage
    <2> QED BY <1>7, <2>1, <2>2, Untouched DEF Right
  <1> QED BY <1>1, <1>3, <1>4, <1>5, <1>6, <1>8, SchemaContents

LEMMA ScanRowsContents ==
    ASSUME Struct, Struct', Contents, NEW c \in Client, ScanRows(c)
    PROVE  Contents'
  <1>1. PICK f, rows : f = IndexFile(c) /\ rows = {r \in pool[Data(client[c].t)].img.rows : Sees(c, client[c].t, r)}
    OBVIOUS
  <1>2. Scanned(f, rows) /\ f \in File /\ client[c].pc = "ci_scan" /\ rows \subseteq Row /\ hist'.lost = hist.lost /\ hist'.late = hist.late
    BY <1>1, ScanWork
  <1>3. PICK s : SchemaSession(c, s) /\ s.pc = "ci_push"
    BY ScanRowsStruct
  <1>4. UNCHANGED <<meta, file, dblwr, ckpt, status>> /\ \A g \in File : g # f => pool'[g] = pool[g]
    BY <1>2 DEF Scanned
  <1>5. LogGrows
    <2>1. Len(log) \in Nat /\ Len(log') >= Len(log)
      BY <1>2, Typed DEF Scanned, Struct, Facts, RangeFacts
    <2>2. Len(log') \in Nat
      BY LenProperties DEF Struct, TypeOK
    <2> QED BY <1>2, <2>1, <2>2 DEF Scanned, LogGrows
  <1>6. \A n \in 1 .. Len(log') : n > Len(log) => log'[n].file = f /\ log'[n].op = "ins" /\ log'[n].row \in rows
    BY <1>2 DEF Scanned
  <1>7. ToOpen' = ToOpen /\ \A g : (Complete(g)' <=> Complete(g)) /\ Loaded(g)' = Loaded(g)
    BY <1>4 DEF ToOpen, Found, FilesOf, Complete, Loaded
  <1>8. client'[c] = s /\ c \in Actor /\ \A b \in Actor : b # c => client'[b] = client[b]
    BY <1>3, SessionStep DEF Struct, SchemaSession, Actor
  <1>9. \A b \in Client : client'[b] = client[b] \/ client'[b].pc \notin {"ct_open", "ci_create"}
    BY <1>3, <1>8 DEF Actor
  <1>10. \A g \in File \ {f} : FileKept(g)
    <2> TAKE g \in File \ {f}
    <2>1. pool'[g] = pool[g]
      BY <1>4
    <2>2. Opening(g)' => Opening(g)
      BY <1>9 DEF Opening, Target
    <2> QED BY <1>7, <2>1, <2>2 DEF FileKept, Live, Open
  <1>11. /\ Open(f) /\ Live(f)
         /\ \A r \in Row : History(f, r) = {}
    <2>1. client[c].pc \in IndexPcs /\ f = <<client[c].t, client[c].i>>
      BY <1>1, <1>2 DEF IndexPcs, IndexFile
    <2>2. Open(f) /\ \A n \in RecordsOf(f) : log[n].row = 0
      BY <1>2, <2>1 DEF Struct, WorkInv, IndexMade
    <2>3. \A r \in Row : r # 0
      BY NameAssumption
    <2> QED BY <1>2, <2>2, <2>3 DEF History, RecordsOf, Live, Struct, SchemaInv
  <1>12. \A n \in RecordsOf(f)' : n > ckpt'
    <2>1. client'[c].pc = "ci_push" /\ IndexMade(c)'
      BY <1>3, <1>8 DEF Struct, WorkInv
    <2>2. client'[c].t = client[c].t /\ client'[c].i = client[c].i
      BY <1>3, <1>8 DEF SchemaSession
    <2>3. <<client'[c].t, client'[c].i>> = f
      BY <1>1, <2>2 DEF IndexFile
    <2> QED BY <2>1, <2>3 DEF IndexMade, IndexPcs
  <1>13. ASSUME NEW r \in Row, <<f, r>> \notin hist'.lost PROVE Right(f, r)'
    <2>1. DiskRight(f, r)'
      <3>1. DiskRight(f, r)
        BY <1>2, <1>11, <1>13 DEF Contents, ImageInv, Right
      <3>2. Loaded(f).lsn \in Nat /\ Loaded(f).lsn <= Len(log)
        BY <1>2, <1>11, LoadedTypes DEF Live
      <3> QED BY <1>5, <1>7, <3>1, <3>2, DiskKept
    <2>2. Reached(f, r, ckpt)'
      <3>1. \A n \in History(f, r)' : n \in RecordsOf(f)' /\ n \in Nat
        BY DEF History, RecordsOf
      <3>2. ckpt' \in Nat
        BY DEF Struct, TypeOK
      <3>3. \A n \in History(f, r)' : ~(n <= ckpt')
        BY <1>12, <3>1, <3>2
      <3> QED BY <3>3 DEF Reached
    <2>3. pool'[f].img.rows = rows
      BY <1>2 DEF Scanned
    <2>4. CASE r \notin rows
      <3>1. NotChanged(f, r)
        BY <1>6, <2>4 DEF NotChanged
      <3>2. History(f, r)' = {}
        BY <1>5, <1>11, <3>1, GrownHistory
      <3> QED BY <2>1, <2>2, <2>3, <2>4, <3>2, Untouched DEF Right
    <2>5. CASE r \in rows
      <3>1. PICK k \in 1 .. Len(log') : k > Len(log) /\ log'[k].row = r
        BY <1>2, <2>5 DEF Scanned
      <3>2. k \in History(f, r)'
        BY <1>6, <3>1 DEF History
      <3>3. \A n \in History(f, r)' : n > Len(log) => log'[n].op = "ins"
        BY <1>6 DEF History
      <3>4. Holds(f, r, Len(log))'
        BY <1>5, <3>1, <3>2, <3>3, LastRecord
      <3>5. pool'[f].img.lsn = Len(log')
        BY <1>2, <2>5 DEF Scanned
      <3>6. \A n \in History(f, r)' : n <= pool'[f].img.lsn
        BY <1>5, <3>5, GrownHistory
      <3> QED BY <2>1, <2>2, <2>3, <2>5, <3>4, <3>6 DEF Right, PoolRight
    <2> QED BY <2>4, <2>5
  <1>14. s.pc \notin SyncPcs
    BY <1>3 DEF SyncPcs
  <1>15. \A n \in 1 .. Len(log') : n > Len(log) => log'[n].file = f
    BY <1>6
  <1>16. ckpt' = ckpt /\ hist.lost \subseteq hist'.lost /\ hist.late \subseteq hist'.late /\ status' = status
    BY <1>2, <1>4
  <1> QED BY <1>2, <1>3, <1>5, <1>10, <1>13, <1>14, <1>15, <1>16, SchemaContents

(* The process ends. *)
LEMMA GoneContents ==
    ASSUME \A a \in Actor : client'[a] = Idle,
           \A f \in File : ~Open(f)' /\ (Live(f)' => Complete(f)' /\ f \in ToOpen'),
           \A f \in File, r \in Row : f \in ToOpen' /\ Complete(f)' /\ <<f, r>> \notin hist'.lost =>
              DiskRight(f, r)' /\ Reached(f, r, ckpt)'
    PROVE  Contents'
  <1>1. ImageInv'
    BY DEF ImageInv, Right
  <1>2. \A a \in Actor : \A f : Wanted(a, f)' = 0 /\ client'[a].pc # "s_wait"
    BY IdleSession DEF Wanted
  <1>3. \A f, r : \A n \in History(f, r)' : ~(n <= 0)
    BY DEF History
  <1>4. \A a \in Actor : \A f, r : Reached(f, r, Wanted(a, f))'
    BY <1>2, <1>3 DEF Reached
  <1>5. SyncInv'
    BY <1>2, <1>4 DEF SyncInv
  <1> QED BY <1>1, <1>5 DEF Contents

LEMMA CloseContents ==
    ASSUME Struct, Contents, Close
    PROVE  Contents'
  <1>1. /\ GoneKeeps /\ TypeOK' /\ log' = log /\ hist'.lost = hist.lost /\ status = "up" /\ client[Main].pc = "close"
        /\ \A f \in File : Open(f) => file'[f] = pool[f] /\ dblwr'[pool[f].id] = NoImage
    BY CloseKeeps
  <1>2. /\ ToOpen' = ToOpen
        /\ \A f \in File : ~Open(f)' /\ (Live(f)' <=> Complete(f) /\ f \in ToOpen)
        /\ \A a \in Actor : client'[a] = Idle
    BY <1>1, GoneStruct
  <1>3. \A f \in File : Complete(f)' <=> Complete(f)
    BY <1>1 DEF GoneKeeps, Complete
  <1>4. \A c \in Client : client[c].pc = "idle"
    BY <1>1 DEF Struct, ActorInv
  <1>5. ASSUME NEW f \in File, NEW r \in Row, f \in ToOpen', Complete(f)', <<f, r>> \notin hist'.lost
        PROVE  DiskRight(f, r)' /\ Reached(f, r, ckpt)'
    <2>1. f \in ToOpen /\ Complete(f) /\ ~Opening(f)
      BY <1>2, <1>3, <1>4, <1>5 DEF Opening
    <2>2. Open(f)
      BY <1>1, <2>1 DEF Struct, IdInv
    <2>3. Loaded(f)' = pool[f].img
      BY <1>1, <2>2 DEF Loaded
    <2>4. PoolRight(f, r)
      BY <1>1, <1>5, <2>2 DEF Contents, ImageInv, Right
    <2>5. DiskRight(f, r)' /\ \A n \in History(f, r)' : n <= Loaded(f)'.lsn
      BY <1>1, <2>3, <2>4, FlushedRight
    <2> QED BY <2>5 DEF Reached
  <1> QED BY <1>2, <1>3, <1>5, GoneContents

LEMMA CutHistory ==
    ASSUME LogCut, NEW f, NEW r
    PROVE  /\ History(f, r)' = {n \in History(f, r) : n <= Len(log')}
           /\ \A n \in History(f, r) : n \in Nat /\ n <= Len(log)
  <1>1. 1 .. Len(log') = {n \in 1 .. Len(log) : n <= Len(log')}
    BY DEF LogCut
  <1> QED BY <1>1 DEF History, LogCut

LEMMA HoldsCut ==
    ASSUME LogCut, NEW f, NEW r, NEW upto \in Nat, upto <= Len(log')
    PROVE  (\E n \in {k \in History(f, r)' : k <= upto} :
               log'[n].op = "ins" /\ \A m \in {k \in History(f, r)' : k <= upto} : m <= n)
           <=> Holds(f, r, upto)
  <1>1. /\ History(f, r)' = {n \in History(f, r) : n <= Len(log')}
        /\ \A n \in History(f, r) : n \in Nat /\ n <= Len(log)
    BY CutHistory
  <1>2. Len(log') \in Nat
    BY DEF LogCut
  <1>3. {k \in History(f, r)' : k <= upto} = HistoryTo(f, r, upto)
    BY <1>1, <1>2 DEF HistoryTo
  <1>4. \A n \in HistoryTo(f, r, upto) : n \in 1 .. Len(log')
    BY <1>2 DEF HistoryTo, History
  <1>5. \A n \in HistoryTo(f, r, upto) : log'[n] = log[n]
    BY <1>4 DEF LogCut
  <1> QED BY <1>3, <1>5 DEF Holds

LEMMA CrashContents ==
    ASSUME Struct, Contents, Crash
    PROVE  Contents'
  <1>1. /\ GoneKeeps /\ TypeOK' /\ UNCHANGED <<file, dblwr, ckpt, flushed>>
        /\ Len(log') = flushed /\ hist'.lost = hist.lost \cup hist.late
    BY CrashKeeps
  <1>2. /\ ToOpen' = ToOpen
        /\ \A f \in File : ~Open(f)' /\ (Live(f)' <=> Complete(f) /\ f \in ToOpen)
        /\ \A a \in Actor : client'[a] = Idle
    BY <1>1, GoneStruct
  <1>3. \A f : (Complete(f)' <=> Complete(f)) /\ Loaded(f)' = Loaded(f)
    BY <1>1 DEF Complete, Loaded
  <1>4. LogCut
    BY <1>1, Typed DEF GoneKeeps, LogCut, Struct, Facts, RangeFacts
  <1>5. ASSUME NEW f \in File, NEW r \in Row, f \in ToOpen', Complete(f)', <<f, r>> \notin hist'.lost
        PROVE  DiskRight(f, r)' /\ Reached(f, r, ckpt)'
    <2>1. f \in ToOpen /\ Complete(f) /\ Live(f)
      BY <1>2, <1>3, <1>5 DEF Live
    <2>2. DiskRight(f, r) /\ Reached(f, r, ckpt)
      BY <1>1, <1>5, <2>1 DEF Contents, ImageInv, Right
    <2>3. PICK l : l = Loaded(f).lsn
      OBVIOUS
    <2>4. l \in Nat /\ l <= Len(log')
      BY <1>1, <2>1, <2>3, LoadedTypes
    <2>5. (\E n \in {k \in History(f, r)' : k <= l} :
              log'[n].op = "ins" /\ \A m \in {k \in History(f, r)' : k <= l} : m <= n)
          <=> Holds(f, r, l)
      BY <1>4, <2>4, HoldsCut
    <2>6. DiskRight(f, r)'
      BY <1>3, <2>2, <2>3, <2>5 DEF DiskRight, Holds, HistoryTo
    <2>7. Reached(f, r, ckpt)'
      BY <1>1, <1>3, <1>4, <2>2, CutHistory DEF Reached
    <2> QED BY <2>6, <2>7
  <1> QED BY <1>2, <1>3, <1>5, GoneContents

(* The restart: the records a page misses are those the log has of it.     *)
LEMMA Redoes ==
    ASSUME Struct, NEW f \in File, NEW r \in Row, Live(f), DiskRight(f, r), Reached(f, r, ckpt)
    PROVE  /\ r \in Redone(f).rows <=> Holds(f, r, Len(log))
           /\ \A n \in History(f, r) : n <= Redone(f).lsn
  <1> DEFINE l       == Loaded(f).lsn
             last    == {n \in Replayed : n > l /\ log[n].id = file[f].id /\ log[n].row = r}
             all     == {n \in Replayed : n > l /\ log[n].id = file[f].id}
             missing == {n \in History(f, r) : n > l}
  <1>1. l \in Nat /\ Len(log) \in Nat /\ ckpt \in Nat
    BY LoadedTypes, Typed DEF Live, Struct, Facts, RangeFacts
  <1>2. \A n : n \in Replayed <=> n \in 1 .. Len(log) /\ n >= ckpt
    BY Typed DEF Struct, Facts, RangeFacts
  <1>3. \A n \in History(f, r) : n \in 1 .. Len(log) /\ n \in Nat /\ log[n].file = f /\ log[n].row = r
    BY DEF History
  <1>4. \A n \in missing : n \in last
    <2> TAKE n \in missing
    <2>1. ~(n <= ckpt)
      BY <1>1, <1>3 DEF Reached
    <2>2. n \in Replayed
      BY <1>1, <1>2, <1>3, <2>1
    <2>3. log[n].id = file[f].id
      BY <1>3 DEF Struct, IdInv
    <2> QED BY <1>3, <2>2, <2>3
  <1>5. \A n \in last : n \in missing
    <2> TAKE n \in last
    <2>1. log[n].file = f
      BY DEF Struct, IdInv
    <2> QED BY <1>2, <2>1 DEF History
  <1>6. last = missing
    BY <1>4, <1>5
  <1>7. last \subseteq all /\ all \subseteq 1 .. Len(log) /\ last \subseteq 1 .. Len(log)
    BY <1>2
  <1>8. /\ Redone(f).rows = {q \in Row : IF {n \in Replayed : n > l /\ log[n].id = file[f].id /\ log[n].row = q} = {}
                                         THEN q \in Loaded(f).rows
                                         ELSE log[Max({n \in Replayed : n > l /\ log[n].id = file[f].id /\ log[n].row = q})].op = "ins"}
        /\ Redone(f).lsn = IF all = {} THEN l ELSE Max(all)
    BY DEF Redone
  <1>9. r \in Redone(f).rows <=> IF last = {} THEN r \in Loaded(f).rows ELSE log[Max(last)].op = "ins"
    BY <1>8
  <1>10. HistoryTo(f, r, Len(log)) = History(f, r)
    BY <1>1, <1>3 DEF HistoryTo
  <1>11. \A n \in all : n \in Nat /\ n > l
    BY <1>2
  <1> HIDE DEF last, all
  <1>12. CASE last = {}
    <2>1. \A n \in History(f, r) : n <= l
      BY <1>1, <1>3, <1>6, <1>12
    <2>2. HistoryTo(f, r, l) = History(f, r)
      BY <2>1 DEF HistoryTo
    <2>3. Holds(f, r, l) <=> Holds(f, r, Len(log))
      BY <1>10, <2>2 DEF Holds
    <2>4. r \in Redone(f).rows <=> Holds(f, r, Len(log))
      BY <1>9, <1>12, <2>3 DEF DiskRight
    <2>5. CASE all = {}
      BY <1>8, <2>1, <2>4, <2>5
    <2>6. CASE all # {}
      <3>1. Max(all) \in all
        BY <1>7, <2>6, LsnMax
      <3>2. Max(all) \in Nat /\ Max(all) > l
        BY <1>11, <3>1
      <3>3. Redone(f).lsn = Max(all)
        BY <1>8, <2>6
      <3> QED BY <1>1, <1>3, <2>1, <2>4, <3>2, <3>3
    <2> QED BY <2>5, <2>6
  <1>13. CASE last # {}
    <2>1. PICK m : m = Max(last)
      OBVIOUS
    <2>2. m \in last /\ \A n \in last : n <= m
      BY <1>7, <1>13, <2>1, LsnMax
    <2>3. m \in History(f, r) /\ m > l /\ m \in Nat
      BY <1>3, <1>6, <2>2
    <2>4. \A n \in History(f, r) : n <= m
      <3> TAKE n \in History(f, r)
      <3>1. CASE n > l
        BY <1>6, <2>2, <3>1
      <3>2. CASE ~(n > l)
        BY <1>1, <1>3, <2>3, <3>2
      <3> QED BY <3>1, <3>2
    <2>5. log[m].op = "ins" <=> Holds(f, r, Len(log))
      <3>1. \A n \in History(f, r) : (\A k \in History(f, r) : k <= n) => n = m
        BY <1>3, <2>3, <2>4
      <3> QED BY <1>10, <2>3, <2>4, <3>1 DEF Holds
    <2>6. all # {}
      BY <1>7, <2>2
    <2>7. Max(all) \in all /\ \A n \in all : n <= Max(all)
      BY <1>7, <2>6, LsnMax
    <2>8. PICK k : k = Max(all)
      OBVIOUS
    <2>9. k \in Nat /\ m <= k /\ Redone(f).lsn = k
      <3>1. k \in Nat
        BY <1>11, <2>7, <2>8
      <3>2. m <= k
        BY <1>7, <2>2, <2>7, <2>8
      <3>3. Redone(f).lsn = k
        BY <1>8, <2>6, <2>8
      <3> QED BY <3>1, <3>2, <3>3
    <2>10. \A n \in History(f, r) : n <= k
      BY <1>3, <2>3, <2>4, <2>9
    <2> QED BY <1>9, <1>13, <2>1, <2>5, <2>9, <2>10
  <1> QED BY <1>12, <1>13

LEMMA StartContents ==
    ASSUME Struct, Struct', LateInv, Contents, Started
    PROVE  Contents'
  <1>1. /\ ToOpen' = ToOpen
        /\ \A f \in File : (Open(f)' <=> f \in ToOpen) /\ (Live(f)' <=> f \in ToOpen) /\ (Live(f) <=> f \in ToOpen)
        /\ \A a \in Actor : client[a] = Idle
    BY StartStruct DEF Struct
  <1>2. UNCHANGED <<meta, ckpt, log, client>> /\ hist'.lost = hist.lost /\ hist.late = {}
    BY DEF Started, LateInv
  <1>3. \A f \in ToOpen : f \in File /\ Complete(f) /\ pool'[f].img = Redone(f)
    <2>1. \A f \in ToOpen : f \in File
      BY Typed DEF Struct, Facts, ToOpenFacts
    <2>2. \A f \in ToOpen : Complete(f)
      BY DEF Started
    <2>3. ASSUME NEW f \in ToOpen PROVE pool'[f].img = Redone(f)
      <3>1. pool'[f] = [file[f] EXCEPT !.img = Redone(f)]
        BY <2>1 DEF Started
      <3>2. file[f] \in [id : 1 .. MaxPool, img : Images(0 .. flushed)]
        BY <2>1, <2>2, ImageTypes DEF Struct
      <3> QED BY <3>1, <3>2
    <2> QED BY <2>1, <2>2, <2>3
  <1>4. \A f \in ToOpen : Loaded(f)' = Loaded(f)
    <2> TAKE f \in ToOpen
    <2>1. f \in File /\ Live(f)
      BY <1>1, <1>3
    <2>2. file'[f].id = file[f].id /\ file'[f].img = Loaded(f) /\ file[f].id \in 1 .. MaxPool
      BY <1>3, <2>1, Typed DEF Started, Struct, Facts, IdFacts
    <2>3. dblwr'[file'[f].id] = NoImage
      BY <2>2 DEF Started
    <2> QED BY <2>2, <2>3 DEF Loaded
  <1>5. LogGrows /\ (\A n \in 1 .. Len(log') : ~(n > Len(log))) /\ \A f, r : NotChanged(f, r)
    BY <1>2, SameLog
  <1>6. ASSUME NEW f \in File, NEW r \in Row, <<f, r>> \notin hist'.lost PROVE Right(f, r)'
    <2>1. CASE f \notin ToOpen
      BY <1>1, <2>1 DEF Right
    <2>2. CASE f \in ToOpen
      <3>1. Live(f) /\ DiskRight(f, r) /\ Reached(f, r, ckpt)
        BY <1>1, <1>2, <1>3, <1>6, <2>2 DEF Contents, ImageInv, Right
      <3>2. /\ r \in Redone(f).rows <=> Holds(f, r, Len(log))
            /\ \A n \in History(f, r) : n <= Redone(f).lsn
        BY <3>1, Redoes
      <3>3. PoolRight(f, r)'
        BY <1>2, <1>3, <2>2, <3>2 DEF PoolRight, Holds, HistoryTo, History
      <3>4. Loaded(f).lsn \in Nat /\ Loaded(f).lsn <= Len(log)
        BY <1>3, <2>2, LoadedTypes
      <3>5. DiskRight(f, r)'
        BY <1>4, <1>5, <2>2, <3>1, <3>4, DiskKept
      <3>6. Reached(f, r, ckpt)'
        BY <1>2, <1>4, <2>2, <3>1 DEF Reached, History
      <3> QED BY <3>3, <3>5, <3>6 DEF Right
    <2> QED BY <2>1, <2>2
  <1>7. ImageInv'
    BY <1>6 DEF ImageInv
  <1>8. \A a \in Actor : \A f : Wanted(a, f)' = 0 /\ client'[a].pc # "s_wait"
    BY <1>1, <1>2, IdleSession DEF Wanted
  <1>9. \A f, r : \A n \in History(f, r)' : ~(n <= 0)
    BY DEF History
  <1>10. \A a \in Actor : \A f, r : Reached(f, r, Wanted(a, f))'
    BY <1>8, <1>9 DEF Reached
  <1>11. SyncInv'
    BY <1>8, <1>10 DEF SyncInv
  <1> QED BY <1>7, <1>11 DEF Contents

LEMMA SameContents ==
    ASSUME Contents, UNCHANGED <<dirVars, opened, pool, client, hist>>
    PROVE  Contents'
  <1>1. ToOpen' = ToOpen /\ \A f : (Complete(f)' <=> Complete(f)) /\ (Open(f)' <=> Open(f)) /\ Loaded(f)' = Loaded(f)
    BY DEF dirVars, ToOpen, Found, FilesOf, Complete, Open, Loaded
  <1>2. \A f : (Opening(f)' <=> Opening(f)) /\ \A a : Wanted(a, f)' = Wanted(a, f)
    BY DEF dirVars, Opening, Target, Wanted
  <1>3. \A f : Live(f)' <=> Live(f)
    BY <1>1, <1>2 DEF Live
  <1>4. \A f, r : History(f, r)' = History(f, r)
    BY DEF dirVars, History
  <1>5. \A f, r : (PoolRight(f, r)' <=> PoolRight(f, r)) /\ (DiskRight(f, r)' <=> DiskRight(f, r))
    BY <1>1, <1>4 DEF dirVars, PoolRight, DiskRight, Holds, HistoryTo
  <1>6. \A f, r : Reached(f, r, ckpt)' <=> Reached(f, r, ckpt)
    BY <1>1, <1>4 DEF dirVars, Reached
  <1>7. \A f, r : Right(f, r)' <=> Right(f, r)
    <2>1. hist' = hist
      OBVIOUS
    <2> QED BY <1>1, <1>3, <1>5, <1>6, <2>1 DEF Right
  <1>8. ImageInv'
    BY <1>7 DEF Contents, ImageInv
  <1>9. \A a, f, r : Reached(f, r, Wanted(a, f))' <=> Reached(f, r, Wanted(a, f))
    BY <1>1, <1>2, <1>4 DEF Reached
  <1>10. SyncInv'
    BY <1>1, <1>9 DEF dirVars, Contents, SyncInv
  <1> QED BY <1>8, <1>10 DEF Contents

LEMMA InitContents == Init => Contents
  <1> SUFFICES ASSUME Init PROVE Contents
    OBVIOUS
  <1>1. log = <<>> /\ \A f \in File : file[f] = NoFile /\ pool[f] = Closed
    BY DEF Init
  <1>2. \A a \in Actor : client[a] = Idle
    BY DEF Init
  <1>3. \A f, r : History(f, r) = {}
    BY <1>1 DEF History
  <1>4. \A f \in File : ~Complete(f) /\ ~Open(f)
    BY <1>1 DEF Complete, Open, NoFile
  <1>5. ImageInv
    BY <1>4 DEF ImageInv, Right, Live
  <1>6. SyncInv
    BY <1>2, <1>4, IdleSession DEF SyncInv
  <1> QED BY <1>5, <1>6 DEF Contents

LEMMA CreatesContents ==
    ASSUME Struct, Struct', Contents, NEW c \in Client, Creates(c)
    PROVE  Contents'
  <1>1. ASSUME NEW f \in File,
               \/ WriteHeader(c, "ct_header", f, "ct_open") /\ f = Data(client[c].t)
               \/ WriteHeader(c, "ci_header", f, "ci_create") /\ f = <<client[c].t, client[c].i>>
        PROVE  Contents'
    BY <1>1, WriteHeaderContents
  <1>2. CASE CreateTableEnd(c) \/ CreateTree(c) \/ FlushTree(c) \/ ScanRows(c) \/ RenameMeta(c)
    BY <1>2, CreateTableEndContents, CreateTreeContents, FlushTreeContents, ScanRowsContents, RenameMetaContents
  <1> QED BY <1>1, <1>2, CreatesName, Zenon DEF Creates

LEMMA ContentsStep ==
    ASSUME Struct, Struct', WaitInv, LateInv, Contents, [Next]_vars
    PROVE  Contents'
  <1>1. ASSUME NEW c \in Client, RowStep(c) PROVE Contents'
    <2>1. PICK s : RowTo(c, s) /\ (RowPause \/ \E f, op, r : RowWork(f, op, r))
      BY <1>1, RowSteps
    <2>2. CASE RowPause
      BY <2>1, <2>2, RowPauseContents
    <2>3. CASE \E f, op, r : RowWork(f, op, r)
      <3>1. PICK f, op, r : RowWork(f, op, r)
        BY <2>3
      <3> QED BY <2>1, <3>1, RowWorkContents
    <2> QED BY <2>1, <2>2, <2>3
  <1>2. ASSUME NEW c \in Client, SchemaAction(c) PROVE Contents'
    BY <1>2, SchemaActions, CreatesContents, RefusedContents
  <1>3. ASSUME NEW a \in Actor, SyncStep(a) PROVE Contents'
    <2>1. ASSUME SyncMeta(a) PROVE Contents'
      <3>1. PICK s : Checkpoint(a, s)
        BY <2>1, SyncMetaCheckpoint
      <3> QED BY <3>1, SyncMetaContents
    <2>2. ASSUME NEW f \in File, SyncFile(a, f) PROVE Contents'
      BY <2>2, SyncFileContents
    <2>3. ASSUME SyncDblwr(a) \/ SyncLsn(a) PROVE Contents'
      BY <2>3, SyncDblwrContents, SyncLsnContents
    <2> QED BY <1>3, <2>1, <2>2, <2>3, Zenon DEF SyncStep
  <1>4. ASSUME FlushLog \/ DblwrFull \/ \E f \in File : Evict(f) PROVE Contents'
    BY <1>4, QuietContents
  <1>d. ASSUME NEW f \in File, NEW rows \in SUBSET Row, Drop(f, rows) PROVE Contents'
    BY <1>d, DropContents
  <1>5. ASSUME Destroy PROVE Contents'
    BY <1>5, DestroyContents
  <1>6. ASSUME Close PROVE Contents'
    BY <1>6, CloseContents
  <1>7. ASSUME Crash PROVE Contents'
    BY <1>7, CrashContents
  <1>8. ASSUME Start PROVE Contents'
    <2>1. CASE InitSucceeds
      BY <1>8, <2>1, StartStarted, StartContents
    <2>2. CASE ~InitSucceeds
      <3>1. UNCHANGED <<dirVars, opened, pool, client, hist>>
        BY <1>8, <2>2, StartFails
      <3> QED BY <3>1, SameContents
    <2> QED BY <2>1, <2>2
  <1>9. ASSUME UNCHANGED vars PROVE Contents'
    <2>1. UNCHANGED <<dirVars, opened, pool, client, hist>>
      BY <1>9 DEF vars, memVars
    <2> QED BY <2>1, SameContents
  <1>10. TypeOK
    BY DEF Struct
  <1> QED BY <1>1, <1>2, <1>3, <1>4, <1>d, <1>5, <1>6, <1>7, <1>8, <1>9, <1>10, NextSteps, Zenon

(* Every file, open or closed, follows the log, and no check point runs    *)
(* ahead of what is on disk.                                               *)
THEOREM ContentsInvariant == Spec => [](Struct /\ WaitInv /\ LateInv /\ Contents)
  <1>1. Init => Struct /\ WaitInv /\ LateInv /\ Contents
    <2>1. Init => LateInv
      BY DEF Init, LateInv
    <2> QED BY <2>1, InitStruct, InitContents
  <1>2. Struct /\ WaitInv /\ LateInv /\ Contents /\ [Next]_vars => (Struct /\ WaitInv /\ LateInv /\ Contents)'
    BY StructStep, LateStep, ContentsStep
  <1> QED BY <1>1, <1>2, PTL DEF Spec

(* The replay of the log reaches each file by the id of its pool and no    *)
(* other, and an open file holds what the log says of it, however often    *)
(* the database was synced, closed, cut by a crash and opened again.       *)
THEOREM ReplayCorrect == Spec => []ReplayFindsFiles
  <1>1. Struct /\ WaitInv /\ LateInv /\ Contents => ReplayFindsFiles
    <2> SUFFICES ASSUME Struct, Contents PROVE ReplayFindsFiles
      OBVIOUS
    <2>1. IdsDistinct
      BY DistinctIds
    <2>2. ASSUME NEW f \in File, Open(f), NEW r \in Row, <<f, r>> \notin hist.lost
          PROVE  r \in pool[f].img.rows <=> History(f, r) # {} /\ log[Max(History(f, r))].op = "ins"
      <3>1. PoolRight(f, r)
        BY <2>2 DEF Contents, ImageInv, Right
      <3> QED BY <3>1, HoldsMax DEF PoolRight
    <2>3. FilesFollowLog
      BY <2>2 DEF FilesFollowLog
    <2> QED BY <2>1, <2>3 DEF ReplayFindsFiles
  <1> QED BY <1>1, ContentsInvariant, PTL

-----------------------------------------------------------------------------
(* Entries: rows and what the indexes have of them. *)

LEMMA ExcusedKept ==
    ASSUME MarksKept, NEW f, NEW r, ~Excused(f, r)'
    PROVE  ~Excused(f, r)
  BY Zenon DEF MarksKept, Excused

LEMMA RowStays ==
    ASSUME MarksKept, NEW t, NEW r, RowRight(t, r), RowKept(t, r)
    PROVE  RowRight(t, r)'
  <1>1. OnRow(t, r)' = OnRow(t, r) /\ \A a \in OnRow(t, r) : client'[a] = client[a]
    BY DEF RowKept
  <1>2. \A a, b \in OnRow(t, r)' : a = b
    BY <1>1 DEF RowRight
  <1>3. ASSUME NEW i \in Filled(t)' PROVE EntryRight(t, r, i)'
    <2>1. SUFFICES ASSUME ~Excused(<<t, i>>, r)'
                   PROVE  /\ OnRow(t, r)' = {} => (Has(<<t, i>>, r)' <=> Has(Data(t), r)')
                          /\ \A a \in OnRow(t, r)' :
                                i \in opened'[t].indexes /\ Has(Data(t), r)' /\ Entered(client[a], <<t, i>>, r)'
      BY DEF EntryRight
    <2>2. /\ i \in Filled(t) /\ (Has(<<t, i>>, r)' <=> Has(<<t, i>>, r)) /\ (Has(Data(t), r)' <=> Has(Data(t), r))
          /\ opened[t].indexes \subseteq opened'[t].indexes \/ OnRow(t, r) = {}
      BY <1>3 DEF RowKept
    <2>3. ~Excused(<<t, i>>, r)
      BY <2>1, ExcusedKept
    <2>4. /\ OnRow(t, r) = {} => (Has(<<t, i>>, r) <=> Has(Data(t), r))
          /\ \A a \in OnRow(t, r) :
                i \in opened[t].indexes /\ Has(Data(t), r) /\ Entered(client[a], <<t, i>>, r)
      BY <2>2, <2>3 DEF RowRight, EntryRight
    <2>5. ASSUME NEW a \in OnRow(t, r) PROVE Entered(client[a], <<t, i>>, r)'
      <3>1. client'[a] = client[a] /\ Entered(client[a], <<t, i>>, r)
        BY <1>1, <2>4
      <3> QED BY <2>2, <3>1 DEF Entered
    <2> QED BY <1>1, <2>2, <2>4, <2>5
  <1>4. <<t, r>> \in hist'.refused /\ OnRow(t, r)' = {} /\ ~Excused(Data(t), r)' => ~Has(Data(t), r)'
    BY <1>1, ExcusedKept DEF RowKept, RowRight
  <1> QED BY <1>2, <1>3, <1>4 DEF RowRight

LEMMA EntriesStep ==
    ASSUME Entries, MarksKept, DataMarksKept \/ ApartInv', \A t \in Table, r \in Row : RowKept(t, r) \/ RowRight(t, r)'
    PROVE  Entries'
  <1>1. ApartInv'
    BY DEF Entries, ApartInv, MarksKept, DataMarksKept
  <1>2. ASSUME NEW t \in Table, NEW r \in Row PROVE RowRight(t, r)'
    BY RowStays DEF Entries
  <1> QED BY <1>1, <1>2 DEF Entries

LEMMA HasKept ==
    ASSUME LogGrows, NEW f, NEW r, NotChanged(f, r)
    PROVE  Has(f, r)' <=> Has(f, r)
  <1>1. History(f, r)' = History(f, r) /\ \A n \in History(f, r) : n \in Nat /\ n <= Len(log) /\ n \in 1 .. Len(log)
    BY GrownHistory DEF History
  <1>2. Len(log) \in Nat /\ Len(log') \in Nat /\ Len(log) <= Len(log')
    BY DEF LogGrows
  <1>3. HistoryTo(f, r, Len(log)) = History(f, r) /\ HistoryTo(f, r, Len(log))' = History(f, r)
    BY <1>1, <1>2 DEF HistoryTo
  <1>4. \A n \in History(f, r) : log'[n] = log[n]
    BY <1>1 DEF LogGrows
  <1> QED BY <1>3, <1>4 DEF Has, Holds

(* Sessions without a row are on no row. *)
LEMMA SameRows ==
    ASSUME \A a \in Client : client'[a] = client[a] \/ (client[a].row = 0 /\ client'[a].row = 0), NEW t, NEW r \in Row
    PROVE  OnRow(t, r)' = OnRow(t, r) /\ \A a \in OnRow(t, r) : client'[a] = client[a]
  <1>1. r # 0
    BY NameAssumption
  <1> QED BY <1>1 DEF OnRow

LEMMA QuietEntries ==
    ASSUME Entries, MarksKept, DataMarksKept, LogGrows, \A f, r : r \in Row => NotChanged(f, r),
           \A a \in Client : client'[a] = client[a] \/ (client[a].row = 0 /\ client'[a].row = 0),
           \A t \in Table : \/ opened[t].indexes \subseteq opened'[t].indexes
                            \/ \A r \in Row : OnRow(t, r) = {},
           \A t \in Table : Filled(t)' \subseteq Filled(t),
           hist'.refused \subseteq hist.refused
    PROVE  Entries'
  <1>1. \A f, r : r \in Row => (Has(f, r)' <=> Has(f, r))
    BY HasKept
  <1>2. \A t : \A r \in Row : OnRow(t, r)' = OnRow(t, r) /\ \A a \in OnRow(t, r) : client'[a] = client[a]
    BY SameRows
  <1>3. \A t \in Table, r \in Row : RowKept(t, r)
    BY <1>1, <1>2 DEF RowKept
  <1> QED BY <1>3, EntriesStep

(* No index is filled but by a scan. *)
LEMMA FilledKept ==
    ASSUME NEW t, opened'[t].indexes \cup meta'[t].indexes \subseteq Filled(t),
           \A a \in Client : client'[a].pc = "ci_push" => client'[a] = client[a]
    PROVE  Filled(t)' \subseteq Filled(t)
  <1>1. \A a \in Creating(t)' : a \in Creating(t) /\ client'[a].i = client[a].i
    BY DEF Creating
  <1> QED BY <1>1 DEF Filled

(* A step that changes neither the catalog nor the log. *)
LEMMA SameEntries ==
    ASSUME Struct, Entries, UNCHANGED <<meta, opened, log>>, hist'.apart = hist.apart, hist'.lost = hist.lost,
           hist'.refused \subseteq hist.refused,
           \A a \in Client : client'[a] = client[a] \/ (client[a].row = 0 /\ client'[a].row = 0),
           \A a \in Client : client'[a].pc = "ci_push" => client'[a] = client[a]
    PROVE  Entries'
  <1>1. MarksKept /\ DataMarksKept
    BY DEF MarksKept, DataMarksKept
  <1>2. LogGrows /\ \A f, r : NotChanged(f, r)
    BY SameLog
  <1>3. \A t \in Table : Filled(t)' \subseteq Filled(t)
    <2> TAKE t \in Table
    <2>1. opened'[t].indexes \cup meta'[t].indexes \subseteq Filled(t)
      BY DEF Filled
    <2> QED BY <2>1, FilledKept
  <1> QED BY <1>1, <1>2, <1>3, QuietEntries

(* A session that is not at work on a row. *)
LEMMA NoRow ==
    ASSUME ActorInv, NEW c \in Client, client[c].pc \notin RowPcs
    PROVE  client[c].row = 0
  BY DEF ActorInv

LEMMA SyncEntries ==
    ASSUME Struct, WaitInv, Entries, NEW a \in Actor, SyncStep(a)
    PROVE  Entries'
  <1>1. /\ client[a].pc \in SyncPcs /\ UNCHANGED <<meta, opened, log>>
        /\ hist'.apart = hist.apart /\ hist'.lost = hist.lost /\ hist'.refused = hist.refused
        /\ \E s \in Sessions : client' = [client EXCEPT ![a] = s] /\ (a \in Client => s.row = 0 /\ s.pc # "ci_push")
    <2>1. ASSUME NEW f \in File, SyncFile(a, f)
          PROVE  /\ client[a].pc \in SyncPcs /\ UNCHANGED <<meta, opened, log>>
                 /\ hist'.apart = hist.apart /\ hist'.lost = hist.lost /\ hist'.refused = hist.refused
      <3>1. client[a].pc \in SyncPcs /\ UNCHANGED <<meta, opened, log>> /\ hist' = [hist EXCEPT !.late = @ \ ({f} \X Row)]
        BY <2>1 DEF SyncFile, SyncPcs
      <3> QED BY <3>1, FlushMarks DEF Struct
    <2>2. SyncDblwr(a) \/ SyncLsn(a) => client[a].pc \in SyncPcs /\ UNCHANGED <<meta, opened, log, hist>>
      BY DEF SyncDblwr, SyncLsn, memVars, dirVars, SyncPcs
    <2>3. client[a].pc \in SyncPcs => (a \in Client => client[a].row = 0)
      BY NoRow DEF Struct, SyncPcs, RowPcs
    <2>4. ASSUME NEW f \in File, SyncFile(a, f)
          PROVE  \E s \in Sessions : client' = [client EXCEPT ![a] = s] /\ s.row = client[a].row /\ s.pc # "ci_push"
      BY <2>4, SyncFileSession
    <2>5. ASSUME SyncDblwr(a)
          PROVE  \E s \in Sessions : client' = [client EXCEPT ![a] = s] /\ s.row = client[a].row /\ s.pc # "ci_push"
      BY <2>5, GotoStep DEF SyncDblwr, Struct, Pcs, SyncPcs
    <2>6. ASSUME SyncLsn(a)
          PROVE  \E s \in Sessions : client' = [client EXCEPT ![a] = s] /\ s.row = client[a].row /\ s.pc # "ci_push"
      BY <2>6, SyncLsnSession
    <2>7. CASE SyncMeta(a)
      <3>1. PICK s : Checkpoint(a, s)
        BY <2>7, SyncMetaCheckpoint
      <3>2. a \in Client => s.row = 0 /\ s.pc # "ci_push"
        BY <3>1, MainAssumption, IdleSession DEF Checkpoint
      <3> QED BY <3>1, <3>2 DEF Checkpoint, SyncPcs
    <2>8. CASE \E f \in File : SyncFile(a, f)
      BY <2>1, <2>3, <2>4, <2>8
    <2>9. CASE SyncDblwr(a) \/ SyncLsn(a)
      BY <2>2, <2>3, <2>5, <2>6, <2>9
    <2> QED BY <2>7, <2>8, <2>9 DEF SyncStep
  <1>2. PICK s \in Sessions : client' = [client EXCEPT ![a] = s] /\ (a \in Client => s.row = 0 /\ s.pc # "ci_push")
    BY <1>1
  <1>3. client'[a] = s /\ \A b \in Actor : b # a => client'[b] = client[b]
    BY <1>2, SessionStep DEF Struct
  <1>4. a \in Client => client[a].row = 0
    BY <1>1, NoRow DEF Struct, SyncPcs, RowPcs
  <1>5. \A b \in Client : client'[b] = client[b] \/ (client[b].row = 0 /\ client'[b].row = 0)
    BY <1>2, <1>3, <1>4 DEF Actor
  <1>6. \A b \in Client : client'[b].pc = "ci_push" => client'[b] = client[b]
    BY <1>2, <1>3 DEF Actor
  <1> QED BY <1>1, <1>5, <1>6, SameEntries

(* A session that creates a table or an index. *)
LEMMA CatalogEntries ==
    ASSUME Struct, Entries, MarksKept, DataMarksKept, hist'.refused \subseteq hist.refused,
           LogGrows, \A f, r : r \in Row => NotChanged(f, r),
           \A t \in Table : /\ opened[t].indexes \subseteq opened'[t].indexes
                            /\ opened'[t].indexes \cup meta'[t].indexes \subseteq Filled(t),
           NEW c \in Client, NEW s \in Sessions, client' = [client EXCEPT ![c] = s],
           client[c].pc \notin RowPcs, s.row = 0, s.pc # "ci_push"
    PROVE  Entries'
  <1>1. c \in Actor /\ client'[c] = s /\ \A b \in Actor : b # c => client'[b] = client[b]
    BY SessionStep DEF Struct, Actor
  <1>2. client[c].row = 0
    BY NoRow DEF Struct
  <1>3. \A b \in Client : client'[b] = client[b] \/ (client[b].row = 0 /\ client'[b].row = 0)
    BY <1>1, <1>2 DEF Actor
  <1>4. \A b \in Client : client'[b].pc = "ci_push" => client'[b] = client[b]
    BY <1>1 DEF Actor
  <1>5. \A t \in Table : Filled(t)' \subseteq Filled(t)
    BY <1>4, FilledKept
  <1> QED BY <1>3, <1>5, QuietEntries

LEMMA NamesEntries ==
    ASSUME Struct, Entries, UNCHANGED log, hist'.apart = hist.apart, hist'.lost = hist.lost, hist'.refused = hist.refused,
           \A t \in Table : /\ opened[t].indexes \subseteq opened'[t].indexes
                            /\ opened'[t].indexes \cup meta'[t].indexes \subseteq Filled(t),
           NEW c \in Client, NEW s, SchemaSession(c, s), s.pc # "ci_push"
    PROVE  Entries'
  <1>1. MarksKept /\ DataMarksKept
    BY DEF MarksKept, DataMarksKept
  <1>2. LogGrows /\ \A f, r : NotChanged(f, r)
    BY SameLog
  <1>3. client[c].pc \notin RowPcs /\ s \in Sessions /\ client' = [client EXCEPT ![c] = s] /\ s.row = client[c].row
    BY DEF SchemaSession, RowPcs, TablePcs, IndexPcs
  <1>4. s.row = 0
    BY <1>3, NoRow DEF Struct
  <1>5. s \in Sessions /\ hist'.refused \subseteq hist.refused
    BY <1>3
  <1> QED BY <1>1, <1>2, <1>3, <1>4, <1>5, CatalogEntries

LEMMA IssuedEntries ==
    ASSUME Struct, Entries, NEW c \in Client, NEW op, Issue(c, op), UNCHANGED <<meta, opened, log>>,
           NEW x, hist' = [hist EXCEPT !.unfinished = x],
           NEW s \in Sessions, client' = [client EXCEPT ![c] = s], s.row = 0, s.pc # "ci_push"
    PROVE  Entries'
  <1>1. hist'.apart = hist.apart /\ hist'.lost = hist.lost /\ hist'.refused = hist.refused
    BY DEF Struct, TypeOK, Remembered
  <1>2. MarksKept /\ DataMarksKept
    BY <1>1 DEF MarksKept, DataMarksKept
  <1>3. LogGrows /\ \A f, r : NotChanged(f, r)
    BY SameLog
  <1>4. client[c].pc \notin RowPcs
    BY DEF Issue, Quiet, RowPcs
  <1>5. \A t \in Table : /\ opened[t].indexes \subseteq opened'[t].indexes
                         /\ opened'[t].indexes \cup meta'[t].indexes \subseteq Filled(t)
    BY DEF Filled
  <1>6. hist'.refused \subseteq hist.refused
    BY <1>1
  <1> QED BY <1>2, <1>3, <1>4, <1>5, <1>6, CatalogEntries

LEMMA CreatesEntries ==
    ASSUME Struct, Entries, NEW c \in Client, Creates(c), ~ScanRows(c)
    PROVE  Entries'
  <1>1. ASSUME NEW t \in Table, NEW good \in BOOLEAN, CreateTable(c, t, good), opened[t] = NoMeta PROVE Entries'
    <2>1. PICK op : Issue(c, op)
      BY <1>1 DEF CreateTable
    <2>2. UNCHANGED <<meta, opened, log>> /\ hist' = [hist EXCEPT !.unfinished = @ \cup {Data(t)}]
      BY <1>1 DEF CreateTable, dirVars
    <2>3. PICK s \in Sessions : client' = [client EXCEPT ![c] = s] /\ s.pc = "ct_meta" /\ s.row = 0
      BY <1>1, CreateTableStruct
    <2> QED BY <2>1, <2>2, <2>3, IssuedEntries
  <1>2. ASSUME NEW t \in Table, NEW i \in Index, CreateIndex(c, t, i), opened[t] # NoMeta, i \notin opened[t].indexes
        PROVE  Entries'
    <2>1. PICK op : Issue(c, op)
      BY <1>2 DEF CreateIndex
    <2>2. UNCHANGED <<meta, opened, log>> /\ hist' = [hist EXCEPT !.unfinished = @ \cup {<<t, i>>}]
      BY <1>2 DEF CreateIndex, dirVars, memVars
    <2>3. PICK s \in Sessions : client' = [client EXCEPT ![c] = s] /\ s.pc = "ci_file" /\ s.row = 0
      BY <1>2, CreateIndexStruct
    <2> QED BY <2>1, <2>2, <2>3, IssuedEntries
  <1>3. ASSUME UNCHANGED <<meta, opened>>
        PROVE  \A t \in Table : /\ opened[t].indexes \subseteq opened'[t].indexes
                                /\ opened'[t].indexes \cup meta'[t].indexes \subseteq Filled(t)
    BY <1>3 DEF Filled
  <1>4. ASSUME opened' = opened, NEW u \in Table, NEW m, meta' = [meta EXCEPT ![u] = m], m.indexes = {}
        PROVE  \A t \in Table : /\ opened[t].indexes \subseteq opened'[t].indexes
                                /\ opened'[t].indexes \cup meta'[t].indexes \subseteq Filled(t)
    <2>1. \A t \in Table : meta'[t].indexes \subseteq meta[t].indexes
      BY <1>4 DEF Struct, TypeOK
    <2> QED BY <1>4, <2>1 DEF Filled
  <1>5. ASSUME CreateMetaFile(c), meta[client[c].t] = NoMeta PROVE Entries'
    <2>1. PICK s : SchemaSession(c, s) /\ s.pc = "ct_init"
      BY <1>5, CreateMetaFileStruct
    <2>2. UNCHANGED <<opened, log, hist>> /\ meta' = [meta EXCEPT ![client[c].t] = EmptyMeta]
      BY <1>5 DEF CreateMetaFile, memVars
    <2>3. client[c].t \in Table /\ EmptyMeta.indexes = {}
      BY <1>5, Working DEF CreateMetaFile, Struct, EmptyMeta
    <2> QED BY <1>4, <2>1, <2>2, <2>3, NamesEntries
  <1>6. ASSUME WriteMeta(c), FieldsOk(c) PROVE Entries'
    <2>1. PICK s : SchemaSession(c, s) /\ s.pc = "ct_data"
      BY <1>6, WriteMetaStruct
    <2>2. UNCHANGED <<opened, log, hist>> /\ meta' = [meta EXCEPT ![client[c].t] = serialize(client[c].id, {})]
      BY <1>6 DEF WriteMeta, memVars
    <2>3. client[c].t \in Table /\ serialize(client[c].id, {}).indexes = {}
      BY <1>6, Working DEF WriteMeta, Struct, serialize
    <2> QED BY <1>4, <2>1, <2>2, <2>3, NamesEntries
  <1>7. ASSUME NEW f \in File, file[f] = NoFile,
               \/ CreateFile(c, "ct_data", f, "ct_header") /\ f = Data(client[c].t)
               \/ CreateFile(c, "ci_file", f, "ci_header") /\ f = <<client[c].t, client[c].i>>
        PROVE  Entries'
    <2>1. PICK s : SchemaSession(c, s) /\ s.pc \in {"ct_header", "ci_header"}
      BY <1>7, CreateFileStruct
    <2>2. UNCHANGED <<meta, opened, log, hist>>
      BY <1>7 DEF CreateFile, memVars
    <2> QED BY <1>3, <2>1, <2>2, NamesEntries
  <1>8. ASSUME NEW f \in File,
               \/ WriteHeader(c, "ct_header", f, "ct_open") /\ f = Data(client[c].t)
               \/ WriteHeader(c, "ci_header", f, "ci_create") /\ f = <<client[c].t, client[c].i>>
        PROVE  Entries'
    <2>1. PICK s : SchemaSession(c, s) /\ s.pc \in {"ct_open", "ci_create"}
      BY <1>8, WriteHeaderStruct
    <2>2. UNCHANGED <<meta, opened, log, hist>>
      BY <1>8 DEF WriteHeader
    <2> QED BY <1>3, <2>1, <2>2, NamesEntries
  <1>9. ASSUME CreateTableEnd(c) PROVE Entries'
    <2>1. PICK f : f = Data(client[c].t)
      OBVIOUS
    <2>2. /\ OpensFile(c, f) /\ log' = log /\ client[c].pc = "ct_open"
          /\ \A t \in Table : opened'[t] = opened[t] \/ (t = client[c].t /\ opened'[t].indexes = {})
      BY <1>9, <2>1, CreateTableEndStruct
    <2>3. PICK s : SchemaSession(c, s) /\ s.pc = "s_files"
      BY <1>9, <2>1, CreateTableEndStruct
    <2>4. meta' = meta /\ hist' = hist
      BY <2>2 DEF OpensFile
    <2>5. opened[client[c].t].indexes = {}
      <3>1. TableMade(c) /\ client[c].pc \in TablePcs
        BY <2>2 DEF Struct, WorkInv, TablePcs
      <3>2. opened[client[c].t] = NoMeta
        BY <3>1 DEF TableMade
      <3> QED BY <3>2 DEF NoMeta
    <2>6. \A t \in Table : /\ opened[t].indexes \subseteq opened'[t].indexes
                           /\ opened'[t].indexes \cup meta'[t].indexes \subseteq Filled(t)
      BY <2>2, <2>4, <2>5 DEF Filled
    <2> QED BY <2>2, <2>3, <2>4, <2>6, NamesEntries
  <1>10. ASSUME CreateTree(c) PROVE Entries'
    <2>1. PICK f : f = IndexFile(c)
      OBVIOUS
    <2>2. /\ OpensFile(c, f) /\ opened' = opened /\ client[c].pc = "ci_create"
          /\ Len(log') = Len(log) + 1 /\ log'[Len(log')].row = 0
      BY <1>10, <2>1, CreateTreeStruct
    <2>3. PICK s : SchemaSession(c, s) /\ s.pc = "ci_sync"
      BY <1>10, <2>1, CreateTreeStruct
    <2>4. UNCHANGED <<meta, hist>> /\ LogGrows
      BY <2>2, Typed DEF OpensFile, LogGrows, Struct, Facts, RangeFacts
    <2>5. \A g, r : r \in Row => NotChanged(g, r)
      <3>1. \A n \in 1 .. Len(log') : n > Len(log) => n = Len(log')
        BY <2>2, <2>4 DEF LogGrows
      <3>2. 0 \notin Row
        BY NameAssumption
      <3> QED BY <2>2, <3>1, <3>2 DEF NotChanged
    <2>6. MarksKept /\ DataMarksKept /\ hist'.refused \subseteq hist.refused
      BY <2>4 DEF MarksKept, DataMarksKept
    <2>7. client[c].pc \notin RowPcs /\ s \in Sessions /\ client' = [client EXCEPT ![c] = s] /\ s.row = client[c].row
      BY <2>3 DEF SchemaSession, RowPcs, TablePcs, IndexPcs
    <2>8. s.row = 0
      BY <2>7, NoRow DEF Struct
    <2> QED BY <1>3, <2>2, <2>3, <2>4, <2>5, <2>6, <2>7, <2>8, CatalogEntries
  <1>11. ASSUME FlushTree(c) PROVE Entries'
    <2>1. PICK s : SchemaSession(c, s) /\ s.pc = "ci_scan"
      BY <1>11, FlushTreeStruct
    <2>2. UNCHANGED <<meta, opened, log, hist>>
      BY <1>11 DEF FlushTree, memVars
    <2> QED BY <1>3, <2>1, <2>2, NamesEntries
  <1>12. ASSUME PushIndex(c) PROVE Entries'
    <2>1. PICK s : SchemaSession(c, s) /\ s.pc = "ci_rename"
      BY <1>12, PushIndexStruct
    <2>2. /\ client[c].pc = "ci_push" /\ client[c].t \in Table
          /\ \A u \in Table : opened'[u].indexes = opened[u].indexes \cup (IF u = client[c].t THEN {client[c].i} ELSE {})
          /\ hist'.lost = hist.lost /\ hist'.refused = hist.refused
          /\ hist'.apart = hist.apart \cup ({IndexFile(c)} \X {r \in Row : OnRow(client[c].t, r) # {}})
      BY <1>12, PushIndexStruct
    <2>3. meta' = meta /\ log' = log
      BY <1>12 DEF PushIndex, dirVars
    <2>4. c \in Creating(client[c].t)
      BY <2>2 DEF Creating
    <2>5. \A t \in Table : /\ opened[t].indexes \subseteq opened'[t].indexes
                           /\ opened'[t].indexes \cup meta'[t].indexes \subseteq Filled(t)
      BY <2>2, <2>3, <2>4 DEF Filled
    <2>6. IndexFile(c) = <<client[c].t, client[c].i>> /\ client[c].i \in Index
      BY <2>2, IndexSession DEF IndexPcs
    <2>7. \A t \in Table : Data(t) # IndexFile(c)
      BY <2>2, <2>6, DataFiles
    <2>8. MarksKept /\ DataMarksKept /\ hist'.refused \subseteq hist.refused
      BY <2>2, <2>7 DEF MarksKept, DataMarksKept
    <2>9. LogGrows /\ \A f, r : NotChanged(f, r)
      BY <2>3, SameLog
    <2>10. client[c].pc \notin RowPcs /\ s \in Sessions /\ client' = [client EXCEPT ![c] = s] /\ s.row = client[c].row
      BY <2>1 DEF SchemaSession, RowPcs, TablePcs, IndexPcs
    <2>11. s.row = 0
      BY <2>10, NoRow DEF Struct
    <2> QED BY <2>1, <2>5, <2>8, <2>9, <2>10, <2>11, CatalogEntries
  <1>13. ASSUME RenameMeta(c) PROVE Entries'
    <2>1. PICK f : f = IndexFile(c)
      OBVIOUS
    <2>2. /\ client[c].pc = "ci_rename" /\ client[c].i \in opened[client[c].t].indexes
          /\ \A u \in Table : meta'[u].indexes = meta[u].indexes \cup (IF u = client[c].t THEN {client[c].i} ELSE {})
      BY <1>13, <2>1, RenameMetaStruct
    <2>3. PICK s : SchemaSession(c, s) /\ s.pc = "s_files"
      BY <1>13, <2>1, RenameMetaStruct
    <2>4. UNCHANGED <<opened, log, hist>>
      BY <1>13 DEF RenameMeta, memVars
    <2>5. \A t \in Table : /\ opened[t].indexes \subseteq opened'[t].indexes
                           /\ opened'[t].indexes \cup meta'[t].indexes \subseteq Filled(t)
      BY <2>2, <2>4 DEF Filled
    <2> QED BY <2>3, <2>4, <2>5, NamesEntries
  <1> QED BY <1>1, <1>2, <1>5, <1>6, <1>7, <1>8, <1>9, <1>10, <1>11, <1>12, <1>13, Zenon DEF Creates

(* The scan of CREATE INDEX makes an entry for every row that nobody works *)
(* on and that it sees.                                                    *)
LEMMA ScanRowsEntries ==
    ASSUME Struct, Contents, Entries, NEW c \in Client, ScanRows(c)
    PROVE  Entries'
  <1>1. PICK t, f, j, rows : /\ t = client[c].t /\ f = IndexFile(c) /\ j = client[c].i
                             /\ rows = {r \in pool[Data(t)].img.rows : Sees(c, t, r)}
    OBVIOUS
  <1>2. /\ Scanned(f, rows) /\ f \in File /\ t \in Table /\ client[c].pc = "ci_scan" /\ rows \subseteq Row
        /\ hist'.lost = hist.lost /\ hist'.refused = hist.refused
        /\ hist'.apart = hist.apart \cup ({f} \X {r \in Row : OnRow(t, r) # {} \/ ~Sees(c, t, r)})
    <2>1. rows = {r \in pool[Data(client[c].t)].img.rows : Sees(c, client[c].t, r)}
      BY <1>1
    <2>2. /\ Scanned(f, rows) /\ f \in File /\ client[c].t \in Table /\ client[c].pc = "ci_scan" /\ rows \subseteq Row
          /\ hist'.lost = hist.lost /\ hist'.refused = hist.refused
          /\ hist'.apart = hist.apart \cup ({f} \X {r \in Row : OnRow(client[c].t, r) # {} \/ ~Sees(c, client[c].t, r)})
      BY <1>1, <2>1, ScanWork
    <2> QED BY <1>1, <2>2
  <1>3. f = <<t, j>> /\ j \in Index
    BY <1>1, <1>2, IndexSession DEF IndexPcs
  <1>4. PICK s : SchemaSession(c, s) /\ s.pc = "ci_push"
    BY ScanRowsStruct
  <1>5. /\ c \in Actor /\ client'[c] = s /\ \A b \in Actor : b # c => client'[b] = client[b]
        /\ s.t = t /\ s.i = j /\ s.row = 0 /\ client[c].row = 0
    <2>1. client[c].row = 0
      BY <1>2, NoRow DEF Struct, RowPcs
    <2> QED BY <1>1, <1>4, <2>1, SessionStep DEF Struct, SchemaSession, Actor
  <1>6. LogGrows
    <2>1. Len(log) \in Nat /\ Len(log') >= Len(log) /\ Len(log') \in Nat
      BY <1>2, ScanWork, LenProperties, Typed DEF Scanned, Struct, Facts, RangeFacts
    <2> QED BY <1>2, <2>1 DEF Scanned, LogGrows
  <1>7. \A n \in 1 .. Len(log') : n > Len(log) => log'[n].file = f /\ log'[n].op = "ins" /\ log'[n].row \in rows
    BY <1>2 DEF Scanned
  <1>8. \A g, r : g # f => (Has(g, r)' <=> Has(g, r))
    BY <1>6, <1>7, HasKept DEF NotChanged
  <1>9. \A u \in Table : Data(u) # f
    BY <1>2, <1>3, DataFiles
  <1>10. MarksKept /\ DataMarksKept
    BY <1>2, <1>9 DEF MarksKept, DataMarksKept
  <1>11. \A u : \A r \in Row : OnRow(u, r)' = OnRow(u, r) /\ \A a \in OnRow(u, r) : client'[a] = client[a]
    <2>1. \A b \in Client : client'[b] = client[b] \/ (client[b].row = 0 /\ client'[b].row = 0)
      BY <1>5 DEF Actor
    <2> QED BY <2>1, SameRows
  <1>12. UNCHANGED <<opened, meta>>
    BY <1>2 DEF Scanned
  <1>13. \A u \in Table : \A i \in Filled(u)' : i \in Filled(u) \/ (u = t /\ i = j)
    <2> TAKE u \in Table
    <2>1. \A a \in Creating(u)' : (a \in Creating(u) /\ client'[a].i = client[a].i) \/ (u = t /\ client'[a].i = j)
      BY <1>5 DEF Creating, Actor
    <2> QED BY <1>12, <2>1 DEF Filled
  <1>14. ASSUME NEW u \in Table, u # t, NEW r \in Row PROVE RowKept(u, r)
    <2>1. \A i : <<u, i>> # f
      BY <1>3, <1>14
    <2> QED BY <1>8, <1>9, <1>11, <1>12, <1>13, <1>14, <1>2, <2>1 DEF RowKept
  <1>15. ASSUME NEW r \in Row PROVE EntryRight(t, r, j)'
    <2>1. SUFFICES ASSUME ~Excused(f, r)'
                   PROVE  OnRow(t, r)' = {} /\ (Has(f, r)' <=> Has(Data(t), r)')
      BY <1>3 DEF EntryRight
    <2>2. OnRow(t, r) = {} /\ Sees(c, t, r) /\ <<Data(t), r>> \notin hist.lost
      <3>1. <<f, r>> \notin hist'.apart
        BY <2>1 DEF Excused
      <3>2. TableOf(f) = t
        BY <1>2, <1>3, IndexFiles
      <3>3. <<Data(t), r>> \notin hist'.lost
        BY <2>1, <3>2 DEF Excused
      <3> QED BY <1>2, <3>1, <3>3
    <2>3. PoolRight(Data(t), r)
      <3>1. opened[t] # NoMeta /\ Data(t) \in File
        BY <1>1, <1>2, IndexSession, DataFiles DEF IndexMade, IndexPcs
      <3>2. Open(Data(t))
        BY <1>2, <3>1 DEF Struct, SchemaInv
      <3> QED BY <2>2, <3>1, <3>2 DEF Contents, ImageInv, Right
    <2>4. r \in rows <=> Has(Data(t), r)
      BY <1>1, <2>2, <2>3 DEF PoolRight, Has
    <2>5. Has(f, r)' <=> r \in rows
      <3>1. CASE r \in rows
        <4>1. PICK k \in 1 .. Len(log') : k > Len(log) /\ log'[k].row = r
          BY <1>2, <3>1 DEF Scanned
        <4>2. k \in History(f, r)'
          BY <1>7, <4>1 DEF History
        <4>3. \A n \in History(f, r)' : n > Len(log) => log'[n].op = "ins"
          BY <1>7 DEF History
        <4> QED BY <1>6, <3>1, <4>1, <4>2, <4>3, LastRecord DEF Has
      <3>2. CASE r \notin rows
        <4>1. NotChanged(f, r)
          BY <1>7, <3>2 DEF NotChanged
        <4>2. History(f, r) = {}
          <5>1. IndexMade(c) /\ client[c].pc \in IndexPcs
            BY <1>2 DEF Struct, WorkInv, IndexPcs
          <5>2. \A n \in RecordsOf(f) : log[n].row = 0
            BY <1>1, <1>2, <1>3, <5>1 DEF IndexMade
          <5>3. r # 0
            BY NameAssumption
          <5> QED BY <5>2, <5>3 DEF History, RecordsOf
        <4>3. ~Has(f, r)
          BY <4>2 DEF Has, Holds, HistoryTo
        <4> QED BY <1>6, <3>2, <4>1, <4>3, HasKept
      <3> QED BY <3>1, <3>2
    <2> QED BY <1>8, <1>9, <1>11, <1>2, <2>2, <2>4, <2>5
  <1>16. ASSUME NEW r \in Row PROVE RowRight(t, r)'
    <2>1. RowRight(t, r)
      BY <1>2 DEF Entries
    <2>2. (Has(Data(t), r)' <=> Has(Data(t), r)) /\ OnRow(t, r)' = OnRow(t, r)
      BY <1>2, <1>8, <1>9, <1>11
    <2>3. ASSUME NEW i \in Filled(t)', i # j PROVE EntryRight(t, r, i)'
      <3>1. i \in Filled(t) /\ <<t, i>> # f
        BY <1>2, <1>3, <1>13, <2>3
      <3>2. Has(<<t, i>>, r)' <=> Has(<<t, i>>, r)
        BY <1>8, <3>1
      <3>3. SUFFICES ASSUME ~Excused(<<t, i>>, r)'
                     PROVE  /\ OnRow(t, r)' = {} => (Has(<<t, i>>, r)' <=> Has(Data(t), r)')
                            /\ \A a \in OnRow(t, r)' :
                                  i \in opened'[t].indexes /\ Has(Data(t), r)' /\ Entered(client[a], <<t, i>>, r)'
        BY DEF EntryRight
      <3>4. ~Excused(<<t, i>>, r)
        BY <1>10, <3>3, ExcusedKept
      <3>5. /\ OnRow(t, r) = {} => (Has(<<t, i>>, r) <=> Has(Data(t), r))
            /\ \A a \in OnRow(t, r) :
                  i \in opened[t].indexes /\ Has(Data(t), r) /\ Entered(client[a], <<t, i>>, r)
        BY <2>1, <3>1, <3>4 DEF RowRight, EntryRight
      <3>6. ASSUME NEW a \in OnRow(t, r) PROVE Entered(client[a], <<t, i>>, r)'
        <4>1. client'[a] = client[a] /\ Entered(client[a], <<t, i>>, r)
          BY <1>11, <3>5
        <4> QED BY <3>2, <4>1 DEF Entered
      <3> QED BY <1>12, <2>2, <3>2, <3>5, <3>6
    <2>4. <<t, r>> \in hist'.refused /\ OnRow(t, r)' = {} /\ ~Excused(Data(t), r)' => ~Has(Data(t), r)'
      BY <1>2, <1>10, <2>1, <2>2, ExcusedKept DEF RowRight
    <2>5. \A i \in Filled(t)' : EntryRight(t, r, i)'
      BY <1>15, <2>3
    <2> QED BY <2>1, <2>2, <2>4, <2>5 DEF RowRight
  <1>17. \A u \in Table, r \in Row : RowKept(u, r) \/ RowRight(u, r)'
    BY <1>14, <1>16
  <1> QED BY <1>10, <1>17, EntriesStep

LEMMA RefusedEntries ==
    ASSUME Struct, Entries, NEW c \in Client, Refused(c)
    PROVE  Entries'
  <1>1. UNCHANGED <<meta, opened, log, hist>>
    BY DEF Refused, dirVars, memVars
  <1>2. CASE UNCHANGED client
    BY <1>1, <1>2, SameEntries
  <1>3. CASE Answer(c) /\ client[c].pc \in (TablePcs \cup IndexPcs \cup SyncPcs) \ {"ct_open", "ci_create"}
    <2>1. client[c].row = 0
      BY <1>3, NoRow DEF Struct, RowPcs, TablePcs, IndexPcs, SyncPcs
    <2>2. c \in Actor /\ client' = [client EXCEPT ![c] = Idle] /\ Idle \in Sessions
      BY <1>3, IdleSession DEF Answer, Actor
    <2>3. client'[c] = Idle /\ \A b \in Actor : b # c => client'[b] = client[b]
      BY <2>2, SessionStep DEF Struct
    <2>4. /\ \A b \in Client : client'[b] = client[b] \/ (client[b].row = 0 /\ client'[b].row = 0)
          /\ \A b \in Client : client'[b].pc = "ci_push" => client'[b] = client[b]
      BY <2>1, <2>3, IdleSession DEF Actor
    <2> QED BY <1>1, <2>4, SameEntries
  <1> QED BY <1>2, <1>3 DEF Refused

LEMMA QuietSteps ==
    ASSUME Struct, Entries, FlushLog \/ DblwrFull \/ (\E f \in File : Evict(f)) \/ Destroy
    PROVE  Entries'
  <1>1. /\ UNCHANGED <<meta, opened, log>>
        /\ hist'.apart = hist.apart /\ hist'.lost = hist.lost /\ hist'.refused = hist.refused
    <2>1. CASE FlushLog \/ DblwrFull \/ Destroy
      BY <2>1 DEF FlushLog, DblwrFull, Destroy, dirVars, memVars
    <2>2. ASSUME NEW f \in File, Evict(f)
          PROVE  /\ UNCHANGED <<meta, opened, log>>
                 /\ hist'.apart = hist.apart /\ hist'.lost = hist.lost /\ hist'.refused = hist.refused
      <3>1. UNCHANGED <<meta, opened, log>> /\ hist' = [hist EXCEPT !.late = @ \ ({f} \X Row)]
        BY <2>2 DEF Evict, memVars
      <3> QED BY <3>1, FlushMarks DEF Struct
    <2> QED BY <2>1, <2>2
  <1>2. CASE UNCHANGED client
    BY <1>1, <1>2, SameEntries
  <1>3. CASE Destroy
    <2>1. PICK s \in Sessions : client' = [client EXCEPT ![Main] = s]
      BY <1>3, DestroySession
    <2>2. \A b \in Client : client'[b] = client[b]
      BY <2>1, SessionStep, MainAssumption DEF Struct, Actor
    <2> QED BY <1>1, <2>2, SameEntries
  <1> QED BY <1>2, <1>3 DEF FlushLog, DblwrFull, Evict

(* What is dropped is excused. *)
LEMMA DropEntries ==
    ASSUME Struct, Entries, NEW f \in File, NEW rows \in SUBSET Row, Drop(f, rows)
    PROVE  Entries'
  <1>1. UNCHANGED <<meta, opened, log, client>>
    BY DEF Drop, dirVars
  <1>2. /\ hist'.lost = hist.lost \cup ({f} \X rows)
        /\ hist'.apart = hist.apart /\ hist'.refused = hist.refused
    BY DropMarks
  <1>3. MarksKept /\ DataMarksKept /\ hist'.refused \subseteq hist.refused
    BY <1>2 DEF MarksKept, DataMarksKept
  <1>4. LogGrows /\ \A g, r : NotChanged(g, r)
    BY <1>1, SameLog
  <1>5. \A t \in Table : Filled(t)' \subseteq Filled(t) /\ opened[t].indexes \subseteq opened'[t].indexes
    BY <1>1 DEF Filled, Creating
  <1> QED BY <1>1, <1>3, <1>4, <1>5, QuietEntries

(* What goes with the process was in a meta file. *)
LEMMA GoneFilled ==
    ASSUME GoneKeeps, NEW t \in Table
    PROVE  Filled(t)' = meta[t].indexes /\ \A r : OnRow(t, r)' = {}
  <1>1. opened'[t] = NoMeta /\ meta' = meta /\ \A a \in Client : client'[a] = Idle
    BY DEF GoneKeeps, Gone, Actor
  <1>2. Creating(t)' = {} /\ \A r : OnRow(t, r)' = {}
    BY <1>1, IdleSession DEF Creating, OnRow
  <1> QED BY <1>1, <1>2 DEF Filled, NoMeta

LEMMA CloseEntries ==
    ASSUME Struct, Entries, Close
    PROVE  Entries'
  <1>1. /\ GoneKeeps /\ log' = log /\ client[Main].pc = "close"
        /\ hist'.apart = hist.apart /\ hist'.lost = hist.lost /\ hist'.refused = hist.refused
    BY CloseKeeps
  <1>2. \A a \in Client : client[a].pc = "idle"
    BY <1>1 DEF Struct, ActorInv
  <1>3. \A t, r : OnRow(t, r) = {}
    BY <1>2 DEF OnRow
  <1>4. \A a \in Client : client[a].row = 0 /\ client'[a].row = 0
    BY <1>1, <1>2, NoRow, IdleSession DEF GoneKeeps, Gone, Actor, Struct, RowPcs
  <1>5. \A t \in Table : Filled(t)' \subseteq Filled(t)
    BY <1>1, GoneFilled DEF Filled
  <1>6. LogGrows /\ \A f, r : NotChanged(f, r)
    BY <1>1, SameLog
  <1>7. MarksKept /\ DataMarksKept /\ hist'.refused \subseteq hist.refused
    BY <1>1 DEF MarksKept, DataMarksKept
  <1> QED BY <1>3, <1>4, <1>5, <1>6, <1>7, QuietEntries

(* A crash takes changes back only of rows that it excuses. *)
LEMMA CrashEntries ==
    ASSUME Struct, Entries, Crash
    PROVE  Entries'
  <1>1. /\ GoneKeeps /\ Len(log') = flushed
        /\ hist.lost \subseteq hist'.lost /\ hist'.refused = hist.refused
        /\ hist'.apart = hist.apart \cup {y \in File \X Row : <<TableOf(y[1]), y[2]>> \in Cut}
    BY CrashKeeps
  <1>2. LogCut /\ flushed \in Nat /\ flushed <= Len(log)
    BY <1>1, Typed DEF GoneKeeps, LogCut, Struct, Facts, RangeFacts
  <1>3. MarksKept
    BY <1>1 DEF MarksKept
  <1>4. \A f \in File, r \in Row : <<TableOf(f), r>> \in Cut => <<f, r>> \in hist'.apart
    BY <1>1
  <1>5. ASSUME NEW t \in Table, NEW r \in Row, <<t, r>> \notin Cut, NEW f \in File, TableOf(f) = t
        PROVE  Has(f, r)' <=> Has(f, r)
    <2>1. \A n \in History(f, r) : n <= flushed
      <3> SUFFICES ASSUME NEW n \in History(f, r), ~(n <= flushed) PROVE FALSE
        OBVIOUS
      <3>1. n \in 1 .. Len(log) /\ log[n].file = f /\ log[n].row = r
        BY DEF History
      <3>2. n \in flushed + 1 .. Len(log)
        BY <1>2, <3>1
      <3> QED BY <1>5, <3>1, <3>2 DEF Cut
    <2>2. HistoryTo(f, r, flushed) = History(f, r) /\ HistoryTo(f, r, Len(log)) = History(f, r)
      BY <1>2, <2>1, CutHistory DEF HistoryTo
    <2>3. Has(f, r) <=> Holds(f, r, flushed)
      BY <2>2 DEF Has, Holds
    <2>4. (\E n \in {k \in History(f, r)' : k <= flushed} :
              log'[n].op = "ins" /\ \A m \in {k \in History(f, r)' : k <= flushed} : m <= n)
          <=> Holds(f, r, flushed)
      BY <1>1, <1>2, HoldsCut
    <2>5. Has(f, r)' <=> \E n \in {k \in History(f, r)' : k <= flushed} :
              log'[n].op = "ins" /\ \A m \in {k \in History(f, r)' : k <= flushed} : m <= n
      BY <1>1 DEF Has, Holds, HistoryTo
    <2> QED BY <2>3, <2>4, <2>5
  <1>6. ASSUME NEW t \in Table, NEW r \in Row PROVE RowRight(t, r)'
    <2>1. OnRow(t, r)' = {} /\ Filled(t)' = meta[t].indexes /\ meta[t].indexes \subseteq Index /\ RowRight(t, r)
      BY <1>1, GoneFilled, Typed DEF Struct, Facts, IdFacts, Entries
    <2>2. Data(t) \in File /\ TableOf(Data(t)) = t
      BY DataFiles
    <2>3. ASSUME NEW i \in Filled(t)' PROVE EntryRight(t, r, i)'
      <3>1. <<t, i>> \in File /\ TableOf(<<t, i>>) = t /\ i \in Filled(t)
        BY <2>1, <2>3, IndexFiles DEF Filled
      <3>2. ASSUME ~Excused(<<t, i>>, r)' PROVE Has(<<t, i>>, r)' <=> Has(Data(t), r)'
        <4>1. <<t, r>> \notin Cut
          BY <1>4, <3>1, <3>2 DEF Excused
        <4>2. OnRow(t, r) = {} /\ ~Excused(<<t, i>>, r)
          BY <1>3, <3>2, <4>1, ExcusedKept DEF Cut
        <4>3. Has(<<t, i>>, r) <=> Has(Data(t), r)
          BY <2>1, <3>1, <4>2 DEF RowRight, EntryRight
        <4> QED BY <1>5, <2>2, <3>1, <4>1, <4>3
      <3> QED BY <2>1, <3>2 DEF EntryRight
    <2>4. ASSUME <<t, r>> \in hist'.refused, ~Excused(Data(t), r)' PROVE ~Has(Data(t), r)'
      <3>1. <<t, r>> \notin Cut
        BY <1>4, <2>2, <2>4 DEF Excused
      <3>2. OnRow(t, r) = {} /\ ~Excused(Data(t), r)
        BY <1>3, <2>4, <3>1, ExcusedKept DEF Cut
      <3>3. ~Has(Data(t), r)
        BY <1>1, <2>1, <2>4, <3>2 DEF RowRight
      <3> QED BY <1>5, <2>2, <3>1, <3>3
    <2> QED BY <2>1, <2>3, <2>4 DEF RowRight
  <1>7. ApartInv'
    <2> SUFFICES ASSUME NEW t \in Table, NEW r \in Row, <<Data(t), r>> \in hist'.apart, NEW i \in Index
                 PROVE  <<<<t, i>>, r>> \in hist'.apart
      BY DEF ApartInv
    <2>1. CASE <<Data(t), r>> \in hist.apart
      BY <1>3, <2>1 DEF Entries, ApartInv, MarksKept
    <2>2. CASE <<Data(t), r>> \notin hist.apart
      <3>1. <<t, r>> \in Cut
        BY <1>1, <2>2, DataFiles
      <3> QED BY <1>4, <3>1, IndexFiles
    <2> QED BY <2>1, <2>2
  <1> QED BY <1>6, <1>7 DEF Entries

LEMMA StartEntries ==
    ASSUME Struct, Entries, Started
    PROVE  Entries'
  <1>1. /\ UNCHANGED <<meta, log, client>> /\ status = "down"
        /\ hist'.apart = hist.apart /\ hist'.lost = hist.lost /\ hist'.refused = hist.refused
        /\ \A t \in Table : opened'[t] = meta[t]
    BY DEF Started
  <1>2. \A a \in Client : client[a] = Idle
    BY <1>1 DEF Struct, ActorInv, Actor
  <1>3. \A t, r : OnRow(t, r) = {}
    BY <1>2, IdleSession DEF OnRow
  <1>4. \A t \in Table : Filled(t)' \subseteq Filled(t)
    <2> TAKE t \in Table
    <2>1. opened'[t].indexes \cup meta'[t].indexes \subseteq Filled(t)
      BY <1>1 DEF Filled
    <2> QED BY <1>1, <2>1, FilledKept
  <1>5. LogGrows /\ \A f, r : NotChanged(f, r)
    BY <1>1, SameLog
  <1>6. MarksKept /\ DataMarksKept /\ hist'.refused \subseteq hist.refused
    BY <1>1 DEF MarksKept, DataMarksKept
  <1> QED BY <1>1, <1>3, <1>4, <1>5, <1>6, QuietEntries

LEMMA InitEntries == Init => Entries
  <1> SUFFICES ASSUME Init PROVE Entries
    OBVIOUS
  <1>1. /\ \A t \in Table : meta[t] = NoMeta /\ opened[t] = NoMeta
        /\ \A a \in Client : client[a] = Idle
        /\ hist.apart = {} /\ hist.refused = {}
    BY DEF Init, Actor
  <1>2. ASSUME NEW t \in Table, NEW r \in Row PROVE RowRight(t, r)
    <2>1. Creating(t) = {} /\ OnRow(t, r) = {}
      BY <1>1, IdleSession DEF Creating, OnRow
    <2>2. Filled(t) = {}
      BY <1>1, <2>1 DEF Filled, NoMeta
    <2> QED BY <1>1, <2>1, <2>2 DEF RowRight
  <1>3. ApartInv
    BY <1>1 DEF ApartInv
  <1> QED BY <1>2, <1>3 DEF Entries

(* Only files of indexes are excused by a statement. *)
LEMMA OverlapsIndexes ==
    ASSUME Struct, NEW t, NEW r, hist'.apart \subseteq hist.apart \cup Overlaps(t, r)
    PROVE  DataMarksKept
  <1>1. ASSUME NEW u \in Table, NEW q \in Row, <<Data(u), q>> \in Overlaps(t, r) PROVE FALSE
    <2>1. PICK a \in Creating(t) : Data(u) = <<client[a].t, client[a].i>>
      BY <1>1 DEF Overlaps
    <2>2. a \in Client /\ client[a].pc \in IndexPcs
      BY <2>1 DEF Creating, IndexPcs
    <2>3. client[a].i \in Index
      BY <2>2 DEF Struct, ActorInv
    <2>4. Data(u)[2] = client[a].i
      BY <2>1
    <2> QED BY <2>3, <2>4, DataFiles
  <1> QED BY <1>1 DEF DataMarksKept

(* What a change of a row does to the log. *)
LEMMA RowWorkLog ==
    ASSUME Struct, NEW f, NEW op, NEW r, RowWork(f, op, r)
    PROVE  /\ LogGrows /\ (\A g, q : g # f \/ q # r => NotChanged(g, q))
           /\ Has(f, r)' <=> op = "ins"
           /\ \A g : g # f => (Has(g, r)' <=> Has(g, r))
  <1>1. f \in File /\ Open(f) /\ r \in Row /\ op \in {"ins", "del"}
    BY SyncedOpen DEF Struct, RowWork
  <1>2. /\ Len(log') = Len(log) + 1
        /\ \A n \in 1 .. Len(log) : log'[n] = log[n]
        /\ log'[Len(log) + 1] = Rec(f, op, r)
    BY <1>1, RowChanged DEF RowWork, Struct
  <1>3. Len(log) \in Nat
    BY Typed DEF Struct, Facts, RangeFacts
  <1>4. LogGrows
    BY <1>2, <1>3 DEF LogGrows
  <1>5. \A n \in 1 .. Len(log') : n > Len(log) => n = Len(log) + 1
    BY <1>2, <1>3
  <1>6. log'[Len(log) + 1].file = f /\ log'[Len(log) + 1].row = r /\ log'[Len(log) + 1].op = op
    BY <1>2 DEF Rec
  <1>7. \A g, q : g # f \/ q # r => NotChanged(g, q)
    BY <1>5, <1>6 DEF NotChanged
  <1>8. \A g : g # f => (Has(g, r)' <=> Has(g, r))
    BY <1>4, <1>7, HasKept
  <1>9. Len(log) + 1 \in 1 .. Len(log') /\ Len(log) + 1 > Len(log)
    BY <1>2, <1>3
  <1>10. PICK k : k = Len(log) + 1
    OBVIOUS
  <1>11. k \in History(f, r)' /\ k > Len(log)
    BY <1>6, <1>9, <1>10 DEF History
  <1>12. \A n \in History(f, r)' : n > Len(log) => log'[n].op = op
    BY <1>5, <1>6 DEF History
  <1>13. Holds(f, r, Len(log))' <=> op = "ins"
    BY <1>4, <1>11, <1>12, LastRecord
  <1>14. Has(f, r)' <=> op = "ins"
    BY <1>13 DEF Has
  <1> QED BY <1>4, <1>7, <1>8, <1>14

LEMMA TouchedRow ==
    ASSUME Struct, NEW c \in Client, NEW s, NEW t \in Table, NEW r \in Row, RowTouched(c, s, t, r)
    PROVE  /\ \A u \in Table : Filled(u)' \subseteq Filled(u)
           /\ client'[c] = s /\ \A a \in Client : a # c => client'[a] = client[a]
           /\ OnRow(t, r) \subseteq {c} /\ s.row = 0 => OnRow(t, r)' = {}
           /\ OnRow(t, r) \subseteq {c} /\ s.row # 0 => OnRow(t, r)' = {c}
           /\ \A u, q : q \in Row /\ (u # t \/ q # r) => c \notin OnRow(u, q) /\ c \notin OnRow(u, q)'
  <1>1. client'[c] = s /\ \A a \in Client : a # c => client'[a] = client[a]
    BY OtherSessions DEF RowTouched, Struct, Actor
  <1>2. s.pc # "ci_push" /\ (s.row # 0 <=> s.pc \in RowPcs)
    BY DEF RowTouched, RowTo, RowSession, RowPcs
  <1>3. \A u \in Table : Filled(u)' \subseteq Filled(u)
    <2> TAKE u \in Table
    <2>1. opened'[u].indexes \cup meta'[u].indexes \subseteq Filled(u)
      BY DEF RowTouched, Filled
    <2>2. \A a \in Client : client'[a].pc = "ci_push" => client'[a] = client[a]
      BY <1>1, <1>2
    <2> QED BY <2>1, <2>2, FilledKept
  <1>4. r # 0 /\ \A q \in Row : q # 0
    BY NameAssumption
  <1>5. OnRow(t, r) \subseteq {c} /\ s.row = 0 => OnRow(t, r)' = {}
    BY <1>1, <1>4 DEF OnRow
  <1>6. s.row # 0 => s.pc # "idle" /\ s.t = t /\ s.row = r
    BY <1>2 DEF RowTouched, RowPcs
  <1>7. OnRow(t, r) \subseteq {c} /\ s.row # 0 => OnRow(t, r)' = {c}
    BY <1>1, <1>6 DEF OnRow
  <1>8. \A u, q : q \in Row /\ (u # t \/ q # r) => c \notin OnRow(u, q) /\ c \notin OnRow(u, q)'
    BY <1>1, <1>4, <1>6 DEF OnRow, RowTouched
  <1> QED BY <1>1, <1>3, <1>5, <1>7, <1>8

LEMMA TouchedEntries ==
    ASSUME Struct, Entries, NEW c \in Client, NEW s, NEW t \in Table, NEW r \in Row, RowTouched(c, s, t, r), RowRight(t, r)'
    PROVE  Entries'
  <1>1. MarksKept /\ (DataMarksKept \/ ApartInv')
    BY DEF RowTouched
  <1>2. ASSUME NEW u \in Table, NEW q \in Row, u # t \/ q # r PROVE RowKept(u, q)
    <2>1. c \notin OnRow(u, q) /\ c \notin OnRow(u, q)' /\ \A a \in Client : a # c => client'[a] = client[a]
      BY <1>2, TouchedRow
    <2>2. OnRow(u, q)' = OnRow(u, q) /\ \A a \in OnRow(u, q) : client'[a] = client[a]
      BY <2>1 DEF OnRow
    <2>3. \A i : TableOf(<<u, i>>) = u
      BY DEF TableOf
    <2>4. TableOf(Data(u)) = u
      BY DataFiles
    <2>5. LogGrows /\ NotChanged(Data(u), q) /\ \A i : NotChanged(<<u, i>>, q)
      BY <1>2, <2>3, <2>4 DEF RowTouched
    <2>6. (Has(Data(u), q)' <=> Has(Data(u), q)) /\ \A i : (Has(<<u, i>>, q)' <=> Has(<<u, i>>, q))
      BY <2>5, HasKept
    <2>7. <<u, q>> \in hist'.refused => <<u, q>> \in hist.refused
      BY <1>2 DEF RowTouched
    <2>8. opened[u].indexes \subseteq opened'[u].indexes /\ Filled(u)' \subseteq Filled(u)
      BY TouchedRow DEF RowTouched
    <2> QED BY <2>2, <2>6, <2>7, <2>8 DEF RowKept
  <1>3. \A u \in Table, q \in Row : RowKept(u, q) \/ RowRight(u, q)'
    BY <1>2
  <1> QED BY <1>1, <1>3, EntriesStep

(* What a session that is at work knows of its row. *)
LEMMA AtRow ==
    ASSUME Struct, Entries, NEW c \in Client, client[c].pc \in RowPcs, NEW t, t = client[c].t, NEW r, r = client[c].row
    PROVE  /\ t \in Table /\ r \in Row /\ opened[t] # NoMeta /\ OnRow(t, r) = {c}
           /\ \A i \in Filled(t) : ~Excused(<<t, i>>, r) =>
                 i \in opened[t].indexes /\ Has(Data(t), r) /\ Entered(client[c], <<t, i>>, r)
  <1>1. t \in Table /\ r \in Row /\ opened[t] # NoMeta
    BY RowWorker
  <1>2. RowRight(t, r)
    BY <1>1 DEF Entries
  <1>3. c \in OnRow(t, r)
    BY DEF OnRow, RowPcs
  <1>4. OnRow(t, r) = {c}
    BY <1>2, <1>3 DEF RowRight
  <1>5. ASSUME NEW i \in Filled(t), ~Excused(<<t, i>>, r)
        PROVE  i \in opened[t].indexes /\ Has(Data(t), r) /\ Entered(client[c], <<t, i>>, r)
    BY <1>2, <1>3, <1>5 DEF RowRight, EntryRight
  <1> QED BY <1>1, <1>4, <1>5

(* An index in the making is excused by the statements that begin now. *)
LEMMA RowBegun ==
    ASSUME Struct, NEW t \in Table, opened[t] # NoMeta, NEW r, hist'.apart = hist.apart \cup Overlaps(t, r),
           NEW i \in Filled(t), ~Excused(<<t, i>>, r)'
    PROVE  i \in opened[t].indexes
  <1>1. meta[t].indexes \subseteq opened[t].indexes
    BY DEF Struct, SchemaInv
  <1>2. ASSUME NEW a \in Creating(t), i = client[a].i PROVE FALSE
    <2>1. client[a].t = t
      BY DEF Creating
    <2>2. <<t, i>> \in {<<client[b].t, client[b].i>> : b \in Creating(t)}
      BY <1>2, <2>1
    <2>3. <<<<t, i>>, r>> \in Overlaps(t, r)
      BY <2>2 DEF Overlaps
    <2> QED BY <2>3 DEF Excused
  <1> QED BY <1>1, <1>2 DEF Filled

(* The row of a session, and the row a session leaves. *)
LEMMA RowTaken ==
    ASSUME NEW t, NEW r, NEW c, NEW s, OnRow(t, r)' = {c}, client'[c] = s,
           \A i \in Filled(t)' : ~Excused(<<t, i>>, r)' =>
              i \in opened'[t].indexes /\ Has(Data(t), r)' /\ Entered(s, <<t, i>>, r)'
    PROVE  RowRight(t, r)'
  <1>1. ASSUME NEW i \in Filled(t)' PROVE EntryRight(t, r, i)'
    <2>1. ASSUME ~Excused(<<t, i>>, r)'
          PROVE  i \in opened'[t].indexes /\ Has(Data(t), r)' /\ Entered(client[c], <<t, i>>, r)'
      BY <1>1, <2>1 DEF Entered
    <2> QED BY <2>1 DEF EntryRight
  <1> QED BY <1>1 DEF RowRight

LEMMA RowLeft ==
    ASSUME NEW t, NEW r, OnRow(t, r)' = {},
           \A i \in Filled(t)' : ~Excused(<<t, i>>, r)' => (Has(<<t, i>>, r)' <=> Has(Data(t), r)'),
           <<t, r>> \in hist'.refused /\ ~Excused(Data(t), r)' => ~Has(Data(t), r)'
    PROVE  RowRight(t, r)'
  <1>1. \A i \in Filled(t)' : EntryRight(t, r, i)'
    BY DEF EntryRight
  <1> QED BY <1>1 DEF RowRight

LEMMA PoolHas ==
    ASSUME Contents, NEW f \in File, Open(f), NEW r \in Row, <<f, r>> \notin hist.lost
    PROVE  r \in pool[f].img.rows <=> Has(f, r)
  BY DEF Contents, ImageInv, Right, PoolRight, Has

LEMMA ExcusedParts ==
    ASSUME NEW t, NEW i, NEW r
    PROVE  /\ ~Excused(<<t, i>>, r) => <<<<t, i>>, r>> \notin hist.lost /\ <<Data(t), r>> \notin hist.lost
           /\ ~Excused(<<t, i>>, r) => <<<<t, i>>, r>> \notin hist.apart
  BY DEF Excused, TableOf

LEMMA FilledIndexes ==
    ASSUME Struct, NEW t \in Table, NEW i \in Filled(t)
    PROVE  i \in Index /\ <<t, i>> \in File /\ <<t, i>> # Data(t) /\ TableOf(<<t, i>>) = t
  <1>1. meta[t].indexes \subseteq Index /\ opened[t].indexes \subseteq Index
    BY Typed DEF Struct, Facts, IdFacts
  <1>2. \A a \in Creating(t) : client[a].i \in Index
    BY DEF Creating, Struct, ActorInv, IndexPcs
  <1>3. i \in Index
    BY <1>1, <1>2 DEF Filled
  <1> QED BY <1>3, IndexFiles

(* A change of the row. *)
LEMMA WorkTouches ==
    ASSUME Struct, NEW c \in Client, NEW s, RowTo(c, s), NEW f, NEW op, NEW r, RowWork(f, op, r), NEW t, TableOf(f) = t,
           client[c].row # 0 => client[c].t = t /\ client[c].row = r,
           s.row # 0 => s.t = t /\ s.row = r,
           hist'.apart \subseteq hist.apart \cup Overlaps(t, r),
           hist'.refused \subseteq hist.refused \cup {<<t, r>>}
    PROVE  RowTouched(c, s, t, r)
  <1>1. UNCHANGED <<meta, opened>> /\ MarksKept /\ DataMarksKept
    BY OverlapsIndexes DEF RowWork, MarksKept
  <1>2. LogGrows /\ \A g, q : g # f \/ q # r => NotChanged(g, q)
    BY RowWorkLog
  <1> QED BY <1>1, <1>2 DEF RowTouched

LEMMA FailTouches ==
    ASSUME Struct, NEW c \in Client, NEW s, RowTo(c, s), RowPause, NEW t, NEW r,
           client[c].row # 0 => client[c].t = t /\ client[c].row = r,
           s.row # 0 => s.t = t /\ s.row = r,
           DataMarksKept \/ ApartInv',
           hist'.refused \subseteq hist.refused \cup {<<t, r>>}
    PROVE  RowTouched(c, s, t, r) /\ \A f : (Has(f, r)' <=> Has(f, r))
  <1>1. UNCHANGED <<meta, opened, log>> /\ MarksKept
    BY DEF RowPause, MarksKept, dirVars
  <1>2. LogGrows /\ \A g, q : NotChanged(g, q)
    BY <1>1, SameLog
  <1>3. \A f : (Has(f, r)' <=> Has(f, r))
    BY <1>2, HasKept
  <1>4. RowTouched(c, s, t, r)
    BY <1>1, <1>2 DEF RowTouched
  <1> QED BY <1>3, <1>4

LEMMA PauseTouches ==
    ASSUME Struct, NEW c \in Client, NEW s, RowTo(c, s), RowPause, NEW t, NEW r,
           client[c].row # 0 => client[c].t = t /\ client[c].row = r,
           s.row # 0 => s.t = t /\ s.row = r,
           hist'.apart \subseteq hist.apart \cup Overlaps(t, r),
           hist'.refused \subseteq hist.refused \cup {<<t, r>>}
    PROVE  RowTouched(c, s, t, r) /\ \A f : (Has(f, r)' <=> Has(f, r))
  <1>1. DataMarksKept
    BY OverlapsIndexes
  <1> QED BY <1>1, FailTouches

(* A record is inserted: of a row that was not there no index has an entry. *)
LEMMA NewRecordEntries ==
    ASSUME Struct, Contents, Entries, NEW c \in Client, NEW t \in Table, NEW r \in Row, client[c].row = 0,
           RowWork(Data(t), "ins", r), Free(t, r),
           hist'.apart = hist.apart \cup Overlaps(t, r), hist'.refused = hist.refused,
           NEW s, RowTo(c, s), s.pc = "i_begin", s.t = t, s.row = r
    PROVE  Entries'
  <1>1. opened[t] # NoMeta /\ OnRow(t, r) = {} /\ r \notin pool[Data(t)].img.rows
    BY DEF Free
  <1>2. Data(t) \in File /\ TableOf(Data(t)) = t /\ Open(Data(t)) /\ r # 0
    BY <1>1, DataFiles, NameAssumption DEF Struct, SchemaInv
  <1>3. RowTouched(c, s, t, r)
    BY <1>2, WorkTouches
  <1>4. OnRow(t, r)' = {c} /\ client'[c] = s /\ Filled(t)' \subseteq Filled(t)
    BY <1>1, <1>2, <1>3, TouchedRow
  <1>5. Has(Data(t), r)' /\ (\A g : g # Data(t) => (Has(g, r)' <=> Has(g, r))) /\ MarksKept /\ opened' = opened
    BY <1>3, RowWorkLog DEF RowTouched
  <1>6. ASSUME NEW i \in Filled(t)', ~Excused(<<t, i>>, r)'
        PROVE  i \in opened'[t].indexes /\ Has(Data(t), r)' /\ Entered(s, <<t, i>>, r)'
    <2>1. i \in Filled(t) /\ <<t, i>> # Data(t)
      BY <1>4, <1>6, FilledIndexes
    <2>2. ~Excused(<<t, i>>, r)
      BY <1>5, <1>6, ExcusedKept
    <2>3. i \in opened[t].indexes
      BY <1>1, <1>6, <2>1, RowBegun
    <2>4. <<Data(t), r>> \notin hist.lost
      BY <2>2, ExcusedParts
    <2>5. ~Has(Data(t), r)
      BY <1>1, <1>2, <2>4, PoolHas
    <2>6. ~Has(<<t, i>>, r)
      BY <1>1, <2>1, <2>2, <2>5 DEF Entries, RowRight, EntryRight
    <2>7. ~Has(<<t, i>>, r)'
      BY <1>5, <2>1, <2>6
    <2>8. Entered(s, <<t, i>>, r)'
      BY <2>7 DEF Entered
    <2> QED BY <1>5, <2>3, <2>8
  <1>7. RowRight(t, r)'
    BY <1>4, <1>6, RowTaken
  <1> QED BY <1>3, <1>7, TouchedEntries

(* The statement goes over the indexes; it changes none yet. *)
LEMMA BeginEntriesEntries ==
    ASSUME Struct, Entries, NEW c \in Client, BeginEntries(c, "i_begin", "i_entry")
    PROVE  Entries'
  <1>1. PICK t, r : t = client[c].t /\ r = client[c].row
    OBVIOUS
  <1>2. RowPause /\ client[c].pc = "i_begin" /\ hist' = hist
    BY BeginEntriesPause
  <1>3. PICK s : RowTo(c, s) /\ s.pc = "i_entry" /\ s.t = t /\ s.row = r /\ s.todo = {t} \X opened[t].indexes /\ s.did = {}
    BY <1>1, BeginEntriesPause
  <1>4. /\ t \in Table /\ r \in Row /\ OnRow(t, r) = {c}
        /\ \A i \in Filled(t) : ~Excused(<<t, i>>, r) =>
              i \in opened[t].indexes /\ Has(Data(t), r) /\ Entered(client[c], <<t, i>>, r)
    BY <1>1, <1>2, AtRow DEF RowPcs
  <1>5. RowTouched(c, s, t, r) /\ (\A f : (Has(f, r)' <=> Has(f, r))) /\ r # 0
    BY <1>1, <1>2, <1>3, <1>4, PauseTouches, NameAssumption
  <1>6. OnRow(t, r)' = {c} /\ client'[c] = s /\ Filled(t)' \subseteq Filled(t) /\ opened' = opened /\ MarksKept
    BY <1>3, <1>4, <1>5, TouchedRow DEF RowTouched
  <1>7. ASSUME NEW i \in Filled(t)', ~Excused(<<t, i>>, r)'
        PROVE  i \in opened'[t].indexes /\ Has(Data(t), r)' /\ Entered(s, <<t, i>>, r)'
    <2>1. ~Excused(<<t, i>>, r)
      BY <1>6, <1>7, ExcusedKept
    <2>2. i \in opened[t].indexes /\ Has(Data(t), r) /\ Entered(client[c], <<t, i>>, r)
      BY <1>4, <1>6, <1>7, <2>1
    <2>3. ~Has(<<t, i>>, r)'
      BY <1>2, <1>5, <2>2 DEF Entered
    <2>4. <<t, i>> \in s.todo /\ <<t, i>> \notin s.did
      BY <1>3, <2>2
    <2>5. Entered(s, <<t, i>>, r)'
      BY <1>3, <2>3, <2>4 DEF Entered
    <2> QED BY <1>5, <1>6, <2>2, <2>5
  <1>8. RowRight(t, r)'
    BY <1>6, <1>7, RowTaken
  <1> QED BY <1>4, <1>5, <1>8, TouchedEntries

LEMMA InsertEntryEntries ==
    ASSUME Struct, Entries, NEW c \in Client, NEW f, InsertEntry(c, f)
    PROVE  Entries'
  <1>1. PICK t, r : t = client[c].t /\ r = client[c].row
    OBVIOUS
  <1>2. /\ client[c].pc = "i_entry" /\ f \in client[c].todo /\ RowWork(f, "ins", r) /\ TableOf(f) = t
        /\ f[2] \in opened[t].indexes /\ f = <<t, f[2]>>
        /\ hist'.apart = hist.apart \cup Overlaps(t, r) /\ hist'.refused = hist.refused
    BY <1>1, InsertEntryWork
  <1>3. PICK s : /\ RowTo(c, s) /\ s.pc = "i_entry" /\ s.t = t /\ s.row = r
                 /\ s.todo = client[c].todo \ {f} /\ s.did = client[c].did \cup {f}
    BY <1>1, InsertEntryWork
  <1>4. /\ t \in Table /\ r \in Row /\ OnRow(t, r) = {c}
        /\ \A i \in Filled(t) : ~Excused(<<t, i>>, r) =>
              i \in opened[t].indexes /\ Has(Data(t), r) /\ Entered(client[c], <<t, i>>, r)
    BY <1>1, <1>2, AtRow DEF RowPcs
  <1>5. RowTouched(c, s, t, r) /\ r # 0
    BY <1>1, <1>2, <1>3, <1>4, WorkTouches, NameAssumption
  <1>6. OnRow(t, r)' = {c} /\ client'[c] = s /\ Filled(t)' \subseteq Filled(t) /\ opened' = opened /\ MarksKept
    BY <1>3, <1>4, <1>5, TouchedRow DEF RowTouched
  <1>7. Has(f, r)' /\ \A g : g # f => (Has(g, r)' <=> Has(g, r))
    BY <1>2, RowWorkLog
  <1>8. f # Data(t)
    <2>1. f[2] \in Filled(t)
      BY <1>2 DEF Filled
    <2> QED BY <1>2, <1>4, <2>1, FilledIndexes
  <1>9. ASSUME NEW i \in Filled(t)', ~Excused(<<t, i>>, r)'
        PROVE  i \in opened'[t].indexes /\ Has(Data(t), r)' /\ Entered(s, <<t, i>>, r)'
    <2>1. ~Excused(<<t, i>>, r)
      BY <1>6, <1>9, ExcusedKept
    <2>2. i \in opened[t].indexes /\ Has(Data(t), r) /\ Entered(client[c], <<t, i>>, r)
      BY <1>4, <1>6, <1>9, <2>1
    <2>3. (Has(<<t, i>>, r) <=> <<t, i>> \in client[c].did) /\ <<t, i>> \in client[c].did \cup client[c].todo
      BY <1>2, <2>2 DEF Entered
    <2>4. (Has(<<t, i>>, r)' <=> <<t, i>> \in s.did) /\ <<t, i>> \in s.did \cup s.todo
      BY <1>3, <1>7, <2>3
    <2>5. Entered(s, <<t, i>>, r)'
      BY <1>3, <2>4 DEF Entered
    <2>6. Has(Data(t), r)'
      BY <1>7, <1>8, <2>2
    <2> QED BY <1>6, <2>2, <2>5, <2>6
  <1>10. RowRight(t, r)'
    BY <1>6, <1>9, RowTaken
  <1> QED BY <1>4, <1>5, <1>10, TouchedEntries

(* The entries made so far will be taken back. *)
LEMMA EntryFailsEntries ==
    ASSUME Struct, Entries, NEW c \in Client, EntryFails(c)
    PROVE  Entries'
  <1>1. PICK t, r : t = client[c].t /\ r = client[c].row
    OBVIOUS
  <1>2. RowPause /\ client[c].pc = "i_entry" /\ hist' = hist
    BY EntryFailsPause
  <1>3. PICK s : RowTo(c, s) /\ s.pc = "i_undo" /\ s.t = t /\ s.row = r /\ s.todo = client[c].did
    BY <1>1, EntryFailsPause
  <1>4. /\ t \in Table /\ r \in Row /\ OnRow(t, r) = {c}
        /\ \A i \in Filled(t) : ~Excused(<<t, i>>, r) =>
              i \in opened[t].indexes /\ Has(Data(t), r) /\ Entered(client[c], <<t, i>>, r)
    BY <1>1, <1>2, AtRow DEF RowPcs
  <1>5. RowTouched(c, s, t, r) /\ (\A f : (Has(f, r)' <=> Has(f, r))) /\ r # 0
    BY <1>1, <1>2, <1>3, <1>4, PauseTouches, NameAssumption
  <1>6. OnRow(t, r)' = {c} /\ client'[c] = s /\ Filled(t)' \subseteq Filled(t) /\ opened' = opened /\ MarksKept
    BY <1>3, <1>4, <1>5, TouchedRow DEF RowTouched
  <1>7. ASSUME NEW i \in Filled(t)', ~Excused(<<t, i>>, r)'
        PROVE  i \in opened'[t].indexes /\ Has(Data(t), r)' /\ Entered(s, <<t, i>>, r)'
    <2>1. ~Excused(<<t, i>>, r)
      BY <1>6, <1>7, ExcusedKept
    <2>2. i \in opened[t].indexes /\ Has(Data(t), r) /\ Entered(client[c], <<t, i>>, r)
      BY <1>4, <1>6, <1>7, <2>1
    <2>3. Has(<<t, i>>, r)' <=> <<t, i>> \in s.todo
      BY <1>2, <1>3, <1>5, <2>2 DEF Entered
    <2>4. Entered(s, <<t, i>>, r)'
      BY <1>3, <2>3 DEF Entered
    <2> QED BY <1>5, <1>6, <2>2, <2>4
  <1>8. RowRight(t, r)'
    BY <1>6, <1>7, RowTaken
  <1> QED BY <1>4, <1>5, <1>8, TouchedEntries

(* An entry is taken back, or is not there. *)
LEMMA EntryGone ==
    ASSUME Struct, Contents, Entries, NEW c \in Client, NEW f, UndoEntry(c, f) \/ DeleteEntry(c, f)
    PROVE  Entries'
  <1>1. PICK t, r : t = client[c].t /\ r = client[c].row
    OBVIOUS
  <1>2. client[c].pc \in {"i_undo", "d_entry"} /\ f \in client[c].todo
    BY DEF UndoEntry, DeleteEntry
  <1>3. /\ t \in Table /\ r \in Row /\ opened[t] # NoMeta /\ OnRow(t, r) = {c}
        /\ \A i \in Filled(t) : ~Excused(<<t, i>>, r) =>
              i \in opened[t].indexes /\ Has(Data(t), r) /\ Entered(client[c], <<t, i>>, r)
    BY <1>1, <1>2, AtRow DEF RowPcs
  <1>4. f = <<t, f[2]>> /\ f[2] \in opened[t].indexes /\ r # 0
    <2>1. client[c].todo \subseteq {t} \X opened[t].indexes
      BY <1>1, <1>2, RowWorker DEF RowPcs
    <2>2. f \in {t} \X opened[t].indexes
      BY <1>2, <2>1
    <2>3. r # 0
      BY <1>3, NameAssumption
    <2> QED BY <2>2, <2>3
  <1>5. f \in File /\ f # Data(t) /\ TableOf(f) = t
    <2>1. f[2] \in Filled(t)
      BY <1>4 DEF Filled
    <2>2. <<t, f[2]>> \in File /\ <<t, f[2]>> # Data(t) /\ TableOf(<<t, f[2]>>) = t
      BY <1>3, <2>1, FilledIndexes
    <2> QED BY <1>4, <2>2
  <1>6. PICK s : /\ RowTo(c, s) /\ s.pc = client[c].pc /\ s.t = t /\ s.row = r /\ s.todo = client[c].todo \ {f}
                 /\ RowTouched(c, s, t, r)
                 /\ \A i : ~Excused(<<t, i>>, r) /\ f = <<t, i>> => ~Has(f, r)'
                 /\ \A g : g # f => (Has(g, r)' <=> Has(g, r))
    <2>1. CASE UndoEntry(c, f) \/ (DeleteEntry(c, f) /\ r \in pool[f].img.rows)
      <3>1. /\ RowWork(f, "del", r) /\ hist'.apart = hist.apart \cup Overlaps(t, r) /\ hist'.refused = hist.refused
        BY <1>1, <2>1, UndoEntryWork
      <3>2. PICK s : RowTo(c, s) /\ s.pc = client[c].pc /\ s.t = t /\ s.row = r /\ s.todo = client[c].todo \ {f}
        BY <1>1, <2>1, UndoEntryWork
      <3>3. RowTouched(c, s, t, r)
        BY <1>1, <1>5, <3>1, <3>2, WorkTouches
      <3>4. ~Has(f, r)' /\ \A g : g # f => (Has(g, r)' <=> Has(g, r))
        BY <3>1, RowWorkLog
      <3> QED BY <3>2, <3>3, <3>4
    <2>2. CASE DeleteEntry(c, f) /\ r \notin pool[f].img.rows
      <3>1. RowPause /\ client[c].pc = "d_entry" /\ hist' = hist
        BY <1>1, <2>2, DeleteEntryPause
      <3>2. PICK s : RowTo(c, s) /\ s.pc = client[c].pc /\ s.t = t /\ s.row = r /\ s.todo = client[c].todo \ {f}
        BY <1>1, <2>2, DeleteEntryPause
      <3>3. RowTouched(c, s, t, r) /\ \A g : (Has(g, r)' <=> Has(g, r))
        BY <1>1, <3>1, <3>2, PauseTouches
      <3>4. ASSUME NEW i, ~Excused(<<t, i>>, r), f = <<t, i>> PROVE ~Has(f, r)
        <4>1. <<f, r>> \notin hist.lost
          BY <3>4, ExcusedParts
        <4>2. Open(f)
          BY <1>3, <1>4 DEF Struct, SchemaInv
        <4> QED BY <1>3, <1>5, <2>2, <4>1, <4>2, PoolHas
      <3> QED BY <3>2, <3>3, <3>4
    <2> QED BY <2>1, <2>2
  <1>7. OnRow(t, r)' = {c} /\ client'[c] = s /\ Filled(t)' \subseteq Filled(t) /\ opened' = opened /\ MarksKept
    BY <1>3, <1>4, <1>6, TouchedRow DEF RowTouched
  <1>8. ASSUME NEW i \in Filled(t)', ~Excused(<<t, i>>, r)'
        PROVE  i \in opened'[t].indexes /\ Has(Data(t), r)' /\ Entered(s, <<t, i>>, r)'
    <2>1. ~Excused(<<t, i>>, r)
      BY <1>7, <1>8, ExcusedKept
    <2>2. i \in opened[t].indexes /\ Has(Data(t), r) /\ Entered(client[c], <<t, i>>, r)
      BY <1>3, <1>7, <1>8, <2>1
    <2>3. Has(<<t, i>>, r) <=> <<t, i>> \in client[c].todo
      BY <1>2, <2>2 DEF Entered
    <2>4. Has(<<t, i>>, r)' <=> <<t, i>> \in s.todo
      BY <1>6, <2>1, <2>3
    <2>5. Entered(s, <<t, i>>, r)'
      BY <1>2, <1>6, <2>4 DEF Entered
    <2>6. Has(Data(t), r)'
      BY <1>5, <1>6, <2>2
    <2> QED BY <1>7, <2>2, <2>5, <2>6
  <1>9. RowRight(t, r)'
    BY <1>7, <1>8, RowTaken
  <1> QED BY <1>3, <1>6, <1>9, TouchedEntries

(* Entries that cannot be taken back stay, and are excused. *)
LEMMA SkipEntries ==
    ASSUME Struct, Entries, NEW c \in Client, client[c].pc \in {"i_undo", "d_entry"}, RowPause,
           NEW t, t = client[c].t, NEW r, r = client[c].row, NEW S, S \subseteq client[c].todo,
           hist'.apart = hist.apart \cup (S \X {r}), hist'.refused = hist.refused,
           NEW s, RowTo(c, s), s.pc = client[c].pc, s.t = t, s.row = r, s.todo = client[c].todo \ S
    PROVE  Entries'
  <1>1. /\ t \in Table /\ r \in Row /\ opened[t] # NoMeta /\ OnRow(t, r) = {c}
        /\ \A i \in Filled(t) : ~Excused(<<t, i>>, r) =>
              i \in opened[t].indexes /\ Has(Data(t), r) /\ Entered(client[c], <<t, i>>, r)
    BY AtRow DEF RowPcs
  <1>2. S \subseteq {t} \X Index /\ r # 0
    <2>1. client[c].todo \subseteq {t} \X opened[t].indexes
      BY RowWorker DEF RowPcs
    <2>2. opened[t].indexes \subseteq Index
      BY <1>1, Typed DEF Struct, Facts, IdFacts
    <2>3. r # 0
      BY <1>1, NameAssumption
    <2>4. S \subseteq {t} \X opened[t].indexes
      BY <2>1
    <2> QED BY <2>2, <2>3, <2>4
  <1>3. DataMarksKept
    <2> SUFFICES ASSUME NEW u \in Table, NEW q \in Row, <<Data(u), q>> \in hist'.apart PROVE <<Data(u), q>> \in hist.apart
      BY DEF DataMarksKept
    <2>1. Data(u) \notin S
      BY <1>2, DataFiles
    <2> QED BY <2>1
  <1>4. RowTouched(c, s, t, r) /\ \A f : (Has(f, r)' <=> Has(f, r))
    BY <1>3, FailTouches
  <1>5. OnRow(t, r)' = {c} /\ client'[c] = s /\ Filled(t)' \subseteq Filled(t) /\ opened' = opened /\ MarksKept
    BY <1>1, <1>2, <1>4, TouchedRow DEF RowTouched
  <1>6. ASSUME NEW i \in Filled(t)', ~Excused(<<t, i>>, r)'
        PROVE  i \in opened'[t].indexes /\ Has(Data(t), r)' /\ Entered(s, <<t, i>>, r)'
    <2>1. ~Excused(<<t, i>>, r)
      BY <1>5, <1>6, ExcusedKept
    <2>2. i \in opened[t].indexes /\ Has(Data(t), r) /\ Entered(client[c], <<t, i>>, r)
      BY <1>1, <1>5, <1>6, <2>1
    <2>3. <<t, i>> \notin S
      BY <1>6 DEF Excused
    <2>4. Has(<<t, i>>, r)' <=> <<t, i>> \in s.todo
      BY <1>4, <2>2, <2>3 DEF Entered
    <2>5. Entered(s, <<t, i>>, r)'
      BY <2>4 DEF Entered
    <2> QED BY <1>4, <1>5, <2>2, <2>5
  <1>7. RowRight(t, r)'
    BY <1>5, <1>6, RowTaken
  <1> QED BY <1>1, <1>4, <1>7, TouchedEntries

(* A record that cannot be removed stays, and is excused in all files. *)
LEMMA RecordFailsEntries ==
    ASSUME Struct, Entries, NEW c \in Client, RecordFails(c)
    PROVE  Entries'
  <1>1. PICK t, r : t = client[c].t /\ r = client[c].row
    OBVIOUS
  <1>2. /\ RowPause /\ client[c].pc \in {"i_undo", "d_entry"} /\ RowTo(c, Idle) /\ hist'.refused = hist.refused
        /\ hist'.apart = hist.apart \cup ({f \in File : TableOf(f) = t} \X {r})
    BY <1>1, RecordFailsPause
  <1>3. t \in Table /\ r \in Row /\ OnRow(t, r) = {c} /\ Idle.row = 0
    <2>1. client[c].pc \in RowPcs
      BY <1>2 DEF RowPcs
    <2>2. t \in Table /\ r \in Row /\ OnRow(t, r) = {c}
      BY <1>1, <2>1, AtRow
    <2> QED BY <2>2, IdleSession
  <1>4. Data(t) \in File /\ TableOf(Data(t)) = t /\ \A i \in Index : <<t, i>> \in File /\ TableOf(<<t, i>>) = t
    BY <1>3, DataFiles, IndexFiles
  <1>5. ApartInv'
    <2> SUFFICES ASSUME NEW u \in Table, NEW q \in Row, <<Data(u), q>> \in hist'.apart, NEW i \in Index
                 PROVE  <<<<u, i>>, q>> \in hist'.apart
      BY DEF ApartInv
    <2>1. CASE <<Data(u), q>> \in hist.apart
      BY <1>2, <2>1 DEF Entries, ApartInv
    <2>2. CASE <<Data(u), q>> \notin hist.apart
      <3>1. TableOf(Data(u)) = t /\ q = r
        BY <1>2, <2>2
      <3>2. u = t
        BY <3>1, DataFiles
      <3> QED BY <1>2, <1>4, <3>1, <3>2
    <2> QED BY <2>1, <2>2
  <1>6. RowTouched(c, Idle, t, r)
    BY <1>1, <1>2, <1>3, <1>5, FailTouches
  <1>7. OnRow(t, r)' = {} /\ Filled(t)' \subseteq Filled(t)
    BY <1>3, <1>6, TouchedRow
  <1>8. ASSUME NEW i \in Filled(t)' PROVE Excused(<<t, i>>, r)'
    <2>1. i \in Index
      BY <1>3, <1>7, <1>8, FilledIndexes
    <2> QED BY <1>2, <1>4, <2>1 DEF Excused
  <1>9. Excused(Data(t), r)'
    BY <1>2, <1>4 DEF Excused
  <1>10. RowRight(t, r)'
    BY <1>7, <1>8, <1>9, RowLeft
  <1> QED BY <1>3, <1>6, <1>10, TouchedEntries

(* The record goes after its entries. *)
LEMMA RecordGone ==
    ASSUME Struct, Entries, NEW c \in Client, UndoRecord(c) \/ DeleteRecord(c)
    PROVE  Entries'
  <1>1. PICK t, r : t = client[c].t /\ r = client[c].row
    OBVIOUS
  <1>2. /\ client[c].pc \in {"i_undo", "d_entry"} /\ client[c].todo = {} /\ t \in Table /\ r \in Row
        /\ RowWork(Data(t), "del", r) /\ RowTo(c, Idle)
        /\ hist'.refused \subseteq hist.refused \cup {<<t, r>>} /\ hist'.apart \subseteq hist.apart \cup Overlaps(t, r)
    BY <1>1, RecordWork
  <1>3. /\ OnRow(t, r) = {c}
        /\ \A i \in Filled(t) : ~Excused(<<t, i>>, r) =>
              i \in opened[t].indexes /\ Has(Data(t), r) /\ Entered(client[c], <<t, i>>, r)
    BY <1>1, <1>2, AtRow DEF RowPcs
  <1>4. TableOf(Data(t)) = t /\ Idle.row = 0
    BY <1>2, DataFiles, IdleSession
  <1>5. RowTouched(c, Idle, t, r)
    BY <1>1, <1>2, <1>4, WorkTouches
  <1>6. OnRow(t, r)' = {} /\ Filled(t)' \subseteq Filled(t) /\ MarksKept
    BY <1>2, <1>3, <1>4, <1>5, TouchedRow DEF RowTouched
  <1>7. ~Has(Data(t), r)' /\ \A g : g # Data(t) => (Has(g, r)' <=> Has(g, r))
    BY <1>2, RowWorkLog
  <1>8. ASSUME NEW i \in Filled(t)', ~Excused(<<t, i>>, r)' PROVE Has(<<t, i>>, r)' <=> Has(Data(t), r)'
    <2>1. ~Excused(<<t, i>>, r) /\ i \in Filled(t)
      BY <1>6, <1>8, ExcusedKept
    <2>2. Entered(client[c], <<t, i>>, r)
      BY <1>3, <2>1
    <2>3. ~Has(<<t, i>>, r)
      BY <1>2, <2>2 DEF Entered
    <2>4. <<t, i>> # Data(t)
      BY <1>2, <2>1, FilledIndexes
    <2> QED BY <1>7, <2>3, <2>4
  <1>9. RowRight(t, r)'
    BY <1>6, <1>7, <1>8, RowLeft
  <1> QED BY <1>2, <1>5, <1>9, TouchedEntries

(* All entries are made, and the row is no longer one that was refused. *)
LEMMA InsertEndEntries ==
    ASSUME Struct, Entries, NEW c \in Client, InsertEnd(c)
    PROVE  Entries'
  <1>1. PICK t, r : t = client[c].t /\ r = client[c].row
    OBVIOUS
  <1>2. /\ RowPause /\ client[c].pc = "i_entry" /\ client[c].todo = {}
        /\ hist'.apart = hist.apart /\ hist'.refused = hist.refused \ {<<t, r>>}
    BY <1>1, InsertEndPause
  <1>3. PICK s : RowTo(c, s) /\ s.row = 0
    BY <1>1, InsertEndPause
  <1>4. /\ t \in Table /\ r \in Row /\ OnRow(t, r) = {c}
        /\ \A i \in Filled(t) : ~Excused(<<t, i>>, r) =>
              i \in opened[t].indexes /\ Has(Data(t), r) /\ Entered(client[c], <<t, i>>, r)
    BY <1>1, <1>2, AtRow DEF RowPcs
  <1>5. RowTouched(c, s, t, r) /\ \A f : (Has(f, r)' <=> Has(f, r))
    BY <1>1, <1>2, <1>3, PauseTouches
  <1>6. OnRow(t, r)' = {} /\ Filled(t)' \subseteq Filled(t) /\ MarksKept
    BY <1>3, <1>4, <1>5, TouchedRow DEF RowTouched
  <1>7. ASSUME NEW i \in Filled(t)', ~Excused(<<t, i>>, r)' PROVE Has(<<t, i>>, r)' <=> Has(Data(t), r)'
    <2>1. ~Excused(<<t, i>>, r) /\ i \in Filled(t)
      BY <1>6, <1>7, ExcusedKept
    <2>2. Has(Data(t), r) /\ Entered(client[c], <<t, i>>, r)
      BY <1>4, <2>1
    <2>3. Has(<<t, i>>, r)
      BY <1>2, <2>2 DEF Entered
    <2> QED BY <1>5, <2>2, <2>3
  <1>8. <<t, r>> \notin hist'.refused
    BY <1>2
  <1>9. RowRight(t, r)'
    BY <1>6, <1>7, <1>8, RowLeft
  <1> QED BY <1>4, <1>5, <1>9, TouchedEntries

(* A DELETE begins with all entries of its row to take back. *)
LEMMA DeleteEntries ==
    ASSUME Struct, Contents, Entries, NEW c \in Client, NEW t \in Table, NEW r \in Row, Delete(c, t, r)
    PROVE  Entries'
  <1>1. /\ RowPause /\ OnRow(t, r) = {} /\ opened[t] # NoMeta /\ r \in pool[Data(t)].img.rows
        /\ hist'.apart = hist.apart \cup Overlaps(t, r) /\ hist'.refused = hist.refused
    BY DeletePause
  <1>2. PICK s : RowTo(c, s) /\ s.pc = "d_entry" /\ s.t = t /\ s.row = r /\ s.todo = {t} \X opened[t].indexes
    BY DeletePause
  <1>3. client[c].row = 0
    <2>1. client[c].pc = "idle"
      BY DEF Delete, Issue, Quiet
    <2> QED BY <2>1, NoRow DEF Struct, RowPcs
  <1>4. RowTouched(c, s, t, r) /\ (\A f : (Has(f, r)' <=> Has(f, r))) /\ r # 0
    BY <1>1, <1>2, <1>3, PauseTouches, NameAssumption
  <1>5. OnRow(t, r)' = {c} /\ client'[c] = s /\ Filled(t)' \subseteq Filled(t) /\ opened' = opened /\ MarksKept
    BY <1>1, <1>2, <1>4, TouchedRow DEF RowTouched
  <1>6. Data(t) \in File /\ Open(Data(t))
    BY <1>1, DataFiles DEF Struct, SchemaInv
  <1>7. ASSUME NEW i \in Filled(t)', ~Excused(<<t, i>>, r)'
        PROVE  i \in opened'[t].indexes /\ Has(Data(t), r)' /\ Entered(s, <<t, i>>, r)'
    <2>1. ~Excused(<<t, i>>, r) /\ i \in Filled(t)
      BY <1>5, <1>7, ExcusedKept
    <2>2. i \in opened[t].indexes
      BY <1>1, <1>7, <2>1, RowBegun
    <2>3. <<Data(t), r>> \notin hist.lost
      BY <2>1, ExcusedParts
    <2>4. Has(Data(t), r)
      BY <1>1, <1>6, <2>3, PoolHas
    <2>5. Has(<<t, i>>, r)
      BY <1>1, <2>1, <2>4 DEF Entries, RowRight, EntryRight
    <2>6. <<t, i>> \in s.todo
      BY <1>2, <2>2
    <2>7. Has(<<t, i>>, r)'
      BY <1>4, <2>5
    <2>8. Entered(s, <<t, i>>, r)'
      BY <1>2, <2>6, <2>7 DEF Entered
    <2> QED BY <1>4, <1>5, <2>2, <2>4, <2>8
  <1>8. RowRight(t, r)'
    BY <1>5, <1>7, RowTaken
  <1> QED BY <1>4, <1>8, TouchedEntries

(* A LOAD DATA between two lines works on no row. *)
LEMMA LoadEntries ==
    ASSUME Struct, Entries, NEW c \in Client, client[c].row = 0, RowPause, hist' = hist, NEW s, RowTo(c, s), s.row = 0
    PROVE  Entries'
  <1>1. UNCHANGED <<meta, opened, log, hist>>
    BY DEF RowPause, dirVars
  <1>2. client'[c] = s /\ \A a \in Client : a # c => client'[a] = client[a]
    BY OtherSessions DEF Struct, Actor
  <1>3. s.pc # "ci_push"
    BY DEF RowTo, RowSession, RowPcs
  <1>4. /\ \A a \in Client : client'[a] = client[a] \/ (client[a].row = 0 /\ client'[a].row = 0)
        /\ \A a \in Client : client'[a].pc = "ci_push" => client'[a] = client[a]
    BY <1>2, <1>3
  <1> QED BY <1>1, <1>4, SameEntries

LEMMA RowStepEntries ==
    ASSUME Struct, Contents, Entries, NEW c \in Client, RowStep(c)
    PROVE  Entries'
  <1>1. client[c].pc \in {"idle", "l_line"} => client[c].row = 0
    BY NoRow DEF Struct, RowPcs
  <1>2. ASSUME NEW t \in Table, NEW r \in Row, Insert(c, t, r) PROVE Entries'
    <2>1. client[c].pc = "idle"
      BY <1>2 DEF Insert, Issue, Quiet
    <2>2. client[c].row = 0
      BY <1>1, <2>1
    <2>3. RowWork(Data(t), "ins", r) /\ Free(t, r) /\ hist'.apart = hist.apart \cup Overlaps(t, r) /\ hist'.refused = hist.refused
      BY <1>2, InsertWork
    <2>4. PICK s : RowTo(c, s) /\ s.pc = "i_begin" /\ s.t = t /\ s.row = r
      BY <1>2, InsertWork
    <2> QED BY <2>2, <2>3, <2>4, NewRecordEntries
  <1>3. ASSUME NEW r \in Row, LoadLine(c, r) PROVE Entries'
    <2>1. PICK t : t = client[c].t
      OBVIOUS
    <2>2. client[c].pc = "l_line" /\ RowWork(Data(t), "ins", r) /\ Free(t, r)
          /\ hist'.apart = hist.apart \cup Overlaps(t, r) /\ hist'.refused = hist.refused
      BY <1>3, <2>1, LoadLineWork
    <2>3. PICK s : RowTo(c, s) /\ s.pc = "i_begin" /\ s.t = t /\ s.row = r
      BY <1>3, <2>1, LoadLineWork
    <2>4. client[c].row = 0 /\ t \in Table
      BY <1>1, <2>1, <2>2, RowWorker
    <2> QED BY <2>2, <2>3, <2>4, NewRecordEntries
  <1>4. ASSUME NEW t \in Table, NEW lines \in Seq({"good", "bad"}), Load(c, t, lines) PROVE Entries'
    <2>1. client[c].pc = "idle"
      BY <1>4 DEF Load, Issue, Quiet
    <2>2. PICK s : RowTo(c, s) /\ s.pc = "l_line" /\ RowPause /\ hist' = hist
      BY <1>4, LoadPause
    <2>3. client[c].row = 0 /\ s.row = 0
      BY <1>1, <2>1, <2>2 DEF RowTo, RowSession, RowPcs
    <2> QED BY <2>2, <2>3, LoadEntries
  <1>5. ASSUME LoadEnd(c) PROVE Entries'
    <2>1. RowPause /\ client[c].pc = "l_line" /\ RowTo(c, Idle) /\ hist' = hist
      BY <1>5, LoadEndPause
    <2>2. client[c].row = 0 /\ Idle.row = 0
      BY <1>1, <2>1, IdleSession
    <2> QED BY <2>1, <2>2, LoadEntries
  <1>6. ASSUME NEW t \in Table, NEW r \in Row, Delete(c, t, r) PROVE Entries'
    BY <1>6, DeleteEntries
  <1>7. ASSUME BeginEntries(c, "i_begin", "i_entry") PROVE Entries'
    BY <1>7, BeginEntriesEntries
  <1>8. ASSUME NEW f, InsertEntry(c, f) PROVE Entries'
    BY <1>8, InsertEntryEntries
  <1>9. ASSUME NEW f, UndoEntry(c, f) \/ DeleteEntry(c, f) PROVE Entries'
    BY <1>9, EntryGone
  <1>10. ASSUME InsertEnd(c) PROVE Entries'
    BY <1>10, InsertEndEntries
  <1>11. ASSUME EntryFails(c) PROVE Entries'
    BY <1>11, EntryFailsEntries
  <1>12. ASSUME UndoRecord(c) \/ DeleteRecord(c) PROVE Entries'
    BY <1>12, RecordGone
  <1>13. ASSUME UndoFails(c) PROVE Entries'
    <2>1. /\ RowPause /\ client[c].pc = "i_undo" /\ hist'.refused = hist.refused
          /\ hist'.apart = hist.apart \cup (client[c].todo \X {client[c].row})
      BY <1>13, UndoFailsPause
    <2>2. PICK s : RowTo(c, s) /\ s.pc = "i_undo" /\ s.t = client[c].t /\ s.row = client[c].row /\ s.todo = {}
      BY <1>13, UndoFailsPause
    <2>3. s.todo = client[c].todo \ client[c].todo /\ client[c].todo \subseteq client[c].todo /\ s.pc = client[c].pc
      BY <2>1, <2>2
    <2> QED BY <2>1, <2>2, <2>3, SkipEntries
  <1>14. ASSUME NEW f, DeleteEntryFails(c, f) PROVE Entries'
    <2>1. /\ RowPause /\ client[c].pc = "d_entry" /\ f \in client[c].todo /\ hist'.refused = hist.refused
          /\ hist'.apart = hist.apart \cup ({f} \X {client[c].row})
      BY <1>14, DeleteEntryFailsPause
    <2>2. PICK s : RowTo(c, s) /\ s.pc = "d_entry" /\ s.t = client[c].t /\ s.row = client[c].row /\ s.todo = client[c].todo \ {f}
      BY <1>14, DeleteEntryFailsPause
    <2>3. {f} \subseteq client[c].todo /\ s.pc = client[c].pc
      BY <2>1, <2>2
    <2> QED BY <2>1, <2>2, <2>3, SkipEntries
  <1>15. ASSUME RecordFails(c) PROVE Entries'
    BY <1>15, RecordFailsEntries
  <1> QED BY <1>2, <1>3, <1>4, <1>5, <1>6, <1>7, <1>8, <1>9, <1>10, <1>11, <1>12, <1>13, <1>14, <1>15, Zenon DEF RowStep

LEMMA EntriesNext ==
    ASSUME Struct, WaitInv, Contents, Entries, [Next]_vars
    PROVE  Entries'
  <1>1. ASSUME NEW c \in Client, RowStep(c) PROVE Entries'
    BY <1>1, RowStepEntries
  <1>2. ASSUME NEW c \in Client, SchemaAction(c) PROVE Entries'
    <2>1. Creates(c) \/ Refused(c)
      BY <1>2, SchemaActions
    <2>2. CASE ScanRows(c)
      BY <2>2, ScanRowsEntries
    <2>3. CASE Creates(c) /\ ~ScanRows(c)
      BY <2>3, CreatesEntries
    <2>4. CASE Refused(c)
      BY <2>4, RefusedEntries
    <2> QED BY <2>1, <2>2, <2>3, <2>4
  <1>3. ASSUME NEW a \in Actor, SyncStep(a) PROVE Entries'
    BY <1>3, SyncEntries
  <1>4. ASSUME FlushLog \/ DblwrFull \/ (\E f \in File : Evict(f)) \/ Destroy PROVE Entries'
    BY <1>4, QuietSteps
  <1>d. ASSUME NEW f \in File, NEW rows \in SUBSET Row, Drop(f, rows) PROVE Entries'
    BY <1>d, DropEntries
  <1>5. ASSUME Close PROVE Entries'
    BY <1>5, CloseEntries
  <1>6. ASSUME Crash PROVE Entries'
    BY <1>6, CrashEntries
  <1>7. ASSUME UNCHANGED <<dirVars, opened, pool, client, hist>> PROVE Entries'
    <2>1. UNCHANGED <<meta, opened, log, client, hist>>
      BY <1>7 DEF dirVars
    <2> QED BY <2>1, SameEntries
  <1>8. ASSUME Start PROVE Entries'
    <2>1. CASE InitSucceeds
      BY <1>8, <2>1, StartStarted, StartEntries
    <2>2. CASE ~InitSucceeds
      <3>1. UNCHANGED <<dirVars, opened, pool, client, hist>>
        BY <1>8, <2>2, StartFails
      <3> QED BY <1>7, <3>1
    <2> QED BY <2>1, <2>2
  <1>9. ASSUME UNCHANGED vars PROVE Entries'
    <2>1. UNCHANGED <<dirVars, opened, pool, client, hist>>
      BY <1>9 DEF vars, memVars
    <2> QED BY <1>7, <2>1
  <1>10. TypeOK
    BY DEF Struct
  <1> QED BY <1>1, <1>2, <1>3, <1>4, <1>d, <1>5, <1>6, <1>8, <1>9, <1>10, NextSteps, Zenon

(* The inductive invariant holds in every state. *)
THEOREM CatalogInductive == Spec => []IInv
  <1>1. Init => IInv
    <2>1. Init => LateInv
      BY DEF Init, LateInv
    <2> QED BY <2>1, InitStruct, InitContents, InitEntries DEF IInv
  <1>2. IInv /\ [Next]_vars => IInv'
    BY StructStep, LateStep, ContentsStep, EntriesNext DEF IInv
  <1> QED BY <1>1, <1>2, PTL DEF Spec

(* Between statements an index has an entry for exactly the rows of its    *)
(* table, and a refused INSERT has left neither its record nor an entry,   *)
(* for any interleaving of the statements with CREATE INDEX, the syncs,    *)
(* the restarts and the crashes, but for the rows IndexMatches leaves out. *)
THEOREM IndexesCorrect == Spec => []IndexesExact
  <1>1. IInv => IndexesExact
    <2> SUFFICES ASSUME Struct, Contents, Entries PROVE IndexesExact
      BY DEF IInv
    <2>1. ASSUME NEW t \in Table, NEW i \in opened[t].indexes
          PROVE  <<t, i>> \in File /\ Data(t) \in File /\ Open(<<t, i>>) /\ Open(Data(t)) /\ i \in Filled(t) /\ i \in Index
      <3>1. i \in Filled(t)
        BY DEF Filled
      <3>2. opened[t] # NoMeta
        BY DEF NoMeta
      <3> QED BY <3>1, <3>2, FilledIndexes, DataFiles DEF Struct, SchemaInv
    <2>2. ASSUME NEW t \in Table, NEW i \in opened[t].indexes, NEW r \in Row, OnRow(t, r) = {}, ~Excused(<<t, i>>, r)
          PROVE  (r \in pool[<<t, i>>].img.rows <=> r \in pool[Data(t)].img.rows)
      <3>1. Has(<<t, i>>, r) <=> Has(Data(t), r)
        BY <2>1, <2>2 DEF Entries, RowRight, EntryRight
      <3>2. <<<<t, i>>, r>> \notin hist.lost /\ <<Data(t), r>> \notin hist.lost
        BY <2>2, ExcusedParts
      <3>3. r \in pool[<<t, i>>].img.rows <=> Has(<<t, i>>, r)
        BY <2>1, <3>2, PoolHas
      <3>4. r \in pool[Data(t)].img.rows <=> Has(Data(t), r)
        BY <2>1, <3>2, PoolHas
      <3> QED BY <3>1, <3>3, <3>4
    <2>3. ASSUME NEW t \in Table, NEW r \in Row, <<t, r>> \in hist.refused, OnRow(t, r) = {},
                 Open(Data(t)), ~Excused(Data(t), r)
          PROVE  r \notin pool[Data(t)].img.rows
      <3>1. ~Has(Data(t), r)
        BY <2>3 DEF Entries, RowRight
      <3>2. Data(t) \in File /\ <<Data(t), r>> \notin hist.lost
        BY <2>3, DataFiles DEF Excused
      <3> QED BY <2>3, <3>1, <3>2, PoolHas
    <2>4. ASSUME NEW t \in Table, NEW i \in opened[t].indexes, NEW r \in Row, <<t, r>> \in hist.refused, OnRow(t, r) = {},
                 ~Excused(<<t, i>>, r)
          PROVE  r \notin pool[<<t, i>>].img.rows
      <3>1. ~Excused(Data(t), r)
        <4>1. <<Data(t), r>> \notin hist.apart
          BY <2>1, <2>4, ExcusedParts DEF Entries, ApartInv
        <4>2. <<Data(t), r>> \notin hist.lost /\ TableOf(Data(t)) = t
          BY <2>4, ExcusedParts, DataFiles
        <4> QED BY <4>1, <4>2 DEF Excused
      <3> QED BY <2>1, <2>2, <2>3, <2>4, <3>1
    <2>5. IndexMatches
      BY <2>2 DEF IndexMatches
    <2>6. RefusedInsertGone
      <3> SUFFICES ASSUME NEW t \in Table, NEW r \in Row, <<t, r>> \in hist.refused, OnRow(t, r) = {},
                          NEW f \in FilesOf(t, opened[t].indexes), Open(f), ~Excused(f, r)
                   PROVE  r \notin pool[f].img.rows
        BY DEF RefusedInsertGone
      <3>1. CASE f = Data(t)
        BY <2>3, <3>1
      <3>2. CASE f # Data(t)
        <4>1. PICK i \in opened[t].indexes : f = <<t, i>>
          BY <3>2 DEF FilesOf
        <4> QED BY <2>4, <4>1
      <3> QED BY <3>1, <3>2
    <2> QED BY <2>5, <2>6 DEF IndexesExact
  <1> QED BY <1>1, CatalogInductive, PTL
=============================================================================
