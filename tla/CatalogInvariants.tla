------------------------- MODULE CatalogInvariants --------------------------
(***************************************************************************)
(* The inductive invariant of Catalog, and names for what its steps have   *)
(* in common; CatalogProofs proves with them.                              *)
(*                                                                         *)
(* The properties speak of the open database; a crash closes it.  IInv     *)
(* therefore says of the directory alone what a start will make of it, and *)
(* of every session what it has already done to the directory.             *)
(***************************************************************************)
EXTENDS Catalog

-----------------------------------------------------------------------------
(* Sessions. *)

(* The file a schema change makes. *)
Target(a) == IF client[a].i = "" THEN Data(client[a].t) ELSE <<client[a].t, client[a].i>>

(* One schema change or sync at a time, none of it while the server is     *)
(* down, and what each session works on.                                   *)
ActorInv ==
    /\ status # "up" =>
          /\ \A a \in Actor : client[a] = Idle
          /\ \A t \in Table : opened[t] = NoMeta
          /\ \A f \in File : pool[f] = Closed
    /\ \A a, b \in Actor : Ddl(a) /\ Ddl(b) => a = b
    /\ client[Main].pc \in {"idle", "close"} \cup SyncPcs
    /\ client[Main].pc # "idle" => \A c \in Client : client[c].pc = "idle"
    /\ \A c \in Client :
          /\ client[c].pc \in {"idle", "l_line"} \cup TablePcs \cup IndexPcs \cup SyncPcs \cup RowPcs
          /\ client[c].pc # "idle" => client[c].t \in Table
          /\ client[c].pc \in TablePcs => client[c].i = ""
          /\ client[c].pc \in IndexPcs => client[c].i \in Index
          /\ client[c].row # 0 <=> client[c].pc \in RowPcs

Complete(f) == file[f].id > 0
RecordsOf(f) == {n \in 1 .. Len(log) : log[n].file = f}

(* What a CREATE TABLE has done so far. *)
TableMade(c) ==
    LET s == client[c]
        f == Data(s.t) IN
    s.pc \in TablePcs =>
        /\ opened[s.t] = NoMeta /\ f \in hist.unfinished
        /\ s.pc = "ct_init" => meta[s.t] = EmptyMeta /\ file[f] = NoFile
        /\ s.pc \in {"ct_data", "ct_header", "ct_open"} => meta[s.t] = [id |-> s.id, indexes |-> {}]
        /\ s.pc = "ct_data" => file[f] = NoFile
        /\ s.pc = "ct_header" => file[f] = EmptyFile
        /\ s.pc = "ct_open" => Complete(f) /\ file[f].img = NewImage /\ RecordsOf(f) = {}

(* What a CREATE INDEX has done so far. *)
IndexMade(c) ==
    LET s == client[c]
        f == <<s.t, s.i>> IN
    s.pc \in IndexPcs =>
        /\ opened[s.t] # NoMeta /\ f \in hist.unfinished /\ s.i \notin meta[s.t].indexes
        /\ s.i \in opened[s.t].indexes <=> s.pc = "ci_rename"
        /\ s.pc = "ci_header" => file[f] = EmptyFile
        /\ s.pc = "ci_create" =>
              Complete(f) /\ file[f].img = NewImage /\ RecordsOf(f) = {} /\ ~Open(f)
        /\ s.pc \in {"ci_sync", "ci_scan"} =>
              Open(f) /\ pool[f].img.rows = {} /\ \A n \in RecordsOf(f) : log[n].op = "alloc" /\ log[n].row = 0
        /\ s.pc \in {"ci_push", "ci_rename"} => Open(f)
        /\ s.pc \in {"ci_sync", "ci_scan", "ci_push", "ci_rename"} => \A n \in RecordsOf(f) : n > ckpt

(* Other statements. *)
WorkMade(c) ==
    LET s == client[c] IN
    /\ s.pc \in RowPcs \cup SyncPcs \cup {"l_line"} => opened[s.t] # NoMeta
    /\ s.pc \in RowPcs => s.todo \cup s.did \subseteq {s.t} \X opened[s.t].indexes
    /\ s.pc = "l_line" => s.todo = {} /\ s.did = {}
    /\ s.pc = "i_begin" => s.did = {}
    /\ s.pc = "i_entry" => s.todo \cap s.did = {}
    /\ s.pc \in SyncPcs /\ s.i # "" => s.i \in meta[s.t].indexes

WorkInv == \A c \in Client : TableMade(c) /\ IndexMade(c) /\ WorkMade(c)

(* A sync does not take the check point back. *)
WaitInv == \A a \in Actor : client[a].pc = "s_wait" => ckpt <= client[a].lsn

-----------------------------------------------------------------------------
(* The directory. *)

(* The opened tables are those of the meta files, and each has its files.  *)
SchemaInv ==
    /\ \A t \in Table :
          /\ opened[t] # NoMeta =>
                /\ opened[t].id = meta[t].id /\ opened[t].id \in Nat
                /\ meta[t].indexes \subseteq opened[t].indexes
                /\ Open(Data(t)) /\ \A i \in opened[t].indexes : Open(<<t, i>>)
          /\ Open(Data(t)) => opened[t] # NoMeta
          /\ meta[t] = NoMeta => file[Data(t)] = NoFile
          /\ status = "up" /\ opened[t] = NoMeta => meta[t].indexes = {}
          /\ \A i \in meta[t].indexes : Complete(<<t, i>>)
    /\ \A f \in File : Open(f) => Complete(f) /\ pool[f].id = file[f].id

(* The session is about to open file f for the first time. *)
Opening(f) == \E c \in Client : client[c].pc \in {"ct_open", "ci_create"} /\ Target(c) = f

(* Files that are open, or that a start would open.  A file that was left  *)
(* behind by a cut CREATE INDEX is not, and its id may be given again.     *)
Live(f) == Complete(f) /\ (Open(f) \/ f \in ToOpen \/ Opening(f))

IdInv ==
    /\ \A f, g \in File : Live(f) /\ Live(g) /\ f # g => file[f].id # file[g].id
    /\ \A n \in 1 .. Len(log) : file[log[n].file].id = log[n].id
    /\ \A f \in File, n \in Replayed : Live(f) /\ file[f].id = log[n].id => log[n].file = f
    /\ \A p \in 1 .. MaxPool : dblwr[p] # NoImage =>
          \E f \in File : file[f].id = p /\ f \in ToOpen \cup hist.unfinished /\ (status = "up" => Open(f))
    /\ status = "up" =>
          /\ \A f \in File : Live(f) => file[f].id < nextPool
          /\ \A n \in Replayed : log[n].id < nextPool
          /\ \A f \in ToOpen : Complete(f) => Open(f) \/ Opening(f)

TableIdInv ==
    /\ \A t, u \in Table : t # u /\ meta[t].id \in Nat => meta[t].id # meta[u].id
    /\ status = "up" => \A t \in Table : meta[t].id < nextTable
    /\ \A c \in Client : client[c].pc \in {"ct_meta", "ct_init"} =>
          client[c].id < nextTable /\ \A t \in Table : meta[t].id # client[c].id

(* What is half done is unfinished. *)
UnfinishedInv ==
    /\ \A t \in Table : meta[t] = EmptyMeta => Data(t) \in hist.unfinished
    /\ \A f \in ToOpen : Complete(f) \/ f \in hist.unfinished
    /\ \A f \in File : Live(f) => f \in ToOpen \/ f \in hist.unfinished
    /\ \A n \in 1 .. Len(log) : log[n].file \in ToOpen \/ log[n].file \in hist.unfinished

(* What was answered is in the files. *)
AnsweredInv ==
    \A x \in hist.answered :
        LET t == TableOf(x.file) IN
        /\ meta[t].id = x.table /\ file[x.file].id = x.pool
        /\ x.file # Data(t) => x.file[2] \in meta[t].indexes
        /\ status = "up" => opened[t] # NoMeta

-----------------------------------------------------------------------------
(* The contents. *)

(* What the log up to an lsn says of row r in file f. *)
HistoryTo(f, r, upto) == {n \in History(f, r) : n <= upto}
Holds(f, r, upto) ==
    \E n \in HistoryTo(f, r, upto) : log[n].op = "ins" /\ \A m \in HistoryTo(f, r, upto) : m <= n

(* An open file has what the whole log says, and its lsn is behind nothing *)
(* of that; on disk it has what the log says up to its lsn.                *)
PoolRight(f, r) == /\ r \in pool[f].img.rows <=> Holds(f, r, Len(log))
                   /\ \A n \in History(f, r) : n <= pool[f].img.lsn
DiskRight(f, r) == r \in Loaded(f).rows <=> Holds(f, r, Loaded(f).lsn)

(* What was done to the row up to an lsn is on disk. *)
Reached(f, r, upto) == \A n \in History(f, r) : n <= upto => n <= Loaded(f).lsn

(* The check point is not beyond what is on disk, but for late changes. *)
Right(f, r) ==
    /\ Open(f) => PoolRight(f, r)
    /\ Live(f) => DiskRight(f, r)
    /\ f \in ToOpen /\ Complete(f) /\ <<f, r>> \notin hist.late => Reached(f, r, ckpt)

ImageInv == \A f \in File, r \in Row : <<f, r>> \notin hist.lost => Right(f, r)

(* How far a sync has brought file f to the disk. *)
Wanted(a, f) ==
    IF client[a].pc = "s_lsn" \/ (client[a].pc = "s_files" /\ f \notin client[a].todo) THEN Len(log)
    ELSE IF client[a].pc = "s_wait" THEN client[a].lsn ELSE 0

SyncInv ==
    \A a \in Actor :
        /\ client[a].pc = "s_wait" => client[a].lsn <= Len(log)
        /\ \A f \in File, r \in Row :
              f \in ToOpen /\ Complete(f) /\ <<f, r>> \notin hist.lost \cup hist.late => Reached(f, r, Wanted(a, f))

(* A late change is made up for by a later flush, or lost with the crash. *)
LateInv == status # "up" => hist.late = {}

-----------------------------------------------------------------------------
(* Tables and indexes. *)

Has(f, r) == Holds(f, r, Len(log))

(* The indexes of t, and the one that has been filled but not entered yet. *)
Filled(t) == opened[t].indexes \cup meta[t].indexes \cup {client[a].i : a \in Creating(t)}

(* What a session that works on row r has done so far to index file f. *)
Entered(s, f, r) ==
    /\ s.pc = "i_begin" => ~Has(f, r)
    /\ s.pc = "i_entry" => (Has(f, r) <=> f \in s.did) /\ f \in s.did \cup s.todo
    /\ s.pc \in {"i_undo", "d_entry"} => (Has(f, r) <=> f \in s.todo)

(* Index i of t has an entry for row r if the row is there, but for what a *)
(* session is just doing; no session works on a row that an index being    *)
(* created could miss, unless the row is excused.                          *)
EntryRight(t, r, i) ==
    ~Excused(<<t, i>>, r) =>
        /\ OnRow(t, r) = {} => (Has(<<t, i>>, r) <=> Has(Data(t), r))
        /\ \A a \in OnRow(t, r) :
              i \in opened[t].indexes /\ Has(Data(t), r) /\ Entered(client[a], <<t, i>>, r)

RowRight(t, r) ==
    /\ \A a, b \in OnRow(t, r) : a = b
    /\ \A i \in Filled(t) : EntryRight(t, r, i)
    /\ <<t, r>> \in hist.refused /\ OnRow(t, r) = {} /\ ~Excused(Data(t), r) => ~Has(Data(t), r)

(* A crash, or a record that could not be removed, excuses a row in all    *)
(* files of its table.                                                     *)
ApartInv ==
    \A t \in Table, r \in Row : <<Data(t), r>> \in hist.apart => \A i \in Index : <<<<t, i>>, r>> \in hist.apart

-----------------------------------------------------------------------------
(* The inductive invariant: the catalog, the contents of the files, and    *)
(* the rows with their entries.                                            *)
Struct ==
    /\ TypeOK /\ ActorInv /\ WorkInv
    /\ SchemaInv /\ IdInv /\ TableIdInv /\ UnfinishedInv /\ AnsweredInv

Contents == ImageInv /\ SyncInv

Entries == (\A t \in Table, r \in Row : RowRight(t, r)) /\ ApartInv

IInv == Struct /\ WaitInv /\ LateInv /\ Contents /\ Entries

-----------------------------------------------------------------------------
(* What the types say of the pieces, what kinds of steps have in common,   *)
(* and what a step leaves as it is.                                        *)

(* Ids say what a file, a pool or a meta file is. *)
IdFacts ==
    /\ \A f \in File :
          /\ file[f].id \in Int /\ pool[f].id \in Int
          /\ Complete(f) <=> file[f].id \in 1 .. MaxPool
          /\ ~Complete(f) => file[f] \in {NoFile, EmptyFile}
          /\ file[f] = NoFile <=> file[f].id = -2
          /\ file[f] = EmptyFile <=> file[f].id = -1
          /\ Open(f) <=> pool[f].id # 0
          /\ Open(f) => pool[f].id \in 1 .. MaxPool
    /\ \A t \in Table :
          /\ meta[t].id \in Int /\ opened[t].id \in Int
          /\ meta[t].indexes \subseteq Index /\ opened[t].indexes \subseteq Index
          /\ meta[t] = NoMeta <=> meta[t].id = -2
          /\ meta[t] = EmptyMeta <=> meta[t].id = -1
          /\ meta[t].id \in Nat <=> meta[t].id >= 0
          /\ opened[t] = NoMeta <=> opened[t].id = -2
          /\ meta[t].id \notin Nat => meta[t].indexes = {}
          /\ opened[t].id \notin Nat => opened[t].indexes = {}

(* The files a start would open. *)
ToOpenFacts ==
    /\ ToOpen \subseteq File
    /\ \A t \in Table : Data(t) \in ToOpen <=> meta[t] # NoMeta
    /\ \A t \in Table, i \in Index : <<t, i>> \in ToOpen <=> i \in meta[t].indexes
    /\ \A f \in File : f \in ToOpen <=> \/ f = Data(TableOf(f)) /\ meta[TableOf(f)] # NoMeta
                                        \/ f[2] \in meta[TableOf(f)].indexes

(* What the type invariant says of the pieces. *)
RangeFacts ==
    /\ Len(log) \in Nat /\ flushed \in Nat /\ ckpt \in Nat
    /\ ckpt <= flushed /\ flushed <= Len(log)
    /\ \A n : n \in Replayed <=> n \in 1 .. Len(log) /\ n >= ckpt

RecordFacts ==
    \A n \in 1 .. Len(log) :
        /\ log[n] \in Records /\ log[n].file \in File /\ log[n].id \in 1 .. MaxPool
        /\ log[n].op \in {"ins", "del", "alloc"} /\ log[n].row \in Row \cup {0}

Facts == IdFacts /\ ToOpenFacts /\ RangeFacts /\ RecordFacts

(* No file is completed, a file that is live was live, what is open stays  *)
(* open, and what was accounted for stays accounted for.                   *)
DirectoryKept ==
    /\ status' = status /\ nextPool' = nextPool /\ ckpt' >= ckpt
    /\ \A f \in File :
          /\ Complete(f)' <=> Complete(f)
          /\ Complete(f) => file'[f].id = file[f].id
          /\ Live(f)' => Live(f)
          /\ Open(f) => Open(f)'
          /\ Opening(f) => Opening(f)' \/ Open(f)'
          /\ f \in ToOpen \cup hist.unfinished => f \in ToOpen' \cup hist'.unfinished
          /\ f \in ToOpen' => f \in ToOpen \/ Open(f) \/ (~Complete(f) /\ f \in hist'.unfinished)
    /\ \A f \in hist.unfinished : f \in hist'.unfinished \/ (Complete(f) /\ f \in ToOpen')
    /\ \A t \in Table : meta'[t] = EmptyMeta => Data(t) \in hist'.unfinished

(* The log grows by records of live files. *)
LogKept ==
    /\ Len(log') >= Len(log)
    /\ \A n \in 1 .. Len(log) : log'[n] = log[n]
    /\ \A n \in 1 .. Len(log') : n > Len(log) =>
          Live(log'[n].file) /\ log'[n].id = file[log'[n].file].id

(* Only pages of open files get into the double write buffer. *)
DblwrKept ==
    \A p \in 1 .. MaxPool : dblwr'[p] # NoImage => dblwr[p] # NoImage \/ \E f \in File : Open(f) /\ file[f].id = p

(* What any session has done so far. *)
Made(c) == TableMade(c) /\ IndexMade(c) /\ WorkMade(c)

(* Steps that keep the names: the tables, their files and the ids.  Only   *)
(* files of G change, and only in the log and in the pool.                 *)
NamesKept(G) ==
    /\ meta' = meta /\ opened' = opened /\ status' = status /\ nextPool' = nextPool /\ ckpt' = ckpt
    /\ nextTable' >= nextTable
    /\ \A f \in File :
          /\ file'[f].id = file[f].id /\ pool'[f].id = pool[f].id
          /\ ~Open(f) => file'[f] = file[f]
          /\ f \notin G => pool'[f] = pool[f]
    /\ Len(log') >= Len(log)
    /\ \A n \in 1 .. Len(log) : log'[n] = log[n]
    /\ \A n \in 1 .. Len(log') : n > Len(log) => log'[n].file \in G /\ log'[n].id = pool[log'[n].file].id
    /\ \A p \in 1 .. MaxPool : dblwr'[p] # NoImage => dblwr[p] # NoImage \/ \E f \in File : Open(f) /\ pool[f].id = p
    /\ hist'.answered = hist.answered /\ hist.unfinished \subseteq hist'.unfinished

(* A session that is about to open its file stays there, and no other gets there. *)
OpeningKept ==
    \A c \in Client : \/ client'[c] = client[c]
                      \/ /\ client[c].pc \notin {"ct_open", "ci_create"}
                         /\ client'[c].pc \notin {"ct_open", "ci_create"}

(* A session that works on rows, or has just begun or ended. *)
RowSession(s) ==
    /\ s \in Sessions /\ s.pc \in RowPcs \cup {"l_line", "idle"}
    /\ s.pc # "idle" => s.t \in Table /\ opened[s.t] # NoMeta
    /\ s.row # 0 <=> s.pc \in RowPcs
    /\ s.pc \in RowPcs => s.todo \cup s.did \subseteq {s.t} \X opened[s.t].indexes
    /\ s.pc = "l_line" => s.todo = {} /\ s.did = {}
    /\ s.pc = "i_begin" => s.did = {}
    /\ s.pc = "i_entry" => s.todo \cap s.did = {}

(* The row statements, in what they share. *)
RowWork(f, op, r) ==
    /\ f \in Synced(opened) /\ op \in {"ins", "del"} /\ r \in Row
    /\ Change(f, op, r)
    /\ hist' \in Remembered /\ hist'.answered = hist.answered /\ hist'.unfinished = hist.unfinished
    /\ hist'.stale = hist.stale /\ hist'.lost = hist.lost /\ hist'.late = hist.late \cup Late(f, r) /\ hist.apart \subseteq hist'.apart
    /\ UNCHANGED <<scen, crashes, meta, file, dblwr, ckpt, flushed, status, opened, nextTable, nextPool>>
    /\ quota' \in [Client -> Nat]

(* The session goes on with a row statement. *)
RowTo(c, s) == RowSession(s) /\ client' = [client EXCEPT ![c] = s]

(* Steps of a row statement that change no row. *)
RowPause ==
    /\ hist' \in Remembered /\ quota' \in [Client -> Nat]
    /\ hist'.answered = hist.answered /\ hist'.unfinished = hist.unfinished
    /\ hist'.stale = hist.stale /\ hist'.lost = hist.lost /\ hist'.late = hist.late /\ hist.apart \subseteq hist'.apart
    /\ UNCHANGED <<scen, crashes, dirVars, status, opened, pool, nextTable, nextPool>>

SchemaSession(c, s) ==
    /\ s \in Sessions /\ client' = [client EXCEPT ![c] = s]
    /\ client[c].pc \in TablePcs \cup IndexPcs
    /\ s.t = client[c].t /\ s.i = client[c].i /\ s.row = client[c].row /\ s.id = client[c].id
    /\ s.pc \in TablePcs \cup IndexPcs \cup SyncPcs
    /\ s.pc \in TablePcs => client[c].pc \in TablePcs
    /\ s.pc \in IndexPcs => client[c].pc \in IndexPcs

(* The session opens its file, and what becomes of the names. *)
OpensFile(c, f) ==
    /\ UNCHANGED <<scen, quota, crashes, meta, file, dblwr, ckpt, flushed, status, nextTable, nextPool, hist>>
    /\ client[c].pc \in {"ct_open", "ci_create"} /\ Target(c) = f
    /\ Open(f)' /\ pool'[f].id = file[f].id
    /\ \A g \in File : g # f => pool'[g] = pool[g]
    /\ Len(log') >= Len(log) /\ \A n \in 1 .. Len(log) : log'[n] = log[n]
    /\ \A n \in 1 .. Len(log') : n > Len(log) => log'[n].file = f /\ log'[n].id = file[f].id

(* The scan of CREATE INDEX: one record for every row it sees. *)
Scanned(f, rows) ==
    /\ UNCHANGED <<scen, quota, crashes, meta, file, dblwr, ckpt, flushed, status, opened, nextTable, nextPool>>
    /\ Len(log') >= Len(log) /\ \A n \in 1 .. Len(log) : log'[n] = log[n]
    /\ \A n \in 1 .. Len(log') : n > Len(log) =>
          log'[n].file = f /\ log'[n].id = pool[f].id /\ log'[n].op = "ins" /\ log'[n].row \in rows
    /\ \A r \in rows : \E n \in 1 .. Len(log') : n > Len(log) /\ log'[n].row = r
    /\ \A g \in File : g # f => pool'[g] = pool[g]
    /\ pool'[f].id = pool[f].id /\ pool'[f].img.rows = rows
    /\ pool'[f].img.lsn = IF rows = {} THEN pool[f].img.lsn ELSE Len(log')

(* What the step does, for a client and for the main thread. *)
Checkpoint(a, s) ==
    /\ UNCHANGED <<scen, quota, crashes, meta, file, dblwr, log, flushed, status, opened, pool, nextTable, nextPool>>
    /\ ckpt' = client[a].lsn /\ ckpt' \in 0 .. flushed /\ ckpt' >= ckpt
    /\ client[a].pc = "s_wait" /\ s \in Sessions /\ client' = [client EXCEPT ![a] = s]
    /\ hist' \in Remembered /\ hist'.apart = hist.apart /\ hist'.lost = hist.lost /\ hist'.late = hist.late
    /\ hist'.refused = hist.refused /\ hist'.stale = hist.stale
    /\ \/ a = Main /\ s.pc = "close" /\ hist' = hist
       \/ /\ a \in Client /\ s = Idle
          /\ hist'.answered = hist.answered
                \cup {[file |-> Target(a), table |-> opened[client[a].t].id, pool |-> file[Target(a)].id]}
          /\ hist'.unfinished = hist.unfinished \ {Target(a)}

(* What a shutdown and a crash share: the files keep their ids, and the log *)
(* does not grow.                                                           *)
GoneKeeps ==
    /\ Gone /\ meta' = meta /\ ckpt' = ckpt
    /\ \A f \in File : file'[f].id = file[f].id /\ (~Open(f) => file'[f] = file[f])
    /\ Len(log') <= Len(log) /\ \A n \in 1 .. Len(log') : n \in 1 .. Len(log) /\ log'[n] = log[n]
    /\ \A p \in 1 .. MaxPool : dblwr'[p] # NoImage => dblwr[p] # NoImage
    /\ hist'.unfinished = hist.unfinished /\ hist'.answered = hist.answered

(* A start that succeeds. *)
Started ==
    /\ status = "down" /\ status' = "up"
    /\ UNCHANGED <<scen, quota, crashes, meta, ckpt, log, flushed, client>>
    /\ \A t \in Table : opened'[t] = meta[t] /\ meta[t] # EmptyMeta
    /\ \A f \in ToOpen : Complete(f)
    /\ \A f \in File : pool'[f] = IF f \in ToOpen THEN [file[f] EXCEPT !.img = Redone(f)] ELSE Closed
    /\ \A f \in File : file'[f].id = file[f].id /\ (Live(f) => file'[f].img = Loaded(f)) /\ (f \notin ToOpen => file'[f] = file[f])
    /\ \A p \in 1 .. MaxPool : dblwr'[p] = NoImage
    /\ \A n \in Replayed : Known(log[n].id)
    /\ \A t \in Table : meta[t].id < nextTable'
    /\ \A f \in ToOpen : file[f].id < nextPool'
    /\ hist'.answered = hist.answered /\ hist'.unfinished = hist.unfinished \ ToOpen
    /\ hist'.apart = hist.apart /\ hist'.lost = hist.lost /\ hist'.late = hist.late /\ hist'.refused = hist.refused
    /\ hist'.stale = hist.stale \cup StaleRoots

(* The steps of Next by what they do. *)
RowStep(c) ==
    \/ \E t \in Table, r \in Row : Insert(c, t, r) \/ Delete(c, t, r)
    \/ \E t \in Table, lines \in Seq({"good", "bad"}) : Load(c, t, lines)
    \/ (\E r \in Row : LoadLine(c, r)) \/ LoadEnd(c)
    \/ BeginEntries(c, "i_begin", "i_entry")
    \/ \E f : InsertEntry(c, f) \/ UndoEntry(c, f) \/ DeleteEntry(c, f) \/ DeleteEntryFails(c, f)
    \/ InsertEnd(c) \/ EntryFails(c) \/ UndoFails(c) \/ UndoRecord(c) \/ DeleteRecord(c) \/ RecordFails(c)

SchemaAction(c) ==
    \/ \E t \in Table : \/ \E good \in BOOLEAN : CreateTable(c, t, good)
                        \/ \E i \in Index : CreateIndex(c, t, i)
    \/ CreateMetaFile(c) \/ WriteMeta(c) \/ CreateTableEnd(c)
    \/ CreateFile(c, "ct_data", Data(client[c].t), "ct_header")
    \/ WriteHeader(c, "ct_header", Data(client[c].t), "ct_open")
    \/ CreateFile(c, "ci_file", IndexFile(c), "ci_header")
    \/ WriteHeader(c, "ci_header", IndexFile(c), "ci_create")
    \/ CreateTree(c) \/ FlushTree(c) \/ ScanRows(c) \/ CreateIndexFails(c) \/ PushIndex(c) \/ RenameMeta(c)
    \/ SyncFails(c)

(* A schema change that is refused, at once or half way, in its sync too:  *)
(* only the session changes.                                               *)
Refused(c) ==
    /\ UNCHANGED <<scen, crashes, dirVars, memVars, hist>>
    /\ \/ UNCHANGED client /\ \E op : Issue(c, op)
       \/ /\ UNCHANGED quota /\ Answer(c)
          /\ client[c].pc \in (TablePcs \cup IndexPcs \cup SyncPcs) \ {"ct_open", "ci_create"}

(* The statements that create a table or an index go on or are refused. *)
Creates(c) ==
    \/ \E t \in Table, good \in BOOLEAN : CreateTable(c, t, good) /\ opened[t] = NoMeta
    \/ \E t \in Table, i \in Index : CreateIndex(c, t, i) /\ opened[t] # NoMeta /\ i \notin opened[t].indexes
    \/ CreateMetaFile(c) /\ meta[client[c].t] = NoMeta
    \/ WriteMeta(c) /\ FieldsOk(c)
    \/ CreateTableEnd(c)
    \/ \E f \in File :
          /\ file[f] = NoFile
          /\ \/ CreateFile(c, "ct_data", f, "ct_header") /\ f = Data(client[c].t)
             \/ CreateFile(c, "ci_file", f, "ci_header") /\ f = <<client[c].t, client[c].i>>
    \/ \E f \in File :
          \/ WriteHeader(c, "ct_header", f, "ct_open") /\ f = Data(client[c].t)
          \/ WriteHeader(c, "ci_header", f, "ci_create") /\ f = <<client[c].t, client[c].i>>
    \/ CreateTree(c) \/ FlushTree(c) \/ ScanRows(c) \/ PushIndex(c) \/ RenameMeta(c)

(* The log of the next state begins with that of this state. *)
LogGrows ==
    /\ Len(log) \in Nat /\ Len(log') \in Nat /\ Len(log) <= Len(log')
    /\ \A n \in 1 .. Len(log) : log'[n] = log[n]

(* No record was appended for the row. *)
NotChanged(f, r) == \A n \in 1 .. Len(log') : n > Len(log) => ~(log'[n].file = f /\ log'[n].row = r)

(* A file that a step leaves as it is. *)
FileKept(f) ==
    /\ Open(f)' => Open(f) /\ pool'[f].img = pool[f].img
    /\ Live(f)' => Live(f) /\ Loaded(f)' = Loaded(f)
    /\ f \in ToOpen' /\ Complete(f)' => f \in ToOpen /\ Complete(f)

(* When a sync begins, every file a start would open is on its list. *)
NoneOpening == status = "up" /\ \A c \in Client : client[c].pc \notin {"ct_open", "ci_create"}
SyncsAll    == \A f \in File : f \in ToOpen /\ Complete(f) => f \in Synced(opened)

(* A log that lost its end. *)
LogCut == /\ Len(log) \in Nat /\ Len(log') \in Nat /\ Len(log') <= Len(log)
          /\ \A n \in 1 .. Len(log') : log'[n] = log[n]

(* A row that a step does not touch. *)
RowKept(t, r) ==
    /\ OnRow(t, r)' = OnRow(t, r) /\ \A a \in OnRow(t, r) : client'[a] = client[a]
    /\ opened[t].indexes \subseteq opened'[t].indexes \/ OnRow(t, r) = {}
    /\ Has(Data(t), r)' <=> Has(Data(t), r)
    /\ <<t, r>> \in hist'.refused => <<t, r>> \in hist.refused
    /\ \A i \in Filled(t)' : i \in Filled(t) /\ (Has(<<t, i>>, r)' <=> Has(<<t, i>>, r))

(* What is excused stays excused. *)
MarksKept == hist.apart \subseteq hist'.apart /\ hist.lost \subseteq hist'.lost

(* A step that excuses no row in a data file. *)
DataMarksKept == \A t \in Table, r \in Row : <<Data(t), r>> \in hist'.apart => <<Data(t), r>> \in hist.apart

(* A session works on one row of one table. *)
RowTouched(c, s, t, r) ==
    /\ RowTo(c, s) /\ UNCHANGED <<meta, opened>> /\ LogGrows /\ MarksKept
    /\ client[c].row # 0 => client[c].t = t /\ client[c].row = r
    /\ s.row # 0 => s.t = t /\ s.row = r
    /\ DataMarksKept \/ ApartInv'
    /\ hist'.refused \subseteq hist.refused \cup {<<t, r>>}
    /\ \A f, q : TableOf(f) # t \/ q # r => NotChanged(f, q)

=============================================================================
