------------------------------ MODULE Catalog -------------------------------
(* The directory of a database and the tables opened from it: CREATE TABLE,  *)
(* CREATE INDEX, the changes of rows with the upkeep of the indexes, LOAD    *)
(* DATA, Db::sync, the shutdown, and Db::init after a shutdown or a crash.   *)
(*                                                                           *)
(* A file of pages is one image: the rows it holds (of an index file, the    *)
(* rows it has an entry for) and the lsn of the last change.  A change       *)
(* appends one log record.  What survives a crash: the files, the double     *)
(* write buffer, and the log as far as it was flushed.  Two statements that  *)
(* change the schema do not run at a time: create_index_executor.h forbids   *)
(* it and nothing guards against it.                                         *)
EXTENDS Integers, Sequences, FiniteSets, FiniteSetsExt

CONSTANTS
    Table,      \* names of tables
    Index,      \* names of indexes
    Row,        \* the rows of a table
    Client,     \* sessions
    Main,       \* the main thread, which syncs when the server stops
    MaxLog,     \* bound: no statement changes a row when the log is this long
    MaxPool,    \* bound: the pool ids
    Scenarios   \* the kit, the statements of each client, the crashes allowed

ASSUME MainAssumption  == Main \notin Client
ASSUME BoundAssumption == MaxLog \in Nat /\ MaxPool \in Nat
ASSUME NameAssumption  ==  \* an index has a name, and its file another one than the data file
    /\ IsFiniteSet(Table) /\ IsFiniteSet(Index) /\ {"", "data"} \cap Index = {}
    /\ IsFiniteSet(Row) /\ Row \subseteq Nat \ {0}
ASSUME ScenarioAssumption ==
    \A s \in Scenarios : /\ s.tables \subseteq Table /\ s.indexes \subseteq Index /\ s.rows \subseteq Row
                         /\ s.loads \subseteq Seq({"good", "bad"})
                         /\ s.quota \in [Client -> Nat] /\ s.crashes \in Nat

VARIABLES
    scen,       \* the scenario
    meta,       \* t.table: not there, empty, or the TableMeta written to it
    file,       \* t.data and t-i.index: not there, empty, or [id, img]
    dblwr,      \* the double write buffer, by pool id
    ckpt,       \* the check point in the meta file of the database
    log,        \* the records appended, by lsn
    flushed,    \* how many of them are on disk
    status,     \* "down", "up", or "failed": Db::init returned an error
    opened,     \* opened_tables_
    pool,       \* the open buffer pools
    nextTable,  \* next_table_id_
    nextPool,   \* next_buffer_pool_id_
    unmarked,   \* the entries in frames that were changed and not marked dirty
    client,     \* what each session is doing
    trx,        \* MVCC: the id counter, the sessions' ids, the rows' begin ids
    quota,      \* statements left to each client
    crashes,    \* crashes left
    hist        \* what the properties remember

dirVars  == <<meta, file, dblwr, ckpt, log, flushed>>
memVars  == <<status, opened, pool, nextTable, nextPool, unmarked>>
bounds   == <<scen, quota, crashes>>
vars     == <<bounds, dirVars, memVars, client, trx, hist>>

Data(t)    == <<t, "data">>
File       == {Data(t) : t \in Table} \cup (Table \X Index)
TableOf(f) == f[1]
Actor      == Client \cup {Main}

NoImage   == [rows |-> {}, lsn |-> -1]
NewImage  == [rows |-> {}, lsn |-> 0]
NoMeta    == [id |-> -2, indexes |-> {}]
EmptyMeta == [id |-> -1, indexes |-> {}]
NoFile    == [id |-> -2, img |-> NoImage]
EmptyFile == [id |-> -1, img |-> NoImage]
Closed    == [id |-> 0, img |-> NoImage]
Open(f)   == pool[f] # Closed
Idle      == [pc |-> "idle", t |-> "", i |-> "", row |-> 0, id |-> 0, lsn |-> 0,
              todo |-> {}, did |-> {}, lines |-> <<>>, load |-> FALSE, ok |-> TRUE]

-----------------------------------------------------------------------------
(* The log and the images.                                                   *)
Rec(f, op, r) == [id |-> pool[f].id, file |-> f, op |-> op, row |-> r]
Changed(img, op, r) == IF op = "ins" THEN img.rows \cup {r} ELSE img.rows \ {r}

(* A change of one row or entry: the page, its lsn and the log.              *)
Change(f, op, r) ==
    /\ log' = Append(log, Rec(f, op, r))
    /\ pool' = [pool EXCEPT ![f].img = [rows |-> Changed(@, op, r), lsn |-> Len(log) + 1]]

(* flush_page: wait for the log, then into the double write buffer.          *)
CanFlush(f)  == Open(f) /\ flushed >= pool[f].img.lsn
FlushFile(f) == dblwr' = [dblwr EXCEPT ![pool[f].id] = pool[f].img]

(* DiskDoubleWriteBuffer::flush_page: every page to the file of its pool.    *)
Written(files, open) ==
    [f \in File |-> IF f \in open /\ dblwr[files[f].id] # NoImage
                    THEN [files[f] EXCEPT !.img = dblwr[files[f].id]] ELSE files[f]]
Emptied == [p \in 1 .. MaxPool |-> NoImage]

(* A page is read from the double write buffer, if it is there.              *)
Loaded(f) == IF dblwr[file[f].id] # NoImage THEN dblwr[file[f].id] ELSE file[f].img

-----------------------------------------------------------------------------
(* Statements.                                                               *)
TablePcs == {"ct_meta", "ct_init", "ct_data", "ct_header", "ct_open"}
IndexPcs == {"ci_file", "ci_header", "ci_create", "ci_sync", "ci_scan", "ci_push", "ci_rename"}
SyncPcs  == {"s_files", "s_lsn", "s_wait"}
RowPcs   == {"i_begin", "i_entry", "i_undo", "d_entry"}

Ddl(a)      == client[a].pc \in TablePcs \cup IndexPcs \cup SyncPcs
Creating(t) == {a \in Client : client[a].t = t /\ client[a].pc = "ci_push"}
OnRow(t, r) == {a \in Client : client[a].t = t /\ client[a].row = r /\ client[a].pc # "idle"}
Quiet(a)    == status = "up" /\ client[a].pc = "idle"

Issue(c, op) == /\ Quiet(c) /\ client[Main].pc = "idle"
                /\ op \in scen.ops[c] /\ quota[c] > 0
                /\ quota' = [quota EXCEPT ![c] = @ - 1]

Answer(c)   == client' = [client EXCEPT ![c] = Idle]
Goto(c, pc) == client' = [client EXCEPT ![c].pc = pc]

(* Db::create_table: the name is checked and an id taken.                    *)
CreateTable(c, t, good) ==
    /\ Issue(c, IF good THEN "create table" ELSE "create bad table") /\ \A a \in Actor : ~Ddl(a)
    /\ \/ /\ opened[t] # NoMeta
          /\ UNCHANGED <<client, nextTable, hist>>
       \/ /\ opened[t] = NoMeta
          /\ client' = [client EXCEPT ![c] = [Idle EXCEPT !.pc = "ct_meta", !.t = t, !.id = nextTable, !.ok = good]]
          /\ nextTable' = nextTable + 1
          /\ hist' = [hist EXCEPT !.unfinished = @ \cup {Data(t)}]
    /\ UNCHANGED <<scen, crashes, dirVars, status, opened, pool, nextPool, unmarked, trx>>

(* Table::create: the meta file must be new.                                 *)
CreateMetaFile(c) ==
    LET t == client[c].t IN
    /\ client[c].pc = "ct_meta"
    /\ \/ meta[t] = NoMeta /\ meta' = [meta EXCEPT ![t] = EmptyMeta] /\ Goto(c, "ct_init")
       \/ meta[t] # NoMeta /\ Answer(c) /\ UNCHANGED meta
    /\ UNCHANGED <<bounds, file, dblwr, ckpt, log, flushed, memVars, trx, hist>>

(* TableMeta::init refuses an attribute without a name or of length 0, and   *)
(* the empty file is left behind.                                            *)
FieldsOk(c) == client[c].ok
serialize(id, indexes) == [id |-> id, indexes |-> indexes]

WriteMeta(c) ==
    LET t == client[c].t IN
    /\ client[c].pc = "ct_init"
    /\ \/ /\ FieldsOk(c)
          /\ meta' = [meta EXCEPT ![t] = serialize(client[c].id, {})] /\ Goto(c, "ct_data")
       \/ /\ ~FieldsOk(c)
          /\ Answer(c) /\ UNCHANGED meta
    /\ UNCHANGED <<bounds, file, dblwr, ckpt, log, flushed, memVars, trx, hist>>

(* BufferPoolManager::create_file: the file must be new; then its header,    *)
(* with the next pool id.                                                    *)
CreateFile(c, from, f, to) ==
    /\ client[c].pc = from
    /\ \/ file[f] = NoFile /\ file' = [file EXCEPT ![f] = EmptyFile] /\ Goto(c, to)
       \/ file[f] # NoFile /\ Answer(c) /\ UNCHANGED file
    /\ UNCHANGED <<bounds, meta, dblwr, ckpt, log, flushed, memVars, trx, hist>>

WriteHeader(c, from, f, to) ==
    /\ client[c].pc = from /\ nextPool <= MaxPool
    /\ file' = [file EXCEPT ![f] = [id |-> nextPool, img |-> NewImage]]
    /\ nextPool' = nextPool + 1
    /\ Goto(c, to)
    /\ UNCHANGED <<bounds, meta, dblwr, ckpt, log, flushed, status, opened, pool, nextTable, unmarked, trx, hist>>

(* The files Db::sync flushes.                                               *)
FilesOf(t, indexes) == {Data(t)} \cup ({t} \X indexes)
Tables(tables)  == {u \in Table : tables[u] # NoMeta}
(* A mutant: the indexes are not synced.                                     *)
Synced_DataOnly(tables) == {Data(t) : t \in Tables(tables)}

Synced(tables) == UNION {FilesOf(t, tables[t].indexes) : t \in Tables(tables)}

(* init_record_handler opens the file, Db::create_table enters the table,    *)
(* CommandExecutor goes on with Db::sync.                                    *)
CreateTableEnd(c) ==
    LET t   == client[c].t
        new == [opened EXCEPT ![t] = [id |-> client[c].id, indexes |-> {}]]
    IN /\ client[c].pc = "ct_open"
       /\ pool' = [pool EXCEPT ![Data(t)] = file[Data(t)]]
       /\ opened' = new
       /\ client' = [client EXCEPT ![c].pc = "s_files", ![c].todo = Synced(new)]
       /\ UNCHANGED <<bounds, dirVars, status, nextTable, nextPool, unmarked, trx, hist>>

-----------------------------------------------------------------------------
(* CreateIndexStmt::create and Table::create_index.                          *)
IndexFile(c) == <<client[c].t, client[c].i>>

CreateIndex(c, t, i) ==
    /\ Issue(c, "create index") /\ \A a \in Actor : ~Ddl(a)
    /\ \/ /\ opened[t] = NoMeta \/ i \in opened[t].indexes
          /\ UNCHANGED <<client, hist>>
       \/ /\ opened[t] # NoMeta /\ i \notin opened[t].indexes
          /\ client' = [client EXCEPT ![c] = [Idle EXCEPT !.pc = "ci_file", !.t = t, !.i = i]]
          /\ hist' = [hist EXCEPT !.unfinished = @ \cup {<<t, i>>}]
    /\ UNCHANGED <<scen, crashes, dirVars, memVars, trx>>

(* BplusTreeHandler::create: the pool is opened, the page of the tree's      *)
(* header allocated, and at once flushed in place of being logged.           *)
CreateTree(c) ==
    LET f == IndexFile(c) IN
    /\ client[c].pc = "ci_create"
    /\ log' = Append(log, [id |-> file[f].id, file |-> f, op |-> "alloc", row |-> 0])
    /\ pool' = [pool EXCEPT ![f] = [file[f] EXCEPT !.img.lsn = Len(log) + 1]]
    /\ Goto(c, "ci_sync")
    /\ UNCHANGED <<bounds, meta, file, dblwr, ckpt, flushed, status, opened, nextTable, nextPool, unmarked, trx, hist>>

FlushTree(c) ==
    /\ client[c].pc = "ci_sync" /\ CanFlush(IndexFile(c))
    /\ FlushFile(IndexFile(c)) /\ Goto(c, "ci_scan")
    /\ UNCHANGED <<bounds, meta, file, ckpt, log, flushed, memVars, trx, hist>>

(* The scan sees what the session's transaction sees.  Nothing starts one:   *)
(* its id is the one of the session's last transaction, or -1.               *)
Sees(c, t, r) ==
    scen.kit = "mvcc" => \/ trx.begin[t][r] >= 0 /\ trx.id[c] >= trx.begin[t][r]
                         \/ trx.begin[t][r] = 0
                         \/ trx.begin[t][r] < 0 /\ trx.begin[t][r] = -trx.id[c]

ScanRows(c) ==
    LET f    == IndexFile(c)
        t    == client[c].t
        rows == {r \in pool[Data(t)].img.rows : Sees(c, t, r)}
        size == Cardinality(rows)
        list == CHOOSE l \in [1 .. size -> rows] : \A r \in rows : \E n \in 1 .. size : l[n] = r
        recs == [n \in 1 .. size |-> Rec(f, "ins", list[n])]
    IN /\ client[c].pc = "ci_scan"
       /\ log' = log \o recs
       /\ pool' = [pool EXCEPT ![f].img = [rows |-> rows, lsn |-> IF rows = {} THEN @.lsn ELSE Len(log) + Len(recs)]]
       /\ hist' = [hist EXCEPT !.apart = @ \cup ({f} \X {r \in Row : OnRow(t, r) # {} \/ ~Sees(c, t, r)})]
       /\ Goto(c, "ci_push")
       /\ UNCHANGED <<bounds, meta, file, dblwr, ckpt, flushed, status, opened, nextTable, nextPool, unmarked, trx>>

(* An error in the scan or of a later step: the file stays, and so does what *)
(* was done.                                                                 *)
CreateIndexFails(c) ==
    /\ client[c].pc \in {"ci_scan", "ci_rename"} /\ "errors" \in scen.ops[c]
    /\ Answer(c)
    /\ UNCHANGED <<bounds, dirVars, memVars, trx, hist>>

PushIndex(c) ==
    LET t == client[c].t
        f == IndexFile(c)
    IN /\ client[c].pc = "ci_push"
       /\ opened' = [opened EXCEPT ![t].indexes = @ \cup {client[c].i}]
       /\ hist' = [hist EXCEPT !.apart = @ \cup ({f} \X {r \in Row : OnRow(t, r) # {}})]
       /\ Goto(c, "ci_rename")
       /\ UNCHANGED <<bounds, dirVars, status, pool, nextTable, nextPool, unmarked, trx>>

(* The new meta goes to a temporary file, which replaces the old one.        *)
(* A mutant: the new index is forgotten.                                     *)
add_index_Forgets(m, i)  == serialize(m.id, m.indexes)

add_index(m, i) == serialize(m.id, m.indexes \cup {i})

RenameMeta(c) ==
    LET t == client[c].t IN
    /\ client[c].pc = "ci_rename"
    /\ meta' = [meta EXCEPT ![t] = add_index(@, client[c].i)]
    /\ client' = [client EXCEPT ![c].pc = "s_files", ![c].todo = Synced(opened)]
    /\ UNCHANGED <<bounds, file, dblwr, ckpt, log, flushed, memVars, trx, hist>>

-----------------------------------------------------------------------------
(* Db::sync: the files of each table, its indexes first; the double write    *)
(* buffer; then the lsn that becomes the check point, once it is on disk.    *)
(* flush_all_pages writes every frame, marked or not.                        *)
SyncFile(a, f) ==
    /\ client[a].pc = "s_files" /\ f \in client[a].todo /\ CanFlush(f)
    /\ f = Data(TableOf(f)) => client[a].todo \cap ({TableOf(f)} \X Index) = {}
    /\ FlushFile(f)
    /\ unmarked' = unmarked \ ({f} \X Row)
    /\ hist' = [hist EXCEPT !.late = @ \ ({f} \X Row)]
    /\ client' = [client EXCEPT ![a].todo = @ \ {f}]
    /\ UNCHANGED <<bounds, meta, file, ckpt, log, flushed, status, opened, pool, nextTable, nextPool, trx>>

SyncDblwr(a) ==
    /\ client[a].pc = "s_files" /\ client[a].todo = {}
    /\ file' = Written(file, {f \in File : Open(f)}) /\ dblwr' = Emptied
    /\ Goto(a, "s_lsn")
    /\ UNCHANGED <<bounds, meta, ckpt, log, flushed, memVars, trx, hist>>

(* A mutant: the lsn the next record will get.                               *)
current_lsn_Next == Len(log) + 1

current_lsn == Len(log)

SyncLsn(a) ==
    /\ client[a].pc = "s_lsn"
    /\ client' = [client EXCEPT ![a].pc = "s_wait", ![a].lsn = current_lsn]
    /\ UNCHANGED <<bounds, dirVars, memVars, trx, hist>>

(* wait_lsn polls until the log is on disk. *)
LsnFlushed(a) == flushed >= client[a].lsn

(* flush_meta writes a temporary file and renames it.                        *)
SyncMeta(a) ==
    LET c == client[a] IN
    /\ c.pc = "s_wait" /\ LsnFlushed(a)
    /\ ckpt' = c.lsn
    /\ \/ /\ a = Main /\ Goto(a, "close") /\ UNCHANGED hist
       \/ /\ a # Main /\ Answer(a)
          /\ LET f == IF c.i = "" THEN Data(c.t) ELSE <<c.t, c.i>>
             IN hist' = [hist EXCEPT !.answered = @ \cup {[file |-> f, table |-> opened[c.t].id, pool |-> file[f].id]},
                                     !.unfinished = @ \ {f}]
    /\ UNCHANGED <<bounds, meta, file, dblwr, log, flushed, memVars, trx>>

(* A file that cannot be flushed, or the meta file: the statement fails, and *)
(* what it made stays.                                                       *)
SyncFails(c) ==
    /\ \/ client[c].pc = "s_files" /\ client[c].todo # {}
       \/ client[c].pc = "s_wait"
    /\ "errors" \in scen.ops[c]
    /\ Answer(c)
    /\ UNCHANGED <<bounds, dirVars, memVars, trx, hist>>

-----------------------------------------------------------------------------
(* Rows.  A change behind the back of a sync, after it has flushed the file  *)
(* and before it reads the lsn, is remembered in hist.late until the file is *)
(* written again; a crash before that loses it.                              *)
Late(f, r) ==
    IF \E a \in Actor : client[a].pc = "s_lsn" \/ (client[a].pc = "s_files" /\ f \notin client[a].todo)
    THEN {<<f, r>>} ELSE {}
Overlaps(t, r) == {<<client[a].t, client[a].i>> : a \in Creating(t)} \X {r}

ChangeRow(f, op, r) ==
    /\ Change(f, op, r)
    /\ hist' = [hist EXCEPT !.late = @ \cup Late(f, r), !.apart = @ \cup Overlaps(TableOf(f), r)]

Free(t, r)  == opened[t] # NoMeta /\ OnRow(t, r) = {} /\ r \notin pool[Data(t)].img.rows
Room        == Len(log) < MaxLog

(* Table::insert_record: the record, then an entry in every index.  MVCC     *)
(* starts a transaction first, and marks the row with its id.                *)
Insert(c, t, r) ==
    /\ Issue(c, "insert") /\ Room /\ Free(t, r)
    /\ ChangeRow(Data(t), "ins", r)
    /\ client' = [client EXCEPT ![c] = [Idle EXCEPT !.pc = "i_begin", !.t = t, !.row = r]]
    /\ trx' = IF scen.kit = "vacuous" THEN trx
              ELSE [trx EXCEPT !.n = @ + 1, !.id[c] = trx.n + 1, !.begin[t][r] = -(trx.n + 1)]
    /\ UNCHANGED <<scen, crashes, meta, file, dblwr, ckpt, flushed, status, opened, nextTable, nextPool, unmarked>>

(* LOAD DATA inserts line by line without a transaction, and ends at the     *)
(* first line that does not give a record.  It answers SUCCESS.              *)
Load(c, t, lines) ==
    /\ Issue(c, "load") /\ Room /\ opened[t] # NoMeta
    /\ client' = [client EXCEPT ![c] = [Idle EXCEPT !.pc = "l_line", !.t = t, !.lines = lines, !.load = TRUE]]
    /\ UNCHANGED <<scen, crashes, dirVars, memVars, trx, hist>>

LoadLine(c, r) ==
    LET t == client[c].t IN
    /\ client[c].pc = "l_line" /\ client[c].lines # <<>> /\ Head(client[c].lines) = "good"
    /\ Free(t, r)
    /\ ChangeRow(Data(t), "ins", r)
    /\ client' = [client EXCEPT ![c].pc = "i_begin", ![c].row = r, ![c].lines = Tail(@)]
    /\ trx' = [trx EXCEPT !.begin[t][r] = 0]
    /\ UNCHANGED <<bounds, meta, file, dblwr, ckpt, flushed, status, opened, nextTable, nextPool, unmarked>>

LoadEnd(c) ==
    /\ client[c].pc = "l_line"
    /\ \/ client[c].lines = <<>>
       \/ client[c].lines # <<>> /\ Head(client[c].lines) = "bad"
       \/ \A r \in Row : ~Free(client[c].t, r)  \* bound: no row is left
    /\ Answer(c)
    /\ UNCHANGED <<bounds, dirVars, memVars, trx, hist>>

(* insert_entry_of_indexes goes over indexes_ as it is now.                  *)
BeginEntries(c, from, to) ==
    /\ client[c].pc = from
    /\ client' = [client EXCEPT ![c].pc = to, ![c].todo = {client[c].t} \X opened[client[c].t].indexes]
    /\ UNCHANGED <<bounds, dirVars, memVars, trx, hist>>

InsertEntry(c, f) ==
    /\ client[c].pc = "i_entry" /\ f \in client[c].todo
    /\ ChangeRow(f, "ins", client[c].row)
    /\ unmarked' = unmarked \ {<<f, client[c].row>>}
    /\ client' = [client EXCEPT ![c].todo = @ \ {f}, ![c].did = @ \cup {f}]
    /\ UNCHANGED <<bounds, meta, file, dblwr, ckpt, flushed, status, opened, nextTable, nextPool, trx>>

InsertEnd(c) ==
    LET t == client[c].t
        r == client[c].row
    IN /\ client[c].pc = "i_entry" /\ client[c].todo = {}
       /\ IF client[c].load THEN client' = [client EXCEPT ![c].pc = "l_line", ![c].row = 0, ![c].did = {}] ELSE Answer(c)
       /\ trx' = IF scen.kit = "vacuous" \/ client[c].load THEN trx
                 ELSE [trx EXCEPT !.n = @ + 1, !.begin[t][r] = trx.n + 1]
       /\ hist' = [hist EXCEPT !.refused = @ \ {<<t, r>>}]
       /\ UNCHANGED <<bounds, dirVars, memVars>>

(* An index refuses the entry: the entries made so far are taken back, then  *)
(* the record.                                                               *)
(* A mutant: the entries stay.                                               *)
EntryFails_EntriesStay(c) ==
    /\ client[c].pc = "i_entry" /\ client[c].todo # {} /\ "errors" \in scen.ops[c]
    /\ client' = [client EXCEPT ![c].pc = "i_undo", ![c].todo = {}]
    /\ UNCHANGED <<bounds, dirVars, memVars, trx, hist>>

EntryFails(c) ==
    /\ client[c].pc = "i_entry" /\ client[c].todo # {} /\ "errors" \in scen.ops[c]
    /\ client' = [client EXCEPT ![c].pc = "i_undo", ![c].todo = client[c].did]
    /\ UNCHANGED <<bounds, dirVars, memVars, trx, hist>>

(* Where an entry goes and others stay, nodes may be merged, and coalesce    *)
(* marks no frame dirty: any entry may be in such a frame then.              *)
Merges(f, r) ==
    \/ UNCHANGED unmarked
    \/ pool[f].img.rows # {r} /\ unmarked' = unmarked \cup ({f} \X Row)

UndoEntry(c, f) ==
    /\ client[c].pc = "i_undo" /\ f \in client[c].todo
    /\ ChangeRow(f, "del", client[c].row) /\ Merges(f, client[c].row)
    /\ client' = [client EXCEPT ![c].todo = @ \ {f}]
    /\ UNCHANGED <<bounds, meta, file, dblwr, ckpt, flushed, status, opened, nextTable, nextPool, trx>>

(* delete_entry_of_indexes ends at the first index that fails, which is only *)
(* logged.                                                                   *)
UndoFails(c) ==
    /\ client[c].pc = "i_undo" /\ client[c].todo # {} /\ "errors" \in scen.ops[c]
    /\ hist' = [hist EXCEPT !.apart = @ \cup (client[c].todo \X {client[c].row})]
    /\ client' = [client EXCEPT ![c].todo = {}]
    /\ UNCHANGED <<bounds, dirVars, memVars, trx>>

UndoRecord(c) ==
    LET f == Data(client[c].t)
        r == client[c].row
    IN /\ client[c].pc = "i_undo" /\ client[c].todo = {}
       /\ Change(f, "del", r)
       /\ hist' = [hist EXCEPT !.late = @ \cup Late(f, r), !.refused = @ \cup {<<client[c].t, r>>}]
       /\ Answer(c)
       /\ UNCHANGED <<bounds, meta, file, dblwr, ckpt, flushed, status, opened, nextTable, nextPool, unmarked, trx>>

(* Table::delete_record (VacuousTrx): the entries, then the record.  The     *)
(* ASSERT on each entry does nothing in a release build: where there is none *)
(* to take away, or where that fails, the next index and the record follow.  *)
Delete(c, t, r) ==
    /\ Issue(c, "delete") /\ Room /\ opened[t] # NoMeta /\ OnRow(t, r) = {}
    /\ r \in pool[Data(t)].img.rows
    /\ client' = [client EXCEPT ![c] = [Idle EXCEPT !.pc = "d_entry", !.t = t, !.row = r,
                                                    !.todo = {t} \X opened[t].indexes]]
    /\ hist' = [hist EXCEPT !.apart = @ \cup Overlaps(t, r)]
    /\ UNCHANGED <<scen, crashes, dirVars, memVars, trx>>

DeleteEntry(c, f) ==
    /\ client[c].pc = "d_entry" /\ f \in client[c].todo
    /\ \/ client[c].row \in pool[f].img.rows /\ ChangeRow(f, "del", client[c].row) /\ Merges(f, client[c].row)
       \/ client[c].row \notin pool[f].img.rows /\ UNCHANGED <<log, pool, unmarked, hist>>
    /\ client' = [client EXCEPT ![c].todo = @ \ {f}]
    /\ UNCHANGED <<bounds, meta, file, dblwr, ckpt, flushed, status, opened, nextTable, nextPool, trx>>

DeleteEntryFails(c, f) ==
    /\ client[c].pc = "d_entry" /\ f \in client[c].todo /\ "errors" \in scen.ops[c]
    /\ hist' = [hist EXCEPT !.apart = @ \cup {<<f, client[c].row>>}]
    /\ client' = [client EXCEPT ![c].todo = @ \ {f}]
    /\ UNCHANGED <<bounds, dirVars, memVars, trx>>

DeleteRecord(c) ==
    /\ client[c].pc = "d_entry" /\ client[c].todo = {}
    /\ ChangeRow(Data(client[c].t), "del", client[c].row)
    /\ Answer(c)
    /\ UNCHANGED <<bounds, meta, file, dblwr, ckpt, flushed, status, opened, nextTable, nextPool, unmarked, trx>>

(* The record stays, of a refused INSERT (LOG_PANIC only logs) or a DELETE.  *)
RecordFails(c) ==
    /\ client[c].pc \in {"i_undo", "d_entry"} /\ client[c].todo = {} /\ "errors" \in scen.ops[c]
    /\ hist' = [hist EXCEPT !.apart = @ \cup ({f \in File : TableOf(f) = client[c].t} \X {client[c].row})]
    /\ Answer(c)
    /\ UNCHANGED <<bounds, dirVars, memVars, trx>>

-----------------------------------------------------------------------------
(* The thread of the log, and pages that leave the buffer pool or the double *)
(* write buffer to make room.                                                *)
FlushLog ==
    /\ status = "up" /\ flushed < Len(log)
    /\ flushed' = IF crashes > 0 THEN flushed + 1 ELSE Len(log)  \* entry by entry, where a crash can cut it
    /\ UNCHANGED <<bounds, meta, file, dblwr, ckpt, log, memVars, client, trx, hist>>

(* The purger writes the frames that are marked dirty.  (Of a file with both *)
(* kinds they stay: the image has one lsn; BplusTreeRecovery has one a page.) *)
Evict(f) ==
    /\ status = "up" /\ CanFlush(f) /\ crashes > 0  \* bound: it matters to a crash only
    /\ unmarked \cap ({f} \X Row) = {}
    /\ FlushFile(f) /\ dblwr' # dblwr
    /\ hist' = [hist EXCEPT !.late = @ \ ({f} \X Row)]
    /\ UNCHANGED <<bounds, meta, file, ckpt, log, flushed, memVars, client, trx>>

(* It drops the others unwritten: when they are read again they hold what is *)
(* on disk.  No crash is needed, and the next sync takes that for the truth. *)
Drop(f, rows) ==
    /\ f \in Synced(opened) /\ rows # {} /\ {f} \X rows \subseteq unmarked
    /\ \A r \in rows : (r \in pool[f].img.rows) # (r \in Loaded(f).rows)
    /\ pool' = [pool EXCEPT ![f].img.rows = (@ \ rows) \cup (rows \cap Loaded(f).rows)]
    /\ unmarked' = unmarked \ ({f} \X rows)
    /\ hist' = [hist EXCEPT !.lost = @ \cup ({f} \X rows)]
    /\ UNCHANGED <<bounds, dirVars, status, opened, nextTable, nextPool, client, trx>>

DblwrFull ==
    /\ status = "up" /\ dblwr # Emptied /\ crashes > 0
    /\ file' = Written(file, {f \in File : Open(f)}) /\ dblwr' = Emptied
    /\ UNCHANGED <<bounds, meta, ckpt, log, flushed, memVars, client, trx, hist>>

(* DefaultHandler::destroy: sync, then ~Db closes every file.                *)
Destroy ==
    /\ status = "up" /\ scen.stops /\ \A a \in Actor : client[a].pc = "idle"
    /\ client' = [client EXCEPT ![Main] = [Idle EXCEPT !.pc = "s_files", !.todo = Synced(opened)]]
    /\ UNCHANGED <<bounds, dirVars, memVars, trx, hist>>

Gone ==
    /\ status' = "down"
    /\ opened' = [t \in Table |-> NoMeta] /\ pool' = [f \in File |-> Closed]
    /\ nextTable' = 0 /\ nextPool' = 1 /\ unmarked' = {}
    /\ client' = [a \in Actor |-> Idle]

Close ==
    /\ client[Main].pc = "close"
    /\ file' = [f \in File |-> IF Open(f) THEN pool[f] ELSE file[f]]
    /\ dblwr' = [p \in 1 .. MaxPool |-> IF \E f \in File : pool[f].id = p THEN NoImage ELSE dblwr[p]]
    /\ flushed' = Len(log)
    /\ hist' = [hist EXCEPT !.late = {}]
    /\ Gone
    /\ UNCHANGED <<bounds, meta, ckpt, log, trx>>

(* A crash loses what is in memory.  Rows whose change was under way or only *)
(* in memory are remembered: their entries may be half there.                *)
Cut == {x \in Table \X Row :
           \/ OnRow(x[1], x[2]) # {}
           \/ \E n \in flushed + 1 .. Len(log) : TableOf(log[n].file) = x[1] /\ log[n].row = x[2]}

Crash ==
    /\ status = "up" /\ crashes > 0
    /\ crashes' = crashes - 1
    /\ log' = SubSeq(log, 1, flushed)
    /\ hist' = [hist EXCEPT !.apart = @ \cup {y \in File \X Row : <<TableOf(y[1]), y[2]>> \in Cut},
                            !.lost = @ \cup hist.late, !.late = {}]
    /\ Gone
    /\ UNCHANGED <<scen, quota, meta, file, dblwr, ckpt, flushed, trx>>

-----------------------------------------------------------------------------
(* Db::init.  open_all_tables opens the files of every table it finds a meta *)
(* file of; Table::open needs the meta and every file to be complete.        *)
Found       == {t \in Table : meta[t] # NoMeta}
Opens(t)    == meta[t] # EmptyMeta /\ \A f \in FilesOf(t, meta[t].indexes) : file[f] \notin {NoFile, EmptyFile}
ToOpen      == UNION {FilesOf(t, meta[t].indexes) : t \in Found}

(* DiskDoubleWriteBuffer::recover and the replay of the log from the check   *)
(* point, for pools that are open; a page takes a record newer than itself.  *)
Known(id)   == \E f \in ToOpen : file[f].id = id
Replayed    == Max({ckpt, 1}) .. Len(log)
Recovers    == /\ \A p \in 1 .. MaxPool : dblwr[p] # NoImage => Known(p)
               /\ \A n \in Replayed : Known(log[n].id)
Redone(f) ==
    LET img     == Loaded(f)
        Last(r) == {n \in Replayed : n > img.lsn /\ log[n].id = file[f].id /\ log[n].row = r}
        all     == {n \in Replayed : n > img.lsn /\ log[n].id = file[f].id}
    IN [rows |-> {r \in Row : IF Last(r) = {} THEN r \in img.rows ELSE log[Max(Last(r))].op = "ins"},
        lsn  |-> IF all = {} THEN img.lsn ELSE Max(all)]

InitSucceeds == (\A t \in Found : Opens(t)) /\ Recovers

(* The id counters go on behind what was opened. *)
After(ids, first) == Max(ids \cup {first - 1}) + 1

(* The handler of an index read the root of its tree before the replay: when *)
(* the replay makes or removes the root, it does not know (BplusTreeRecovery *)
(* is about that).                                                           *)
StaleRoots == {f \in ToOpen : f # Data(TableOf(f)) /\ (Loaded(f).rows = {}) # (Redone(f).rows = {})}

(* The redo of a tree marks no node dirty (that of a record page does).      *)
RedoneEntries ==
    {x \in (Table \X Index) \X Row :
        x[1] \in ToOpen /\ (x[2] \in Loaded(x[1]).rows) # (x[2] \in Redone(x[1]).rows)}

Start ==
    /\ status = "down"
    /\ \/ /\ InitSucceeds
          /\ status' = "up"
          /\ opened' = [t \in Table |-> IF t \in Found THEN meta[t] ELSE NoMeta]
          /\ pool' = [f \in File |-> IF f \in ToOpen THEN [file[f] EXCEPT !.img = Redone(f)] ELSE Closed]
          /\ file' = Written(file, ToOpen) /\ dblwr' = Emptied
          /\ nextTable' = After({meta[t].id : t \in Found}, 0)
          /\ nextPool' = After({file[f].id : f \in ToOpen}, 1)
          /\ unmarked' = RedoneEntries
          /\ hist' = [hist EXCEPT !.stale = @ \cup StaleRoots, !.unfinished = @ \ ToOpen]
       \/ /\ ~InitSucceeds
          /\ status' = "failed"
          /\ UNCHANGED <<opened, pool, file, dblwr, nextTable, nextPool, unmarked, hist>>
    /\ UNCHANGED <<bounds, meta, ckpt, log, flushed, client, trx>>

-----------------------------------------------------------------------------
Init ==
    /\ scen \in Scenarios
    /\ meta = [t \in Table |-> NoMeta] /\ file = [f \in File |-> NoFile]
    /\ dblwr = Emptied /\ ckpt = 0 /\ log = <<>> /\ flushed = 0
    /\ status = "down" /\ opened = [t \in Table |-> NoMeta] /\ pool = [f \in File |-> Closed]
    /\ nextTable = 0 /\ nextPool = 1 /\ unmarked = {}
    /\ client = [a \in Actor |-> Idle]
    /\ trx = [n |-> 0, id |-> [c \in Client |-> -1], begin |-> [t \in Table |-> [r \in Row |-> 0]]]
    /\ quota = scen.quota /\ crashes = scen.crashes
    /\ hist = [answered |-> {}, unfinished |-> {}, apart |-> {}, late |-> {}, lost |-> {}, refused |-> {}, stale |-> {}]

SyncStep(a) == (\E f \in File : SyncFile(a, f)) \/ SyncDblwr(a) \/ SyncLsn(a) \/ SyncMeta(a)

(* What a session does once a statement is issued.                           *)
Work(c) ==
    \/ CreateMetaFile(c) \/ WriteMeta(c) \/ CreateTableEnd(c)
    \/ CreateFile(c, "ct_data", Data(client[c].t), "ct_header")
    \/ WriteHeader(c, "ct_header", Data(client[c].t), "ct_open")
    \/ CreateFile(c, "ci_file", IndexFile(c), "ci_header")
    \/ WriteHeader(c, "ci_header", IndexFile(c), "ci_create")
    \/ CreateTree(c) \/ FlushTree(c) \/ ScanRows(c) \/ CreateIndexFails(c) \/ PushIndex(c) \/ RenameMeta(c)
    \/ SyncStep(c) \/ SyncFails(c)
    \/ (\E r \in scen.rows : LoadLine(c, r)) \/ LoadEnd(c)
    \/ BeginEntries(c, "i_begin", "i_entry")
    \/ \E f \in File : InsertEntry(c, f) \/ UndoEntry(c, f) \/ DeleteEntry(c, f) \/ DeleteEntryFails(c, f)
    \/ InsertEnd(c) \/ EntryFails(c) \/ UndoFails(c) \/ UndoRecord(c) \/ DeleteRecord(c) \/ RecordFails(c)

Statement(c) ==
    \E t \in scen.tables :
        \/ \E good \in BOOLEAN : CreateTable(c, t, good)
        \/ \E i \in scen.indexes : CreateIndex(c, t, i)
        \/ \E r \in scen.rows : Insert(c, t, r) \/ Delete(c, t, r)
        \/ \E lines \in scen.loads : Load(c, t, lines)

Rest == \/ status = "failed"
        \/ \E a \in Actor : client[a].pc = "s_wait" /\ ~LsnFlushed(a)
        \/ (status = "up" /\ \A a \in Actor : client[a].pc = "idle")

Next ==
    \/ \E c \in Client : Statement(c) \/ Work(c)
    \/ FlushLog \/ DblwrFull \/ (\E f \in File : Evict(f) \/ \E rows \in SUBSET scen.rows : Drop(f, rows))
    \/ Destroy \/ SyncStep(Main) \/ Close
    \/ Crash \/ Start
    \/ Rest /\ UNCHANGED vars

(* The threads go on working, and a server that is down is started again.    *)
Fairness ==
    /\ \A c \in Client : WF_vars(Work(c))
    /\ WF_vars(FlushLog) /\ WF_vars(SyncStep(Main)) /\ WF_vars(Close) /\ WF_vars(Start)

Spec == Init /\ [][Next]_vars /\ Fairness

-----------------------------------------------------------------------------
(* The directory, the catalog in memory, the sessions and hist keep their    *)
(* shape, the log on disk is a part of the log and the check point is on it. *)
Images(lsns) == [rows : SUBSET Row, lsn : lsns]
Metas        == {NoMeta, EmptyMeta} \cup [id : Nat, indexes : SUBSET Index]
Records      == [id : 1 .. MaxPool, file : File, op : {"ins", "del", "alloc"}, row : Row \cup {0}]
Pcs          == {"idle", "l_line", "close"} \cup TablePcs \cup IndexPcs \cup SyncPcs \cup RowPcs
Sessions     == [pc : Pcs, t : Table \cup {""}, i : Index \cup {""}, row : Row \cup {0}, id : Nat,
                 lsn : Nat, todo : SUBSET File, did : SUBSET File, lines : Seq({"good", "bad"}),
                 load : BOOLEAN, ok : BOOLEAN]
Remembered   == [answered : SUBSET [file : File, table : Nat, pool : 1 .. MaxPool], unfinished : SUBSET File,
                 apart : SUBSET (File \X Row), late : SUBSET (File \X Row),
                 lost : SUBSET (File \X Row), refused : SUBSET (Table \X Row), stale : SUBSET File]

TypeOK ==
    /\ scen \in Scenarios /\ quota \in [Client -> Nat] /\ crashes \in Nat
    /\ log \in Seq(Records) /\ flushed \in 0 .. Len(log) /\ ckpt \in 0 .. flushed
    /\ meta \in [Table -> Metas] /\ opened \in [Table -> Metas]
    /\ file \in [File -> {NoFile, EmptyFile} \cup [id : 1 .. MaxPool, img : Images(0 .. flushed)]]
    /\ dblwr \in [1 .. MaxPool -> {NoImage} \cup Images(0 .. flushed)]
    /\ pool \in [File -> {Closed} \cup [id : 1 .. MaxPool, img : Images(0 .. Len(log))]]
    /\ status \in {"down", "up", "failed"} /\ nextTable \in Nat /\ nextPool \in 1 .. MaxPool + 1
    /\ client \in [Actor -> Sessions]
    /\ hist \in Remembered

(* A table or index whose creation was answered SUCCESS is there whenever    *)
(* the database is open, with its ids, also in the files.                    *)
AnsweredSurvives ==
    status = "up" =>
        \A x \in hist.answered :
            LET t == TableOf(x.file) IN
            /\ opened[t].id = x.table /\ meta[t].id = x.table
            /\ pool[x.file].id = x.pool
            /\ x.file # Data(t) => x.file[2] \in opened[t].indexes /\ x.file[2] \in meta[t].indexes

(* The database opens after a shutdown and after a crash, unless a statement *)
(* that creates a table or an index was refused half way or cut by a crash.  *)
DatabaseOpens == status = "failed" => hist.unfinished # {}

(* Every open pool has an id of its own and every record that a restart      *)
(* would replay into it was written for its file.                            *)
IdsDistinct ==
    /\ \A f, g \in File : Open(f) /\ Open(g) /\ f # g => pool[f].id # pool[g].id
    /\ \A f \in File, n \in Replayed : Open(f) /\ log[n].id = pool[f].id => log[n].file = f
    /\ \A t, u \in Table : opened[t] # NoMeta /\ opened[u] # NoMeta /\ t # u => opened[t].id # opened[u].id

(* An open file holds what the log says was done to it since it was created, *)
(* through every crash and restart.  Only two changes can be lost: one made  *)
(* behind a sync, after its file was flushed and before the lsn was read, by *)
(* a crash that comes before the file is written again; and an entry in a    *)
(* frame that was changed and not marked dirty, when the purger drops it.    *)
History(f, r) == {n \in 1 .. Len(log) : log[n].file = f /\ log[n].row = r}
FilesFollowLog ==
    \A f \in File : Open(f) /\ f \notin hist.stale =>
        \A r \in Row : \/ r \in pool[f].img.rows <=> History(f, r) # {} /\ log[Max(History(f, r))].op = "ins"
                       \/ <<f, r>> \in hist.lost

(* Between statements an index has an entry for exactly the rows of its      *)
(* table.  Left out: rows that a statement worked on while the index was     *)
(* created, that the creating transaction did not see, or whose statement a  *)
(* crash cut; entries and records whose removal failed; and what was lost.   *)
Excused(f, r) == \/ <<f, r>> \in hist.apart \cup hist.lost
                 \/ <<Data(TableOf(f)), r>> \in hist.lost
IndexMatches ==
    \A t \in Table : \A i \in opened[t].indexes : \A r \in Row :
        LET f == <<t, i>> IN
        f \notin hist.stale /\ OnRow(t, r) = {} /\ ~Excused(f, r) =>
            (r \in pool[f].img.rows <=> r \in pool[Data(t)].img.rows)

(* An INSERT that was refused has left neither the record nor an entry.      *)
RefusedInsertGone ==
    \A t \in Table, r \in Row :
        <<t, r>> \in hist.refused /\ OnRow(t, r) = {} =>
            \A f \in FilesOf(t, opened[t].indexes) :
                Open(f) /\ f \notin hist.stale /\ ~Excused(f, r) => r \notin pool[f].img.rows

(* Every statement is answered or ends with the process.                     *)
StatementsEnd == \A c \in Client : client[c].pc # "idle" ~> client[c].pc = "idle"

(* The catalog in the files and the one in memory agree through crashes    *)
(* and restarts: what was answered is there, and the database opens.       *)
CatalogSurvives == TypeOK /\ AnsweredSurvives /\ DatabaseOpens

(* Replay brings every change to the file it was made for and no other,    *)
(* and back to what the log says of it.                                    *)
ReplayFindsFiles == IdsDistinct /\ FilesFollowLog

(* Rows and entries go together, for inserts that stay and for those that  *)
(* are refused half way.                                                   *)
IndexesExact == IndexMatches /\ RefusedInsertGone
=============================================================================
