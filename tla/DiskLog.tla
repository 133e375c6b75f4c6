------------------------------ MODULE DiskLog ------------------------------
(***************************************************************************)
(* The write-ahead log of src/observer/storage/clog: LogEntryBuffer        *)
(* (log_buffer.cpp), DiskLogHandler (disk_log_handler.cpp) with its        *)
(* flushing thread, and LogFileReader, LogFileWriter and LogFileManager    *)
(* (log_file.cpp).                                                         *)
(*                                                                         *)
(* Client threads append entries to the buffer and may wait until an entry *)
(* is on disk; Db::sync waits for the current lsn and makes it the start   *)
(* of the next replay.  One thread moves entries to the log files, a       *)
(* header and then a payload.  A write may fail, and the process may       *)
(* crash, at every point: what a file then holds behind its last whole     *)
(* entry is an incomplete piece.                                           *)
(*                                                                         *)
(* Sizes are in units: a header takes 1 and a payload 1.                   *)
(***************************************************************************)
EXTENDS Integers, Sequences, FiniteSetsExt, SequencesExt

CONSTANTS
    Clients,            \* threads that append entries
    max_entry_number,   \* LogFileManager::max_entry_number_per_file_
    max_bytes,          \* LogEntryBuffer::max_bytes_
    LsnBound,           \* bound on the lsns handed out
    FailBound,          \* bound on failing file operations
    CrashBound          \* bound on crashes and clean stops together

ASSUME DiskLogAssumption ==
    /\ max_entry_number \in Nat \ {0}
    /\ max_bytes \in Nat \ {0}
    /\ LsnBound \in Nat /\ FailBound \in Nat /\ CrashBound \in Nat

HeaderSize == 1
PayloadSize == 1
NoFile == -1

VARIABLES
    files,           \* disk: first lsn of each file -> the pieces written to it
    check_point_lsn, \* disk: Db::check_point_lsn_ in the meta file
    log_files,       \* LogFileManager::log_files_ (its keys)
    current_lsn, flushed_lsn, bytes,
    entries,         \* LogEntryBuffer::entries_ (the lsns)
    running,         \* DiskLogHandler::running_
    thread,          \* where the flushing thread is; "none" without one
    rc,              \* the local rc of thread_func
    writer,          \* its file_writer: the open file, end_lsn_, last_lsn_
    pc, lsn,         \* per client: where it is, and the entry it waits for
    acked,           \* history: the largest lsn for which wait_lsn returned SUCCESS
    fails, crashes   \* counters for the bounds

diskVars == <<files, check_point_lsn>>
bufferVars == <<current_lsn, bytes, entries>>
threadVars == <<log_files, flushed_lsn, thread, rc, writer>>
clientVars == <<pc, lsn, acked>>
boundVars == <<fails, crashes>>
vars == <<diskVars, bufferVars, threadVars, running, clientVars, boundVars>>

(* A piece of a file: a whole entry, a header whose payload is missing or  *)
(* incomplete, or a part of a header.                                      *)
Piece == [lsn : 1 .. LsnBound, kind : {"entry", "header", "part"}]

ClosedWriter == [file |-> NoFile, end_lsn |-> 0, last_lsn |-> 0]

TypeOK ==
    /\ DOMAIN files \subseteq Nat
    /\ \A f \in DOMAIN files : files[f] \in Seq(Piece)
    /\ check_point_lsn \in 0 .. LsnBound
    /\ log_files \subseteq Nat
    /\ current_lsn \in 0 .. LsnBound
    /\ flushed_lsn \in 0 .. LsnBound
    /\ bytes \in Int
    /\ entries \in Seq(1 .. LsnBound)
    /\ running \in BOOLEAN
    /\ thread \in {"none", "loop", "flush", "write", "payload", "exit"}
    /\ rc \in {"SUCCESS", "LOG_FILE_FULL", "FILE_OPEN", "INVALID_ARGUMENT", "IOERR_WRITE"}
    /\ writer \in [file : log_files \cup {NoFile}, end_lsn : Int, last_lsn : 0 .. LsnBound]
    /\ pc \in [Clients -> {"idle", "append", "wait", "sync"}]
    /\ lsn \in [Clients -> 0 .. LsnBound]
    /\ acked \in 0 .. LsnBound
    /\ fails \in 0 .. FailBound
    /\ crashes \in 0 .. CrashBound

(* Before DiskLogHandler::init, with an empty directory. *)
Init ==
    /\ files = <<>>
    /\ check_point_lsn = 0
    /\ log_files = {}
    /\ current_lsn = 0 /\ flushed_lsn = 0 /\ bytes = 0 /\ entries = <<>>
    /\ running = FALSE /\ thread = "none" /\ rc = "SUCCESS"
    /\ writer = ClosedWriter
    /\ pc = [c \in Clients |-> "idle"]
    /\ lsn = [c \in Clients |-> 0]
    /\ acked = 0
    /\ fails = 0 /\ crashes = 0

-----------------------------------------------------------------------------
(* The readers of the log. *)

(* The whole entries of a file: their positions, and their lsns overall. *)
Whole(f) == {i \in DOMAIN files[f] : files[f][i].kind = "entry"}
WholeLsns ==
    {l \in 1 .. LsnBound : \E f \in DOMAIN files : \E i \in Whole(f) : files[f][i].lsn = l}

(* Mutant: a file is left out when its first lsn is before start_lsn. *)
list_files_ByFirst(start_lsn) == {f \in DOMAIN files : f >= start_lsn}

(* LogFileManager::list_files: the files that can hold start_lsn or later. *)
list_files(start_lsn) ==
    {f \in DOMAIN files : f + max_entry_number - 1 >= start_lsn}

(* How LogFileReader::iterate ends on a file.  An incomplete header at the *)
(* end reads as the end of the file, an incomplete payload is an error.    *)
(* When something was written behind an incomplete piece the reader is out *)
(* of step with the entries and either ends or reports an error.           *)
IterateEnds(f) ==
    LET torn == {i \in DOMAIN files[f] : files[f][i].kind # "entry"} IN
    IF torn = {} THEN {"SUCCESS"}
    ELSE IF Min(torn) < Len(files[f]) THEN {"SUCCESS", "IOERR_READ"}
    ELSE IF Last(files[f]).kind = "part" THEN {"SUCCESS"} ELSE {"IOERR_READ"}

(* The positions it delivers, in their order: skip_to passes over entries  *)
(* up to the first that is not before start_lsn, and nothing behind an     *)
(* incomplete piece is read as it was written.                             *)
iterate(f, start_lsn) ==
    {i \in DOMAIN files[f] : /\ \A j \in 1 .. i : files[f][j].kind = "entry"
                             /\ \E j \in 1 .. i : files[f][j].lsn >= start_lsn}

(* DiskLogHandler::iterate: the files in the order of their names, with    *)
(* what is delivered from each.                                            *)
IterateAll(start_lsn) ==
    [f \in list_files(start_lsn) |-> iterate(f, start_lsn)]

(* The lsns a replay from start_lsn hands to the replayers. *)
Replayed(start_lsn) ==
    {l \in 1 .. LsnBound : \E f \in DOMAIN IterateAll(start_lsn) :
        \E i \in IterateAll(start_lsn)[f] : files[f][i].lsn = l}

-----------------------------------------------------------------------------
(* Clients. *)

(* The wait of LogEntryBuffer::append for room in the buffer; _append      *)
(* asserts that the handler runs.                                          *)
append_wait(c) ==
    /\ pc[c] = "idle"
    /\ running
    /\ bytes < max_bytes
    /\ pc' = [pc EXCEPT ![c] = "append"]
    /\ UNCHANGED <<diskVars, bufferVars, threadVars, running, lsn, acked, boundVars>>

(* The rest of append, under mutex_.  The size is taken from the entry     *)
(* after it was moved into entries_, when only its header counts.  The     *)
(* caller goes on, or waits for the entry (MvccTrx::commit does).          *)
append(c) ==
    /\ pc[c] = "append"
    /\ current_lsn < LsnBound
    /\ current_lsn' = current_lsn + 1
    /\ entries' = Append(entries, current_lsn')
    /\ bytes' = bytes + HeaderSize
    /\ \/ pc' = [pc EXCEPT ![c] = "idle"] /\ UNCHANGED lsn
       \/ pc' = [pc EXCEPT ![c] = "wait"] /\ lsn' = [lsn EXCEPT ![c] = current_lsn']
    /\ UNCHANGED <<diskVars, threadVars, running, acked, boundVars>>

(* Db::sync takes the current lsn and waits for it. *)
sync(c) ==
    /\ pc[c] = "idle"
    /\ running
    /\ lsn' = [lsn EXCEPT ![c] = current_lsn]
    /\ pc' = [pc EXCEPT ![c] = "sync"]
    /\ UNCHANGED <<diskVars, bufferVars, threadVars, running, acked, boundVars>>

(* wait_lsn returns: SUCCESS when the entry is flushed, INTERNAL when the  *)
(* handler was stopped before.  Db::sync then writes the meta file.        *)
wait_lsn(c) ==
    /\ pc[c] \in {"wait", "sync"}
    /\ ~running \/ flushed_lsn >= lsn[c]
    /\ LET ok == flushed_lsn >= lsn[c] IN
         /\ acked' = IF ok THEN Max({acked, lsn[c]}) ELSE acked
         /\ check_point_lsn' = IF ok /\ pc[c] = "sync" THEN lsn[c] ELSE check_point_lsn
    /\ pc' = [pc EXCEPT ![c] = "idle"] /\ lsn' = [lsn EXCEPT ![c] = 0]
    /\ UNCHANGED <<files, bufferVars, threadVars, running, boundVars>>

-----------------------------------------------------------------------------
(* The flushing thread. *)

CanFail == fails < FailBound
Fail == CanFail /\ fails' = fails + 1

(* One turn of the loop of thread_func, up to the call of flush. *)
NeedFile == writer.file = NoFile \/ rc = "LOG_FILE_FULL"

(* Mutant: the loop ends at stop(), whatever the buffer holds. *)
thread_func_NoDrain ==
    /\ thread = "loop"
    /\ thread' = IF ~running THEN "exit" ELSE "flush"
    /\ ~running \/ ~NeedFile
    /\ UNCHANGED <<diskVars, bufferVars, log_files, flushed_lsn, rc, writer, running,
                   clientVars, boundVars>>

thread_func ==
    /\ thread = "loop"
    /\ thread' = IF ~running /\ entries = <<>> THEN "exit" ELSE "flush"
    /\ (~running /\ entries = <<>>) \/ ~NeedFile
    /\ UNCHANGED <<diskVars, bufferVars, log_files, flushed_lsn, rc, writer, running,
                   clientVars, boundVars>>

(* LogFileManager::next_file and last_file.  next_file enters the new file *)
(* into log_files_ before it opens it; an open that fails leaves the       *)
(* writer closed, and the next turn asks for last_file.                    *)
NextFile == IF log_files = {} THEN 0 ELSE Max(log_files) + max_entry_number

open_file ==
    /\ thread = "loop"
    /\ running \/ entries # <<>>
    /\ NeedFile
    /\ LET f == IF rc = "LOG_FILE_FULL" \/ log_files = {} THEN NextFile ELSE Max(log_files) IN
         /\ log_files' = log_files \cup {f}
         /\ \/ /\ files' = IF f \in DOMAIN files THEN files
                           ELSE [g \in DOMAIN files \cup {f} |->
                                   IF g = f THEN <<>> ELSE files[g]]
               /\ writer' = [writer EXCEPT !.file = f, !.end_lsn = f + max_entry_number - 1]
               /\ rc' = "SUCCESS"
               /\ thread' = "flush"
               /\ UNCHANGED fails
            \/ /\ Fail
               /\ writer' = [writer EXCEPT !.file = NoFile]
               /\ rc' = "FILE_OPEN"
               /\ UNCHANGED <<files, thread>>
    /\ UNCHANGED <<check_point_lsn, bufferVars, flushed_lsn, running, clientVars, crashes>>

(* Mutant: flushed_lsn_ is set when the entry is taken. *)
flush_Early ==
    /\ thread = "flush"
    /\ IF entries = <<>>
       THEN thread' = "loop" /\ rc' = "SUCCESS" /\ UNCHANGED <<bytes, flushed_lsn>>
       ELSE /\ thread' = "write"
            /\ bytes' = bytes - (HeaderSize + PayloadSize)
            /\ flushed_lsn' = Head(entries)
            /\ UNCHANGED rc
    /\ UNCHANGED <<diskVars, current_lsn, entries, log_files, writer, running, clientVars,
                   boundVars>>

(* LogEntryBuffer::flush takes the first entry out of the buffer, or       *)
(* returns SUCCESS when there is none.  entries keeps the entry at its     *)
(* head while the thread holds it, since every failure puts it back there. *)
flush ==
    /\ thread = "flush"
    /\ \/ /\ entries = <<>>
          /\ thread' = "loop"
          /\ rc' = "SUCCESS"
          /\ UNCHANGED bytes
       \/ /\ entries # <<>>
          /\ thread' = "write"
          /\ bytes' = bytes - (HeaderSize + PayloadSize)
          /\ UNCHANGED rc
    /\ UNCHANGED <<diskVars, current_lsn, entries, log_files, flushed_lsn, writer, running,
                   clientVars, boundVars>>

(* A failing write: the entry goes back, bytes_ is not corrected. *)
PutBack(r) == rc' = r /\ thread' = "loop"

(* LogFileWriter::write up to the header. *)
AddPiece(kind) ==
    files' = [files EXCEPT ![writer.file] = Append(@, [lsn |-> Head(entries), kind |-> kind])]

write_header ==
    /\ thread = "write"
    /\ \/ /\ Head(entries) > writer.end_lsn \/ Head(entries) <= writer.last_lsn
          /\ PutBack(IF Head(entries) > writer.end_lsn THEN "LOG_FILE_FULL"
                     ELSE "INVALID_ARGUMENT")
          /\ UNCHANGED <<files, fails>>
       \/ /\ Head(entries) <= writer.end_lsn
          /\ Head(entries) > writer.last_lsn
          /\ \/ /\ AddPiece("header")
                /\ thread' = "payload"
                /\ UNCHANGED <<rc, fails>>
             \/ /\ Fail
                /\ PutBack("IOERR_WRITE")
                /\ AddPiece("part") \/ UNCHANGED files
    /\ UNCHANGED <<check_point_lsn, bufferVars, log_files, flushed_lsn, writer, running,
                   clientVars, crashes>>

(* The payload, and the assignment of flushed_lsn_; or the payload fails   *)
(* and its header stays in the file.                                       *)
write_payload ==
    /\ thread = "payload"
    /\ \/ /\ files' = [files EXCEPT ![writer.file] =
                         Append(Front(@), [lsn |-> Head(entries), kind |-> "entry"])]
          /\ writer' = [writer EXCEPT !.last_lsn = Head(entries)]
          /\ flushed_lsn' = Head(entries)
          /\ entries' = Tail(entries)
          /\ thread' = "flush"
          /\ UNCHANGED <<rc, fails>>
       \/ /\ Fail
          /\ PutBack("IOERR_WRITE")
          /\ UNCHANGED <<files, writer, flushed_lsn, entries>>
    /\ UNCHANGED <<check_point_lsn, current_lsn, bytes, log_files, running, clientVars, crashes>>

-----------------------------------------------------------------------------
(* Start, stop and crash. *)

(* Memory as a new process finds it. *)
Forget ==
    /\ log_files' = {}
    /\ current_lsn' = 0 /\ flushed_lsn' = 0 /\ bytes' = 0 /\ entries' = <<>>
    /\ running' = FALSE /\ thread' = "none" /\ rc' = "SUCCESS"
    /\ writer' = ClosedWriter
    /\ pc' = [c \in Clients |-> "idle"]
    /\ lsn' = [c \in Clients |-> 0]

(* init, replay from the check point and start, as Db::init and recover    *)
(* call them: the largest lsn replayed becomes the current one.            *)
start ==
    /\ thread = "none"
    /\ \A f \in list_files(check_point_lsn) : "SUCCESS" \in IterateEnds(f)
    /\ log_files' = DOMAIN files
    /\ LET max_lsn == Max({0} \cup Replayed(check_point_lsn))
       IN current_lsn' = max_lsn /\ flushed_lsn' = max_lsn
    /\ running' = TRUE
    /\ thread' = "loop"
    /\ UNCHANGED <<diskVars, bytes, entries, rc, writer, clientVars, boundVars>>

(* A replay that meets an error: Db::init fails and the process ends. *)
start_failed ==
    /\ thread = "none"
    /\ \E f \in list_files(check_point_lsn) : "IOERR_READ" \in IterateEnds(f)
    /\ UNCHANGED vars

(* Db::~Db, which runs when NetServer::serve has joined the client threads. *)
stop ==
    /\ running
    /\ \A c \in Clients : pc[c] = "idle"
    /\ crashes < CrashBound
    /\ crashes' = crashes + 1
    /\ running' = FALSE
    /\ UNCHANGED <<diskVars, bufferVars, threadVars, clientVars, fails>>

(* The thread is joined and the process ends. *)
await_termination ==
    /\ thread = "exit"
    /\ Forget
    /\ UNCHANGED <<diskVars, acked, boundVars>>

Crash ==
    /\ thread # "none"
    /\ crashes < CrashBound
    /\ crashes' = crashes + 1
    /\ \/ UNCHANGED files
       \/ /\ thread = "write"
          /\ writer.last_lsn < Head(entries) /\ Head(entries) <= writer.end_lsn
          /\ AddPiece("part")
    /\ Forget
    /\ UNCHANGED <<check_point_lsn, acked, fails>>

Flusher == thread_func \/ open_file \/ flush \/ write_header \/ write_payload

Client(c) ==
    append_wait(c) \/ append(c) \/ sync(c) \/ wait_lsn(c)

Next ==
    \/ \E c \in Clients : Client(c)
    \/ Flusher
    \/ start \/ start_failed \/ stop \/ await_termination \/ Crash

(* The thread keeps running, and a client that can return from wait_lsn    *)
(* does: both are loops with a sleep.                                      *)
Fairness ==
    /\ WF_vars(Flusher)
    /\ \A c \in Clients : WF_vars(wait_lsn(c))

Spec == Init /\ [][Next]_vars /\ Fairness

-----------------------------------------------------------------------------
(* No file has anything behind an incomplete piece. *)
Clean ==
    \A f \in DOMAIN files : \A i \in 1 .. Len(files[f]) - 1 : files[f][i].kind = "entry"

(* The entry was written behind an incomplete piece of its file, which no  *)
(* replay gets past: the writer neither cuts the piece off nor begins      *)
(* another file (the warning at log_file.cpp:196).                         *)
Behind(l) ==
    \E f \in DOMAIN files : \E i \in Whole(f) :
        files[f][i].lsn = l /\ \E j \in 1 .. i - 1 : files[f][j].kind # "entry"

(* wait_lsn and Db::sync (disk_log_handler.cpp:150): an lsn reported as    *)
(* flushed, and every lsn before it, is on disk as a whole entry and is    *)
(* delivered by every replay that starts no later, whatever fails or       *)
(* crashes afterwards, unless an earlier write to its file was cut short.  *)
AckedDurable ==
    \A l \in 1 .. acked : Behind(l) \/ \A start_lsn \in 0 .. l : l \in Replayed(start_lsn)

(* The entries on disk are the lsns 1, 2, ... in the order of the files:   *)
(* no lsn is written twice, skipped, or given out again after a restart,   *)
(* as long as no failed write left an incomplete piece in the middle.      *)
LsnContiguous ==
    Clean =>
      /\ \A f, g \in DOMAIN files : \A i \in Whole(f), j \in Whole(g) :
             f < g \/ (f = g /\ i < j) => files[f][i].lsn < files[g][j].lsn
      /\ \A l \in WholeLsns : 1 .. l \subseteq WholeLsns

(* A replay from any start delivers exactly the entries from there on: the *)
(* choice of files by name (log_file.cpp:306) and the skipping in the      *)
(* first file lose none (Clean as above).                                  *)
ReplayComplete ==
    Clean => \A start_lsn \in 0 .. LsnBound : \A f \in DOMAIN files :
        {i \in Whole(f) : files[f][i].lsn >= start_lsn} =
            IF f \in DOMAIN IterateAll(start_lsn) THEN IterateAll(start_lsn)[f] ELSE {}

(* Every appended entry is flushed, also the ones that stop() finds in the *)
(* buffer (disk_log_handler.cpp:177), unless the process crashes before.   *)
EventuallyFlushed ==
    \A l \in 1 .. LsnBound :
        (\E i \in DOMAIN entries : entries[i] = l) ~>
            (flushed_lsn >= l \/ thread = "none")

(* wait_lsn returns, for a commit and for Db::sync, although the flushing  *)
(* thread may fail to write in between (disk_log_handler.cpp:150).         *)
WaitReturns ==
    \A c \in Clients : (pc[c] \in {"wait", "sync"}) ~> (pc[c] \notin {"wait", "sync"})

(* The files hold the lsns in order without a gap, and a replay from any   *)
(* point delivers exactly what they hold from there on.                    *)
ReplayExact == TypeOK /\ LsnContiguous /\ ReplayComplete

(* The flushing thread gets every entry to the disk, and whoever waits for *)
(* one goes on.                                                            *)
LogProgress == EventuallyFlushed /\ WaitReturns
=============================================================================
