--------------------------- MODULE DiskLogProofs ---------------------------
(***************************************************************************)
(* Proofs about DiskLog for every set of clients, every file size and      *)
(* every bound: what wait_lsn acknowledged is on disk, and a replay        *)
(* delivers what the files hold.                                           *)
(*                                                                         *)
(* Neither is inductive.  That the entry written next has the next lsn     *)
(* rests on the buffer being contiguous behind flushed_lsn, and that it    *)
(* belongs into the open file rests on how the files were chosen before,   *)
(* in this process and in the ones before it.                              *)
(***************************************************************************)
EXTENDS DiskLog, SequenceTheorems, WellFoundedInduction, TLAPS

(* The buffer holds the lsns behind flushed_lsn, up to current_lsn. *)
BufferInv ==
    /\ current_lsn = flushed_lsn + Len(entries)
    /\ \A i \in 1 .. Len(entries) : entries[i] = flushed_lsn + i
    /\ thread \in {"write", "payload"} => entries # <<>>
    /\ thread = "none" =>
           /\ log_files = {} /\ entries = <<>> /\ writer = ClosedWriter
           /\ rc = "SUCCESS" /\ ~running
           /\ pc = [c \in Clients |-> "idle"]

(* The lsns on disk have no gap, and flushed_lsn and the check point are   *)
(* among them.                                                             *)
DiskInv ==
    /\ 1 .. flushed_lsn \subseteq WholeLsns
    /\ 1 .. acked \subseteq WholeLsns
    /\ 1 .. check_point_lsn \subseteq WholeLsns
    /\ \A l \in WholeLsns : 1 .. l \subseteq WholeLsns

(* A set of files that has a last one, unless it is empty. *)
HasLast(S) == S = {} \/ \E m \in S : \A f \in S : f <= m

(* The files are max_entry_number apart, and one is begun only when every  *)
(* lsn before it is on disk.                                               *)
FilesInv ==
    /\ thread # "none" => DOMAIN files \subseteq log_files
    /\ HasLast(DOMAIN files) /\ HasLast(log_files)
    /\ \A f, g \in DOMAIN files \cup log_files : f < g => f + max_entry_number <= g
    /\ \A f \in DOMAIN files \cup log_files : 1 .. f - 1 \subseteq WholeLsns

(* The open file is the last one. *)
WriterInv ==
    /\ writer.file # NoFile =>
           /\ writer.file \in DOMAIN files
           /\ \A f \in log_files : f <= writer.file
           /\ writer.end_lsn = writer.file + max_entry_number - 1
    /\ thread \in {"flush", "write", "payload"} => writer.file # NoFile
    /\ thread = "payload" =>
           /\ files[writer.file] # <<>>
           /\ Last(files[writer.file]) = [lsn |-> Head(entries), kind |-> "header"]
           /\ Head(entries) <= writer.end_lsn
    /\ rc = "LOG_FILE_FULL" =>
           /\ thread = "loop" /\ entries # <<>>
           /\ \A f \in log_files : f + max_entry_number <= Head(entries)

(* No file holds an lsn behind the ones its name says, whatever failed. *)
RangeInv ==
    \A f \in DOMAIN files : \A i \in Whole(f) : files[f][i].lsn < f + max_entry_number

(* While no incomplete piece is in the middle of a file, no lsn above      *)
(* flushed_lsn is on disk, and a file holds the lsns its name says, in     *)
(* their order.                                                            *)
CleanInv ==
    /\ RangeInv
    /\ Clean =>
      /\ thread # "none" => WholeLsns \subseteq 1 .. flushed_lsn
      /\ \A f \in DOMAIN files : \A i, j \in Whole(f) :
             i < j => files[f][i].lsn < files[f][j].lsn
      /\ \A f \in DOMAIN files : \A i \in Whole(f) :
             f <= files[f][i].lsn /\ files[f][i].lsn < f + max_entry_number

IInv == TypeOK /\ BufferInv /\ DiskInv /\ FilesInv /\ WriterInv /\ CleanInv

(* A step that keeps the whole entries of every file where they are. *)
SameEntries ==
    /\ DOMAIN files' = DOMAIN files
    /\ \A f \in DOMAIN files : Whole(f)' = Whole(f)
    /\ \A f \in DOMAIN files : \A i \in Whole(f) : files'[f][i] = files[f][i]
    /\ Clean' => Clean

-----------------------------------------------------------------------------
(* The operators. *)

(* Max is the last file. *)
LEMMA MaxLast ==
    ASSUME NEW S, S \subseteq Int, S # {}, HasLast(S)
    PROVE  Max(S) \in S /\ \A f \in S : f <= Max(S)
  <1>1. PICK m \in S : \A f \in S : f <= m
    BY DEF HasLast
  <1>2. m \in S /\ \A y \in S : m >= y
    BY <1>1
  <1> QED BY <1>2 DEF Max

(* A set of lsns has a largest one: the order of the naturals, upside down, *)
(* is well founded below the bound.                                         *)
LEMMA LsnsHaveLast ==
    ASSUME NEW S, S \subseteq 0 .. LsnBound, S # {}
    PROVE  Max(S) \in S /\ \A l \in S : l <= Max(S)
  <1> DEFINE T == {LsnBound - l : l \in S}
  <1> USE DiskLogAssumption
  <1>0. S \subseteq Int
    OBVIOUS
  <1>1. T \subseteq Nat /\ T # {}
    <2>1. \A l \in S : l \in 0 .. LsnBound
      OBVIOUS
    <2>2. \A l \in S : LsnBound - l \in Nat
      BY <2>1
    <2> QED BY <2>2
  <1>2. PICK x \in T : \A y \in T : ~(<<y, x>> \in OpToRel(<, Nat))
    <2> HIDE DEF T
    <2> QED BY <1>1, NatLessThanWellFounded, WFMin
  <1>3. \A y \in T : ~(y < x)
    <2> SUFFICES ASSUME NEW y \in T, y < x PROVE FALSE
      OBVIOUS
    <2>1. <<y, x>> \in OpToRel(<, Nat)
      <3> HIDE DEF T
      <3> QED BY <1>1 DEF OpToRel
    <2> QED BY <2>1, <1>2
  <1>4. PICK m \in S : x = LsnBound - m
    OBVIOUS
  <1>5. \A l \in S : l <= m
    <2> SUFFICES ASSUME NEW l \in S PROVE l <= m
      OBVIOUS
    <2>1. LsnBound - l \in T
      OBVIOUS
    <2> QED BY <1>3, <1>4, <2>1
  <1>6. HasLast(S)
    BY <1>5 DEF HasLast
  <1> QED BY <1>0, <1>6, MaxLast

LEMMA SameFiles == UNCHANGED files => SameEntries
  BY DEF SameEntries, Whole, Clean

(* The lsns on disk are those of the entries. *)
LEMMA SameLsns == SameEntries => WholeLsns' = WholeLsns
  BY DEF SameEntries, WholeLsns

(* A piece that is no entry, put behind a file. *)
LEMMA AddPieceStep ==
    ASSUME TypeOK, NEW w \in DOMAIN files, NEW p \in Piece, p.kind # "entry",
           files' = [files EXCEPT ![w] = Append(@, p)]
    PROVE  /\ SameEntries
           /\ \A f \in DOMAIN files' : files'[f] \in Seq(Piece)
           /\ files'[w] # <<>> /\ Last(files'[w]) = p
  <1>1. DOMAIN files' = DOMAIN files /\ \A f \in DOMAIN files : f # w => files'[f] = files[f]
    OBVIOUS
  <1>2. files[w] \in Seq(Piece) /\ files'[w] = Append(files[w], p)
    BY DEF TypeOK
  <1>3. /\ files'[w] \in Seq(Piece)
        /\ Len(files'[w]) = Len(files[w]) + 1
        /\ \A i \in 1 .. Len(files[w]) : files'[w][i] = files[w][i]
        /\ files'[w][Len(files[w]) + 1] = p
    BY <1>2
  <1>4. \A f \in DOMAIN files : Whole(f)' = Whole(f)
    <2> SUFFICES ASSUME NEW f \in DOMAIN files PROVE Whole(f)' = Whole(f)
      OBVIOUS
    <2>1. CASE f # w
      BY <2>1, <1>1 DEF Whole
    <2>2. CASE f = w
      BY <2>2, <1>2, <1>3 DEF Whole
    <2> QED BY <2>1, <2>2
  <1>5. \A f \in DOMAIN files : \A i \in Whole(f) : files'[f][i] = files[f][i]
    BY <1>1, <1>2, <1>3 DEF Whole
  <1>6. Clean' => Clean
    <2> SUFFICES ASSUME Clean', NEW f \in DOMAIN files, NEW i \in 1 .. Len(files[f]) - 1
                 PROVE  files[f][i].kind = "entry"
      BY DEF Clean
    <2>1. CASE f # w
      BY <2>1, <1>1 DEF Clean
    <2>2. CASE f = w
      <3>1. i \in 1 .. Len(files'[w]) - 1 /\ i \in 1 .. Len(files[w])
        BY <2>2, <1>2, <1>3
      <3>2. files'[w][i].kind = "entry"
        BY <3>1, <1>1 DEF Clean
      <3> QED BY <2>2, <3>1, <3>2, <1>3
    <2> QED BY <2>1, <2>2
  <1>7. \A f \in DOMAIN files' : files'[f] \in Seq(Piece)
    BY <1>1, <1>3 DEF TypeOK
  <1>8. files'[w] # <<>> /\ Last(files'[w]) = p
    BY <1>3, <1>2 DEF Last
  <1> QED BY <1>1, <1>4, <1>5, <1>6, <1>7, <1>8 DEF SameEntries

(* What a step that keeps the entries leaves of the invariants about them. *)
LEMMA CleanKept ==
    ASSUME CleanInv, SameEntries, thread' # "none" => thread # "none" /\ flushed_lsn' = flushed_lsn
    PROVE  CleanInv'
  <1>1. WholeLsns' = WholeLsns
    BY SameLsns
  <1>2. RangeInv'
    BY DEF CleanInv, RangeInv, SameEntries
  <1> QED BY <1>1, <1>2 DEF CleanInv, SameEntries

-----------------------------------------------------------------------------
(* The clients. *)

LEMMA InvInit == Init => IInv
  <1> SUFFICES ASSUME Init PROVE IInv
    OBVIOUS
  <1> USE DiskLogAssumption DEF Init
  <1>0. DOMAIN files = {} /\ WholeLsns = {}
    BY DEF WholeLsns
  <1>1. TypeOK
    <2>1. writer \in [file : log_files \cup {NoFile}, end_lsn : Int, last_lsn : 0 .. LsnBound]
      BY DEF ClosedWriter
    <2>2. 0 \in 0 .. LsnBound /\ 0 \in 0 .. FailBound /\ 0 \in 0 .. CrashBound
      OBVIOUS
    <2>3. entries \in Seq(1 .. LsnBound)
      BY EmptySeq
    <2>4. pc \in [Clients -> {"idle", "append", "wait", "sync"}] /\ lsn \in [Clients -> 0 .. LsnBound]
      BY <2>2
    <2>5. DOMAIN files \subseteq Nat /\ \A f \in DOMAIN files : files[f] \in Seq(Piece)
      BY <1>0
    <2> HIDE DEF Init
    <2>6. /\ check_point_lsn = 0 /\ log_files = {} /\ current_lsn = 0 /\ flushed_lsn = 0
          /\ bytes = 0 /\ running \in BOOLEAN /\ thread = "none" /\ rc = "SUCCESS"
          /\ acked = 0 /\ fails = 0 /\ crashes = 0
      BY DEF Init
    <2> QED BY <2>1, <2>2, <2>3, <2>4, <2>5, <2>6 DEF TypeOK
  <1>2. BufferInv
    BY DEF BufferInv
  <1>3. DiskInv
    BY <1>0 DEF DiskInv
  <1>4. FilesInv
    BY <1>0 DEF FilesInv, HasLast
  <1>5. WriterInv
    BY DEF WriterInv, ClosedWriter
  <1>6. CleanInv
    BY <1>0 DEF CleanInv, RangeInv
  <1> QED BY <1>1, <1>2, <1>3, <1>4, <1>5, <1>6 DEF IInv

(* A client that takes its place in a queue. *)
LEMMA WaitStep ==
    ASSUME IInv, NEW c \in Clients, append_wait(c) \/ sync(c) PROVE IInv'
  <1> USE DEF diskVars, bufferVars, threadVars, clientVars, boundVars
  <1>0. UNCHANGED <<files, check_point_lsn, current_lsn, bytes, entries, log_files, flushed_lsn,
                    thread, rc, writer, running, acked, boundVars>>
        /\ running
    BY DEF append_wait, sync
  <1>a. SameEntries /\ WholeLsns' = WholeLsns
    BY <1>0, SameFiles, SameLsns
  <1>1. TypeOK'
    BY <1>0 DEF IInv, TypeOK, append_wait, sync
  <1>2. BufferInv'
    BY <1>0 DEF IInv, BufferInv
  <1>3. DiskInv'
    BY <1>0, <1>a DEF IInv, DiskInv
  <1>4. FilesInv'
    BY <1>0, <1>a DEF IInv, FilesInv
  <1>5. WriterInv'
    BY <1>0 DEF IInv, WriterInv
  <1>6. CleanInv'
    BY <1>0, <1>a, CleanKept DEF IInv
  <1> QED BY <1>1, <1>2, <1>3, <1>4, <1>5, <1>6 DEF IInv

LEMMA AppendStep ==
    ASSUME IInv, NEW c \in Clients, append(c) PROVE IInv'
  <1> USE DiskLogAssumption DEF diskVars, threadVars, boundVars
  <1>0. UNCHANGED <<files, check_point_lsn, log_files, flushed_lsn, thread, rc, writer, running,
                    acked, fails, crashes>>
    BY DEF append
  <1>a. SameEntries /\ WholeLsns' = WholeLsns
    BY <1>0, SameFiles, SameLsns
  <1>b. thread # "none"
    BY DEF append, IInv, BufferInv
  <1>c. entries \in Seq(1 .. LsnBound) /\ current_lsn' \in 1 .. LsnBound
    BY DEF append, IInv, TypeOK
  <1>d. /\ entries' \in Seq(1 .. LsnBound)
        /\ Len(entries') = Len(entries) + 1
        /\ \A i \in 1 .. Len(entries) : entries'[i] = entries[i]
        /\ entries'[Len(entries) + 1] = current_lsn'
        /\ entries # <<>> => Head(entries') = Head(entries)
        /\ entries' # <<>>
    BY <1>c DEF append
  <1>1. TypeOK'
    <2>1. /\ pc' \in [Clients -> {"idle", "append", "wait", "sync"}]
          /\ lsn' \in [Clients -> 0 .. LsnBound]
          /\ bytes' \in Int
      <3>1. current_lsn' \in 0 .. LsnBound
        BY <1>c
      <3>2. bytes' \in Int
        BY DEF IInv, TypeOK, append, HeaderSize
      <3>3. pc' \in [Clients -> {"idle", "append", "wait", "sync"}]
        BY DEF IInv, TypeOK, append
      <3>4. lsn' = lsn \/ lsn' = [lsn EXCEPT ![c] = current_lsn']
        BY DEF append
      <3>5. lsn' \in [Clients -> 0 .. LsnBound]
        <4> HIDE DiskLogAssumption
        <4>1. lsn \in [Clients -> 0 .. LsnBound]
          BY DEF IInv, TypeOK
        <4> QED BY <3>1, <3>4, <4>1
      <3> QED BY <3>2, <3>3, <3>5
    <2> QED BY <1>0, <1>c, <1>d, <2>1 DEF IInv, TypeOK
  <1>2. BufferInv'
    <2>1. current_lsn' = flushed_lsn' + Len(entries')
      BY <1>0, <1>c, <1>d DEF IInv, BufferInv, TypeOK, append
    <2>2. \A i \in 1 .. Len(entries') : entries'[i] = flushed_lsn' + i
      <3> SUFFICES ASSUME NEW i \in 1 .. Len(entries') PROVE entries'[i] = flushed_lsn' + i
        OBVIOUS
      <3>1. i \in 1 .. Len(entries) \/ i = Len(entries')
        BY <1>c, <1>d
      <3> QED BY <3>1, <2>1, <1>0, <1>d DEF IInv, BufferInv
    <2> QED BY <1>0, <1>b, <1>d, <2>1, <2>2 DEF BufferInv
  <1>3. DiskInv'
    BY <1>0, <1>a DEF IInv, DiskInv
  <1>4. FilesInv'
    BY <1>0, <1>a DEF IInv, FilesInv
  <1>5. WriterInv'
    BY <1>0, <1>d DEF IInv, WriterInv, BufferInv
  <1>6. CleanInv'
    BY <1>0, <1>a, CleanKept DEF IInv
  <1> QED BY <1>1, <1>2, <1>3, <1>4, <1>5, <1>6 DEF IInv

(* wait_lsn reports and checkpoints lsns up to flushed_lsn only. *)
LEMMA WaitLsnStep ==
    ASSUME IInv, NEW c \in Clients, wait_lsn(c) PROVE IInv'
  <1> USE DiskLogAssumption DEF bufferVars, threadVars, boundVars
  <1>0. UNCHANGED <<files, current_lsn, bytes, entries, log_files, flushed_lsn, thread, rc, writer,
                    running, fails, crashes>>
    BY DEF wait_lsn
  <1>a. SameEntries /\ WholeLsns' = WholeLsns
    BY <1>0, SameFiles, SameLsns
  <1>b. lsn[c] \in 0 .. LsnBound /\ acked \in 0 .. LsnBound /\ flushed_lsn \in 0 .. LsnBound
    BY DEF IInv, TypeOK
  <1>c. Max({acked, lsn[c]}) \in {acked, lsn[c]}
    BY <1>b, LsnsHaveLast
  <1>d. acked' = acked \/ (acked' \in {acked, lsn[c]} /\ lsn[c] <= flushed_lsn)
    BY <1>b, <1>c DEF wait_lsn
  <1>e. check_point_lsn' = check_point_lsn \/ (check_point_lsn' = lsn[c] /\ lsn[c] <= flushed_lsn)
    BY <1>b DEF wait_lsn
  <1>1. TypeOK'
    BY <1>0, <1>b, <1>d, <1>e DEF IInv, TypeOK, wait_lsn
  <1>2. BufferInv'
    BY <1>0 DEF IInv, BufferInv, TypeOK, wait_lsn
  <1>3. DiskInv'
    BY <1>0, <1>a, <1>b, <1>d, <1>e DEF IInv, DiskInv
  <1>4. FilesInv'
    BY <1>0, <1>a DEF IInv, FilesInv
  <1>5. WriterInv'
    BY <1>0 DEF IInv, WriterInv
  <1>6. CleanInv'
    BY <1>0, <1>a, CleanKept DEF IInv
  <1> QED BY <1>1, <1>2, <1>3, <1>4, <1>5, <1>6 DEF IInv

-----------------------------------------------------------------------------
(* The flushing thread. *)

LEMMA ThreadFuncStep ==
    ASSUME IInv, thread_func PROVE IInv'
  <1> USE DEF diskVars, bufferVars, clientVars, boundVars
  <1>0. UNCHANGED <<files, check_point_lsn, current_lsn, bytes, entries, log_files, flushed_lsn,
                    rc, writer, running, pc, lsn, acked, fails, crashes>>
        /\ thread = "loop" /\ thread' \in {"exit", "flush"}
    BY DEF thread_func
  <1>a. SameEntries /\ WholeLsns' = WholeLsns
    BY <1>0, SameFiles, SameLsns
  <1>1. TypeOK'
    BY <1>0 DEF IInv, TypeOK
  <1>2. BufferInv'
    BY <1>0 DEF IInv, BufferInv
  <1>3. DiskInv'
    BY <1>0, <1>a DEF IInv, DiskInv
  <1>4. FilesInv'
    BY <1>0, <1>a DEF IInv, FilesInv
  <1>5. WriterInv'
    BY <1>0 DEF IInv, WriterInv, thread_func, NeedFile
  <1>6. CleanInv'
    BY <1>0, <1>a, CleanKept DEF IInv
  <1> QED BY <1>1, <1>2, <1>3, <1>4, <1>5, <1>6 DEF IInv

LEMMA FlushStep ==
    ASSUME IInv, flush PROVE IInv'
  <1> USE DEF diskVars, clientVars, boundVars
  <1>0. UNCHANGED <<files, check_point_lsn, current_lsn, entries, log_files, flushed_lsn,
                    writer, running, pc, lsn, acked, fails, crashes>>
        /\ thread = "flush" /\ thread' \in {"loop", "write"}
    BY DEF flush
  <1>a. SameEntries /\ WholeLsns' = WholeLsns
    BY <1>0, SameFiles, SameLsns
  <1>1. TypeOK'
    BY <1>0 DEF IInv, TypeOK, flush, HeaderSize, PayloadSize
  <1>2. BufferInv'
    BY <1>0 DEF IInv, BufferInv, flush
  <1>3. DiskInv'
    BY <1>0, <1>a DEF IInv, DiskInv
  <1>4. FilesInv'
    BY <1>0, <1>a DEF IInv, FilesInv
  <1>5. WriterInv'
    BY <1>0 DEF IInv, WriterInv, flush
  <1>6. CleanInv'
    BY <1>0, <1>a, CleanKept DEF IInv
  <1> QED BY <1>1, <1>2, <1>3, <1>4, <1>5, <1>6 DEF IInv

(* The file that last_file or next_file opens: the last one, or one behind *)
(* all others that begins at the next lsn at the latest.                   *)
LEMMA FileToOpen ==
    ASSUME IInv, thread = "loop", NEW f,
           f = IF rc = "LOG_FILE_FULL" \/ log_files = {} THEN NextFile ELSE Max(log_files)
    PROVE  /\ f \in Nat
           /\ \A g \in log_files : g = f \/ g + max_entry_number <= f
           /\ 1 .. f - 1 \subseteq WholeLsns
  <1> USE DiskLogAssumption
  <1>1. log_files \subseteq Nat /\ log_files \subseteq Int
    BY DEF IInv, TypeOK
  <1>2. CASE log_files = {}
    BY <1>2 DEF NextFile
  <1>3. CASE log_files # {} /\ rc = "LOG_FILE_FULL"
    <2> DEFINE m == Max(log_files)
    <2>1. f = m + max_entry_number
      BY <1>3 DEF NextFile
    <2>2. m \in log_files /\ \A g \in log_files : g <= m
      BY <1>1, <1>3, MaxLast DEF IInv, FilesInv
    <2> HIDE DEF m
    <2>3. entries \in Seq(1 .. LsnBound) /\ entries # <<>> /\ Head(entries) = entries[1]
          /\ flushed_lsn \in Nat
      BY <1>3 DEF IInv, WriterInv, TypeOK
    <2>4. Head(entries) = flushed_lsn + 1
      BY <2>3 DEF IInv, BufferInv
    <2>5. f <= flushed_lsn + 1
      BY <1>3, <2>1, <2>2, <2>4 DEF IInv, WriterInv
    <2>6. f \in Nat
      BY <1>1, <2>1, <2>2
    <2>7. 1 .. f - 1 \subseteq 1 .. flushed_lsn
      BY <2>3, <2>5, <2>6
    <2>8. \A g \in log_files : g + max_entry_number <= f
      BY <1>1, <2>1, <2>2
    <2> QED BY <2>6, <2>7, <2>8 DEF IInv, DiskInv
  <1>4. CASE log_files # {} /\ rc # "LOG_FILE_FULL"
    <2>1. f \in log_files /\ \A g \in log_files : g <= f
      BY <1>1, <1>4, MaxLast DEF IInv, FilesInv
    <2>2. \A g \in log_files : g < f => g + max_entry_number <= f
      BY <2>1 DEF IInv, FilesInv
    <2> QED BY <1>1, <2>1, <2>2 DEF IInv, FilesInv
  <1> QED BY <1>2, <1>3, <1>4

LEMMA OpenFileStep ==
    ASSUME IInv, open_file PROVE IInv'
  <1> USE DiskLogAssumption DEF bufferVars, clientVars
  <1> DEFINE f == IF rc = "LOG_FILE_FULL" \/ log_files = {} THEN NextFile ELSE Max(log_files)
  <1>0. UNCHANGED <<check_point_lsn, current_lsn, bytes, entries, flushed_lsn, running,
                    pc, lsn, acked, crashes>>
        /\ thread = "loop" /\ log_files' = log_files \cup {f}
    BY DEF open_file
  <1>1. /\ f \in Nat
        /\ \A g \in log_files : g = f \/ g + max_entry_number <= f
        /\ 1 .. f - 1 \subseteq WholeLsns
    BY <1>0, FileToOpen
  <1>2. \/ /\ files' = IF f \in DOMAIN files THEN files
                       ELSE [g \in DOMAIN files \cup {f} |-> IF g = f THEN <<>> ELSE files[g]]
           /\ writer' = [writer EXCEPT !.file = f, !.end_lsn = f + max_entry_number - 1]
           /\ rc' = "SUCCESS"
           /\ thread' = "flush"
           /\ UNCHANGED fails
        \/ /\ Fail
           /\ writer' = [writer EXCEPT !.file = NoFile]
           /\ rc' = "FILE_OPEN"
           /\ UNCHANGED <<files, thread>>
    BY DEF open_file
  <1> HIDE DEF f
  <1>3. /\ DOMAIN files \subseteq log_files /\ DOMAIN files \subseteq DOMAIN files'
        /\ DOMAIN files' \subseteq log_files'
        /\ \A g \in DOMAIN files : files'[g] = files[g]
        /\ \A g \in DOMAIN files' : g \notin DOMAIN files => files'[g] = <<>>
    BY <1>0, <1>2 DEF IInv, FilesInv
  <1>4. /\ \A g \in DOMAIN files : Whole(g)' = Whole(g)
        /\ \A g \in DOMAIN files' : g \notin DOMAIN files => Whole(g)' = {}
    BY <1>3 DEF Whole
  <1>5. WholeLsns' = WholeLsns
    BY <1>3, <1>4 DEF WholeLsns, Whole
  <1>6. Clean' => Clean
    BY <1>3 DEF Clean
  <1>7. DOMAIN files' = DOMAIN files \/ DOMAIN files' = DOMAIN files \cup {f}
    BY <1>2
  <1>a. \A g \in log_files : g \in Int /\ g <= f
    BY <1>1 DEF IInv, TypeOK
  <1>b. log_files' \subseteq Nat /\ HasLast(log_files') /\ HasLast(DOMAIN files')
    <2>1. log_files' \subseteq Nat
      BY <1>0, <1>1 DEF IInv, TypeOK
    <2>2. HasLast(log_files')
      BY <1>0, <1>1, <1>a DEF HasLast
    <2>3. HasLast(DOMAIN files')
      <3>1. CASE DOMAIN files' = DOMAIN files
        BY <3>1 DEF IInv, FilesInv
      <3>2. CASE DOMAIN files' = DOMAIN files \cup {f}
        <4>1. f \in DOMAIN files' /\ \A g \in DOMAIN files' : g <= f
          BY <3>2, <1>1, <1>3, <1>a
        <4> QED BY <4>1 DEF HasLast
      <3> QED BY <1>7, <3>1, <3>2
    <2> QED BY <2>1, <2>2, <2>3
  <1>8. TypeOK'
    <2>1. \A g \in DOMAIN files' : files'[g] \in Seq(Piece)
      <3>1. \A g \in DOMAIN files : files[g] \in Seq(Piece)
        BY DEF IInv, TypeOK
      <3> QED BY <1>3, <3>1, EmptySeq
    <2>2. writer \in [file : log_files \cup {NoFile}, end_lsn : Int, last_lsn : 0 .. LsnBound]
      BY DEF IInv, TypeOK
    <2>3. writer' \in [file : log_files' \cup {NoFile}, end_lsn : Int, last_lsn : 0 .. LsnBound]
      <3>1. f + max_entry_number - 1 \in Int /\ f \in log_files'
            /\ log_files \subseteq log_files'
        BY <1>0, <1>1
      <3> HIDE DiskLogAssumption
      <3>2. CASE writer' = [writer EXCEPT !.file = f, !.end_lsn = f + max_entry_number - 1]
        BY <2>2, <3>1, <3>2
      <3>3. CASE writer' = [writer EXCEPT !.file = NoFile]
        BY <2>2, <3>3
      <3> QED BY <1>2, <3>2, <3>3
    <2>4. thread' \in {"loop", "flush"} /\ rc' \in {"SUCCESS", "FILE_OPEN"}
      BY <1>0, <1>2
    <2>5. fails' \in 0 .. FailBound
      BY <1>2 DEF Fail, CanFail, IInv, TypeOK
    <2>6. DOMAIN files' \subseteq Nat
      BY <1>3, <1>b
    <2> QED BY <1>0, <1>b, <2>1, <2>3, <2>4, <2>5, <2>6 DEF IInv, TypeOK
  <1>9. BufferInv'
    BY <1>0, <1>2 DEF IInv, BufferInv
  <1>10. DiskInv'
    BY <1>0, <1>5 DEF IInv, DiskInv
  <1>11. FilesInv'
    <2>1. DOMAIN files' \cup log_files' = log_files \cup {f}
      BY <1>0, <1>3
    <2>2. \A g, h \in log_files \cup {f} : g < h => g + max_entry_number <= h
      BY <1>1, <1>a DEF IInv, FilesInv
    <2>3. \A g \in log_files \cup {f} : 1 .. g - 1 \subseteq WholeLsns
      BY <1>1 DEF IInv, FilesInv
    <2> QED BY <1>3, <1>5, <1>b, <2>1, <2>2, <2>3 DEF FilesInv
  <1>12. WriterInv'
    <2>1. writer \in [file : log_files \cup {NoFile}, end_lsn : Int, last_lsn : 0 .. LsnBound]
      BY DEF IInv, TypeOK
    <2>2. f # NoFile
      BY <1>1 DEF NoFile
    <2>3. CASE writer'.file = NoFile /\ thread' = "loop" /\ rc' = "FILE_OPEN"
      BY <2>3 DEF WriterInv
    <2>4. CASE /\ files' = IF f \in DOMAIN files THEN files
                           ELSE [g \in DOMAIN files \cup {f} |-> IF g = f THEN <<>> ELSE files[g]]
               /\ writer' = [writer EXCEPT !.file = f, !.end_lsn = f + max_entry_number - 1]
               /\ rc' = "SUCCESS" /\ thread' = "flush"
      <3>1. writer'.file = f /\ writer'.end_lsn = f + max_entry_number - 1 /\ f \in DOMAIN files'
        BY <2>1, <2>4
      <3>2. \A g \in log_files' : g <= writer'.file
        BY <1>0, <1>1, <1>a, <3>1
      <3> QED BY <2>4, <3>1, <3>2, <2>2 DEF WriterInv
    <2> QED BY <1>0, <1>2, <2>1, <2>3, <2>4
  <1>13. CleanInv'
    <2>0. RangeInv'
      BY <1>3, <1>4 DEF IInv, CleanInv, RangeInv
    <2> SUFFICES ASSUME Clean' PROVE CleanInv'
      BY <2>0 DEF CleanInv
    <2>1. WholeLsns' \subseteq 1 .. flushed_lsn'
      BY <1>0, <1>5, <1>6 DEF IInv, CleanInv
    <2>2. \A g \in DOMAIN files' : g \in DOMAIN files \/ Whole(g)' = {}
      BY <1>4
    <2> QED BY <1>3, <1>4, <1>6, <2>0, <2>1, <2>2 DEF IInv, CleanInv
  <1> QED BY <1>8, <1>9, <1>10, <1>11, <1>12, <1>13 DEF IInv

(* The thread holds the entry behind flushed_lsn, for the open file. *)
LEMMA HeldEntry ==
    ASSUME IInv, thread \in {"write", "payload"}
    PROVE  /\ entries \in Seq(1 .. LsnBound) /\ entries # <<>>
           /\ Head(entries) = entries[1] /\ Head(entries) = flushed_lsn + 1
           /\ Head(entries) \in 1 .. LsnBound
           /\ writer.file \in DOMAIN files /\ writer.file \in Nat
           /\ writer.end_lsn = writer.file + max_entry_number - 1
           /\ \A f \in log_files : f <= writer.file
  <1> USE DiskLogAssumption
  <1>1. entries \in Seq(1 .. LsnBound) /\ entries # <<>>
    BY DEF IInv, BufferInv, TypeOK
  <1>2. Head(entries) = entries[1] /\ Head(entries) \in 1 .. LsnBound /\ 1 \in 1 .. Len(entries)
    BY <1>1
  <1>3. Head(entries) = flushed_lsn + 1
    BY <1>2 DEF IInv, BufferInv
  <1>4. writer.file # NoFile
    BY DEF IInv, WriterInv
  <1> QED BY <1>1, <1>2, <1>3, <1>4 DEF IInv, WriterInv, TypeOK

LEMMA WriteHeaderStep ==
    ASSUME IInv, write_header PROVE IInv'
  <1> USE DiskLogAssumption DEF bufferVars, clientVars
  <1>0. UNCHANGED <<check_point_lsn, current_lsn, bytes, entries, log_files, flushed_lsn, writer,
                    running, pc, lsn, acked, crashes>>
        /\ thread = "write" /\ thread' \in {"loop", "payload"}
        /\ rc' \in {rc, "LOG_FILE_FULL", "INVALID_ARGUMENT", "IOERR_WRITE"}
        /\ fails' \in 0 .. FailBound
    BY DEF write_header, PutBack, Fail, CanFail, IInv, TypeOK
  <1>1. /\ entries \in Seq(1 .. LsnBound) /\ entries # <<>>
        /\ Head(entries) \in 1 .. LsnBound
        /\ writer.file \in DOMAIN files /\ writer.file \in Nat
        /\ writer.end_lsn = writer.file + max_entry_number - 1
        /\ \A f \in log_files : f <= writer.file
    BY <1>0, HeldEntry
  <1>2. rc # "LOG_FILE_FULL"
    BY <1>0 DEF IInv, WriterInv
  <1>3. \/ UNCHANGED files /\ thread' = "loop" /\ rc' # "LOG_FILE_FULL"
        \/ UNCHANGED files /\ thread' = "loop" /\ Head(entries) > writer.end_lsn
        \/ AddPiece("part") /\ thread' = "loop" /\ rc' # "LOG_FILE_FULL"
        \/ /\ AddPiece("header") /\ thread' = "payload" /\ rc' # "LOG_FILE_FULL"
           /\ Head(entries) <= writer.end_lsn
    BY <1>2 DEF write_header, PutBack
  <1>4. \A kind \in {"part", "header"} :
            /\ [lsn |-> Head(entries), kind |-> kind] \in Piece
            /\ [lsn |-> Head(entries), kind |-> kind].kind # "entry"
    BY <1>1 DEF Piece
  <1>5. /\ SameEntries
        /\ \A f \in DOMAIN files' : files'[f] \in Seq(Piece)
        /\ thread' = "payload" =>
              /\ files'[writer.file] # <<>>
              /\ Last(files'[writer.file]) = [lsn |-> Head(entries), kind |-> "header"]
    <2>1. CASE UNCHANGED files /\ thread' = "loop"
      BY <2>1, SameFiles DEF IInv, TypeOK
    <2>2. CASE AddPiece("part") /\ thread' = "loop"
      BY <2>2, <1>1, <1>4, AddPieceStep DEF AddPiece, IInv
    <2>3. CASE AddPiece("header")
      BY <2>3, <1>1, <1>4, AddPieceStep DEF AddPiece, IInv
    <2> QED BY <1>3, <2>1, <2>2, <2>3
  <1>6. WholeLsns' = WholeLsns /\ DOMAIN files' = DOMAIN files
    BY <1>5, SameLsns DEF SameEntries
  <1>7. TypeOK'
    BY <1>0, <1>5, <1>6 DEF IInv, TypeOK
  <1>8. BufferInv'
    BY <1>0, <1>1 DEF IInv, BufferInv
  <1>9. DiskInv'
    BY <1>0, <1>6 DEF IInv, DiskInv
  <1>10. FilesInv'
    BY <1>0, <1>6 DEF IInv, FilesInv
  <1>11. WriterInv'
    <2>1. rc' = "LOG_FILE_FULL" =>
            /\ thread' = "loop" /\ entries' # <<>>
            /\ \A f \in log_files' : f + max_entry_number <= Head(entries')
      <3> SUFFICES ASSUME rc' = "LOG_FILE_FULL", NEW f \in log_files
                   PROVE  thread' = "loop" /\ f + max_entry_number <= Head(entries)
        BY <1>0, <1>1, <1>3
      <3>1. thread' = "loop" /\ Head(entries) > writer.end_lsn
        BY <1>3
      <3>2. f \in Nat
        BY DEF IInv, TypeOK
      <3> QED BY <3>1, <3>2, <1>1
    <2>2. thread' = "payload" => Head(entries) <= writer.end_lsn
      BY <1>3
    <2> QED BY <1>0, <1>1, <1>5, <1>6, <2>1, <2>2 DEF IInv, WriterInv
  <1>12. CleanInv'
    BY <1>0, <1>5, CleanKept DEF IInv
  <1> QED BY <1>7, <1>8, <1>9, <1>10, <1>11, <1>12 DEF IInv

(* A payload behind its header makes the entry behind flushed_lsn whole. *)
LEMMA PayloadEntry ==
    ASSUME IInv, thread = "payload",
           files' = [files EXCEPT ![writer.file] =
                       Append(Front(@), [lsn |-> Head(entries), kind |-> "entry"])]
    PROVE  /\ DOMAIN files' = DOMAIN files
           /\ \A f \in DOMAIN files : f # writer.file => files'[f] = files[f]
           /\ files'[writer.file] \in Seq(Piece) /\ Len(files'[writer.file]) = Len(files[writer.file])
           /\ Len(files[writer.file]) \in Nat \ {0}
           /\ \A i \in 1 .. Len(files[writer.file]) :
                 i # Len(files[writer.file]) => files'[writer.file][i] = files[writer.file][i]
           /\ files'[writer.file][Len(files[writer.file])] = [lsn |-> Head(entries), kind |-> "entry"]
           /\ files[writer.file][Len(files[writer.file])].kind = "header"
  <1>0. PICK w, n, l, e : /\ w = writer.file /\ n = Len(files[w]) /\ l = Head(entries)
                          /\ e = [lsn |-> l, kind |-> "entry"]
    OBVIOUS
  <1> USE DiskLogAssumption
  <1>1. /\ Head(entries) \in 1 .. LsnBound /\ w \in DOMAIN files
    BY <1>0, HeldEntry
  <1>2. files[w] \in Seq(Piece) /\ files[w] # <<>>
        /\ Last(files[w]) = [lsn |-> Head(entries), kind |-> "header"]
    BY <1>0, <1>1 DEF IInv, TypeOK, WriterInv
  <1>3. n \in Nat \ {0} /\ files[w][n].kind = "header"
    BY <1>0, <1>2 DEF Last
  <1>4. e \in Piece
    BY <1>0, <1>1 DEF Piece
  <1>5. /\ Front(files[w]) \in Seq(Piece) /\ Len(Front(files[w])) = n - 1
        /\ \A i \in 1 .. n - 1 : Front(files[w])[i] = files[w][i]
    BY <1>0, <1>2, <1>3 DEF Front
  <1>6. DOMAIN files' = DOMAIN files /\ (\A f \in DOMAIN files : f # w => files'[f] = files[f])
        /\ files'[w] = Append(Front(files[w]), e)
    BY <1>0, <1>1
  <1>7. /\ files'[w] \in Seq(Piece) /\ Len(files'[w]) = n
        /\ \A i \in 1 .. n - 1 : files'[w][i] = files[w][i]
        /\ files'[w][n] = e
    BY <1>3, <1>4, <1>5, <1>6
  <1> QED BY <1>0, <1>3, <1>6, <1>7

LEMMA WritePayloadStep ==
    ASSUME IInv, write_payload PROVE IInv'
  <1> USE DiskLogAssumption DEF bufferVars, clientVars
  <1>0. UNCHANGED <<check_point_lsn, current_lsn, bytes, log_files, running, pc, lsn, acked, crashes>>
        /\ thread = "payload"
    BY DEF write_payload
  <1>a. PICK w, n, l : w = writer.file /\ n = Len(files[w]) /\ l = Head(entries)
    OBVIOUS
  <1>1. /\ entries \in Seq(1 .. LsnBound) /\ entries # <<>>
        /\ l = flushed_lsn + 1 /\ l \in 1 .. LsnBound
        /\ w \in DOMAIN files /\ w \in Nat
        /\ writer.end_lsn = w + max_entry_number - 1
        /\ \A f \in log_files : f <= w
    BY <1>0, <1>a, HeldEntry
  <1>2. rc # "LOG_FILE_FULL" /\ l <= writer.end_lsn
    BY <1>0, <1>a DEF IInv, WriterInv
  <1>3. CASE Fail /\ PutBack("IOERR_WRITE") /\ UNCHANGED <<files, writer, flushed_lsn, entries>>
    <2>0. SameEntries /\ WholeLsns' = WholeLsns /\ thread' = "loop" /\ rc' = "IOERR_WRITE"
      BY <1>3, SameFiles, SameLsns DEF PutBack
    <2>1. TypeOK'
      BY <1>0, <1>3, <2>0 DEF IInv, TypeOK, Fail, CanFail
    <2>2. BufferInv'
      BY <1>0, <1>3, <2>0 DEF IInv, BufferInv
    <2>3. DiskInv'
      BY <1>0, <1>3, <2>0 DEF IInv, DiskInv
    <2>4. FilesInv'
      BY <1>0, <1>3, <2>0 DEF IInv, FilesInv
    <2>5. WriterInv'
      BY <1>0, <1>3, <2>0 DEF IInv, WriterInv
    <2>6. CleanInv'
      BY <1>0, <1>3, <2>0, CleanKept DEF IInv
    <2> QED BY <2>1, <2>2, <2>3, <2>4, <2>5, <2>6 DEF IInv
  <1>4. CASE /\ files' = [files EXCEPT ![writer.file] =
                            Append(Front(@), [lsn |-> Head(entries), kind |-> "entry"])]
             /\ writer' = [writer EXCEPT !.last_lsn = Head(entries)]
             /\ flushed_lsn' = Head(entries)
             /\ entries' = Tail(entries)
             /\ thread' = "flush"
             /\ UNCHANGED <<rc, fails>>
    <2>0. /\ DOMAIN files' = DOMAIN files
          /\ \A f \in DOMAIN files : f # writer.file => files'[f] = files[f]
          /\ files'[writer.file] \in Seq(Piece) /\ Len(files'[writer.file]) = Len(files[writer.file])
          /\ Len(files[writer.file]) \in Nat \ {0}
          /\ \A i \in 1 .. Len(files[writer.file]) :
                i # Len(files[writer.file]) => files'[writer.file][i] = files[writer.file][i]
          /\ files'[writer.file][Len(files[writer.file])] = [lsn |-> Head(entries), kind |-> "entry"]
          /\ files[writer.file][Len(files[writer.file])].kind = "header"
      BY <1>0, <1>4, PayloadEntry
    <2>1. /\ DOMAIN files' = DOMAIN files
          /\ \A f \in DOMAIN files : f # w => files'[f] = files[f]
          /\ files'[w] \in Seq(Piece) /\ Len(files'[w]) = n /\ n \in Nat \ {0}
          /\ \A i \in 1 .. n : i # n => files'[w][i] = files[w][i]
          /\ files'[w][n] = [lsn |-> l, kind |-> "entry"]
          /\ files[w][n].kind = "header"
      BY <1>a, <2>0
    <2>2. files[w] \in Seq(Piece) /\ DOMAIN files[w] = 1 .. n /\ DOMAIN files'[w] = 1 .. n
      BY <1>a, <1>1, <2>1 DEF IInv, TypeOK
    <2>3. flushed_lsn' = l /\ thread' = "flush" /\ rc' = rc
      BY <1>4, <1>a
    <2>4. /\ entries' \in Seq(1 .. LsnBound) /\ Len(entries') = Len(entries) - 1
          /\ \A i \in 1 .. Len(entries') : entries'[i] = entries[i + 1]
      BY <1>1, <1>4
    <2>5. writer' = [writer EXCEPT !.last_lsn = l]
      BY <1>4, <1>a
    <2>6. writer \in [file : log_files \cup {NoFile}, end_lsn : Int, last_lsn : 0 .. LsnBound]
      BY DEF IInv, TypeOK
    <2>7. /\ writer' \in [file : log_files \cup {NoFile}, end_lsn : Int, last_lsn : 0 .. LsnBound]
          /\ writer'.file = w /\ writer'.end_lsn = writer.end_lsn
      <3>1. l \in 0 .. LsnBound
        BY <1>1
      <3> QED BY <1>a, <2>5, <2>6, <3>1
    <2>8. fails' = fails
      BY <1>4
    <2>9. /\ \A f \in DOMAIN files : f # w => Whole(f)' = Whole(f)
          /\ Whole(w)' = Whole(w) \cup {n} /\ n \notin Whole(w)
          /\ \A i \in Whole(w) : i \in 1 .. n /\ i # n /\ files'[w][i] = files[w][i]
      <3>1. \A f \in DOMAIN files : f # w => Whole(f)' = Whole(f)
        BY <2>1 DEF Whole
      <3>2. n \notin Whole(w) /\ \A i \in Whole(w) : i \in 1 .. n /\ i # n
        BY <2>1, <2>2 DEF Whole
      <3>3. Whole(w)' = Whole(w) \cup {n}
        BY <2>1, <2>2 DEF Whole
      <3> QED BY <2>1, <3>1, <3>2, <3>3
    <2>10. WholeLsns' = WholeLsns \cup {l}
      <3>1. WholeLsns \subseteq WholeLsns'
        BY <1>1, <2>1, <2>9 DEF WholeLsns
      <3>2. l \in WholeLsns'
        BY <1>1, <2>1, <2>9 DEF WholeLsns
      <3>3. ASSUME NEW k \in WholeLsns' PROVE k \in WholeLsns \cup {l}
        <4>0. PICK f \in DOMAIN files : \E i \in Whole(f)' : files'[f][i].lsn = k
          BY <2>1, <3>3 DEF WholeLsns
        <4>1. PICK i \in Whole(f)' : files'[f][i].lsn = k
          BY <4>0
        <4>2. k \in 1 .. LsnBound
          BY <3>3 DEF WholeLsns
        <4>3. CASE f # w
          BY <4>1, <4>2, <4>3, <2>1, <2>9 DEF WholeLsns
        <4>4. CASE f = w /\ i # n
          BY <1>1, <4>1, <4>2, <4>4, <2>9 DEF WholeLsns
        <4>5. CASE f = w /\ i = n
          BY <4>1, <4>5, <2>1
        <4> QED BY <4>3, <4>4, <4>5
      <3> QED BY <3>1, <3>2, <3>3
    <2>11. Clean' => Clean
      <3> SUFFICES ASSUME Clean', NEW f \in DOMAIN files, NEW i \in 1 .. Len(files[f]) - 1
                   PROVE  files[f][i].kind = "entry"
        BY DEF Clean
      <3>1. CASE f # w
        BY <3>1, <2>1 DEF Clean
      <3>2. CASE f = w
        <4>1. Len(files[f]) = n
          BY <3>2, <1>a
        <4>2. i \in 1 .. n - 1 /\ i \in 1 .. n /\ i # n
          BY <2>1, <4>1
        <4>3. files'[w][i].kind = "entry"
          BY <1>1, <2>1, <4>2 DEF Clean
        <4> QED BY <3>2, <2>1, <4>2, <4>3
      <3> QED BY <3>1, <3>2
    <2>12. flushed_lsn \in Nat /\ 1 .. flushed_lsn \subseteq WholeLsns
           /\ 1 .. l = 1 .. flushed_lsn \cup {l}
      BY <1>1 DEF IInv, TypeOK, DiskInv
    <2>13. TypeOK'
      <3>1. \A f \in DOMAIN files' : files'[f] \in Seq(Piece)
        BY <2>1 DEF IInv, TypeOK
      <3>2. flushed_lsn' \in 0 .. LsnBound
        BY <1>1, <2>3
      <3> QED BY <1>0, <2>1, <2>3, <2>4, <2>7, <2>8, <3>1, <3>2 DEF IInv, TypeOK
    <2>14. BufferInv'
      <3>1. Len(entries) \in Nat \ {0} /\ current_lsn = flushed_lsn + Len(entries)
            /\ \A i \in 1 .. Len(entries) : entries[i] = flushed_lsn + i
        BY <1>1 DEF IInv, BufferInv
      <3>2. current_lsn' = flushed_lsn' + Len(entries')
        BY <1>0, <1>1, <2>3, <2>4, <2>12, <3>1
      <3>3. ASSUME NEW i \in 1 .. Len(entries') PROVE entries'[i] = flushed_lsn' + i
        <4>1. i + 1 \in 1 .. Len(entries)
          BY <2>4, <3>1
        <4> QED BY <4>1, <1>1, <2>3, <2>4, <2>12, <3>1
      <3> QED BY <2>3, <3>2, <3>3 DEF BufferInv
    <2>15. DiskInv'
      BY <1>0, <2>3, <2>10, <2>12 DEF IInv, DiskInv
    <2>16. FilesInv'
      BY <1>0, <2>1, <2>3, <2>10 DEF IInv, FilesInv
    <2>17. WriterInv'
      BY <1>0, <1>1, <1>2, <1>a, <2>1, <2>3, <2>7 DEF IInv, WriterInv
    <2>18. CleanInv'
      <3>0. RangeInv'
        <4> SUFFICES ASSUME NEW f \in DOMAIN files', NEW i \in Whole(f)'
                     PROVE  files'[f][i].lsn < f + max_entry_number
          BY DEF RangeInv
        <4>1. CASE f # w
          BY <2>1, <2>9, <4>1 DEF IInv, CleanInv, RangeInv
        <4>2. CASE f = w /\ i = n
          <5>1. max_entry_number \in Nat /\ files'[f][i].lsn = l
            BY <2>1, <4>2
          <5> QED BY <1>1, <1>2, <4>2, <5>1
        <4>3. CASE f = w /\ i # n
          BY <1>1, <2>9, <4>3 DEF IInv, CleanInv, RangeInv
        <4> QED BY <4>1, <4>2, <4>3
      <3> SUFFICES ASSUME Clean' PROVE CleanInv'
        BY <3>0 DEF CleanInv
      <3>1. WholeLsns \subseteq 1 .. flushed_lsn
        BY <1>0, <2>11 DEF IInv, CleanInv
      <3>2. WholeLsns' \subseteq 1 .. flushed_lsn'
        BY <2>3, <2>10, <2>12, <3>1
      <3>3. \A i \in Whole(w) : files[w][i].lsn < l
        <4> SUFFICES ASSUME NEW i \in Whole(w) PROVE files[w][i].lsn < l
          OBVIOUS
        <4>1. files[w][i].lsn \in 1 .. LsnBound
          <5>1. files[w][i] \in Piece
            BY <1>a, <2>1, <2>2, <2>9, ElementOfSeq
          <5> QED BY <5>1 DEF Piece
        <4>2. files[w][i].lsn \in WholeLsns
          BY <4>1, <1>1 DEF WholeLsns
        <4>3. files[w][i].lsn \in 1 .. flushed_lsn
          BY <4>2, <3>1
        <4>4. flushed_lsn \in Nat /\ l = flushed_lsn + 1
          BY <1>1, <2>12
        <4> HIDE DiskLogAssumption
        <4> QED BY <4>3, <4>4
      <3>4. w <= l /\ l < w + max_entry_number
        <4>1. 1 .. w - 1 \subseteq 1 .. flushed_lsn
          BY <1>1, <3>1 DEF IInv, FilesInv
        <4>2. w - 1 <= flushed_lsn
          <5>1. w > 1 => w - 1 \in 1 .. w - 1
            BY <1>1
          <5> QED BY <1>1, <2>12, <4>1, <5>1
        <4>3. max_entry_number \in Nat
          OBVIOUS
        <4> QED BY <1>1, <1>2, <2>12, <4>2, <4>3
      <3>5. ASSUME NEW f \in DOMAIN files', NEW i \in Whole(f)', NEW j \in Whole(f)', i < j
            PROVE  files'[f][i].lsn < files'[f][j].lsn
        <4>1. CASE f # w
          BY <2>1, <2>9, <2>11, <3>5, <4>1 DEF IInv, CleanInv
        <4>2. CASE f = w /\ j = n
          BY <2>1, <2>9, <3>3, <3>5, <4>2
        <4>3. CASE f = w /\ j # n
          <5>1. j \in Whole(w) /\ i \in Whole(w)
            BY <2>1, <2>9, <3>5, <4>3
          <5> QED BY <1>1, <2>9, <2>11, <3>5, <4>3, <5>1 DEF IInv, CleanInv
        <4> QED BY <4>1, <4>2, <4>3
      <3>6. ASSUME NEW f \in DOMAIN files', NEW i \in Whole(f)'
            PROVE  f <= files'[f][i].lsn /\ files'[f][i].lsn < f + max_entry_number
        <4>1. CASE f # w
          BY <2>1, <2>9, <2>11, <4>1 DEF IInv, CleanInv
        <4>2. CASE f = w /\ i = n
          BY <2>1, <3>4, <4>2
        <4>3. CASE f = w /\ i # n
          BY <1>1, <2>9, <2>11, <4>3 DEF IInv, CleanInv
        <4> QED BY <4>1, <4>2, <4>3
      <3> QED BY <3>0, <3>2, <3>5, <3>6 DEF CleanInv
    <2> QED BY <2>13, <2>14, <2>15, <2>16, <2>17, <2>18 DEF IInv
  <1> QED BY <1>3, <1>4 DEF write_payload

-----------------------------------------------------------------------------
(* Start, stop and crash. *)

(* On clean files a replay delivers every entry from its start on: an      *)
(* earlier piece is whole, a later entry has a larger lsn, and no file     *)
(* left out can hold one.                                                  *)
LEMMA ReplayAll == IInv => ReplayComplete
  <1> SUFFICES ASSUME IInv, Clean, NEW start_lsn \in 0 .. LsnBound, NEW f \in DOMAIN files
               PROVE  {i \in Whole(f) : files[f][i].lsn >= start_lsn} =
                        IF f \in DOMAIN IterateAll(start_lsn)
                        THEN IterateAll(start_lsn)[f] ELSE {}
    BY DEF ReplayComplete
  <1> USE DiskLogAssumption
  <1>1. files[f] \in Seq(Piece) /\ DOMAIN files[f] = 1 .. Len(files[f]) /\ f \in Nat
    BY DEF IInv, TypeOK
  <1>2. \A i \in 1 .. Len(files[f]) : files[f][i].lsn \in Int
    <2>1. \A i \in 1 .. Len(files[f]) : files[f][i] \in Piece
      BY <1>1, ElementOfSeq
    <2> QED BY <2>1 DEF Piece
  <1>3. /\ DOMAIN IterateAll(start_lsn) = list_files(start_lsn)
        /\ f \in list_files(start_lsn) => IterateAll(start_lsn)[f] = iterate(f, start_lsn)
    BY DEF IterateAll
  <1>4. ASSUME NEW i \in Whole(f), files[f][i].lsn >= start_lsn
        PROVE  f \in list_files(start_lsn) /\ i \in iterate(f, start_lsn)
    <2>1. i \in 1 .. Len(files[f]) /\ files[f][i].kind = "entry"
      BY <1>1 DEF Whole
    <2>2. files[f][i].lsn < f + max_entry_number
      BY DEF IInv, CleanInv
    <2>3. f \in list_files(start_lsn)
      BY <1>1, <1>2, <1>4, <2>1, <2>2 DEF list_files
    <2>4. \A j \in 1 .. i : files[f][j].kind = "entry"
      BY <1>1, <2>1 DEF Clean
    <2>5. i \in 1 .. i
      BY <1>1, <2>1
    <2> QED BY <1>1, <1>4, <2>1, <2>3, <2>4, <2>5 DEF iterate
  <1>5. ASSUME NEW i \in iterate(f, start_lsn)
        PROVE  i \in Whole(f) /\ files[f][i].lsn >= start_lsn
    <2>1. i \in 1 .. Len(files[f]) /\ (\A j \in 1 .. i : files[f][j].kind = "entry") /\ i \in 1 .. i
      BY <1>1 DEF iterate
    <2>2. PICK j \in 1 .. i : files[f][j].lsn >= start_lsn
      BY DEF iterate
    <2>3. j \in 1 .. Len(files[f]) /\ j \in Whole(f) /\ i \in Whole(f)
      BY <1>1, <2>1 DEF Whole
    <2>4. j = i \/ files[f][j].lsn < files[f][i].lsn
      BY <1>1, <2>1, <2>3 DEF IInv, CleanInv
    <2> QED BY <1>2, <2>1, <2>2, <2>3, <2>4
  <1> QED BY <1>3, <1>4, <1>5

(* What a replay delivers is on disk. *)
LEMMA ReplayedWhole ==
    ASSUME IInv, NEW start_lsn PROVE Replayed(start_lsn) \subseteq WholeLsns
  <1> SUFFICES ASSUME NEW l \in Replayed(start_lsn) PROVE l \in WholeLsns
    OBVIOUS
  <1>1. l \in 1 .. LsnBound
    BY DEF Replayed
  <1>2. PICK f \in list_files(start_lsn) :
          \E i \in iterate(f, start_lsn) : files[f][i].lsn = l
    BY DEF Replayed, IterateAll
  <1>3. PICK i \in iterate(f, start_lsn) : files[f][i].lsn = l
    BY <1>2
  <1>4. f \in DOMAIN files
    BY DEF list_files
  <1>5. files[f] \in Seq(Piece)
    BY <1>4 DEF IInv, TypeOK
  <1>6. i \in Whole(f)
    BY <1>5 DEF iterate, Whole
  <1> QED BY <1>1, <1>3, <1>4, <1>6 DEF WholeLsns

(* On clean files the largest lsn of a replay from the check point is the  *)
(* largest on disk.                                                        *)
LEMMA ReplayReachesLast ==
    ASSUME IInv, Clean, NEW l \in WholeLsns
    PROVE  \E k \in Replayed(check_point_lsn) : l <= k
  <1> USE DiskLogAssumption
  <1>1. ASSUME NEW k \in WholeLsns, k >= check_point_lsn
        PROVE  k \in Replayed(check_point_lsn)
    <2>1. check_point_lsn \in 0 .. LsnBound /\ k \in 1 .. LsnBound
      BY DEF IInv, TypeOK, WholeLsns
    <2>2. PICK f \in DOMAIN files : \E i \in Whole(f) : files[f][i].lsn = k
      BY DEF WholeLsns
    <2>3. PICK i \in Whole(f) : files[f][i].lsn = k
      BY <2>2
    <2>4. f \in DOMAIN IterateAll(check_point_lsn) /\ i \in IterateAll(check_point_lsn)[f]
      BY <1>1, <2>1, <2>3, ReplayAll DEF ReplayComplete
    <2> QED BY <2>1, <2>3, <2>4 DEF Replayed
  <1>2. check_point_lsn \in 0 .. LsnBound /\ l \in 1 .. LsnBound
    BY DEF IInv, TypeOK, WholeLsns
  <1>3. CASE l >= check_point_lsn
    BY <1>1, <1>2, <1>3
  <1>4. CASE l < check_point_lsn
    <2>1. check_point_lsn \in 1 .. check_point_lsn
      BY <1>2, <1>4
    <2>2. check_point_lsn \in WholeLsns
      BY <2>1 DEF IInv, DiskInv
    <2> QED BY <1>1, <1>2, <1>4, <2>2
  <1> QED BY <1>2, <1>3, <1>4

LEMMA StartStep ==
    ASSUME IInv, start PROVE IInv'
  <1> USE DiskLogAssumption DEF diskVars, clientVars, boundVars
  <1>0. UNCHANGED <<files, check_point_lsn, bytes, entries, rc, writer, pc, lsn, acked, fails, crashes>>
        /\ thread = "none" /\ thread' = "loop" /\ running' = TRUE /\ log_files' = DOMAIN files
        /\ current_lsn' = Max({0} \cup Replayed(check_point_lsn))
        /\ flushed_lsn' = Max({0} \cup Replayed(check_point_lsn))
    BY DEF start
  <1>1. PICK m : m = Max({0} \cup Replayed(check_point_lsn))
    OBVIOUS
  <1>2. {0} \cup Replayed(check_point_lsn) \subseteq 0 .. LsnBound
    BY DEF Replayed
  <1>3. m \in {0} \cup Replayed(check_point_lsn)
        /\ \A l \in {0} \cup Replayed(check_point_lsn) : l <= m
    BY <1>1, <1>2, LsnsHaveLast
  <1>4. m \in 0 .. LsnBound /\ current_lsn' = m /\ flushed_lsn' = m
    BY <1>0, <1>1, <1>2, <1>3
  <1>5. m = 0 \/ m \in WholeLsns
    BY <1>3, ReplayedWhole
  <1>6. 1 .. m \subseteq WholeLsns
    BY <1>5 DEF IInv, DiskInv
  <1>7. SameEntries /\ WholeLsns' = WholeLsns /\ (Clean' <=> Clean)
    BY <1>0, SameFiles, SameLsns DEF Clean
  <1>8. entries = <<>> /\ writer = ClosedWriter /\ rc = "SUCCESS"
    BY <1>0 DEF IInv, BufferInv
  <1>9. TypeOK'
    <2>1. writer' \in [file : log_files' \cup {NoFile}, end_lsn : Int, last_lsn : 0 .. LsnBound]
      BY <1>0, <1>8 DEF ClosedWriter
    <2>2. DOMAIN files \subseteq Nat
      BY DEF IInv, TypeOK
    <2> QED BY <1>0, <1>4, <2>1, <2>2 DEF IInv, TypeOK
  <1>10. BufferInv'
    BY <1>0, <1>4, <1>8 DEF BufferInv
  <1>11. DiskInv'
    BY <1>0, <1>4, <1>6, <1>7 DEF IInv, DiskInv
  <1>12. FilesInv'
    BY <1>0, <1>7 DEF IInv, FilesInv
  <1>13. WriterInv'
    BY <1>0, <1>8 DEF WriterInv, ClosedWriter
  <1>14. CleanInv'
    <2>0. RangeInv'
      BY <1>7 DEF IInv, CleanInv, RangeInv, SameEntries
    <2> SUFFICES ASSUME Clean PROVE CleanInv'
      BY <1>7, <2>0 DEF CleanInv
    <2>1. ASSUME NEW l \in WholeLsns PROVE l \in 1 .. m
      <3>1. PICK k \in Replayed(check_point_lsn) : l <= k
        BY ReplayReachesLast
      <3>2. l \in 1 .. LsnBound /\ k \in 1 .. LsnBound
        BY DEF WholeLsns, Replayed
      <3> QED BY <1>3, <1>4, <3>1, <3>2
    <2>2. WholeLsns' \subseteq 1 .. flushed_lsn'
      BY <1>4, <1>7, <2>1
    <2> QED BY <1>7, <2>0, <2>2 DEF IInv, CleanInv, SameEntries
  <1> QED BY <1>9, <1>10, <1>11, <1>12, <1>13, <1>14 DEF IInv

LEMMA StopStep ==
    ASSUME IInv, stop PROVE IInv'
  <1> USE DiskLogAssumption DEF diskVars, bufferVars, threadVars, clientVars
  <1>0. UNCHANGED <<files, check_point_lsn, current_lsn, bytes, entries, log_files, flushed_lsn,
                    thread, rc, writer, pc, lsn, acked, fails>>
        /\ crashes < CrashBound /\ crashes' = crashes + 1 /\ running' = FALSE
    BY DEF stop
  <1>a. SameEntries /\ WholeLsns' = WholeLsns
    BY <1>0, SameFiles, SameLsns
  <1>1. TypeOK'
    <2>1. crashes' \in 0 .. CrashBound
      BY <1>0 DEF IInv, TypeOK
    <2> QED BY <1>0, <2>1 DEF IInv, TypeOK
  <1>2. BufferInv'
    BY <1>0 DEF IInv, BufferInv
  <1>3. DiskInv'
    BY <1>0, <1>a DEF IInv, DiskInv
  <1>4. FilesInv'
    BY <1>0, <1>a DEF IInv, FilesInv
  <1>5. WriterInv'
    BY <1>0 DEF IInv, WriterInv
  <1>6. CleanInv'
    BY <1>0, <1>a, CleanKept DEF IInv
  <1> QED BY <1>1, <1>2, <1>3, <1>4, <1>5, <1>6 DEF IInv

(* The process ends, in an orderly way or not: the files keep the entries. *)
LEMMA ForgetStep ==
    ASSUME IInv, Forget, SameEntries, \A f \in DOMAIN files' : files'[f] \in Seq(Piece),
           UNCHANGED <<check_point_lsn, acked, fails>>, crashes' \in 0 .. CrashBound
    PROVE  IInv'
  <1> USE DiskLogAssumption
  <1>0. WholeLsns' = WholeLsns /\ DOMAIN files' = DOMAIN files
    BY SameLsns DEF SameEntries
  <1>1. TypeOK'
    <2>1. /\ log_files' = {} /\ current_lsn' = 0 /\ flushed_lsn' = 0 /\ bytes' = 0
          /\ running' \in BOOLEAN /\ thread' = "none" /\ rc' = "SUCCESS"
      BY DEF Forget
    <2>2. writer' \in [file : log_files' \cup {NoFile}, end_lsn : Int, last_lsn : 0 .. LsnBound]
      BY DEF Forget, ClosedWriter
    <2>3. entries' \in Seq(1 .. LsnBound)
      BY EmptySeq DEF Forget
    <2>4. 0 \in 0 .. LsnBound
      OBVIOUS
    <2>5. /\ pc' \in [Clients -> {"idle", "append", "wait", "sync"}]
          /\ lsn' \in [Clients -> 0 .. LsnBound]
      BY <2>4 DEF Forget
    <2> QED BY <1>0, <2>1, <2>2, <2>3, <2>4, <2>5 DEF IInv, TypeOK
  <1>2. BufferInv'
    BY DEF Forget, BufferInv
  <1>3. DiskInv'
    BY <1>0 DEF IInv, DiskInv, Forget
  <1>4. FilesInv'
    BY <1>0 DEF IInv, FilesInv, Forget, HasLast
  <1>5. WriterInv'
    BY DEF WriterInv, Forget, ClosedWriter
  <1>6. CleanInv'
    BY CleanKept DEF IInv, Forget
  <1> QED BY <1>1, <1>2, <1>3, <1>4, <1>5, <1>6 DEF IInv

LEMMA CrashStep ==
    ASSUME IInv, Crash PROVE IInv'
  <1> USE DiskLogAssumption
  <1>1. Forget /\ UNCHANGED <<check_point_lsn, acked, fails>> /\ crashes' \in 0 .. CrashBound
    BY DEF Crash, IInv, TypeOK
  <1>2. SameEntries /\ \A f \in DOMAIN files' : files'[f] \in Seq(Piece)
    <2>1. CASE UNCHANGED files
      BY <2>1, SameFiles DEF IInv, TypeOK
    <2>2. CASE thread = "write" /\ AddPiece("part")
      <3>1. writer.file \in DOMAIN files /\ Head(entries) \in 1 .. LsnBound
        BY <2>2, HeldEntry
      <3>2. /\ [lsn |-> Head(entries), kind |-> "part"] \in Piece
            /\ [lsn |-> Head(entries), kind |-> "part"].kind # "entry"
        BY <3>1 DEF Piece
      <3> QED BY <2>2, <3>1, <3>2, AddPieceStep DEF AddPiece, IInv
    <2> QED BY <2>1, <2>2 DEF Crash
  <1> QED BY <1>1, <1>2, ForgetStep

LEMMA TerminationStep ==
    ASSUME IInv, await_termination PROVE IInv'
  <1>1. Forget /\ UNCHANGED <<files, check_point_lsn, acked, fails, crashes>>
    BY DEF await_termination, diskVars, boundVars
  <1>2. SameEntries /\ (\A f \in DOMAIN files' : files'[f] \in Seq(Piece))
        /\ crashes' \in 0 .. CrashBound
    BY <1>1, SameFiles DEF IInv, TypeOK
  <1> QED BY <1>1, <1>2, ForgetStep

LEMMA StutterStep ==
    ASSUME IInv, UNCHANGED vars PROVE IInv'
  <1>0. UNCHANGED <<files, check_point_lsn, current_lsn, bytes, entries, log_files, flushed_lsn,
                    thread, rc, writer, running, pc, lsn, acked, fails, crashes>>
    BY DEF vars, diskVars, bufferVars, threadVars, clientVars, boundVars
  <1>a. SameEntries /\ WholeLsns' = WholeLsns
    BY <1>0, SameFiles, SameLsns
  <1>1. TypeOK'
    BY <1>0 DEF IInv, TypeOK
  <1>2. BufferInv'
    BY <1>0 DEF IInv, BufferInv
  <1>3. DiskInv'
    BY <1>0, <1>a DEF IInv, DiskInv
  <1>4. FilesInv'
    BY <1>0, <1>a DEF IInv, FilesInv
  <1>5. WriterInv'
    BY <1>0 DEF IInv, WriterInv
  <1>6. CleanInv'
    BY <1>0, <1>a, CleanKept DEF IInv
  <1> QED BY <1>1, <1>2, <1>3, <1>4, <1>5, <1>6 DEF IInv

-----------------------------------------------------------------------------
(* The theorems. *)

LEMMA InvNext == IInv /\ [Next]_vars => IInv'
  <1> SUFFICES ASSUME IInv, [Next]_vars PROVE IInv'
    OBVIOUS
  <1>1. ASSUME NEW c \in Clients, Client(c) PROVE IInv'
    BY <1>1, WaitStep, AppendStep, WaitLsnStep DEF Client
  <1>2. CASE Flusher
    BY <1>2, ThreadFuncStep, OpenFileStep, FlushStep, WriteHeaderStep, WritePayloadStep DEF Flusher
  <1>3. CASE start \/ stop \/ await_termination \/ Crash
    BY <1>3, StartStep, StopStep, TerminationStep, CrashStep
  <1>4. CASE start_failed \/ UNCHANGED vars
    BY <1>4, StutterStep DEF start_failed
  <1> QED BY <1>1, <1>2, <1>3, <1>4 DEF Next

(* The inductive invariant of the log. *)
THEOREM Invariance == Spec => []IInv
  BY InvInit, InvNext, PTL DEF Spec

(* wait_lsn and Db::sync report only lsns that are on disk with all lsns   *)
(* before them; through failing writes, failing opens and crashes they     *)
(* stay there, and every replay from an lsn up to theirs delivers them     *)
(* unless a write to their file was cut short before (log_file.cpp:196,    *)
(* disk_log_handler.cpp:150).                                              *)
THEOREM Durable == Spec => []AckedDurable
  <1>1. IInv => AckedDurable
    <2> SUFFICES ASSUME IInv, NEW l \in 1 .. acked, ~Behind(l), NEW start_lsn \in 0 .. l
                 PROVE  l \in Replayed(start_lsn)
      BY DEF AckedDurable
    <2> USE DiskLogAssumption
    <2>1. l \in WholeLsns /\ l \in 1 .. LsnBound
      BY DEF IInv, DiskInv, WholeLsns
    <2>2. PICK f \in DOMAIN files : \E i \in Whole(f) : files[f][i].lsn = l
      BY <2>1 DEF WholeLsns
    <2>3. PICK i \in Whole(f) : files[f][i].lsn = l
      BY <2>2
    <2>4. files[f] \in Seq(Piece) /\ DOMAIN files[f] = 1 .. Len(files[f]) /\ f \in Nat
      BY DEF IInv, TypeOK
    <2>5. i \in 1 .. Len(files[f]) /\ files[f][i].kind = "entry"
      BY <2>4 DEF Whole
    <2>6. \A j \in 1 .. i - 1 : files[f][j].kind = "entry"
      BY <2>3 DEF Behind
    <2>7. \A j \in 1 .. i : j = i \/ j \in 1 .. i - 1
      BY <2>4, <2>5
    <2>8. i \in 1 .. i /\ start_lsn <= l
      BY <2>1, <2>4, <2>5
    <2>9. i \in iterate(f, start_lsn)
      <3>1. \A j \in 1 .. i : files[f][j].kind = "entry"
        BY <2>5, <2>6, <2>7
      <3>2. files[f][i].lsn >= start_lsn
        BY <2>1, <2>3, <2>8
      <3> QED BY <2>4, <2>5, <2>8, <3>1, <3>2 DEF iterate
    <2>10. l < f + max_entry_number
      BY <2>3 DEF IInv, CleanInv, RangeInv
    <2>11. f \in list_files(start_lsn)
      BY <2>1, <2>4, <2>8, <2>10 DEF list_files
    <2> QED BY <2>1, <2>3, <2>9, <2>11 DEF Replayed, IterateAll
  <1> QED BY <1>1, Invariance, PTL

(* On files without an incomplete piece in the middle the lsns ascend      *)
(* through the files without a gap, over any number of restarts.           *)
THEOREM Contiguous == Spec => []LsnContiguous
  <1>1. IInv => LsnContiguous
    <2> SUFFICES ASSUME IInv, Clean PROVE LsnContiguous
      BY DEF LsnContiguous
    <2>1. ASSUME NEW f \in DOMAIN files, NEW g \in DOMAIN files,
                 NEW i \in Whole(f), NEW j \in Whole(g), f < g \/ (f = g /\ i < j)
          PROVE  files[f][i].lsn < files[g][j].lsn
      <3>1. CASE f = g
        BY <2>1, <3>1 DEF IInv, CleanInv, TypeOK
      <3>2. CASE f < g
        <4>1. files[f] \in Seq(Piece) /\ files[g] \in Seq(Piece) /\ f \in Nat /\ g \in Nat
          BY DEF IInv, TypeOK
        <4>2. files[f][i] \in Piece /\ files[g][j] \in Piece
          BY <4>1, ElementOfSeq DEF Whole
        <4>3. files[f][i].lsn \in Int /\ files[g][j].lsn \in Int
          BY <4>2 DEF Piece
        <4>4. f + max_entry_number <= g
          BY <3>2 DEF IInv, FilesInv
        <4>5. files[f][i].lsn < f + max_entry_number /\ g <= files[g][j].lsn
          BY DEF IInv, CleanInv
        <4> QED BY <4>1, <4>3, <4>4, <4>5, DiskLogAssumption
      <3> QED BY <2>1, <3>1, <3>2 DEF IInv, TypeOK
    <2> QED BY <2>1 DEF LsnContiguous, IInv, DiskInv
  <1> QED BY <1>1, Invariance, PTL

(* The files hold the lsns in order without a gap, and a replay from any   *)
(* start delivers exactly what they hold from there on: neither the choice *)
(* of files (log_file.cpp:306) nor skip_to loses or repeats an entry.      *)
THEOREM ReplaysExact == Spec => []ReplayExact
  <1>1. IInv => TypeOK
    BY DEF IInv
  <1>2. TypeOK /\ LsnContiguous /\ ReplayComplete => ReplayExact
    BY DEF ReplayExact
  <1> QED BY <1>1, <1>2, ReplayAll, Contiguous, Invariance, PTL
=============================================================================
