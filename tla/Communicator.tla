---------------------------- MODULE Communicator ----------------------------
(* How the communicators read a request and answer it: the plain text        *)
(* protocol, the MySQL protocol and the command line.  A byte of an answer   *)
(* is <<conn, n, i, last>>: the i-th byte of the answer to the n-th request  *)
(* of conn, last when the answer is complete (the '\0' of plain, the OK, ERR *)
(* or last EOF packet of MySQL).  What the bytes spell is left out.          *)
EXTENDS Integers, Sequences, Session, BufferedWriter

CONSTANT Burst  \* the most bytes a socket takes in one ::write
ASSUME BurstAssumption == Burst \in Nat \ {0}

(* What a MySQL client sends besides statements: its handshake response, the *)
(* version query, any other command.                                         *)
MysqlOnly == {"AUTH", "VERSION", "OTHER"}
Requests  == Kinds \cup MysqlOnly \cup {"EXIT"}

(* The version query has an operator of its own and is not planned.          *)
Rows(kind) == kind \in {"SELECT", "VERSION"}
Runs(kind) == HasOperator(kind) \/ kind = "VERSION"

Answer(c, n, len, whole) == [i \in 1 .. len |-> <<c, n, i, whole /\ i = len>>]

(* MysqlCommunicator::init greets the client, as answer number 0.            *)
Greeting(protocol, c) == IF protocol = "mysql" THEN Answer(c, 0, 1, TRUE) ELSE <<>>

StateLen == 2  \* the text and its end
RowsLen  == 3  \* the header, a row, the end

-----------------------------------------------------------------------------
(* A statement that is answered by its outcome alone.                        *)
write_state(s, c, n, rc) ==
    [sess |-> s, bytes |-> Answer(c, n, StateLen, TRUE), said |-> rc, cut |-> FALSE]

(* PlainCommunicator::write_result_internal after SqlResult::open returned   *)
(* rc.  A failed open is closed, which commits what was done; an error among *)
(* the rows gives the connection up with the result still open.              *)
write_result_plain(s, c, n, kind, rc) ==
    IF ~Runs(kind) THEN write_state(s, c, n, rc)
    ELSE IF rc # "SUCCESS" THEN write_state(CloseResult(s), c, n, "FAILURE")
    ELSE IF RowError(kind, s)
    THEN [sess |-> s, bytes |-> Answer(c, n, 1, FALSE), said |-> "CUT", cut |-> TRUE]
    ELSE IF Rows(kind)
    THEN [sess |-> CloseResult(s), bytes |-> Answer(c, n, RowsLen, TRUE), said |-> "SUCCESS", cut |-> FALSE]
    ELSE write_state(CloseResult(s), c, n, "SUCCESS")

(* MysqlCommunicator::send_result_rows sends the last packet after an error  *)
(* among the rows as after the last row.                                     *)
send_result_rows(s, c, n, kind) ==
    Answer(c, n, IF RowError(kind, s) THEN RowsLen - 1 ELSE RowsLen, TRUE)

(* MysqlCommunicator::write_result.  A failed open is not closed.            *)
write_result_mysql(s, c, n, kind, rc) ==
    IF ~Runs(kind) THEN write_state(s, c, n, rc)
    ELSE IF rc # "SUCCESS" THEN write_state(s, c, n, "FAILURE")
    ELSE IF Rows(kind)
    THEN [sess |-> CloseResult(s), bytes |-> send_result_rows(s, c, n, kind), said |-> "SUCCESS", cut |-> FALSE]
    ELSE write_state(CloseResult(s), c, n, "SUCCESS")

(* CliCommunicator::write_result is the plain one and never disconnects; the *)
(* delimiter is left out where the plain one would have given up.            *)
write_result(protocol, s, c, n, kind, rc) ==
    CASE protocol = "mysql" -> write_result_mysql(s, c, n, kind, rc)
      [] protocol = "plain" -> write_result_plain(s, c, n, kind, rc)
      [] protocol = "cli"   -> [write_result_plain(s, c, n, kind, rc) EXCEPT !.cut = FALSE]

(* An answer on its way: into the buffer, and flushed at its end.  A failed  *)
(* flush is not reported and leaves the bytes in the buffer.                 *)
(* Mutants: nothing is flushed at the end; an answer that was given up is    *)
(* not flushed.                                                              *)
Send_NoFlush(ring, bytes, up) == writen(Writer(ring), bytes, up, Burst)

Send_CutUnflushed(ring, bytes, up) ==
    LET w == writen(Writer(ring), bytes, up, Burst)
        f == flush(w, up, Burst)
    IN IF w.rc = "SUCCESS" /\ bytes # <<>> /\ bytes[Len(bytes)][4] THEN [f EXCEPT !.rc = "SUCCESS"] ELSE w

Send(ring, bytes, up) ==
    LET w == writen(Writer(ring), bytes, up, Burst)
        f == flush(w, up, Burst)
    IN IF w.rc = "SUCCESS" THEN [f EXCEPT !.rc = "SUCCESS"] ELSE w
=============================================================================
