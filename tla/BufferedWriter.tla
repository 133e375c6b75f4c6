--------------------------- MODULE BufferedWriter ---------------------------
(* The bytes on their way to a client: a RingBuffer of fixed capacity and    *)
(* the BufferedWriter that empties it into a socket.  A writer is            *)
(*   ring : [data, write_pos, size], data a function on 0 .. Capacity - 1    *)
(*   out  : the bytes the socket has taken                                   *)
(*   rc   : the outcome of the last call                                     *)
(* `up` says whether the socket still takes bytes, `burst` how many at most  *)
(* it takes in one ::write.                                                  *)
EXTENDS Integers, Sequences

CONSTANT Capacity
ASSUME CapacityAssumption == Capacity \in Nat \ {0}

NoByte    == <<0, 0, 0, FALSE>>
EmptyRing == [data |-> [i \in 0 .. Capacity - 1 |-> NoByte], write_pos |-> 0, size |-> 0]
Writer(r) == [ring |-> r, out |-> <<>>, rc |-> "SUCCESS"]

-----------------------------------------------------------------------------
(* RingBuffer *)
remain(r)   == Capacity - r.size
read_pos(r) == (r.write_pos - r.size + Capacity) % Capacity

Least(a, b) == IF a < b THEN a ELSE b

(* The bytes that lie in one piece from the read position on.                *)
buffer(r) ==
    LET at == read_pos(r)
        n  == CASE r.size = 0       -> 0
                [] at < r.write_pos -> r.write_pos - at
                [] OTHER            -> Capacity - at
    IN [i \in 1 .. n |-> r.data[at + i - 1]]

(* A mutant: the buffer is emptied although the socket took only a part.     *)
forward_All(r, n) == [r EXCEPT !.size = 0]

(* Bytes that have gone are not read again; the model forgets them.          *)
forward(r, n) ==
    IF n \notin 1 .. r.size THEN r
    ELSE [r EXCEPT !.size = @ - n,
                   !.data = [i \in DOMAIN @ |->
                                IF (i - read_pos(r) + Capacity) % Capacity < n THEN NoByte ELSE @[i]]]

(* One turn of the loop of RingBuffer::write, for a piece that fits before   *)
(* the end of the memory.                                                    *)
PlaceBytes(r, bytes) ==
    [r EXCEPT !.data = [i \in DOMAIN @ |->
                           IF i >= r.write_pos /\ i < r.write_pos + Len(bytes)
                           THEN bytes[i - r.write_pos + 1] ELSE @[i]],
              !.write_pos = (@ + Len(bytes)) % Capacity,
              !.size = @ + Len(bytes)]

(* RingBuffer::write: as much as there is room for.  The first turn writes   *)
(* up to the end of the memory or up to the bytes that are there, the second *)
(* one from the start of the memory; then the buffer is full or all is       *)
(* written.                                                                  *)
WriteTurn(p) ==
    LET at    == read_pos(p.ring)
        piece == Least(Len(p.left), IF at <= p.ring.write_pos THEN Capacity - p.ring.write_pos
                                    ELSE at - p.ring.write_pos)
    IN IF p.left = <<>> \/ remain(p.ring) = 0 THEN p
       ELSE [ring |-> PlaceBytes(p.ring, SubSeq(p.left, 1, piece)),
             left |-> SubSeq(p.left, piece + 1, Len(p.left))]

RingWrite(r, bytes) == WriteTurn(WriteTurn([ring |-> r, left |-> bytes]))

-----------------------------------------------------------------------------
(* BufferedWriter.  Its loops are functions of the number of turns; a turn   *)
(* after the end of a loop changes nothing, and every other one moves a byte *)
(* or fails.                                                                 *)

(* flush_internal: until `want` bytes have gone or the buffer is empty; a    *)
(* failed ::write leaves the bytes where they are.                           *)
FlushTurn(w, want, up, burst) ==
    LET piece == buffer(w.ring)
        n     == Least(burst, Len(piece))
    IN IF w.ring.size = 0 \/ Len(w.out) >= want THEN [w EXCEPT !.rc = "SUCCESS"]
       ELSE IF ~up THEN [w EXCEPT !.rc = "IOERR_WRITE"]
       ELSE [w EXCEPT !.ring = forward(w.ring, n), !.out = @ \o SubSeq(piece, 1, n)]

flush_internal(w, want, up, burst) ==
    LET turn[n \in Nat] == IF n = 0 THEN w
                           ELSE FlushTurn(turn[n - 1], Len(w.out) + want, up, burst)
    IN turn[w.ring.size + 1]

flush(w, up, burst) == flush_internal(w, w.ring.size, up, burst)

(* BufferedWriter::writen: write, which flushes a full buffer first, until   *)
(* everything is in the buffer.                                              *)
WritenTurn(p, up, burst) ==
    LET f == IF remain(p.writer.ring) = 0 THEN flush_internal(p.writer, Len(p.left), up, burst)
             ELSE p.writer
        r == RingWrite(f.ring, p.left)
    IN IF p.left = <<>> \/ p.writer.rc # "SUCCESS" THEN p
       ELSE IF f.rc # "SUCCESS" THEN [p EXCEPT !.writer = f]
       ELSE [writer |-> [f EXCEPT !.ring = r.ring], left |-> r.left]

writen(w, bytes, up, burst) ==
    LET turn[n \in Nat] == IF n = 0 THEN [writer |-> w, left |-> bytes]
                           ELSE WritenTurn(turn[n - 1], up, burst)
    IN turn[Len(bytes)].writer
=============================================================================
