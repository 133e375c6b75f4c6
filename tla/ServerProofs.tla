---------------------------- MODULE ServerProofs ----------------------------
(* Proofs about the server: whatever the threads, the clients and the signal *)
(* do, every served connection is looked after by exactly one party, the Db  *)
(* outlives every statement, a client gets the bytes of its own answers in   *)
(* their order, and its transaction is what it was told.                     *)
EXTENDS Server, FiniteSetTheorems, WellFoundedInduction, TLAPS

-----------------------------------------------------------------------------
(* The states of the main thread and of the others.                          *)
PoolMain == {"create", "submit", "count", "listen", "serve", "polling", "stop",
             "shutdown", "await", "cleanup", "return", "exited"}
WorkerMain == {"listen", "serve", "polling", "stop", "await", "cleanup", "return", "exited"}
CliMain  == {"cli", "clirun", "cleanup", "return", "exited"}
Over     == {"cleanup", "return", "exited"}

Free    == {"none", "idle", "empty", "leave"}
Serving == {"push", "poll", "line", "read", "handle", "answer", "close"}
Closing == {"closefd", "delwriter", "delsession"}
Pc      == Free \cup Serving \cup Closing \cup {"got", "loop", "count"}

(* The bytes and the buffer.                                                 *)
Byte    == Int \X Int \X Int \X BOOLEAN
Ring    == [data : [0 .. Capacity - 1 -> Byte], write_pos : 0 .. Capacity - 1, size : 0 .. Capacity]
Writers == [ring : Ring, out : Seq(Byte), rc : {"SUCCESS", "IOERR_WRITE"}]

(* The clients, the sessions and the threads.                                *)
Client == [msg : Requests \cup {"none", "half"}, sent : Nat, bad : {"no", "order", "foreign"},
           gone : BOOLEAN, got : Int \X Int \X BOOLEAN]
Sessions(q) == [trx : {"none", "idle", "started"}, multi : BOOLEAN,
                mode : {"TUPLE_ITERATOR", "CHUNK_ITERATOR"}, fate : [1 .. q -> Fates]]
Threads == [pc : Pc, conn : Conn \cup {Loop, NoConn}, core : BOOLEAN,
            kind : Requests \cup {"-"}, rc : {"-", "SUCCESS", "FAILURE", "FAILED", "PARTLY"},
            fd : 0 .. Cardinality(Conn)]
Saying  == (Requests \cup {"-"}) \X {"-", "SUCCESS", "FAILURE", "CUT"}

Types ==
    /\ scen \in Scenarios
    /\ main \in PoolMain \cup CliMain
    /\ started \in BOOLEAN /\ signalled \in BOOLEAN /\ dbUp \in BOOLEAN /\ loopexit \in BOOLEAN
    /\ client \in [Conn -> Client] /\ \A c \in Conn : client[c].sent <= scen.quota[c]
    /\ conn \in [Conn -> {"none", "pending", "open", "erased", "freed"}]
    /\ fd \in [Conn -> 0 .. Cardinality(Conn)]
    /\ ring \in [Conn -> Ring]
    /\ sess = [c \in Conn |-> sess[c]] /\ \A c \in Conn : sess[c] \in Sessions(scen.quota[c])
    /\ said = [c \in Conn |-> said[c]] /\ \A c \in Conn : said[c] \in [1 .. scen.quota[c] -> Saying]
    /\ running \in [Conn -> BOOLEAN]
    /\ th \in [Thread -> Threads]
    /\ estate \in {"NEW", "RUNNING", "TERMINATING"}
    /\ queue \in Seq(Conn \cup {Loop})
    /\ armed \in SUBSET Conn

-----------------------------------------------------------------------------
(* Who a thread works for, and the state of that connection.                 *)
ThreadConns ==
    \A t \in Thread :
        /\ th[t].pc \in Free => th[t].conn = NoConn
        /\ th[t].pc = "loop" => th[t].conn = Loop
        /\ th[t].pc = "got" => th[t].conn # NoConn
        /\ th[t].pc \in Serving \cup Closing \cup {"count"} => th[t].conn \in Conn
ServedOpen ==
    /\ \A t \in Thread : \A c \in Conn :
          Works(t, c) => conn[c] = IF th[t].pc \in Closing THEN "erased" ELSE "open"
    /\ \A c \in armed : conn[c] = "open"
    /\ \A i \in 1 .. Len(queue) : \A c \in Conn : queue[i] = c => conn[c] = "open"

(* At most one party looks after a connection, and at least one does.        *)
OneParty ==
    /\ \A t, u \in Thread : \A c \in Conn : Works(t, c) /\ Works(u, c) => t = u
    /\ \A t \in Thread : \A i \in 1 .. Len(queue) : \A c \in Conn : ~(Works(t, c) /\ queue[i] = c)
    /\ \A t \in Thread : \A c \in armed : ~Works(t, c)
    /\ \A i \in 1 .. Len(queue) : queue[i] \notin armed
    /\ \A i, j \in 1 .. Len(queue) : queue[i] = queue[j] => i = j
SomeParty ==
    \A c \in Conn : conn[c] \in {"open", "erased"} =>
        \/ Refused
        \/ c \in armed
        \/ \E i \in 1 .. Len(queue) : queue[i] = c
        \/ \E t \in Thread : Works(t, c)

(* The three ways to run.                                                    *)
PoolInv ==
    Pooled =>
        /\ main \in PoolMain
        /\ main = "create" <=> estate = "NEW"
        /\ main \in {"await"} \cup Over <=> estate = "TERMINATING"
        /\ main \in {"create", "submit"} => queue = <<>> /\ \A t \in Thread : th[t].pc \in Free
        /\ \A t \in Thread : th[t].pc \notin {"poll", "line"}
        /\ main \in Over => \A t \in Thread : th[t].pc = "none"
WorkerInv ==
    scen.handling = "one-thread" =>
        /\ main \in WorkerMain
        /\ queue = <<>> /\ armed = {}
        /\ \A t \in Thread : /\ th[t].pc \in {"none", "poll", "read", "handle", "answer", "close"} \cup Closing
                             /\ th[t].pc # "none" => th[t].conn = t
        /\ main \in Over => \A t \in Thread : th[t].pc \in {"none"} \cup Closing
CliInv ==
    scen.handling = "cli" =>
        /\ main \in CliMain
        /\ queue = <<>> /\ armed = {}
        /\ \A t \in Thread : /\ th[t].pc \in {"none", "line", "read", "handle", "answer", "close"} \cup Closing
                             /\ th[t].pc # "none" => t = 1 /\ th[t].conn = 1
        /\ main \in {"cli"} \cup Over => \A t \in Thread : th[t].pc = "none"
        /\ main = "cli" => conn[1] = "none"
DbInv == ~dbUp => main \in {"return", "exited"}

(* The numbers of the sockets.                                               *)
FdInv ==
    /\ \A c \in Conn : conn[c] \in {"none", "pending"} => fd[c] = 0
    /\ \A c, d \in Conn : fd[c] # 0 /\ fd[c] = fd[d] => c = d

Control == ThreadConns /\ ServedOpen /\ OneParty /\ SomeParty /\ PoolInv /\ WorkerInv /\ CliInv
           /\ DbInv /\ FdInv

-----------------------------------------------------------------------------
(* The bytes in a buffer belong to its connection; there are none while the  *)
(* client is there.                                                          *)
ByteAt(r, j)  == r.data[(read_pos(r) + j) % Capacity]
OwnRing(r, c) == \A j \in 0 .. r.size - 1 : ByteAt(r, j)[1] = c
RingInv(c)    == OwnRing(ring[c], c) /\ (~client[c].gone => ring[c].size = 0)

(* Who waits for an answer, and what was asked and answered so far.          *)
AtWork(c)  == \E t \in Thread : th[t].conn = c /\ th[t].pc \in {"handle", "answer"}
Busy(c)    == client[c].msg # "none" \/ AtWork(c)
GivenUp(c) == \E t \in Thread : th[t].conn = c /\ th[t].pc = "close"
Cut(c)     == scen.handling = "cli" /\ \E n \in DOMAIN said[c] : said[c][n][2] = "CUT"

AskedInv(c) ==
    /\ conn[c] \in {"none", "pending"} => client[c].sent = 0 /\ client[c].msg = "none"
    /\ \A n \in DOMAIN said[c] : n > client[c].sent => said[c][n] = <<"-", "-">>
    /\ client[c].msg = "half" => said[c][client[c].sent] = <<"-", "-">>
    /\ client[c].msg \in Requests => said[c][client[c].sent] = <<client[c].msg, "-">>
    /\ Busy(c) => client[c].sent > 0
WorkInv(c) ==
    \A t \in Thread :
        th[t].conn = c /\ th[t].pc \in {"handle", "answer"} =>
            /\ client[c].msg = "none" /\ th[t].kind \in Kinds \cup {"VERSION"}
            /\ said[c][client[c].sent] = <<th[t].kind, "-">>
            /\ th[t].pc = "answer" => th[t].rc \in IF Runs(th[t].kind) THEN Opens(th[t].kind)
                                                   ELSE {"SUCCESS", "FAILURE"}
GotInv(c) ==
    ~client[c].gone =>
        /\ conn[c] \in {"none", "pending"} =>
              client[c].got = <<IF scen.protocol = "mysql" THEN -1 ELSE 0, 0, TRUE>>
        /\ conn[c] = "open" /\ ~GivenUp(c) =>
              /\ client[c].got[1] = IF Busy(c) THEN client[c].sent - 1 ELSE client[c].sent
              /\ client[c].got[3] \/ Cut(c)
OrderInv(c) == client[c].bad = "order" => Cut(c)
BytesOf(c)  == RingInv(c) /\ AskedInv(c) /\ WorkInv(c) /\ GotInv(c) /\ OrderInv(c)
Bytes       == \A c \in Conn : BytesOf(c)

-----------------------------------------------------------------------------
(* The statements of a session that were executed, and the block they leave  *)
(* open.                                                                     *)
Handling(c) == \E t \in Thread : th[t].conn = c /\ th[t].pc = "handle"
Handled(c)  == IF client[c].msg # "none" \/ Handling(c) THEN client[c].sent - 1 ELSE client[c].sent
Ends        == {"COMMIT", "ROLLBACK"}
OpenBlock(sd, k) ==
    \E b \in 1 .. k : sd[b][1] = "BEGIN" /\ \A m \in b + 1 .. k : sd[m][1] \notin Ends

MultiInv(c) == sess[c].multi <=> OpenBlock(said[c], Handled(c))
BeginInv(c) ==
    /\ \A n \in 1 .. client[c].sent :
          said[c][n][1] = "BEGIN" => said[c][n][2] = "SUCCESS" \/ (n = client[c].sent /\ Busy(c))
    /\ \A t \in Thread : th[t].conn = c /\ th[t].pc = "answer" /\ th[t].kind = "BEGIN" => th[t].rc = "SUCCESS"

(* The state of the transaction between the statements and at an answer.     *)
Even(c) == ((sess[c].trx = "started") <=> sess[c].multi) \/ LeftOpen(c)
TrxInv(c) ==
    scen.kit = "mvcc" =>
        /\ conn[c] \in {"none", "pending"} => sess[c].trx # "started"
        /\ conn[c] = "open" =>
              /\ (\A t \in Thread : th[t].conn = c => th[t].pc \notin {"answer", "close"}) => Even(c)
              /\ \A t \in Thread : th[t].conn = c /\ th[t].pc = "answer" =>
                    IF Runs(th[t].kind) THEN sess[c].trx = "started" ELSE Even(c)

(* What became, after the first h statements, of the changes f of the n-th:  *)
(* in a block they wait for its end and go with it, unless the connection,   *)
(* in state st, is freed before.                                             *)
FateAt(sd, h, n, f, kit, st) ==
    IF kit = "vacuous" \/ ~OpenBlock(sd, n - 1) THEN f = "committed"
    ELSE /\ (\A m \in n + 1 .. h : sd[m][1] \notin Ends) => f = "pending" \/ (f = "orphan" /\ st = "freed")
         /\ \A m \in n + 1 .. h :
               sd[m][1] \in Ends /\ (\A k \in n + 1 .. m - 1 : sd[k][1] \notin Ends) =>
                  f = IF sd[m][1] = "COMMIT" THEN "committed" ELSE "undone"
FateInv(c) ==
    /\ \A n \in DOMAIN said[c] : said[c][n] = <<"WRITE", "SUCCESS">> =>
          FateAt(said[c], Handled(c), n, sess[c].fate[n], scen.kit, conn[c])
    /\ \A t \in Thread : th[t].conn = c /\ th[t].pc = "answer" /\ th[t].kind = "WRITE" /\ th[t].rc = "SUCCESS" =>
          sess[c].fate[client[c].sent] = IF scen.kit = "vacuous" THEN "committed" ELSE "pending"
SessionOf(c) == MultiInv(c) /\ BeginInv(c) /\ TrxInv(c) /\ FateInv(c)
SessionInv   == \A c \in Conn : SessionOf(c)

-----------------------------------------------------------------------------
(* Induction over the numbers, in a form that takes a set.                   *)
LEMMA NatLeast ==
    ASSUME NEW T, T \subseteq Nat, T # {}
    PROVE  \E x \in T : \A y \in T : x <= y
<1> DEFINE R == OpToRel(<, Nat)
<1>1. \E x \in T : \A y \in T : ~(<<y, x>> \in R)
  BY NatLessThanWellFounded, WFMin
<1>2. \A x, y \in Nat : <<y, x>> \in R <=> y < x
  BY DEF OpToRel
<1> HIDE DEF R
<1>3. PICK x \in T : \A y \in T : ~(<<y, x>> \in R)
  BY <1>1
<1>4. \A y \in T : y \in Nat /\ x \in Nat /\ ~(y < x)
  BY <1>2, <1>3
<1>5. \A y \in T : x <= y
  BY <1>4
<1> QED  BY <1>5

LEMMA NatSteps ==
    ASSUME NEW T, 0 \in T, \A n \in Nat : n \in T => n + 1 \in T
    PROVE  \A n \in Nat : n \in T
<1> SUFFICES ASSUME {n \in Nat : n \notin T} # {}
             PROVE  FALSE
  OBVIOUS
<1> DEFINE Out == {n \in Nat : n \notin T}
<1>1. PICK x \in Out : \A y \in Out : x <= y
  BY NatLeast
<1>2. x \in Nat /\ x # 0
  BY <1>1
<1>3. x - 1 \in T
  BY <1>1, <1>2
<1> QED  BY <1>1, <1>2, <1>3

(* A step that stays within a set can be iterated.                           *)
Iteration(f, S, s0, step) ==
    f \in [Nat -> S] /\ f[0] = s0 /\ \A n \in Nat : f[n + 1] = step[f[n]]

LEMMA Iterates ==
    ASSUME NEW S, NEW s0 \in S, NEW step \in [S -> S]
    PROVE  \E f : Iteration(f, S, s0, step)
<1> DEFINE Run(g, n) == g[0] = s0 /\ \A i \in 0 .. n - 1 : g[i + 1] = step[g[i]]
           Long == {n \in Nat : \E g \in [0 .. n -> S] : Run(g, n)}
           Same(n) == \A k, l \in Nat : \A g, h : n <= k /\ n <= l /\ Run(g, k) /\ Run(h, l) => g[n] = h[n]
           Alike == {n \in Nat : Same(n)}
<1>1. \A n \in Nat : n \in Long
  <2>1. 0 \in Long
    <3> DEFINE g0 == [i \in 0 .. 0 |-> s0]
    <3>1. g0 \in [0 .. 0 -> S] /\ Run(g0, 0)
      OBVIOUS
    <3> QED  BY <3>1
  <2>2. ASSUME NEW n \in Nat, n \in Long
        PROVE  n + 1 \in Long
    <3>1. PICK g \in [0 .. n -> S] : Run(g, n)
      BY <2>2
    <3> DEFINE h == [i \in 0 .. n + 1 |-> IF i = n + 1 THEN step[g[n]] ELSE g[i]]
    <3>2. h \in [0 .. n + 1 -> S]
      OBVIOUS
    <3>3. h[0] = s0
      BY <3>1
    <3>4. ASSUME NEW i \in 0 .. n + 1 - 1
          PROVE  h[i + 1] = step[h[i]]
      BY <3>1
    <3> HIDE DEF h
    <3>5. Run(h, n + 1)
      BY <3>3, <3>4
    <3> QED  BY <3>2, <3>5
  <2> HIDE DEF Long
  <2> QED  BY <2>1, <2>2, NatSteps
<1>2. \A n \in Nat : n \in Alike
  <2>1. 0 \in Alike
    OBVIOUS
  <2>2. ASSUME NEW n \in Nat, n \in Alike
        PROVE  n + 1 \in Alike
    <3>1. Same(n)
      BY <2>2
    <3>2. ASSUME NEW k \in Nat, NEW l \in Nat, NEW g, NEW h,
                 n + 1 <= k, n + 1 <= l, Run(g, k), Run(h, l)
          PROVE  g[n + 1] = h[n + 1]
      <4>1. n <= k /\ n <= l /\ n \in 0 .. k - 1 /\ n \in 0 .. l - 1
        BY <3>2
      <4>2. g[n] = h[n]
        <5> HIDE DEF Run
        <5> QED  BY <3>1, <3>2, <4>1
      <4> QED  BY <3>2, <4>1, <4>2
    <3>3. Same(n + 1)
      <4> HIDE DEF Run
      <4> QED  BY <3>2
    <3> HIDE DEF Same
    <3> QED  BY <3>3
  <2> HIDE DEF Alike
  <2> QED  BY <2>1, <2>2, NatSteps
<1> DEFINE run(n) == CHOOSE g \in [0 .. n -> S] : Run(g, n)
           f == [n \in Nat |-> run(n)[n]]
<1>3. ASSUME NEW n \in Nat
      PROVE  run(n) \in [0 .. n -> S] /\ Run(run(n), n)
  <2>1. \E g \in [0 .. n -> S] : Run(g, n)
    BY <1>1
  <2> HIDE DEF Run
  <2> QED  BY <2>1
<1>4. f \in [Nat -> S]
  <2>1. \A n \in Nat : run(n)[n] \in S
    <3> HIDE DEF run
    <3> QED  BY <1>3
  <2> QED  BY <2>1
<1>5. f[0] = s0
  BY <1>3
<1>6. ASSUME NEW n \in Nat
      PROVE  f[n + 1] = step[f[n]]
  <2> DEFINE g == run(n + 1)
             h == run(n)
  <2>0. n + 1 \in Nat
    OBVIOUS
  <2>1. g \in [0 .. n + 1 -> S] /\ Run(g, n + 1)
    <3> HIDE DEF Run, run
    <3> QED  BY <1>3, <2>0
  <2>2. h \in [0 .. n -> S] /\ Run(h, n)
    BY <1>3
  <2>3. f[n + 1] = g[n + 1] /\ f[n] = h[n]
    OBVIOUS
  <2> HIDE DEF g, h, f
  <2>4. g[n + 1] = step[g[n]]
    BY <2>1
  <2>5. g[n] = h[n]
    <3>1. Same(n)
      BY <1>2
    <3>2. n <= n + 1 /\ n <= n /\ n + 1 \in Nat
      OBVIOUS
    <3>3. Run(g, n + 1) /\ Run(h, n)
      BY <2>1, <2>2
    <3> HIDE DEF Run
    <3> QED  BY <3>1, <3>2, <3>3
  <2> QED  BY <2>3, <2>4, <2>5
<1> HIDE DEF f
<1>7. Iteration(f, S, s0, step)
  BY <1>4, <1>5, <1>6 DEF Iteration
<1> QED  BY <1>7

-----------------------------------------------------------------------------
(* The ring buffer.  Its positions wrap around at most once.                 *)
LEMMA Wrap ==
    ASSUME NEW a \in 0 .. 2 * Capacity - 1
    PROVE  a % Capacity = IF a < Capacity THEN a ELSE a - Capacity
  BY CapacityAssumption

LEMMA WrapSum ==
    ASSUME NEW N \in Nat \ {0}, NEW at \in 0 .. N - 1, NEW n \in Nat, NEW j \in Nat, j + n < N,
           NEW q, q = IF at + n < N THEN at + n ELSE at + n - N,
           NEW k, k = IF at + (j + n) < N THEN at + (j + n) ELSE at + (j + n) - N
    PROVE  /\ k = IF q + j < N THEN q + j ELSE q + j - N
           /\ k - at + N \in 0 .. 2 * N - 1
           /\ j + n = IF k - at + N < N THEN k - at + N ELSE k - at + N - N
<1>1. CASE at + n < N /\ at + (j + n) < N
  BY <1>1
<1>2. CASE at + n < N /\ ~(at + (j + n) < N)
  BY <1>2
<1>3. CASE ~(at + n < N)
  BY <1>3
<1> QED  BY <1>1, <1>2, <1>3

LEMMA ReadPos ==
    ASSUME NEW r \in Ring
    PROVE  /\ read_pos(r) = IF r.size <= r.write_pos THEN r.write_pos - r.size
                            ELSE r.write_pos - r.size + Capacity
           /\ read_pos(r) \in 0 .. Capacity - 1
<1> DEFINE a == r.write_pos - r.size + Capacity
<1>1. /\ r.write_pos \in 0 .. Capacity - 1 /\ r.size \in 0 .. Capacity
      /\ Capacity \in Nat \ {0}
  BY CapacityAssumption DEF Ring
<1>2. a \in 0 .. 2 * Capacity - 1
  BY <1>1
<1>3. a % Capacity = IF a < Capacity THEN a ELSE a - Capacity
  BY <1>2, Wrap
<1>4. read_pos(r) = a % Capacity
  BY DEF read_pos
<1> QED  BY <1>1, <1>3, <1>4

LEMMA BytePos ==
    ASSUME NEW r \in Ring, NEW j \in 0 .. Capacity - 1
    PROVE  /\ (read_pos(r) + j) % Capacity = IF read_pos(r) + j < Capacity THEN read_pos(r) + j
                                             ELSE read_pos(r) + j - Capacity
           /\ (read_pos(r) + j) % Capacity \in 0 .. Capacity - 1
           /\ ByteAt(r, j) \in Byte
<1>1. read_pos(r) \in 0 .. Capacity - 1 /\ Capacity \in Nat \ {0}
  BY ReadPos, CapacityAssumption
<1> DEFINE a == read_pos(r) + j
<1>2. a \in 0 .. 2 * Capacity - 1
  BY <1>1
<1>3. a % Capacity = IF a < Capacity THEN a ELSE a - Capacity
  <2> HIDE DEF a
  <2> QED  BY <1>2, Wrap
<1>4. (read_pos(r) + j) % Capacity \in 0 .. Capacity - 1
  BY <1>1, <1>3
<1>5. r.data \in [0 .. Capacity - 1 -> Byte]
  BY DEF Ring
<1>6. ByteAt(r, j) \in Byte
  BY <1>4, <1>5 DEF ByteAt
<1> QED  BY <1>1, <1>3, <1>4, <1>6

(* buffer gives bytes from the front, and some when there are any.           *)
LEMMA BufferFront ==
    ASSUME NEW r \in Ring
    PROVE  /\ buffer(r) \in Seq(Byte)
           /\ Len(buffer(r)) \in 0 .. r.size
           /\ r.size > 0 => Len(buffer(r)) > 0
           /\ \A i \in 1 .. Len(buffer(r)) : buffer(r)[i] = ByteAt(r, i - 1)
<1> DEFINE at == read_pos(r)
           n == CASE r.size = 0       -> 0
                  [] at < r.write_pos -> r.write_pos - at
                  [] OTHER            -> Capacity - at
<1>1. /\ r.write_pos \in 0 .. Capacity - 1 /\ r.size \in 0 .. Capacity
      /\ Capacity \in Nat \ {0}
  BY CapacityAssumption DEF Ring
<1>0. r.data \in [0 .. Capacity - 1 -> Byte]
  BY DEF Ring
<1>2. /\ at = IF r.size <= r.write_pos THEN r.write_pos - r.size ELSE r.write_pos - r.size + Capacity
      /\ at \in 0 .. Capacity - 1
  BY ReadPos
<1> HIDE DEF at
<1>3. n \in 0 .. r.size /\ (r.size > 0 => n > 0) /\ at + n <= Capacity
  <2>1. CASE r.size = 0
    BY <1>1, <1>2, <2>1
  <2>2. CASE r.size # 0 /\ at < r.write_pos
    <3>1. n = r.write_pos - at
      BY <2>2
    <3> HIDE DEF n
    <3> QED  BY <1>1, <1>2, <2>2, <3>1
  <2>3. CASE r.size # 0 /\ ~(at < r.write_pos)
    <3>1. n = Capacity - at
      BY <2>3
    <3>2. ~(r.size <= r.write_pos)
      BY <1>1, <1>2, <2>3
    <3>3. at = r.write_pos - r.size + Capacity
      BY <1>2, <3>2
    <3> HIDE DEF n
    <3>6. at \in 0 .. Capacity - 1 /\ Capacity \in Nat
      BY <1>1, <1>2
    <3>4. n \in Int /\ n > 0 /\ at + n <= Capacity
      BY <3>6, <3>1
    <3>5. n <= r.size
      BY <1>1, <1>2, <3>1, <3>3
    <3> QED  BY <1>1, <3>4, <3>5
  <2> QED  BY <2>1, <2>2, <2>3
<1>4. buffer(r) = [i \in 1 .. n |-> r.data[at + i - 1]]
  BY DEF buffer, at
<1> HIDE DEF n
<1>5. ASSUME NEW i \in 1 .. n
      PROVE  r.data[at + i - 1] = ByteAt(r, i - 1) /\ r.data[at + i - 1] \in Byte
  <2>1. i - 1 \in 0 .. Capacity - 1 /\ at + (i - 1) < Capacity /\ at + (i - 1) \in 0 .. Capacity - 1
    BY <1>1, <1>2, <1>3
  <2>2. (at + (i - 1)) % Capacity = at + (i - 1)
    BY <2>1, <1>2, BytePos DEF at
  <2>3. at + (i - 1) = at + i - 1
    BY <1>2
  <2> QED  BY <1>0, <2>1, <2>2, <2>3 DEF ByteAt, at
<1>6. buffer(r) \in Seq(Byte) /\ Len(buffer(r)) = n
  BY <1>3, <1>4, <1>5
<1>7. \A i \in 1 .. n : buffer(r)[i] = r.data[at + i - 1]
  BY <1>4
<1> QED  BY <1>3, <1>5, <1>6, <1>7

(* forward takes n bytes from the front and leaves the others.               *)
LEMMA ForwardRing ==
    ASSUME NEW r \in Ring, NEW n \in 1 .. r.size
    PROVE  /\ forward(r, n) \in Ring /\ forward(r, n).size = r.size - n
           /\ \A j \in 0 .. r.size - n - 1 : ByteAt(forward(r, n), j) = ByteAt(r, j + n)
<1> DEFINE at == read_pos(r)
           d == [i \in 0 .. Capacity - 1 |->
                    IF (i - at + Capacity) % Capacity < n THEN NoByte ELSE r.data[i]]
           s == forward(r, n)
<1>1. /\ r.write_pos \in 0 .. Capacity - 1 /\ r.size \in 0 .. Capacity
      /\ Capacity \in Nat \ {0}
  BY CapacityAssumption DEF Ring
<1>0. /\ r.data \in [0 .. Capacity - 1 -> Byte]
      /\ r = [data |-> r.data, write_pos |-> r.write_pos, size |-> r.size]
  BY CapacityAssumption DEF Ring
<1>2. /\ at = IF r.size <= r.write_pos THEN r.write_pos - r.size ELSE r.write_pos - r.size + Capacity
      /\ at \in 0 .. Capacity - 1
  BY ReadPos
<1>3. s = [data |-> d, write_pos |-> r.write_pos, size |-> r.size - n]
  BY <1>0, <1>1 DEF forward
<1>4. NoByte \in Byte
  <2>1. 0 \in Int
    OBVIOUS
  <2> QED  BY <2>1, Zenon DEF NoByte, Byte
<1>5. d \in [0 .. Capacity - 1 -> Byte]
  BY <1>0, <1>4
<1>6. s \in Ring
  BY <1>1, <1>3, <1>5 DEF Ring
<1> HIDE DEF s, d, at
<1>7. /\ read_pos(s) = IF r.size - n <= r.write_pos THEN r.write_pos - (r.size - n)
                       ELSE r.write_pos - (r.size - n) + Capacity
      /\ read_pos(s) \in 0 .. Capacity - 1
  BY <1>3, <1>6, ReadPos
<1>8. ASSUME NEW j \in 0 .. r.size - n - 1
      PROVE  ByteAt(s, j) = ByteAt(r, j + n)
  <2> DEFINE k == (at + (j + n)) % Capacity
  <2>1. j \in 0 .. Capacity - 1 /\ j + n \in 0 .. Capacity - 1
    BY <1>1
  <2>2. k = (IF at + (j + n) < Capacity THEN at + (j + n) ELSE at + (j + n) - Capacity)
        /\ k \in 0 .. Capacity - 1
    BY <2>1, BytePos DEF at
  <2>3. (read_pos(s) + j) % Capacity = IF read_pos(s) + j < Capacity THEN read_pos(s) + j
                                       ELSE read_pos(s) + j - Capacity
    BY <2>1, <1>6, BytePos
  <2> DEFINE q == read_pos(s)
             m == k - at + Capacity
  <2> HIDE DEF k, q
  <2>9. /\ k = IF q + j < Capacity THEN q + j ELSE q + j - Capacity
        /\ m \in 0 .. 2 * Capacity - 1
        /\ j + n = IF m < Capacity THEN m ELSE m - Capacity
    <3>1. q = IF at + n < Capacity THEN at + n ELSE at + n - Capacity
      BY <1>1, <1>2, <1>7 DEF q
    <3>2. n \in Nat /\ j \in Nat /\ j + n < Capacity
      BY <1>1
    <3>3. k = IF at + (j + n) < Capacity THEN at + (j + n) ELSE at + (j + n) - Capacity
      BY <2>2
    <3> QED  BY <1>1, <1>2, <3>1, <3>2, <3>3, WrapSum
  <2>4. (q + j) % Capacity = k
    <3>2. (q + j) % Capacity = IF q + j < Capacity THEN q + j ELSE q + j - Capacity
      BY <2>3 DEF q
    <3> QED  BY <3>2, <2>9
  <2>5. m % Capacity = j + n
    <3>2. m % Capacity = IF m < Capacity THEN m ELSE m - Capacity
      <4>1. m \in 0 .. 2 * Capacity - 1
        BY <2>9
      <4> HIDE DEF m
      <4> QED  BY <4>1, Wrap
    <3> QED  BY <3>2, <2>9
  <2>6. d[k] = r.data[k]
    <3>1. ~(j + n < n)
      BY <1>1
    <3> QED  BY <2>2, <2>5, <3>1 DEF d
  <2>7. s.data = d
    BY <1>3
  <2> QED  BY <2>4, <2>6, <2>7 DEF ByteAt, k, q, at
<1> QED  BY <1>3, <1>6, <1>8 DEF s

-----------------------------------------------------------------------------
(* The bytes a writer has sent and those it still has, in their order.       *)
ByteOf(w, i) == IF i <= Len(w.out) THEN w.out[i] ELSE ByteAt(w.ring, i - Len(w.out) - 1)
Total(w)     == Len(w.out) + w.ring.size
Keeps(v, w)  ==
    /\ Total(v) = Total(w) /\ Len(w.out) <= Len(v.out)
    /\ \A i \in 1 .. Total(w) : ByteOf(v, i) = ByteOf(w, i)

LEMMA WriterFields ==
    ASSUME NEW w \in Writers
    PROVE  /\ w = [ring |-> w.ring, out |-> w.out, rc |-> w.rc]
           /\ w.ring \in Ring /\ w.out \in Seq(Byte) /\ w.rc \in {"SUCCESS", "IOERR_WRITE"}
           /\ w.ring.size \in 0 .. Capacity /\ Len(w.out) \in Nat /\ Total(w) \in Nat
<1>1. /\ w = [ring |-> w.ring, out |-> w.out, rc |-> w.rc]
      /\ w.ring \in Ring /\ w.out \in Seq(Byte) /\ w.rc \in {"SUCCESS", "IOERR_WRITE"}
  BY DEF Writers
<1>2. w.ring.size \in 0 .. Capacity /\ Capacity \in Nat
  BY <1>1, CapacityAssumption DEF Ring
<1>3. Len(w.out) \in Nat
  BY <1>1
<1> QED  BY <1>1, <1>2, <1>3 DEF Total

LEMMA KeepsTrans ==
    ASSUME NEW u \in Writers, NEW v \in Writers, NEW w \in Writers, Keeps(u, v), Keeps(v, w)
    PROVE  Keeps(u, w)
<1>1. Len(u.out) \in Nat /\ Len(v.out) \in Nat /\ Len(w.out) \in Nat
  BY WriterFields
<1> QED  BY <1>1 DEF Keeps

(* One turn of flush_internal: nothing is lost or reordered, and the socket, *)
(* while it takes bytes, gets one at least.                                  *)
LEMMA FlushTurnKeeps ==
    ASSUME NEW w \in Writers, NEW want \in Nat, NEW up \in BOOLEAN
    PROVE  LET v == FlushTurn(w, want, up, Burst)
           IN /\ v \in Writers /\ Keeps(v, w)
              /\ up /\ w.rc = "SUCCESS" => v.rc = "SUCCESS"
              /\ up => \/ v.ring.size < w.ring.size
                       \/ v.ring.size = w.ring.size /\ (v.ring.size = 0 \/ Len(v.out) >= want)
<1> DEFINE v == FlushTurn(w, want, up, Burst)
           piece == buffer(w.ring)
           n == Least(Burst, Len(piece))
<1> USE DEF Total
<1>1. /\ w = [ring |-> w.ring, out |-> w.out, rc |-> w.rc]
      /\ w.ring \in Ring /\ w.out \in Seq(Byte) /\ w.rc \in {"SUCCESS", "IOERR_WRITE"}
      /\ w.ring.size \in 0 .. Capacity /\ Len(w.out) \in Nat /\ Total(w) \in Nat
  BY WriterFields
<1>2. CASE w.ring.size = 0 \/ Len(w.out) >= want
  <2>1. v = [ring |-> w.ring, out |-> w.out, rc |-> "SUCCESS"]
    BY <1>1, <1>2 DEF FlushTurn
  <2>2. v \in Writers
    BY <1>1, <2>1 DEF Writers
  <2>3. Keeps(v, w)
    BY <1>1, <2>1 DEF Keeps, ByteOf
  <2> QED  BY <1>2, <2>1, <2>2, <2>3
<1>3. CASE ~(w.ring.size = 0 \/ Len(w.out) >= want) /\ ~up
  <2>1. v = [ring |-> w.ring, out |-> w.out, rc |-> "IOERR_WRITE"]
    BY <1>1, <1>3 DEF FlushTurn
  <2>2. v \in Writers
    BY <1>1, <2>1 DEF Writers
  <2>3. Keeps(v, w)
    BY <1>1, <2>1 DEF Keeps, ByteOf
  <2> QED  BY <1>3, <2>2, <2>3
<1>4. CASE ~(w.ring.size = 0 \/ Len(w.out) >= want) /\ up
  <2> DEFINE o == w.out \o SubSeq(piece, 1, n)
             r == forward(w.ring, n)
  <2>1. v = [ring |-> r, out |-> o, rc |-> w.rc]
    BY <1>1, <1>4 DEF FlushTurn
  <2>2. /\ piece \in Seq(Byte) /\ Len(piece) \in 1 .. w.ring.size
        /\ \A i \in 1 .. Len(piece) : piece[i] = ByteAt(w.ring, i - 1)
    BY <1>1, <1>4, BufferFront
  <2> HIDE DEF v, piece
  <2>3. n \in 1 .. Len(piece) /\ n \in 1 .. w.ring.size
    BY <1>1, <2>2, BurstAssumption DEF Least
  <2> HIDE DEF n
  <2>4. /\ r \in Ring /\ r.size = w.ring.size - n
        /\ \A j \in 0 .. w.ring.size - n - 1 : ByteAt(r, j) = ByteAt(w.ring, j + n)
    BY <1>1, <2>3, ForwardRing
  <2> HIDE DEF r
  <2>5. SubSeq(piece, 1, n) \in Seq(Byte) /\ Len(SubSeq(piece, 1, n)) = n
        /\ \A i \in 1 .. n : SubSeq(piece, 1, n)[i] = piece[i]
    BY <2>2, <2>3
  <2>6. /\ o \in Seq(Byte) /\ Len(o) = Len(w.out) + n
        /\ \A i \in 1 .. Len(w.out) : o[i] = w.out[i]
        /\ \A i \in 1 .. n : o[Len(w.out) + i] = piece[i]
    <3> DEFINE x == w.out
               y == SubSeq(piece, 1, n)
    <3>1. o = x \o y /\ x \in Seq(Byte) /\ y \in Seq(Byte) /\ Len(y) = n /\ \A i \in 1 .. n : y[i] = piece[i]
      BY <1>1, <2>5
    <3> HIDE DEF o, x, y
    <3>2. o \in Seq(Byte) /\ Len(o) = Len(x) + n
      <4>0. o = x \o y /\ x \in Seq(Byte) /\ y \in Seq(Byte)
        BY <3>1, Zenon
      <4>1. o \in Seq(Byte)
        BY <4>0
      <4>2. Len(o) = Len(x) + Len(y)
        BY <4>0
      <4>3. Len(y) = n
        BY <3>1, Zenon
      <4> QED  BY <4>1, <4>2, <4>3, Zenon
    <3>3. \A i \in 1 .. Len(x) : o[i] = x[i]
      BY <3>1
    <3>4. \A i \in 1 .. n : o[Len(x) + i] = y[i]
      BY <3>1
    <3> QED  BY <3>1, <3>2, <3>3, <3>4 DEF x
  <2> HIDE DEF o
  <2>7. v \in Writers
    BY <1>1, <2>1, <2>4, <2>6 DEF Writers
  <2>8. ASSUME NEW i \in 1 .. Total(w)
        PROVE  ByteOf(v, i) = ByteOf(w, i)
    <3>1. CASE i <= Len(w.out)
      BY <1>1, <2>1, <2>3, <2>6, <3>1 DEF ByteOf
    <3>2. CASE i > Len(w.out) /\ i <= Len(w.out) + n
      <4> DEFINE k == i - Len(w.out)
      <4>1. k \in 1 .. n /\ i = Len(w.out) + k /\ k \in 1 .. Len(piece)
        BY <1>1, <2>3, <3>2
      <4>2. o[i] = ByteAt(w.ring, k - 1)
        BY <2>2, <2>6, <4>1
      <4>3. ByteOf(v, i) = o[i]
        BY <2>1, <2>6, <3>2 DEF ByteOf
      <4>4. ByteOf(w, i) = ByteAt(w.ring, k - 1)
        BY <1>1, <3>2 DEF ByteOf
      <4> QED  BY <4>2, <4>3, <4>4
    <3>3. CASE i > Len(w.out) + n
      <4> DEFINE j == i - Len(w.out) - n - 1
      <4>1. j \in 0 .. w.ring.size - n - 1 /\ ~(i <= Len(o)) /\ ~(i <= Len(w.out))
            /\ i - Len(o) - 1 = j /\ i - Len(w.out) - 1 = j + n
        <5> DEFINE a == Len(w.out)
                   b == Len(o)
                   z == w.ring.size
        <5>1. a \in Nat /\ b = a + n /\ z \in Nat /\ n \in Nat /\ i \in 1 .. a + z /\ i > a + n
          <6>1. Total(w) = a + z
            BY DEF Total
          <6> QED  BY <1>1, <2>3, <2>6, <3>3, <6>1
        <5> HIDE DEF a, b, z
        <5>2. j = i - a - n - 1
          BY DEF a
        <5> HIDE DEF j
        <5>3. j \in 0 .. z - n - 1 /\ ~(i <= b) /\ ~(i <= a) /\ i - b - 1 = j /\ i - a - 1 = j + n
          BY <5>1, <5>2
        <5> QED  BY <5>3 DEF a, b, z
      <4>2. ByteOf(v, i) = ByteAt(r, j)
        BY <2>1, <4>1 DEF ByteOf
      <4>3. ByteOf(w, i) = ByteAt(w.ring, j + n)
        BY <4>1 DEF ByteOf
      <4> QED  BY <2>4, <4>1, <4>2, <4>3
    <3> QED  BY <1>1, <2>3, <3>1, <3>2, <3>3
  <2>9. Keeps(v, w)
    <3>1. v.out = o /\ v.ring = r
      BY <2>1
    <3>2. Total(v) = Total(w) /\ Len(w.out) <= Len(v.out)
      BY <1>1, <2>3, <2>4, <2>6, <3>1
    <3> QED  BY <2>8, <3>2 DEF Keeps
  <2>10. v.ring.size < w.ring.size /\ v.rc = w.rc
    BY <1>1, <2>1, <2>3, <2>4
  <2> QED  BY <1>4, <2>7, <2>9, <2>10 DEF v
<1> QED  BY <1>2, <1>3, <1>4

(* flush_internal: the turns are a function, by induction; a socket that     *)
(* takes bytes gets all that is wanted or all there is.                      *)
LEMMA FlushKeeps ==
    ASSUME NEW w \in Writers, NEW want \in Nat, NEW up \in BOOLEAN
    PROVE  LET v == flush_internal(w, want, up, Burst)
           IN /\ v \in Writers /\ Keeps(v, w)
              /\ up /\ w.rc = "SUCCESS" => v.rc = "SUCCESS"
              /\ up => v.ring.size = 0 \/ Len(v.out) >= Len(w.out) + want
<1> DEFINE goal == Len(w.out) + want
           S == {v \in Writers : Keeps(v, w) /\ (up /\ w.rc = "SUCCESS" => v.rc = "SUCCESS")}
           step == [v \in S |-> FlushTurn(v, goal, up, Burst)]
           G(g) == [n \in Nat |-> IF n = 0 THEN w ELSE FlushTurn(g[n - 1], goal, up, Burst)]
           turn == CHOOSE g : g = G(g)
<1>1. /\ Len(w.out) \in Nat /\ w.ring.size \in Nat /\ Total(w) \in Nat
      /\ goal \in Nat
  BY WriterFields, CapacityAssumption
<1>2. w \in S
  BY <1>1 DEF Keeps
<1>3. step \in [S -> S]
  <2> SUFFICES ASSUME NEW v \in S
               PROVE  FlushTurn(v, goal, up, Burst) \in S
    OBVIOUS
  <2> DEFINE x == FlushTurn(v, goal, up, Burst)
  <2>1. v \in Writers /\ Keeps(v, w) /\ (up /\ w.rc = "SUCCESS" => v.rc = "SUCCESS")
    OBVIOUS
  <2>2. x \in Writers /\ Keeps(x, v) /\ (up /\ v.rc = "SUCCESS" => x.rc = "SUCCESS")
    <3> HIDE DEF goal
    <3> QED  BY <1>1, <2>1, FlushTurnKeeps
  <2> HIDE DEF x
  <2>3. Keeps(x, w)
    BY <2>1, <2>2, KeepsTrans
  <2>4. x \in S
    BY <2>1, <2>2, <2>3
  <2> QED  BY <2>4 DEF x
<1> HIDE DEF S
<1>4. PICK f \in [Nat -> S] : f[0] = w /\ \A n \in Nat : f[n + 1] = step[f[n]]
  <2> HIDE DEF step
  <2>1. PICK f : Iteration(f, S, w, step)
    BY <1>2, <1>3, Iterates
  <2> QED  BY <2>1 DEF Iteration
<1>5. f = G(f)
  <2>1. ASSUME NEW n \in Nat, n # 0
        PROVE  f[n] = FlushTurn(f[n - 1], goal, up, Burst)
    <3>1. n - 1 \in Nat /\ (n - 1) + 1 = n
      BY <2>1
    <3>2. f[n] = step[f[n - 1]] /\ f[n - 1] \in S
      BY <1>4, <3>1
    <3> QED  BY <3>2
  <2> HIDE DEF goal, step
  <2> QED  BY <1>4, <2>1
<1>6. turn = G(turn)
  <2> HIDE DEF G
  <2> QED  BY <1>5
<1>7. flush_internal(w, want, up, Burst) = turn[w.ring.size + 1]
  BY DEF flush_internal
<1> HIDE DEF turn
<1>8. turn[0] = w /\ \A n \in Nat : turn[n + 1] = FlushTurn(turn[n], goal, up, Burst)
  <2> DEFINE T(n) == FlushTurn(turn[n], goal, up, Burst)
  <2>1. turn = [n \in Nat |-> IF n = 0 THEN w ELSE T(n - 1)]
    BY <1>6
  <2> HIDE DEF T
  <2>2. turn[0] = w
    BY <2>1
  <2>3. ASSUME NEW n \in Nat
        PROVE  turn[n + 1] = T(n)
    <3>1. n + 1 \in Nat /\ n + 1 # 0 /\ (n + 1) - 1 = n
      OBVIOUS
    <3>2. turn[n + 1] = T((n + 1) - 1)
      BY <2>1, <3>1
    <3> QED  BY <3>1, <3>2
  <2> QED  BY <2>2, <2>3 DEF T
<1> DEFINE Small(n) == up => \/ turn[n].ring.size = 0
                             \/ Len(turn[n].out) >= goal
                             \/ turn[n].ring.size + n <= w.ring.size
           Good == {n \in Nat : turn[n] \in S /\ Small(n)}
<1>9. \A n \in Nat : n \in Good
  <2>1. 0 \in Good
    <3>0. w.ring.size + 0 <= w.ring.size
      BY <1>1
    <3>1. turn[0] = w /\ w.ring.size + 0 <= w.ring.size
      BY <1>8, <3>0
    <3>2. Small(0)
      BY <3>1
    <3> HIDE DEF Small
    <3> QED  BY <1>2, <3>1, <3>2
  <2>2. ASSUME NEW n \in Nat, n \in Good
        PROVE  n + 1 \in Good
    <3> DEFINE v == turn[n]
               x == turn[n + 1]
    <3>1. v \in S /\ x = FlushTurn(v, goal, up, Burst) /\ Small(n)
      BY <1>8, <2>2
    <3>2. x = step[v]
      BY <3>1
    <3>3. x \in S
      <4> HIDE DEF step, x, v
      <4> QED  BY <1>3, <3>1, <3>2
    <3>4. v \in Writers /\ x \in Writers
      BY <3>1, <3>3 DEF S
    <3>5. Keeps(x, v)
          /\ (up => \/ x.ring.size < v.ring.size
                    \/ x.ring.size = v.ring.size /\ (x.ring.size = 0 \/ Len(x.out) >= goal))
      <4> HIDE DEF goal, v, x
      <4> QED  BY <1>1, <3>1, <3>4, FlushTurnKeeps
    <3>6. /\ Len(x.out) \in Nat /\ Len(v.out) \in Nat /\ x.ring.size \in Nat /\ v.ring.size \in Nat
      BY <3>4, WriterFields, CapacityAssumption
    <3>7. Len(v.out) <= Len(x.out)
      BY <3>5 DEF Keeps
    <3>8. Small(n + 1)
      <4>1. up => \/ v.ring.size = 0 \/ Len(v.out) >= goal \/ v.ring.size + n <= w.ring.size
        BY <3>1
      <4>2. up => \/ x.ring.size = 0 \/ Len(x.out) >= goal \/ x.ring.size + (n + 1) <= w.ring.size
        <5> HIDE DEF goal, v, x
        <5> QED  BY <1>1, <3>5, <3>6, <3>7, <4>1, SMTT(40)
      <4> QED  BY <4>2
    <3> HIDE DEF Small
    <3> QED  BY <3>3, <3>8
  <2> HIDE DEF Good
  <2> QED  BY <2>1, <2>2, NatSteps
<1> DEFINE v == turn[w.ring.size + 1]
<1>10. v \in S /\ Small(w.ring.size + 1)
  <2> DEFINE k == w.ring.size + 1
  <2>1. k \in Nat
    BY <1>1
  <2> HIDE DEF k
  <2>2. turn[k] \in S /\ Small(k)
    <3> HIDE DEF Small, S
    <3> QED  BY <1>9, <2>1
  <2> QED  BY <2>2 DEF k
<1>11. v \in Writers /\ Keeps(v, w) /\ (up /\ w.rc = "SUCCESS" => v.rc = "SUCCESS")
  BY <1>10 DEF S
<1>12. up => v.ring.size = 0 \/ Len(v.out) >= goal
  <2>1. v.ring.size \in Nat
    BY <1>11, WriterFields, CapacityAssumption
  <2> QED  BY <1>1, <1>10, <2>1
<1> QED  BY <1>7, <1>11, <1>12

-----------------------------------------------------------------------------
(* Bytes on their way into a ring: those in it and those that are left.      *)
PutOf(p, i)   == IF i <= p.ring.size THEN ByteAt(p.ring, i - 1) ELSE p.left[i - p.ring.size]
PutTotal(p)   == p.ring.size + Len(p.left)
Puts          == [ring : Ring, left : Seq(Byte)]
PutKeeps(q, p) ==
    /\ PutTotal(q) = PutTotal(p) /\ Len(q.left) <= Len(p.left)
    /\ \A i \in 1 .. PutTotal(p) : PutOf(q, i) = PutOf(p, i)

LEMMA PutFields ==
    ASSUME NEW p \in Puts
    PROVE  /\ p.ring \in Ring /\ p.left \in Seq(Byte) /\ p = [ring |-> p.ring, left |-> p.left]
           /\ p.ring.size \in 0 .. Capacity /\ p.ring.size \in Nat /\ Len(p.left) \in Nat
           /\ PutTotal(p) \in Nat /\ Capacity \in Nat \ {0}
<1>1. p.ring \in Ring /\ p.left \in Seq(Byte) /\ p = [ring |-> p.ring, left |-> p.left]
  BY DEF Puts
<1>2. p.ring.size \in 0 .. Capacity /\ p.ring.size \in Nat /\ Capacity \in Nat \ {0}
  BY <1>1, CapacityAssumption DEF Ring
<1>3. Len(p.left) \in Nat
  BY <1>1
<1> QED  BY <1>1, <1>2, <1>3 DEF PutTotal

(* PlaceBytes adds a piece that fits behind the bytes that are there.        *)
LEMMA PlaceRing ==
    ASSUME NEW r \in Ring, NEW s \in Seq(Byte), Len(s) > 0,
           r.size < Capacity,
           Len(s) <= IF read_pos(r) <= r.write_pos THEN Capacity - r.write_pos
                     ELSE read_pos(r) - r.write_pos
    PROVE  /\ PlaceBytes(r, s) \in Ring /\ PlaceBytes(r, s).size = r.size + Len(s)
           /\ \A j \in 0 .. r.size - 1 : ByteAt(PlaceBytes(r, s), j) = ByteAt(r, j)
           /\ \A j \in 1 .. Len(s) : ByteAt(PlaceBytes(r, s), r.size + j - 1) = s[j]
<1> DEFINE at == read_pos(r)
           wp == r.write_pos
           size == r.size
           len == Len(s)
           q == PlaceBytes(r, s)
           d == [i \in 0 .. Capacity - 1 |-> IF i >= wp /\ i < wp + len THEN s[i - wp + 1] ELSE r.data[i]]
<1>1. /\ wp \in 0 .. Capacity - 1 /\ size \in 0 .. Capacity /\ size < Capacity
      /\ Capacity \in Nat \ {0} /\ len \in Nat \ {0}
  BY CapacityAssumption DEF Ring
<1>0. /\ r.data \in [0 .. Capacity - 1 -> Byte]
      /\ r = [data |-> r.data, write_pos |-> r.write_pos, size |-> r.size]
  BY DEF Ring
<1>2. /\ at = IF size <= wp THEN wp - size ELSE wp - size + Capacity
      /\ at \in 0 .. Capacity - 1
  BY ReadPos
<1>3. len <= IF at <= wp THEN Capacity - wp ELSE at - wp
  OBVIOUS
<1> HIDE DEF at, len
<1>4. q = [data |-> d, write_pos |-> (wp + len) % Capacity, size |-> size + len]
  <2>1. DOMAIN r.data = 0 .. Capacity - 1
    BY <1>0
  <2> DEFINE d1 == [i \in DOMAIN r.data |-> IF i >= r.write_pos /\ i < r.write_pos + Len(s)
                                            THEN s[i - r.write_pos + 1] ELSE r.data[i]]
             w1 == (r.write_pos + Len(s)) % Capacity
             s1 == r.size + Len(s)
  <2>2. q = [r EXCEPT !.data = d1, !.write_pos = w1, !.size = s1]
    BY Zenon DEF PlaceBytes
  <2>3. q = [data |-> d1, write_pos |-> w1, size |-> s1]
    <3> HIDE DEF q, d1, w1, s1
    <3> QED  BY <1>0, <2>2
  <2>4. d1 = d /\ w1 = (wp + len) % Capacity /\ s1 = size + len
    BY <2>1 DEF len
  <2> HIDE DEF q, d1, w1, s1, d
  <2> QED  BY <2>3, <2>4
<1> HIDE DEF wp, size
<1>5. size + len <= Capacity /\ wp + len <= Capacity
  <2>1. CASE size <= wp
    BY <1>1, <1>2, <1>3, <2>1
  <2>2. CASE ~(size <= wp)
    BY <1>1, <1>2, <1>3, <2>2
  <2> QED  BY <2>1, <2>2
<1>6. (wp + len) % Capacity = IF wp + len < Capacity THEN wp + len ELSE wp + len - Capacity
  <2> DEFINE a == wp + len
  <2>1. a \in 0 .. 2 * Capacity - 1
    BY <1>1, <1>5
  <2> HIDE DEF a
  <2>2. a % Capacity = IF a < Capacity THEN a ELSE a - Capacity
    BY <2>1, Wrap
  <2> QED  BY <1>1, <2>2 DEF a
<1>7. (wp + len) % Capacity \in 0 .. Capacity - 1
  BY <1>1, <1>5, <1>6
<1>8. d \in [0 .. Capacity - 1 -> Byte]
  <2> SUFFICES ASSUME NEW i \in 0 .. Capacity - 1
               PROVE  (IF i >= wp /\ i < wp + len THEN s[i - wp + 1] ELSE r.data[i]) \in Byte
    OBVIOUS
  <2>1. CASE i >= wp /\ i < wp + len
    <3>1. i - wp + 1 \in 1 .. Len(s)
      BY <1>1, <2>1 DEF len
    <3> QED  BY <2>1, <3>1
  <2>2. CASE ~(i >= wp /\ i < wp + len)
    BY <1>0, <2>2
  <2> QED  BY <2>1, <2>2
<1> HIDE DEF q, d
<1>9. q \in Ring
  <2>1. size + len \in 0 .. Capacity
    BY <1>1, <1>5
  <2> QED  BY <1>4, <1>7, <1>8, <2>1 DEF Ring
<1>10. read_pos(q) = at
  <2> DEFINE w2 == (wp + len) % Capacity
             s2 == size + len
  <2>1. q.write_pos = w2 /\ q.size = s2
    BY <1>4
  <2>2. read_pos(q) = IF s2 <= w2 THEN w2 - s2 ELSE w2 - s2 + Capacity
    BY <1>9, <2>1, ReadPos
  <2>3. w2 = IF wp + len < Capacity THEN wp + len ELSE wp + len - Capacity
    BY <1>6
  <2> HIDE DEF w2
  <2>4. (IF s2 <= w2 THEN w2 - s2 ELSE w2 - s2 + Capacity) = at
    <3>1. CASE size <= wp /\ wp + len < Capacity
      BY <1>1, <1>2, <1>5, <2>3, <3>1
    <3>2. CASE size <= wp /\ ~(wp + len < Capacity)
      <4>1. w2 = 0 /\ wp + len = Capacity
        BY <1>1, <1>5, <2>3, <3>2
      <4>2. at = wp - size
        BY <1>2, <3>2
      <4> QED  BY <1>1, <4>1, <4>2
    <3>3. CASE ~(size <= wp)
      <4>1. at = wp - size + Capacity
        BY <1>2, <3>3
      <4>2. wp + len < Capacity
        BY <1>1, <1>5, <3>3
      <4>3. w2 = wp + len
        BY <2>3, <4>2
      <4> QED  BY <1>1, <3>3, <4>1, <4>3
    <3> QED  BY <3>1, <3>2, <3>3
  <2> QED  BY <2>2, <2>4
<1>11. ASSUME NEW j \in 0 .. size - 1
       PROVE  ByteAt(q, j) = ByteAt(r, j)
  <2> DEFINE k == (at + j) % Capacity
  <2>1. j \in 0 .. Capacity - 1
    BY <1>1
  <2>2. k = (IF at + j < Capacity THEN at + j ELSE at + j - Capacity) /\ k \in 0 .. Capacity - 1
    BY <1>2, <2>1, BytePos DEF at
  <2> HIDE DEF k
  <2>3. ~(k >= wp /\ k < wp + len)
    <3>1. CASE size <= wp
      <4>1. at = wp - size
        BY <1>2, <3>1
      <4>2. k = at + j
        BY <1>1, <2>2, <4>1
      <4> QED  BY <1>1, <4>1, <4>2
    <3>2. CASE ~(size <= wp)
      <4>1. at = wp - size + Capacity
        BY <1>2, <3>2
      <4>2. CASE at + j < Capacity
        <5>1. k = at + j
          BY <2>2, <4>2
        <5> QED  BY <1>1, <1>5, <4>1, <5>1
      <4>3. CASE ~(at + j < Capacity)
        <5>1. k = at + j - Capacity
          BY <2>2, <4>3
        <5> QED  BY <1>1, <1>5, <4>1, <5>1
      <4> QED  BY <4>2, <4>3
    <3> QED  BY <3>1, <3>2
  <2>4. d[k] = r.data[k]
    BY <2>2, <2>3 DEF d
  <2> QED  BY <1>4, <1>10, <2>4 DEF ByteAt, k, at
<1>12. ASSUME NEW j \in 1 .. len
       PROVE  ByteAt(q, size + j - 1) = s[j]
  <2> DEFINE m == size + j - 1
             k == (at + m) % Capacity
  <2>1. m \in 0 .. Capacity - 1
    BY <1>1, <1>5
  <2>2. k = IF at + m < Capacity THEN at + m ELSE at + m - Capacity
    <3> HIDE DEF m
    <3> QED  BY <1>2, <2>1, BytePos DEF at
  <2> HIDE DEF k
  <2>3. k = wp + j - 1
    <3>1. CASE size <= wp
      <4>1. at = wp - size
        BY <1>2, <3>1
      <4>2. k = at + m
        BY <1>1, <1>5, <2>2, <4>1
      <4> QED  BY <1>1, <4>1, <4>2
    <3>2. CASE ~(size <= wp)
      <4>1. at = wp - size + Capacity
        BY <1>2, <3>2
      <4>2. k = at + m - Capacity
        BY <1>1, <1>5, <2>2, <4>1
      <4> QED  BY <1>1, <4>1, <4>2
    <3> QED  BY <3>1, <3>2
  <2>4. k \in 0 .. Capacity - 1 /\ k >= wp /\ k < wp + len /\ k - wp + 1 = j
    BY <1>1, <1>5, <2>3
  <2>5. d[k] = s[j]
    BY <2>4 DEF d
  <2> QED  BY <1>4, <1>10, <2>5 DEF ByteAt, k
<1> QED  BY <1>4, <1>9, <1>11, <1>12 DEF q, size, len

(* One turn of RingBuffer::write.                                            *)
LEMMA WriteTurnKeeps ==
    ASSUME NEW p \in Puts
    PROVE  /\ WriteTurn(p) \in Puts /\ PutKeeps(WriteTurn(p), p)
           /\ p.left # <<>> /\ p.ring.size < Capacity => Len(WriteTurn(p).left) < Len(p.left)
<1> DEFINE r == p.ring
           at == read_pos(r)
           room == IF at <= r.write_pos THEN Capacity - r.write_pos ELSE at - r.write_pos
           piece == Least(Len(p.left), room)
           q == WriteTurn(p)
           s == SubSeq(p.left, 1, piece)
           rest == SubSeq(p.left, piece + 1, Len(p.left))
<1>1. /\ r \in Ring /\ p.left \in Seq(Byte) /\ p = [ring |-> r, left |-> p.left]
      /\ r.size \in 0 .. Capacity /\ r.size \in Nat /\ Len(p.left) \in Nat
      /\ PutTotal(p) \in Nat /\ Capacity \in Nat \ {0}
  BY PutFields
<1>2. CASE p.left = <<>> \/ remain(r) = 0
  <2>1. q = p
    BY <1>2 DEF WriteTurn
  <2>2. ~(p.left # <<>> /\ r.size < Capacity)
    BY <1>1, <1>2 DEF remain
  <2>3. PutKeeps(p, p)
    BY <1>1 DEF PutKeeps
  <2> QED  BY <2>1, <2>2, <2>3
<1>3. CASE ~(p.left = <<>> \/ remain(r) = 0)
  <2>1. q = [ring |-> PlaceBytes(r, s), left |-> rest]
    BY <1>3 DEF WriteTurn
  <2>2. r.size < Capacity /\ Len(p.left) > 0
    BY <1>1, <1>3 DEF remain
  <2>3. room \in Nat \ {0}
    <3>1. at \in 0 .. Capacity - 1 /\ r.write_pos \in 0 .. Capacity - 1
      BY <1>1, ReadPos DEF Ring
    <3> QED  BY <1>1, <3>1
  <2>4. piece \in 1 .. Len(p.left) /\ piece <= room
    <3> HIDE DEF room
    <3> QED  BY <1>1, <2>2, <2>3 DEF Least
  <2>5. piece <= IF at <= r.write_pos THEN Capacity - r.write_pos ELSE at - r.write_pos
    BY <2>4
  <2> HIDE DEF piece, q, room
  <2>6. /\ s \in Seq(Byte) /\ Len(s) = piece /\ \A i \in 1 .. piece : s[i] = p.left[i]
    BY <1>1, <2>4
  <2>7. /\ rest \in Seq(Byte) /\ Len(rest) = Len(p.left) - piece
        /\ \A i \in 1 .. Len(p.left) - piece : rest[i] = p.left[piece + i]
    BY <1>1, <2>4
  <2> HIDE DEF s, rest
  <2> DEFINE r2 == PlaceBytes(r, s)
  <2>8. /\ r2 \in Ring /\ r2.size = r.size + piece
        /\ \A j \in 0 .. r.size - 1 : ByteAt(r2, j) = ByteAt(r, j)
        /\ \A j \in 1 .. piece : ByteAt(r2, r.size + j - 1) = s[j]
    <3>1. Len(s) > 0 /\ Len(s) <= IF read_pos(r) <= r.write_pos THEN Capacity - r.write_pos
                                  ELSE read_pos(r) - r.write_pos
      BY <2>4, <2>5, <2>6
    <3> HIDE DEF r
    <3> QED  BY <1>1, <2>2, <2>6, <3>1, PlaceRing
  <2> HIDE DEF r2
  <2>9. q = [ring |-> r2, left |-> rest]
    BY <2>1 DEF r2
  <2>10. q \in Puts
    BY <2>7, <2>8, <2>9 DEF Puts
  <2>11. PutTotal(q) = PutTotal(p) /\ Len(q.left) < Len(p.left)
    BY <1>1, <2>4, <2>7, <2>8, <2>9 DEF PutTotal
  <2>12. ASSUME NEW i \in 1 .. PutTotal(p)
         PROVE  PutOf(q, i) = PutOf(p, i)
    <3>1. CASE i <= r.size
      <4>1. i - 1 \in 0 .. r.size - 1 /\ i <= r2.size
        BY <1>1, <2>4, <2>8, <3>1
      <4> QED  BY <2>8, <2>9, <3>1, <4>1 DEF PutOf
    <3>2. CASE i > r.size /\ i <= r.size + piece
      <4> DEFINE j == i - r.size
      <4>1. j \in 1 .. piece /\ i - 1 = r.size + j - 1 /\ i <= r2.size /\ ~(i <= r.size)
        BY <1>1, <2>4, <2>8, <3>2
      <4>2. PutOf(q, i) = ByteAt(r2, r.size + j - 1)
        BY <2>9, <4>1 DEF PutOf
      <4>3. PutOf(p, i) = p.left[j]
        BY <4>1 DEF PutOf
      <4> QED  BY <2>6, <2>8, <4>1, <4>2, <4>3
    <3>3. CASE i > r.size + piece
      <4> DEFINE j == i - r.size - piece
      <4>1. /\ j \in 1 .. Len(p.left) - piece /\ i - r2.size = j /\ i - r.size = piece + j
            /\ ~(i <= r2.size) /\ ~(i <= r.size)
        BY <1>1, <2>4, <2>8, <3>3 DEF PutTotal
      <4>2. PutOf(q, i) = rest[j]
        BY <2>9, <4>1 DEF PutOf
      <4>3. PutOf(p, i) = p.left[piece + j]
        BY <4>1 DEF PutOf
      <4> QED  BY <2>7, <4>1, <4>2, <4>3
    <3>4. i \in Nat
      BY <1>1
    <3> QED  BY <1>1, <2>4, <3>1, <3>2, <3>3, <3>4
  <2>13. Len(q.left) <= Len(p.left)
    BY <1>1, <2>4, <2>7, <2>9
  <2>14. PutKeeps(q, p)
    BY <2>11, <2>12, <2>13 DEF PutKeeps
  <2> QED  BY <2>10, <2>11, <2>14 DEF q
<1> QED  BY <1>2, <1>3

LEMMA RingWriteKeeps ==
    ASSUME NEW r \in Ring, NEW bytes \in Seq(Byte)
    PROVE  LET q == RingWrite(r, bytes)
           IN /\ q \in Puts /\ PutKeeps(q, [ring |-> r, left |-> bytes])
              /\ bytes # <<>> /\ r.size < Capacity => Len(q.left) < Len(bytes)
<1> DEFINE p == [ring |-> r, left |-> bytes]
           a == WriteTurn(p)
           b == WriteTurn(a)
<1>1. p \in Puts /\ p.left = bytes /\ p.ring = r
  BY DEF Puts
<1> HIDE DEF p
<1>2. a \in Puts /\ PutKeeps(a, p) /\ (bytes # <<>> /\ r.size < Capacity => Len(a.left) < Len(bytes))
  BY <1>1, WriteTurnKeeps
<1> HIDE DEF a
<1>3. b \in Puts /\ PutKeeps(b, a)
  BY <1>2, WriteTurnKeeps
<1> HIDE DEF b
<1>4. /\ Len(a.left) \in Nat /\ Len(b.left) \in Nat /\ Len(p.left) \in Nat
  BY <1>1, <1>2, <1>3, PutFields
<1>5. PutKeeps(b, p)
  BY <1>2, <1>3, <1>4 DEF PutKeeps
<1>6. Len(b.left) <= Len(a.left)
  BY <1>3 DEF PutKeeps
<1>7. RingWrite(r, bytes) = b
  BY DEF RingWrite, a, b, p
<1> QED  BY <1>1, <1>2, <1>3, <1>4, <1>5, <1>6, <1>7 DEF p

-----------------------------------------------------------------------------
(* Bytes on their way into a writer: those that it took and those left.      *)
SendOf(p, i)  == IF i <= Total(p.writer) THEN ByteOf(p.writer, i) ELSE p.left[i - Total(p.writer)]
SendTotal(p)  == Total(p.writer) + Len(p.left)
Sends         == [writer : Writers, left : Seq(Byte)]
SendKeeps(q, p) ==
    /\ SendTotal(q) = SendTotal(p) /\ Len(q.left) <= Len(p.left)
    /\ \A i \in 1 .. SendTotal(p) : SendOf(q, i) = SendOf(p, i)

LEMMA SendFields ==
    ASSUME NEW p \in Sends
    PROVE  /\ p.writer \in Writers /\ p.left \in Seq(Byte) /\ p = [writer |-> p.writer, left |-> p.left]
           /\ Total(p.writer) \in Nat /\ Len(p.left) \in Nat /\ SendTotal(p) \in Nat
<1>1. p.writer \in Writers /\ p.left \in Seq(Byte) /\ p = [writer |-> p.writer, left |-> p.left]
  BY DEF Sends
<1>2. Total(p.writer) \in Nat
  BY <1>1, WriterFields
<1>3. Len(p.left) \in Nat
  BY <1>1
<1> QED  BY <1>1, <1>2, <1>3 DEF SendTotal

LEMMA SendKeepsTrans ==
    ASSUME NEW u \in Sends, NEW v \in Sends, NEW w \in Sends, SendKeeps(u, v), SendKeeps(v, w)
    PROVE  SendKeeps(u, w)
<1>1. Len(u.left) \in Nat /\ Len(v.left) \in Nat /\ Len(w.left) \in Nat
  BY SendFields
<1> QED  BY <1>1 DEF SendKeeps

(* A writer that keeps its bytes keeps those on their way, too.              *)
LEMMA SendKeepsWriter ==
    ASSUME NEW p \in Sends, NEW f \in Writers, Keeps(f, p.writer)
    PROVE  [writer |-> f, left |-> p.left] \in Sends /\ SendKeeps([writer |-> f, left |-> p.left], p)
<1> DEFINE q == [writer |-> f, left |-> p.left]
<1>1. p.writer \in Writers /\ p.left \in Seq(Byte) /\ Total(p.writer) \in Nat /\ Len(p.left) \in Nat
      /\ SendTotal(p) \in Nat
  BY SendFields
<1>2. q \in Sends
  BY <1>1 DEF Sends
<1>3. Total(f) = Total(p.writer) /\ \A i \in 1 .. Total(p.writer) : ByteOf(f, i) = ByteOf(p.writer, i)
  BY DEF Keeps
<1>4. q.writer = f /\ q.left = p.left
  OBVIOUS
<1>5. SendTotal(q) = SendTotal(p) /\ Len(q.left) <= Len(p.left)
  BY <1>1, <1>3, <1>4 DEF SendTotal
<1>6. ASSUME NEW i \in 1 .. SendTotal(p)
      PROVE  SendOf(q, i) = SendOf(p, i)
  <2>1. CASE i <= Total(p.writer)
    <3>1. i \in 1 .. Total(p.writer)
      BY <1>1, <2>1
    <3> QED  BY <1>3, <1>4, <2>1, <3>1 DEF SendOf
  <2>2. CASE ~(i <= Total(p.writer))
    BY <1>3, <1>4, <2>2 DEF SendOf
  <2> QED  BY <2>1, <2>2
<1> QED  BY <1>2, <1>5, <1>6 DEF SendKeeps

(* One turn of writen.                                                       *)
LEMMA WritenTurnKeeps ==
    ASSUME NEW p \in Sends, NEW up \in BOOLEAN
    PROVE  LET q == WritenTurn(p, up, Burst)
           IN /\ q \in Sends /\ SendKeeps(q, p)
              /\ up /\ p.writer.rc = "SUCCESS" =>
                    /\ q.writer.rc = "SUCCESS"
                    /\ p.left = <<>> \/ Len(q.left) < Len(p.left)
<1> DEFINE q == WritenTurn(p, up, Burst)
           w == p.writer
           f == IF remain(w.ring) = 0 THEN flush_internal(w, Len(p.left), up, Burst) ELSE w
           r == RingWrite(f.ring, p.left)
<1>1. /\ w \in Writers /\ p.left \in Seq(Byte) /\ p = [writer |-> w, left |-> p.left]
      /\ Total(w) \in Nat /\ Len(p.left) \in Nat /\ SendTotal(p) \in Nat
  BY SendFields
<1>2. /\ w.ring \in Ring /\ w.ring.size \in 0 .. Capacity /\ Len(w.out) \in Nat /\ Capacity \in Nat \ {0}
  BY <1>1, WriterFields, CapacityAssumption
<1>3. CASE p.left = <<>> \/ w.rc # "SUCCESS"
  <2>1. q = p
    BY <1>3 DEF WritenTurn
  <2>2. SendKeeps(p, p)
    BY <1>1 DEF SendKeeps
  <2> QED  BY <1>3, <2>1, <2>2
<1>4. CASE p.left # <<>> /\ w.rc = "SUCCESS"
  <2>0. Len(p.left) > 0
    BY <1>1, <1>4
  <2>1. /\ f \in Writers /\ Keeps(f, w) /\ (up => f.rc = "SUCCESS" /\ f.ring.size < Capacity)
    <3>1. CASE remain(w.ring) = 0
      <4> DEFINE v == flush_internal(w, Len(p.left), up, Burst)
      <4>1. /\ v \in Writers /\ Keeps(v, w) /\ (up => v.rc = "SUCCESS")
            /\ (up => v.ring.size = 0 \/ Len(v.out) >= Len(w.out) + Len(p.left))
        BY <1>1, <1>4, FlushKeeps
      <4>2. f = v
        BY <3>1
      <4> HIDE DEF v, f
      <4>3. v.ring.size \in Nat /\ Len(v.out) \in Nat /\ Len(v.out) + v.ring.size = Len(w.out) + w.ring.size
        BY <4>1, WriterFields, CapacityAssumption DEF Keeps, Total
      <4>4. up => v.ring.size < Capacity
        <5>1. CASE v.ring.size = 0
          BY <1>2, <5>1
        <5>2. CASE Len(v.out) >= Len(w.out) + Len(p.left)
          <6>1. Len(p.left) \in Nat
            BY <1>1
          <6>2. \A a, b, m, k, s, cap \in Nat : k > 0 /\ a >= b + k /\ a + m = b + s /\ s <= cap => m < cap
            OBVIOUS
          <6>3. w.ring.size \in Nat /\ w.ring.size <= Capacity /\ Capacity \in Nat
            BY <1>2
          <6> QED  BY <1>2, <2>0, <4>3, <5>2, <6>1, <6>2, <6>3
        <5> QED  BY <4>1, <5>1, <5>2, Zenon
      <4> QED  BY <4>1, <4>2, <4>4
    <3>2. CASE remain(w.ring) # 0
      <4>1. f = w
        BY <3>2
      <4>2. w.ring.size < Capacity
        BY <1>2, <3>2 DEF remain
      <4>3. Keeps(w, w)
        BY <1>2 DEF Keeps
      <4> HIDE DEF f
      <4> QED  BY <1>1, <1>4, <4>1, <4>2, <4>3
    <3> QED  BY <3>1, <3>2
  <2>2. q = IF f.rc # "SUCCESS" THEN [writer |-> f, left |-> p.left]
            ELSE [writer |-> [ring |-> r.ring, out |-> f.out, rc |-> f.rc], left |-> r.left]
    <3>1. q = IF f.rc # "SUCCESS" THEN [p EXCEPT !.writer = f]
              ELSE [writer |-> [f EXCEPT !.ring = r.ring], left |-> r.left]
      BY <1>4 DEF WritenTurn
    <3>2. [p EXCEPT !.writer = f] = [writer |-> f, left |-> p.left]
      <4> HIDE DEF f
      <4> QED  BY <1>1
    <3>3. f = [ring |-> f.ring, out |-> f.out, rc |-> f.rc]
      <4> HIDE DEF f
      <4> QED  BY <2>1, WriterFields
    <3>4. [f EXCEPT !.ring = r.ring] = [ring |-> r.ring, out |-> f.out, rc |-> f.rc]
      <4> HIDE DEF f, r
      <4> QED  BY <3>3
    <3> HIDE DEF f, r, q
    <3> QED  BY <3>1, <3>2, <3>4
  <2> DEFINE g == [writer |-> f, left |-> p.left]
  <2> HIDE DEF f
  <2>3. g \in Sends /\ SendKeeps(g, p)
    BY <1>1, <2>1, SendKeepsWriter
  <2>4. CASE f.rc # "SUCCESS"
    BY <2>1, <2>2, <2>3, <2>4
  <2>5. CASE f.rc = "SUCCESS"
    <3> DEFINE v == [ring |-> r.ring, out |-> f.out, rc |-> f.rc]
               b == [ring |-> f.ring, left |-> p.left]
    <3>1. q = [writer |-> v, left |-> r.left]
      BY <2>2, <2>5
    <3>2. /\ f.ring \in Ring /\ f.out \in Seq(Byte) /\ Len(f.out) \in Nat /\ f.ring.size \in Nat
          /\ f.rc \in {"SUCCESS", "IOERR_WRITE"}
      BY <2>1, WriterFields, CapacityAssumption
    <3>3. /\ r \in Puts /\ PutKeeps(r, b)
          /\ f.ring.size < Capacity => Len(r.left) < Len(p.left)
      BY <1>1, <1>4, <3>2, RingWriteKeeps
    <3>4. /\ r.ring \in Ring /\ r.left \in Seq(Byte) /\ r.ring.size \in Nat /\ Len(r.left) \in Nat
      <4> HIDE DEF r
      <4> QED  BY <3>3, PutFields
    <3> HIDE DEF r
    <3>5. q \in Sends
      BY <3>1, <3>2, <3>4 DEF Sends, Writers
    <3>6. /\ r.ring.size + Len(r.left) = f.ring.size + Len(p.left) /\ Len(r.left) <= Len(p.left)
          /\ \A i \in 1 .. f.ring.size + Len(p.left) : PutOf(r, i) = PutOf(b, i)
      BY <3>3 DEF PutKeeps, PutTotal
    <3>7. SendTotal(q) = SendTotal(g) /\ Len(q.left) <= Len(g.left)
      <4>1. /\ SendTotal(q) = Len(f.out) + r.ring.size + Len(r.left) /\ q.left = r.left
            /\ SendTotal(g) = Len(f.out) + f.ring.size + Len(p.left) /\ g.left = p.left
        BY <3>1 DEF SendTotal, Total
      <4>2. r.ring.size + Len(r.left) = f.ring.size + Len(p.left) /\ Len(r.left) <= Len(p.left)
        BY <3>6
      <4>3. Len(p.left) \in Nat /\ Len(f.out) \in Nat /\ f.ring.size \in Nat
        BY <1>1, <3>2
      <4> DEFINE a == Len(f.out)
                 s == r.ring.size
                 c == Len(r.left)
                 d == f.ring.size
                 e == Len(p.left)
      <4>4. a + s + c = a + d + e
        <5>1. s + c = d + e /\ a \in Nat /\ s \in Nat /\ c \in Nat /\ d \in Nat /\ e \in Nat
          BY <3>4, <4>2, <4>3
        <5> HIDE DEF a, s, c, d, e
        <5> QED  BY <5>1
      <4> HIDE DEF q, g
      <4> QED  BY <4>1, <4>2, <4>4
    <3>8. ASSUME NEW i \in 1 .. SendTotal(g)
          PROVE  SendOf(q, i) = SendOf(g, i)
      <4> DEFINE k == i - Len(f.out)
      <4>0. /\ q.writer.out = f.out /\ q.writer.ring = r.ring /\ q.left = r.left
            /\ g.writer.out = f.out /\ g.writer.ring = f.ring /\ g.left = p.left
            /\ SendTotal(g) = Len(f.out) + f.ring.size + Len(p.left) /\ i \in Nat
            /\ Total(q.writer) = Len(f.out) + r.ring.size /\ Total(g.writer) = Len(f.out) + f.ring.size
        BY <1>1, <3>1, <3>2 DEF SendTotal, Total
      <4>1. CASE i <= Len(f.out)
        <5>1. i <= Total(q.writer) /\ i <= Total(g.writer)
          BY <3>2, <3>4, <4>0, <4>1
        <5> QED  BY <4>0, <4>1, <5>1 DEF SendOf, ByteOf
      <4>2. CASE i > Len(f.out)
        <5>1. k \in 1 .. f.ring.size + Len(p.left) /\ ~(i <= Len(f.out)) /\ k - 1 = i - Len(f.out) - 1
          BY <1>1, <3>2, <4>0, <4>2
        <5>2. SendOf(q, i) = PutOf(r, k)
          <6>1. CASE k <= r.ring.size
            <7>1. i <= Total(q.writer)
              BY <3>2, <3>4, <4>0, <6>1
            <7> QED  BY <4>0, <5>1, <6>1, <7>1 DEF SendOf, ByteOf, PutOf
          <6>2. CASE ~(k <= r.ring.size)
            <7>1. ~(i <= Total(q.writer)) /\ i - Total(q.writer) = k - r.ring.size
              BY <3>2, <3>4, <4>0, <6>2
            <7> QED  BY <4>0, <6>2, <7>1 DEF SendOf, PutOf
          <6> QED  BY <6>1, <6>2
        <5>3. SendOf(g, i) = PutOf(b, k)
          <6>0. b.ring = f.ring /\ b.left = p.left
            OBVIOUS
          <6> HIDE DEF b
          <6>1. CASE k <= f.ring.size
            <7>1. i <= Total(g.writer)
              BY <3>2, <4>0, <6>1
            <7> QED  BY <4>0, <5>1, <6>0, <6>1, <7>1 DEF SendOf, ByteOf, PutOf
          <6>2. CASE ~(k <= f.ring.size)
            <7>1. ~(i <= Total(g.writer)) /\ i - Total(g.writer) = k - f.ring.size
              BY <3>2, <4>0, <6>2
            <7> QED  BY <4>0, <6>0, <6>2, <7>1 DEF SendOf, PutOf
          <6> QED  BY <6>1, <6>2
        <5> QED  BY <3>6, <5>1, <5>2, <5>3
      <4> QED  BY <3>2, <4>0, <4>1, <4>2
    <3>9. SendKeeps(q, g)
      BY <3>7, <3>8 DEF SendKeeps
    <3>10. SendKeeps(q, p)
      <4> HIDE DEF q, g
      <4> QED  BY <2>3, <3>5, <3>9, SendKeepsTrans
    <3>11. up => q.writer.rc = "SUCCESS" /\ Len(q.left) < Len(p.left)
      BY <2>1, <2>5, <3>1, <3>3
    <3> QED  BY <3>5, <3>10, <3>11
  <2> QED  BY <2>4, <2>5
<1> QED  BY <1>3, <1>4

(* writen: nothing is lost or reordered; while the socket takes bytes there  *)
(* is nothing left at the end.                                               *)
LEMMA WritenKeeps ==
    ASSUME NEW w \in Writers, NEW bytes \in Seq(Byte), NEW up \in BOOLEAN
    PROVE  \E q \in Sends : /\ writen(w, bytes, up, Burst) = q.writer
                            /\ SendKeeps(q, [writer |-> w, left |-> bytes])
                            /\ up /\ w.rc = "SUCCESS" => q.writer.rc = "SUCCESS" /\ q.left = <<>>
<1> DEFINE p == [writer |-> w, left |-> bytes]
           S == {q \in Sends : SendKeeps(q, p) /\ (up /\ w.rc = "SUCCESS" => q.writer.rc = "SUCCESS")}
           step == [q \in S |-> WritenTurn(q, up, Burst)]
           G(g) == [n \in Nat |-> IF n = 0 THEN p ELSE WritenTurn(g[n - 1], up, Burst)]
           turn == CHOOSE g : g = G(g)
<1>1. p \in Sends /\ p.writer = w /\ p.left = bytes /\ SendTotal(p) \in Nat /\ Len(bytes) \in Nat
  <2>1. p \in Sends /\ p.writer = w /\ p.left = bytes
    BY DEF Sends
  <2> HIDE DEF p
  <2> QED  BY <2>1, SendFields
<1>7. writen(w, bytes, up, Burst) = turn[Len(bytes)].writer
  BY DEF writen
<1> HIDE DEF p
<1>2. p \in S
  BY <1>1 DEF SendKeeps
<1>3. step \in [S -> S]
  <2> SUFFICES ASSUME NEW q \in S
               PROVE  WritenTurn(q, up, Burst) \in S
    OBVIOUS
  <2> DEFINE x == WritenTurn(q, up, Burst)
  <2>1. q \in Sends /\ SendKeeps(q, p) /\ (up /\ w.rc = "SUCCESS" => q.writer.rc = "SUCCESS")
    OBVIOUS
  <2>2. x \in Sends /\ SendKeeps(x, q) /\ (up /\ q.writer.rc = "SUCCESS" => x.writer.rc = "SUCCESS")
    BY <2>1, WritenTurnKeeps
  <2> HIDE DEF x
  <2>3. SendKeeps(x, p)
    BY <1>1, <2>1, <2>2, SendKeepsTrans
  <2>4. x \in S
    BY <2>1, <2>2, <2>3
  <2> QED  BY <2>4 DEF x
<1> HIDE DEF S
<1>4. PICK f \in [Nat -> S] : f[0] = p /\ \A n \in Nat : f[n + 1] = step[f[n]]
  <2> HIDE DEF step
  <2>1. PICK f : Iteration(f, S, p, step)
    BY <1>2, <1>3, Iterates
  <2> QED  BY <2>1 DEF Iteration
<1>5. f = G(f)
  <2>1. ASSUME NEW n \in Nat, n # 0
        PROVE  f[n] = WritenTurn(f[n - 1], up, Burst)
    <3>1. n - 1 \in Nat /\ (n - 1) + 1 = n
      BY <2>1
    <3>2. f[n] = step[f[n - 1]] /\ f[n - 1] \in S
      BY <1>4, <3>1
    <3> QED  BY <3>2
  <2> HIDE DEF step
  <2> QED  BY <1>4, <2>1
<1>6. turn = G(turn)
  <2> HIDE DEF G
  <2> QED  BY <1>5
<1> HIDE DEF turn
<1>8. turn[0] = p /\ \A n \in Nat : turn[n + 1] = WritenTurn(turn[n], up, Burst)
  <2> DEFINE T(n) == WritenTurn(turn[n], up, Burst)
  <2>1. turn = [n \in Nat |-> IF n = 0 THEN p ELSE T(n - 1)]
    BY <1>6
  <2> HIDE DEF T
  <2>2. turn[0] = p
    BY <2>1
  <2>3. ASSUME NEW n \in Nat
        PROVE  turn[n + 1] = T(n)
    <3>1. n + 1 \in Nat /\ n + 1 # 0 /\ (n + 1) - 1 = n
      OBVIOUS
    <3>2. turn[n + 1] = T((n + 1) - 1)
      BY <2>1, <3>1
    <3> QED  BY <3>1, <3>2
  <2> QED  BY <2>2, <2>3 DEF T
<1> DEFINE Short(n) == up /\ w.rc = "SUCCESS" => turn[n].left = <<>> \/ Len(turn[n].left) + n <= Len(bytes)
           Good == {n \in Nat : turn[n] \in S /\ Short(n)}
<1>9. \A n \in Nat : n \in Good
  <2>1. 0 \in Good
    <3>0. Len(bytes) + 0 <= Len(bytes)
      BY <1>1
    <3>1. turn[0] = p /\ Len(p.left) + 0 <= Len(bytes)
      BY <1>1, <1>8, <3>0
    <3>2. Short(0)
      BY <3>1
    <3> HIDE DEF Short
    <3> QED  BY <1>2, <3>1, <3>2
  <2>2. ASSUME NEW n \in Nat, n \in Good
        PROVE  n + 1 \in Good
    <3> DEFINE v == turn[n]
               x == turn[n + 1]
    <3>1. v \in S /\ x = WritenTurn(v, up, Burst) /\ Short(n)
      BY <1>8, <2>2
    <3>2. x = step[v]
      BY <3>1
    <3>3. x \in S
      <4> HIDE DEF step, x, v
      <4> QED  BY <1>3, <3>1, <3>2
    <3>4. v \in Sends /\ x \in Sends /\ (up /\ w.rc = "SUCCESS" => v.writer.rc = "SUCCESS")
      BY <3>1, <3>3 DEF S
    <3>5. /\ SendKeeps(x, v)
          /\ up /\ w.rc = "SUCCESS" => v.left = <<>> \/ Len(x.left) < Len(v.left)
      <4> HIDE DEF v, x
      <4> QED  BY <3>1, <3>4, WritenTurnKeeps
    <3>6. /\ Len(x.left) \in Nat /\ Len(v.left) \in Nat /\ x.left \in Seq(Byte) /\ v.left \in Seq(Byte)
      BY <3>4, SendFields
    <3>7. Len(x.left) <= Len(v.left)
      BY <3>5 DEF SendKeeps
    <3>8. Short(n + 1)
      <4>1. up /\ w.rc = "SUCCESS" => v.left = <<>> \/ Len(v.left) + n <= Len(bytes)
        BY <3>1
      <4>2. v.left = <<>> => x.left = <<>>
        <5> HIDE DEF v, x
        <5> QED  BY <3>6, <3>7
      <4>3. up /\ w.rc = "SUCCESS" => x.left = <<>> \/ Len(x.left) + (n + 1) <= Len(bytes)
        <5> DEFINE a == Len(x.left)
                   b == Len(v.left)
                   e == Len(bytes)
        <5>1. a \in Nat /\ b \in Nat /\ e \in Nat /\ (a < b /\ b + n <= e => a + (n + 1) <= e)
          <6>1. a \in Nat /\ b \in Nat /\ e \in Nat
            BY <1>1, <3>6
          <6> HIDE DEF a, b, e
          <6> QED  BY <6>1
        <5> HIDE DEF v, x
        <5> QED  BY <3>5, <4>1, <4>2, <5>1
      <4> QED  BY <4>3
    <3> HIDE DEF Short
    <3> QED  BY <3>3, <3>8
  <2> HIDE DEF Good
  <2> QED  BY <2>1, <2>2, NatSteps
<1> DEFINE v == turn[Len(bytes)]
<1>10. v \in S /\ Short(Len(bytes))
  BY <1>1, <1>9
<1>11. v \in Sends /\ SendKeeps(v, p) /\ (up /\ w.rc = "SUCCESS" => v.writer.rc = "SUCCESS")
  BY <1>10 DEF S
<1>12. up /\ w.rc = "SUCCESS" => v.left = <<>>
  <2>1. v.left \in Seq(Byte) /\ Len(v.left) \in Nat
    BY <1>11, SendFields
  <2>2. up /\ w.rc = "SUCCESS" => v.left = <<>> \/ Len(v.left) + Len(bytes) <= Len(bytes)
    BY <1>10
  <2> HIDE DEF v
  <2> QED  BY <1>1, <2>1, <2>2
<1> QED  BY <1>7, <1>11, <1>12 DEF p

(* A flush to a socket that takes bytes empties the buffer.                  *)
LEMMA FlushAll ==
    ASSUME NEW w \in Writers, NEW up \in BOOLEAN
    PROVE  LET v == flush(w, up, Burst)
           IN /\ v \in Writers /\ Keeps(v, w)
              /\ up => v.ring.size = 0 /\ Len(v.out) = Total(w)
<1> DEFINE v == flush_internal(w, w.ring.size, up, Burst)
<1>1. w.ring.size \in Nat /\ Len(w.out) \in Nat
  BY WriterFields, CapacityAssumption
<1>2. /\ v \in Writers /\ Keeps(v, w)
      /\ up => v.ring.size = 0 \/ Len(v.out) >= Len(w.out) + w.ring.size
  BY <1>1, FlushKeeps
<1>3. flush(w, up, Burst) = v
  BY DEF flush
<1> HIDE DEF v
<1>4. v.ring.size \in Nat /\ Len(v.out) \in Nat /\ Len(v.out) + v.ring.size = Len(w.out) + w.ring.size
  BY <1>2, WriterFields, CapacityAssumption DEF Keeps, Total
<1>5. up => v.ring.size = 0 /\ Len(v.out) = Len(w.out) + w.ring.size
  BY <1>1, <1>2, <1>4
<1> QED  BY <1>2, <1>3, <1>5 DEF Total

LEMMA NewWriter ==
    ASSUME NEW r \in Ring
    PROVE  /\ Writer(r) \in Writers /\ Writer(r).rc = "SUCCESS" /\ Writer(r).out = <<>> /\ Writer(r).ring = r
           /\ Total(Writer(r)) = r.size /\ r.size \in Nat
           /\ \A i \in Nat \ {0} : ByteOf(Writer(r), i) = ByteAt(r, i - 1)
<1>1. Writer(r) = [ring |-> r, out |-> <<>>, rc |-> "SUCCESS"]
  BY DEF Writer
<1>2. Writer(r) \in Writers
  <2>1. <<>> \in Seq(Byte)
    OBVIOUS
  <2> QED  BY <1>1, <2>1 DEF Writers
<1>3. r.size \in Nat
  BY CapacityAssumption DEF Ring
<1>4. Total(Writer(r)) = r.size
  <2>1. Writer(r).out = <<>> /\ Writer(r).ring = r /\ Len(<<>>) = 0
    BY <1>1
  <2> QED  BY <1>3, <2>1 DEF Total
<1>5. ASSUME NEW i \in Nat \ {0}
      PROVE  ByteOf(Writer(r), i) = ByteAt(r, i - 1)
  <2>1. Writer(r).out = <<>> /\ Writer(r).ring = r /\ Len(<<>>) = 0
    BY <1>1
  <2>2. ~(i <= 0) /\ i - 0 - 1 = i - 1
    OBVIOUS
  <2> QED  BY <2>1, <2>2 DEF ByteOf
<1> QED  BY <1>1, <1>2, <1>3, <1>4, <1>5

(* What is sent, and what stays in the buffer, is what was in the buffer and *)
(* then the answer, from the front, no byte lost, repeated or out of place;  *)
(* a socket that takes bytes gets all of it (BufferedWriter, RingBuffer).    *)
THEOREM SendExact ==
    ASSUME NEW r \in Ring, NEW bytes \in Seq(Byte), NEW up \in BOOLEAN
    PROVE  LET v == Send(r, bytes, up)
           IN /\ v \in Writers /\ Total(v) <= r.size + Len(bytes)
              /\ \A i \in 1 .. Total(v) :
                    ByteOf(v, i) = IF i <= r.size THEN ByteAt(r, i - 1) ELSE bytes[i - r.size]
              /\ up => v.rc = "SUCCESS" /\ v.ring.size = 0 /\ Len(v.out) = r.size + Len(bytes)
<1> DEFINE w0 == Writer(r)
           p == [writer |-> w0, left |-> bytes]
           w == writen(w0, bytes, up, Burst)
           f == flush(w, up, Burst)
           v == Send(r, bytes, up)
<1>1. /\ w0 \in Writers /\ w0.rc = "SUCCESS" /\ Total(w0) = r.size /\ r.size \in Nat /\ Len(bytes) \in Nat
      /\ \A i \in Nat \ {0} : ByteOf(w0, i) = ByteAt(r, i - 1)
  BY NewWriter
<1>2. v = IF w.rc = "SUCCESS" THEN [f EXCEPT !.rc = "SUCCESS"] ELSE w
  BY DEF Send
<1> HIDE DEF w0, v
<1>3. PICK q \in Sends : w = q.writer /\ SendKeeps(q, p) /\ (up => w.rc = "SUCCESS" /\ q.left = <<>>)
  BY <1>1, WritenKeeps
<1> HIDE DEF w
<1>4. /\ w \in Writers /\ Total(w) \in Nat /\ q.left \in Seq(Byte) /\ Len(q.left) \in Nat
      /\ Total(w) + Len(q.left) = r.size + Len(bytes)
  <2>1. SendTotal(p) = r.size + Len(bytes)
    BY <1>1 DEF SendTotal
  <2>2. SendTotal(q) = Total(w) + Len(q.left)
    BY <1>3 DEF SendTotal
  <2>3. SendTotal(q) = SendTotal(p)
    BY <1>3 DEF SendKeeps
  <2>4. w \in Writers /\ Total(w) \in Nat /\ q.left \in Seq(Byte) /\ Len(q.left) \in Nat
    BY <1>3, SendFields
  <2> QED  BY <2>1, <2>2, <2>3, <2>4
<1>5. ASSUME NEW i \in 1 .. Total(w)
      PROVE  ByteOf(w, i) = IF i <= r.size THEN ByteAt(r, i - 1) ELSE bytes[i - r.size]
  <2>1. i \in 1 .. SendTotal(p) /\ i \in Nat \ {0} /\ i <= Total(w)
    <3>1. SendTotal(p) = r.size + Len(bytes)
      BY <1>1 DEF SendTotal
    <3> QED  BY <1>1, <1>4, <3>1
  <2>2. SendOf(q, i) = SendOf(p, i)
    BY <1>3, <2>1 DEF SendKeeps
  <2>3. SendOf(q, i) = ByteOf(w, i)
    BY <1>3, <2>1 DEF SendOf
  <2>4. SendOf(p, i) = IF i <= r.size THEN ByteOf(w0, i) ELSE bytes[i - r.size]
    BY <1>1 DEF SendOf
  <2>5. ByteOf(w0, i) = ByteAt(r, i - 1)
    BY <1>1, <2>1
  <2> QED  BY <2>2, <2>3, <2>4, <2>5
<1>6. f \in Writers /\ Keeps(f, w) /\ (up => f.ring.size = 0 /\ Len(f.out) = Total(w))
  BY <1>4, FlushAll
<1> HIDE DEF f
<1>7. CASE w.rc # "SUCCESS"
  <2>1. v = w /\ ~up
    BY <1>2, <1>3, <1>7
  <2>2. Total(w) <= r.size + Len(bytes)
    BY <1>1, <1>4
  <2>3. v \in Writers
    BY <1>4, <2>1
  <2> QED  BY <1>5, <2>1, <2>2, <2>3 DEF v
<1>8. CASE w.rc = "SUCCESS"
  <2>1. f = [ring |-> f.ring, out |-> f.out, rc |-> f.rc] /\ f.ring \in Ring /\ f.out \in Seq(Byte)
    BY <1>6, WriterFields
  <2>2. v = [ring |-> f.ring, out |-> f.out, rc |-> "SUCCESS"]
    BY <1>2, <1>8, <2>1
  <2>3. v \in Writers
    BY <2>1, <2>2 DEF Writers
  <2>4. Total(v) = Total(w)
    BY <1>6, <2>2 DEF Keeps, Total
  <2>5. \A i \in 1 .. Total(w) : ByteOf(v, i) = ByteOf(w, i)
    BY <1>6, <2>2 DEF Keeps, ByteOf
  <2>6. Total(w) <= r.size + Len(bytes)
    BY <1>1, <1>4
  <2>7. up => Total(w) = r.size + Len(bytes)
    <3> SUFFICES ASSUME up PROVE Total(w) = r.size + Len(bytes)
      OBVIOUS
    <3>1. Len(q.left) = 0
      BY <1>3
    <3> QED  BY <1>1, <1>4, <3>1
  <2>8. up => v.rc = "SUCCESS" /\ v.ring.size = 0 /\ Len(v.out) = r.size + Len(bytes)
    BY <1>6, <2>2, <2>7
  <2> QED  BY <1>5, <2>3, <2>4, <2>5, <2>6, <2>8 DEF v
<1> QED  BY <1>7, <1>8

LEMMA SendOwn ==
    ASSUME NEW r \in Ring, NEW c, NEW bytes \in Seq(Byte), NEW up \in BOOLEAN,
           OwnRing(r, c), \A i \in 1 .. Len(bytes) : bytes[i][1] = c
    PROVE  LET v == Send(r, bytes, up)
           IN /\ v.ring \in Ring /\ v.out \in Seq(Byte) /\ v.rc \in {"SUCCESS", "IOERR_WRITE"}
              /\ OwnRing(v.ring, c) /\ \A i \in 1 .. Len(v.out) : v.out[i][1] = c
              /\ up => v.rc = "SUCCESS" /\ v.ring.size = 0
<1> DEFINE v == Send(r, bytes, up)
<1>1. /\ v \in Writers /\ Total(v) <= r.size + Len(bytes)
      /\ \A i \in 1 .. Total(v) :
            ByteOf(v, i) = IF i <= r.size THEN ByteAt(r, i - 1) ELSE bytes[i - r.size]
      /\ up => v.rc = "SUCCESS" /\ v.ring.size = 0
  BY SendExact
<1> HIDE DEF v
<1>2. /\ v.ring \in Ring /\ v.out \in Seq(Byte) /\ v.rc \in {"SUCCESS", "IOERR_WRITE"}
      /\ v.ring.size \in Nat /\ Len(v.out) \in Nat /\ r.size \in Nat /\ Len(bytes) \in Nat
      /\ Total(v) = Len(v.out) + v.ring.size
  BY <1>1, WriterFields, CapacityAssumption DEF Ring, Total
<1>3. ASSUME NEW i \in 1 .. Total(v)
      PROVE  ByteOf(v, i)[1] = c
  <2>1. CASE i <= r.size
    <3>1. i - 1 \in 0 .. r.size - 1
      BY <1>2, <2>1
    <3> QED  BY <1>1, <2>1, <3>1 DEF OwnRing
  <2>2. CASE ~(i <= r.size)
    <3>0. Total(v) <= r.size + Len(bytes)
      BY <1>1, Zenon
    <3>1. i - r.size \in 1 .. Len(bytes)
      BY <1>2, <2>2, <3>0, SMTT(40)
    <3> QED  BY <1>1, <2>2, <3>1
  <2> QED  BY <2>1, <2>2
<1>4. ASSUME NEW i \in 1 .. Len(v.out)
      PROVE  v.out[i][1] = c
  <2>1. i \in 1 .. Total(v) /\ i <= Len(v.out)
    BY <1>2
  <2>2. ByteOf(v, i) = v.out[i]
    BY <2>1 DEF ByteOf
  <2> QED  BY <1>3, <2>1, <2>2
<1>5. ASSUME NEW j \in 0 .. v.ring.size - 1
      PROVE  ByteAt(v.ring, j)[1] = c
  <2> DEFINE a == Len(v.out)
             b == v.ring.size
             i == a + j + 1
  <2>1. i \in 1 .. Total(v) /\ ~(i <= Len(v.out)) /\ i - Len(v.out) - 1 = j
    <3>1. a \in Nat /\ b \in Nat /\ j \in 0 .. b - 1 /\ Total(v) = a + b /\ Len(v.out) = a
      BY <1>2
    <3> HIDE DEF a, b
    <3>2. i \in 1 .. a + b /\ ~(i <= a) /\ i - a - 1 = j
      BY <3>1
    <3> QED  BY <3>1, <3>2
  <2>2. ByteOf(v, i) = ByteAt(v.ring, j)
    BY <2>1 DEF ByteOf
  <2> HIDE DEF i
  <2> QED  BY <1>3, <2>1, <2>2
<1> QED  BY <1>1, <1>2, <1>4, <1>5 DEF OwnRing, v

(* With an empty buffer, a socket that takes bytes gets just the answer.     *)
LEMMA SendWhole ==
    ASSUME NEW r \in Ring, r.size = 0, NEW bytes \in Seq(Byte)
    PROVE  Send(r, bytes, TRUE).out = bytes
<1> DEFINE v == Send(r, bytes, TRUE)
<1>1. /\ v \in Writers /\ v.ring.size = 0 /\ Len(v.out) = 0 + Len(bytes)
      /\ \A i \in 1 .. Total(v) : ByteOf(v, i) = IF i <= 0 THEN ByteAt(r, i - 1) ELSE bytes[i - 0]
  BY SendExact
<1> HIDE DEF v
<1>2. /\ v.out \in Seq(Byte) /\ Len(v.out) \in Nat /\ Len(bytes) \in Nat /\ Total(v) = Len(v.out)
  BY <1>1, WriterFields DEF Total
<1>3. Len(v.out) = Len(bytes)
  BY <1>1, <1>2
<1>4. ASSUME NEW i \in 1 .. Len(bytes)
      PROVE  v.out[i] = bytes[i]
  <2>1. i \in 1 .. Total(v) /\ i <= Len(v.out) /\ ~(i <= 0) /\ i - 0 = i
    BY <1>2, <1>3
  <2>2. ByteOf(v, i) = bytes[i]
    BY <1>1, <2>1
  <2> QED  BY <2>1, <2>2 DEF ByteOf
<1>5. v.out = bytes
  BY <1>2, <1>3, <1>4
<1> QED  BY <1>5 DEF v

-----------------------------------------------------------------------------
(* The bytes of an answer, and what a client makes of them.                  *)
LEMMA AnswerBytes ==
    ASSUME NEW c \in Int, NEW n \in Int, NEW len \in Nat, NEW whole \in BOOLEAN
    PROVE  /\ Answer(c, n, len, whole) \in Seq(Byte) /\ Len(Answer(c, n, len, whole)) = len
           /\ \A i \in 1 .. len : Answer(c, n, len, whole)[i][1] = c
<1> DEFINE A == Answer(c, n, len, whole)
<1>1. A = [i \in 1 .. len |-> <<c, n, i, whole /\ i = len>>]
  BY DEF Answer
<1>2. ASSUME NEW i \in 1 .. len
      PROVE  <<c, n, i, whole /\ i = len>> \in Byte
  <2>1. i \in Int
    OBVIOUS
  <2>2. (whole /\ i = len) \in BOOLEAN
    BY Zenon
  <2> QED  BY <2>1, <2>2, Zenon DEF Byte
<1> HIDE DEF A
<1>3. \A i \in 1 .. len : A[i] = <<c, n, i, whole /\ i = len>>
  BY <1>1, Zenon
<1>4. A \in [1 .. len -> Byte]
  BY <1>1, <1>2, Zenon
<1>5. A \in Seq(Byte) /\ Len(A) = len
  BY <1>4
<1>6. \A i \in 1 .. len : A[i][1] = c
  <2> SUFFICES ASSUME NEW i \in 1 .. len
               PROVE  A[i][1] = c
    OBVIOUS
  <2> DEFINE l == whole /\ i = len
  <2>1. A[i] = <<c, n, i, l>>
    BY <1>3, Zenon
  <2> HIDE DEF l
  <2> QED  BY <2>1
<1> QED  BY <1>5, <1>6 DEF A

(* The same as one predicate, which can be cited without its quantifier.     *)
OwnBytes(bytes, c, len) ==
    bytes \in Seq(Byte) /\ Len(bytes) = len /\ \A i \in 1 .. len : bytes[i][1] = c

LEMMA AnswerOwn ==
    ASSUME NEW c \in Int, NEW n \in Int, NEW len \in Nat, NEW whole \in BOOLEAN
    PROVE  OwnBytes(Answer(c, n, len, whole), c, len)
<1> DEFINE A == Answer(c, n, len, whole)
<1>1. A \in Seq(Byte) /\ Len(A) = len /\ \A i \in 1 .. len : A[i][1] = c
  BY AnswerBytes
<1> HIDE DEF A
<1>2. OwnBytes(A, c, len)
  BY <1>1, Zenon DEF OwnBytes
<1> QED  BY <1>2 DEF A

LEMMA TailAnswer ==
    ASSUME NEW c, NEW n, NEW i, NEW l
    PROVE  Tail(<<c, n, i, l>>) = <<n, i, l>>
  OBVIOUS

LEMMA ByteTail ==
    ASSUME NEW b \in Byte
    PROVE  Tail(b) \in Int \X Int \X BOOLEAN /\ Tail(b) = <<b[2], b[3], b[4]>>
<1> DEFINE b1 == b[1]
           b2 == b[2]
           b3 == b[3]
           b4 == b[4]
<1>1. b = <<b1, b2, b3, b4>>
  BY DEF Byte
<1>2. b2 \in Int /\ b3 \in Int
  BY DEF Byte
<1>3. b4 \in BOOLEAN
  BY DEF Byte
<1> HIDE DEF b1, b2, b3, b4
<1>4. Tail(b) = <<b2, b3, b4>>
  BY <1>1, TailAnswer
<1>5. <<b2, b3, b4>> \in Int \X Int \X BOOLEAN
  BY <1>2, <1>3
<1>6. Tail(b) \in Int \X Int \X BOOLEAN
  BY <1>4, <1>5, Zenon
<1> QED  BY <1>4, <1>6, Zenon DEF b2, b3, b4

LEMMA ClientFields ==
    ASSUME NEW cl \in Client
    PROVE  /\ cl = [msg |-> cl.msg, sent |-> cl.sent, bad |-> cl.bad, gone |-> cl.gone, got |-> cl.got]
           /\ cl.msg \in Requests \cup {"none", "half"} /\ cl.sent \in Nat
           /\ cl.bad \in {"no", "order", "foreign"} /\ cl.got \in Int \X Int \X BOOLEAN
  BY DEF Client

(* A delivery changes what the client has got and whether that was right.    *)
LEMMA DeliverClient ==
    ASSUME NEW cl \in Client, NEW c, NEW bytes \in Seq(Byte)
    PROVE  LET d == Deliver(cl, c, bytes)
           IN /\ d \in Client /\ d.msg = cl.msg /\ d.sent = cl.sent /\ d.gone = cl.gone
              /\ cl.gone \/ bytes = <<>> => d = cl
              /\ bytes # <<>> /\ bytes[1][1] # c => d.bad # "order" \/ cl.bad = "order"
              /\ bytes # <<>> /\ bytes[1][1] = c => d.bad # "foreign" \/ cl.bad = "foreign"
              /\ ~cl.gone /\ bytes # <<>> /\ bytes[1][1] = c => d.got = Tail(bytes[Len(bytes)])
              /\ bytes # <<>> /\ bytes[1][1] # c => d.got = cl.got
<1> DEFINE d == Deliver(cl, c, bytes)
           prev == [i \in DOMAIN bytes |-> IF i = 1 THEN cl.got ELSE Tail(bytes[i - 1])]
           bad == IF \E i \in DOMAIN bytes : ~Follows(prev[i], bytes[i]) THEN "order" ELSE cl.bad
           got == Tail(bytes[Len(bytes)])
<1>1. /\ cl = [msg |-> cl.msg, sent |-> cl.sent, bad |-> cl.bad, gone |-> cl.gone, got |-> cl.got]
      /\ cl.msg \in Requests \cup {"none", "half"} /\ cl.sent \in Nat
      /\ cl.bad \in {"no", "order", "foreign"} /\ cl.got \in Int \X Int \X BOOLEAN
  BY ClientFields
<1>2. CASE cl.gone \/ bytes = <<>>
  <2>1. d = cl
    BY <1>2 DEF Deliver
  <2> HIDE DEF d
  <2>2. /\ d \in Client /\ d.msg = cl.msg /\ d.sent = cl.sent /\ d.gone = cl.gone
        /\ (d.bad # "order" \/ cl.bad = "order") /\ (d.bad # "foreign" \/ cl.bad = "foreign")
        /\ d.got = cl.got
    BY <2>1
  <2>3. bytes # <<>> => cl.gone
    BY <1>2
  <2> QED  BY <2>1, <2>2, <2>3 DEF d
<1>3. CASE ~(cl.gone \/ bytes = <<>>) /\ bytes[1][1] # c
  <2>1. d = [cl EXCEPT !.bad = "foreign"]
    BY <1>3 DEF Deliver
  <2> HIDE DEF d
  <2>2. /\ d \in Client /\ d.msg = cl.msg /\ d.sent = cl.sent /\ d.gone = cl.gone
        /\ d.bad = "foreign" /\ d.got = cl.got
    BY <1>1, <2>1 DEF Client
  <2> QED  BY <1>3, <2>2 DEF d
<1>4. CASE ~(cl.gone \/ bytes = <<>>) /\ bytes[1][1] = c
  <2>0. Len(bytes) \in 1 .. Len(bytes) /\ bytes[Len(bytes)] \in Byte
    BY <1>4
  <2>1. d = [cl EXCEPT !.bad = bad, !.got = got]
    BY <1>4, Zenon DEF Deliver
  <2>2. got \in Int \X Int \X BOOLEAN
    BY <2>0, ByteTail
  <2>3. bad \in {"order", cl.bad}
    <3> HIDE DEF prev
    <3> QED  BY Zenon
  <2> DEFINE g == got
  <2> HIDE DEF d, bad, got
  <2>4. /\ d.msg = cl.msg /\ d.sent = cl.sent /\ d.gone = cl.gone /\ d.bad = bad /\ d.got = got
        /\ d \in Client
    BY <1>1, <2>1, <2>2, <2>3 DEF Client
  <2>5. d.bad # "foreign" \/ cl.bad = "foreign"
    BY <2>3, <2>4
  <2>6. d.got = Tail(bytes[Len(bytes)])
    BY <2>4 DEF got
  <2> QED  BY <1>4, <2>4, <2>5, <2>6 DEF d
<1> QED  BY <1>2, <1>3, <1>4

(* A whole answer that begins where the one before was complete follows it.  *)
LEMMA DeliverAnswer ==
    ASSUME NEW cl \in Client, NEW c \in Int, NEW n \in Int, NEW len \in Nat \ {0}, NEW whole \in BOOLEAN,
           ~cl.gone
    PROVE  LET d == Deliver(cl, c, Answer(c, n, len, whole))
           IN /\ d.got[1] = n /\ d.got[3] = whole
              /\ cl.got[1] = n - 1 /\ cl.got[3] => d.bad = cl.bad
<1> DEFINE A == Answer(c, n, len, whole)
           d == Deliver(cl, c, A)
           prev == [i \in DOMAIN A |-> IF i = 1 THEN cl.got ELSE Tail(A[i - 1])]
           bad == IF \E i \in DOMAIN A : ~Follows(prev[i], A[i]) THEN "order" ELSE cl.bad
           L(i) == whole /\ i = len
<1>1. /\ A \in Seq(Byte) /\ Len(A) = len /\ \A i \in 1 .. len : A[i] = <<c, n, i, L(i)>> /\ A[i][1] = c
  <2>0. len \in Nat
    OBVIOUS
  <2>1. A \in Seq(Byte) /\ Len(A) = len /\ \A i \in 1 .. len : A[i][1] = c
    <3>1. OwnBytes(A, c, len)
      BY <2>0, AnswerOwn, Zenon
    <3> HIDE DEF A
    <3> QED  BY <3>1, Zenon DEF OwnBytes
  <2>2. \A i \in 1 .. len : A[i] = <<c, n, i, L(i)>>
    BY Zenon DEF Answer
  <2> QED  BY <2>1, <2>2, Zenon
<1>2. cl.got \in Int \X Int \X BOOLEAN
  BY ClientFields
<1> HIDE DEF A
<1>3. A # <<>> /\ A[1][1] = c /\ DOMAIN A = 1 .. len /\ len \in 1 .. len
  BY <1>1
<1>4. d.got = Tail(A[len])
  <2>1. A \in Seq(Byte) /\ Len(A) = len
    BY <1>1, Zenon
  <2>2. A # <<>> /\ A[1][1] = c => d.got = Tail(A[Len(A)])
    BY <2>1, DeliverClient, SMTT(40)
  <2> HIDE DEF d
  <2> QED  BY <1>3, <2>1, <2>2, Zenon
<1>5. d.got = <<n, len, L(len)>>
  <2>1. A[len] = <<c, n, len, L(len)>>
    BY <1>1, <1>3, Zenon
  <2> HIDE DEF L, d
  <2> QED  BY <1>4, <2>1, TailAnswer
<1>6. d.got[1] = n /\ d.got[3] = L(len)
  <2> HIDE DEF L, d
  <2> QED  BY <1>5
<1>7. L(len) = whole
  BY Zenon
<1>8. ASSUME cl.got[1] = n - 1, cl.got[3]
      PROVE  d.bad = cl.bad
  <2>1. d = [cl EXCEPT !.bad = bad, !.got = Tail(A[Len(A)])]
    BY <1>3, Zenon DEF Deliver
  <2>2. ASSUME NEW i \in 1 .. len
        PROVE  Follows(prev[i], A[i])
    <3>1. CASE i = 1
      <4>1. prev[i] = cl.got
        BY <1>3, <3>1
      <4>2. A[i][2] = n /\ A[i][3] = 1
        <5> HIDE DEF L
        <5> QED  BY <1>1, <3>1
      <4>3. A[i][2] = cl.got[1] + 1
        BY <1>2, <1>8, <4>2
      <4> QED  BY <1>8, <4>1, <4>2, <4>3 DEF Follows
    <3>2. CASE i # 1
      <4>0. i - 1 \in 1 .. len /\ i = (i - 1) + 1
        BY <3>2
      <4>1. prev[i] = Tail(A[i - 1])
        BY <1>3, <3>2
      <4>2. A[i - 1] = <<c, n, i - 1, L(i - 1)>>
        BY <1>1, <4>0
      <4>3. prev[i] = <<n, i - 1, L(i - 1)>>
        <5> HIDE DEF L, prev
        <5> QED  BY <4>1, <4>2, TailAnswer
      <4>4. ~L(i - 1)
        BY <4>0
      <4>5. A[i][2] = n /\ A[i][3] = i
        <5> HIDE DEF L
        <5> QED  BY <1>1
      <4>6. prev[i][1] = n /\ prev[i][2] = i - 1 /\ ~prev[i][3]
        <5> HIDE DEF L, prev
        <5> QED  BY <4>3, <4>4
      <4> HIDE DEF prev
      <4> QED  BY <4>0, <4>5, <4>6 DEF Follows
    <3> QED  BY <3>1, <3>2
  <2>3. bad = cl.bad
    <3> HIDE DEF prev
    <3> QED  BY <1>3, <2>2
  <2> HIDE DEF bad
  <2> QED  BY <2>1, <2>3, ClientFields
<1> QED  BY <1>6, <1>7, <1>8 DEF A

(* An answer of c to its n-th request, and how it arrives.                   *)
AnswerTo(bytes, c, n, whole) ==
    /\ bytes \in Seq(Byte) /\ bytes # <<>> /\ \A i \in 1 .. Len(bytes) : bytes[i][1] = c
    /\ \A cl \in Client : ~cl.gone =>
          /\ Deliver(cl, c, bytes).got[1] = n /\ Deliver(cl, c, bytes).got[3] = whole
          /\ cl.got[1] = n - 1 /\ cl.got[3] => Deliver(cl, c, bytes).bad = cl.bad

LEMMA AnswerArrives ==
    ASSUME NEW c \in Int, NEW n \in Int, NEW len \in Nat \ {0}, NEW whole \in BOOLEAN
    PROVE  AnswerTo(Answer(c, n, len, whole), c, n, whole)
<1> DEFINE A == Answer(c, n, len, whole)
<1>0. len \in Nat
  OBVIOUS
<1>1. A \in Seq(Byte) /\ Len(A) = len /\ \A i \in 1 .. len : A[i][1] = c
  <2>1. OwnBytes(A, c, len)
    BY <1>0, AnswerOwn, Zenon
  <2> HIDE DEF A
  <2> QED  BY <2>1, Zenon DEF OwnBytes
<1>2. ASSUME NEW cl \in Client, ~cl.gone
      PROVE  /\ Deliver(cl, c, A).got[1] = n /\ Deliver(cl, c, A).got[3] = whole
             /\ cl.got[1] = n - 1 /\ cl.got[3] => Deliver(cl, c, A).bad = cl.bad
  BY <1>2, DeliverAnswer
<1> HIDE DEF A
<1>3. A # <<>> /\ \A i \in 1 .. Len(A) : A[i][1] = c
  BY <1>1
<1>4. AnswerTo(A, c, n, whole)
  BY <1>1, <1>2, <1>3 DEF AnswerTo
<1> QED  BY <1>4 DEF A

-----------------------------------------------------------------------------
(* What the statements do to a session.                                      *)
LEMMA SessionFields ==
    ASSUME NEW q \in Nat, NEW s \in Sessions(q)
    PROVE  /\ s = [trx |-> s.trx, multi |-> s.multi, mode |-> s.mode, fate |-> s.fate]
           /\ s.trx \in {"none", "idle", "started"} /\ s.multi \in BOOLEAN
           /\ s.mode \in {"TUPLE_ITERATOR", "CHUNK_ITERATOR"} /\ s.fate \in [1 .. q -> Fates]
  BY DEF Sessions

LEMMA EndTrxSession ==
    ASSUME NEW q \in Nat, NEW s \in Sessions(q), NEW end \in Fates
    PROVE  LET e == EndTrx(s, end)
           IN /\ e \in Sessions(q) /\ e.trx = "idle" /\ e.multi = s.multi /\ e.mode = s.mode
              /\ \A n \in 1 .. q : e.fate[n] = IF s.fate[n] = "pending" THEN end ELSE s.fate[n]
<1> DEFINE F == [n \in DOMAIN s.fate |-> IF s.fate[n] = "pending" THEN end ELSE s.fate[n]]
<1>1. /\ s = [trx |-> s.trx, multi |-> s.multi, mode |-> s.mode, fate |-> s.fate]
      /\ s.multi \in BOOLEAN
      /\ s.mode \in {"TUPLE_ITERATOR", "CHUNK_ITERATOR"} /\ s.fate \in [1 .. q -> Fates]
  BY SessionFields
<1>2. F \in [1 .. q -> Fates] /\ \A n \in 1 .. q : F[n] = IF s.fate[n] = "pending" THEN end ELSE s.fate[n]
  BY <1>1
<1>3. EndTrx(s, end) = [s EXCEPT !.trx = "idle", !.fate = F]
  BY Zenon DEF EndTrx
<1> HIDE DEF F
<1>4. EndTrx(s, end) = [trx |-> "idle", multi |-> s.multi, mode |-> s.mode, fate |-> F]
  BY <1>1, <1>3
<1>5. EndTrx(s, end) \in Sessions(q)
  BY <1>1, <1>2, <1>4 DEF Sessions
<1> QED  BY <1>2, <1>4, <1>5

LEMMA CloseSession ==
    ASSUME NEW q \in Nat, NEW s \in Sessions(q)
    PROVE  LET e == CloseResult(s)
           IN /\ e \in Sessions(q) /\ e.multi = s.multi /\ e.mode = s.mode
              /\ s.multi => e = s
              /\ ~s.multi => /\ e.trx = "idle"
                             /\ \A n \in 1 .. q : e.fate[n] = IF s.fate[n] = "pending" THEN "committed" ELSE s.fate[n]
<1>1. CASE s.multi
  BY <1>1 DEF CloseResult
<1>2. CASE ~s.multi
  <2>1. CloseResult(s) = EndTrx(s, "committed")
    BY <1>2 DEF CloseResult, commit
  <2>2. "committed" \in Fates
    BY DEF Fates
  <2> QED  BY <1>2, <2>1, <2>2, EndTrxSession
<1> QED  BY <1>1, <1>2

LEMMA DestroyedSession ==
    ASSUME NEW q \in Nat, NEW s \in Sessions(q)
    PROVE  /\ Destroyed(s) \in Sessions(q) /\ Destroyed(s).multi = s.multi
           /\ \A n \in 1 .. q : Destroyed(s).fate[n] = IF s.fate[n] = "pending" THEN "orphan" ELSE s.fate[n]
<1> DEFINE e == EndTrx(s, "orphan")
<1>1. /\ e \in Sessions(q) /\ e.multi = s.multi
      /\ \A n \in 1 .. q : e.fate[n] = IF s.fate[n] = "pending" THEN "orphan" ELSE s.fate[n]
  <2>1. "orphan" \in Fates
    BY DEF Fates
  <2> QED  BY <2>1, EndTrxSession
<1>2. Destroyed(s) = [e EXCEPT !.trx = "none"]
  BY DEF Destroyed
<1> HIDE DEF e
<1> QED  BY <1>1, <1>2 DEF Sessions

LEMMA StartSession ==
    ASSUME NEW q \in Nat, NEW s \in Sessions(q), NEW kit
    PROVE  start_if_need(s, kit) = [trx |-> IF kit = "mvcc" THEN "started" ELSE "idle", multi |-> s.multi,
                                    mode |-> s.mode, fate |-> s.fate]
  BY SessionFields DEF start_if_need

Opened(e, s, q, kit, n, kind, o) ==
    /\ e \in Sessions(q) /\ e.multi = s.multi /\ (kit = "mvcc" => e.trx = "started")
    /\ \A m \in 1 .. q : m # n => e.fate[m] = s.fate[m]
    /\ kind = "WRITE" /\ o = "SUCCESS" => e.fate[n] = IF kit = "vacuous" THEN "committed" ELSE "pending"

LEMMA OpenSession ==
    ASSUME NEW q \in Nat, NEW s \in Sessions(q), NEW kit, NEW n \in 1 .. q, NEW kind, NEW o
    PROVE  Opened(OpenResult(s, kit, n, kind, o), s, q, kit, n, kind, o)
<1> DEFINE f == IF ~(kind = "WRITE" /\ o # "FAILED") THEN "none"
                ELSE IF kit = "vacuous" THEN "committed" ELSE "pending"
           x == start_if_need(s, kit)
           e == OpenResult(s, kit, n, kind, o)
<1>1. /\ x = [trx |-> IF kit = "mvcc" THEN "started" ELSE "idle", multi |-> s.multi,
              mode |-> s.mode, fate |-> s.fate]
      /\ s.multi \in BOOLEAN
      /\ s.mode \in {"TUPLE_ITERATOR", "CHUNK_ITERATOR"} /\ s.fate \in [1 .. q -> Fates]
  BY StartSession, SessionFields
<1>2. f \in Fates
  BY DEF Fates
<1>3. e = [x EXCEPT !.fate[n] = f]
  BY DEF OpenResult
<1>4. kind = "WRITE" /\ o = "SUCCESS" => f = IF kit = "vacuous" THEN "committed" ELSE "pending"
  OBVIOUS
<1> HIDE DEF f, x, e
<1>5. e = [trx |-> IF kit = "mvcc" THEN "started" ELSE "idle", multi |-> s.multi,
           mode |-> s.mode, fate |-> [s.fate EXCEPT ![n] = f]]
  BY <1>1, <1>3
<1>6. e \in Sessions(q)
  BY <1>1, <1>2, <1>5 DEF Sessions
<1>7. /\ e.multi = s.multi /\ (kit = "mvcc" => e.trx = "started") /\ e.fate[n] = f
      /\ \A m \in 1 .. q : m # n => e.fate[m] = s.fate[m]
  BY <1>1, <1>5
<1>8. Opened(e, s, q, kit, n, kind, o)
  BY <1>4, <1>6, <1>7 DEF Opened
<1> QED  BY <1>8 DEF e

LEMMA MultiSession ==
    ASSUME NEW q \in Nat, NEW s \in Sessions(q), NEW b \in BOOLEAN
    PROVE  LET m == [s EXCEPT !.multi = b]
           IN m \in Sessions(q) /\ m.trx = s.trx /\ m.multi = b /\ m.mode = s.mode /\ m.fate = s.fate
<1> DEFINE m == [s EXCEPT !.multi = b]
<1>1. m = [trx |-> s.trx, multi |-> b, mode |-> s.mode, fate |-> s.fate]
  BY SessionFields
<1>2. [trx |-> s.trx, multi |-> b, mode |-> s.mode, fate |-> s.fate] \in Sessions(q)
  BY SessionFields DEF Sessions
<1> HIDE DEF m
<1>3. m.trx = s.trx /\ m.multi = b /\ m.mode = s.mode /\ m.fate = s.fate
  BY <1>1
<1>4. m \in Sessions(q)
  BY <1>1, <1>2, Zenon
<1> QED  BY <1>3, <1>4 DEF m

LEMMA ExecuteSession ==
    ASSUME NEW q \in Nat, NEW s \in Sessions(q), NEW kit, NEW kind \in Kinds, ~Runs(kind)
    PROVE  LET e == execute(kind, s, kit)
           IN /\ e.sess \in Sessions(q) /\ e.rc \in {"SUCCESS", "FAILURE"}
              /\ kind = "BEGIN" => /\ e.rc = "SUCCESS" /\ e.sess.multi /\ e.sess.fate = s.fate
                                   /\ kit = "mvcc" => e.sess.trx = "started"
              /\ kind \in Ends =>
                    /\ ~e.sess.multi /\ e.sess.trx = "idle"
                    /\ \A n \in 1 .. q : e.sess.fate[n] = IF s.fate[n] # "pending" THEN s.fate[n]
                                                          ELSE IF kind = "COMMIT" THEN "committed" ELSE "undone"
              /\ kind \notin Ends \cup {"BEGIN"} =>
                    e.sess.multi = s.multi /\ e.sess.trx = s.trx /\ e.sess.fate = s.fate
<1> DEFINE e == execute(kind, s, kit)
<1>1. /\ s = [trx |-> s.trx, multi |-> s.multi, mode |-> s.mode, fate |-> s.fate]
      /\ s.trx \in {"none", "idle", "started"} /\ s.multi \in BOOLEAN
      /\ s.mode \in {"TUPLE_ITERATOR", "CHUNK_ITERATOR"} /\ s.fate \in [1 .. q -> Fates]
  BY SessionFields
<1>2. kind \in {"BEGIN", "COMMIT", "ROLLBACK", "SET", "BAD"}
  BY DEF Kinds, Runs, HasOperator
<1>3. CASE kind = "BEGIN"
  <2> DEFINE m == [s EXCEPT !.multi = TRUE]
  <2>1. m \in Sessions(q) /\ m.multi = TRUE /\ m.mode = s.mode /\ m.fate = s.fate
    BY MultiSession
  <2>2. e = [sess |-> start_if_need(m, kit), rc |-> "SUCCESS"]
    BY <1>3 DEF execute, TrxBegin
  <2> HIDE DEF m
  <2> DEFINE y == IF kit = "mvcc" THEN "started" ELSE "idle"
             x == start_if_need(m, kit)
  <2>3. x = [trx |-> y, multi |-> m.multi, mode |-> m.mode, fate |-> m.fate]
    BY <2>1, StartSession
  <2>4. e.sess = x /\ e.rc = "SUCCESS"
    BY <2>2
  <2>5. y \in {"idle", "started"} /\ (kit = "mvcc" => y = "started")
    OBVIOUS
  <2> HIDE DEF e, x, y
  <2>6. x.trx = y /\ x.multi = m.multi /\ x.fate = m.fate
    BY <2>3
  <2>7. x \in Sessions(q)
    BY <2>1, <2>3, <2>5, SessionFields DEF Sessions
  <2> QED  BY <1>3, <2>1, <2>4, <2>5, <2>6, <2>7 DEF Ends, e
<1>4. CASE kind \in Ends
  <2> DEFINE m == [s EXCEPT !.multi = FALSE]
             end == IF kind = "COMMIT" THEN "committed" ELSE "undone"
             x == EndTrx(m, end)
  <2>1. m \in Sessions(q) /\ m.multi = FALSE /\ m.mode = s.mode /\ m.fate = s.fate
    BY MultiSession
  <2>2. e = [sess |-> x, rc |-> "SUCCESS"]
    BY <1>4 DEF execute, TrxEnd, commit, rollback, Ends
  <2>3. end \in Fates /\ kind # "BEGIN"
    BY <1>4 DEF Fates, Ends
  <2> HIDE DEF m, end
  <2>4. /\ x \in Sessions(q) /\ x.trx = "idle" /\ x.multi = m.multi
        /\ \A n \in 1 .. q : x.fate[n] = IF m.fate[n] = "pending" THEN end ELSE m.fate[n]
    BY <2>1, <2>3, EndTrxSession
  <2>5. m.fate = s.fate /\ ~m.multi
    BY <2>1
  <2> HIDE DEF e, x
  <2>6. e.sess = x /\ e.rc = "SUCCESS"
    BY <2>2
  <2>7. \A n \in 1 .. q : e.sess.fate[n] = IF s.fate[n] # "pending" THEN s.fate[n] ELSE end
    BY <2>4, <2>5, <2>6
  <2> QED  BY <1>4, <2>3, <2>4, <2>5, <2>6, <2>7 DEF end, e
<1>5. CASE kind = "SET"
  <2>1. e = [sess |-> [s EXCEPT !.mode = "CHUNK_ITERATOR"], rc |-> "SUCCESS"]
    BY <1>5 DEF execute, SetVariable
  <2>2. e.sess = [trx |-> s.trx, multi |-> s.multi, mode |-> "CHUNK_ITERATOR", fate |-> s.fate]
        /\ e.rc = "SUCCESS"
    BY <1>1, <2>1
  <2>3. e.sess \in Sessions(q)
    BY <1>1, <2>2 DEF Sessions
  <2> HIDE DEF e
  <2> QED  BY <1>5, <2>2, <2>3 DEF Ends, e
<1>6. CASE kind = "BAD"
  <2>1. e = [sess |-> s, rc |-> "FAILURE"]
    BY <1>6 DEF execute
  <2> QED  BY <1>6, <2>1 DEF Ends
<1> QED  BY <1>2, <1>3, <1>4, <1>5, <1>6 DEF Ends

(* What is written for the outcome of a statement.                           *)
Outcome(r, protocol, s, c, n, kind, rc) ==
    /\ r.cut = (protocol = "plain" /\ r.said = "CUT")
    /\ \E len \in Nat \ {0} : r.bytes = Answer(c, n, len, r.said # "CUT")
    /\ ~Runs(kind) => r.sess = s /\ r.said = rc
    /\ Runs(kind) => \/ r.said = "CUT" /\ protocol # "mysql" /\ r.sess = s /\ kind = "SELECT"
                     \/ r.said = "SUCCESS" /\ rc = "SUCCESS" /\ r.sess = CloseResult(s)
                     \/ /\ r.said = "FAILURE" /\ rc # "SUCCESS"
                        /\ r.sess = IF protocol = "mysql" THEN s ELSE CloseResult(s)

LEMMA StateOutcome ==
    ASSUME NEW s, NEW c, NEW n, NEW kind, NEW rc, NEW protocol, NEW z, NEW say,
           say # "CUT",
           \/ ~Runs(kind) /\ z = s /\ say = rc
           \/ Runs(kind) /\ rc = "SUCCESS" /\ z = CloseResult(s) /\ say = "SUCCESS"
           \/ /\ Runs(kind) /\ rc # "SUCCESS" /\ say = "FAILURE"
              /\ z = IF protocol = "mysql" THEN s ELSE CloseResult(s)
    PROVE  Outcome(write_state(z, c, n, say), protocol, s, c, n, kind, rc)
<1> DEFINE r == write_state(z, c, n, say)
           A == Answer(c, n, 2, TRUE)
<1>0. r = [sess |-> z, bytes |-> A, said |-> say, cut |-> FALSE]
  BY DEF write_state, StateLen
<1> HIDE DEF r, A
<1>1. r.sess = z /\ r.said = say /\ r.cut = FALSE /\ r.bytes = A
  BY <1>0
<1>2. r.cut = (protocol = "plain" /\ r.said = "CUT")
  BY <1>1
<1>3. \E len \in Nat \ {0} : r.bytes = Answer(c, n, len, r.said # "CUT")
  <2>1. (r.said # "CUT") = TRUE
    BY <1>1
  <2>2. r.bytes = Answer(c, n, 2, r.said # "CUT")
    BY <1>1, <2>1, Zenon DEF A
  <2>3. 2 \in Nat \ {0}
    OBVIOUS
  <2> QED  BY <2>2, <2>3, Zenon
<1>4. ~Runs(kind) => r.sess = s /\ r.said = rc
  BY <1>1
<1>5. Runs(kind) => \/ r.said = "CUT" /\ protocol # "mysql" /\ r.sess = s /\ kind = "SELECT"
                    \/ r.said = "SUCCESS" /\ rc = "SUCCESS" /\ r.sess = CloseResult(s)
                    \/ /\ r.said = "FAILURE" /\ rc # "SUCCESS"
                       /\ r.sess = IF protocol = "mysql" THEN s ELSE CloseResult(s)
  BY <1>1, Zenon
<1> QED  BY <1>2, <1>3, <1>4, <1>5, Zenon DEF Outcome, r

LEMMA RowsOutcome ==
    ASSUME NEW s, NEW c, NEW n, NEW kind, NEW rc, NEW protocol, NEW z, NEW say, NEW cut, NEW len \in Nat \ {0},
           NEW whole, whole = (say # "CUT"), cut = (protocol = "plain" /\ say = "CUT"),
           Runs(kind) /\ rc = "SUCCESS",
           \/ say = "SUCCESS" /\ z = CloseResult(s)
           \/ say = "CUT" /\ z = s /\ protocol # "mysql" /\ kind = "SELECT"
    PROVE  Outcome([sess |-> z, bytes |-> Answer(c, n, len, whole), said |-> say, cut |-> cut],
                   protocol, s, c, n, kind, rc)
<1> DEFINE A == Answer(c, n, len, whole)
           r == [sess |-> z, bytes |-> A, said |-> say, cut |-> cut]
<1> HIDE DEF A
<1>1. r.sess = z /\ r.said = say /\ r.cut = cut /\ r.bytes = A
  OBVIOUS
<1> HIDE DEF r
<1>2. r.bytes = Answer(c, n, len, r.said # "CUT")
  BY <1>1, Zenon DEF A
<1>3. \E l \in Nat \ {0} : r.bytes = Answer(c, n, l, r.said # "CUT")
  BY <1>2, Zenon
<1>4. r.cut = (protocol = "plain" /\ r.said = "CUT")
  BY <1>1, Zenon
<1> QED  BY <1>1, <1>3, <1>4, Zenon DEF Outcome, r, A

LEMMA ResultOutcome ==
    ASSUME NEW s, NEW c, NEW n, NEW kind, NEW rc, NEW protocol \in {"plain", "mysql", "cli"},
           ~Runs(kind) => rc \in {"SUCCESS", "FAILURE"}
    PROVE  Outcome(write_result(protocol, s, c, n, kind, rc), protocol, s, c, n, kind, rc)
<1> DEFINE plain == write_result_plain(s, c, n, kind, rc)
           mysql == write_result_mysql(s, c, n, kind, rc)
           O(r, p) == Outcome(r, p, s, c, n, kind, rc)
<1>1. O(plain, "plain")
  <2>1. CASE ~Runs(kind)
    <3>1. plain = write_state(s, c, n, rc) /\ rc # "CUT"
      BY <2>1 DEF write_result_plain
    <3> QED  BY <2>1, <3>1, StateOutcome
  <2>2. CASE Runs(kind) /\ rc # "SUCCESS"
    <3>1. plain = write_state(CloseResult(s), c, n, "FAILURE")
      BY <2>2 DEF write_result_plain
    <3> QED  BY <2>2, <3>1, StateOutcome
  <2>3. CASE Runs(kind) /\ rc = "SUCCESS" /\ RowError(kind, s)
    <3> DEFINE no == FALSE
               yes == TRUE
    <3>1. plain = [sess |-> s, bytes |-> Answer(c, n, 1, no), said |-> "CUT", cut |-> yes]
      BY <2>3 DEF write_result_plain
    <3>2. kind = "SELECT" /\ no = ("CUT" # "CUT") /\ yes = ("plain" = "plain" /\ "CUT" = "CUT")
          /\ 1 \in Nat \ {0}
      BY <2>3 DEF RowError
    <3> HIDE DEF no, yes, plain
    <3> QED  BY <2>3, <3>1, <3>2, RowsOutcome
  <2>4. CASE Runs(kind) /\ rc = "SUCCESS" /\ ~RowError(kind, s) /\ Rows(kind)
    <3> DEFINE no == FALSE
               yes == TRUE
    <3>1. plain = [sess |-> CloseResult(s), bytes |-> Answer(c, n, 3, yes), said |-> "SUCCESS", cut |-> no]
      BY <2>4 DEF write_result_plain, RowsLen
    <3>2. yes = ("SUCCESS" # "CUT") /\ no = ("plain" = "plain" /\ "SUCCESS" = "CUT") /\ 3 \in Nat \ {0}
      OBVIOUS
    <3> HIDE DEF no, yes, plain
    <3> QED  BY <2>4, <3>1, <3>2, RowsOutcome
  <2>5. CASE Runs(kind) /\ rc = "SUCCESS" /\ ~RowError(kind, s) /\ ~Rows(kind)
    <3>1. plain = write_state(CloseResult(s), c, n, "SUCCESS")
      BY <2>5 DEF write_result_plain
    <3> QED  BY <2>5, <3>1, StateOutcome
  <2> QED  BY <2>1, <2>2, <2>3, <2>4, <2>5
<1>2. O(mysql, "mysql")
  <2>1. CASE ~Runs(kind)
    <3>1. mysql = write_state(s, c, n, rc) /\ rc # "CUT"
      BY <2>1 DEF write_result_mysql
    <3> QED  BY <2>1, <3>1, StateOutcome
  <2>2. CASE Runs(kind) /\ rc # "SUCCESS"
    <3>1. mysql = write_state(s, c, n, "FAILURE")
      BY <2>2 DEF write_result_mysql
    <3> QED  BY <2>2, <3>1, StateOutcome
  <2>3. CASE Runs(kind) /\ rc = "SUCCESS" /\ Rows(kind)
    <3> DEFINE len == IF RowError(kind, s) THEN 2 ELSE 3
    <3> DEFINE no == FALSE
               yes == TRUE
    <3>1. mysql = [sess |-> CloseResult(s), bytes |-> Answer(c, n, len, yes), said |-> "SUCCESS", cut |-> no]
      BY <2>3 DEF write_result_mysql, send_result_rows, RowsLen
    <3>2. yes = ("SUCCESS" # "CUT") /\ no = ("mysql" = "plain" /\ "SUCCESS" = "CUT") /\ len \in Nat \ {0}
      OBVIOUS
    <3> HIDE DEF len, no, yes, mysql
    <3> QED  BY <2>3, <3>1, <3>2, RowsOutcome
  <2>4. CASE Runs(kind) /\ rc = "SUCCESS" /\ ~Rows(kind)
    <3>1. mysql = write_state(CloseResult(s), c, n, "SUCCESS")
      BY <2>4 DEF write_result_mysql
    <3> QED  BY <2>4, <3>1, StateOutcome
  <2> QED  BY <2>1, <2>2, <2>3, <2>4
<1>3. CASE protocol = "plain"
  <2>1. write_result(protocol, s, c, n, kind, rc) = plain
    BY <1>3 DEF write_result
  <2> QED  BY <1>1, <1>3, <2>1
<1>4. CASE protocol = "mysql"
  <2>1. write_result(protocol, s, c, n, kind, rc) = mysql
    BY <1>4 DEF write_result
  <2> QED  BY <1>2, <1>4, <2>1
<1>5. CASE protocol = "cli"
  <2> DEFINE r == [plain EXCEPT !.cut = FALSE]
  <2>1. write_result(protocol, s, c, n, kind, rc) = r
    BY <1>5 DEF write_result
  <2>2. \E x, b, y, z : plain = [sess |-> x, bytes |-> b, said |-> y, cut |-> z]
    BY Zenon DEF write_result_plain, write_state
  <2>3. r.sess = plain.sess /\ r.bytes = plain.bytes /\ r.said = plain.said /\ r.cut = FALSE
    <3> HIDE DEF plain
    <3> QED  BY <2>2
  <2> HIDE DEF plain, r
  <2>4. O(r, "cli")
    <3>1. r.cut = ("cli" = "plain" /\ r.said = "CUT")
      BY <2>3
    <3> QED  BY <1>1, <2>3, <3>1, Zenon DEF Outcome
  <2> QED  BY <1>5, <2>1, <2>4
<1> QED  BY <1>3, <1>4, <1>5

-----------------------------------------------------------------------------
(* What a step does to a thread.                                             *)
ThreadOf(p, c, b) == [pc |-> p, conn |-> c, core |-> b, kind |-> "-", rc |-> "-", fd |-> 0]

LEMMA NewThreads ==
    /\ NoThread = ThreadOf("none", NoConn, FALSE)
    /\ \A p, b : [NoThread EXCEPT !.pc = p, !.core = b] = ThreadOf(p, NoConn, b)
    /\ \A p, c : [NoThread EXCEPT !.pc = p, !.conn = c] = ThreadOf(p, c, FALSE)
    /\ \A p : [NoThread EXCEPT !.pc = p] = ThreadOf(p, NoConn, FALSE)
    /\ \A b : [Rest EXCEPT !.core = b] = ThreadOf("idle", NoConn, b)
<1> DEFINE no == FALSE
<1>1. NoThread = [pc |-> "none", conn |-> NoConn, core |-> no, kind |-> "-", rc |-> "-", fd |-> 0]
  BY DEF NoThread
<1> HIDE DEF no
<1>2. ASSUME NEW p
      PROVE  /\ \A b : [NoThread EXCEPT !.pc = p, !.core = b] = ThreadOf(p, NoConn, b)
             /\ \A c : [NoThread EXCEPT !.pc = p, !.conn = c] = ThreadOf(p, c, no)
             /\ [NoThread EXCEPT !.pc = p] = ThreadOf(p, NoConn, no)
  <2> DEFINE x == [NoThread EXCEPT !.pc = p]
  <2>1. x = ThreadOf(p, NoConn, no)
    BY <1>1 DEF ThreadOf
  <2> HIDE DEF x
  <2>2. /\ \A b : [x EXCEPT !.core = b] = ThreadOf(p, NoConn, b)
        /\ \A c : [x EXCEPT !.conn = c] = ThreadOf(p, c, no)
    BY <2>1 DEF ThreadOf
  <2> QED  BY <2>1, <2>2 DEF x
<1>3. \A b : [Rest EXCEPT !.core = b] = ThreadOf("idle", NoConn, b)
  BY <1>2 DEF Rest
<1>4. NoThread = ThreadOf("none", NoConn, no)
  BY <1>1 DEF ThreadOf
<1> QED  BY <1>2, <1>3, <1>4 DEF no

LEMMA CardConn ==
    /\ Cardinality(Conn) \in Nat \ {0} /\ Conn = 1 .. Cardinality(Conn) /\ 1 \in Conn
    /\ Conn \subseteq Nat \ {0} /\ Conn \subseteq Thread
<1>1. IsFiniteSet(Conn) /\ Conn = 1 .. Cardinality(Conn) /\ Conn # {} /\ MaxPool \in Nat
  BY ServerAssumption
<1> DEFINE n == Cardinality(Conn)
<1>2. n \in Nat
  BY <1>1, FS_CardinalityType
<1> HIDE DEF n
<1>3. Conn = 1 .. n /\ Thread = 1 .. (IF MaxPool > n THEN MaxPool ELSE n)
  BY <1>1 DEF n, Thread
<1> QED  BY <1>1, <1>2, <1>3 DEF n

(* The fields of a thread after a step of that thread; the others stay.      *)
Turn(t, p, c, k, r, f) ==
    /\ th' \in [Thread -> Threads] /\ \A u \in Thread : u # t => th'[u] = th[u]
    /\ th'[t].pc = p /\ th'[t].conn = c /\ th'[t].kind = k /\ th'[t].rc = r /\ th'[t].fd = f

LEMMA TurnRecord ==
    ASSUME th \in [Thread -> Threads], NEW t \in Thread, NEW x \in Threads, th' = [th EXCEPT ![t] = x]
    PROVE  Turn(t, x.pc, x.conn, x.kind, x.rc, x.fd)
  BY DEF Turn

LEMMA ThreadFields ==
    ASSUME NEW x \in Threads
    PROVE  /\ x = [pc |-> x.pc, conn |-> x.conn, core |-> x.core, kind |-> x.kind, rc |-> x.rc, fd |-> x.fd]
           /\ x.pc \in Pc /\ x.conn \in Conn \cup {Loop, NoConn} /\ x.core \in BOOLEAN
           /\ x.kind \in Requests \cup {"-"} /\ x.rc \in {"-", "SUCCESS", "FAILURE", "FAILED", "PARTLY"}
           /\ x.fd \in 0 .. Cardinality(Conn)
  BY DEF Threads

LEMMA ThreadRecord ==
    ASSUME NEW p \in Pc, NEW c \in Conn \cup {Loop, NoConn}, NEW b \in BOOLEAN, NEW k \in Requests \cup {"-"},
           NEW r \in {"-", "SUCCESS", "FAILURE", "FAILED", "PARTLY"}, NEW f \in 0 .. Cardinality(Conn)
    PROVE  [pc |-> p, conn |-> c, core |-> b, kind |-> k, rc |-> r, fd |-> f] \in Threads
  BY DEF Threads

LEMMA EditedThread ==
    ASSUME NEW x \in Threads, NEW p \in Pc, NEW c \in Conn \cup {Loop, NoConn}, NEW k \in Requests \cup {"-"},
           NEW r \in {"-", "SUCCESS", "FAILURE", "FAILED", "PARTLY"}, NEW f \in 0 .. Cardinality(Conn)
    PROVE  [pc |-> p, conn |-> c, core |-> x.core, kind |-> k, rc |-> r, fd |-> f] \in Threads
<1>1. x.core \in BOOLEAN
  BY ThreadFields
<1> QED  BY <1>1, ThreadRecord, Zenon

LEMMA TurnNew ==
    ASSUME th \in [Thread -> Threads], NEW t \in Thread, NEW p \in Pc, NEW c \in Conn \cup {Loop, NoConn},
           NEW b \in BOOLEAN, th' = [th EXCEPT ![t] = ThreadOf(p, c, b)]
    PROVE  Turn(t, p, c, "-", "-", 0)
<1> DEFINE x == ThreadOf(p, c, b)
<1>1. 0 \in 0 .. Cardinality(Conn)
  BY CardConn
<1>2. x \in Threads
  BY <1>1, ThreadRecord DEF ThreadOf
<1>3. x.pc = p /\ x.conn = c /\ x.kind = "-" /\ x.rc = "-" /\ x.fd = 0
  BY DEF ThreadOf
<1> HIDE DEF x
<1>4. th' = [th EXCEPT ![t] = x]
  BY DEF x
<1>5. Turn(t, x.pc, x.conn, x.kind, x.rc, x.fd)
  BY <1>2, <1>4, TurnRecord
<1> QED  BY <1>3, <1>5

LEMMA EditThread ==
    ASSUME NEW x \in Threads, NEW p, NEW v
    PROVE  LET y == [x EXCEPT !.pc = p]
               E(c, k, r, f) == [pc |-> p, conn |-> c, core |-> x.core, kind |-> k, rc |-> r, fd |-> f]
           IN /\ y = E(x.conn, x.kind, x.rc, x.fd)
              /\ [y EXCEPT !.conn = v] = E(v, x.kind, x.rc, x.fd)
              /\ [y EXCEPT !.kind = v] = E(x.conn, v, x.rc, x.fd)
              /\ [y EXCEPT !.rc = v] = E(x.conn, x.kind, v, x.fd)
<1> DEFINE y == [x EXCEPT !.pc = p]
           E(c, k, r, f) == [pc |-> p, conn |-> c, core |-> x.core, kind |-> k, rc |-> r, fd |-> f]
<1>1. y = E(x.conn, x.kind, x.rc, x.fd)
  BY ThreadFields
<1> HIDE DEF y
<1>2. /\ [y EXCEPT !.conn = v] = E(v, x.kind, x.rc, x.fd)
      /\ [y EXCEPT !.kind = v] = E(x.conn, v, x.rc, x.fd)
  BY <1>1
<1>3. [y EXCEPT !.rc = v] = E(x.conn, x.kind, v, x.fd)
  BY <1>1
<1> QED  BY <1>1, <1>2, <1>3 DEF y

LEMMA TurnPc ==
    ASSUME th \in [Thread -> Threads], NEW t \in Thread, NEW p \in Pc,
           th' = [th EXCEPT ![t].pc = p]
    PROVE  Turn(t, p, th[t].conn, th[t].kind, th[t].rc, th[t].fd)
<1> DEFINE x == [th[t] EXCEPT !.pc = p]
<1>0. th[t] \in Threads
  OBVIOUS
<1>1. x = [pc |-> p, conn |-> th[t].conn, core |-> th[t].core, kind |-> th[t].kind, rc |-> th[t].rc, fd |-> th[t].fd]
  BY <1>0, EditThread, Zenon
<1>2. th' = [th EXCEPT ![t] = x]
  OBVIOUS
<1>3. /\ th[t].pc \in Pc /\ th[t].conn \in Conn \cup {Loop, NoConn}
      /\ th[t].kind \in Requests \cup {"-"} /\ th[t].rc \in {"-", "SUCCESS", "FAILURE", "FAILED", "PARTLY"}
      /\ th[t].fd \in 0 .. Cardinality(Conn)
  BY ThreadFields
<1> HIDE DEF x
<1>4. x \in Threads
  BY <1>0, <1>1, <1>3, EditedThread, ZenonT(60)
<1>5. x.pc = p /\ x.conn = th[t].conn /\ x.kind = th[t].kind /\ x.rc = th[t].rc /\ x.fd = th[t].fd
  BY <1>1
<1>6. Turn(t, x.pc, x.conn, x.kind, x.rc, x.fd)
  BY <1>2, <1>4, TurnRecord
<1> QED  BY <1>5, <1>6

LEMMA TurnPcConn ==
    ASSUME th \in [Thread -> Threads], NEW t \in Thread, NEW p \in Pc,
           NEW c \in Conn \cup {Loop, NoConn},
           th' = [th EXCEPT ![t].pc = p, ![t].conn = c]
    PROVE  Turn(t, p, c, th[t].kind, th[t].rc, th[t].fd)
<1> DEFINE x == [th[t] EXCEPT !.pc = p, !.conn = c]
<1>0. th[t] \in Threads
  OBVIOUS
<1>1. x = [pc |-> p, conn |-> c, core |-> th[t].core, kind |-> th[t].kind, rc |-> th[t].rc, fd |-> th[t].fd]
  BY <1>0, EditThread, Zenon
<1>2. th' = [th EXCEPT ![t] = x]
  OBVIOUS
<1>3. /\ th[t].pc \in Pc /\ th[t].conn \in Conn \cup {Loop, NoConn}
      /\ th[t].kind \in Requests \cup {"-"} /\ th[t].rc \in {"-", "SUCCESS", "FAILURE", "FAILED", "PARTLY"}
      /\ th[t].fd \in 0 .. Cardinality(Conn)
  BY ThreadFields
<1> HIDE DEF x
<1>4. x \in Threads
  BY <1>0, <1>1, <1>3, EditedThread, ZenonT(60)
<1>5. x.pc = p /\ x.conn = c /\ x.kind = th[t].kind /\ x.rc = th[t].rc /\ x.fd = th[t].fd
  BY <1>1
<1>6. Turn(t, x.pc, x.conn, x.kind, x.rc, x.fd)
  BY <1>2, <1>4, TurnRecord
<1> QED  BY <1>5, <1>6

LEMMA TurnPcKind ==
    ASSUME th \in [Thread -> Threads], NEW t \in Thread, NEW p \in Pc,
           NEW k \in Requests \cup {"-"},
           th' = [th EXCEPT ![t].pc = p, ![t].kind = k]
    PROVE  Turn(t, p, th[t].conn, k, th[t].rc, th[t].fd)
<1> DEFINE x == [th[t] EXCEPT !.pc = p, !.kind = k]
<1>0. th[t] \in Threads
  OBVIOUS
<1>1. x = [pc |-> p, conn |-> th[t].conn, core |-> th[t].core, kind |-> k, rc |-> th[t].rc, fd |-> th[t].fd]
  BY <1>0, EditThread, Zenon
<1>2. th' = [th EXCEPT ![t] = x]
  OBVIOUS
<1>3. /\ th[t].pc \in Pc /\ th[t].conn \in Conn \cup {Loop, NoConn}
      /\ th[t].kind \in Requests \cup {"-"} /\ th[t].rc \in {"-", "SUCCESS", "FAILURE", "FAILED", "PARTLY"}
      /\ th[t].fd \in 0 .. Cardinality(Conn)
  BY ThreadFields
<1> HIDE DEF x
<1>4. x \in Threads
  BY <1>0, <1>1, <1>3, EditedThread, ZenonT(60)
<1>5. x.pc = p /\ x.conn = th[t].conn /\ x.kind = k /\ x.rc = th[t].rc /\ x.fd = th[t].fd
  BY <1>1
<1>6. Turn(t, x.pc, x.conn, x.kind, x.rc, x.fd)
  BY <1>2, <1>4, TurnRecord
<1> QED  BY <1>5, <1>6

LEMMA TurnPcRc ==
    ASSUME th \in [Thread -> Threads], NEW t \in Thread, NEW p \in Pc,
           NEW r \in {"-", "SUCCESS", "FAILURE", "FAILED", "PARTLY"},
           th' = [th EXCEPT ![t].pc = p, ![t].rc = r]
    PROVE  Turn(t, p, th[t].conn, th[t].kind, r, th[t].fd)
<1> DEFINE x == [th[t] EXCEPT !.pc = p, !.rc = r]
<1>0. th[t] \in Threads
  OBVIOUS
<1>1. x = [pc |-> p, conn |-> th[t].conn, core |-> th[t].core, kind |-> th[t].kind, rc |-> r, fd |-> th[t].fd]
  BY <1>0, EditThread, Zenon
<1>2. th' = [th EXCEPT ![t] = x]
  OBVIOUS
<1>3. /\ th[t].pc \in Pc /\ th[t].conn \in Conn \cup {Loop, NoConn}
      /\ th[t].kind \in Requests \cup {"-"} /\ th[t].rc \in {"-", "SUCCESS", "FAILURE", "FAILED", "PARTLY"}
      /\ th[t].fd \in 0 .. Cardinality(Conn)
  BY ThreadFields
<1> HIDE DEF x
<1>4. x \in Threads
  BY <1>0, <1>1, <1>3, EditedThread, ZenonT(60)
<1>5. x.pc = p /\ x.conn = th[t].conn /\ x.kind = th[t].kind /\ x.rc = r /\ x.fd = th[t].fd
  BY <1>1
<1>6. Turn(t, x.pc, x.conn, x.kind, x.rc, x.fd)
  BY <1>2, <1>4, TurnRecord
<1> QED  BY <1>5, <1>6

LEMMA TurnPcFd ==
    ASSUME th \in [Thread -> Threads], NEW t \in Thread, NEW p \in Pc,
           NEW f \in 0 .. Cardinality(Conn),
           th' = [th EXCEPT ![t].pc = p, ![t].fd = f]
    PROVE  Turn(t, p, th[t].conn, th[t].kind, th[t].rc, f)
<1> DEFINE x == [th[t] EXCEPT !.pc = p, !.fd = f]
<1>0. th[t] \in Threads
  OBVIOUS
<1>7. th[t] = [pc |-> th[t].pc, conn |-> th[t].conn, core |-> th[t].core, kind |-> th[t].kind, rc |-> th[t].rc,
               fd |-> th[t].fd]
  BY <1>0, ThreadFields
<1> DEFINE y == [th[t] EXCEPT !.pc = p]
<1>8. y = [pc |-> p, conn |-> th[t].conn, core |-> th[t].core, kind |-> th[t].kind, rc |-> th[t].rc,
           fd |-> th[t].fd]
  BY <1>7
<1>9. x = [y EXCEPT !.fd = f]
  OBVIOUS
<1> HIDE DEF x, y
<1>1. x = [pc |-> p, conn |-> th[t].conn, core |-> th[t].core, kind |-> th[t].kind, rc |-> th[t].rc, fd |-> f]
  BY <1>8, <1>9
<1>2. th' = [th EXCEPT ![t] = x]
  BY DEF x
<1>3. /\ th[t].pc \in Pc /\ th[t].conn \in Conn \cup {Loop, NoConn}
      /\ th[t].kind \in Requests \cup {"-"} /\ th[t].rc \in {"-", "SUCCESS", "FAILURE", "FAILED", "PARTLY"}
      /\ th[t].fd \in 0 .. Cardinality(Conn)
  BY ThreadFields
<1> HIDE DEF x
<1>4. x \in Threads
  BY <1>0, <1>1, <1>3, EditedThread, ZenonT(60)
<1>5. x.pc = p /\ x.conn = th[t].conn /\ x.kind = th[t].kind /\ x.rc = th[t].rc /\ x.fd = f
  BY <1>1
<1>6. Turn(t, x.pc, x.conn, x.kind, x.rc, x.fd)
  BY <1>2, <1>4, TurnRecord
<1> QED  BY <1>5, <1>6

(* A pool that has not reached its limit has a thread to start, and a client *)
(* that is accepted a number to take.                                        *)
LEMMA FreeThread ==
    ASSUME th \in [Thread -> Threads], pool_size < MaxPool
    PROVE  LET t == Min({u \in Thread : th[u].pc = "none"})
           IN t \in Thread /\ th[t].pc = "none"
<1> DEFINE S == {u \in Thread : th[u].pc = "none"}
           n == IF MaxPool > Cardinality(Conn) THEN MaxPool ELSE Cardinality(Conn)
<1>1. n \in Nat /\ n >= MaxPool /\ MaxPool \in Nat /\ Thread = 1 .. n
  BY CardConn, ServerAssumption DEF Thread
<1> HIDE DEF n
<1>2. S # {}
  <2> SUFFICES ASSUME S = {} PROVE FALSE
    OBVIOUS
  <2>1. {t \in Thread : th[t].pc # "none"} = Thread
    OBVIOUS
  <2>2. pool_size = Cardinality(1 .. n)
    BY <1>1, <2>1 DEF pool_size
  <2>3. Cardinality(1 .. n) = n
    BY <1>1, FS_Interval
  <2> QED  BY <1>1, <2>2, <2>3
<1>3. S \subseteq Nat
  BY <1>1
<1>4. \E x \in S : \A y \in S : x <= y
  BY <1>2, <1>3, NatLeast
<1>5. Min(S) \in S
  <2> HIDE DEF S
  <2> QED  BY <1>4 DEF Min
<1> QED  BY <1>5

LEMMA FreeNumber ==
    ASSUME fd \in [Conn -> 0 .. Cardinality(Conn)], NEW c \in Conn, fd[c] = 0
    PROVE  FreeFd \in 1 .. Cardinality(Conn) /\ \A d \in Conn : fd[d] # FreeFd
<1> DEFINE n == Cardinality(Conn)
           S == (1 .. n) \ {fd[d] : d \in Conn}
           f == [k \in 1 .. n |-> CHOOSE d \in Conn : fd[d] = k]
           T == Conn \ {c}
<1>1. n \in Nat /\ IsFiniteSet(Conn)
  BY CardConn, ServerAssumption
<1>2. FreeFd = Min(S)
  BY DEF FreeFd
<1>3. Cardinality(T) = n - 1 /\ IsFiniteSet(T)
  BY <1>1, FS_RemoveElement
<1>4. Cardinality(1 .. n) = n /\ IsFiniteSet(1 .. n)
  BY <1>1, FS_Interval
<1> HIDE DEF n
<1>5. S # {}
  <2> SUFFICES ASSUME S = {} PROVE FALSE
    OBVIOUS
  <2>1. ASSUME NEW k \in 1 .. n
        PROVE  f[k] \in T /\ fd[f[k]] = k
    <3>1. \E d \in Conn : fd[d] = k
      OBVIOUS
    <3>2. f[k] \in Conn /\ fd[f[k]] = k
      BY <3>1
    <3>3. k # 0
      BY <1>1
    <3> HIDE DEF f
    <3> QED  BY <3>2, <3>3
  <2>2. f = [k \in 1 .. n |-> f[k]]
    OBVIOUS
  <2> HIDE DEF f, T
  <2>3. f \in [1 .. n -> T]
    BY <2>1, <2>2
  <2>4. Cardinality(T) < Cardinality(1 .. n)
    BY <1>1, <1>3, <1>4
  <2> DEFINE I == 1 .. n
  <2>5. f \in [I -> T] /\ IsFiniteSet(I) /\ IsFiniteSet(T) /\ Cardinality(T) < Cardinality(I)
    BY <1>3, <1>4, <2>3, <2>4
  <2>6. \E x, y \in I : x # y /\ f[x] = f[y]
    <3> HIDE DEF I
    <3> QED  BY <2>5, FS_PigeonHole
  <2> QED  BY <2>1, <2>6
<1>6. S \subseteq Nat
  BY <1>1
<1>7. \E x \in S : \A y \in S : x <= y
  BY <1>5, <1>6, NatLeast
<1>8. Min(S) \in S
  <2> HIDE DEF S
  <2> QED  BY <1>7 DEF Min
<1> QED  BY <1>2, <1>8 DEF n

-----------------------------------------------------------------------------
(* Every variable keeps its type, and what each step does to the threads.    *)
LEMMA ScenarioFields ==
    ASSUME scen \in Scenarios
    PROVE  /\ scen.handling \in {"one-thread", "pool", "cli"} /\ scen.protocol \in {"plain", "mysql", "cli"}
           /\ scen.handling = "cli" <=> scen.protocol = "cli"
           /\ scen.kit \in {"mvcc", "vacuous"} /\ scen.quota \in [Conn -> Nat]
           /\ scen.kinds \in [Conn -> SUBSET Requests]
  BY ServerAssumption

LEMMA TypesTurn ==
    ASSUME Types, th' \in [Thread -> Threads], UNCHANGED <<scen, mainVars, netVars, running, poolVars>>
    PROVE  Types'
  BY DEF Types, mainVars, netVars, poolVars

LEMMA FreeDo ==
    ASSUME Types, NEW t \in Thread,
           RunTask(t) \/ PopNothing(t) \/ TryAgain(t) \/ Expire(t)
    PROVE  /\ Types' /\ UNCHANGED <<scen, mainVars, netVars, running, poolVars>>
           /\ Turn(t, th'[t].pc, th[t].conn, th[t].kind, th[t].rc, th[t].fd)
           /\ \/ th[t].pc = "got" /\ th'[t].pc = IF th[t].conn = Loop THEN "loop" ELSE "read"
              \/ th[t].pc = "idle" /\ th'[t].pc = "empty"
              \/ th[t].pc = "empty" /\ th'[t].pc \in {"idle", "leave"}
<1>0. th \in [Thread -> Threads]
  BY DEF Types
<1>1. PICK p \in Pc : /\ th' = [th EXCEPT ![t].pc = p]
                      /\ \/ th[t].pc = "got" /\ p = IF th[t].conn = Loop THEN "loop" ELSE "read"
                         \/ th[t].pc = "idle" /\ p = "empty"
                         \/ th[t].pc = "empty" /\ p \in {"idle", "leave"}
  <2>1. CASE RunTask(t)
    BY <2>1 DEF RunTask, Pc, Serving
  <2>2. CASE PopNothing(t)
    BY <2>2 DEF PopNothing, Pc, Free
  <2>3. CASE TryAgain(t)
    BY <2>3 DEF TryAgain, Pc, Free
  <2>4. CASE Expire(t)
    BY <2>4 DEF Expire, Pc, Free
  <2> QED  BY <2>1, <2>2, <2>3, <2>4
<1>2. UNCHANGED <<scen, mainVars, netVars, running, poolVars>>
  BY DEF RunTask, PopNothing, TryAgain, Expire
<1>3. Turn(t, p, th[t].conn, th[t].kind, th[t].rc, th[t].fd)
  BY <1>0, <1>1, TurnPc
<1>4. Types'
  BY <1>2, <1>3, TypesTurn DEF Turn
<1>5. th'[t].pc = p
  BY <1>3 DEF Turn
<1> QED  BY <1>1, <1>2, <1>3, <1>4, <1>5

LEMMA PollDo ==
    ASSUME Types, NEW t \in Thread,
           PollStopped(t) \/ PollError(t) \/ PollReady(t) \/ ReadClosed(t)
    PROVE  /\ Types' /\ UNCHANGED <<scen, mainVars, netVars, running, poolVars>>
           /\ Turn(t, th'[t].pc, th[t].conn, th[t].kind, th[t].rc, th[t].fd)
           /\ \/ th[t].pc \in {"poll", "read"} /\ th'[t].pc = "close"
              \/ th[t].pc = "poll" /\ th'[t].pc = "read"
<1>0. th \in [Thread -> Threads]
  BY DEF Types
<1>1. PICK p \in Pc : /\ th' = [th EXCEPT ![t].pc = p]
                      /\ \/ th[t].pc \in {"poll", "read"} /\ p = "close"
                         \/ th[t].pc = "poll" /\ p = "read"
  <2>1. CASE PollStopped(t) \/ PollError(t) \/ ReadClosed(t)
    BY <2>1 DEF PollStopped, PollError, ReadClosed, Pc, Serving
  <2>2. CASE PollReady(t)
    BY <2>2 DEF PollReady, Pc, Serving
  <2> QED  BY <2>1, <2>2
<1>2. UNCHANGED <<scen, mainVars, netVars, running, poolVars>>
  BY DEF PollStopped, PollError, PollReady, ReadClosed
<1>3. Turn(t, p, th[t].conn, th[t].kind, th[t].rc, th[t].fd)
  BY <1>0, <1>1, TurnPc
<1>4. Types'
  BY <1>2, <1>3, TypesTurn DEF Turn
<1>5. th'[t].pc = p
  BY <1>3 DEF Turn
<1> QED  BY <1>1, <1>2, <1>3, <1>4, <1>5

LEMMA LineDo ==
    ASSUME Types, CliNext \/ CliNoLine
    PROVE  /\ Types' /\ UNCHANGED <<scen, mainVars, netVars, running, poolVars>> /\ 1 \in Thread
           /\ Turn(1, th'[1].pc, th[1].conn, th[1].kind, th[1].rc, th[1].fd)
           /\ \/ th[1].pc = "line" /\ th'[1].pc = "read"
              \/ th[1].pc = "read" /\ th'[1].pc = "line"
<1>0. th \in [Thread -> Threads] /\ 1 \in Thread
  BY CardConn DEF Types
<1>1. PICK p \in Pc : /\ th' = [th EXCEPT ![1].pc = p]
                      /\ \/ th[1].pc = "line" /\ p = "read"
                         \/ th[1].pc = "read" /\ p = "line"
  BY DEF CliNext, CliNoLine, Pc, Serving
<1>2. UNCHANGED <<scen, mainVars, netVars, running, poolVars>>
  BY DEF CliNext, CliNoLine
<1>3. Turn(1, p, th[1].conn, th[1].kind, th[1].rc, th[1].fd)
  BY <1>0, <1>1, TurnPc
<1>4. Types'
  BY <1>2, <1>3, TypesTurn DEF Turn
<1>5. th'[1].pc = p
  BY <1>3 DEF Turn
<1> QED  BY <1>0, <1>1, <1>2, <1>3, <1>4, <1>5

LEMMA ExitDo ==
    ASSUME Types, NEW t \in Thread, ThreadExit(t)
    PROVE  /\ Types' /\ UNCHANGED <<scen, mainVars, netVars, running, poolVars>>
           /\ Turn(t, "none", NoConn, "-", "-", 0) /\ th[t].pc = "leave"
<1>1. /\ th \in [Thread -> Threads] /\ "none" \in Pc /\ th[t].pc = "leave"
      /\ UNCHANGED <<scen, mainVars, netVars, running, poolVars>>
  BY DEF Types, Pc, Free, ThreadExit
<1>2. th' = [th EXCEPT ![t] = ThreadOf("none", NoConn, FALSE)]
  BY NewThreads DEF ThreadExit
<1>3. Turn(t, "none", NoConn, "-", "-", 0)
  BY <1>1, <1>2, TurnNew
<1>4. Types'
  BY <1>1, <1>3, TypesTurn DEF Turn
<1> QED  BY <1>1, <1>3, <1>4

LEMMA LoopEndDo ==
    ASSUME Types, NEW t \in Thread, LoopEnd(t)
    PROVE  /\ Types' /\ UNCHANGED <<scen, mainVars, netVars, running, poolVars>>
           /\ Turn(t, "idle", NoConn, th[t].kind, th[t].rc, th[t].fd) /\ th[t].pc = "loop"
<1>1. /\ th \in [Thread -> Threads] /\ "idle" \in Pc /\ th[t].pc = "loop"
      /\ UNCHANGED <<scen, mainVars, netVars, running, poolVars>>
      /\ th' = [th EXCEPT ![t].pc = "idle", ![t].conn = NoConn]
  BY DEF Types, Pc, Free, LoopEnd
<1>2. Turn(t, "idle", NoConn, th[t].kind, th[t].rc, th[t].fd)
  BY <1>1, TurnPcConn
<1>3. Types'
  BY <1>1, <1>2, TypesTurn DEF Turn
<1> QED  BY <1>1, <1>2, <1>3

LEMMA PopDo ==
    ASSUME Types, NEW t \in Thread, Pop(t)
    PROVE  /\ Types' /\ UNCHANGED <<scen, mainVars, netVars, running, estate, armed, loopexit>>
           /\ Turn(t, "got", queue[1], th[t].kind, th[t].rc, th[t].fd) /\ th[t].pc = "idle"
           /\ 1 \in 1 .. Len(queue) /\ queue[1] \in Conn \cup {Loop} /\ Len(queue') = Len(queue) - 1
           /\ Len(queue) \in Nat /\ \A i \in 1 .. Len(queue') : queue'[i] = queue[i + 1] /\ i + 1 \in 1 .. Len(queue)
<1>1. /\ th \in [Thread -> Threads] /\ "got" \in Pc /\ th[t].pc = "idle" /\ queue \in Seq(Conn \cup {Loop}) /\ queue # <<>>
      /\ UNCHANGED <<scen, mainVars, netVars, running, estate, armed, loopexit>>
      /\ th' = [th EXCEPT ![t].pc = "got", ![t].conn = Head(queue)] /\ queue' = Tail(queue)
  BY DEF Types, Pc, Pop
<1>2. /\ Head(queue) = queue[1] /\ 1 \in 1 .. Len(queue) /\ queue[1] \in Conn \cup {Loop} /\ Len(queue) \in Nat
      /\ Len(queue') = Len(queue) - 1 /\ queue' \in Seq(Conn \cup {Loop})
      /\ \A i \in 1 .. Len(queue') : queue'[i] = queue[i + 1] /\ i + 1 \in 1 .. Len(queue)
  BY <1>1
<1>3. Turn(t, "got", queue[1], th[t].kind, th[t].rc, th[t].fd)
  BY <1>1, <1>2, TurnPcConn
<1>4. Types'
  BY <1>1, <1>2, <1>3 DEF Types, Turn, mainVars, netVars
<1> QED  BY <1>1, <1>2, <1>3, <1>4

LEMMA DispatchDo ==
    ASSUME Types, NEW t \in Thread, NEW c \in Conn, LoopDispatch(t, c)
    PROVE  /\ Types' /\ UNCHANGED <<scen, mainVars, netVars, running, estate, queue, loopexit>>
           /\ armed' = armed \ {c} /\ c \in armed /\ th[t].pc = "loop"
           /\ estate = "RUNNING" => Turn(t, "push", c, th[t].kind, th[t].rc, th[t].fd)
           /\ estate # "RUNNING" => th' = th
<1>1. /\ th \in [Thread -> Threads] /\ "push" \in Pc /\ th[t].pc = "loop"
      /\ UNCHANGED <<scen, mainVars, netVars, running, estate, queue, loopexit>>
      /\ armed' = armed \ {c} /\ c \in armed
      /\ th' = IF estate = "RUNNING" THEN [th EXCEPT ![t].pc = "push", ![t].conn = c] ELSE th
  BY DEF Types, Pc, Serving, LoopDispatch, Fire
<1>2. ASSUME estate = "RUNNING" PROVE Turn(t, "push", c, th[t].kind, th[t].rc, th[t].fd)
  BY <1>1, <1>2, TurnPcConn
<1>3. th' \in [Thread -> Threads]
  BY <1>1, <1>2 DEF Turn
<1>4. Types'
  BY <1>1, <1>3 DEF Types, mainVars, netVars
<1> QED  BY <1>1, <1>2, <1>4

LEMMA PushDo ==
    ASSUME Types, NEW t \in Thread, LoopPush(t), th[t].conn \in Conn
    PROVE  /\ Types' /\ UNCHANGED <<scen, mainVars, netVars, running, estate, armed, loopexit>>
           /\ Turn(t, "count", th[t].conn, th[t].kind, th[t].rc, th[t].fd) /\ th[t].pc = "push"
           /\ Len(queue) \in Nat /\ Len(queue') = Len(queue) + 1 /\ queue'[Len(queue) + 1] = th[t].conn
           /\ \A i \in 1 .. Len(queue) : queue'[i] = queue[i]
<1>1. /\ th \in [Thread -> Threads] /\ "count" \in Pc /\ th[t].pc = "push" /\ queue \in Seq(Conn \cup {Loop})
      /\ UNCHANGED <<scen, mainVars, netVars, running, estate, armed, loopexit>>
      /\ th' = [th EXCEPT ![t].pc = "count"] /\ queue' = Append(queue, th[t].conn)
  BY DEF Types, Pc, LoopPush
<1>2. /\ queue' \in Seq(Conn \cup {Loop}) /\ Len(queue) \in Nat /\ Len(queue') = Len(queue) + 1
      /\ queue'[Len(queue) + 1] = th[t].conn /\ \A i \in 1 .. Len(queue) : queue'[i] = queue[i]
  BY <1>1
<1>3. Turn(t, "count", th[t].conn, th[t].kind, th[t].rc, th[t].fd)
  BY <1>1, TurnPc
<1>4. Types'
  BY <1>1, <1>2, <1>3 DEF Types, Turn, mainVars, netVars
<1> QED  BY <1>1, <1>2, <1>3, <1>4

LEMMA SubmitDo ==
    ASSUME Types, SubmitLoop
    PROVE  /\ Types' /\ UNCHANGED <<scen, started, signalled, dbUp, netVars, running, th, estate, armed, loopexit>>
           /\ main = "submit" /\ main' = "count"
           /\ Len(queue) \in Nat /\ Len(queue') = Len(queue) + 1 /\ queue'[Len(queue) + 1] = Loop
           /\ \A i \in 1 .. Len(queue) : queue'[i] = queue[i]
<1>1. /\ queue \in Seq(Conn \cup {Loop}) /\ main = "submit" /\ main' = "count"
      /\ UNCHANGED <<scen, started, signalled, dbUp, netVars, running, th, estate, armed, loopexit>>
      /\ queue' = Append(queue, Loop)
  BY DEF Types, SubmitLoop
<1>2. /\ queue' \in Seq(Conn \cup {Loop}) /\ Len(queue) \in Nat /\ Len(queue') = Len(queue) + 1
      /\ queue'[Len(queue) + 1] = Loop /\ \A i \in 1 .. Len(queue) : queue'[i] = queue[i]
  BY <1>1
<1>3. main' \in PoolMain
  BY <1>1 DEF PoolMain
<1>4. Types'
  BY <1>1, <1>2, <1>3 DEF Types, netVars
<1> QED  BY <1>1, <1>2, <1>4

(* A thread may have been started.                                           *)
Grown(u) ==
    \/ th'[u] = th[u]
    \/ /\ th[u].pc = "none" /\ th'[u].pc = "idle" /\ th'[u].conn = NoConn
       /\ th'[u].kind = "-" /\ th'[u].rc = "-" /\ th'[u].fd = 0

LEMMA GrowDo ==
    ASSUME th \in [Thread -> Threads], NEW b \in BOOLEAN, pool_size < MaxPool,
           LET t == Min({u \in Thread : th[u].pc = "none"})
           IN th' = [th EXCEPT ![t] = ThreadOf("idle", NoConn, b)]
    PROVE  th' \in [Thread -> Threads] /\ \A u \in Thread : Grown(u)
<1> DEFINE t == Min({u \in Thread : th[u].pc = "none"})
<1>1. t \in Thread /\ th[t].pc = "none"
  BY FreeThread
<1>2. th' = [th EXCEPT ![t] = ThreadOf("idle", NoConn, b)] /\ "idle" \in Pc
  BY DEF Pc, Free
<1> HIDE DEF t
<1>3. Turn(t, "idle", NoConn, "-", "-", 0)
  BY <1>1, <1>2, TurnNew
<1> QED  BY <1>1, <1>3 DEF Turn, Grown

LEMMA CreateDo ==
    ASSUME Types, CreateCore
    PROVE  /\ Types' /\ UNCHANGED <<scen, mainVars, netVars, running, poolVars>> /\ main = "create"
           /\ \A u \in Thread : Grown(u)
<1>1. /\ th \in [Thread -> Threads] /\ UNCHANGED <<scen, mainVars, netVars, running, poolVars>> /\ main = "create"
      /\ pool_size < CorePool /\ create_thread(TRUE)
  BY DEF Types, CreateCore
<1>2. pool_size < MaxPool
  <2>1. pool_size \in Nat
    <3>1. \E n \in Nat : Thread = 1 .. n
      BY CardConn, ServerAssumption DEF Thread
    <3>2. IsFiniteSet(Thread)
      BY <3>1, FS_Interval
    <3>3. {t \in Thread : th[t].pc # "none"} \in SUBSET Thread
      OBVIOUS
    <3> QED  BY <3>2, <3>3, FS_Subset, FS_CardinalityType DEF pool_size
  <2> QED  BY <1>1, <2>1, ServerAssumption
<1>3. LET t == Min({u \in Thread : th[u].pc = "none"})
      IN th' = [th EXCEPT ![t] = ThreadOf("idle", NoConn, TRUE)]
  <2>1. [NoThread EXCEPT !.pc = "idle", !.core = TRUE] = ThreadOf("idle", NoConn, TRUE)
    BY NewThreads, Zenon
  <2> QED  BY <1>1, <2>1, Zenon DEF create_thread
<1>4. th' \in [Thread -> Threads] /\ \A u \in Thread : Grown(u)
  BY <1>1, <1>2, <1>3, GrowDo
<1>5. Types'
  BY <1>1, <1>4, TypesTurn
<1> QED  BY <1>1, <1>4, <1>5

LEMMA ExtendForLoopDo ==
    ASSUME Types, ExtendForLoop
    PROVE  /\ Types' /\ UNCHANGED <<scen, started, signalled, dbUp, netVars, running, poolVars>>
           /\ main = "count" /\ main' = "listen" /\ \A u \in Thread : Grown(u)
<1>1. /\ th \in [Thread -> Threads] /\ UNCHANGED <<scen, started, signalled, dbUp, netVars, running, poolVars>>
      /\ main = "count" /\ main' = "listen" /\ extend_thread(th)
  BY DEF Types, ExtendForLoop
<1>2. th' \in [Thread -> Threads] /\ \A u \in Thread : Grown(u)
  <2>1. CASE Len(queue) > pool_size - active_count /\ pool_size < MaxPool
    <3>1. LET t == Min({u \in Thread : th[u].pc = "none"})
          IN th' = [th EXCEPT ![t] = ThreadOf("idle", NoConn, FALSE)]
      BY <1>1, <2>1, NewThreads DEF extend_thread
    <3> QED  BY <1>1, <2>1, <3>1, GrowDo
  <2>2. CASE ~(Len(queue) > pool_size - active_count /\ pool_size < MaxPool)
    <3>1. th' = th
      BY <1>1, <2>2 DEF extend_thread
    <3> QED  BY <1>1, <3>1 DEF Grown
  <2> QED  BY <2>1, <2>2
<1>3. main' \in PoolMain
  BY <1>1 DEF PoolMain
<1>4. Types'
  BY <1>1, <1>2, <1>3 DEF Types, netVars, poolVars
<1> QED  BY <1>1, <1>2, <1>4

LEMMA ExtendDo ==
    ASSUME Types, NEW t \in Thread, LoopExtend(t)
    PROVE  /\ Types' /\ UNCHANGED <<scen, mainVars, netVars, running, poolVars>>
           /\ th[t].pc = "count" /\ th'[t].pc = "loop" /\ th'[t].conn = Loop /\ th'[t].fd = th[t].fd
           /\ \A u \in Thread : u # t => Grown(u)
<1> DEFINE x == [th EXCEPT ![t].pc = "loop", ![t].conn = Loop]
           w == Min({u \in Thread : th[u].pc = "none"})
<1>1. /\ th \in [Thread -> Threads] /\ UNCHANGED <<scen, mainVars, netVars, running, poolVars>>
      /\ th[t].pc = "count" /\ "loop" \in Pc /\ "idle" \in Pc
      /\ th' = IF Len(queue) > pool_size - active_count /\ pool_size < MaxPool
               THEN [x EXCEPT ![w] = [NoThread EXCEPT !.pc = "idle"]] ELSE x
  BY DEF Types, Pc, Free, LoopExtend, extend_thread
<1> DEFINE y == [pc |-> "loop", conn |-> Loop, core |-> th[t].core, kind |-> th[t].kind, rc |-> th[t].rc, fd |-> th[t].fd]
<1>2. x = [th EXCEPT ![t] = y]
  <2>1. x = [th EXCEPT ![t] = [th[t] EXCEPT !.pc = "loop", !.conn = Loop]]
    OBVIOUS
  <2>2. th[t] \in Threads
    BY <1>1
  <2>3. [th[t] EXCEPT !.pc = "loop", !.conn = Loop] = y
    BY <2>2, EditThread, Zenon
  <2> QED  BY <2>1, <2>3
<1>3. y \in Threads /\ y.pc = "loop" /\ y.conn = Loop /\ y.fd = th[t].fd
  <2>1. th[t] \in Threads
    BY <1>1
  <2>2. y \in Threads
    <3>1. /\ "loop" \in Pc /\ Loop \in Conn \cup {Loop, NoConn} /\ th[t].kind \in Requests \cup {"-"}
          /\ th[t].rc \in {"-", "SUCCESS", "FAILURE", "FAILED", "PARTLY"} /\ th[t].fd \in 0 .. Cardinality(Conn)
      BY <1>1, <2>1, ThreadFields
    <3> QED  BY <2>1, <3>1, EditedThread, Zenon
  <2> QED  BY <2>2
<1> HIDE DEF x, y
<1>4. /\ x \in [Thread -> Threads] /\ x[t].pc = "loop" /\ x[t].conn = Loop /\ x[t].fd = th[t].fd
      /\ \A u \in Thread : u # t => x[u] = th[u]
  BY <1>1, <1>2, <1>3
<1>5. /\ th' \in [Thread -> Threads] /\ th'[t] = x[t]
      /\ \A u \in Thread : u # t => Grown(u)
  <2>1. CASE Len(queue) > pool_size - active_count /\ pool_size < MaxPool
    <3>1. w \in Thread /\ th[w].pc = "none" /\ w # t
      BY <1>1, <2>1, FreeThread
    <3> DEFINE z == ThreadOf("idle", NoConn, FALSE)
    <3>2. th' = [x EXCEPT ![w] = z]
      BY <1>1, <2>1, NewThreads
    <3>3. 0 \in 0 .. Cardinality(Conn)
      BY CardConn
    <3>4. z \in Threads
      BY <1>1, <3>3, ThreadRecord DEF ThreadOf
    <3>5. z.pc = "idle" /\ z.conn = NoConn /\ z.kind = "-" /\ z.rc = "-" /\ z.fd = 0
      BY DEF ThreadOf
    <3> HIDE DEF z, w
    <3> QED  BY <1>4, <3>1, <3>2, <3>4, <3>5 DEF Grown
  <2>2. CASE ~(Len(queue) > pool_size - active_count /\ pool_size < MaxPool)
    <3>1. th' = x
      BY <1>1, <2>2
    <3> QED  BY <1>4, <3>1 DEF Grown
  <2> QED  BY <2>1, <2>2
<1>6. Types'
  BY <1>1, <1>5, TypesTurn
<1> QED  BY <1>1, <1>4, <1>5, <1>6

(* What follows a request: the connection is given up, or it waits for the   *)
(* next one with the event loop, its worker or the command line.             *)
Onward(t, c) ==
    IF Pooled THEN Turn(t, "idle", NoConn, "-", "-", 0) /\ armed' = armed \cup {c}
    ELSE Turn(t, IF scen.handling = "cli" THEN "line" ELSE "poll", c, "-", "-", 0) /\ armed' = armed
GivesUp(t, c) == Turn(t, "close", c, th[t].kind, th[t].rc, th[t].fd) /\ armed' = armed

LEMMA HandledDo ==
    ASSUME th \in [Thread -> Threads], NEW t \in Thread, NEW c \in Conn, th[t].conn = c, HandledWell(t)
    PROVE  Onward(t, c)
<1>1. "idle" \in Pc /\ "line" \in Pc /\ "poll" \in Pc
  BY DEF Pc, Free, Serving
<1>2. CASE Pooled
  <2>1. th' = [th EXCEPT ![t] = [Rest EXCEPT !.core = th[t].core]] /\ armed' = armed \cup {c}
    BY <1>2 DEF HandledWell
  <2>2. th' = [th EXCEPT ![t] = ThreadOf("idle", NoConn, th[t].core)] /\ th[t].core \in BOOLEAN
    BY <2>1, NewThreads, ThreadFields
  <2>3. Turn(t, "idle", NoConn, "-", "-", 0)
    BY <1>1, <2>2, TurnNew
  <2> QED  BY <1>2, <2>1, <2>3 DEF Onward
<1>3. CASE ~Pooled
  <2> DEFINE p == IF scen.handling = "cli" THEN "line" ELSE "poll"
  <2>1. th' = [th EXCEPT ![t] = [NoThread EXCEPT !.pc = p, !.conn = c]] /\ armed' = armed
    BY <1>3 DEF HandledWell
  <2>2. p \in Pc
    BY <1>1
  <2> HIDE DEF p
  <2>3. th' = [th EXCEPT ![t] = ThreadOf(p, c, FALSE)]
    BY <2>1, NewThreads
  <2>4. Turn(t, p, c, "-", "-", 0)
    BY <2>2, <2>3, TurnNew
  <2> QED  BY <1>3, <2>1, <2>4 DEF Onward, p
<1> QED  BY <1>2, <1>3

(* The outcome of the request of c that was sent last is recorded.           *)
Says(c, v) == said' = [said EXCEPT ![c][client[c].sent][2] = v]

LEMMA SaidDo ==
    ASSUME Types, NEW c \in Conn, NEW v \in {"-", "SUCCESS", "FAILURE", "CUT"}, Says(c, v)
    PROVE  /\ said' = [d \in Conn |-> said'[d]] /\ \A d \in Conn : said'[d] \in [1 .. scen.quota[d] -> Saying]
           /\ \A d \in Conn : d # c => said'[d] = said[d]
           /\ \A n \in 1 .. scen.quota[c] :
                 said'[c][n] = IF n = client[c].sent THEN <<said[c][n][1], v>> ELSE said[c][n]
<1>1. /\ scen \in Scenarios /\ said = [d \in Conn |-> said[d]]
      /\ \A d \in Conn : said[d] \in [1 .. scen.quota[d] -> Saying]
  BY DEF Types
<1> DEFINE s == said[c]
           k == client[c].sent
           q == scen.quota[c]
           z == [s EXCEPT ![k][2] = v]
<1>2. s \in [1 .. q -> Saying] /\ q \in Nat
  BY <1>1, ScenarioFields
<1>3. said' = [said EXCEPT ![c] = z]
  BY DEF Says
<1> HIDE DEF s, k, q
<1>4. /\ z \in [1 .. q -> Saying]
      /\ \A m \in 1 .. q : z[m] = IF m = k THEN <<s[k][1], v>> ELSE s[m]
  <2>1. ASSUME NEW m \in 1 .. q
        PROVE  [s[m] EXCEPT ![2] = v] = <<s[m][1], v>> /\ <<s[m][1], v>> \in Saying
    <3>1. s[m] \in Saying
      BY <1>2
    <3> QED  BY <3>1 DEF Saying
  <2>2. z = [m \in 1 .. q |-> IF m = k THEN [s[m] EXCEPT ![2] = v] ELSE s[m]]
    BY <1>2
  <2>3. z = [m \in 1 .. q |-> IF m = k THEN <<s[m][1], v>> ELSE s[m]]
    BY <2>1, <2>2
  <2> HIDE DEF z
  <2> QED  BY <1>2, <2>1, <2>3
<1> HIDE DEF z
<1>5. said' = [d \in Conn |-> said'[d]] /\ said'[c] = z /\ \A d \in Conn : d # c => said'[d] = said[d]
  BY <1>1, <1>3
<1>6. \A d \in Conn : said'[d] \in [1 .. scen.quota[d] -> Saying]
  BY <1>1, <1>4, <1>5 DEF q
<1>7. \A n \in 1 .. scen.quota[c] :
         said'[c][n] = IF n = client[c].sent THEN <<said[c][n][1], v>> ELSE said[c][n]
  BY <1>4, <1>5 DEF q, s, k
<1> QED  BY <1>5, <1>6, <1>7

LEMMA ClientMsg ==
    ASSUME NEW cl \in Client, NEW m \in Requests \cup {"none", "half"}
    PROVE  LET y == [cl EXCEPT !.msg = m]
           IN /\ y \in Client /\ y.msg = m /\ y.sent = cl.sent /\ y.bad = cl.bad /\ y.gone = cl.gone
              /\ y.got = cl.got
  BY DEF Client

LEMMA UpBoolean ==
    ASSUME NEW c, NEW up \in Up(c)
    PROVE  up \in BOOLEAN /\ (~client[c].gone => up)
  BY DEF Up

(* Bytes are written to the socket of c, whose client was cl.                *)
Wrote(c, cl, bytes) ==
    \E up \in Up(c) :
       /\ client' = [client EXCEPT ![c] = Deliver(cl, c, Send(ring[c], bytes, up).out)]
       /\ ring' = [ring EXCEPT ![c] = Send(ring[c], bytes, up).ring]

LEMMA WroteDo ==
    ASSUME Types, NEW c \in Conn, NEW cl \in Client, cl.sent = client[c].sent, NEW bytes \in Seq(Byte),
           Wrote(c, cl, bytes)
    PROVE  /\ client' \in [Conn -> Client] /\ \A d \in Conn : client'[d].sent = client[d].sent
           /\ client'[c].msg = cl.msg /\ client'[c].gone = cl.gone
           /\ ring' \in [Conn -> Ring]
           /\ \A d \in Conn : d # c => client'[d] = client[d] /\ ring'[d] = ring[d]
<1>1. PICK up \in Up(c) :
         /\ client' = [client EXCEPT ![c] = Deliver(cl, c, Send(ring[c], bytes, up).out)]
         /\ ring' = [ring EXCEPT ![c] = Send(ring[c], bytes, up).ring]
  BY DEF Wrote
<1> DEFINE v == Send(ring[c], bytes, up)
<1>2. up \in BOOLEAN /\ ring \in [Conn -> Ring] /\ client \in [Conn -> Client]
  BY UpBoolean DEF Types
<1>3. v \in Writers
  BY <1>2, SendExact
<1> HIDE DEF v
<1>4. v.out \in Seq(Byte) /\ v.ring \in Ring
  BY <1>3, WriterFields
<1> DEFINE d0 == Deliver(cl, c, v.out)
<1>5. d0 \in Client /\ d0.msg = cl.msg /\ d0.sent = cl.sent /\ d0.gone = cl.gone
  BY <1>4, DeliverClient
<1>6. client' = [client EXCEPT ![c] = d0] /\ ring' = [ring EXCEPT ![c] = v.ring]
  BY <1>1 DEF v
<1> HIDE DEF d0
<1>7. client' \in [Conn -> Client] /\ client'[c] = d0 /\ \A d \in Conn : d # c => client'[d] = client[d]
  BY <1>2, <1>5, <1>6
<1>8. ring' \in [Conn -> Ring] /\ \A d \in Conn : d # c => ring'[d] = ring[d]
  BY <1>2, <1>4, <1>6
<1> QED  BY <1>5, <1>7, <1>8

LEMMA RequestDo ==
    ASSUME Types, NEW t \in Thread, NEW c \in Conn, th[t].conn = c, ReadRequest(t)
    PROVE  /\ Types' /\ UNCHANGED <<scen, mainVars, conn, fd, ring, sess, said, running, poolVars>>
           /\ th[t].pc = "read" /\ client[c].msg \in Kinds \cup {"VERSION"}
           /\ Turn(t, "handle", c, client[c].msg, th[t].rc, th[t].fd)
           /\ \A d \in Conn : d # c => client'[d] = client[d]
           /\ client'[c].msg = "none" /\ client'[c].sent = client[c].sent /\ client'[c].bad = client[c].bad
           /\ client'[c].gone = client[c].gone /\ client'[c].got = client[c].got
<1>1. /\ th \in [Thread -> Threads] /\ "handle" \in Pc /\ client \in [Conn -> Client]
      /\ UNCHANGED <<scen, mainVars, conn, fd, ring, sess, said, running, poolVars>>
      /\ th[t].pc = "read" /\ client[c].msg \in Requests \ {"AUTH", "OTHER", "EXIT"}
      /\ client' = [client EXCEPT ![c].msg = "none"]
      /\ th' = [th EXCEPT ![t].pc = "handle", ![t].kind = client[c].msg]
  BY DEF Types, Pc, Serving, ReadRequest
<1>2. client[c].msg \in Kinds \cup {"VERSION"} /\ client[c].msg \in Requests \cup {"-"}
  BY <1>1 DEF Requests, MysqlOnly
<1>3. Turn(t, "handle", c, client[c].msg, th[t].rc, th[t].fd)
  BY <1>1, <1>2, TurnPcKind
<1> DEFINE y == [client[c] EXCEPT !.msg = "none"]
<1>4. client' = [client EXCEPT ![c] = y]
  BY <1>1
<1>5. /\ y \in Client /\ y.msg = "none" /\ y.sent = client[c].sent /\ y.bad = client[c].bad
      /\ y.gone = client[c].gone /\ y.got = client[c].got
  BY <1>1, ClientMsg
<1> HIDE DEF y
<1>6. client' \in [Conn -> Client] /\ client'[c] = y /\ \A d \in Conn : d # c => client'[d] = client[d]
  BY <1>1, <1>4, <1>5
<1>7. \A d \in Conn : client'[d].sent = client[d].sent
  BY <1>5, <1>6
<1>8. Types'
  BY <1>1, <1>3, <1>6, <1>7 DEF Types, Turn, mainVars, poolVars
<1> QED  BY <1>1, <1>2, <1>3, <1>5, <1>6, <1>8

LEMMA CommandDo ==
    ASSUME Types, NEW t \in Thread, NEW c \in Conn, th[t].conn = c, ReadCommand(t)
    PROVE  /\ Types' /\ UNCHANGED <<scen, mainVars, conn, fd, sess, running, estate, queue, loopexit>>
           /\ th[t].pc = "read" /\ client[c].msg \in {"AUTH", "OTHER"}
           /\ Wrote(c, [client[c] EXCEPT !.msg = "none"], Answer(c, client[c].sent, 1, TRUE))
           /\ Onward(t, c) \/ GivesUp(t, c)
           /\ \A d \in Conn : d # c => said'[d] = said[d]
           /\ \A n \in 1 .. scen.quota[c] :
                 said'[c][n] = IF n = client[c].sent THEN <<said[c][n][1], "SUCCESS">> ELSE said[c][n]
<1> DEFINE cl == [client[c] EXCEPT !.msg = "none"]
           B == Answer(c, client[c].sent, 1, TRUE)
<1>1. /\ th \in [Thread -> Threads] /\ client \in [Conn -> Client] /\ scen \in Scenarios
      /\ \A d \in Conn : client[d].sent <= scen.quota[d]
      /\ UNCHANGED <<scen, mainVars, conn, fd, sess, running, estate, queue, loopexit>>
      /\ th[t].pc = "read" /\ client[c].msg \in {"AUTH", "OTHER"} /\ "close" \in Pc
      /\ said' = [said EXCEPT ![c][client[c].sent][2] = "SUCCESS"]
      /\ said = [d \in Conn |-> said[d]] /\ \A d \in Conn : said[d] \in [1 .. scen.quota[d] -> Saying]
  BY DEF Types, ReadCommand, Pc, Serving
<1>2. PICK up \in Up(c) :
         LET w == Send(ring[c], B, up)
         IN /\ client' = [client EXCEPT ![c] = Deliver([@ EXCEPT !.msg = "none"], c, w.out)]
            /\ ring' = [ring EXCEPT ![c] = w.ring]
            /\ IF w.rc = "SUCCESS" THEN HandledWell(t)
               ELSE th' = [th EXCEPT ![t].pc = "close"] /\ UNCHANGED armed
  BY Zenon DEF ReadCommand
<1>3. Wrote(c, cl, B)
  <2> HIDE DEF B
  <2>1. client' = [client EXCEPT ![c] = Deliver(cl, c, Send(ring[c], B, up).out)]
    BY <1>1, <1>2
  <2> QED  BY <1>2, <2>1 DEF Wrote
<1>4. Onward(t, c) \/ GivesUp(t, c)
  <2>1. CASE HandledWell(t)
    BY <1>1, <2>1, HandledDo
  <2>2. CASE th' = [th EXCEPT ![t].pc = "close"] /\ UNCHANGED armed
    BY <1>1, <2>2, TurnPc DEF GivesUp
  <2> QED  BY <1>2, <2>1, <2>2
<1>5. cl \in Client /\ cl.sent = client[c].sent /\ client[c].sent \in Nat
  <2>1. client[c] \in Client /\ "none" \in Requests \cup {"none", "half"}
    BY <1>1
  <2>2. cl \in Client /\ cl.sent = client[c].sent
    BY <2>1, ClientMsg, Zenon
  <2> QED  BY <2>1, <2>2, ClientFields
<1>6. B \in Seq(Byte)
  <2>1. c \in Int /\ client[c].sent \in Int /\ 1 \in Nat
    BY <1>5, CardConn
  <2> QED  BY <2>1, AnswerBytes, Zenon
<1> HIDE DEF cl, B
<1>7. client' \in [Conn -> Client] /\ ring' \in [Conn -> Ring] /\ \A d \in Conn : client'[d].sent = client[d].sent
  BY <1>3, <1>5, <1>6, WroteDo
<1>11. /\ said' = [d \in Conn |-> said'[d]] /\ \A d \in Conn : said'[d] \in [1 .. scen.quota[d] -> Saying]
       /\ \A d \in Conn : d # c => said'[d] = said[d]
       /\ \A n \in 1 .. scen.quota[c] :
             said'[c][n] = IF n = client[c].sent THEN <<said[c][n][1], "SUCCESS">> ELSE said[c][n]
  <2>1. Says(c, "SUCCESS")
    BY <1>1 DEF Says
  <2> QED  BY <2>1, SaidDo
<1>13. th' \in [Thread -> Threads] /\ armed' \in SUBSET Conn
  BY <1>4 DEF Onward, GivesUp, Turn, Types
<1>14. Types'
  BY <1>1, <1>7, <1>11, <1>13 DEF Types, mainVars
<1> QED  BY <1>1, <1>3, <1>4, <1>11, <1>14 DEF cl, B

LEMMA HandleDo ==
    ASSUME Types, NEW t \in Thread, NEW c \in Conn, th[t].conn = c, Handle(t), client[c].sent > 0,
           th[t].kind \in Kinds \cup {"VERSION"}
    PROVE  /\ Types' /\ UNCHANGED <<scen, mainVars, client, conn, fd, ring, said, running, poolVars>>
           /\ th[t].pc = "handle" /\ Turn(t, "answer", c, th[t].kind, th'[t].rc, th[t].fd)
           /\ th'[t].rc \in IF Runs(th[t].kind) THEN Opens(th[t].kind) ELSE {"SUCCESS", "FAILURE"}
           /\ ~Runs(th[t].kind) => th'[t].rc = execute(th[t].kind, sess[c], scen.kit).rc
           /\ \A d \in Conn : d # c => sess'[d] = sess[d]
           /\ sess'[c] = IF Runs(th[t].kind)
                         THEN OpenResult(sess[c], scen.kit, client[c].sent, th[t].kind, th'[t].rc)
                         ELSE execute(th[t].kind, sess[c], scen.kit).sess
<1> DEFINE k == th[t].kind
           n == client[c].sent
           q == scen.quota[c]
<1>1. /\ th \in [Thread -> Threads] /\ client \in [Conn -> Client] /\ scen \in Scenarios
      /\ client[c].sent <= scen.quota[c] /\ "answer" \in Pc
      /\ sess = [d \in Conn |-> sess[d]] /\ \A d \in Conn : sess[d] \in Sessions(scen.quota[d])
      /\ UNCHANGED <<scen, mainVars, client, conn, fd, ring, said, running, poolVars>>
      /\ th[t].pc = "handle"
  BY DEF Types, Handle, Pc, Serving
<1>2. q \in Nat /\ n \in 1 .. q /\ sess[c] \in Sessions(q)
  <2>1. q \in Nat /\ n \in Nat
    BY <1>1, ScenarioFields, ClientFields
  <2> QED  BY <1>1, <2>1
<1>3. PICK z \in Sessions(q), o \in {"SUCCESS", "FAILURE", "FAILED", "PARTLY"} :
         /\ sess' = [sess EXCEPT ![c] = z] /\ th' = [th EXCEPT ![t].pc = "answer", ![t].rc = o]
         /\ o \in IF Runs(k) THEN Opens(k) ELSE {"SUCCESS", "FAILURE"}
         /\ ~Runs(k) => o = execute(k, sess[c], scen.kit).rc
         /\ z = IF Runs(k) THEN OpenResult(sess[c], scen.kit, n, k, o) ELSE execute(k, sess[c], scen.kit).sess
  <2>1. CASE Runs(k)
    <3>1. PICK o \in Opens(k) : /\ sess' = [sess EXCEPT ![c] = OpenResult(sess[c], scen.kit, n, k, o)]
                                /\ th' = [th EXCEPT ![t].pc = "answer", ![t].rc = o]
      BY <1>1, <2>1 DEF Handle
    <3>2. OpenResult(sess[c], scen.kit, n, k, o) \in Sessions(q)
      <4> DEFINE s == sess[c]
                 kit == scen.kit
      <4>1. q \in Nat /\ n \in 1 .. q /\ s \in Sessions(q)
        BY <1>2
      <4> HIDE DEF k, n, q, s, kit
      <4>2. OpenResult(s, kit, n, k, o) \in Sessions(q)
        BY <4>1, OpenSession DEF Opened
      <4> QED  BY <4>2 DEF s, kit
    <3>3. o \in {"SUCCESS", "FAILURE", "FAILED", "PARTLY"}
      BY DEF Opens
    <3> HIDE DEF k, n, q
    <3> QED  BY <2>1, <3>1, <3>2, <3>3
  <2>2. CASE ~Runs(k)
    <3> DEFINE e == execute(k, sess[c], scen.kit)
    <3>1. sess' = [sess EXCEPT ![c] = e.sess] /\ th' = [th EXCEPT ![t].pc = "answer", ![t].rc = e.rc]
      BY <1>1, <2>2 DEF Handle
    <3>2. k \in Kinds
      BY <2>2 DEF Runs
    <3>3. e.sess \in Sessions(q) /\ e.rc \in {"SUCCESS", "FAILURE"}
      BY <1>2, <2>2, <3>2, ExecuteSession
    <3> HIDE DEF k, n, q, e
    <3> QED  BY <2>2, <3>1, <3>3 DEF e
  <2> QED  BY <2>1, <2>2
<1>4. Turn(t, "answer", c, k, o, th[t].fd)
  BY <1>1, <1>3, TurnPcRc
<1>5. sess' = [d \in Conn |-> sess'[d]] /\ sess'[c] = z /\ \A d \in Conn : d # c => sess'[d] = sess[d]
  BY <1>1, <1>3
<1>6. \A d \in Conn : sess'[d] \in Sessions(scen.quota[d])
  BY <1>1, <1>3, <1>5
<1>7. th'[t].rc = o /\ th' \in [Thread -> Threads]
  BY <1>4 DEF Turn
<1>8. Types'
  BY <1>1, <1>5, <1>6, <1>7 DEF Types, mainVars, poolVars
<1> QED  BY <1>1, <1>3, <1>4, <1>5, <1>7, <1>8

LEMMA ResultDo ==
    ASSUME Types, NEW t \in Thread, NEW c \in Conn, th[t].conn = c, WriteResult(t),
           ~Runs(th[t].kind) => th[t].rc \in {"SUCCESS", "FAILURE"}
    PROVE  LET r == write_result(scen.protocol, sess[c], c, client[c].sent, th[t].kind, th[t].rc)
           IN /\ Types' /\ UNCHANGED <<scen, mainVars, conn, fd, running, estate, queue, loopexit>>
              /\ th[t].pc = "answer" /\ Outcome(r, scen.protocol, sess[c], c, client[c].sent, th[t].kind, th[t].rc)
              /\ Wrote(c, client[c], r.bytes)
              /\ Onward(t, c) \/ GivesUp(t, c)
              /\ scen.protocol = "plain" /\ r.said = "CUT" => GivesUp(t, c)
              /\ \A d \in Conn : d # c => said'[d] = said[d] /\ sess'[d] = sess[d]
              /\ sess'[c] = r.sess
              /\ \A n \in 1 .. scen.quota[c] :
                    said'[c][n] = IF n = client[c].sent THEN <<said[c][n][1], r.said>> ELSE said[c][n]
<1> DEFINE r == write_result(scen.protocol, sess[c], c, client[c].sent, th[t].kind, th[t].rc)
<1>1. /\ th \in [Thread -> Threads] /\ client \in [Conn -> Client] /\ scen \in Scenarios /\ ring \in [Conn -> Ring]
      /\ \A d \in Conn : client[d].sent <= scen.quota[d]
      /\ sess = [d \in Conn |-> sess[d]] /\ \A d \in Conn : sess[d] \in Sessions(scen.quota[d])
      /\ UNCHANGED <<scen, mainVars, conn, fd, running, estate, queue, loopexit>>
      /\ th[t].pc = "answer" /\ "close" \in Pc
  BY DEF Types, WriteResult, Pc, Serving
<1>2. /\ sess' = [sess EXCEPT ![c] = r.sess]
      /\ said' = [said EXCEPT ![c][client[c].sent][2] = r.said]
  BY Zenon DEF WriteResult
<1>3. PICK up \in Up(c) :
         /\ client' = [client EXCEPT ![c] = Deliver(client[c], c, Send(ring[c], r.bytes, up).out)]
         /\ ring' = [ring EXCEPT ![c] = Send(ring[c], r.bytes, up).ring]
         /\ \E giveUp \in GiveUp(c, r, Send(ring[c], r.bytes, up)) :
               IF giveUp THEN th' = [th EXCEPT ![t].pc = "close"] /\ UNCHANGED armed
               ELSE HandledWell(t)
  BY Zenon DEF WriteResult
<1>4. Outcome(r, scen.protocol, sess[c], c, client[c].sent, th[t].kind, th[t].rc)
  <2>1. scen.protocol \in {"plain", "mysql", "cli"}
    BY <1>1, ScenarioFields
  <2> QED  BY <2>1, ResultOutcome, Zenon
<1> HIDE DEF r
<1>5. Wrote(c, client[c], r.bytes)
  BY <1>3 DEF Wrote
<1>6. ASSUME HandledWell(t) PROVE Onward(t, c)
  BY <1>1, <1>6, HandledDo
<1>7. ASSUME th' = [th EXCEPT ![t].pc = "close"] /\ UNCHANGED armed PROVE GivesUp(t, c)
  BY <1>1, <1>7, TurnPc DEF GivesUp
<1>8. Onward(t, c) \/ GivesUp(t, c)
  BY <1>3, <1>6, <1>7
<1>9. PICK len \in Nat \ {0} : r.bytes = Answer(c, client[c].sent, len, r.said # "CUT")
  BY <1>4 DEF Outcome
<1>10. r.bytes \in Seq(Byte)
  <2> DEFINE b == r.said # "CUT"
             n == client[c].sent
  <2>1. c \in Int /\ n \in Int /\ len \in Nat /\ b \in BOOLEAN
    BY <1>1, CardConn, ClientFields
  <2>2. r.bytes = Answer(c, n, len, b)
    BY <1>9
  <2> HIDE DEF b, n
  <2>3. Answer(c, n, len, b) \in Seq(Byte)
    BY <2>1, AnswerBytes, Zenon
  <2> QED  BY <2>2, <2>3, Zenon
<1>11. scen.protocol = "plain" /\ r.said = "CUT" => GivesUp(t, c)
  <2> SUFFICES ASSUME scen.protocol = "plain", r.said = "CUT"
               PROVE  GivesUp(t, c)
    OBVIOUS
  <2> DEFINE w == Send(ring[c], r.bytes, up)
  <2>1. r.cut = TRUE
    BY <1>4 DEF Outcome
  <2>2. \E giveUp \in GiveUp(c, r, w) :
           IF giveUp THEN th' = [th EXCEPT ![t].pc = "close"] /\ UNCHANGED armed
           ELSE HandledWell(t)
    BY <1>3
  <2> HIDE DEF w
  <2>3. GiveUp(c, r, w) = {TRUE}
    BY <2>1 DEF GiveUp
  <2> QED  BY <1>7, <2>2, <2>3
<1>12. r.said \in {"SUCCESS", "FAILURE", "CUT"} /\ r.sess \in {sess[c], CloseResult(sess[c])}
  BY <1>4 DEF Outcome
<1>13. scen.quota[c] \in Nat /\ sess[c] \in Sessions(scen.quota[c])
  BY <1>1, ScenarioFields
<1>14. r.sess \in Sessions(scen.quota[c])
  BY <1>12, <1>13, CloseSession
<1>15. /\ sess' = [d \in Conn |-> sess'[d]] /\ sess'[c] = r.sess /\ \A d \in Conn : d # c => sess'[d] = sess[d]
  BY <1>1, <1>2
<1>16. \A d \in Conn : sess'[d] \in Sessions(scen.quota[d])
  BY <1>1, <1>14, <1>15
<1>17. /\ said' = [d \in Conn |-> said'[d]] /\ \A d \in Conn : said'[d] \in [1 .. scen.quota[d] -> Saying]
       /\ \A d \in Conn : d # c => said'[d] = said[d]
       /\ \A n \in 1 .. scen.quota[c] :
             said'[c][n] = IF n = client[c].sent THEN <<said[c][n][1], r.said>> ELSE said[c][n]
  <2> DEFINE v == r.said
  <2>1. v \in {"-", "SUCCESS", "FAILURE", "CUT"} /\ Says(c, v)
    BY <1>2, <1>12 DEF Says
  <2> HIDE DEF v
  <2>2. /\ said' = [d \in Conn |-> said'[d]] /\ \A d \in Conn : said'[d] \in [1 .. scen.quota[d] -> Saying]
        /\ \A d \in Conn : d # c => said'[d] = said[d]
        /\ \A n \in 1 .. scen.quota[c] :
              said'[c][n] = IF n = client[c].sent THEN <<said[c][n][1], v>> ELSE said[c][n]
    BY <2>1, SaidDo
  <2> QED  BY <2>2 DEF v
<1>18. client' \in [Conn -> Client] /\ ring' \in [Conn -> Ring] /\ \A d \in Conn : client'[d].sent = client[d].sent
  BY <1>1, <1>5, <1>10, WroteDo
<1>19. th' \in [Thread -> Threads] /\ armed' \in SUBSET Conn
  BY <1>8 DEF Onward, GivesUp, Turn, Types
<1>20. Types'
  BY <1>1, <1>15, <1>16, <1>17, <1>18, <1>19 DEF Types, mainVars
<1> QED  BY <1>1, <1>4, <1>5, <1>8, <1>11, <1>15, <1>17, <1>20 DEF r

LEMMA EmptyRingType == EmptyRing \in Ring /\ EmptyRing.size = 0
<1>1. Capacity \in Nat \ {0} /\ 0 \in 0 .. Capacity /\ 0 \in 0 .. Capacity - 1
  BY CapacityAssumption
<1>2. NoByte \in Byte
  <2> DEFINE no == FALSE
  <2>1. NoByte = <<0, 0, 0, no>> /\ no \in BOOLEAN
    BY DEF NoByte
  <2> HIDE DEF no
  <2> QED  BY <2>1 DEF Byte
<1>3. [i \in 0 .. Capacity - 1 |-> NoByte] \in [0 .. Capacity - 1 -> Byte]
  BY <1>2
<1> QED  BY <1>1, <1>3 DEF EmptyRing, Ring

(* What a writer that is deleted sends is what is in its buffer.             *)
LEMMA LastFlush ==
    ASSUME NEW r \in Ring
    PROVE  LET w == flush(Writer(r), TRUE, Burst)
           IN /\ w.out \in Seq(Byte) /\ (r.size = 0 => w.out = <<>>)
              /\ \A c : OwnRing(r, c) => \A i \in 1 .. Len(w.out) : w.out[i][1] = c
<1> DEFINE w0 == Writer(r)
           w == flush(w0, TRUE, Burst)
<1>1. /\ w0 \in Writers /\ Total(w0) = r.size /\ r.size \in Nat
      /\ \A i \in Nat \ {0} : ByteOf(w0, i) = ByteAt(r, i - 1)
  BY NewWriter
<1> HIDE DEF w0
<1>2. w \in Writers /\ Keeps(w, w0) /\ Len(w.out) = Total(w0)
  BY <1>1, FlushAll
<1> HIDE DEF w
<1>3. w.out \in Seq(Byte) /\ Len(w.out) = r.size
  BY <1>1, <1>2, WriterFields
<1>4. r.size = 0 => w.out = <<>>
  BY <1>3
<1>5. ASSUME NEW c, OwnRing(r, c), NEW i \in 1 .. Len(w.out)
      PROVE  w.out[i][1] = c
  <2>1. i \in Nat \ {0} /\ i - 1 \in 0 .. r.size - 1 /\ i \in 1 .. Total(w0)
    BY <1>1, <1>3
  <2>2. ByteOf(w, i) = ByteOf(w0, i)
    BY <1>2, <2>1 DEF Keeps
  <2>3. ByteOf(w, i) = w.out[i]
    BY DEF ByteOf
  <2>4. ByteOf(w0, i) = ByteAt(r, i - 1)
    BY <1>1, <2>1
  <2> QED  BY <1>5, <2>1, <2>2, <2>3, <2>4 DEF OwnRing
<1> QED  BY <1>3, <1>4, <1>5 DEF w, w0

LEMMA EraseDo ==
    ASSUME Types, NEW t \in Thread, NEW c \in Conn, th[t].conn = c, CloseErase(t)
    PROVE  /\ Types' /\ UNCHANGED <<scen, mainVars, client, fd, ring, sess, said, running, poolVars>>
           /\ th[t].pc = "close" /\ Turn(t, "closefd", c, th[t].kind, th[t].rc, th[t].fd)
           /\ conn'[c] = "erased" /\ \A d \in Conn : d # c => conn'[d] = conn[d]
<1>1. /\ th \in [Thread -> Threads] /\ "closefd" \in Pc
      /\ UNCHANGED <<scen, mainVars, client, fd, ring, sess, said, running, poolVars>>
      /\ th[t].pc = "close" /\ th' = [th EXCEPT ![t].pc = "closefd"]
      /\ conn' = [conn EXCEPT ![c] = "erased"]
      /\ conn \in [Conn -> {"none", "pending", "open", "erased", "freed"}]
  BY DEF Types, Pc, Closing, CloseErase
<1>2. Turn(t, "closefd", c, th[t].kind, th[t].rc, th[t].fd)
  BY <1>1, TurnPc
<1>3. /\ conn' \in [Conn -> {"none", "pending", "open", "erased", "freed"}]
      /\ conn'[c] = "erased" /\ \A d \in Conn : d # c => conn'[d] = conn[d]
  BY <1>1
<1>4. Types'
  BY <1>1, <1>2, <1>3 DEF Types, Turn, mainVars, poolVars
<1> QED  BY <1>1, <1>2, <1>3, <1>4

LEMMA CloseFdDo ==
    ASSUME Types, NEW t \in Thread, NEW c \in Conn, th[t].conn = c, CloseFd(t)
    PROVE  /\ Types' /\ UNCHANGED <<scen, mainVars, client, conn, ring, sess, said, running, poolVars>>
           /\ th[t].pc = "closefd" /\ Turn(t, "delwriter", c, th[t].kind, th[t].rc, fd[c])
           /\ fd'[c] = 0 /\ \A d \in Conn : d # c => fd'[d] = fd[d]
<1>1. /\ th \in [Thread -> Threads] /\ "delwriter" \in Pc
      /\ UNCHANGED <<scen, mainVars, client, conn, ring, sess, said, running, poolVars>>
      /\ th[t].pc = "closefd" /\ th' = [th EXCEPT ![t].pc = "delwriter", ![t].fd = fd[c]]
      /\ fd' = [fd EXCEPT ![c] = 0]
      /\ fd \in [Conn -> 0 .. Cardinality(Conn)]
  BY DEF Types, Pc, Closing, CloseFd
<1>2. fd[c] \in 0 .. Cardinality(Conn) /\ 0 \in 0 .. Cardinality(Conn)
  BY <1>1, CardConn
<1>3. Turn(t, "delwriter", c, th[t].kind, th[t].rc, fd[c])
  BY <1>1, <1>2, TurnPcFd
<1>4. /\ fd' \in [Conn -> 0 .. Cardinality(Conn)] /\ fd'[c] = 0 /\ \A d \in Conn : d # c => fd'[d] = fd[d]
  BY <1>1, <1>2
<1>5. Types'
  BY <1>1, <1>3, <1>4 DEF Types, Turn, mainVars, poolVars
<1> QED  BY <1>1, <1>3, <1>4, <1>5

LEMMA DeleteWriterDo ==
    ASSUME Types, NEW t \in Thread, NEW c \in Conn, th[t].conn = c, DeleteWriter(t)
    PROVE  /\ Types' /\ UNCHANGED <<scen, mainVars, conn, fd, sess, said, running, poolVars>>
           /\ th[t].pc = "delwriter" /\ Turn(t, "delsession", c, th[t].kind, th[t].rc, 0)
           /\ ring'[c] = EmptyRing /\ \A d \in Conn : d # c => ring'[d] = ring[d]
           /\ \E out \in Seq(Byte) :
                 /\ ring[c].size = 0 => out = <<>>
                 /\ \A x : OwnRing(ring[c], x) => \A i \in 1 .. Len(out) : out[i][1] = x
                 /\ \A d \in Conn : client'[d] = IF fd[d] = th[t].fd THEN Deliver(client[d], d, out) ELSE client[d]
<1> DEFINE w == flush(Writer(ring[c]), TRUE, Burst)
           out == w.out
           D(d) == Deliver(client[d], d, out)
<1>1. /\ th \in [Thread -> Threads] /\ "delsession" \in Pc /\ client \in [Conn -> Client] /\ ring \in [Conn -> Ring]
      /\ UNCHANGED <<scen, mainVars, conn, fd, sess, said, running, poolVars>>
      /\ th[t].pc = "delwriter" /\ th' = [th EXCEPT ![t].pc = "delsession", ![t].fd = 0]
      /\ ring' = [ring EXCEPT ![c] = EmptyRing]
      /\ client' = [d \in Conn |-> IF d \in {e \in Conn : fd[e] = th[t].fd} THEN D(d) ELSE client[d]]
      /\ \A d \in Conn : client[d].sent <= scen.quota[d]
  BY DEF Types, Pc, Closing, DeleteWriter
<1>2. /\ out \in Seq(Byte) /\ (ring[c].size = 0 => out = <<>>)
      /\ \A x : OwnRing(ring[c], x) => \A i \in 1 .. Len(out) : out[i][1] = x
  BY <1>1, LastFlush
<1> HIDE DEF w, out
<1>3. \A d \in Conn : D(d) \in Client /\ D(d).sent = client[d].sent
  BY <1>1, <1>2, DeliverClient
<1> HIDE DEF D
<1>4. /\ client' \in [Conn -> Client] /\ \A d \in Conn : client'[d].sent = client[d].sent
      /\ \A d \in Conn : client'[d] = IF fd[d] = th[t].fd THEN D(d) ELSE client[d]
  BY <1>1, <1>3
<1>5. 0 \in 0 .. Cardinality(Conn)
  BY CardConn
<1>6. Turn(t, "delsession", c, th[t].kind, th[t].rc, 0)
  BY <1>1, <1>5, TurnPcFd
<1>7. ring' \in [Conn -> Ring] /\ ring'[c] = EmptyRing /\ \A d \in Conn : d # c => ring'[d] = ring[d]
  BY <1>1, EmptyRingType
<1>8. Types'
  BY <1>1, <1>4, <1>6, <1>7 DEF Types, Turn, mainVars, poolVars
<1> QED  BY <1>1, <1>2, <1>4, <1>6, <1>7, <1>8 DEF D

LEMMA DeleteSessionDo ==
    ASSUME Types, NEW t \in Thread, NEW c \in Conn, th[t].conn = c, DeleteSession(t)
    PROVE  /\ Types' /\ UNCHANGED <<scen, mainVars, client, fd, ring, said, running, poolVars>>
           /\ th[t].pc = "delsession" /\ Turn(t, IF Pooled THEN "idle" ELSE "none", NoConn, "-", "-", 0)
           /\ conn'[c] = "freed" /\ \A d \in Conn : d # c => conn'[d] = conn[d] /\ sess'[d] = sess[d]
           /\ sess'[c] = Destroyed(sess[c])
<1> DEFINE p == IF Pooled THEN "idle" ELSE "none"
           z == Destroyed(sess[c])
<1>1. /\ th \in [Thread -> Threads] /\ scen \in Scenarios
      /\ UNCHANGED <<scen, mainVars, client, fd, ring, said, running, poolVars>>
      /\ th[t].pc = "delsession" /\ conn' = [conn EXCEPT ![c] = "freed"]
      /\ conn \in [Conn -> {"none", "pending", "open", "erased", "freed"}]
      /\ sess = [d \in Conn |-> sess[d]] /\ \A d \in Conn : sess[d] \in Sessions(scen.quota[d])
      /\ sess' = [sess EXCEPT ![c] = z]
      /\ th' = [th EXCEPT ![t] = IF Pooled THEN [Rest EXCEPT !.core = th[t].core] ELSE NoThread]
  BY DEF Types, DeleteSession
<1>2. Turn(t, p, NoConn, "-", "-", 0)
  <2>1. "idle" \in Pc /\ "none" \in Pc /\ th[t].core \in BOOLEAN
    BY <1>1, ThreadFields DEF Pc, Free
  <2>2. CASE Pooled
    <3>1. th' = [th EXCEPT ![t] = ThreadOf("idle", NoConn, th[t].core)]
      BY <1>1, <2>2, NewThreads
    <3>2. Turn(t, "idle", NoConn, "-", "-", 0)
      BY <1>1, <2>1, <3>1, TurnNew
    <3> QED  BY <2>2, <3>2
  <2>3. CASE ~Pooled
    <3>1. th' = [th EXCEPT ![t] = ThreadOf("none", NoConn, FALSE)]
      BY <1>1, <2>3, NewThreads
    <3>2. Turn(t, "none", NoConn, "-", "-", 0)
      BY <1>1, <2>1, <3>1, TurnNew
    <3> QED  BY <2>3, <3>2
  <2> QED  BY <2>2, <2>3
<1>3. z \in Sessions(scen.quota[c])
  BY <1>1, ScenarioFields, DestroyedSession
<1> HIDE DEF z, p
<1>4. /\ conn' \in [Conn -> {"none", "pending", "open", "erased", "freed"}]
      /\ conn'[c] = "freed" /\ \A d \in Conn : d # c => conn'[d] = conn[d]
  BY <1>1
<1>5. sess' = [d \in Conn |-> sess'[d]] /\ sess'[c] = z /\ \A d \in Conn : d # c => sess'[d] = sess[d]
  BY <1>1
<1>6. \A d \in Conn : sess'[d] \in Sessions(scen.quota[d])
  BY <1>1, <1>3, <1>5
<1>7. Types'
  BY <1>1, <1>2, <1>4, <1>5, <1>6 DEF Types, Turn, mainVars, poolVars
<1> QED  BY <1>1, <1>2, <1>4, <1>5, <1>7 DEF z, p

(* The steps of the main thread that touch no connection.                    *)
MainOnly ==
    \/ PoolRunning \/ Listen \/ Serve \/ PollTimeout \/ StopWorkers \/ StopLoop \/ StopPool
    \/ Cleanup \/ Return \/ Signal

LEMMA MainDo ==
    ASSUME Types, MainOnly
    PROVE  Types' /\ UNCHANGED <<scen, netVars, th, queue, armed>>
<1>1. UNCHANGED <<scen, netVars, th, queue, armed>>
  BY DEF MainOnly, PoolRunning, Listen, Serve, PollTimeout, StopWorkers, StopLoop, StopPool, Cleanup, Return,
         Signal, poolVars
<1>2. running' \in [Conn -> BOOLEAN]
  <2>1. CASE StopWorkers
    <3>1. running' = [c \in Conn |-> running[c] /\ c \notin Told]
      BY <2>1 DEF StopWorkers
    <3>2. \A c \in Conn : (running[c] /\ c \notin Told) \in BOOLEAN
      OBVIOUS
    <3> QED  BY <3>1, <3>2, Zenon
  <2>2. CASE ~StopWorkers
    BY <2>2 DEF MainOnly, PoolRunning, Listen, Serve, PollTimeout, StopLoop, StopPool, Cleanup, Return,
                Signal, Types
  <2> QED  BY <2>1, <2>2
<1>3. /\ main' \in PoolMain \cup CliMain
      /\ started' \in BOOLEAN /\ signalled' \in BOOLEAN /\ dbUp' \in BOOLEAN /\ loopexit' \in BOOLEAN
      /\ estate' \in {"NEW", "RUNNING", "TERMINATING"}
  BY DEF MainOnly, PoolRunning, Listen, Serve, PollTimeout, StopWorkers, StopLoop, StopPool, Cleanup, Return,
         Signal, poolVars, Types, PoolMain
<1>4. Types'
  BY <1>1, <1>2, <1>3 DEF Types, netVars
<1> QED  BY <1>1, <1>4

LEMMA AcceptDo ==
    ASSUME Types, NEW c \in Conn, fd[c] = 0, Accept(c)
    PROVE  /\ Types' /\ UNCHANGED <<scen, started, signalled, dbUp, sess, said, estate, queue, loopexit>>
           /\ main = "polling" /\ main' = "serve" /\ conn[c] = "pending"
           /\ conn'[c] = "open" /\ \A d \in Conn : d # c => conn'[d] = conn[d] /\ fd'[d] = fd[d]
           /\ fd'[c] \in 1 .. Cardinality(Conn) /\ \A d \in Conn : fd[d] # fd'[c]
           /\ Wrote(c, client[c], Greeting(scen.protocol, c)) /\ Greeting(scen.protocol, c) \in Seq(Byte)
           /\ IF Pooled THEN armed' = armed \cup {c} /\ th' = th
              ELSE armed' = armed /\ c \in Thread /\ Turn(c, "poll", c, "-", "-", 0)
<1> DEFINE B == Greeting(scen.protocol, c)
<1>1. /\ th \in [Thread -> Threads] /\ client \in [Conn -> Client] /\ ring \in [Conn -> Ring] /\ c \in Thread
      /\ UNCHANGED <<scen, started, signalled, dbUp, sess, said, estate, queue, loopexit>>
      /\ main = "polling" /\ main' = "serve" /\ conn[c] = "pending" /\ "poll" \in Pc
      /\ conn' = [conn EXCEPT ![c] = "open"] /\ fd' = [fd EXCEPT ![c] = FreeFd]
      /\ fd \in [Conn -> 0 .. Cardinality(Conn)]
      /\ conn \in [Conn -> {"none", "pending", "open", "erased", "freed"}]
      /\ \A d \in Conn : client[d].sent <= scen.quota[d]
      /\ armed \in SUBSET Conn /\ running \in [Conn -> BOOLEAN]
  BY CardConn DEF Types, Accept, Pc, Serving
<1>2. /\ \E up \in Up(c) :
            LET w == Send(ring[c], B, up)
            IN /\ client' = [client EXCEPT ![c] = Deliver(@, c, w.out)]
               /\ ring' = [ring EXCEPT ![c] = w.ring]
      /\ \/ /\ Pooled
            /\ armed' = armed \cup {c} /\ UNCHANGED <<th, running>>
         \/ /\ ~Pooled
            /\ th' = [th EXCEPT ![c] = [NoThread EXCEPT !.pc = "poll", !.conn = c]]
            /\ running' = [running EXCEPT ![c] = TRUE] /\ UNCHANGED armed
  BY Zenon DEF Accept
<1>3. B \in Seq(Byte)
  <2>1. c \in Int /\ 0 \in Int /\ 1 \in Nat
    BY CardConn
  <2>2. Answer(c, 0, 1, TRUE) \in Seq(Byte)
    BY <2>1, AnswerBytes, Zenon
  <2>3. B = Answer(c, 0, 1, TRUE) \/ B = <<>>
    BY DEF Greeting
  <2>4. <<>> \in Seq(Byte)
    OBVIOUS
  <2> QED  BY <2>2, <2>3, <2>4, Zenon
<1> HIDE DEF B
<1>4. Wrote(c, client[c], B)
  BY <1>1, <1>2 DEF Wrote
<1>5. client' \in [Conn -> Client] /\ ring' \in [Conn -> Ring] /\ \A d \in Conn : client'[d].sent = client[d].sent
  BY <1>1, <1>3, <1>4, WroteDo
<1>6. FreeFd \in 1 .. Cardinality(Conn) /\ \A d \in Conn : fd[d] # FreeFd
  BY <1>1, FreeNumber
<1>7. FreeFd \in 0 .. Cardinality(Conn)
  BY <1>6, CardConn
<1>8. /\ fd' \in [Conn -> 0 .. Cardinality(Conn)] /\ fd'[c] = FreeFd /\ \A d \in Conn : d # c => fd'[d] = fd[d]
  BY <1>1, <1>7
<1>9. /\ conn' \in [Conn -> {"none", "pending", "open", "erased", "freed"}]
      /\ conn'[c] = "open" /\ \A d \in Conn : d # c => conn'[d] = conn[d]
  BY <1>1
<1>10. /\ th' \in [Thread -> Threads] /\ armed' \in SUBSET Conn /\ running' \in [Conn -> BOOLEAN]
       /\ IF Pooled THEN armed' = armed \cup {c} /\ th' = th
          ELSE armed' = armed /\ c \in Thread /\ Turn(c, "poll", c, "-", "-", 0)
  <2>1. CASE Pooled
    BY <1>1, <1>2, <2>1
  <2>2. CASE ~Pooled
    <3>1. th' = [th EXCEPT ![c] = ThreadOf("poll", c, FALSE)] /\ armed' = armed
      BY <1>2, <2>2, NewThreads
    <3>2. Turn(c, "poll", c, "-", "-", 0)
      BY <1>1, <3>1, TurnNew
    <3>3. running' \in [Conn -> BOOLEAN]
      BY <1>1, <1>2, <2>2
    <3> QED  BY <1>1, <2>2, <3>1, <3>2, <3>3 DEF Turn
  <2> QED  BY <2>1, <2>2
<1>11. main' \in PoolMain
  BY <1>1 DEF PoolMain
<1>12. Types'
  BY <1>1, <1>5, <1>8, <1>9, <1>10, <1>11 DEF Types
<1> QED  BY <1>1, <1>3, <1>4, <1>6, <1>8, <1>9, <1>10, <1>12 DEF B

LEMMA AwaitStopDo ==
    ASSUME Types, AwaitStop
    PROVE  LET left == IF Pooled THEN {c \in Conn : conn[c] = "open"} ELSE {}
           IN /\ Types' /\ UNCHANGED <<scen, started, signalled, dbUp, client, said, running, th, estate, loopexit>>
              /\ main = "await" /\ main' = "cleanup" /\ Stopped /\ queue' = <<>> /\ armed' = armed \ left
              /\ \A c \in Conn : /\ conn'[c] = IF c \in left THEN "freed" ELSE conn[c]
                                 /\ fd'[c] = IF c \in left THEN 0 ELSE fd[c]
                                 /\ ring'[c] = IF c \in left THEN EmptyRing ELSE ring[c]
                                 /\ sess'[c] = IF c \in left THEN Destroyed(sess[c]) ELSE sess[c]
<1> DEFINE left == IF Pooled THEN {c \in Conn : conn[c] = "open"} ELSE {}
           D(c) == Destroyed(sess[c])
<1>1. /\ scen \in Scenarios
      /\ UNCHANGED <<scen, started, signalled, dbUp, client, said, running, th, estate, loopexit>>
      /\ main = "await" /\ main' = "cleanup" /\ Stopped /\ queue' = <<>> /\ armed' = armed \ left
      /\ conn' = [c \in Conn |-> IF c \in left THEN "freed" ELSE conn[c]]
      /\ fd' = [c \in Conn |-> IF c \in left THEN 0 ELSE fd[c]]
      /\ ring' = [c \in Conn |-> IF c \in left THEN EmptyRing ELSE ring[c]]
      /\ sess' = [c \in Conn |-> IF c \in left THEN D(c) ELSE sess[c]]
  BY Zenon DEF Types, AwaitStop
<1>2. \A c \in Conn : D(c) \in Sessions(scen.quota[c])
  BY <1>1, ScenarioFields, DestroyedSession DEF Types
<1> HIDE DEF left, D
<1>3. /\ conn' \in [Conn -> {"none", "pending", "open", "erased", "freed"}]
      /\ ring' \in [Conn -> Ring] /\ armed' \in SUBSET Conn
  BY <1>1, EmptyRingType DEF Types
<1>4. fd' \in [Conn -> 0 .. Cardinality(Conn)]
  <2>1. 0 \in 0 .. Cardinality(Conn)
    BY CardConn
  <2> QED  BY <1>1, <2>1 DEF Types
<1>5. /\ sess' = [c \in Conn |-> sess'[c]] /\ \A c \in Conn : sess'[c] \in Sessions(scen.quota[c])
  BY <1>1, <1>2 DEF Types
<1>6. main' \in PoolMain /\ queue' \in Seq(Conn \cup {Loop})
  BY <1>1 DEF PoolMain
<1>7. Types'
  BY <1>1, <1>3, <1>4, <1>5, <1>6 DEF Types
<1>8. \A c \in Conn : /\ conn'[c] = IF c \in left THEN "freed" ELSE conn[c]
                      /\ fd'[c] = IF c \in left THEN 0 ELSE fd[c]
                      /\ ring'[c] = IF c \in left THEN EmptyRing ELSE ring[c]
                      /\ sess'[c] = IF c \in left THEN D(c) ELSE sess[c]
  BY <1>1
<1> QED  BY <1>1, <1>7, <1>8 DEF left, D

LEMMA CliStartDo ==
    ASSUME Types, CliStart
    PROVE  /\ Types' /\ UNCHANGED <<scen, signalled, dbUp, client, fd, ring, sess, said, running, poolVars>>
           /\ main = "cli" /\ main' = "clirun" /\ 1 \in Thread /\ 1 \in Conn
           /\ conn'[1] = "open" /\ \A d \in Conn : d # 1 => conn'[d] = conn[d]
           /\ Turn(1, "line", 1, "-", "-", 0)
<1>1. /\ th \in [Thread -> Threads] /\ 1 \in Thread /\ 1 \in Conn /\ "line" \in Pc
      /\ UNCHANGED <<scen, signalled, dbUp, client, fd, ring, sess, said, running, poolVars>>
      /\ main = "cli" /\ main' = "clirun" /\ started' = TRUE /\ conn' = [conn EXCEPT ![1] = "open"]
      /\ conn \in [Conn -> {"none", "pending", "open", "erased", "freed"}]
      /\ th' = [th EXCEPT ![1] = [NoThread EXCEPT !.pc = "line", !.conn = 1]]
  BY CardConn DEF Types, CliStart, Pc, Serving
<1>2. Turn(1, "line", 1, "-", "-", 0)
  <2>1. th' = [th EXCEPT ![1] = ThreadOf("line", 1, FALSE)]
    BY <1>1, NewThreads
  <2> QED  BY <1>1, <2>1, TurnNew
<1>3. /\ conn' \in [Conn -> {"none", "pending", "open", "erased", "freed"}]
      /\ conn'[1] = "open" /\ \A d \in Conn : d # 1 => conn'[d] = conn[d]
  BY <1>1
<1>4. main' \in CliMain
  BY <1>1 DEF CliMain
<1>5. Types'
  BY <1>1, <1>2, <1>3, <1>4 DEF Types, Turn, poolVars
<1> QED  BY <1>1, <1>2, <1>3, <1>5

LEMMA CliEndDo ==
    ASSUME Types, CliEnd
    PROVE  /\ Types' /\ UNCHANGED <<scen, signalled, dbUp, client, fd, ring, said, running, poolVars>>
           /\ main = "clirun" /\ main' = "cleanup" /\ 1 \in Thread /\ 1 \in Conn /\ th[1].pc \in {"line", "read"}
           /\ conn'[1] = "freed" /\ \A d \in Conn : d # 1 => conn'[d] = conn[d] /\ sess'[d] = sess[d]
           /\ sess'[1] = Destroyed(sess[1])
           /\ Turn(1, "none", NoConn, "-", "-", 0)
<1> DEFINE z == Destroyed(sess[1])
<1>1. /\ th \in [Thread -> Threads] /\ 1 \in Thread /\ 1 \in Conn /\ "none" \in Pc /\ scen \in Scenarios
      /\ UNCHANGED <<scen, signalled, dbUp, client, fd, ring, said, running, poolVars>>
      /\ main = "clirun" /\ main' = "cleanup" /\ started' = FALSE /\ conn' = [conn EXCEPT ![1] = "freed"]
      /\ th[1].pc \in {"line", "read"}
      /\ conn \in [Conn -> {"none", "pending", "open", "erased", "freed"}]
      /\ sess = [d \in Conn |-> sess[d]] /\ \A d \in Conn : sess[d] \in Sessions(scen.quota[d])
      /\ sess' = [sess EXCEPT ![1] = z]
      /\ th' = [th EXCEPT ![1] = NoThread]
  BY CardConn DEF Types, CliEnd, Pc, Free
<1>2. Turn(1, "none", NoConn, "-", "-", 0)
  <2>1. th' = [th EXCEPT ![1] = ThreadOf("none", NoConn, FALSE)]
    BY <1>1, NewThreads
  <2> QED  BY <1>1, <2>1, TurnNew
<1>3. /\ conn' \in [Conn -> {"none", "pending", "open", "erased", "freed"}]
      /\ conn'[1] = "freed" /\ \A d \in Conn : d # 1 => conn'[d] = conn[d]
  BY <1>1
<1>4. z \in Sessions(scen.quota[1])
  BY <1>1, ScenarioFields, DestroyedSession
<1> HIDE DEF z
<1>5. sess' = [d \in Conn |-> sess'[d]] /\ sess'[1] = z /\ \A d \in Conn : d # 1 => sess'[d] = sess[d]
  BY <1>1
<1>6. \A d \in Conn : sess'[d] \in Sessions(scen.quota[d])
  BY <1>1, <1>4, <1>5
<1>7. main' \in CliMain
  BY <1>1 DEF CliMain
<1>8. Types'
  BY <1>1, <1>2, <1>3, <1>5, <1>6, <1>7 DEF Types, Turn, poolVars
<1> QED  BY <1>1, <1>2, <1>3, <1>5, <1>8 DEF z

LEMMA ConnectDo ==
    ASSUME Types, NEW c \in Conn, Connect(c)
    PROVE  /\ Types' /\ UNCHANGED <<scen, mainVars, client, fd, ring, sess, said, running, th, poolVars>>
           /\ conn[c] = "none" /\ scen.handling # "cli" /\ conn'[c] = "pending"
           /\ \A d \in Conn : d # c => conn'[d] = conn[d]
<1>1. /\ UNCHANGED <<scen, mainVars, client, fd, ring, sess, said, running, th, poolVars>>
      /\ conn[c] = "none" /\ scen.handling # "cli" /\ conn' = [conn EXCEPT ![c] = "pending"]
      /\ conn \in [Conn -> {"none", "pending", "open", "erased", "freed"}]
  BY DEF Types, Connect
<1>2. /\ conn' \in [Conn -> {"none", "pending", "open", "erased", "freed"}]
      /\ conn'[c] = "pending" /\ \A d \in Conn : d # c => conn'[d] = conn[d]
  BY <1>1
<1>3. Types'
  BY <1>1, <1>2 DEF Types, mainVars, poolVars
<1> QED  BY <1>1, <1>2, <1>3

(* A client changes what it says.                                            *)
Speaks(c, m, n, g) ==
    /\ \A d \in Conn : d # c => client'[d] = client[d]
    /\ client'[c].msg = m /\ client'[c].sent = n /\ client'[c].gone = g
    /\ client'[c].bad = client[c].bad /\ client'[c].got = client[c].got

LEMMA SendHalfDo ==
    ASSUME Types, NEW c \in Conn, SendHalf(c)
    PROVE  /\ Types' /\ UNCHANGED <<scen, mainVars, conn, fd, ring, sess, said, running, th, poolVars>>
           /\ conn[c] = "open" /\ ~client[c].gone /\ client[c].msg = "none" /\ Answered(c)
           /\ client[c].sent \in Nat /\ client[c].sent < scen.quota[c]
           /\ Speaks(c, "half", client[c].sent + 1, client[c].gone)
<1> DEFINE cl == client[c]
           y == [cl EXCEPT !.msg = "half", !.sent = cl.sent + 1]
<1>1. /\ UNCHANGED <<scen, mainVars, conn, fd, ring, sess, said, running, th, poolVars>>
      /\ conn[c] = "open" /\ ~client[c].gone /\ client[c].msg = "none" /\ Answered(c)
      /\ client[c].sent < scen.quota[c] /\ client' = [client EXCEPT ![c] = y]
      /\ client \in [Conn -> Client] /\ scen \in Scenarios
      /\ \A d \in Conn : client[d].sent <= scen.quota[d]
  BY DEF Types, SendHalf
<1>2. cl \in Client /\ cl.sent \in Nat /\ scen.quota[c] \in Nat
  BY <1>1, ScenarioFields, ClientFields
<1>3. /\ y \in Client /\ y.msg = "half" /\ y.sent = cl.sent + 1 /\ y.gone = cl.gone /\ y.bad = cl.bad /\ y.got = cl.got
  <2> DEFINE h == [cl EXCEPT !.msg = "half"]
             m == cl.sent + 1
  <2>1. /\ h \in Client /\ h.msg = "half" /\ h.gone = cl.gone /\ h.bad = cl.bad /\ h.got = cl.got
    <3> HIDE DEF cl
    <3> QED  BY <1>2, ClientMsg
  <2>2. m \in Nat /\ y = [h EXCEPT !.sent = m]
    BY <1>2
  <2> HIDE DEF cl, h, y, m
  <2>3. y \in Client /\ y.msg = h.msg /\ y.sent = m /\ y.gone = h.gone /\ y.bad = h.bad /\ y.got = h.got
    BY <2>1, <2>2 DEF Client
  <2> QED  BY <2>1, <2>3 DEF m
<1> HIDE DEF y
<1>4. client' \in [Conn -> Client] /\ client'[c] = y /\ \A d \in Conn : d # c => client'[d] = client[d]
  BY <1>1, <1>3
<1>5. \A d \in Conn : client'[d].sent <= scen.quota[d]
  BY <1>1, <1>2, <1>3, <1>4
<1>6. Types'
  BY <1>1, <1>4, <1>5 DEF Types, mainVars, poolVars
<1> QED  BY <1>1, <1>2, <1>3, <1>4, <1>6 DEF Speaks

LEMMA SendRestDo ==
    ASSUME Types, NEW c \in Conn, NEW kind \in Requests, SendRest(c, kind)
    PROVE  /\ Types' /\ UNCHANGED <<scen, mainVars, conn, fd, ring, sess, running, th, poolVars>>
           /\ client[c].msg = "half" /\ ~client[c].gone
           /\ Speaks(c, kind, client[c].sent, client[c].gone)
           /\ \A d \in Conn : d # c => said'[d] = said[d]
           /\ \A n \in 1 .. scen.quota[c] : said'[c][n] = IF n = client[c].sent THEN <<kind, "-">> ELSE said[c][n]
<1> DEFINE cl == client[c]
           y == [cl EXCEPT !.msg = kind]
           z == [said[c] EXCEPT ![cl.sent] = <<kind, "-">>]
<1>1. /\ UNCHANGED <<scen, mainVars, conn, fd, ring, sess, running, th, poolVars>>
      /\ client[c].msg = "half" /\ ~client[c].gone /\ client' = [client EXCEPT ![c] = y]
      /\ said' = [said EXCEPT ![c] = z]
      /\ client \in [Conn -> Client] /\ scen \in Scenarios
      /\ \A d \in Conn : client[d].sent <= scen.quota[d]
      /\ said = [d \in Conn |-> said[d]] /\ \A d \in Conn : said[d] \in [1 .. scen.quota[d] -> Saying]
  BY DEF Types, SendRest
<1>2. /\ y \in Client /\ y.msg = kind /\ y.sent = cl.sent /\ y.gone = cl.gone /\ y.bad = cl.bad /\ y.got = cl.got
  <2>1. cl \in Client /\ kind \in Requests \cup {"none", "half"}
    BY <1>1
  <2> HIDE DEF cl
  <2> QED  BY <2>1, ClientMsg
<1>3. /\ z \in [1 .. scen.quota[c] -> Saying]
      /\ \A n \in 1 .. scen.quota[c] : z[n] = IF n = client[c].sent THEN <<kind, "-">> ELSE said[c][n]
  <2>1. <<kind, "-">> \in Saying
    BY DEF Saying
  <2> QED  BY <1>1, <2>1
<1> HIDE DEF y, z
<1>4. client' \in [Conn -> Client] /\ client'[c] = y /\ \A d \in Conn : d # c => client'[d] = client[d]
  BY <1>1, <1>2
<1>5. \A d \in Conn : client'[d].sent <= scen.quota[d]
  BY <1>1, <1>2, <1>4
<1>6. said' = [d \in Conn |-> said'[d]] /\ said'[c] = z /\ \A d \in Conn : d # c => said'[d] = said[d]
  BY <1>1
<1>7. \A d \in Conn : said'[d] \in [1 .. scen.quota[d] -> Saying]
  BY <1>1, <1>3, <1>6
<1>8. Types'
  BY <1>1, <1>4, <1>5, <1>6, <1>7 DEF Types, mainVars, poolVars
<1> QED  BY <1>1, <1>2, <1>3, <1>4, <1>6, <1>8 DEF Speaks

LEMMA LeaveDo ==
    ASSUME Types, NEW c \in Conn, ClientClose(c)
    PROVE  /\ Types' /\ UNCHANGED <<scen, mainVars, conn, fd, ring, sess, said, running, th, poolVars>>
           /\ ~client[c].gone /\ Speaks(c, client[c].msg, client[c].sent, TRUE)
<1> DEFINE cl == client[c]
           yes == TRUE
           y == [cl EXCEPT !.gone = yes]
<1>1. /\ UNCHANGED <<scen, mainVars, conn, fd, ring, sess, said, running, th, poolVars>>
      /\ ~client[c].gone /\ client' = [client EXCEPT ![c] = y]
      /\ client \in [Conn -> Client]
      /\ \A d \in Conn : client[d].sent <= scen.quota[d]
  BY DEF Types, ClientClose
<1>2. cl \in Client /\ yes \in BOOLEAN /\ yes
  BY <1>1
<1>3. /\ y \in Client /\ y.msg = cl.msg /\ y.sent = cl.sent /\ y.gone = yes /\ y.bad = cl.bad /\ y.got = cl.got
  <2> HIDE DEF cl, yes
  <2> QED  BY <1>2 DEF Client
<1> HIDE DEF y
<1>4. client' \in [Conn -> Client] /\ client'[c] = y /\ \A d \in Conn : d # c => client'[d] = client[d]
  BY <1>1, <1>3
<1>5. \A d \in Conn : client'[d].sent <= scen.quota[d]
  BY <1>1, <1>3, <1>4
<1>6. Types'
  BY <1>1, <1>4, <1>5 DEF Types, mainVars, poolVars
<1> QED  BY <1>1, <1>2, <1>3, <1>4, <1>6 DEF Speaks

-----------------------------------------------------------------------------
(* Who looks after a connection, and the ways to run.                        *)
Parties == ThreadConns /\ ServedOpen /\ OneParty /\ SomeParty
Modes   == PoolInv /\ WorkerInv /\ CliInv /\ DbInv

(* A step of one thread that neither takes a connection nor leaves one.      *)
LEMMA PartiesTurn ==
    ASSUME Types, Parties, NEW t \in Thread, NEW p, NEW c, NEW k, NEW r, NEW f, Turn(t, p, c, k, r, f),
           UNCHANGED <<scen, conn, armed, queue, estate>>,
           \A d \in Conn : (c = d /\ p # "count") <=> Works(t, d),
           \A d \in Conn : Works(t, d) => (p \in Closing <=> th[t].pc \in Closing),
           p \in Free => c = NoConn, p = "loop" => c = Loop, p = "got" => c # NoConn,
           p \in Serving \cup Closing \cup {"count"} => c \in Conn
    PROVE  Parties'
<1>1. ThreadConns'
  BY DEF Parties, ThreadConns, Turn
<1>2. \A u \in Thread : \A d \in Conn :
         /\ Works(u, d)' <=> Works(u, d)
         /\ Works(u, d) => (th'[u].pc \in Closing <=> th[u].pc \in Closing)
  <2> SUFFICES ASSUME NEW u \in Thread, NEW d \in Conn
               PROVE  /\ Works(u, d)' <=> Works(u, d)
                      /\ Works(u, d) => (th'[u].pc \in Closing <=> th[u].pc \in Closing)
    OBVIOUS
  <2>1. CASE u = t
    BY <2>1 DEF Turn, Works
  <2>2. CASE u # t
    BY <2>2 DEF Turn, Works
  <2> QED  BY <2>1, <2>2
<1>3. ServedOpen' /\ OneParty' /\ SomeParty'
  <2>1. ServedOpen'
    BY <1>2 DEF Parties, ServedOpen
  <2>2. OneParty'
    <3>1. armed \subseteq Conn
      BY DEF Types
    <3> QED  BY <1>2, <3>1 DEF Parties, OneParty
  <2>3. Refused' <=> Refused
    BY DEF Refused, Pooled
  <2>4. SomeParty'
    BY <1>2, <2>3 DEF Parties, SomeParty
  <2> QED  BY <2>1, <2>2, <2>4
<1> QED  BY <1>1, <1>3 DEF Parties

LEMMA ModesTurn ==
    ASSUME Types, Modes, NEW t \in Thread, NEW p, NEW c, NEW k, NEW r, NEW f, Turn(t, p, c, k, r, f),
           UNCHANGED <<scen, main, estate, dbUp, queue, armed, conn>>, th[t].pc # "none",
           Pooled => p \notin {"poll", "line"} /\ (th[t].pc \in Free /\ p \notin Free => queue # <<>>),
           scen.handling = "one-thread" =>
               /\ p \in {"none", "poll", "read", "handle", "answer", "close"} \cup Closing
               /\ p # "none" => c = t
               /\ th[t].pc \in Closing => p \in {"none"} \cup Closing,
           scen.handling = "cli" =>
               /\ p \in {"none", "line", "read", "handle", "answer", "close"} \cup Closing
               /\ p # "none" => c = 1
    PROVE  Modes'
<1>1. PoolInv'
  BY DEF Modes, PoolInv, Turn, Pooled, Over
<1>2. WorkerInv'
  BY DEF Modes, WorkerInv, Turn
<1>3. CliInv'
  BY DEF Modes, CliInv, Turn
<1>4. DbInv'
  BY DEF Modes, DbInv
<1> QED  BY <1>1, <1>2, <1>3, <1>4 DEF Modes

(* A thread goes on with the connection it works for.                        *)
LEMMA ServeTurn ==
    ASSUME Types, Parties, Modes, NEW t \in Thread, NEW c \in Conn, th[t].conn = c,
           th[t].pc \in (Serving \ {"push"}) \cup Closing,
           NEW p \in {"poll", "line", "read", "handle", "answer", "close"} \cup Closing, NEW k, NEW r, NEW f,
           p \in Closing <=> th[t].pc \in Closing,
           p = "poll" => scen.handling = "one-thread", p = "line" => scen.handling = "cli",
           Turn(t, p, c, k, r, f), UNCHANGED <<scen, main, estate, dbUp, queue, armed, conn>>
    PROVE  Parties' /\ Modes'
<1>1. /\ p \notin Free \cup {"loop", "got", "count"} /\ p \notin {"none", "push"}
      /\ th[t].pc \notin Free /\ th[t].pc \notin {"none", "count"}
  BY DEF Free, Closing, Serving
<1>2. Parties'
  BY <1>1, PartiesTurn DEF Works
<1>3. Modes'
  <2>1. /\ scen.handling = "one-thread" => c = t
        /\ scen.handling = "cli" => c = 1
    BY <1>1 DEF Modes, WorkerInv, CliInv
  <2>2. Pooled => p \notin {"poll", "line"}
    BY DEF Pooled
  <2>3. scen.handling = "one-thread" =>
               /\ p \in {"none", "poll", "read", "handle", "answer", "close"} \cup Closing
               /\ p # "none" => c = t
               /\ th[t].pc \in Closing => p \in {"none"} \cup Closing
    BY <2>1
  <2>4. scen.handling = "cli" =>
               /\ p \in {"none", "line", "read", "handle", "answer", "close"} \cup Closing
               /\ p # "none" => c = 1
    BY <2>1
  <2> QED  BY <1>1, <2>2, <2>3, <2>4, ModesTurn
<1> QED  BY <1>2, <1>3

LEMMA PollControl ==
    ASSUME Types, Parties, Modes, NEW t \in Thread,
           PollStopped(t) \/ PollError(t) \/ PollReady(t) \/ ReadClosed(t)
    PROVE  Parties' /\ Modes'
<1> DEFINE p == th'[t].pc
<1>1. /\ UNCHANGED <<scen, mainVars, netVars, running, poolVars>>
      /\ Turn(t, p, th[t].conn, th[t].kind, th[t].rc, th[t].fd)
      /\ th[t].pc \in {"poll", "read"} /\ p \in {"close", "read"}
  BY PollDo
<1> HIDE DEF p
<1>2. th[t].conn \in Conn
  BY <1>1 DEF Parties, ThreadConns, Serving
<1>3. th[t].pc \notin Closing /\ p \notin Closing /\ th[t].pc \in Serving \ {"push"}
  BY <1>1 DEF Closing, Serving
<1>4. UNCHANGED <<scen, main, estate, dbUp, queue, armed, conn>>
  BY <1>1 DEF mainVars, netVars, poolVars
<1> QED  BY <1>1, <1>2, <1>3, <1>4, ServeTurn

LEMMA LineControl ==
    ASSUME Types, Parties, Modes, CliNext \/ CliNoLine
    PROVE  Parties' /\ Modes'
<1> DEFINE p == th'[1].pc
<1>1. /\ UNCHANGED <<scen, mainVars, netVars, running, poolVars>> /\ 1 \in Thread
      /\ Turn(1, p, th[1].conn, th[1].kind, th[1].rc, th[1].fd)
      /\ th[1].pc \in {"line", "read"} /\ p \in {"line", "read"} /\ main = "clirun"
  BY LineDo DEF CliNext, CliNoLine
<1> HIDE DEF p
<1>2. th[1].conn \in Conn
  BY <1>1 DEF Parties, ThreadConns, Serving
<1>3. th[1].pc \notin Closing /\ p \notin Closing /\ th[1].pc \in Serving \ {"push"}
  BY <1>1 DEF Closing, Serving
<1>4. UNCHANGED <<scen, main, estate, dbUp, queue, armed, conn>>
  BY <1>1 DEF mainVars, netVars, poolVars
<1>5. scen.handling = "cli"
  BY <1>1, ScenarioFields DEF Types, Modes, PoolInv, WorkerInv, Pooled, PoolMain, WorkerMain
<1> QED  BY <1>1, <1>2, <1>3, <1>4, <1>5, ServeTurn

LEMMA FreeControl ==
    ASSUME Types, Parties, Modes, NEW t \in Thread,
           RunTask(t) \/ PopNothing(t) \/ TryAgain(t) \/ Expire(t)
    PROVE  Parties' /\ Modes'
<1> DEFINE p == th'[t].pc
           c == th[t].conn
<1>1. /\ UNCHANGED <<scen, mainVars, netVars, running, poolVars>>
      /\ Turn(t, p, c, th[t].kind, th[t].rc, th[t].fd)
      /\ \/ th[t].pc = "got" /\ p = IF c = Loop THEN "loop" ELSE "read"
         \/ th[t].pc = "idle" /\ p = "empty"
         \/ th[t].pc = "empty" /\ p \in {"idle", "leave"}
  BY FreeDo
<1>2. c \in Conn \cup {Loop, NoConn}
  BY ThreadFields DEF Types
<1> HIDE DEF p, c
<1>3. UNCHANGED <<scen, main, estate, dbUp, queue, armed, conn>>
  BY <1>1 DEF mainVars, netVars, poolVars
<1>4. Pooled
  BY <1>1, ScenarioFields DEF Types, Modes, WorkerInv, CliInv, Pooled, Closing
<1>5. CASE th[t].pc = "got"
  <2>0. c # NoConn /\ (p = IF c = Loop THEN "loop" ELSE "read")
    BY <1>1, <1>5 DEF Parties, ThreadConns, c
  <2>1. c # NoConn /\ ((p = "loop" /\ c = Loop) \/ (p = "read" /\ c \in Conn))
    BY <1>2, <2>0
  <2>2. /\ p \notin Free \cup Closing /\ p \notin {"got", "count", "poll", "line"}
        /\ th[t].pc \notin Free \cup Closing /\ (p \in Serving => c \in Conn)
    BY <1>5, <2>1 DEF Free, Closing, Serving
  <2>3. \A d \in Conn : (c = d /\ p # "count") <=> Works(t, d)
    BY <1>5, <2>2 DEF Works, c
  <2>4. Parties'
    BY <1>1, <1>3, <2>1, <2>2, <2>3, PartiesTurn
  <2>5. Modes'
    BY <1>1, <1>3, <1>4, <1>5, <2>2, ModesTurn DEF Pooled
  <2> QED  BY <2>4, <2>5
<1>6. CASE th[t].pc # "got"
  <2>1. th[t].pc \in Free /\ p \in Free /\ th[t].pc # "none"
    BY <1>1, <1>6 DEF Free
  <2>2. c = NoConn /\ NoConn \notin Conn
    BY <2>1, CardConn DEF Parties, ThreadConns, c, NoConn
  <2>3. p \notin Closing \cup Serving /\ p \notin {"loop", "got", "count", "poll", "line"}
    BY <2>1 DEF Free, Closing, Serving
  <2>4. \A d \in Conn : ~Works(t, d) /\ c # d
    BY <2>2 DEF Works, c
  <2>5. Parties'
    BY <1>1, <1>3, <2>1, <2>2, <2>3, <2>4, PartiesTurn
  <2>6. Modes'
    BY <1>1, <1>3, <1>4, <2>1, <2>3, ModesTurn DEF Pooled
  <2> QED  BY <2>5, <2>6
<1> QED  BY <1>5, <1>6

LEMMA IdleControl ==
    ASSUME Types, Parties, Modes, NEW t \in Thread, ThreadExit(t) \/ LoopEnd(t)
    PROVE  Parties' /\ Modes'
<1>0. PICK p \in {"none", "idle"} : \E k, r, f :
         /\ UNCHANGED <<scen, mainVars, netVars, running, poolVars>>
         /\ Turn(t, p, NoConn, k, r, f) /\ th[t].pc \in {"leave", "loop"}
  BY ExitDo, LoopEndDo
<1>1. PICK k, r, f :
         /\ UNCHANGED <<scen, mainVars, netVars, running, poolVars>>
         /\ Turn(t, p, NoConn, k, r, f) /\ th[t].pc \in {"leave", "loop"}
  BY <1>0, Zenon
<1>2. UNCHANGED <<scen, main, estate, dbUp, queue, armed, conn>>
  BY <1>1 DEF mainVars, netVars, poolVars
<1>3. Pooled
  BY <1>1, ScenarioFields DEF Types, Modes, WorkerInv, CliInv, Pooled, Closing
<1>4. th[t].conn \notin Conn /\ NoConn \notin Conn
  BY <1>1, CardConn DEF Parties, ThreadConns, NoConn, Loop, Free
<1>5. p \in Free /\ p \notin Closing \cup Serving /\ p \notin {"loop", "got", "count", "poll", "line"}
  BY DEF Free, Closing, Serving
<1>6. \A d \in Conn : ~Works(t, d) /\ NoConn # d
  BY <1>4 DEF Works
<1>7. Parties'
  BY <1>1, <1>2, <1>5, <1>6, PartiesTurn
<1>8. Modes'
  BY <1>1, <1>2, <1>3, <1>5, ModesTurn DEF Pooled
<1> QED  BY <1>7, <1>8

(* A thread leaves its connection to the event loop, or goes on with it.     *)
LEMMA ArmControl ==
    ASSUME Types, Parties, Modes, NEW t \in Thread, NEW c \in Conn, th[t].conn = c,
           th[t].pc \in {"read", "answer"}, Pooled, Turn(t, "idle", NoConn, "-", "-", 0),
           armed' = armed \cup {c}, UNCHANGED <<scen, main, estate, dbUp, queue, conn>>
    PROVE  Parties' /\ Modes'
<1>1. Works(t, c) /\ th[t].pc \notin Closing \cup Free
  BY DEF Works, Closing, Free
<1>2. conn[c] = "open" /\ armed \subseteq Conn /\ NoConn \notin Conn
  BY <1>1, CardConn DEF Types, Parties, ServedOpen, NoConn
<1>3. \A d \in Conn : ~Works(t, d)'
  BY <1>2 DEF Turn, Works
<1>4. \A u \in Thread : u # t => th'[u] = th[u] /\ \A d \in Conn : Works(u, d)' <=> Works(u, d)
  BY DEF Turn, Works
<1>5. ThreadConns'
  BY DEF Parties, ThreadConns, Turn, Free, Serving, Closing
<1>6. ServedOpen'
  BY <1>2, <1>3, <1>4 DEF Parties, ServedOpen
<1>7. OneParty'
  <2>1. \A u \in Thread : u # t => ~Works(u, c)
    BY <1>1 DEF Parties, OneParty
  <2>2. \A i \in 1 .. Len(queue) : queue[i] # c
    BY <1>1 DEF Parties, OneParty
  <2> QED  BY <1>2, <1>3, <1>4, <2>1, <2>2 DEF Parties, OneParty
<1>8. SomeParty'
  <2>1. Refused' <=> Refused
    BY DEF Refused, Pooled
  <2>2. \A d \in Conn : d # c => ~Works(t, d)
    BY DEF Works
  <2> QED  BY <1>4, <2>1, <2>2 DEF Parties, SomeParty
<1>9. Modes'
  <2>1. PoolInv'
    BY <1>1 DEF Modes, PoolInv, Turn, Pooled, Over, Free
  <2>2. WorkerInv' /\ CliInv' /\ DbInv'
    BY DEF Modes, Pooled, WorkerInv, CliInv, DbInv
  <2> QED  BY <2>1, <2>2 DEF Modes
<1> QED  BY <1>5, <1>6, <1>7, <1>8, <1>9 DEF Parties

LEMMA OnwardControl ==
    ASSUME Types, Parties, Modes, NEW t \in Thread, NEW c \in Conn, th[t].conn = c,
           th[t].pc \in {"read", "answer"}, Onward(t, c) \/ GivesUp(t, c),
           UNCHANGED <<scen, main, estate, dbUp, queue, conn>>
    PROVE  Parties' /\ Modes'
<1>1. th[t].pc \in Serving \ {"push"} /\ th[t].pc \notin Closing
  BY DEF Serving, Closing
<1>2. CASE Onward(t, c) /\ Pooled
  BY <1>2, ArmControl DEF Onward
<1>3. CASE Onward(t, c) /\ ~Pooled
  <2> DEFINE p == IF scen.handling = "cli" THEN "line" ELSE "poll"
  <2>1. Turn(t, p, c, "-", "-", 0) /\ armed' = armed
    BY <1>3 DEF Onward
  <2>2. /\ p \in {"poll", "line"} /\ p \notin Closing
        /\ p = "poll" => scen.handling = "one-thread"
        /\ p = "line" => scen.handling = "cli"
    BY <1>3, ScenarioFields DEF Types, Pooled, Closing
  <2> HIDE DEF p
  <2> QED  BY <1>1, <2>1, <2>2, ServeTurn
<1>4. CASE GivesUp(t, c)
  <2>1. Turn(t, "close", c, th[t].kind, th[t].rc, th[t].fd) /\ armed' = armed /\ "close" \notin Closing
    BY <1>4 DEF GivesUp, Closing
  <2> QED  BY <1>1, <2>1, ServeTurn
<1> QED  BY <1>2, <1>3, <1>4

LEMMA WorksFor ==
    ASSUME Parties, NEW t \in Thread, th[t].pc \in Serving \cup Closing
    PROVE  th[t].conn \in Conn
  BY DEF Parties, ThreadConns

LEMMA RequestControl ==
    ASSUME Types, Parties, Modes, NEW t \in Thread, ReadRequest(t)
    PROVE  Parties' /\ Modes'
<1> DEFINE c == th[t].conn
<1>1. th[t].pc = "read"
  BY DEF ReadRequest
<1>2. c \in Conn /\ th[t].pc \in Serving \ {"push"} /\ th[t].pc \notin Closing /\ "handle" \notin Closing
  BY <1>1, WorksFor DEF Serving, Closing
<1>3. /\ UNCHANGED <<scen, mainVars, conn, fd, ring, sess, said, running, poolVars>>
      /\ Turn(t, "handle", c, client[c].msg, th[t].rc, th[t].fd)
  BY <1>2, RequestDo
<1>4. UNCHANGED <<scen, main, estate, dbUp, queue, armed, conn>>
  BY <1>3 DEF mainVars, poolVars
<1> QED  BY <1>2, <1>3, <1>4, ServeTurn

LEMMA CommandControl ==
    ASSUME Types, Parties, Modes, NEW t \in Thread, ReadCommand(t)
    PROVE  Parties' /\ Modes'
<1> DEFINE c == th[t].conn
<1>1. th[t].pc = "read"
  BY DEF ReadCommand
<1>2. c \in Conn
  BY <1>1, WorksFor DEF Serving
<1>3. /\ UNCHANGED <<scen, mainVars, conn, fd, sess, running, estate, queue, loopexit>>
      /\ Onward(t, c) \/ GivesUp(t, c)
  BY <1>2, CommandDo
<1>4. UNCHANGED <<scen, main, estate, dbUp, queue, conn>>
  BY <1>3 DEF mainVars
<1> QED  BY <1>1, <1>2, <1>3, <1>4, OnwardControl

LEMMA HandleControl ==
    ASSUME Types, Parties, Modes, NEW t \in Thread, Handle(t), client[th[t].conn].sent > 0,
           th[t].kind \in Kinds \cup {"VERSION"}
    PROVE  Parties' /\ Modes'
<1> DEFINE c == th[t].conn
<1>1. th[t].pc = "handle"
  BY DEF Handle
<1>2. c \in Conn /\ th[t].pc \in Serving \ {"push"} /\ th[t].pc \notin Closing /\ "answer" \notin Closing
  BY <1>1, WorksFor DEF Serving, Closing
<1>3. /\ UNCHANGED <<scen, mainVars, client, conn, fd, ring, said, running, poolVars>>
      /\ Turn(t, "answer", c, th[t].kind, th'[t].rc, th[t].fd)
  BY <1>2, HandleDo
<1>4. UNCHANGED <<scen, main, estate, dbUp, queue, armed, conn>>
  BY <1>3 DEF mainVars, poolVars
<1> QED  BY <1>2, <1>3, <1>4, ServeTurn

LEMMA ResultControl ==
    ASSUME Types, Parties, Modes, NEW t \in Thread, WriteResult(t),
           ~Runs(th[t].kind) => th[t].rc \in {"SUCCESS", "FAILURE"}
    PROVE  Parties' /\ Modes'
<1> DEFINE c == th[t].conn
<1>1. th[t].pc = "answer"
  BY DEF WriteResult
<1>2. c \in Conn
  BY <1>1, WorksFor DEF Serving
<1>3. /\ UNCHANGED <<scen, mainVars, conn, fd, running, estate, queue, loopexit>>
      /\ Onward(t, c) \/ GivesUp(t, c)
  BY <1>2, ResultDo
<1>4. UNCHANGED <<scen, main, estate, dbUp, queue, conn>>
  BY <1>3 DEF mainVars
<1> QED  BY <1>1, <1>2, <1>3, <1>4, OnwardControl

LEMMA CloseControl ==
    ASSUME Types, Parties, Modes, NEW t \in Thread, CloseFd(t) \/ DeleteWriter(t)
    PROVE  Parties' /\ Modes'
<1> DEFINE c == th[t].conn
<1>1. th[t].pc \in {"closefd", "delwriter"}
  BY DEF CloseFd, DeleteWriter
<1>2. c \in Conn /\ th[t].pc \in Closing
  BY <1>1, WorksFor DEF Closing
<1>0. PICK p \in Closing : \E f :
         /\ UNCHANGED <<scen, mainVars, conn, running, poolVars>>
         /\ Turn(t, p, c, th[t].kind, th[t].rc, f)
  BY <1>2, CloseFdDo, DeleteWriterDo DEF Closing
<1>3. PICK f :
         /\ UNCHANGED <<scen, mainVars, conn, running, poolVars>>
         /\ Turn(t, p, c, th[t].kind, th[t].rc, f)
  BY <1>0, Zenon
<1>4. UNCHANGED <<scen, main, estate, dbUp, queue, armed, conn>>
  BY <1>3 DEF mainVars, poolVars
<1>5. p # "poll" /\ p # "line"
  BY DEF Closing
<1> QED  BY <1>2, <1>3, <1>4, <1>5, ServeTurn

(* A task goes from the queue to a thread.                                   *)
LEMMA PopControl ==
    ASSUME Types, Parties, Modes, NEW t \in Thread, Pop(t)
    PROVE  Parties' /\ Modes'
<1> DEFINE c == queue[1]
<1>1. /\ UNCHANGED <<scen, mainVars, netVars, running, estate, armed, loopexit>>
      /\ Turn(t, "got", c, th[t].kind, th[t].rc, th[t].fd) /\ th[t].pc = "idle"
      /\ 1 \in 1 .. Len(queue) /\ c \in Conn \cup {Loop} /\ Len(queue') = Len(queue) - 1
      /\ Len(queue) \in Nat /\ \A i \in 1 .. Len(queue') : queue'[i] = queue[i + 1] /\ i + 1 \in 1 .. Len(queue)
  BY PopDo
<1>2. UNCHANGED <<scen, main, estate, dbUp, armed, conn>> /\ armed \subseteq Conn
  BY <1>1 DEF mainVars, netVars, Types
<1>3. queue[1] = c
  OBVIOUS
<1>4. th[t].conn = NoConn /\ NoConn \notin Conn /\ c # NoConn
  BY <1>1, CardConn DEF Parties, ThreadConns, Free, NoConn, Loop
<1> HIDE DEF c
<1>5. /\ \A d \in Conn : ~Works(t, d) /\ (Works(t, d)' <=> c = d)
      /\ \A u \in Thread : u # t => th'[u] = th[u] /\ \A d \in Conn : Works(u, d)' <=> Works(u, d)
  BY <1>1, <1>4 DEF Turn, Works
<1>6. ThreadConns'
  BY <1>1, <1>4 DEF Parties, ThreadConns, Turn, Free, Serving, Closing
<1>7. ServedOpen'
  <2>1. "got" \notin Closing /\ th'[t].pc = "got"
    BY <1>1 DEF Closing, Turn
  <2>2. c \in Conn => conn[c] = "open"
    BY <1>1, <1>3 DEF Parties, ServedOpen
  <2>3. \A u \in Thread : \A d \in Conn :
           Works(u, d)' => conn'[d] = IF th'[u].pc \in Closing THEN "erased" ELSE "open"
    <3> SUFFICES ASSUME NEW u \in Thread, NEW d \in Conn, Works(u, d)'
                 PROVE  conn'[d] = IF th'[u].pc \in Closing THEN "erased" ELSE "open"
      OBVIOUS
    <3>1. CASE u = t
      BY <1>2, <1>5, <2>1, <2>2, <3>1
    <3>2. CASE u # t
      BY <1>2, <1>5, <3>2 DEF Parties, ServedOpen
    <3> QED  BY <3>1, <3>2
  <2>4. \A i \in 1 .. Len(queue') : \A d \in Conn : queue'[i] = d => conn'[d] = "open"
    BY <1>1, <1>2 DEF Parties, ServedOpen
  <2> QED  BY <1>2, <2>3, <2>4 DEF Parties, ServedOpen
<1>8. OneParty'
  <2>1. /\ \A u \in Thread : c \in Conn => ~Works(u, c)
        /\ c \notin armed
    BY <1>1, <1>3 DEF Parties, OneParty
  <2>2. \A i \in 1 .. Len(queue') : queue'[i] # c
    BY <1>1, <1>3 DEF Parties, OneParty
  <2>3. \A u, v \in Thread : \A d \in Conn : Works(u, d)' /\ Works(v, d)' => u = v
    BY <1>5, <2>1 DEF Parties, OneParty
  <2>4. \A u \in Thread : \A i \in 1 .. Len(queue') : \A d \in Conn : ~(Works(u, d)' /\ queue'[i] = d)
    BY <1>1, <1>5, <2>2 DEF Parties, OneParty
  <2>5. \A u \in Thread : \A d \in armed' : ~Works(u, d)'
    BY <1>2, <1>5, <2>1 DEF Parties, OneParty
  <2>6. \A i \in 1 .. Len(queue') : queue'[i] \notin armed'
    BY <1>1, <1>2 DEF Parties, OneParty
  <2>7. \A i, j \in 1 .. Len(queue') : queue'[i] = queue'[j] => i = j
    BY <1>1 DEF Parties, OneParty
  <2> QED  BY <2>3, <2>4, <2>5, <2>6, <2>7 DEF OneParty
<1>9. SomeParty'
  <2> SUFFICES ASSUME NEW d \in Conn, conn'[d] \in {"open", "erased"}, ~Refused', d \notin armed'
               PROVE  \/ \E i \in 1 .. Len(queue') : queue'[i] = d
                      \/ \E u \in Thread : Works(u, d)'
    BY DEF SomeParty
  <2>1. Refused' <=> Refused
    BY <1>2 DEF Refused, Pooled
  <2>2. \/ \E i \in 1 .. Len(queue) : queue[i] = d
        \/ \E u \in Thread : Works(u, d)
    BY <1>2, <2>1 DEF Parties, SomeParty
  <2>3. CASE \E u \in Thread : Works(u, d)
    BY <1>5, <2>3
  <2>4. ASSUME NEW i \in 1 .. Len(queue), queue[i] = d
        PROVE  \/ \E j \in 1 .. Len(queue') : queue'[j] = d
               \/ \E u \in Thread : Works(u, d)'
    <3>1. CASE i = 1
      BY <1>3, <1>5, <2>4, <3>1
    <3>2. CASE i # 1
      <4>1. i - 1 \in 1 .. Len(queue') /\ i - 1 + 1 = i
        BY <1>1, <3>2
      <4>2. queue'[i - 1] = d
        BY <1>1, <2>4, <4>1
      <4> QED  BY <4>1, <4>2
    <3> QED  BY <3>1, <3>2
  <2> QED  BY <2>2, <2>3, <2>4
<1>10. Modes'
  <2>1. Len(queue) # 0 /\ queue # <<>>
    BY <1>1
  <2>2. Pooled
    BY <1>1, ScenarioFields DEF Types, Modes, WorkerInv, CliInv, Pooled, Closing
  <2>3. PoolInv'
    BY <1>1, <1>2, <2>1, <2>2 DEF Modes, PoolInv, Turn, Pooled, Over
  <2>4. WorkerInv' /\ CliInv' /\ DbInv'
    BY <1>2, <2>2 DEF Modes, Pooled, WorkerInv, CliInv, DbInv
  <2> QED  BY <2>3, <2>4 DEF Modes
<1> QED  BY <1>6, <1>7, <1>8, <1>9, <1>10 DEF Parties

(* The event loop takes a connection whose event fires, or leaves it alone   *)
(* when the pool takes no task any more.                                     *)
LEMMA DispatchControl ==
    ASSUME Types, Parties, Modes, NEW t \in Thread, NEW c \in Conn, LoopDispatch(t, c)
    PROVE  Parties' /\ Modes'
<1>1. /\ UNCHANGED <<scen, mainVars, netVars, running, estate, queue, loopexit>>
      /\ armed' = armed \ {c} /\ c \in armed /\ th[t].pc = "loop"
      /\ estate = "RUNNING" => Turn(t, "push", c, th[t].kind, th[t].rc, th[t].fd)
      /\ estate # "RUNNING" => th' = th
  BY DispatchDo
<1>2. UNCHANGED <<scen, main, estate, dbUp, queue, conn>> /\ armed \subseteq Conn /\ armed' \subseteq armed
  BY <1>1 DEF mainVars, netVars, Types
<1>3. Pooled
  BY <1>1, ScenarioFields DEF Types, Modes, WorkerInv, CliInv, Pooled, Closing
<1>4. WorkerInv' /\ CliInv' /\ DbInv'
  BY <1>2, <1>3 DEF Modes, Pooled, WorkerInv, CliInv, DbInv
<1>5. "loop" \notin Free
  BY DEF Free
<1>6. CASE estate # "RUNNING"
  <2>1. th' = th /\ \A u \in Thread : \A d : Works(u, d)' <=> Works(u, d)
    BY <1>1, <1>6 DEF Works
  <2>2. Refused'
    BY <1>1, <1>2, <1>3, <1>5, <1>6 DEF Modes, PoolInv, Types, Refused, Pooled
  <2>3. ThreadConns' /\ SomeParty'
    BY <2>1, <2>2 DEF Parties, ThreadConns, SomeParty
  <2>4. ServedOpen'
    BY <1>2, <2>1 DEF Parties, ServedOpen
  <2>5. OneParty'
    BY <1>2, <2>1 DEF Parties, OneParty
  <2>6. PoolInv'
    BY <1>2, <2>1 DEF Modes, PoolInv, Pooled
  <2> QED  BY <1>4, <2>3, <2>4, <2>5, <2>6 DEF Parties, Modes
<1>7. CASE estate = "RUNNING"
  <2>1. Turn(t, "push", c, th[t].kind, th[t].rc, th[t].fd)
    BY <1>1, <1>7
  <2>2. th[t].conn = Loop /\ Loop \notin Conn
    BY <1>1, CardConn DEF Parties, ThreadConns, Loop
  <2>3. /\ \A d \in Conn : ~Works(t, d) /\ (Works(t, d)' <=> c = d)
        /\ \A u \in Thread : u # t => th'[u] = th[u] /\ \A d \in Conn : Works(u, d)' <=> Works(u, d)
    BY <2>1, <2>2 DEF Turn, Works
  <2>4. ThreadConns'
    BY <2>1 DEF Parties, ThreadConns, Turn, Free, Serving, Closing
  <2>5. ServedOpen'
    <3>1. "push" \notin Closing /\ th'[t].pc = "push" /\ conn[c] = "open"
      BY <1>1, <2>1 DEF Closing, Turn, Parties, ServedOpen
    <3>2. \A u \in Thread : \A d \in Conn :
             Works(u, d)' => conn'[d] = IF th'[u].pc \in Closing THEN "erased" ELSE "open"
      <4> SUFFICES ASSUME NEW u \in Thread, NEW d \in Conn, Works(u, d)'
                   PROVE  conn'[d] = IF th'[u].pc \in Closing THEN "erased" ELSE "open"
        OBVIOUS
      <4>1. CASE u = t
        BY <1>2, <2>3, <3>1, <4>1
      <4>2. CASE u # t
        BY <1>2, <2>3, <4>2 DEF Parties, ServedOpen
      <4> QED  BY <4>1, <4>2
    <3> QED  BY <1>2, <3>2 DEF Parties, ServedOpen
  <2>6. OneParty'
    <3>1. /\ \A u \in Thread : ~Works(u, c)
          /\ \A i \in 1 .. Len(queue) : queue[i] # c
      BY <1>1 DEF Parties, OneParty
    <3> QED  BY <1>1, <1>2, <2>3, <3>1 DEF Parties, OneParty
  <2>7. SomeParty'
    <3>1. Refused' <=> Refused
      BY <1>2 DEF Refused, Pooled
    <3> QED  BY <1>1, <1>2, <2>3, <3>1 DEF Parties, SomeParty
  <2>8. PoolInv'
    BY <1>1, <1>2, <1>5, <2>1 DEF Modes, PoolInv, Turn, Pooled, Over
  <2> QED  BY <1>4, <2>4, <2>5, <2>6, <2>7, <2>8 DEF Parties, Modes
<1> QED  BY <1>6, <1>7

(* The event loop hands a connection to the queue.                           *)
LEMMA PushControl ==
    ASSUME Types, Parties, Modes, NEW t \in Thread, LoopPush(t)
    PROVE  Parties' /\ Modes'
<1> DEFINE c == th[t].conn
<1>1. th[t].pc = "push"
  BY DEF LoopPush
<1>2. c \in Conn /\ th[t].conn = c /\ "push" \notin Closing /\ "push" \notin Free
  BY <1>1, WorksFor DEF Serving, Closing, Free
<1>3. /\ UNCHANGED <<scen, mainVars, netVars, running, estate, armed, loopexit>>
      /\ Turn(t, "count", c, th[t].kind, th[t].rc, th[t].fd)
      /\ Len(queue) \in Nat /\ Len(queue') = Len(queue) + 1 /\ queue'[Len(queue) + 1] = c
      /\ \A i \in 1 .. Len(queue) : queue'[i] = queue[i]
  BY <1>2, PushDo
<1> HIDE DEF c
<1>4. UNCHANGED <<scen, main, estate, dbUp, armed, conn>> /\ armed \subseteq Conn
  BY <1>3 DEF mainVars, netVars, Types
<1>5. Works(t, c) /\ \A d \in Conn : ~Works(t, d)' /\ (Works(t, d) => d = c)
  BY <1>1, <1>2, <1>3 DEF Turn, Works
<1>6. \A u \in Thread : u # t => th'[u] = th[u] /\ \A d \in Conn : Works(u, d)' <=> Works(u, d)
  BY <1>3 DEF Turn, Works
<1>7. \A i \in 1 .. Len(queue') : i \in 1 .. Len(queue) \/ i = Len(queue) + 1
  BY <1>3
<1>8. /\ \A u \in Thread : u # t => ~Works(u, c)
      /\ c \notin armed /\ \A i \in 1 .. Len(queue) : queue[i] # c
  BY <1>2, <1>5 DEF Parties, OneParty
<1>9. ThreadConns'
  BY <1>2, <1>3 DEF Parties, ThreadConns, Turn, Free, Serving, Closing
<1>10. ServedOpen'
  <2>1. conn[c] = "open"
    BY <1>1, <1>2, <1>5 DEF Parties, ServedOpen
  <2>2. \A u \in Thread : \A d \in Conn :
           Works(u, d)' => conn'[d] = IF th'[u].pc \in Closing THEN "erased" ELSE "open"
    BY <1>4, <1>5, <1>6 DEF Parties, ServedOpen
  <2>3. \A i \in 1 .. Len(queue') : \A d \in Conn : queue'[i] = d => conn'[d] = "open"
    BY <1>3, <1>4, <1>7, <2>1 DEF Parties, ServedOpen
  <2> QED  BY <1>4, <2>2, <2>3 DEF Parties, ServedOpen
<1>11. OneParty'
  <2>1. \A u, v \in Thread : \A d \in Conn : Works(u, d)' /\ Works(v, d)' => u = v
    BY <1>5, <1>6 DEF Parties, OneParty
  <2>2. \A u \in Thread : \A i \in 1 .. Len(queue') : \A d \in Conn : ~(Works(u, d)' /\ queue'[i] = d)
    BY <1>3, <1>5, <1>6, <1>7, <1>8 DEF Parties, OneParty
  <2>3. \A u \in Thread : \A d \in armed' : ~Works(u, d)'
    BY <1>4, <1>5, <1>6 DEF Parties, OneParty
  <2>4. \A i \in 1 .. Len(queue') : queue'[i] \notin armed'
    BY <1>3, <1>4, <1>7, <1>8 DEF Parties, OneParty
  <2>5. \A i, j \in 1 .. Len(queue') : queue'[i] = queue'[j] => i = j
    BY <1>3, <1>7, <1>8 DEF Parties, OneParty
  <2> QED  BY <2>1, <2>2, <2>3, <2>4, <2>5 DEF OneParty
<1>12. SomeParty'
  <2> SUFFICES ASSUME NEW d \in Conn, conn'[d] \in {"open", "erased"}, ~Refused', d \notin armed'
               PROVE  \/ \E i \in 1 .. Len(queue') : queue'[i] = d
                      \/ \E u \in Thread : Works(u, d)'
    BY DEF SomeParty
  <2>1. Refused' <=> Refused
    BY <1>4 DEF Refused, Pooled
  <2>2. Len(queue) + 1 \in 1 .. Len(queue') /\ \A i \in 1 .. Len(queue) : i \in 1 .. Len(queue')
    BY <1>3
  <2>3. \/ \E i \in 1 .. Len(queue) : queue[i] = d
        \/ \E u \in Thread : Works(u, d)
    BY <1>4, <2>1 DEF Parties, SomeParty
  <2>4. CASE d = c
    BY <1>3, <2>2, <2>4
  <2>5. CASE d # c
    BY <1>3, <1>5, <1>6, <2>2, <2>3, <2>5
  <2> QED  BY <2>4, <2>5
<1>13. Modes'
  <2>1. Pooled
    BY <1>1, ScenarioFields DEF Types, Modes, WorkerInv, CliInv, Pooled, Closing
  <2>2. PoolInv'
    BY <1>1, <1>2, <1>3, <1>4, <2>1 DEF Modes, PoolInv, Turn, Pooled, Over
  <2>3. WorkerInv' /\ CliInv' /\ DbInv'
    BY <1>4, <2>1 DEF Modes, Pooled, WorkerInv, CliInv, DbInv
  <2> QED  BY <2>2, <2>3 DEF Modes
<1> QED  BY <1>9, <1>10, <1>11, <1>12, <1>13 DEF Parties

(* Steps after which every connection has the parties it had.                *)
LEMMA PartiesKept ==
    ASSUME Types, Parties, ThreadConns', UNCHANGED <<scen, conn, armed, queue, estate>>,
           \A u \in Thread : \A d \in Conn :
              /\ Works(u, d)' <=> Works(u, d)
              /\ Works(u, d) => (th'[u].pc \in Closing <=> th[u].pc \in Closing)
    PROVE  Parties'
<1>1. ServedOpen'
  BY DEF Parties, ServedOpen
<1>2. OneParty'
  <2>1. armed \subseteq Conn
    BY DEF Types
  <2> QED  BY <2>1 DEF Parties, OneParty
<1>3. Refused' <=> Refused
  BY DEF Refused, Pooled
<1>4. SomeParty'
  BY <1>3 DEF Parties, SomeParty
<1> QED  BY <1>1, <1>2, <1>4 DEF Parties

LEMMA GrownControl ==
    ASSUME Types, Parties, NEW u \in Thread, Grown(u), NEW d \in Conn
    PROVE  /\ Works(u, d)' <=> Works(u, d)
           /\ Works(u, d) => (th'[u].pc \in Closing <=> th[u].pc \in Closing)
           /\ th'[u].pc = th[u].pc \/ (th[u].pc = "none" /\ th'[u].pc = "idle")
<1>1. CASE th'[u] = th[u]
  BY <1>1 DEF Works
<1>2. CASE th'[u] # th[u]
  <2>1. th[u].pc = "none" /\ th'[u].pc = "idle" /\ th'[u].conn = NoConn /\ "none" \in Free
    BY <1>2 DEF Grown, Free
  <2>2. th[u].conn = NoConn /\ NoConn \notin Conn
    BY <2>1, CardConn DEF Parties, ThreadConns, NoConn
  <2> QED  BY <2>1, <2>2 DEF Works
<1> QED  BY <1>1, <1>2

LEMMA GrownConns ==
    ASSUME Parties, NEW u \in Thread, Grown(u)
    PROVE  /\ th'[u].pc \in Free => th'[u].conn = NoConn
           /\ th'[u].pc = "loop" => th'[u].conn = Loop
           /\ th'[u].pc = "got" => th'[u].conn # NoConn
           /\ th'[u].pc \in Serving \cup Closing \cup {"count"} => th'[u].conn \in Conn
<1>1. CASE th'[u] = th[u]
  BY <1>1 DEF Parties, ThreadConns
<1>2. CASE th'[u] # th[u]
  BY <1>2 DEF Grown, Free, Serving, Closing
<1> QED  BY <1>1, <1>2

LEMMA StartControl ==
    ASSUME Types, Parties, Modes, CreateCore \/ ExtendForLoop
    PROVE  Parties' /\ Modes'
<1>1. /\ UNCHANGED <<scen, dbUp, netVars, running, poolVars>> /\ \A u \in Thread : Grown(u)
      /\ (main = "create" /\ main' = main) \/ (main = "count" /\ main' = "listen")
  BY CreateDo, ExtendForLoopDo DEF mainVars
<1>2. UNCHANGED <<scen, estate, dbUp, queue, armed, conn>>
  BY <1>1 DEF netVars, poolVars
<1>3. ThreadConns'
  BY <1>1, GrownConns DEF ThreadConns
<1>4. Parties'
  BY <1>1, <1>2, <1>3, GrownControl, PartiesKept
<1>5. Pooled
  BY <1>1, ScenarioFields DEF Types, Modes, WorkerInv, CliInv, Pooled, WorkerMain, CliMain
<1>6. \A u \in Thread : th'[u].pc = th[u].pc \/ (th[u].pc = "none" /\ th'[u].pc = "idle")
  BY <1>1 DEF Grown
<1>7. PoolInv'
  <2>1. \A u \in Thread : th[u].pc \in Free => th'[u].pc \in Free
    BY <1>6 DEF Free
  <2>2. \A u \in Thread : th[u].pc \notin {"poll", "line"} => th'[u].pc \notin {"poll", "line"}
    BY <1>6
  <2> QED  BY <1>1, <1>2, <1>5, <2>1, <2>2 DEF Modes, PoolInv, Pooled, Over, PoolMain
<1>8. WorkerInv' /\ CliInv' /\ DbInv'
  BY <1>1, <1>2, <1>5 DEF Modes, Pooled, WorkerInv, CliInv, DbInv
<1> QED  BY <1>4, <1>7, <1>8 DEF Modes

LEMMA ExtendControl ==
    ASSUME Types, Parties, Modes, NEW t \in Thread, LoopExtend(t)
    PROVE  Parties' /\ Modes'
<1>1. /\ UNCHANGED <<scen, mainVars, netVars, running, poolVars>>
      /\ th[t].pc = "count" /\ th'[t].pc = "loop" /\ th'[t].conn = Loop
      /\ \A u \in Thread : u # t => Grown(u)
  BY ExtendDo
<1>2. UNCHANGED <<scen, main, estate, dbUp, queue, armed, conn>>
  BY <1>1 DEF mainVars, netVars, poolVars
<1>3. ThreadConns'
  <2>1. \A u \in Thread : u # t =>
           /\ th'[u].pc \in Free => th'[u].conn = NoConn
           /\ th'[u].pc = "loop" => th'[u].conn = Loop
           /\ th'[u].pc = "got" => th'[u].conn # NoConn
           /\ th'[u].pc \in Serving \cup Closing \cup {"count"} => th'[u].conn \in Conn
    BY <1>1, GrownConns
  <2>2. "loop" \notin Free \cup Serving \cup Closing \cup {"count"}
    BY DEF Free, Serving, Closing
  <2> QED  BY <1>1, <2>1, <2>2 DEF ThreadConns
<1>4. Parties'
  <2>1. \A d \in Conn : ~Works(t, d) /\ ~Works(t, d)'
    BY <1>1, CardConn DEF Works, Loop
  <2>2. \A u \in Thread : \A d \in Conn :
              /\ Works(u, d)' <=> Works(u, d)
              /\ Works(u, d) => (th'[u].pc \in Closing <=> th[u].pc \in Closing)
    BY <1>1, <2>1, GrownControl
  <2> QED  BY <1>2, <1>3, <2>2, PartiesKept
<1>5. Pooled
  BY <1>1, ScenarioFields DEF Types, Modes, WorkerInv, CliInv, Pooled, Closing
<1>6. main \notin {"create", "submit"} \cup Over
  BY <1>1, <1>5 DEF Modes, PoolInv, Free
<1>7. PoolInv'
  <2>1. \A u \in Thread : th[u].pc \notin {"poll", "line"} => th'[u].pc \notin {"poll", "line"}
    BY <1>1 DEF Grown
  <2> QED  BY <1>2, <1>5, <1>6, <2>1 DEF Modes, PoolInv, Pooled, Over
<1>8. WorkerInv' /\ CliInv' /\ DbInv'
  BY <1>2, <1>5 DEF Modes, Pooled, WorkerInv, CliInv, DbInv
<1> QED  BY <1>4, <1>7, <1>8 DEF Modes

LEMMA SubmitControl ==
    ASSUME Types, Parties, Modes, SubmitLoop
    PROVE  Parties' /\ Modes'
<1>1. /\ UNCHANGED <<scen, started, signalled, dbUp, netVars, running, th, estate, armed, loopexit>>
      /\ main = "submit" /\ main' = "count"
      /\ Len(queue) \in Nat /\ Len(queue') = Len(queue) + 1 /\ queue'[Len(queue) + 1] = Loop
      /\ \A i \in 1 .. Len(queue) : queue'[i] = queue[i]
  BY SubmitDo
<1>2. UNCHANGED <<scen, estate, dbUp, th, armed, conn>> /\ armed \subseteq Conn
  BY <1>1 DEF netVars, Types
<1>3. Pooled
  BY <1>1, ScenarioFields DEF Types, Modes, WorkerInv, CliInv, Pooled, WorkerMain, CliMain
<1>4. queue = <<>> /\ \A t \in Thread : th[t].pc \in Free
  BY <1>1, <1>3 DEF Modes, PoolInv
<1>5. Len(queue) = 0
  BY <1>4
<1>6. /\ \A i \in 1 .. Len(queue') : queue'[i] = Loop /\ i = 1
      /\ \A i \in 1 .. Len(queue) : FALSE
      /\ Loop \notin Conn
  BY <1>1, <1>5, CardConn DEF Loop
<1>7. \A u \in Thread : \A d : Works(u, d)' <=> Works(u, d)
  BY <1>2 DEF Works
<1>8. Refused' <=> Refused
  BY <1>2 DEF Refused, Pooled
<1>9. Parties'
  <2>1. ThreadConns'
    BY <1>2 DEF Parties, ThreadConns
  <2>2. ServedOpen'
    BY <1>2, <1>6, <1>7 DEF Parties, ServedOpen
  <2>3. OneParty'
    BY <1>2, <1>6, <1>7 DEF Parties, OneParty
  <2>4. SomeParty'
    BY <1>2, <1>6, <1>7, <1>8 DEF Parties, SomeParty
  <2> QED  BY <2>1, <2>2, <2>3, <2>4 DEF Parties
<1>10. PoolInv'
  BY <1>1, <1>2, <1>3 DEF Modes, PoolInv, Pooled, Over, PoolMain
<1>11. WorkerInv' /\ CliInv' /\ DbInv'
  BY <1>1, <1>2, <1>3 DEF Modes, Pooled, WorkerInv, CliInv, DbInv
<1> QED  BY <1>9, <1>10, <1>11 DEF Modes

(* A connection is taken out of the map, and freed.                          *)
LEMMA EraseControl ==
    ASSUME Types, Parties, Modes, NEW t \in Thread, CloseErase(t)
    PROVE  Parties' /\ Modes'
<1> DEFINE c == th[t].conn
<1>1. th[t].pc = "close"
  BY DEF CloseErase
<1>2. c \in Conn /\ th[t].conn = c /\ "close" \notin Free /\ "closefd" \in Closing /\ "close" \notin Closing
  BY <1>1, WorksFor DEF Serving, Closing, Free
<1>3. /\ UNCHANGED <<scen, mainVars, client, fd, ring, sess, said, running, poolVars>>
      /\ Turn(t, "closefd", c, th[t].kind, th[t].rc, th[t].fd)
      /\ conn'[c] = "erased" /\ \A d \in Conn : d # c => conn'[d] = conn[d]
  BY <1>2, EraseDo
<1> HIDE DEF c
<1>4. UNCHANGED <<scen, main, estate, dbUp, queue, armed>> /\ armed \subseteq Conn
  BY <1>3 DEF mainVars, poolVars, Types
<1>5. /\ Works(t, c) /\ conn[c] = "open" /\ \A u \in Thread : Works(u, c) => u = t
      /\ c \notin armed /\ \A i \in 1 .. Len(queue) : queue[i] # c
  <2>1. Works(t, c)
    BY <1>1, <1>2 DEF Works
  <2> QED  BY <1>1, <1>2, <2>1 DEF Parties, ServedOpen, OneParty
<1>6. \A u \in Thread : \A d \in Conn :
         /\ Works(u, d)' <=> Works(u, d)
         /\ d # c /\ Works(u, d) => (th'[u].pc \in Closing <=> th[u].pc \in Closing)
  BY <1>1, <1>2, <1>3, <1>5 DEF Turn, Works
<1>7. ThreadConns'
  BY <1>2, <1>3 DEF Parties, ThreadConns, Turn, Free, Serving, Closing
<1>8. ServedOpen'
  <2>1. th'[t].pc = "closefd"
    BY <1>3 DEF Turn
  <2>2. \A u \in Thread : \A d \in Conn :
           Works(u, d)' => conn'[d] = IF th'[u].pc \in Closing THEN "erased" ELSE "open"
    <3> SUFFICES ASSUME NEW u \in Thread, NEW d \in Conn, Works(u, d)'
                 PROVE  conn'[d] = IF th'[u].pc \in Closing THEN "erased" ELSE "open"
      OBVIOUS
    <3>1. CASE d = c
      BY <1>2, <1>3, <1>5, <1>6, <2>1, <3>1
    <3>2. CASE d # c
      BY <1>3, <1>6, <3>2 DEF Parties, ServedOpen
    <3> QED  BY <3>1, <3>2
  <2>3. \A d \in armed' : conn'[d] = "open"
    BY <1>3, <1>4, <1>5 DEF Parties, ServedOpen
  <2>4. \A i \in 1 .. Len(queue') : \A d \in Conn : queue'[i] = d => conn'[d] = "open"
    BY <1>3, <1>4, <1>5 DEF Parties, ServedOpen
  <2> QED  BY <2>2, <2>3, <2>4 DEF ServedOpen
<1>9. OneParty'
  BY <1>4, <1>6 DEF Parties, OneParty
<1>10. SomeParty'
  <2>1. Refused' <=> Refused
    BY <1>4 DEF Refused, Pooled
  <2>2. \A d \in Conn : conn'[d] \in {"open", "erased"} => conn[d] \in {"open", "erased"}
    BY <1>3, <1>5
  <2> QED  BY <1>4, <1>6, <2>1, <2>2 DEF Parties, SomeParty
<1>11. Modes'
  <2>1. PoolInv'
    BY <1>1, <1>2, <1>3, <1>4 DEF Modes, PoolInv, Turn, Pooled, Over
  <2>2. WorkerInv'
    BY <1>1, <1>2, <1>3, <1>4 DEF Modes, WorkerInv, Turn
  <2>3. CliInv'
    BY <1>1, <1>2, <1>3, <1>4 DEF Modes, CliInv, Turn
  <2>4. DbInv'
    BY <1>4 DEF Modes, DbInv
  <2> QED  BY <2>1, <2>2, <2>3, <2>4 DEF Modes
<1> QED  BY <1>7, <1>8, <1>9, <1>10, <1>11 DEF Parties

(* Nobody looks after a connection any more, and it is freed.                *)
LEMMA FreedParties ==
    ASSUME Types, Parties, NEW t \in Thread, NEW c \in Conn, Works(t, c), NEW p \in {"none", "idle"}, NEW k, NEW r, NEW f,
           Turn(t, p, NoConn, k, r, f), UNCHANGED <<scen, estate, queue, armed>>,
           conn'[c] = "freed", \A d \in Conn : d # c => conn'[d] = conn[d]
    PROVE  Parties'
<1>1. /\ \A u \in Thread : Works(u, c) => u = t
      /\ c \notin armed /\ \A i \in 1 .. Len(queue) : queue[i] # c
  BY DEF Parties, OneParty
<1>2. NoConn \notin Conn /\ armed \subseteq Conn
  BY CardConn DEF NoConn, Types
<1>3. /\ \A d \in Conn : ~Works(t, d)' /\ (Works(t, d) => d = c)
      /\ \A u \in Thread : u # t => th'[u] = th[u] /\ \A d \in Conn : Works(u, d)' <=> Works(u, d)
  BY <1>2 DEF Turn, Works
<1>4. ThreadConns'
  BY DEF Parties, ThreadConns, Turn, Free, Serving, Closing
<1>5. ServedOpen'
  <2>1. \A u \in Thread : \A d \in Conn :
           Works(u, d)' => conn'[d] = IF th'[u].pc \in Closing THEN "erased" ELSE "open"
    BY <1>1, <1>3 DEF Parties, ServedOpen
  <2>2. \A d \in armed' : conn'[d] = "open"
    BY <1>1, <1>2 DEF Parties, ServedOpen
  <2>3. \A i \in 1 .. Len(queue') : \A d \in Conn : queue'[i] = d => conn'[d] = "open"
    BY <1>1 DEF Parties, ServedOpen
  <2> QED  BY <2>1, <2>2, <2>3 DEF ServedOpen
<1>6. OneParty'
  BY <1>2, <1>3 DEF Parties, OneParty
<1>7. SomeParty'
  <2>1. Refused' <=> Refused
    BY DEF Refused, Pooled
  <2> QED  BY <1>3, <2>1 DEF Parties, SomeParty
<1> QED  BY <1>4, <1>5, <1>6, <1>7 DEF Parties

LEMMA DeleteSessionControl ==
    ASSUME Types, Parties, Modes, NEW t \in Thread, DeleteSession(t)
    PROVE  Parties' /\ Modes'
<1> DEFINE c == th[t].conn
           p == IF Pooled THEN "idle" ELSE "none"
<1>1. th[t].pc = "delsession"
  BY DEF DeleteSession
<1>2. c \in Conn /\ "delsession" \notin Free /\ Works(t, c)
  BY <1>1, WorksFor DEF Closing, Free, Works
<1>3. /\ UNCHANGED <<scen, mainVars, client, fd, ring, said, running, poolVars>>
      /\ Turn(t, p, NoConn, "-", "-", 0)
      /\ conn'[c] = "freed" /\ \A d \in Conn : d # c => conn'[d] = conn[d]
  BY <1>2, DeleteSessionDo
<1>4. UNCHANGED <<scen, main, estate, dbUp, queue, armed>>
  BY <1>3 DEF mainVars, poolVars
<1>5. p \in {"none", "idle"} /\ (Pooled => p = "idle") /\ (~Pooled => p = "none")
  OBVIOUS
<1> HIDE DEF c, p
<1>6. Parties'
  BY <1>2, <1>3, <1>4, <1>5, FreedParties
<1>7. PoolInv'
  BY <1>1, <1>2, <1>3, <1>4, <1>5 DEF Modes, PoolInv, Turn, Pooled, Over, Free
<1>8. WorkerInv'
  BY <1>1, <1>3, <1>4, <1>5 DEF Modes, WorkerInv, Turn, Pooled
<1>9. CliInv'
  BY <1>1, <1>3, <1>4, <1>5 DEF Modes, CliInv, Turn, Pooled
<1>10. DbInv'
  BY <1>4 DEF Modes, DbInv
<1> QED  BY <1>6, <1>7, <1>8, <1>9, <1>10 DEF Modes

LEMMA CliEndControl ==
    ASSUME Types, Parties, Modes, CliEnd
    PROVE  Parties' /\ Modes'
<1>1. /\ UNCHANGED <<scen, signalled, dbUp, client, fd, ring, said, running, poolVars>>
      /\ main = "clirun" /\ main' = "cleanup" /\ 1 \in Thread /\ 1 \in Conn /\ th[1].pc \in {"line", "read"}
      /\ conn'[1] = "freed" /\ \A d \in Conn : d # 1 => conn'[d] = conn[d]
      /\ Turn(1, "none", NoConn, "-", "-", 0)
  BY CliEndDo
<1>2. UNCHANGED <<scen, estate, dbUp, queue, armed>>
  BY <1>1 DEF poolVars
<1>3. scen.handling = "cli"
  BY <1>1, ScenarioFields DEF Types, Modes, PoolInv, WorkerInv, Pooled, PoolMain, WorkerMain
<1>4. th[1].conn = 1 /\ Works(1, 1)
  BY <1>1, <1>3 DEF Modes, CliInv, Works
<1>5. Parties'
  BY <1>1, <1>2, <1>4, FreedParties
<1>6. CliInv'
  BY <1>1, <1>2, <1>3 DEF Modes, CliInv, Turn, CliMain, Over
<1>7. PoolInv' /\ WorkerInv' /\ DbInv'
  BY <1>1, <1>2, <1>3 DEF PoolInv, WorkerInv, Pooled, Modes, DbInv
<1> QED  BY <1>5, <1>6, <1>7 DEF Modes

(* A connection that nobody looked after gets a party.                       *)
LEMMA NobodyYet ==
    ASSUME Types, Parties, NEW c \in Conn, conn[c] \notin {"open", "erased"}
    PROVE  /\ \A t \in Thread : ~Works(t, c)
           /\ c \notin armed /\ \A i \in 1 .. Len(queue) : queue[i] # c
  BY DEF Parties, ServedOpen

LEMMA NewPartyThread ==
    ASSUME Types, Parties, NEW t \in Thread, NEW c \in Conn, conn[c] \in {"none", "pending"}, th[t].pc = "none",
           NEW p \in {"poll", "line"}, NEW k, NEW r, NEW f,
           Turn(t, p, c, k, r, f), UNCHANGED <<scen, estate, queue, armed>>,
           conn'[c] = "open", \A d \in Conn : d # c => conn'[d] = conn[d]
    PROVE  Parties'
<1>1. /\ \A u \in Thread : ~Works(u, c)
      /\ c \notin armed /\ \A i \in 1 .. Len(queue) : queue[i] # c
  BY NobodyYet
<1>2. armed \subseteq Conn /\ th[t].conn = NoConn /\ NoConn \notin Conn
  BY CardConn DEF NoConn, Types, Parties, ThreadConns, Free
<1>3. /\ \A d \in Conn : ~Works(t, d) /\ (Works(t, d)' <=> d = c)
      /\ \A u \in Thread : u # t => th'[u] = th[u] /\ \A d \in Conn : Works(u, d)' <=> Works(u, d)
  BY <1>2 DEF Turn, Works
<1>4. ThreadConns'
  BY DEF Parties, ThreadConns, Turn, Free, Serving, Closing
<1>5. ServedOpen'
  <2>1. \A u \in Thread : \A d \in Conn :
           Works(u, d)' => conn'[d] = IF th'[u].pc \in Closing THEN "erased" ELSE "open"
    <3> SUFFICES ASSUME NEW u \in Thread, NEW d \in Conn, Works(u, d)'
                 PROVE  conn'[d] = IF th'[u].pc \in Closing THEN "erased" ELSE "open"
      OBVIOUS
    <3>1. CASE u = t
      <4>1. d = c /\ th'[u].pc = p /\ p \notin Closing
        BY <1>3, <3>1 DEF Turn, Closing
      <4> QED  BY <4>1
    <3>2. CASE u # t
      BY <1>1, <1>3, <3>2 DEF Parties, ServedOpen
    <3> QED  BY <3>1, <3>2
  <2>2. \A d \in armed' : conn'[d] = "open"
    BY <1>1, <1>2 DEF Parties, ServedOpen
  <2>3. \A i \in 1 .. Len(queue') : \A d \in Conn : queue'[i] = d => conn'[d] = "open"
    BY <1>1 DEF Parties, ServedOpen
  <2> QED  BY <2>1, <2>2, <2>3 DEF ServedOpen
<1>6. OneParty'
  BY <1>1, <1>2, <1>3 DEF Parties, OneParty
<1>7. SomeParty'
  <2>1. Refused' <=> Refused
    BY DEF Refused, Pooled
  <2> QED  BY <1>3, <2>1 DEF Parties, SomeParty
<1> QED  BY <1>4, <1>5, <1>6, <1>7 DEF Parties

LEMMA CliStartControl ==
    ASSUME Types, Parties, Modes, CliStart
    PROVE  Parties' /\ Modes'
<1>1. /\ UNCHANGED <<scen, signalled, dbUp, client, fd, ring, sess, said, running, poolVars>>
      /\ main = "cli" /\ main' = "clirun" /\ 1 \in Thread /\ 1 \in Conn
      /\ conn'[1] = "open" /\ \A d \in Conn : d # 1 => conn'[d] = conn[d]
      /\ Turn(1, "line", 1, "-", "-", 0)
  BY CliStartDo
<1>2. UNCHANGED <<scen, estate, dbUp, queue, armed>>
  BY <1>1 DEF poolVars
<1>3. scen.handling = "cli"
  BY <1>1, ScenarioFields DEF Types, Modes, PoolInv, WorkerInv, Pooled, PoolMain, WorkerMain
<1>4. conn[1] = "none" /\ \A t \in Thread : th[t].pc = "none"
  BY <1>1, <1>3 DEF Modes, CliInv
<1>5. Parties'
  BY <1>1, <1>2, <1>4, NewPartyThread
<1>6. CliInv'
  BY <1>1, <1>2, <1>3, <1>4 DEF Modes, CliInv, Turn, CliMain, Over
<1>7. PoolInv' /\ WorkerInv' /\ DbInv'
  BY <1>1, <1>2, <1>3 DEF PoolInv, WorkerInv, Pooled, Modes, DbInv
<1> QED  BY <1>5, <1>6, <1>7 DEF Modes

LEMMA AcceptControl ==
    ASSUME Types, Parties, Modes, NEW c \in Conn, fd[c] = 0, Accept(c)
    PROVE  Parties' /\ Modes'
<1>1. /\ UNCHANGED <<scen, started, signalled, dbUp, sess, said, estate, queue, loopexit>>
      /\ main = "polling" /\ main' = "serve" /\ conn[c] = "pending"
      /\ conn'[c] = "open" /\ \A d \in Conn : d # c => conn'[d] = conn[d]
      /\ IF Pooled THEN armed' = armed \cup {c} /\ th' = th
         ELSE armed' = armed /\ c \in Thread /\ Turn(c, "poll", c, "-", "-", 0)
  BY AcceptDo
<1>2. UNCHANGED <<scen, estate, dbUp, queue>> /\ armed \subseteq Conn
  BY <1>1 DEF Types
<1>3. /\ \A u \in Thread : ~Works(u, c)
      /\ c \notin armed /\ \A i \in 1 .. Len(queue) : queue[i] # c
  BY <1>1, NobodyYet
<1>4. DbInv'
  BY <1>1, <1>2 DEF Modes, DbInv
<1>5. CASE Pooled
  <2>1. armed' = armed \cup {c} /\ th' = th /\ \A u \in Thread : \A d : Works(u, d)' <=> Works(u, d)
    BY <1>1, <1>5 DEF Works
  <2>2. ThreadConns'
    BY <2>1 DEF Parties, ThreadConns
  <2>3. ServedOpen'
    BY <1>1, <1>2, <1>3, <2>1 DEF Parties, ServedOpen
  <2>4. OneParty'
    BY <1>2, <1>3, <2>1 DEF Parties, OneParty
  <2>5. SomeParty'
    <3>1. Refused' <=> Refused
      BY <1>2 DEF Refused, Pooled
    <3> QED  BY <1>1, <1>2, <2>1, <3>1 DEF Parties, SomeParty
  <2>6. PoolInv'
    BY <1>1, <1>2, <1>5, <2>1 DEF Modes, PoolInv, Pooled, Over, PoolMain
  <2>7. WorkerInv' /\ CliInv'
    BY <1>2, <1>5 DEF WorkerInv, CliInv, Pooled
  <2> QED  BY <1>4, <2>2, <2>3, <2>4, <2>5, <2>6, <2>7 DEF Parties, Modes
<1>6. CASE ~Pooled
  <2>1. armed' = armed /\ c \in Thread /\ Turn(c, "poll", c, "-", "-", 0)
    BY <1>1, <1>6
  <2>2. scen.handling = "one-thread"
    BY <1>1, <1>6, ScenarioFields DEF Types, Modes, CliInv, Pooled, CliMain
  <2>3. th[c].pc = "none"
    BY <1>3, <2>1, <2>2 DEF Modes, WorkerInv, Works, Closing
  <2>4. Parties'
    BY <1>1, <1>2, <2>1, <2>3, NewPartyThread
  <2>5. WorkerInv'
    BY <1>1, <1>2, <2>1, <2>2 DEF Modes, WorkerInv, Turn, WorkerMain, Over
  <2>6. PoolInv' /\ CliInv'
    BY <1>2, <2>2 DEF PoolInv, CliInv, Pooled
  <2> QED  BY <1>4, <2>4, <2>5, <2>6 DEF Modes
<1> QED  BY <1>5, <1>6

(* The main thread goes on and nothing else happens to the connections.      *)
LEMMA MainControl ==
    ASSUME Types, Parties, Modes, MainOnly
    PROVE  Parties' /\ Modes'
<1>1. UNCHANGED <<scen, conn, th, queue, armed>>
  BY MainDo DEF netVars
<1>2. Modes' /\ (Refused => Refused')
  <2>1. scen.handling \in {"one-thread", "pool", "cli"}
    BY ScenarioFields DEF Types
  <2>2. CASE UNCHANGED <<main, estate, dbUp>>
    BY <1>1, <2>2 DEF Modes, PoolInv, WorkerInv, CliInv, DbInv, Pooled, Refused
  <2>3. CASE /\ UNCHANGED <<estate, dbUp>>
             /\ \/ main = "listen" /\ main' = "serve"
                \/ main = "serve" /\ main' \in {"polling", "stop"}
                \/ main = "polling" /\ main' = "serve"
                \/ main = "stop" /\ main' = "await" /\ ~Pooled
                \/ main = "stop" /\ main' = "shutdown" /\ Pooled
                \/ main = "return" /\ main' = "exited"
    <3>1. PoolInv' /\ (Refused => Refused')
      BY <1>1, <2>3 DEF Modes, PoolInv, Pooled, PoolMain, Over, Refused
    <3>2. WorkerInv'
      BY <1>1, <2>3 DEF Modes, WorkerInv, Pooled, WorkerMain, Over
    <3>3. CliInv'
      BY <1>1, <2>3 DEF Modes, CliInv, Pooled, CliMain, Over
    <3>4. DbInv'
      BY <1>1, <2>3 DEF Modes, DbInv
    <3> QED  BY <3>1, <3>2, <3>3, <3>4 DEF Modes
  <2>4. CASE /\ UNCHANGED dbUp
             /\ \/ main = "create" /\ main' = "submit" /\ estate' = "RUNNING"
                \/ main = "shutdown" /\ main' = "await" /\ estate' = "TERMINATING"
    <3>1. scen.handling = "pool"
      BY <2>1, <2>4 DEF Modes, WorkerInv, CliInv, WorkerMain, CliMain
    <3>2. PoolInv' /\ (Refused => Refused')
      BY <1>1, <2>4, <3>1 DEF Modes, PoolInv, Pooled, PoolMain, Over, Refused
    <3>3. WorkerInv' /\ CliInv' /\ DbInv'
      BY <1>1, <2>4, <3>1 DEF Modes, WorkerInv, CliInv, DbInv
    <3> QED  BY <3>2, <3>3 DEF Modes
  <2>5. CASE UNCHANGED estate /\ main = "cleanup" /\ main' = "return"
    <3>1. PoolInv' /\ (Refused => Refused')
      BY <1>1, <2>5 DEF Modes, PoolInv, Pooled, PoolMain, Over, Refused
    <3>2. WorkerInv'
      BY <1>1, <2>5 DEF Modes, WorkerInv, WorkerMain, Over
    <3>3. CliInv'
      BY <1>1, <2>5 DEF Modes, CliInv, CliMain, Over
    <3>4. DbInv'
      BY <2>5 DEF DbInv
    <3> QED  BY <3>1, <3>2, <3>3, <3>4 DEF Modes
  <2>6. \/ UNCHANGED <<main, estate, dbUp>>
        \/ /\ UNCHANGED <<estate, dbUp>>
           /\ \/ main = "listen" /\ main' = "serve"
              \/ main = "serve" /\ main' \in {"polling", "stop"}
              \/ main = "polling" /\ main' = "serve"
              \/ main = "stop" /\ main' = "await" /\ ~Pooled
              \/ main = "stop" /\ main' = "shutdown" /\ Pooled
              \/ main = "return" /\ main' = "exited"
        \/ /\ UNCHANGED dbUp
           /\ \/ main = "create" /\ main' = "submit" /\ estate' = "RUNNING"
              \/ main = "shutdown" /\ main' = "await" /\ estate' = "TERMINATING"
        \/ UNCHANGED estate /\ main = "cleanup" /\ main' = "return"
    BY DEF MainOnly, PoolRunning, Listen, Serve, PollTimeout, StopWorkers, StopLoop, StopPool, Cleanup,
           Return, Signal, poolVars
  <2> QED  BY <2>2, <2>3, <2>4, <2>5, <2>6
<1>3. \A u \in Thread : \A d : Works(u, d)' <=> Works(u, d)
  BY <1>1 DEF Works
<1>4. Parties'
  <2>1. ThreadConns'
    BY <1>1 DEF Parties, ThreadConns
  <2>2. ServedOpen'
    BY <1>1, <1>3 DEF Parties, ServedOpen
  <2>3. OneParty'
    <3>1. armed \subseteq Conn
      BY DEF Types
    <3> QED  BY <1>1, <1>3, <3>1 DEF Parties, OneParty
  <2>4. SomeParty'
    BY <1>1, <1>2, <1>3 DEF Parties, SomeParty
  <2> QED  BY <2>1, <2>2, <2>3, <2>4 DEF Parties
<1> QED  BY <1>2, <1>4

LEMMA ConnectControl ==
    ASSUME Types, Parties, Modes, NEW c \in Conn, Connect(c)
    PROVE  Parties' /\ Modes'
<1>1. /\ UNCHANGED <<scen, mainVars, client, fd, ring, sess, said, running, th, poolVars>>
      /\ conn[c] = "none" /\ scen.handling # "cli" /\ conn'[c] = "pending"
      /\ \A d \in Conn : d # c => conn'[d] = conn[d]
  BY ConnectDo
<1>2. UNCHANGED <<scen, main, estate, dbUp, queue, armed, th>> /\ armed \subseteq Conn
  BY <1>1 DEF mainVars, poolVars, Types
<1>3. /\ \A u \in Thread : ~Works(u, c)
      /\ c \notin armed /\ \A i \in 1 .. Len(queue) : queue[i] # c
  BY <1>1, NobodyYet
<1>4. \A u \in Thread : \A d : Works(u, d)' <=> Works(u, d)
  BY <1>2 DEF Works
<1>5. ThreadConns'
  BY <1>2 DEF Parties, ThreadConns
<1>6. ServedOpen'
  BY <1>1, <1>2, <1>3, <1>4 DEF Parties, ServedOpen
<1>7. OneParty'
  BY <1>2, <1>4 DEF Parties, OneParty
<1>8. SomeParty'
  <2>1. Refused' <=> Refused
    BY <1>2 DEF Refused, Pooled
  <2> QED  BY <1>1, <1>2, <1>4, <2>1 DEF Parties, SomeParty
<1>9. Modes'
  BY <1>1, <1>2 DEF Modes, PoolInv, WorkerInv, CliInv, DbInv, Pooled
<1> QED  BY <1>5, <1>6, <1>7, <1>8, <1>9 DEF Parties

(* The clients do nothing to the threads.                                    *)
LEMMA ControlKept ==
    ASSUME Types, Control, UNCHANGED <<scen, main, dbUp, conn, fd, th, estate, queue, armed>>
    PROVE  Control'
<1>1. \A u \in Thread : \A d : Works(u, d)' <=> Works(u, d)
  BY DEF Works
<1>2. Refused' <=> Refused
  BY DEF Refused, Pooled
<1>3. ThreadConns'
  BY DEF Control, ThreadConns
<1>4. ServedOpen'
  BY <1>1 DEF Control, ServedOpen
<1>5. OneParty'
  <2>1. armed \subseteq Conn
    BY DEF Types
  <2> QED  BY <1>1, <2>1 DEF Control, OneParty
<1>6. SomeParty'
  BY <1>1, <1>2 DEF Control, SomeParty
<1>7. PoolInv' /\ WorkerInv' /\ CliInv' /\ DbInv' /\ FdInv'
  BY DEF Control, PoolInv, WorkerInv, CliInv, DbInv, FdInv, Pooled
<1> QED  BY <1>3, <1>4, <1>5, <1>6, <1>7 DEF Control

(* The main thread waits until nobody works any more.                        *)
LEMMA PoolEmpty ==
    ASSUME Types, pool_size = 0
    PROVE  \A t \in Thread : th[t].pc = "none"
<1> DEFINE S == {t \in Thread : th[t].pc # "none"}
<1>1. IsFiniteSet(Thread)
  <2> DEFINE n == IF MaxPool > Cardinality(Conn) THEN MaxPool ELSE Cardinality(Conn)
  <2>1. n \in Nat /\ Thread = 1 .. n
    BY CardConn, ServerAssumption DEF Thread
  <2> HIDE DEF n
  <2> QED  BY <2>1, FS_Interval
<1>2. IsFiniteSet(S) /\ Cardinality(S) = 0
  BY <1>1, FS_Subset DEF pool_size
<1>3. S = {}
  BY <1>2, FS_EmptySet
<1> QED  BY <1>3

LEMMA AwaitControl ==
    ASSUME Types, Parties, Modes, AwaitStop
    PROVE  Parties' /\ Modes'
<1> DEFINE left == IF Pooled THEN {c \in Conn : conn[c] = "open"} ELSE {}
<1>1. /\ UNCHANGED <<scen, started, signalled, dbUp, client, said, running, th, estate, loopexit>>
      /\ main = "await" /\ main' = "cleanup" /\ Stopped /\ queue' = <<>> /\ armed' = armed \ left
      /\ \A c \in Conn : conn'[c] = IF c \in left THEN "freed" ELSE conn[c]
  BY AwaitStopDo
<1>2. UNCHANGED <<scen, estate, dbUp, th>> /\ queue' = <<>> /\ armed' \subseteq armed /\ armed \subseteq Conn
  BY <1>1 DEF Types
<1>3. Len(queue') = 0 /\ \A i \in 1 .. Len(queue') : FALSE
  BY <1>1
<1>4. \A u \in Thread : \A d : Works(u, d)' <=> Works(u, d)
  BY <1>2 DEF Works
<1>5. ThreadConns'
  BY <1>2 DEF Parties, ThreadConns
<1>6. OneParty'
  BY <1>2, <1>3, <1>4 DEF Parties, OneParty
<1>7. DbInv'
  BY <1>1 DEF Modes, DbInv
<1>8. CASE Pooled
  <2>1. \A t \in Thread : th[t].pc = "none" /\ th[t].conn = NoConn /\ NoConn \notin Conn
    BY <1>1, <1>8, PoolEmpty, CardConn DEF Stopped, Parties, ThreadConns, Free, NoConn
  <2>2. \A t \in Thread : \A d \in Conn : ~Works(t, d)'
    BY <1>4, <2>1 DEF Works
  <2>3. left = {c \in Conn : conn[c] = "open"}
    BY <1>8
  <2>4. armed' = {}
    BY <1>1, <1>2, <2>3 DEF Parties, ServedOpen
  <2>5. ServedOpen'
    BY <1>3, <2>2, <2>4 DEF ServedOpen
  <2>6. estate = "TERMINATING" /\ Refused'
    BY <1>1, <1>2, <1>8 DEF Modes, PoolInv, Refused, Pooled, Over
  <2>7. SomeParty'
    BY <2>6 DEF SomeParty
  <2>8. PoolInv'
    BY <1>1, <1>2, <1>8, <2>1, <2>6 DEF PoolInv, Pooled, Over, PoolMain, Modes
  <2>9. WorkerInv' /\ CliInv'
    BY <1>2, <1>8 DEF WorkerInv, CliInv, Pooled
  <2> QED  BY <1>5, <1>6, <1>7, <2>5, <2>7, <2>8, <2>9 DEF Parties, Modes
<1>9. CASE ~Pooled
  <2>1. left = {} /\ (\A c \in Conn : conn'[c] = conn[c]) /\ armed' = armed
    BY <1>1, <1>9
  <2>2. scen.handling = "one-thread"
    BY <1>1, <1>9, ScenarioFields DEF Types, Modes, CliInv, Pooled, CliMain
  <2>3. /\ queue = <<>> /\ armed = {} /\ \A c \in Conn : conn[c] # "open"
        /\ \A t \in Thread : /\ th[t].pc \in {"none", "poll", "read", "handle", "answer", "close"} \cup Closing
                             /\ th[t].pc # "none" => th[t].conn = t
    BY <1>1, <1>9, <2>2 DEF Stopped, Modes, WorkerInv
  <2>4. \A t \in Thread : th[t].pc \in {"none"} \cup Closing
    <3> SUFFICES ASSUME NEW t \in Thread, th[t].pc \notin {"none"} \cup Closing
                 PROVE  FALSE
      OBVIOUS
    <3>1. th[t].pc \in Serving /\ th[t].pc # "count"
      BY <2>3 DEF Serving, Closing
    <3>2. th[t].conn \in Conn /\ Works(t, th[t].conn)
      BY <3>1, WorksFor DEF Works
    <3> QED  BY <2>3, <3>2 DEF Parties, ServedOpen
  <2>5. Len(queue) = 0
    BY <2>3
  <2>6. ServedOpen'
    BY <1>2, <1>3, <1>4, <2>1 DEF Parties, ServedOpen
  <2>7. SomeParty'
    <3>1. Refused' <=> Refused
      BY <1>2 DEF Refused, Pooled
    <3>2. \A i \in 1 .. Len(queue) : FALSE
      BY <2>5
    <3> QED  BY <1>2, <1>4, <2>1, <3>1, <3>2 DEF Parties, SomeParty
  <2>8. WorkerInv'
    BY <1>1, <1>2, <2>1, <2>2, <2>3, <2>4 DEF WorkerInv, WorkerMain, Over
  <2>9. PoolInv' /\ CliInv'
    BY <1>2, <2>2 DEF PoolInv, CliInv, Pooled
  <2> QED  BY <1>5, <1>6, <1>7, <2>6, <2>7, <2>8, <2>9 DEF Parties, Modes
<1> QED  BY <1>8, <1>9

(* A socket number is given back, or kept.                                   *)
LEMMA FdKept ==
    ASSUME FdInv, \A c \in Conn : fd'[c] \in {0, fd[c]},
           \A c \in Conn : conn'[c] \in {"none", "pending"} => conn[c] \in {"none", "pending"}
    PROVE  FdInv'
  BY DEF FdInv

LEMMA AcceptFd ==
    ASSUME Types, FdInv, NEW c \in Conn, Accept(c)
    PROVE  fd[c] = 0 /\ FdInv'
<1>1. conn[c] = "pending"
  BY DEF Accept
<1>2. fd[c] = 0
  BY <1>1 DEF FdInv
<1>3. /\ conn'[c] = "open" /\ \A d \in Conn : d # c => conn'[d] = conn[d] /\ fd'[d] = fd[d]
      /\ \A d \in Conn : fd[d] # fd'[c]
  BY <1>2, AcceptDo
<1> QED  BY <1>2, <1>3 DEF FdInv

(* Every step keeps the control state.                                       *)
LEMMA ThreadControl ==
    ASSUME Types, Control, Bytes, NEW t \in Thread,
           WriteStep(t) \/ OtherStep(t) \/ Expire(t)
    PROVE  Types' /\ Control'
<1>0. Parties /\ Modes /\ FdInv
  BY DEF Control, Parties, Modes
<1>1. Types' /\ Parties' /\ Modes'
  <2>1. CASE RunTask(t) \/ PopNothing(t) \/ TryAgain(t) \/ Expire(t)
    BY <1>0, <2>1, FreeDo, FreeControl
  <2>2. CASE PollStopped(t) \/ PollError(t) \/ PollReady(t) \/ ReadClosed(t)
    BY <1>0, <2>2, PollDo, PollControl
  <2>3. CASE ThreadExit(t) \/ LoopEnd(t)
    BY <1>0, <2>3, ExitDo, LoopEndDo, IdleControl
  <2>4. CASE Pop(t)
    BY <1>0, <2>4, PopDo, PopControl
  <2>5. CASE \E c \in Conn : LoopDispatch(t, c)
    BY <1>0, <2>5, DispatchDo, DispatchControl
  <2>6. CASE LoopPush(t)
    <3>1. th[t].conn \in Conn
      BY <1>0, <2>6, WorksFor DEF LoopPush, Serving
    <3> QED  BY <1>0, <2>6, <3>1, PushDo, PushControl
  <2>7. CASE LoopExtend(t)
    BY <1>0, <2>7, ExtendDo, ExtendControl
  <2>8. CASE ReadRequest(t)
    <3>1. th[t].conn \in Conn
      BY <1>0, <2>8, WorksFor DEF ReadRequest, Serving
    <3> QED  BY <1>0, <2>8, <3>1, RequestDo, RequestControl
  <2>9. CASE ReadCommand(t)
    <3>1. th[t].conn \in Conn
      BY <1>0, <2>9, WorksFor DEF ReadCommand, Serving
    <3> QED  BY <1>0, <2>9, <3>1, CommandDo, CommandControl
  <2>10. CASE Handle(t)
    <3>1. th[t].pc = "handle" /\ th[t].conn \in Conn
      BY <1>0, <2>10, WorksFor DEF Handle, Serving
    <3>2. AtWork(th[t].conn)
      BY <3>1 DEF AtWork
    <3>3. client[th[t].conn].sent > 0 /\ th[t].kind \in Kinds \cup {"VERSION"}
      BY <3>1, <3>2 DEF Bytes, BytesOf, AskedInv, Busy, WorkInv
    <3> QED  BY <1>0, <2>10, <3>1, <3>3, HandleDo, HandleControl
  <2>11. CASE WriteResult(t)
    <3>1. th[t].pc = "answer" /\ th[t].conn \in Conn
      BY <1>0, <2>11, WorksFor DEF WriteResult, Serving
    <3>2. ~Runs(th[t].kind) => th[t].rc \in {"SUCCESS", "FAILURE"}
      BY <3>1 DEF Bytes, BytesOf, WorkInv
    <3> QED  BY <1>0, <2>11, <3>1, <3>2, ResultDo, ResultControl
  <2>12. CASE CloseErase(t)
    <3>1. th[t].conn \in Conn
      BY <1>0, <2>12, WorksFor DEF CloseErase, Serving
    <3> QED  BY <1>0, <2>12, <3>1, EraseDo, EraseControl
  <2>13. CASE CloseFd(t) \/ DeleteWriter(t)
    <3>1. th[t].conn \in Conn
      BY <1>0, <2>13, WorksFor DEF CloseFd, DeleteWriter, Closing
    <3> QED  BY <1>0, <2>13, <3>1, CloseFdDo, DeleteWriterDo, CloseControl
  <2>14. CASE DeleteSession(t)
    <3>1. th[t].conn \in Conn
      BY <1>0, <2>14, WorksFor DEF DeleteSession, Closing
    <3> QED  BY <1>0, <2>14, <3>1, DeleteSessionDo, DeleteSessionControl
  <2> QED  BY <2>1, <2>2, <2>3, <2>4, <2>5, <2>6, <2>7, <2>8, <2>9, <2>10, <2>11, <2>12, <2>13, <2>14
           DEF WriteStep, OtherStep
<1>2. FdInv'
  <2>1. CASE UNCHANGED <<conn, fd>>
    BY <1>0, <2>1, FdKept
  <2>2. CASE CloseErase(t)
    <3>1. th[t].conn \in Conn
      BY <1>0, <2>2, WorksFor DEF CloseErase, Serving
    <3>2. fd' = fd /\ \A d \in Conn : conn'[d] \in {"erased", conn[d]}
      BY <2>2, <3>1, EraseDo
    <3> QED  BY <1>0, <3>2, FdKept
  <2>3. CASE CloseFd(t)
    <3>1. th[t].conn \in Conn
      BY <1>0, <2>3, WorksFor DEF CloseFd, Closing
    <3>2. conn' = conn /\ \A d \in Conn : fd'[d] \in {0, fd[d]}
      BY <2>3, <3>1, CloseFdDo
    <3> QED  BY <1>0, <3>2, FdKept
  <2>4. CASE DeleteSession(t)
    <3>1. th[t].conn \in Conn
      BY <1>0, <2>4, WorksFor DEF DeleteSession, Closing
    <3>2. fd' = fd /\ \A d \in Conn : conn'[d] \in {"freed", conn[d]}
      BY <2>4, <3>1, DeleteSessionDo
    <3> QED  BY <1>0, <3>2, FdKept
  <2>5. UNCHANGED <<conn, fd>> \/ CloseErase(t) \/ CloseFd(t) \/ DeleteSession(t)
    BY DEF WriteStep, OtherStep, RunTask, PopNothing, TryAgain, Expire, PollStopped, PollError, PollReady, ReadClosed,
           ThreadExit, LoopEnd, Pop, LoopDispatch, LoopPush, LoopExtend, ReadRequest, ReadCommand, Handle,
           WriteResult, DeleteWriter, netVars
  <2> QED  BY <2>1, <2>2, <2>3, <2>4, <2>5
<1> QED  BY <1>1, <1>2 DEF Control, Parties, Modes

LEMMA MainStepControl ==
    ASSUME Types, Control, MainStep \/ Signal
    PROVE  Types' /\ Control'
<1>0. Parties /\ Modes /\ FdInv
  BY DEF Control, Parties, Modes
<1>1. Types' /\ Parties' /\ Modes'
  <2>1. CASE MainOnly
    BY <1>0, <2>1, MainDo, MainControl
  <2>2. CASE CreateCore \/ ExtendForLoop
    BY <1>0, <2>2, CreateDo, ExtendForLoopDo, StartControl
  <2>3. CASE SubmitLoop
    BY <1>0, <2>3, SubmitDo, SubmitControl
  <2>4. CASE \E c \in Conn : Accept(c)
    <3>1. PICK c \in Conn : Accept(c)
      BY <2>4
    <3>2. fd[c] = 0
      BY <1>0, <3>1, AcceptFd
    <3> QED  BY <1>0, <3>1, <3>2, AcceptDo, AcceptControl
  <2>5. CASE AwaitStop
    BY <1>0, <2>5, AwaitStopDo, AwaitControl
  <2>6. CASE CliStart
    BY <1>0, <2>6, CliStartDo, CliStartControl
  <2>7. CASE CliEnd
    BY <1>0, <2>7, CliEndDo, CliEndControl
  <2>8. CASE CliNext \/ CliNoLine
    BY <1>0, <2>8, LineDo, LineControl
  <2> QED  BY <2>1, <2>2, <2>3, <2>4, <2>5, <2>6, <2>7, <2>8 DEF MainStep, MainOnly
<1>2. FdInv'
  <2>1. CASE UNCHANGED <<conn, fd>>
    BY <1>0, <2>1, FdKept
  <2>2. CASE \E c \in Conn : Accept(c)
    BY <1>0, <2>2, AcceptFd
  <2>3. CASE AwaitStop
    <3>1. \A c \in Conn : fd'[c] \in {0, fd[c]} /\ conn'[c] \in {"freed", conn[c]}
      BY <2>3, AwaitStopDo
    <3> QED  BY <1>0, <3>1, FdKept
  <2>4. CASE CliStart
    <3>1. fd' = fd /\ \A c \in Conn : conn'[c] \in {"open", conn[c]}
      BY <2>4, CliStartDo
    <3> QED  BY <1>0, <3>1, FdKept
  <2>5. CASE CliEnd
    <3>1. fd' = fd /\ \A c \in Conn : conn'[c] \in {"freed", conn[c]}
      BY <2>5, CliEndDo
    <3> QED  BY <1>0, <3>1, FdKept
  <2>6. UNCHANGED <<conn, fd>> \/ (\E c \in Conn : Accept(c)) \/ AwaitStop \/ CliStart \/ CliEnd
    BY DEF MainStep, PoolRunning, Listen, Serve, PollTimeout, StopWorkers, StopLoop, StopPool, Cleanup, Return, Signal,
           CreateCore, ExtendForLoop, SubmitLoop, CliNext, CliNoLine, netVars
  <2> QED  BY <2>1, <2>2, <2>3, <2>4, <2>5, <2>6
<1> QED  BY <1>1, <1>2 DEF Control, Parties, Modes

LEMMA ClientControl ==
    ASSUME Types, Control, NEW c \in Conn, ClientStep(c)
    PROVE  Types' /\ Control'
<1>1. CASE Connect(c)
  <2>1. Parties /\ Modes /\ FdInv
    BY DEF Control, Parties, Modes
  <2>2. Types' /\ Parties' /\ Modes'
    BY <1>1, <2>1, ConnectDo, ConnectControl
  <2>3. fd' = fd /\ \A d \in Conn : conn'[d] \in {"none", "pending"} => conn[d] \in {"none", "pending"}
    BY <1>1, ConnectDo
  <2>4. FdInv'
    BY <2>1, <2>3, FdKept
  <2> QED  BY <2>2, <2>4 DEF Control, Parties, Modes
<1>2. CASE SendHalf(c) \/ ClientClose(c) \/ \E kind \in Requests : SendRest(c, kind)
  <2>1. Types' /\ UNCHANGED <<scen, mainVars, conn, fd, th, poolVars>>
    BY <1>2, SendHalfDo, LeaveDo, SendRestDo
  <2>2. UNCHANGED <<scen, main, dbUp, conn, fd, th, estate, queue, armed>>
    BY <2>1 DEF mainVars, poolVars
  <2> QED  BY <2>1, <2>2, ControlKept
<1> QED  BY <1>1, <1>2 DEF ClientStep

-----------------------------------------------------------------------------
(* The bytes.  What a step leaves of the client and of the threads that work *)
(* on a request of d: no request is taken up, answered or dropped.           *)
ClientSame(d) ==
    /\ client'[d].msg = client[d].msg /\ client'[d].sent = client[d].sent
    /\ client'[d].gone = client[d].gone /\ client'[d].got = client[d].got
    /\ client'[d].bad = "order" => client[d].bad = "order"
SeenWork(d) ==
    \A u \in Thread :
        /\ \A p \in {"handle", "answer"} :
              (th'[u].conn = d /\ th'[u].pc = p) <=> (th[u].conn = d /\ th[u].pc = p)
        /\ th[u].conn = d /\ th[u].pc \in {"handle", "answer"} =>
              th'[u].kind = th[u].kind /\ th'[u].rc = th[u].rc
Seen(d) ==
    /\ SeenWork(d)
    /\ \A u \in Thread : th[u].conn = d /\ th[u].pc = "close" => th'[u].conn = d /\ th'[u].pc = "close"

LEMMA SeenTurn ==
    ASSUME NEW t \in Thread, NEW p, NEW c, NEW k, NEW r, NEW f, Turn(t, p, c, k, r, f), NEW d,
           \/ th[t].conn # d /\ c # d
           \/ th[t].pc \notin {"handle", "answer", "close"} /\ p \notin {"handle", "answer"}
    PROVE  Seen(d)
<1>1. \A u \in Thread : u # t => th'[u] = th[u]
  BY DEF Turn
<1>2. th'[t].pc = p /\ th'[t].conn = c
  BY DEF Turn
<1> QED  BY <1>1, <1>2 DEF Seen, SeenWork

LEMMA SeenSame ==
    ASSUME th' = th, NEW d
    PROVE  Seen(d)
  BY DEF Seen, SeenWork

LEMMA SeenGrown ==
    ASSUME Parties, \A u \in Thread : Grown(u), NEW d \in Conn
    PROVE  Seen(d)
<1>1. \A u \in Thread : th'[u] = th[u] \/ (th[u].pc = "none" /\ th'[u].pc = "idle")
  BY DEF Grown
<1> QED  BY <1>1 DEF Seen, SeenWork

LEMMA SameWork ==
    ASSUME NEW d \in Conn, SeenWork(d), ClientSame(d)
    PROVE  (AtWork(d)' <=> AtWork(d)) /\ (Busy(d)' <=> Busy(d))
<1>1. AtWork(d)' <=> AtWork(d)
  BY DEF SeenWork, AtWork
<1> QED  BY <1>1 DEF Busy, ClientSame

(* A connection that is as it was, as far as its bytes go.                   *)
LEMMA QuietBytes ==
    ASSUME NEW d \in Conn, BytesOf(d), UNCHANGED scen, conn'[d] = conn[d], said'[d] = said[d], ring'[d] = ring[d],
           ClientSame(d), Seen(d)
    PROVE  BytesOf(d)'
<1>1. (AtWork(d)' <=> AtWork(d)) /\ (Busy(d)' <=> Busy(d))
  BY SameWork DEF Seen
<1>2. (Cut(d)' <=> Cut(d)) /\ (GivenUp(d) => GivenUp(d)')
  BY DEF Cut, GivenUp, Seen
<1>3. RingInv(d)'
  BY DEF BytesOf, RingInv, ClientSame
<1>4. AskedInv(d)'
  BY <1>1 DEF BytesOf, AskedInv, ClientSame
<1>5. WorkInv(d)'
  BY DEF BytesOf, WorkInv, ClientSame, Seen, SeenWork
<1>6. GotInv(d)'
  BY <1>1, <1>2 DEF BytesOf, GotInv, ClientSame
<1>7. OrderInv(d)'
  BY <1>2 DEF BytesOf, OrderInv, ClientSame
<1> QED  BY <1>3, <1>4, <1>5, <1>6, <1>7 DEF BytesOf

(* A connection that is given up.                                            *)
LEMMA FadeBytes ==
    ASSUME NEW d \in Conn, BytesOf(d), UNCHANGED scen, conn'[d] \in {"erased", "freed"}, said'[d] = said[d],
           ring'[d] \in {ring[d], EmptyRing}, ClientSame(d), SeenWork(d)
    PROVE  BytesOf(d)'
<1>1. (AtWork(d)' <=> AtWork(d)) /\ (Busy(d)' <=> Busy(d))
  BY SameWork
<1>2. Cut(d)' <=> Cut(d)
  BY DEF Cut
<1>3. RingInv(d)'
  <2>1. OwnRing(EmptyRing, d) /\ EmptyRing.size = 0
    BY EmptyRingType DEF OwnRing
  <2>2. CASE ring'[d] = ring[d]
    BY <2>2 DEF BytesOf, RingInv, ClientSame
  <2>3. CASE ring'[d] = EmptyRing
    BY <2>1, <2>3 DEF RingInv
  <2> QED  BY <2>2, <2>3
<1>4. AskedInv(d)'
  BY <1>1 DEF BytesOf, AskedInv, ClientSame
<1>5. WorkInv(d)'
  BY DEF BytesOf, WorkInv, ClientSame, SeenWork
<1>6. GotInv(d)'
  BY DEF GotInv
<1>7. OrderInv(d)'
  BY <1>2 DEF BytesOf, OrderInv, ClientSame
<1> QED  BY <1>3, <1>4, <1>5, <1>6, <1>7 DEF BytesOf

(* No other thread works for the connection of a thread.                     *)
LEMMA WorksAlone ==
    ASSUME Parties, NEW t \in Thread, NEW c \in Conn, th[t].conn = c, th[t].pc # "count"
    PROVE  \A u \in Thread : u # t /\ th[u].conn = c => th[u].pc = "count"
  BY DEF Parties, OneParty, Works

LEMMA NobodyWorks ==
    ASSUME Types, Parties, NEW c \in Conn, conn[c] \in {"none", "pending", "freed"}
    PROVE  \A u \in Thread : th[u].conn = c => th[u].pc = "count"
  BY DEF Parties, ServedOpen, Works

(* The steps that leave the bytes of every connection alone.                 *)
LEMMA IdleBytes ==
    ASSUME Bytes, UNCHANGED <<scen, client, conn, ring, said>>, \A d \in Conn : Seen(d)
    PROVE  Bytes'
<1> SUFFICES ASSUME NEW d \in Conn PROVE BytesOf(d)'
  BY DEF Bytes
<1>1. BytesOf(d) /\ ClientSame(d) /\ Seen(d)
  BY DEF Bytes, ClientSame
<1> QED  BY <1>1, QuietBytes

LEMMA ThreadIdleBytes ==
    ASSUME Types, Parties, Bytes, NEW t \in Thread,
           \/ RunTask(t) \/ PopNothing(t) \/ TryAgain(t) \/ Expire(t) \/ ThreadExit(t) \/ LoopEnd(t) \/ Pop(t)
           \/ (\E c \in Conn : LoopDispatch(t, c)) \/ LoopPush(t) \/ LoopExtend(t)
           \/ PollStopped(t) \/ PollError(t) \/ PollReady(t) \/ ReadClosed(t) \/ CloseFd(t)
    PROVE  UNCHANGED <<scen, client, conn, ring, sess, said>> /\ \A d \in Conn : Seen(d)
<1>1. CASE RunTask(t) \/ PopNothing(t) \/ TryAgain(t) \/ Expire(t)
  <2> DEFINE p == th'[t].pc
  <2>1. /\ UNCHANGED <<scen, mainVars, netVars, running, poolVars>>
        /\ Turn(t, p, th[t].conn, th[t].kind, th[t].rc, th[t].fd)
        /\ th[t].pc \notin {"handle", "answer", "close"} /\ p \notin {"handle", "answer"}
    BY <1>1, FreeDo
  <2> HIDE DEF p
  <2> QED  BY <2>1, SeenTurn DEF netVars
<1>2. CASE PollStopped(t) \/ PollError(t) \/ PollReady(t) \/ ReadClosed(t)
  <2> DEFINE p == th'[t].pc
  <2>1. /\ UNCHANGED <<scen, mainVars, netVars, running, poolVars>>
        /\ Turn(t, p, th[t].conn, th[t].kind, th[t].rc, th[t].fd)
        /\ th[t].pc \notin {"handle", "answer", "close"} /\ p \notin {"handle", "answer"}
    BY <1>2, PollDo
  <2> HIDE DEF p
  <2> QED  BY <2>1, SeenTurn DEF netVars
<1>3. CASE ThreadExit(t) \/ LoopEnd(t)
  <2>0. PICK p \in {"none", "idle"} : \E k, r, f :
           /\ UNCHANGED <<scen, mainVars, netVars, running, poolVars>>
           /\ Turn(t, p, NoConn, k, r, f) /\ th[t].pc \in {"leave", "loop"}
    BY <1>3, ExitDo, LoopEndDo
  <2>1. PICK k, r, f :
           /\ UNCHANGED <<scen, mainVars, netVars, running, poolVars>>
           /\ Turn(t, p, NoConn, k, r, f) /\ th[t].pc \in {"leave", "loop"}
    BY <2>0, Zenon
  <2> QED  BY <2>1, SeenTurn DEF netVars
<1>4. CASE Pop(t)
  <2>1. /\ UNCHANGED <<scen, netVars>>
        /\ Turn(t, "got", queue[1], th[t].kind, th[t].rc, th[t].fd) /\ th[t].pc = "idle"
    BY <1>4, PopDo
  <2> QED  BY <2>1, SeenTurn DEF netVars
<1>5. CASE \E c \in Conn : LoopDispatch(t, c)
  <2>1. PICK c \in Conn : LoopDispatch(t, c)
    BY <1>5
  <2>2. /\ UNCHANGED <<scen, netVars>> /\ th[t].pc = "loop"
        /\ Turn(t, "push", c, th[t].kind, th[t].rc, th[t].fd) \/ th' = th
    BY <2>1, DispatchDo
  <2> QED  BY <2>2, SeenTurn, SeenSame DEF netVars
<1>6. CASE LoopPush(t)
  <2>1. th[t].conn \in Conn
    BY <1>6, WorksFor DEF LoopPush, Serving
  <2>2. /\ UNCHANGED <<scen, netVars>> /\ th[t].pc = "push"
        /\ Turn(t, "count", th[t].conn, th[t].kind, th[t].rc, th[t].fd)
    BY <1>6, <2>1, PushDo
  <2> QED  BY <2>2, SeenTurn DEF netVars
<1>7. CASE LoopExtend(t)
  <2>1. /\ UNCHANGED <<scen, netVars>> /\ th[t].pc = "count" /\ th'[t].pc = "loop"
        /\ \A u \in Thread : u # t => Grown(u)
    BY <1>7, ExtendDo
  <2>2. \A u \in Thread : u # t => th'[u] = th[u] \/ (th[u].pc = "none" /\ th'[u].pc = "idle")
    BY <2>1 DEF Grown
  <2>3. \A d \in Conn : Seen(d)
    BY <2>1, <2>2 DEF Seen, SeenWork
  <2> QED  BY <2>1, <2>3 DEF netVars
<1>8. CASE CloseFd(t)
  <2>1. th[t].conn \in Conn
    BY <1>8, WorksFor DEF CloseFd, Closing
  <2>2. /\ UNCHANGED <<scen, client, conn, ring, sess, said>> /\ th[t].pc = "closefd"
        /\ Turn(t, "delwriter", th[t].conn, th[t].kind, th[t].rc, fd[th[t].conn])
    BY <1>8, <2>1, CloseFdDo
  <2> QED  BY <2>2, SeenTurn
<1> QED  BY <1>1, <1>2, <1>3, <1>4, <1>5, <1>6, <1>7, <1>8

LEMMA MainIdleBytes ==
    ASSUME Types, Parties, Bytes,
           MainOnly \/ CreateCore \/ ExtendForLoop \/ SubmitLoop \/ CliNext \/ CliNoLine
    PROVE  UNCHANGED <<scen, client, conn, ring, sess, said>> /\ \A d \in Conn : Seen(d)
<1>1. CASE MainOnly
  <2>1. UNCHANGED <<scen, netVars, th>>
    BY <1>1, MainDo
  <2> QED  BY <2>1, SeenSame DEF netVars
<1>2. CASE CreateCore \/ ExtendForLoop
  <2>1. UNCHANGED <<scen, netVars>> /\ \A u \in Thread : Grown(u)
    BY <1>2, CreateDo, ExtendForLoopDo
  <2> QED  BY <2>1, SeenGrown DEF netVars
<1>3. CASE SubmitLoop
  <2>1. UNCHANGED <<scen, netVars, th>>
    BY <1>3, SubmitDo
  <2> QED  BY <2>1, SeenSame DEF netVars
<1>4. CASE CliNext \/ CliNoLine
  <2> DEFINE p == th'[1].pc
  <2>1. /\ UNCHANGED <<scen, mainVars, netVars, running, poolVars>> /\ 1 \in Thread
        /\ Turn(1, p, th[1].conn, th[1].kind, th[1].rc, th[1].fd)
        /\ th[1].pc \notin {"handle", "answer", "close"} /\ p \notin {"handle", "answer"}
    BY <1>4, LineDo
  <2> HIDE DEF p
  <2> QED  BY <2>1, SeenTurn DEF netVars
<1> QED  BY <1>1, <1>2, <1>3, <1>4

(* The end of a connection.                                                  *)
LEMMA EraseBytes ==
    ASSUME Types, Parties, Bytes, NEW t \in Thread, CloseErase(t)
    PROVE  Bytes'
<1> DEFINE c == th[t].conn
<1>1. c \in Conn
  BY WorksFor DEF CloseErase, Serving
<1>2. /\ UNCHANGED <<scen, client, ring, said>>
      /\ th[t].pc = "close" /\ Turn(t, "closefd", c, th[t].kind, th[t].rc, th[t].fd)
      /\ conn'[c] = "erased" /\ \A d \in Conn : d # c => conn'[d] = conn[d]
  BY <1>1, EraseDo
<1>3. SeenWork(c)
  BY <1>2 DEF Turn, SeenWork
<1> SUFFICES ASSUME NEW d \in Conn PROVE BytesOf(d)'
  BY DEF Bytes
<1>4. BytesOf(d) /\ ClientSame(d)
  BY <1>2 DEF Bytes, ClientSame
<1>5. CASE d = c
  BY <1>1, <1>2, <1>3, <1>4, <1>5, FadeBytes
<1>6. CASE d # c
  <2>1. Seen(d)
    BY <1>2, <1>6, SeenTurn
  <2> QED  BY <1>2, <1>4, <1>6, <2>1, QuietBytes
<1> QED  BY <1>5, <1>6

LEMMA DeleteSessionBytes ==
    ASSUME Types, Parties, Bytes, NEW t \in Thread, DeleteSession(t)
    PROVE  Bytes'
<1> DEFINE c == th[t].conn
           p == IF Pooled THEN "idle" ELSE "none"
<1>1. c \in Conn
  BY WorksFor DEF DeleteSession, Closing
<1>2. /\ UNCHANGED <<scen, client, ring, said>>
      /\ th[t].pc = "delsession" /\ Turn(t, p, NoConn, "-", "-", 0)
      /\ conn'[c] = "freed" /\ \A d \in Conn : d # c => conn'[d] = conn[d]
  BY <1>1, DeleteSessionDo
<1>3. p \notin {"handle", "answer"} /\ th[t].pc \notin {"handle", "answer", "close"}
  BY <1>2
<1> HIDE DEF p
<1> SUFFICES ASSUME NEW d \in Conn PROVE BytesOf(d)'
  BY DEF Bytes
<1>4. BytesOf(d) /\ ClientSame(d)
  BY <1>2 DEF Bytes, ClientSame
<1>5. Seen(d) /\ SeenWork(d)
  BY <1>2, <1>3, SeenTurn DEF Seen
<1>6. CASE d = c
  BY <1>2, <1>4, <1>5, <1>6, FadeBytes
<1>7. CASE d # c
  BY <1>2, <1>4, <1>5, <1>7, QuietBytes
<1> QED  BY <1>6, <1>7

LEMMA CliEndBytes ==
    ASSUME Types, Parties, Bytes, CliEnd
    PROVE  Bytes'
<1>1. /\ UNCHANGED <<scen, client, ring, said>> /\ 1 \in Thread /\ th[1].pc \in {"line", "read"}
      /\ conn'[1] = "freed" /\ \A d \in Conn : d # 1 => conn'[d] = conn[d]
      /\ Turn(1, "none", NoConn, "-", "-", 0)
  BY CliEndDo
<1> SUFFICES ASSUME NEW d \in Conn PROVE BytesOf(d)'
  BY DEF Bytes
<1>2. BytesOf(d) /\ ClientSame(d)
  BY <1>1 DEF Bytes, ClientSame
<1>3. th[1].pc \notin {"handle", "answer", "close"} /\ "none" \notin {"handle", "answer"}
  BY <1>1
<1>4. Seen(d) /\ SeenWork(d)
  BY <1>1, <1>3, SeenTurn DEF Seen
<1>5. CASE d = 1
  BY <1>1, <1>2, <1>4, <1>5, FadeBytes
<1>6. CASE d # 1
  BY <1>1, <1>2, <1>4, <1>6, QuietBytes
<1> QED  BY <1>5, <1>6

LEMMA AwaitBytes ==
    ASSUME Types, Parties, Bytes, AwaitStop
    PROVE  Bytes'
<1> DEFINE left == IF Pooled THEN {c \in Conn : conn[c] = "open"} ELSE {}
<1>1. /\ UNCHANGED <<scen, client, said, th>>
      /\ \A c \in Conn : /\ conn'[c] = IF c \in left THEN "freed" ELSE conn[c]
                         /\ ring'[c] = IF c \in left THEN EmptyRing ELSE ring[c]
  BY AwaitStopDo
<1> HIDE DEF left
<1> SUFFICES ASSUME NEW d \in Conn PROVE BytesOf(d)'
  BY DEF Bytes
<1>2. BytesOf(d) /\ ClientSame(d)
  BY <1>1 DEF Bytes, ClientSame
<1>3. Seen(d) /\ SeenWork(d)
  BY <1>1, SeenSame DEF Seen
<1>4. CASE d \in left
  BY <1>1, <1>2, <1>3, <1>4, FadeBytes
<1>5. CASE d \notin left
  BY <1>1, <1>2, <1>3, <1>5, QuietBytes
<1> QED  BY <1>4, <1>5

(* The last flush: what it sends to another's socket is not in its order,    *)
(* but that client can tell it from an answer.                               *)
LEMMA StrayClient ==
    ASSUME Types, Bytes, NEW t \in Thread, NEW c \in Conn, th[t].conn = c, DeleteWriter(t)
    PROVE  \A d \in Conn :
              /\ ClientSame(d)
              /\ client'[d].bad = "foreign" /\ client[d].bad # "foreign" => th[t].fd = fd[d] /\ client[c].gone
<1>1. PICK out \in Seq(Byte) :
         /\ ring[c].size = 0 => out = <<>>
         /\ \A x : OwnRing(ring[c], x) => \A i \in 1 .. Len(out) : out[i][1] = x
         /\ \A d \in Conn : client'[d] = IF fd[d] = th[t].fd THEN Deliver(client[d], d, out) ELSE client[d]
  BY DeleteWriterDo
<1>2. OwnRing(ring[c], c) /\ (~client[c].gone => ring[c].size = 0)
  BY DEF Bytes, BytesOf, RingInv
<1>3. \A i \in 1 .. Len(out) : out[i][1] = c
  BY <1>1, <1>2
<1> SUFFICES ASSUME NEW d \in Conn
             PROVE  /\ ClientSame(d)
                    /\ client'[d].bad = "foreign" /\ client[d].bad # "foreign" => th[t].fd = fd[d] /\ client[c].gone
  OBVIOUS
<1>4. CASE client'[d] = client[d]
  BY <1>4 DEF ClientSame
<1>5. CASE client'[d] # client[d]
  <2>1. client[d] \in Client /\ fd[d] = th[t].fd /\ client'[d] = Deliver(client[d], d, out)
    BY <1>1, <1>5 DEF Types
  <2>2. ~client[d].gone /\ out # <<>>
    BY <1>5, <2>1, DeliverClient
  <2>3. client[c].gone /\ d # c
    BY <1>1, <1>2, <2>2
  <2>4. 1 \in 1 .. Len(out)
    BY <2>2
  <2>5. out[1][1] # d
    BY <1>3, <2>3, <2>4
  <2> DEFINE e == Deliver(client[d], d, out)
  <2>6. /\ e.msg = client[d].msg /\ e.sent = client[d].sent /\ e.gone = client[d].gone /\ e.got = client[d].got
        /\ e.bad # "order" \/ client[d].bad = "order"
    BY <2>1, <2>2, <2>5, DeliverClient
  <2>7. client'[d] = e
    BY <2>1
  <2> HIDE DEF e
  <2> QED  BY <2>1, <2>3, <2>6, <2>7 DEF ClientSame
<1> QED  BY <1>4, <1>5

LEMMA DeleteWriterBytes ==
    ASSUME Types, Parties, Bytes, NEW t \in Thread, DeleteWriter(t)
    PROVE  Bytes'
<1> DEFINE c == th[t].conn
<1>1. c \in Conn /\ th[t].pc \in Closing /\ Works(t, c)
  BY WorksFor DEF DeleteWriter, Closing, Works
<1>2. /\ UNCHANGED <<scen, conn, said>>
      /\ th[t].pc = "delwriter" /\ Turn(t, "delsession", c, th[t].kind, th[t].rc, 0)
      /\ ring'[c] = EmptyRing /\ \A d \in Conn : d # c => ring'[d] = ring[d]
  BY <1>1, DeleteWriterDo
<1>3. conn[c] = "erased"
  BY <1>1 DEF Parties, ServedOpen
<1> SUFFICES ASSUME NEW d \in Conn PROVE BytesOf(d)'
  BY DEF Bytes
<1>4. BytesOf(d) /\ ClientSame(d)
  BY <1>1, StrayClient DEF Bytes
<1>5. Seen(d) /\ SeenWork(d)
  BY <1>2, SeenTurn DEF Seen
<1>6. CASE d = c
  BY <1>2, <1>3, <1>4, <1>5, <1>6, FadeBytes
<1>7. CASE d # c
  BY <1>2, <1>4, <1>5, <1>7, QuietBytes
<1> QED  BY <1>6, <1>7

(* What a write to its own socket does for a connection.                     *)
LEMMA WroteBytes ==
    ASSUME Types, NEW c \in Conn, RingInv(c), NEW cl \in Client, cl.sent = client[c].sent, cl.gone = client[c].gone,
           NEW bytes \in Seq(Byte), \A i \in 1 .. Len(bytes) : bytes[i][1] = c, Wrote(c, cl, bytes)
    PROVE  /\ RingInv(c)'
           /\ client'[c].gone = cl.gone /\ client'[c].msg = cl.msg /\ client'[c].sent = cl.sent
           /\ cl.gone => client'[c] = cl
           /\ ~cl.gone => client'[c] = Deliver(cl, c, bytes)
           /\ client'[c].bad = "foreign" => cl.bad = "foreign"
<1>1. PICK up \in Up(c) :
         /\ client' = [client EXCEPT ![c] = Deliver(cl, c, Send(ring[c], bytes, up).out)]
         /\ ring' = [ring EXCEPT ![c] = Send(ring[c], bytes, up).ring]
  BY DEF Wrote
<1>2. up \in BOOLEAN /\ (~client[c].gone => up)
  BY UpBoolean
<1>3. ring[c] \in Ring /\ client \in [Conn -> Client] /\ ring \in [Conn -> Ring]
  BY DEF Types
<1> DEFINE w == Send(ring[c], bytes, up)
<1>4. /\ w.ring \in Ring /\ w.out \in Seq(Byte)
      /\ OwnRing(w.ring, c) /\ \A i \in 1 .. Len(w.out) : w.out[i][1] = c
      /\ up => w.ring.size = 0
  BY <1>2, <1>3, SendOwn DEF RingInv
<1>5. ~cl.gone => w.out = bytes
  <2> SUFFICES ASSUME ~cl.gone PROVE w.out = bytes
    OBVIOUS
  <2>1. up = TRUE /\ ring[c].size = 0
    BY <1>2 DEF RingInv
  <2> QED  BY <1>3, <2>1, SendWhole
<1>6. client'[c] = Deliver(cl, c, w.out) /\ ring'[c] = w.ring
  BY <1>1, <1>3
<1> HIDE DEF w
<1> DEFINE e == Deliver(cl, c, w.out)
<1>7. /\ e.msg = cl.msg /\ e.sent = cl.sent /\ e.gone = cl.gone /\ (cl.gone \/ w.out = <<>> => e = cl)
      /\ w.out # <<>> /\ w.out[1][1] = c => e.bad # "foreign" \/ cl.bad = "foreign"
  BY <1>4, DeliverClient
<1>8. w.out # <<>> => w.out[1][1] = c
  <2> SUFFICES ASSUME w.out # <<>> PROVE w.out[1][1] = c
    OBVIOUS
  <2>1. 1 \in 1 .. Len(w.out)
    BY <1>4
  <2> QED  BY <1>4, <2>1
<1>9. client'[c] = e
  BY <1>6
<1>10. ~cl.gone => e = Deliver(cl, c, bytes)
  BY <1>5
<1> HIDE DEF e
<1>11. RingInv(c)'
  BY <1>2, <1>4, <1>6, <1>7, <1>9 DEF RingInv
<1> QED  BY <1>7, <1>8, <1>9, <1>10, <1>11

(* A connection comes.                                                       *)
LEMMA ConnectBytes ==
    ASSUME Types, Bytes, NEW c \in Conn, Connect(c)
    PROVE  Bytes'
<1>1. /\ UNCHANGED <<scen, client, ring, said, th>>
      /\ conn[c] = "none" /\ conn'[c] = "pending"
      /\ \A d \in Conn : d # c => conn'[d] = conn[d]
  BY ConnectDo
<1> SUFFICES ASSUME NEW d \in Conn PROVE BytesOf(d)'
  BY DEF Bytes
<1>2. BytesOf(d) /\ ClientSame(d) /\ Seen(d)
  BY <1>1, SeenSame DEF Bytes, ClientSame
<1>3. CASE d # c
  BY <1>1, <1>2, <1>3, QuietBytes
<1>4. CASE d = c
  <2>1. Busy(c)' <=> Busy(c)
    BY <1>1 DEF Busy, AtWork
  <2>2. Cut(c)' <=> Cut(c)
    BY <1>1 DEF Cut
  <2>3. RingInv(c)' /\ WorkInv(c)' /\ OrderInv(c)'
    BY <1>1, <1>2, <1>4, <2>2 DEF BytesOf, RingInv, WorkInv, OrderInv
  <2>4. AskedInv(c)'
    BY <1>1, <1>2, <1>4, <2>1 DEF BytesOf, AskedInv
  <2>5. GotInv(c)'
    BY <1>1, <1>2, <1>4 DEF BytesOf, GotInv
  <2> QED  BY <1>4, <2>3, <2>4, <2>5 DEF BytesOf
<1> QED  BY <1>3, <1>4

LEMMA NotBusyYet ==
    ASSUME Types, Parties, NEW c \in Conn, BytesOf(c), conn[c] \in {"none", "pending"}
    PROVE  /\ client[c].sent = 0 /\ client[c].msg = "none" /\ ~AtWork(c) /\ ~Busy(c)
           /\ ~client[c].gone => /\ client[c].got[1] = IF scen.protocol = "mysql" THEN -1 ELSE 0
                                 /\ client[c].got[3]
<1>1. /\ client[c].sent = 0 /\ client[c].msg = "none"
      /\ ~client[c].gone => client[c].got = <<IF scen.protocol = "mysql" THEN -1 ELSE 0, 0, TRUE>>
  BY DEF BytesOf, AskedInv, GotInv
<1>2. ~AtWork(c)
  BY NobodyWorks DEF AtWork
<1>3. ASSUME ~client[c].gone
      PROVE  /\ client[c].got[1] = IF scen.protocol = "mysql" THEN -1 ELSE 0
             /\ client[c].got[3]
  <2> DEFINE x == IF scen.protocol = "mysql" THEN -1 ELSE 0
             b == TRUE
  <2>1. client[c].got = <<x, 0, b>> /\ b
    BY <1>1, <1>3
  <2> HIDE DEF x, b
  <2>2. client[c].got[1] = x /\ client[c].got[3] = b
    BY <2>1
  <2> QED  BY <2>1, <2>2 DEF x
<1> QED  BY <1>1, <1>2, <1>3 DEF Busy

LEMMA CliStartBytes ==
    ASSUME Types, Parties, Modes, Bytes, CliStart
    PROVE  Bytes'
<1>1. /\ UNCHANGED <<scen, client, ring, said>>
      /\ main = "cli" /\ 1 \in Thread /\ 1 \in Conn
      /\ conn'[1] = "open" /\ \A d \in Conn : d # 1 => conn'[d] = conn[d]
      /\ Turn(1, "line", 1, "-", "-", 0)
  BY CliStartDo
<1>2. scen.handling = "cli" /\ scen.protocol = "cli"
  BY <1>1, ScenarioFields DEF Types, Modes, PoolInv, WorkerInv, Pooled, PoolMain, WorkerMain
<1>3. conn[1] = "none" /\ th[1].pc = "none"
  BY <1>1, <1>2 DEF Modes, CliInv
<1> SUFFICES ASSUME NEW d \in Conn PROVE BytesOf(d)'
  BY DEF Bytes
<1>4. BytesOf(d) /\ ClientSame(d)
  BY <1>1 DEF Bytes, ClientSame
<1>5. Seen(d) /\ SeenWork(d)
  BY <1>1, <1>3, SeenTurn DEF Seen
<1>6. CASE d # 1
  BY <1>1, <1>4, <1>5, <1>6, QuietBytes
<1>7. CASE d = 1
  <2>1. /\ client[1].sent = 0 /\ client[1].msg = "none" /\ ~Busy(1)
        /\ ~client[1].gone => client[1].got[1] = 0 /\ client[1].got[3]
    BY <1>1, <1>2, <1>3, <1>4, <1>7, NotBusyYet
  <2>2. (AtWork(1)' <=> AtWork(1)) /\ (Busy(1)' <=> Busy(1))
    BY <1>1, <1>4, <1>5, <1>7, SameWork
  <2>3. Cut(1)' <=> Cut(1)
    BY <1>1 DEF Cut
  <2>4. RingInv(1)' /\ OrderInv(1)'
    BY <1>1, <1>4, <1>7, <2>3 DEF BytesOf, RingInv, OrderInv
  <2>5. AskedInv(1)'
    BY <1>1, <1>4, <1>7, <2>2 DEF BytesOf, AskedInv
  <2>6. WorkInv(1)'
    BY <1>1, <1>4, <1>5, <1>7 DEF BytesOf, WorkInv, SeenWork
  <2>7. GotInv(1)'
    BY <1>1, <2>1, <2>2 DEF GotInv
  <2> QED  BY <1>7, <2>4, <2>5, <2>6, <2>7 DEF BytesOf
<1> QED  BY <1>6, <1>7

LEMMA AcceptBytes ==
    ASSUME Types, Parties, Modes, Bytes, NEW c \in Conn, fd[c] = 0, Accept(c)
    PROVE  Bytes' /\ \A d \in Conn : client'[d].bad = "foreign" => client[d].bad = "foreign"
<1>1. /\ UNCHANGED <<scen, said>> /\ main = "polling" /\ conn[c] = "pending"
      /\ conn'[c] = "open" /\ \A d \in Conn : d # c => conn'[d] = conn[d]
      /\ Wrote(c, client[c], Greeting(scen.protocol, c)) /\ Greeting(scen.protocol, c) \in Seq(Byte)
      /\ IF Pooled THEN th' = th ELSE c \in Thread /\ Turn(c, "poll", c, "-", "-", 0)
  BY AcceptDo
<1>2. client[c] \in Client /\ c \in Int
  BY CardConn DEF Types
<1>3. \A d \in Conn : d # c => client'[d] = client[d] /\ ring'[d] = ring[d]
  BY <1>1, <1>2, WroteDo
<1>4. \A d \in Conn : Seen(d)
  <2>1. CASE Pooled
    BY <1>1, <2>1, SeenSame
  <2>2. CASE ~Pooled
    <3>1. scen.handling = "one-thread"
      BY <1>1, <2>2, ScenarioFields DEF Types, Modes, CliInv, Pooled, CliMain
    <3>2. c \in Thread /\ Turn(c, "poll", c, "-", "-", 0)
      BY <1>1, <2>2
    <3>3. \A u \in Thread : ~Works(u, c)
      BY <1>1, NobodyYet
    <3>4. th[c].pc = "none"
      BY <3>1, <3>2, <3>3 DEF Modes, WorkerInv, Works, Closing
    <3> QED  BY <3>2, <3>4, SeenTurn
  <2> QED  BY <2>1, <2>2
<1>5. BytesOf(c) /\ RingInv(c)
  BY DEF Bytes, BytesOf
<1>6. /\ client[c].sent = 0 /\ client[c].msg = "none" /\ ~AtWork(c) /\ ~Busy(c)
      /\ ~client[c].gone => /\ client[c].got[1] = IF scen.protocol = "mysql" THEN -1 ELSE 0
                            /\ client[c].got[3]
  BY <1>1, <1>5, NotBusyYet
<1> DEFINE g == Greeting(scen.protocol, c)
<1>7. (scen.protocol = "mysql" => g = Answer(c, 0, 1, TRUE)) /\ (scen.protocol # "mysql" => g = <<>>)
  BY DEF Greeting
<1>8. /\ \A i \in 1 .. Len(g) : g[i][1] = c
      /\ scen.protocol = "mysql" => AnswerTo(g, c, 0, TRUE)
  <2>1. CASE scen.protocol = "mysql"
    <3>1. 0 \in Int /\ 1 \in Nat \ {0}
      OBVIOUS
    <3>2. AnswerTo(Answer(c, 0, 1, TRUE), c, 0, TRUE)
      BY <1>2, <3>1, AnswerArrives, Zenon
    <3>3. AnswerTo(g, c, 0, TRUE)
      BY <1>7, <2>1, <3>2, Zenon
    <3> HIDE DEF g
    <3> QED  BY <3>3, Zenon DEF AnswerTo
  <2>2. CASE scen.protocol # "mysql"
    <3>1. g = <<>>
      BY <1>7, <2>2, Zenon
    <3> HIDE DEF g
    <3>2. \A i \in 1 .. Len(g) : g[i][1] = c
      BY <3>1
    <3> QED  BY <2>2, <3>2, Zenon
  <2> QED  BY <2>1, <2>2
<1>9. g \in Seq(Byte) /\ Wrote(c, client[c], g)
  BY <1>1
<1> HIDE DEF g
<1>10. /\ RingInv(c)' /\ client'[c].gone = client[c].gone /\ client'[c].msg = "none" /\ client'[c].sent = 0
       /\ client[c].gone => client'[c] = client[c]
       /\ ~client[c].gone => client'[c] = Deliver(client[c], c, g)
       /\ client'[c].bad = "foreign" => client[c].bad = "foreign"
  BY <1>2, <1>5, <1>6, <1>8, <1>9, WroteBytes
<1>11. /\ ~client[c].gone => client'[c].got[1] = 0 /\ client'[c].got[3]
       /\ client'[c].bad = client[c].bad
  <2>1. CASE client[c].gone
    BY <1>10, <2>1
  <2>2. CASE ~client[c].gone /\ scen.protocol = "mysql"
    <3> DEFINE b == TRUE
               e == Deliver(client[c], c, g)
    <3>1. client[c].got[1] = 0 - 1 /\ client[c].got[3]
      BY <1>6, <2>2
    <3>2. b /\ AnswerTo(g, c, 0, b) /\ client'[c] = e /\ ~client[c].gone
      BY <1>8, <1>10, <2>2, Zenon
    <3> HIDE DEF b
    <3>3. e.got[1] = 0 /\ e.got[3] = b /\ (client[c].got[1] = 0 - 1 /\ client[c].got[3] => e.bad = client[c].bad)
      BY <1>2, <3>2 DEF AnswerTo
    <3> HIDE DEF e
    <3> QED  BY <3>1, <3>2, <3>3
  <2>3. CASE ~client[c].gone /\ scen.protocol # "mysql"
    <3>1. client'[c] = client[c]
      BY <1>7, <1>10, <2>3 DEF Deliver
    <3> QED  BY <1>6, <2>3, <3>1
  <2> QED  BY <2>1, <2>2, <2>3
<1>12. BytesOf(c)'
  <2>1. AtWork(c)' <=> AtWork(c)
    BY <1>4 DEF AtWork, Seen, SeenWork
  <2>2. ~Busy(c)'
    BY <1>6, <1>10, <2>1 DEF Busy
  <2>3. Cut(c)' <=> Cut(c)
    BY <1>1 DEF Cut
  <2>4. AskedInv(c)'
    BY <1>1, <1>5, <1>6, <1>10, <2>2 DEF BytesOf, AskedInv, Requests, Kinds, MysqlOnly
  <2>5. WorkInv(c)'
    BY <1>6, <2>1 DEF WorkInv, AtWork
  <2>6. GotInv(c)'
    BY <1>1, <1>10, <1>11, <2>2 DEF GotInv
  <2>7. OrderInv(c)'
    BY <1>5, <1>11, <2>3 DEF BytesOf, OrderInv
  <2> QED  BY <1>10, <2>4, <2>5, <2>6, <2>7 DEF BytesOf
<1>13. ASSUME NEW d \in Conn, d # c PROVE BytesOf(d)'
  <2>1. BytesOf(d) /\ ClientSame(d) /\ Seen(d)
    BY <1>3, <1>4, <1>13 DEF Bytes, ClientSame
  <2> QED  BY <1>1, <1>3, <1>13, <2>1, QuietBytes
<1>14. Bytes'
  BY <1>12, <1>13 DEF Bytes
<1> QED  BY <1>3, <1>10, <1>14

(* A client speaks, or goes.                                                 *)
LEMMA SpeakOthers ==
    ASSUME Bytes, UNCHANGED <<scen, conn, ring, th>>, NEW c \in Conn, \A d \in Conn : d # c => said'[d] = said[d],
           NEW m, NEW n, NEW g, Speaks(c, m, n, g)
    PROVE  \A d \in Conn : d # c => BytesOf(d)'
<1> SUFFICES ASSUME NEW d \in Conn, d # c PROVE BytesOf(d)'
  OBVIOUS
<1>1. BytesOf(d) /\ ClientSame(d) /\ Seen(d)
  BY SeenSame DEF Bytes, ClientSame, Speaks
<1> QED  BY <1>1, QuietBytes

LEMMA NotAnswering ==
    ASSUME Parties, NEW c \in Conn, BytesOf(c), conn[c] = "open", ~client[c].gone, client[c].sent \in Nat,
           client[c].got[1] = client[c].sent
    PROVE  ~AtWork(c)
<1> SUFFICES ASSUME NEW t \in Thread, th[t].conn = c, th[t].pc \in {"handle", "answer"}
             PROVE  FALSE
  BY DEF AtWork
<1>1. Busy(c)
  BY DEF Busy, AtWork
<1>2. ~GivenUp(c)
  BY WorksAlone DEF GivenUp
<1> QED  BY <1>1, <1>2 DEF BytesOf, GotInv

LEMMA SendHalfBytes ==
    ASSUME Types, Parties, Bytes, NEW c \in Conn, SendHalf(c)
    PROVE  Bytes'
<1>1. /\ UNCHANGED <<scen, conn, ring, said, th>>
      /\ conn[c] = "open" /\ ~client[c].gone /\ client[c].msg = "none" /\ Answered(c)
      /\ client[c].sent \in Nat /\ client[c].sent < scen.quota[c]
      /\ Speaks(c, "half", client[c].sent + 1, client[c].gone)
  BY SendHalfDo
<1>2. BytesOf(c)
  BY DEF Bytes
<1>3. client[c].got[1] = client[c].sent
  BY <1>1 DEF Answered
<1>4. ~AtWork(c) /\ ~Busy(c)
  BY <1>1, <1>2, <1>3, NotAnswering DEF Busy
<1>5. ~AtWork(c)' /\ Busy(c)' /\ (GivenUp(c)' <=> GivenUp(c)) /\ (Cut(c)' <=> Cut(c))
  BY <1>1, <1>4 DEF AtWork, Busy, GivenUp, Cut, Speaks
<1>6. RingInv(c)' /\ OrderInv(c)'
  BY <1>1, <1>2, <1>5 DEF BytesOf, RingInv, OrderInv, Speaks
<1>7. WorkInv(c)'
  BY <1>5 DEF WorkInv, AtWork
<1>8. AskedInv(c)'
  <2>1. DOMAIN said[c] = 1 .. scen.quota[c] /\ scen.quota[c] \in Nat
    BY ScenarioFields DEF Types
  <2>2. client'[c].sent = client[c].sent + 1 /\ client'[c].msg = "half" /\ "half" \notin Requests
    BY <1>1 DEF Speaks, Requests, Kinds, MysqlOnly
  <2>3. client[c].sent + 1 \in DOMAIN said[c]
    BY <1>1, <2>1
  <2>4. \A n \in DOMAIN said[c] : n \in Nat
    BY <2>1
  <2> QED  BY <1>1, <1>2, <2>2, <2>3, <2>4 DEF BytesOf, AskedInv
<1>9. GotInv(c)'
  BY <1>1, <1>2, <1>3, <1>4, <1>5 DEF BytesOf, GotInv, Speaks
<1>10. BytesOf(c)'
  BY <1>6, <1>7, <1>8, <1>9 DEF BytesOf
<1>11. \A d \in Conn : d # c => BytesOf(d)'
  BY <1>1, SpeakOthers
<1> QED  BY <1>10, <1>11 DEF Bytes

LEMMA SendRestBytes ==
    ASSUME Types, Parties, Bytes, NEW c \in Conn, NEW kind \in Requests, SendRest(c, kind)
    PROVE  Bytes'
<1>1. /\ UNCHANGED <<scen, conn, ring, th>>
      /\ client[c].msg = "half" /\ Speaks(c, kind, client[c].sent, client[c].gone)
      /\ \A d \in Conn : d # c => said'[d] = said[d]
      /\ \A n \in 1 .. scen.quota[c] : said'[c][n] = IF n = client[c].sent THEN <<kind, "-">> ELSE said[c][n]
      /\ Types'
  BY SendRestDo
<1>2. BytesOf(c) /\ client[c].sent \in Nat /\ client[c].sent <= scen.quota[c]
  BY ClientFields DEF Bytes, Types
<1>3. ~AtWork(c) /\ Busy(c) /\ client[c].sent > 0 /\ said[c][client[c].sent] = <<"-", "-">>
  BY <1>1, <1>2 DEF BytesOf, WorkInv, AtWork, Busy, AskedInv
<1>4. kind # "none" /\ kind # "half"
  BY DEF Requests, Kinds, MysqlOnly
<1>5. /\ DOMAIN said[c] = 1 .. scen.quota[c] /\ DOMAIN said'[c] = 1 .. scen.quota[c] /\ scen.quota[c] \in Nat
      /\ client[c].sent \in 1 .. scen.quota[c]
  BY <1>1, <1>2, <1>3, ScenarioFields DEF Types
<1>6. ~AtWork(c)' /\ Busy(c)' /\ (GivenUp(c)' <=> GivenUp(c))
  BY <1>1, <1>3, <1>4 DEF AtWork, Busy, GivenUp, Speaks
<1>7. Cut(c) => Cut(c)'
  <2> SUFFICES ASSUME Cut(c) PROVE Cut(c)'
    OBVIOUS
  <2>1. PICK n \in DOMAIN said[c] : said[c][n][2] = "CUT"
    BY DEF Cut
  <2>2. n # client[c].sent
    BY <1>3, <2>1
  <2>3. said'[c][n] = said[c][n] /\ n \in DOMAIN said'[c]
    BY <1>1, <1>5, <2>2
  <2> QED  BY <1>1, <2>1, <2>3 DEF Cut
<1>8. RingInv(c)' /\ OrderInv(c)'
  BY <1>1, <1>2, <1>7 DEF BytesOf, RingInv, OrderInv, Speaks
<1>9. WorkInv(c)'
  BY <1>6 DEF WorkInv, AtWork
<1>10. AskedInv(c)'
  <2>1. client'[c].sent = client[c].sent /\ client'[c].msg = kind /\ conn' = conn
    BY <1>1 DEF Speaks
  <2>2. said'[c][client[c].sent] = <<kind, "-">>
    BY <1>1, <1>5
  <2>3. \A n \in DOMAIN said'[c] : n > client[c].sent => said'[c][n] = <<"-", "-">>
    BY <1>1, <1>2, <1>5 DEF BytesOf, AskedInv
  <2>4. conn[c] \notin {"none", "pending"}
    BY <1>1, <1>2 DEF BytesOf, AskedInv
  <2> QED  BY <1>3, <1>4, <2>1, <2>2, <2>3, <2>4 DEF AskedInv
<1>11. GotInv(c)'
  BY <1>1, <1>2, <1>3, <1>6, <1>7 DEF BytesOf, GotInv, Speaks
<1>12. BytesOf(c)'
  BY <1>8, <1>9, <1>10, <1>11 DEF BytesOf
<1>13. \A d \in Conn : d # c => BytesOf(d)'
  BY <1>1, SpeakOthers
<1> QED  BY <1>12, <1>13 DEF Bytes

LEMMA LeaveBytes ==
    ASSUME Types, Bytes, NEW c \in Conn, ClientClose(c)
    PROVE  Bytes'
<1>1. /\ UNCHANGED <<scen, conn, ring, said, th>>
      /\ Speaks(c, client[c].msg, client[c].sent, TRUE)
  BY LeaveDo
<1>2. BytesOf(c)
  BY DEF Bytes
<1>3. (AtWork(c)' <=> AtWork(c)) /\ (Busy(c)' <=> Busy(c)) /\ (Cut(c)' <=> Cut(c))
  BY <1>1 DEF AtWork, Busy, Cut, Speaks
<1>4. client'[c].gone
  BY <1>1 DEF Speaks
<1>5. RingInv(c)' /\ OrderInv(c)' /\ GotInv(c)'
  BY <1>1, <1>2, <1>3, <1>4 DEF BytesOf, RingInv, OrderInv, GotInv, Speaks
<1>6. WorkInv(c)'
  BY <1>1, <1>2 DEF BytesOf, WorkInv, Speaks
<1>7. AskedInv(c)'
  BY <1>1, <1>2, <1>3 DEF BytesOf, AskedInv, Speaks
<1>8. BytesOf(c)'
  BY <1>5, <1>6, <1>7 DEF BytesOf
<1>9. \A d \in Conn : d # c => BytesOf(d)'
  BY <1>1, SpeakOthers
<1> QED  BY <1>8, <1>9 DEF Bytes

(* A request is taken up, and executed.                                      *)
LEMMA RequestBytes ==
    ASSUME Types, Parties, Bytes, NEW t \in Thread, ReadRequest(t)
    PROVE  Bytes'
<1>1. PICK c \in Conn : th[t].conn = c /\ th[t].pc = "read"
  BY WorksFor DEF ReadRequest, Serving
<1>2. /\ UNCHANGED <<scen, conn, ring, said>> /\ client[c].msg \in Kinds \cup {"VERSION"}
      /\ Turn(t, "handle", c, client[c].msg, th[t].rc, th[t].fd)
      /\ \A d \in Conn : d # c => client'[d] = client[d]
      /\ client'[c].msg = "none" /\ client'[c].sent = client[c].sent /\ client'[c].bad = client[c].bad
      /\ client'[c].gone = client[c].gone /\ client'[c].got = client[c].got
  BY <1>1, RequestDo
<1>3. BytesOf(c) /\ \A u \in Thread : u # t /\ th[u].conn = c => th[u].pc = "count"
  BY <1>1, WorksAlone DEF Bytes
<1>4. client[c].msg # "none" /\ client[c].msg # "half" /\ client[c].msg \in Requests
  BY <1>2 DEF Kinds, Requests, MysqlOnly
<1>5. Busy(c) /\ client[c].sent > 0 /\ said[c][client[c].sent] = <<client[c].msg, "-">>
  BY <1>3, <1>4 DEF Busy, BytesOf, AskedInv
<1>6. /\ \A u \in Thread : u # t => th'[u] = th[u]
      /\ th'[t].pc = "handle" /\ th'[t].conn = c /\ th'[t].kind = client[c].msg
  BY <1>2 DEF Turn
<1>7. Busy(c)' /\ ~GivenUp(c)' /\ ~GivenUp(c) /\ (Cut(c)' <=> Cut(c))
  BY <1>1, <1>2, <1>3, <1>6 DEF Busy, AtWork, GivenUp, Cut
<1>8. RingInv(c)' /\ OrderInv(c)'
  BY <1>2, <1>3, <1>7 DEF BytesOf, RingInv, OrderInv
<1>9. WorkInv(c)'
  BY <1>2, <1>3, <1>5, <1>6 DEF WorkInv
<1>10. AskedInv(c)'
  BY <1>2, <1>3, <1>5, <1>7 DEF BytesOf, AskedInv, Kinds, Requests, MysqlOnly
<1>11. GotInv(c)'
  BY <1>2, <1>3, <1>5, <1>7 DEF BytesOf, GotInv
<1>12. BytesOf(c)'
  BY <1>8, <1>9, <1>10, <1>11 DEF BytesOf
<1>13. ASSUME NEW d \in Conn, d # c PROVE BytesOf(d)'
  <2>1. BytesOf(d) /\ ClientSame(d) /\ Seen(d)
    BY <1>1, <1>2, <1>13, SeenTurn DEF Bytes, ClientSame
  <2> QED  BY <1>2, <2>1, QuietBytes
<1> QED  BY <1>12, <1>13 DEF Bytes

LEMMA HandleBytes ==
    ASSUME Types, Parties, Bytes, NEW t \in Thread, Handle(t)
    PROVE  Bytes'
<1>1. PICK c \in Conn : th[t].conn = c /\ th[t].pc = "handle"
  BY WorksFor DEF Handle, Serving
<1>2. BytesOf(c) /\ \A u \in Thread : u # t /\ th[u].conn = c => th[u].pc = "count"
  BY <1>1, WorksAlone DEF Bytes
<1>3. /\ th[t].kind \in Kinds \cup {"VERSION"} /\ client[c].sent > 0 /\ client[c].msg = "none"
      /\ said[c][client[c].sent] = <<th[t].kind, "-">>
  BY <1>1, <1>2 DEF BytesOf, WorkInv, AskedInv, Busy, AtWork
<1>4. /\ UNCHANGED <<scen, client, conn, ring, said>>
      /\ Turn(t, "answer", c, th[t].kind, th'[t].rc, th[t].fd)
      /\ th'[t].rc \in IF Runs(th[t].kind) THEN Opens(th[t].kind) ELSE {"SUCCESS", "FAILURE"}
  BY <1>1, <1>3, HandleDo
<1>5. /\ \A u \in Thread : u # t => th'[u] = th[u]
      /\ th'[t].pc = "answer" /\ th'[t].conn = c /\ th'[t].kind = th[t].kind
  BY <1>4 DEF Turn
<1>6. Busy(c) /\ Busy(c)' /\ ~GivenUp(c)' /\ ~GivenUp(c) /\ (Cut(c)' <=> Cut(c))
  BY <1>1, <1>2, <1>4, <1>5 DEF Busy, AtWork, GivenUp, Cut
<1>7. RingInv(c)' /\ OrderInv(c)'
  BY <1>2, <1>4, <1>6 DEF BytesOf, RingInv, OrderInv
<1>8. WorkInv(c)'
  BY <1>2, <1>3, <1>4, <1>5 DEF WorkInv
<1>9. AskedInv(c)'
  BY <1>2, <1>3, <1>4, <1>6 DEF BytesOf, AskedInv
<1>10. GotInv(c)'
  BY <1>2, <1>4, <1>6 DEF BytesOf, GotInv
<1>11. BytesOf(c)'
  BY <1>7, <1>8, <1>9, <1>10 DEF BytesOf
<1>12. ASSUME NEW d \in Conn, d # c PROVE BytesOf(d)'
  <2>1. BytesOf(d) /\ ClientSame(d) /\ Seen(d)
    BY <1>1, <1>4, <1>12, SeenTurn DEF Bytes, ClientSame
  <2> QED  BY <1>4, <2>1, QuietBytes
<1> QED  BY <1>11, <1>12 DEF Bytes

(* A request is answered.                                                    *)
AnsweredAs(c, b) ==
    \E cl \in Client, bytes \in Seq(Byte) :
       /\ cl.msg = "none" /\ cl.sent = client[c].sent /\ cl.bad = client[c].bad
       /\ cl.gone = client[c].gone /\ cl.got = client[c].got
       /\ AnswerTo(bytes, c, client[c].sent, b) /\ Wrote(c, cl, bytes)

LEMMA AnsweredBytes ==
    ASSUME Types, Types', Parties, NEW t \in Thread, NEW c \in Conn, th[t].conn = c, th[t].pc \in {"read", "answer"},
           BytesOf(c), Busy(c), UNCHANGED <<scen, conn>>, NEW v, said[c][client[c].sent][2] = "-",
           \A n \in 1 .. scen.quota[c] :
              said'[c][n] = IF n = client[c].sent THEN <<said[c][n][1], v>> ELSE said[c][n],
           NEW b \in BOOLEAN, b <=> v # "CUT", AnsweredAs(c, b),
           Onward(t, c) \/ GivesUp(t, c), v = "CUT" => GivesUp(t, c) \/ scen.handling = "cli"
    PROVE  BytesOf(c)' /\ (client'[c].bad = "foreign" => client[c].bad = "foreign")
<1>0. PICK cl \in Client, bytes \in Seq(Byte) :
         /\ cl.msg = "none" /\ cl.sent = client[c].sent /\ cl.bad = client[c].bad
         /\ cl.gone = client[c].gone /\ cl.got = client[c].got
         /\ AnswerTo(bytes, c, client[c].sent, b) /\ Wrote(c, cl, bytes)
  BY DEF AnsweredAs
<1> DEFINE n == client[c].sent
<1>1. /\ bytes \in Seq(Byte) /\ \A i \in 1 .. Len(bytes) : bytes[i][1] = c
      /\ ~cl.gone => /\ Deliver(cl, c, bytes).got[1] = n /\ Deliver(cl, c, bytes).got[3] = b
                     /\ cl.got[1] = n - 1 /\ cl.got[3] => Deliver(cl, c, bytes).bad = cl.bad
  BY <1>0 DEF AnswerTo
<1>2. RingInv(c)
  BY DEF BytesOf
<1>3. /\ RingInv(c)'
      /\ client'[c].gone = cl.gone /\ client'[c].msg = "none" /\ client'[c].sent = n
      /\ cl.gone => client'[c] = cl
      /\ ~cl.gone => client'[c] = Deliver(cl, c, bytes)
      /\ client'[c].bad = "foreign" => cl.bad = "foreign"
  BY <1>0, <1>1, <1>2, WroteBytes
<1>4. n \in Nat /\ n > 0 /\ n \in 1 .. scen.quota[c] /\ scen.quota[c] \in Nat
      /\ DOMAIN said[c] = 1 .. scen.quota[c] /\ DOMAIN said'[c] = 1 .. scen.quota[c]
  <2>1. n \in Nat /\ n > 0 /\ n <= scen.quota[c] /\ scen.quota[c] \in Nat
    BY ClientFields, ScenarioFields DEF Types, BytesOf, AskedInv
  <2> QED  BY <2>1 DEF Types
<1>5. /\ Cut(c) => Cut(c)'
      /\ v = "CUT" /\ scen.handling = "cli" => Cut(c)'
  <2>1. ASSUME Cut(c) PROVE Cut(c)'
    <3>1. PICK m \in DOMAIN said[c] : said[c][m][2] = "CUT"
      BY <2>1 DEF Cut
    <3>2. m # n
      BY <3>1
    <3>3. said'[c][m][2] = "CUT" /\ m \in DOMAIN said'[c]
      BY <1>4, <3>1, <3>2
    <3> QED  BY <2>1, <3>3 DEF Cut
  <2>2. ASSUME v = "CUT", scen.handling = "cli" PROVE Cut(c)'
    <3>1. said'[c][n] = <<said[c][n][1], v>>
      BY <1>4
    <3>2. said'[c][n][2] = "CUT"
      BY <2>2, <3>1
    <3> QED  BY <1>4, <2>2, <3>2 DEF Cut
  <2> QED  BY <2>1, <2>2
<1>6. conn[c] = "open" /\ ~GivenUp(c) /\ \A u \in Thread : u # t /\ th[u].conn = c => th[u].pc = "count"
  <2>1. Works(t, c) /\ th[t].pc \notin Closing
    BY DEF Works, Closing
  <2>2. conn[c] = "open" /\ \A u \in Thread : u # t /\ th[u].conn = c => th[u].pc = "count"
    BY <2>1, WorksAlone DEF Parties, ServedOpen
  <2> QED  BY <2>2 DEF GivenUp
<1>7. /\ \A u \in Thread : u # t => th'[u] = th[u]
      /\ th'[t].pc \notin {"handle", "answer"}
      /\ GivesUp(t, c) => th'[t].pc = "close" /\ th'[t].conn = c
  BY DEF Onward, GivesUp, Turn
<1>8. ~AtWork(c)' /\ ~Busy(c)'
  BY <1>3, <1>6, <1>7 DEF AtWork, Busy
<1>9. GivesUp(t, c) => GivenUp(c)'
  BY <1>7 DEF GivenUp
<1>10. AskedInv(c)'
  <2>1. "none" \notin Requests
    BY DEF Kinds, Requests, MysqlOnly
  <2>2. ASSUME NEW m \in 1 .. scen.quota[c], m > n PROVE said'[c][m] = <<"-", "-">>
    <3>1. m # n /\ m \in DOMAIN said[c]
      BY <1>4, <2>2
    <3>2. said'[c][m] = said[c][m]
      BY <3>1
    <3> QED  BY <2>2, <3>1, <3>2 DEF BytesOf, AskedInv
  <2> QED  BY <1>3, <1>4, <1>6, <1>8, <2>1, <2>2 DEF AskedInv
<1>11. WorkInv(c)'
  BY <1>8 DEF WorkInv, AtWork
<1>12. GotInv(c)'
  BY <1>1, <1>3, <1>5, <1>6, <1>8, <1>9 DEF GotInv
<1>13. OrderInv(c)'
  <2> SUFFICES ASSUME client'[c].bad = "order" PROVE Cut(c)'
    BY DEF OrderInv
  <2>1. CASE cl.gone
    BY <1>0, <1>3, <1>5, <2>1 DEF BytesOf, OrderInv
  <2>2. CASE ~cl.gone
    <3>1. cl.got[1] = n - 1 /\ (cl.got[3] \/ Cut(c))
      BY <1>0, <1>6, <2>2 DEF BytesOf, GotInv
    <3>2. CASE Cut(c)
      BY <1>5, <3>2
    <3>3. CASE cl.got[3]
      BY <1>0, <1>1, <1>3, <1>5, <2>2, <3>1, <3>3 DEF BytesOf, OrderInv
    <3> QED  BY <3>1, <3>2, <3>3
  <2> QED  BY <2>1, <2>2
<1>14. BytesOf(c)'
  BY <1>3, <1>10, <1>11, <1>12, <1>13 DEF BytesOf
<1> QED  BY <1>0, <1>3, <1>14

LEMMA AnsweredOthers ==
    ASSUME Bytes, NEW t \in Thread, NEW c \in Conn, th[t].conn = c, UNCHANGED <<scen, conn>>,
           \A d \in Conn : d # c => client'[d] = client[d] /\ ring'[d] = ring[d] /\ said'[d] = said[d],
           Onward(t, c) \/ GivesUp(t, c)
    PROVE  \A d \in Conn : d # c => BytesOf(d)'
<1> SUFFICES ASSUME NEW d \in Conn, d # c PROVE BytesOf(d)'
  OBVIOUS
<1>1. NoConn \notin Conn
  BY CardConn DEF NoConn
<1>2. Seen(d)
  <2>1. PICK p, e, k, r, f : Turn(t, p, e, k, r, f) /\ e \in {c, NoConn}
    BY DEF Onward, GivesUp
  <2>2. e # d
    BY <1>1, <2>1
  <2> QED  BY <2>1, <2>2, SeenTurn
<1>3. BytesOf(d) /\ ClientSame(d)
  BY DEF Bytes, ClientSame
<1> QED  BY <1>2, <1>3, QuietBytes

LEMMA CommandBytes ==
    ASSUME Types, Parties, Bytes, NEW t \in Thread, ReadCommand(t)
    PROVE  Bytes' /\ \A d \in Conn : client'[d].bad = "foreign" => client[d].bad = "foreign"
<1>1. PICK c \in Conn : th[t].conn = c /\ th[t].pc = "read"
  BY WorksFor DEF ReadCommand, Serving
<1> DEFINE cl == [client[c] EXCEPT !.msg = "none"]
           n == client[c].sent
           b == TRUE
           v == "SUCCESS"
           A == Answer(c, n, 1, b)
<1>2. /\ Types' /\ UNCHANGED <<scen, conn>> /\ client[c].msg \in {"AUTH", "OTHER"}
      /\ Onward(t, c) \/ GivesUp(t, c)
      /\ \A d \in Conn : d # c => said'[d] = said[d]
      /\ \A m \in 1 .. scen.quota[c] : said'[c][m] = IF m = client[c].sent THEN <<said[c][m][1], v>> ELSE said[c][m]
  BY <1>1, CommandDo
<1>3. Wrote(c, cl, A)
  BY <1>1, CommandDo
<1>4. client[c] \in Client /\ "none" \in Requests \cup {"none", "half"}
  BY DEF Types
<1>5. /\ cl \in Client /\ cl.msg = "none" /\ cl.sent = client[c].sent /\ cl.bad = client[c].bad
      /\ cl.gone = client[c].gone /\ cl.got = client[c].got
  BY <1>4, ClientMsg, Zenon
<1>6. c \in Int /\ n \in Int /\ 1 \in Nat \ {0}
  BY <1>4, CardConn, ClientFields
<1>7. b \in BOOLEAN /\ (b <=> v # "CUT") /\ (v = "CUT" => GivesUp(t, c) \/ scen.handling = "cli")
  OBVIOUS
<1> HIDE DEF cl, b, n, v
<1>8. AnswerTo(A, c, n, b)
  BY <1>6, <1>7, AnswerArrives, Zenon
<1> HIDE DEF A
<1>9. A \in Seq(Byte)
  BY <1>8 DEF AnswerTo
<1>10. \A d \in Conn : d # c => client'[d] = client[d] /\ ring'[d] = ring[d]
  BY <1>3, <1>5, <1>9, WroteDo
<1>11. BytesOf(c)
  BY DEF Bytes
<1>12. Busy(c) /\ said[c][client[c].sent][2] = "-"
  <2>1. client[c].msg \in Requests /\ client[c].msg # "none"
    BY <1>2 DEF Requests, MysqlOnly
  <2>2. said[c][client[c].sent] = <<client[c].msg, "-">>
    BY <1>11, <2>1 DEF BytesOf, AskedInv
  <2> QED  BY <2>1, <2>2 DEF Busy
<1>13. AnsweredAs(c, b)
  BY <1>3, <1>5, <1>8, <1>9 DEF AnsweredAs, n
<1>14. BytesOf(c)' /\ (client'[c].bad = "foreign" => client[c].bad = "foreign")
  BY <1>1, <1>2, <1>7, <1>11, <1>12, <1>13, AnsweredBytes, SMTT(40)
<1>15. \A d \in Conn : d # c => BytesOf(d)'
  BY <1>1, <1>2, <1>10, AnsweredOthers
<1>16. Bytes'
  BY <1>14, <1>15 DEF Bytes
<1> QED  BY <1>10, <1>14, <1>16

LEMMA ResultBytes ==
    ASSUME Types, Parties, Bytes, NEW t \in Thread, WriteResult(t)
    PROVE  Bytes' /\ \A d \in Conn : client'[d].bad = "foreign" => client[d].bad = "foreign"
<1>1. PICK c \in Conn : th[t].conn = c /\ th[t].pc = "answer"
  BY WorksFor DEF WriteResult, Serving
<1>2. BytesOf(c)
  BY DEF Bytes
<1>3. /\ client[c].msg = "none" /\ said[c][client[c].sent] = <<th[t].kind, "-">>
      /\ ~Runs(th[t].kind) => th[t].rc \in {"SUCCESS", "FAILURE"}
  BY <1>1, <1>2 DEF BytesOf, WorkInv
<1> DEFINE r == write_result(scen.protocol, sess[c], c, client[c].sent, th[t].kind, th[t].rc)
           v == r.said
           n == client[c].sent
           b == v # "CUT"
<1>4. /\ Types' /\ UNCHANGED <<scen, conn>>
      /\ Outcome(r, scen.protocol, sess[c], c, client[c].sent, th[t].kind, th[t].rc)
      /\ Wrote(c, client[c], r.bytes)
      /\ Onward(t, c) \/ GivesUp(t, c)
      /\ scen.protocol = "plain" /\ r.said = "CUT" => GivesUp(t, c)
      /\ \A d \in Conn : d # c => said'[d] = said[d]
      /\ \A m \in 1 .. scen.quota[c] : said'[c][m] = IF m = client[c].sent THEN <<said[c][m][1], v>> ELSE said[c][m]
  BY <1>1, <1>3, ResultDo
<1> HIDE DEF r
<1>5. PICK len \in Nat \ {0} : r.bytes = Answer(c, n, len, b)
  BY <1>4 DEF Outcome
<1>6. v = "CUT" => GivesUp(t, c) \/ scen.handling = "cli"
  <2> SUFFICES ASSUME v = "CUT" PROVE GivesUp(t, c) \/ scen.handling = "cli"
    OBVIOUS
  <2>1. scen.protocol # "mysql"
    BY <1>3, <1>4 DEF Outcome
  <2>2. scen.protocol \in {"plain", "mysql", "cli"} /\ (scen.protocol = "cli" => scen.handling = "cli")
    BY ScenarioFields DEF Types
  <2> QED  BY <1>4, <2>1, <2>2
<1>7. client[c] \in Client /\ c \in Int /\ n \in Int
  BY CardConn, ClientFields DEF Types
<1>8. b \in BOOLEAN /\ (b <=> v # "CUT")
  OBVIOUS
<1> HIDE DEF b, n
<1>9. AnswerTo(Answer(c, n, len, b), c, n, b)
  BY <1>7, <1>8, AnswerArrives, Zenon
<1>10. AnswerTo(r.bytes, c, n, b)
  BY <1>5, <1>9, Zenon
<1>11. r.bytes \in Seq(Byte)
  BY <1>10 DEF AnswerTo
<1>12. \A d \in Conn : d # c => client'[d] = client[d] /\ ring'[d] = ring[d]
  BY <1>4, <1>7, <1>11, WroteDo
<1>13. Busy(c) /\ said[c][client[c].sent][2] = "-"
  BY <1>1, <1>3 DEF Busy, AtWork
<1>14. AnsweredAs(c, b)
  BY <1>3, <1>4, <1>7, <1>10, <1>11 DEF AnsweredAs, n
<1> HIDE DEF v
<1>15. BytesOf(c)' /\ (client'[c].bad = "foreign" => client[c].bad = "foreign")
  BY <1>1, <1>2, <1>4, <1>6, <1>8, <1>13, <1>14, AnsweredBytes
<1>16. \A d \in Conn : d # c => BytesOf(d)'
  BY <1>1, <1>4, <1>12, AnsweredOthers
<1>17. Bytes'
  BY <1>15, <1>16 DEF Bytes
<1> QED  BY <1>12, <1>15, <1>17

(* Every step keeps the bytes.                                               *)
LEMMA ThreadBytes ==
    ASSUME Types, Parties, Bytes, NEW t \in Thread, WriteStep(t) \/ OtherStep(t) \/ Expire(t)
    PROVE  Bytes'
<1>1. CASE \/ RunTask(t) \/ PopNothing(t) \/ TryAgain(t) \/ Expire(t) \/ ThreadExit(t) \/ LoopEnd(t) \/ Pop(t)
           \/ (\E c \in Conn : LoopDispatch(t, c)) \/ LoopPush(t) \/ LoopExtend(t)
           \/ PollStopped(t) \/ PollError(t) \/ PollReady(t) \/ ReadClosed(t) \/ CloseFd(t)
  BY <1>1, ThreadIdleBytes, IdleBytes
<1>2. CASE ReadRequest(t) \/ Handle(t) \/ ReadCommand(t) \/ WriteResult(t)
  BY <1>2, RequestBytes, HandleBytes, CommandBytes, ResultBytes
<1>3. CASE CloseErase(t) \/ DeleteWriter(t) \/ DeleteSession(t)
  BY <1>3, EraseBytes, DeleteWriterBytes, DeleteSessionBytes
<1> QED  BY <1>1, <1>2, <1>3 DEF WriteStep, OtherStep

LEMMA MainBytes ==
    ASSUME Types, Control, Bytes, MainStep \/ Signal
    PROVE  Bytes'
<1>0. Parties /\ Modes /\ FdInv
  BY DEF Control, Parties, Modes
<1>1. CASE MainOnly \/ CreateCore \/ ExtendForLoop \/ SubmitLoop \/ CliNext \/ CliNoLine
  BY <1>0, <1>1, MainIdleBytes, IdleBytes
<1>2. CASE \E c \in Conn : Accept(c)
  BY <1>0, <1>2, AcceptFd, AcceptBytes
<1>3. CASE AwaitStop \/ CliStart \/ CliEnd
  BY <1>0, <1>3, AwaitBytes, CliStartBytes, CliEndBytes
<1> QED  BY <1>1, <1>2, <1>3 DEF MainStep, MainOnly

LEMMA ClientBytes ==
    ASSUME Types, Parties, Bytes, NEW c \in Conn, ClientStep(c)
    PROVE  Bytes'
  BY ConnectBytes, SendHalfBytes, LeaveBytes, SendRestBytes DEF ClientStep

-----------------------------------------------------------------------------
(* The invariant of the control state and the bytes.                         *)
ServerInv == Types /\ Control /\ Bytes

LEMMA InitTypes ==
    ASSUME Init
    PROVE  Types
<1>1. scen \in Scenarios /\ scen.quota \in [Conn -> Nat]
  BY ScenarioFields DEF Init
<1>2. main \in PoolMain \cup CliMain
  BY DEF Init, PoolMain, CliMain
<1>3. client \in [Conn -> Client] /\ \A c \in Conn : client[c].sent = 0
  <2> DEFINE b == FALSE
             g == <<IF scen.protocol = "mysql" THEN -1 ELSE 0, 0, TRUE>>
             x == [msg |-> "none", sent |-> 0, bad |-> "no", gone |-> b, got |-> g]
  <2>1. client = [c \in Conn |-> x]
    BY DEF Init
  <2>2. b \in BOOLEAN /\ g \in Int \X Int \X BOOLEAN
    <3> DEFINE y == IF scen.protocol = "mysql" THEN -1 ELSE 0
               e == TRUE
    <3>1. y \in Int /\ 0 \in Int /\ e \in BOOLEAN
      OBVIOUS
    <3> HIDE DEF y, e
    <3>2. <<y, 0, e>> \in Int \X Int \X BOOLEAN
      BY <3>1
    <3> QED  BY <3>2 DEF y, e
  <2> HIDE DEF b, g
  <2>3. x \in Client /\ x.sent = 0
    BY <2>2 DEF Client
  <2> HIDE DEF x
  <2> QED  BY <2>1, <2>3
<1>4. ring \in [Conn -> Ring]
  BY EmptyRingType DEF Init
<1>5. conn \in [Conn -> {"none", "pending", "open", "erased", "freed"}] /\ fd \in [Conn -> 0 .. Cardinality(Conn)]
  BY CardConn DEF Init
<1>6. sess = [c \in Conn |-> sess[c]] /\ \A c \in Conn : sess[c] \in Sessions(scen.quota[c])
  <2> DEFINE f(c) == [n \in 1 .. scen.quota[c] |-> "none"]
             x(c) == [NewSession EXCEPT !.fate = f(c)]
             b == FALSE
  <2>1. sess = [c \in Conn |-> x(c)]
    BY DEF Init
  <2>2. ASSUME NEW c \in Conn PROVE x(c) \in Sessions(scen.quota[c])
    <3>1. f(c) \in [1 .. scen.quota[c] -> Fates]
      BY DEF Fates
    <3>2. NewSession = [trx |-> "none", multi |-> b, mode |-> "TUPLE_ITERATOR", fate |-> <<>>] /\ b \in BOOLEAN
      BY Zenon DEF NewSession
    <3> HIDE DEF b, f
    <3>3. x(c) = [trx |-> "none", multi |-> b, mode |-> "TUPLE_ITERATOR", fate |-> f(c)]
      BY <3>2
    <3> HIDE DEF x
    <3> QED  BY <3>1, <3>2, <3>3 DEF Sessions
  <2> HIDE DEF x
  <2> QED  BY <2>1, <2>2
<1>7. said = [c \in Conn |-> said[c]] /\ \A c \in Conn : said[c] \in [1 .. scen.quota[c] -> Saying]
  <2> DEFINE x(c) == [n \in 1 .. scen.quota[c] |-> <<"-", "-">>]
  <2>1. said = [c \in Conn |-> x(c)]
    BY DEF Init
  <2>2. \A c \in Conn : x(c) \in [1 .. scen.quota[c] -> Saying]
    BY DEF Saying
  <2> HIDE DEF x
  <2> QED  BY <2>1, <2>2
<1>8. th \in [Thread -> Threads]
  <2> DEFINE no == FALSE
             x == [pc |-> "none", conn |-> NoConn, core |-> no, kind |-> "-", rc |-> "-", fd |-> 0]
  <2>1. NoThread = x /\ no \in BOOLEAN
    BY DEF NoThread
  <2> HIDE DEF no
  <2>2. x \in Threads
    BY <2>1, CardConn DEF Threads, Pc, Free
  <2> HIDE DEF x
  <2> QED  BY <2>1, <2>2 DEF Init
<1>9. /\ started \in BOOLEAN /\ signalled \in BOOLEAN /\ dbUp \in BOOLEAN /\ loopexit \in BOOLEAN
      /\ estate \in {"NEW", "RUNNING", "TERMINATING"} /\ armed \in SUBSET Conn /\ queue \in Seq(Conn \cup {Loop})
  <2>1. started \in BOOLEAN /\ signalled \in BOOLEAN /\ dbUp \in BOOLEAN /\ loopexit \in BOOLEAN
    BY Zenon DEF Init
  <2>2. estate \in {"NEW", "RUNNING", "TERMINATING"} /\ armed \in SUBSET Conn /\ queue \in Seq(Conn \cup {Loop})
    BY DEF Init
  <2> QED  BY <2>1, <2>2
<1>10. running \in [Conn -> BOOLEAN]
  BY DEF Init
<1>11. \A c \in Conn : client[c].sent <= scen.quota[c]
  BY <1>1, <1>3
<1> QED  BY <1>1, <1>2, <1>3, <1>4, <1>5, <1>6, <1>7, <1>8, <1>9, <1>10, <1>11 DEF Types

LEMMA InitControl ==
    ASSUME Init
    PROVE  Control
<1>1. /\ scen \in Scenarios /\ scen.handling \in {"one-thread", "pool", "cli"}
      /\ conn = [c \in Conn |-> "none"] /\ queue = <<>> /\ armed = {} /\ estate = "NEW" /\ dbUp
  BY ScenarioFields DEF Init
<1>2. \A t \in Thread : th[t].pc = "none" /\ th[t].conn = NoConn
  <2>1. NoThread.pc = "none" /\ NoThread.conn = NoConn
    BY DEF NoThread
  <2> QED  BY <2>1 DEF Init
<1>3. NoConn \notin Conn /\ 1 \in Conn
  BY CardConn DEF NoConn
<1>4. \A t \in Thread : \A c \in Conn : ~Works(t, c)
  BY <1>2, <1>3 DEF Works
<1>5. main = IF Pooled THEN "create" ELSE IF scen.handling = "one-thread" THEN "listen" ELSE "cli"
  BY DEF Init, Pooled
<1>6. ThreadConns
  BY <1>2 DEF ThreadConns, Free, Serving, Closing
<1>7. ServedOpen /\ OneParty /\ SomeParty
  BY <1>1, <1>4 DEF ServedOpen, OneParty, SomeParty
<1>8. PoolInv
  BY <1>1, <1>2, <1>5 DEF PoolInv, PoolMain, Over, Free
<1>9. WorkerInv
  BY <1>1, <1>2, <1>5 DEF WorkerInv, WorkerMain, Over, Pooled
<1>10. CliInv
  BY <1>1, <1>2, <1>3, <1>5 DEF CliInv, CliMain, Pooled
<1>11. DbInv /\ FdInv
  BY <1>1 DEF DbInv, FdInv, Init
<1> QED  BY <1>6, <1>7, <1>8, <1>9, <1>10, <1>11 DEF Control

LEMMA InitBytes ==
    ASSUME Init
    PROVE  Bytes
<1> SUFFICES ASSUME NEW c \in Conn PROVE BytesOf(c)
  BY DEF Bytes
<1> DEFINE x == [msg |-> "none", sent |-> 0, bad |-> "no", gone |-> FALSE,
                 got |-> <<IF scen.protocol = "mysql" THEN -1 ELSE 0, 0, TRUE>>]
<1>1. client[c] = x
  BY DEF Init
<1>2. /\ x.msg = "none" /\ x.sent = 0 /\ x.bad = "no"
      /\ x.got = <<IF scen.protocol = "mysql" THEN -1 ELSE 0, 0, TRUE>>
  BY Zenon
<1> HIDE DEF x
<1>3. conn[c] = "none" /\ ring[c] = EmptyRing
  BY DEF Init
<1>4. \A t \in Thread : th[t].conn # c
  <2>1. NoThread.conn = NoConn /\ NoConn # c
    BY CardConn DEF NoThread, NoConn
  <2> QED  BY <2>1 DEF Init
<1>5. RingInv(c)
  BY <1>3, EmptyRingType DEF RingInv, OwnRing
<1>6. ~Busy(c)
  BY <1>1, <1>2, <1>4 DEF Busy, AtWork
<1>7. AskedInv(c)
  <2>1. \A n \in DOMAIN said[c] : said[c][n] = <<"-", "-">>
    BY DEF Init
  <2> QED  BY <1>1, <1>2, <1>6, <2>1 DEF AskedInv, Requests, Kinds, MysqlOnly
<1>8. WorkInv(c)
  BY <1>4 DEF WorkInv
<1>9. GotInv(c)
  BY <1>1, <1>2, <1>3, Zenon DEF GotInv
<1>10. OrderInv(c)
  BY <1>1, <1>2 DEF OrderInv
<1> QED  BY <1>5, <1>7, <1>8, <1>9, <1>10 DEF BytesOf

LEMMA InvNext ==
    ASSUME ServerInv, [Next]_vars
    PROVE  ServerInv'
<1>0. Types /\ Control /\ Bytes /\ Parties
  BY DEF ServerInv, Control, Parties
<1>1. CASE \E t \in Thread : WriteStep(t) \/ OtherStep(t) \/ Expire(t)
  BY <1>0, <1>1, ThreadControl, ThreadBytes DEF ServerInv
<1>2. CASE MainStep \/ Signal
  BY <1>0, <1>2, MainStepControl, MainBytes DEF ServerInv
<1>3. CASE \E c \in Conn : ClientStep(c)
  BY <1>0, <1>3, ClientControl, ClientBytes DEF ServerInv
<1>4. CASE UNCHANGED vars
  <2>1. UNCHANGED <<scen, main, started, signalled, dbUp, client, conn, fd, ring, sess, said, running, th,
                    estate, queue, armed, loopexit>>
    BY <1>4 DEF vars
  <2>2. Types'
    BY <1>0, <2>1 DEF Types
  <2>3. Control'
    BY <1>0, <2>1, <2>2, ControlKept
  <2>4. Bytes'
    BY <1>0, <2>1, SeenSame, IdleBytes
  <2> QED  BY <2>2, <2>3, <2>4 DEF ServerInv
<1> QED  BY <1>1, <1>2, <1>3, <1>4 DEF Next, AwaitPoll, Exited

LEMMA InvAlways == Spec => []ServerInv
<1>1. Init => ServerInv
  BY InitTypes, InitControl, InitBytes DEF ServerInv
<1>2. ServerInv /\ [Next]_vars => ServerInv'
  BY InvNext
<1> QED  BY <1>1, <1>2, PTL DEF Spec

-----------------------------------------------------------------------------
(* When cleanup destroys the Db no thread handles a statement any more: with *)
(* the pool and on the command line none is left, a worker at most destroys  *)
(* its session (main.cpp, ThreadHandler::await_stop).                        *)
THEOREM DbOutlives == Spec => []DbOutlivesWork
<1>1. ASSUME Types, Modes PROVE DbOutlivesWork
  <2> SUFFICES ASSUME ~dbUp, NEW t \in Thread
               PROVE  \/ th[t].pc = "none"
                      \/ scen.handling = "one-thread" /\ th[t].pc \in {"closefd", "delwriter", "delsession"}
    BY DEF DbOutlivesWork
  <2>1. main \in Over /\ scen.handling \in {"one-thread", "pool", "cli"}
    BY <1>1, ScenarioFields DEF Types, Modes, DbInv, Over
  <2>2. CASE scen.handling = "pool"
    BY <1>1, <2>1, <2>2 DEF Modes, PoolInv, Pooled
  <2>3. CASE scen.handling = "one-thread"
    BY <1>1, <2>1, <2>3 DEF Modes, WorkerInv, Closing
  <2>4. CASE scen.handling = "cli"
    BY <1>1, <2>1, <2>4 DEF Modes, CliInv
  <2> QED  BY <2>1, <2>2, <2>3, <2>4
<1>2. ServerInv => DbOutlivesWork
  BY <1>1 DEF ServerInv, Control, Modes
<1> QED  BY <1>2, InvAlways, PTL

(* The bytes that reach a client over the shared buffer, in pieces and after *)
(* failed writes, are the answers to its requests in their order and without *)
(* a gap, as long as it is there; only the command line can leave out the    *)
(* end of one (BufferedWriter, write_result of the communicators).           *)
THEOREM InOrder == Spec => []AnswersInOrder
<1>1. ServerInv => AnswersInOrder
  BY DEF ServerInv, Bytes, BytesOf, OrderInv, Cut, AnswersInOrder
<1> QED  BY <1>1, InvAlways, PTL

(* How many threads and tasks there are for a connection.                    *)
LEMMA OneTender ==
    ASSUME Types, Parties, NEW c \in Conn
    PROVE  /\ Cardinality({t \in Thread : Works(t, c)}) = IF \E t \in Thread : Works(t, c) THEN 1 ELSE 0
           /\ Cardinality({i \in DOMAIN queue : queue[i] = c}) = IF \E i \in 1 .. Len(queue) : queue[i] = c THEN 1 ELSE 0
<1> DEFINE T == {t \in Thread : Works(t, c)}
           Q == {i \in DOMAIN queue : queue[i] = c}
<1>0. DOMAIN queue = 1 .. Len(queue)
  BY DEF Types
<1>1. Cardinality(T) = IF \E t \in Thread : Works(t, c) THEN 1 ELSE 0
  <2>1. ASSUME NEW t \in Thread, Works(t, c) PROVE Cardinality(T) = 1
    <3>1. T = {t}
      BY <2>1 DEF Parties, OneParty
    <3> QED  BY <3>1, FS_Singleton
  <2>2. ASSUME ~\E t \in Thread : Works(t, c) PROVE Cardinality(T) = 0
    <3>1. T = {}
      BY <2>2
    <3> QED  BY <3>1, FS_EmptySet
  <2> HIDE DEF T
  <2> QED  BY <2>1, <2>2
<1>2. Cardinality(Q) = IF \E i \in 1 .. Len(queue) : queue[i] = c THEN 1 ELSE 0
  <2>1. ASSUME NEW i \in 1 .. Len(queue), queue[i] = c PROVE Cardinality(Q) = 1
    <3>1. Q = {i}
      BY <1>0, <2>1 DEF Parties, OneParty
    <3> QED  BY <3>1, FS_Singleton
  <2>2. ASSUME ~\E i \in 1 .. Len(queue) : queue[i] = c PROVE Cardinality(Q) = 0
    <3>1. Q = {}
      BY <1>0, <2>2
    <3> QED  BY <3>1, FS_EmptySet
  <2> HIDE DEF Q
  <2> QED  BY <2>1, <2>2
<1> QED  BY <1>1, <1>2

(* Exactly one of the event, the queue and the threads looks after a         *)
(* connection that is served, and nobody after one that is freed, whatever   *)
(* the order in which the loop, the pool and close_connection run; no two    *)
(* connections have one socket number.                                       *)
THEOREM Tended == Spec => []ConnectionsTended
<1>1. ASSUME Types, Parties PROVE TendedOnce
  <2> SUFFICES ASSUME NEW c \in Conn
               PROVE  IF conn[c] \in {"open", "erased"} THEN Tenders(c) = 1 \/ (Refused /\ Tenders(c) = 0)
                      ELSE Tenders(c) = 0
    BY DEF TendedOnce
  <2> DEFINE T == \E t \in Thread : Works(t, c)
             Q == \E i \in 1 .. Len(queue) : queue[i] = c
             A == c \in armed
  <2>1. Tenders(c) = (IF T THEN 1 ELSE 0) + (IF Q THEN 1 ELSE 0) + (IF A THEN 1 ELSE 0)
    BY <1>1, OneTender DEF Tenders
  <2>2. ~(T /\ Q) /\ ~(T /\ A) /\ ~(Q /\ A)
    BY <1>1 DEF Parties, OneParty
  <2>3. conn[c] \in {"open", "erased"} => Refused \/ A \/ Q \/ T
    BY <1>1 DEF Parties, SomeParty
  <2>4. conn[c] \notin {"open", "erased"} => ~A /\ ~Q /\ ~T
    BY <1>1 DEF Parties, ServedOpen
  <2> HIDE DEF T, Q, A
  <2> QED  BY <2>1, <2>2, <2>3, <2>4
<1>2. ASSUME Types, Parties, FdInv PROVE TypeOK
  <2>1. /\ scen \in Scenarios
        /\ started \in BOOLEAN /\ signalled \in BOOLEAN /\ dbUp \in BOOLEAN /\ loopexit \in BOOLEAN
        /\ estate \in {"NEW", "RUNNING", "TERMINATING"}
    BY <1>2 DEF Types
  <2>2. ASSUME NEW c \in Conn
        PROVE  /\ client[c].msg \in Requests \cup {"none", "half"}
               /\ client[c].sent \in 0 .. scen.quota[c]
               /\ conn[c] \in {"none", "pending", "open", "erased", "freed"}
               /\ ring[c].size \in 0 .. Capacity /\ ring[c].write_pos \in 0 .. Capacity - 1
               /\ sess[c].trx \in {"none", "idle", "started"} /\ sess[c].multi \in BOOLEAN
               /\ \A n \in DOMAIN sess[c].fate : sess[c].fate[n] \in Fates
               /\ \A d \in Conn \ {c} : fd[c] # 0 => fd[c] # fd[d]
    <3>1. client[c].msg \in Requests \cup {"none", "half"} /\ client[c].sent \in Nat /\ client[c].sent <= scen.quota[c]
      BY <1>2, ClientFields DEF Types
    <3>2. scen.quota[c] \in Nat
      BY <1>2, ScenarioFields DEF Types
    <3>3. client[c].sent \in 0 .. scen.quota[c]
      BY <3>1, <3>2
    <3>4. ring[c].size \in 0 .. Capacity /\ ring[c].write_pos \in 0 .. Capacity - 1
      BY <1>2 DEF Types, Ring
    <3>5. conn[c] \in {"none", "pending", "open", "erased", "freed"}
      BY <1>2 DEF Types
    <3>6. /\ sess[c].trx \in {"none", "idle", "started"} /\ sess[c].multi \in BOOLEAN
          /\ sess[c].fate \in [1 .. scen.quota[c] -> Fates]
      BY <1>2, <3>2, SessionFields DEF Types
    <3>7. \A n \in DOMAIN sess[c].fate : sess[c].fate[n] \in Fates
      BY <3>6
    <3>8. \A d \in Conn \ {c} : fd[c] # 0 => fd[c] # fd[d]
      BY <1>2 DEF FdInv
    <3> QED  BY <3>1, <3>3, <3>4, <3>5, <3>6, <3>7, <3>8
  <2>3. armed \subseteq {c \in Conn : conn[c] = "open"}
    BY <1>2 DEF Types, Parties, ServedOpen
  <2>4. \A i, j \in DOMAIN queue : queue[i] \in Conn \cup {Loop} /\ (i # j => queue[i] # queue[j])
    <3>1. DOMAIN queue = 1 .. Len(queue) /\ queue \in Seq(Conn \cup {Loop})
      BY <1>2 DEF Types
    <3> QED  BY <1>2, <3>1 DEF Parties, OneParty
  <2> QED  BY <2>1, <2>2, <2>3, <2>4 DEF TypeOK
<1>3. ServerInv => ConnectionsTended
  BY <1>1, <1>2 DEF ServerInv, Control, Parties, ConnectionsTended
<1> QED  BY <1>3, InvAlways, PTL

LEMMA ForeignStep ==
    ASSUME ServerInv, [Next]_vars, NEW c \in Conn, client'[c].bad = "foreign", client[c].bad # "foreign"
    PROVE  \E t \in Thread : th[t].pc = "delwriter" /\ th[t].fd = fd[c] /\ client[th[t].conn].gone
<1>0. Types /\ Parties /\ Modes /\ FdInv /\ Bytes
  BY DEF ServerInv, Control, Parties, Modes
<1>1. client' # client
  OBVIOUS
<1>2. CASE \E t \in Thread : DeleteWriter(t)
  <2>1. PICK t \in Thread : DeleteWriter(t)
    BY <1>2
  <2>2. th[t].pc = "delwriter" /\ th[t].conn \in Conn
    BY <1>0, <2>1, WorksFor DEF DeleteWriter, Closing
  <2>3. th[t].fd = fd[c] /\ client[th[t].conn].gone
    BY <1>0, <2>1, <2>2, StrayClient
  <2> QED  BY <2>2, <2>3
<1>3. CASE \E t \in Thread : ReadCommand(t) \/ WriteResult(t)
  BY <1>0, <1>3, CommandBytes, ResultBytes
<1>4. CASE \E d \in Conn : Accept(d)
  BY <1>0, <1>4, AcceptFd, AcceptBytes
<1>5. CASE \E t \in Thread : ReadRequest(t)
  <2>1. PICK t \in Thread : ReadRequest(t)
    BY <1>5
  <2>2. th[t].conn \in Conn
    BY <1>0, <2>1, WorksFor DEF ReadRequest, Serving
  <2>3. \A d \in Conn : client'[d].bad = client[d].bad
    BY <1>0, <2>1, <2>2, RequestDo
  <2> QED  BY <2>3
<1>6. CASE \E d \in Conn : SendHalf(d) \/ ClientClose(d) \/ \E kind \in Requests : SendRest(d, kind)
  <2>1. PICK d \in Conn : \E m, n, g : Speaks(d, m, n, g)
    <3>1. CASE \E d \in Conn : SendHalf(d)
      BY <1>0, <3>1, SendHalfDo
    <3>2. CASE \E d \in Conn : ClientClose(d)
      BY <1>0, <3>2, LeaveDo
    <3>3. CASE \E d \in Conn, kind \in Requests : SendRest(d, kind)
      BY <1>0, <3>3, SendRestDo
    <3> QED  BY <1>6, <3>1, <3>2, <3>3, Zenon
  <2> QED  BY <2>1 DEF Speaks
<1>7. \/ \E t \in Thread : DeleteWriter(t) \/ ReadCommand(t) \/ WriteResult(t) \/ ReadRequest(t)
      \/ \E d \in Conn : Accept(d) \/ SendHalf(d) \/ ClientClose(d) \/ \E kind \in Requests : SendRest(d, kind)
  <2>1. CASE \E t \in Thread : WriteStep(t) \/ OtherStep(t) \/ Expire(t)
    <3>1. PICK t \in Thread : WriteStep(t) \/ OtherStep(t) \/ Expire(t)
      BY <2>1
    <3>2. ~(\/ RunTask(t) \/ PopNothing(t) \/ TryAgain(t) \/ Expire(t) \/ ThreadExit(t) \/ LoopEnd(t) \/ Pop(t)
            \/ (\E d \in Conn : LoopDispatch(t, d)) \/ LoopPush(t) \/ LoopExtend(t)
            \/ PollStopped(t) \/ PollError(t) \/ PollReady(t) \/ ReadClosed(t) \/ CloseFd(t))
      BY <1>0, <1>1, ThreadIdleBytes
    <3>3. ~(Handle(t) \/ CloseErase(t) \/ DeleteSession(t))
      BY <1>1 DEF Handle, CloseErase, DeleteSession
    <3> QED  BY <3>1, <3>2, <3>3 DEF WriteStep, OtherStep
  <2>2. CASE MainStep \/ Signal
    <3>1. ~(MainOnly \/ CreateCore \/ ExtendForLoop \/ SubmitLoop \/ CliNext \/ CliNoLine)
      BY <1>0, <1>1, MainIdleBytes
    <3>2. ~(AwaitStop \/ CliStart \/ CliEnd)
      BY <1>1 DEF AwaitStop, CliStart, CliEnd
    <3> QED  BY <2>2, <3>1, <3>2 DEF MainStep, MainOnly
  <2>3. CASE \E d \in Conn : ClientStep(d)
    BY <1>1, <2>3 DEF ClientStep, Connect
  <2>4. CASE UNCHANGED vars
    BY <1>1, <2>4 DEF vars
  <2> QED  BY <2>1, <2>2, <2>3, <2>4 DEF Next, AwaitPoll, Exited
<1> QED  BY <1>2, <1>3, <1>4, <1>5, <1>6, <1>7

(* Bytes for another reach a client in one way: its socket number is the one *)
(* that ~Communicator closed before the writer's last flush, and the owner   *)
(* of the bytes had gone.                                                    *)
THEOREM Owned == Spec => OwnAnswers
<1>1. ServerInv /\ [Next]_vars =>
         [\A c \in Conn : client'[c].bad = "foreign" /\ client[c].bad # "foreign" =>
             \E t \in Thread : /\ th[t].pc = "delwriter" /\ th[t].fd = fd[c]
                               /\ client[th[t].conn].gone]_vars
  BY ForeignStep
<1> QED  BY <1>1, InvAlways, PTL DEF Spec, OwnAnswers

-----------------------------------------------------------------------------
(* The sessions.  First what a history of requests says of the open block    *)
(* and of the changes in it.                                                 *)
LEMMA SameBlock ==
    ASSUME NEW k \in Int, NEW sd, NEW se, \A m \in 1 .. k : sd[m][1] = se[m][1]
    PROVE  OpenBlock(sd, k) <=> OpenBlock(se, k)
<1>1. \A b \in 1 .. k : \A m \in b + 1 .. k : m \in 1 .. k
  OBVIOUS
<1> QED  BY <1>1 DEF OpenBlock

LEMMA NextBlock ==
    ASSUME NEW k \in Nat, NEW sd
    PROVE  OpenBlock(sd, k + 1) <=> (sd[k + 1][1] = "BEGIN" \/ (OpenBlock(sd, k) /\ sd[k + 1][1] \notin Ends))
<1>1. ASSUME sd[k + 1][1] = "BEGIN" PROVE OpenBlock(sd, k + 1)
  <2>1. k + 1 \in 1 .. k + 1 /\ \A m \in (k + 1) + 1 .. k + 1 : FALSE
    OBVIOUS
  <2> QED  BY <1>1, <2>1 DEF OpenBlock
<1>2. ASSUME OpenBlock(sd, k), sd[k + 1][1] \notin Ends PROVE OpenBlock(sd, k + 1)
  <2>1. PICK b \in 1 .. k : sd[b][1] = "BEGIN" /\ \A m \in b + 1 .. k : sd[m][1] \notin Ends
    BY <1>2 DEF OpenBlock
  <2>2. b \in 1 .. k + 1 /\ \A m \in b + 1 .. k + 1 : m \in b + 1 .. k \/ m = k + 1
    OBVIOUS
  <2> QED  BY <1>2, <2>1, <2>2 DEF OpenBlock
<1>3. ASSUME OpenBlock(sd, k + 1), sd[k + 1][1] # "BEGIN" PROVE OpenBlock(sd, k) /\ sd[k + 1][1] \notin Ends
  <2>1. PICK b \in 1 .. k + 1 : sd[b][1] = "BEGIN" /\ \A m \in b + 1 .. k + 1 : sd[m][1] \notin Ends
    BY <1>3 DEF OpenBlock
  <2>2. b # k + 1
    BY <1>3, <2>1
  <2>3. b \in 1 .. k /\ k + 1 \in b + 1 .. k + 1 /\ \A m \in b + 1 .. k : m \in b + 1 .. k + 1
    BY <2>2
  <2> QED  BY <2>1, <2>3 DEF OpenBlock
<1> QED  BY <1>1, <1>2, <1>3

LEMMA LongerBlock ==
    ASSUME NEW n \in Nat \ {0}, NEW h \in Nat, n <= h, NEW sd, OpenBlock(sd, n - 1), sd[n][1] \notin Ends,
           \A m \in n + 1 .. h : sd[m][1] \notin Ends
    PROVE  OpenBlock(sd, h)
<1>1. PICK b \in 1 .. n - 1 : sd[b][1] = "BEGIN" /\ \A m \in b + 1 .. n - 1 : sd[m][1] \notin Ends
  BY DEF OpenBlock
<1>2. b \in 1 .. h /\ \A m \in b + 1 .. h : m \in b + 1 .. n - 1 \/ m = n \/ m \in n + 1 .. h
  OBVIOUS
<1> QED  BY <1>1, <1>2 DEF OpenBlock

LEMMA SameFate ==
    ASSUME NEW h \in Nat, NEW n \in 1 .. h + 1, NEW sd, NEW se, \A m \in 1 .. h : sd[m][1] = se[m][1],
           NEW f, NEW kit, NEW st, NEW sx, st = "freed" => sx = "freed", FateAt(sd, h, n, f, kit, st)
    PROVE  FateAt(se, h, n, f, kit, sx)
<1>1. n - 1 \in Int /\ \A m \in 1 .. n - 1 : m \in 1 .. h
  OBVIOUS
<1>2. OpenBlock(sd, n - 1) <=> OpenBlock(se, n - 1)
  BY <1>1, SameBlock
<1>3. /\ \A m \in n + 1 .. h : m \in 1 .. h
      /\ \A m \in n + 1 .. h : \A k \in n + 1 .. m - 1 : k \in 1 .. h
  OBVIOUS
<1> QED  BY <1>2, <1>3 DEF FateAt

LEMMA NextFate ==
    ASSUME NEW h \in Nat, NEW n \in 1 .. h, NEW sd, NEW f, NEW kit, NEW st, FateAt(sd, h, n, f, kit, st),
           sd[h + 1][1] \notin Ends
    PROVE  FateAt(sd, h + 1, n, f, kit, st)
<1>1. /\ \A m \in n + 1 .. h : m \in n + 1 .. h + 1
      /\ \A m \in n + 1 .. h + 1 : m = h + 1 \/ m \in n + 1 .. h
  OBVIOUS
<1> QED  BY <1>1 DEF FateAt

LEMMA EndFate ==
    ASSUME NEW h \in Nat, NEW n \in 1 .. h, NEW sd, NEW f, NEW kit, NEW st, FateAt(sd, h, n, f, kit, st),
           st # "freed", sd[h + 1][1] \in Ends, NEW g,
           g = IF f # "pending" THEN f ELSE IF sd[h + 1][1] = "COMMIT" THEN "committed" ELSE "undone"
    PROVE  FateAt(sd, h + 1, n, g, kit, st)
<1>1. CASE kit = "vacuous" \/ ~OpenBlock(sd, n - 1)
  BY <1>1 DEF FateAt
<1>2. CASE ~(kit = "vacuous" \/ ~OpenBlock(sd, n - 1))
  <2>1. h + 1 \in n + 1 .. h + 1
    OBVIOUS
  <2>2. ASSUME NEW m \in n + 1 .. h + 1, sd[m][1] \in Ends, \A k \in n + 1 .. m - 1 : sd[k][1] \notin Ends
        PROVE  g = IF sd[m][1] = "COMMIT" THEN "committed" ELSE "undone"
    <3>1. CASE m = h + 1
      <4>1. \A k \in n + 1 .. h : k \in n + 1 .. m - 1
        BY <3>1
      <4>2. f = "pending"
        BY <1>2, <2>2, <4>1 DEF FateAt
      <4> QED  BY <3>1, <4>2
    <3>2. CASE m # h + 1
      <4>1. m \in n + 1 .. h
        BY <3>2
      <4>2. f = IF sd[m][1] = "COMMIT" THEN "committed" ELSE "undone"
        BY <1>2, <2>2, <4>1 DEF FateAt
      <4> QED  BY <4>2
    <3> QED  BY <3>1, <3>2
  <2> QED  BY <1>2, <2>1, <2>2 DEF FateAt
<1> QED  BY <1>1, <1>2

LEMMA CloseFate ==
    ASSUME NEW h \in Nat, NEW n \in 1 .. h, NEW sd, NEW f, NEW kit, NEW st, FateAt(sd, h, n, f, kit, st),
           sd[n][1] = "WRITE", ~OpenBlock(sd, h), NEW g, g = IF f = "pending" THEN "committed" ELSE f
    PROVE  FateAt(sd, h, n, g, kit, st)
<1>1. CASE kit = "vacuous" \/ ~OpenBlock(sd, n - 1)
  BY <1>1 DEF FateAt
<1>2. CASE ~(kit = "vacuous" \/ ~OpenBlock(sd, n - 1))
  <2>1. ~\A m \in n + 1 .. h : sd[m][1] \notin Ends
    <3>1. n \in Nat \ {0} /\ n <= h /\ sd[n][1] \notin Ends
      BY DEF Ends
    <3> QED  BY <1>2, <3>1, LongerBlock
  <2>2. ASSUME NEW m \in n + 1 .. h, sd[m][1] \in Ends, \A k \in n + 1 .. m - 1 : sd[k][1] \notin Ends
        PROVE  g = IF sd[m][1] = "COMMIT" THEN "committed" ELSE "undone"
    <3>1. f = IF sd[m][1] = "COMMIT" THEN "committed" ELSE "undone"
      BY <1>2, <2>2 DEF FateAt
    <3> QED  BY <3>1
  <2> QED  BY <1>2, <2>1, <2>2 DEF FateAt
<1> QED  BY <1>1, <1>2

LEMMA DropFate ==
    ASSUME NEW h, NEW n, NEW sd, NEW f, NEW kit, NEW st, FateAt(sd, h, n, f, kit, st),
           NEW g, g = IF f = "pending" THEN "orphan" ELSE f
    PROVE  FateAt(sd, h, n, g, kit, "freed")
<1>1. CASE kit = "vacuous" \/ ~OpenBlock(sd, n - 1)
  BY <1>1 DEF FateAt
<1>2. CASE ~(kit = "vacuous" \/ ~OpenBlock(sd, n - 1))
  BY <1>2 DEF FateAt
<1> QED  BY <1>1, <1>2

(* How many requests were handled.                                           *)
SameAsk(d) == client'[d].msg = client[d].msg /\ client'[d].sent = client[d].sent

LEMMA SameHandled ==
    ASSUME NEW d, SeenWork(d), SameAsk(d)
    PROVE  (Handling(d)' <=> Handling(d)) /\ (Busy(d)' <=> Busy(d)) /\ Handled(d)' = Handled(d)
<1>1. Handling(d)' <=> Handling(d)
  BY DEF Handling, SeenWork
<1>2. AtWork(d)' <=> AtWork(d)
  BY DEF SeenWork, AtWork
<1> QED  BY <1>1, <1>2 DEF Busy, Handled, SameAsk

LEMMA HandledRange ==
    ASSUME Types, NEW c \in Conn, BytesOf(c)
    PROVE  /\ client[c].sent \in Nat /\ client[c].sent <= scen.quota[c] /\ scen.quota[c] \in Nat
           /\ Handled(c) \in Nat /\ Handled(c) <= client[c].sent
           /\ DOMAIN said[c] = 1 .. scen.quota[c]
<1>1. client[c].sent \in Nat /\ client[c].sent <= scen.quota[c] /\ scen.quota[c] \in Nat
  BY ClientFields, ScenarioFields DEF Types
<1>2. client[c].msg # "none" \/ Handling(c) => client[c].sent > 0
  BY DEF BytesOf, AskedInv, Busy, AtWork, Handling
<1>3. Handled(c) \in Nat /\ Handled(c) <= client[c].sent
  BY <1>1, <1>2 DEF Handled
<1> QED  BY <1>1, <1>3 DEF Types

LEMMA ToldHandled ==
    ASSUME Types, NEW c \in Conn, BytesOf(c), NEW n \in DOMAIN said[c], said[c][n][2] # "-"
    PROVE  n \in 1 .. Handled(c)
<1>1. /\ client[c].sent \in Nat /\ client[c].sent <= scen.quota[c] /\ scen.quota[c] \in Nat
      /\ n \in 1 .. scen.quota[c]
  BY HandledRange
<1>2. n <= client[c].sent
  <2>1. n > client[c].sent => said[c][n] = <<"-", "-">>
    BY DEF BytesOf, AskedInv
  <2> QED  BY <1>1, <2>1
<1>3. ASSUME client[c].msg # "none" \/ Handling(c), n = client[c].sent PROVE FALSE
  <2>1. CASE Handling(c)
    <3>1. PICK t \in Thread : th[t].conn = c /\ th[t].pc = "handle"
      BY <2>1 DEF Handling
    <3>2. said[c][n] = <<th[t].kind, "-">>
      BY <1>3, <3>1 DEF BytesOf, WorkInv
    <3> QED  BY <3>2
  <2>2. CASE client[c].msg # "none"
    <3>1. client[c].msg = "half" \/ client[c].msg \in Requests
      BY <2>2, ClientFields DEF Types
    <3>2. said[c][n] = <<"-", "-">> \/ said[c][n] = <<client[c].msg, "-">>
      BY <1>3, <3>1 DEF BytesOf, AskedInv
    <3> QED  BY <3>2
  <2> QED  BY <1>3, <2>1, <2>2
<1> QED  BY <1>1, <1>2, <1>3 DEF Handled

(* A session that is as it was.                                              *)
LEMMA KeptSession ==
    ASSUME Types, NEW d \in Conn, BytesOf(d), SessionOf(d), UNCHANGED scen, said'[d] = said[d], sess'[d] = sess[d],
           SameAsk(d), SeenWork(d), conn[d] = "freed" => conn'[d] = "freed"
    PROVE  MultiInv(d)' /\ BeginInv(d)' /\ FateInv(d)' /\ (Even(d)' <=> Even(d))
<1>1. (Handling(d)' <=> Handling(d)) /\ (Busy(d)' <=> Busy(d)) /\ Handled(d)' = Handled(d)
  BY SameHandled
<1>2. MultiInv(d)'
  BY <1>1 DEF SessionOf, MultiInv
<1>3. BeginInv(d)'
  BY <1>1 DEF SessionOf, BeginInv, SameAsk, SeenWork
<1>4. ASSUME NEW n \in DOMAIN said[d], said[d][n] = <<"WRITE", "SUCCESS">>
      PROVE  FateAt(said[d], Handled(d), n, sess[d].fate[n], scen.kit, conn'[d])
  <2> DEFINE h == Handled(d)
             f == sess[d].fate[n]
             sd == said[d]
             kit == scen.kit
             st == conn[d]
             sx == conn'[d]
  <2>1. FateAt(sd, h, n, f, kit, st)
    BY <1>4 DEF SessionOf, FateInv
  <2>2. h \in Nat /\ n \in 1 .. h
    BY <1>4, HandledRange, ToldHandled
  <2>3. n \in 1 .. h + 1 /\ (st = "freed" => sx = "freed")
    BY <2>2
  <2> HIDE DEF h, f, sd, kit, st, sx
  <2>4. FateAt(sd, h, n, f, kit, sx)
    BY <2>1, <2>2, <2>3, SameFate
  <2> QED  BY <2>4 DEF h, f, sd, kit, sx
<1>5. FateInv(d)'
  BY <1>1, <1>4 DEF SessionOf, FateInv, SameAsk, SeenWork
<1>6. Even(d)' <=> Even(d)
  BY DEF Even, LeftOpen
<1> QED  BY <1>2, <1>3, <1>5, <1>6

LEMMA QuietSession ==
    ASSUME Types, NEW d \in Conn, BytesOf(d), SessionOf(d), UNCHANGED scen, said'[d] = said[d], sess'[d] = sess[d],
           SameAsk(d), Seen(d), conn'[d] = conn[d] \/ (conn[d] = "none" /\ conn'[d] = "pending")
    PROVE  SessionOf(d)'
<1>1. SeenWork(d) /\ \A u \in Thread : th[u].conn = d /\ th[u].pc = "close" => th'[u].conn = d /\ th'[u].pc = "close"
  BY DEF Seen
<1>2. MultiInv(d)' /\ BeginInv(d)' /\ FateInv(d)' /\ (Even(d)' <=> Even(d))
  BY <1>1, KeptSession
<1>3. (\A t \in Thread : th'[t].conn = d => th'[t].pc \notin {"answer", "close"}) =>
          \A t \in Thread : th[t].conn = d => th[t].pc \notin {"answer", "close"}
  BY <1>1 DEF SeenWork
<1>4. TrxInv(d)'
  BY <1>1, <1>2, <1>3 DEF SessionOf, TrxInv, SeenWork
<1> QED  BY <1>2, <1>4 DEF SessionOf

(* A connection is taken out of the map, and its session destroyed.          *)
LEMMA ErasedSession ==
    ASSUME Types, NEW d \in Conn, BytesOf(d), SessionOf(d), UNCHANGED scen, said'[d] = said[d], sess'[d] = sess[d],
           SameAsk(d), SeenWork(d), conn[d] # "freed", conn'[d] = "erased"
    PROVE  SessionOf(d)'
<1>1. MultiInv(d)' /\ BeginInv(d)' /\ FateInv(d)'
  BY KeptSession
<1>2. TrxInv(d)'
  BY DEF TrxInv
<1> QED  BY <1>1, <1>2 DEF SessionOf

LEMMA DroppedSession ==
    ASSUME Types, NEW d \in Conn, BytesOf(d), SessionOf(d), UNCHANGED scen, said'[d] = said[d],
           sess'[d] = Destroyed(sess[d]), SameAsk(d), SeenWork(d), conn'[d] = "freed", ~AtWork(d)
    PROVE  SessionOf(d)'
<1>1. (Handling(d)' <=> Handling(d)) /\ (Busy(d)' <=> Busy(d)) /\ Handled(d)' = Handled(d)
  BY SameHandled
<1>2. scen.quota[d] \in Nat /\ DOMAIN said[d] = 1 .. scen.quota[d] /\ sess[d] \in Sessions(scen.quota[d])
  BY HandledRange DEF Types
<1>3. /\ sess'[d].multi = sess[d].multi
      /\ \A n \in 1 .. scen.quota[d] :
            sess'[d].fate[n] = IF sess[d].fate[n] = "pending" THEN "orphan" ELSE sess[d].fate[n]
  BY <1>2, DestroyedSession
<1>4. MultiInv(d)'
  BY <1>1, <1>3 DEF SessionOf, MultiInv
<1>5. BeginInv(d)'
  BY <1>1 DEF SessionOf, BeginInv, SameAsk, SeenWork
<1>6. ASSUME NEW n \in DOMAIN said[d], said[d][n] = <<"WRITE", "SUCCESS">>
      PROVE  FateAt(said[d], Handled(d), n, sess'[d].fate[n], scen.kit, conn'[d])
  <2> DEFINE h == Handled(d)
             f == sess[d].fate[n]
             g == sess'[d].fate[n]
             sd == said[d]
             kit == scen.kit
             st == conn[d]
  <2>1. FateAt(sd, h, n, f, kit, st)
    BY <1>6 DEF SessionOf, FateInv
  <2>2. g = IF f = "pending" THEN "orphan" ELSE f
    BY <1>2, <1>3, <1>6
  <2> HIDE DEF h, f, g, sd, kit, st
  <2>3. FateAt(sd, h, n, g, kit, "freed")
    BY <2>1, <2>2, DropFate
  <2> QED  BY <2>3 DEF h, g, sd, kit
<1>7. \A t \in Thread : ~(th'[t].conn = d /\ th'[t].pc = "answer")
  BY DEF AtWork, SeenWork
<1>8. FateInv(d)'
  BY <1>1, <1>6, <1>7 DEF FateInv
<1>9. TrxInv(d)'
  BY DEF TrxInv
<1> QED  BY <1>4, <1>5, <1>8, <1>9 DEF SessionOf

(* A connection is accepted.                                                 *)
LEMMA OpenedSession ==
    ASSUME Types, Parties, NEW c \in Conn, BytesOf(c), SessionOf(c), UNCHANGED scen, said'[c] = said[c],
           sess'[c] = sess[c], SameAsk(c), SeenWork(c), conn[c] \in {"none", "pending"}, conn'[c] = "open"
    PROVE  SessionOf(c)'
<1>1. MultiInv(c)' /\ BeginInv(c)' /\ FateInv(c)' /\ (Even(c)' <=> Even(c))
  BY KeptSession
<1>2. client[c].sent = 0 /\ client[c].msg = "none" /\ ~AtWork(c)
  BY NotBusyYet
<1>3. Handled(c) = 0
  BY <1>2 DEF Handled, Handling, AtWork
<1>4. ~sess[c].multi
  BY <1>3 DEF SessionOf, MultiInv, OpenBlock
<1>5. scen.kit = "mvcc" => Even(c)
  BY <1>4 DEF SessionOf, TrxInv, Even
<1>6. \A t \in Thread : ~(th'[t].conn = c /\ th'[t].pc = "answer")
  BY <1>2 DEF AtWork, SeenWork
<1>7. TrxInv(c)'
  BY <1>1, <1>5, <1>6 DEF TrxInv
<1> QED  BY <1>1, <1>7 DEF SessionOf

(* The steps that leave the sessions alone.                                  *)
LEMMA IdleSession ==
    ASSUME Types, Bytes, SessionInv, UNCHANGED <<scen, client, conn, sess, said>>, \A d \in Conn : Seen(d)
    PROVE  SessionInv'
<1> SUFFICES ASSUME NEW d \in Conn PROVE SessionOf(d)'
  BY DEF SessionInv
<1>1. BytesOf(d) /\ SessionOf(d) /\ SameAsk(d)
  BY DEF Bytes, SessionInv, SameAsk
<1> QED  BY <1>1, QuietSession

LEMMA DeleteWriterSession ==
    ASSUME Types, Parties, Bytes, SessionInv, NEW t \in Thread, DeleteWriter(t)
    PROVE  SessionInv'
<1>1. PICK c \in Conn : th[t].conn = c
  BY WorksFor DEF DeleteWriter, Closing
<1>2. /\ UNCHANGED <<scen, conn, sess, said>>
      /\ th[t].pc = "delwriter" /\ Turn(t, "delsession", c, th[t].kind, th[t].rc, 0)
  BY <1>1, DeleteWriterDo
<1> SUFFICES ASSUME NEW d \in Conn PROVE SessionOf(d)'
  BY DEF SessionInv
<1>3. ClientSame(d)
  BY <1>1, StrayClient
<1>4. BytesOf(d) /\ SessionOf(d) /\ SameAsk(d)
  BY <1>3 DEF Bytes, SessionInv, SameAsk, ClientSame
<1>5. Seen(d)
  BY <1>2, SeenTurn
<1> QED  BY <1>2, <1>4, <1>5, QuietSession

LEMMA EraseSession ==
    ASSUME Types, Parties, Bytes, SessionInv, NEW t \in Thread, CloseErase(t)
    PROVE  SessionInv'
<1>1. PICK c \in Conn : th[t].conn = c
  BY WorksFor DEF CloseErase, Serving
<1>2. /\ UNCHANGED <<scen, client, sess, said>>
      /\ th[t].pc = "close" /\ Turn(t, "closefd", c, th[t].kind, th[t].rc, th[t].fd)
      /\ conn'[c] = "erased" /\ \A d \in Conn : d # c => conn'[d] = conn[d]
  BY <1>1, EraseDo
<1>3. SeenWork(c)
  BY <1>2 DEF Turn, SeenWork
<1>4. conn[c] = "open"
  <2>1. Works(t, c) /\ th[t].pc \notin Closing
    BY <1>1, <1>2 DEF Works, Closing
  <2> QED  BY <2>1 DEF Parties, ServedOpen
<1> SUFFICES ASSUME NEW d \in Conn PROVE SessionOf(d)'
  BY DEF SessionInv
<1>5. BytesOf(d) /\ SessionOf(d) /\ SameAsk(d)
  BY <1>2 DEF Bytes, SessionInv, SameAsk
<1>6. CASE d = c
  BY <1>2, <1>3, <1>4, <1>5, <1>6, ErasedSession
<1>7. CASE d # c
  <2>1. Seen(d)
    BY <1>1, <1>2, <1>7, SeenTurn
  <2> QED  BY <1>2, <1>5, <1>7, <2>1, QuietSession
<1> QED  BY <1>6, <1>7

LEMMA DeleteSessionSession ==
    ASSUME Types, Parties, Bytes, SessionInv, NEW t \in Thread, DeleteSession(t)
    PROVE  SessionInv'
<1> DEFINE p == IF Pooled THEN "idle" ELSE "none"
<1>1. PICK c \in Conn : th[t].conn = c
  BY WorksFor DEF DeleteSession, Closing
<1>2. /\ UNCHANGED <<scen, client, said>>
      /\ th[t].pc = "delsession" /\ Turn(t, p, NoConn, "-", "-", 0)
      /\ sess'[c] = Destroyed(sess[c]) /\ \A d \in Conn : d # c => sess'[d] = sess[d]
      /\ conn'[c] = "freed" /\ \A d \in Conn : d # c => conn'[d] = conn[d]
  BY <1>1, DeleteSessionDo
<1>3. p \notin {"handle", "answer"} /\ th[t].pc \notin {"handle", "answer", "close"}
  BY <1>2
<1> HIDE DEF p
<1>4. ~AtWork(c)
  BY <1>1, <1>2, <1>3, WorksAlone DEF AtWork
<1> SUFFICES ASSUME NEW d \in Conn PROVE SessionOf(d)'
  BY DEF SessionInv
<1>5. BytesOf(d) /\ SessionOf(d) /\ SameAsk(d)
  BY <1>2 DEF Bytes, SessionInv, SameAsk
<1>6. Seen(d) /\ SeenWork(d)
  BY <1>2, <1>3, SeenTurn DEF Seen
<1>7. CASE d = c
  BY <1>2, <1>4, <1>5, <1>6, <1>7, DroppedSession
<1>8. CASE d # c
  BY <1>2, <1>5, <1>6, <1>8, QuietSession
<1> QED  BY <1>7, <1>8

LEMMA CliEndSession ==
    ASSUME Types, Parties, Modes, Bytes, SessionInv, CliEnd
    PROVE  SessionInv'
<1>1. /\ UNCHANGED <<scen, client, said>> /\ 1 \in Thread /\ 1 \in Conn /\ th[1].pc \in {"line", "read"}
      /\ conn'[1] = "freed" /\ \A d \in Conn : d # 1 => conn'[d] = conn[d]
      /\ sess'[1] = Destroyed(sess[1]) /\ \A d \in Conn : d # 1 => sess'[d] = sess[d]
      /\ Turn(1, "none", NoConn, "-", "-", 0)
  BY CliEndDo, CardConn
<1>2. th[1].pc \notin {"handle", "answer", "close"} /\ "none" \notin {"handle", "answer"}
  BY <1>1
<1>3. ~AtWork(1)
  <2>1. scen.handling = "cli"
    BY ScenarioFields DEF Types, Modes, PoolInv, WorkerInv, Pooled, PoolMain, WorkerMain, CliEnd
  <2>2. \A u \in Thread : th[u].pc # "none" => u = 1
    BY <2>1 DEF Modes, CliInv
  <2> QED  BY <1>2, <2>2 DEF AtWork
<1> SUFFICES ASSUME NEW d \in Conn PROVE SessionOf(d)'
  BY DEF SessionInv
<1>4. BytesOf(d) /\ SessionOf(d) /\ SameAsk(d)
  BY <1>1 DEF Bytes, SessionInv, SameAsk
<1>5. Seen(d) /\ SeenWork(d)
  BY <1>1, <1>2, SeenTurn DEF Seen
<1>6. CASE d = 1
  BY <1>1, <1>3, <1>4, <1>5, <1>6, DroppedSession
<1>7. CASE d # 1
  BY <1>1, <1>4, <1>5, <1>7, QuietSession
<1> QED  BY <1>6, <1>7

LEMMA AwaitSession ==
    ASSUME Types, Bytes, SessionInv, AwaitStop
    PROVE  SessionInv'
<1> DEFINE left == IF Pooled THEN {c \in Conn : conn[c] = "open"} ELSE {}
<1>1. /\ UNCHANGED <<scen, client, said, th>>
      /\ \A c \in Conn : /\ conn'[c] = IF c \in left THEN "freed" ELSE conn[c]
                         /\ sess'[c] = IF c \in left THEN Destroyed(sess[c]) ELSE sess[c]
  BY AwaitStopDo
<1>2. ASSUME NEW c \in left PROVE ~AtWork(c)
  <2>1. Pooled
    OBVIOUS
  <2>2. \A u \in Thread : th[u].pc = "none"
    BY <2>1, PoolEmpty DEF AwaitStop, Stopped
  <2> QED  BY <2>2 DEF AtWork
<1> HIDE DEF left
<1> SUFFICES ASSUME NEW d \in Conn PROVE SessionOf(d)'
  BY DEF SessionInv
<1>3. BytesOf(d) /\ SessionOf(d) /\ SameAsk(d)
  BY <1>1 DEF Bytes, SessionInv, SameAsk
<1>4. Seen(d) /\ SeenWork(d)
  BY <1>1, SeenSame DEF Seen
<1>5. CASE d \in left
  BY <1>1, <1>2, <1>3, <1>4, <1>5, DroppedSession
<1>6. CASE d \notin left
  BY <1>1, <1>3, <1>4, <1>6, QuietSession
<1> QED  BY <1>5, <1>6

LEMMA CliStartSession ==
    ASSUME Types, Parties, Modes, Bytes, SessionInv, CliStart
    PROVE  SessionInv'
<1>1. /\ UNCHANGED <<scen, client, sess, said>>
      /\ main = "cli" /\ 1 \in Thread /\ 1 \in Conn
      /\ conn'[1] = "open" /\ \A d \in Conn : d # 1 => conn'[d] = conn[d]
      /\ Turn(1, "line", 1, "-", "-", 0)
  BY CliStartDo
<1>2. scen.handling = "cli"
  BY <1>1, ScenarioFields DEF Types, Modes, PoolInv, WorkerInv, Pooled, PoolMain, WorkerMain
<1>3. conn[1] = "none" /\ th[1].pc = "none"
  BY <1>1, <1>2 DEF Modes, CliInv
<1> SUFFICES ASSUME NEW d \in Conn PROVE SessionOf(d)'
  BY DEF SessionInv
<1>4. BytesOf(d) /\ SessionOf(d) /\ SameAsk(d)
  BY <1>1 DEF Bytes, SessionInv, SameAsk
<1>5. Seen(d) /\ SeenWork(d)
  BY <1>1, <1>3, SeenTurn DEF Seen
<1>6. CASE d # 1
  BY <1>1, <1>4, <1>5, <1>6, QuietSession
<1>7. CASE d = 1
  BY <1>1, <1>3, <1>4, <1>5, <1>7, OpenedSession
<1> QED  BY <1>6, <1>7

LEMMA ConnectSession ==
    ASSUME Types, Bytes, SessionInv, NEW c \in Conn, Connect(c)
    PROVE  SessionInv'
<1>1. /\ UNCHANGED <<scen, client, sess, said, th>>
      /\ conn[c] = "none" /\ conn'[c] = "pending"
      /\ \A d \in Conn : d # c => conn'[d] = conn[d]
  BY ConnectDo
<1> SUFFICES ASSUME NEW d \in Conn PROVE SessionOf(d)'
  BY DEF SessionInv
<1>2. BytesOf(d) /\ SessionOf(d) /\ SameAsk(d) /\ Seen(d)
  BY <1>1, SeenSame DEF Bytes, SessionInv, SameAsk
<1> QED  BY <1>1, <1>2, QuietSession

LEMMA AcceptSession ==
    ASSUME Types, Parties, Modes, Bytes, SessionInv, NEW c \in Conn, fd[c] = 0, Accept(c)
    PROVE  SessionInv'
<1>1. /\ UNCHANGED <<scen, sess, said>> /\ main = "polling" /\ conn[c] = "pending"
      /\ conn'[c] = "open" /\ \A d \in Conn : d # c => conn'[d] = conn[d]
      /\ Wrote(c, client[c], Greeting(scen.protocol, c)) /\ Greeting(scen.protocol, c) \in Seq(Byte)
      /\ IF Pooled THEN th' = th ELSE c \in Thread /\ Turn(c, "poll", c, "-", "-", 0)
  BY AcceptDo
<1>2. client[c] \in Client
  BY DEF Types
<1>3. \A d \in Conn : SameAsk(d)
  BY <1>1, <1>2, WroteDo DEF SameAsk
<1>4. \A d \in Conn : Seen(d)
  <2>1. CASE Pooled
    BY <1>1, <2>1, SeenSame
  <2>2. CASE ~Pooled
    <3>1. scen.handling = "one-thread"
      BY <1>1, <2>2, ScenarioFields DEF Types, Modes, CliInv, Pooled, CliMain
    <3>2. c \in Thread /\ Turn(c, "poll", c, "-", "-", 0)
      BY <1>1, <2>2
    <3>3. \A u \in Thread : ~Works(u, c)
      BY <1>1, NobodyYet
    <3>4. th[c].pc = "none"
      BY <3>1, <3>2, <3>3 DEF Modes, WorkerInv, Works, Closing
    <3> QED  BY <3>2, <3>4, SeenTurn
  <2> QED  BY <2>1, <2>2
<1> SUFFICES ASSUME NEW d \in Conn PROVE SessionOf(d)'
  BY DEF SessionInv
<1>5. BytesOf(d) /\ SessionOf(d) /\ SameAsk(d) /\ Seen(d) /\ SeenWork(d)
  BY <1>3, <1>4 DEF Bytes, SessionInv, Seen
<1>6. CASE d = c
  BY <1>1, <1>5, <1>6, OpenedSession
<1>7. CASE d # c
  BY <1>1, <1>5, <1>7, QuietSession
<1> QED  BY <1>6, <1>7

(* A client speaks, or goes.                                                 *)
LEMMA LeaveSession ==
    ASSUME Types, Bytes, SessionInv, NEW c \in Conn, ClientClose(c)
    PROVE  SessionInv'
<1>1. /\ UNCHANGED <<scen, conn, sess, said, th>>
      /\ Speaks(c, client[c].msg, client[c].sent, TRUE)
  BY LeaveDo
<1> SUFFICES ASSUME NEW d \in Conn PROVE SessionOf(d)'
  BY DEF SessionInv
<1>2. SameAsk(d)
  BY <1>1 DEF Speaks, SameAsk
<1>3. BytesOf(d) /\ SessionOf(d) /\ Seen(d)
  BY <1>1, SeenSame DEF Bytes, SessionInv
<1> QED  BY <1>1, <1>2, <1>3, QuietSession

LEMMA SpeakOthersSession ==
    ASSUME Types, Bytes, SessionInv, UNCHANGED <<scen, conn, sess, th>>, NEW c \in Conn,
           \A d \in Conn : d # c => said'[d] = said[d], NEW m, NEW n, NEW g, Speaks(c, m, n, g)
    PROVE  \A d \in Conn : d # c => SessionOf(d)'
<1> SUFFICES ASSUME NEW d \in Conn, d # c PROVE SessionOf(d)'
  OBVIOUS
<1>1. BytesOf(d) /\ SessionOf(d) /\ SameAsk(d) /\ Seen(d)
  BY SeenSame DEF Bytes, SessionInv, SameAsk, Speaks
<1> QED  BY <1>1, QuietSession

LEMMA SendHalfSession ==
    ASSUME Types, Parties, Bytes, SessionInv, NEW c \in Conn, SendHalf(c)
    PROVE  SessionInv'
<1>1. /\ UNCHANGED <<scen, conn, sess, said, th>>
      /\ conn[c] = "open" /\ ~client[c].gone /\ client[c].msg = "none" /\ Answered(c)
      /\ client[c].sent \in Nat /\ client[c].sent < scen.quota[c]
      /\ Speaks(c, "half", client[c].sent + 1, client[c].gone)
  BY SendHalfDo
<1>2. BytesOf(c) /\ SessionOf(c)
  BY DEF Bytes, SessionInv
<1>3. client[c].got[1] = client[c].sent
  BY <1>1 DEF Answered
<1>4. ~AtWork(c) /\ ~Busy(c) /\ ~Handling(c)
  BY <1>1, <1>2, <1>3, NotAnswering DEF Busy, AtWork, Handling
<1>5. client'[c].sent = client[c].sent + 1 /\ client'[c].msg = "half"
  BY <1>1 DEF Speaks
<1>6. Handled(c) = client[c].sent /\ Handled(c)' = client[c].sent
  BY <1>1, <1>4, <1>5 DEF Handled
<1>7. MultiInv(c)'
  BY <1>1, <1>2, <1>6 DEF SessionOf, MultiInv
<1>8. BeginInv(c)'
  <2>1. client[c].sent + 1 \in DOMAIN said[c]
    <3>1. scen.quota[c] \in Nat /\ DOMAIN said[c] = 1 .. scen.quota[c]
      BY <1>2, HandledRange
    <3> QED  BY <1>1, <3>1
  <2>2. said[c][client[c].sent + 1] = <<"-", "-">>
    BY <1>1, <1>2, <2>1 DEF BytesOf, AskedInv
  <2>3. ASSUME NEW n \in 1 .. client[c].sent + 1, said[c][n][1] = "BEGIN" PROVE said[c][n][2] = "SUCCESS"
    <3>1. n # client[c].sent + 1
      BY <2>2, <2>3
    <3>2. n \in 1 .. client[c].sent
      BY <1>1, <3>1
    <3> QED  BY <1>2, <1>4, <2>3, <3>2 DEF SessionOf, BeginInv
  <2> QED  BY <1>1, <1>2, <1>5, <2>3 DEF SessionOf, BeginInv
<1>9. TrxInv(c)'
  <2>1. Even(c)' <=> Even(c)
    BY <1>1 DEF Even, LeftOpen
  <2> QED  BY <1>1, <1>2, <2>1 DEF SessionOf, TrxInv
<1>10. FateInv(c)'
  BY <1>1, <1>2, <1>4, <1>6 DEF SessionOf, FateInv, AtWork
<1>11. SessionOf(c)'
  BY <1>7, <1>8, <1>9, <1>10 DEF SessionOf
<1>12. \A d \in Conn : d # c => SessionOf(d)'
  BY <1>1, SpeakOthersSession
<1> QED  BY <1>11, <1>12 DEF SessionInv

(* What a history with another last request says of the ones before.         *)
LEMMA ToldOnlyBefore ==
    ASSUME Types, NEW c \in Conn, BytesOf(c), NEW sd, NEW h \in Nat, client[c].sent = h + 1, UNCHANGED scen,
           \A m \in 1 .. scen.quota[c] : m # h + 1 => sd[m] = said[c][m]
    PROVE  /\ \A k \in 0 .. h : OpenBlock(sd, k) <=> OpenBlock(said[c], k)
           /\ \A n \in 1 .. scen.quota[c] : n # h + 1 /\ sd[n] = <<"WRITE", "SUCCESS">> =>
                 n \in 1 .. h /\ said[c][n] = <<"WRITE", "SUCCESS">>
<1>1. scen.quota[c] \in Nat /\ h + 1 <= scen.quota[c] /\ DOMAIN said[c] = 1 .. scen.quota[c]
  BY HandledRange
<1>2. ASSUME NEW k \in 0 .. h PROVE OpenBlock(sd, k) <=> OpenBlock(said[c], k)
  <2> DEFINE se == said[c]
  <2>1. k \in Int /\ \A m \in 1 .. k : m \in 1 .. scen.quota[c] /\ m # h + 1
    BY <1>1
  <2>2. \A m \in 1 .. k : sd[m][1] = se[m][1]
    BY <2>1
  <2> HIDE DEF se
  <2>3. OpenBlock(sd, k) <=> OpenBlock(se, k)
    BY <2>1, <2>2, SameBlock
  <2> QED  BY <2>3 DEF se
<1>3. ASSUME NEW n \in 1 .. scen.quota[c], n # h + 1, sd[n] = <<"WRITE", "SUCCESS">>
      PROVE  n \in 1 .. h /\ said[c][n] = <<"WRITE", "SUCCESS">>
  <2>1. said[c][n] = <<"WRITE", "SUCCESS">>
    BY <1>3
  <2>2. said[c][n] # <<"-", "-">>
    <3>1. <<"WRITE", "SUCCESS">>[1] = "WRITE" /\ <<"-", "-">>[1] = "-"
      OBVIOUS
    <3> QED  BY <2>1, <3>1
  <2>3. ~(n > h + 1)
    BY <1>1, <2>2 DEF BytesOf, AskedInv
  <2> QED  BY <1>1, <1>3, <2>1, <2>3
<1> QED  BY <1>2, <1>3

LEMMA SendRestSession ==
    ASSUME Types, Parties, Bytes, SessionInv, NEW c \in Conn, NEW kind \in Requests, SendRest(c, kind)
    PROVE  SessionInv'
<1>1. /\ UNCHANGED <<scen, conn, sess, th>>
      /\ client[c].msg = "half" /\ Speaks(c, kind, client[c].sent, client[c].gone)
      /\ \A d \in Conn : d # c => said'[d] = said[d]
      /\ \A n \in 1 .. scen.quota[c] : said'[c][n] = IF n = client[c].sent THEN <<kind, "-">> ELSE said[c][n]
      /\ Types'
  BY SendRestDo
<1>2. BytesOf(c) /\ SessionOf(c)
  BY DEF Bytes, SessionInv
<1>3. ~AtWork(c) /\ Busy(c) /\ said[c][client[c].sent] = <<"-", "-">> /\ client[c].sent > 0
  BY <1>1, <1>2 DEF BytesOf, WorkInv, AtWork, Busy, AskedInv
<1>4. kind # "none" /\ client'[c].msg = kind /\ client'[c].sent = client[c].sent
  BY <1>1 DEF Speaks, Requests, Kinds, MysqlOnly
<1> DEFINE h == client[c].sent - 1
           sd == said'[c]
<1>5. /\ h \in Nat /\ client[c].sent = h + 1 /\ h + 1 \in 1 .. scen.quota[c] /\ scen.quota[c] \in Nat
      /\ DOMAIN said[c] = 1 .. scen.quota[c] /\ DOMAIN sd = 1 .. scen.quota[c]
  <2>1. /\ client[c].sent \in Nat /\ client[c].sent <= scen.quota[c] /\ scen.quota[c] \in Nat
        /\ DOMAIN said[c] = 1 .. scen.quota[c]
    BY <1>2, HandledRange
  <2>2. DOMAIN sd = 1 .. scen.quota[c]
    BY <1>1 DEF Types
  <2> QED  BY <1>3, <2>1, <2>2
<1>6. Handled(c) = h /\ Handled(c)' = h
  BY <1>1, <1>4, <1>5 DEF Handled
<1>7. /\ sd[h + 1] = <<kind, "-">> /\ said[c][h + 1] = <<"-", "-">>
      /\ \A m \in 1 .. scen.quota[c] : m # h + 1 => sd[m] = said[c][m]
  BY <1>1, <1>3, <1>5
<1>8. sd = said'[c]
  OBVIOUS
<1> HIDE DEF h, sd
<1>9. /\ \A k \in 0 .. h : OpenBlock(sd, k) <=> OpenBlock(said[c], k)
      /\ \A n \in 1 .. scen.quota[c] : n # h + 1 /\ sd[n] = <<"WRITE", "SUCCESS">> =>
            n \in 1 .. h /\ said[c][n] = <<"WRITE", "SUCCESS">>
  BY <1>1, <1>2, <1>5, <1>7, ToldOnlyBefore
<1>10. MultiInv(c)'
  <2>1. h \in 0 .. h
    BY <1>5
  <2> QED  BY <1>1, <1>2, <1>6, <1>8, <1>9, <2>1 DEF SessionOf, MultiInv
<1>11. BeginInv(c)'
  <2>1. Busy(c)'
    BY <1>4 DEF Busy
  <2>2. ASSUME NEW n \in 1 .. h + 1, n # h + 1, sd[n][1] = "BEGIN" PROVE sd[n][2] = "SUCCESS"
    <3>1. sd[n] = said[c][n] /\ n \in 1 .. client[c].sent /\ n # client[c].sent
      BY <1>5, <1>7, <2>2
    <3> QED  BY <1>2, <2>2, <3>1 DEF SessionOf, BeginInv
  <2> QED  BY <1>1, <1>2, <1>4, <1>5, <1>8, <2>1, <2>2 DEF SessionOf, BeginInv
<1>12. TrxInv(c)'
  <2>1. LeftOpen(c) => LeftOpen(c)'
    <3> SUFFICES ASSUME NEW n \in DOMAIN said[c],
                        \/ scen.protocol = "mysql" /\ said[c][n] = <<"WRITE", "FAILURE">>
                        \/ scen.protocol = "cli" /\ said[c][n][2] = "CUT"
                 PROVE  LeftOpen(c)'
      BY DEF LeftOpen
    <3>1. n # h + 1
      BY <1>7
    <3>2. said'[c][n] = said[c][n] /\ n \in DOMAIN said'[c]
      BY <1>5, <1>7, <1>8, <3>1
    <3> QED  BY <1>1, <3>2 DEF LeftOpen
  <2>2. Even(c) => Even(c)'
    BY <1>1, <2>1 DEF Even
  <2> QED  BY <1>1, <1>2, <2>2 DEF SessionOf, TrxInv
<1>13. FateInv(c)'
  <2>1. ASSUME NEW n \in 1 .. scen.quota[c], sd[n] = <<"WRITE", "SUCCESS">>
        PROVE  FateAt(sd, h, n, sess[c].fate[n], scen.kit, conn[c])
    <3>1. n # h + 1
      <4>1. sd[n][2] = "SUCCESS"
        BY <2>1
      <4> QED  BY <1>7, <4>1
    <3>2. n \in 1 .. h /\ said[c][n] = <<"WRITE", "SUCCESS">>
      BY <1>9, <2>1, <3>1
    <3> DEFINE f == sess[c].fate[n]
               se == said[c]
               kit == scen.kit
               st == conn[c]
    <3>3. FateAt(se, h, n, f, kit, st)
      BY <1>2, <1>5, <1>6, <3>2 DEF SessionOf, FateInv
    <3>4. n \in 1 .. h + 1 /\ \A m \in 1 .. h : sd[m][1] = se[m][1]
      <4>1. \A m \in 1 .. h : m \in 1 .. scen.quota[c] /\ m # h + 1
        BY <1>5
      <4>2. \A m \in 1 .. h : sd[m] = said[c][m]
        BY <1>7, <4>1
      <4> QED  BY <1>5, <3>2, <4>2
    <3> HIDE DEF f, se, kit, st
    <3>5. FateAt(sd, h, n, f, kit, st)
      BY <1>5, <3>3, <3>4, SameFate
    <3> QED  BY <3>5 DEF f, kit, st
  <2>2. \A t \in Thread : ~(th'[t].conn = c /\ th'[t].pc = "answer")
    BY <1>1, <1>3 DEF AtWork
  <2> QED  BY <1>1, <1>5, <1>6, <1>8, <2>1, <2>2 DEF FateInv
<1>14. SessionOf(c)'
  BY <1>10, <1>11, <1>12, <1>13 DEF SessionOf
<1>15. \A d \in Conn : d # c => SessionOf(d)'
  BY <1>1, SpeakOthersSession
<1> QED  BY <1>14, <1>15 DEF SessionInv

(* A request is taken up, executed and answered.                             *)
LEMMA OtherSessions ==
    ASSUME Types, Bytes, SessionInv, UNCHANGED <<scen, conn>>, NEW c \in Conn,
           \A d \in Conn : d # c => said'[d] = said[d] /\ sess'[d] = sess[d] /\ SameAsk(d) /\ Seen(d)
    PROVE  \A d \in Conn : d # c => SessionOf(d)'
<1> SUFFICES ASSUME NEW d \in Conn, d # c PROVE SessionOf(d)'
  OBVIOUS
<1>1. BytesOf(d) /\ SessionOf(d)
  BY DEF Bytes, SessionInv
<1> QED  BY <1>1, QuietSession

LEMMA RequestSession ==
    ASSUME Types, Parties, Bytes, SessionInv, NEW t \in Thread, ReadRequest(t)
    PROVE  SessionInv'
<1>1. PICK c \in Conn : th[t].conn = c /\ th[t].pc = "read"
  BY WorksFor DEF ReadRequest, Serving
<1>2. /\ UNCHANGED <<scen, conn, sess, said>> /\ client[c].msg \in Kinds \cup {"VERSION"}
      /\ Turn(t, "handle", c, client[c].msg, th[t].rc, th[t].fd)
      /\ \A d \in Conn : d # c => client'[d] = client[d]
      /\ client'[c].msg = "none" /\ client'[c].sent = client[c].sent
  BY <1>1, RequestDo
<1>3. BytesOf(c) /\ SessionOf(c) /\ \A u \in Thread : u # t /\ th[u].conn = c => th[u].pc = "count"
  BY <1>1, WorksAlone DEF Bytes, SessionInv
<1>4. /\ \A u \in Thread : u # t => th'[u] = th[u]
      /\ th'[t].pc = "handle" /\ th'[t].conn = c
  BY <1>2 DEF Turn
<1>5. client[c].msg # "none"
  BY <1>2 DEF Kinds
<1>6. Handled(c)' = Handled(c) /\ Busy(c)'
  BY <1>2, <1>4, <1>5 DEF Handled, Handling, Busy, AtWork
<1>7. MultiInv(c)'
  BY <1>2, <1>3, <1>6 DEF SessionOf, MultiInv
<1>8. BeginInv(c)'
  BY <1>2, <1>3, <1>4, <1>6 DEF SessionOf, BeginInv
<1>9. TrxInv(c)'
  <2>1. Even(c)' <=> Even(c)
    BY <1>2 DEF Even, LeftOpen
  <2>2. \A u \in Thread : th[u].conn = c => th[u].pc \notin {"answer", "close"}
    BY <1>1, <1>3
  <2>3. \A u \in Thread : ~(th'[u].conn = c /\ th'[u].pc = "answer")
    BY <1>3, <1>4
  <2> QED  BY <1>2, <1>3, <2>1, <2>2, <2>3 DEF SessionOf, TrxInv
<1>10. FateInv(c)'
  <2>1. \A u \in Thread : ~(th'[u].conn = c /\ th'[u].pc = "answer")
    BY <1>3, <1>4
  <2> QED  BY <1>2, <1>3, <1>6, <2>1 DEF SessionOf, FateInv
<1>11. SessionOf(c)'
  BY <1>7, <1>8, <1>9, <1>10 DEF SessionOf
<1>12. \A d \in Conn : d # c => SameAsk(d) /\ Seen(d)
  BY <1>1, <1>2, SeenTurn DEF SameAsk
<1>13. \A d \in Conn : d # c => SessionOf(d)'
  BY <1>2, <1>12, OtherSessions
<1> QED  BY <1>11, <1>13 DEF SessionInv

(* After an answer the threads have left the request of c.                   *)
LEMMA AnsweredThreads ==
    ASSUME NEW t \in Thread, NEW c \in Conn, th[t].conn = c, Onward(t, c) \/ GivesUp(t, c),
           \A u \in Thread : u # t /\ th[u].conn = c => th[u].pc = "count"
    PROVE  /\ \A u \in Thread : ~(th'[u].conn = c /\ th'[u].pc \in {"handle", "answer"})
           /\ GivesUp(t, c) => \E u \in Thread : th'[u].conn = c /\ th'[u].pc = "close"
           /\ \A d \in Conn : d # c => Seen(d)
<1>1. \A u \in Thread : u # t => th'[u] = th[u]
  BY DEF Onward, GivesUp, Turn
<1>2. th'[t].pc \notin {"handle", "answer"} /\ (GivesUp(t, c) => th'[t].pc = "close" /\ th'[t].conn = c)
  BY DEF Onward, GivesUp, Turn
<1>3. ASSUME NEW d \in Conn, d # c PROVE Seen(d)
  <2>1. NoConn \notin Conn
    BY CardConn DEF NoConn
  <2>2. PICK p, e, k, r, f : Turn(t, p, e, k, r, f) /\ e \in {c, NoConn}
    BY DEF Onward, GivesUp
  <2>3. e # d
    BY <1>3, <2>1, <2>2
  <2> QED  BY <1>3, <2>2, <2>3, SeenTurn
<1> QED  BY <1>1, <1>2, <1>3

(* The answer does not change what was left open before.                     *)
LEMMA StaysLeft ==
    ASSUME Types, Types', UNCHANGED scen, NEW c \in Conn, NEW v, said[c][client[c].sent][2] = "-",
           \A m \in 1 .. scen.quota[c] :
              said'[c][m] = IF m = client[c].sent THEN <<said[c][m][1], v>> ELSE said[c][m],
           LeftOpen(c)
    PROVE  LeftOpen(c)'
<1>1. PICK n \in DOMAIN said[c] :
         \/ scen.protocol = "mysql" /\ said[c][n] = <<"WRITE", "FAILURE">>
         \/ scen.protocol = "cli" /\ said[c][n][2] = "CUT"
  BY DEF LeftOpen
<1>2. said[c][n][2] # "-"
  BY <1>1
<1>3. n # client[c].sent
  BY <1>2
<1>4. DOMAIN said[c] = 1 .. scen.quota[c] /\ DOMAIN said'[c] = 1 .. scen.quota[c]
  BY DEF Types
<1>5. said'[c][n] = said[c][n] /\ n \in DOMAIN said'[c]
  BY <1>3, <1>4
<1> QED  BY <1>1, <1>5 DEF LeftOpen

LEMMA CommandSession ==
    ASSUME Types, Parties, Bytes, SessionInv, NEW t \in Thread, ReadCommand(t)
    PROVE  SessionInv'
<1>1. PICK c \in Conn : th[t].conn = c /\ th[t].pc = "read"
  BY WorksFor DEF ReadCommand, Serving
<1> DEFINE cl == [client[c] EXCEPT !.msg = "none"]
           A == Answer(c, client[c].sent, 1, TRUE)
<1>2. /\ Types' /\ UNCHANGED <<scen, conn, sess>> /\ client[c].msg \in {"AUTH", "OTHER"}
      /\ Onward(t, c) \/ GivesUp(t, c)
      /\ \A d \in Conn : d # c => said'[d] = said[d]
      /\ \A m \in 1 .. scen.quota[c] : said'[c][m] = IF m = client[c].sent THEN <<said[c][m][1], "SUCCESS">> ELSE said[c][m]
  BY <1>1, CommandDo
<1>3. \A d \in Conn : client'[d].sent = client[d].sent /\ (d # c => SameAsk(d)) /\ client'[c].msg = "none"
  <2>1. Wrote(c, cl, A)
    BY <1>1, CommandDo
  <2>2. client[c] \in Client /\ "none" \in Requests \cup {"none", "half"}
    BY DEF Types
  <2>3. cl \in Client /\ cl.msg = "none" /\ cl.sent = client[c].sent
    BY <2>2, ClientMsg, Zenon
  <2>4. A \in Seq(Byte)
    <3>1. c \in Int /\ client[c].sent \in Int /\ 1 \in Nat
      BY <2>2, CardConn, ClientFields
    <3> QED  BY <3>1, AnswerBytes, Zenon
  <2> HIDE DEF cl, A
  <2> QED  BY <2>1, <2>3, <2>4, WroteDo DEF SameAsk
<1> HIDE DEF cl, A
<1>4. BytesOf(c) /\ SessionOf(c) /\ \A u \in Thread : u # t /\ th[u].conn = c => th[u].pc = "count"
  BY <1>1, WorksAlone DEF Bytes, SessionInv
<1>5. /\ \A u \in Thread : ~(th'[u].conn = c /\ th'[u].pc \in {"handle", "answer"})
      /\ \A d \in Conn : d # c => Seen(d)
  BY <1>1, <1>2, <1>4, AnsweredThreads
<1> DEFINE h == client[c].sent - 1
           sd == said'[c]
<1>6. said[c][client[c].sent] = <<client[c].msg, "-">> /\ client[c].sent > 0 /\ client[c].msg # "none"
  <2>1. client[c].msg \in Requests /\ client[c].msg # "none"
    BY <1>2 DEF Requests, MysqlOnly
  <2> QED  BY <1>4, <2>1 DEF BytesOf, AskedInv, Busy
<1>7. /\ h \in Nat /\ client[c].sent = h + 1 /\ h + 1 \in 1 .. scen.quota[c] /\ scen.quota[c] \in Nat
      /\ DOMAIN said[c] = 1 .. scen.quota[c] /\ DOMAIN sd = 1 .. scen.quota[c]
  <2>1. /\ client[c].sent \in Nat /\ client[c].sent <= scen.quota[c] /\ scen.quota[c] \in Nat
        /\ DOMAIN said[c] = 1 .. scen.quota[c]
    BY <1>4, HandledRange
  <2>2. DOMAIN sd = 1 .. scen.quota[c]
    BY <1>2 DEF Types
  <2> QED  BY <1>6, <2>1, <2>2
<1>8. Handled(c) = h /\ Handled(c)' = h + 1
  BY <1>3, <1>5, <1>6, <1>7 DEF Handled, Handling
<1>9. /\ sd[h + 1][1] = client[c].msg
      /\ \A m \in 1 .. scen.quota[c] : m # h + 1 => sd[m] = said[c][m]
  <2>1. sd[h + 1] = <<said[c][h + 1][1], "SUCCESS">>
    BY <1>2, <1>7
  <2>2. said[c][h + 1][1] = client[c].msg
    BY <1>6, <1>7
  <2>3. sd[h + 1][1] = client[c].msg
    BY <2>1, <2>2
  <2>4. \A m \in 1 .. scen.quota[c] : m # h + 1 => sd[m] = said[c][m]
    BY <1>2, <1>7
  <2> QED  BY <2>3, <2>4
<1>10. client[c].msg \notin Ends /\ client[c].msg # "BEGIN" /\ client[c].msg # "WRITE"
  BY <1>2 DEF Ends
<1>11. sd = said'[c]
  OBVIOUS
<1> HIDE DEF h, sd
<1>12. /\ \A k \in 0 .. h : OpenBlock(sd, k) <=> OpenBlock(said[c], k)
       /\ \A n \in 1 .. scen.quota[c] : n # h + 1 /\ sd[n] = <<"WRITE", "SUCCESS">> =>
             n \in 1 .. h /\ said[c][n] = <<"WRITE", "SUCCESS">>
  BY <1>2, <1>4, <1>7, <1>9, ToldOnlyBefore
<1>13. MultiInv(c)'
  <2>1. h \in 0 .. h
    BY <1>7
  <2>2. OpenBlock(sd, h + 1) <=> OpenBlock(sd, h)
    BY <1>7, <1>9, <1>10, NextBlock
  <2> QED  BY <1>2, <1>4, <1>8, <1>11, <1>12, <2>1, <2>2 DEF SessionOf, MultiInv
<1>14. BeginInv(c)'
  <2>1. ASSUME NEW n \in 1 .. h + 1, sd[n][1] = "BEGIN" PROVE sd[n][2] = "SUCCESS"
    <3>1. n # h + 1
      BY <1>9, <1>10, <2>1
    <3>2. sd[n] = said[c][n] /\ n \in 1 .. client[c].sent /\ n # client[c].sent
      BY <1>7, <1>9, <3>1
    <3> QED  BY <1>4, <2>1, <3>2 DEF SessionOf, BeginInv
  <2> QED  BY <1>3, <1>5, <1>7, <1>11, <2>1 DEF BeginInv
<1>15. TrxInv(c)'
  <2>1. said[c][client[c].sent][2] = "-"
    BY <1>6
  <2>2. LeftOpen(c) => LeftOpen(c)'
    BY <1>2, <2>1, StaysLeft
  <2>3. Even(c) => Even(c)'
    BY <1>2, <2>2 DEF Even
  <2>4. \A u \in Thread : th[u].conn = c => th[u].pc \notin {"answer", "close"}
    BY <1>1, <1>4
  <2> QED  BY <1>2, <1>4, <1>5, <2>3, <2>4 DEF SessionOf, TrxInv
<1>16. FateInv(c)'
  <2>1. ASSUME NEW n \in 1 .. scen.quota[c], sd[n] = <<"WRITE", "SUCCESS">>
        PROVE  FateAt(sd, h + 1, n, sess[c].fate[n], scen.kit, conn[c])
    <3>1. n # h + 1
      <4>1. sd[n][1] = "WRITE"
        BY <2>1
      <4> QED  BY <1>9, <1>10, <4>1
    <3>2. n \in 1 .. h /\ said[c][n] = <<"WRITE", "SUCCESS">>
      BY <1>12, <2>1, <3>1
    <3> DEFINE f == sess[c].fate[n]
               se == said[c]
               kit == scen.kit
               st == conn[c]
    <3>3. FateAt(se, h, n, f, kit, st)
      BY <1>4, <1>7, <1>8, <3>2 DEF SessionOf, FateInv
    <3>4. n \in 1 .. h + 1 /\ \A m \in 1 .. h : sd[m][1] = se[m][1]
      <4>1. \A m \in 1 .. h : m \in 1 .. scen.quota[c] /\ m # h + 1
        BY <1>7
      <4>2. \A m \in 1 .. h : sd[m] = said[c][m]
        BY <1>9, <4>1
      <4> QED  BY <1>7, <3>2, <4>2
    <3>5. sd[h + 1][1] \notin Ends
      BY <1>9, <1>10
    <3> HIDE DEF f, se, kit, st
    <3>6. FateAt(sd, h, n, f, kit, st)
      BY <1>7, <3>3, <3>4, SameFate
    <3>7. FateAt(sd, h + 1, n, f, kit, st)
      BY <1>7, <3>2, <3>5, <3>6, NextFate
    <3> QED  BY <3>7 DEF f, kit, st
  <2> QED  BY <1>2, <1>5, <1>7, <1>8, <1>11, <2>1 DEF FateInv
<1>17. SessionOf(c)'
  BY <1>13, <1>14, <1>15, <1>16 DEF SessionOf
<1>18. \A d \in Conn : d # c => SessionOf(d)'
  BY <1>2, <1>3, <1>5, OtherSessions
<1> QED  BY <1>17, <1>18 DEF SessionInv

(* What a statement does to its session, told by its kind.                   *)
Stated(e, s, q, kit, n, kind, rc) ==
    /\ e.multi <=> (kind = "BEGIN" \/ (s.multi /\ kind \notin Ends))
    /\ kind = "BEGIN" => rc = "SUCCESS"
    /\ kit = "mvcc" =>
          IF Runs(kind) THEN e.trx = "started"
          ELSE (e.trx = "started" <=> e.multi) \/ (e.trx = s.trx /\ e.multi = s.multi)
    /\ \A m \in 1 .. q : m # n =>
          e.fate[m] = IF kind \notin Ends THEN s.fate[m]
                      ELSE IF s.fate[m] # "pending" THEN s.fate[m]
                      ELSE IF kind = "COMMIT" THEN "committed" ELSE "undone"
    /\ kind = "WRITE" /\ rc = "SUCCESS" =>
          e.fate[n] = IF kit = "vacuous" THEN "committed" ELSE "pending"

LEMMA StatementSession ==
    ASSUME NEW q \in Nat, NEW s \in Sessions(q), NEW kit, NEW n \in 1 .. q, NEW kind \in Kinds \cup {"VERSION"},
           NEW rc, ~Runs(kind) => rc = execute(kind, s, kit).rc, NEW e,
           e = IF Runs(kind) THEN OpenResult(s, kit, n, kind, rc) ELSE execute(kind, s, kit).sess
    PROVE  Stated(e, s, q, kit, n, kind, rc)
<1>1. CASE Runs(kind)
  <2>1. kind \notin Ends /\ kind # "BEGIN"
    BY <1>1 DEF Runs, HasOperator, Ends
  <2>2. /\ e.multi = s.multi /\ (kit = "mvcc" => e.trx = "started")
        /\ \A m \in 1 .. q : m # n => e.fate[m] = s.fate[m]
        /\ kind = "WRITE" /\ rc = "SUCCESS" => e.fate[n] = IF kit = "vacuous" THEN "committed" ELSE "pending"
    <3> DEFINE x == OpenResult(s, kit, n, kind, rc)
    <3>1. Opened(x, s, q, kit, n, kind, rc)
      BY OpenSession
    <3>2. e = x
      BY <1>1
    <3> HIDE DEF x
    <3> QED  BY <3>1, <3>2 DEF Opened
  <2> QED  BY <1>1, <2>1, <2>2 DEF Stated
<1>2. CASE ~Runs(kind)
  <2> DEFINE x == execute(kind, s, kit)
  <2>1. kind \in Kinds /\ kind # "WRITE"
    BY <1>2 DEF Runs, HasOperator
  <2>2. /\ kind = "BEGIN" => /\ x.rc = "SUCCESS" /\ x.sess.multi /\ x.sess.fate = s.fate
                             /\ kit = "mvcc" => x.sess.trx = "started"
        /\ kind \in Ends =>
              /\ ~x.sess.multi /\ x.sess.trx = "idle"
              /\ \A m \in 1 .. q : x.sess.fate[m] = IF s.fate[m] # "pending" THEN s.fate[m]
                                                    ELSE IF kind = "COMMIT" THEN "committed" ELSE "undone"
        /\ kind \notin Ends \cup {"BEGIN"} =>
              x.sess.multi = s.multi /\ x.sess.trx = s.trx /\ x.sess.fate = s.fate
    BY <1>2, <2>1, ExecuteSession
  <2>3. e = x.sess /\ rc = x.rc
    BY <1>2
  <2> HIDE DEF x
  <2>4. CASE kind = "BEGIN"
    <3>1. kind \notin Ends
      BY <2>4 DEF Ends
    <3> QED  BY <1>2, <2>1, <2>2, <2>3, <2>4, <3>1 DEF Stated
  <2>5. CASE kind \in Ends
    <3>1. kind # "BEGIN"
      BY <2>5 DEF Ends
    <3> QED  BY <1>2, <2>1, <2>2, <2>3, <2>5, <3>1 DEF Stated
  <2>6. CASE kind \notin Ends \cup {"BEGIN"}
    BY <1>2, <2>1, <2>2, <2>3, <2>6 DEF Stated
  <2> QED  BY <2>4, <2>5, <2>6
<1> QED  BY <1>1, <1>2

LEMMA HandleSession ==
    ASSUME Types, Parties, Bytes, SessionInv, NEW t \in Thread, Handle(t)
    PROVE  SessionInv'
<1>1. PICK c \in Conn : th[t].conn = c /\ th[t].pc = "handle"
  BY WorksFor DEF Handle, Serving
<1>2. /\ BytesOf(c) /\ SessionOf(c) /\ conn[c] = "open"
      /\ \A u \in Thread : u # t /\ th[u].conn = c => th[u].pc = "count"
  <2>1. conn[c] = "open"
    BY <1>1 DEF Parties, ServedOpen, Works, Closing
  <2> QED  BY <1>1, <2>1, WorksAlone DEF Bytes, SessionInv
<1>3. /\ th[t].kind \in Kinds \cup {"VERSION"} /\ client[c].sent > 0 /\ client[c].msg = "none"
      /\ said[c][client[c].sent] = <<th[t].kind, "-">>
  BY <1>1, <1>2 DEF BytesOf, WorkInv, AskedInv, Busy, AtWork
<1> DEFINE k == th[t].kind
           s == sess[c]
           q == scen.quota[c]
           kit == scen.kit
           h == client[c].sent - 1
           sd == said[c]
<1>4. /\ UNCHANGED <<scen, client, conn, said>> /\ \A d \in Conn : d # c => sess'[d] = sess[d]
      /\ Turn(t, "answer", c, k, th'[t].rc, th[t].fd)
      /\ ~Runs(k) => th'[t].rc = execute(k, s, kit).rc
      /\ sess'[c] = IF Runs(k) THEN OpenResult(s, kit, client[c].sent, k, th'[t].rc) ELSE execute(k, s, kit).sess
  BY <1>1, <1>3, HandleDo
<1>5. /\ \A u \in Thread : u # t => th'[u] = th[u]
      /\ th'[t].pc = "answer" /\ th'[t].conn = c /\ th'[t].kind = k
  BY <1>4 DEF Turn
<1>6. h \in Nat /\ client[c].sent = h + 1 /\ h + 1 \in 1 .. q /\ q \in Nat /\ DOMAIN sd = 1 .. q /\ s \in Sessions(q)
  <2>1. /\ client[c].sent \in Nat /\ client[c].sent <= q /\ q \in Nat
        /\ DOMAIN sd = 1 .. q
    BY <1>2, HandledRange
  <2>2. s \in Sessions(q)
    BY DEF Types
  <2> QED  BY <1>3, <2>1, <2>2
<1>7. Handled(c) = h /\ Handled(c)' = h + 1 /\ Busy(c)'
  <2>1. Handling(c) /\ ~Handling(c)'
    BY <1>1, <1>2, <1>5 DEF Handling
  <2>2. Busy(c)'
    BY <1>5 DEF Busy, AtWork
  <2> QED  BY <1>3, <1>4, <1>6, <2>1, <2>2 DEF Handled
<1>8. sd[h + 1][1] = k /\ sd[h + 1][2] = "-" /\ said'[c] = sd
  BY <1>3, <1>4, <1>6
<1> DEFINE rc == th'[t].rc
           e == sess'[c]
<1> HIDE DEF k, s, q, kit, h, sd, rc, e
<1>9. Stated(e, s, q, kit, h + 1, k, rc)
  <2>1. k \in Kinds \cup {"VERSION"}
    BY <1>3 DEF k
  <2>2. ~Runs(k) => rc = execute(k, s, kit).rc
    BY <1>4 DEF rc
  <2>3. e = IF Runs(k) THEN OpenResult(s, kit, h + 1, k, rc) ELSE execute(k, s, kit).sess
    BY <1>4, <1>6 DEF e, rc
  <2> QED  BY <1>6, <2>1, <2>2, <2>3, StatementSession
<1>10. MultiInv(c)'
  <2>1. s.multi <=> OpenBlock(sd, h)
    BY <1>2, <1>7 DEF SessionOf, MultiInv, s, sd
  <2>2. OpenBlock(sd, h + 1) <=> (k = "BEGIN" \/ (OpenBlock(sd, h) /\ k \notin Ends))
    BY <1>6, <1>8, NextBlock
  <2>3. e.multi <=> OpenBlock(sd, h + 1)
    BY <1>9, <2>1, <2>2 DEF Stated
  <2> QED  BY <1>7, <1>8, <2>3 DEF MultiInv, e
<1>11. BeginInv(c)'
  <2>1. ASSUME NEW n \in 1 .. h + 1, sd[n][1] = "BEGIN" PROVE sd[n][2] = "SUCCESS" \/ n = h + 1
    <3>1. n \in 1 .. client[c].sent
      BY <1>6
    <3> QED  BY <1>2, <1>6, <2>1, <3>1 DEF SessionOf, BeginInv, sd
  <2>2. client'[c].sent = h + 1
    BY <1>4, <1>6
  <2>3. ASSUME NEW u \in Thread, th'[u].conn = c, th'[u].pc = "answer", th'[u].kind = "BEGIN"
        PROVE  th'[u].rc = "SUCCESS"
    <3>1. u = t
      BY <1>2, <1>5, <2>3
    <3> QED  BY <1>5, <1>9, <2>3, <3>1 DEF Stated, rc
  <2> QED  BY <1>7, <1>8, <2>1, <2>2, <2>3 DEF BeginInv
<1>12. TrxInv(c)'
  <2>1. \A u \in Thread : th[u].conn = c => th[u].pc \notin {"answer", "close"}
    BY <1>1, <1>2
  <2>2. kit = "mvcc" => Even(c)
    BY <1>2, <2>1 DEF SessionOf, TrxInv, kit
  <2>3. LeftOpen(c)' <=> LeftOpen(c)
    BY <1>4 DEF LeftOpen
  <2>4. kit = "mvcc" /\ ~Runs(k) => Even(c)'
    BY <1>9, <2>2, <2>3 DEF Stated, Even, s, e
  <2>5. \A u \in Thread : th'[u].conn = c /\ th'[u].pc = "answer" => u = t
    BY <1>2, <1>5
  <2>6. kit = "mvcc" /\ Runs(k) => sess'[c].trx = "started"
    BY <1>9 DEF Stated, e
  <2> QED  BY <1>2, <1>4, <1>5, <2>4, <2>5, <2>6 DEF TrxInv, kit
<1>13. FateInv(c)'
  <2>1. ASSUME NEW n \in 1 .. q, sd[n] = <<"WRITE", "SUCCESS">>
        PROVE  FateAt(sd, h + 1, n, e.fate[n], kit, "open")
    <3> DEFINE f == s.fate[n]
               g == e.fate[n]
    <3>1. n \in 1 .. h /\ n # h + 1
      <4>1. n \in DOMAIN said[c] /\ said[c][n][2] # "-"
        BY <1>6, <2>1 DEF sd
      <4>2. n \in 1 .. Handled(c)
        BY <1>2, <4>1, ToldHandled
      <4> QED  BY <1>6, <1>7, <4>2
    <3>2. FateAt(sd, h, n, f, kit, "open")
      BY <1>2, <1>6, <1>7, <2>1 DEF SessionOf, FateInv, sd, s, kit
    <3>3. g = IF k \notin Ends THEN f ELSE IF f # "pending" THEN f
              ELSE IF k = "COMMIT" THEN "committed" ELSE "undone"
      BY <1>9, <3>1 DEF Stated
    <3> HIDE DEF f, g
    <3>4. CASE k \in Ends
      <4>1. g = IF f # "pending" THEN f ELSE IF sd[h + 1][1] = "COMMIT" THEN "committed" ELSE "undone"
        BY <1>8, <3>3, <3>4
      <4>2. sd[h + 1][1] \in Ends
        BY <1>8, <3>4
      <4>3. FateAt(sd, h + 1, n, g, kit, "open")
        BY <1>6, <3>1, <3>2, <4>1, <4>2, EndFate
      <4> QED  BY <4>3 DEF g
    <3>5. CASE k \notin Ends
      <4>1. FateAt(sd, h + 1, n, f, kit, "open")
        BY <1>6, <1>8, <3>1, <3>2, <3>5, NextFate
      <4>2. g = f
        BY <3>3, <3>5
      <4> QED  BY <4>1, <4>2 DEF g
    <3> QED  BY <3>4, <3>5
  <2>2. ASSUME NEW u \in Thread, th'[u].conn = c, th'[u].pc = "answer", th'[u].kind = "WRITE", th'[u].rc = "SUCCESS"
        PROVE  e.fate[h + 1] = IF kit = "vacuous" THEN "committed" ELSE "pending"
    <3>1. u = t
      BY <1>2, <1>5, <2>2
    <3> QED  BY <1>5, <1>9, <2>2, <3>1 DEF Stated, rc
  <2>3. client'[c].sent = h + 1 /\ conn'[c] = "open" /\ scen'.kit = kit
    BY <1>2, <1>4, <1>6 DEF kit
  <2> QED  BY <1>6, <1>7, <1>8, <2>1, <2>2, <2>3 DEF FateInv, e
<1>14. SessionOf(c)'
  BY <1>10, <1>11, <1>12, <1>13 DEF SessionOf
<1>15. \A d \in Conn : d # c => SameAsk(d) /\ Seen(d)
  BY <1>1, <1>4, SeenTurn DEF SameAsk
<1>16. \A d \in Conn : d # c => SessionOf(d)'
  BY <1>4, <1>15, OtherSessions
<1> QED  BY <1>14, <1>16 DEF SessionInv

(* What the answer does to the session.                                      *)
Settled(e, s, q, protocol, kind, rc, v) ==
    /\ e.multi = s.multi
    /\ \A n \in 1 .. q : \/ e.fate[n] = s.fate[n]
                         \/ ~s.multi /\ e.fate[n] = IF s.fate[n] = "pending" THEN "committed" ELSE s.fate[n]
    /\ ~Runs(kind) => e.trx = s.trx /\ v = rc
    /\ Runs(kind) =>
          \/ v = "CUT" /\ protocol # "mysql"
          \/ v = "FAILURE" /\ rc # "SUCCESS" /\ protocol = "mysql"
          \/ /\ s.multi => e.trx = s.trx /\ e.fate = s.fate
             /\ ~s.multi => /\ e.trx = "idle"
                            /\ \A n \in 1 .. q : e.fate[n] = IF s.fate[n] = "pending" THEN "committed" ELSE s.fate[n]
    /\ Runs(kind) /\ v = "SUCCESS" => rc = "SUCCESS"

LEMMA AnswerSession ==
    ASSUME NEW q \in Nat, NEW s \in Sessions(q), NEW r, NEW protocol, NEW c, NEW n, NEW kind, NEW rc,
           Outcome(r, protocol, s, c, n, kind, rc)
    PROVE  Settled(r.sess, s, q, protocol, kind, rc, r.said)
<1> DEFINE e == r.sess
           v == r.said
           x == CloseResult(s)
<1>1. /\ x.multi = s.multi
      /\ s.multi => x = s
      /\ ~s.multi => /\ x.trx = "idle"
                     /\ \A m \in 1 .. q : x.fate[m] = IF s.fate[m] = "pending" THEN "committed" ELSE s.fate[m]
  BY CloseSession
<1>2. /\ ~Runs(kind) => e = s /\ v = rc
      /\ Runs(kind) => \/ v = "CUT" /\ protocol # "mysql" /\ e = s
                       \/ v = "SUCCESS" /\ rc = "SUCCESS" /\ e = x
                       \/ v = "FAILURE" /\ rc # "SUCCESS" /\ e = IF protocol = "mysql" THEN s ELSE x
  BY DEF Outcome
<1> HIDE DEF e, v, x
<1>3. CASE e = s
  <2>1. CASE ~Runs(kind)
    BY <1>2, <1>3, <2>1 DEF Settled, e, v
  <2>2. CASE Runs(kind)
    BY <1>1, <1>2, <1>3, <2>2 DEF Settled, e, v
  <2> QED  BY <2>1, <2>2
<1>4. CASE e # s
  <2>1. Runs(kind) /\ e = x /\ ~s.multi /\ (v = "SUCCESS" => rc = "SUCCESS")
    BY <1>1, <1>2, <1>4
  <2> QED  BY <1>1, <2>1 DEF Settled, e, v
<1> QED  BY <1>3, <1>4

LEMMA ResultSession ==
    ASSUME Types, Parties, Bytes, SessionInv, NEW t \in Thread, WriteResult(t)
    PROVE  SessionInv'
<1>1. PICK c \in Conn : th[t].conn = c /\ th[t].pc = "answer"
  BY WorksFor DEF WriteResult, Serving
<1>2. /\ BytesOf(c) /\ SessionOf(c) /\ conn[c] = "open"
      /\ \A u \in Thread : u # t /\ th[u].conn = c => th[u].pc = "count"
  <2>1. conn[c] = "open"
    BY <1>1 DEF Parties, ServedOpen, Works, Closing
  <2> QED  BY <1>1, <2>1, WorksAlone DEF Bytes, SessionInv
<1>3. /\ client[c].sent > 0 /\ client[c].msg = "none" /\ said[c][client[c].sent] = <<th[t].kind, "-">>
      /\ th[t].rc \in IF Runs(th[t].kind) THEN Opens(th[t].kind) ELSE {"SUCCESS", "FAILURE"}
  BY <1>1, <1>2 DEF BytesOf, WorkInv, AskedInv, Busy, AtWork
<1> DEFINE r == write_result(scen.protocol, sess[c], c, client[c].sent, th[t].kind, th[t].rc)
           v == r.said
           h == client[c].sent
           q == scen.quota[c]
           s == sess[c]
           sd == said[c]
           kit == scen.kit
           k == th[t].kind
           rc == th[t].rc
           pr == scen.protocol
<1>4. /\ Types' /\ UNCHANGED <<scen, conn>>
      /\ Outcome(r, pr, s, c, h, k, rc)
      /\ Wrote(c, client[c], r.bytes)
      /\ Onward(t, c) \/ GivesUp(t, c)
      /\ pr = "plain" /\ v = "CUT" => GivesUp(t, c)
      /\ \A d \in Conn : d # c => said'[d] = said[d] /\ sess'[d] = sess[d]
      /\ sess'[c] = r.sess
      /\ \A m \in 1 .. q : said'[c][m] = IF m = client[c].sent THEN <<said[c][m][1], v>> ELSE said[c][m]
  BY <1>1, <1>3, ResultDo
<1> HIDE DEF r
<1>5. r.bytes \in Seq(Byte)
  <2>1. PICK len \in Nat \ {0} : r.bytes = Answer(c, h, len, v # "CUT")
    BY <1>4 DEF Outcome
  <2> DEFINE b == v # "CUT"
  <2>2. c \in Int /\ h \in Int /\ len \in Nat /\ b \in BOOLEAN
    BY CardConn, ClientFields DEF Types
  <2>3. r.bytes = Answer(c, h, len, b)
    BY <2>1
  <2> HIDE DEF b, h
  <2>4. Answer(c, h, len, b) \in Seq(Byte)
    BY <2>2, AnswerBytes, Zenon
  <2> QED  BY <2>3, <2>4, Zenon
<1>6. \A d \in Conn : client'[d].sent = client[d].sent /\ (d # c => SameAsk(d)) /\ client'[c].msg = "none"
  <2>1. client[c] \in Client
    BY DEF Types
  <2> QED  BY <1>3, <1>4, <1>5, <2>1, WroteDo DEF SameAsk
<1>7. /\ \A u \in Thread : ~(th'[u].conn = c /\ th'[u].pc \in {"handle", "answer"})
      /\ GivesUp(t, c) => \E u \in Thread : th'[u].conn = c /\ th'[u].pc = "close"
      /\ \A d \in Conn : d # c => Seen(d)
  BY <1>1, <1>2, <1>4, AnsweredThreads
<1>8. /\ h \in Nat \ {0} /\ h \in 1 .. q /\ q \in Nat /\ DOMAIN sd = 1 .. q /\ DOMAIN said'[c] = 1 .. q
      /\ s \in Sessions(q)
  <2>1. h \in Nat /\ h <= q /\ q \in Nat /\ DOMAIN sd = 1 .. q
    BY <1>2, HandledRange
  <2>2. DOMAIN said'[c] = 1 .. q /\ s \in Sessions(q)
    BY <1>4 DEF Types
  <2> QED  BY <1>3, <2>1, <2>2
<1>9. Handled(c) = h /\ Handled(c)' = h
  <2>1. ~Handling(c) /\ ~Handling(c)'
    BY <1>1, <1>2, <1>7 DEF Handling
  <2> QED  BY <1>3, <1>6, <2>1 DEF Handled
<1> DEFINE se == said'[c]
           e == sess'[c]
<1>10. se[h] = <<k, v>> /\ sd[h] = <<k, "-">> /\ \A m \in 1 .. q : m # h => se[m] = sd[m]
  <2>1. sd[h] = <<k, "-">>
    BY <1>3
  <2>2. se[h] = <<sd[h][1], v>>
    BY <1>4, <1>8
  <2>3. \A m \in 1 .. q : m # h => se[m] = sd[m]
    BY <1>4
  <2> HIDE DEF k, v, sd, se, h
  <2>4. sd[h][1] = k
    BY <2>1
  <2> QED  BY <2>1, <2>2, <2>3, <2>4
<1>11. LeftOpen(c) => LeftOpen(c)'
  <2>1. said[c][client[c].sent][2] = "-"
    BY <1>3
  <2> HIDE DEF v
  <2> QED  BY <1>4, <2>1, StaysLeft
<1>12. Settled(e, s, q, pr, k, rc, v)
  <2>1. e = r.sess
    BY <1>4
  <2> HIDE DEF e, s, q, pr, k, rc, h
  <2>2. Settled(r.sess, s, q, pr, k, rc, r.said)
    BY <1>4, <1>8, AnswerSession
  <2> QED  BY <2>1, <2>2
<1> HIDE DEF v, h, q, s, sd, kit, k, rc, pr, se, e
<1>13. \A m \in 1 .. q : se[m][1] = sd[m][1]
  <2>1. se[h][1] = sd[h][1]
    BY <1>10
  <2> QED  BY <1>10, <2>1
<1>14. OpenBlock(se, h) <=> OpenBlock(sd, h)
  <2>1. \A m \in 1 .. h : m \in 1 .. q
    BY <1>8
  <2>2. \A m \in 1 .. h : se[m][1] = sd[m][1]
    BY <1>13, <2>1
  <2>3. h \in Int
    BY <1>8
  <2> QED  BY <2>2, <2>3, SameBlock
<1>15. s.multi <=> OpenBlock(se, h)
  BY <1>2, <1>9, <1>14 DEF SessionOf, MultiInv, s, sd
<1>16. MultiInv(c)'
  BY <1>9, <1>12, <1>15 DEF Settled, MultiInv, e, se
<1>17. BeginInv(c)'
  <2>1. ASSUME NEW n \in 1 .. h, se[n][1] = "BEGIN" PROVE se[n][2] = "SUCCESS"
    <3>1. CASE n = h
      <4>1. k = "BEGIN" /\ se[n][2] = v
        BY <1>10, <2>1, <3>1
      <4>2. ~Runs(k)
        BY <4>1 DEF Runs, HasOperator
      <4>3. rc = "SUCCESS"
        BY <1>1, <1>2, <4>1 DEF SessionOf, BeginInv, k, rc
      <4> QED  BY <1>12, <4>1, <4>2, <4>3 DEF Settled
    <3>2. CASE n # h
      <4>1. se[n] = sd[n]
        BY <1>8, <1>10, <3>2
      <4> QED  BY <1>2, <2>1, <3>2, <4>1 DEF SessionOf, BeginInv, sd, h
    <3> QED  BY <3>1, <3>2
  <2>2. client'[c].sent = h
    BY <1>6 DEF h
  <2> QED  BY <1>7, <2>1, <2>2 DEF BeginInv, se
<1>18. TrxInv(c)'
  <2>1. ASSUME kit = "mvcc", ~GivesUp(t, c) PROVE Even(c)'
    <3>1. IF Runs(k) THEN s.trx = "started" ELSE Even(c)
      BY <1>1, <1>2, <2>1 DEF SessionOf, TrxInv, k, s, kit
    <3>2. pr \in {"plain", "mysql", "cli"} /\ pr = scen'.protocol
      BY <1>4, ScenarioFields DEF Types, pr
    <3>3. h \in DOMAIN said'[c] /\ said'[c][h] = <<k, v>>
      BY <1>8, <1>10 DEF se
    <3>4. CASE ~Runs(k)
      <4>1. e.trx = s.trx /\ e.multi = s.multi
        BY <1>12, <3>4 DEF Settled
      <4> QED  BY <1>11, <3>1, <3>4, <4>1 DEF Even, e, s
    <3>5. CASE Runs(k) /\ v = "CUT" /\ pr # "mysql"
      <4>1. pr = "cli"
        BY <1>4, <2>1, <3>2, <3>5
      <4>2. said'[c][h][2] = "CUT"
        BY <3>3, <3>5
      <4> QED  BY <3>2, <3>3, <4>1, <4>2 DEF Even, LeftOpen
    <3>6. CASE Runs(k) /\ v = "FAILURE" /\ rc # "SUCCESS" /\ pr = "mysql"
      <4>1. k = "WRITE"
        BY <1>3, <3>6 DEF Opens, k, rc
      <4>2. said'[c][h] = <<"WRITE", "FAILURE">>
        BY <3>3, <3>6, <4>1
      <4> QED  BY <3>2, <3>3, <3>6, <4>2 DEF Even, LeftOpen
    <3>7. CASE /\ Runs(k)
               /\ s.multi => e.trx = s.trx
               /\ ~s.multi => e.trx = "idle"
      <4>1. e.multi = s.multi
        BY <1>12 DEF Settled
      <4> QED  BY <3>1, <3>7, <4>1 DEF Even, e
    <3> QED  BY <1>12, <3>4, <3>5, <3>6, <3>7 DEF Settled
  <2>2. scen'.kit = kit /\ conn'[c] = "open"
    BY <1>2, <1>4 DEF kit
  <2> QED  BY <1>7, <2>1, <2>2 DEF TrxInv
<1>19. FateInv(c)'
  <2>1. ASSUME NEW n \in 1 .. q, se[n] = <<"WRITE", "SUCCESS">>
        PROVE  FateAt(se, h, n, e.fate[n], kit, "open")
    <3> DEFINE f == s.fate[n]
               g == e.fate[n]
    <3>1. CASE n # h
      <4>1. sd[n] = <<"WRITE", "SUCCESS">> /\ sd[n][2] # "-"
        BY <1>10, <2>1, <3>1
      <4>2. n \in 1 .. h
        <5>1. n \in DOMAIN said[c] /\ said[c][n][2] # "-"
          BY <1>8, <4>1 DEF sd
        <5>2. n \in 1 .. Handled(c)
          BY <1>2, <5>1, ToldHandled
        <5> QED  BY <1>9, <5>2
      <4>3. FateAt(sd, h, n, f, kit, "open")
        BY <1>2, <1>8, <1>9, <4>1 DEF SessionOf, FateInv, sd, s, kit
      <4>4. \A m \in 1 .. h : sd[m][1] = se[m][1]
        <5>1. \A m \in 1 .. h : m \in 1 .. q
          BY <1>8
        <5> QED  BY <1>13, <5>1
      <4>5. \/ g = f
            \/ ~s.multi /\ g = IF f = "pending" THEN "committed" ELSE f
        BY <1>12 DEF Settled
      <4>6. n \in 1 .. h + 1 /\ se[n][1] = "WRITE"
        BY <1>8, <2>1, <4>2
      <4> HIDE DEF f, g
      <4>7. FateAt(se, h, n, f, kit, "open")
        BY <1>8, <4>3, <4>4, <4>6, SameFate
      <4>8. FateAt(se, h, n, g, kit, "open")
        <5>1. CASE g = f
          BY <4>7, <5>1
        <5>2. CASE ~s.multi /\ g = IF f = "pending" THEN "committed" ELSE f
          BY <1>8, <1>15, <4>2, <4>6, <4>7, <5>2, CloseFate
        <5> QED  BY <4>5, <5>1, <5>2
      <4> QED  BY <4>8 DEF g
    <3>2. CASE n = h
      <4>1. k = "WRITE" /\ v = "SUCCESS"
        BY <1>10, <2>1, <3>2
      <4>2. Runs(k)
        BY <4>1 DEF Runs, HasOperator
      <4>3. /\ rc = "SUCCESS" /\ (s.multi => g = f)
            /\ ~s.multi => g = IF f = "pending" THEN "committed" ELSE f
        BY <1>12, <4>1, <4>2 DEF Settled
      <4>4. f = IF kit = "vacuous" THEN "committed" ELSE "pending"
        BY <1>1, <1>2, <3>2, <4>1, <4>3 DEF SessionOf, FateInv, k, rc, kit, s, h
      <4>5. OpenBlock(se, h - 1) <=> s.multi
        <5> DEFINE j == h - 1
        <5>1. j \in Nat /\ h = j + 1
          BY <1>8
        <5>2. se[h][1] = "WRITE"
          BY <2>1, <3>2
        <5>3. se[j + 1][1] = "WRITE"
          BY <5>1, <5>2
        <5> HIDE DEF j
        <5>4. OpenBlock(se, j + 1) <=> OpenBlock(se, j)
          BY <5>1, <5>3, NextBlock DEF Ends
        <5> QED  BY <1>15, <5>1, <5>4 DEF j
      <4> HIDE DEF f, g
      <4>6. FateAt(se, h, h, g, kit, "open")
        <5>1. CASE kit = "vacuous" \/ ~s.multi
          <6>1. g = "committed"
            BY <4>3, <4>4, <5>1
          <6> QED  BY <4>5, <5>1, <6>1 DEF FateAt
        <5>2. CASE ~(kit = "vacuous" \/ ~s.multi)
          <6>1. g = "pending" /\ \A m \in h + 1 .. h : FALSE
            BY <1>8, <4>3, <4>4, <5>2
          <6> QED  BY <4>5, <5>2, <6>1 DEF FateAt
        <5> QED  BY <5>1, <5>2
      <4> QED  BY <3>2, <4>6 DEF g
    <3> QED  BY <3>1, <3>2
  <2>2. conn'[c] = "open" /\ scen'.kit = kit /\ DOMAIN said'[c] = 1 .. q
    BY <1>2, <1>4, <1>8 DEF kit
  <2> QED  BY <1>7, <1>9, <2>1, <2>2 DEF FateInv, se, e
<1>20. SessionOf(c)'
  BY <1>16, <1>17, <1>18, <1>19 DEF SessionOf
<1>21. \A d \in Conn : d # c => SessionOf(d)'
  BY <1>4, <1>6, <1>7, OtherSessions
<1> QED  BY <1>20, <1>21 DEF SessionInv

-----------------------------------------------------------------------------
(* Every step keeps the sessions.                                            *)
LEMMA ThreadSession ==
    ASSUME Types, Parties, Bytes, SessionInv, NEW t \in Thread, WriteStep(t) \/ OtherStep(t) \/ Expire(t)
    PROVE  SessionInv'
<1>1. CASE \/ RunTask(t) \/ PopNothing(t) \/ TryAgain(t) \/ Expire(t) \/ ThreadExit(t) \/ LoopEnd(t) \/ Pop(t)
           \/ (\E c \in Conn : LoopDispatch(t, c)) \/ LoopPush(t) \/ LoopExtend(t)
           \/ PollStopped(t) \/ PollError(t) \/ PollReady(t) \/ ReadClosed(t) \/ CloseFd(t)
  BY <1>1, ThreadIdleBytes, IdleSession
<1>2. CASE ReadRequest(t) \/ Handle(t) \/ ReadCommand(t) \/ WriteResult(t)
  BY <1>2, RequestSession, HandleSession, CommandSession, ResultSession
<1>3. CASE CloseErase(t) \/ DeleteWriter(t) \/ DeleteSession(t)
  BY <1>3, EraseSession, DeleteWriterSession, DeleteSessionSession
<1> QED  BY <1>1, <1>2, <1>3 DEF WriteStep, OtherStep

LEMMA MainSession ==
    ASSUME Types, Control, Bytes, SessionInv, MainStep \/ Signal
    PROVE  SessionInv'
<1>0. Parties /\ Modes /\ FdInv
  BY DEF Control, Parties, Modes
<1>1. CASE MainOnly \/ CreateCore \/ ExtendForLoop \/ SubmitLoop \/ CliNext \/ CliNoLine
  BY <1>0, <1>1, MainIdleBytes, IdleSession
<1>2. CASE \E c \in Conn : Accept(c)
  BY <1>0, <1>2, AcceptFd, AcceptSession
<1>3. CASE AwaitStop \/ CliStart \/ CliEnd
  BY <1>0, <1>3, AwaitSession, CliStartSession, CliEndSession
<1> QED  BY <1>1, <1>2, <1>3 DEF MainStep, MainOnly

LEMMA ClientSession ==
    ASSUME Types, Parties, Bytes, SessionInv, NEW c \in Conn, ClientStep(c)
    PROVE  SessionInv'
  BY ConnectSession, SendHalfSession, LeaveSession, SendRestSession DEF ClientStep

LEMMA InitSession ==
    ASSUME Init
    PROVE  SessionInv
<1> SUFFICES ASSUME NEW c \in Conn PROVE SessionOf(c)
  BY DEF SessionInv
<1> DEFINE F == [n \in 1 .. scen.quota[c] |-> "none"]
           x == [NewSession EXCEPT !.fate = F]
<1>1. sess[c] = x
  BY DEF Init
<1>2. x.trx = "none" /\ x.multi = FALSE
  <2> HIDE DEF F
  <2> QED  BY DEF NewSession
<1> HIDE DEF x, F
<1>3. client[c].sent = 0 /\ client[c].msg = "none" /\ conn[c] = "none"
  <2> DEFINE y == [msg |-> "none", sent |-> 0, bad |-> "no", gone |-> FALSE,
                   got |-> <<IF scen.protocol = "mysql" THEN -1 ELSE 0, 0, TRUE>>]
  <2>1. client[c] = y /\ conn[c] = "none"
    BY DEF Init
  <2>2. y.sent = 0 /\ y.msg = "none"
    BY Zenon
  <2> HIDE DEF y
  <2> QED  BY <2>1, <2>2
<1>4. \A t \in Thread : th[t].conn # c
  <2>1. NoThread.conn = NoConn /\ NoConn # c
    BY CardConn DEF NoThread, NoConn
  <2> QED  BY <2>1 DEF Init
<1>5. \A n \in DOMAIN said[c] : said[c][n] = <<"-", "-">>
  BY DEF Init
<1>6. Handled(c) = 0
  BY <1>3, <1>4 DEF Handled, Handling
<1>7. MultiInv(c)
  <2>1. ~sess[c].multi
    BY <1>1, <1>2
  <2>2. ~OpenBlock(said[c], 0)
    BY DEF OpenBlock
  <2> QED  BY <1>6, <2>1, <2>2 DEF MultiInv
<1>8. BeginInv(c)
  BY <1>3, <1>4 DEF BeginInv
<1>9. TrxInv(c)
  BY <1>1, <1>2, <1>3 DEF TrxInv
<1>10. FateInv(c)
  <2>1. \A n \in DOMAIN said[c] : said[c][n] # <<"WRITE", "SUCCESS">>
    BY <1>5
  <2> QED  BY <1>4, <2>1 DEF FateInv
<1> QED  BY <1>7, <1>8, <1>9, <1>10 DEF SessionOf

LEMMA SessionAlways == Spec => [](ServerInv /\ SessionInv)
<1>1. Init => SessionInv
  BY InitSession
<1>2. ASSUME ServerInv, SessionInv, [Next]_vars PROVE SessionInv'
  <2>0. Types /\ Control /\ Bytes /\ Parties
    BY <1>2 DEF ServerInv, Control, Parties
  <2>1. CASE \E t \in Thread : WriteStep(t) \/ OtherStep(t) \/ Expire(t)
    BY <1>2, <2>0, <2>1, ThreadSession
  <2>2. CASE MainStep \/ Signal
    BY <1>2, <2>0, <2>2, MainSession
  <2>3. CASE \E c \in Conn : ClientStep(c)
    BY <1>2, <2>0, <2>3, ClientSession
  <2>4. CASE UNCHANGED vars
    <3>1. UNCHANGED <<scen, client, conn, sess, said, th>>
      BY <2>4 DEF vars
    <3> QED  BY <1>2, <2>0, <3>1, SeenSame, IdleSession
  <2> QED  BY <1>2, <2>1, <2>2, <2>3, <2>4 DEF Next, AwaitPoll, Exited
<1>3. SessionInv /\ ServerInv /\ [Next]_vars => SessionInv'
  BY <1>2
<1> QED  BY <1>1, <1>3, InvAlways, PTL DEF Spec

(* What a client was told of a change, from what became of it.               *)
LEMMA ToldFate ==
    ASSUME ServerInv, SessionInv, NEW c \in Conn, NEW n \in DOMAIN said[c], said[c][n] = <<"WRITE", "SUCCESS">>
    PROVE  sess[c].fate[n] \in Promised(c, n)
<1> DEFINE h == Handled(c)
           f == sess[c].fate[n]
           sd == said[c]
           q == scen.quota[c]
           kit == scen.kit
           st == conn[c]
           N == client[c].sent
<1>1. Types /\ BytesOf(c) /\ SessionOf(c)
  BY DEF ServerInv, SessionInv, Bytes
<1>2. N \in Nat /\ N <= q /\ q \in Nat /\ h \in Nat /\ h <= N /\ DOMAIN sd = 1 .. q
  BY <1>1, HandledRange
<1>3. n \in 1 .. h
  <2>1. sd[n][2] # "-"
    OBVIOUS
  <2> QED  BY <1>1, <2>1, ToldHandled
<1>4. FateAt(sd, h, n, f, kit, st)
  BY <1>1 DEF SessionOf, FateInv
<1>5. InBlock(c, n) <=> OpenBlock(sd, n - 1)
  <2>1. ASSUME NEW b \in 1 .. n - 1 PROVE sd[b] = <<"BEGIN", "SUCCESS">> <=> sd[b][1] = "BEGIN"
    <3>1. b \in 1 .. N /\ b # N /\ b \in DOMAIN sd
      BY <1>2, <1>3
    <3>2. sd[b][1] = "BEGIN" => sd[b][2] = "SUCCESS"
      BY <1>1, <3>1 DEF SessionOf, BeginInv
    <3>3. sd[b] = <<sd[b][1], sd[b][2]>>
      <4>1. sd[b] \in Saying
        BY <1>1, <1>2, <3>1 DEF Types
      <4> QED  BY <4>1 DEF Saying
    <3> HIDE DEF sd
    <3> QED  BY <3>2, <3>3
  <2> QED  BY <2>1 DEF InBlock, OpenBlock, Ends
<1>6. CASE kit = "vacuous" \/ ~InBlock(c, n)
  BY <1>4, <1>5, <1>6 DEF FateAt, Promised
<1>7. CASE ~(kit = "vacuous" \/ ~InBlock(c, n))
  <2>1. /\ (\A m \in n + 1 .. h : sd[m][1] \notin Ends) => f \in {"pending", "orphan"}
        /\ \A m \in n + 1 .. h :
              sd[m][1] \in Ends /\ (\A k \in n + 1 .. m - 1 : sd[k][1] \notin Ends) =>
                 f = IF sd[m][1] = "COMMIT" THEN "committed" ELSE "undone"
    BY <1>4, <1>5, <1>7 DEF FateAt
  <2> DEFINE E == EndOf(c, n)
             m == Min(E)
             then == IF sd[m][1] = "COMMIT" THEN "committed" ELSE "undone"
  <2>2. E = {i \in 1 .. q : i > n /\ sd[i][1] \in Ends}
    BY <1>2 DEF EndOf, Ends
  <2>3. CASE E = {}
    <3>1. \A i \in n + 1 .. h : i \in 1 .. q /\ i > n
      BY <1>2, <1>3
    <3>2. \A i \in n + 1 .. h : sd[i][1] \notin Ends
      BY <2>2, <2>3, <3>1
    <3>3. f \in {"pending", "orphan"}
      BY <2>1, <3>2
    <3> QED  BY <1>7, <2>3, <3>3 DEF Promised
  <2>4. CASE E # {}
    <3>1. m \in E /\ \A i \in E : m <= i
      <4>1. E \subseteq Nat
        BY <2>2
      <4> HIDE DEF E
      <4>2. \E x \in E : \A i \in E : x <= i
        BY <2>4, <4>1, NatLeast
      <4> QED  BY <4>2 DEF Min
    <3>2. Promised(c, n) = IF sd[m][2] = "SUCCESS" THEN {then} ELSE {"pending", "orphan", then}
      BY <1>7, <2>4 DEF Promised
    <3>3. f \in {"pending", "orphan", then} /\ (sd[m][2] = "SUCCESS" => f = then)
      <4>0. then = IF sd[m][1] = "COMMIT" THEN "committed" ELSE "undone"
        OBVIOUS
      <4> HIDE DEF m, E, then, h, sd, q, f
      <4>1. m \in 1 .. q /\ m > n /\ sd[m][1] \in Ends /\ \A i \in 1 .. q : i > n /\ sd[i][1] \in Ends => m <= i
        BY <2>2, <3>1
      <4>2. CASE m <= h
        <5>1. m \in n + 1 .. h
          BY <1>2, <1>3, <4>1, <4>2
        <5>2. \A k \in n + 1 .. m - 1 : k \in 1 .. q /\ k > n /\ ~(m <= k)
          BY <1>2, <1>3, <4>1
        <5>3. \A k \in n + 1 .. m - 1 : sd[k][1] \notin Ends
          BY <4>1, <5>2
        <5>4. f = then
          BY <2>1, <4>0, <4>1, <5>1, <5>3
        <5> QED  BY <5>4
      <4>3. CASE ~(m <= h)
        <5>1. \A k \in n + 1 .. h : k \in 1 .. q /\ k > n /\ ~(m <= k)
          BY <1>2, <1>3, <4>1, <4>3
        <5>2. \A k \in n + 1 .. h : sd[k][1] \notin Ends
          BY <4>1, <5>1
        <5>3. sd[m][2] = "-"
          <6> SUFFICES ASSUME said[c][m][2] # "-" PROVE FALSE
            BY DEF sd
          <6>1. m \in DOMAIN said[c]
            BY <1>2, <4>1 DEF sd
          <6>2. m \in 1 .. h
            BY <1>1, <6>1, ToldHandled DEF h
          <6> QED  BY <1>2, <4>3, <6>2
        <5> QED  BY <2>1, <5>2, <5>3
      <4> QED  BY <4>2, <4>3
    <3> HIDE DEF m, then, f, E, sd
    <3>4. f \in Promised(c, n)
      BY <3>2, <3>3
    <3> QED  BY <3>4 DEF f
  <2> QED  BY <2>3, <2>4
<1> QED  BY <1>6, <1>7

(* Between two statements a session has a transaction under way exactly in a *)
(* block that BEGIN opened, but for the error paths of the MySQL protocol and*)
(* the command line; and every change a client was told succeeded is         *)
(* committed, or waits for the end of its block and goes with it (the        *)
(* executors, SqlResult::open and close, Session::~Session).                 *)
THEOREM SessionFollowed == Spec => []TrxFollowsSession
<1>1. ASSUME ServerInv, SessionInv PROVE TrxFollowsSession
  <2>1. NoStrayTrx
    <3>1. \A c \in Conn : TrxInv(c)
      BY <1>1 DEF SessionInv, SessionOf
    <3> QED  BY <3>1 DEF TrxInv, Even, NoStrayTrx
  <2>2. AnsweredFate
    BY <1>1, ToldFate DEF AnsweredFate
  <2> QED  BY <2>1, <2>2 DEF TrxFollowsSession
<1>2. ServerInv /\ SessionInv => TrxFollowsSession
  BY <1>1
<1> QED  BY <1>2, SessionAlways, PTL
=============================================================================
