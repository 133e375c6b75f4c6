------------------------------- MODULE Server -------------------------------
(* The server process: the main thread (NetServer::serve or CliServer::serve *)
(* and the clean-up), the connections, and the threads that serve them, one  *)
(* per connection or from a pool.                                            *)
(*                                                                           *)
(* scen says how the server was started and what happens to it: the requests *)
(* each client sends (its kinds and quota), the clients that may leave, and  *)
(* whether there is a signal.                                                *)
(* A thread is                                                               *)
(*   pc   : where it is; a thread of the pool that runs no task is "idle",   *)
(*          or "empty" after it found no task, one that has popped a task    *)
(*          but is not counted as active yet is "got", one that has left its *)
(*          loop but is still counted as a thread "leave"                    *)
(*   conn : the connection it works for (NoConn: none; Loop: the task that   *)
(*          waits for events)                                                *)
(*   core : whether it is a core thread                                      *)
(*   kind, rc : the request it handles and its outcome so far                *)
(*   fd   : the number of the socket it has just closed                      *)
EXTENDS Communicator, FiniteSets, FiniteSetsExt

CONSTANTS Conn,       \* connections, from 1 up
          CorePool, MaxPool, \* the sizes of the thread pool
          Scenarios   \* [handling, protocol, kit, kinds, quota, leave, signal]
ASSUME ServerAssumption ==
    /\ IsFiniteSet(Conn) /\ Conn = 1 .. Cardinality(Conn) /\ Conn # {}
    /\ CorePool \in Nat \ {0} /\ MaxPool \in Nat /\ MaxPool >= CorePool
    /\ \A s \in Scenarios : /\ s.handling \in {"one-thread", "pool", "cli"}
                            /\ s.protocol \in {"plain", "mysql", "cli"}
                            /\ s.handling = "cli" <=> s.protocol = "cli"
                            /\ s.kit \in {"mvcc", "vacuous"}
                            /\ s.kinds \in [Conn -> SUBSET Requests]
                            /\ s.quota \in [Conn -> Nat]
                            /\ s.leave \subseteq Conn /\ s.signal \in BOOLEAN

VARIABLES
    scen,
    main, started, signalled, dbUp,  \* the main thread, Server::started_, the signal, the Db
    client,   \* of each connection: [msg, sent, got, bad, gone]
    conn,     \* of each connection: none, pending, open, erased, freed
    fd,       \* the number of its socket, 0 when there is none
    ring,     \* its unsent bytes
    sess,     \* its session
    said,     \* what its requests were and what was answered
    running,  \* Worker::running_ of its worker
    th,       \* the threads
    estate, queue, armed, loopexit  \* of the pool: state_, work_queue_, the added events
vars == <<scen, main, started, signalled, dbUp, client, conn, fd, ring, sess, said,
          running, th, estate, queue, armed, loopexit>>

Loop   == 0
NoConn == -1
Thread == 1 .. (IF MaxPool > Cardinality(Conn) THEN MaxPool ELSE Cardinality(Conn))
Pooled == scen.handling = "pool"

NoThread == [pc |-> "none", conn |-> NoConn, core |-> FALSE, kind |-> "-", rc |-> "-", fd |-> 0]

Init ==
    /\ scen \in Scenarios
    /\ main = CASE Pooled -> "create" [] scen.handling = "one-thread" -> "listen"
                [] OTHER -> "cli"
    /\ started = FALSE /\ signalled = FALSE /\ dbUp = TRUE
    /\ client = [c \in Conn |-> [msg |-> "none", sent |-> 0, bad |-> "no", gone |-> FALSE,
                                 got |-> <<IF scen.protocol = "mysql" THEN -1 ELSE 0, 0, TRUE>>]]
    /\ conn = [c \in Conn |-> "none"]
    /\ fd = [c \in Conn |-> 0]
    /\ ring = [c \in Conn |-> EmptyRing]
    /\ sess = [c \in Conn |-> [NewSession EXCEPT !.fate = [n \in 1 .. scen.quota[c] |-> "none"]]]
    /\ said = [c \in Conn |-> [n \in 1 .. scen.quota[c] |-> <<"-", "-">>]]
    /\ running = [c \in Conn |-> FALSE]
    /\ th = [t \in Thread |-> NoThread]
    /\ estate = "NEW" /\ queue = <<>> /\ armed = {} /\ loopexit = FALSE

poolVars == <<estate, queue, armed, loopexit>>
mainVars == <<main, started, signalled, dbUp>>
netVars  == <<client, conn, fd, ring, sess, said>>

Alive == main # "exited"

-----------------------------------------------------------------------------
(* The clients.  A client sends a request when the one before is answered    *)
(* (the protocols take one at a time), in two parts, and goes when it likes. *)

Answered(c) ==
    client[c].got[1] = client[c].sent /\ (client[c].got[3] \/ scen.handling = "cli")

Connect(c) ==
    /\ conn[c] = "none" /\ scen.handling # "cli" /\ scen.quota[c] > 0
    /\ conn' = [conn EXCEPT ![c] = "pending"]
    /\ UNCHANGED <<scen, mainVars, client, fd, ring, sess, said, running, th, poolVars>>

SendHalf(c) ==
    /\ conn[c] = "open" /\ ~client[c].gone /\ client[c].msg = "none"
    /\ Answered(c) /\ client[c].sent < scen.quota[c]
    /\ client' = [client EXCEPT ![c].msg = "half", ![c].sent = @ + 1]
    /\ UNCHANGED <<scen, mainVars, conn, fd, ring, sess, said, running, th, poolVars>>

(* The first message of a MySQL client is its handshake response.            *)
SendRest(c, kind) ==
    /\ client[c].msg = "half" /\ ~client[c].gone /\ kind \in scen.kinds[c]
    /\ kind = "AUTH" <=> (scen.protocol = "mysql" /\ client[c].sent = 1)
    /\ client' = [client EXCEPT ![c].msg = kind]
    /\ said' = [said EXCEPT ![c][client[c].sent] = <<kind, "-">>]
    /\ UNCHANGED <<scen, mainVars, conn, fd, ring, sess, running, th, poolVars>>

ClientClose(c) ==
    /\ conn[c] \in {"pending", "open"} /\ ~client[c].gone /\ c \in scen.leave
    /\ scen.handling = "cli" => client[c].msg = "none"
    /\ client' = [client EXCEPT ![c].gone = TRUE]
    /\ UNCHANGED <<scen, mainVars, conn, fd, ring, sess, said, running, th, poolVars>>

(* The bytes that arrive at client c are its own; each one follows the one   *)
(* before, and an answer begins where the one before was complete.           *)
Follows(last, b) ==
    \/ b[2] = last[1] /\ b[3] = last[2] + 1 /\ ~last[3]
    \/ b[2] = last[1] + 1 /\ b[3] = 1 /\ last[3]

Deliver(cl, c, bytes) ==
    IF cl.gone \/ bytes = <<>> THEN cl
    ELSE IF bytes[1][1] # c THEN [cl EXCEPT !.bad = "foreign"]
    ELSE LET prev == [i \in DOMAIN bytes |-> IF i = 1 THEN cl.got ELSE Tail(bytes[i - 1])]
         IN [cl EXCEPT !.bad = IF \E i \in DOMAIN bytes : ~Follows(prev[i], bytes[i])
                               THEN "order" ELSE @,
                       !.got = Tail(bytes[Len(bytes)])]

(* A socket whose client is gone fails now or later.                         *)
Up(c) == IF client[c].gone THEN BOOLEAN ELSE {TRUE}

-----------------------------------------------------------------------------
(* The threads of ThreadPoolExecutor.                                        *)
pool_size    == Cardinality({t \in Thread : th[t].pc # "none"})
active_count == Cardinality({t \in Thread : th[t].pc \notin {"none", "idle", "empty", "got", "leave"}})

create_thread(core) ==
    LET t == Min({u \in Thread : th[u].pc = "none"})
    IN th' = [th EXCEPT ![t] = [NoThread EXCEPT !.pc = "idle", !.core = core]]

(* The second half of execute, after the task is in the queue.               *)
extend_thread(thIs) ==
    IF Len(queue) > pool_size - active_count /\ pool_size < MaxPool
    THEN LET t == Min({u \in Thread : th[u].pc = "none"})
         IN th' = [thIs EXCEPT ![t] = [NoThread EXCEPT !.pc = "idle"]]
    ELSE th' = thIs

(* thread_func: a task is popped ...                                         *)
Pop(t) ==
    /\ Alive /\ th[t].pc = "idle" /\ queue # <<>>
    /\ th' = [th EXCEPT ![t].pc = "got", ![t].conn = Head(queue)]
    /\ queue' = Tail(queue)
    /\ UNCHANGED <<scen, mainVars, netVars, running, estate, armed, loopexit>>

(* ... and run: the event loop, or SqlTaskHandler::handle_event.             *)
RunTask(t) ==
    /\ Alive /\ th[t].pc = "got"
    /\ th' = [th EXCEPT ![t].pc = IF th[t].conn = Loop THEN "loop" ELSE "read"]
    /\ UNCHANGED <<scen, mainVars, netVars, running, poolVars>>

(* When there was none, the loop is left if the pool does not run and there  *)
(* still is no task; by a thread that is no core thread also when it was     *)
(* idle for long enough, whatever is in the queue now.                       *)
PopNothing(t) ==
    /\ Alive /\ th[t].pc = "idle" /\ queue = <<>>
    /\ th' = [th EXCEPT ![t].pc = "empty"]
    /\ UNCHANGED <<scen, mainVars, netVars, running, poolVars>>

MayLeave == estate # "RUNNING" /\ queue = <<>>

TryAgain(t) ==
    /\ Alive /\ th[t].pc = "empty"
    /\ th' = [th EXCEPT ![t].pc = IF MayLeave THEN "leave" ELSE "idle"]
    /\ UNCHANGED <<scen, mainVars, netVars, running, poolVars>>

Expire(t) ==
    /\ Alive /\ th[t].pc = "empty" /\ ~th[t].core
    /\ th' = [th EXCEPT ![t].pc = "leave"]
    /\ UNCHANGED <<scen, mainVars, netVars, running, poolVars>>

ThreadExit(t) ==
    /\ Alive /\ th[t].pc = "leave"
    /\ th' = [th EXCEPT ![t] = NoThread]
    /\ UNCHANGED <<scen, mainVars, netVars, running, poolVars>>

-----------------------------------------------------------------------------
(* The event loop: an event is removed when it fires; its task is refused    *)
(* when the pool does not run.                                               *)
Readable(c) == client[c].msg # "none" \/ client[c].gone

(* A mutant: the event stays added, as with EV_PERSIST.                      *)
Fire_Persist(c) == armed' = armed

Fire(c) == armed' = armed \ {c}

LoopDispatch(t, c) ==
    /\ Alive /\ th[t].pc = "loop" /\ c \in armed /\ Readable(c)
    /\ Fire(c)
    /\ th' = IF estate = "RUNNING" THEN [th EXCEPT ![t].pc = "push", ![t].conn = c] ELSE th
    /\ UNCHANGED <<scen, mainVars, netVars, running, estate, queue, loopexit>>

LoopPush(t) ==
    /\ Alive /\ th[t].pc = "push"
    /\ queue' = Append(queue, th[t].conn)
    /\ th' = [th EXCEPT ![t].pc = "count"]
    /\ UNCHANGED <<scen, mainVars, netVars, running, estate, armed, loopexit>>

LoopExtend(t) ==
    /\ Alive /\ th[t].pc = "count"
    /\ extend_thread([th EXCEPT ![t].pc = "loop", ![t].conn = Loop])
    /\ UNCHANGED <<scen, mainVars, netVars, running, poolVars>>

LoopEnd(t) ==
    /\ Alive /\ th[t].pc = "loop" /\ loopexit
    /\ th' = [th EXCEPT ![t].pc = "idle", ![t].conn = NoConn]
    /\ UNCHANGED <<scen, mainVars, netVars, running, poolVars>>

-----------------------------------------------------------------------------
(* Worker::operator(): a stopped worker closes its connection, an error or   *)
(* hang-up of the socket makes it do so, anything to read is handled.        *)
PollStopped(t) ==
    /\ Alive /\ th[t].pc = "poll" /\ ~running[th[t].conn]
    /\ th' = [th EXCEPT ![t].pc = "close"]
    /\ UNCHANGED <<scen, mainVars, netVars, running, poolVars>>

PollError(t) ==
    /\ Alive /\ th[t].pc = "poll" /\ running[th[t].conn] /\ client[th[t].conn].gone
    /\ th' = [th EXCEPT ![t].pc = "close"]
    /\ UNCHANGED <<scen, mainVars, netVars, running, poolVars>>

PollReady(t) ==
    /\ Alive /\ th[t].pc = "poll" /\ running[th[t].conn] /\ Readable(th[t].conn)
    /\ th' = [th EXCEPT ![t].pc = "read"]
    /\ UNCHANGED <<scen, mainVars, netVars, running, poolVars>>

(* What follows handle_event: the worker polls again and the command line    *)
(* goes to the top of its loop; the task of the pool adds the event again    *)
(* and ends.                                                                 *)
Rest == [NoThread EXCEPT !.pc = "idle"]

HandledWell(t) ==
    LET c == th[t].conn IN
    CASE Pooled -> /\ th' = [th EXCEPT ![t] = [Rest EXCEPT !.core = th[t].core]]
                   /\ armed' = armed \cup {c}
      [] OTHER  -> /\ th' = [th EXCEPT ![t] = [NoThread EXCEPT !.pc = IF scen.handling = "cli" THEN "line"
                                                                   ELSE "poll", !.conn = c]]
                   /\ UNCHANGED armed

(* read_event: it waits for the end of a message, whatever running_ says. A  *)
(* client that has gone gives an error.                                      *)
ReadClosed(t) ==
    /\ Alive /\ th[t].pc = "read" /\ scen.handling # "cli"
    /\ client[th[t].conn].gone /\ client[th[t].conn].msg \in {"none", "half"}
    /\ th' = [th EXCEPT ![t].pc = "close"]
    /\ UNCHANGED <<scen, mainVars, netVars, running, poolVars>>

ReadRequest(t) ==
    LET c == th[t].conn IN
    /\ Alive /\ th[t].pc = "read" /\ client[c].msg \in Requests \ {"AUTH", "OTHER", "EXIT"}
    /\ client' = [client EXCEPT ![c].msg = "none"]
    /\ th' = [th EXCEPT ![t].pc = "handle", ![t].kind = client[c].msg]
    /\ UNCHANGED <<scen, mainVars, conn, fd, ring, sess, said, running, poolVars>>

(* MysqlCommunicator::read_event answers the handshake response and commands *)
(* other than a query by an OK packet itself.                                *)
ReadCommand(t) ==
    LET c == th[t].conn IN
    /\ Alive /\ th[t].pc = "read" /\ client[c].msg \in {"AUTH", "OTHER"}
    /\ \E up \in Up(c) :
          LET w == Send(ring[c], Answer(c, client[c].sent, 1, TRUE), up)
          IN /\ client' = [client EXCEPT ![c] = Deliver([@ EXCEPT !.msg = "none"], c, w.out)]
             /\ ring' = [ring EXCEPT ![c] = w.ring]
             /\ IF w.rc = "SUCCESS" THEN HandledWell(t)
                ELSE th' = [th EXCEPT ![t].pc = "close"] /\ UNCHANGED armed
    /\ said' = [said EXCEPT ![c][client[c].sent][2] = "SUCCESS"]
    /\ UNCHANGED <<scen, mainVars, conn, fd, sess, running, estate, queue, loopexit>>

(* SqlTaskHandler::handle_sql, and SqlResult::open at the head of            *)
(* write_result.                                                             *)
Handle(t) ==
    LET c == th[t].conn
        k == th[t].kind
    IN /\ Alive /\ th[t].pc = "handle"
       /\ \/ /\ Runs(k)
             /\ \E o \in Opens(k) :
                   /\ sess' = [sess EXCEPT ![c] = OpenResult(@, scen.kit, client[c].sent, k, o)]
                   /\ th' = [th EXCEPT ![t].pc = "answer", ![t].rc = o]
          \/ /\ ~Runs(k)
             /\ sess' = [sess EXCEPT ![c] = execute(k, @, scen.kit).sess]
             /\ th' = [th EXCEPT ![t].pc = "answer", ![t].rc = execute(k, sess[c], scen.kit).rc]
       /\ UNCHANGED <<scen, mainVars, client, conn, fd, ring, said, running, poolVars>>

(* The rest of write_result and of handle_event.  When the client is gone    *)
(* the write may fail: plain and MySQL then give the connection up (MySQL    *)
(* not when only rows were lost), the command line never does.               *)
GiveUp(c, r, w) ==
    IF scen.protocol = "cli" THEN {FALSE}
    ELSE IF w.rc = "SUCCESS" THEN {r.cut}
    ELSE IF scen.protocol = "mysql" THEN {TRUE, FALSE} ELSE {TRUE}

WriteResult(t) ==
    LET c == th[t].conn
        r == write_result(scen.protocol, sess[c], c, client[c].sent, th[t].kind, th[t].rc)
    IN /\ Alive /\ th[t].pc = "answer"
       /\ \E up \in Up(c) :
             LET w == Send(ring[c], r.bytes, up)
             IN /\ client' = [client EXCEPT ![c] = Deliver(@, c, w.out)]
                /\ ring' = [ring EXCEPT ![c] = w.ring]
                /\ \E giveUp \in GiveUp(c, r, w) :
                      IF giveUp THEN th' = [th EXCEPT ![t].pc = "close"] /\ UNCHANGED armed
                      ELSE HandledWell(t)
       /\ sess' = [sess EXCEPT ![c] = r.sess]
       /\ said' = [said EXCEPT ![c][client[c].sent][2] = r.said]
       /\ UNCHANGED <<scen, mainVars, conn, fd, running, estate, queue, loopexit>>

-----------------------------------------------------------------------------
(* close_connection: the connection leaves the map under the lock; then the  *)
(* communicator is destroyed: the socket, the writer with what it could not  *)
(* send, the session.                                                        *)
CloseErase(t) ==
    /\ Alive /\ th[t].pc = "close"
    /\ conn' = [conn EXCEPT ![th[t].conn] = "erased"]
    /\ th' = [th EXCEPT ![t].pc = "closefd"]
    /\ UNCHANGED <<scen, mainVars, client, fd, ring, sess, said, running, poolVars>>

CloseFd(t) ==
    /\ Alive /\ th[t].pc = "closefd"
    /\ fd' = [fd EXCEPT ![th[t].conn] = 0]
    /\ th' = [th EXCEPT ![t].pc = "delwriter", ![t].fd = fd[th[t].conn]]
    /\ UNCHANGED <<scen, mainVars, client, conn, ring, sess, said, running, poolVars>>

(* The writer still knows the number of the socket and flushes to it.        *)
DeleteWriter(t) ==
    LET owners == {d \in Conn : fd[d] = th[t].fd}
        w      == flush(Writer(ring[th[t].conn]), TRUE, Burst)
    IN /\ Alive /\ th[t].pc = "delwriter"
       /\ client' = [d \in Conn |-> IF d \in owners THEN Deliver(client[d], d, w.out) ELSE client[d]]
       /\ ring' = [ring EXCEPT ![th[t].conn] = EmptyRing]
       /\ th' = [th EXCEPT ![t].pc = "delsession", ![t].fd = 0]
       /\ UNCHANGED <<scen, mainVars, conn, fd, sess, said, running, poolVars>>

DeleteSession(t) ==
    LET c == th[t].conn
    IN /\ Alive /\ th[t].pc = "delsession"
       /\ sess' = [sess EXCEPT ![c] = Destroyed(@)]
       /\ conn' = [conn EXCEPT ![c] = "freed"]
       /\ th' = [th EXCEPT ![t] = IF Pooled THEN [Rest EXCEPT !.core = th[t].core] ELSE NoThread]
       /\ UNCHANGED <<scen, mainVars, client, fd, ring, said, running, poolVars>>

-----------------------------------------------------------------------------
(* The main thread.  JavaThreadPoolThreadHandler::start: the executor makes  *)
(* its core threads and only then runs; the event loop is its first task.    *)
CreateCore ==
    /\ main = "create" /\ pool_size < CorePool
    /\ create_thread(TRUE)
    /\ UNCHANGED <<scen, mainVars, netVars, running, poolVars>>

PoolRunning ==
    /\ main = "create" /\ pool_size >= CorePool
    /\ estate' = "RUNNING" /\ main' = "submit"
    /\ UNCHANGED <<scen, started, signalled, dbUp, netVars, running, th, queue, armed, loopexit>>

SubmitLoop ==
    /\ main = "submit"
    /\ queue' = Append(queue, Loop) /\ main' = "count"
    /\ UNCHANGED <<scen, started, signalled, dbUp, netVars, running, th, estate, armed, loopexit>>

ExtendForLoop ==
    /\ main = "count"
    /\ extend_thread(th) /\ main' = "listen"
    /\ UNCHANGED <<scen, started, signalled, dbUp, netVars, running, poolVars>>

(* NetServer::start and serve.                                               *)
Listen ==
    /\ main = "listen"
    /\ started' = TRUE /\ main' = "serve"
    /\ UNCHANGED <<scen, signalled, dbUp, netVars, running, th, poolVars>>

Serve ==
    /\ main = "serve"
    /\ main' = IF started THEN "polling" ELSE "stop"
    /\ UNCHANGED <<scen, started, signalled, dbUp, netVars, running, th, poolVars>>

PollTimeout ==
    /\ main = "polling" /\ \A c \in Conn : conn[c] # "pending"
    /\ main' = "serve"
    /\ UNCHANGED <<scen, started, signalled, dbUp, netVars, running, th, poolVars>>

(* NetServer::accept with Communicator::init and new_connection: a worker    *)
(* with a thread of its own, or an event.  The system gives the connection   *)
(* the smallest number that is free.                                         *)
FreeFd == Min((1 .. Cardinality(Conn)) \ {fd[d] : d \in Conn})

Accept(c) ==
    /\ main = "polling" /\ conn[c] = "pending"
    /\ conn' = [conn EXCEPT ![c] = "open"]
    /\ fd' = [fd EXCEPT ![c] = FreeFd]
    /\ \E up \in Up(c) :
          LET w == Send(ring[c], Greeting(scen.protocol, c), up)
          IN /\ client' = [client EXCEPT ![c] = Deliver(@, c, w.out)]
             /\ ring' = [ring EXCEPT ![c] = w.ring]
    /\ \/ /\ Pooled
          /\ armed' = armed \cup {c} /\ UNCHANGED <<th, running>>
       \/ /\ ~Pooled
          /\ th' = [th EXCEPT ![c] = [NoThread EXCEPT !.pc = "poll", !.conn = c]]
          /\ running' = [running EXCEPT ![c] = TRUE] /\ UNCHANGED armed
    /\ main' = "serve"
    /\ UNCHANGED <<scen, started, signalled, dbUp, sess, said, estate, queue, loopexit>>

(* ThreadHandler::stop: every worker of the map is told to stop.             *)
(* A mutant: the first one only.                                             *)
Told_First == {c \in Conn : c = 1 /\ conn[c] = "open"}

Told == {c \in Conn : conn[c] = "open"}

StopWorkers ==
    /\ main = "stop" /\ ~Pooled
    /\ running' = [c \in Conn |-> running[c] /\ c \notin Told]
    /\ main' = "await"
    /\ UNCHANGED <<scen, started, signalled, dbUp, netVars, th, poolVars>>

StopLoop ==
    /\ main = "stop" /\ Pooled
    /\ loopexit' = TRUE /\ main' = "shutdown"
    /\ UNCHANGED <<scen, started, signalled, dbUp, netVars, running, th, estate, queue, armed>>

StopPool ==
    /\ main = "shutdown"
    /\ estate' = "TERMINATING" /\ main' = "await"
    /\ UNCHANGED <<scen, started, signalled, dbUp, netVars, running, th, queue, armed, loopexit>>

(* await_stop: until the map of the connections, or of the threads, is empty.*)
(* A mutant: the pool is not waited for.                                     *)
Stopped_PoolNotAwaited == Pooled \/ \A c \in Conn : conn[c] # "open"

Stopped == IF Pooled THEN pool_size = 0 ELSE \A c \in Conn : conn[c] # "open"

(* With the pool, the main thread frees the connections that are left.  Then *)
(* the handler is deleted, and with it the tasks no thread was there to take.*)
AwaitStop ==
    LET left == IF Pooled THEN {c \in Conn : conn[c] = "open"} ELSE {}
    IN /\ main = "await" /\ Stopped
       /\ conn' = [c \in Conn |-> IF c \in left THEN "freed" ELSE conn[c]]
       /\ fd' = [c \in Conn |-> IF c \in left THEN 0 ELSE fd[c]]
       /\ ring' = [c \in Conn |-> IF c \in left THEN EmptyRing ELSE ring[c]]
       /\ sess' = [c \in Conn |-> IF c \in left THEN Destroyed(sess[c]) ELSE sess[c]]
       /\ armed' = armed \ left /\ queue' = <<>>
       /\ main' = "cleanup"
       /\ UNCHANGED <<scen, started, signalled, dbUp, client, said, running, th, estate, loopexit>>

AwaitPoll == main = "await" /\ ~Stopped /\ UNCHANGED vars

(* CliServer::serve: the main thread reads lines while started_ is set.      *)
CliStart ==
    /\ main = "cli"
    /\ started' = TRUE /\ main' = "clirun"
    /\ conn' = [conn EXCEPT ![1] = "open"]
    /\ th' = [th EXCEPT ![1] = [NoThread EXCEPT !.pc = "line", !.conn = 1]]
    /\ UNCHANGED <<scen, signalled, dbUp, client, fd, ring, sess, said, running, poolVars>>

CliNext ==
    /\ main = "clirun" /\ th[1].pc = "line" /\ started
    /\ th' = [th EXCEPT ![1].pc = "read"]
    /\ UNCHANGED <<scen, mainVars, netVars, running, poolVars>>

(* At the end of the input read_event reports success and no event.          *)
CliNoLine ==
    /\ main = "clirun" /\ th[1].pc = "read" /\ client[1].gone /\ client[1].msg = "none"
    /\ th' = [th EXCEPT ![1].pc = "line"]
    /\ UNCHANGED <<scen, mainVars, netVars, running, poolVars>>

(* exit_ or started_ ends the loop; serve returns and takes the communicator *)
(* with it.                                                                  *)
CliEnd ==
    /\ main = "clirun"
    /\ \/ th[1].pc = "line" /\ ~started
       \/ th[1].pc = "read" /\ client[1].msg = "EXIT"
    /\ main' = "cleanup" /\ started' = FALSE
    /\ conn' = [conn EXCEPT ![1] = "freed"]
    /\ sess' = [sess EXCEPT ![1] = Destroyed(@)]
    /\ th' = [th EXCEPT ![1] = NoThread]
    /\ UNCHANGED <<scen, signalled, dbUp, client, fd, ring, said, running, poolVars>>

(* main: cleanup destroys the Db, then the process ends.                     *)
Cleanup ==
    /\ main = "cleanup"
    /\ dbUp' = FALSE /\ main' = "return"
    /\ UNCHANGED <<scen, started, signalled, netVars, running, th, poolVars>>

Return ==
    /\ main = "return"
    /\ main' = "exited"
    /\ UNCHANGED <<scen, started, signalled, dbUp, netVars, running, th, poolVars>>

(* A signal, once: its thread calls Server::shutdown.                        *)
Signal ==
    /\ Alive /\ ~signalled /\ scen.signal
    /\ signalled' = TRUE /\ started' = FALSE
    /\ UNCHANGED <<scen, main, dbUp, netVars, running, th, poolVars>>

Exited == main = "exited" /\ UNCHANGED vars

-----------------------------------------------------------------------------
(* The steps that write to a socket, and when there is one to take.          *)
WriteStep(t) == ReadCommand(t) \/ WriteResult(t) \/ DeleteWriter(t)
CanWrite(t)  ==
    Alive /\ \/ th[t].pc \in {"answer", "delwriter"}
             \/ th[t].pc = "read" /\ client[th[t].conn].msg \in {"AUTH", "OTHER"}

OtherStep(t) ==
    \/ Pop(t) \/ PopNothing(t) \/ TryAgain(t) \/ RunTask(t) \/ ThreadExit(t)
    \/ \E c \in Conn : LoopDispatch(t, c)
    \/ LoopPush(t) \/ LoopExtend(t) \/ LoopEnd(t)
    \/ PollStopped(t) \/ PollError(t) \/ PollReady(t)
    \/ ReadClosed(t) \/ ReadRequest(t) \/ Handle(t)
    \/ CloseErase(t) \/ CloseFd(t) \/ DeleteSession(t)

MainStep ==
    \/ CreateCore \/ PoolRunning \/ SubmitLoop \/ ExtendForLoop
    \/ Listen \/ Serve \/ PollTimeout \/ \E c \in Conn : Accept(c)
    \/ StopWorkers \/ StopLoop \/ StopPool \/ AwaitStop
    \/ CliStart \/ CliNext \/ CliNoLine \/ CliEnd \/ Cleanup \/ Return

ClientStep(c) ==
    \/ Connect(c) \/ SendHalf(c) \/ ClientClose(c)
    \/ \E kind \in Requests : SendRest(c, kind)

Next ==
    \/ \E t \in Thread : WriteStep(t) \/ OtherStep(t) \/ Expire(t)
    \/ MainStep
    \/ \E c \in Conn : ClientStep(c)
    \/ Signal
    \/ AwaitPoll
    \/ Exited

(* The threads and the main thread run on; a client that has sent a part of  *)
(* a message sends the rest or goes.  The second conjunct is                 *)
(* WF_vars(WriteStep(t)) with ENABLED spelled out.                           *)
FinishMessage(c) == client[c].msg = "half" /\ (ClientClose(c) \/ \E kind \in Requests : SendRest(c, kind))

Fairness ==
    /\ \A t \in Thread : WF_vars(OtherStep(t))
    /\ \A t \in Thread : []<>~CanWrite(t) \/ []<><<WriteStep(t)>>_vars
    /\ WF_vars(MainStep)
    /\ \A c \in Conn : WF_vars(FinishMessage(c))

Spec == Init /\ [][Next]_vars /\ Fairness

-----------------------------------------------------------------------------
(* Every variable keeps its shape; every task of the queue is the event loop *)
(* or an open connection, once; no two connections have one number.          *)
TypeOK ==
    /\ scen \in Scenarios
    /\ started \in BOOLEAN /\ signalled \in BOOLEAN /\ dbUp \in BOOLEAN /\ loopexit \in BOOLEAN
    /\ estate \in {"NEW", "RUNNING", "TERMINATING"}
    /\ \A c \in Conn :
          /\ client[c].msg \in Requests \cup {"none", "half"}
          /\ client[c].sent \in 0 .. scen.quota[c]
          /\ conn[c] \in {"none", "pending", "open", "erased", "freed"}
          /\ ring[c].size \in 0 .. Capacity /\ ring[c].write_pos \in 0 .. Capacity - 1
          /\ sess[c].trx \in {"none", "idle", "started"} /\ sess[c].multi \in BOOLEAN
          /\ \A n \in DOMAIN sess[c].fate : sess[c].fate[n] \in Fates
          /\ \A d \in Conn \ {c} : fd[c] # 0 => fd[c] # fd[d]
    /\ armed \subseteq {c \in Conn : conn[c] = "open"}
    /\ \A i, j \in DOMAIN queue : queue[i] \in Conn \cup {Loop} /\ (i # j => queue[i] # queue[j])

(* A connection that is served has exactly one party that looks after it:    *)
(* its event, its task in the queue or one thread; and nobody works for one  *)
(* that is freed or not accepted.  The only ones left alone are connections  *)
(* whose task the pool refused when it was shut down.                        *)
Works(t, c)  == th[t].conn = c /\ th[t].pc # "count"
Tenders(c)   == Cardinality({t \in Thread : Works(t, c)}) + Cardinality({i \in DOMAIN queue : queue[i] = c})
                + (IF c \in armed THEN 1 ELSE 0)
Refused      == Pooled /\ estate = "TERMINATING"
TendedOnce ==
    \A c \in Conn : IF conn[c] \in {"open", "erased"} THEN Tenders(c) = 1 \/ (Refused /\ Tenders(c) = 0)
                    ELSE Tenders(c) = 0

(* No thread handles a statement when the Db is destroyed.  With one thread  *)
(* per connection a worker that has taken its connection out of the map may  *)
(* still be destroying its session then; with the pool and on the command    *)
(* line every session is destroyed before.                                   *)
DbOutlivesWork ==
    ~dbUp => \A t \in Thread :
                \/ th[t].pc = "none"
                \/ scen.handling = "one-thread" /\ th[t].pc \in {"closefd", "delwriter", "delsession"}

(* A client gets the bytes of its answers in order and without a gap.  On    *)
(* the command line an error among the rows leaves out the end of an answer. *)
AnswersInOrder ==
    \A c \in Conn : client[c].bad = "order" =>
                       scen.handling = "cli" /\ \E n \in DOMAIN said[c] : said[c][n][2] = "CUT"

(* A client gets bytes meant for another only from a connection whose own    *)
(* client is gone and whose socket number it was given between close(fd_)    *)
(* and the last flush of the writer.                                         *)
OwnAnswers ==
    [][\A c \in Conn : client'[c].bad = "foreign" /\ client[c].bad # "foreign" =>
          \E t \in Thread : /\ th[t].pc = "delwriter" /\ th[t].fd = fd[c]
                            /\ client[th[t].conn].gone]_vars

(* Between two statements a transaction is under way exactly in a block that *)
(* BEGIN opened.  A MySQL client whose changing statement failed, and the    *)
(* command line after an error among the rows, are left with an open one.    *)
LeftOpen(c) ==
    \E n \in DOMAIN said[c] : \/ scen.protocol = "mysql" /\ said[c][n] = <<"WRITE", "FAILURE">>
                              \/ scen.protocol = "cli" /\ said[c][n][2] = "CUT"
NoStrayTrx ==
    scen.kit = "mvcc" =>
        \A c \in Conn :
            conn[c] = "open" /\ (\A t \in Thread : th[t].conn = c => th[t].pc \notin {"answer", "close"}) =>
                \/ (sess[c].trx = "started") <=> sess[c].multi
                \/ LeftOpen(c)

(* What a client was told holds.  A change it was told succeeded is          *)
(* committed; in a block it waits for the end of the block and goes with it. *)
InBlock(c, n) ==
    \E b \in 1 .. n - 1 : /\ said[c][b] = <<"BEGIN", "SUCCESS">>
                          /\ \A m \in b + 1 .. n - 1 : said[c][m][1] \notin {"COMMIT", "ROLLBACK"}
EndOf(c, n) == {m \in DOMAIN said[c] : m > n /\ said[c][m][1] \in {"COMMIT", "ROLLBACK"}}
Promised(c, n) ==
    IF scen.kit = "vacuous" \/ ~InBlock(c, n) THEN {"committed"}
    ELSE IF EndOf(c, n) = {} THEN {"pending", "orphan"}
    ELSE LET m    == Min(EndOf(c, n))
             then == IF said[c][m][1] = "COMMIT" THEN "committed" ELSE "undone"
         IN IF said[c][m][2] = "SUCCESS" THEN {then} ELSE {"pending", "orphan", then}
AnsweredFate ==
    \A c \in Conn : \A n \in DOMAIN said[c] :
        said[c][n] = <<"WRITE", "SUCCESS">> => sess[c].fate[n] \in Promised(c, n)

(* A core thread was lost: it found, before the executor was set running,    *)
(* that it did not run, and left, still counted as free.                     *)
CoreLost ==
    /\ Pooled /\ estate = "RUNNING"
    /\ Cardinality({t \in Thread : th[t].core /\ th[t].pc # "leave"}) < CorePool

(* A request that has arrived is answered, unless its connection ends or the *)
(* pool has lost a core thread.                                              *)
RequestAnswered ==
    \A c \in Conn :
        client[c].msg \in Requests \ {"EXIT"} ~>
            Answered(c) \/ client[c].gone \/ conn[c] # "open" \/ main = "exited" \/ CoreLost

(* A signal that finds the server serving ends it, whatever the clients do   *)
(* but for one that leaves a message unfinished.                             *)
ShutdownCompletes ==
    (signalled /\ main \in {"serve", "polling"} /\ ~started) ~> main = "exited"

(* A connection has one party that looks after it, in every state of the   *)
(* event, the queue and the pool that the types allow.                     *)
ConnectionsTended == TypeOK /\ TendedOnce

(* The session's flag, its transaction and what its client was told agree. *)
TrxFollowsSession == NoStrayTrx /\ AnsweredFate
=============================================================================
