------------------------------ MODULE MCServer ------------------------------
(* The ways to start the server, each with the requests and events that tell *)
(* them apart: one client with a session of several statements, or clients,  *)
(* threads and the shutdown that meet.                                       *)
EXTENDS Server

Scenario(handling, protocol, kit, first, second, leave, signal) ==
    [handling |-> handling, protocol |-> protocol, kit |-> kit, leave |-> leave, signal |-> signal,
     kinds |-> [c \in Conn |-> IF c = 1 THEN first[1] ELSE second[1]],
     quota |-> [c \in Conn |-> IF c = 1 THEN first[2] ELSE second[2]]]

Nobody == <<{}, 0>>
MCScenarios ==
    { Scenario("one-thread", "plain", "mvcc", <<{"BEGIN", "COMMIT", "ROLLBACK", "WRITE"}, 4>>, Nobody, {}, FALSE),
      Scenario("one-thread", "plain", "mvcc", <<{"BEGIN", "SET", "SELECT", "WRITE", "BAD"}, 3>>, Nobody, {1}, FALSE),
      Scenario("one-thread", "plain", "mvcc", <<{"SET", "SELECT"}, 2>>, <<{"SELECT"}, 1>>, {1}, TRUE),
      Scenario("one-thread", "plain", "vacuous", <<{"BEGIN", "ROLLBACK", "WRITE"}, 3>>, Nobody, {}, FALSE),
      Scenario("one-thread", "mysql", "mvcc",
               <<{"AUTH", "OTHER", "VERSION", "BEGIN", "COMMIT", "SET", "SELECT", "WRITE"}, 3>>, Nobody, {1}, FALSE),
      Scenario("pool", "plain", "mvcc", <<{"SELECT", "WRITE"}, 1>>, Nobody, {1}, TRUE),
      Scenario("pool", "plain", "mvcc", <<{"SELECT"}, 2>>, <<{"SELECT"}, 1>>, {1}, FALSE),
      Scenario("cli", "cli", "mvcc", <<{"SET", "SELECT", "WRITE", "EXIT"}, 3>>, Nobody, {1}, TRUE) }
=============================================================================
