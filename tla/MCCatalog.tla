----------------------------- MODULE MCCatalog ------------------------------
(* One client with schema changes, rows and crashes; schema changes of one   *)
(* client while another changes rows; MVCC; inserts that an index refuses,  *)
(* also with a crash.                                                        *)
EXTENDS Catalog

Scenario(kit, names, ops1, n1, ops2, n2, loads, crash, stops) ==
    [kit |-> kit, tables |-> names[1], indexes |-> names[2], rows |-> names[3],
     loads |-> loads, crashes |-> crash, stops |-> stops,
     ops |-> [c \in Client |-> IF c = 1 THEN ops1 ELSE ops2],
     quota |-> [c \in Client |-> IF c = 1 THEN n1 ELSE n2]]

MCScenarios ==
    { Scenario("vacuous", <<{"t", "u"}, {"i"}, {}>>,
               {"create table", "create bad table", "create index", "errors"}, 3, {}, 0, {}, 1, TRUE),
      Scenario("vacuous", <<{"t"}, {"i"}, {1, 2}>>, {"create table", "create index", "insert", "delete"}, 5, {}, 0, {}, 1, TRUE),
      Scenario("vacuous", <<{"t"}, {"i"}, {1}>>, {"create table", "create index"}, 2, {"insert", "delete"}, 2, {}, 1, FALSE),
      Scenario("vacuous", <<{"t"}, {"i", "j"}, {1}>>, {"create table", "create index"}, 3, {"insert", "errors"}, 1, {}, 0, FALSE),
      Scenario("vacuous", <<{"t"}, {"i"}, {1}>>, {"create table", "create index"}, 2, {"insert", "delete", "errors"}, 2, {}, 0, FALSE),
      Scenario("vacuous", <<{"t"}, {"i"}, {1}>>, {"create table", "create index"}, 2, {"insert", "errors"}, 1, {}, 1, FALSE),
      Scenario("mvcc", <<{"t"}, {"i"}, {1, 2}>>, {"create table", "create index", "insert"}, 4, {"load"}, 1,
               {<<"good">>, <<"good", "bad", "good">>}, 0, FALSE) }
=============================================================================
