---------------------------- MODULE MCRealtimeFeed ----------------------------
(* SceneFacts is here for TLC to evaluate its assumption about the tables. *)
EXTENDS RealtimeFeed, SceneFacts

CONSTANTS w1, w2

MCWorkers == {w1, w2}

MCMessages == 1..2

MCSockets == 1..2

Load(b, ms, ss, m, f) ==
  [backend |-> b, messages |-> ms, sockets |-> ss, mounts |-> m, faults |-> f]

(* Two messages to one socket, one to two sockets with and without Redis,  *)
(* and the tab alone.                                                      *)
MCLoads ==
  {Load("redis", MCMessages, {1}, 1, 1), Load("redis", {1}, MCSockets, 1, 1),
   Load("memory", {1}, MCSockets, 1, 1), Load("memory", {}, MCSockets, 2, 2)}

=============================================================================
