---------------------------- MODULE MCActionLog ----------------------------
(***************************************************************************)
(* The instances of ActionLog that TLC checks: one daemon with all its     *)
(* kinds of tasks, and two daemons on one database (a second `daemon       *)
(* start` while the socket of the first does not answer).                  *)
(***************************************************************************)
EXTENDS ActionLog

CONSTANTS doumid, second, watcher, watcher2, scan, client

OneHome == [t \in Tasks |-> doumid]
TwoHomes == [t \in Tasks |-> IF t = watcher2 THEN second ELSE doumid]
=============================================================================
