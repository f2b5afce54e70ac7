------------------------------ MODULE MCDaemon ------------------------------
(***************************************************************************)
(* doumid with its watcher, two scans (say, a scheduled one and a          *)
(* `run_rule`), a `status`, `logs` and two `reload`s that may overlap; one *)
(* edit of the rules, in the folders they are about.                       *)
(***************************************************************************)
EXTENDS Daemon, TLC

CONSTANTS watcher, scan, job, status, logs, reload, reload2, downloads, desktop

(* The two scans are alike, and so are the two reloads. *)
Alike == Permutations({scan, job}) \cup Permutations({reload, reload2})

SameFolders == [v \in Versions |-> {downloads}]
=============================================================================
