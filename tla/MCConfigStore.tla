--------------------------- MODULE MCConfigStore ---------------------------
(***************************************************************************)
(* The GUI with two threads, a command of the CLI and the daemon, on two   *)
(* rules, the id of one being the beginning of the other's, and a name     *)
(* under which a rule may be copied in.                                    *)
(***************************************************************************)
EXTENDS ConfigStore, TLC

CONSTANTS archive, archive_old, cli, t1, t2, archive_json, archive_old_json, copied_json

Named == [id \in Ids |-> IF id = archive THEN archive_json ELSE archive_old_json]
Starts == [id \in Ids |-> IF id = archive THEN {archive_old} ELSE {}]
Equal == [id \in Ids |-> 0]
OneRule == [f \in Files |-> IF f = archive_old_json THEN NewRule(archive_old, TRUE)
                            ELSE Missing]

(* The threads of the GUI are alike. *)
Alike == Permutations(Threads)
=============================================================================
