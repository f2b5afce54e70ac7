---------------------------- MODULE MCLifecycle ----------------------------
(***************************************************************************)
(* Two daemons, two commands of the CLI at a time, and two paths for the   *)
(* socket.                                                                 *)
(***************************************************************************)
EXTENDS Lifecycle

CONSTANTS d1, d2, c1, c2, here, there
=============================================================================
