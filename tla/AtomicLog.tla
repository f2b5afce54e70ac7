----------------------------- MODULE AtomicLog -----------------------------
(***************************************************************************)
(* What the action log promises to whoever holds the database mutex of     *)
(* doumid: a result is logged in one step, with all its actions, and the   *)
(* log then holds the newest max_entries entries.  When something fails on *)
(* the way, an entry may lack its last actions and the log is not pruned - *)
(* until the next result that is logged without a failure.                 *)
(***************************************************************************)
EXTENDS Integers, FiniteSets

CONSTANTS
    Entries,     \* what can be in the log: [no, ts, n, stored]
    max_entries, \* how many entries the log is to keep
    MayFail      \* whether a statement on the database can fail

VARIABLE log

Init == log = {}

(* The newest entries of a set, as many as the log keeps. *)
Newest(all) ==
    {kept \in SUBSET all :
        /\ \A e \in kept, f \in all \ kept : f.ts <= e.ts
        /\ IF Cardinality(all) <= max_entries
           THEN kept = all
           ELSE Cardinality(kept) = max_entries}

Add(e) == e.stored = e.n /\ log' \in Newest(log \cup {e})

AddUnpruned(e) == MayFail /\ e.stored <= e.n /\ log' = log \cup {e}

Next == \E e \in Entries \ log : Add(e) \/ AddUnpruned(e)

Spec == Init /\ [][Next]_log
=============================================================================
