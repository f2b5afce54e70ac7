----------------------------- MODULE ActionLog -----------------------------
(***************************************************************************)
(* The action log of doumid (crates/doumi-daemon/src/db.rs) and the tasks  *)
(* that use it: the watcher, the scans, and the clients that ask for the   *)
(* recent entries.                                                         *)
(*                                                                         *)
(* A result is logged by a row of events, a row of actions for each of its *)
(* actions, a count and perhaps a delete, each a statement - and, with no  *)
(* transaction around them, a commit - of its own.  Inside a daemon the    *)
(* mutex around the connection keeps tasks apart; a second daemon has a    *)
(* connection and a mutex of its own on the same file.                     *)
(*                                                                         *)
(* The watcher makes its results before it waits for the mutex             *)
(* (watcher.rs:126-129), a scan while it holds it (scheduler.rs:70-78).    *)
(***************************************************************************)
EXTENDS Integers, Sequences, FiniteSets, FiniteSetsExt

CONSTANTS
    Daemons,      \* processes with a connection
    Watchers,     \* the tasks that handle events
    Scanners,     \* the tasks that scan
    Clients,      \* the IPC tasks that serve `logs`
    Home,         \* [Tasks -> Daemons]
    Free,         \* the owner of a free mutex
    max_entries,  \* settings.max_log_entries
    Limit,        \* how many entries a client asks for
    MaxActs,      \* bound: actions of one result
    MaxBatch,     \* bound: results of one file
    MaxResults,   \* bound: results ever made
    MaxTime,      \* bound: the clock's last value
    MaySlip,      \* whether the local time may be set back
    MayFail,      \* whether a statement may fail (SQLITE_BUSY, a full disk)
    MayCrash      \* whether a daemon may be killed

Tasks == Watchers \cup Scanners \cup Clients

ASSUME LogAssumption ==
    /\ Home \in [Tasks -> Daemons]
    /\ Free \notin Tasks
    /\ max_entries \in Nat
    /\ {Limit, MaxActs, MaxBatch, MaxResults, MaxTime} \subseteq Nat
    /\ {MaySlip, MayFail, MayCrash} \subseteq BOOLEAN

VARIABLES
    events,  \* the table events
    actions, \* the table actions
    last_id, \* sqlite_sequence: the last id given to an event
    clock,   \* the local time
    made,    \* results made so far
    lock,    \* who holds each daemon's database mutex
    task,    \* what each task is at
    cut,     \* history: the events whose logging ended before its last action
    unpurged \* history: the events whose logging ended without the purge
vars == <<events, actions, last_id, clock, made, lock, task, cut, unpurged>>
tables == <<events, actions, last_id, cut, unpurged>>

(* A result: its number, its timestamp and how many actions it took. *)
Result == [no : 1..MaxResults, ts : 0..MaxTime, n : 0..MaxActs]

(* A row of events; `no` and `n` are what it is about, not columns. *)
Row == [id : Nat \ {0}, no : 1..MaxResults, ts : 0..MaxTime, n : 0..MaxActs]

(* The row of a result under its id. *)
RowOf(id, r) == [id |-> id, no |-> r.no, ts |-> r.ts, n |-> r.n]
NoRow == RowOf(0, [no |-> 0, ts |-> 0, n |-> 0])

(* A task: the results it has to log, the row being logged, the actions of it
   that are in (k), the rows to delete; for a client, the rows whose actions
   are still to be read and what it has read. *)
Rest == [pc |-> "idle", results |-> <<>>, row |-> NoRow, k |-> 0, excess |-> 0,
         rows |-> {}, view |-> {}]

Init ==
    /\ events = {} /\ actions = {} /\ last_id = 0
    /\ clock = 0 /\ made = 0
    /\ lock = [d \in Daemons |-> Free]
    /\ task = [t \in Tasks |-> Rest]
    /\ cut = {} /\ unpurged = {}

Holds(t)     == lock[Home[t]] = t
At(t, pc)    == task[t].pc = pc
TaskIs(t, s) == task' = [task EXCEPT ![t] = s]

(* log_result returns; early, without the purge. *)
Return(t) ==
    TaskIs(t, [task[t] EXCEPT !.pc = "idle", !.row = NoRow, !.k = 0, !.excess = 0])
ReturnEarly(t) == Return(t) /\ unpurged' = unpurged \cup {task[t].row.id}

(* Inside log_result. *)
Writing(t) == task[t].pc \in {"actions", "delete"}

(* How many actions of an event are in the log. *)
Stored(id) == Cardinality({a \in actions : a.event = id})
----------------------------------------------------------------------------
(* Time, results and the mutex *)

Tick ==
    /\ clock' \in {clock + 1} \cup (IF MaySlip THEN {clock - 1} ELSE {})
    /\ clock' \in 0..MaxTime
    /\ UNCHANGED <<tables, made, lock, task>>

(* A rule has matched: the result carries the time at which it was made. *)
Produce(t) ==
    /\ \/ t \in Watchers /\ ~Holds(t)
       \/ t \in Scanners /\ Holds(t)
    /\ At(t, "idle") /\ Len(task[t].results) < MaxBatch
    /\ made < MaxResults
    /\ made' = made + 1
    /\ \E n \in 0..MaxActs :
        TaskIs(t, [task[t] EXCEPT !.results =
            Append(@, [no |-> made + 1, ts |-> clock, n |-> n])])
    /\ UNCHANGED <<tables, clock, lock>>

Lock(t) ==
    /\ lock[Home[t]] = Free
    /\ lock' = [lock EXCEPT ![Home[t]] = t]
    /\ UNCHANGED <<tables, clock, made, task>>

(* Mutant: the mutex is given back with results still to be logged. *)
Unlock_early(t) ==
    /\ Holds(t) /\ At(t, "idle")
    /\ lock' = [lock EXCEPT ![Home[t]] = Free]
    /\ UNCHANGED <<tables, clock, made, task>>

Unlock(t) ==
    /\ Holds(t) /\ At(t, "idle") /\ task[t].results = <<>>
    /\ lock' = [lock EXCEPT ![Home[t]] = Free]
    /\ UNCHANGED <<tables, clock, made, task>>

(* The process dies between two statements; what is committed stays. *)
Crash(d) ==
    LET mine == {t \in Tasks : Home[t] = d}
    IN  /\ MayCrash
        /\ lock' = [lock EXCEPT ![d] = Free]
        /\ task' = [t \in Tasks |-> IF t \in mine THEN Rest ELSE task[t]]
        /\ cut' = cut \cup {task[t].row.id : t \in {u \in mine : At(u, "actions")}}
        /\ unpurged' = unpurged \cup {task[t].row.id : t \in {u \in mine : Writing(u)}}
        /\ UNCHANGED <<events, actions, last_id, clock, made>>
----------------------------------------------------------------------------
(* log_result *)

InsertEvent(t) ==
    /\ Holds(t) /\ At(t, "idle") /\ task[t].results # <<>>
    /\ LET row  == RowOf(last_id + 1, Head(task[t].results))
           rest == Tail(task[t].results)
       IN  \/ /\ events' = events \cup {row}
              /\ last_id' = row.id
              /\ TaskIs(t, [task[t] EXCEPT !.pc = "actions", !.row = row,
                            !.k = 0, !.results = rest])
           \/ /\ MayFail
              /\ TaskIs(t, [task[t] EXCEPT !.results = rest])
              /\ UNCHANGED <<events, last_id>>
    /\ UNCHANGED <<actions, cut, unpurged, clock, made, lock>>

(* Mutant: the id of the latest event, not of the one this connection
   inserted last. *)
InsertAction_latest(t) ==
    /\ At(t, "actions") /\ task[t].k < task[t].row.n
    /\ actions' = actions \cup {[event |-> last_id, k |-> task[t].k + 1]}
    /\ TaskIs(t, [task[t] EXCEPT !.k = task[t].k + 1])
    /\ UNCHANGED <<events, last_id, cut, unpurged, clock, made, lock>>

(* The foreign key refuses an action whose event has gone.  A refusal or a
   failure ends log_result: no further action, and no purge. *)
InsertAction(t) ==
    /\ At(t, "actions") /\ task[t].k < task[t].row.n
    /\ \/ /\ \E e \in events : e.id = task[t].row.id
          /\ actions' = actions \cup {[event |-> task[t].row.id, k |-> task[t].k + 1]}
          /\ TaskIs(t, [task[t] EXCEPT !.k = task[t].k + 1])
          /\ UNCHANGED <<cut, unpurged>>
       \/ /\ MayFail \/ \A e \in events : e.id # task[t].row.id
          /\ ReturnEarly(t)
          /\ cut' = cut \cup {task[t].row.id}
          /\ UNCHANGED actions
    /\ UNCHANGED <<events, last_id, clock, made, lock>>

(* Mutant: one entry too many is let through. *)
CountEvents_off_by_one(t) ==
    /\ At(t, "actions") /\ task[t].k = task[t].row.n
    /\ LET count == Cardinality(events)
       IN  IF count <= max_entries + 1
           THEN Return(t)
           ELSE TaskIs(t, [task[t] EXCEPT !.pc = "delete",
                                          !.excess = count - max_entries - 1])
    /\ UNCHANGED <<tables, clock, made, lock>>

(* Mutant: the difference the wrong way round. *)
CountEvents_swapped(t) ==
    /\ At(t, "actions") /\ task[t].k = task[t].row.n
    /\ LET count == Cardinality(events)
       IN  IF count <= max_entries
           THEN Return(t)
           ELSE TaskIs(t, [task[t] EXCEPT !.pc = "delete",
                                          !.excess = max_entries - count])
    /\ UNCHANGED <<tables, clock, made, lock>>

(* purge_old: how many entries are too many. *)
CountEvents(t) ==
    /\ At(t, "actions") /\ task[t].k = task[t].row.n
    /\ LET count == Cardinality(events)
       IN  \/ /\ count > max_entries
              /\ TaskIs(t, [task[t] EXCEPT !.pc = "delete",
                                           !.excess = count - max_entries])
              /\ UNCHANGED unpurged
           \/ count <= max_entries /\ Return(t) /\ UNCHANGED unpurged
           \/ MayFail /\ ReturnEarly(t)
    /\ UNCHANGED <<events, actions, last_id, cut, clock, made, lock>>

(* Mutant: ORDER BY ts DESC. *)
Oldest_desc(k) ==
    {gone \in kSubset(Min({k, Cardinality(events)}), events) :
        \A e \in gone, f \in events \ gone : e.ts >= f.ts}

(* SELECT id FROM events ORDER BY ts ASC LIMIT k: among equals, any. *)
Oldest(k) ==
    {gone \in kSubset(Min({k, Cardinality(events)}), events) :
        \A e \in gone, f \in events \ gone : e.ts <= f.ts}

(* Mutant: the actions of a deleted event stay. *)
Cascade_none(gone) == {}

(* ON DELETE CASCADE: the actions that go with their events. *)
Cascade(gone) == {a \in actions : \E e \in gone : a.event = e.id}

(* purge_old: the delete, with the count made before. *)
DeleteOldest(t) ==
    /\ At(t, "delete")
    /\ \/ /\ \E gone \in Oldest(task[t].excess) :
                /\ events' = events \ gone
                /\ actions' = actions \ Cascade(gone)
          /\ Return(t) /\ UNCHANGED unpurged
       \/ MayFail /\ ReturnEarly(t) /\ UNCHANGED <<events, actions>>
    /\ UNCHANGED <<last_id, cut, clock, made, lock>>
----------------------------------------------------------------------------
(* get_recent *)

Newest(k) ==
    {rows \in kSubset(Min({k, Cardinality(events)}), events) :
        \A e \in rows, f \in events \ rows : e.ts >= f.ts}

(* Mutant: the rows are read without the mutex. *)
ReadRows_unlocked(t) ==
    /\ t \in Clients /\ At(t, "idle")
    /\ \E rows \in Newest(Limit) :
        TaskIs(t, [task[t] EXCEPT !.pc = "reading", !.rows = rows, !.view = {}])
    /\ UNCHANGED <<tables, clock, made, lock>>

ReadRows(t) ==
    /\ t \in Clients /\ Holds(t) /\ At(t, "idle")
    /\ \E rows \in Newest(Limit) :
        TaskIs(t, [task[t] EXCEPT !.pc = "reading", !.rows = rows, !.view = {}])
    /\ UNCHANGED <<tables, clock, made, lock>>

(* A query for the actions of each row; then the answer, and the mutex is
   given back. *)
ReadActions(t) ==
    /\ At(t, "reading")
    /\ \/ /\ \E e \in task[t].rows :
              TaskIs(t, [task[t] EXCEPT !.rows = task[t].rows \ {e},
                !.view = task[t].view \cup
                    {[id |-> e.id, n |-> e.n, stored |-> Stored(e.id)]}])
          /\ UNCHANGED lock
       \/ /\ task[t].rows = {}
          /\ TaskIs(t, [task[t] EXCEPT !.pc = "idle"])
          /\ lock' = [lock EXCEPT ![Home[t]] = Free]
    /\ UNCHANGED <<tables, clock, made>>
----------------------------------------------------------------------------
TaskStep(t) ==
    \/ InsertEvent(t) \/ InsertAction(t) \/ CountEvents(t) \/ DeleteOldest(t)
    \/ ReadActions(t) \/ Unlock(t)

Next ==
    \/ Tick
    \/ \E t \in Tasks : Produce(t) \/ Lock(t) \/ ReadRows(t) \/ TaskStep(t)
    \/ \E d \in Daemons : Crash(d)

Spec == Init /\ [][Next]_vars

(* A task that holds the mutex goes on and gives it back; tokio's mutex is
   first come, first served, so whoever waits has it in the end. *)
FairSpec ==
    /\ Spec
    /\ \A t \in Tasks : WF_vars(TaskStep(t))
    /\ \A t \in Watchers : SF_vars(Lock(t))
----------------------------------------------------------------------------
(* Properties *)

TaskType == [pc : {"idle", "actions", "delete", "reading"},
             results : Seq(Result), row : Row \cup {NoRow}, k : Nat,
             excess : Nat, rows : SUBSET Row,
             view : SUBSET [id : Nat, n : Nat, stored : Nat]]

(* The type of every variable. *)
TypeOK ==
    /\ events \subseteq Row
    /\ actions \subseteq [event : Nat \ {0}, k : Nat \ {0}]
    /\ last_id \in Nat
    /\ clock \in 0..MaxTime
    /\ made \in 0..MaxResults
    /\ lock \in [Daemons -> Tasks \cup {Free}]
    /\ task \in [Tasks -> TaskType]
    /\ cut \subseteq Nat \ {0}
    /\ unpurged \subseteq Nat \ {0}

(* Every action belongs to an event that is there, under every interleaving
   of two daemons that log and purge (db.rs:18, REFERENCES events(id)). *)
ActionsHaveEvents == \A a \in actions : \E e \in events : e.id = a.event

(* What is stored of a result is its first actions, in order: all of them
   once log_result is over, unless it was cut short; and an event never gets
   the actions of another one, whoever inserts in between. *)
PrefixOfResult ==
    \A e \in events :
        LET ks == {a.k : a \in {b \in actions : b.event = e.id}}
        IN  /\ ks = 1..Cardinality(ks)
            /\ Cardinality(ks) <= e.n
            /\ \/ Cardinality(ks) = e.n
               \/ e.id \in cut
               \/ \E t \in Tasks : At(t, "actions") /\ task[t].row = e

(* "Stay within the configured limit" (db.rs:74), also when two daemons count
   and delete in turns: the log is over its limit by no more than the results
   being logged and those whose logging never came to the purge.  (One daemon
   may purge the event another is still logging, and so end it early.) *)
Bounded ==
    Cardinality(events) <= max_entries + Cardinality({t \in Tasks : Writing(t)})
                           + Cardinality(unpurged)

(* What a client is shown of a result is what was logged of it: get_recent
   runs several queries, but never sees a result half-way in. *)
ReadsWhole ==
    \A t \in Clients : \A v \in task[t].view : v.stored = v.n \/ v.id \in cut

(* The watcher's results are not forgotten: each is logged, or its insertion
   has failed once. *)
ResultsGetLogged ==
    \A t \in Watchers : task[t].results # <<>> ~> task[t].results = <<>>

(* With one daemon, the log as seen under the mutex is the abstract one: each
   result goes in whole, and out goes what is oldest. *)
Visible == {e \in events : ~\E t \in Tasks : Writing(t) /\ task[t].row = e}
Entry(e) == [no |-> e.no, ts |-> e.ts, n |-> e.n, stored |-> Stored(e.id)]
VisibleLog == {Entry(e) : e \in Visible}
Atomic == INSTANCE AtomicLog WITH
    Entries <- [no : 1..MaxResults, ts : 0..MaxTime, n : 0..MaxActs, stored : 0..MaxActs],
    log <- VisibleLog,
    MayFail <- MayFail \/ MayCrash
IsAtomicLog == Atomic!Spec
=============================================================================
