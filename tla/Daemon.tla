------------------------------- MODULE Daemon -------------------------------
(***************************************************************************)
(* The tasks of doumid and the locks they share (crates/doumi-daemon/src:  *)
(* main.rs, watcher.rs, scheduler.rs, ipc.rs, state.rs).                   *)
(*                                                                         *)
(* The engine is behind a tokio RwLock and the database behind a tokio     *)
(* Mutex.  Both serve in the order of the requests, so each is a queue:    *)
(* the mutex belongs to its head, the RwLock to the readers at its front,  *)
(* or to a writer at its front.  A reader behind a waiting writer waits.   *)
(* (watch_count has a lock too, never held across an await: a variable.)   *)
(*                                                                         *)
(* Between two awaits a task keeps the worker thread it runs on; the scans *)
(* and the processing of an event are long and synchronous, so they occupy *)
(* one of the runtime's threads all the while.                             *)
(*                                                                         *)
(* The rules are abstract: on disk and in the engine they have a version,  *)
(* which tells the folders they are about.                                 *)
(***************************************************************************)
EXTENDS Integers, Sequences, SequencesExt, FiniteSets

CONSTANTS
    Watcher,     \* the task of watcher.rs
    Scans,       \* tasks that scan: at start-up, scheduled jobs, `run_rule`
    Statuses,    \* connections that ask for `status`
    Loggers,     \* connections that ask for `logs`
    Reloaders,   \* connections that ask for `reload`
    Threads,     \* how many worker threads the runtime has
    Capacity,    \* the channel between notify and the watcher (512)
    Folders,     \* directories
    FoldersOf,   \* [versions -> the folders of the enabled rules]
    MaxVersion,  \* bound: the last version of the rules on disk
    MaxWaiting   \* bound: events the kernel holds back

Versions == 1..MaxVersion
Tasks    == {Watcher} \cup Scans \cup Statuses \cup Loggers \cup Reloaders

ASSUME DaemonAssumption ==
    /\ Threads \in Nat \ {0} /\ Capacity \in Nat \ {0}
    /\ MaxVersion \in Nat \ {0} /\ MaxWaiting \in Nat
    /\ Folders # {} /\ FoldersOf \in [Versions -> SUBSET Folders]

ASSUME TasksAssumption ==
    /\ Watcher \notin Scans \cup Statuses \cup Loggers \cup Reloaders
    /\ Scans \cap (Statuses \cup Loggers \cup Reloaders) = {}
    /\ Statuses \cap (Loggers \cup Reloaders) = {}
    /\ Loggers \cap Reloaders = {}

VARIABLES
    disk,     \* the version of the rules on disk
    rules,    \* the version in the engine
    engineQ,  \* the engine lock: who holds it and who waits, with the mode
    dbQ,      \* the database mutex: its holder and those who wait
    watches,  \* the directories registered with notify
    kernel,   \* events notify has not got through to the channel
    channel,  \* the watcher's channel
    pc,       \* where each task is
    snap,     \* the version each reload has read from disk
    event,    \* the event the watcher is at
    reloaded, \* history: the newest version loaded, at the start or by a reload
    settled   \* history: the newest version whose reload was answered when no
              \* other was under way that had read older rules
vars == <<disk, rules, engineQ, dbQ, watches, kernel, channel, pc, snap, event,
          reloaded, settled>>
locks == <<engineQ, dbQ>>
events == <<kernel, channel, event>>
history == <<reloaded, settled>>

(* An event in a folder; `settled` is history: the version that was settled by
   the time the file arrived. *)
Event == [folder : Folders, settled : Versions]
AnyEvent == CHOOSE e \in Event : TRUE
Request == [task : Tasks, mode : {"read", "write"}]

Init ==
    /\ disk = 1 /\ rules = 1 /\ reloaded = 1 /\ settled = 1
    /\ engineQ = <<>> /\ dbQ = <<>>
    /\ watches = {} /\ kernel = <<>> /\ channel = <<>>
    /\ pc = [t \in Tasks |-> IF t = Watcher THEN "start" ELSE "idle"]
    /\ snap = [t \in Reloaders |-> 1]
    /\ event = AnyEvent

Goes(t, from, to) == pc[t] = from /\ pc' = [pc EXCEPT ![t] = to]

(* The tasks in synchronous work, each on a thread of its own; any other
   step needs a thread that is free. *)
Working == {t \in Tasks : pc[t] \in {"processing", "scanning"}}
FreeThread == Cardinality(Working) < Threads
----------------------------------------------------------------------------
(* The locks *)

AskEngine(t, mode) == engineQ' = Append(engineQ, [task |-> t, mode |-> mode])
AskDb(t) == dbQ' = Append(dbQ, t)

HasEngine(t) ==
    \E i \in DOMAIN engineQ :
        /\ engineQ[i].task = t
        /\ \/ i = 1
           \/ \A j \in 1..i : engineQ[j].mode = "read"
HasDb(t) == dbQ # <<>> /\ Head(dbQ) = t

(* A guard is dropped. *)
DropEngine(t) ==
    engineQ' = RemoveAt(engineQ, CHOOSE i \in DOMAIN engineQ : engineQ[i].task = t)
DropDb == dbQ' = Tail(dbQ)
----------------------------------------------------------------------------
(* Outside the daemon: rules are edited, files arrive, and notify's thread
   sends events on, waiting while the channel is full (blocking_send). *)

Edit ==
    /\ disk < MaxVersion
    /\ disk' = disk + 1
    /\ UNCHANGED <<rules, locks, watches, events, pc, snap, history>>

Arrive ==
    /\ Len(kernel) < MaxWaiting
    /\ \E f \in watches :
        kernel' = Append(kernel, [folder |-> f, settled |-> settled])
    /\ UNCHANGED <<disk, rules, locks, watches, channel, event, pc, snap, history>>

Send ==
    /\ kernel # <<>> /\ Len(channel) < Capacity
    /\ channel' = Append(channel, Head(kernel))
    /\ kernel' = Tail(kernel)
    /\ UNCHANGED <<disk, rules, locks, watches, event, pc, snap, history>>
----------------------------------------------------------------------------
(* The watcher *)

(* run_watcher: the directories of the rules as they are on disk now, once
   and for all. *)
WatchRules ==
    /\ FreeThread
    /\ Goes(Watcher, "start", "wait")
    /\ watches' = FoldersOf[disk]
    /\ UNCHANGED <<disk, rules, locks, events, snap, history>>

TakeEvent ==
    /\ FreeThread
    /\ channel # <<>>
    /\ Goes(Watcher, "wait", "engine")
    /\ event' = Head(channel)
    /\ channel' = Tail(channel)
    /\ AskEngine(Watcher, "read")
    /\ UNCHANGED <<disk, rules, dbQ, watches, kernel, snap, history>>

(* No rule has the trigger, or the file is gone already. *)
IgnoreEvent ==
    /\ FreeThread /\ HasEngine(Watcher)
    /\ Goes(Watcher, "engine", "wait")
    /\ DropEngine(Watcher)
    /\ event' = AnyEvent
    /\ UNCHANGED <<disk, rules, dbQ, watches, kernel, channel, snap, history>>

ProcessEvent ==
    /\ FreeThread /\ HasEngine(Watcher)
    /\ Goes(Watcher, "engine", "processing")
    /\ UNCHANGED <<disk, rules, locks, watches, events, snap, history>>

(* The engine is dropped before the mutex is asked for. *)
EndProcess ==
    /\ Goes(Watcher, "processing", "db")
    /\ DropEngine(Watcher)
    /\ AskDb(Watcher)
    /\ event' = AnyEvent
    /\ UNCHANGED <<disk, rules, watches, kernel, channel, snap, history>>

LogResults ==
    /\ FreeThread /\ HasDb(Watcher)
    /\ Goes(Watcher, "db", "wait")
    /\ DropDb
    /\ UNCHANGED <<disk, rules, engineQ, watches, events, snap, history>>
----------------------------------------------------------------------------
(* A scan (startup_scan, run_scheduled_scan, run_rule) and `status` take both
   locks, one after the other, and keep them to their end.  (A scan reads the
   rules from disk before, for the folders to go through; a rule that is not
   there ends the task at once.) *)

(* Mutant: `status` takes its locks in the other order. *)
Locks_swapped(t) ==
    IF t \in Statuses THEN <<"db", "engine">> ELSE <<"engine", "db">>

Locks(t) == <<"engine", "db">>

Ask(t, lock) ==
    \/ lock = "engine" /\ AskEngine(t, "read") /\ UNCHANGED dbQ
    \/ lock = "db" /\ AskDb(t) /\ UNCHANGED engineQ

Has(t, lock) == IF lock = "engine" THEN HasEngine(t) ELSE HasDb(t)

AskFirst(t) ==
    /\ FreeThread /\ t \in Scans \cup Statuses
    /\ Goes(t, "idle", Locks(t)[1])
    /\ Ask(t, Locks(t)[1])
    /\ UNCHANGED <<disk, rules, watches, events, snap, history>>

AskSecond(t) ==
    /\ FreeThread /\ t \in Scans \cup Statuses
    /\ Has(t, Locks(t)[1])
    /\ Goes(t, Locks(t)[1], Locks(t)[2])
    /\ Ask(t, Locks(t)[2])
    /\ UNCHANGED <<disk, rules, watches, events, snap, history>>

(* Mutant: the scan does not wait for the second lock. *)
ScanFolders_early(t) ==
    /\ FreeThread /\ t \in Scans
    /\ Goes(t, Locks(t)[2], "scanning")
    /\ UNCHANGED <<disk, rules, locks, watches, events, snap, history>>

ScanFolders(t) ==
    /\ FreeThread /\ t \in Scans
    /\ Has(t, Locks(t)[2])
    /\ Goes(t, Locks(t)[2], "scanning")
    /\ UNCHANGED <<disk, rules, locks, watches, events, snap, history>>

EndScan(t) ==
    /\ t \in Scans
    /\ Goes(t, "scanning", "idle")
    /\ DropDb /\ DropEngine(t)
    /\ UNCHANGED <<disk, rules, watches, events, snap, history>>

AnswerStatus(t) ==
    /\ FreeThread /\ t \in Statuses
    /\ Has(t, Locks(t)[2])
    /\ Goes(t, Locks(t)[2], "idle")
    /\ DropDb /\ DropEngine(t)
    /\ UNCHANGED <<disk, rules, watches, events, snap, history>>
----------------------------------------------------------------------------
(* The other requests *)

AskLogs(t) ==
    /\ FreeThread /\ t \in Loggers
    /\ Goes(t, "idle", "db")
    /\ AskDb(t)
    /\ UNCHANGED <<disk, rules, engineQ, watches, events, snap, history>>

AnswerLogs(t) ==
    /\ FreeThread /\ t \in Loggers /\ HasDb(t)
    /\ Goes(t, "db", "idle")
    /\ DropDb
    /\ UNCHANGED <<disk, rules, engineQ, watches, events, snap, history>>

(* Mutant: the rules as they were before the last edit. *)
ReadRules_cached(t) ==
    /\ FreeThread /\ t \in Reloaders
    /\ Goes(t, "idle", "read")
    /\ snap' = [snap EXCEPT ![t] = disk - 1]
    /\ UNCHANGED <<disk, rules, locks, watches, events, history>>

(* `reload`: the rules are read from disk, then the engine is asked for. *)
ReadRules(t) ==
    /\ FreeThread /\ t \in Reloaders
    /\ Goes(t, "idle", "read")
    /\ snap' = [snap EXCEPT ![t] = disk]
    /\ UNCHANGED <<disk, rules, locks, watches, events, history>>

AskReload(t) ==
    /\ FreeThread /\ t \in Reloaders
    /\ Goes(t, "read", "engine")
    /\ AskEngine(t, "write")
    /\ UNCHANGED <<disk, rules, dbQ, watches, events, snap, history>>

UnderWay(t) == pc[t] \in {"read", "engine"}

(* What the histories make of the answer to a reload. *)
Answered(t) ==
    /\ reloaded' = IF snap[t] > reloaded THEN snap[t] ELSE reloaded
    /\ settled' =
        IF /\ snap[t] > settled
           /\ \A s \in Reloaders \ {t} : UnderWay(s) => snap[s] >= snap[t]
        THEN snap[t] ELSE settled

(* Mutant: the new rules go in whoever holds the engine. *)
Reload_unlocked(t) ==
    /\ FreeThread /\ t \in Reloaders
    /\ Goes(t, "engine", "idle")
    /\ DropEngine(t)
    /\ rules' = snap[t]
    /\ Answered(t)
    /\ UNCHANGED <<disk, dbQ, watches, events, snap>>

(* Mutant: an engine in use is left as it is. *)
Reload_gives_up(t) ==
    /\ FreeThread /\ t \in Reloaders
    /\ Goes(t, "engine", "idle")
    /\ DropEngine(t)
    /\ rules' = IF HasEngine(t) THEN snap[t] ELSE rules
    /\ Answered(t)
    /\ UNCHANGED <<disk, dbQ, watches, events, snap>>

(* `reload`: the rules read before the wait replace those in the engine. *)
Reload(t) ==
    /\ FreeThread /\ t \in Reloaders /\ HasEngine(t)
    /\ Goes(t, "engine", "idle")
    /\ DropEngine(t)
    /\ rules' = snap[t]
    /\ Answered(t)
    /\ UNCHANGED <<disk, dbQ, watches, events, snap>>
----------------------------------------------------------------------------
WatcherStep ==
    WatchRules \/ TakeEvent \/ IgnoreEvent \/ ProcessEvent \/ EndProcess \/ LogResults

TaskStep(t) ==
    \/ AskFirst(t) \/ AskSecond(t) \/ ScanFolders(t) \/ EndScan(t) \/ AnswerStatus(t)
    \/ AskLogs(t) \/ AnswerLogs(t)
    \/ ReadRules(t) \/ AskReload(t) \/ Reload(t)

Next == Edit \/ Arrive \/ Send \/ WatcherStep \/ \E t \in Tasks : TaskStep(t)

Spec == Init /\ [][Next]_vars
----------------------------------------------------------------------------
(* Properties *)

(* The type of every variable. *)
TypeOK ==
    /\ disk \in Versions /\ rules \in Versions
    /\ reloaded \in Versions /\ settled \in Versions
    /\ engineQ \in Seq(Request) /\ dbQ \in Seq(Tasks)
    /\ watches \subseteq Folders
    /\ kernel \in Seq(Event) /\ channel \in Seq(Event) /\ event \in Event
    /\ pc \in [Tasks -> {"start", "wait", "idle", "read", "engine",
                         "processing", "db", "scanning"}]
    /\ snap \in [Reloaders -> Versions]

(* At most one scan is at work, whether at start-up, scheduled or asked for:
   the files one scan has listed are not taken away by another. *)
OneScan == \A s, t \in Tasks : pc[s] = "scanning" /\ pc[t] = "scanning" => s = t

(* The engine's rules never change under a worker that is going through them
   (process_file iterates over engine.rules). *)
RulesStable ==
    [][rules' # rules => Working = {}]_vars

(* Of two reloads that overlap, the one that read its rules first may be the
   last to get the engine, and puts the older rules back.  But nothing else
   does: a file that arrives after a reload was answered, when no other reload
   was under way that had read older rules, is processed by rules at least as
   new, whatever is reloaded from then on. *)
SettledRulesForNewFiles ==
    pc[Watcher] = "processing" => rules >= event.settled

(* A task that has asked for a lock and not got it yet. *)
Waiting(t) == \/ pc[t] = "engine" /\ ~HasEngine(t)
              \/ pc[t] = "db" /\ ~HasDb(t)

(* However scans, events, `status`, `logs` and `reload` queue up for the two
   locks, they never all wait: as long as somebody waits, somebody else is
   past its waiting and will give a lock back.  (With queues first come, first
   served and a writer among the readers, this is a matter of the order in
   which everyone takes the locks.) *)
NoDeadlock ==
    (\E t \in Tasks : Waiting(t)) =>
        \E t \in Tasks : /\ pc[t] \in {"engine", "db", "processing", "scanning"}
                         /\ ~Waiting(t)

(* "Tip: run 'doumi daemon reload' to apply changes" (doumi-cli main.rs:517):
   once a reload of the rules on disk has been answered they are in force, and
   files that arrive in their folders are noticed.  Neither is so for good: a
   reload that was under way puts older rules back, and no reload registers a
   folder that an edit has added. *)
ReloadApplies ==
    pc[Watcher] # "start" /\ disk = reloaded =>
        rules = reloaded /\ FoldersOf[reloaded] \subseteq watches
=============================================================================
