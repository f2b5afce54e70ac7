----------------------------- MODULE Lifecycle -----------------------------
(***************************************************************************)
(* How daemons come and go: `doumi daemon start` and `stop`, the buttons   *)
(* of the GUI, the boot and the shutdown of doumid, and `doumi config      *)
(* set`.  They meet in three kinds of files and nowhere else:              *)
(*   file       settings.json                                              *)
(*   sock[p]    the socket at path p, by the daemon that bound it          *)
(*   pidfile[p] the pid file beside it, by the pid that is in it           *)
(* A file outlives the process that made it: a socket nobody listens at    *)
(* and the pid of a dead process are states like any other.                *)
(*                                                                         *)
(* A daemon has two threads of control: its main function (pc) and the IPC *)
(* task (ipc), which runs beside it from SpawnTasks on.  A client is a     *)
(* process of the CLI and goes through one command at a time.              *)
(***************************************************************************)
EXTENDS Integers, FiniteSets

CONSTANTS
    Daemons,      \* process ids of doumid, each used at most once
    Clients,      \* processes of the CLI
    Paths,        \* paths a socket may be configured at
    DefaultPath,  \* default_socket()
    NoFile,       \* there is no such file
    Unlucky,      \* the daemons that may not be able to write their pid
    Unreadable,   \* settings.json is missing, empty or half written
    MaxOps        \* bound on the commands given

ASSUME LifecycleAssumption ==
    /\ DefaultPath \in Paths
    /\ NoFile \notin Daemons /\ Unlucky \subseteq Daemons
    /\ MaxOps \in Nat

Keys     == {"socket", "dry_run"}
Settings == [socket : Paths, dry_run : BOOLEAN]
Defaults == [socket |-> DefaultPath, dry_run |-> FALSE]
ASSUME UnreadableAssumption == Unreadable \notin Settings

VARIABLES
    file, sock, pidfile,
    pc,        \* where the main function of a daemon is
    ipc,       \* where its IPC task is
    path,      \* the socket path it read when it booted
    nameless,  \* daemons that could not write their pid
    dry,       \* whether it leaves files alone
    handlers,  \* daemons that have installed their signal handlers
    signalled, \* daemons with a SIGTERM delivered to their handlers
    at,        \* where a client is
    cpath,     \* the socket path it read
    target,    \* the pid it read, or NoFile
    flag,      \* start: --dry-run
    text,      \* config set: the settings it is about to write
    key,       \* config set: the setting it changes
    ops,       \* number of commands given
    \* history, for the properties only
    crowded,   \* daemons that have met another one that may touch files
    swept,     \* daemons that a stop command went over at some time
    said,      \* what the last undisturbed `config set` of each key reported
    doubtful,  \* keys of which a disturbed set may have changed the value
    alone      \* clients that set with nobody else setting meanwhile

files   == <<file, sock, pidfile>>
main    == <<pc, path, nameless, dry, handlers, signalled>>
daemon  == <<main, ipc>>
client  == <<at, cpath, target, flag, text, key>>
sayings == <<said, doubtful, alone>>
history == <<crowded, swept>>
vars    == <<files, daemon, client, ops, sayings, history>>

Alive(d) == pc[d] \notin {"unborn", "dead"}

(* A connection to the socket at p reaches a process that may answer it. *)
Listening(p) == /\ sock[p] # NoFile
                /\ Alive(sock[p])
                /\ ipc[sock[p]] = "bound"

(* ConfigManager::new: whatever cannot be read is replaced by defaults. *)
Read == IF file = Unreadable THEN Defaults ELSE file

Init ==
    /\ file \in {Unreadable, Defaults}
    /\ sock = [p \in Paths |-> NoFile]
    /\ pidfile = [p \in Paths |-> NoFile]
    /\ pc = [d \in Daemons |-> "unborn"]
    /\ ipc = [d \in Daemons |-> "none"]
    /\ path = [d \in Daemons |-> DefaultPath]
    /\ nameless = {}
    /\ dry = [d \in Daemons |-> FALSE]
    /\ handlers = {} /\ signalled = {}
    /\ at = [c \in Clients |-> "idle"]
    /\ cpath = [c \in Clients |-> DefaultPath]
    /\ target = [c \in Clients |-> NoFile]
    /\ flag = [c \in Clients |-> FALSE]
    /\ text = [c \in Clients |-> Defaults]
    /\ key = [c \in Clients |-> "dry_run"]
    /\ ops = 0
    /\ crowded = {} /\ swept = {}
    /\ said = Defaults /\ doubtful = {} /\ alone = {}
----------------------------------------------------------------------------
(* The boot of doumid. *)

(* A new process, with a process id not used before: Command::spawn.  What
   --dry-run said is kept in dry. *)
NextPid == CHOOSE d \in Daemons : pc[d] = "unborn"

Spawn(d, dry_run) ==
    /\ pc[d] = "unborn" /\ d = NextPid
    /\ pc' = [pc EXCEPT ![d] = "boot"]
    /\ dry' = [dry EXCEPT ![d] = dry_run]

(* main: the settings are read once, for the life of the daemon. *)
Boot(d) ==
    /\ pc[d] = "boot"
    /\ path' = [path EXCEPT ![d] = Read.socket]
    /\ dry' = [dry EXCEPT ![d] = @ \/ Read.dry_run]
    /\ pc' = [pc EXCEPT ![d] = "pid"]
    /\ UNCHANGED <<files, ipc, nameless, handlers, signalled, client, ops, sayings>>

(* Mutant: the pid file is always the one beside the default socket. *)
WritePid_default(d) ==
    /\ pc[d] = "pid"
    /\ pidfile' = [pidfile EXCEPT ![DefaultPath] = d]
    /\ pc' = [pc EXCEPT ![d] = "load"]
    /\ UNCHANGED <<file, sock, ipc, path, nameless, dry, handlers, signalled, client, ops, sayings>>

(* That it cannot be written goes unnoticed (main.rs:43): the file is then as
   it was, with another's pid perhaps, or empty, which is no pid to anyone. *)
WritePid(d) ==
    /\ pc[d] = "pid"
    /\ \/ /\ pidfile' = [pidfile EXCEPT ![path[d]] = d]
          /\ UNCHANGED nameless
       \/ /\ d \in Unlucky
          /\ pidfile' \in {pidfile, [pidfile EXCEPT ![path[d]] = NoFile]}
          /\ nameless' = nameless \cup {d}
    /\ pc' = [pc EXCEPT ![d] = "load"]
    /\ UNCHANGED <<file, sock, ipc, path, dry, handlers, signalled, client, ops, sayings>>

(* The rules are loaded and the tasks spawned, the IPC task among them. *)
SpawnTasks(d) ==
    /\ pc[d] = "load"
    /\ pc' = [pc EXCEPT ![d] = "run"]
    /\ ipc' = [ipc EXCEPT ![d] = "spawned"]
    /\ UNCHANGED <<files, path, nameless, dry, handlers, signalled, client, ops, sayings>>

InstallHandlers(d) ==
    /\ pc[d] = "run"
    /\ handlers' = handlers \cup {d}
    /\ UNCHANGED <<files, pc, ipc, path, nameless, dry, signalled, client, ops, sayings>>

(* Mutant: a socket that is there is left to whoever made it. *)
FindSocket_polite(d) ==
    /\ Alive(d) /\ ipc[d] = "spawned"
    /\ ipc' = [ipc EXCEPT ![d] =
                  IF sock[path[d]] = NoFile THEN "cleared" ELSE "failed"]
    /\ UNCHANGED <<files, main, client, ops, sayings>>

(* bind_ipc: is there a file at the path? *)
FindSocket(d) ==
    /\ Alive(d) /\ ipc[d] = "spawned"
    /\ ipc' = [ipc EXCEPT ![d] =
                  IF sock[path[d]] = NoFile THEN "cleared" ELSE "found"]
    /\ UNCHANGED <<files, main, client, ops, sayings>>

(* ... it is removed, whoever listens at it; an error ends the task. *)
RemoveOld(d) ==
    /\ Alive(d) /\ ipc[d] = "found"
    /\ ipc' = [ipc EXCEPT ![d] =
                  IF sock[path[d]] = NoFile THEN "failed" ELSE "cleared"]
    /\ sock' = [sock EXCEPT ![path[d]] = NoFile]
    /\ UNCHANGED <<file, pidfile, main, client, ops, sayings>>

(* ... UnixListener::bind, which refuses a path where there is a file.  A
   task that was aborted meanwhile drops the listener and leaves the file. *)
Bind(d) ==
    /\ Alive(d) /\ ipc[d] = "cleared"
    /\ \/ /\ sock[path[d]] = NoFile
          /\ sock' = [sock EXCEPT ![path[d]] = d]
          /\ ipc' = [ipc EXCEPT ![d] = IF pc[d] = "run" THEN "bound" ELSE "closed"]
       \/ /\ sock[path[d]] # NoFile
          /\ ipc' = [ipc EXCEPT ![d] = "failed"]
          /\ UNCHANGED sock
    /\ UNCHANGED <<file, pidfile, main, client, ops, sayings>>
----------------------------------------------------------------------------
(* Its end. *)

(* A process ends: what it knew goes with it, what it wrote stays. *)
End(D) ==
    /\ pc' = [d \in Daemons |-> IF d \in D THEN "dead" ELSE pc[d]]
    /\ ipc' = [d \in Daemons |-> IF d \in D THEN "none" ELSE ipc[d]]
    /\ path' = [d \in Daemons |-> IF d \in D THEN DefaultPath ELSE path[d]]
    /\ dry' = [d \in Daemons |-> dry[d] /\ d \notin D]
    /\ nameless' = nameless \ D
    /\ handlers' = handlers \ D

(* Mutant: every signal is left to handlers, installed or not. *)
Signal_early(D) == End({}) /\ signalled' = signalled \cup D

(* Mutant: a signal before the handlers are installed is lost. *)
Signal_lost(D) == End({}) /\ signalled' = signalled \cup (D \cap handlers)

(* SIGTERM kills a process that has not installed its handlers yet. *)
Signal(D) ==
    /\ End({d \in D : Alive(d) /\ d \notin handlers})
    /\ signalled' = signalled \cup (D \cap handlers)

(* The tasks are aborted: the IPC task where it waits, or before it began. *)
Abort(d) ==
    /\ pc[d] = "run" /\ d \in signalled
    /\ pc' = [pc EXCEPT ![d] = "unlink"]
    /\ \/ ipc[d] \in {"bound", "spawned"} /\ ipc' = [ipc EXCEPT ![d] = "closed"]
       \/ ipc[d] # "bound" /\ UNCHANGED ipc
    /\ UNCHANGED <<files, path, nameless, dry, handlers, signalled, client, ops, sayings>>

UnlinkSocket(d) ==
    /\ pc[d] = "unlink"
    /\ sock' = [sock EXCEPT ![path[d]] = NoFile]
    /\ pc' = [pc EXCEPT ![d] = "unlink_pid"]
    /\ UNCHANGED <<file, pidfile, ipc, path, nameless, dry, handlers, signalled, client, ops, sayings>>

UnlinkPid(d) ==
    /\ pc[d] = "unlink_pid"
    /\ pidfile' = [pidfile EXCEPT ![path[d]] = NoFile]
    /\ pc' = [pc EXCEPT ![d] = "drain"]
    /\ UNCHANGED <<file, sock, ipc, path, nameless, dry, handlers, signalled, client, ops, sayings>>

(* The runtime waits for what its threads are in the middle of: the IPC task
   on its way to bind, a scan that goes on through all of its files. *)
Working(d) == ipc[d] \in {"spawned", "found", "cleared"}

Exit(d) ==
    /\ pc[d] = "drain" /\ ~Working(d)
    /\ End({d}) /\ signalled' = signalled \ {d}
    /\ UNCHANGED <<files, client, ops, sayings>>

(* kill -9, a panic, no more memory, no more power: the files stay. *)
Crash(d) ==
    /\ Alive(d)
    /\ End({d}) /\ signalled' = signalled \ {d}
    /\ UNCHANGED <<files, client, ops, sayings>>
----------------------------------------------------------------------------
(* The commands. *)

Command(c) == at[c] = "idle" /\ ops < MaxOps /\ ops' = ops + 1

(* The process of a command ends, with all it has read. *)
Done(c) ==
    /\ at' = [at EXCEPT ![c] = "idle"]
    /\ cpath' = [cpath EXCEPT ![c] = DefaultPath]
    /\ target' = [target EXCEPT ![c] = NoFile]
    /\ flag' = [flag EXCEPT ![c] = FALSE]
    /\ text' = [text EXCEPT ![c] = Defaults]
    /\ key' = [key EXCEPT ![c] = "dry_run"]

(* daemon start: the settings tell which socket to ask ... *)
BeginStart(c, dry_run) ==
    /\ Command(c)
    /\ at' = [at EXCEPT ![c] = "ping"]
    /\ cpath' = [cpath EXCEPT ![c] = Read.socket]
    /\ flag' = [flag EXCEPT ![c] = dry_run]
    /\ UNCHANGED <<files, daemon, target, text, key, sayings>>

(* ... a daemon that answers is enough; one that listens may be too busy to
   answer within five seconds ... *)
Ping(c) ==
    /\ at[c] = "ping"
    /\ \/ Listening(cpath[c]) /\ Done(c)
       \/ /\ at' = [at EXCEPT ![c] = "spawn"]
          /\ UNCHANGED <<cpath, target, flag, text, key>>
    /\ UNCHANGED <<files, daemon, ops, sayings>>

(* ... else there will be another. *)
SpawnDaemon(c) ==
    /\ at[c] = "spawn" /\ Done(c)
    /\ \E d \in Daemons : Spawn(d, flag[c])
    /\ UNCHANGED <<files, ipc, path, nameless, handlers, signalled, ops, sayings>>

(* "Start daemon" of the GUI, and the restart of a failed service. *)
StartUnasked ==
    /\ ops < MaxOps /\ ops' = ops + 1
    /\ \E d \in Daemons : Spawn(d, FALSE)
    /\ UNCHANGED <<files, ipc, path, nameless, handlers, signalled, client, sayings>>

(* "Stop daemon" of the GUI: pkill -f doumid. *)
StopAll ==
    /\ ops < MaxOps /\ ops' = ops + 1
    /\ Signal(Daemons)
    /\ UNCHANGED <<files, client, sayings>>

(* daemon stop: the pid file beside the socket of the settings ... *)
BeginStop(c) ==
    /\ Command(c)
    /\ at' = [at EXCEPT ![c] = "read_pid"]
    /\ cpath' = [cpath EXCEPT ![c] = Read.socket]
    /\ UNCHANGED <<files, daemon, target, flag, text, key, sayings>>

ReadPid(c) ==
    /\ at[c] = "read_pid"
    /\ target' = [target EXCEPT ![c] = pidfile[cpath[c]]]
    /\ at' = [at EXCEPT ![c] = "kill"]
    /\ UNCHANGED <<files, daemon, cpath, flag, text, key, ops, sayings>>

(* ... names the process to signal; without one, all are. *)
Kill(c) ==
    /\ at[c] = "kill"
    /\ Signal(IF target[c] = NoFile THEN Daemons ELSE {target[c]})
    /\ at' = [at EXCEPT ![c] = "unlink"]
    /\ UNCHANGED <<files, cpath, target, flag, text, key, ops, sayings>>

RemovePid(c) ==
    /\ at[c] = "unlink" /\ Done(c)
    /\ pidfile' = [pidfile EXCEPT ![cpath[c]] = NoFile]
    /\ UNCHANGED <<file, sock, daemon, ops, sayings>>

(* config set: all settings are read, one is changed ... *)
Setting(c) == at[c] \in {"open", "write"}

(* Mutant: the other settings are taken from the defaults. *)
BeginSet_fresh(c, k, v) ==
    /\ Command(c)
    /\ at' = [at EXCEPT ![c] = "open"]
    /\ key' = [key EXCEPT ![c] = k]
    /\ text' = [text EXCEPT ![c] = [Defaults EXCEPT ![k] = v]]
    /\ alone' = IF \E e \in Clients : Setting(e) THEN {} ELSE {c}
    /\ UNCHANGED <<files, daemon, cpath, target, flag, said, doubtful>>

BeginSet(c, k, v) ==
    /\ Command(c)
    /\ at' = [at EXCEPT ![c] = "open"]
    /\ key' = [key EXCEPT ![c] = k]
    /\ text' = [text EXCEPT ![c] = [Read EXCEPT ![k] = v]]
    /\ alone' = IF \E e \in Clients : Setting(e) THEN {} ELSE {c}
    /\ UNCHANGED <<files, daemon, cpath, target, flag, said, doubtful>>

(* ... and all are written, by fs::write, which first empties the file. *)
Truncate(c) ==
    /\ at[c] = "open"
    /\ file' = Unreadable
    /\ at' = [at EXCEPT ![c] = "write"]
    /\ UNCHANGED <<sock, pidfile, daemon, cpath, target, flag, text, key, ops, sayings>>

(* Two texts written over each other may be no settings at all. *)
Write(c) ==
    /\ at[c] = "write" /\ Done(c) /\ alone' = alone \ {c}
    /\ file' \in {text[c]} \cup (IF file = Unreadable THEN {} ELSE {Unreadable})
    /\ IF c \in alone
       THEN /\ said' = [said EXCEPT ![key[c]] = text[c][key[c]]]
            /\ doubtful' = doubtful \ {key[c]}
       ELSE doubtful' = Keys /\ UNCHANGED said
    /\ UNCHANGED <<sock, pidfile, daemon, ops>>

(* The command is killed or the disk is full. *)
BreakOff(c) ==
    /\ Setting(c) /\ Done(c) /\ alone' = alone \ {c}
    /\ doubtful' = IF at[c] = "write" THEN Keys ELSE doubtful
    /\ UNCHANGED <<files, daemon, ops, said>>
----------------------------------------------------------------------------
DaemonStep(d) ==
    \/ Boot(d) \/ WritePid(d) \/ SpawnTasks(d) \/ InstallHandlers(d)
    \/ FindSocket(d) \/ RemoveOld(d) \/ Bind(d)
    \/ Abort(d) \/ UnlinkSocket(d) \/ UnlinkPid(d) \/ Exit(d)

ClientStep(c) ==
    \/ Ping(c) \/ SpawnDaemon(c) \/ ReadPid(c) \/ Kill(c) \/ RemovePid(c)
    \/ Truncate(c) \/ Write(c)

User ==
    \/ StartUnasked \/ StopAll
    \/ \E d \in Daemons : Crash(d)
    \/ \E c \in Clients :
          \/ \E b \in BOOLEAN : BeginStart(c, b)
          \/ BeginStop(c) \/ BreakOff(c)
          \/ \E p \in Paths : BeginSet(c, "socket", p)
          \/ \E b \in BOOLEAN : BeginSet(c, "dry_run", b)

(* The daemons that may still change a file the others use. *)
Meddling == {d \in Daemons : Alive(d) /\ (pc[d] = "drain" => Working(d))}

(* Who has met whom, kept along with every step. *)
Sweeping(c) == at[c] \in {"kill", "unlink"}
Remember ==
    /\ crowded' = {d \in Meddling' : d \in crowded \/ Meddling' # {d}}
    /\ swept' = {d \in Meddling' : d \in swept \/ \E c \in Clients : Sweeping(c)'}

Next ==
    /\ \/ \E d \in Daemons : DaemonStep(d)
       \/ \E c \in Clients : ClientStep(c)
       \/ User
    /\ Remember

Spec == Init /\ [][Next]_vars

(* Processes go on until they end; nothing is assumed of users. *)
Fairness == /\ \A d \in Daemons : WF_vars(DaemonStep(d) /\ Remember)
            /\ \A c \in Clients : WF_vars(ClientStep(c) /\ Remember)
FairSpec == Spec /\ Fairness
----------------------------------------------------------------------------
TypeOK ==
    /\ file \in Settings \cup {Unreadable}
    /\ sock \in [Paths -> Daemons \cup {NoFile}]
    /\ pidfile \in [Paths -> Daemons \cup {NoFile}]
    /\ pc \in [Daemons -> {"unborn", "boot", "pid", "load", "run", "unlink",
                            "unlink_pid", "drain", "dead"}]
    /\ ipc \in [Daemons -> {"none", "spawned", "found", "cleared", "bound",
                             "failed", "closed"}]
    /\ path \in [Daemons -> Paths]
    /\ dry \in [Daemons -> BOOLEAN]
    /\ nameless \subseteq Daemons
    /\ signalled \subseteq handlers /\ handlers \subseteq Daemons
    /\ at \in [Clients -> {"idle", "ping", "spawn", "read_pid", "kill", "unlink",
                            "open", "write"}]
    /\ cpath \in [Clients -> Paths]
    /\ target \in [Clients -> Daemons \cup {NoFile}]
    /\ flag \in [Clients -> BOOLEAN]
    /\ text \in [Clients -> Settings]
    /\ key \in [Clients -> Keys]
    /\ ops \in Nat
    /\ crowded \subseteq Daemons /\ swept \subseteq Daemons
    /\ said \in Settings /\ doubtful \subseteq Keys /\ alone \subseteq Clients

Undisturbed(d) == d \notin crowded \cup swept

(* A daemon that listens and has been alone with its files ever since it was
   spawned is found by everybody who looks at its path: the socket there is
   its own and, unless it could not be written, the pid file has its pid,
   whatever daemons before it left behind, however they ended and wherever
   the settings have moved. *)
SettledIsReachable ==
    \A d \in Daemons :
        /\ pc[d] = "run" /\ ipc[d] = "bound" /\ Undisturbed(d)
        => /\ sock[path[d]] = d
           /\ d \notin nameless => pidfile[path[d]] = d

(* What `config set dry_run` has reported is what the next daemon works by:
   a daemon that boots when nobody is setting anything leaves files alone
   exactly when that was said last (or --dry-run was given), unless a set
   that overlapped with another or broke off has left dry_run in doubt. *)
DryRunIsHeeded ==
    [][\A d \in Daemons :
          /\ pc[d] = "boot" /\ pc'[d] = "pid"
          /\ \A c \in Clients : ~Setting(c)
          /\ "dry_run" \notin doubtful
          => dry'[d] = (dry[d] \/ said.dry_run)]_vars

(* `doumi daemon stop` ends the daemon it finds: one that listens at the
   path of the settings, and was undisturbed until the command began, is
   gone in the end, whether it has its handlers yet or not, unless another
   daemon has come up and put its own pid in the file.  One that could not
   write its pid is ended too, as long as no other pid was left in its file. *)
StopStops ==
    \A d \in Daemons, c \in Clients :
        (/\ at[c] = "read_pid" /\ cpath[c] = path[d]
         /\ pc[d] = "run" /\ ipc[d] = "bound" /\ Undisturbed(d)
         /\ d \in nameless => pidfile[path[d]] = NoFile)
        ~> ~Alive(d) \/ d \in crowded

(* The socket and the pid file of a crashed daemon do not keep a new one
   from coming up: it listens in the end, unless it is stopped, crashes or
   meets another daemon. *)
StaleFilesDoNotBlock ==
    \A d \in Daemons :
        pc[d] = "boot" ~> \/ ipc[d] = "bound" /\ sock[path[d]] = d
                          \/ ~Alive(d) \/ d \in signalled \/ d \in crowded
=============================================================================
