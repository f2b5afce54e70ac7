-------------------------- MODULE LifecycleProofs --------------------------
(***************************************************************************)
(* Theorems about Lifecycle, for any daemons, clients and paths.  A daemon *)
(* that has been alone with its files since it was spawned is the only one *)
(* that could have changed them, which is what its being found rests on;   *)
(* and while nobody is in the middle of a write, the settings say what was *)
(* reported of them, except where they are in doubt.                       *)
(***************************************************************************)
EXTENDS Lifecycle, TLAPS

(* Settings stay settings when one of them is changed. *)
LEMMA SettingChanged ==
    ASSUME NEW r \in Settings
    PROVE  /\ \A p \in Paths : [r EXCEPT !["socket"] = p] \in Settings
           /\ \A b \in BOOLEAN : [r EXCEPT !["dry_run"] = b] \in Settings
           /\ \A s \in Settings, k \in Keys : [r EXCEPT ![k] = s[k]] \in Settings
           /\ r.socket \in Paths /\ r.dry_run \in BOOLEAN
<1>1. \A p \in Paths : [r EXCEPT !["socket"] = p] \in Settings
  BY DEF Settings
<1>2. \A b \in BOOLEAN : [r EXCEPT !["dry_run"] = b] \in Settings
  BY DEF Settings
<1>3. \A s \in Settings, k \in Keys : [r EXCEPT ![k] = s[k]] \in Settings
  BY DEF Settings, Keys
<1>4. r.socket \in Paths /\ r.dry_run \in BOOLEAN
  BY DEF Settings
<1> QED BY <1>1, <1>2, <1>3, <1>4

LEMMA ReadTyped ==
    ASSUME TypeOK
    PROVE  Defaults \in Settings /\ Read \in Settings
  BY LifecycleAssumption DEF TypeOK, Read, Defaults, Settings
----------------------------------------------------------------------------
(* What each command and each process may do to the types. *)

(* The history is made of daemons. *)
LEMMA RememberTyped ==
    ASSUME Remember
    PROVE  crowded' \subseteq Daemons /\ swept' \subseteq Daemons
  BY DEF Remember, Meddling

LEMMA DoneTyped ==
    ASSUME TypeOK, NEW c \in Clients, Done(c)
    PROVE  /\ at' \in [Clients -> {"idle", "ping", "spawn", "read_pid", "kill", "unlink",
                                   "open", "write"}]
           /\ cpath' \in [Clients -> Paths]
           /\ target' \in [Clients -> Daemons \cup {NoFile}]
           /\ flag' \in [Clients -> BOOLEAN]
           /\ text' \in [Clients -> Settings]
           /\ key' \in [Clients -> Keys]
  BY ReadTyped, LifecycleAssumption DEF TypeOK, Done, Keys

LEMMA DaemonStepTyped ==
    ASSUME TypeOK, NEW d \in Daemons, DaemonStep(d), Remember
    PROVE  TypeOK'
<1> USE RememberTyped
<1>1. CASE Boot(d)
  <2>1. Read.socket \in Paths /\ Read.dry_run \in BOOLEAN
    BY ReadTyped, SettingChanged
  <2> QED BY <1>1, <2>1
          DEF TypeOK, Boot, files, client, sayings
<1>2. CASE WritePid(d)
  BY <1>2 DEF TypeOK, WritePid, client, sayings
<1>3. CASE SpawnTasks(d)
  BY <1>3 DEF TypeOK, SpawnTasks, files, client, sayings
<1>4. CASE InstallHandlers(d)
  BY <1>4 DEF TypeOK, InstallHandlers, files, client, sayings
<1>5. CASE FindSocket(d)
  BY <1>5 DEF TypeOK, FindSocket, files, main, client, sayings
<1>6. CASE RemoveOld(d)
  BY <1>6 DEF TypeOK, RemoveOld, main, client, sayings
<1>7. CASE Bind(d)
  BY <1>7 DEF TypeOK, Bind, main, client, sayings
<1>8. CASE Abort(d)
  BY <1>8 DEF TypeOK, Abort, files, client, sayings
<1>9. CASE UnlinkSocket(d)
  BY <1>9 DEF TypeOK, UnlinkSocket, client, sayings
<1>10. CASE UnlinkPid(d)
  BY <1>10 DEF TypeOK, UnlinkPid, client, sayings
<1>11. CASE Exit(d)
  BY <1>11, LifecycleAssumption DEF TypeOK, Exit, End, files, client, sayings
<1> QED BY <1>1, <1>2, <1>3, <1>4, <1>5, <1>6, <1>7, <1>8, <1>9, <1>10, <1>11
        DEF DaemonStep

(* A signal and a kill leave the daemons well typed. *)
LEMMA SignalTyped ==
    ASSUME TypeOK, NEW D \in SUBSET Daemons, Signal(D)
    PROVE  /\ pc' \in [Daemons -> {"unborn", "boot", "pid", "load", "run", "unlink",
                                   "unlink_pid", "drain", "dead"}]
           /\ ipc' \in [Daemons -> {"none", "spawned", "found", "cleared", "bound",
                                    "failed", "closed"}]
           /\ path' \in [Daemons -> Paths]
           /\ dry' \in [Daemons -> BOOLEAN]
           /\ nameless' \subseteq Daemons
           /\ signalled' \subseteq handlers' /\ handlers' \subseteq Daemons
  BY LifecycleAssumption DEF TypeOK, Signal, End

LEMMA ClientStepTyped ==
    ASSUME TypeOK, NEW c \in Clients, ClientStep(c), Remember
    PROVE  TypeOK'
<1> USE RememberTyped
<1>1. CASE Ping(c)
  BY <1>1, DoneTyped DEF TypeOK, Ping, files, daemon, main, sayings
<1>2. CASE SpawnDaemon(c)
  BY <1>2, DoneTyped DEF TypeOK, SpawnDaemon, Spawn, files, sayings
<1>3. CASE ReadPid(c)
  BY <1>3 DEF TypeOK, ReadPid, files, daemon, main, sayings
<1>4. CASE Kill(c)
  <2>1. (IF target[c] = NoFile THEN Daemons ELSE {target[c]}) \in SUBSET Daemons
    BY DEF TypeOK
  <2> QED BY <1>4, <2>1, SignalTyped DEF TypeOK, Kill, files, sayings
<1>5. CASE RemovePid(c)
  BY <1>5, DoneTyped DEF TypeOK, RemovePid, daemon, main, sayings
<1>6. CASE Truncate(c)
  BY <1>6 DEF TypeOK, Truncate, daemon, main, sayings
<1>7. CASE Write(c)
  <2>1. said' \in Settings
    BY <1>7, SettingChanged DEF TypeOK, Write
  <2> QED BY <1>7, <2>1, DoneTyped DEF TypeOK, Write, daemon, main
<1> QED BY <1>1, <1>2, <1>3, <1>4, <1>5, <1>6, <1>7 DEF ClientStep

LEMMA BeginSetTyped ==
    ASSUME TypeOK, Remember, NEW c \in Clients, NEW k \in Keys, NEW v, BeginSet(c, k, v),
           [Read EXCEPT ![k] = v] \in Settings
    PROVE  TypeOK'
  BY RememberTyped, LifecycleAssumption
  DEF TypeOK, BeginSet, Command, files, daemon, main

LEMMA UserTyped ==
    ASSUME TypeOK, User, Remember
    PROVE  TypeOK'
<1> USE RememberTyped
<1>1. CASE StartUnasked
  BY <1>1 DEF TypeOK, StartUnasked, Spawn, files, client, sayings
<1>2. CASE StopAll
  BY <1>2, SignalTyped DEF TypeOK, StopAll, files, client, sayings
<1>3. ASSUME NEW d \in Daemons, Crash(d) PROVE TypeOK'
  BY <1>3, LifecycleAssumption DEF TypeOK, Crash, End, files, client, sayings
<1>4. ASSUME NEW c \in Clients, NEW b \in BOOLEAN, BeginStart(c, b) PROVE TypeOK'
  <2>1. Read.socket \in Paths
    BY ReadTyped, SettingChanged
  <2> QED BY <1>4, <2>1 DEF TypeOK, BeginStart, Command, files, daemon, main, sayings
<1>5. ASSUME NEW c \in Clients, BeginStop(c) PROVE TypeOK'
  <2>1. Read.socket \in Paths
    BY ReadTyped, SettingChanged
  <2> QED BY <1>5, <2>1 DEF TypeOK, BeginStop, Command, files, daemon, main, sayings
<1>6. ASSUME NEW c \in Clients, BreakOff(c) PROVE TypeOK'
  BY <1>6, DoneTyped DEF TypeOK, BreakOff, files, daemon, main
<1>7. ASSUME NEW c \in Clients, NEW p \in Paths, BeginSet(c, "socket", p) PROVE TypeOK'
  BY <1>7, BeginSetTyped, ReadTyped, SettingChanged DEF Keys
<1>8. ASSUME NEW c \in Clients, NEW b \in BOOLEAN, BeginSet(c, "dry_run", b) PROVE TypeOK'
  BY <1>8, BeginSetTyped, ReadTyped, SettingChanged DEF Keys
<1> QED BY <1>1, <1>2, <1>3, <1>4, <1>5, <1>6, <1>7, <1>8 DEF User

LEMMA TypeInit == Init => TypeOK
<1>1. Defaults \in Settings /\ "dry_run" \in Keys
  BY LifecycleAssumption DEF Defaults, Settings, Keys
<1> QED BY <1>1, LifecycleAssumption DEF Init, TypeOK

LEMMA TypeNext == TypeOK /\ [Next]_vars => TypeOK'
<1> SUFFICES ASSUME TypeOK, [Next]_vars PROVE TypeOK'
  OBVIOUS
<1>1. CASE Next
  BY <1>1, DaemonStepTyped, ClientStepTyped, UserTyped DEF Next
<1>2. CASE UNCHANGED vars
  BY <1>2 DEF TypeOK, vars, files, daemon, main, client, sayings, history
<1> QED BY <1>1, <1>2

(* Type correctness: processes, files and commands stay what they are, for
   any number of them (Signal of Lifecycle: no daemon is signalled that has
   not installed its handlers). *)
THEOREM TypeCorrect == Spec => []TypeOK
  BY TypeInit, TypeNext, PTL DEF Spec
----------------------------------------------------------------------------
(* Who is alone with the files, and what is then at his path. *)

(* A daemon that has not met another is the only one that may touch a file,
   and one over which no stop command went sees none under way. *)
Solitude ==
    /\ \A d \in Meddling \ crowded : Meddling = {d}
    /\ \A d \in Meddling \ swept : \A c \in Clients : ~Sweeping(c)

PidIsThere ==
    \A d \in Daemons : /\ pc[d] \in {"load", "run"} /\ Undisturbed(d) /\ d \notin nameless
                       => pidfile[path[d]] = d

SocketIsThere ==
    \A d \in Daemons : /\ pc[d] = "run" /\ ipc[d] = "bound" /\ Undisturbed(d)
                       => sock[path[d]] = d

Inv == TypeOK /\ Solitude /\ PidIsThere /\ SocketIsThere

LEMMA SolitudeInit == Init => Solitude
  BY DEF Init, Solitude, Meddling, Alive

LEMMA SolitudeNext == Remember => Solitude'
<1> SUFFICES ASSUME Remember PROVE Solitude'
  OBVIOUS
<1>1. ASSUME NEW d \in Meddling', d \notin crowded' PROVE Meddling' = {d}
  BY <1>1 DEF Remember
<1>2. ASSUME NEW d \in Meddling', d \notin swept', NEW c \in Clients PROVE ~Sweeping(c)'
  BY <1>2 DEF Remember
<1> QED BY <1>1, <1>2 DEF Solitude

(* Who is undisturbed and at work has been so, and been alone, before. *)
LEMMA StillAlone ==
    ASSUME TypeOK, Solitude, Remember, NEW d \in Daemons,
           pc[d] \in {"pid", "load", "run"}, pc'[d] \in {"load", "run"}, Undisturbed(d)'
    PROVE  /\ Undisturbed(d)
           /\ Meddling = {d}
           /\ \A c \in Clients : ~Sweeping(c)
<1>1. d \in Meddling /\ d \in Meddling'
  BY DEF Meddling, Alive
<1>2. Undisturbed(d)
  BY <1>1 DEF Remember, Undisturbed
<1> QED BY <1>1, <1>2 DEF Solitude, Undisturbed
----------------------------------------------------------------------------
(* A step of any daemon.  Another one that could change a file would be
   meddling; and its own steps leave it where the invariant says. *)
LEMMA DaemonStepPid ==
    ASSUME Inv, NEW e \in Daemons, DaemonStep(e), Remember,
           NEW d \in Daemons, pc'[d] \in {"load", "run"}, Undisturbed(d)', d \notin nameless'
    PROVE  pidfile'[path'[d]] = d
<1>1. CASE WritePid(e) /\ e # d
  <2>1. e \in Meddling /\ pc[d] = pc'[d]
    BY <1>1 DEF Inv, TypeOK, WritePid, Meddling, Alive
  <2> QED BY <2>1, <1>1, StillAlone DEF Inv
<1>2. CASE WritePid(e) /\ e = d
  BY <1>2 DEF Inv, TypeOK, WritePid
<1>3. CASE UnlinkPid(e)
  <2>1. e \in Meddling /\ pc'[e] = "drain" /\ (e # d => pc[d] = pc'[d])
    BY <1>3 DEF Inv, TypeOK, UnlinkPid, Meddling, Alive
  <2> QED BY <2>1, StillAlone DEF Inv
<1>4. CASE Boot(e)
  <2>1. /\ e # d /\ pc[d] = pc'[d] /\ path[d] = path'[d] /\ pidfile' = pidfile
        /\ d \notin nameless
    BY <1>4 DEF Inv, TypeOK, Boot, files
  <2> QED BY <2>1, StillAlone DEF Inv, PidIsThere
<1>5. CASE Exit(e)
  <2>1. /\ e # d /\ pc[d] = pc'[d] /\ path[d] = path'[d] /\ pidfile' = pidfile
        /\ d \notin nameless
    BY <1>5 DEF Inv, TypeOK, Exit, End, files
  <2> QED BY <2>1, StillAlone DEF Inv, PidIsThere
<1>6. CASE SpawnTasks(e) \/ InstallHandlers(e) \/ FindSocket(e) \/ RemoveOld(e) \/ Bind(e)
           \/ Abort(e) \/ UnlinkSocket(e)
  <2>1. /\ path' = path /\ pidfile' = pidfile /\ nameless' = nameless
        /\ pc[d] \in {"load", "run"}
    BY <1>6 DEF Inv, TypeOK, SpawnTasks, InstallHandlers, FindSocket, RemoveOld, Bind, Abort,
                UnlinkSocket, files, main
  <2> QED BY <2>1, StillAlone DEF Inv, PidIsThere
<1> QED BY <1>1, <1>2, <1>3, <1>4, <1>5, <1>6 DEF DaemonStep

LEMMA DaemonStepSocket ==
    ASSUME Inv, NEW e \in Daemons, DaemonStep(e), Remember,
           NEW d \in Daemons, pc'[d] = "run", ipc'[d] = "bound", Undisturbed(d)'
    PROVE  sock'[path'[d]] = d
<1>1. CASE FindSocket(e) \/ RemoveOld(e) \/ Bind(e)
  <2>1. /\ e \in Meddling
        /\ pc' = pc /\ path' = path
    BY <1>1 DEF Inv, TypeOK, FindSocket, RemoveOld, Bind, Meddling, Alive, Working, main
  <2>2. e = d
    BY <2>1, StillAlone DEF Inv
  <2>3. Bind(d)
    BY <1>1, <2>2 DEF Inv, TypeOK, FindSocket, RemoveOld
  <2> QED BY <2>1, <2>3 DEF Inv, TypeOK, Bind
<1>2. CASE UnlinkSocket(e)
  <2>1. e \in Meddling /\ pc'[e] = "unlink_pid" /\ (e # d => pc[d] = pc'[d])
    BY <1>2 DEF Inv, TypeOK, UnlinkSocket, Meddling, Alive
  <2> QED BY <2>1, StillAlone DEF Inv
<1>3. CASE Boot(e) \/ WritePid(e) \/ SpawnTasks(e) \/ InstallHandlers(e) \/ Abort(e)
           \/ UnlinkPid(e) \/ Exit(e)
  <2>1. /\ sock' = sock
        /\ pc[d] = "run" /\ ipc[d] = "bound" /\ path'[d] = path[d]
    BY <1>3 DEF Inv, TypeOK, Boot, WritePid, SpawnTasks, InstallHandlers, Abort, UnlinkPid,
                Exit, End, files
  <2> QED BY <2>1, StillAlone DEF Inv, SocketIsThere
<1> QED BY <1>1, <1>2, <1>3 DEF DaemonStep

(* A signal, a kill or a spawn changes no file, and leaves alone whoever it
   does not end. *)
Survives(d) ==
    /\ pc'[d] = pc[d] /\ ipc'[d] = ipc[d] /\ path'[d] = path[d]
    /\ d \in nameless <=> d \in nameless'

LEMMA Survivors ==
    ASSUME TypeOK, NEW D \in SUBSET Daemons, End(D), NEW d \in Daemons,
           pc'[d] \in {"pid", "load", "run"}
    PROVE  Survives(d)
  BY DEF TypeOK, End, Survives

(* A step of a client or a user. *)
Outside == User \/ \E c \in Clients : ClientStep(c)

LEMMA OutsideKeepsDaemons ==
    ASSUME TypeOK, Outside, NEW d \in Daemons, pc'[d] \in {"pid", "load", "run"}
    PROVE  Survives(d) /\ sock' = sock
<1>1. ASSUME NEW c \in Clients, SpawnDaemon(c) PROVE Survives(d) /\ sock' = sock
  BY <1>1 DEF TypeOK, SpawnDaemon, Spawn, files, Survives
<1>2. ASSUME StartUnasked PROVE Survives(d) /\ sock' = sock
  BY <1>2 DEF TypeOK, StartUnasked, Spawn, files, Survives
<1>3. ASSUME NEW D \in SUBSET Daemons, Signal(D) PROVE Survives(d)
  <2>1. End({x \in D : Alive(x) /\ x \notin handlers})
    BY <1>3 DEF Signal
  <2> QED BY <2>1, Survivors
<1>4. ASSUME NEW c \in Clients, Kill(c) PROVE Survives(d) /\ sock' = sock
  <2>1. (IF target[c] = NoFile THEN Daemons ELSE {target[c]}) \in SUBSET Daemons
    BY DEF TypeOK
  <2> QED BY <1>3, <1>4, <2>1 DEF Kill, files
<1>5. ASSUME StopAll PROVE Survives(d) /\ sock' = sock
  BY <1>3, <1>5 DEF StopAll, files
<1>6. ASSUME NEW e \in Daemons, Crash(e) PROVE Survives(d) /\ sock' = sock
  BY <1>6, Survivors DEF Crash, files
<1>7. ASSUME NEW c \in Clients,
             Ping(c) \/ ReadPid(c) \/ RemovePid(c) \/ Truncate(c) \/ Write(c) \/ BeginStop(c)
             \/ BreakOff(c) \/ (\E b \in BOOLEAN : BeginStart(c, b))
             \/ (\E k, v : BeginSet(c, k, v))
      PROVE Survives(d) /\ sock' = sock
  BY <1>7 DEF Ping, ReadPid, RemovePid, Truncate, Write, BeginStop, BreakOff, BeginStart, BeginSet,
              daemon, main, files, Survives
<1> QED BY <1>1, <1>2, <1>4, <1>5, <1>6, <1>7 DEF Outside, User, ClientStep

LEMMA OutsideKeepsPid ==
    ASSUME TypeOK, Outside, \A c \in Clients : ~Sweeping(c)
    PROVE  pidfile' = pidfile
  BY DEF Outside, User, ClientStep, Sweeping, StartUnasked, StopAll, Crash, BeginStart, BeginStop,
         BreakOff, BeginSet, Ping, SpawnDaemon, ReadPid, Kill, RemovePid, Truncate, Write, files

LEMMA InvInit == Init => Inv
<1>1. Init => PidIsThere /\ SocketIsThere
  BY DEF Init, PidIsThere, SocketIsThere
<1> QED BY <1>1, TypeInit, SolitudeInit DEF Inv

LEMMA InvNext == Inv /\ [Next]_vars => Inv'
<1> SUFFICES ASSUME Inv, [Next]_vars PROVE Inv'
  OBVIOUS
<1>1. TypeOK'
  BY TypeNext DEF Inv
<1>2. CASE UNCHANGED vars
  <2>1. Solitude' /\ PidIsThere' /\ SocketIsThere'
    BY <1>2 DEF Inv, Solitude, PidIsThere, SocketIsThere, Undisturbed, Meddling, Alive, Working,
                Sweeping, vars, files, daemon, main, client, history
  <2> QED BY <1>1, <2>1 DEF Inv
<1>3. CASE Next
  <2>1. Solitude'
    BY <1>3, SolitudeNext DEF Next
  <2>2. ASSUME NEW d \in Daemons, pc'[d] \in {"load", "run"}, Undisturbed(d)', d \notin nameless'
        PROVE pidfile'[path'[d]] = d
    <3>1. CASE \E e \in Daemons : DaemonStep(e)
      BY <1>3, <2>2, <3>1, DaemonStepPid DEF Next
    <3>2. CASE Outside
      <4>1. pc'[d] = pc[d] /\ path'[d] = path[d] /\ d \notin nameless
        BY <2>2, <3>2, OutsideKeepsDaemons DEF Inv, Survives
      <4>2. Undisturbed(d) /\ \A c \in Clients : ~Sweeping(c)
        BY <1>3, <2>2, <4>1, StillAlone DEF Inv, Next
      <4> QED BY <2>2, <3>2, <4>1, <4>2, OutsideKeepsPid DEF Inv, PidIsThere
    <3> QED BY <1>3, <3>1, <3>2 DEF Next, Outside
  <2>3. ASSUME NEW d \in Daemons, pc'[d] = "run", ipc'[d] = "bound", Undisturbed(d)'
        PROVE sock'[path'[d]] = d
    <3>1. CASE \E e \in Daemons : DaemonStep(e)
      BY <1>3, <2>3, <3>1, DaemonStepSocket DEF Next
    <3>2. CASE Outside
      <4>1. pc'[d] = pc[d] /\ ipc'[d] = ipc[d] /\ path'[d] = path[d] /\ sock' = sock
        BY <2>3, <3>2, OutsideKeepsDaemons DEF Inv, Survives
      <4>2. Undisturbed(d)
        BY <1>3, <2>3, <4>1, StillAlone DEF Inv, Next
      <4> QED BY <2>3, <4>1, <4>2 DEF Inv, SocketIsThere
    <3> QED BY <1>3, <3>1, <3>2 DEF Next, Outside
  <2> QED BY <1>1, <2>1, <2>2, <2>3 DEF Inv, PidIsThere, SocketIsThere
<1> QED BY <1>2, <1>3

(* A daemon that has been alone with its files is found at them: the socket
   at its path is its own (bind_ipc), and the pid file beside it has its pid
   unless the write of it
   failed (main.rs:43), whatever earlier daemons, stop commands and crashes left. *)
THEOREM Reachable == Spec => []SettledIsReachable
<1>1. Inv => SettledIsReachable
  BY DEF Inv, PidIsThere, SocketIsThere, SettledIsReachable
<1> QED BY <1>1, InvInit, InvNext, PTL DEF Spec
----------------------------------------------------------------------------
(* What has been said of the settings. *)

NobodyWrites == \A c \in Clients : at[c] # "write"
Certain      == Keys \ doubtful

(* A client that sets alone is the only one that sets; of the settings it does
   not change it will write what was said of them; and once it has begun to
   write, there is nothing else in the file.  While nobody writes, the file
   says what was said. *)
AloneSets ==
    \A c \in alone : Setting(c) /\ \A e \in Clients \ {c} : ~Setting(e)
AloneKnows ==
    \A c \in alone : /\ \A k \in Certain \ {key[c]} : text[c][k] = said[k]
                     /\ at[c] = "write" => file = Unreadable
FileAgrees == NobodyWrites => \A k \in Certain : Read[k] = said[k]

SetInv == TypeOK /\ AloneSets /\ AloneKnows /\ FileAgrees

LEMMA SetInvInit == Init => SetInv
  BY TypeInit DEF Init, SetInv, AloneSets, AloneKnows, FileAgrees, Read

(* Whoever neither sets nor writes leaves what the invariant speaks of. *)
NoSetting ==
    /\ UNCHANGED <<file, text, key, sayings>>
    /\ \A c \in Clients : Setting(c) \/ Setting(c)' => at'[c] = at[c]

LEMMA NoSettingKeeps ==
    ASSUME SetInv, NoSetting
    PROVE  AloneSets' /\ AloneKnows' /\ FileAgrees'
<1> USE DEF SetInv, NoSetting, sayings
<1>1. \A c \in Clients : /\ Setting(c)' <=> Setting(c)
                         /\ at'[c] = "write" <=> at[c] = "write"
  BY DEF Setting
<1>2. alone \subseteq Clients /\ Read' = Read
  BY DEF TypeOK, Read
<1>3. AloneSets'
  BY <1>1, <1>2 DEF AloneSets
<1>4. AloneKnows'
  BY <1>1, <1>2 DEF AloneKnows, Certain
<1>5. FileAgrees'
  BY <1>1, <1>2 DEF FileAgrees, NobodyWrites, Certain
<1> QED BY <1>3, <1>4, <1>5

(* A command ends that was not setting anything. *)
LEMMA DoneSetsNothing ==
    ASSUME TypeOK, NEW c \in Clients, at[c] \notin {"open", "write"}, Done(c)
    PROVE  \A e \in Clients : Setting(e) \/ Setting(e)' => at'[e] = at[e]
  BY DEF TypeOK, Done, Setting

LEMMA DaemonsDoNotSet ==
    ASSUME SetInv, NEW d \in Daemons, DaemonStep(d)
    PROVE  NoSetting
  BY DEF DaemonStep, Boot, WritePid, SpawnTasks, InstallHandlers, FindSocket, RemoveOld, Bind,
         Abort, UnlinkSocket, UnlinkPid, Exit, NoSetting, files, client, Setting

(* A command that ends, to set nothing again, may change the text it had. *)
LEMMA QuietEnd ==
    ASSUME SetInv, NEW c \in Clients, at[c] \notin {"open", "write"}, Done(c),
           UNCHANGED <<file, sayings>>
    PROVE  AloneSets' /\ AloneKnows' /\ FileAgrees'
<1> USE DEF SetInv, sayings
<1>1. \A e \in Clients : (e # c => text'[e] = text[e] /\ key'[e] = key[e]) /\ (Setting(e)' <=> Setting(e))
                         /\ (at'[e] = "write" <=> at[e] = "write")
  BY DEF TypeOK, Done, Setting
<1>2. alone \subseteq Clients /\ Read' = Read
  BY DEF TypeOK, Read
<1>3. c \notin alone
  BY DEF AloneSets, Setting
<1>4. AloneSets'
  BY <1>1, <1>2 DEF AloneSets
<1>5. AloneKnows'
  BY <1>1, <1>2, <1>3 DEF AloneKnows, Certain
<1>6. FileAgrees'
  BY <1>1, <1>2 DEF FileAgrees, NobodyWrites, Certain
<1> QED BY <1>4, <1>5, <1>6

(* Beginning to set. *)
LEMMA BeginSetKeeps ==
    ASSUME SetInv, NEW c \in Clients, NEW k \in Keys, NEW v, BeginSet(c, k, v)
    PROVE  AloneSets' /\ AloneKnows' /\ FileAgrees'
<1> USE DEF SetInv
<1>1. /\ at[c] = "idle" /\ at' = [at EXCEPT ![c] = "open"]
      /\ file' = file /\ Read' = Read /\ said' = said /\ doubtful' = doubtful
  BY DEF BeginSet, Command, files, Read
<1>2. alone' = {} \/ (alone' = {c} /\ \A e \in Clients : ~Setting(e))
  BY DEF BeginSet
<1>3. /\ Setting(c)'
      /\ \A e \in Clients \ {c} : Setting(e)' <=> Setting(e)
      /\ \A e \in Clients : at'[e] = "write" <=> at[e] = "write"
  BY <1>1 DEF TypeOK, Setting
<1>4. AloneSets'
  BY <1>2, <1>3 DEF AloneSets
<1>5. FileAgrees'
  BY <1>1, <1>3 DEF FileAgrees, NobodyWrites, Certain
<1>6. AloneKnows'
  <2>1. CASE alone' = {}
    BY <2>1 DEF AloneKnows
  <2>2. CASE alone' = {c} /\ \A e \in Clients : ~Setting(e)
    <3>1. key'[c] = k /\ text'[c] = [Read EXCEPT ![k] = v]
      BY DEF TypeOK, BeginSet
    <3>2. \A j \in Keys \ {k} : text'[c][j] = Read[j]
      BY <3>1, ReadTyped DEF Settings, Keys
    <3>3. \A j \in Certain : Read[j] = said[j]
      BY <2>2 DEF FileAgrees, NobodyWrites, Setting
    <3>4. at'[c] # "write"
      BY <1>1 DEF TypeOK
    <3> QED BY <2>2, <3>1, <3>2, <3>3, <3>4, <1>1 DEF AloneKnows, Certain
  <2> QED BY <1>2, <2>1, <2>2
<1> QED BY <1>4, <1>5, <1>6

(* ... emptying the file ... *)
LEMMA TruncateKeeps ==
    ASSUME SetInv, NEW c \in Clients, Truncate(c)
    PROVE  AloneSets' /\ AloneKnows' /\ FileAgrees'
<1> USE DEF SetInv
<1>1. /\ at[c] = "open" /\ at' = [at EXCEPT ![c] = "write"] /\ file' = Unreadable
      /\ UNCHANGED <<text, key, said, doubtful, alone>>
  BY DEF Truncate, sayings
<1>2. \A e \in Clients : Setting(e)' <=> Setting(e)
  BY <1>1 DEF TypeOK, Setting
<1>3. alone \subseteq Clients /\ ~NobodyWrites'
  BY <1>1 DEF TypeOK, NobodyWrites
<1>4. AloneSets'
  BY <1>1, <1>2, <1>3 DEF AloneSets
<1>5. AloneKnows'
  BY <1>1 DEF AloneKnows, Certain
<1> QED BY <1>3, <1>4, <1>5 DEF FileAgrees

LEMMA KnownAlone ==
    ASSUME AloneKnows, NEW e \in alone
    PROVE  /\ \A k \in Certain \ {key[e]} : text[e][k] = said[k]
           /\ at[e] = "write" => file = Unreadable
  BY DEF AloneKnows

(* ... writing it ... *)
LEMMA WriteKeeps ==
    ASSUME SetInv, NEW c \in Clients, Write(c)
    PROVE  AloneSets' /\ AloneKnows' /\ FileAgrees'
<1> USE DEF SetInv
<1>1. /\ at[c] = "write" /\ at' = [at EXCEPT ![c] = "idle"] /\ alone' = alone \ {c}
      /\ \A e \in Clients \ {c} : text'[e] = text[e] /\ key'[e] = key[e]
  BY DEF TypeOK, Write, Done
<1>2. alone \subseteq Clients /\ \A e \in Clients \ {c} : Setting(e)' <=> Setting(e)
  BY <1>1 DEF TypeOK, Setting
<1>3. CASE c \notin alone
  <2>1. doubtful' = Keys /\ said' = said
    BY <1>3 DEF Write
  <2>2. alone = {}
    BY <1>1, <1>2, <1>3 DEF AloneSets, Setting
  <2> QED BY <1>1, <2>1, <2>2 DEF AloneSets, AloneKnows, FileAgrees, Certain
<1>4. CASE c \in alone
  <2>1. alone = {c}
    BY <1>2, <1>4 DEF AloneSets
  <2>2. AloneSets' /\ AloneKnows'
    BY <1>1, <2>1 DEF AloneSets, AloneKnows
  <2>3. file = Unreadable
    BY <1>1, <1>4, KnownAlone
  <2>4. /\ file' = text[c] /\ doubtful' = doubtful \ {key[c]}
        /\ said' = [said EXCEPT ![key[c]] = text[c][key[c]]]
    BY <1>4, <2>3 DEF Write
  <2>5. text[c] \in Settings /\ key[c] \in Keys /\ said \in Settings
    BY DEF TypeOK
  <2>6. Read' = text[c]
    BY <2>4, <2>5, UnreadableAssumption DEF Read
  <2>7. said'[key[c]] = text[c][key[c]] /\ \A k \in Keys \ {key[c]} : said'[k] = said[k]
    BY <2>4, <2>5 DEF Settings, Keys
  <2>8. \A k \in Certain \ {key[c]} : text[c][k] = said[k]
    BY <1>4, KnownAlone
  <2>9. \A k \in Certain' : Read'[k] = said'[k]
    BY <2>4, <2>6, <2>7, <2>8 DEF Certain
  <2> QED BY <2>2, <2>9 DEF FileAgrees
<1> QED BY <1>3, <1>4

(* ... and breaking off. *)
LEMMA BreakOffKeeps ==
    ASSUME SetInv, NEW c \in Clients, BreakOff(c)
    PROVE  AloneSets' /\ AloneKnows' /\ FileAgrees'
<1> USE DEF SetInv
<1>1. /\ Setting(c) /\ at' = [at EXCEPT ![c] = "idle"] /\ alone' = alone \ {c}
      /\ file' = file /\ said' = said
      /\ \A e \in Clients \ {c} : text'[e] = text[e] /\ key'[e] = key[e]
  BY DEF TypeOK, BreakOff, Done, files
<1>2. alone' = {} /\ Read' = Read
  BY <1>1 DEF TypeOK, AloneSets, Read
<1>3. AloneSets' /\ AloneKnows'
  BY <1>2 DEF AloneSets, AloneKnows
<1>4. CASE at[c] = "write"
  BY <1>3, <1>4 DEF BreakOff, FileAgrees, Certain
<1>5. CASE at[c] # "write"
  <2>1. doubtful' = doubtful /\ (NobodyWrites' => NobodyWrites)
    BY <1>1, <1>5 DEF TypeOK, BreakOff, NobodyWrites
  <2> QED BY <1>1, <1>2, <1>3, <2>1 DEF FileAgrees, Certain
<1> QED BY <1>4, <1>5

LEMMA SetInvNext == SetInv /\ [Next]_vars => SetInv'
<1> SUFFICES ASSUME SetInv, [Next]_vars PROVE SetInv'
  OBVIOUS
<1>1. TypeOK'
  BY TypeNext DEF SetInv
<1>2. CASE UNCHANGED vars
  <2>1. NoSetting
    BY <1>2 DEF NoSetting, Setting, vars, files, client, sayings
  <2> QED BY <1>1, <2>1, NoSettingKeeps DEF SetInv
<1>3. CASE \E d \in Daemons : DaemonStep(d)
  BY <1>1, <1>3, DaemonsDoNotSet, NoSettingKeeps DEF SetInv
<1>4. ASSUME NEW c \in Clients, ClientStep(c) PROVE SetInv'
  <2>1. CASE Truncate(c)
    BY <1>1, <2>1, TruncateKeeps DEF SetInv
  <2>2. CASE Write(c)
    BY <1>1, <2>2, WriteKeeps DEF SetInv
  <2>3. CASE (Ping(c) \/ SpawnDaemon(c) \/ RemovePid(c)) /\ Done(c)
    <3>1. at[c] \notin {"open", "write"} /\ UNCHANGED <<file, sayings>>
      BY <2>3 DEF Ping, SpawnDaemon, RemovePid, files
    <3> QED BY <1>1, <2>3, <3>1, QuietEnd DEF SetInv
  <2>4. CASE ReadPid(c) \/ Kill(c) \/ (Ping(c) /\ ~Done(c))
    <3>1. NoSetting
      BY <2>4 DEF SetInv, TypeOK, ReadPid, Kill, Ping, NoSetting, Setting, files
    <3> QED BY <1>1, <3>1, NoSettingKeeps DEF SetInv
  <2> QED BY <1>4, <2>1, <2>2, <2>3, <2>4 DEF ClientStep, SpawnDaemon, RemovePid
<1>5. CASE User
  <2>1. CASE StartUnasked \/ StopAll \/ \E d \in Daemons : Crash(d)
    <3>1. NoSetting
      BY <2>1 DEF StartUnasked, StopAll, Crash, NoSetting, Setting, files, client
    <3> QED BY <1>1, <3>1, NoSettingKeeps DEF SetInv
  <2>2. CASE \E c \in Clients : BeginStop(c) \/ \E b \in BOOLEAN : BeginStart(c, b)
    <3>1. NoSetting
      BY <2>2 DEF SetInv, TypeOK, BeginStop, BeginStart, Command, NoSetting, Setting, files
    <3> QED BY <1>1, <3>1, NoSettingKeeps DEF SetInv
  <2>3. CASE \E c \in Clients : BreakOff(c)
    BY <1>1, <2>3, BreakOffKeeps DEF SetInv
  <2>4. CASE \E c \in Clients : \/ \E p \in Paths : BeginSet(c, "socket", p)
                                \/ \E b \in BOOLEAN : BeginSet(c, "dry_run", b)
    BY <1>1, <2>4, BeginSetKeeps DEF SetInv, Keys
  <2> QED BY <1>5, <2>1, <2>2, <2>3, <2>4 DEF User
<1> QED BY <1>2, <1>3, <1>4, <1>5 DEF Next

(* What `config set dry_run` has reported is what the next daemon to boot
   works by (main.rs:37), for any number of daemons, commands and paths. *)
THEOREM Heeded == Spec => DryRunIsHeeded
<1>1. ASSUME SetInv, [Next]_vars
      PROVE  [\A d \in Daemons :
                /\ pc[d] = "boot" /\ pc'[d] = "pid"
                /\ \A c \in Clients : ~Setting(c)
                /\ "dry_run" \notin doubtful
                => dry'[d] = (dry[d] \/ said.dry_run)]_vars
  <2> SUFFICES ASSUME Next, NEW d \in Daemons, pc[d] = "boot", pc'[d] = "pid",
                      \A c \in Clients : ~Setting(c), "dry_run" \notin doubtful
               PROVE  dry'[d] = (dry[d] \/ said.dry_run)
    BY <1>1
  <2>1. TypeOK /\ FileAgrees
    BY <1>1 DEF SetInv
  <2>2. PICK e \in Daemons : DaemonStep(e)
    <3>1. ~Outside
      BY <2>1, OutsideKeepsDaemons DEF Survives
    <3> QED BY <3>1 DEF Next, Outside
  <2>3. Boot(d)
    BY <2>1, <2>2 DEF TypeOK, DaemonStep, Boot, WritePid, SpawnTasks, InstallHandlers, FindSocket,
       RemoveOld, Bind, Abort, UnlinkSocket, UnlinkPid, Exit, End, main
  <2>4. Read["dry_run"] = said["dry_run"]
    BY <2>1 DEF FileAgrees, NobodyWrites, Setting, Certain, Keys
  <2>5. Read.dry_run = said.dry_run
    BY <2>1, <2>4, ReadTyped DEF TypeOK, Settings
  <2>6. dry'[d] = (dry[d] \/ Read.dry_run)
    BY <2>1, <2>3 DEF TypeOK, Boot
  <2> QED BY <2>5, <2>6
<1> QED BY <1>1, SetInvInit, SetInvNext, PTL DEF Spec, DryRunIsHeeded
=============================================================================
