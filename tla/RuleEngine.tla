----------------------------- MODULE RuleEngine -----------------------------
(***************************************************************************)
(* How Doumi processes files: the engine of doumi-core (engine.rs), the    *)
(* actions of a rule (actions/mod.rs), and the tasks that drive them - the *)
(* watcher of doumid (watcher.rs) and the scans: at start-up (main.rs), on *)
(* a schedule (scheduler.rs), by `run_rule` (ipc.rs) and by the CLI        *)
(* (`doumi rules run`, in a process of its own).                           *)
(*                                                                         *)
(* Every worker runs process_file on one file at a time; the workers share *)
(* nothing but the file system, so their steps interleave between any two  *)
(* system calls.  An action that picks a destination takes (at least) two  *)
(* steps: it looks for a conflict, then it writes.                         *)
(*                                                                         *)
(* Content is abstract: a file holds a set of data, an archive or a copy   *)
(* holds the data of its source, a truncated file holds none.              *)
(*                                                                         *)
(* What process_file is given is a file or a folder, and an action on a    *)
(* folder takes all that is below it along.  Links are not on this disk    *)
(* (the module ScopeGate has them): a path is its own canonical form.      *)
(***************************************************************************)
EXTENDS Scope, FiniteSets

CONSTANTS
    Data,       \* the things a user can have in a file
    Names,      \* file names
    Dirs,       \* directories, each a sequence of components
    Device,     \* [Dirs -> devices]: a rename between two of them is EXDEV
    Suffixed,   \* [Names -> Seq(Names)]: stem_1.ext, stem_2.ext, ... in order
    Rules,      \* the loaded rules, as load_rules left them
    Workers,    \* the tasks and processes that run process_file
    Watcher,    \* the worker that is the watcher task, if it is in Workers
    DryWorkers, \* the workers whose engine has dry_run set
    Scans,      \* the scans that may be asked for: folders, and engine rules
    MaxScans,   \* bound: how many scans are asked for
    Inbox,      \* the paths at which the user creates files
    MovedIn,    \* the paths to which the user moves files from elsewhere
    Taken,      \* the paths from which the user removes files
    MayFail,    \* the actions whose system calls may fail
    InitFs,     \* the files on disk at the start
    InitDirs,   \* the directories on disk at the start
    Absent      \* what is at a path with no file: not a set of data

Paths == [dir : Dirs, name : Names]
Contents == (SUBSET Data) \cup {Absent}
FullPath(p) == Append(p.dir, p.name)
AsPath(d) == [dir |-> Front(d), name |-> Last(d)]
Kinds == {"file", "folder"}

(* "notify" stands for notify and open, "tag" for tag and set_permissions. *)
ActionTypes == {"move", "copy", "rename", "delete", "trash", "compress",
                "create_folder", "log", "notify", "tag"}
Policies    == {"rename", "skip", "overwrite"}

(* An action.  `here` says it has no destination of its own: the file's
   directory is taken (rename, compress) or no file at all (log); `to` renders
   the name. *)
Action == [type : ActionTypes, here : BOOLEAN, dir : Dirs,
           to : [Names -> Names], on_conflict : Policies,
           create_parents : BOOLEAN]

(* A rule; `match` is the set of names and kinds its conditions hold for. *)
IsRule(r) == /\ r.match \subseteq Names \X Kinds
             /\ r.actions \in Seq(Action)
             /\ r.continue_matching \in BOOLEAN
             /\ r.on_add \in BOOLEAN
             /\ r.on_modify \in BOOLEAN
             /\ r.priority \in Int

ASSUME RulesAssumption ==
    /\ Rules \in Seq(Range(Rules))
    /\ \A i \in DOMAIN Rules : IsRule(Rules[i])
    /\ \A i, j \in DOMAIN Rules :
           i < j => Rules[i].priority <= Rules[j].priority

(* Dirs are all directories there may be (a bound: nothing is deeper); the
   outermost of them are there for the watching and are no one's subject. *)
ASSUME TreeAssumption ==
    /\ Dirs \subseteq Seq(UNION {Range(d) : d \in Dirs}) \ {<<>>}
    /\ \A d \in Dirs : Len(d) > 1 => AsPath(d) \in Paths
    /\ \A i \in DOMAIN Rules : \A f \in Rules[i].folders : f.path \in Dirs

ASSUME NamesAssumption == \A n \in Names : Suffixed[n] \in Seq(Names)

ASSUME ScansAssumption ==
    /\ MaxScans \in Nat
    /\ \A s \in Scans : /\ s.folders \in Seq(Range(s.folders))
                        /\ s.rules \in Seq(DOMAIN Rules)
                        /\ \A i, j \in DOMAIN s.rules :
                               i < j => s.rules[i] < s.rules[j]

ASSUME DiskAssumption ==
    /\ Absent \notin SUBSET Data
    /\ InitFs \in [Paths -> Contents]
    /\ InitDirs \subseteq Dirs
    /\ \A p \in Paths :
           InitFs[p] # Absent \/ FullPath(p) \in InitDirs => p.dir \in InitDirs
    /\ Inbox \cup MovedIn \cup Taken \subseteq Paths
    /\ Paths # {}
    /\ DryWorkers \subseteq Workers

VARIABLES
    fs,      \* what is at each path
    dirs,    \* the directories that exist
    trash,   \* the data in the desktop trash
    queue,   \* the watcher's channel: events not handled yet
    task,    \* what each worker is at: its rules, its scan
    job,     \* the file each worker is processing
    scans,   \* scans asked for so far
    arrived, \* history: the data the user has put on the disk
    forfeit  \* history: the data a user or a rule asked to destroy
vars == <<fs, dirs, trash, queue, task, job, scans, arrived, forfeit>>
disk == <<fs, dirs, trash>>

NoBase   == <<>>
AnyPath  == CHOOSE p \in Paths : TRUE
AllRules == [i \in 1..Len(Rules) |-> i]

(* A task: the rules its engine holds, the folders its scan has still to
   list, the folder being scanned (watched_from) and the files of it left. *)
WatcherTask == [rules |-> AllRules, plan |-> <<>>, base |-> NoBase, todo |-> {}]

(* process_file on one path: `kind` is what FileInfo says it is, `rule`
   indexes the engine's rules, `act` the chain of the current one; `cur` is the
   chain's current file, `dest` the destination chosen for it.  `own` and
   `acted` are history: the data that was at the path when it was picked up,
   and the rules that matched it. *)
IdleJob == [pc |-> "idle", path |-> AnyPath, kind |-> "file", own |-> {},
            rule |-> 1, act |-> 1, cur |-> AnyPath, dest |-> AnyPath,
            acted |-> <<>>]

Init ==
    /\ fs = InitFs
    /\ dirs = InitDirs
    /\ trash = {}
    /\ queue = <<>>
    /\ task = [w \in Workers |-> WatcherTask]
    /\ job = [w \in Workers |-> IdleJob]
    /\ scans = 0
    /\ arrived = UNION {InitFs[p] : p \in {q \in Paths : InitFs[q] # Absent}}
    /\ forfeit = {}
----------------------------------------------------------------------------
(* The file system *)

IsFile(p)   == fs[p] # Absent
IsFolder(p) == FullPath(p) \in dirs
Exists(p)   == IsFile(p) \/ IsFolder(p)
OnDisk      == {p \in Paths : IsFile(p)}

(* A path and what is below it: the files, their data, and the folders. *)
Under(p, q) == q = p \/ IsPrefix(FullPath(p), q.dir)
Files(p)    == {q \in OnDisk : Under(p, q)}
Folders(p)  == {d \in dirs : IsPrefix(FullPath(p), d)}
DataAt(p)   == UNION {fs[q] : q \in Files(p)}

(* Where a folder or a file under p comes to be when p becomes r. *)
Rebase(p, r, d) == FullPath(r) \o SubSeq(d, Len(FullPath(p)) + 1, Len(d))
Image(p, r, q)  == IF q = p THEN r ELSE [q EXCEPT !.dir = Rebase(p, r, q.dir)]

Without(gone) == [q \in Paths |-> IF q \in gone THEN Absent ELSE fs[q]]

(* create_dir_all: a directory and those above it.  A file that is in the way
   of one of them makes it fail before it has made any. *)
MkdirAll(dir) == {d \in Dirs : IsPrefix(d, dir)}
Blocked(dir) ==
    \E d \in MkdirAll(dir) : Len(d) > 1 /\ IsFile(AsPath(d))

(* The directories in which there is one of the given names. *)
Marked(markers) ==
    {d \in dirs : \E m \in markers \cap Names : Exists([dir |-> d, name |-> m])}

Canon == [q \in Dirs \cup {FullPath(p) : p \in Paths} |-> q]

(* What the scope gate asks the disk. *)
Tree == [canon |-> Canon, folders |-> dirs, marked |-> Marked(PROJECT_MARKERS)]
----------------------------------------------------------------------------
(* Its events *)

(* watch_rules: the directories the watcher is registered on; a directory that
   appears in a recursive watch is added to it. *)
Watched(dir) ==
    \E i \in DOMAIN Rules : \E f \in Rules[i].folders :
        f.path = dir \/ (f.recursive /\ IsPrefix(f.path, dir))

EventType == [kind : {"add", "modify", "delete"}, path : Paths]

Event(kind, p) ==
    IF Watcher \in Workers /\ Watched(p.dir)
    THEN <<[kind |-> kind, path |-> p]>> ELSE <<>>

(* What there is to report of a path: a directory in `made` appears; a file
   is created and filled, or filled again. *)
EventsOf(made, p) ==
    IF FullPath(p) \in made THEN Event("add", p)
    ELSE (IF IsFile(p) THEN <<>> ELSE Event("add", p)) \o Event("modify", p)

(* The orders in which a call that makes the directories `made` and writes the
   files `written` may be reported: what is above before what is below, and
   what lies in a directory that is itself new perhaps not at all, since it is
   not watched yet. *)
Reports(made, written) ==
    LET entries == {AsPath(d) : d \in {e \in made : Len(e) > 1}} \cup written
        sure    == {p \in entries : p.dir \notin made}
    IN  {s \in BoundedSeq(entries, Cardinality(entries)) :
            /\ IsInjective(s)
            /\ sure \subseteq Range(s)
            /\ \A i, j \in DOMAIN s : i < j => ~Under(s[j], s[i])}

Tell(made, written, last) ==
    \E s \in Reports(made, written) :
        queue' = queue \o FlattenSeq([i \in DOMAIN s |-> EventsOf(made, s[i])])
                       \o last

(* The user creates a file, and the folders it lies in. *)
UserCreate ==
    \E p \in Inbox, d \in Data \ arrived :
        LET made == MkdirAll(p.dir) \ dirs
        IN  /\ ~Exists(p) /\ ~Blocked(p.dir)
            /\ fs' = [fs EXCEPT ![p] = {d}]
            /\ dirs' = dirs \cup made
            /\ arrived' = arrived \cup {d}
            /\ Tell(made, {p}, <<>>)
            /\ UNCHANGED <<trash, task, job, scans, forfeit>>

(* The user moves a file in from where nobody watches: inotify's MOVED_TO,
   which notify makes a Modify event of. *)
UserMoveIn ==
    \E p \in MovedIn, d \in Data \ arrived :
        /\ ~Exists(p) /\ p.dir \in dirs
        /\ fs' = [fs EXCEPT ![p] = {d}]
        /\ arrived' = arrived \cup {d}
        /\ queue' = queue \o Event("modify", p)
        /\ UNCHANGED <<dirs, trash, task, job, scans, forfeit>>

UserRemove ==
    \E p \in Taken :
        /\ IsFile(p)
        /\ fs' = [fs EXCEPT ![p] = Absent]
        /\ forfeit' = forfeit \cup fs[p]
        /\ queue' = queue \o Event("delete", p)
        /\ UNCHANGED <<dirs, trash, task, job, scans, arrived>>
----------------------------------------------------------------------------
(* The tasks that pick files *)

Idle(w)      == job[w].pc = "idle"
JobIs(w, j)  == job' = [job EXCEPT ![w] = j]
TaskIs(w, t) == task' = [task EXCEPT ![w] = t]

KindOf(p) == IF IsFolder(p) THEN "folder" ELSE "file"

(* Mutant: the first rule is looked for at index 0. *)
StartFile_from_zero(w, p) ==
    IF Exists(p)
    THEN JobIs(w, [IdleJob EXCEPT !.pc = "rules", !.path = p, !.cur = p,
                       !.kind = KindOf(p), !.own = DataAt(p), !.rule = 0])
    ELSE UNCHANGED job

(* process_file returns at once when the path is gone; otherwise it takes one
   FileInfo, of a file or a folder, which every rule is then matched against. *)
StartFile(w, p) ==
    IF Exists(p)
    THEN JobIs(w, [IdleJob EXCEPT !.pc = "rules", !.path = p, !.cur = p,
                       !.kind = KindOf(p), !.own = DataAt(p)])
    ELSE UNCHANGED job

(* Mutant: every rule has to have the trigger. *)
Triggers_all(kind) ==
    \/ kind = "add"    /\ \A i \in DOMAIN Rules : Rules[i].on_add
    \/ kind = "modify" /\ \A i \in DOMAIN Rules : Rules[i].on_modify

(* Mutant: on_modify is not looked at. *)
Triggers_add_only(kind) == kind = "add" /\ \E i \in DOMAIN Rules : Rules[i].on_add

(* process_event: an event is worth a look when some rule, whichever, has
   its trigger; then all rules are run, as on every other path. *)
Triggers(kind) ==
    \/ kind = "add"    /\ \E i \in DOMAIN Rules : Rules[i].on_add
    \/ kind = "modify" /\ \E i \in DOMAIN Rules : Rules[i].on_modify

TakeEvent(w) ==
    /\ w = Watcher
    /\ Idle(w)
    /\ queue # <<>>
    /\ queue' = Tail(queue)
    /\ IF Triggers(Head(queue).kind)
       THEN StartFile(w, Head(queue).path)
       ELSE UNCHANGED job
    /\ UNCHANGED <<disk, task, scans, arrived, forfeit>>

StartScan(w) ==
    /\ w # Watcher
    /\ Idle(w) /\ task[w].plan = <<>> /\ task[w].todo = {}
    /\ scans < MaxScans
    /\ scans' = scans + 1
    /\ \E s \in Scans :
        TaskIs(w, [task[w] EXCEPT !.plan = s.folders, !.rules = s.rules])
    /\ UNCHANGED <<disk, queue, job, arrived, forfeit>>

(* Mutant: the folder stays on the list. *)
ListFolder_again(w) ==
    /\ Idle(w) /\ task[w].plan # <<>> /\ task[w].todo = {}
    /\ TaskIs(w, [task[w] EXCEPT !.base = Head(task[w].plan).path,
            !.todo = {p \in OnDisk : FullPath(p) \in scan_folder_files(
                Tree, {FullPath(q) : q \in OnDisk}, Head(task[w].plan))}])
    /\ UNCHANGED <<disk, queue, job, scans, arrived, forfeit>>

(* scan_folder_files lists the files of the whole folder, and no folders,
   before the first file is done. *)
ListFolder(w) ==
    /\ Idle(w) /\ task[w].plan # <<>> /\ task[w].todo = {}
    /\ LET folder == Head(task[w].plan)
           files  == {FullPath(p) : p \in OnDisk}
           listed == scan_folder_files(Tree, files, folder)
       IN  TaskIs(w, [task[w] EXCEPT
                !.plan = Tail(task[w].plan), !.base = folder.path,
                !.todo = {p \in OnDisk : FullPath(p) \in listed}])
    /\ UNCHANGED <<disk, queue, job, scans, arrived, forfeit>>

TakeFile(w) ==
    /\ Idle(w)
    /\ \E p \in task[w].todo :
        /\ TaskIs(w, [task[w] EXCEPT !.todo = task[w].todo \ {p}])
        /\ StartFile(w, p)
    /\ UNCHANGED <<disk, queue, scans, arrived, forfeit>>
----------------------------------------------------------------------------
(* The rules, one after the other *)

RuleOf(w)   == Rules[task[w].rules[job[w].rule]]
ActionOf(w) == RuleOf(w).actions[job[w].act]

(* The scope gate, then the conditions; the first rule that matches starts
   its chain on the file as it was found. *)
Applies(w) ==
    /\ InScope(Tree, FullPath(job[w].path), RuleOf(w).folders, task[w].base)
    /\ <<job[w].path.name, job[w].kind>> \in RuleOf(w).match

TryRule(w) ==
    /\ job[w].pc = "rules"
    /\ job[w].rule \in DOMAIN task[w].rules
    /\ JobIs(w,
            IF Applies(w)
            THEN [job[w] EXCEPT !.pc = "action", !.act = 1, !.cur = job[w].path,
                    !.acted = Append(job[w].acted, task[w].rules[job[w].rule])]
            ELSE [job[w] EXCEPT !.rule = job[w].rule + 1])
    /\ UNCHANGED <<disk, queue, task, scans, arrived, forfeit>>

NoRuleLeft(w) ==
    /\ job[w].pc = "rules"
    /\ job[w].rule \notin DOMAIN task[w].rules
    /\ JobIs(w, IdleJob)
    /\ UNCHANGED <<disk, queue, task, scans, arrived, forfeit>>

(* Mutant: continue_matching is not looked at. *)
EndChain_never_stops(w) ==
    /\ job[w].pc = "action"
    /\ job[w].act \notin DOMAIN RuleOf(w).actions
    /\ JobIs(w, [job[w] EXCEPT !.pc = "rules", !.rule = job[w].rule + 1])
    /\ UNCHANGED <<disk, queue, task, scans, arrived, forfeit>>

(* The chain is over: the next rule, unless this one stops the matching. *)
EndChain(w) ==
    /\ job[w].pc = "action"
    /\ job[w].act \notin DOMAIN RuleOf(w).actions
    /\ JobIs(w, IF RuleOf(w).continue_matching
                THEN [job[w] EXCEPT !.pc = "rules", !.rule = job[w].rule + 1]
                ELSE IdleJob)
    /\ UNCHANGED <<disk, queue, task, scans, arrived, forfeit>>
----------------------------------------------------------------------------
(* The actions of a chain *)

Acting(w, types) ==
    /\ job[w].pc = "action"
    /\ job[w].act \in DOMAIN RuleOf(w).actions
    /\ ActionOf(w).type \in types

(* CompiledRule::apply after an action, successful or not: the chain goes on
   with the next action, on the file `p`. *)
NextAction(w, p) ==
    JobIs(w, [job[w] EXCEPT !.pc = "action", !.act = job[w].act + 1, !.cur = p])

(* Only the destination of a move or a rename becomes the current file, and
   only if something is there. *)
Follow(w, p) ==
    NextAction(w, IF ActionOf(w).type \in {"move", "rename"} /\ Exists(p)
                  THEN p ELSE job[w].cur)

Destination(a, p) ==
    [dir |-> IF a.here THEN p.dir ELSE a.dir, name |-> a.to[p.name]]

(* Mutant: the dry run is not looked at. *)
Choose_live(w, p) == JobIs(w, [job[w] EXCEPT !.pc = "write", !.dest = p])

(* A dry run reports the destination it would use and writes nothing. *)
Choose(w, p) ==
    IF w \in DryWorkers
    THEN Follow(w, p)
    ELSE JobIs(w, [job[w] EXCEPT !.pc = "write", !.dest = p])

(* unique_path: the first of stem_1, stem_2, ... that is free. *)
UniquePath(p, q) ==
    \E k \in DOMAIN Suffixed[p.name] :
        LET Candidate(i) == [p EXCEPT !.name = Suffixed[p.name][i]]
        IN  /\ q = Candidate(k)
            /\ ~Exists(q)
            /\ \A i \in 1..k - 1 : Exists(Candidate(i))

(* The policy `rename`.  When the names end (a bound, where the disk has one
   on their length) the file stays where it is. *)
ChooseFree(w, p) ==
    \/ \E q \in Paths : UniquePath(p, q) /\ Choose(w, q)
    \/ (\A q \in Paths : ~UniquePath(p, q)) /\ NextAction(w, job[w].cur)

(* Mutant: the destination is taken without a look at what is there. *)
Resolve_blind(w) ==
    /\ Acting(w, {"move", "copy", "rename"})
    /\ Choose(w, Destination(ActionOf(w), job[w].cur))
    /\ UNCHANGED <<disk, queue, task, scans, arrived, forfeit>>

(* Mutant: a rename takes the file itself for a conflict. *)
Resolve_self(w) ==
    /\ Acting(w, {"move", "copy", "rename"})
    /\ LET a == ActionOf(w)
           p == Destination(a, job[w].cur)
       IN  \/ ~Exists(p) /\ Choose(w, p)
           \/ Exists(p) /\ a.on_conflict = "overwrite" /\ Choose(w, p)
           \/ Exists(p) /\ a.on_conflict = "skip" /\ Follow(w, p)
           \/ Exists(p) /\ a.on_conflict = "rename" /\ ChooseFree(w, p)
    /\ UNCHANGED <<disk, queue, task, scans, arrived, forfeit>>

(* execute_move, execute_copy and execute_rename up to the write: resolve the
   destination and apply the conflict policy to what is there now. *)
Resolve(w) ==
    /\ Acting(w, {"move", "copy", "rename"})
    /\ LET a == ActionOf(w)
           p == Destination(a, job[w].cur)
           conflict == Exists(p) /\ ~(a.type = "rename" /\ p = job[w].cur)
       IN  \/ ~conflict /\ Choose(w, p)
           \/ conflict /\ a.on_conflict = "overwrite" /\ Choose(w, p)
           \/ conflict /\ a.on_conflict = "skip" /\ Follow(w, p)
           \/ conflict /\ a.on_conflict = "rename" /\ ChooseFree(w, p)
    /\ UNCHANGED <<disk, queue, task, scans, arrived, forfeit>>

(* create_dir_all on the destination's parent; a rename makes no directory. *)
WithParents(a, p) ==
    IF a.create_parents /\ a.type # "rename" /\ ~Blocked(p.dir)
    THEN dirs \cup MkdirAll(p.dir) ELSE dirs

Across(w) == Device[job[w].cur.dir] # Device[job[w].dest.dir]

(* The files below src for which there is a place below p, and whether all
   that is below src fits there.  (What would lie outside of Dirs does not: a
   bound, where the disk has one on the length of a path.) *)
Landing(src, p) ==
    {q \in Files(src) : LET r == Image(src, p, q)
                       IN  r \in Paths /\ ~IsFolder(r) /\ ~Blocked(r.dir)}
Fits(src, p) ==
    /\ Landing(src, p) = Files(src)
    /\ \A d \in Folders(src) : /\ Rebase(src, p, d) \in Dirs
                               /\ ~Blocked(Rebase(src, p, d))
Into(src, p) == IsFolder(src) /\ IsPrefix(FullPath(src), p.dir)

(* What an overwriting write of the files S asks to destroy. *)
Replaced(w, S) ==
    LET src == job[w].cur
        p   == job[w].dest
    IN  IF ActionOf(w).on_conflict = "overwrite" /\ p # src
        THEN UNION {fs[q] : q \in OnDisk \cap {Image(src, p, r) : r \in S}}
        ELSE {}

(* copy_path can start: on a file, in a directory that is there; on a folder,
   whatever directories are missing. *)
CanCopy(w) ==
    LET a   == ActionOf(w)
        src == job[w].cur
        p   == job[w].dest
    IN  /\ job[w].pc = "write"
        /\ a.type = "copy" \/ Across(w)
        /\ \/ IsFile(src) /\ p.dir \in WithParents(a, p) /\ ~IsFolder(p)
           \/ /\ IsFolder(src) /\ ~IsFile(p) /\ ~Blocked(p.dir)
              /\ a.type = "copy" \/ p.dir \in WithParents(a, p)

(* It copies the files `whole`, truncates those of `cut` and makes a directory
   for each of the folders `below`; what is there already stays. *)
CopyContent(w, whole, cut, below) ==
    LET src  == job[w].cur
        p    == job[w].dest
        To(S) == {Image(src, p, q) : q \in S}
        now  == WithParents(ActionOf(w), p)
                \cup (IF IsFolder(src) THEN MkdirAll(FullPath(p)) ELSE {})
                \cup ({Rebase(src, p, d) : d \in below} \cap Dirs)
    IN  /\ fs' = [q \in Paths |-> IF q \in To(cut) THEN {}
                                  ELSE IF q \in To(whole) THEN fs[Image(p, src, q)]
                                  ELSE fs[q]]
        /\ dirs' = now
        /\ Tell(now \ dirs, To(whole \cup cut), <<>>)
        /\ forfeit' = forfeit \cup Replaced(w, whole \cup cut)
        /\ UNCHANGED <<trash, task, scans, arrived>>

Completes(w) ==
    /\ CanCopy(w)
    /\ Fits(job[w].cur, job[w].dest) /\ ~Into(job[w].cur, job[w].dest)

(* execute_copy; a file copied onto itself is empty afterwards. *)
Copy(w) ==
    LET files == Files(job[w].cur)
        self  == job[w].dest = job[w].cur
    IN  /\ Completes(w) /\ ActionOf(w).type = "copy"
        /\ CopyContent(w, IF self THEN {} ELSE files, IF self THEN files ELSE {},
                       Folders(job[w].cur))
        /\ NextAction(w, job[w].cur)

(* execute_move between devices (EXDEV): a copy, then the source goes in a
   step of its own. *)
CopyAcross(w) ==
    /\ Completes(w) /\ ActionOf(w).type # "copy"
    /\ CopyContent(w, Files(job[w].cur), {}, Folders(job[w].cur))
    /\ JobIs(w, [job[w] EXCEPT !.pc = "remove"])

(* A copy that fails half-way leaves some of the files, and a part of one, with
   the folders they lie in.  A folder copied into itself always fails, when
   its own copies have become too deep; only the first of them are kept here. *)
CopyBreaks(w) ==
    LET src == job[w].cur
        Parents(S) == {d \in Folders(src) : \E q \in S : IsPrefix(d, q.dir)}
    IN  /\ CanCopy(w)
        /\ ActionOf(w).type \in MayFail \/ ~Completes(w)
        /\ \E whole \in SUBSET Landing(src, job[w].dest) :
           \E cut \in {{}} \cup {{q} : q \in Landing(src, job[w].dest) \ whole} :
               CopyContent(w, whole, cut, Parents(whole \cup cut))
        /\ NextAction(w, src)

(* rename(2): a file replaces a file, a folder an empty folder, and a folder
   cannot come to lie in itself. *)
CanRename(src, p) ==
    \/ p = src /\ Exists(src)
    \/ IsFile(src) /\ ~IsFolder(p)
    \/ /\ IsFolder(src) /\ ~IsFile(p) /\ ~Into(src, p)
       /\ Files(p) = {} /\ Folders(p) \subseteq {FullPath(p)}

Renamed(src, p) ==
    [q \in Paths |-> IF Under(p, q) /\ Image(p, src, q) \in Files(src)
                    THEN fs[Image(p, src, q)]
                    ELSE IF q \in Files(src) THEN Absent ELSE fs[q]]

(* execute_move and execute_rename on one device: fs::rename, which replaces
   what is at the destination by then. *)
Rename(w) ==
    LET src == job[w].cur
        p   == job[w].dest
        now == WithParents(ActionOf(w), p)
    IN  /\ job[w].pc = "write"
        /\ ActionOf(w).type # "copy" /\ ~Across(w)
        /\ p.dir \in now /\ CanRename(src, p) /\ Fits(src, p)
        /\ fs' = Renamed(src, p)
        /\ dirs' = (now \ Folders(src)) \cup {Rebase(src, p, d) : d \in Folders(src)}
        /\ Tell(now \ dirs, {}, IF p = src THEN <<>>
                                ELSE Event("modify", src) \o Event("modify", p))
        /\ forfeit' = forfeit \cup Replaced(w, Files(src))
        /\ NextAction(w, p)
        /\ UNCHANGED <<trash, task, scans, arrived>>

(* The write does not happen: the source has gone, the directory is not there,
   something else is in the way, or the system call fails.  The parents may
   have been made. *)
WriteFails(w) ==
    LET a   == ActionOf(w)
        src == job[w].cur
        p   == job[w].dest
        now == WithParents(a, p)
    IN  /\ job[w].pc = "write"
        /\ \/ a.type \in MayFail
           \/ (a.type = "copy" \/ Across(w)) /\ ~CanCopy(w)
           \/ /\ a.type # "copy" /\ ~Across(w)
              /\ ~(p.dir \in now /\ CanRename(src, p) /\ Fits(src, p))
        /\ dirs' = now
        /\ Tell(now \ dirs, {}, <<>>)
        /\ NextAction(w, src)
        /\ UNCHANGED <<fs, trash, task, scans, arrived, forfeit>>

(* remove_path: a file, or a folder with all that is in it by now; one that
   fails may have removed some of it.  The watcher passes over the events of
   a removal, so that one stands for all. *)
RemovePath(src, mayFail) ==
    \E gone \in (IF mayFail THEN SUBSET Files(src) ELSE {Files(src)}) :
        /\ fs' = Without(gone)
        /\ dirs' = IF gone = Files(src) THEN dirs \ Folders(src) ELSE dirs
        /\ queue' = queue \o (IF Exists(src) THEN Event("delete", src) ELSE <<>>)

(* The second half of a move between devices.  A failure to remove the source
   is ignored: the move is reported as done and the file is in both places. *)
RemoveSource(w) ==
    /\ job[w].pc = "remove"
    /\ RemovePath(job[w].cur, "move" \in MayFail)
    /\ Follow(w, job[w].dest)
    /\ UNCHANGED <<trash, task, scans, arrived, forfeit>>

(* execute_delete and execute_trash, on whatever the chain's current path
   holds.  Deleting destroys, by consent, the data the rule matched. *)
Discard(w) ==
    /\ Acting(w, {"delete", "trash"})
    /\ LET src == job[w].cur
           a   == ActionOf(w)
       IN  \/ /\ w \in DryWorkers \/ ~Exists(src) \/ a.type \in MayFail
              /\ UNCHANGED <<disk, queue, forfeit>>
           \/ /\ w \notin DryWorkers /\ Exists(src) /\ a.type = "trash"
              /\ RemovePath(src, FALSE)
              /\ trash' = trash \cup DataAt(src)
              /\ UNCHANGED forfeit
           \/ /\ w \notin DryWorkers /\ Exists(src) /\ a.type = "delete"
              /\ RemovePath(src, a.type \in MayFail)
              /\ forfeit' = forfeit \cup (DataAt(src) \cap job[w].own)
              /\ UNCHANGED trash
    /\ NextAction(w, job[w].cur)
    /\ UNCHANGED <<task, scans, arrived>>

(* compress_zip, compress_tar, ...: File::create truncates the archive,
   whatever is there, before the source is read; so it ends up empty when the
   source is missing, is the archive itself, or cannot be read. *)
Archive(src, p) == UNION {fs[q] : q \in Files(src) \ {p}}

(* execute_compress: no conflict policy, and the chain keeps its file. *)
Compress(w) ==
    /\ Acting(w, {"compress"})
    /\ LET a   == ActionOf(w)
           p   == Destination(a, job[w].cur)
           now == WithParents(a, p)
       IN  \/ w \in DryWorkers /\ UNCHANGED <<fs, dirs, queue>>
           \/ /\ w \notin DryWorkers
              /\ p.dir \in now /\ ~IsFolder(p)
              /\ dirs' = now
              /\ Tell(now \ dirs, {p}, <<>>)
              /\ \/ fs' = [fs EXCEPT ![p] = Archive(job[w].cur, p)]
                 \/ a.type \in MayFail /\ fs' = [fs EXCEPT ![p] = {}]
           \/ /\ w \notin DryWorkers
              /\ p.dir \notin now \/ IsFolder(p) \/ a.type \in MayFail
              /\ dirs' = now
              /\ Tell(now \ dirs, {}, <<>>)
              /\ UNCHANGED fs
    /\ NextAction(w, job[w].cur)
    /\ UNCHANGED <<trash, task, scans, arrived, forfeit>>

CreateFolder(w) ==
    /\ Acting(w, {"create_folder"})
    /\ LET dir  == ActionOf(w).dir
           made == MkdirAll(dir) \ dirs
       IN  \/ /\ w \notin DryWorkers /\ ~Blocked(dir)
              /\ dirs' = dirs \cup made
              /\ Tell(made, {}, <<>>)
           \/ (w \in DryWorkers \/ Blocked(dir)) /\ UNCHANGED <<dirs, queue>>
    /\ NextAction(w, job[w].cur)
    /\ UNCHANGED <<fs, trash, task, scans, arrived, forfeit>>

(* execute_log: a line is appended to the log file of the rule, if it names
   one; that nothing could be written is not even reported. *)
AppendLog(w) ==
    /\ Acting(w, {"log"})
    /\ LET a    == ActionOf(w)
           p    == Destination(a, job[w].cur)
           made == MkdirAll(p.dir) \ dirs
       IN  \/ /\ \/ w \in DryWorkers \/ a.here \/ a.type \in MayFail
                 \/ Blocked(p.dir) \/ IsFolder(p)
              /\ UNCHANGED <<fs, dirs, queue>>
           \/ /\ w \notin DryWorkers /\ ~a.here /\ ~Blocked(p.dir) /\ ~IsFolder(p)
              /\ dirs' = dirs \cup made
              /\ fs' = [fs EXCEPT ![p] = IF IsFile(p) THEN fs[p] ELSE {}]
              /\ Tell(made, {p}, <<>>)
    /\ NextAction(w, job[w].cur)
    /\ UNCHANGED <<trash, task, scans, arrived, forfeit>>

(* notify, open, tag (an extended attribute) and set_permissions: no file
   appears, moves or loses its content, and the chain goes on whether or not
   they succeed.  The last two change metadata, which is an event. *)
Touch(w) ==
    /\ Acting(w, {"notify", "tag"})
    /\ LET cur == job[w].cur
           a   == ActionOf(w)
       IN  \/ /\ a.type = "tag" /\ w \notin DryWorkers /\ Exists(cur)
              /\ queue' = queue \o Event("modify", cur)
           \/ /\ \/ a.type = "notify" \/ a.type \in MayFail
                 \/ w \in DryWorkers \/ ~Exists(cur)
              /\ UNCHANGED queue
    /\ NextAction(w, job[w].cur)
    /\ UNCHANGED <<disk, task, scans, arrived, forfeit>>
----------------------------------------------------------------------------
FileStep(w) ==
    \/ TryRule(w) \/ NoRuleLeft(w) \/ EndChain(w)
    \/ Resolve(w) \/ Rename(w) \/ WriteFails(w)
    \/ Copy(w) \/ CopyAcross(w) \/ CopyBreaks(w) \/ RemoveSource(w)
    \/ Discard(w) \/ Compress(w) \/ CreateFolder(w) \/ AppendLog(w) \/ Touch(w)

WorkerStep(w) ==
    \/ TakeEvent(w) \/ ListFolder(w) \/ TakeFile(w) \/ FileStep(w)

User == UserCreate \/ UserMoveIn \/ UserRemove

Next ==
    \/ User
    \/ \E w \in Workers : StartScan(w) \/ WorkerStep(w)

Spec == Init /\ [][Next]_vars

(* Every task that has something to do goes on: tokio polls a ready task and
   the OS runs a ready process.  Nothing obliges the user, and nothing
   obliges anyone to ask for a scan. *)
FairSpec == Spec /\ \A w \in Workers : WF_vars(WorkerStep(w))
----------------------------------------------------------------------------
(* Properties *)

FolderConfigs == (UNION {Rules[i].folders : i \in DOMAIN Rules})
                 \cup (UNION {Range(s.folders) : s \in Scans})

TaskType == [rules : Seq(DOMAIN Rules), plan : Seq(FolderConfigs),
             base : {NoBase} \cup {f.path : f \in FolderConfigs},
             todo : SUBSET Paths]

JobType == [pc : {"idle", "rules", "action", "write", "remove"},
            path : Paths, kind : Kinds, own : SUBSET Data, rule : Nat \ {0},
            act : Nat \ {0}, cur : Paths, dest : Paths,
            acted : Seq(DOMAIN Rules)]

(* The type of every variable: what is on disk, what each worker holds. *)
TypeOK ==
    /\ fs \in [Paths -> Contents]
    /\ dirs \subseteq Dirs
    /\ trash \subseteq Data
    /\ queue \in Seq(EventType)
    /\ task \in [Workers -> TaskType]
    /\ job \in [Workers -> JobType]
    /\ scans \in 0..MaxScans
    /\ arrived \subseteq Data
    /\ forfeit \subseteq Data

(* RuleEngine::process_file runs the rules that match in the order of their
   priorities, each at most once, and runs none after a rule that matched
   without continue_matching - whatever happens to the file meanwhile. *)
AppliedInOrder ==
    \A w \in Workers : \A i, j \in DOMAIN job[w].acted :
        i < j =>
            LET r == job[w].acted[i]
                s == job[w].acted[j]
            IN  /\ r < s
                /\ Rules[r].priority <= Rules[s].priority
                /\ Rules[r].continue_matching

(* "Use --dry-run for any command to preview without touching files"
   (README.md:318): no step of a worker whose engine is dry changes a file,
   a directory or the trash, also while other workers do. *)
DryRunTouchesNothing ==
    [][\A w \in DryWorkers : job'[w] # job[w] => UNCHANGED disk]_vars

(* Nothing is destroyed that nobody asked to destroy: every piece of data the
   user ever had is in some file or in the trash, unless the user removed it,
   a rule deleted the file it matched, or a rule overwrote it by policy. *)
Kept   == trash \cup (UNION {fs[p] : p \in OnDisk})
NoLoss == arrived \subseteq Kept \cup forfeit

(* The directories of projects, by a list of markers. *)
Projects(markers) ==
    {d \in Dirs : \E m \in Marked(markers) : IsPrefix(m, d)}

(* "Doumi refuses to touch: Project roots" (README.md:310-312; engine.rs:76,
   nested_project_tree_is_skipped_by_default): no rule changes a file in one.
   It does, see the run sweep. *)
ProjectsUntouched ==
    [][\A p \in OnDisk : p.dir \in Projects(PROJECT_MARKERS) => fs'[p] = fs[p]]_vars

(* What the gate of process_file does achieve, whatever events, scans and
   earlier actions name: a file in a project is only ever changed together
   with a folder that holds the whole project. *)
OnlyFoldersCarryProjects ==
    [][\A p \in OnDisk : p.dir \in Projects(PROJECT_MARKERS) /\ fs'[p] # fs[p] =>
        \E w \in Workers : LET q == job[w].cur
                           IN  /\ job'[w] # job[w]
                               /\ IsFolder(q) /\ Under(q, p)
                               /\ FullPath(q) \notin Projects(PROJECT_MARKERS)]_vars

(* "If destination exists": rename, skip or overwrite (window.rs:1370): under
   a policy other than overwrite, a write never replaces another file. *)
OnlyOverwriteReplaces ==
    [][\A w \in Workers :
        /\ job[w].pc = "write" /\ job'[w].pc # "write"
        /\ ActionOf(w).on_conflict # "overwrite"
        /\ job[w].dest # job[w].cur /\ IsFile(job[w].dest)
        => fs'[job[w].dest] = fs[job[w].dest]]_vars

(* A scan, once asked for, comes to its end: its folders are listed and its
   files are done (main.rs, scheduler.rs, ipc.rs and the CLI all wait). *)
ScansEnd ==
    \A w \in Workers \ {Watcher} :
        task[w].plan # <<>> ~> task[w].plan = <<>> /\ task[w].todo = {} /\ Idle(w)
=============================================================================
