# A verification of Doumi in TLA+

Doumi is a file-automation daemon: rules match files that appear in watched
folders and run chains of actions on them. This directory holds TLA+ models of
the parts of Doumi that carry its logic, the TLC configurations that check
them on small instances, and the theorems about them that TLAPS checks.

    tlc -workers 2 -config Engine.cfg MCRuleEngine   # one run
    tlapm RuleEngineProofs.tla                       # one module of proofs

## The system

| component | source | state it keeps | operations | interacts with | what makes it correct |
|---|---|---|---|---|---|
| scope gate | `doumi-core/src/scope.rs` | none, a function of the disk | `evaluate_path_scope`, `find_project_root`, `scan_folder_files` | called by the engine and by every scan | scans and events agree on which files belong to a folder; nothing outside the folder, or in a project, is let in |
| conditions | `doumi-core/src/conditions/mod.rs`, `models.rs`, `template.rs` | none | reading, writing and evaluating a condition | the engine, the store, the editor | operators that exclude each other do; saving a rule keeps its meaning |
| rule list | `engine.rs:292-318` | the engine's rules | `load_rules`, `reload` | filled from the store | the enabled rules, by priority |
| rule engine | `doumi-core/src/engine.rs` | none besides the rules | `process_file`, `CompiledRule::apply` | the file system; called by watcher, scans, CLI | order of rules, each once; a chain stays with its file; projects are left alone |
| actions | `doumi-core/src/actions/mod.rs` | the file system | one `execute_*` per type | the chain of a rule | nothing is lost that was not to be, of files and of whole folders; dry runs touch nothing |
| preview | `doumi-daemon/src/ipc.rs` | none | `build_rule_preview` | scope, engine; shown by the GUI | shows what the rule will act on, all of it or says so |
| schedules | `doumi-daemon/src/scheduler.rs` | a cron job per rule | `normalize_cron`, `parse_interval_to_cron` | starts scans | a rule that has a job is never late |
| watcher | `doumi-daemon/src/watcher.rs` | watches, a channel of 512 events | `run_watcher`, `process_event` | notify, engine, log | every arrival is processed; what the rules write does not keep it busy for ever |
| scans | `doumi-daemon/src/{main,scheduler,ipc}.rs`, `doumi-cli/src/main.rs` | the list of files of a folder | `startup_scan`, `run_scheduled_scan`, `run_rule`, `rules run` | engine, log | they end; one at a time in a daemon |
| action log | `doumi-daemon/src/db.rs` | two SQLite tables | `log_result`, `purge_old`, `get_recent`, `get_stats` | watcher and scans write, clients read | what is there of a result is its own; the limit holds; readers see whole results |
| daemon | `doumi-daemon/src/{main,state,ipc}.rs` | an engine lock, a database mutex, a watch counter | the IPC commands | clients over a socket | no deadlock; rules change between files, and what a reload has loaded stays loaded |
| daemon lifecycle | `doumi-cli/src/main.rs:241-346`, `doumi-daemon/src/{main,ipc}.rs`, `doumi-gui/src/app.rs` | socket, pid file, signal handlers | boot, shutdown, `daemon start/stop`, the GUI's buttons | processes, signals, settings | a daemon can be found and stopped; a dead one's files are in nobody's way |
| configuration store | `doumi-core/src/{config,loader}.rs` | a JSON file per rule, `settings.json` | `load_all_rules`, `save_rule`, `delete_rule`, `set_setting` | daemon, CLI, GUI, with no lock | no rule is lost; lists are fresh; a setting that was set is heeded |
| CLI | `doumi-cli/src/main.rs` | none | `rules ...`, `daemon ...`, `config set` | store, engine, lifecycle | what it reports holds |
| GUI: lists and switches | `doumi-gui/src/window.rs` | a cached list of rules | toggle, edit, delete, poll | store, daemon | its switches show what is on disk |
| GUI: rule editor | `doumi-gui/src/window.rs:999-2062` | a form | `load_rule`, `build_rule_json`, Create, Save | store | saving what was only looked at changes nothing |
| macOS app | `Mac/Sources/*` | a second engine, watcher and configuration, in Swift | the same, debounced | its own files | (not modelled) |

Four things make the behaviour hard. Every worker (the watcher task, a scan, a
CLI process) runs `process_file` against a file system that others change
between any two system calls. A chain of actions carries on after one of them
failed, and what it writes comes back as events; so does every folder it makes,
and a rule may act on a folder with all that is in it. Rules, settings, log, socket
and pid file are shared by processes that do not lock, with writes that are not
atomic. And the locks of the daemon are held over whole scans, by synchronous
code that also holds a thread of the runtime.

The hazards that follow from this are listed, line by line, in `PROJECT.json`.

## The models

Each definition names its code in `PROJECT.json` ("map"). Mutants, operators
with an underscore in their names such as `Resolve_blind`, stand before the
definition they break and are used by no specification: each shows that some
property notices a plausible bug.

### What a rule means: Scope, Preview, ScopeGate, Conditions, SavedConditions, RuleEditor, Schedule

Modules without processes. `MCRules` puts the first states and steps that
make them worth checking side by side: a behaviour follows one of four sides
(scope with preview, conditions, editor, schedule) while the others rest, for
no code of one writes what another reads.

* `Scope` is `scope.rs` as operators over a tree: what each path canonicalises
  to, which directories exist and which are marked as projects.
* `Preview` is `build_rule_preview` over `Scope`, with `process_file` as far as
  a dry run of one rule goes.
* `ScopeGate` is a disk for both: any tree of directories and files, links to
  files, rules with folders, and markers that come and go under the daemon.
  `MCScope` is the small tree of the runs. Its directories are named as
  `canonicalize` names them, its links lead to files only, and the root
  directory has no name: no rule watches it.
* `Conditions` is `conditions/mod.rs` with serde's reading and writing: every
  type, every alias of an operator, every default, groups in groups, and
  evaluation. Texts are sequences of tokens; a glob has one star, a regular
  expression matches a letter or a class. Amounts are halves of a unit, since
  they are floats that are cut off to integers. The code calls itself for the
  items of a group. Here it calls `deserialize_item`, `serialize_item` and
  `evaluate_item`, constants which the configurations tie to `deserialize`,
  `serialize` and `evaluate` again (`ReadItem`, `WriteItem`, `HoldsItem`): no
  operator is declared recursive, so the module can be proved about.
  `ItemsAssumption`, which TLC evaluates, says of the first two that they are
  tied so; what is proved of `evaluate` does not depend on how it answers for
  an item.
* `SavedConditions` is a condition in a rule file and a file it is asked about;
  its steps save the rule and change the file. `MCConditions` writes the
  conditions and files of the runs.
* `RuleEditor` is the dialog: what each row shows, what choosing fills in,
  which rows are visible, `build_rule_json` and `load_rule`. A behaviour opens,
  touches rows, saves, and opens what it has saved. `UserTree` and `UserPaths`
  are the directories its folders may be in; `MCEditor` gives them, and the
  rules of `Linux/examples/rules`.
* `Schedule` turns an interval into a cron field and a step, and lets a clock
  run through the values of that field, whether or not there is a job. The
  cron library is external: a step beyond the field it may take or refuse, and
  then the rule has no job. So is the calendar (`DaysBefore`).

### RuleList, RuleEngine

`RuleList` is `load_rules`. `RuleEngine` extends `Scope` and models `engine.rs`,
`actions/mod.rs` and the workers that drive them.

* `fs`, the directories and the trash are the disk. Content is a set of data:
  a copy or an archive holds the data of its source, a truncated file none. So
  "nothing is lost" can be said of data rather than of names.
* `process_file` is given files and folders alike, as the watcher hands on the
  events of both; a scan lists files only. What a move, copy, rename, trash,
  delete or archive of a folder does to all that is below it is one operator
  on the tree (`Files`, `Folders`, `Image`): `rename(2)` takes the tree in one
  step, a copy that breaks leaves any part of it, a removal that fails too.
* `task[w]` is what a worker still has to do (folders to list, files of the
  list), `job[w]` where `process_file` stands: the rule, the action, the
  chain's current file, the destination that was chosen. A rule's conditions
  are the names and kinds (file or folder) they hold for, and templates what
  they render to (`to`); `FileInfo` is taken once, so all rules see one kind.
* A move, copy or rename takes (at least) two steps, `Resolve` (which asks
  `exists()` and applies the policy) and a write; a move between devices has a
  third, `RemoveSource`. Between them everybody else may step.
* Every write sends to `queue` the events notify would send, and the watcher
  takes them from there: the feedback of rules is in the model. A file that is
  created gives a Create and then a Modify, one that is renamed or moved in
  from elsewhere a Modify only. Each directory that `create_dir_all` makes
  gives its own Create; what lies in a directory that is itself new may go
  unreported, since it is not watched yet (`Reports` has every order and choice).
* A failing system call (`MayFail`) leaves the disk as the code would: a broken
  copy leaves a part of the tree and an empty file.

`Dirs` are all the directories there may be, a bound: what would lie deeper is a
path too long for the disk. A folder copied into itself always fails, when its
copies have become too deep. `Projects` are the directories at or below a
marker of `PROJECT_MARKERS`. Not modelled: `run_script`, tags kept in sidecar
files on BSD, directories a failing `create_dir_all` leaves behind.

### ActionLog, AtomicLog

`ActionLog` is `db.rs` statement by statement: insert the event, insert each
action (the foreign key may refuse it), count, delete; and the two queries of
`get_recent`. Each task holds its daemon's mutex from the first to the last.
Two daemons have two mutexes and one file. Statements fail, daemons are killed
between statements, the local clock may be set back. `AtomicLog` is the
promise: a result goes in whole, in one step, and out goes what is oldest.
`ActionLog` implements it (`IsAtomicLog`) with one daemon, under the refinement
mapping `VisibleLog`, which is the log as a holder of the mutex sees it: the
event being logged is not visible yet.

### Daemon

The tasks of `doumid` and what they wait for. tokio's `RwLock` and `Mutex`
serve in the order of requests, so each is a queue; a reader behind a waiting
writer waits. Synchronous work (a scan, `process_file`) occupies one of the
runtime's `Threads`; other steps need a free one. The rules are versions; the
channel has a capacity, and notify's thread blocks when it is full. Reloads may
overlap: each reads the rule files (`snap`) before it asks for the engine. The
history variable `settled` is the newest version whose reload was answered while no
other reload was under way with an older one.

### Lifecycle

Processes of `doumid` and of the CLI, and the files they meet in:
`settings.json`, the sockets, the pid files. A daemon's main function (read the
settings, write the pid file, spawn the tasks, install the handlers; abort the
tasks, unlink the socket, unlink the pid file, exit) and its IPC task (look for
the socket, remove it, bind) are two threads of control. The daemons of
`Unlucky` may fail to write their pid, which `main` ignores (`nameless`). A signal kills a
daemon without handlers and is remembered by one with them. `daemon start`
pings and spawns, `daemon stop` reads a pid, signals and unlinks, `config set`
reads all settings, truncates, writes. Crashes may come at any point. The history
variables `crowded` and `swept` say which daemons have had company, `doubtful`
which settings a disturbed set may have spoiled.

### ConfigStore

The directory of rule files and its readers and writers: the GUI with a thread
per flipped switch, CLI commands, an editor, files copied in, `reload`.
`fs::write` is truncate, then write; two writers at once may leave a garbled
file; a writer whose file was unlinked writes nowhere; a save may break off
anywhere. `load_all_rules` reads file by file. The history variables (`touched`,
`doubtful`, `alive`) only serve the properties: they say precisely
when a list may be stale or a rule lost. A rule is in doubt when saves of it
overlap or break off, or when a save of another rule goes to the file it lies
in. Ids that are made safe to the same file name are excluded by
`StoreAssumption`; `delete_rule` is one step.

## The runs

| run | module, cfg | what it shows |
|---|---|---|
| `rules` | MCRules, Rules | scope: `ScanAndLiveAgree`, `AllowedStaysInside`, `NearestMarker`, `MarkersOnlyProtect`, `PreviewComplete`, for every set of markers, link and pair of folders of a tree of four directories; conditions: `ExactlyOneHolds`, `SavingKeepsMeaning`, for every type and operator, as it may be spelt, on six kinds of file; editor: `ReopeningKeeps`, `ScopeOnlyNarrows`; schedule: `IntervalsHold` |
| `engine` | MCRuleEngine, Engine | a live watcher and a dry scan on one disk with files, folders and a project, five rules with every type of action and policy, users who create files and folders, move a file in and take files away, two calls that may fail: `AppliedInOrder`, `NoLoss`, `DryRunTouchesNothing`, `OnlyFoldersCarryProjects`; under fairness `ScansEnd`, `ArrivalsHandled`, `ComesToRest` and `FeedsItself` |
| `sweep` | MCRuleEngine, Sweep | **violated**: `ProjectsUntouched`, a folder is trashed with the project in it |
| `race` | MCRuleEngine, Race | **violated**: `OnlyOverwriteReplaces`, two workers find one name free |
| `skip_chain` | MCRuleEngine, SkipChain | **violated**: `ChainKeepsToItsFile`, after a skipped move the chain acts on the file that was in its way |
| `log_one_daemon` | MCActionLog, LogOne | `IsAtomicLog`, `ReadsWhole`, `ResultsGetLogged`: watcher, scan and client, three results, a limit of one entry |
| `log_two_daemons` | MCActionLog, LogTwo | `ActionsHaveEvents`, `PrefixOfResult`, `Bounded`: two watchers in two daemons, two actions per result, the clock set back |
| `daemon` | MCDaemon, Daemon | `OneScan`, `SettledRulesForNewFiles`, `NoDeadlock`, `RulesStable`: two scans, status, logs, two reloads that may overlap, two threads, a channel of one |
| `two_reloads` | MCDaemon, TwoReloads | **violated**: `ReloadApplies`, of two reloads that overlap the one with the older rules comes last, and the edit is not in force |
| `lifecycle` | MCLifecycle, Lifecycle | `SettledIsReachable`, `DryRunIsHeeded`; under fairness `StopStops`, `StaleFilesDoNotBlock`: two daemons, one of which may fail to write its pid, two commands at a time, two socket paths, crashes anywhere |
| `store` | MCConfigStore, Store | `ListsAreFresh`, `NothingLost`: two rules, one id a prefix of the other, three operations, two GUI threads |
| `editor_widens` | MCEditor, EditorWidens | **violated**: `NeverWidens`, a rule that is opened and saved untouched acts on more files |

`ComesToRest` and `FeedsItself` are two halves of one question, whether the
events that rules cause come to an end. In `engine` one rule with `on_modify`
renames what it finds in its own folder to one name, its own results included,
under the policy `rename`. With one such file it stops, because a rename
that would lead to the name the file has is none; with two (`Crowded`) the
second goes from `c_1` to `c_2` and back, and the queue is never empty for
good. The other rules that write into the watched folder add nothing to this.

`OnlyFoldersCarryProjects` is what is left of "Doumi refuses to touch: Project
roots" (`README.md:310`): a file in a project changes only together with a
folder that holds the whole project.

**Bounds.** They are the constants `Max...` and the small sets of the `.cfg`s.
The workers matter in pairs (a race needs two); two data that differ tell whose
file is whose; the disk of `engine` has a watched folder, a folder and a project
in it, one place on the same device and one on another, and `move` and
`compress` for the calls that may fail, a move being every way of
writing, half-way included; three results against a limit of one make the purge run twice
and out of order; a channel of one is full with one event; three operations on
the store are the least that let a stale list of one program, a change by a
second and a save by the first follow each other, and three commands let two
daemons start and one be stopped, or two be set against each other. Three
levels of directories are enough for every relation of file, marker and folder.
In the editor three touches of a new form choose a field, an operator and a
value (`MaxTouches`), and one touch of a rule that exists changes it
(`MaxEdits`); its rules are those of `Linux/examples/rules` and twelve others.
`Kilo` is 4 instead of 1024 and `MaxText` 16 bytes instead of a megabyte, so
that every comparison has files on both sides; `MaxNumber` is 62, past the
end of every cron field; the days are those of a common year.

`CHECK_DEADLOCK FALSE` is said where a behaviour may end: `MaxScans`, `MaxOps`,
`MaxResults` run out in engine, log, store and lifecycle, and the system then
idles; in `rules` a clock is followed only until it is past every interval. In
`Daemon` deadlock is checked, since tasks may always ask again. The symmetry of
`Store` is of the two GUI threads and that of `Daemon` of the two scans and of
the two reloads, which nothing distinguishes; neither run checks liveness.

**Fairness.** `RuleEngine` assumes weak fairness of each worker's own steps: a
synchronous loop (a process, or a task on a thread of its own) goes on unless
the process stops. Nothing is assumed of users. `ActionLog` assumes weak
fairness of a task's statements, and strong fairness of the watcher's taking of the mutex,
because tokio's mutex is first come, first served and its holders give it back.
`Lifecycle` assumes weak fairness of every daemon's and every command's steps,
since a process that lives goes on; users, crashes and saves that break off are
under no obligation. `Daemon` assumes none: its queues are explicit, so
progress is the invariant `NoDeadlock` (liveness itself takes TLC too long
there).

**What the runs found.** Beside the five violations above, which contradict
what the repository says (each is quoted in `PROJECT.json`, "findings"), the
models show the following; the properties are stated so as to hold beside it.

* The gate looks for a project from a path upwards only. A folder that holds a
  project is not in one, so a rule for folders trashes, moves or deletes it
  with the project in it (`sweep`), and a folder that a file is created in
  announces itself. `ProjectsUntouched` is proved for rules whose conditions
  hold for files only (`LeavesProjectsAlone`).
* A rule without folders never meets the scope gate (`engine.rs:340`): any scan
  lets it into projects and nested files, and its preview shows nothing. The
  theorem is about rules with folders.
* `setup.py`, which `README.md:313` lists among the markers of projects, is not
  one (`scope.rs:8-28`).
* A file moved into a watched folder arrives as a Modify event
  (`watcher.rs:43-47`), which a rule with `on_add` only - what the editor makes
  of "Files are added" (`window.rs:1282`) - does not ask for: unless another
  rule has `on_modify` or a scan comes by, it stays where it is.
  `ArrivalsHandled` is about files that a Create event announces.
* A move between devices copies a folder and then removes the source, with
  whatever came into it in between (`actions/mod.rs:305-307`, `885-891`); the
  run and the theorem about `NoLoss` have no such arrival.
* `NoLoss` is proved for one live worker (`NothingDestroyed`), and `engine` has
  one beside the dry scan. With two it does not hold, for the reason `race`
  shows.
* A rule that is run later in the list is still given the path at which the
  file was found, which may by then be free or another file's (`engine.rs:381`).
* One reload whose edit names a new folder fails `ReloadApplies` as well:
  watches are registered when the daemon starts and never again (`watcher.rs:31`).
* `Bounded` counts, beside results being logged, those whose logging ended
  without a purge: an insert that fails returns early, and one daemon's purge
  may delete the event another is still logging.
* `ListsAreFresh` and `NothingLost` hold except for files being written and
  rules in doubt; two quick flips of one switch do overlap, each having its own
  thread.
* A switch of the GUI saves to the path at which its list found the rule
  (`window.rs:656`). If that file has become another rule's since - deleted
  by the CLI and another copied in its place - that rule is overwritten
  (`doubtful`).
* Two flips of one switch may be written in the wrong order
  (`window.rs:654-676`), and a flip that is written after the rule was deleted
  (`452`) brings it back.
* A rule in a file that is not named after its id has two files after
  `rules disable`: `save_rule` writes the other one (`config.rs:159`), the
  first still counts, and the rule stays enabled.
* `rules enable` and `rules disable` take the first rule whose id starts with
  what was asked for (`config.rs:164-168`), which may be another rule than the
  one with that id.
* `daemon start` beside a daemon that is busy gives two daemons: the second
  takes the socket, either one removes the other's files when it ends, and
  `daemon stop` ends only the one whose pid is in the file
  (`doumi-cli/src/main.rs:248`, `294-345`). `SettledIsReachable` and `StopStops`
  are about daemons without company.
* A daemon that could not write its pid (`doumi-daemon/src/main.rs:43`) is found
  at its socket, but not by its pid file; `SettledIsReachable` says so much of it.
* A `config set` that is killed between truncation and write leaves an empty
  file, which is read as the defaults, `dry_run = false` among them
  (`config.rs:95-98`). `DryRunIsHeeded` is about sets that nothing disturbed.
* The editor cannot show every condition, and what it cannot show it replaces:
  units such as `week` become days and `bytes` or `tb` megabytes, operators of
  texts other than `is_not`, `contains`, `not_contains` become `is`, lists of
  names one name with commas, unsupported conditions "Any file", unsupported
  actions a `log`, no action at all a move. "Any file" itself, saved and opened
  again, is "not modified in the last 4 weeks" (`window.rs:1474`), which
  `ReopeningKeeps` leaves out. A size or an age of "inf" is a number to Rust and none to JSON, and
  the rule is not saved, without a word.
* `mime_type` reads `not_contains` and always answers no; without
  `case_sensitive` the pattern of `matches_regex` is lower-cased, `\D` and all; the
  example `compress_large` asks for a directory above 500 MB, but directories
  have size 0 and scans list none; the default template of `rename` uses
  `{stem}`, which no template variable provides; the README's operators
  `matches`, `is_before` and `is_in_the_last` are read by no condition under these names.
* An interval comes round too early unless it divides the next larger unit:
  `90m` is every hour, `7d` begins anew with each month (`scheduler.rs:105`).
  `IntervalsHold` says that it is never late, and exact when it divides. An
  interval that gives no job (`0m`, or a step the cron library refuses) is only
  warned about (`scheduler.rs:42-47`): such a rule never runs, and
  `IntervalsHold` is not about it.

## The proofs

| module | theorems | argument |
|---|---|---|
| `RuleEngineProofs`, what holds always | `TypeCorrect`, `InOrder` (`AppliedInOrder`), `DryRunSafe` (`DryRunTouchesNothing`) | `Inv` is `TypeOK`, `JobsInStep` and `InOrderSoFar`. The order of what has been applied is inductive only together with where the worker stands (`JobsInStep`, a lemma's matter): every rule in `acted` lies before the worker's current one in its list, at it while in the chain, and all but the current one continue. A dry worker is never at a write, and what it does elsewhere writes nothing |
| `RuleEngineProofs`, on loss | `NothingDestroyed` (`NoLoss`), for one worker (`OneWorker`), users who do not take files from where they drop them (`UsersApart`) and rules that neither delete nor compress, copy no file onto itself and, unless they overwrite, go where the user drops nothing (`CarefulRules`), with conditions that hold only for names no folder has (`PlainRules(F)`). The rule of `race` is such; that run lacks `OneWorker` | `SafeInv` adds to `Inv`: the place a write aims at is still free, or may be overwritten (`Aims`); between the two halves of a move across devices what is left of the source is in the destination (`Halfway`). `ChainsIn(PlainPaths(F))` says that chains are at files all the while, so that what a write does to a tree comes to one file (`PlainCopy`, `PlainRename`, `PlainRemove`) |
| `RuleEngineProofs`, on projects | `LeavesProjectsAlone` (`ProjectsUntouched`), for any number of workers and scans, if rules are for files only (`PlainRules(F)`) and nobody asks for it (`NobodyAsks(F)`): rules have folders, which neither allow projects nor lie in one, no rule names a project as its destination, users take nothing from projects, and nobody makes a new one. `sweep`, where the property is violated, lacks the first, its rule being for folders too, and the last, its user making a project | `OutsideInv(F)`: the file a chain is at, and the place it is about to write to, are in no project, and the projects there are remain (`StillThere`). The first match is in none because the gate let it through (`GateShelters`): from its directory up to the watched folder the loop found no marker, and above the folder there is none; every later file of the chain is where an action put it |
| `DaemonProofs` | `TypeCorrect`, `ScansAlone` (`OneScan`), `DeadlockFree` (`NoDeadlock`), `ReloadsWait` (`RulesStable`), `SettledRulesLast` (`SettledRulesForNewFiles`), for any number of reloads, overlapping or not | `Inv` says who is in each queue: a task is in the engine's queue, once, from its request to its drop, and as a writer just when it reloads; it is in the mutex's while it waits for it or scans, and who scans is its head. Whoever waits for the mutex has the engine already, so the head of the mutex never waits; and if nobody has asked for the mutex, the head of the engine's queue is served. A version `Lasts` when neither the engine nor any reload under way has an older one: from then on nothing older can come into the engine. `SettledLasts` says that what is settled does, and so does what was settled when the events arrived that are in notify, in the channel or at the watcher |
| `ActionLogProofs`, any daemons | `TypeCorrect`, `ActionsBelong` (`ActionsHaveEvents`), `Prefixes` (`PrefixOfResult`), `StaysBounded` (`Bounded`) | `Inv`: ids are unique and none is above the last one given; no two tasks log under one id; of an event that is being logged exactly the actions `1..k` are stored, `k` being what its task has counted; of any other all, or those before the point at which it was cut short. A task at its delete works with a count that others may have made stale: `BoundInv` keeps for each such task that what it will leave is one less than the limit, the results being logged and the unpurged together allow (`Slack`); the task's own result is that one. Every insert adds an entry and a writer, every early end moves a writer to the unpurged, so the sum is kept |
| `ActionLogProofs`, one daemon | `Implements` (`IsAtomicLog`), `SeesWhole` (`ReadsWhole`) | the refinement. `LoneInv` adds to `Inv`: a task that is not idle holds the mutex, so it is alone; the event being logged stays in the table; what was counted is still true at the delete; results have numbers of their own, of which none is logged twice, so entries that differ in the table differ in the abstract log. Then each step maps: the last insert or the delete to `Add` or `AddUnpruned`, a kill or a failure to `AddUnpruned`, every other to a stutter |
| `LifecycleProofs` | `TypeCorrect`, `Reachable` (`SettledIsReachable`), `Heeded` (`DryRunIsHeeded`) | `Inv`: an undisturbed daemon is the only one that may touch a file, its pid is in the file from the moment it wrote it, unless it could not, its socket is there from the bind. `SetInv`: a set that is alone knows all the values that are certain, and while nobody is between truncate and write the file agrees with what was said of those |
| `ConfigStoreProofs` | `TypeCorrect`, `NoRuleLost` (`NothingLost`), `Freshness` (`ListsAreFresh`) | `StoreInv`: rules lie in their own file or in a copy, on disk, in lists and in saves. `LossInv`: of a rule without doubt, no two saves are under way, and it is on disk or being saved. `FreshInv`: what a list has read of a file it has as the file is, unless it was touched, is being saved or is in doubt |
| `ScopeLemmas` | lemmas only | what loops, folds and flattened sequences come to (`LoopRuns`, `LoopFinds`, `FlattenAll`). The library's rules of induction take an operator as a parameter, which no prover here can instantiate; the lemmas take a least counterexample instead (`LeastNatural`, from the well-foundedness of the finite sets) |
| `RulesProofs`, scope | `FindsNearest` (`NearestMarker`), `StaysInside` (`AllowedStaysInside`), `Protects` (`MarkersOnlyProtect`), `LiveIsScanned` (`ScanAndLiveAgree`) | the loop of `find_project_root` ends at the longest prefix of its start that is marked and not above the folder, or finds none if there is none (`LoopFinds`); so a marker more can only turn "allowed" into "protected". A file that the gate allows under a folder is listed by the walk of that folder, since the directories between are real |
| `RulesProofs`, preview | `PreviewsKeepTheirWord` (`PreviewComplete`) | of a file, then of a folder, then of the folders asked for: the matches shown are those the rule would act on, and a listing is shorter than the limit or says that it was cut (`FileResults`, `ListedAll`, `CutShort`, `FolderResults`, `AskedResults`) |
| `RulesProofs`, schedule | `NeverLate` (`IntervalsHold`) | `ScheduleOK`: what has been waited since the job fired is what has passed of the hour, the day or the month, modulo the step, and so less than the step; a new hour, day or month lets it fire at once. The claim is about schedules that have a job |
| `RulesProofs`, conditions | `OneAnswer` (`ExactlyOneHolds`), `SavedAsMeant` (`SavingKeepsMeaning`) | type by type: what is read has the fields of its type (`ReadFields`), so the tests the operators make are each other's negations (`NameHolds` and its like). A condition without items, written and read again, is the one it was, because each name an operator is written by is one it is read by (`Names`); a group is, if its items are; and if some group were not, one with the least level of nesting would not, whose items are of a lower level (`RoundTrip`) |
| `EditorProofs`, what is shown | `LookingNarrows` (`ScopeOnlyNarrows`) | `ShownIsRule`: as long as nothing was touched the form is what `load_rule` makes of the rule, and a rule of the dialog was made of a form (`IsMade`), whose rows hold what can be chosen or typed there (`IsForm`). The rows for the folder are filled in once and left alone by the loading of condition and action (`SameFolder`), so they say the first folder, its depth cut to 1..25 (`Loaded`); the folder saved from them lets nothing through that the first did not (`Narrower`) |
| `EditorProofs`, what is saved again | `ReopeningIsIdentity` (`ReopeningKeeps`) | on a rule that was made of a form `build_rule_json` undoes `load_rule` (`BuiltAgain`), part by part. A condition the form writes is read as it was written (`PlainRead`, `GroupRead`), its operator has a label that stands for it in its type (`Kept`, `ConditionKept`), its list is joined to a text that is cut into the same list, because no value of it has a comma or begins with a dot (`ReadBack`), and its number is the numeral it was. An action comes back under its own label, with what its entry meant, the default included (`ActionBack`). Loading the condition leaves the rows of the folder alone, and loading the action those of the condition (`ActionRows`) |

They hold for every value of the constants that satisfies the named assumptions
(`RulesAssumption`, `NamesAssumption`, `ScansAssumption`, `DiskAssumption`,
`LogAssumption`, `DaemonAssumption`, `TasksAssumption`, `LifecycleAssumption`,
`UnreadableAssumption`, `StoreAssumption`, `TreeAssumption`,
`FoldersAssumption`, `LimitAssumption`, `ScheduleAssumption`,
`ConditionsAssumption`, `LevelsAssumption`, `EntriesAssumption`,
`ItemsAssumption`, `EditorAssumption`, `EditorItemsAssumption`): any files,
rules, workers, scans, tasks, daemons, threads, commands, folders, paths, trees,
conditions. The assumptions are about types, disjointness of tasks, rules sorted
by priority, which `load_rules` sees to, ids with file names of their own, trees
in which what lies between a directory and a file below it is a directory, and
JSON with the fields and types without which serde refuses it.
`EditorItemsAssumption` is to the editor what `ItemsAssumption` is to rule
files: it ties `deserialize_item` and `serialize_item` to `deserialize` and
`serialize` for the conditions a form can write.

Some theorems assume more, in their statements, and need it: `race` shows what
two workers do to each other, `skip_chain` whose file a deletion after a skipped
conflict would hit, `sweep` what a rule for folders takes along; a copy onto
itself empties the file, `compress` truncates whatever is at its archive's path,
and a rule without folders enters projects.

Every safety property of the passing runs is a theorem, but for two things:
`OnlyFoldersCarryProjects` is only model-checked, and `NoLoss` is checked
on rules that delete and compress, and on one for folders, and proved for careful
rules on files. Only model-checked, too, is liveness (`ComesToRest`,
`FeedsItself`, `ArrivalsHandled`, `ScansEnd`, `ResultsGetLogged`, `StopStops`,
`StaleFilesDoNotBlock`), which is out of the prover's reach, as is ENABLED.
No module that is proved about declares a recursive operator.

## The plan

1. `Scope`, `RuleList`, `RuleEngine`, with files and folders as subjects, and
   their proofs, `NoLoss` and `ProjectsUntouched` among them - done.
2. `ActionLog` with its abstract specification `AtomicLog`; proofs of its
   invariants, of the limit and of the refinement - done.
3. `Daemon`, with reloads that overlap, and its proofs - done.
4. `ConfigStore` with proofs of all its properties - done.
5. `Lifecycle` with the settings file, and proofs of its safety - done.
6. `Conditions`, `Preview`, `RuleEditor`, `Schedule`, `ScopeGate` with proofs of
   all their properties - done.
7. Left: `NoLoss` for rules that delete or act on folders, a proof of
   `OnlyFoldersCarryProjects`; the Swift engine of the macOS app, with
   an abstract chain of actions that both engines implement.

## Not modelled, and why

* The macOS app, CLI and engine: a second program in Swift that shares no code
  with the crates. Its watcher debounces (`Watcher.swift:93`), the one here does
  not.
* What notify does to events before it delivers them, SQLite, tokio and the
  cron library themselves: external, modelled by what the code relies on.
* The Windows branches of CLI and daemon (a port file in place of the socket,
  `taskkill`), which cannot be built along with the ones modelled.
* `run_script` runs arbitrary programs; of the condition `script` only the
  answer counts.
* `get_stats`, the shape of IPC messages, the counters in the reply to a
  preview, the GUI's poll of the status: they only report.
* Views, texts, packaging and installers: no state of the program.
