---------------------------- MODULE MCRuleEngine ----------------------------
(***************************************************************************)
(* The instances of RuleEngine that TLC checks.  The disk, of which each   *)
(* run has a part:                                                         *)
(*                                                                         *)
(*     /in            watched             /out       on the same device    *)
(*     /in/repo       a project (.git)    /usb       on another device     *)
(*     /in/pack/repo  a project in a folder that is none                   *)
(*     /in/box        a folder with files                                  *)
(***************************************************************************)
EXTENDS RuleEngine, RuleList

CONSTANTS d1, d2, d3, d4, watcher, scanner, cli

In   == <<"in">>
Repo == <<"in", "repo">>
Pack == <<"in", "pack">>
Box  == <<"in", "box">>
Out  == <<"out">>
Usb  == <<"usb">>

MCSuffixed == [n \in Names |->
    CASE n = "a" -> SelectSeq(<<"a_1", "a_2">>, LAMBDA m : m \in Names)
      [] n = "b" -> SelectSeq(<<"b_1">>, LAMBDA m : m \in Names)
      [] n = "c" -> SelectSeq(<<"c_1", "c_2">>, LAMBDA m : m \in Names)
      [] OTHER   -> <<>>]
MCDevice == [d \in Dirs |-> IF Head(d) = "usb" THEN "usb" ELSE "home"]

P(d, n) == [dir |-> d, name |-> n]
Disk(contents) ==
    [p \in Paths |-> IF p \in DOMAIN contents THEN {contents[p]} ELSE Absent]
NoFiles == [p \in Paths |-> Absent]
Nothing == {}

SameName == [n \in Names |-> n]
ToC      == [n \in Names |-> "c"]
Act(type, dir, policy) ==
    [type |-> type, here |-> FALSE, dir |-> dir, to |-> SameName,
     on_conflict |-> policy, create_parents |-> TRUE]
Ren(policy) == [Act("rename", In, policy) EXCEPT !.here = TRUE, !.to = ToC]

Folder(dir, recursive) ==
    [path |-> dir, recursive |-> recursive, depth |-> 0,
     allow_project_roots |-> FALSE]
AFile(names)   == names \X {"file"}
AFolder(names) == names \X {"folder"}

Rule(priority, folders, match, actions, continue) ==
    [enabled |-> TRUE, priority |-> priority, folders |-> folders,
     match |-> match, actions |-> actions, continue_matching |-> continue,
     on_add |-> TRUE, on_modify |-> FALSE]
OnModify(rule) == [rule EXCEPT !.on_modify = TRUE]
----------------------------------------------------------------------------
(* The run engine.  The rules on /in, written in an order that is not theirs:
   one copies what is added and renames it in the folder; one moves, skips and
   lets later rules go on; one, which has no folders and so no gate, moves over
   what is there to another device and trashes; one renames whatever changes in
   the folder, its own results included; the last is for a folder, with a chain
   of every other action; one is disabled.  A project and a folder are in /in. *)
EngineNames == {"a", "a_1", "b", "c", "c_1", "c_2", "box", "repo", ".git"}
EngineDirs  == {In, Box, Repo, Out, Append(Out, "box"), Usb, Append(Usb, "box")}
EngineInitDirs == {In, Repo, Out}
EngineInitFs == Disk(P(In, "c") :> d2 @@ P(Out, "a") :> d3 @@ P(Repo, ".git") :> d4)
EngineInbox == {P(In, "a"), P(Box, "a"), P(Repo, "a")}
InA == {P(In, "a")}
InB == {P(In, "b")}
InC == {P(In, "c")}

EngineConfigs == <<
    Rule(0, {Folder(In, TRUE)}, AFile({"a"}),
         <<Act("copy", Out, "rename"), Ren("rename")>>, FALSE),
    Rule(2, {Folder(In, FALSE)}, AFolder({"box"}) \cup AFile({"c"}),
         <<Act("create_folder", Usb, "rename"), Act("tag", In, "rename"),
           Act("copy", Usb, "skip"), Act("move", Out, "rename"),
           [Act("log", Usb, "rename") EXCEPT !.to = ToC],
           [Act("compress", Out, "rename") EXCEPT !.to = ToC],
           Act("delete", In, "rename")>>, FALSE),
    OnModify(Rule(0, {Folder(In, FALSE), Folder(Out, FALSE)}, AFile({"b"}),
         <<Act("move", Out, "skip")>>, TRUE)),
    Rule(1, {}, AFile({"b"}),
         <<Act("move", Usb, "overwrite"), Act("trash", In, "rename")>>, TRUE),
    [Rule(0, {Folder(In, TRUE)}, Names \X Kinds,
         <<Act("delete", In, "rename")>>, FALSE) EXCEPT !.enabled = FALSE],
    [OnModify(Rule(1, {Folder(In, FALSE)}, AFile({"a", "c", "c_1", "c_2"}),
         <<Ren("rename")>>, FALSE)) EXCEPT !.on_add = FALSE] >>
EngineRules == load_rules(EngineConfigs)

(* `doumi rules run --dry-run` on the last rule and its folder. *)
EngineScans == {[folders |-> <<Folder(In, FALSE)>>, rules |-> <<5>>]}

(* The run race.  Two live workers and two watched folders whose files go to
   the same place under the default policy. *)
FewNames == {"a", "a_1"}
FlatDirs == {In, Out, Usb}
RaceRules == load_rules(<<
    Rule(0, {Folder(In, FALSE), Folder(Usb, FALSE)}, AFile({"a"}),
         <<Act("move", Out, "rename")>>, FALSE) >>)
RaceScans == {[folders |-> <<Folder(Usb, FALSE)>>, rules |-> AllRules]}
RaceInitFs == Disk(P(Usb, "a") :> d4)
RaceInitDirs == {In, Usb}

(* The run skip_chain.  A chain that moves, skipping conflicts, and then
   trashes what it moved. *)
SkipRules == load_rules(<<
    Rule(0, {Folder(In, FALSE)}, AFile({"a"}),
         <<Act("move", Out, "skip"), Act("trash", In, "rename")>>, FALSE) >>)
SkipInitFs == Disk(P(Out, "a") :> d3)
SkipInitDirs == {In, Out}

(* The run sweep.  A rule that trashes what is added, and a project that comes
   to be in a folder of the watched one. *)
SweepNames == {"a", "pack", "repo", ".git"}
SweepDirs  == {In, Repo, Pack, Append(Pack, "repo")}
SweepInitDirs == {In, Repo}
SweepInitFs == Disk(P(Repo, ".git") :> d4)
SweepInbox == {P(Repo, "a"), P(Append(Pack, "repo"), ".git"), P(Append(Pack, "repo"), "a")}
SweepRules == load_rules(<<
    Rule(0, {Folder(In, TRUE)}, Names \X Kinds, <<Act("trash", In, "rename")>>, FALSE) >>)
----------------------------------------------------------------------------
Handled(p) == ~Exists(p) \/ \E w \in Workers : job[w].path = p /\ job[w].acted # <<>>

(* No arrival is forgotten, whatever else is in the channel and whatever fails:
   a file in the watched folder whose Create event is waiting has a rule
   applied to it, or is gone by the time its turn comes.  (Every such name in
   the inbox matches a rule.) *)
ArrivalsHandled ==
    \A p \in {q \in Inbox : q.dir = In} :
        /\ Exists(p)
        /\ \E i \in DOMAIN queue : queue[i] = [kind |-> "add", path |-> p]
        ~> Handled(p)

(* A rule with on_modify renames whatever it meets to one name, c; this is when
   that file and a second one it has renamed are both there. *)
Crowded == Exists(P(In, "c")) /\ \E n \in {"c_1", "c_2"} : Exists(P(In, n))

(* The watcher comes to rest: the events its own rules cause do not keep it
   busy for ever, unless two files want the name c for good. *)
ComesToRest ==
    \/ <>[](queue = <<>> /\ \A w \in Workers : Idle(w))
    \/ <>[]Crowded

(* Then it does not, under the policy rename: the second file is c_1, is met
   again as such, finds c and c_1 taken and becomes c_2, then c_1 again, and so
   on for ever (template.rs:137, watcher.rs:43). *)
FeedsItself == <>[]Crowded => []<>(queue # <<>>)

(* "Update current FileInfo if move/rename succeeded" (engine.rs:267): what a
   chain acts on is, if it is still there, what its rule matched.
   (Checked with one worker and a user who only adds files.) *)
ChainKeepsToItsFile ==
    \A w \in Workers :
        job[w].pc = "action" /\ Exists(job[w].cur) => DataAt(job[w].cur) \cap job[w].own # {}
=============================================================================
