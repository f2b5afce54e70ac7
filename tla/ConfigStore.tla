---------------------------- MODULE ConfigStore ----------------------------
(***************************************************************************)
(* The rule files (crates/doumi-core/src/config.rs, loader.rs) and the     *)
(* programs that read and write them with no lock between them: the GUI    *)
(* with a thread for every switch that is flipped, the commands of the     *)
(* CLI, and `reload` in the daemon.                                        *)
(*                                                                         *)
(* fs::write opens and truncates, then writes: a file is empty in between, *)
(* two writers at once can leave the tail of the longer text behind the    *)
(* shorter one, and a writer whose file has been unlinked writes nowhere.  *)
(* read_dir yields whatever is there all the while, in any order.          *)
(*                                                                         *)
(* A rule is its id and whether it is enabled.                             *)
(***************************************************************************)
EXTENDS Integers, FiniteSets

CONSTANTS
    Files,      \* names in the directory of the rules
    Ids,        \* ids of rules
    NoId,       \* not an id
    NameOf,     \* [Ids -> Files]: the id made safe, with ".json"
    StartsWith, \* [Ids -> SUBSET Ids]: the ids that start with an id
    Prio,       \* [Ids -> Int]: the priorities
    Copies,     \* names under which the user may copy a rule into the directory
    Clis,       \* `doumi rules` processes
    Threads,    \* the GUI's threads
    Gui,        \* its main loop
    Daemon,     \* the task that answers `reload`
    InitFiles,  \* the files there are at first
    MayBreak,   \* whether a save may fail or be killed
    MaxOps      \* bound: what users do

Loaders == Clis \cup {Gui, Daemon}
Savers  == Clis \cup Threads \cup {Gui}

(* What a name stands for: no file, an empty one, one that does not parse, or
   a rule. *)
Rule == [kind : {"rule"}, id : Ids, on : BOOLEAN]
Nothing(kind) == [kind |-> kind, id |-> NoId, on |-> FALSE]
Missing == Nothing("missing")
Content == Rule \cup {Missing, Nothing("empty"), Nothing("garbled")}
NewRule(id, on) == [kind |-> "rule", id |-> id, on |-> on]

ASSUME StoreAssumption ==
    /\ NoId \notin Ids /\ Files # {}
    /\ Gui # Daemon /\ {Gui, Daemon} \cap Clis = {}
    /\ Threads \cap (Clis \cup {Gui}) = {}
    /\ NameOf \in [Ids -> Files]
    /\ \A i, j \in Ids : NameOf[i] = NameOf[j] => i = j
    /\ StartsWith \in [Ids -> SUBSET Ids] /\ Prio \in [Ids -> Int]
    /\ Copies \subseteq Files \ {NameOf[i] : i \in Ids}
    /\ InitFiles \in [Files -> Rule \cup {Missing}]
    /\ \A f \in Files : InitFiles[f] # Missing =>
        \/ f \in Copies \/ f = NameOf[InitFiles[f].id]
    /\ MaxOps \in Nat /\ MayBreak \in BOOLEAN

VARIABLES
    files,    \* the directory
    load,     \* each reader's list
    save,     \* what each writer is writing
    ask,      \* what each CLI process was asked to set
    ops,      \* how often users have done something
    touched,  \* history: the files written by others since a list was begun
    doubtful, \* history: the rules whose saves overlapped or broke off, or
              \* whose file a save of another rule wrote over
    alive     \* history: the rules saved and not deleted
vars == <<files, load, save, ask, ops, touched, doubtful, alive>>

NoSave == [at |-> "none", file |-> CHOOSE f \in Files : TRUE, rule |-> Missing]
NoList == [f \in Files |-> Missing]
NoAsk  == [id |-> NoId, on |-> FALSE]

(* A writer that will still change a file. *)
Pending(p) == save[p].at \in {"begun", "open"}
Saving(f)  == \E p \in Savers : Pending(p) /\ save[p].file = f
SavingId(id, but) == \E p \in Savers \ but : Pending(p) /\ save[p].rule.id = id

(* A list is begun: the names that are there will be in it. *)
Begin == [pc |-> "reading", seen |-> {}, list |-> NoList,
          must |-> {f \in Files : files[f] # Missing}]

Init ==
    /\ files = InitFiles
    /\ load = [l \in Loaders |-> IF l = Gui THEN Begin
                                 ELSE [Begin EXCEPT !.pc = "idle", !.must = {}]]
    /\ save = [p \in Savers |-> NoSave]
    /\ ask = [c \in Clis |-> NoAsk]
    /\ ops = 0
    /\ touched = [l \in Loaders |-> {}]
    /\ doubtful = {}
    /\ alive = {files[f].id : f \in {g \in Files : files[g] # Missing}}

(* Users do something: a command, a click, an edit. *)
Asked == ops < MaxOps /\ ops' = ops + 1

(* A file changes under everybody's feet.  (The GUI's list knows of what its
   own threads write.) *)
Touch(f, p) ==
    touched' = [l \in Loaders |->
        IF l = Gui /\ p \in Threads THEN touched[l] ELSE touched[l] \cup {f}]
----------------------------------------------------------------------------
(* load_all_rules *)

BeginLoad(l) ==
    /\ load' = [load EXCEPT ![l] = Begin]
    /\ touched' = [touched EXCEPT ![l] = {f \in Files : Saving(f)}]

(* Mutant: a file that does not parse is taken for a rule. *)
Parsed_any(c) == c

(* load_rule_file: a file that does not parse is reported and left out. *)
Parsed(c) == IF c.kind = "rule" THEN c ELSE Missing

(* Mutant: the first file that does not parse ends the list. *)
ReadFile_strict(l) ==
    /\ load[l].pc = "reading"
    /\ \E f \in Files \ load[l].seen :
        /\ files[f] # Missing
        /\ load' = [load EXCEPT
                       ![l].seen = IF files[f].kind = "rule" THEN load[l].seen \cup {f} ELSE Files,
                       ![l].list[f] = Parsed(files[f])]
    /\ UNCHANGED <<files, save, ask, ops, touched, doubtful, alive>>

ReadFile(l) ==
    /\ load[l].pc = "reading"
    /\ \E f \in Files \ load[l].seen :
        /\ files[f] # Missing
        /\ load' = [load EXCEPT ![l].seen = load[l].seen \cup {f},
                                ![l].list[f] = Parsed(files[f])]
    /\ UNCHANGED <<files, save, ask, ops, touched, doubtful, alive>>

(* What was there at first and still is has been read; what has come since,
   perhaps. *)
EndLoad(l) ==
    /\ load[l].pc = "reading"
    /\ \A f \in load[l].must \ load[l].seen : files[f] = Missing
    /\ load' = [load EXCEPT ![l].pc = "done"]
    /\ UNCHANGED <<files, save, ask, ops, touched, doubtful, alive>>
----------------------------------------------------------------------------
(* save_rule_file *)

(* The saves that one of this rule to this file overlaps with, and the rules
   that it puts in doubt: those of these saves and, with them, its own, and the
   rule in whose place it will write. *)
Overlapping(f, id) ==
    {p \in Savers : Pending(p) /\ (save[p].file = f \/ save[p].rule.id = id)}
InDoubt(f, id) ==
    {save[p].rule.id : p \in Overlapping(f, id)}
    \cup {i \in {id} : Overlapping(f, id) # {}}
    \cup {i \in Ids \ {id} : files[f].id = i}

(* p will write a rule to a file. *)
StartSave(p, f, rule) ==
    /\ save' = [save EXCEPT ![p] = [at |-> "begun", file |-> f, rule |-> rule]]
    /\ doubtful' = doubtful \cup InDoubt(f, rule.id)

Truncate(p) ==
    LET f == save[p].file
    IN  /\ save[p].at = "begun"
        /\ files' = [files EXCEPT ![f] = Nothing("empty")]
        /\ save' = [save EXCEPT ![p].at = "open"]
        /\ Touch(f, p)
        /\ UNCHANGED <<load, ask, ops, doubtful, alive>>

(* A text over another one, which may be the longer of the two. *)
Written(old, new) ==
    IF old.kind = "empty" \/ old = new THEN {new} ELSE {new, Nothing("garbled")}

(* The CLI reports what it did; the GUI lists the rules anew. *)
WriteOut(p) ==
    LET f    == save[p].file
        rule == save[p].rule
    IN  /\ save[p].at = "open"
        /\ \E c \in Written(files[f], rule) : files' = [files EXCEPT ![f] = c]
        /\ save' = [save EXCEPT ![p] = NoSave]
        /\ alive' = alive \cup {rule.id}
        /\ ask' = IF p \in Clis THEN [ask EXCEPT ![p] = NoAsk] ELSE ask
        /\ IF p = Gui THEN BeginLoad(Gui) ELSE Touch(f, p) /\ UNCHANGED load
        /\ UNCHANGED <<ops, doubtful>>

(* The file has been unlinked: the text goes nowhere. *)
WriteNowhere(p) ==
    /\ save[p].at = "unlinked"
    /\ save' = [save EXCEPT ![p] = NoSave]
    /\ ask' = IF p \in Clis THEN [ask EXCEPT ![p] = NoAsk] ELSE ask
    /\ IF p = Gui THEN BeginLoad(Gui) ELSE UNCHANGED <<load, touched>>
    /\ UNCHANGED <<files, ops, doubtful, alive>>

(* The save fails, or its process is killed: the rest is not written. *)
BreakOff(p) ==
    /\ MayBreak /\ Pending(p)
    /\ save' = [save EXCEPT ![p] = NoSave]
    /\ doubtful' = doubtful \cup {save[p].rule.id}
    /\ ask' = IF p \in Clis THEN [ask EXCEPT ![p] = NoAsk] ELSE ask
    /\ UNCHANGED <<files, load, ops, touched, alive>>

(* Mutant: the rules whose id starts with the one asked for go too. *)
Doomed_prefix(id) ==
    IF files[NameOf[id]] # Missing THEN {NameOf[id]}
    ELSE {f \in Files : files[f].id \in {id} \cup StartsWith[id]}

(* delete_rule: the file named after the id; if there is none, the first that
   holds the id. *)
Doomed(id) ==
    IF files[NameOf[id]] # Missing THEN {NameOf[id]} ELSE {f \in Files : files[f].id = id}

Unlink(f, id) ==
    /\ files' = [files EXCEPT ![f] = Missing]
    /\ save' = [p \in Savers |-> IF save[p].at = "open" /\ save[p].file = f
                                 THEN [save[p] EXCEPT !.at = "unlinked"] ELSE save[p]]
    /\ alive' = alive \ {id}
----------------------------------------------------------------------------
(* The GUI: its main loop is idle once its list is read. *)

GuiIdle == load[Gui].pc = "done" /\ save[Gui].at = "none"
Listed  == {f \in Files : load[Gui].list[f] # Missing}

(* A switch is flipped: the list at once, the file - where the rule was found -
   by a thread of its own. *)
GuiToggle(t) ==
    /\ GuiIdle /\ Asked /\ save[t].at = "none"
    /\ \E f \in Listed :
        /\ load' = [load EXCEPT ![Gui].list[f].on = ~load[Gui].list[f].on]
        /\ StartSave(t, f, load'[Gui].list[f])
    /\ UNCHANGED <<files, ask, touched, alive>>

(* A rule is edited or created: save_rule, then load_rules. *)
GuiSave ==
    /\ GuiIdle /\ Asked
    /\ \E id \in {load[Gui].list[f].id : f \in Listed} \cup (Ids \ alive), on \in BOOLEAN :
        StartSave(Gui, NameOf[id], NewRule(id, on))
    /\ UNCHANGED <<files, load, ask, touched, alive>>

(* "This permanently deletes the rule file and cannot be undone." *)
GuiDelete ==
    /\ GuiIdle /\ Asked
    /\ \E g \in Listed :
        LET id == load[Gui].list[g].id
        IN  \/ /\ Doomed(id) = {} /\ BeginLoad(Gui)
               /\ UNCHANGED <<files, save, alive>>
            \/ \E f \in Doomed(id) :
                /\ Unlink(f, id)
                /\ load' = [load EXCEPT ![Gui] = [Begin EXCEPT !.must = Begin.must \ {f}]]
                /\ touched' = [l \in Loaders |->
                    IF l = Gui THEN {h \in Files : Saving(h)} ELSE touched[l] \cup {f}]
    /\ UNCHANGED <<ask, doubtful>>

(* The GUI is closed and opened again: its threads end where they are. *)
GuiRestart ==
    LET cutOff == {p \in Threads \cup {Gui} : Pending(p)}
    IN  /\ Asked
        /\ save' = [p \in Savers |-> IF p \in Clis THEN save[p] ELSE NoSave]
        /\ doubtful' = doubtful \cup {save[p].rule.id : p \in cutOff}
        /\ BeginLoad(Gui)
        /\ UNCHANGED <<files, ask, alive>>
----------------------------------------------------------------------------
(* The CLI *)

CliIdle(c) == load[c].pc = "idle" /\ save[c].at = "none"

(* rules enable, rules disable: the rules are listed first. *)
CliToggle(c) ==
    /\ CliIdle(c) /\ Asked
    /\ \E id \in Ids, on \in BOOLEAN : ask' = [ask EXCEPT ![c] = [id |-> id, on |-> on]]
    /\ BeginLoad(c)
    /\ UNCHANGED <<files, save, doubtful, alive>>

(* get_rule_by_id: of the rules whose id is the one asked for or starts with
   it, the first by priority. *)
Found(list, id) ==
    LET fits == {f \in Files : list[f].id \in {id} \cup StartsWith[id]}
    IN  {f \in fits : \A g \in fits : Prio[list[f].id] <= Prio[list[g].id]}

Set(rule, on) == [rule EXCEPT !.on = on]

(* toggle_rule saves the rule under its id, wherever it was found. *)
CliSet(c) ==
    LET found == Found(load[c].list, ask[c].id)
    IN  /\ load[c].pc = "done"
        /\ load' = [load EXCEPT ![c].pc = "idle"]
        /\ \/ /\ found = {}
              /\ ask' = [ask EXCEPT ![c] = NoAsk]
              /\ UNCHANGED <<save, doubtful>>
           \/ \E f \in found :
                LET rule == load[c].list[f]
                IN  StartSave(c, NameOf[rule.id], Set(rule, ask[c].on)) /\ UNCHANGED ask
        /\ UNCHANGED <<files, ops, touched, alive>>

(* rules add: an enabled rule with an id of its own. *)
CliAdd(c) ==
    /\ CliIdle(c) /\ Asked
    /\ \E id \in Ids \ alive : StartSave(c, NameOf[id], NewRule(id, TRUE))
    /\ UNCHANGED <<files, load, ask, touched, alive>>

(* rules import: a rule from elsewhere, under the id it has there. *)
CliImport(c) ==
    /\ CliIdle(c) /\ Asked
    /\ \E rule \in Rule : StartSave(c, NameOf[rule.id], rule)
    /\ UNCHANGED <<files, load, ask, touched, alive>>

(* rules delete *)
CliDelete(c) ==
    /\ CliIdle(c) /\ Asked
    /\ \E id \in Ids : \E f \in Doomed(id) :
        /\ Unlink(f, id)
        /\ Touch(f, c)
    /\ UNCHANGED <<load, ask, doubtful>>
----------------------------------------------------------------------------
(* By hand: an editor replaces a file (`rules edit`), or a rule is copied in,
   as the README of the examples says. *)

EditByHand ==
    /\ Asked
    /\ \E f \in Files :
        /\ files[f].kind = "rule" /\ ~Saving(f)
        /\ files' = [files EXCEPT ![f].on = ~files[f].on]
        /\ touched' = [l \in Loaders |-> touched[l] \cup {f}]
    /\ UNCHANGED <<load, save, ask, doubtful, alive>>

CopyIn ==
    /\ Asked
    /\ \E f \in Copies, rule \in Rule :
        /\ files[f] = Missing
        /\ files' = [files EXCEPT ![f] = rule]
        /\ alive' = alive \cup {rule.id}
        /\ doubtful' = IF Saving(f) THEN doubtful \cup {rule.id} ELSE doubtful
        /\ touched' = [l \in Loaders |-> touched[l] \cup {f}]
    /\ UNCHANGED <<load, save, ask>>

(* `reload` in the daemon: what is listed becomes the engine's rules. *)
Reload ==
    /\ load[Daemon].pc # "reading" /\ Asked
    /\ BeginLoad(Daemon)
    /\ UNCHANGED <<files, save, ask, doubtful, alive>>
----------------------------------------------------------------------------
Next ==
    \/ \E l \in Loaders : ReadFile(l) \/ EndLoad(l)
    \/ \E p \in Savers : Truncate(p) \/ WriteOut(p) \/ WriteNowhere(p) \/ BreakOff(p)
    \/ \E t \in Threads : GuiToggle(t)
    \/ GuiSave \/ GuiDelete \/ GuiRestart
    \/ \E c \in Clis : CliToggle(c) \/ CliSet(c) \/ CliAdd(c) \/ CliImport(c) \/ CliDelete(c)
    \/ EditByHand \/ CopyIn
    \/ Reload

Spec == Init /\ [][Next]_vars
----------------------------------------------------------------------------
(* Properties *)

(* The type of every variable. *)
Listing == [pc : {"idle", "reading", "done"}, seen : SUBSET Files, must : SUBSET Files,
            list : [Files -> Rule \cup {Missing}]]
Writing == [at : {"none", "begun", "open", "unlinked"}, file : Files,
            rule : Rule \cup {Missing}]
TypeOK ==
    /\ files \in [Files -> Content]
    /\ load \in [Loaders -> Listing]
    /\ save \in [Savers -> Writing]
    /\ ask \in [Clis -> [id : Ids \cup {NoId}, on : BOOLEAN]]
    /\ ops \in 0..MaxOps
    /\ touched \in [Loaders -> SUBSET Files]
    /\ doubtful \subseteq Ids /\ alive \subseteq Ids

(* A list of rules - of the GUI, a command or the daemon's engine - has every
   rule as it is on disk, and no other, except where somebody else has written
   since it was begun, a save is under way, or saves of the rule have overlapped
   or broken off.  In particular the switches of the GUI show what its threads
   have written, and a file that does not parse hides no other. *)
ListsAreFresh ==
    \A l \in Loaders : load[l].pc = "done" =>
        \A f \in Files \ touched[l] :
            LET mine == load[l].list[f]
            IN  \/ mine = Parsed(files[f])
                \/ Saving(f)
                \/ {mine.id, files[f].id} \cap doubtful # {}

(* A rule that was saved and not deleted can be read, whatever the programs do
   to it and to others - unless it is being saved, or saves of that rule have
   overlapped or broken off, or a switch of the GUI wrote another rule into
   the file it had been copied to. *)
NothingLost ==
    \A id \in alive \ doubtful :
        \/ \E f \in Files : files[f].id = id
        \/ SavingId(id, {})
=============================================================================
