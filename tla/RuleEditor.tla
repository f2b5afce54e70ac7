----------------------------- MODULE RuleEditor -----------------------------
(***************************************************************************)
(* The dialogs "Create Rule" and "Configure Rule" of doumi-gui/src/        *)
(* window.rs: a form with one folder, one condition and one action, filled *)
(* in from a rule and turned into a rule again.                            *)
(*                                                                         *)
(* The form is a record; what a row of choices shows is its label.  The    *)
(* entry of the condition is a text of Conditions with the token ",", that *)
(* of the action is a string, a path is a sequence of components.  Spaces  *)
(* around what is typed are trimmed everywhere and left out here, and so   *)
(* is the description, which is copied both ways.                          *)
(***************************************************************************)
EXTENDS Conditions, Scope

CONSTANTS
    Given,       \* rules that were written by hand
    Typed,       \* texts that may be typed into the condition
    MaxTouches,  \* bound on the changes made to a new form
    MaxEdits,    \* ... and to the form of a rule there is
    UserPaths,   \* the directories and files of the user
    UserTree     \* ... as Scope sees them

VARIABLES
    form,     \* the dialog, or Closed
    rule,     \* the rule in the store, or NoRule
    made,     \* the rule was made by a dialog
    touched,  \* something was changed since the dialog was opened
    touches   \* how often something was changed
editorVars == <<form, rule, made, touched, touches>>

Closed == [dialog |-> "closed"]
NoRule == [id |-> "none"]

Home(name) == <<"home", name>>
StandardFolders ==
    [n \in {"Downloads", "Desktop", "Documents", "Pictures", "Music", "Videos"} |-> Home(n)]

(* f64::from_str for the numbers in use, in halves. *)
Numerals == [text \in {"1.5", "4", "7", "10", "30", "500"} |->
                CASE text = "1.5" -> 3  [] text = "4"  -> 8  [] text = "7"   -> 14
                  [] text = "10"  -> 20 [] text = "30" -> 60 [] text = "500" -> 1000]
Infinite == 2 \* "inf" is a number too, but JSON has none for it
Number(text, default) == CASE text = <<"inf">> -> Infinite
                           [] Len(text) = 1 /\ text[1] \in DOMAIN Numerals -> Numerals[text[1]]
                           [] OTHER -> Numerals[default]
----------------------------------------------------------------------------
(* The rows of the form. *)

(* RuleBuilderWidgets::new. *)
NewForm ==
    [name |-> "Old Items", priority |-> 0, enabled |-> TRUE,
     folder |-> "Downloads", custom |-> Home("Downloads"), recursive |-> FALSE, depth |-> 1,
     on_add |-> TRUE, on_modify |-> FALSE, match |-> "all",
     field |-> "Date modified", operator |-> "is not in the last",
     value |-> <<"4">>, unit |-> "weeks",
     action |-> "Sort into subfolder", text |-> "old items by month", conflict |-> "rename",
     continue_matching |-> FALSE]

(* configure_condition_rows: what the choice of a field fills in. *)
DateTypes == [field \in {"Date modified", "Date created", "Date opened"} |->
                 CASE field = "Date created" -> "created" [] field = "Date opened" -> "accessed"
                   [] OTHER -> "modified"]
configure_condition_rows(f) ==
    CASE f.field = "Any file" -> [f EXCEPT !.value = <<>>]
      [] f.field = "Name" -> [f EXCEPT !.operator = "contains", !.value = <<"invoice">>]
      [] f.field = "Extension" ->
             [f EXCEPT !.operator = "is", !.value = <<"pdf", ",", "docx">>]
      [] f.field = "Kind" -> [f EXCEPT !.operator = "is", !.value = <<"document">>]
      [] f.field \in DOMAIN DateTypes ->
             [f EXCEPT !.operator = "is not in the last", !.value = <<"4">>, !.unit = "weeks"]
      [] f.field = "Size" ->
             [f EXCEPT !.operator = "is larger than", !.value = <<"10">>, !.unit = "MB"]
      [] f.field = "Contents" -> [f EXCEPT !.operator = "contains", !.value = <<>>]
      [] f.field = "Folder or file" -> [f EXCEPT !.operator = "is", !.value = <<"file">>]

(* configure_action_rows: the same for actions; some leave the text alone. *)
ActionTexts ==
    [action \in {"Sort into subfolder", "Move", "Copy", "Rename", "Display notification",
                 "Run shell script", "Log"} |->
        CASE action = "Sort into subfolder" -> "old items by month"
          [] action \in {"Move", "Copy"} -> "organized by kind"
          [] action = "Rename" -> "sorted"
          [] action \in {"Display notification", "Log"} -> "matched"
          [] action = "Run shell script" -> "process-file.sh"]
configure_action_rows(f) ==
    IF f.action \in DOMAIN ActionTexts THEN [f EXCEPT !.text = ActionTexts[f.action]] ELSE f

Fields    == {"Any file", "Name", "Extension", "Kind", "Size", "Contents", "Folder or file"}
             \cup DOMAIN DateTypes
Actions   == DOMAIN ActionTexts \cup {"Trash", "Delete permanently", "Open", "Ignore"}
Operators == {"is", "is not", "contains", "does not contain", "is in the last",
              "is not in the last", "is larger than", "is smaller than"}
Units     == {"minutes", "hours", "days", "weeks", "months", "years", "KB", "MB", "GB"}
----------------------------------------------------------------------------
(* From the form to a rule. *)

folder_path(f) == IF f.folder # "Custom" THEN StandardFolders[f.folder]
                  ELSE IF f.custom = <<>> THEN Home("Downloads") ELSE f.custom

(* csv_values: cut at the commas, without leading dots and empty values. *)
csv_values(text) ==
    LET Kept(values, part) == IF WithoutDots(part) = <<>> THEN values
                              ELSE Append(values, WithoutDots(part))
        cut[n \in 0..Len(text)] ==
            IF n = 0 THEN [values |-> <<>>, part |-> <<>>]
            ELSE IF text[n] = "," THEN [values |-> Kept(cut[n - 1].values, cut[n - 1].part),
                                        part |-> <<>>]
            ELSE [values |-> cut[n - 1].values, part |-> Append(cut[n - 1].part, text[n])]
    IN  Kept(cut[Len(text)].values, cut[Len(text)].part)

value_or_default(value, default) == IF Len(value) = 0 THEN default ELSE value

(* What a label stands for in the types of conditions that know it. *)
string_operator(label) == CASE label = "is not"   -> "is_not"
                            [] label = "contains" -> "contains"
                            [] label = "does not contain" -> "not_contains"
                            [] OTHER -> "is"
list_operator(label) == IF label \in {"is not", "does not contain"}
                        THEN "is_not_one_of" ELSE "is_one_of"
age_operator(label)  == IF label = "is in the last" THEN "newer_than" ELSE "older_than"
size_operator(label) == IF label = "is smaller than" THEN "less_than" ELSE "greater_than"
text_operator(label) == IF label = "does not contain" THEN "not_contains" ELSE "contains"
time_unit(label) == IF label \in {"minutes", "hours", "weeks", "months", "years"}
                    THEN label ELSE "days"
size_unit(label) == CASE label = "KB" -> "kb" [] label = "GB" -> "gb" [] OTHER -> "mb"

(* condition_json, as the items of the group around it. *)
condition_json(f) ==
    CASE f.field = "Any file" -> <<>>
      [] f.field = "Name" ->
           <<[type |-> "name", operator |-> string_operator(f.operator),
              value |-> <<value_or_default(f.value, <<"*">>)>>, case_sensitive |-> FALSE]>>
      [] f.field = "Extension" ->
           <<[type |-> "extension", operator |-> list_operator(f.operator),
              value |-> csv_values(value_or_default(f.value, <<"pdf">>))]>>
      [] f.field = "Kind" ->
           <<[type |-> "kind", operator |-> list_operator(f.operator),
              value |-> csv_values(value_or_default(f.value, <<"document">>))]>>
      [] f.field \in DOMAIN DateTypes ->
           <<[type |-> "age", operator |-> age_operator(f.operator),
              value |-> Number(f.value, "4"), unit |-> time_unit(f.unit),
              date_type |-> DateTypes[f.field]]>>
      [] f.field = "Size" ->
           <<[type |-> "size", operator |-> size_operator(f.operator), range |-> FALSE,
              value |-> <<Number(f.value, "10")>>, unit |-> size_unit(f.unit)]>>
      [] f.field = "Contents" ->
           <<[type |-> "content", operator |-> text_operator(f.operator), value |-> f.value]>>
      [] f.field = "Folder or file" ->
           <<[type |-> "is_directory",
              value |-> f.value \in {<<"folder">>, <<"directory">>, <<"true">>, <<"yes">>}]>>

action_json(f) ==
    LET text(default) == IF f.text = "" THEN default ELSE f.text
        To(type) == [type |-> type, destination |-> text("organized by kind"),
                     on_conflict |-> f.conflict, create_parents |-> TRUE]
    IN  CASE f.action \in {"Sort into subfolder", "Move"} -> To("move")
          [] f.action = "Copy"   -> To("copy")
          [] f.action = "Rename" -> [type |-> "rename", pattern |-> text("sorted"),
                                     on_conflict |-> f.conflict]
          [] f.action = "Trash"  -> [type |-> "trash"]
          [] f.action = "Delete permanently" -> [type |-> "delete", recursive |-> FALSE]
          [] f.action = "Display notification" ->
                 [type |-> "notify", title |-> "Doumi", body |-> text("matched")]
          [] f.action = "Run shell script" ->
                 [type |-> "run_script", command |-> text("process-file.sh"),
                  args |-> <<"{path}">>, interpreter |-> "bash"]
          [] f.action = "Log"    -> [type |-> "log", message |-> text("matched")]
          [] f.action = "Open"   -> [type |-> "open"]
          [] f.action = "Ignore" -> [type |-> "log", message |-> "ignored"]

(* build_rule_json and what serde makes of it. *)
build_rule_json(f) ==
    [name |-> f.name, enabled |-> f.enabled, priority |-> f.priority,
     folders |-> <<[path |-> folder_path(f), recursive |-> f.recursive, depth |-> f.depth,
                    allow_project_roots |-> FALSE]>>,
     triggers |-> [on_add |-> f.on_add, on_modify |-> f.on_modify, on_delete |-> FALSE,
                   schedule |-> ""],
     conditions |-> deserialize([type |-> "group", match |-> f.match,
                                 items |-> condition_json(f)]),
     actions |-> <<action_json(f)>>, continue_matching |-> f.continue_matching]

IsInfinite(f) == f.field \in DOMAIN DateTypes \cup {"Size"} /\ f.value = <<"inf">>
----------------------------------------------------------------------------
(* From a rule to the form. *)

(* Mutant: the text of a custom folder is not put into its entry. *)
set_folder_choice_unset(f, path) ==
    LET labels == {n \in DOMAIN StandardFolders : StandardFolders[n] = path}
    IN  IF labels # {} THEN [f EXCEPT !.folder = CHOOSE n \in labels : TRUE]
        ELSE [f EXCEPT !.folder = "Custom"]

set_folder_choice(f, path) ==
    LET labels == {n \in DOMAIN StandardFolders : StandardFolders[n] = path}
    IN  IF labels # {} THEN [f EXCEPT !.folder = CHOOSE n \in labels : TRUE]
        ELSE [f EXCEPT !.folder = "Custom", !.custom = path]

(* The label of each operator a form can show, by the name it is written by;
   the others are shown as another one. *)
string_op_index(op) == CASE op = "is_not"   -> "is not"
                         [] op = "contains" -> "contains"
                         [] op = "not_contains" -> "does not contain"
                         [] OTHER -> "is"

(* Mutant: only one of the two names of "is not" is known. *)
list_op_index_one(op) == IF op = "is_not" THEN "is not" ELSE "is"

list_op_index(op) == IF op \in {"is_not", "is_not_one_of"} THEN "is not" ELSE "is"
age_op_index(op)  == IF op = "newer_than" THEN "is in the last" ELSE "is not in the last"
size_op_index(op) == IF op = "less_than" THEN "is smaller than" ELSE "is larger than"
text_op_index(op) == IF op = "not_contains" THEN "does not contain" ELSE "contains"

(* set_unit_selection: a unit under another name is taken for days or MB. *)
TimeLabel(unit) == IF unit \in Units \ {"KB", "MB", "GB"} THEN unit ELSE "days"
SizeLabel(unit) == CASE unit = "kb" -> "KB" [] unit = "gb" -> "GB" [] OTHER -> "MB"

(* value_as_entry_text: the texts of a list joined by commas. *)
value_as_entry_text(texts) ==
    LET joined[n \in 0..Len(texts)] ==
            IF n = 0 THEN <<>> ELSE IF n = 1 THEN texts[1]
            ELSE joined[n - 1] \o <<",">> \o texts[n]
    IN  joined[Len(texts)]

numeric_text(halves) == <<CHOOSE n \in DOMAIN Numerals : Numerals[n] = halves>>

(* load_condition_widgets, of the JSON of a condition.  There is no field
   for groups, media types, depth, permissions, links and scripts. *)
FieldOf(c) ==
    CASE c.type = "name" -> "Name"           [] c.type = "extension" -> "Extension"
      [] c.type = "kind" -> "Kind"           [] c.type = "size" -> "Size"
      [] c.type = "content" -> "Contents"    [] c.type = "is_directory" -> "Folder or file"
      [] c.type = "age" -> (CASE c.date_type = "created" -> "Date created"
                              [] c.date_type = "accessed" -> "Date opened"
                              [] OTHER -> "Date modified")
      [] OTHER -> "Any file"

load_condition_widgets(f, c) ==
    LET rows == configure_condition_rows([f EXCEPT !.field = FieldOf(c)])
    IN  CASE c.type = "name" ->
               [rows EXCEPT !.operator = string_op_index(c.operator),
                            !.value = value_as_entry_text(c.value)]
          [] c.type \in {"extension", "kind"} ->
               [rows EXCEPT !.operator = list_op_index(c.operator),
                            !.value = value_as_entry_text(c.value)]
          [] c.type = "age" ->
               [rows EXCEPT !.operator = age_op_index(c.operator),
                            !.value = numeric_text(c.value), !.unit = TimeLabel(c.unit)]
          [] c.type = "size" ->
               [rows EXCEPT !.operator = size_op_index(c.operator),
                            !.value = IF c.range THEN <<"10">> ELSE numeric_text(c.value[1]),
                            !.unit = SizeLabel(c.unit)]
          [] c.type = "content" ->
               [rows EXCEPT !.operator = text_op_index(c.operator), !.value = c.value]
          [] c.type = "is_directory" ->
               [rows EXCEPT !.value = IF c.value THEN <<"folder">> ELSE <<"file">>]
          [] OTHER -> rows

(* load_action_widgets: an action without a row is shown as "Ignore". *)
ActionLabels ==
    [move |-> "Move", copy |-> "Copy", rename |-> "Rename", trash |-> "Trash",
     delete |-> "Delete permanently", notify |-> "Display notification",
     run_script |-> "Run shell script", log |-> "Log", open |-> "Open"]

load_action_widgets(f, a) ==
    LET label == IF a.type \in DOMAIN ActionLabels THEN ActionLabels[a.type] ELSE "Ignore"
        rows  == configure_action_rows([f EXCEPT !.action = label])
    IN  CASE a.type \in {"move", "copy"} ->
               [rows EXCEPT !.text = a.destination, !.conflict = a.on_conflict]
          [] a.type = "rename" -> [rows EXCEPT !.text = a.pattern, !.conflict = a.on_conflict]
          [] a.type = "notify" -> [rows EXCEPT !.text = a.body]
          [] a.type = "run_script" -> [rows EXCEPT !.text = a.command]
          [] a.type = "log" -> [rows EXCEPT !.text = a.message]
          [] OTHER -> rows

(* load_rule: the first folder, condition and action.  A rule without a
   condition gets the rows of the field that happens to be chosen. *)
Clamp(n, low, high) == IF n < low THEN low ELSE IF n > high THEN high ELSE n

load_rule(r) ==
    LET root   == serialize(r.conditions)
        group  == root.type = "group"
        basics == [NewForm EXCEPT !.name = r.name, !.priority = Clamp(r.priority, -100, 100),
                      !.enabled = r.enabled, !.on_add = r.triggers.on_add,
                      !.on_modify = r.triggers.on_modify,
                      !.continue_matching = r.continue_matching,
                      !.match = IF group THEN root.match ELSE @]
        placed == IF r.folders = <<>> THEN basics
                  ELSE [set_folder_choice(basics, r.folders[1].path) EXCEPT
                           !.recursive = r.folders[1].recursive,
                           !.depth = Clamp(r.folders[1].depth, 1, 25)]
        asked  == IF group /\ root.items # <<>>
                  THEN load_condition_widgets(placed, root.items[1])
                  ELSE configure_condition_rows(placed)
    IN  IF r.actions # <<>> THEN load_action_widgets(asked, r.actions[1])
        ELSE configure_action_rows(asked)
----------------------------------------------------------------------------
(* The dialogs. *)

EditorInit ==
    /\ form = Closed
    /\ rule \in Given \cup {NoRule}
    /\ made = FALSE /\ touched = FALSE /\ touches = 0

(* show_new_rule_dialog and show_edit_rule_dialog. *)
Open ==
    /\ form = Closed
    /\ form' = IF rule = NoRule THEN NewForm ELSE load_rule(rule)
    /\ touched' = FALSE
    /\ UNCHANGED <<rule, made, touches>>

(* What can be chosen, switched or typed, row by row; all operators are
   offered for all fields. *)
Offered ==
    [name |-> {"", "Old Items"}, priority |-> {0, 100}, enabled |-> BOOLEAN,
     folder |-> DOMAIN StandardFolders \cup {"Custom"},
     custom |-> {<<>>, Home("Desktop"), Home("x")},
     recursive |-> BOOLEAN, depth |-> {1, 25}, on_add |-> BOOLEAN, on_modify |-> BOOLEAN,
     match |-> {"all", "any", "none"}, field |-> Fields, operator |-> Operators,
     value |-> Typed, unit |-> Units, action |-> Actions, text |-> {"", "typed"},
     conflict |-> {"rename", "skip", "overwrite"}, continue_matching |-> BOOLEAN]

(* Folders of rules exist, and have a path. *)
UserFolders == [path : UserPaths \ {<<>>}, recursive : BOOLEAN, depth : Int,
                  allow_project_roots : BOOLEAN]

(* What the entry of the condition can show. *)
FirstTexts ==
    Typed \cup {load_rule(r).value : r \in Given} \cup {<<n>> : n \in DOMAIN Numerals}
    \cup {<<>>, <<"*">>, <<"invoice">>, <<"pdf">>, <<"pdf", ",", "docx">>, <<"document">>,
           <<"file">>, <<"folder">>}
EntryTexts == FirstTexts \cup {value_as_entry_text(csv_values(t)) : t \in FirstTexts}

ASSUME EditorAssumption ==
    /\ \A p \in UserPaths : Len(UserTree.canon[p]) \in Nat
    /\ \A r \in Given : r.folders \in Seq(UserFolders) /\ r.priority \in Int
    /\ {StandardFolders[n] : n \in DOMAIN StandardFolders} \subseteq UserPaths
    /\ Offered.custom \ {<<>>} \subseteq UserPaths
    /\ \A t \in FirstTexts : t \in Seq(ToSet(t))

(* The condition of the form is read and written as any item of a group. *)
ASSUME EditorItemsAssumption ==
    \A field \in Fields, operator \in Operators, value \in EntryTexts, unit \in Units :
        \A c \in ToSet(condition_json([field |-> field, operator |-> operator,
                                        value |-> value, unit |-> unit])) :
            /\ deserialize_item(c) = deserialize(c)
            /\ serialize_item(deserialize(c)) = serialize(deserialize(c))

(* The rows that some choices of others hide. *)
Visible(f, row) ==
    CASE row = "custom" -> f.folder = "Custom"
      [] row = "value"  -> f.field # "Any file"
      [] row = "unit"   -> f.field \in DOMAIN DateTypes \cup {"Size"}
      [] row = "text"   -> f.action \in DOMAIN ActionTexts
      [] row = "conflict" -> f.action \in {"Sort into subfolder", "Move", "Copy", "Rename"}
      [] OTHER -> TRUE

Touch(row) ==
    /\ form # Closed /\ Visible(form, row)
    /\ touches < (IF rule = NoRule THEN MaxTouches ELSE MaxEdits)
    /\ \E new \in Offered[row] \ {form[row]} :
          LET f == [form EXCEPT ![row] = new]
          IN  form' = CASE row = "field"  -> configure_condition_rows(f)
                        [] row = "action" -> configure_action_rows(f)
                        [] OTHER -> f
    /\ touched' = TRUE /\ touches' = touches + 1
    /\ UNCHANGED <<rule, made>>

(* Create or Save; a rule without a name, or one that serde refuses, is not
   saved, and the dialog is closed all the same. *)
SaveForm ==
    /\ form # Closed /\ form' = Closed
    /\ IF form.name = "" \/ IsInfinite(form)
       THEN UNCHANGED <<rule, made>>
       ELSE rule' = build_rule_json(form) /\ made' = TRUE
    /\ UNCHANGED <<touched, touches>>

Cancel ==
    /\ form # Closed /\ form' = Closed
    /\ UNCHANGED <<rule, made, touched, touches>>

EditorNext == Open \/ SaveForm \/ Cancel \/ \E row \in DOMAIN Offered : Touch(row)
EditorSpec == EditorInit /\ [][EditorNext]_editorVars
----------------------------------------------------------------------------
(* A rule that was made in the dialog can be shown in it: opened and saved
   again with nothing touched it stays what it was, in every part, with two
   exceptions.  A rule for any file comes back with the question of a new
   rule (window.rs:1474), and a list of nothing but commas with the default
   of its field. *)
ReopeningKeeps ==
    [][/\ form # Closed /\ form' = Closed
       /\ made /\ ~touched
       /\ \E c \in ToSet(rule.conditions.items) :
              c.type \in {"extension", "kind"} => c.value # <<>>
       => rule' = rule]_editorVars

(* Looking at a rule in the dialog and saving it with nothing touched never
   lets it act on a file it did not act on: folders, recursion and depth that
   the form cannot show are only ever narrowed, whether the rule was made in
   the dialog or by hand. *)
Untouched == form # Closed /\ form' = Closed /\ rule # NoRule /\ ~touched
InScopeOf(r, path) == InScope(UserTree, path, ToSet(r.folders), <<>>)
ScopeOnlyNarrows ==
    [][Untouched => \A p \in UserPaths : InScopeOf(rule', p) => InScopeOf(rule, p)]_editorVars
=============================================================================
