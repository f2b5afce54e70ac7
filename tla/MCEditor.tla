------------------------------ MODULE MCEditor ------------------------------
(***************************************************************************)
(* The rules of src/Linux/examples/rules, a few others with what the form  *)
(* has no row for, and files that tell rules apart.                        *)
(***************************************************************************)
EXTENDS RuleEditor

Downloads == Home("Downloads")
Flat(path) == [path |-> path, recursive |-> FALSE, depth |-> 1, allow_project_roots |-> FALSE]
Deep(path, depth) == [Flat(path) EXCEPT !.recursive = TRUE, !.depth = depth]

Group(match, items) == [type |-> "group", match |-> match, items |-> items]
Ext(op, values) == [type |-> "extension", operator |-> op, value |-> values]
Older(n, unit) == [type |-> "age", operator |-> "older_than", value |-> n, unit |-> unit,
                   date_type |-> "modified"]
IsDir(b) == [type |-> "is_directory", value |-> b]
OfKind(k) == [type |-> "kind", operator |-> "is", value |-> <<<<k>>>>]

RuleOf(folders, conditions, actions) ==
    [name |-> "Old Items", enabled |-> TRUE, priority |-> 0, folders |-> folders,
     triggers |-> [on_add |-> FALSE, on_modify |-> FALSE, on_delete |-> FALSE,
                   schedule |-> "nightly"],
     conditions |-> deserialize(conditions), actions |-> actions, continue_matching |-> FALSE]

MoveTo(text) == [type |-> "move", destination |-> text, on_conflict |-> "rename",
                 create_parents |-> TRUE]
Delete == [type |-> "delete", recursive |-> FALSE]

archive_downloads ==
    RuleOf(<<Flat(Downloads)>>, Group("all", <<IsDir(FALSE), Older(60, "days")>>),
            <<MoveTo("archive"), [type |-> "notify", title |-> "Doumi", body |-> "archived"]>>)
cleanup_temp ==
    RuleOf(<<Deep(Downloads, 3), Flat(Home("Desktop"))>>,
            Group("any", <<Group("all", <<Ext("is_one_of", <<<<"tmp">>, <<"log">>>>),
                                          Older(14, "days")>>),
                           [type |-> "name", operator |-> "is_one_of",
                            value |-> <<<<"Thumbs", ".", "db">>>>]>>),
            <<Delete>>)
compress_large ==
    RuleOf(<<Flat(Home("x"))>>,
            Group("all", <<IsDir(TRUE), [type |-> "size", operator |-> "greater_than",
                                         range |-> FALSE, value |-> <<1000>>, unit |-> "mb"]>>),
            <<[type |-> "compress", format |-> "tar.gz"], Delete>>)
organize_photos ==
    RuleOf(<<Flat(Downloads), Flat(Home("Desktop"))>>,
            Group("all", <<OfKind("image"), Ext("is_one_of", <<<<"jpg">>, <<"png">>>>)>>),
            <<MoveTo("pictures")>>)

(* A rule for every file, rules without folders, condition group or action,
   and folders of every depth, with and without projects. *)
Others ==
    {RuleOf(<<>>, Group("all", <<>>), <<Delete>>),
     RuleOf(<<Flat(Home("x"))>>, OfKind("image"), <<>>)}
    \cup {RuleOf(<<[Deep(path, depth) EXCEPT !.allow_project_roots = open]>>,
                 Group("all", <<OfKind("image")>>), <<MoveTo("pictures")>>) :
             path \in {Downloads, Home("x")}, depth \in {-1, 0, 1, 2, 30}, open \in BOOLEAN}

GivenRules == {archive_downloads, cleanup_temp, compress_large, organize_photos} \cup Others
TypedTexts == {<<>>, <<",">>, <<"1.5">>, <<"inf">>, <<"folder">>, <<".", "a", ",", "b">>}

(* Three trees of directories, one with a project, the other standard folders
   and a file in each directory. *)
Below(path) == {path, Append(path, "s"), path \o <<"s", "t">>}
HomeDirs == UNION {Below(Home(n)) : n \in {"Downloads", "Desktop", "x"}}
            \cup {StandardFolders[n] : n \in DOMAIN StandardFolders}
HomePaths == HomeDirs \cup {Append(d, "f") : d \in HomeDirs}
home == [canon   |-> [p \in HomePaths |-> p], folders |-> HomeDirs,
         marked  |-> {Append(Downloads, "s")}]

(* Three files of the folder a rule watches. *)
FileAt(name, mime, age) ==
    [path |-> Downloads \o <<name>>, is_dir |-> FALSE, is_symlink |-> FALSE, len |-> 1,
     age |-> [modified |-> age, created |-> age, accessed |-> age], magic |-> mime,
     text |-> NoText, mode |-> {"r"}, accepted |-> {}]
Samples == {from_path(FileAt(<<"a", ".", "tmp">>, <<>>, 10)),
            from_path(FileAt(<<"a", ".", "jpg">>, <<"image/">>, 10)),
            from_path(FileAt(<<"a", ".", "pdf">>, <<"application/", "pdf">>, 3000000))}
Matched(r) == {f \in Samples : evaluate(r.conditions, f)}
----------------------------------------------------------------------------
(* Looking at a rule in the dialog and saving it with nothing touched never
   makes its conditions hold for another file: the README says the dialog
   leaves no need for JSON (README.md:243). *)
NeverWidens == [][Untouched => Matched(rule') \subseteq Matched(rule)]_editorVars
=============================================================================
