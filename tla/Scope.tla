------------------------------- MODULE Scope -------------------------------
(***************************************************************************)
(* The scope gate of doumi-core (crates/doumi-core/src/scope.rs): is a     *)
(* path under a watched folder one a rule may act on?                      *)
(*                                                                         *)
(* A path is a sequence of components.  A tree tells what the file system  *)
(* answers about paths:                                                    *)
(*   canon   [paths -> paths], std::fs::canonicalize (links resolved; a    *)
(*           path that cannot be resolved is its own value)                *)
(*   folders the paths that are directories, links to directories included *)
(*   marked  the canonical directories that hold one of PROJECT_MARKERS    *)
(* A folder is the FolderConfig record of a rule.  Everything here is a    *)
(* pure function of the tree: the code reads the disk and keeps no state.  *)
(***************************************************************************)
EXTENDS Integers, Sequences, SequencesExt

(* The names that make a directory the root of a project. *)
PROJECT_MARKERS ==
    {".git", "Cargo.toml", "package.json", "pyproject.toml", "go.mod", "pom.xml",
     "Gemfile", "composer.json", "mix.exs", "deno.json", ".sln", ".csproj",
     ".vbproj", "CMakeLists.txt", "Makefile", "gradle.build", "build.gradle",
     "settings.gradle"}

(* A depth no path has: relative_depth returned None. *)
NoDepth == -1

(* Mutant: the path is not canonicalised, only compared as written. *)
relative_depth_lexical(tree, path, root) ==
    IF IsPrefix(root, path) THEN Len(path) - Len(root) ELSE NoDepth

(* How far below the watched folder a path lies, both sides canonicalised. *)
relative_depth(tree, path, root) ==
    LET p == tree.canon[path]
        r == tree.canon[root]
    IN  IF IsPrefix(r, p) THEN Len(p) - Len(r) ELSE NoDepth

(* The directory find_project_root starts from: the path itself when it is
   a directory, else the canonical form of its lexical parent. *)
SearchStart(tree, path) ==
    tree.canon[IF path \in tree.folders THEN path ELSE Front(path)]

(* Mutant: the search ends before it has looked at the watched folder. *)
find_project_root_below(tree, path, root) ==
    LET cur == SearchStart(tree, path)
        hit == {n \in Len(root) + 1 .. Len(cur) :
                   SubSeq(cur, 1, n) \in tree.marked}
    IN  IF hit = {} THEN <<>>
        ELSE SubSeq(cur, 1, CHOOSE n \in hit : \A m \in hit : m <= n)

(* Mutant: the marker test is negated. *)
find_project_root_negated(tree, path, root) ==
    IF SearchStart(tree, path) \in tree.marked
    THEN <<>> ELSE SearchStart(tree, path)

(* The loop of find_project_root: from the start up to the watched folder,
   the first directory with a marker; <<>> when there is none. *)
find_project_root(tree, path, root) ==
    LET cur == SearchStart(tree, path)
        top == tree.canon[root]
        up[n \in 0..Len(cur)] ==
            LET dir == SubSeq(cur, 1, n)
            IN  IF ~IsPrefix(top, dir)    THEN <<>>
                ELSE IF dir \in tree.marked THEN dir
                ELSE IF dir = top \/ n = 0  THEN <<>>
                ELSE up[n - 1]
    IN  up[Len(cur)]

(* Mutant: a recursive folder is not searched for projects. *)
evaluate_path_scope_recursive(tree, path, folder) ==
    LET depth == relative_depth(tree, path, folder.path)
    IN  IF depth = NoDepth THEN "outside_watched_root"
        ELSE IF ~folder.recursive /\ depth > 1 THEN "nested_folder_protected"
        ELSE "allowed"

(* evaluate_path_scope, in the order of its early returns. *)
evaluate_path_scope(tree, path, folder) ==
    LET depth   == relative_depth(tree, path, folder.path)
        allowed == IF folder.depth > 0 THEN folder.depth ELSE 0
    IN  IF depth = NoDepth
            THEN "outside_watched_root"
        ELSE IF ~folder.recursive /\ depth > 1
            THEN "nested_folder_protected"
        ELSE IF folder.recursive /\ allowed > 0 /\ depth > allowed
            THEN "exceeds_allowed_depth"
        ELSE IF /\ ~folder.allow_project_roots
                /\ find_project_root(tree, path, folder.path) # <<>>
            THEN "project_root_protected"
        ELSE "allowed"

(* The gate of RuleEngine::process_file.  `base` is watched_from: the folder
   a scan started at, or <<>> for a live event.  A rule without folders
   never meets the gate. *)
Considered(folder, base) ==
    base = <<>> \/ folder.path = base \/ IsPrefix(folder.path, base)

InScope(tree, path, folders, base) ==
    \/ folders = {}
    \/ \E f \in folders : /\ Considered(f, base)
                          /\ evaluate_path_scope(tree, path, f) = "allowed"

(* Mutant: the walk stops at the first level. *)
scan_folder_files_flat(tree, files, folder) ==
    {p \in files : Front(p) = folder.path}

(* scan_folder_files: the files a scan of a folder hands to the engine.  A
   recursive walk does not descend into a link to a directory. *)
scan_folder_files(tree, files, folder) ==
    LET root == folder.path
        Real(dir) == tree.canon[dir] = tree.canon[Front(dir)] \o <<Last(dir)>>
    IN  IF ~folder.recursive
            THEN {p \in files : Front(p) = root}
            ELSE {p \in files : /\ IsStrictPrefix(root, p)
                                /\ \A n \in Len(root) + 1 .. Len(p) - 1 :
                                       Real(SubSeq(p, 1, n))}
=============================================================================
