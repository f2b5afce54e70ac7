----------------------------- MODULE ScopeGate -----------------------------
(***************************************************************************)
(* The scope gate and the preview over a disk: a tree of directories with  *)
(* regular files, links to files in some places, and project markers that  *)
(* come and go under the daemon, as `git init` and `rm -r .git` make them. *)
(*                                                                         *)
(* The directories and files are named as std::fs::canonicalize names      *)
(* them.  The root directory has no name here: no rule watches it and no   *)
(* marker is in it.                                                        *)
(***************************************************************************)
EXTENDS Preview

CONSTANTS
    Names,        \* components of paths
    Dirs,         \* directories
    RealFiles,    \* regular files
    Links,        \* where there may be a link to a file
    Targets,      \* what such a link may resolve to
    FolderSets,   \* the folders of the rules there may be
    Wanted,       \* the paths the conditions of a rule hold for
    MaxLimit      \* the greatest limit on the results of a preview

ASSUME TreeAssumption ==
    /\ Dirs \cup RealFiles \cup Links \cup Targets \subseteq Seq(Names) \ {<<>>}
    /\ IsFiniteSet(RealFiles \cup Links)
    /\ Dirs \cap RealFiles = {} /\ Dirs \cap Links = {} /\ RealFiles \cap Links = {}
    /\ \A p \in RealFiles \cup Links : Front(p) \in Dirs
    /\ \A p \in RealFiles, d \in Dirs :
           IsPrefix(d, p) => \A n \in Len(d)..Len(p) - 1 : SubSeq(p, 1, n) \in Dirs

ASSUME FoldersAssumption ==
    /\ FolderSets \subseteq
           (SUBSET [path : Dirs, recursive : BOOLEAN, depth : Int,
                    allow_project_roots : BOOLEAN]) \ {{}}
    /\ \A F \in FolderSets : IsFiniteSet(F)

ASSUME LimitAssumption == MaxLimit \in Nat

VARIABLES
    marked,  \* the directories with a project marker
    target,  \* what each link resolves to; itself where there is none
    folders  \* the folders of a rule
scopeVars == <<marked, target, folders>>

Paths == Dirs \cup RealFiles \cup Links
Files == RealFiles \cup {l \in Links : target[l] # l}

tree == [canon   |-> [p \in Paths |-> IF p \in Links THEN target[p] ELSE p],
         folders |-> Dirs,
         marked  |-> marked]

ScopeInit ==
    /\ marked = {}
    /\ target \in [Links -> Targets \cup Links]
    /\ \A l \in Links : target[l] \in Targets \cup {l}
    /\ folders \in FolderSets

Mark == \E d \in Dirs \ marked : marked' = marked \cup {d}
Unmark == \E d \in marked : marked' = marked \ {d}
ScopeNext == (Mark \/ Unmark) /\ UNCHANGED <<target, folders>>
ScopeSpec == ScopeInit /\ [][ScopeNext]_scopeVars

Allowed(p, f) == evaluate_path_scope(tree, p, f) = "allowed"
----------------------------------------------------------------------------
(* A rule acts on a regular file when an event arrives exactly when some scan
   of the rule's folders would hand it the file and let it through: the two
   paths that engine.rs:140 (live_and_scan_paths_share_project_protection)
   compares on one folder agree for every pair of folders, nested ones
   included.  (A link is left out: an event names the link, and its target
   may lie in another folder of the rule.) *)
ScanAndLiveAgree ==
    \A p \in RealFiles :
        InScope(tree, p, folders, <<>>) <=>
            \E f \in folders : /\ p \in scan_folder_files(tree, Files, f)
                               /\ InScope(tree, p, folders, f.path)

(* Wherever the file really is, an allowed path resolves into the watched
   folder (README.md:315, symlinks pointing outside the watched folder). *)
AllowedStaysInside ==
    \A p \in Files, f \in folders :
        Allowed(p, f) => IsPrefix(tree.canon[f.path], tree.canon[p])

(* The upward search of find_project_root finds exactly the closest marked
   directory between a regular file and the watched folder. *)
NearestMarker ==
    \A p \in RealFiles, f \in folders :
        LET between == {d \in marked : /\ IsPrefix(f.path, d)
                                       /\ IsPrefix(d, Front(p))}
            found   == find_project_root(tree, p, f.path)
        IN  IF between = {}
            THEN found = <<>>
            ELSE /\ found \in between
                 /\ \A d \in between : Len(d) <= Len(found)

(* The preview keeps its word.  Asked about the whole rule it shows as matches
   exactly the regular files that an event would make the rule act on; asked
   about any one directory, it shows nothing as a match that the rule would
   leave alone; and a limit only cuts it short, which it then admits. *)
PreviewComplete ==
    LET rule == [enabled |-> TRUE, folders |-> Listed(folders), matches |-> Wanted]
        results(asked) == preview_results(tree, Files, rule, asked)
        Matches(shown) == {r.path : r \in {s \in ToSet(shown) : s.outcome = "match"}}
        all  == results(<<>>)
        live == {p \in Wanted \cap Files : InScope(tree, p, folders, <<>>)}
    IN  /\ Matches(all) \cap RealFiles = live \cap RealFiles
        /\ \A asked \in Dirs : Matches(results(asked)) \subseteq live
        /\ \A limit \in 0..MaxLimit :
               LET cut == build_rule_preview(tree, Files, rule, <<>>, limit)
               IN  /\ cut.shown = SubSeq(all, 1, Min({limit, Len(all)}))
                   /\ cut.truncated <=> Len(all) > limit

(* Turning a directory into a project never lets a rule touch one file more:
   protection only grows when a marker appears under the daemon. *)
MarkersOnlyProtect ==
    [][marked \subseteq marked' =>
        \A p \in Files : InScope(tree, p, folders, <<>>)' =>
                         InScope(tree, p, folders, <<>>)]_scopeVars
=============================================================================
