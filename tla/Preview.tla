------------------------------ MODULE Preview ------------------------------
(***************************************************************************)
(* What a client is shown of a rule before it runs: build_rule_preview of  *)
(* crates/doumi-daemon/src/ipc.rs, with RuleEngine::process_file as far as *)
(* it goes in a dry run of one rule.                                       *)
(*                                                                         *)
(* A rule is a record with the sequence `folders` and the set `matches` of *)
(* the paths its conditions hold for.  A disk is a tree of Scope with the  *)
(* files on it.  A result is an outcome for a path: "match" or a reason    *)
(* for skipping it.                                                        *)
(***************************************************************************)
EXTENDS Scope, FiniteSetsExt

(* A set as a sequence, in one order or another. *)
Listed(S) == FoldSet(LAMBDA x, seq : Append(seq, x), <<>>, S)

(* process_file: nothing for a path that is outside of all folders or that
   the conditions do not hold for; a protected file is reported with the
   reason of the first folder that has one. *)
process_file(tree, rule, path, base) ==
    LET decision(i) == evaluate_path_scope(tree, path, rule.folders[i])
        reasons == {i \in DOMAIN rule.folders : /\ Considered(rule.folders[i], base)
                                                /\ decision(i) # "outside_watched_root"}
    IN  IF InScope(tree, path, ToSet(rule.folders), base)
        THEN IF path \in rule.matches THEN <<[path |-> path, outcome |-> "match"]>> ELSE <<>>
        ELSE IF reasons = {} THEN <<>>
        ELSE <<[path |-> path, outcome |-> decision(Min(reasons))]>>

(* resolve_rule_folders: a folder that was asked for and is none of the
   rule's is shown flat. *)
resolve_rule_folders(rule, asked) ==
    LET same == FlattenSeq([i \in DOMAIN rule.folders |->
                    IF rule.folders[i].path = asked THEN <<rule.folders[i]>> ELSE <<>>])
    IN  IF asked = <<>> THEN rule.folders
        ELSE IF same # <<>> THEN same
        ELSE <<[path |-> asked, recursive |-> FALSE, depth |-> 1,
                allow_project_roots |-> FALSE]>>

(* Mutant: the last result that fits is taken for one too many. *)
append_preview_result_short(preview, result, limit) ==
    IF Len(preview.shown) + 1 >= limit THEN [preview EXCEPT !.truncated = TRUE]
    ELSE [preview EXCEPT !.shown = Append(@, result)]

(* append_preview_result: up to the limit, and one more says so. *)
append_preview_result(preview, result, limit) ==
    IF Len(preview.shown) >= limit THEN [preview EXCEPT !.truncated = TRUE]
    ELSE [preview EXCEPT !.shown = Append(@, result)]

(* What process_file answers about the files a directory walk lists, in any
   order: folder by folder, file by file.  A disabled rule is not loaded. *)
preview_results(tree, files, rule, asked) ==
    LET asked_for == IF rule.enabled THEN resolve_rule_folders(rule, asked) ELSE <<>>
        scan(f) ==
            LET listed == IF f.path \in tree.folders
                          THEN Listed(scan_folder_files(tree, files, f)) ELSE <<>>
            IN  FlattenSeq([i \in DOMAIN listed |->
                               process_file(tree, rule, listed[i], f.path)])
    IN  FlattenSeq([i \in DOMAIN asked_for |-> scan(asked_for[i])])

(* build_rule_preview *)
build_rule_preview(tree, files, rule, asked, limit) ==
    FoldLeft(LAMBDA preview, result : append_preview_result(preview, result, limit),
             [shown |-> <<>>, truncated |-> FALSE],
             preview_results(tree, files, rule, asked))
=============================================================================
