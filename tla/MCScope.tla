------------------------------ MODULE MCScope ------------------------------
(***************************************************************************)
(* A small tree on which the scope gate and the preview are checked for    *)
(* every set of project markers, every link and every rule with one or two *)
(* folders:                                                                *)
(*                                                                         *)
(*     /w/f   /w/s/f   /w/s/t/f   /o/f      and perhaps a link /w/l        *)
(***************************************************************************)
EXTENDS ScopeGate

W  == <<"w">>
WS == <<"w", "s">>
WT == <<"w", "s", "t">>
O  == <<"o">>
L  == <<"w", "l">>

TreeNames == {"w", "s", "t", "o", "l", "f"}
TreeDirs  == {W, WS, WT, O}
TreeFiles == {d \o <<"f">> : d \in TreeDirs}
TreeLinks == {L}
LinksTo   == {WS \o <<"f">>, O \o <<"f">>}
NoLinks   == [l \in Links |-> l]

FolderConfigs ==
    [path : {W, WS}, recursive : BOOLEAN, depth : -1..2,
     allow_project_roots : BOOLEAN]
OneOrTwo == {{f, g} : f, g \in FolderConfigs}
NotAtTop  == (TreeFiles \cup TreeLinks) \ {W \o <<"f">>}
=============================================================================
