---------------------------- MODULE MCConditions ----------------------------
(***************************************************************************)
(* Conditions of every type, as somebody may write them, groups of them    *)
(* and groups in groups, and files for which they differ.                  *)
(***************************************************************************)
EXTENDS SavedConditions

TextValues == {<<>>, <<<<"a">>>>, <<<<"A", ".", "b">>, <<"1">>>>, <<<<"\\D">>>>,
               <<<<"*", "b">>>>, <<<<"[">>>>, <<<<".", "b">>>>}
MimeValues == {<<<<"image/">>>>, <<<<"text/", "plain">>, <<"image/">>>>}
KindValues == {<<<<"document">>>>, <<<<"image">>, <<"folder">>>>}

Written ==
    LET With(type, ops, values) == [type : {type}, operator : ops, value : values]
        names(t) == DOMAIN ReadAs[t] \cup {"unheard_of"}
    IN  With("name", names("string"), TextValues)
        \cup [type : {"name"}, operator : names("string"), value : TextValues,
              case_sensitive : {TRUE}]
        \cup With("extension", names("list"), TextValues)
        \cup With("kind", names("list"), KindValues)
        \cup With("mime_type", names("string"), MimeValues)
        \cup [type : {"size"}, operator : names("size"), range : {FALSE},
              value : {<<-1>>, <<3>>, <<8>>}, unit : {"", "kb"}]
        \cup [type : {"size"}, operator : names("size"), range : {TRUE},
              value : {<<>>, <<8>>, <<8, 2>>, <<2, 8>>}, unit : {"", "kb"}]
        \cup [type : {"age"}, operator : names("age"), value : {0, 1, 2}]
        \cup [type : {"age"}, operator : names("age"), value : {2}, unit : {"minutes"},
              date_type : {"created", "modified"}]
        \cup [type : {"depth"}, operator : names("cmp"), value : {0, 1}, unit : {<<"w">>, <<"o">>}]
        \cup With("depth", names("cmp"), {1})
        \cup With("content", names("text"), {<<>>, <<"A">>, <<"[">>})
        \cup With("contents", names("text"), {<<"1">>})
        \cup [type : {"permissions"}, operator : names("perm")]
        \cup [type : {"is_directory", "is_folder", "is_symlink"}, value : BOOLEAN]
        \cup [type : {"script"}, command : {"check"}]
        \cup {[type |-> "unheard_of"]}

(* Groups of two conditions, and groups with such groups in them. *)
IsImage == [type |-> "kind", operator |-> "is", value |-> <<<<"image">>>>]
IsA     == [type |-> "name", operator |-> "contains", value |-> <<<<"a">>>>]
Old     == [type |-> "age", operator |-> "gt", value |-> 2]
WrittenLevels ==
    LET GroupsOf(items) == [type : {"group"}, match : {"all", "any", "none"}, items : items]
        pairs == {<<x, y>> : x, y \in {IsImage, IsA, Old}}
    IN  <<Written \cup {IsImage, IsA, Old},
          GroupsOf({<<>>} \cup pairs) \cup [type : {"group"}, items : pairs],
          GroupsOf({<<g, IsA>> : g \in GroupsOf(pairs)})>>

(* Files: a document, one in capitals with a number, a hidden one, a folder,
   a link, and one too large to be read. *)
Entry(name, len, age, magic, text) ==
    [path |-> <<"w", name>>, is_dir |-> FALSE, is_symlink |-> FALSE, len |-> len,
     age |-> [created |-> NoDate, modified |-> age, accessed |-> 0], magic |-> magic,
     text |-> text, mode |-> {"r", "w"}, accepted |-> {}]
Plain    == Entry(<<"a", ".", "b">>, 1, 0, <<"text/", "plain">>, <<"a">>)
Capitals == Entry(<<"A", "1", ".", "B">>, 4, 86400, <<"image/">>, <<"A", "1">>)
Hidden   == [Entry(<<".", "b">>, 16, 100000, <<>>, NoText) EXCEPT !.mode = {},
                                                                  !.accepted = {"check"}]
Folder   == [Entry(<<"a">>, 4, 60, <<>>, NoText) EXCEPT !.is_dir = TRUE, !.mode = {"r", "x"}]
Link     == [Plain EXCEPT !.is_symlink = TRUE, !.path = <<"w", "s", <<"a">>>>]
Large    == Entry(<<"a", ".", "1", ".", "b">>, MaxText + 1, 0, <<"text/", "plain">>, <<"1">>)
FileEntries == {Plain, Capitals, Hidden, Folder, Link, Large}
=============================================================================
