-------------------------- MODULE SavedConditions --------------------------
(***************************************************************************)
(* A condition in a rule file and a file on the disk.  A step saves the    *)
(* rule, as enabling and disabling it do, or changes the file.             *)
(***************************************************************************)
EXTENDS Conditions, FiniteSets

CONSTANTS
    Levels,  \* conditions as somebody writes them, by the depth of groups in groups
    Entries  \* what may be on the disk

Json == UNION {Levels[n] : n \in DOMAIN Levels}
Nested(n) == UNION {Levels[m] : m \in {k \in DOMAIN Levels : k < n}}

(* The fields without a default are there, with values of their types. *)
Required ==
    [group |-> {}, name |-> {"operator", "value"}, extension |-> {"operator", "value"},
     size |-> {"operator", "value", "range"}, age |-> {"operator", "value"},
     mime_type |-> {"operator", "value"}, kind |-> {"operator", "value"},
     is_directory |-> {"value"}, is_symlink |-> {"value"}, depth |-> {"operator", "value"},
     content |-> {"operator", "value"}, permissions |-> {"operator"}, script |-> {"command"}]
DateKinds == {"created", "modified", "accessed"}
WellFormed(j) ==
    LET type == type_of(j)
        cond == Filled(j)
    IN  /\ "type" \in DOMAIN j
        /\ type \in Types => Required[type] \subseteq DOMAIN j
        /\ type = "size" => /\ cond.range \in BOOLEAN /\ cond.value \in Seq(Int)
                            /\ ~cond.range => Len(cond.value) = 1
        /\ type = "age" => cond.value \in Int /\ cond.date_type \in DateKinds
        /\ type = "depth" => cond.value \in Int /\ Len(cond.unit) \in Nat

ASSUME LevelsAssumption ==
    \A n \in DOMAIN Levels : \A j \in Levels[n] :
        /\ n \in Nat /\ WellFormed(j)
        /\ j.type = "group" => Filled(j).items \in Seq(Nested(n))

ASSUME EntriesAssumption ==
    \A e \in Entries : /\ e.is_dir \in BOOLEAN /\ e.len \in Nat /\ Len(e.path) \in Nat
                       /\ e.age \in [DateKinds -> Nat \cup {NoDate}]

(* The items of a group are read and written as conditions are. *)
ASSUME ItemsAssumption ==
    \A j \in Json :
        LET cond == deserialize(j)
        IN  /\ deserialize_item(j) = cond
            /\ cond # Rejected => /\ serialize_item(cond) = serialize(cond)
                                  /\ deserialize_item(serialize(cond))
                                        = deserialize(serialize(cond))

VARIABLES json, entry
conditionVars == <<json, entry>>

ConditionInit == json \in Json /\ entry \in Entries
SaveRule ==
    /\ deserialize(json) # Rejected
    /\ json' = serialize(deserialize(json))
    /\ UNCHANGED entry
ChangeFile == entry' \in Entries /\ UNCHANGED json
ConditionNext == SaveRule \/ ChangeFile
ConditionSpec == ConditionInit /\ [][ConditionNext]_conditionVars
----------------------------------------------------------------------------
Negations == {{"Is", "IsNot"}, {"IsOneOf", "IsNotOneOf"}, {"Contains", "NotContains"}}
Alternatives(cond) ==
    CASE cond.type \in {"name", "extension", "kind", "content"} -> Negations
      [] cond.type = "mime_type" -> Negations \ {{"Contains", "NotContains"}}
      [] cond.type = "size" -> IF cond.range THEN {} ELSE {{"Gt", "Lt", "Eq"}}
      [] cond.type = "depth" -> {{"Gt", "Lt", "Eq"}}
      [] OTHER -> {}

OneHolds(cond, file) ==
    LET Met(ops) == {op \in ops : evaluate([cond EXCEPT !.operator = op], file)}
        Mode(m)  == evaluate([cond EXCEPT !.match = m], file)
        answers  == CASE cond.type = "content" -> HasText(file)
                      [] cond.type = "depth" -> cond.unit # <<>> /\ IsPrefix(cond.unit, file.path)
                      [] OTHER -> TRUE
    IN  /\ \A ops \in Alternatives(cond) :
               cond.operator \in ops => Cardinality(Met(ops)) = IF answers THEN 1 ELSE 0
        /\ cond.type = "age" => Cardinality(Met({"OlderThan", "NewerThan"})) <= 1
        /\ cond.type = "group" /\ cond.items # <<>> =>
               Mode("any") # Mode("none") /\ (Mode("all") => Mode("any"))

(* Of conditions that exclude each other a file meets exactly one, whatever is
   listed and however it is spelt: is and is_not, contains and not_contains,
   the three comparisons, any and none of the items of a group.  Contents
   that cannot be read meet none, nor does a file outside of the directory
   that depth counts from; media types have no not_contains, though one is
   read.  No file is older and newer than a date. *)
ExactlyOneHolds == OneHolds(deserialize(json), from_path(entry))

(* Saving a rule that was written by hand, with aliases and with fields left
   out, keeps its condition, in every part and for every file. *)
SavingKeepsMeaning ==
    [][json' # json => deserialize(json') = deserialize(json)]_conditionVars
=============================================================================
