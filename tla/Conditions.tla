----------------------------- MODULE Conditions -----------------------------
(***************************************************************************)
(* What a rule's conditions say of a file: crates/doumi-core/src/          *)
(* conditions/mod.rs with FileInfo::from_path and the helpers of           *)
(* template.rs.  A text is a sequence of tokens: letters, ".", the glob    *)
(* "*", a "[" that opens a class nobody closes, and the regular            *)
(* expressions "\\d" and "\\D" of one character.  A condition is a record  *)
(* with the fields of its JSON object.  The value of a texts condition is  *)
(* the sequence of its texts, one or many; that of a size is the sequence  *)
(* of its amounts, with `range` when JSON has them in an array.  Amounts   *)
(* of sizes and times are in halves of a unit, so that fractions exist.    *)
(***************************************************************************)
EXTENDS Integers, Sequences, SequencesExt

CONSTANTS
    Kilo,     \* 1024, or a smaller base to count bytes in
    MaxText,  \* size above which contents are not read: 1 MiB
    deserialize_item(_), \* deserialize, serialize and evaluate again, for the items
    serialize_item(_),   \* of groups: see the end of this module
    evaluate_item(_, _)

ASSUME ConditionsAssumption == Kilo \in Nat \ {0} /\ MaxText \in Nat

NoDate  == -1       \* a date the file system does not keep
NoText  == <<"?">>  \* contents that cannot be read as text
----------------------------------------------------------------------------
(* FileInfo. *)

Letters == [up |-> <<"A", "B", "\\D">>, low |-> <<"a", "b", "\\d">>]
LowerToken(x) == IF Contains(Letters.up, x)
                 THEN Letters.low[CHOOSE i \in DOMAIN Letters.up : Letters.up[i] = x]
                 ELSE x
Lower(text) == [i \in DOMAIN text |-> LowerToken(text[i])]

(* Path::file_stem and extension: the last dot counts, unless it is the first. *)
LastDot(name) == LET dots == {i \in 2..Len(name) : name[i] = "."}
                 IN  IF dots = {} THEN 0 ELSE CHOOSE i \in dots : \A j \in dots : j <= i
Stem(name) == IF LastDot(name) = 0 THEN name ELSE SubSeq(name, 1, LastDot(name) - 1)
Extension(name) == IF LastDot(name) = 0 THEN <<>>
                   ELSE SubSeq(name, LastDot(name) + 1, Len(name))

(* FileInfo::from_path, of an entry of the disk: directories, links to them
   included, have size 0 and no type. *)
from_path(entry) ==
    [path |-> entry.path, name |-> Last(entry.path), stem |-> Stem(Last(entry.path)),
     extension |-> Lower(Extension(Last(entry.path))),
     size |-> IF entry.is_dir THEN 0 ELSE entry.len,
     age |-> entry.age, \* of created, modified, accessed: seconds or NoDate
     mime_type |-> IF entry.is_dir THEN <<>> ELSE entry.magic,
     is_dir |-> entry.is_dir, is_symlink |-> entry.is_symlink,
     text |-> entry.text, mode |-> entry.mode, accepted |-> entry.accepted]

(* A media type is a sequence too, in lower case, cut where mime_kind's
   prefixes end. *)
KindPrefixes ==
    [image |-> {<<"image/">>}, video |-> {<<"video/">>}, audio |-> {<<"audio/">>},
     font  |-> {<<"font/">>},
     document |-> {<<"application/", "pdf">>, <<"application/", "msword">>,
                   <<"application/", "vnd.openxmlformats">>,
                   <<"application/", "vnd.oasis">>, <<"text/", "plain">>, <<"text/", "rtf">>},
     archive |-> {<<"application/", "zip">>, <<"application/", "x-tar">>,
                  <<"application/", "x-rar">>, <<"application/", "x-7z">>,
                  <<"application/", "gzip">>, <<"application/", "x-bzip">>},
     code |-> {<<"text/", "x-">>, <<"application/", "x-sh">>,
               <<"application/", "javascript">>, <<"text/", "javascript">>},
     executable |-> {<<"application/", "x-executable">>, <<"application/", "x-elf">>},
     spreadsheet |-> {<<"application/", "vnd.ms-excel">>, <<"text/", "csv">>}]

mime_kind(mime) ==
    LET kinds == {k \in DOMAIN KindPrefixes : \E p \in KindPrefixes[k] : IsPrefix(p, mime)}
    IN  IF kinds = {} THEN "other" ELSE CHOOSE k \in kinds : TRUE

(* size_to_bytes: cast to u64, which cuts fractions off and takes negative
   sizes for 0.  Units are in lower case here; unknown ones are bytes. *)
Factor(unit) == CASE unit \in {"kb", "kbs", "kilobyte", "kilobytes"} -> Kilo
                  [] unit \in {"mb", "mbs", "megabyte", "megabytes"} -> Kilo * Kilo
                  [] unit \in {"gb", "gbs", "gigabyte", "gigabytes"} -> Kilo * Kilo * Kilo
                  [] unit \in {"tb", "tbs", "terabyte", "terabytes"} ->
                         Kilo * Kilo * Kilo * Kilo
                  [] OTHER -> 1
size_to_bytes(halves, unit) == IF halves < 0 THEN 0 ELSE (halves * Factor(unit)) \div 2

(* time_to_seconds of one unit: unknown ones are days. *)
SecondsIn(unit) == CASE unit \in {"second", "seconds"} -> 1
                     [] unit \in {"minute", "minutes"} -> 60
                     [] unit \in {"hour", "hours"}     -> 3600
                     [] unit \in {"week", "weeks"}     -> 604800
                     [] unit \in {"month", "months"}   -> 2592000
                     [] unit \in {"year", "years"}     -> 31536000
                     [] OTHER                          -> 86400
----------------------------------------------------------------------------
(* From JSON and back.  What each name of an operator is read as, aliases
   included, and the name each is written by. *)

Texts == [is |-> "Is", is_not |-> "IsNot", contains |-> "Contains",
          not_contains |-> "NotContains", starts_with |-> "StartsWith",
          ends_with |-> "EndsWith", matches_glob |-> "MatchesGlob",
          matches_regex |-> "MatchesRegex", is_one_of |-> "IsOneOf",
          is_not_one_of |-> "IsNotOneOf"]
Comparisons == [greater_than |-> "Gt", gt |-> "Gt", less_than |-> "Lt", lt |-> "Lt",
                equal_to |-> "Eq", eq |-> "Eq"]
ReadAs ==
    [string |-> Texts,
     list   |-> [n \in {"is", "is_not", "is_one_of", "is_not_one_of"} |-> Texts[n]],
     size   |-> [n \in DOMAIN Comparisons \cup {"between"} |->
                    IF n = "between" THEN "Between" ELSE Comparisons[n]],
     age    |-> [older_than |-> "OlderThan", gt |-> "OlderThan",
                 newer_than |-> "NewerThan", lt |-> "NewerThan"],
     cmp    |-> Comparisons,
     text   |-> [n \in {"contains", "not_contains", "matches_regex"} |-> Texts[n]],
     perm   |-> [is_readable |-> "IsReadable", is_writable |-> "IsWritable",
                 is_executable |-> "IsExecutable"]]

Sizes == [Gt |-> "greater_than", Lt |-> "less_than", Eq |-> "equal_to",
          Between |-> "between"]
TextNames == [Is |-> "is", IsNot |-> "is_not", Contains |-> "contains",
              NotContains |-> "not_contains", StartsWith |-> "starts_with",
              EndsWith |-> "ends_with", MatchesGlob |-> "matches_glob",
              MatchesRegex |-> "matches_regex", IsOneOf |-> "is_one_of",
              IsNotOneOf |-> "is_not_one_of"]

(* Mutant: newer_than is written by the name of its opposite. *)
WrittenAs_swapped ==
    [string |-> TextNames, list |-> TextNames, text |-> TextNames,
     size |-> Sizes, cmp |-> Sizes,
     age |-> [OlderThan |-> "older_than", NewerThan |-> "gt"],
     perm |-> [IsReadable |-> "is_readable", IsWritable |-> "is_writable",
               IsExecutable |-> "is_executable"]]

WrittenAs ==
    [string |-> TextNames, list |-> TextNames, text |-> TextNames,
     size |-> Sizes, cmp |-> Sizes,
     age |-> [OlderThan |-> "older_than", NewerThan |-> "newer_than"],
     perm |-> [IsReadable |-> "is_readable", IsWritable |-> "is_writable",
               IsExecutable |-> "is_executable"]]

(* The operators of each type of condition; the others have none. *)
OperatorsOf == [name |-> "string", extension |-> "list", size |-> "size", age |-> "age",
                mime_type |-> "string", kind |-> "list", depth |-> "cmp",
                content |-> "text", permissions |-> "perm"]
TypeAliases == [is_folder |-> "is_directory", contents |-> "content"]
Types == DOMAIN OperatorsOf \cup {"group", "is_directory", "is_symlink", "script"}

(* #[serde(default)]: what a field that is not there means. *)
FieldDefaults ==
    [group |-> [match |-> "all", items |-> <<>>], name |-> [case_sensitive |-> FALSE],
     size |-> [unit |-> ""], age |-> [unit |-> "", date_type |-> "modified"],
     depth |-> [unit |-> <<>>], script |-> [interpreter |-> "bash"]]

Rejected == [type |-> "rejected"]

type_of(json) == IF json.type \in DOMAIN TypeAliases THEN TypeAliases[json.type] ELSE json.type
Filled(json) ==
    LET type     == type_of(json)
        defaults == IF type \in DOMAIN FieldDefaults THEN FieldDefaults[type] ELSE <<>>
    IN  [field \in DOMAIN json \cup DOMAIN defaults |->
            IF field = "type" THEN type
            ELSE IF field \in DOMAIN json THEN json[field] ELSE defaults[field]]

(* A condition as it is read; one bad operator rejects all of the rule. *)
deserialize(json) ==
    LET cond  == Filled(json)
        names == ReadAs[OperatorsOf[cond.type]]
        items == [i \in DOMAIN cond.items |-> deserialize_item(cond.items[i])]
    IN  CASE cond.type \notin Types -> Rejected
          [] cond.type = "group" -> IF Contains(items, Rejected) THEN Rejected
                                    ELSE [cond EXCEPT !.items = items]
          [] cond.type \in DOMAIN OperatorsOf ->
                 IF cond.operator \notin DOMAIN names THEN Rejected
                 ELSE [cond EXCEPT !.operator = names[cond.operator]]
          [] OTHER -> cond

(* Every field is written, those that were filled in by default included. *)
serialize(cond) ==
    CASE cond.type = "group" ->
           [cond EXCEPT !.items = [i \in DOMAIN cond.items |-> serialize_item(cond.items[i])]]
      [] cond.type \in DOMAIN OperatorsOf ->
           [cond EXCEPT !.operator = WrittenAs[OperatorsOf[cond.type]][cond.operator]]
      [] OTHER -> cond
----------------------------------------------------------------------------
(* Evaluation. *)

Within(part, text) ==
    \E i \in 0..Len(text) - Len(part) : SubSeq(text, i + 1, i + Len(part)) = part

(* glob::Pattern, with at most one "*"; an open class is no pattern. *)
Glob(pattern, text) ==
    LET stars == {i \in DOMAIN pattern : pattern[i] = "*"}
    IN  /\ ~Contains(pattern, "[")
        /\ IF stars = {} THEN pattern = text
           ELSE LET i == CHOOSE j \in stars : TRUE
                IN  /\ Len(text) >= Len(pattern) - 1
                    /\ IsPrefix(SubSeq(pattern, 1, i - 1), text)
                    /\ IsSuffix(SubSeq(pattern, i + 1, Len(pattern)), text)

(* regex::Regex::is_match, of letters and the classes "\\d" and "\\D". *)
Matches(token, x) == CASE token = "\\d" -> x = "1"
                       [] token = "\\D" -> x # "1"
                       [] token = "."   -> TRUE
                       [] OTHER         -> token = x
Regex(pattern, text) ==
    /\ ~Contains(pattern, "[")
    /\ \E i \in 0..Len(text) - Len(pattern) :
           \A k \in DOMAIN pattern : Matches(pattern[k], text[i + k])

(* Mutant: a file is another than the named when some name differs. *)
EvaluateName_any(cond, file) ==
    LET values == {Lower(v) : v \in ToSet(cond.value)}
    IN  CASE cond.operator \in {"Is", "IsOneOf"} -> Lower(file.name) \in values
          [] cond.operator = "IsNot" -> \E v \in values : Lower(file.name) # v
          [] OTHER -> FALSE

(* Names: compared without case unless told otherwise, patterns too; `is`
   takes the name with or without its extension, ends_with the one without. *)
EvaluateName(cond, file) ==
    LET prep(text) == IF cond.case_sensitive THEN text ELSE Lower(text)
        name   == prep(file.name)
        stem   == prep(file.stem)
        values == {prep(v) : v \in ToSet(cond.value)}
    IN  CASE cond.operator \in {"Is", "IsOneOf"} -> {name, stem} \cap values # {}
          [] cond.operator \in {"IsNot", "IsNotOneOf"} ->
                 \A v \in values : name # v /\ stem # v
          [] cond.operator = "Contains" -> \E v \in values : Within(v, name)
          [] cond.operator = "NotContains" -> \A v \in values : ~Within(v, name)
          [] cond.operator = "StartsWith" -> \E v \in values : IsPrefix(v, name)
          [] cond.operator = "EndsWith" -> \E v \in values : IsSuffix(v, stem)
          [] cond.operator = "MatchesGlob" -> \E v \in values : Glob(v, name)
          [] cond.operator = "MatchesRegex" -> \E v \in values : Regex(v, name)

WithoutDots(text) ==
    LET rest == {i \in DOMAIN text : text[i] # "."}
    IN  IF rest = {} THEN <<>>
        ELSE SubSeq(text, CHOOSE i \in rest : \A j \in rest : i <= j, Len(text))

EvaluateExtension(cond, file) ==
    LET listed == Lower(file.extension) \in {Lower(WithoutDots(v)) : v \in ToSet(cond.value)}
    IN  IF cond.operator \in {"Is", "IsOneOf"} THEN listed ELSE ~listed

(* A size is one amount or a range of them, 0 where the range has none.
   Operators that get the other are false, except `between` one amount. *)
EvaluateSize(cond, file) ==
    LET bytes(v) == size_to_bytes(v, IF cond.unit = "" THEN "bytes" ELSE cond.unit)
        Bound(i) == IF i <= Len(cond.value) THEN bytes(cond.value[i]) ELSE 0
    IN  CASE ~cond.range /\ cond.operator = "Gt" -> file.size > Bound(1)
          [] ~cond.range /\ cond.operator = "Lt" -> file.size < Bound(1)
          [] ~cond.range /\ cond.operator \in {"Eq", "Between"} -> file.size = Bound(1)
          [] cond.range /\ cond.operator = "Between" ->
                 file.size \in (Bound(1)..Bound(2)) \cup (Bound(2)..Bound(1))
          [] OTHER -> FALSE

(* The age of a date that is not kept is 0. *)
EvaluateAge(cond, file) ==
    LET kept == file.age[cond.date_type]
        age  == IF kept = NoDate THEN 0 ELSE kept
        threshold == cond.value * SecondsIn(IF cond.unit = "" THEN "days" ELSE cond.unit)
    IN  IF cond.operator = "OlderThan" THEN 2 * age > threshold ELSE 2 * age < threshold

EvaluateMimeType(cond, file) ==
    LET values == ToSet(cond.value)
    IN  CASE cond.operator \in {"Is", "IsOneOf"} -> file.mime_type \in values
          [] cond.operator \in {"IsNot", "IsNotOneOf"} -> file.mime_type \notin values
          [] cond.operator = "StartsWith" -> \E v \in values : IsPrefix(v, file.mime_type)
          [] cond.operator = "Contains" -> \E v \in values : Within(v, file.mime_type)
          [] OTHER -> FALSE

EvaluateKind(cond, file) ==
    LET kind == IF file.is_dir THEN "folder" ELSE mime_kind(file.mime_type)
        listed == <<kind>> \in ToSet(cond.value)
    IN  IF cond.operator \in {"Is", "IsOneOf"} THEN listed ELSE ~listed

(* How far below the directory named in `unit`; no directory, no depth. *)
EvaluateDepth(cond, file) ==
    LET depth == Len(file.path) - Len(cond.unit)
    IN  /\ cond.unit # <<>>
        /\ IsPrefix(cond.unit, file.path)
        /\ CASE cond.operator = "Eq" -> depth = cond.value
             [] cond.operator = "Lt" -> depth < cond.value
             [] cond.operator = "Gt" -> depth > cond.value

HasText(file) == ~file.is_dir /\ file.size <= MaxText /\ file.text # NoText

EvaluateContent(cond, file) ==
    /\ HasText(file)
    /\ CASE cond.operator = "Contains" -> Within(Lower(cond.value), Lower(file.text))
         [] cond.operator = "NotContains" -> ~Within(Lower(cond.value), Lower(file.text))
         [] cond.operator = "MatchesRegex" -> Regex(cond.value, file.text)

(* One of the bits of owner, group and others is enough. *)
EvaluatePermissions(cond, file) ==
    CASE cond.operator = "IsReadable" -> "r" \in file.mode
      [] cond.operator = "IsWritable" -> "w" \in file.mode
      [] cond.operator = "IsExecutable" -> "x" \in file.mode

(* Condition::evaluate.  A group without items holds, whatever its mode. *)
evaluate(cond, file) ==
    CASE cond.type = "group" ->
           LET holds == {i \in DOMAIN cond.items : evaluate_item(cond.items[i], file)}
           IN  \/ cond.items = <<>>
               \/ cond.match = "all"  /\ holds = DOMAIN cond.items
               \/ cond.match = "any"  /\ holds # {}
               \/ cond.match = "none" /\ holds = {}
      [] cond.type = "name"         -> EvaluateName(cond, file)
      [] cond.type = "extension"    -> EvaluateExtension(cond, file)
      [] cond.type = "size"         -> EvaluateSize(cond, file)
      [] cond.type = "age"          -> EvaluateAge(cond, file)
      [] cond.type = "mime_type"    -> EvaluateMimeType(cond, file)
      [] cond.type = "kind"         -> EvaluateKind(cond, file)
      [] cond.type = "is_directory" -> file.is_dir = cond.value
      [] cond.type = "is_symlink"   -> file.is_symlink = cond.value
      [] cond.type = "depth"        -> EvaluateDepth(cond, file)
      [] cond.type = "content"      -> EvaluateContent(cond, file)
      [] cond.type = "permissions"  -> EvaluatePermissions(cond, file)
      [] cond.type = "script"       -> cond.command \in file.accepted
----------------------------------------------------------------------------
(* What the constants stand for: the operators above, which so come to call
   themselves.  (Functions of one argument, whose bodies TLC does not look
   into before it needs them.) *)
ReadItem(json)        == LET read[j \in {json}]  == deserialize(j)    IN read[json]
WriteItem(cond)       == LET write[c \in {cond}] == serialize(c)      IN write[cond]
HoldsItem(cond, file) == LET holds[c \in {cond}] == evaluate(c, file) IN holds[cond]
=============================================================================
