------------------------- MODULE ConfigStoreProofs -------------------------
(***************************************************************************)
(* The rule files, for any number of files, rules, commands and threads.   *)
(***************************************************************************)
EXTENDS ConfigStore, TLAPS

(* A rule is in the file named after its id or in one the user copied. *)
Placed(f, id) == f \in Copies \/ f = NameOf[id]

FilesPlaced == \A f \in Files : files[f].id \in Ids => Placed(f, files[f].id)
ListsPlaced == \A l \in Loaders : \A f \in Files :
                  load[l].list[f].id \in Ids => Placed(f, load[l].list[f].id)
SavesPlaced == \A p \in Savers :
                  Pending(p) => /\ save[p].rule \in Rule
                                /\ Placed(save[p].file, save[p].rule.id)

(* A command lists, then saves; what it was asked is forgotten in the end. *)
Phases == \A c \in Clis :
             /\ load[c].pc # "idle" => save[c].at = "none" /\ ask[c].id \in Ids
             /\ load[c].pc = "idle" /\ save[c].at = "none" => ask[c] = NoAsk

StoreInv == TypeOK /\ FilesPlaced /\ ListsPlaced /\ SavesPlaced /\ Phases
----------------------------------------------------------------------------
(* Contents of files *)

LEMMA Contents ==
    /\ \A c \in Content : \/ c \in Rule /\ c.kind = "rule" /\ c.id \in Ids /\ c.on \in BOOLEAN
                          \/ c.kind # "rule" /\ c.id = NoId /\ c.id \notin Ids
    /\ \A c \in Rule \cup {Missing} :
          \/ c \in Rule /\ c # Missing /\ c.kind = "rule" /\ c.id \in Ids /\ c.on \in BOOLEAN
          \/ c = Missing /\ c.id = NoId /\ c.id \notin Ids
    /\ Rule \cup {Missing} \subseteq Content
  BY StoreAssumption DEF Content, Rule, Missing, Nothing

LEMMA Rules == \A r \in Rule : r.id \in Ids /\ r.kind = "rule" /\ r.on \in BOOLEAN
  BY DEF Rule

LEMMA NewRules ==
    \A id \in Ids, on \in BOOLEAN : NewRule(id, on) \in Rule /\ NewRule(id, on).id = id
  BY DEF Rule, NewRule

LEMMA SetRules ==
    ASSUME NEW r \in Rule, NEW on \in BOOLEAN
    PROVE  Set(r, on) \in Rule /\ Set(r, on).id = r.id /\ Set(r, on).on = on
  BY DEF Rule, Set

LEMMA FlipRules ==
    ASSUME NEW r \in Rule
    PROVE  [r EXCEPT !.on = ~r.on] \in Rule /\ [r EXCEPT !.on = ~r.on].id = r.id
  BY DEF Rule

LEMMA Empties ==
    /\ \A k \in {"missing", "empty", "garbled"} : Nothing(k).id = NoId /\ Nothing(k).kind = k
    /\ {Missing, Nothing("empty"), Nothing("garbled")} \subseteq Content
    /\ Missing.id = NoId /\ Missing.kind = "missing"
  BY DEF Content, Missing, Nothing

LEMMA ParsedTyped ==
    ASSUME NEW c \in Content
    PROVE  Parsed(c) \in Rule \cup {Missing} /\ (Parsed(c).id \in Ids => Parsed(c) = c)
  BY Contents, Empties, StoreAssumption DEF Parsed

LEMMA WrittenTyped ==
    ASSUME NEW old \in Content, NEW new \in Rule, NEW c \in Written(old, new)
    PROVE  c \in Content /\ (c # new => c = Nothing("garbled") /\ old.kind # "empty")
  BY Contents, Empties DEF Written
----------------------------------------------------------------------------
(* Lists *)

LEMMA ListTyped ==
    ASSUME TypeOK, NEW l \in Loaders
    PROVE  /\ load[l] \in Listing /\ load[l].list \in [Files -> Rule \cup {Missing}]
           /\ \A f \in Files : load[l].list[f] \in Rule \cup {Missing}
  BY DEF TypeOK, Listing

LEMMA BeginTyped ==
    ASSUME TypeOK
    PROVE  /\ Begin \in Listing /\ Begin.pc = "reading" /\ Begin.seen = {} /\ Begin.list = NoList
           /\ \A M \in SUBSET Files :
                 /\ [Begin EXCEPT !.must = M] \in Listing
                 /\ [Begin EXCEPT !.must = M].list = NoList
                 /\ [Begin EXCEPT !.must = M].pc = "reading"
  BY DEF Begin, Listing, NoList

(* Beginning to list, in whatever file the names are taken from. *)
LEMMA FreshList ==
    ASSUME TypeOK, ListsPlaced, NEW l \in Loaders, NEW b \in Listing, b.list = NoList,
           load' = [load EXCEPT ![l] = b]
    PROVE  /\ load' \in [Loaders -> Listing]
           /\ ListsPlaced'
           /\ load'[l] = b /\ \A k \in Loaders \ {l} : load'[k] = load[k]
<1>1. /\ load' \in [Loaders -> Listing]
      /\ load'[l] = b /\ \A k \in Loaders \ {l} : load'[k] = load[k]
  BY DEF TypeOK
<1>2. \A f \in Files : load'[l].list[f].id \notin Ids
  BY <1>1, Empties, StoreAssumption DEF NoList
<1> QED BY <1>1, <1>2 DEF ListsPlaced, Placed

(* A step of a list: one more file, or another state. *)
LEMMA ReadTyped ==
    ASSUME TypeOK, ListsPlaced, FilesPlaced, NEW l \in Loaders, NEW f \in Files,
           load' = [load EXCEPT ![l].seen = load[l].seen \cup {f},
                                ![l].list[f] = Parsed(files[f])]
    PROVE  /\ load' \in [Loaders -> Listing]
           /\ \A k \in Loaders : load'[k].pc = load[k].pc /\ load'[k].must = load[k].must
           /\ \A k \in Loaders \ {l} : load'[k] = load[k]
           /\ load'[l].seen = load[l].seen \cup {f}
           /\ load'[l].list = [load[l].list EXCEPT ![f] = Parsed(files[f])]
           /\ ListsPlaced'
<1>1. Parsed(files[f]) \in Rule \cup {Missing}
  BY ParsedTyped DEF TypeOK
<1>2. /\ load'[l].pc = load[l].pc /\ load'[l].must = load[l].must
      /\ load'[l].seen = load[l].seen \cup {f}
      /\ load'[l].list = [load[l].list EXCEPT ![f] = Parsed(files[f])]
      /\ load'[l] \in Listing
  <2> DEFINE list == [load[l].list EXCEPT ![f] = Parsed(files[f])]
  <2>1. load'[l] = [load[l] EXCEPT !.seen = load[l].seen \cup {f}, !.list = list]
    BY DEF TypeOK
  <2>2. list \in [Files -> Rule \cup {Missing}]
    BY <1>1, ListTyped
  <2> HIDE DEF list
  <2> DEFINE seen == load[l].seen \cup {f}
  <2>3. load[l] \in Listing
    BY DEF TypeOK
  <2>4. seen \in SUBSET Files
    BY <2>3 DEF Listing
  <2> DEFINE e == load[l]
  <2> DEFINE new == load'[l]
  <2>5. new = [e EXCEPT !.seen = seen, !.list = list] /\ e \in Listing
    BY <2>1, <2>3
  <2> HIDE DEF seen, e, new
  <2>6. /\ new.pc = e.pc /\ new.must = e.must /\ new.seen = seen /\ new.list = list
        /\ new \in Listing
    BY <2>2, <2>4, <2>5 DEF Listing
  <2> QED BY <2>6 DEF new, list, seen, e
<1>3. \A k \in Loaders \ {l} : load'[k] = load[k]
  BY DEF TypeOK
<1>4. load' \in [Loaders -> Listing]
  BY <1>2, <1>3 DEF TypeOK
<1>5. \A g \in Files : load'[l].list[g] = IF g = f THEN Parsed(files[f]) ELSE load[l].list[g]
  BY <1>2, ListTyped
<1>6. Parsed(files[f]).id \in Ids => Placed(f, Parsed(files[f]).id)
  BY ParsedTyped DEF TypeOK, FilesPlaced
<1>7. ListsPlaced'
  <2>1. \A g \in Files : load'[l].list[g].id \in Ids => Placed(g, load'[l].list[g].id)
    BY <1>5, <1>6 DEF ListsPlaced
  <2>2. \A k \in Loaders \ {l} : \A g \in Files :
           load'[k].list[g].id \in Ids => Placed(g, load'[k].list[g].id)
    BY <1>3 DEF ListsPlaced
  <2>3. \A k \in Loaders : \A g \in Files :
           load'[k].list[g].id \in Ids => Placed(g, load'[k].list[g].id)
    BY <2>1, <2>2
  <2> QED BY <2>3 DEF ListsPlaced, Placed
<1> QED BY <1>2, <1>3, <1>4, <1>7

LEMMA PhaseTyped ==
    ASSUME TypeOK, ListsPlaced, NEW l \in Loaders, NEW pc \in {"idle", "reading", "done"},
           load' = [load EXCEPT ![l].pc = pc]
    PROVE  /\ load' \in [Loaders -> Listing]
           /\ \A k \in Loaders \ {l} : load'[k] = load[k]
           /\ load'[l].pc = pc /\ load'[l].seen = load[l].seen
           /\ load'[l].must = load[l].must /\ load'[l].list = load[l].list
           /\ ListsPlaced'
<1>1. /\ load'[l].pc = pc /\ load'[l].seen = load[l].seen
      /\ load'[l].must = load[l].must /\ load'[l].list = load[l].list
      /\ load'[l] \in Listing
  BY DEF TypeOK, Listing
<1>2. \A k \in Loaders \ {l} : load'[k] = load[k]
  BY DEF TypeOK
<1>3. load' \in [Loaders -> Listing]
  BY <1>1, <1>2 DEF TypeOK
<1>4. ListsPlaced'
  BY <1>1, <1>2 DEF ListsPlaced, Placed
<1> QED BY <1>1, <1>2, <1>3, <1>4

LEMMA FlipTyped ==
    ASSUME TypeOK, ListsPlaced, NEW l \in Loaders, NEW f \in Files, load[l].list[f] \in Rule,
           load' = [load EXCEPT ![l].list[f].on = ~load[l].list[f].on]
    PROVE  /\ load' \in [Loaders -> Listing]
           /\ \A k \in Loaders \ {l} : load'[k] = load[k]
           /\ load'[l].pc = load[l].pc /\ load'[l].seen = load[l].seen
           /\ load'[l].must = load[l].must
           /\ \A g \in Files \ {f} : load'[l].list[g] = load[l].list[g]
           /\ load'[l].list[f] \in Rule /\ load'[l].list[f].id = load[l].list[f].id
           /\ ListsPlaced'
<1> DEFINE r == [load[l].list[f] EXCEPT !.on = ~load[l].list[f].on]
<1>1. r \in Rule /\ r.id = load[l].list[f].id
  BY FlipRules
<1>2. /\ load'[l].pc = load[l].pc /\ load'[l].seen = load[l].seen
      /\ load'[l].must = load[l].must
      /\ load'[l].list = [load[l].list EXCEPT ![f] = r]
      /\ load'[l] \in Listing
  <2> DEFINE list == [load[l].list EXCEPT ![f] = r]
  <2>1. load'[l] = [load[l] EXCEPT !.list = list]
    BY DEF TypeOK
  <2>2. list \in [Files -> Rule \cup {Missing}]
    BY <1>1, ListTyped
  <2> HIDE DEF list, r
  <2>3. load[l] \in Listing
    BY DEF TypeOK
  <2>4. /\ load'[l].pc = load[l].pc /\ load'[l].seen = load[l].seen
        /\ load'[l].must = load[l].must /\ load'[l].list = list
        /\ load'[l] \in Listing
    BY <2>1, <2>2, <2>3 DEF Listing
  <2> QED BY <2>4 DEF list
<1>3. \A k \in Loaders \ {l} : load'[k] = load[k]
  BY DEF TypeOK
<1>4. load' \in [Loaders -> Listing]
  BY <1>2, <1>3 DEF TypeOK
<1>5. \A g \in Files : load'[l].list[g] = IF g = f THEN r ELSE load[l].list[g]
  BY <1>2, ListTyped
<1> HIDE DEF r
<1>6. ListsPlaced'
  BY <1>1, <1>3, <1>5 DEF ListsPlaced, Placed
<1> QED BY <1>1, <1>2, <1>3, <1>4, <1>5, <1>6
----------------------------------------------------------------------------
(* Saves *)

LEMMA SaveTyped ==
    ASSUME TypeOK, NEW p \in Savers
    PROVE  /\ save[p] \in Writing /\ save[p].file \in Files
           /\ save[p].at \in {"none", "begun", "open", "unlinked"}
           /\ save[p].rule \in Rule \cup {Missing}
  BY DEF TypeOK, Writing

LEMMA NoSaveTyped == NoSave \in Writing /\ NoSave.at = "none"
  BY StoreAssumption DEF NoSave, Writing

LEMMA EndOfSave ==
    ASSUME TypeOK, SavesPlaced, NEW p \in Savers, save' = [save EXCEPT ![p] = NoSave]
    PROVE  /\ save' \in [Savers -> Writing] /\ SavesPlaced'
           /\ save'[p].at = "none" /\ \A q \in Savers \ {p} : save'[q] = save[q]
<1>1. /\ save' \in [Savers -> Writing]
      /\ save'[p].at = "none" /\ \A q \in Savers \ {p} : save'[q] = save[q]
  BY NoSaveTyped DEF TypeOK
<1> QED BY <1>1 DEF SavesPlaced, Pending, Placed

LEMMA StartOfSave ==
    ASSUME TypeOK, SavesPlaced, NEW p \in Savers, NEW f \in Files, NEW rule \in Rule,
           Placed(f, rule.id), StartSave(p, f, rule)
    PROVE  /\ save' \in [Savers -> Writing] /\ SavesPlaced'
           /\ save'[p].at = "begun" /\ save'[p].file = f /\ save'[p].rule = rule
           /\ \A q \in Savers \ {p} : save'[q] = save[q]
           /\ doubtful' \subseteq Ids
<1>1. rule.id \in Ids
  BY Rules
<1>2. /\ save' \in [Savers -> Writing]
      /\ save'[p].at = "begun" /\ save'[p].file = f /\ save'[p].rule = rule
      /\ \A q \in Savers \ {p} : save'[q] = save[q]
  BY DEF TypeOK, Writing, StartSave
<1>3. SavesPlaced'
  BY <1>2 DEF SavesPlaced, Pending, Placed
<1>4. \A q \in Overlapping(f, rule.id) : save[q].rule.id \in Ids
  BY Rules DEF Overlapping, SavesPlaced
<1>5. doubtful' \subseteq Ids
  BY <1>1, <1>4 DEF TypeOK, StartSave, InDoubt
<1> QED BY <1>2, <1>3, <1>5
----------------------------------------------------------------------------
(* Files *)

LEMMA FileTyped ==
    ASSUME TypeOK, FilesPlaced, NEW f \in Files, NEW c \in Content,
           c.id \in Ids => Placed(f, c.id), files' = [files EXCEPT ![f] = c]
    PROVE  /\ files' \in [Files -> Content] /\ FilesPlaced'
           /\ files'[f] = c /\ \A g \in Files \ {f} : files'[g] = files[g]
<1>1. /\ files' \in [Files -> Content]
      /\ files'[f] = c /\ \A g \in Files \ {f} : files'[g] = files[g]
  BY DEF TypeOK
<1> QED BY <1>1 DEF FilesPlaced, Placed

LEMMA TouchTyped ==
    ASSUME TypeOK, NEW f \in Files, NEW p \in Savers, Touch(f, p)
    PROVE  touched' \in [Loaders -> SUBSET Files]
  BY DEF TypeOK, Touch

LEMMA BeginLoadTyped ==
    ASSUME TypeOK, ListsPlaced, NEW l \in Loaders, BeginLoad(l)
    PROVE  /\ load' \in [Loaders -> Listing] /\ ListsPlaced'
           /\ touched' \in [Loaders -> SUBSET Files]
           /\ load'[l] = Begin /\ \A k \in Loaders \ {l} : load'[k] = load[k]
<1>1. load' = [load EXCEPT ![l] = Begin] /\ touched' \in [Loaders -> SUBSET Files]
  BY DEF TypeOK, BeginLoad
<1> QED BY <1>1, BeginTyped, FreshList

(* What a command was asked is forgotten when it is done. *)
LEMMA AskTyped ==
    ASSUME TypeOK, NEW p, ask' = IF p \in Clis THEN [ask EXCEPT ![p] = NoAsk] ELSE ask
    PROVE  /\ ask' \in [Clis -> [id : Ids \cup {NoId}, on : BOOLEAN]]
           /\ \A c \in Clis : ask'[c] = IF c = p THEN NoAsk ELSE ask[c]
  BY DEF TypeOK, NoAsk

LEMMA UnlinkTyped ==
    ASSUME TypeOK, FilesPlaced, SavesPlaced, NEW f \in Files, NEW id \in Ids, Unlink(f, id)
    PROVE  /\ files' \in [Files -> Content] /\ FilesPlaced'
           /\ files'[f] = Missing /\ \A g \in Files \ {f} : files'[g] = files[g]
           /\ save' \in [Savers -> Writing] /\ SavesPlaced'
           /\ \A p \in Savers :
                 IF save[p].at = "open" /\ save[p].file = f
                 THEN /\ save'[p].at = "unlinked" /\ save'[p].file = save[p].file
                      /\ save'[p].rule = save[p].rule
                 ELSE save'[p] = save[p]
           /\ alive' = alive \ {id} /\ alive' \subseteq Ids
<1>1. /\ files' \in [Files -> Content] /\ FilesPlaced'
      /\ files'[f] = Missing /\ \A g \in Files \ {f} : files'[g] = files[g]
  BY FileTyped, Empties, StoreAssumption DEF Unlink
<1>2. \A p \in Savers : save'[p] = IF save[p].at = "open" /\ save[p].file = f
                                   THEN [save[p] EXCEPT !.at = "unlinked"] ELSE save[p]
  BY DEF Unlink
<1>3. \A p \in Savers :
         /\ [save[p] EXCEPT !.at = "unlinked"] \in Writing
         /\ [save[p] EXCEPT !.at = "unlinked"].at = "unlinked"
         /\ [save[p] EXCEPT !.at = "unlinked"].file = save[p].file
         /\ [save[p] EXCEPT !.at = "unlinked"].rule = save[p].rule
  BY SaveTyped DEF Writing
<1>4. \A p \in Savers :
         IF save[p].at = "open" /\ save[p].file = f
         THEN /\ save'[p].at = "unlinked" /\ save'[p].file = save[p].file
              /\ save'[p].rule = save[p].rule
         ELSE save'[p] = save[p]
  BY <1>2, <1>3
<1>5. save' \in [Savers -> Writing]
  BY <1>3 DEF TypeOK, Unlink
<1>6. SavesPlaced'
  BY <1>4 DEF SavesPlaced, Pending, Placed
<1> QED BY <1>1, <1>4, <1>5, <1>6 DEF Unlink, TypeOK
----------------------------------------------------------------------------
(* What every action keeps *)

LEMMA StoreInit == Init => StoreInv
<1> SUFFICES ASSUME Init PROVE StoreInv
  OBVIOUS
<1>1. files \in [Files -> Content] /\ \A f \in Files : files[f] \in Rule \cup {Missing}
  BY StoreAssumption, Contents DEF Init
<1>2. NoList \in [Files -> Rule \cup {Missing}] /\ Begin \in Listing
      /\ [Begin EXCEPT !.pc = "idle", !.must = {}] \in Listing
      /\ [Begin EXCEPT !.pc = "idle", !.must = {}].list = NoList
      /\ [Begin EXCEPT !.pc = "idle", !.must = {}].pc = "idle"
      /\ Begin.list = NoList
  BY DEF Begin, Listing, NoList
<1>3. load \in [Loaders -> Listing] /\ \A l \in Loaders : load[l].list = NoList
  BY <1>2 DEF Init
<1>4. alive \subseteq Ids
  BY <1>1, Contents DEF Init
<1>5. NoAsk \in [id : Ids \cup {NoId}, on : BOOLEAN]
  BY DEF NoAsk
<1>6. TypeOK
  BY <1>1, <1>3, <1>4, <1>5, NoSaveTyped, StoreAssumption DEF Init, TypeOK
<1>7. FilesPlaced
  BY <1>1, Contents, StoreAssumption DEF Init, FilesPlaced, Placed
<1>8. ListsPlaced
  BY <1>3, Empties, StoreAssumption DEF NoList, ListsPlaced
<1>9. SavesPlaced
  BY NoSaveTyped DEF Init, SavesPlaced, Pending
<1>10. \A c \in Clis : load[c].pc = "idle"
  BY <1>2, StoreAssumption DEF Init, Loaders
<1>11. Phases
  BY <1>10 DEF Init, Phases
<1> QED BY <1>6, <1>7, <1>8, <1>9, <1>11 DEF StoreInv

LEMMA ReadFileKeeps ==
    ASSUME StoreInv, NEW l \in Loaders, ReadFile(l) PROVE StoreInv'
<1>1. PICK f \in Files : load' = [load EXCEPT ![l].seen = load[l].seen \cup {f},
                                             ![l].list[f] = Parsed(files[f])]
  BY DEF ReadFile
<1>2. /\ load' \in [Loaders -> Listing] /\ ListsPlaced'
      /\ \A k \in Loaders : load'[k].pc = load[k].pc
  BY <1>1, ReadTyped DEF StoreInv
<1>3. UNCHANGED <<files, save, ask, ops, touched, doubtful, alive>>
  BY DEF ReadFile
<1>4. TypeOK'
  BY <1>2, <1>3 DEF StoreInv, TypeOK
<1>5. Phases'
  BY <1>2, <1>3 DEF StoreInv, Phases, Loaders
<1> QED BY <1>2, <1>3, <1>4, <1>5 DEF StoreInv, FilesPlaced, SavesPlaced, Pending

LEMMA EndLoadKeeps ==
    ASSUME StoreInv, NEW l \in Loaders, EndLoad(l) PROVE StoreInv'
<1>1. /\ load' = [load EXCEPT ![l].pc = "done"] /\ load[l].pc = "reading"
      /\ UNCHANGED <<files, save, ask, ops, touched, doubtful, alive>>
  BY DEF EndLoad
<1>2. /\ load' \in [Loaders -> Listing] /\ ListsPlaced'
      /\ load'[l].pc = "done" /\ \A k \in Loaders \ {l} : load'[k] = load[k]
  BY <1>1, PhaseTyped DEF StoreInv
<1>3. TypeOK'
  BY <1>1, <1>2 DEF StoreInv, TypeOK
<1>4. Phases'
  BY <1>1, <1>2 DEF StoreInv, Phases, Loaders
<1> QED BY <1>1, <1>2, <1>3, <1>4 DEF StoreInv, FilesPlaced, SavesPlaced, Pending

LEMMA TruncateKeeps ==
    ASSUME StoreInv, NEW p \in Savers, Truncate(p) PROVE StoreInv'
<1> DEFINE f == save[p].file
<1>1. /\ save[p].at = "begun" /\ files' = [files EXCEPT ![f] = Nothing("empty")]
      /\ save' = [save EXCEPT ![p].at = "open"] /\ Touch(f, p)
      /\ UNCHANGED <<load, ask, ops, doubtful, alive>>
  BY DEF Truncate
<1>2. f \in Files
  BY SaveTyped DEF StoreInv
<1>3. files' \in [Files -> Content] /\ FilesPlaced'
  BY <1>1, <1>2, FileTyped, Empties, StoreAssumption DEF StoreInv
<1>4. /\ save' \in [Savers -> Writing] /\ save'[p].at = "open"
      /\ save'[p].file = save[p].file /\ save'[p].rule = save[p].rule
      /\ \A q \in Savers \ {p} : save'[q] = save[q]
  BY <1>1 DEF StoreInv, TypeOK, Writing
<1>5. SavesPlaced'
  BY <1>1, <1>4 DEF StoreInv, SavesPlaced, Pending, Placed
<1>6. touched' \in [Loaders -> SUBSET Files]
  BY <1>1, <1>2, TouchTyped DEF StoreInv
<1>7. TypeOK'
  BY <1>1, <1>3, <1>4, <1>6 DEF StoreInv, TypeOK
<1>8. ListsPlaced' /\ Phases'
  BY <1>1, <1>4 DEF StoreInv, ListsPlaced, Phases, Savers
<1> QED BY <1>3, <1>5, <1>7, <1>8 DEF StoreInv

(* A save that ends, ends what the command was asked. *)
LEMMA SaveEnds ==
    ASSUME StoreInv, NEW p \in Savers, save[p].at # "none", save' = [save EXCEPT ![p] = NoSave],
           ask' = IF p \in Clis THEN [ask EXCEPT ![p] = NoAsk] ELSE ask,
           \A c \in Clis : load'[c] = load[c]
    PROVE  /\ save' \in [Savers -> Writing] /\ SavesPlaced'
           /\ ask' \in [Clis -> [id : Ids \cup {NoId}, on : BOOLEAN]]
           /\ Phases'
<1>1. /\ save' \in [Savers -> Writing] /\ SavesPlaced'
      /\ save'[p].at = "none" /\ \A q \in Savers \ {p} : save'[q] = save[q]
  BY EndOfSave DEF StoreInv
<1>2. /\ ask' \in [Clis -> [id : Ids \cup {NoId}, on : BOOLEAN]]
      /\ \A c \in Clis : ask'[c] = IF c = p THEN NoAsk ELSE ask[c]
  BY AskTyped DEF StoreInv
<1>3. Phases'
  BY <1>1, <1>2 DEF StoreInv, Phases, Savers
<1> QED BY <1>1, <1>2, <1>3

LEMMA WriteOutKeeps ==
    ASSUME StoreInv, NEW p \in Savers, WriteOut(p) PROVE StoreInv'
<1> DEFINE f    == save[p].file
           rule == save[p].rule
<1>1. /\ save[p].at = "open" /\ save' = [save EXCEPT ![p] = NoSave]
      /\ alive' = alive \cup {rule.id}
      /\ ask' = IF p \in Clis THEN [ask EXCEPT ![p] = NoAsk] ELSE ask
      /\ (p = Gui /\ BeginLoad(Gui)) \/ (p # Gui /\ Touch(f, p) /\ UNCHANGED load)
      /\ UNCHANGED <<ops, doubtful>>
  BY DEF WriteOut
<1>2. f \in Files /\ rule \in Rule /\ rule.id \in Ids /\ Placed(f, rule.id)
  BY <1>1, SaveTyped, Rules DEF StoreInv, SavesPlaced, Pending
<1>3. PICK c \in Written(files[f], rule) : files' = [files EXCEPT ![f] = c]
  BY DEF WriteOut
<1>4. c \in Content /\ (c.id \in Ids => Placed(f, c.id))
  BY <1>2, WrittenTyped, Empties, StoreAssumption DEF StoreInv, TypeOK
<1>5. files' \in [Files -> Content] /\ FilesPlaced'
  BY <1>2, <1>3, <1>4, FileTyped DEF StoreInv
<1>6. /\ load' \in [Loaders -> Listing] /\ ListsPlaced'
      /\ touched' \in [Loaders -> SUBSET Files]
      /\ \A c1 \in Clis : load'[c1] = load[c1]
  <2>1. CASE p = Gui /\ BeginLoad(Gui)
    BY <2>1, BeginLoadTyped, StoreAssumption DEF StoreInv, Loaders
  <2>2. CASE p # Gui /\ Touch(f, p) /\ UNCHANGED load
    BY <1>2, <2>2, TouchTyped DEF StoreInv, TypeOK, ListsPlaced
  <2> QED BY <1>1, <2>1, <2>2
<1>7. /\ save' \in [Savers -> Writing] /\ SavesPlaced' /\ Phases'
      /\ ask' \in [Clis -> [id : Ids \cup {NoId}, on : BOOLEAN]]
  BY <1>1, <1>6, SaveEnds
<1>8. TypeOK'
  BY <1>1, <1>2, <1>5, <1>6, <1>7 DEF StoreInv, TypeOK
<1> QED BY <1>5, <1>6, <1>7, <1>8 DEF StoreInv

LEMMA WriteNowhereKeeps ==
    ASSUME StoreInv, NEW p \in Savers, WriteNowhere(p) PROVE StoreInv'
<1>1. /\ save[p].at = "unlinked" /\ save' = [save EXCEPT ![p] = NoSave]
      /\ ask' = IF p \in Clis THEN [ask EXCEPT ![p] = NoAsk] ELSE ask
      /\ (p = Gui /\ BeginLoad(Gui)) \/ UNCHANGED <<load, touched>>
      /\ UNCHANGED <<files, ops, doubtful, alive>>
  BY DEF WriteNowhere
<1>2. /\ load' \in [Loaders -> Listing] /\ ListsPlaced'
      /\ touched' \in [Loaders -> SUBSET Files]
      /\ \A c \in Clis : load'[c] = load[c]
  <2>1. CASE p = Gui /\ BeginLoad(Gui)
    BY <2>1, BeginLoadTyped, StoreAssumption DEF StoreInv, Loaders
  <2>2. CASE UNCHANGED <<load, touched>>
    BY <2>2 DEF StoreInv, TypeOK, ListsPlaced
  <2> QED BY <1>1, <2>1, <2>2
<1>3. /\ save' \in [Savers -> Writing] /\ SavesPlaced' /\ Phases'
      /\ ask' \in [Clis -> [id : Ids \cup {NoId}, on : BOOLEAN]]
  BY <1>1, <1>2, SaveEnds
<1>4. TypeOK' /\ FilesPlaced'
  BY <1>1, <1>2, <1>3 DEF StoreInv, TypeOK, FilesPlaced
<1> QED BY <1>2, <1>3, <1>4 DEF StoreInv

LEMMA BreakOffKeeps ==
    ASSUME StoreInv, NEW p \in Savers, BreakOff(p) PROVE StoreInv'
<1>1. /\ save[p].at # "none" /\ save' = [save EXCEPT ![p] = NoSave]
      /\ doubtful' = doubtful \cup {save[p].rule.id}
      /\ ask' = IF p \in Clis THEN [ask EXCEPT ![p] = NoAsk] ELSE ask
      /\ UNCHANGED <<files, load, ops, touched, alive>>
  BY DEF BreakOff, Pending
<1>2. save[p].rule.id \in Ids
  BY Rules DEF StoreInv, SavesPlaced, BreakOff
<1>3. /\ save' \in [Savers -> Writing] /\ SavesPlaced' /\ Phases'
      /\ ask' \in [Clis -> [id : Ids \cup {NoId}, on : BOOLEAN]]
  BY <1>1, SaveEnds
<1>4. TypeOK' /\ FilesPlaced' /\ ListsPlaced'
  BY <1>1, <1>2, <1>3 DEF StoreInv, TypeOK, FilesPlaced, ListsPlaced
<1> QED BY <1>3, <1>4 DEF StoreInv

LEMMA ListedRules ==
    ASSUME StoreInv, NEW f \in Listed
    PROVE  /\ f \in Files /\ load[Gui].list[f] \in Rule /\ load[Gui].list[f].id \in Ids
           /\ Placed(f, load[Gui].list[f].id)
<1>1. Gui \in Loaders
  BY DEF Loaders
<1> QED BY <1>1, ListTyped, Rules DEF StoreInv, Listed, ListsPlaced

LEMMA GuiToggleKeeps ==
    ASSUME StoreInv, NEW t \in Threads, GuiToggle(t) PROVE StoreInv'
<1>1. PICK f \in Listed :
         /\ load' = [load EXCEPT ![Gui].list[f].on = ~load[Gui].list[f].on]
         /\ StartSave(t, f, load'[Gui].list[f])
  BY DEF GuiToggle
<1>2. ops' \in 0..MaxOps /\ UNCHANGED <<files, ask, touched, alive>>
  BY StoreAssumption DEF GuiToggle, Asked, StoreInv, TypeOK
<1>3. Gui \in Loaders /\ t \in Savers /\ t \notin Clis /\ Gui \notin Clis
  BY StoreAssumption DEF Loaders, Savers
<1>4. /\ load' \in [Loaders -> Listing] /\ ListsPlaced'
      /\ \A k \in Loaders \ {Gui} : load'[k] = load[k]
      /\ load'[Gui].list[f] \in Rule /\ load'[Gui].list[f].id = load[Gui].list[f].id
  <2>1. f \in Files /\ load[Gui].list[f] \in Rule
    BY ListedRules
  <2>2. TypeOK /\ ListsPlaced
    BY DEF StoreInv
  <2> QED BY <1>1, <1>3, <2>1, <2>2, FlipTyped
<1>5. Placed(f, load'[Gui].list[f].id)
  BY <1>4, ListedRules
<1>6. /\ save' \in [Savers -> Writing] /\ SavesPlaced'
      /\ \A q \in Savers \ {t} : save'[q] = save[q]
      /\ doubtful' \subseteq Ids
  BY <1>1, <1>3, <1>4, <1>5, StartOfSave, ListedRules DEF StoreInv
<1>7. TypeOK' /\ FilesPlaced'
  BY <1>2, <1>4, <1>6 DEF StoreInv, TypeOK, FilesPlaced
<1>8. Phases'
  BY <1>2, <1>3, <1>4, <1>6 DEF StoreInv, Phases, Loaders, Savers
<1> QED BY <1>4, <1>6, <1>7, <1>8 DEF StoreInv

LEMMA GuiSaveKeeps ==
    ASSUME StoreInv, GuiSave PROVE StoreInv'
<1>1. PICK id \in Ids, on \in BOOLEAN : StartSave(Gui, NameOf[id], NewRule(id, on))
  BY ListedRules DEF GuiSave
<1>2. ops' \in 0..MaxOps /\ UNCHANGED <<files, load, ask, touched, alive>>
  BY StoreAssumption DEF GuiSave, Asked, StoreInv, TypeOK
<1>3. Gui \in Savers /\ Gui \notin Clis /\ NameOf[id] \in Files
  BY StoreAssumption DEF Savers
<1>4. NewRule(id, on) \in Rule /\ Placed(NameOf[id], NewRule(id, on).id)
  BY NewRules DEF Placed
<1>5. /\ save' \in [Savers -> Writing] /\ SavesPlaced'
      /\ \A q \in Savers \ {Gui} : save'[q] = save[q]
      /\ doubtful' \subseteq Ids
  BY <1>1, <1>3, <1>4, StartOfSave DEF StoreInv
<1>6. TypeOK' /\ FilesPlaced' /\ ListsPlaced'
  BY <1>2, <1>5 DEF StoreInv, TypeOK, FilesPlaced, ListsPlaced
<1>7. Phases'
  BY <1>2, <1>3, <1>5 DEF StoreInv, Phases, Savers
<1> QED BY <1>5, <1>6, <1>7 DEF StoreInv

LEMMA DoomedFiles ==
    ASSUME StoreInv, NEW id \in Ids, NEW f \in Doomed(id)
    PROVE  /\ f \in Files
           /\ \/ f = NameOf[id]
              \/ files[NameOf[id]] = Missing /\ files[f].id = id
  BY StoreAssumption DEF Doomed

LEMMA GuiDeleteKeeps ==
    ASSUME StoreInv, GuiDelete PROVE StoreInv'
<1>1. PICK g \in Listed :
         LET id == load[Gui].list[g].id
         IN  \/ /\ Doomed(id) = {} /\ BeginLoad(Gui)
                /\ UNCHANGED <<files, save, alive>>
             \/ \E f \in Doomed(id) :
                   /\ Unlink(f, id)
                   /\ load' = [load EXCEPT ![Gui] = [Begin EXCEPT !.must = Begin.must \ {f}]]
                   /\ touched' = [l \in Loaders |->
                         IF l = Gui THEN {h \in Files : Saving(h)} ELSE touched[l] \cup {f}]
  BY DEF GuiDelete
<1> DEFINE id == load[Gui].list[g].id
<1>2. ops' \in 0..MaxOps /\ UNCHANGED <<ask, doubtful>>
  BY StoreAssumption DEF GuiDelete, Asked, StoreInv, TypeOK
<1>3. Gui \in Loaders /\ Gui \notin Clis /\ id \in Ids
  BY ListedRules, StoreAssumption DEF Loaders
<1>4. CASE BeginLoad(Gui) /\ UNCHANGED <<files, save, alive>>
  <2>1. /\ load' \in [Loaders -> Listing] /\ ListsPlaced'
        /\ touched' \in [Loaders -> SUBSET Files]
        /\ \A k \in Loaders \ {Gui} : load'[k] = load[k]
    BY <1>3, <1>4, BeginLoadTyped DEF StoreInv
  <2>2. TypeOK' /\ FilesPlaced' /\ SavesPlaced'
    BY <1>2, <1>4, <2>1 DEF StoreInv, TypeOK, FilesPlaced, SavesPlaced, Pending
  <2>3. Phases'
    BY <1>2, <1>3, <1>4, <2>1 DEF StoreInv, Phases, Loaders
  <2> QED BY <2>1, <2>2, <2>3 DEF StoreInv
<1>5. ASSUME NEW f \in Doomed(id), Unlink(f, id),
             load' = [load EXCEPT ![Gui] = [Begin EXCEPT !.must = Begin.must \ {f}]],
             touched' = [l \in Loaders |->
                IF l = Gui THEN {h \in Files : Saving(h)} ELSE touched[l] \cup {f}]
      PROVE  StoreInv'
  <2>1. f \in Files
    BY <1>3, DoomedFiles
  <2>2. /\ files' \in [Files -> Content] /\ FilesPlaced'
        /\ save' \in [Savers -> Writing] /\ SavesPlaced'
        /\ \A p \in Savers : /\ save[p].at = "none" => save'[p].at = "none"
                             /\ save'[p].at = "none" => save[p].at = "none"
        /\ alive' \subseteq Ids
    BY <1>3, <1>5, <2>1, UnlinkTyped DEF StoreInv
  <2>3. [Begin EXCEPT !.must = Begin.must \ {f}] \in Listing
        /\ [Begin EXCEPT !.must = Begin.must \ {f}].list = NoList
    BY BeginTyped DEF StoreInv, Listing
  <2>4. /\ load' \in [Loaders -> Listing] /\ ListsPlaced'
        /\ \A k \in Loaders \ {Gui} : load'[k] = load[k]
    BY <1>3, <1>5, <2>3, FreshList DEF StoreInv
  <2>5. /\ touched' \in [Loaders -> SUBSET Files]
       
    BY <1>5, <2>1 DEF StoreInv, TypeOK
  <2>6. TypeOK'
    BY <1>2, <2>2, <2>4, <2>5 DEF StoreInv, TypeOK
  <2>7. Phases'
    BY <1>2, <1>3, <2>2, <2>4 DEF StoreInv, Phases, Loaders, Savers
  <2> QED BY <2>2, <2>4, <2>6, <2>7 DEF StoreInv
<1> QED BY <1>1, <1>4, <1>5

LEMMA GuiRestartKeeps ==
    ASSUME StoreInv, GuiRestart PROVE StoreInv'
<1>1. /\ save' = [p \in Savers |-> IF p \in Clis THEN save[p] ELSE NoSave]
      /\ doubtful' = doubtful \cup {save[p].rule.id : p \in {q \in Threads \cup {Gui} : Pending(q)}}
      /\ BeginLoad(Gui) /\ UNCHANGED <<files, ask, alive>>
  BY DEF GuiRestart
<1>2. ops' \in 0..MaxOps
  BY StoreAssumption DEF GuiRestart, Asked, StoreInv, TypeOK
<1>3. Gui \in Loaders /\ Gui \notin Clis
  BY StoreAssumption DEF Loaders
<1>4. /\ load' \in [Loaders -> Listing] /\ ListsPlaced'
      /\ touched' \in [Loaders -> SUBSET Files]
      /\ \A k \in Loaders \ {Gui} : load'[k] = load[k]
  BY <1>1, <1>3, BeginLoadTyped DEF StoreInv
<1>5. /\ save' \in [Savers -> Writing]
      /\ \A p \in Savers : IF p \in Clis THEN save'[p] = save[p] ELSE save'[p].at = "none"
  BY <1>1, NoSaveTyped DEF StoreInv, TypeOK
<1>6. SavesPlaced'
  BY <1>5 DEF StoreInv, SavesPlaced, Pending, Placed
<1>7. doubtful' \subseteq Ids
  <2>1. \A q \in Savers : Pending(q) => save[q].rule.id \in Ids
    BY Rules DEF StoreInv, SavesPlaced
  <2>2. Threads \cup {Gui} \subseteq Savers /\ doubtful \subseteq Ids
    BY DEF Savers, StoreInv, TypeOK
  <2> QED BY <1>1, <2>1, <2>2
<1>8. TypeOK' /\ FilesPlaced'
  BY <1>1, <1>2, <1>4, <1>5, <1>7 DEF StoreInv, TypeOK, FilesPlaced
<1>9. Phases'
  BY <1>1, <1>3, <1>4, <1>5 DEF StoreInv, Phases, Loaders, Savers
<1> QED BY <1>4, <1>6, <1>8, <1>9 DEF StoreInv

LEMMA CliToggleKeeps ==
    ASSUME StoreInv, NEW c \in Clis, CliToggle(c) PROVE StoreInv'
<1>1. PICK id \in Ids, on \in BOOLEAN : ask' = [ask EXCEPT ![c] = [id |-> id, on |-> on]]
  BY DEF CliToggle
<1>2. /\ load[c].pc = "idle" /\ save[c].at = "none" /\ BeginLoad(c)
      /\ UNCHANGED <<files, save, doubtful, alive>>
  BY DEF CliToggle, CliIdle
<1>3. ops' \in 0..MaxOps
  BY StoreAssumption DEF CliToggle, Asked, StoreInv, TypeOK
<1>4. c \in Loaders
  BY DEF Loaders
<1>5. /\ load' \in [Loaders -> Listing] /\ ListsPlaced'
      /\ touched' \in [Loaders -> SUBSET Files]
      /\ load'[c] = Begin /\ \A k \in Loaders \ {c} : load'[k] = load[k]
  BY <1>2, <1>4, BeginLoadTyped DEF StoreInv
<1>6. /\ ask' \in [Clis -> [id : Ids \cup {NoId}, on : BOOLEAN]]
      /\ ask'[c].id \in Ids /\ \A d \in Clis \ {c} : ask'[d] = ask[d]
  BY <1>1 DEF StoreInv, TypeOK
<1>7. TypeOK' /\ FilesPlaced' /\ SavesPlaced'
  BY <1>2, <1>3, <1>5, <1>6 DEF StoreInv, TypeOK, FilesPlaced, SavesPlaced, Pending
<1>8. Phases'
  BY <1>2, <1>5, <1>6, BeginTyped DEF StoreInv, Phases, Loaders
<1> QED BY <1>5, <1>7, <1>8 DEF StoreInv

LEMMA FoundRules ==
    ASSUME StoreInv, NEW c \in Clis, ask[c].id \in Ids, NEW f \in Found(load[c].list, ask[c].id)
    PROVE  f \in Files /\ load[c].list[f] \in Rule /\ load[c].list[f].id \in Ids
<1>1. f \in Files /\ load[c].list[f].id \in Ids
  BY StoreAssumption DEF Found
<1> QED BY <1>1, ListTyped, Contents DEF StoreInv, Loaders

LEMMA CliSetKeeps ==
    ASSUME StoreInv, NEW c \in Clis, CliSet(c) PROVE StoreInv'
<1>1. /\ load[c].pc = "done" /\ load' = [load EXCEPT ![c].pc = "idle"]
      /\ UNCHANGED <<files, ops, touched, alive>>
  BY DEF CliSet
<1>2. c \in Loaders /\ c \in Savers
  BY DEF Loaders, Savers
<1>3. /\ load' \in [Loaders -> Listing] /\ ListsPlaced'
      /\ load'[c].pc = "idle" /\ \A k \in Loaders \ {c} : load'[k] = load[k]
  BY <1>1, <1>2, PhaseTyped DEF StoreInv
<1>4. save[c].at = "none" /\ ask[c].id \in Ids
  BY <1>1 DEF StoreInv, Phases
<1>5. CASE ask' = [ask EXCEPT ![c] = NoAsk] /\ UNCHANGED <<save, doubtful>>
  <2>1. /\ ask' \in [Clis -> [id : Ids \cup {NoId}, on : BOOLEAN]]
        /\ ask'[c] = NoAsk /\ \A d \in Clis \ {c} : ask'[d] = ask[d]
    BY <1>5 DEF StoreInv, TypeOK, NoAsk
  <2>2. TypeOK' /\ FilesPlaced' /\ SavesPlaced'
    BY <1>1, <1>3, <1>5, <2>1 DEF StoreInv, TypeOK, FilesPlaced, SavesPlaced, Pending
  <2>3. Phases'
    BY <1>3, <1>5, <2>1 DEF StoreInv, Phases, Loaders
  <2> QED BY <1>3, <2>2, <2>3 DEF StoreInv
<1>6. ASSUME NEW f \in Found(load[c].list, ask[c].id), UNCHANGED ask,
             StartSave(c, NameOf[load[c].list[f].id], Set(load[c].list[f], ask[c].on))
      PROVE  StoreInv'
  <2> DEFINE rule == Set(load[c].list[f], ask[c].on)
  <2>1. /\ load[c].list[f].id \in Ids /\ ask[c].on \in BOOLEAN
        /\ rule \in Rule /\ rule.id = load[c].list[f].id
    <3>1. load[c].list[f].id \in Ids /\ load[c].list[f] \in Rule
      BY <1>4, FoundRules
    <3>2. ask[c].on \in BOOLEAN
      BY DEF StoreInv, TypeOK
    <3> QED BY <3>1, <3>2, SetRules
  <2>2. NameOf[load[c].list[f].id] \in Files /\ Placed(NameOf[load[c].list[f].id], rule.id)
    BY <2>1, StoreAssumption DEF Placed
  <2>3. /\ save' \in [Savers -> Writing] /\ SavesPlaced' /\ save'[c].at = "begun"
        /\ \A q \in Savers \ {c} : save'[q] = save[q]
        /\ doubtful' \subseteq Ids
    BY <1>2, <1>6, <2>1, <2>2, StartOfSave DEF StoreInv
  <2>4. TypeOK' /\ FilesPlaced'
    BY <1>1, <1>3, <1>6, <2>3 DEF StoreInv, TypeOK, FilesPlaced
  <2>5. Phases'
    BY <1>3, <1>6, <2>3 DEF StoreInv, Phases, Loaders, Savers
  <2> QED BY <1>3, <2>3, <2>4, <2>5 DEF StoreInv
<1> QED BY <1>5, <1>6 DEF CliSet

(* A command that saves at once, under the name of the rule. *)
LEMMA CliSaveKeeps ==
    ASSUME StoreInv, NEW c \in Clis, CliIdle(c), Asked, NEW rule \in Rule,
           StartSave(c, NameOf[rule.id], rule), UNCHANGED <<files, load, ask, touched, alive>>
    PROVE  StoreInv'
<1>1. ops' \in 0..MaxOps
  BY StoreAssumption DEF Asked, StoreInv, TypeOK
<1>2. c \in Savers /\ NameOf[rule.id] \in Files /\ Placed(NameOf[rule.id], rule.id)
  BY Rules, StoreAssumption DEF Savers, Placed
<1>3. /\ save' \in [Savers -> Writing] /\ SavesPlaced' /\ save'[c].at = "begun"
      /\ \A q \in Savers \ {c} : save'[q] = save[q]
      /\ doubtful' \subseteq Ids
  BY <1>2, StartOfSave DEF StoreInv
<1>4. TypeOK' /\ FilesPlaced' /\ ListsPlaced'
  BY <1>1, <1>3 DEF StoreInv, TypeOK, FilesPlaced, ListsPlaced
<1>5. Phases'
  BY <1>3 DEF StoreInv, Phases, Savers, CliIdle
<1> QED BY <1>3, <1>4, <1>5 DEF StoreInv

LEMMA CliAddKeeps ==
    ASSUME StoreInv, NEW c \in Clis, CliAdd(c) \/ CliImport(c) PROVE StoreInv'
<1>1. \E rule \in Rule : StartSave(c, NameOf[rule.id], rule)
  BY Rules, NewRules DEF CliAdd, CliImport
<1> QED BY <1>1, CliSaveKeeps DEF CliAdd, CliImport

LEMMA CliDeleteKeeps ==
    ASSUME StoreInv, NEW c \in Clis, CliDelete(c) PROVE StoreInv'
<1>1. PICK id \in Ids : \E f \in Doomed(id) :
         /\ Unlink(f, id) /\ Touch(f, c)
  BY DEF CliDelete
<1>2. PICK f \in Doomed(id) :
         /\ Unlink(f, id) /\ Touch(f, c)
  BY <1>1
<1>3. ops' \in 0..MaxOps /\ UNCHANGED <<load, ask, doubtful>>
  BY StoreAssumption DEF CliDelete, Asked, StoreInv, TypeOK
<1>4. f \in Files /\ c \in Savers
  BY DoomedFiles DEF Savers
<1>5. /\ files' \in [Files -> Content] /\ FilesPlaced'
      /\ save' \in [Savers -> Writing] /\ SavesPlaced'
      /\ \A p \in Savers : /\ save[p].at = "none" => save'[p].at = "none"
                           /\ save'[p].at = "none" => save[p].at = "none"
      /\ alive' \subseteq Ids
  BY <1>2, <1>4, UnlinkTyped DEF StoreInv
<1>6. /\ touched' \in [Loaders -> SUBSET Files]
     
  BY <1>2, <1>4, TouchTyped DEF StoreInv, TypeOK
<1>7. TypeOK' /\ ListsPlaced'
  BY <1>3, <1>5, <1>6 DEF StoreInv, TypeOK, ListsPlaced
<1>8. Phases'
  BY <1>3, <1>5 DEF StoreInv, Phases, Savers
<1> QED BY <1>5, <1>7, <1>8 DEF StoreInv

LEMMA EditByHandKeeps ==
    ASSUME StoreInv, EditByHand PROVE StoreInv'
<1>1. PICK f \in Files :
         /\ files[f].kind = "rule" /\ files' = [files EXCEPT ![f].on = ~files[f].on]
         /\ touched' = [l \in Loaders |-> touched[l] \cup {f}]
  BY DEF EditByHand
<1>2. ops' \in 0..MaxOps /\ UNCHANGED <<load, save, ask, doubtful, alive>>
  BY StoreAssumption DEF EditByHand, Asked, StoreInv, TypeOK
<1> DEFINE c == [files[f] EXCEPT !.on = ~files[f].on]
<1>3. c \in Content /\ c.id = files[f].id
  BY <1>1, Contents, FlipRules DEF StoreInv, TypeOK
<1>4. files' = [files EXCEPT ![f] = c]
  BY <1>1
<1> HIDE DEF c
<1>5. files' \in [Files -> Content] /\ FilesPlaced'
  BY <1>3, <1>4, FileTyped DEF StoreInv, FilesPlaced
<1>6. TypeOK'
  BY <1>1, <1>2, <1>5 DEF StoreInv, TypeOK
<1>7. ListsPlaced' /\ SavesPlaced' /\ Phases'
  BY <1>2 DEF StoreInv, ListsPlaced, SavesPlaced, Pending, Phases
<1> QED BY <1>5, <1>6, <1>7 DEF StoreInv

LEMMA CopyInKeeps ==
    ASSUME StoreInv, CopyIn PROVE StoreInv'
<1>1. PICK f \in Copies, rule \in Rule :
         /\ files[f] = Missing /\ files' = [files EXCEPT ![f] = rule]
         /\ alive' = alive \cup {rule.id}
         /\ doubtful' = IF Saving(f) THEN doubtful \cup {rule.id} ELSE doubtful
         /\ touched' = [l \in Loaders |-> touched[l] \cup {f}]
  BY DEF CopyIn
<1>2. ops' \in 0..MaxOps /\ UNCHANGED <<load, save, ask>>
  BY StoreAssumption DEF CopyIn, Asked, StoreInv, TypeOK
<1>3. f \in Files /\ rule \in Content /\ rule.id \in Ids /\ Placed(f, rule.id)
  BY StoreAssumption, Contents, Rules DEF Placed
<1>4. files' \in [Files -> Content] /\ FilesPlaced'
  BY <1>1, <1>3, FileTyped DEF StoreInv
<1>5. TypeOK'
  BY <1>1, <1>2, <1>3, <1>4 DEF StoreInv, TypeOK
<1>6. ListsPlaced' /\ SavesPlaced' /\ Phases'
  BY <1>2 DEF StoreInv, ListsPlaced, SavesPlaced, Pending, Phases
<1> QED BY <1>4, <1>5, <1>6 DEF StoreInv

LEMMA ReloadKeeps ==
    ASSUME StoreInv, Reload PROVE StoreInv'
<1>1. BeginLoad(Daemon) /\ UNCHANGED <<files, save, ask, doubtful, alive>>
  BY DEF Reload
<1>2. ops' \in 0..MaxOps
  BY StoreAssumption DEF Reload, Asked, StoreInv, TypeOK
<1>3. Daemon \in Loaders /\ Daemon \notin Clis
  BY StoreAssumption DEF Loaders
<1>4. /\ load' \in [Loaders -> Listing] /\ ListsPlaced'
      /\ touched' \in [Loaders -> SUBSET Files]
      /\ \A k \in Loaders \ {Daemon} : load'[k] = load[k]
  BY <1>1, <1>3, BeginLoadTyped DEF StoreInv
<1>5. TypeOK' /\ FilesPlaced' /\ SavesPlaced'
  BY <1>1, <1>2, <1>4 DEF StoreInv, TypeOK, FilesPlaced, SavesPlaced, Pending
<1>6. Phases'
  BY <1>1, <1>3, <1>4 DEF StoreInv, Phases, Loaders
<1> QED BY <1>4, <1>5, <1>6 DEF StoreInv

LEMMA StoreNext == StoreInv /\ [Next]_vars => StoreInv'
<1> SUFFICES ASSUME StoreInv, [Next]_vars PROVE StoreInv'
  OBVIOUS
<1>1. CASE UNCHANGED vars
  BY <1>1 DEF vars, StoreInv, TypeOK, FilesPlaced, ListsPlaced, SavesPlaced, Phases, Pending
<1> QED BY <1>1, ReadFileKeeps, EndLoadKeeps, TruncateKeeps, WriteOutKeeps, WriteNowhereKeeps,
           BreakOffKeeps, GuiToggleKeeps, GuiSaveKeeps, GuiDeleteKeeps, GuiRestartKeeps,
           CliToggleKeeps, CliSetKeeps, CliAddKeeps, CliDeleteKeeps, EditByHandKeeps,
           CopyInKeeps, ReloadKeeps DEF Next

(* The type of every variable of the store. *)
THEOREM TypeCorrect == Spec => []TypeOK
<1>1. StoreInv => TypeOK
  BY DEF StoreInv
<1> QED BY <1>1, StoreInit, StoreNext, PTL DEF Spec
----------------------------------------------------------------------------
(* Nothing is lost *)

(* Who saves a rule finds that rule in the file, or none, ... *)
OwnFile == \A p \in Savers : Pending(p) =>
              \/ files[save[p].file].id \notin Ids \ doubtful
              \/ files[save[p].file].id = save[p].rule.id
(* ... writes it into the empty file ... *)
OwnText == \A p \in Savers : save[p].at = "open" =>
              files[save[p].file].kind = "empty" \/ save[p].rule.id \in doubtful
(* ... and is the only one to do so, ... *)
Apart == \A p, q \in Savers :
            /\ p # q /\ Pending(p) /\ Pending(q)
            /\ save[p].file = save[q].file \/ save[p].rule.id = save[q].rule.id
            => save[p].rule.id \in doubtful /\ save[q].rule.id \in doubtful
(* ... or the rule is in doubt. *)
Kept == \A id \in alive \ doubtful :
           \/ \E f \in Files : files[f].id = id
           \/ \E p \in Savers : Pending(p) /\ save[p].rule.id = id

Parts == OwnFile /\ OwnText /\ Apart /\ Kept
LossInv == StoreInv /\ Parts

LEMMA LossInit == Init => LossInv
<1> SUFFICES ASSUME Init PROVE Parts
  BY StoreInit DEF LossInv
<1>1. \A p \in Savers : save[p].at = "none"
  BY NoSaveTyped DEF Init
<1> QED BY <1>1 DEF Init, Parts, OwnFile, OwnText, Apart, Kept, Pending

(* Saves end, if not well then with their rules in doubt. *)
LEMMA SavesEndLoss ==
    ASSUME LossInv, UNCHANGED <<files, alive>>, doubtful \subseteq doubtful',
           \A p \in Savers : \/ save'[p] = save[p]
                             \/ /\ ~Pending(p)' /\ save'[p].at # "open"
                                /\ Pending(p) => save[p].rule.id \in doubtful'
    PROVE  Parts'
<1>1. \A p \in Savers : Pending(p)' => Pending(p) /\ save'[p] = save[p]
  BY DEF Pending
<1>2. OwnFile'
  BY <1>1 DEF LossInv, Parts, OwnFile
<1>3. OwnText'
  BY DEF LossInv, Parts, OwnText
<1>4. Apart'
  BY <1>1 DEF LossInv, Parts, Apart
<1>5. Kept'
  BY DEF LossInv, Parts, Kept, Pending
<1> QED BY <1>2, <1>3, <1>4, <1>5 DEF Parts

LEMMA StartSaveLoss ==
    ASSUME LossInv, NEW p \in Savers, NEW f \in Files, NEW rule \in Rule, Placed(f, rule.id),
           ~Pending(p), StartSave(p, f, rule), UNCHANGED <<files, alive>>
    PROVE  Parts'
<1>1. /\ save'[p].at = "begun" /\ save'[p].file = f /\ save'[p].rule = rule
      /\ \A q \in Savers \ {p} : save'[q] = save[q]
  BY StartOfSave DEF LossInv, StoreInv
<1>2. doubtful' = doubtful \cup InDoubt(f, rule.id)
  BY DEF StartSave
<1>3. rule.id \in Ids /\ (files[f].id \in Ids => files[f].id = rule.id \/ files[f].id \in doubtful')
  BY <1>2, Rules DEF InDoubt
<1>4. \A q \in Savers : Pending(q) /\ (save[q].file = f \/ save[q].rule.id = rule.id)
                         => rule.id \in doubtful' /\ save[q].rule.id \in doubtful'
  BY <1>2 DEF InDoubt, Overlapping
<1>5. doubtful \subseteq doubtful'
  BY <1>2
<1>6. OwnFile'
  BY <1>1, <1>3, <1>5 DEF LossInv, Parts, OwnFile, Pending
<1>7. OwnText'
  BY <1>1, <1>5 DEF LossInv, Parts, OwnText
<1>8. Apart'
  <2> SUFFICES ASSUME NEW a \in Savers, NEW b \in Savers, a # b, Pending(a)', Pending(b)',
                      save'[a].file = save'[b].file \/ save'[a].rule.id = save'[b].rule.id
               PROVE  save'[a].rule.id \in doubtful' /\ save'[b].rule.id \in doubtful'
    BY DEF Apart
  <2>1. CASE a = p
    BY <1>1, <1>4, <2>1 DEF Pending
  <2>2. CASE b = p
    BY <1>1, <1>4, <2>2 DEF Pending
  <2>3. CASE a # p /\ b # p
    BY <1>1, <1>5, <2>3 DEF LossInv, Parts, Apart, Pending
  <2> QED BY <2>1, <2>2, <2>3
<1>9. Kept'
  BY <1>1, <1>5 DEF LossInv, Parts, Kept, Pending
<1> QED BY <1>6, <1>7, <1>8, <1>9 DEF Parts

LEMMA TruncateLoss ==
    ASSUME LossInv, NEW p \in Savers, Truncate(p) PROVE Parts'
<1> DEFINE f == save[p].file
<1>1. /\ save[p].at = "begun" /\ files' = [files EXCEPT ![f] = Nothing("empty")]
      /\ save' = [save EXCEPT ![p].at = "open"] /\ UNCHANGED <<alive, doubtful>>
  BY DEF Truncate
<1>2. /\ save'[p].at = "open" /\ save'[p].file = save[p].file /\ save'[p].rule = save[p].rule
      /\ \A q \in Savers \ {p} : save'[q] = save[q]
  BY <1>1 DEF LossInv, StoreInv, TypeOK, Writing
<1>3. \A q \in Savers : /\ Pending(q)' <=> Pending(q)
                        /\ save'[q].rule = save[q].rule /\ save'[q].file = save[q].file
  BY <1>1, <1>2 DEF Pending
<1>4. \A g \in Files : files'[g] = IF g = f THEN Nothing("empty") ELSE files[g]
  BY <1>1 DEF LossInv, StoreInv, TypeOK
<1>5. f \in Files /\ Nothing("empty").id \notin Ids /\ Nothing("empty").kind = "empty"
  BY SaveTyped, Empties, StoreAssumption DEF LossInv, StoreInv
<1>6. \A q \in Savers : save[q].file \in Files
  BY SaveTyped DEF LossInv, StoreInv
<1>7. OwnFile'
  BY <1>1, <1>3, <1>4, <1>5, <1>6 DEF LossInv, Parts, OwnFile
<1>8. OwnText'
  BY <1>1, <1>2, <1>4, <1>5, <1>6 DEF LossInv, Parts, OwnText
<1>9. Apart'
  BY <1>1, <1>3 DEF LossInv, Parts, Apart
<1>10. Kept'
  <2> SUFFICES ASSUME NEW id \in alive \ doubtful
               PROVE  \/ \E g \in Files : files'[g].id = id
                      \/ \E q \in Savers : Pending(q)' /\ save'[q].rule.id = id
    BY <1>1 DEF Kept
  <2>1. Pending(p) /\ id \in Ids
    BY <1>1 DEF Pending, LossInv, StoreInv, TypeOK
  <2>2. CASE files[f].id = id
    BY <1>3, <2>1, <2>2 DEF LossInv, Parts, OwnFile
  <2>3. CASE files[f].id # id
    BY <1>3, <1>4, <2>3 DEF LossInv, Parts, Kept
  <2> QED BY <2>2, <2>3
<1> QED BY <1>7, <1>8, <1>9, <1>10 DEF Parts

LEMMA WriteOutLoss ==
    ASSUME LossInv, NEW p \in Savers, WriteOut(p) PROVE Parts'
<1> DEFINE f    == save[p].file
           rule == save[p].rule
<1>1. /\ save[p].at = "open" /\ save' = [save EXCEPT ![p] = NoSave]
      /\ alive' = alive \cup {rule.id} /\ doubtful' = doubtful
  BY DEF WriteOut
<1>2. PICK c \in Written(files[f], rule) : files' = [files EXCEPT ![f] = c]
  BY DEF WriteOut
<1>3. f \in Files /\ rule \in Rule /\ rule.id \in Ids /\ Pending(p)
  BY <1>1, SaveTyped, Rules DEF LossInv, StoreInv, SavesPlaced, Pending
<1>4. /\ save'[p].at = "none" /\ \A q \in Savers \ {p} : save'[q] = save[q]
  BY <1>1, EndOfSave DEF LossInv, StoreInv
<1>5. \A g \in Files : files'[g] = IF g = f THEN c ELSE files[g]
  BY <1>2 DEF LossInv, StoreInv, TypeOK
<1>6. /\ c = rule \/ c.id \notin Ids
      /\ c = rule \/ rule.id \in doubtful
  BY <1>1, <1>3, WrittenTyped, Empties, StoreAssumption
     DEF LossInv, StoreInv, TypeOK, Parts, OwnText
<1>7. \A q \in Savers \ {p} : Pending(q) /\ save[q].file = f =>
         save[q].rule.id \in doubtful /\ rule.id \in doubtful
  BY <1>3 DEF LossInv, Parts, Apart
<1>8. \A q \in Savers : Pending(q)' => q # p /\ Pending(q) /\ save'[q] = save[q]
  BY <1>4 DEF Pending
<1>9. \A q \in Savers : save[q].file \in Files
  BY SaveTyped DEF LossInv, StoreInv
<1>10. OwnFile'
  BY <1>1, <1>5, <1>6, <1>7, <1>8, <1>9 DEF LossInv, Parts, OwnFile
<1>11. OwnText'
  BY <1>1, <1>4, <1>5, <1>7, <1>9 DEF LossInv, Parts, OwnText, Pending
<1>12. Apart'
  BY <1>1, <1>8 DEF LossInv, Parts, Apart
<1>13. Kept'
  <2> SUFFICES ASSUME NEW id \in alive' \ doubtful
               PROVE  \/ \E g \in Files : files'[g].id = id
                      \/ \E q \in Savers : Pending(q)' /\ save'[q].rule.id = id
    BY <1>1 DEF Kept
  <2>1. CASE id = rule.id
    BY <1>3, <1>5, <1>6, <2>1
  <2>2. CASE id # rule.id
    <3>1. id \in alive /\ id \in Ids
      BY <1>1, <2>2 DEF LossInv, StoreInv, TypeOK
    <3>2. files[f].id # id
      BY <1>3, <2>2, <3>1 DEF LossInv, Parts, OwnFile
    <3>3. CASE \E g \in Files : files[g].id = id
      BY <1>5, <3>2, <3>3
    <3>4. CASE \E q \in Savers : Pending(q) /\ save[q].rule.id = id
      BY <1>4, <2>2, <3>4 DEF Pending
    <3> QED BY <3>1, <3>3, <3>4 DEF LossInv, Parts, Kept
  <2> QED BY <2>1, <2>2
<1> QED BY <1>10, <1>11, <1>12, <1>13 DEF Parts

LEMMA UnlinkLoss ==
    ASSUME LossInv, NEW id \in Ids, NEW f \in Doomed(id), Unlink(f, id), UNCHANGED doubtful
    PROVE  Parts'
<1>1. f \in Files /\ (f = NameOf[id] \/ files[f].id = id)
  BY DoomedFiles DEF LossInv
<1>2. /\ files'[f] = Missing /\ \A g \in Files \ {f} : files'[g] = files[g]
      /\ \A p \in Savers :
            IF save[p].at = "open" /\ save[p].file = f
            THEN save'[p].at = "unlinked" ELSE save'[p] = save[p]
      /\ alive' = alive \ {id}
  BY <1>1, UnlinkTyped DEF LossInv, StoreInv
<1>3. \A p \in Savers : /\ Pending(p)' => Pending(p) /\ save'[p] = save[p]
                        /\ save'[p].at = "open" => save[p].file # f /\ save'[p] = save[p]
                        /\ save[p].file \in Files
  BY <1>2, SaveTyped DEF LossInv, StoreInv, Pending
<1>4. Missing.id \notin Ids
  BY Empties, StoreAssumption
<1>5. OwnFile'
  BY <1>1, <1>2, <1>3, <1>4 DEF LossInv, Parts, OwnFile
<1>6. OwnText'
  BY <1>2, <1>3 DEF LossInv, Parts, OwnText
<1>7. Apart'
  BY <1>3 DEF LossInv, Parts, Apart
<1>8. Kept'
  <2> SUFFICES ASSUME NEW i \in alive \ doubtful, i # id
               PROVE  \/ \E g \in Files : files'[g].id = i
                      \/ \E q \in Savers : Pending(q)' /\ save'[q].rule.id = i
    BY <1>2 DEF Kept
  <2>1. i \in Ids
    BY DEF LossInv, StoreInv, TypeOK
  <2>2. files[f].id # i
    BY <1>1, <2>1, StoreAssumption DEF LossInv, StoreInv, FilesPlaced, Placed
  <2>3. CASE \E g \in Files : files[g].id = i
    BY <1>2, <2>2, <2>3
  <2>4. ASSUME NEW q \in Savers, Pending(q), save[q].rule.id = i
        PROVE  Pending(q)' /\ save'[q].rule.id = i
    <3>1. ~(save[q].at = "open" /\ save[q].file = f)
      <4> SUFFICES ASSUME save[q].at = "open", save[q].file = f PROVE FALSE
        OBVIOUS
      <4>1. f \in Copies
        <5>1. f \in Copies \/ f = NameOf[i]
          BY <2>4 DEF LossInv, StoreInv, SavesPlaced, Placed
        <5>2. f \in Copies \/ f = NameOf[id]
          BY <1>1 DEF LossInv, StoreInv, FilesPlaced, Placed
        <5> QED BY <2>1, <5>1, <5>2, StoreAssumption
      <4>2. files[f].id = id
        BY <1>1, <4>1, StoreAssumption
      <4>3. files[f].kind = "rule"
        BY <1>1, <4>2, Contents DEF LossInv, StoreInv, TypeOK
      <4> QED BY <2>4, <4>3 DEF LossInv, Parts, OwnText
    <3> QED BY <1>2, <2>4, <3>1 DEF Pending
  <2> QED BY <2>3, <2>4 DEF LossInv, Parts, Kept
<1> QED BY <1>5, <1>6, <1>7, <1>8 DEF Parts

LEMMA EditByHandLoss ==
    ASSUME LossInv, EditByHand PROVE Parts'
<1>1. PICK f \in Files :
         /\ files[f].kind = "rule" /\ ~Saving(f) /\ files' = [files EXCEPT ![f].on = ~files[f].on]
  BY DEF EditByHand
<1>2. UNCHANGED <<save, alive, doubtful>>
  BY DEF EditByHand
<1>3. /\ files'[f] = [files[f] EXCEPT !.on = ~files[f].on]
      /\ \A g \in Files \ {f} : files'[g] = files[g]
  BY <1>1 DEF LossInv, StoreInv, TypeOK
<1>4. files'[f].id = files[f].id
  BY <1>1, <1>3, Contents, FlipRules DEF LossInv, StoreInv, TypeOK
<1>5. \A p \in Savers : Pending(p) => save[p].file \in Files \ {f}
  BY <1>1, SaveTyped DEF LossInv, StoreInv, Saving
<1>6. OwnFile' /\ OwnText'
  BY <1>2, <1>3, <1>5 DEF LossInv, Parts, OwnFile, OwnText, Pending
<1>7. Apart'
  BY <1>2 DEF LossInv, Parts, Apart, Pending
<1>8. \A g \in Files : files'[g].id = files[g].id
  BY <1>3, <1>4
<1>9. Kept'
  BY <1>2, <1>8 DEF LossInv, Parts, Kept, Pending
<1> QED BY <1>6, <1>7, <1>9 DEF Parts

LEMMA CopyInLoss ==
    ASSUME LossInv, CopyIn PROVE Parts'
<1>1. PICK f \in Copies, rule \in Rule :
         /\ files[f] = Missing /\ files' = [files EXCEPT ![f] = rule]
         /\ alive' = alive \cup {rule.id}
         /\ doubtful' = IF Saving(f) THEN doubtful \cup {rule.id} ELSE doubtful
  BY DEF CopyIn
<1>2. UNCHANGED save
  BY DEF CopyIn
<1>3. f \in Files /\ Missing.kind # "empty" /\ Missing.id \notin Ids
  BY StoreAssumption, Empties
<1>4. \A g \in Files : files'[g] = IF g = f THEN rule ELSE files[g]
  BY <1>1 DEF LossInv, StoreInv, TypeOK
<1>5. \A p \in Savers : Pending(p) /\ save[p].file = f => rule.id \in doubtful'
  BY <1>1 DEF Saving
<1>6. \A p \in Savers : save[p].at = "open" /\ save[p].file = f => save[p].rule.id \in doubtful
  BY <1>1, <1>3 DEF LossInv, Parts, OwnText
<1>7. doubtful \subseteq doubtful' /\ \A p \in Savers : save[p].file \in Files
  BY <1>1, SaveTyped DEF LossInv, StoreInv
<1>8. OwnFile'
  BY <1>2, <1>4, <1>5, <1>7 DEF LossInv, Parts, OwnFile, Pending
<1>9. OwnText'
  BY <1>2, <1>4, <1>6, <1>7 DEF LossInv, Parts, OwnText
<1>10. Apart'
  BY <1>2, <1>7 DEF LossInv, Parts, Apart, Pending
<1>11. Kept'
  <2> SUFFICES ASSUME NEW id \in alive' \ doubtful'
               PROVE  \/ \E g \in Files : files'[g].id = id
                      \/ \E q \in Savers : Pending(q)' /\ save'[q].rule.id = id
    BY DEF Kept
  <2>1. CASE id = rule.id
    BY <1>3, <1>4, <2>1
  <2>2. CASE id # rule.id
    <3>1. id \in alive \ doubtful /\ id \in Ids
      BY <1>1, <1>7, <2>2 DEF LossInv, StoreInv, TypeOK
    <3>2. files[f].id # id
      BY <1>1, <1>3, <3>1
    <3> QED BY <1>2, <1>4, <3>1, <3>2 DEF LossInv, Parts, Kept, Pending
  <2> QED BY <2>1, <2>2
<1> QED BY <1>8, <1>9, <1>10, <1>11 DEF Parts

LEMMA LossNext == LossInv /\ [Next]_vars => LossInv'
<1> SUFFICES ASSUME LossInv, [Next]_vars PROVE Parts'
  BY StoreNext DEF LossInv
<1>1. CASE UNCHANGED vars
  BY <1>1, SavesEndLoss DEF vars
<1>2. ASSUME NEW l \in Loaders, ReadFile(l) \/ EndLoad(l) PROVE Parts'
  BY <1>2, SavesEndLoss DEF ReadFile, EndLoad
<1>3. ASSUME NEW p \in Savers, Truncate(p) \/ WriteOut(p) PROVE Parts'
  BY <1>3, TruncateLoss, WriteOutLoss
<1>4. ASSUME NEW p \in Savers, WriteNowhere(p) \/ BreakOff(p) PROVE Parts'
  <2>1. /\ save' = [save EXCEPT ![p] = NoSave] /\ UNCHANGED <<files, alive>>
        /\ doubtful \subseteq doubtful' /\ (Pending(p) => save[p].rule.id \in doubtful')
    BY <1>4 DEF WriteNowhere, BreakOff, Pending
  <2>2. save'[p].at = "none" /\ \A q \in Savers \ {p} : save'[q] = save[q]
    BY <2>1, EndOfSave DEF LossInv, StoreInv
  <2> QED BY <2>1, <2>2, SavesEndLoss DEF Pending
<1>5. ASSUME NEW t \in Threads, GuiToggle(t) PROVE Parts'
  <2>1. PICK f \in Listed :
           /\ load' = [load EXCEPT ![Gui].list[f].on = ~load[Gui].list[f].on]
           /\ StartSave(t, f, load'[Gui].list[f])
    BY <1>5 DEF GuiToggle
  <2>2. Gui \in Loaders /\ t \in Savers
    BY DEF Loaders, Savers
  <2>3. f \in Files /\ load'[Gui].list[f] \in Rule /\ Placed(f, load'[Gui].list[f].id)
    BY <2>1, <2>2, ListedRules, FlipTyped DEF LossInv, StoreInv
  <2>4. ~Pending(t) /\ UNCHANGED <<files, alive>>
    BY <1>5 DEF GuiToggle, Pending
  <2> QED BY <2>1, <2>2, <2>3, <2>4, StartSaveLoss
<1>6. CASE GuiSave
  <2>1. PICK id \in Ids, on \in BOOLEAN : StartSave(Gui, NameOf[id], NewRule(id, on))
    BY <1>6, ListedRules DEF LossInv, GuiSave
  <2>2. Gui \in Savers /\ NameOf[id] \in Files
    BY StoreAssumption DEF Savers
  <2>3. NewRule(id, on) \in Rule /\ Placed(NameOf[id], NewRule(id, on).id)
    BY NewRules DEF Placed
  <2>4. ~Pending(Gui) /\ UNCHANGED <<files, alive>>
    BY <1>6 DEF GuiSave, GuiIdle, Pending
  <2> QED BY <2>1, <2>2, <2>3, <2>4, StartSaveLoss
<1>7. CASE GuiDelete
  <2>1. PICK g \in Listed :
           \/ UNCHANGED <<files, save, alive>>
           \/ \E f \in Doomed(load[Gui].list[g].id) : Unlink(f, load[Gui].list[g].id)
    BY <1>7 DEF GuiDelete
  <2>2. load[Gui].list[g].id \in Ids /\ UNCHANGED doubtful
    BY <1>7, ListedRules DEF LossInv, GuiDelete
  <2> QED BY <2>1, <2>2, UnlinkLoss, SavesEndLoss
<1>8. CASE GuiRestart
  <2>1. /\ save' = [p \in Savers |-> IF p \in Clis THEN save[p] ELSE NoSave]
        /\ doubtful' = doubtful \cup
             {save[p].rule.id : p \in {q \in Threads \cup {Gui} : Pending(q)}}
        /\ UNCHANGED <<files, alive>>
    BY <1>8 DEF GuiRestart
  <2>2. \A p \in Savers : p \in Clis \/ p \in Threads \cup {Gui}
    BY DEF Savers
  <2>3. \A p \in Savers : \/ save'[p] = save[p]
                          \/ /\ save'[p].at = "none"
                             /\ Pending(p) => save[p].rule.id \in doubtful'
    BY <2>1, <2>2, NoSaveTyped
  <2> QED BY <2>1, <2>3, SavesEndLoss DEF Pending
<1>9. ASSUME NEW c \in Clis, CliToggle(c) PROVE Parts'
  BY <1>9, SavesEndLoss DEF CliToggle
<1>10. ASSUME NEW c \in Clis, CliSet(c) PROVE Parts'
  <2>1. c \in Savers /\ ~Pending(c) /\ ask[c].id \in Ids /\ UNCHANGED <<files, alive>>
    BY <1>10 DEF CliSet, LossInv, StoreInv, Phases, Savers, Pending
  <2>2. CASE UNCHANGED <<save, doubtful>>
    BY <2>1, <2>2, SavesEndLoss
  <2>3. ASSUME NEW f \in Found(load[c].list, ask[c].id),
               StartSave(c, NameOf[load[c].list[f].id], Set(load[c].list[f], ask[c].on))
        PROVE  Parts'
    <3> DEFINE rule == Set(load[c].list[f], ask[c].on)
    <3>1. load[c].list[f].id \in Ids /\ load[c].list[f] \in Rule
      BY <2>1, FoundRules DEF LossInv
    <3>2. ask[c].on \in BOOLEAN
      BY DEF LossInv, StoreInv, TypeOK
    <3>3. rule \in Rule /\ rule.id = load[c].list[f].id
      BY <3>1, <3>2, SetRules
    <3>4. NameOf[load[c].list[f].id] \in Files /\ Placed(NameOf[load[c].list[f].id], rule.id)
      BY <3>1, <3>3, StoreAssumption DEF Placed
    <3> HIDE DEF rule
    <3>5. StartSave(c, NameOf[load[c].list[f].id], rule)
      BY <2>3 DEF rule
    <3> QED BY <2>1, <3>3, <3>4, <3>5, StartSaveLoss
  <2> QED BY <1>10, <2>2, <2>3 DEF CliSet
<1>11. ASSUME NEW c \in Clis, CliAdd(c) \/ CliImport(c) PROVE Parts'
  <2>1. PICK rule \in Rule : StartSave(c, NameOf[rule.id], rule)
    BY <1>11, Rules, NewRules DEF CliAdd, CliImport
  <2>2. c \in Savers /\ NameOf[rule.id] \in Files /\ Placed(NameOf[rule.id], rule.id)
    BY Rules, StoreAssumption DEF Savers, Placed
  <2>3. ~Pending(c) /\ UNCHANGED <<files, alive>>
    BY <1>11 DEF CliAdd, CliImport, CliIdle, Pending
  <2> QED BY <2>1, <2>2, <2>3, StartSaveLoss
<1>12. ASSUME NEW c \in Clis, CliDelete(c) PROVE Parts'
  BY <1>12, UnlinkLoss DEF CliDelete
<1>13. CASE EditByHand
  BY <1>13, EditByHandLoss
<1>14. CASE CopyIn
  BY <1>14, CopyInLoss
<1>15. CASE Reload
  BY <1>15, SavesEndLoss DEF Reload
<1> QED BY <1>1, <1>2, <1>3, <1>4, <1>5, <1>6, <1>7, <1>8, <1>9, <1>10, <1>11, <1>12, <1>13,
           <1>14, <1>15 DEF Next

(* A rule that was saved and not deleted is in some file, or being saved,
   unless it is in doubt: whatever the programs do at the same time. *)
THEOREM NoRuleLost == Spec => []NothingLost
<1>1. LossInv => NothingLost
  BY DEF LossInv, Parts, Kept, NothingLost, SavingId
<1> QED BY <1>1, LossInit, LossNext, PTL DEF Spec
----------------------------------------------------------------------------
(* Lists are fresh *)

(* The writers whose work a list knows of: those of the GUI's switches. *)
Own(l) == IF l = Gui THEN Threads ELSE {}

(* While a list is read, what of it is untouched has been read as it is, or is
   still to be read and known to be there; and no switch writes to it. *)
Reads(l) == \A f \in Files \ touched[l] :
    /\ f \in load[l].seen => load[l].list[f] = Parsed(files[f])
    /\ f \notin load[l].seen => /\ load[l].list[f] = Missing
                                /\ files[f] # Missing => f \in load[l].must
    /\ \A t \in Own(l) : Pending(t) => save[t].file # f

(* Once it is read, what is untouched is in it as it is, or a switch is about
   to make it so, or the rule is in doubt. *)
Shows(l) == \A f \in Files \ touched[l] :
    /\ \/ load[l].list[f] = Parsed(files[f])
       \/ load[l].list[f].id \in doubtful
       \/ \E t \in Own(l) : Pending(t) /\ save[t].file = f
    /\ \A t \in Own(l) : Pending(t) /\ save[t].file = f =>
          save[t].rule = load[l].list[f] \/ load[l].list[f].id \in doubtful

(* Whoever else has begun to write has touched what it writes. *)
Knows(l) == \A p \in Savers \ Own(l) :
    save[p].at = "open" => save[p].file \in touched[l]

Fresh(l) == /\ load[l].pc = "reading" => Reads(l)
            /\ load[l].pc = "done" => Shows(l)
            /\ load[l].pc # "idle" => Knows(l)

FreshInv == LossInv /\ \A l \in Loaders : Fresh(l)

LEMMA OwnSavers == \A l : Own(l) \subseteq Savers
  BY DEF Own, Savers

LEMMA ParsedKinds ==
    /\ Parsed(Missing) = Missing
    /\ \A r \in Rule : Parsed(r) = r
  BY Rules, Empties DEF Parsed

LEMMA TouchKnown ==
    ASSUME TypeOK, NEW f \in Files, NEW p \in Savers, Touch(f, p), NEW l \in Loaders
    PROVE  touched[l] \subseteq touched'[l] /\ (f \in touched'[l] \/ p \in Own(l))
  BY DEF TypeOK, Touch, Own

(* What a step of others does to a list that is known of. *)
LEMMA FreshKeeps ==
    ASSUME FreshInv, NEW l \in Loaders, load'[l] = load[l],
           touched[l] \subseteq touched'[l], doubtful \subseteq doubtful',
           \A f \in Files \ touched'[l] :
              \/ files'[f] = files[f]
              \/ \E t \in Own(l) : Pending(t)' /\ save'[t].file = f,
           \A p \in Own(l) :
              \/ save'[p] = save[p]
              \/ /\ ~Pending(p)'
                 /\ Pending(p) => \/ save[p].rule.id \in doubtful'
                                  \/ save[p].file \in touched'[l]
              \/ /\ Pending(p) /\ Pending(p)'
                 /\ save'[p].file = save[p].file /\ save'[p].rule = save[p].rule,
           \A p \in Savers \ Own(l) :
              save'[p].at = "open" => \/ save'[p] = save[p]
                                      \/ save'[p].file \in touched'[l]
    PROVE  Fresh(l)'
<1>1. \A t \in Own(l) : Pending(t)' => /\ Pending(t) /\ save'[t].file = save[t].file
                                       /\ save'[t].rule = save[t].rule
  BY DEF Pending
<1>2. ASSUME load[l].pc = "reading" PROVE Reads(l)'
  <2>1. Reads(l)
    BY <1>2 DEF FreshInv, Fresh
  <2>2. \A f \in Files \ touched'[l] : files'[f] = files[f]
    BY <1>1, <2>1 DEF Reads
  <2>3. \A f \in Files \ touched'[l] : \A t \in Own(l) : Pending(t)' => save'[t].file # f
    BY <1>1, <2>1 DEF Reads
  <2> QED BY <2>1, <2>2, <2>3 DEF Reads
<1>3. ASSUME load[l].pc = "done" PROVE Shows(l)'
  <2>1. Shows(l)
    BY <1>3 DEF FreshInv, Fresh
  <2> SUFFICES ASSUME NEW f \in Files \ touched'[l]
               PROVE  /\ \/ load[l].list[f] = Parsed(files'[f])
                         \/ load[l].list[f].id \in doubtful'
                         \/ \E t \in Own(l) : Pending(t)' /\ save'[t].file = f
                      /\ \A t \in Own(l) : Pending(t)' /\ save'[t].file = f =>
                            save'[t].rule = load[l].list[f] \/ load[l].list[f].id \in doubtful'
    BY DEF Shows, Parsed
  <2>2. \A t \in Own(l) : Pending(t)' /\ save'[t].file = f =>
           save'[t].rule = load[l].list[f] \/ load[l].list[f].id \in doubtful'
    BY <1>1, <2>1 DEF Shows
  <2>3. ASSUME NEW t \in Own(l), Pending(t), save[t].file = f
        PROVE  \/ load[l].list[f].id \in doubtful'
               \/ Pending(t)' /\ save'[t].file = f
    <3>1. CASE Pending(t)'
      BY <1>1, <2>3, <3>1
    <3>2. CASE ~Pending(t)' /\ save[t].rule.id \in doubtful'
      BY <2>1, <2>3, <3>2 DEF Shows
    <3> QED BY <2>3, <3>1, <3>2 DEF Pending
  <2>4. CASE files'[f] = files[f]
    BY <2>1, <2>2, <2>3, <2>4 DEF Shows
  <2>5. CASE \E t \in Own(l) : Pending(t)' /\ save'[t].file = f
    BY <2>2, <2>5
  <2> QED BY <2>4, <2>5
<1>4. ASSUME load[l].pc # "idle" PROVE Knows(l)'
  BY <1>4 DEF FreshInv, Fresh, Knows
<1> QED BY <1>2, <1>3, <1>4 DEF Fresh

(* What has just been begun is fresh. *)
LEMMA FreshBegin ==
    ASSUME FreshInv, NEW l \in Loaders, load'[l].pc = "reading", load'[l].seen = {},
           load'[l].list = NoList, touched'[l] = {f \in Files : Saving(f)},
           \A f \in Files \ touched'[l] : files'[f] # Missing => f \in load'[l].must,
           \A p \in Savers : Pending(p)' => Pending(p) /\ save'[p].file = save[p].file
    PROVE  Fresh(l)'
<1>1. \A p \in Savers : Pending(p)' => save'[p].file \in touched'[l]
  BY SaveTyped DEF FreshInv, LossInv, StoreInv, Saving
<1>2. Reads(l)'
  BY <1>1, OwnSavers DEF Reads, NoList
<1>3. Knows(l)'
  BY <1>1 DEF Knows, Pending
<1> QED BY <1>2, <1>3 DEF Fresh

(* A switch writes what the list of the GUI shows. *)
LEMMA ThreadWrites ==
    ASSUME FreshInv, NEW t \in Threads, WriteOut(t)
    PROVE  Fresh(Gui)'
<1> DEFINE f    == save[t].file
           rule == save[t].rule
<1>1. /\ save[t].at = "open" /\ save' = [save EXCEPT ![t] = NoSave]
      /\ doubtful' = doubtful /\ load' = load /\ Touch(f, t)
  BY StoreAssumption DEF WriteOut
<1>2. PICK c \in Written(files[f], rule) : files' = [files EXCEPT ![f] = c]
  BY DEF WriteOut
<1>3. Gui \in Loaders /\ t \in Savers /\ Own(Gui) = Threads /\ t \in Own(Gui)
  BY DEF Loaders, Savers, Own
<1>4. f \in Files /\ rule \in Rule /\ Pending(t)
  BY <1>1, <1>3, SaveTyped DEF FreshInv, LossInv, StoreInv, SavesPlaced, Pending
<1>5. /\ save'[t].at = "none" /\ \A q \in Savers \ {t} : save'[q] = save[q]
  BY <1>1, <1>3, EndOfSave DEF FreshInv, LossInv, StoreInv
<1>6. touched'[Gui] = touched[Gui]
  BY <1>1, <1>3 DEF Touch
<1>7. \A g \in Files : files'[g] = IF g = f THEN c ELSE files[g]
  BY <1>2 DEF FreshInv, LossInv, StoreInv, TypeOK
<1>8. c = rule \/ rule.id \in doubtful
  BY <1>1, <1>3, <1>4, WrittenTyped DEF FreshInv, LossInv, StoreInv, TypeOK, Parts, OwnText
<1>9. \A q \in Savers : Pending(q)' => q # t /\ Pending(q) /\ save'[q] = save[q]
  BY <1>5 DEF Pending
<1>10. ASSUME load[Gui].pc = "reading" PROVE Reads(Gui)'
  <2>1. Reads(Gui) /\ f \in touched[Gui]
    BY <1>3, <1>4, <1>10 DEF FreshInv, Fresh, Reads
  <2> QED BY <1>1, <1>6, <1>7, <1>9, <2>1, OwnSavers DEF Reads
<1>11. ASSUME load[Gui].pc = "done" PROVE Shows(Gui)'
  <2>1. Shows(Gui)
    BY <1>3, <1>11 DEF FreshInv, Fresh
  <2> SUFFICES ASSUME NEW g \in Files \ touched[Gui]
               PROVE  /\ \/ load[Gui].list[g] = Parsed(files'[g])
                         \/ load[Gui].list[g].id \in doubtful
                         \/ \E q \in Own(Gui) : Pending(q)' /\ save'[q].file = g
                      /\ \A q \in Own(Gui) : Pending(q)' /\ save'[q].file = g =>
                            \/ save'[q].rule = load[Gui].list[g]
                            \/ load[Gui].list[g].id \in doubtful
    BY <1>1, <1>6 DEF Shows, Parsed
  <2>2. \A q \in Own(Gui) : Pending(q)' /\ save'[q].file = g =>
           save'[q].rule = load[Gui].list[g] \/ load[Gui].list[g].id \in doubtful
    BY <1>9, <2>1, OwnSavers DEF Shows
  <2>3. CASE g # f
    BY <1>4, <1>5, <1>7, <2>1, <2>2, <2>3, OwnSavers DEF Shows, Pending
  <2>4. CASE g = f
    <3>1. rule = load[Gui].list[f] \/ load[Gui].list[f].id \in doubtful
      BY <1>3, <1>4, <2>1, <2>4 DEF Shows
    <3>2. load[Gui].list[f] = Parsed(files'[f]) \/ load[Gui].list[f].id \in doubtful
      BY <1>4, <1>7, <1>8, <3>1, ParsedKinds
    <3> QED BY <2>2, <2>4, <3>2
  <2> QED BY <2>3, <2>4
<1>12. ASSUME load[Gui].pc # "idle" PROVE Knows(Gui)'
  <2>1. Knows(Gui)
    BY <1>3, <1>12 DEF FreshInv, Fresh
  <2> QED BY <1>3, <1>5, <1>6, <2>1 DEF Knows
<1> QED BY <1>1, <1>10, <1>11, <1>12 DEF Fresh

(* One more file is read, as it is. *)
LEMMA FreshRead ==
    ASSUME FreshInv, NEW l \in Loaders, ReadFile(l)
    PROVE  Fresh(l)'
<1>1. PICK f \in Files : load' = [load EXCEPT ![l].seen = load[l].seen \cup {f},
                                             ![l].list[f] = Parsed(files[f])]
  BY DEF ReadFile
<1>2. load[l].pc = "reading" /\ UNCHANGED <<files, save, touched, doubtful>>
  BY DEF ReadFile
<1>3. /\ load'[l].pc = load[l].pc /\ load'[l].must = load[l].must
      /\ load'[l].seen = load[l].seen \cup {f}
      /\ load'[l].list = [load[l].list EXCEPT ![f] = Parsed(files[f])]
  BY <1>1, ReadTyped DEF FreshInv, LossInv, StoreInv
<1>4. \A g \in Files : load'[l].list[g] = IF g = f THEN Parsed(files[f]) ELSE load[l].list[g]
  BY <1>3, ListTyped DEF FreshInv, LossInv, StoreInv
<1>5. Reads(l) /\ Knows(l)
  BY <1>2 DEF FreshInv, Fresh
<1>6. Reads(l)'
  BY <1>2, <1>3, <1>4, <1>5 DEF Reads, Pending, Parsed
<1>7. Knows(l)'
  BY <1>2, <1>5 DEF Knows
<1> QED BY <1>2, <1>3, <1>6, <1>7 DEF Fresh

(* What has not been read by the end is not there. *)
LEMMA FreshEnd ==
    ASSUME FreshInv, NEW l \in Loaders, EndLoad(l)
    PROVE  Fresh(l)'
<1>1. /\ load[l].pc = "reading" /\ load' = [load EXCEPT ![l].pc = "done"]
      /\ \A f \in load[l].must \ load[l].seen : files[f] = Missing
      /\ UNCHANGED <<files, save, touched, doubtful>>
  BY DEF EndLoad
<1>2. load'[l].pc = "done" /\ load'[l].list = load[l].list
  BY <1>1, PhaseTyped DEF FreshInv, LossInv, StoreInv
<1>3. Reads(l) /\ Knows(l)
  BY <1>1 DEF FreshInv, Fresh
<1>4. ASSUME NEW f \in Files \ touched[l]
      PROVE  /\ load[l].list[f] = Parsed(files[f])
             /\ \A t \in Own(l) : Pending(t) => save[t].file # f
  BY <1>1, <1>3, <1>4, ParsedKinds DEF Reads
<1>5. Shows(l)'
  BY <1>1, <1>2, <1>4 DEF Shows, Pending, Parsed
<1>6. Knows(l)'
  BY <1>1, <1>3 DEF Knows
<1> QED BY <1>2, <1>5, <1>6 DEF Fresh

(* A switch is flipped: the list shows it and its thread will write it. *)
LEMMA FreshToggle ==
    ASSUME FreshInv, NEW t \in Threads, GuiToggle(t)
    PROVE  Fresh(Gui)'
<1>1. PICK f \in Listed :
         /\ load' = [load EXCEPT ![Gui].list[f].on = ~load[Gui].list[f].on]
         /\ StartSave(t, f, load'[Gui].list[f])
  BY DEF GuiToggle
<1>2. load[Gui].pc = "done" /\ save[t].at = "none" /\ UNCHANGED <<files, touched>>
  BY DEF GuiToggle, GuiIdle
<1>3. Gui \in Loaders /\ t \in Savers /\ t \in Own(Gui)
  BY DEF Loaders, Savers, Own
<1>4. f \in Files /\ load[Gui].list[f] \in Rule /\ Placed(f, load[Gui].list[f].id)
  BY ListedRules DEF FreshInv, LossInv
<1>5. /\ load'[Gui].pc = "done"
      /\ \A g \in Files \ {f} : load'[Gui].list[g] = load[Gui].list[g]
      /\ load'[Gui].list[f] \in Rule /\ load'[Gui].list[f].id = load[Gui].list[f].id
  BY <1>1, <1>2, <1>3, <1>4, FlipTyped DEF FreshInv, LossInv, StoreInv
<1>6. /\ save'[t].at = "begun" /\ save'[t].file = f /\ save'[t].rule = load'[Gui].list[f]
      /\ \A q \in Savers \ {t} : save'[q] = save[q]
  <2> DEFINE rule == load'[Gui].list[f]
  <2>1. rule \in Rule /\ Placed(f, rule.id) /\ StartSave(t, f, rule)
    BY <1>1, <1>4, <1>5
  <2> HIDE DEF rule
  <2>2. /\ save'[t].at = "begun" /\ save'[t].file = f /\ save'[t].rule = rule
        /\ \A q \in Savers \ {t} : save'[q] = save[q]
    BY <1>3, <1>4, <2>1, StartOfSave DEF FreshInv, LossInv, StoreInv
  <2> QED BY <2>2 DEF rule
<1>7. doubtful' = doubtful \cup InDoubt(f, load'[Gui].list[f].id)
  BY <1>1 DEF StartSave
<1>8. \A q \in Savers : Pending(q) /\ save[q].file = f => load'[Gui].list[f].id \in doubtful'
  BY <1>7 DEF InDoubt, Overlapping
<1>9. Shows(Gui) /\ Knows(Gui)
  BY <1>2, <1>3 DEF FreshInv, Fresh
<1>10. Shows(Gui)'
  <2> SUFFICES ASSUME NEW g \in Files \ touched[Gui]
               PROVE  /\ \/ load'[Gui].list[g] = Parsed(files[g])
                         \/ load'[Gui].list[g].id \in doubtful'
                         \/ \E q \in Own(Gui) : Pending(q)' /\ save'[q].file = g
                      /\ \A q \in Own(Gui) : Pending(q)' /\ save'[q].file = g =>
                            \/ save'[q].rule = load'[Gui].list[g]
                            \/ load'[Gui].list[g].id \in doubtful'
    BY <1>2 DEF Shows, Parsed
  <2>1. CASE g = f
    BY <1>3, <1>6, <1>8, <2>1, OwnSavers DEF Pending
  <2>2. CASE g # f
    <3>1. \A q \in Own(Gui) : (Pending(q)' /\ save'[q].file = g)
                               <=> (Pending(q) /\ save[q].file = g)
      BY <1>2, <1>6, <2>2, OwnSavers DEF Pending
    <3>2. \A q \in Own(Gui) : Pending(q) => save'[q] = save[q]
      BY <1>2, <1>6, OwnSavers DEF Pending
    <3> QED BY <1>5, <1>7, <1>9, <2>2, <3>1, <3>2 DEF Shows
  <2> QED BY <2>1, <2>2
<1>11. Knows(Gui)'
  BY <1>2, <1>3, <1>6, <1>9 DEF Knows
<1> QED BY <1>5, <1>10, <1>11 DEF Fresh

(* A list is begun: that one is fresh, the others stay so. *)
LEMMA BeginFresh ==
    ASSUME FreshInv, NEW k \in Loaders, BeginLoad(k), UNCHANGED <<files, doubtful>>,
           \A p \in Savers : save'[p] = save[p] \/ save'[p].at = "none",
           \A t \in Threads : k # Gui => save'[t] = save[t],
           NEW l \in Loaders
    PROVE  Fresh(l)'
<1>1. load'[k] = Begin /\ \A j \in Loaders \ {k} : load'[j] = load[j]
  BY BeginLoadTyped DEF FreshInv, LossInv, StoreInv
<1>2. /\ touched'[k] = {f \in Files : Saving(f)}
      /\ \A j \in Loaders \ {k} : touched'[j] = touched[j]
  BY DEF BeginLoad, FreshInv, LossInv, StoreInv, TypeOK
<1>3. CASE l = k
  <2>1. /\ Begin.pc = "reading" /\ Begin.seen = {} /\ Begin.list = NoList
        /\ Begin.must = {f \in Files : files[f] # Missing}
    BY DEF Begin
  <2> QED BY <1>1, <1>2, <1>3, <2>1, FreshBegin DEF Pending
<1>4. CASE l # k
  <2>1. \A p \in Own(l) : save'[p] = save[p]
    BY <1>4 DEF Own
  <2> QED BY <1>1, <1>2, <1>4, <2>1, FreshKeeps
<1> QED BY <1>3, <1>4

(* Somebody begins to save, and it is not a switch of the list's own. *)
LEMMA SaveFresh ==
    ASSUME FreshInv, NEW p \in Savers, NEW f \in Files, NEW rule \in Rule, Placed(f, rule.id),
           StartSave(p, f, rule), UNCHANGED <<files, touched>>,
           NEW l \in Loaders, p \notin Own(l), load'[l] = load[l]
    PROVE  Fresh(l)'
<1>1. save'[p].at = "begun" /\ \A q \in Savers \ {p} : save'[q] = save[q]
  BY StartOfSave DEF FreshInv, LossInv, StoreInv
<1>2. doubtful \subseteq doubtful'
  BY DEF StartSave
<1>3. \A q \in Own(l) : save'[q] = save[q]
  BY <1>1, OwnSavers
<1> QED BY <1>1, <1>2, <1>3, FreshKeeps

(* Files change, in view of the list. *)
LEMMA TouchedFresh ==
    ASSUME FreshInv, UNCHANGED load, doubtful \subseteq doubtful', NEW l \in Loaders,
           touched[l] \subseteq touched'[l], NEW f \in touched'[l],
           \A g \in Files \ {f} : files'[g] = files[g],
           \A p \in Savers : \/ save'[p] = save[p]
                             \/ /\ save'[p].at \notin {"begun", "open"}
                                /\ Pending(p) => save[p].file = f
    PROVE  Fresh(l)'
<1>1. \A p \in Own(l) : \/ save'[p] = save[p]
                        \/ /\ ~Pending(p)'
                           /\ Pending(p) => save[p].file \in touched'[l]
  BY OwnSavers DEF Pending
<1>2. \A p \in Savers \ Own(l) : save'[p].at = "open" => save'[p] = save[p]
  OBVIOUS
<1> QED BY <1>1, <1>2, FreshKeeps

LEMMA TruncateFresh ==
    ASSUME FreshInv, NEW p \in Savers, Truncate(p), NEW l \in Loaders
    PROVE  Fresh(l)'
<1> DEFINE f == save[p].file
<1>1. /\ save[p].at = "begun" /\ files' = [files EXCEPT ![f] = Nothing("empty")]
      /\ save' = [save EXCEPT ![p].at = "open"] /\ Touch(f, p)
      /\ UNCHANGED <<load, doubtful>>
  BY DEF Truncate
<1>2. /\ save'[p].at = "open" /\ save'[p].file = f /\ save'[p].rule = save[p].rule
      /\ \A q \in Savers \ {p} : save'[q] = save[q]
  BY <1>1 DEF FreshInv, LossInv, StoreInv, TypeOK, Writing
<1>3. \A g \in Files \ {f} : files'[g] = files[g]
  BY <1>1 DEF FreshInv, LossInv, StoreInv, TypeOK
<1>4. touched[l] \subseteq touched'[l] /\ (f \in touched'[l] \/ p \in Own(l))
  BY <1>1, SaveTyped, TouchKnown DEF FreshInv, LossInv, StoreInv
<1>5. Pending(p) /\ Pending(p)'
  BY <1>1, <1>2 DEF Pending
<1>6. \A g \in Files \ touched'[l] :
         \/ files'[g] = files[g]
         \/ \E t \in Own(l) : Pending(t)' /\ save'[t].file = g
  BY <1>2, <1>3, <1>4, <1>5
<1> QED BY <1>1, <1>2, <1>4, <1>5, <1>6, OwnSavers, FreshKeeps

LEMMA WriteOutFresh ==
    ASSUME FreshInv, NEW p \in Savers, WriteOut(p), NEW l \in Loaders
    PROVE  Fresh(l)'
<1> DEFINE f == save[p].file
<1>1. /\ save[p].at = "open" /\ save' = [save EXCEPT ![p] = NoSave]
      /\ doubtful' = doubtful
      /\ (p = Gui /\ BeginLoad(Gui)) \/ (p # Gui /\ Touch(f, p) /\ UNCHANGED load)
  BY DEF WriteOut
<1>2. f \in Files /\ Pending(p)
  BY <1>1, SaveTyped DEF FreshInv, LossInv, StoreInv, Pending
<1>3. \A g \in Files \ {f} : files'[g] = files[g]
  BY DEF WriteOut, FreshInv, LossInv, StoreInv, TypeOK
<1>4. /\ save'[p].at = "none" /\ \A q \in Savers \ {p} : save'[q] = save[q]
  BY <1>1, EndOfSave DEF FreshInv, LossInv, StoreInv
<1>5. CASE p # Gui /\ Touch(f, p) /\ UNCHANGED load
  <2>1. touched[l] \subseteq touched'[l] /\ (f \in touched'[l] \/ p \in Own(l))
    BY <1>2, <1>5, TouchKnown DEF FreshInv, LossInv, StoreInv
  <2>2. CASE f \in touched'[l]
    BY <1>1, <1>3, <1>4, <1>5, <2>1, <2>2, TouchedFresh
  <2>3. CASE p \in Own(l)
    BY <2>3, ThreadWrites DEF Own
  <2> QED BY <2>1, <2>2, <2>3
<1>6. CASE p = Gui /\ BeginLoad(Gui)
  <2>1. Gui \in Loaders
    BY DEF Loaders
  <2>2. load'[Gui] = Begin /\ \A j \in Loaders \ {Gui} : load'[j] = load[j]
    BY <1>6, <2>1, BeginLoadTyped DEF FreshInv, LossInv, StoreInv
  <2>3. /\ touched'[Gui] = {g \in Files : Saving(g)}
        /\ \A j \in Loaders \ {Gui} : touched'[j] = touched[j]
    BY <1>6, <2>1 DEF BeginLoad, FreshInv, LossInv, StoreInv, TypeOK
  <2>4. CASE l = Gui
    <3>1. /\ Begin.pc = "reading" /\ Begin.seen = {} /\ Begin.list = NoList
          /\ Begin.must = {g \in Files : files[g] # Missing}
      BY DEF Begin
    <3>2. f \in touched'[l]
      BY <1>2, <2>3, <2>4 DEF Saving
    <3> QED BY <1>3, <1>4, <2>2, <2>3, <2>4, <3>1, <3>2, FreshBegin DEF Pending
  <2>5. CASE l # Gui /\ load[l].pc = "idle"
    BY <2>2, <2>5 DEF Fresh
  <2>6. CASE l # Gui /\ load[l].pc # "idle"
    <3>1. Own(l) = {}
      BY <2>6 DEF Own
    <3>2. f \in touched[l]
      BY <1>1, <2>6, <3>1 DEF FreshInv, Fresh, Knows
    <3> QED BY <1>1, <1>3, <1>4, <2>2, <2>3, <2>6, <3>1, <3>2, FreshKeeps
  <2> QED BY <2>4, <2>5, <2>6
<1> QED BY <1>1, <1>5, <1>6

LEMMA DeleteFresh ==
    ASSUME FreshInv, GuiDelete, NEW l \in Loaders
    PROVE  Fresh(l)'
<1>1. PICK g \in Listed :
         LET id == load[Gui].list[g].id
         IN  \/ /\ Doomed(id) = {} /\ BeginLoad(Gui)
                /\ UNCHANGED <<files, save, alive>>
             \/ \E f \in Doomed(id) :
                   /\ Unlink(f, id)
                   /\ load' = [load EXCEPT ![Gui] = [Begin EXCEPT !.must = Begin.must \ {f}]]
                   /\ touched' = [k \in Loaders |->
                         IF k = Gui THEN {h \in Files : Saving(h)} ELSE touched[k] \cup {f}]
  BY DEF GuiDelete
<1> DEFINE id == load[Gui].list[g].id
<1>2. Gui \in Loaders /\ id \in Ids /\ UNCHANGED doubtful
  BY ListedRules DEF Loaders, GuiDelete, FreshInv, LossInv
<1>3. CASE BeginLoad(Gui) /\ UNCHANGED <<files, save, alive>>
  BY <1>2, <1>3, BeginFresh
<1>4. ASSUME NEW f \in Doomed(id), Unlink(f, id),
             load' = [load EXCEPT ![Gui] = [Begin EXCEPT !.must = Begin.must \ {f}]],
             touched' = [k \in Loaders |->
                IF k = Gui THEN {h \in Files : Saving(h)} ELSE touched[k] \cup {f}]
      PROVE  Fresh(l)'
  <2>1. f \in Files
    BY <1>2, DoomedFiles DEF FreshInv, LossInv
  <2>2. /\ files'[f] = Missing /\ \A h \in Files \ {f} : files'[h] = files[h]
        /\ \A p \in Savers :
              IF save[p].at = "open" /\ save[p].file = f
              THEN save'[p].at = "unlinked" ELSE save'[p] = save[p]
    BY <1>2, <1>4, <2>1, UnlinkTyped DEF FreshInv, LossInv, StoreInv
  <2> DEFINE b == [Begin EXCEPT !.must = Begin.must \ {f}]
  <2>3. /\ b \in Listing /\ b.pc = "reading" /\ b.seen = {} /\ b.list = NoList
        /\ b.must = {h \in Files : files[h] # Missing} \ {f}
    <3>1. b.seen = {} /\ b.must = {h \in Files : files[h] # Missing} \ {f}
      BY DEF Begin
    <3> QED BY <3>1, BeginTyped DEF FreshInv, LossInv, StoreInv, Listing
  <2> HIDE DEF b
  <2>4. load' = [load EXCEPT ![Gui] = b]
    BY <1>4 DEF b
  <2>5. load'[Gui] = b /\ \A k \in Loaders \ {Gui} : load'[k] = load[k]
    BY <1>2, <2>3, <2>4, FreshList DEF FreshInv, LossInv, StoreInv
  <2>6. CASE l = Gui
    <3>1. touched'[l] = {h \in Files : Saving(h)}
      BY <1>4, <2>6
    <3>2. \A h \in Files \ touched'[l] : files'[h] # Missing => h \in load'[l].must
      BY <2>2, <2>3, <2>5, <2>6
    <3>3. \A p \in Savers : Pending(p)' => Pending(p) /\ save'[p].file = save[p].file
      BY <2>2 DEF Pending
    <3> QED BY <2>3, <2>5, <2>6, <3>1, <3>2, <3>3, FreshBegin
  <2>7. CASE l # Gui
    <3>1. Own(l) = {} /\ load'[l] = load[l] /\ touched'[l] = touched[l] \cup {f}
      BY <1>4, <2>5, <2>7 DEF Own
    <3>2. \A p \in Savers : save'[p].at = "open" => save'[p] = save[p]
      BY <2>2
    <3> QED BY <1>2, <2>2, <3>1, <3>2, FreshKeeps
  <2> QED BY <2>6, <2>7
<1> QED BY <1>1, <1>3, <1>4

LEMMA FreshInit == Init => FreshInv
<1> SUFFICES ASSUME Init, NEW l \in Loaders PROVE Fresh(l)
  BY LossInit DEF FreshInv
<1>1. \A p \in Savers : save[p].at = "none"
  BY NoSaveTyped DEF Init
<1>2. CASE l = Gui
  <2>1. /\ load[l].pc = "reading" /\ load[l].seen = {} /\ load[l].list = NoList
        /\ load[l].must = {f \in Files : files[f] # Missing}
    BY <1>2 DEF Init, Begin
  <2> QED BY <1>1, <2>1, OwnSavers DEF Fresh, Reads, Knows, NoList, Pending
<1>3. CASE l # Gui
  <2>1. load[l].pc = "idle"
    BY <1>3 DEF Init, Begin
  <2> QED BY <2>1 DEF Fresh
<1> QED BY <1>2, <1>3

LEMMA FreshNext == FreshInv /\ [Next]_vars => FreshInv'
<1> SUFFICES ASSUME FreshInv, [Next]_vars, NEW l \in Loaders PROVE Fresh(l)'
  BY LossNext DEF FreshInv
<1> USE DEF FreshInv, LossInv, StoreInv
<1>1. CASE UNCHANGED vars
  BY <1>1, FreshKeeps DEF vars
<1>2. ASSUME NEW k \in Loaders, ReadFile(k) \/ EndLoad(k) PROVE Fresh(l)'
  <2>1. CASE l = k
    BY <1>2, <2>1, FreshRead, FreshEnd
  <2>2. CASE l # k
    <3>1. load'[l] = load[l]
      <4>1. CASE ReadFile(k)
        BY <2>2, <4>1, ReadTyped DEF ReadFile
      <4>2. CASE EndLoad(k)
        BY <2>2, <4>2 DEF EndLoad, TypeOK
      <4> QED BY <1>2, <4>1, <4>2
    <3> QED BY <1>2, <3>1, FreshKeeps DEF ReadFile, EndLoad
  <2> QED BY <2>1, <2>2
<1>3. ASSUME NEW p \in Savers, Truncate(p) \/ WriteOut(p) PROVE Fresh(l)'
  BY <1>3, TruncateFresh, WriteOutFresh
<1>4. ASSUME NEW p \in Savers, WriteNowhere(p) PROVE Fresh(l)'
  <2>1. /\ save[p].at = "unlinked" /\ UNCHANGED <<files, doubtful>>
        /\ save' = [save EXCEPT ![p] = NoSave]
        /\ (p = Gui /\ BeginLoad(Gui)) \/ UNCHANGED <<load, touched>>
    BY <1>4 DEF WriteNowhere
  <2>2. save'[p].at = "none" /\ \A q \in Savers \ {p} : save'[q] = save[q]
    BY <2>1, EndOfSave
  <2>3. CASE p = Gui /\ BeginLoad(Gui)
    <3>1. Gui \in Loaders
      BY DEF Loaders
    <3> QED BY <2>1, <2>2, <2>3, <3>1, BeginFresh
  <2>4. CASE UNCHANGED <<load, touched>>
    <3>1. \A q \in Own(l) : save'[q] = save[q] \/ (~Pending(q)' /\ ~Pending(q))
      BY <2>1, <2>2, OwnSavers DEF Pending
    <3> QED BY <2>1, <2>2, <2>4, <3>1, FreshKeeps
  <2> QED BY <2>1, <2>3, <2>4
<1>5. ASSUME NEW p \in Savers, BreakOff(p) PROVE Fresh(l)'
  <2>1. /\ UNCHANGED <<files, load, touched>> /\ doubtful' = doubtful \cup {save[p].rule.id}
        /\ save' = [save EXCEPT ![p] = NoSave]
    BY <1>5 DEF BreakOff
  <2>2. save'[p].at = "none" /\ \A q \in Savers \ {p} : save'[q] = save[q]
    BY <2>1, EndOfSave
  <2>3. \A q \in Own(l) : save'[q] = save[q] \/ (~Pending(q)' /\ save[q].rule.id \in doubtful')
    BY <2>1, <2>2, OwnSavers DEF Pending
  <2> QED BY <2>1, <2>2, <2>3, FreshKeeps
<1>6. ASSUME NEW t \in Threads, GuiToggle(t) PROVE Fresh(l)'
  <2>1. PICK f \in Listed :
           /\ load' = [load EXCEPT ![Gui].list[f].on = ~load[Gui].list[f].on]
           /\ StartSave(t, f, load'[Gui].list[f])
    BY <1>6 DEF GuiToggle
  <2>2. Gui \in Loaders /\ t \in Savers
    BY DEF Loaders, Savers
  <2>3. /\ f \in Files /\ load'[Gui].list[f] \in Rule /\ Placed(f, load'[Gui].list[f].id)
        /\ \A k \in Loaders \ {Gui} : load'[k] = load[k]
    BY <2>1, <2>2, ListedRules, FlipTyped
  <2>4. UNCHANGED <<files, touched>>
    BY <1>6 DEF GuiToggle
  <2>5. CASE l = Gui
    BY <1>6, <2>5, FreshToggle
  <2>6. CASE l # Gui
    <3>1. t \notin Own(l) /\ load'[l] = load[l]
      BY <2>3, <2>6 DEF Own
    <3> QED BY <2>1, <2>2, <2>3, <2>4, <3>1, SaveFresh
  <2> QED BY <2>5, <2>6
<1>7. CASE GuiSave
  <2>1. PICK id \in Ids, on \in BOOLEAN : StartSave(Gui, NameOf[id], NewRule(id, on))
    BY <1>7, ListedRules DEF GuiSave
  <2>2. Gui \in Savers /\ Gui \notin Own(l) /\ NameOf[id] \in Files
    BY StoreAssumption DEF Savers, Own
  <2>3. NewRule(id, on) \in Rule /\ Placed(NameOf[id], NewRule(id, on).id)
    BY NewRules DEF Placed
  <2>4. UNCHANGED <<files, load, touched>>
    BY <1>7 DEF GuiSave
  <2> QED BY <2>1, <2>2, <2>3, <2>4, SaveFresh
<1>8. CASE GuiDelete
  BY <1>8, DeleteFresh
<1>9. CASE GuiRestart
  <2>1. /\ save' = [p \in Savers |-> IF p \in Clis THEN save[p] ELSE NoSave]
        /\ doubtful' = doubtful \cup
             {save[p].rule.id : p \in {q \in Threads \cup {Gui} : Pending(q)}}
        /\ BeginLoad(Gui) /\ UNCHANGED files
    BY <1>9 DEF GuiRestart
  <2>2. Gui \in Loaders
    BY DEF Loaders
  <2>3. load'[Gui] = Begin /\ \A j \in Loaders \ {Gui} : load'[j] = load[j]
    BY <2>1, <2>2, BeginLoadTyped
  <2>4. /\ touched'[Gui] = {g \in Files : Saving(g)}
        /\ \A j \in Loaders \ {Gui} : touched'[j] = touched[j]
    BY <2>1, <2>2 DEF BeginLoad, TypeOK
  <2>5. \A p \in Savers : save'[p] = save[p] \/ save'[p].at = "none"
    BY <2>1, NoSaveTyped
  <2>6. CASE l = Gui
    <3>1. /\ Begin.pc = "reading" /\ Begin.seen = {} /\ Begin.list = NoList
          /\ Begin.must = {g \in Files : files[g] # Missing}
      BY DEF Begin
    <3> QED BY <2>1, <2>3, <2>4, <2>5, <2>6, <3>1, FreshBegin DEF Pending
  <2>7. CASE l # Gui
    <3>1. Own(l) = {} /\ \A p \in Savers : save'[p].at = "open" => save'[p] = save[p]
      BY <2>5, <2>7 DEF Own
    <3> QED BY <2>1, <2>3, <2>4, <2>7, <3>1, FreshKeeps
  <2> QED BY <2>6, <2>7
<1>10. ASSUME NEW c \in Clis, CliToggle(c) PROVE Fresh(l)'
  <2>1. c \in Loaders /\ BeginLoad(c) /\ UNCHANGED <<files, save, doubtful>>
    BY <1>10 DEF CliToggle, Loaders
  <2> QED BY <2>1, BeginFresh
<1>11. ASSUME NEW c \in Clis, CliSet(c) PROVE Fresh(l)'
  <2>1. /\ c \in Loaders /\ c \in Savers /\ c \notin Own(l) /\ ask[c].id \in Ids
        /\ load' = [load EXCEPT ![c].pc = "idle"] /\ UNCHANGED <<files, touched>>
    BY <1>11, StoreAssumption DEF CliSet, Phases, Loaders, Savers, Own
  <2>2. load'[c].pc = "idle" /\ \A k \in Loaders \ {c} : load'[k] = load[k]
    BY <2>1, PhaseTyped
  <2>3. CASE l = c
    BY <2>2, <2>3 DEF Fresh
  <2>4. CASE l # c /\ UNCHANGED <<save, doubtful>>
    BY <2>1, <2>2, <2>4, FreshKeeps
  <2>5. ASSUME l # c, NEW f \in Found(load[c].list, ask[c].id),
               StartSave(c, NameOf[load[c].list[f].id], Set(load[c].list[f], ask[c].on))
        PROVE  Fresh(l)'
    <3> DEFINE rule == Set(load[c].list[f], ask[c].on)
    <3>1. load[c].list[f].id \in Ids /\ load[c].list[f] \in Rule
      BY <2>1, FoundRules
    <3>2. ask[c].on \in BOOLEAN
      BY <1>11 DEF TypeOK
    <3>3. rule \in Rule /\ rule.id = load[c].list[f].id
      BY <3>1, <3>2, SetRules
    <3>4. NameOf[load[c].list[f].id] \in Files /\ Placed(NameOf[load[c].list[f].id], rule.id)
      BY <3>1, <3>3, StoreAssumption DEF Placed
    <3> HIDE DEF rule
    <3>5. StartSave(c, NameOf[load[c].list[f].id], rule)
      BY <2>5 DEF rule
    <3> QED BY <2>1, <2>2, <2>5, <3>3, <3>4, <3>5, SaveFresh
  <2> QED BY <1>11, <2>3, <2>4, <2>5 DEF CliSet
<1>12. ASSUME NEW c \in Clis, CliAdd(c) \/ CliImport(c) PROVE Fresh(l)'
  <2>1. PICK rule \in Rule : StartSave(c, NameOf[rule.id], rule)
    BY <1>12, Rules, NewRules DEF CliAdd, CliImport
  <2>2. c \in Savers /\ NameOf[rule.id] \in Files /\ Placed(NameOf[rule.id], rule.id)
    BY Rules, StoreAssumption DEF Savers, Placed
  <2>3. c \notin Own(l) /\ UNCHANGED <<files, load, touched>>
    BY <1>12, StoreAssumption DEF CliAdd, CliImport, Own
  <2> QED BY <2>1, <2>2, <2>3, SaveFresh
<1>13. ASSUME NEW c \in Clis, CliDelete(c) PROVE Fresh(l)'
  <2>1. PICK id \in Ids : \E f \in Doomed(id) : Unlink(f, id) /\ Touch(f, c)
    BY <1>13 DEF CliDelete
  <2>2. PICK f \in Doomed(id) : Unlink(f, id) /\ Touch(f, c)
    BY <2>1
  <2>3. f \in Files /\ c \in Savers /\ c \notin Own(l) /\ UNCHANGED <<load, doubtful>>
    BY <1>13, DoomedFiles, StoreAssumption DEF Savers, Own, CliDelete
  <2>4. /\ \A h \in Files \ {f} : files'[h] = files[h]
        /\ \A p \in Savers :
              IF save[p].at = "open" /\ save[p].file = f
              THEN save'[p].at = "unlinked" ELSE save'[p] = save[p]
    BY <2>2, <2>3, UnlinkTyped
  <2>5. touched[l] \subseteq touched'[l] /\ f \in touched'[l]
    BY <2>2, <2>3, TouchKnown
  <2> QED BY <2>3, <2>4, <2>5, TouchedFresh
<1>14. CASE EditByHand \/ CopyIn
  <2>1. PICK f \in Files : /\ \A g \in Files \ {f} : files'[g] = files[g]
                           /\ touched' = [k \in Loaders |-> touched[k] \cup {f}]
    BY <1>14, StoreAssumption DEF EditByHand, CopyIn, TypeOK
  <2>2. doubtful \subseteq doubtful' /\ UNCHANGED <<load, save>>
    BY <1>14 DEF EditByHand, CopyIn
  <2> QED BY <2>1, <2>2, TouchedFresh
<1>15. CASE Reload
  <2>1. Daemon \in Loaders /\ BeginLoad(Daemon) /\ UNCHANGED <<files, save, doubtful>>
    BY <1>15 DEF Reload, Loaders
  <2> QED BY <2>1, BeginFresh
<1> QED BY <1>1, <1>2, <1>3, <1>4, <1>5, <1>6, <1>7, <1>8, <1>9, <1>10, <1>11, <1>12, <1>13,
           <1>14, <1>15 DEF Next

(* Every list of rules shows the files as they are, except where it says so:
   for any number of programs that write at the same time. *)
THEOREM Freshness == Spec => []ListsAreFresh
<1>1. FreshInv => ListsAreFresh
  BY OwnSavers DEF FreshInv, Fresh, Shows, ListsAreFresh, Saving
<1> QED BY <1>1, FreshInit, FreshNext, PTL DEF Spec
=============================================================================
