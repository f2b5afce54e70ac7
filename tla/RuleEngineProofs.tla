-------------------------- MODULE RuleEngineProofs --------------------------
(***************************************************************************)
(* Proofs about RuleEngine, for every set of files, rules, workers and     *)
(* scans.  The inductive invariant is TypeOK and JobsInStep (a worker that *)
(* is inside a chain is at a rule and an action that exist, and a dry one  *)
(* never at a write) with, for the order of the rules, InOrderSoFar.       *)
(*                                                                         *)
(* The two theorems at the end are about rules that match files only: by   *)
(* names, PlainRules, that no folder has.  Of rules that match folders too *)
(* neither holds: the run sweep, and a folder that is moved to another     *)
(* device while the user adds to it.                                       *)
(*                                                                         *)
(* SafeInv adds what one worker needs to lose nothing, as long as its      *)
(* rules neither delete nor compress, copy no file onto itself, and go,    *)
(* unless they overwrite, to places where the user drops no files: between *)
(* choosing a place and writing there it then stays free, and a file that  *)
(* is on its way to another device is in one of the two places.            *)
(*                                                                         *)
(* OutsideInv adds that a chain, any number of workers' chains, stays out  *)
(* of projects, and that there are no other projects than at the start.    *)
(***************************************************************************)
EXTENDS RuleEngine, ScopeLemmas

(* Where a worker stands fits the rule and the action it is at: it is inside
   a chain only under a loaded rule, it writes only for a move, a copy or a
   rename and never in a dry run, and it has a source left to remove only
   after a move. *)
JobsInStep ==
    \A w \in Workers :
        /\ job[w].pc \in {"action", "write", "remove"} =>
               job[w].rule \in DOMAIN task[w].rules
        /\ job[w].pc \in {"write", "remove"} =>
               /\ w \notin DryWorkers
               /\ job[w].act \in DOMAIN RuleOf(w).actions
               /\ ActionOf(w).type \in {"move", "copy", "rename"}
        /\ job[w].pc = "remove" => ActionOf(w).type # "copy"

LEMMA AnyPathType == AnyPath \in Paths
BY DiskAssumption DEF AnyPath

LEMMA IdleJobType == IdleJob \in JobType
BY AnyPathType DEF IdleJob, JobType, Kinds

(* The rule a worker is at, and its actions, are well formed. *)
LEMMA RuleOfType ==
    ASSUME TypeOK, NEW w \in Workers, job[w].rule \in DOMAIN task[w].rules
    PROVE  /\ task[w].rules[job[w].rule] \in DOMAIN Rules
           /\ IsRule(RuleOf(w))
<1>1. task[w].rules \in Seq(DOMAIN Rules)
  BY DEF TypeOK, TaskType
<1>2. task[w].rules[job[w].rule] \in DOMAIN Rules
  BY <1>1
<1> QED
  BY <1>2, RulesAssumption DEF RuleOf

LEMMA ActionOfType ==
    ASSUME TypeOK, NEW w \in Workers, job[w].rule \in DOMAIN task[w].rules,
           job[w].act \in DOMAIN RuleOf(w).actions
    PROVE  ActionOf(w) \in Action
<1>1. RuleOf(w).actions \in Seq(Action)
  BY RuleOfType DEF IsRule
<1> QED
  BY <1>1 DEF ActionOf

(* Destinations are paths, and so are the candidates of unique_path. *)
LEMMA DestinationType ==
    ASSUME NEW a \in Action, NEW p \in Paths
    PROVE  Destination(a, p) \in Paths
BY DEF Destination, Action, Paths

(* The events of a path. *)
LEMMA EventsType ==
    ASSUME NEW p \in Paths
    PROVE  /\ \A k \in {"add", "modify", "delete"} : Event(k, p) \in Seq(EventType)
           /\ \A made : EventsOf(made, p) \in Seq(EventType)
<1>1. \A k \in {"add", "modify", "delete"} : Event(k, p) \in Seq(EventType)
  <2> SUFFICES ASSUME NEW k \in {"add", "modify", "delete"}
               PROVE  Event(k, p) \in Seq(EventType)
    OBVIOUS
  <2>1. [kind |-> k, path |-> p] \in EventType
    BY DEF EventType
  <2> QED
    BY <2>1 DEF Event
<1>2. /\ Event("add", p) \in Seq(EventType)
      /\ Event("modify", p) \in Seq(EventType)
  BY <1>1
<1>3. \A made : EventsOf(made, p) \in Seq(EventType)
  BY <1>2 DEF EventsOf
<1> QED
  BY <1>1, <1>3

LEMMA QueueGrows ==
    ASSUME queue \in Seq(EventType), NEW e \in Seq(EventType), queue' = queue \o e
    PROVE  queue' \in Seq(EventType)
OBVIOUS

(* Whatever the order of the reports, they are events. *)
LEMMA TellType ==
    ASSUME TypeOK, NEW made \in SUBSET Dirs, NEW written \in SUBSET Paths,
           NEW last \in Seq(EventType), Tell(made, written, last)
    PROVE  queue' \in Seq(EventType)
<1> DEFINE entries == {AsPath(d) : d \in {e \in made : Len(e) > 1}} \cup written
<1>1. entries \subseteq Paths
  BY TreeAssumption
<1>2. PICK s \in BoundedSeq(entries, Cardinality(entries)) :
          queue' = queue \o FlattenSeq([i \in DOMAIN s |-> EventsOf(made, s[i])]) \o last
  BY DEF Tell, Reports
<1> HIDE DEF entries
<1>3. s \in Seq(Paths)
  <2>1. PICK m \in 0..Cardinality(entries) : s \in [1..m -> entries]
    BY DEF BoundedSeq, SeqOf
  <2>2. m \in Nat
    OBVIOUS
  <2> QED
    BY <1>1, <2>1, <2>2
<1> DEFINE told == [i \in DOMAIN s |-> EventsOf(made, s[i])]
<1>4. told \in Seq(Seq(EventType))
  <2>1. \A i \in 1..Len(s) : EventsOf(made, s[i]) \in Seq(EventType)
    BY <1>3, EventsType
  <2>2. DOMAIN s = 1..Len(s) /\ Len(s) \in Nat
    BY <1>3
  <2> HIDE DEF told
  <2>3. told = [i \in 1..Len(s) |-> EventsOf(made, s[i])]
    BY <2>2 DEF told
  <2> QED
    BY <2>1, <2>2, <2>3
<1> HIDE DEF told
<1>5. FlattenSeq(told) \in Seq(EventType)
  BY <1>4, FlattenAll
<1>6. queue \in Seq(EventType) /\ queue' = queue \o FlattenSeq(told) \o last
  BY <1>2 DEF TypeOK, told
<1> QED
  BY <1>5, <1>6

LEMMA NoEvents == <<>> \in Seq(EventType)
OBVIOUS

(* What a file holds, and what lies below a path, are data. *)
LEMMA DataType ==
    ASSUME TypeOK
    PROVE  /\ \A p \in Paths : IsFile(p) => fs[p] \in SUBSET Data
           /\ \A p : Files(p) \subseteq Paths
           /\ \A p : DataAt(p) \in SUBSET Data
           /\ \A p : Folders(p) \subseteq Dirs
<1>1. \A p \in Paths : IsFile(p) => fs[p] \in SUBSET Data
  BY DEF TypeOK, IsFile, Contents
<1>2. \A p : Files(p) \subseteq Paths /\ \A q \in Files(p) : IsFile(q)
  BY DEF Files, OnDisk
<1>3. \A p : DataAt(p) \in SUBSET Data
  BY <1>1, <1>2 DEF DataAt
<1> QED
  BY <1>1, <1>2, <1>3 DEF TypeOK, Folders

(* The ways a job goes on inside a chain. *)
LEMMA JobStarts ==
    ASSUME NEW j \in JobType, NEW s \in Seq(DOMAIN Rules), NEW p \in Paths
    PROVE  [j EXCEPT !.pc = "action", !.act = 1, !.cur = p, !.acted = s] \in JobType
<1> DEFINE k == [j EXCEPT !.pc = "action", !.act = 1, !.cur = p]
<1>1. k \in JobType
  <2>1. 1 \in Nat \ {0}
    OBVIOUS
  <2> QED
    BY <2>1 DEF JobType
<1>2. [j EXCEPT !.pc = "action", !.act = 1, !.cur = p, !.acted = s]
        = [k EXCEPT !.acted = s]
  OBVIOUS
<1> HIDE DEF k
<1>3. [k EXCEPT !.acted = s] \in JobType
  BY <1>1 DEF JobType
<1> QED
  BY <1>2, <1>3

LEMMA JobMoves ==
    ASSUME NEW j \in JobType, NEW p \in Paths
    PROVE  /\ [j EXCEPT !.pc = "action", !.act = j.act + 1, !.cur = p] \in JobType
           /\ [j EXCEPT !.pc = "write", !.dest = p] \in JobType
           /\ [j EXCEPT !.pc = "remove"] \in JobType
           /\ [j EXCEPT !.rule = j.rule + 1] \in JobType
           /\ [j EXCEPT !.pc = "rules", !.rule = j.rule + 1] \in JobType
<1>1. /\ j.act + 1 \in Nat \ {0}
      /\ j.rule + 1 \in Nat \ {0}
  BY DEF JobType
<1> QED
  BY <1>1 DEF JobType

LEMMA NextActionType ==
    ASSUME TypeOK, NEW w \in Workers, NEW p \in Paths, NextAction(w, p)
    PROVE  job' \in [Workers -> JobType]
<1>1. job \in [Workers -> JobType]
  BY DEF TypeOK
<1>2. [job[w] EXCEPT !.pc = "action", !.act = job[w].act + 1, !.cur = p] \in JobType
  BY <1>1, JobMoves
<1> QED
  BY <1>1, <1>2 DEF NextAction, JobIs

LEMMA ChooseType ==
    ASSUME TypeOK, NEW w \in Workers, NEW p \in Paths, Choose(w, p)
    PROVE  job' \in [Workers -> JobType]
<1>1. job \in [Workers -> JobType] /\ job[w].cur \in Paths
  BY DEF TypeOK, JobType
<1>2. [job[w] EXCEPT !.pc = "write", !.dest = p] \in JobType
  BY <1>1, JobMoves
<1>3. CASE w \in DryWorkers
  BY <1>1, <1>3, NextActionType DEF Choose, Follow
<1>4. CASE w \notin DryWorkers
  BY <1>1, <1>2, <1>4 DEF Choose, JobIs
<1> QED
  BY <1>3, <1>4

LEMMA ResolvedType ==
    ASSUME TypeOK, JobsInStep, NEW w \in Workers, Resolve(w)
    PROVE  job' \in [Workers -> JobType]
<1> DEFINE a == ActionOf(w)
           p == Destination(a, job[w].cur)
<1>1. job[w].cur \in Paths
  BY DEF TypeOK, JobType
<1>2. a \in Action
  BY ActionOfType DEF Resolve, Acting, JobsInStep
<1>3. p \in Paths
  BY <1>1, <1>2, DestinationType
<1> HIDE DEF a, p
<1>4. \/ \E q \in Paths : Choose(w, q)
      \/ Follow(w, p)
      \/ NextAction(w, job[w].cur)
  BY <1>3 DEF Resolve, ChooseFree, a, p
<1>5. Follow(w, p) => job' \in [Workers -> JobType]
  BY <1>1, <1>3, NextActionType DEF Follow
<1> QED
  BY <1>1, <1>4, <1>5, ChooseType, NextActionType

(* Directories that an action makes are directories of the disk. *)
LEMMA ParentsType ==
    ASSUME TypeOK
    PROVE  /\ \A a, p : WithParents(a, p) \in SUBSET Dirs
           /\ \A d : MkdirAll(d) \in SUBSET Dirs
BY DEF TypeOK, WithParents, MkdirAll

-----------------------------------------------------------------------------
LEMMA Sums ==
    \A x, y \in Nat :
        /\ y = 0 => x + y < x + 1
        /\ y # 0 => /\ x + 1 \in x + 1..x + y /\ x + y \in x + 1..x + y
                    /\ (x + 1) - x = 1 /\ (x + y) - x = y
        /\ x + 1 \in Int /\ x + y \in Int /\ x + y >= x
OBVIOUS

(* What is left of b \o r behind b is r. *)
LEMMA Behind ==
    ASSUME NEW C, NEW b \in Seq(C), NEW r \in Seq(C)
    PROVE  SubSeq(b \o r, Len(b) + 1, Len(b) + Len(r)) = r
<1>1. Len(b) \in Nat /\ Len(r) \in Nat
  OBVIOUS
<1>2. CASE Len(r) = 0
  <2>1. r = <<>>
    BY <1>2, EmptySeq
  <2> QED
    BY <1>1, <1>2, <2>1, Sums, SubSeqEmpty
<1>3. CASE Len(r) # 0
  <2> DEFINE m == Len(b) + 1
             n == Len(b) + Len(r)
  <2>1. /\ m \in Len(b) + 1..Len(b) + Len(r) /\ n \in Len(b) + 1..Len(b) + Len(r)
        /\ m - Len(b) = 1 /\ n - Len(b) = Len(r)
    BY <1>1, <1>3, Sums
  <2> HIDE DEF m, n
  <2>2. SubSeq(b \o r, m, n) = SubSeq(r, m - Len(b), n - Len(b))
    BY <2>1, SubSeqOfConcat2
  <2>3. SubSeq(b \o r, m, n) = r
    BY <2>1, <2>2, SubSeqFull
  <2> QED
    BY <2>3 DEF m, n
<1> QED
  BY <1>2, <1>3

(* A path below a, put below b, and put back. *)
PutBelow(a, b, d) == b \o SubSeq(d, Len(a) + 1, Len(d))

LEMMA Rebased ==
    ASSUME NEW C, NEW a \in Seq(C), NEW b \in Seq(C), NEW d \in Seq(C), IsPrefix(a, d)
    PROVE  /\ PutBelow(a, b, d) \in Seq(C) /\ Len(PutBelow(a, b, d)) >= Len(b)
           /\ PutBelow(b, a, PutBelow(a, b, d)) = d
<1> DEFINE e == PutBelow(a, b, d)
<1>1. /\ Len(a) \in Nat /\ Len(b) \in Nat /\ Len(d) \in Nat /\ Len(a) <= Len(d)
      /\ a = SubSeq(d, 1, Len(a))
  BY Above
<1> DEFINE r == SubSeq(d, Len(a) + 1, Len(d))
<1>2. r \in Seq(C) /\ Len(r) \in Nat
  BY <1>1
<1>3. a \o r = d
  <2>1. 1 \in 1..Len(d) + 1 /\ Len(a) \in 1 - 1..Len(d) /\ Len(d) \in Len(a)..Len(d)
    BY <1>1
  <2>2. SubSeq(d, 1, Len(a)) \o SubSeq(d, Len(a) + 1, Len(d)) = SubSeq(d, 1, Len(d))
    BY <2>1, ConcatAdjacentSubSeq
  <2> QED
    BY <1>1, <2>2, SubSeqFull
<1>4. e = b \o r
  BY DEF PutBelow
<1> HIDE DEF r, e
<1>5. e \in Seq(C) /\ Len(e) = Len(b) + Len(r)
  BY <1>2, <1>4, ConcatProperties
<1>6. SubSeq(e, Len(b) + 1, Len(e)) = r
  BY <1>2, <1>4, <1>5, Behind
<1>7. Len(e) >= Len(b)
  BY <1>1, <1>2, <1>5, Sums
<1> QED
  BY <1>3, <1>5, <1>6, <1>7 DEF PutBelow, e

(* The components of paths. *)
Components == (UNION {Range(d) : d \in Dirs}) \cup Names

LEMMA PathSeq ==
    ASSUME NEW p \in Paths
    PROVE  /\ p.dir \in Seq(Components) /\ p.name \in Components
           /\ FullPath(p) \in Seq(Components) /\ Len(FullPath(p)) = Len(p.dir) + 1
           /\ Len(p.dir) \in Nat
<1> DEFINE D == UNION {Range(d) : d \in Dirs}
<1>1. p.dir \in Dirs /\ p.name \in Names
  BY DEF Paths
<1>2. p.dir \in Seq(D)
  BY <1>1, TreeAssumption
<1>3. D \subseteq Components
  BY DEF Components
<1> HIDE DEF D
<1>4. p.dir \in Seq(Components) /\ p.name \in Components
  BY <1>1, <1>2, <1>3 DEF Components
<1> QED
  BY <1>4 DEF FullPath

LEMMA ImageBack ==
    ASSUME NEW src \in Paths, NEW p \in Paths, NEW q \in Paths, Under(src, q)
    PROVE  Image(p, src, Image(src, p, q)) = q
<1>1. CASE q = src
  BY <1>1 DEF Image
<1>2. CASE q # src
  <2> DEFINE e == Rebase(src, p, q.dir)
  <2>1. IsPrefix(FullPath(src), q.dir)
    BY <1>2 DEF Under
  <2>2. /\ e \in Seq(Components) /\ Len(e) >= Len(FullPath(p))
        /\ Rebase(p, src, e) = q.dir
    <3>1. /\ FullPath(src) \in Seq(Components) /\ FullPath(p) \in Seq(Components)
          /\ q.dir \in Seq(Components)
      BY PathSeq
    <3>2. e = PutBelow(FullPath(src), FullPath(p), q.dir)
      BY DEF Rebase, PutBelow
    <3>3. Rebase(p, src, e) = PutBelow(FullPath(p), FullPath(src), e)
      BY DEF Rebase, PutBelow
    <3> HIDE DEF e
    <3> QED
      BY <2>1, <3>1, <3>2, <3>3, Rebased
  <2> HIDE DEF e
  <2>3. Image(src, p, q) = [q EXCEPT !.dir = e]
    BY <1>2 DEF Image, e
  <2>4. e # p.dir
    BY <2>2, PathSeq
  <2>5. [q EXCEPT !.dir = e].dir = e /\ [q EXCEPT !.dir = e] # p
    BY <2>4 DEF Paths
  <2>6. Image(p, src, [q EXCEPT !.dir = e])
          = [[q EXCEPT !.dir = e] EXCEPT !.dir = q.dir]
    BY <2>2, <2>5 DEF Image
  <2>7. [[q EXCEPT !.dir = e] EXCEPT !.dir = q.dir] = q
    BY DEF Paths
  <2> QED
    BY <2>3, <2>6, <2>7
<1> QED
  BY <1>1, <1>2

(* What a copy leaves on the disk and in the history is well typed. *)
LEMMA CopyContentType ==
    ASSUME TypeOK, NEW w \in Workers, NEW whole \in SUBSET Files(job[w].cur),
           NEW cut \in SUBSET Files(job[w].cur), NEW below,
           \A q \in whole \cup cut : Image(job[w].cur, job[w].dest, q) \in Paths,
           CopyContent(w, whole, cut, below)
    PROVE  /\ fs' \in [Paths -> Contents]
           /\ dirs' \subseteq Dirs
           /\ queue' \in Seq(EventType)
           /\ forfeit' \subseteq Data
           /\ UNCHANGED <<trash, task, scans, arrived>>
<1> DEFINE src == job[w].cur
           p   == job[w].dest
           To(S) == {Image(src, p, q) : q \in S}
           made == WithParents(ActionOf(w), p)
                   \cup (IF IsFolder(src) THEN MkdirAll(FullPath(p)) ELSE {})
                   \cup ({Rebase(src, p, d) : d \in below} \cap Dirs)
<1>1. src \in Paths /\ p \in Paths
  BY DEF TypeOK, JobType
<1>2. /\ fs' = [q \in Paths |-> IF q \in To(cut) THEN {}
                                ELSE IF q \in To(whole) THEN fs[Image(p, src, q)]
                                ELSE fs[q]]
      /\ dirs' = made
      /\ Tell(made \ dirs, To(whole \cup cut), <<>>)
      /\ forfeit' = forfeit \cup Replaced(w, whole \cup cut)
      /\ UNCHANGED <<trash, task, scans, arrived>>
  BY DEF CopyContent
<1>3. made \subseteq Dirs
  <2>1. WithParents(ActionOf(w), p) \in SUBSET Dirs /\ MkdirAll(FullPath(p)) \in SUBSET Dirs
    BY ParentsType
  <2> QED
    BY <2>1
<1>4. To(whole \cup cut) \subseteq Paths
  OBVIOUS
<1>5. \A q \in To(whole) : fs[Image(p, src, q)] \in SUBSET Data
  <2> SUFFICES ASSUME NEW r \in whole
               PROVE  fs[Image(p, src, Image(src, p, r))] \in SUBSET Data
    OBVIOUS
  <2>1. r \in Paths /\ Under(src, r) /\ IsFile(r)
    BY DEF Files, OnDisk
  <2>2. Image(p, src, Image(src, p, r)) = r
    BY <1>1, <2>1, ImageBack
  <2> QED
    BY <2>1, <2>2, DataType
<1> HIDE DEF src, p, To, made
<1>6. fs' \in [Paths -> Contents]
  BY <1>2, <1>5 DEF TypeOK, Contents
<1>7. Replaced(w, whole \cup cut) \subseteq Data
  <2>1. \A q \in OnDisk : fs[q] \in SUBSET Data
    BY DataType DEF OnDisk
  <2> QED
    BY <2>1 DEF Replaced
<1>8. queue' \in Seq(EventType)
  BY <1>2, <1>3, <1>4, NoEvents, TellType
<1> QED
  BY <1>2, <1>3, <1>6, <1>7, <1>8 DEF TypeOK
THEOREM TypeInit == Init => TypeOK
<1> SUFFICES ASSUME Init PROVE TypeOK
  OBVIOUS
<1>1. /\ fs \in [Paths -> Contents]
      /\ dirs \subseteq Dirs
      /\ trash \subseteq Data
      /\ queue \in Seq(EventType)
      /\ forfeit \subseteq Data
  BY DiskAssumption DEF Init
<1>2. arrived \subseteq Data
  BY DiskAssumption DEF Init, Contents
<1>3. scans \in 0..MaxScans
  BY ScansAssumption DEF Init
<1>4. job \in [Workers -> JobType]
  BY IdleJobType DEF Init
<1>5. AllRules \in Seq(DOMAIN Rules)
  <2>1. Len(Rules) \in Nat /\ DOMAIN Rules = 1..Len(Rules)
    BY RulesAssumption
  <2> QED
    BY <2>1 DEF AllRules
<1>6. WatcherTask \in TaskType
  BY <1>5 DEF WatcherTask, TaskType, NoBase
<1>7. task \in [Workers -> TaskType]
  BY <1>6 DEF Init
<1> QED
  BY <1>1, <1>2, <1>3, <1>4, <1>7 DEF TypeOK
----------------------------------------------------------------------------
(* One lemma per group of actions: each keeps the types. *)

LEMMA UserTypes ==
    ASSUME TypeOK, User
    PROVE  TypeOK'
<1>1. ASSUME UserCreate PROVE TypeOK'
  <2>1. PICK p \in Inbox, d \in Data \ arrived :
            /\ fs' = [fs EXCEPT ![p] = {d}]
            /\ dirs' = dirs \cup (MkdirAll(p.dir) \ dirs)
            /\ arrived' = arrived \cup {d}
            /\ Tell(MkdirAll(p.dir) \ dirs, {p}, <<>>)
            /\ UNCHANGED <<trash, task, job, scans, forfeit>>
    BY <1>1 DEF UserCreate
  <2>2. p \in Paths /\ MkdirAll(p.dir) \in SUBSET Dirs
    BY DiskAssumption, ParentsType
  <2>3. fs' \in [Paths -> Contents]
    BY <2>1, <2>2 DEF TypeOK, Contents
  <2>4. queue' \in Seq(EventType)
    <3>1. MkdirAll(p.dir) \ dirs \in SUBSET Dirs /\ {p} \in SUBSET Paths
      BY <2>2
    <3> QED
      BY <2>1, <3>1, NoEvents, TellType
  <2>5. dirs' \subseteq Dirs /\ arrived' \subseteq Data
    BY <2>1, <2>2 DEF TypeOK
  <2> QED
    BY <2>1, <2>3, <2>4, <2>5 DEF TypeOK
<1>2. ASSUME UserMoveIn PROVE TypeOK'
  <2>1. PICK p \in MovedIn, d \in Data \ arrived :
            /\ fs' = [fs EXCEPT ![p] = {d}]
            /\ arrived' = arrived \cup {d}
            /\ queue' = queue \o Event("modify", p)
            /\ UNCHANGED <<dirs, trash, task, job, scans, forfeit>>
    BY <1>2 DEF UserMoveIn
  <2>2. p \in Paths
    BY DiskAssumption
  <2>3. fs' \in [Paths -> Contents]
    BY <2>1, <2>2 DEF TypeOK, Contents
  <2>4. queue' \in Seq(EventType)
    <3>1. Event("modify", p) \in Seq(EventType)
      BY <2>2, EventsType
    <3> QED
      BY <2>1, <3>1, QueueGrows DEF TypeOK
  <2>5. arrived' \subseteq Data
    BY <2>1 DEF TypeOK
  <2> QED
    BY <2>1, <2>3, <2>4, <2>5 DEF TypeOK
<1>3. ASSUME UserRemove PROVE TypeOK'
  <2>1. PICK p \in Taken :
            /\ IsFile(p)
            /\ fs' = [fs EXCEPT ![p] = Absent]
            /\ forfeit' = forfeit \cup fs[p]
            /\ queue' = queue \o Event("delete", p)
            /\ UNCHANGED <<dirs, trash, task, job, scans, arrived>>
    BY <1>3 DEF UserRemove
  <2>2. p \in Paths
    BY DiskAssumption
  <2>3. fs' \in [Paths -> Contents]
    BY <2>1, <2>2 DEF TypeOK, Contents
  <2>4. queue' \in Seq(EventType)
    <3>1. Event("delete", p) \in Seq(EventType)
      BY <2>2, EventsType
    <3> QED
      BY <2>1, <3>1, QueueGrows DEF TypeOK
  <2>5. fs[p] \subseteq Data
    BY <2>1, <2>2, DataType
  <2> QED
    BY <2>1, <2>3, <2>4, <2>5 DEF TypeOK
<1> QED
  BY <1>1, <1>2, <1>3 DEF User

(* The job a file or a folder is started with. *)
Started(p) == [IdleJob EXCEPT !.pc = "rules", !.path = p, !.cur = p,
                              !.kind = KindOf(p), !.own = DataAt(p)]

LEMMA StartedType ==
    ASSUME TypeOK, NEW p \in Paths
    PROVE  Started(p) \in JobType
<1>1. KindOf(p) \in Kinds /\ DataAt(p) \in SUBSET Data
  BY DataType DEF KindOf, Kinds
<1> QED
  BY <1>1, IdleJobType DEF Started, JobType

LEMMA StartFileType ==
    ASSUME TypeOK, NEW w \in Workers, NEW p \in Paths, StartFile(w, p)
    PROVE  job' \in [Workers -> JobType]
<1>1. CASE Exists(p)
  <2>1. job' = [job EXCEPT ![w] = Started(p)]
    BY <1>1 DEF StartFile, JobIs, Started
  <2> QED
    BY <2>1, StartedType DEF TypeOK
<1>2. CASE ~Exists(p)
  BY <1>2 DEF StartFile, TypeOK
<1> QED
  BY <1>1, <1>2

LEMMA PickTypes ==
    ASSUME TypeOK, NEW w \in Workers,
           TakeEvent(w) \/ StartScan(w) \/ ListFolder(w) \/ TakeFile(w)
    PROVE  TypeOK'
<1>1. ASSUME TakeEvent(w) PROVE TypeOK'
  <2>1. queue \in Seq(EventType) /\ queue # <<>>
    BY <1>1 DEF TakeEvent, TypeOK
  <2>2. Head(queue) \in EventType /\ Tail(queue) \in Seq(EventType)
    BY <2>1
  <2>3. job' \in [Workers -> JobType]
    BY <1>1, <2>2, StartFileType DEF TakeEvent, TypeOK, EventType
  <2> QED
    BY <1>1, <2>2, <2>3 DEF TakeEvent, TypeOK, disk
<1>2. ASSUME StartScan(w) PROVE TypeOK'
  <2>1. PICK s \in Scans :
            TaskIs(w, [task[w] EXCEPT !.plan = s.folders, !.rules = s.rules])
    BY <1>2 DEF StartScan
  <2>2. s.rules \in Seq(DOMAIN Rules)
    BY ScansAssumption
  <2>3. s.folders \in Seq(FolderConfigs)
    <3>1. s.folders \in Seq(Range(s.folders))
      BY ScansAssumption
    <3>2. Range(s.folders) \subseteq FolderConfigs
      BY DEF FolderConfigs
    <3> QED
      BY <3>1, <3>2
  <2>4. [task[w] EXCEPT !.plan = s.folders, !.rules = s.rules] \in TaskType
    BY <2>2, <2>3 DEF TypeOK, TaskType
  <2>5. task' \in [Workers -> TaskType]
    BY <2>1, <2>4 DEF TaskIs, TypeOK
  <2>6. scans' \in 0..MaxScans
    <3>1. MaxScans \in Nat
      BY ScansAssumption
    <3>2. scans \in 0..MaxScans /\ scans < MaxScans /\ scans' = scans + 1
      BY <1>2 DEF StartScan, TypeOK
    <3> QED
      BY <3>1, <3>2
  <2> QED
    BY <1>2, <2>5, <2>6 DEF StartScan, TypeOK, disk
<1>3. ASSUME ListFolder(w) PROVE TypeOK'
  <2> DEFINE folder == Head(task[w].plan)
             listed == scan_folder_files(Tree, {FullPath(p) : p \in OnDisk}, folder)
             t == [task[w] EXCEPT !.plan = Tail(task[w].plan), !.base = folder.path,
                                  !.todo = {p \in OnDisk : FullPath(p) \in listed}]
  <2>1. task[w] \in TaskType /\ task[w].plan # <<>>
    BY <1>3 DEF ListFolder, TypeOK
  <2>2. folder \in FolderConfigs /\ Tail(task[w].plan) \in Seq(FolderConfigs)
    BY <2>1 DEF TaskType
  <2>3. {p \in OnDisk : FullPath(p) \in listed} \subseteq Paths
    BY DEF OnDisk
  <2>4. task' = [task EXCEPT ![w] = t]
    BY <1>3 DEF ListFolder, TaskIs
  <2> HIDE DEF folder, listed
  <2>5. t \in TaskType
    BY <2>1, <2>2, <2>3 DEF TaskType
  <2>6. task' \in [Workers -> TaskType]
    BY <2>4, <2>5 DEF TypeOK
  <2> QED
    BY <1>3, <2>6 DEF ListFolder, TypeOK, disk
<1>4. ASSUME TakeFile(w) PROVE TypeOK'
  <2>1. PICK p \in task[w].todo :
            /\ TaskIs(w, [task[w] EXCEPT !.todo = task[w].todo \ {p}])
            /\ StartFile(w, p)
    BY <1>4 DEF TakeFile
  <2>2. task[w] \in TaskType
    BY DEF TypeOK
  <2>3. p \in Paths
    BY <2>2 DEF TaskType
  <2>4. [task[w] EXCEPT !.todo = task[w].todo \ {p}] \in TaskType
    BY <2>2 DEF TaskType
  <2>5. task' \in [Workers -> TaskType]
    BY <2>1, <2>4 DEF TaskIs, TypeOK
  <2>6. job' \in [Workers -> JobType]
    BY <2>1, <2>3, StartFileType
  <2> QED
    BY <1>4, <2>5, <2>6 DEF TakeFile, TypeOK, disk
<1> QED
  BY <1>1, <1>2, <1>3, <1>4

LEMMA MatchTypes ==
    ASSUME TypeOK, JobsInStep, NEW w \in Workers,
           TryRule(w) \/ NoRuleLeft(w) \/ EndChain(w)
    PROVE  TypeOK'
<1>1. job \in [Workers -> JobType] /\ job[w] \in JobType
  BY DEF TypeOK
<1> SUFFICES job' \in [Workers -> JobType]
  BY DEF TypeOK, disk, TryRule, NoRuleLeft, EndChain
<1>2. [job[w] EXCEPT !.rule = job[w].rule + 1] \in JobType
  BY <1>1, JobMoves, AnyPathType
<1>3. [job[w] EXCEPT !.pc = "rules", !.rule = job[w].rule + 1] \in JobType
  BY <1>1, JobMoves, AnyPathType
<1>4. ASSUME TryRule(w) PROVE job' \in [Workers -> JobType]
  <2>1. task[w].rules[job[w].rule] \in DOMAIN Rules
    BY <1>4, RuleOfType DEF TryRule
  <2>2. Append(job[w].acted, task[w].rules[job[w].rule]) \in Seq(DOMAIN Rules)
    BY <1>1, <2>1 DEF JobType
  <2>3. [job[w] EXCEPT !.pc = "action", !.act = 1, !.cur = job[w].path,
                !.acted = Append(job[w].acted, task[w].rules[job[w].rule])]
            \in JobType
    <3>1. job[w].path \in Paths
      BY <1>1 DEF JobType
    <3> QED
      BY <1>1, <2>2, <3>1, JobStarts
  <2> QED
    BY <1>1, <1>2, <1>4, <2>3 DEF TryRule, JobIs
<1>5. NoRuleLeft(w) => job' \in [Workers -> JobType]
  BY <1>1, IdleJobType DEF NoRuleLeft, JobIs
<1>6. EndChain(w) => job' \in [Workers -> JobType]
  BY <1>1, <1>3, IdleJobType DEF EndChain, JobIs
<1> QED
  BY <1>4, <1>5, <1>6

LEMMA RemoveType ==
    ASSUME TypeOK, NEW src \in Paths, NEW mayFail, RemovePath(src, mayFail)
    PROVE  /\ fs' \in [Paths -> Contents]
           /\ dirs' \subseteq Dirs
           /\ queue' \in Seq(EventType)
<1>1. PICK gone \in SUBSET Files(src) :
          /\ fs' = Without(gone)
          /\ dirs' = IF gone = Files(src) THEN dirs \ Folders(src) ELSE dirs
          /\ queue' = queue \o (IF Exists(src) THEN Event("delete", src) ELSE <<>>)
  BY DEF RemovePath
<1>2. fs' \in [Paths -> Contents]
  BY <1>1 DEF Without, TypeOK, Contents
<1>3. (IF Exists(src) THEN Event("delete", src) ELSE <<>>) \in Seq(EventType)
  BY EventsType, NoEvents
<1>4. queue' \in Seq(EventType)
  BY <1>1, <1>3, QueueGrows DEF TypeOK
<1> QED
  BY <1>1, <1>2, <1>4 DEF TypeOK

LEMMA RenameTypes ==
    ASSUME TypeOK, NEW w \in Workers, Rename(w)
    PROVE  TypeOK'
<1> DEFINE src == job[w].cur
           p   == job[w].dest
           now == WithParents(ActionOf(w), p)
<1>1. src \in Paths /\ p \in Paths
  BY DEF TypeOK, JobType
<1>2. /\ fs' = Renamed(src, p) /\ Fits(src, p)
      /\ dirs' = (now \ Folders(src)) \cup {Rebase(src, p, d) : d \in Folders(src)}
      /\ Tell(now \ dirs, {}, IF p = src THEN <<>>
                              ELSE Event("modify", src) \o Event("modify", p))
      /\ forfeit' = forfeit \cup Replaced(w, Files(src))
      /\ NextAction(w, p)
      /\ UNCHANGED <<trash, task, scans, arrived>>
  BY DEF Rename
<1>3. job' \in [Workers -> JobType]
  BY <1>1, <1>2, NextActionType
<1>4. fs' \in [Paths -> Contents]
  <2>1. \A q \in Files(src) : fs[q] \in SUBSET Data
    BY DataType DEF Files, OnDisk
  <2> HIDE DEF src, p
  <2> QED
    BY <1>2, <2>1 DEF Renamed, TypeOK, Contents
<1>5. now \in SUBSET Dirs
  BY ParentsType
<1>6. dirs' \subseteq Dirs
  <2>1. \A d \in Folders(src) : Rebase(src, p, d) \in Dirs
    BY <1>2 DEF Fits
  <2> QED
    BY <1>2, <1>5, <2>1
<1>7. queue' \in Seq(EventType)
  <2>1. /\ Event("modify", src) \in Seq(EventType)
        /\ Event("modify", p) \in Seq(EventType)
    BY <1>1, EventsType
  <2>2. (IF p = src THEN <<>> ELSE Event("modify", src) \o Event("modify", p))
            \in Seq(EventType)
    BY <2>1
  <2>3. now \ dirs \in SUBSET Dirs /\ {} \in SUBSET Paths
    BY <1>5
  <2> QED
    BY <1>2, <2>2, <2>3, TellType
<1>8. forfeit' \subseteq Data
  <2>1. \A q \in OnDisk : fs[q] \in SUBSET Data
    BY DataType DEF OnDisk
  <2>2. Replaced(w, Files(src)) \subseteq Data
    BY <2>1 DEF Replaced
  <2> QED
    BY <1>2, <2>2 DEF TypeOK
<1> QED
  BY <1>2, <1>3, <1>4, <1>6, <1>7, <1>8 DEF TypeOK

LEMMA WriteTypes ==
    ASSUME TypeOK, NEW w \in Workers,
           \/ Copy(w) \/ CopyAcross(w) \/ CopyBreaks(w)
           \/ Rename(w) \/ WriteFails(w) \/ RemoveSource(w)
    PROVE  TypeOK'
<1> DEFINE src == job[w].cur
           p   == job[w].dest
<1>1. /\ job \in [Workers -> JobType] /\ job[w] \in JobType
      /\ src \in Paths /\ p \in Paths
  BY DEF TypeOK, JobType
<1>2. ASSUME NEW whole \in SUBSET Files(src), NEW cut \in SUBSET Files(src), NEW below,
             \A q \in whole \cup cut : Image(src, p, q) \in Paths,
             CopyContent(w, whole, cut, below), job' \in [Workers -> JobType]
      PROVE  TypeOK'
  BY <1>2, CopyContentType DEF TypeOK
<1>3. Fits(src, p) => \A q \in Files(src) : Image(src, p, q) \in Paths
  BY DEF Fits, Landing
<1>4. ASSUME Copy(w) PROVE TypeOK'
  <2> DEFINE whole == IF p = src THEN {} ELSE Files(src)
             cut   == IF p = src THEN Files(src) ELSE {}
  <2>1. CopyContent(w, whole, cut, Folders(src)) /\ Fits(src, p) /\ NextAction(w, src)
    BY <1>4 DEF Copy, Completes
  <2>2. job' \in [Workers -> JobType]
    BY <1>1, <2>1, NextActionType
  <2>3. whole \in SUBSET Files(src) /\ cut \in SUBSET Files(src)
    OBVIOUS
  <2>4. \A q \in whole \cup cut : Image(src, p, q) \in Paths
    BY <1>3, <2>1
  <2> HIDE DEF whole, cut, src, p
  <2> QED
    BY <1>2, <2>1, <2>2, <2>3, <2>4
<1>5. ASSUME CopyAcross(w) PROVE TypeOK'
  <2>1. CopyContent(w, Files(src), {}, Folders(src)) /\ Fits(src, p)
    BY <1>5 DEF CopyAcross, Completes
  <2>2. job' \in [Workers -> JobType]
    BY <1>1, <1>5, JobMoves DEF CopyAcross, JobIs
  <2>3. \A q \in Files(src) \cup {} : Image(src, p, q) \in Paths
    BY <1>3, <2>1
  <2> HIDE DEF src, p
  <2> QED
    BY <1>2, <2>1, <2>2, <2>3
<1>6. ASSUME CopyBreaks(w) PROVE TypeOK'
  <2>1. job' \in [Workers -> JobType]
    BY <1>1, <1>6, NextActionType DEF CopyBreaks
  <2>2. PICK whole \in SUBSET Landing(src, p) :
            \E cut \in {{}} \cup {{q} : q \in Landing(src, p) \ whole} :
                \E below : CopyContent(w, whole, cut, below)
    BY <1>6 DEF CopyBreaks
  <2>3. PICK cut \in {{}} \cup {{q} : q \in Landing(src, p) \ whole} :
            \E below : CopyContent(w, whole, cut, below)
    BY <2>2
  <2>4. \A q \in Landing(src, p) : q \in Files(src) /\ Image(src, p, q) \in Paths
    BY DEF Landing
  <2> HIDE DEF src, p
  <2>5. whole \in SUBSET Files(src) /\ cut \in SUBSET Files(src)
    BY <2>4
  <2>6. \A q \in whole \cup cut : Image(src, p, q) \in Paths
    BY <2>4
  <2> QED
    BY <1>2, <2>1, <2>3, <2>5, <2>6
<1>7. Rename(w) => TypeOK'
  BY RenameTypes
<1>8. ASSUME WriteFails(w) PROVE TypeOK'
  <2> DEFINE now == WithParents(ActionOf(w), p)
  <2>1. /\ dirs' = now /\ Tell(now \ dirs, {}, <<>>) /\ NextAction(w, src)
        /\ UNCHANGED <<fs, trash, task, scans, arrived, forfeit>>
    BY <1>8 DEF WriteFails
  <2>2. job' \in [Workers -> JobType]
    BY <1>1, <2>1, NextActionType
  <2>3. now \in SUBSET Dirs
    BY ParentsType
  <2>4. queue' \in Seq(EventType)
    <3>1. now \ dirs \in SUBSET Dirs /\ {} \in SUBSET Paths
      BY <2>3
    <3> QED
      BY <2>1, <3>1, NoEvents, TellType
  <2> QED
    BY <2>1, <2>2, <2>3, <2>4 DEF TypeOK
<1>9. ASSUME RemoveSource(w) PROVE TypeOK'
  <2>1. job' \in [Workers -> JobType]
    BY <1>1, <1>9, NextActionType DEF RemoveSource, Follow
  <2>2. /\ fs' \in [Paths -> Contents] /\ dirs' \subseteq Dirs
        /\ queue' \in Seq(EventType)
    BY <1>1, <1>9, RemoveType DEF RemoveSource
  <2> QED
    BY <1>9, <2>1, <2>2 DEF RemoveSource, TypeOK
<1> QED
  BY <1>4, <1>5, <1>6, <1>7, <1>8, <1>9

LEMMA ActTypes ==
    ASSUME TypeOK, JobsInStep, NEW w \in Workers,
           \/ Resolve(w) \/ Discard(w) \/ Compress(w)
           \/ CreateFolder(w) \/ AppendLog(w) \/ Touch(w)
    PROVE  TypeOK'
<1> DEFINE src == job[w].cur
           a   == ActionOf(w)
           p   == Destination(a, src)
           now == WithParents(a, p)
<1>1. /\ job \in [Workers -> JobType] /\ src \in Paths /\ job[w].own \subseteq Data
      /\ queue \in Seq(EventType)
  BY DEF TypeOK, JobType
<1>2. now \in SUBSET Dirs /\ now \ dirs \in SUBSET Dirs
  <2>1. now \in SUBSET Dirs
    BY ParentsType
  <2> QED
    BY <2>1
<1>3. ASSUME Acting(w, {"compress"}) \/ Acting(w, {"log"}) PROVE p \in Paths
  <2>1. a \in Action
    BY <1>3, ActionOfType DEF Acting, JobsInStep
  <2> QED
    BY <1>1, <2>1, DestinationType
<1>4. Resolve(w) => TypeOK'
  BY ResolvedType DEF Resolve, TypeOK, disk
<1>5. ASSUME Discard(w) PROVE TypeOK'
  <2>1. job' \in [Workers -> JobType]
    BY <1>1, <1>5, NextActionType DEF Discard
  <2>2. \/ UNCHANGED <<fs, dirs, queue>>
        \/ \E b : RemovePath(src, b)
    BY <1>5 DEF Discard, disk
  <2>3. /\ fs' \in [Paths -> Contents] /\ dirs' \subseteq Dirs
        /\ queue' \in Seq(EventType)
    BY <1>1, <2>2, RemoveType DEF TypeOK
  <2>4. trash' \subseteq Data /\ forfeit' \subseteq Data
    <3>1. DataAt(src) \in SUBSET Data
      BY DataType
    <3> QED
      BY <1>1, <1>5, <3>1 DEF Discard, TypeOK, disk
  <2> QED
    BY <1>5, <2>1, <2>3, <2>4 DEF Discard, TypeOK
<1>6. ASSUME Compress(w) PROVE TypeOK'
  <2>1. job' \in [Workers -> JobType]
    BY <1>1, <1>6, NextActionType DEF Compress
  <2>2. p \in Paths
    BY <1>3, <1>6 DEF Compress
  <2>3. Archive(src, p) \in SUBSET Data
    <3>1. \A q \in Files(src) : fs[q] \in SUBSET Data
      BY DataType DEF Files, OnDisk
    <3> QED
      BY <3>1 DEF Archive
  <2>4. \/ UNCHANGED <<fs, dirs, queue>>
        \/ /\ dirs' = now /\ Tell(now \ dirs, {p}, <<>>)
           /\ \/ fs' = [fs EXCEPT ![p] = Archive(src, p)]
              \/ fs' = [fs EXCEPT ![p] = {}]
        \/ dirs' = now /\ Tell(now \ dirs, {}, <<>>) /\ UNCHANGED fs
    BY <1>6 DEF Compress
  <2> HIDE DEF src, a, p, now
  <2>5. fs' \in [Paths -> Contents]
    BY <2>2, <2>3, <2>4 DEF TypeOK, Contents
  <2>6. queue' \in Seq(EventType)
    <3>1. {p} \in SUBSET Paths /\ {} \in SUBSET Paths
      BY <2>2
    <3> QED
      BY <1>1, <1>2, <2>4, <3>1, NoEvents, TellType
  <2>7. dirs' \subseteq Dirs
    BY <1>2, <2>4 DEF TypeOK
  <2> QED
    BY <1>6, <2>1, <2>5, <2>6, <2>7 DEF Compress, TypeOK
<1>7. ASSUME CreateFolder(w) PROVE TypeOK'
  <2> DEFINE made == MkdirAll(a.dir) \ dirs
  <2>1. job' \in [Workers -> JobType]
    BY <1>1, <1>7, NextActionType DEF CreateFolder
  <2>2. \/ dirs' = dirs \cup made /\ Tell(made, {}, <<>>)
        \/ UNCHANGED <<dirs, queue>>
    BY <1>7 DEF CreateFolder
  <2>3. made \in SUBSET Dirs /\ {} \in SUBSET Paths
    BY ParentsType
  <2>4. queue' \in Seq(EventType)
    BY <1>1, <2>2, <2>3, NoEvents, TellType
  <2>5. dirs' \subseteq Dirs
    BY <2>2, <2>3 DEF TypeOK
  <2> QED
    BY <1>7, <2>1, <2>4, <2>5 DEF CreateFolder, TypeOK
<1>8. ASSUME AppendLog(w) PROVE TypeOK'
  <2> DEFINE made == MkdirAll(p.dir) \ dirs
  <2>1. job' \in [Workers -> JobType]
    BY <1>1, <1>8, NextActionType DEF AppendLog
  <2>2. p \in Paths
    BY <1>3, <1>8 DEF AppendLog
  <2>3. \/ UNCHANGED <<fs, dirs, queue>>
        \/ /\ dirs' = dirs \cup made
           /\ Tell(made, {p}, <<>>)
           /\ fs' = [fs EXCEPT ![p] = IF IsFile(p) THEN fs[p] ELSE {}]
    BY <1>8 DEF AppendLog
  <2>4. made \in SUBSET Dirs /\ {p} \in SUBSET Paths
    BY <2>2, ParentsType
  <2> HIDE DEF src, a, p, made
  <2>5. fs' \in [Paths -> Contents]
    BY <2>2, <2>3 DEF TypeOK, Contents
  <2>6. queue' \in Seq(EventType)
    BY <1>1, <2>3, <2>4, NoEvents, TellType
  <2>7. dirs' \subseteq Dirs
    BY <2>3, <2>4 DEF TypeOK
  <2> QED
    BY <1>8, <2>1, <2>5, <2>6, <2>7 DEF AppendLog, TypeOK
<1>9. ASSUME Touch(w) PROVE TypeOK'
  <2>1. job' \in [Workers -> JobType]
    BY <1>1, <1>9, NextActionType DEF Touch
  <2>2. Event("modify", src) \in Seq(EventType)
    BY <1>1, EventsType
  <2>3. UNCHANGED queue \/ queue' = queue \o Event("modify", src)
    BY <1>9 DEF Touch
  <2>4. queue' \in Seq(EventType)
    BY <1>1, <2>2, <2>3, QueueGrows
  <2> QED
    BY <1>9, <2>1, <2>4 DEF Touch, TypeOK, disk
<1> QED
  BY <1>4, <1>5, <1>6, <1>7, <1>8, <1>9

LEMMA TypeStep ==
    ASSUME TypeOK, JobsInStep, [Next]_vars
    PROVE  TypeOK'
<1>1. CASE UNCHANGED vars
  BY <1>1 DEF TypeOK, vars
<1>2. CASE User
  BY <1>2, UserTypes
<1>3. ASSUME NEW w \in Workers, StartScan(w) \/ WorkerStep(w)
      PROVE  TypeOK'
  BY <1>3, PickTypes, MatchTypes, WriteTypes, ActTypes DEF WorkerStep, FileStep
<1> QED
  BY <1>1, <1>2, <1>3 DEF Next
----------------------------------------------------------------------------
(* Where a worker stands: JobsInStep, worker by worker, and the order of the
   rules that matched so far. *)

InChain == {"action", "write", "remove"}

(* What JobsInStep says of worker w, whose engine holds `rules`, at job j. *)
StandsIn(w, rules, j) ==
    LET actions == Rules[rules[j.rule]].actions
    IN  /\ j.pc \in InChain => j.rule \in DOMAIN rules
        /\ j.pc \in {"write", "remove"} =>
               /\ w \notin DryWorkers
               /\ j.act \in DOMAIN actions
               /\ actions[j.act].type \in {"move", "copy", "rename"}
        /\ j.pc = "remove" => actions[j.act].type # "copy"

(* The rules are in ascending order, and so are those that matched; they all
   let the matching go on, except perhaps the one whose chain is running, and
   come before every rule still to be tried. *)
OrderedIn(rules, j) ==
    /\ \A i, k \in DOMAIN rules : i < k => rules[i] < rules[k]
    /\ \A i, k \in DOMAIN j.acted : i < k =>
           j.acted[i] < j.acted[k] /\ Rules[j.acted[i]].continue_matching
    /\ j.pc = "idle" => j.acted = <<>>
    /\ j.pc = "rules" => \A i \in DOMAIN j.acted :
           /\ Rules[j.acted[i]].continue_matching
           /\ \A k \in DOMAIN rules : j.rule <= k => j.acted[i] < rules[k]
    /\ j.pc \in InChain => \A i \in DOMAIN j.acted :
           /\ j.acted[i] <= rules[j.rule]
           /\ j.acted[i] < rules[j.rule] => Rules[j.acted[i]].continue_matching

InOrderSoFar == \A w \in Workers : OrderedIn(task[w].rules, job[w])

Inv == TypeOK /\ JobsInStep /\ InOrderSoFar

(* Both parts of the invariant of one worker. *)
InPlace(w, rules, j) == StandsIn(w, rules, j) /\ OrderedIn(rules, j)

LEMMA InPlaceEverywhere ==
    ASSUME TypeOK
    PROVE  (JobsInStep /\ InOrderSoFar)
             <=> \A w \in Workers : InPlace(w, task[w].rules, job[w])
BY DEF JobsInStep, InOrderSoFar, InPlace, StandsIn, InChain, RuleOf, ActionOf

(* A step of one worker leaves the others where they are. *)
LEMMA OneMoves ==
    ASSUME TypeOK, JobsInStep, InOrderSoFar, TypeOK',
           NEW w \in Workers, UNCHANGED task,
           NEW j, job' = [job EXCEPT ![w] = j], InPlace(w, task[w].rules, j)
    PROVE  (JobsInStep /\ InOrderSoFar)'
<1>1. \A v \in Workers : InPlace(v, task[v].rules, job[v])
  BY InPlaceEverywhere
<1>2. job \in [Workers -> JobType]
  BY DEF TypeOK
<1>3. \A v \in Workers : InPlace(v, task'[v].rules, job'[v])
  BY <1>1, <1>2
<1> QED
  BY <1>3 DEF JobsInStep, InOrderSoFar, InPlace, StandsIn, InChain, RuleOf, ActionOf

(* An idle job is in place under any ascending list of rules. *)
LEMMA IdleInPlace ==
    ASSUME NEW w \in Workers, NEW rules \in Seq(DOMAIN Rules),
           \A i, k \in DOMAIN rules : i < k => rules[i] < rules[k]
    PROVE  InPlace(w, rules, IdleJob)
BY DEF InPlace, StandsIn, OrderedIn, InChain, IdleJob

(* Inside a chain the worker goes on: with the next action, with a write when
   the action has a destination, with the removal of a source. *)
LEMMA ChainInPlace ==
    ASSUME NEW w \in Workers, NEW rules \in Seq(DOMAIN Rules), NEW j \in JobType,
           InPlace(w, rules, j), j.pc \in InChain, NEW n, NEW p
    PROVE  /\ InPlace(w, rules, [j EXCEPT !.pc = "action", !.act = n, !.cur = p])
           /\ (/\ w \notin DryWorkers
               /\ j.act \in DOMAIN Rules[rules[j.rule]].actions
               /\ Rules[rules[j.rule]].actions[j.act].type
                        \in {"move", "copy", "rename"})
              => InPlace(w, rules, [j EXCEPT !.pc = "write", !.dest = p])
           /\ (j.pc = "write" /\ Rules[rules[j.rule]].actions[j.act].type # "copy")
              => InPlace(w, rules, [j EXCEPT !.pc = "remove"])
<1> DEFINE a == [j EXCEPT !.pc = "action", !.act = n, !.cur = p]
           d == [j EXCEPT !.pc = "write", !.dest = p]
           r == [j EXCEPT !.pc = "remove"]
<1>1. /\ a.pc = "action" /\ a.rule = j.rule /\ a.acted = j.acted
      /\ d.pc = "write" /\ d.rule = j.rule /\ d.act = j.act /\ d.acted = j.acted
      /\ r.pc = "remove" /\ r.rule = j.rule /\ r.act = j.act /\ r.acted = j.acted
  BY DEF JobType
<1> HIDE DEF a, d, r
<1>2. OrderedIn(rules, a) /\ OrderedIn(rules, d) /\ OrderedIn(rules, r)
  BY <1>1 DEF InPlace, OrderedIn, InChain
<1>3. StandsIn(w, rules, a)
  BY <1>1 DEF InPlace, StandsIn, InChain
<1>4. ASSUME w \notin DryWorkers,
             j.act \in DOMAIN Rules[rules[j.rule]].actions,
             Rules[rules[j.rule]].actions[j.act].type \in {"move", "copy", "rename"}
      PROVE  StandsIn(w, rules, d)
  BY <1>1, <1>4 DEF InPlace, StandsIn, InChain
<1>5. ASSUME j.pc = "write", Rules[rules[j.rule]].actions[j.act].type # "copy"
      PROVE  StandsIn(w, rules, r)
  BY <1>1, <1>5 DEF InPlace, StandsIn, InChain
<1> QED
  BY <1>2, <1>3, <1>4, <1>5 DEF InPlace, a, d, r

(* A rule is passed over, or its chain ends and it lets the matching go on. *)
LEMMA NextRuleInPlace ==
    ASSUME NEW w \in Workers, NEW rules \in Seq(DOMAIN Rules), NEW j \in JobType,
           InPlace(w, rules, j), j.rule \in DOMAIN rules,
           \/ j.pc = "rules"
           \/ j.pc = "action" /\ Rules[rules[j.rule]].continue_matching
    PROVE  InPlace(w, rules, [j EXCEPT !.pc = "rules", !.rule = j.rule + 1])
<1> DEFINE n == [j EXCEPT !.pc = "rules", !.rule = j.rule + 1]
<1>1. n.pc = "rules" /\ n.rule = j.rule + 1 /\ n.acted = j.acted
  BY DEF JobType
<1> HIDE DEF n
<1>2. StandsIn(w, rules, n)
  BY <1>1 DEF StandsIn, InChain
<1>3. \A i \in DOMAIN j.acted :
         /\ Rules[j.acted[i]].continue_matching
         /\ \A k \in DOMAIN rules : j.rule + 1 <= k => j.acted[i] < rules[k]
  <2> SUFFICES ASSUME NEW i \in DOMAIN j.acted
               PROVE  /\ Rules[j.acted[i]].continue_matching
                      /\ \A k \in DOMAIN rules :
                             j.rule + 1 <= k => j.acted[i] < rules[k]
    OBVIOUS
  <2>1. /\ j.rule \in Nat /\ j.acted[i] \in Int /\ DOMAIN rules \subseteq Nat
        /\ \A k \in DOMAIN rules : rules[k] \in Int
    <3>1. DOMAIN Rules \subseteq Nat
      BY RulesAssumption
    <3> QED
      BY <3>1 DEF JobType
  <2>2. CASE j.pc = "rules"
    BY <2>1, <2>2 DEF InPlace, OrderedIn
  <2>3. CASE j.pc = "action" /\ Rules[rules[j.rule]].continue_matching
    <3>1. /\ j.acted[i] <= rules[j.rule]
          /\ j.acted[i] < rules[j.rule] => Rules[j.acted[i]].continue_matching
          /\ \A k \in DOMAIN rules : j.rule < k => rules[j.rule] < rules[k]
      BY <2>3 DEF InPlace, OrderedIn, InChain
    <3>2. Rules[j.acted[i]].continue_matching
      BY <2>1, <2>3, <3>1
    <3>3. ASSUME NEW k \in DOMAIN rules, j.rule + 1 <= k
          PROVE  j.acted[i] < rules[k]
      BY <2>1, <3>1, <3>3
    <3> QED
      BY <3>2, <3>3
  <2> QED
    BY <2>2, <2>3
<1>4. OrderedIn(rules, n)
  BY <1>1, <1>3 DEF InPlace, OrderedIn, InChain
<1> QED
  BY <1>2, <1>4 DEF InPlace, n

(* A rule that matches comes after all that matched before. *)
LEMMA MatchInPlace ==
    ASSUME NEW w \in Workers, NEW rules \in Seq(DOMAIN Rules), NEW j \in JobType,
           InPlace(w, rules, j), j.rule \in DOMAIN rules, j.pc = "rules", NEW p
    PROVE  InPlace(w, rules, [j EXCEPT !.pc = "action", !.act = 1, !.cur = p,
                                       !.acted = Append(j.acted, rules[j.rule])])
<1> DEFINE m == [j EXCEPT !.pc = "action", !.act = 1, !.cur = p,
                          !.acted = Append(j.acted, rules[j.rule])]
<1>1. m.pc = "action" /\ m.rule = j.rule /\ m.acted = Append(j.acted, rules[j.rule])
  BY DEF JobType
<1> HIDE DEF m
<1>2. StandsIn(w, rules, m)
  BY <1>1 DEF StandsIn, InChain
<1>3. /\ j.acted \in Seq(DOMAIN Rules) /\ rules[j.rule] \in DOMAIN Rules
      /\ DOMAIN Rules \subseteq Nat /\ j.rule \in Nat
  BY RulesAssumption DEF JobType
<1>4. \A i \in DOMAIN j.acted :
         Rules[j.acted[i]].continue_matching /\ j.acted[i] < rules[j.rule]
  BY <1>3 DEF InPlace, OrderedIn
<1>5. /\ DOMAIN m.acted = 1..Len(j.acted) + 1
      /\ DOMAIN j.acted = 1..Len(j.acted) /\ Len(j.acted) \in Nat
      /\ \A i \in DOMAIN j.acted : m.acted[i] = j.acted[i]
      /\ m.acted[Len(j.acted) + 1] = rules[j.rule]
  BY <1>1, <1>3
<1>6. \A i, k \in DOMAIN m.acted : i < k =>
         m.acted[i] < m.acted[k] /\ Rules[m.acted[i]].continue_matching
  <2> SUFFICES ASSUME NEW i \in DOMAIN m.acted, NEW k \in DOMAIN m.acted, i < k
               PROVE  m.acted[i] < m.acted[k] /\ Rules[m.acted[i]].continue_matching
    OBVIOUS
  <2>1. i \in DOMAIN j.acted /\ (k \in DOMAIN j.acted \/ k = Len(j.acted) + 1)
    BY <1>5
  <2>2. CASE k \in DOMAIN j.acted
    BY <1>5, <2>1, <2>2 DEF InPlace, OrderedIn
  <2>3. CASE k = Len(j.acted) + 1
    BY <1>4, <1>5, <2>1, <2>3
  <2> QED
    BY <2>1, <2>2, <2>3
<1>7. \A i \in DOMAIN m.acted :
         /\ m.acted[i] <= rules[m.rule]
         /\ m.acted[i] < rules[m.rule] => Rules[m.acted[i]].continue_matching
  <2> SUFFICES ASSUME NEW i \in DOMAIN m.acted
               PROVE  /\ m.acted[i] <= rules[m.rule]
                      /\ m.acted[i] < rules[m.rule]
                             => Rules[m.acted[i]].continue_matching
    OBVIOUS
  <2>1. i \in DOMAIN j.acted \/ i = Len(j.acted) + 1
    BY <1>5
  <2>2. CASE i \in DOMAIN j.acted
    <3>1. j.acted[i] \in Nat /\ rules[j.rule] \in Nat
      BY <1>3, <2>2
    <3> QED
      BY <1>1, <1>4, <1>5, <2>2, <3>1
  <2>3. CASE i = Len(j.acted) + 1
    <3>1. rules[j.rule] \in Nat
      BY <1>3
    <3> QED
      BY <1>1, <1>5, <2>3, <3>1
  <2> QED
    BY <2>1, <2>2, <2>3
<1>8. OrderedIn(rules, m)
  BY <1>1, <1>6, <1>7 DEF InPlace, OrderedIn, InChain
<1> QED
  BY <1>2, <1>8 DEF InPlace, m

(* The job a file is started with: nothing has matched it. *)
LEMMA StartedInPlace ==
    ASSUME NEW w \in Workers, NEW rules \in Seq(DOMAIN Rules), NEW p,
           \A i, k \in DOMAIN rules : i < k => rules[i] < rules[k]
    PROVE  InPlace(w, rules, Started(p))
BY DEF InPlace, StandsIn, OrderedIn, InChain, IdleJob, Started

(* The tasks pick their files, and scans are given ascending lists of rules. *)
LEMMA PickInPlace ==
    ASSUME TypeOK, JobsInStep, InOrderSoFar, TypeOK', NEW w \in Workers,
           TakeEvent(w) \/ StartScan(w) \/ ListFolder(w) \/ TakeFile(w)
    PROVE  (JobsInStep /\ InOrderSoFar)'
<1>1. \A v \in Workers : InPlace(v, task[v].rules, job[v])
  BY InPlaceEverywhere
<1>2. /\ job \in [Workers -> JobType] /\ task \in [Workers -> TaskType]
      /\ task[w].rules \in Seq(DOMAIN Rules)
  BY DEF TypeOK, TaskType
<1>3. \A i, k \in DOMAIN task[w].rules : i < k => task[w].rules[i] < task[w].rules[k]
  BY <1>1 DEF InPlace, OrderedIn
<1>4. job[w].pc = "idle"
  BY DEF TakeEvent, StartScan, ListFolder, TakeFile, Idle
<1>5. ASSUME NEW p \in Paths, StartFile(w, p)
      PROVE  \A v \in Workers : InPlace(v, task[v].rules, job'[v])
  <2>1. InPlace(w, task[w].rules, Started(p))
    BY <1>2, <1>3, StartedInPlace
  <2>2. CASE Exists(p)
    BY <1>1, <1>2, <1>5, <2>1, <2>2 DEF StartFile, JobIs, Started
  <2>3. CASE ~Exists(p)
    BY <1>1, <1>5, <2>3 DEF StartFile
  <2> QED
    BY <2>2, <2>3
<1>6. \A v \in Workers : InPlace(v, task'[v].rules, job'[v])
  <2>1. ASSUME TakeEvent(w)
        PROVE  \A v \in Workers : InPlace(v, task'[v].rules, job'[v])
    <3>1. Head(queue) \in EventType
      BY <2>1 DEF TakeEvent, TypeOK
    <3>2. Head(queue).path \in Paths
      BY <3>1 DEF EventType
    <3> QED
      BY <1>1, <1>5, <2>1, <3>2 DEF TakeEvent
  <2>2. ASSUME StartScan(w)
        PROVE  \A v \in Workers : InPlace(v, task'[v].rules, job'[v])
    <3>1. PICK s \in Scans :
              TaskIs(w, [task[w] EXCEPT !.plan = s.folders, !.rules = s.rules])
      BY <2>2 DEF StartScan
    <3>2. task'[w].rules = s.rules
      BY <1>2, <3>1 DEF TaskIs, TaskType
    <3>3. /\ s.rules \in Seq(DOMAIN Rules)
          /\ \A i, k \in DOMAIN s.rules : i < k => s.rules[i] < s.rules[k]
      BY ScansAssumption
    <3>4. job[w].acted = <<>>
      BY <1>1, <1>4 DEF InPlace, OrderedIn
    <3>5. InPlace(w, s.rules, job[w])
      BY <1>4, <3>3, <3>4 DEF InPlace, StandsIn, OrderedIn, InChain
    <3>6. ASSUME NEW v \in Workers PROVE InPlace(v, task'[v].rules, job'[v])
      BY <1>1, <1>2, <2>2, <3>1, <3>2, <3>5 DEF StartScan, TaskIs
    <3> QED
      BY <3>6
  <2>3. ASSUME ListFolder(w)
        PROVE  \A v \in Workers : InPlace(v, task'[v].rules, job'[v])
    <3>1. \A v \in Workers : task'[v].rules = task[v].rules
      BY <1>2, <2>3 DEF ListFolder, TaskIs, TaskType
    <3> QED
      BY <1>1, <2>3, <3>1 DEF ListFolder
  <2>4. ASSUME TakeFile(w)
        PROVE  \A v \in Workers : InPlace(v, task'[v].rules, job'[v])
    <3>1. PICK p \in task[w].todo :
              /\ TaskIs(w, [task[w] EXCEPT !.todo = task[w].todo \ {p}])
              /\ StartFile(w, p)
      BY <2>4 DEF TakeFile
    <3>2. p \in Paths
      BY <1>2 DEF TaskType
    <3>3. \A v \in Workers : task'[v].rules = task[v].rules
      BY <1>2, <3>1 DEF TaskIs, TaskType
    <3> QED
      BY <1>5, <3>1, <3>2, <3>3
  <2> QED
    BY <2>1, <2>2, <2>3, <2>4
<1> QED
  BY <1>6 DEF JobsInStep, InOrderSoFar, InPlace, StandsIn, InChain, RuleOf, ActionOf

(* The steps on one file. *)
LEMMA FileInPlace ==
    ASSUME TypeOK, JobsInStep, InOrderSoFar, TypeOK', NEW w \in Workers, FileStep(w)
    PROVE  (JobsInStep /\ InOrderSoFar)'
<1> DEFINE rules == task[w].rules
           j     == job[w]
<1>1. /\ rules \in Seq(DOMAIN Rules) /\ j \in JobType
      /\ InPlace(w, rules, j)
      /\ \A i, k \in DOMAIN rules : i < k => rules[i] < rules[k]
  BY InPlaceEverywhere DEF TypeOK, TaskType, InPlace, OrderedIn
<1>2. UNCHANGED task
  BY DEF FileStep, TryRule, NoRuleLeft, EndChain, Resolve, Rename, WriteFails, Copy,
         CopyAcross, CopyBreaks, CopyContent, RemoveSource, Discard, Compress,
         CreateFolder, AppendLog, Touch
<1>3. ASSUME NEW k, job' = [job EXCEPT ![w] = k], InPlace(w, rules, k)
      PROVE  (JobsInStep /\ InOrderSoFar)'
  BY <1>2, <1>3, OneMoves
<1>4. InPlace(w, rules, IdleJob)
  BY <1>1, IdleInPlace
<1>5. ASSUME j.pc \in InChain, NEW p, NextAction(w, p)
      PROVE  (JobsInStep /\ InOrderSoFar)'
  BY <1>1, <1>3, <1>5, ChainInPlace DEF NextAction, JobIs
<1>6. ASSUME TryRule(w) PROVE (JobsInStep /\ InOrderSoFar)'
  <2>1. j.pc = "rules" /\ j.rule \in DOMAIN rules
    BY <1>6 DEF TryRule
  <2>2. CASE Applies(w)
    BY <1>1, <1>3, <1>6, <2>1, <2>2, MatchInPlace DEF TryRule, JobIs
  <2>3. CASE ~Applies(w)
    <3>1. [j EXCEPT !.rule = j.rule + 1] = [j EXCEPT !.pc = "rules", !.rule = j.rule + 1]
      BY <1>1, <2>1 DEF JobType
    <3> QED
      BY <1>1, <1>3, <1>6, <2>1, <2>3, <3>1, NextRuleInPlace DEF TryRule, JobIs
  <2> QED
    BY <2>2, <2>3
<1>7. NoRuleLeft(w) => (JobsInStep /\ InOrderSoFar)'
  BY <1>3, <1>4 DEF NoRuleLeft, JobIs
<1>8. ASSUME EndChain(w) PROVE (JobsInStep /\ InOrderSoFar)'
  <2>1. j.pc = "action" /\ j.rule \in DOMAIN rules
    BY <1>1, <1>8 DEF EndChain, InPlace, StandsIn, InChain
  <2>2. CASE RuleOf(w).continue_matching
    BY <1>1, <1>3, <1>8, <2>1, <2>2, NextRuleInPlace DEF EndChain, JobIs, RuleOf
  <2>3. CASE ~RuleOf(w).continue_matching
    BY <1>3, <1>4, <1>8, <2>3 DEF EndChain, JobIs
  <2> QED
    BY <2>2, <2>3
<1>9. ASSUME Resolve(w) PROVE (JobsInStep /\ InOrderSoFar)'
  <2>1. /\ j.pc = "action" /\ j.act \in DOMAIN RuleOf(w).actions
        /\ ActionOf(w).type \in {"move", "copy", "rename"}
    BY <1>9 DEF Resolve, Acting
  <2>2. \/ \E q : NextAction(w, q)
        \/ \E q : w \notin DryWorkers /\ JobIs(w, [j EXCEPT !.pc = "write", !.dest = q])
    BY <1>9 DEF Resolve, ChooseFree, Choose, Follow
  <2>3. ASSUME NEW q, w \notin DryWorkers, JobIs(w, [j EXCEPT !.pc = "write", !.dest = q])
        PROVE  (JobsInStep /\ InOrderSoFar)'
    <3>1. InPlace(w, rules, [j EXCEPT !.pc = "write", !.dest = q])
      BY <1>1, <2>1, <2>3, ChainInPlace DEF InChain, RuleOf, ActionOf
    <3> QED
      BY <1>3, <2>3, <3>1 DEF JobIs
  <2> QED
    BY <1>5, <2>1, <2>2, <2>3 DEF InChain
<1>10. ASSUME CopyAcross(w) PROVE (JobsInStep /\ InOrderSoFar)'
  <2>1. /\ j.pc = "write" /\ ActionOf(w).type # "copy"
        /\ JobIs(w, [j EXCEPT !.pc = "remove"])
    BY <1>10 DEF CopyAcross, Completes, CanCopy
  <2>2. InPlace(w, rules, [j EXCEPT !.pc = "remove"])
    BY <1>1, <2>1, ChainInPlace DEF InChain, RuleOf, ActionOf
  <2> QED
    BY <1>3, <2>1, <2>2 DEF JobIs
<1>11. ASSUME \/ Copy(w) \/ CopyBreaks(w) \/ Rename(w) \/ WriteFails(w)
              \/ RemoveSource(w) \/ Discard(w) \/ Compress(w)
              \/ CreateFolder(w) \/ AppendLog(w) \/ Touch(w)
       PROVE  (JobsInStep /\ InOrderSoFar)'
  <2>1. j.pc \in InChain
    BY <1>11 DEF Copy, CopyBreaks, Completes, CanCopy, Rename, WriteFails, RemoveSource,
                 Discard, Compress, CreateFolder, AppendLog, Touch, Acting, InChain
  <2>2. \E q : NextAction(w, q)
    BY <1>11 DEF Copy, CopyBreaks, Rename, WriteFails, RemoveSource, Follow, Discard,
                 Compress, CreateFolder, AppendLog, Touch
  <2> QED
    BY <1>5, <2>1, <2>2
<1> QED
  BY <1>6, <1>7, <1>8, <1>9, <1>10, <1>11 DEF FileStep

LEMMA InvStep ==
    ASSUME Inv, [Next]_vars
    PROVE  Inv'
<1>1. TypeOK'
  BY TypeStep DEF Inv
<1>2. CASE UNCHANGED vars
  BY <1>1, <1>2 DEF Inv, JobsInStep, InOrderSoFar, StandsIn, OrderedIn, RuleOf,
                    ActionOf, vars
<1>3. CASE User
  <2>1. UNCHANGED <<task, job>>
    BY <1>3 DEF User, UserCreate, UserMoveIn, UserRemove
  <2> QED
    BY <1>1, <2>1 DEF Inv, JobsInStep, InOrderSoFar, StandsIn, OrderedIn, RuleOf,
                      ActionOf
<1>4. ASSUME NEW w \in Workers, StartScan(w) \/ WorkerStep(w)
      PROVE  Inv'
  <2>1. CASE TakeEvent(w) \/ StartScan(w) \/ ListFolder(w) \/ TakeFile(w)
    BY <1>1, <2>1, PickInPlace DEF Inv
  <2>2. CASE FileStep(w)
    BY <1>1, <2>2, FileInPlace DEF Inv
  <2> QED
    BY <1>4, <2>1, <2>2 DEF WorkerStep
<1> QED
  BY <1>2, <1>3, <1>4 DEF Next

LEMMA InvInit == Init => Inv
<1> SUFFICES ASSUME Init PROVE Inv
  OBVIOUS
<1>1. TypeOK
  BY TypeInit
<1>2. AllRules \in Seq(DOMAIN Rules)
      /\ \A i, k \in DOMAIN AllRules : i < k => AllRules[i] < AllRules[k]
  <2>1. Len(Rules) \in Nat /\ DOMAIN Rules = 1..Len(Rules)
    BY RulesAssumption
  <2> QED
    BY <2>1 DEF AllRules
<1>3. ASSUME NEW w \in Workers PROVE InPlace(w, task[w].rules, job[w])
  BY <1>2, IdleInPlace DEF Init, WatcherTask
<1> QED
  BY <1>1, <1>3, InPlaceEverywhere DEF Inv

(* The invariant of every run: the others follow from it. *)
THEOREM Invariant == Spec => []Inv
<1>1. Init => Inv
  BY InvInit
<1>2. Inv /\ [Next]_vars => Inv'
  BY InvStep
<1> QED
  BY <1>1, <1>2, PTL DEF Spec

(* Type correctness: every file, event and job is one the engine can have,
   whatever the rules, the workers and the user do. *)
THEOREM TypeCorrect == Spec => []TypeOK
<1>1. Inv => TypeOK
  BY DEF Inv
<1> QED
  BY <1>1, Invariant, PTL

(* process_file runs the matching rules in priority order, each once, and none
   after one without continue_matching (engine.rs:339-389), for every list of
   rules that load_rules can produce and any interleaving of workers. *)
THEOREM InOrder == Spec => []AppliedInOrder
<1>1. Inv => AppliedInOrder
  <2> SUFFICES ASSUME Inv, NEW w \in Workers,
                      NEW i \in DOMAIN job[w].acted, NEW j \in DOMAIN job[w].acted,
                      i < j
               PROVE  /\ job[w].acted[i] < job[w].acted[j]
                      /\ Rules[job[w].acted[i]].priority
                             <= Rules[job[w].acted[j]].priority
                      /\ Rules[job[w].acted[i]].continue_matching
    BY DEF AppliedInOrder
  <2>1. job[w].acted \in Seq(DOMAIN Rules)
    BY DEF Inv, TypeOK, JobType
  <2>2. job[w].acted[i] \in DOMAIN Rules /\ job[w].acted[j] \in DOMAIN Rules
    BY <2>1
  <2>3. /\ job[w].acted[i] < job[w].acted[j]
        /\ Rules[job[w].acted[i]].continue_matching
    BY DEF Inv, InOrderSoFar, OrderedIn
  <2> QED
    BY <2>2, <2>3, RulesAssumption
<1> QED
  BY <1>1, Invariant, PTL

(* A dry run touches nothing (README.md:318): no step of a worker whose engine
   is dry changes a file, a directory or the trash, whatever the others do. *)
THEOREM DryRunSafe == Spec => DryRunTouchesNothing
<1>1. ASSUME Inv, [Next]_vars, NEW w \in DryWorkers, job'[w] # job[w]
      PROVE  UNCHANGED disk
  <2>1. w \in Workers /\ job \in [Workers -> JobType]
    BY <1>1, DiskAssumption DEF Inv, TypeOK
  <2>2. CASE UNCHANGED vars
    BY <1>1, <2>2 DEF vars
  <2>3. CASE User
    BY <1>1, <2>3 DEF User, UserCreate, UserMoveIn, UserRemove
  <2>4. ASSUME NEW v \in Workers, StartScan(v) \/ WorkerStep(v)
        PROVE  UNCHANGED disk
    <3>1. CASE StartScan(v) \/ TakeEvent(v) \/ ListFolder(v) \/ TakeFile(v)
      BY <3>1 DEF StartScan, TakeEvent, ListFolder, TakeFile
    <3>2. CASE \/ TryRule(v) \/ NoRuleLeft(v) \/ EndChain(v)
               \/ Resolve(v) \/ Touch(v)
      BY <3>2 DEF TryRule, NoRuleLeft, EndChain, Resolve, Touch
    <3>3. ASSUME \/ Copy(v) \/ CopyAcross(v) \/ CopyBreaks(v) \/ Rename(v)
                 \/ WriteFails(v) \/ RemoveSource(v)
                 \/ Discard(v) \/ Compress(v) \/ CreateFolder(v) \/ AppendLog(v)
          PROVE  v = w
      BY <1>1, <2>1, <3>3 DEF Copy, CopyAcross, CopyBreaks, Rename, WriteFails,
            RemoveSource, Follow, Discard, Compress, CreateFolder, AppendLog,
            NextAction, JobIs
    <3>4. job[w].pc \notin {"write", "remove"}
      BY <1>1, <2>1 DEF Inv, JobsInStep
    <3>5. ~(\/ Copy(w) \/ CopyAcross(w) \/ CopyBreaks(w) \/ Rename(w)
            \/ WriteFails(w) \/ RemoveSource(w))
      BY <3>4 DEF Copy, CopyAcross, CopyBreaks, Completes, CanCopy, Rename, WriteFails,
                  RemoveSource
    <3>6. Discard(w) \/ Compress(w) \/ CreateFolder(w) \/ AppendLog(w)
             => UNCHANGED disk
      BY DEF Discard, Compress, CreateFolder, AppendLog, disk
    <3> QED
      BY <2>4, <3>1, <3>2, <3>3, <3>5, <3>6 DEF WorkerStep, FileStep
  <2> QED
    BY <1>1, <2>2, <2>3, <2>4 DEF Next
<1>2. Inv /\ [Next]_vars =>
         [\A w \in DryWorkers : job'[w] # job[w] => UNCHANGED disk]_vars
  BY <1>1
<1> QED
  BY <1>2, Invariant, PTL DEF Spec, DryRunTouchesNothing
-----------------------------------------------------------------------------
(* Chains that keep to some paths, and rules that match files only. *)

ChainsIn(G) ==
    \A w \in Workers :
        /\ job[w].pc \in InChain => job[w].cur \in G
        /\ job[w].pc \in {"write", "remove"} => job[w].dest \in G

LEMMA JobStaysIn ==
    ASSUME Inv, NEW G, ChainsIn(G), NEW w \in Workers, NEW j, JobIs(w, j),
           j.pc \in InChain => j.cur \in G,
           j.pc \in {"write", "remove"} => j.dest \in G
    PROVE  ChainsIn(G)'
<1>1. job \in [Workers -> JobType]
  BY DEF Inv, TypeOK
<1>2. job'[w] = j /\ \A v \in Workers \ {w} : job'[v] = job[v]
  BY <1>1 DEF JobIs
<1> QED
  BY <1>2 DEF ChainsIn

LEMMA NextStaysIn ==
    ASSUME Inv, NEW G, ChainsIn(G), NEW w \in Workers, NEW p \in G, NextAction(w, p)
    PROVE  ChainsIn(G)'
<1> DEFINE j == [job[w] EXCEPT !.pc = "action", !.act = job[w].act + 1, !.cur = p]
<1>1. job[w] \in JobType
  BY DEF Inv, TypeOK
<1>2. j.pc = "action" /\ j.cur = p
  BY <1>1 DEF JobType
<1>3. JobIs(w, j)
  BY DEF NextAction
<1> HIDE DEF j
<1> QED
  BY <1>2, <1>3, JobStaysIn

LEMMA FollowStaysIn ==
    ASSUME Inv, NEW G, ChainsIn(G), NEW w \in Workers, job[w].pc \in InChain,
           NEW p \in G, Follow(w, p)
    PROVE  ChainsIn(G)'
<1>1. job[w].cur \in G
  BY DEF ChainsIn
<1>2. \E q \in G : NextAction(w, q)
  BY <1>1 DEF Follow
<1> QED
  BY <1>2, NextStaysIn

(* Rules start on paths of G, and their actions send what is in G there. *)
Starts(G) ==
    \A w \in Workers :
        job[w].pc = "rules" /\ job[w].rule \in DOMAIN task[w].rules /\ Applies(w)
            => job[w].path \in G
Sends(G) ==
    /\ \A w \in Workers :
           Acting(w, {"move", "copy", "rename"}) =>
               Destination(ActionOf(w), job[w].cur) \in G
    /\ \A p \in G, q \in Paths : UniquePath(p, q) => q \in G

LEMMA PickStaysIn ==
    ASSUME Inv, NEW G, ChainsIn(G), NEW w \in Workers,
           StartScan(w) \/ TakeEvent(w) \/ ListFolder(w) \/ TakeFile(w)
    PROVE  ChainsIn(G)'
<1>1. ASSUME NEW p, StartFile(w, p)
      PROVE  ChainsIn(G)'
  <2>1. Started(p).pc = "rules"
    BY DEF Started, IdleJob
  <2>2. UNCHANGED job \/ JobIs(w, Started(p))
    BY <1>1 DEF StartFile, Started
  <2> QED
    BY <2>1, <2>2, JobStaysIn DEF ChainsIn, InChain
<1>2. UNCHANGED job => ChainsIn(G)'
  BY DEF ChainsIn
<1>3. UNCHANGED job \/ \E p : StartFile(w, p)
  BY DEF StartScan, TakeEvent, ListFolder, TakeFile
<1> QED
  BY <1>1, <1>2, <1>3

LEMMA MatchStaysIn ==
    ASSUME Inv, NEW G, ChainsIn(G), Starts(G), NEW w \in Workers,
           TryRule(w) \/ NoRuleLeft(w) \/ EndChain(w)
    PROVE  ChainsIn(G)'
<1>1. job[w] \in JobType
  BY DEF Inv, TypeOK
<1>2. CASE TryRule(w)
  <2>1. job[w].pc = "rules" /\ job[w].rule \in DOMAIN task[w].rules
    BY <1>2 DEF TryRule
  <2>2. CASE Applies(w)
    <3> DEFINE j == [job[w] EXCEPT !.pc = "action", !.act = 1, !.cur = job[w].path,
                        !.acted = Append(job[w].acted, task[w].rules[job[w].rule])]
    <3>1. j.pc = "action" /\ j.cur = job[w].path
      BY <1>1 DEF JobType
    <3>2. JobIs(w, j)
      BY <1>2, <2>2 DEF TryRule
    <3>3. job[w].path \in G
      BY <2>1, <2>2 DEF Starts
    <3> HIDE DEF j
    <3> QED
      BY <3>1, <3>2, <3>3, JobStaysIn
  <2>3. CASE ~Applies(w)
    <3> DEFINE j == [job[w] EXCEPT !.rule = job[w].rule + 1]
    <3>1. j.pc = "rules"
      BY <1>1, <2>1 DEF JobType
    <3>2. JobIs(w, j)
      BY <1>2, <2>3 DEF TryRule
    <3> HIDE DEF j
    <3> QED
      BY <3>1, <3>2, JobStaysIn DEF InChain
  <2> QED
    BY <2>2, <2>3
<1>3. CASE NoRuleLeft(w) \/ EndChain(w)
  <2> DEFINE j == [job[w] EXCEPT !.pc = "rules", !.rule = job[w].rule + 1]
  <2>1. j.pc = "rules" /\ IdleJob.pc = "idle"
    BY <1>1 DEF JobType, IdleJob
  <2>2. JobIs(w, IdleJob) \/ JobIs(w, j)
    BY <1>3 DEF NoRuleLeft, EndChain
  <2> HIDE DEF j
  <2> QED
    BY <2>1, <2>2, JobStaysIn DEF InChain
<1> QED
  BY <1>2, <1>3

LEMMA ResolveStaysIn ==
    ASSUME Inv, NEW G \in SUBSET Paths, ChainsIn(G), Sends(G), NEW w \in Workers, Resolve(w)
    PROVE  ChainsIn(G)'
<1> DEFINE a == ActionOf(w)
           p == Destination(a, job[w].cur)
<1>1. job[w] \in JobType /\ job[w].pc \in InChain /\ job[w].cur \in G
  BY DEF Resolve, Acting, InChain, Inv, TypeOK, ChainsIn
<1>2. p \in G
  BY DEF Resolve, Sends
<1>3. ASSUME NEW q \in G, Choose(w, q)
      PROVE  ChainsIn(G)'
  <2>1. CASE w \in DryWorkers
    BY <1>1, <1>3, <2>1, FollowStaysIn DEF Choose
  <2>2. CASE w \notin DryWorkers
    <3> DEFINE j == [job[w] EXCEPT !.pc = "write", !.dest = q]
    <3>1. j.cur = job[w].cur /\ j.dest = q
      BY <1>1 DEF JobType
    <3>2. JobIs(w, j)
      BY <1>3, <2>2 DEF Choose
    <3> HIDE DEF j
    <3> QED
      BY <1>1, <1>3, <3>1, <3>2, JobStaysIn
  <2> QED
    BY <2>1, <2>2
<1> HIDE DEF p, a
<1>4. \A q \in Paths : UniquePath(p, q) => q \in G
  BY <1>2 DEF Sends
<1>5. \/ Follow(w, p)
      \/ \E q \in G : Choose(w, q)
      \/ NextAction(w, job[w].cur)
  BY <1>2, <1>4 DEF Resolve, ChooseFree, p, a
<1> QED
  BY <1>1, <1>2, <1>3, <1>5, FollowStaysIn, NextStaysIn

LEMMA ActStaysIn ==
    ASSUME Inv, NEW G, ChainsIn(G), NEW w \in Workers,
           \/ Rename(w) \/ WriteFails(w) \/ Copy(w) \/ CopyAcross(w) \/ CopyBreaks(w)
           \/ RemoveSource(w) \/ Discard(w) \/ Compress(w)
           \/ CreateFolder(w) \/ AppendLog(w) \/ Touch(w)
    PROVE  ChainsIn(G)'
<1> DEFINE src == job[w].cur
           p == job[w].dest
<1>1. job[w] \in JobType
  BY DEF Inv, TypeOK
<1>2. CASE Rename(w)
  BY <1>2, NextStaysIn DEF Rename, ChainsIn
<1>3. CASE WriteFails(w) \/ Copy(w) \/ CopyBreaks(w)
  <2>1. job[w].pc = "write" /\ NextAction(w, src)
    BY <1>3 DEF WriteFails, Copy, CopyBreaks, Completes, CanCopy
  <2> QED
    BY <2>1, NextStaysIn DEF ChainsIn, InChain
<1>4. CASE CopyAcross(w)
  <2> DEFINE j == [job[w] EXCEPT !.pc = "remove"]
  <2>1. j.cur = src /\ j.dest = p
    BY <1>1 DEF JobType
  <2>2. job[w].pc = "write" /\ JobIs(w, j)
    BY <1>4 DEF CopyAcross, Completes, CanCopy
  <2>3. src \in G /\ p \in G
    BY <2>2 DEF ChainsIn, InChain
  <2> HIDE DEF j
  <2> QED
    BY <2>1, <2>2, <2>3, JobStaysIn
<1>5. CASE RemoveSource(w)
  <2>1. job[w].pc = "remove" /\ Follow(w, p)
    BY <1>5 DEF RemoveSource
  <2> QED
    BY <2>1, FollowStaysIn DEF ChainsIn, InChain
<1>6. CASE Discard(w) \/ Compress(w) \/ CreateFolder(w) \/ AppendLog(w) \/ Touch(w)
  <2>1. job[w].pc = "action" /\ NextAction(w, src)
    BY <1>6 DEF Discard, Compress, CreateFolder, AppendLog, Touch, Acting
  <2> QED
    BY <2>1, NextStaysIn DEF ChainsIn, InChain
<1> QED
  BY <1>2, <1>3, <1>4, <1>5, <1>6

LEMMA ChainsStayIn ==
    ASSUME Inv, NEW G \in SUBSET Paths, ChainsIn(G), Starts(G), Sends(G), [Next]_vars
    PROVE  ChainsIn(G)'
<1>1. CASE UNCHANGED vars
  BY <1>1 DEF vars, ChainsIn
<1>2. CASE User
  BY <1>2 DEF User, UserCreate, UserMoveIn, UserRemove, ChainsIn
<1>3. ASSUME NEW w \in Workers, StartScan(w) \/ WorkerStep(w)
      PROVE  ChainsIn(G)'
  BY <1>3, PickStaysIn, MatchStaysIn, ResolveStaysIn, ActStaysIn DEF WorkerStep, FileStep
<1> QED
  BY <1>1, <1>2, <1>3 DEF Next
-----------------------------------------------------------------------------
(* The rules match files only: by the names in F, which no folder has, and
   which they render again. *)
PlainRules(F) ==
    /\ F \subseteq Names
    /\ \A d \in Dirs, n \in F : n \notin Range(d)
    /\ \A n \in F : Range(Suffixed[n]) \subseteq F
    /\ \A i \in DOMAIN Rules :
          /\ \A m \in Rules[i].match : m[1] \in F
          /\ \A k \in DOMAIN Rules[i].actions, n \in F : Rules[i].actions[k].to[n] \in F

PlainPaths(F) == {p \in Paths : p.name \in F}

(* Nothing is below a path with such a name. *)
LEMMA NothingBelow ==
    ASSUME NEW F, PlainRules(F), NEW p \in PlainPaths(F), NEW d \in Dirs
    PROVE  ~IsPrefix(FullPath(p), d)
<1>1. p \in Paths /\ p.name \notin Range(d)
  BY DEF PlainPaths, PlainRules
<1>2. /\ FullPath(p) \in Seq(Components) /\ Len(FullPath(p)) = Len(p.dir) + 1
      /\ Len(p.dir) \in Nat /\ p.dir \in Seq(Components)
  BY <1>1, PathSeq
<1>3. d \in Seq(Components)
  <2>1. [dir |-> d, name |-> p.name] \in Paths
    BY <1>1 DEF Paths
  <2>2. [dir |-> d, name |-> p.name].dir \in Seq(Components)
    BY <2>1, PathSeq
  <2> QED
    BY <2>2
<1>4. SUFFICES ASSUME IsPrefix(FullPath(p), d) PROVE FALSE
  OBVIOUS
<1>5. /\ Len(FullPath(p)) <= Len(d)
      /\ \A i \in 1..Len(FullPath(p)) : FullPath(p)[i] = d[i]
  BY <1>2, <1>3, <1>4, Prefix
<1> DEFINE n == Len(p.dir) + 1
<1>6. n \in 1..Len(FullPath(p)) /\ n \in DOMAIN d
  BY <1>2, <1>3, <1>5
<1>7. FullPath(p)[n] = p.name
  BY <1>2 DEF FullPath
<1>8. d[n] = p.name
  BY <1>5, <1>6, <1>7
<1> HIDE DEF n
<1> QED
  BY <1>1, <1>6, <1>8 DEF Range

LEMMA PlainFile ==
    ASSUME TypeOK, NEW F, PlainRules(F), NEW p \in PlainPaths(F)
    PROVE  /\ p \in Paths
           /\ \A q \in Paths : Under(p, q) <=> q = p
           /\ ~IsFolder(p) /\ Folders(p) = {} /\ (Exists(p) <=> IsFile(p))
           /\ Files(p) = IF IsFile(p) THEN {p} ELSE {}
<1>1. p \in Paths
  BY DEF PlainPaths
<1>2. \A d \in Dirs : ~IsPrefix(FullPath(p), d)
  BY NothingBelow
<1>3. \A q \in Paths : Under(p, q) <=> q = p
  <2>1. \A q \in Paths : q.dir \in Dirs
    BY DEF Paths
  <2> QED
    BY <1>2, <2>1 DEF Under
<1>4. dirs \subseteq Dirs
  BY DEF TypeOK
<1>5. IsPrefix(FullPath(p), FullPath(p))
  <2>1. FullPath(p) \in Seq(Components)
    BY <1>1, PathSeq
  <2> QED
    BY <2>1, Prefix
<1>6. ~IsFolder(p) /\ Folders(p) = {}
  BY <1>2, <1>4, <1>5 DEF IsFolder, Folders
<1>7. Files(p) = IF IsFile(p) THEN {p} ELSE {}
  BY <1>1, <1>3 DEF Files, OnDisk
<1> QED
  BY <1>1, <1>3, <1>6, <1>7 DEF Exists

LEMMA PlainStarts ==
    ASSUME Inv, NEW F, PlainRules(F)
    PROVE  Starts(PlainPaths(F))
<1> SUFFICES ASSUME NEW w \in Workers, job[w].rule \in DOMAIN task[w].rules, Applies(w)
             PROVE  job[w].path \in PlainPaths(F)
  BY DEF Starts
<1>1. job[w].path \in Paths
  BY DEF Inv, TypeOK, JobType
<1>2. PICK i \in DOMAIN Rules : RuleOf(w) = Rules[i]
  BY RuleOfType DEF Inv, RuleOf
<1>3. <<job[w].path.name, job[w].kind>> \in Rules[i].match
  BY <1>2 DEF Applies
<1>4. <<job[w].path.name, job[w].kind>>[1] \in F
  BY <1>3 DEF PlainRules
<1> QED
  BY <1>1, <1>4 DEF PlainPaths

LEMMA PlainDestination ==
    ASSUME Inv, NEW F, PlainRules(F), ChainsIn(PlainPaths(F)), NEW w \in Workers,
           job[w].pc \in InChain, job[w].act \in DOMAIN RuleOf(w).actions
    PROVE  Destination(ActionOf(w), job[w].cur) \in PlainPaths(F)
<1>1. /\ TypeOK /\ job[w].rule \in DOMAIN task[w].rules
      /\ job[w].cur \in Paths /\ job[w].cur.name \in F
  BY DEF Inv, JobsInStep, InChain, ChainsIn, PlainPaths
<1>2. PICK i \in DOMAIN Rules : RuleOf(w) = Rules[i]
  BY <1>1, RuleOfType DEF RuleOf
<1>3. ActionOf(w).to[job[w].cur.name] \in F
  BY <1>1, <1>2 DEF PlainRules, ActionOf
<1>4. Destination(ActionOf(w), job[w].cur) \in Paths
  BY <1>1, ActionOfType, DestinationType
<1>5. Destination(ActionOf(w), job[w].cur).name = ActionOf(w).to[job[w].cur.name]
  BY DEF Destination
<1> QED
  BY <1>3, <1>4, <1>5 DEF PlainPaths

LEMMA PlainSends ==
    ASSUME Inv, NEW F, PlainRules(F), ChainsIn(PlainPaths(F))
    PROVE  Sends(PlainPaths(F))
<1>1. ASSUME NEW w \in Workers, Acting(w, {"move", "copy", "rename"})
      PROVE  Destination(ActionOf(w), job[w].cur) \in PlainPaths(F)
  BY <1>1, PlainDestination DEF Acting, InChain
<1>2. ASSUME NEW p \in PlainPaths(F), NEW q \in Paths, UniquePath(p, q)
      PROVE  q \in PlainPaths(F)
  <2>1. p \in Paths /\ p.name \in F
    BY DEF PlainPaths
  <2>2. PICK k \in DOMAIN Suffixed[p.name] : q = [p EXCEPT !.name = Suffixed[p.name][k]]
    BY <1>2 DEF UniquePath
  <2>3. Suffixed[p.name][k] \in F
    BY <2>1 DEF PlainRules, Range
  <2>4. q.name = Suffixed[p.name][k]
    BY <2>1, <2>2 DEF Paths
  <2> QED
    BY <2>3, <2>4 DEF PlainPaths
<1> QED
  BY <1>1, <1>2 DEF Sends
-----------------------------------------------------------------------------
(* What the writes do to such files. *)

LEMMA PlainCopy ==
    ASSUME Inv, NEW F, PlainRules(F), NEW w \in Workers,
           job[w].cur \in PlainPaths(F), job[w].dest \in PlainPaths(F),
           CanCopy(w), NEW whole \in SUBSET Files(job[w].cur),
           NEW cut \in SUBSET Files(job[w].cur), NEW below,
           CopyContent(w, whole, cut, below)
    PROVE  LET src == job[w].cur
               p   == job[w].dest
           IN  /\ IsFile(src) /\ fs[src] \in SUBSET Data
               /\ UNCHANGED <<trash, arrived>> /\ forfeit \subseteq forfeit'
               /\ \/ UNCHANGED fs
                  \/ /\ \E c \in SUBSET Data : fs' = [fs EXCEPT ![p] = c]
                     /\ ActionOf(w).on_conflict = "overwrite" /\ p # src /\ IsFile(p)
                            => fs[p] \subseteq forfeit'
               /\ whole = {src} /\ cut = {} => fs' = [fs EXCEPT ![p] = fs[src]]
<1> DEFINE src == job[w].cur
           p   == job[w].dest
           To(S) == {Image(src, p, q) : q \in S}
<1>1. TypeOK
  BY DEF Inv
<1>2. /\ src \in Paths /\ p \in Paths /\ ~IsFolder(src)
      /\ Files(src) = IF IsFile(src) THEN {src} ELSE {}
  BY <1>1, PlainFile
<1>3. IsFile(src)
  BY <1>2 DEF CanCopy
<1>4. fs[src] \in SUBSET Data /\ fs \in [Paths -> Contents]
  BY <1>1, <1>2, <1>3, DataType DEF TypeOK
<1>5. /\ fs' = [q \in Paths |-> IF q \in To(cut) THEN {}
                                ELSE IF q \in To(whole) THEN fs[Image(p, src, q)]
                                ELSE fs[q]]
      /\ forfeit' = forfeit \cup Replaced(w, whole \cup cut)
      /\ UNCHANGED <<trash, arrived>>
  BY DEF CopyContent
<1>6. Image(src, p, src) = p /\ Image(p, src, p) = src
  BY DEF Image
<1> HIDE DEF src, p
<1>7. To({}) = {} /\ To({src}) = {p}
  BY <1>6
<1>8. whole \in {{}, {src}} /\ cut \in {{}, {src}}
  BY <1>2, <1>3 DEF src
<1> HIDE DEF To
<1>9. cut = {src} => fs' = [fs EXCEPT ![p] = {}]
  <2>1. \A q \in To(whole) : q = p
    BY <1>7, <1>8
  <2> QED
    BY <1>2, <1>4, <1>5, <1>7, <2>1
<1>10. cut = {} /\ whole = {src} => fs' = [fs EXCEPT ![p] = fs[src]]
  BY <1>2, <1>4, <1>5, <1>6, <1>7
<1>11. cut = {} /\ whole = {} => UNCHANGED fs
  BY <1>4, <1>5, <1>7
<1>12. ASSUME whole \cup cut = {src}, ActionOf(w).on_conflict = "overwrite", p # src,
              IsFile(p)
       PROVE  fs[p] \subseteq forfeit'
  <2>1. p \in OnDisk \cap To(whole \cup cut)
    BY <1>2, <1>7, <1>12 DEF OnDisk
  <2>2. fs[p] \subseteq Replaced(w, whole \cup cut)
    BY <1>12, <2>1 DEF Replaced, To, src, p
  <2> QED
    BY <1>5, <2>2
<1>13. \/ UNCHANGED fs
       \/ whole \cup cut = {src} /\ \E c \in SUBSET Data : fs' = [fs EXCEPT ![p] = c]
  <2>1. CASE cut = {src}
    BY <1>8, <1>9, <2>1
  <2>2. CASE cut = {} /\ whole = {src}
    BY <1>4, <1>10, <2>2
  <2>3. CASE cut = {} /\ whole = {}
    BY <1>11, <2>3
  <2> QED
    BY <1>8, <2>1, <2>2, <2>3
<1> QED
  BY <1>3, <1>4, <1>5, <1>10, <1>12, <1>13 DEF src, p

LEMMA PlainRename ==
    ASSUME Inv, NEW F, PlainRules(F), NEW w \in Workers,
           job[w].cur \in PlainPaths(F), job[w].dest \in PlainPaths(F), Rename(w)
    PROVE  LET src == job[w].cur
               p   == job[w].dest
           IN  /\ IsFile(src) /\ UNCHANGED <<trash, arrived>> /\ forfeit \subseteq forfeit'
               /\ fs' = [fs EXCEPT ![src] = Absent, ![p] = fs[src]]
               /\ ActionOf(w).on_conflict = "overwrite" /\ p # src /\ IsFile(p)
                      => fs[p] \subseteq forfeit'
<1> DEFINE src == job[w].cur
           p   == job[w].dest
<1>1. TypeOK /\ fs \in [Paths -> Contents]
  BY DEF Inv, TypeOK
<1>2. /\ src \in Paths /\ p \in Paths /\ ~IsFolder(src) /\ (Exists(src) <=> IsFile(src))
      /\ Files(src) = IF IsFile(src) THEN {src} ELSE {}
      /\ \A q \in Paths : Under(p, q) <=> q = p
  BY <1>1, PlainFile
<1>3. /\ CanRename(src, p) /\ fs' = Renamed(src, p)
      /\ forfeit' = forfeit \cup Replaced(w, Files(src))
      /\ UNCHANGED <<trash, arrived>>
  BY DEF Rename
<1>4. IsFile(src) /\ Files(src) = {src}
  BY <1>2, <1>3 DEF CanRename
<1>5. Image(src, p, src) = p /\ Image(p, src, p) = src
  BY DEF Image
<1> HIDE DEF src, p
<1>6. fs' = [fs EXCEPT ![src] = Absent, ![p] = fs[src]]
  BY <1>1, <1>2, <1>3, <1>4, <1>5 DEF Renamed
<1>7. ASSUME ActionOf(w).on_conflict = "overwrite", p # src, IsFile(p)
      PROVE  fs[p] \subseteq forfeit'
  <2>1. p \in OnDisk \cap {Image(src, p, r) : r \in Files(src)}
    BY <1>2, <1>4, <1>5, <1>7 DEF OnDisk
  <2>2. fs[p] \subseteq Replaced(w, Files(src))
    BY <1>7, <2>1 DEF Replaced, src, p
  <2> QED
    BY <1>3, <2>2
<1> QED
  BY <1>3, <1>4, <1>6, <1>7 DEF src, p

LEMMA PlainRemove ==
    ASSUME Inv, NEW F, PlainRules(F), NEW src \in PlainPaths(F), NEW b,
           RemovePath(src, b)
    PROVE  /\ UNCHANGED fs \/ fs' = [fs EXCEPT ![src] = Absent]
           /\ UNCHANGED dirs
<1>1. TypeOK /\ fs \in [Paths -> Contents]
  BY DEF Inv, TypeOK
<1>2. /\ src \in Paths /\ Folders(src) = {}
      /\ Files(src) = IF IsFile(src) THEN {src} ELSE {}
  BY <1>1, PlainFile
<1>3. PICK gone \in SUBSET Files(src) :
          /\ fs' = Without(gone)
          /\ dirs' = IF gone = Files(src) THEN dirs \ Folders(src) ELSE dirs
  BY DEF RemovePath
<1>4. gone = {} => UNCHANGED fs
  BY <1>1, <1>3 DEF Without
<1>5. gone = {src} => fs' = [fs EXCEPT ![src] = Absent]
  BY <1>1, <1>2, <1>3 DEF Without
<1> QED
  BY <1>2, <1>3, <1>4, <1>5
-----------------------------------------------------------------------------
(* One worker loses nothing. *)

OneWorker  == \A v, w \in Workers : v = w
Arrivals   == Inbox \cup MovedIn
UsersApart == Arrivals \cap Taken = {}

(* Where an action may put a file. *)
Places(a) ==
    {q \in Paths : /\ a.here \/ q.dir = a.dir
                   /\ \E n \in Names : \/ q.name = a.to[n]
                                       \/ \E k \in DOMAIN Suffixed[a.to[n]] :
                                             q.name = Suffixed[a.to[n]][k]}
Careful(a) ==
    /\ a.type \notin {"delete", "compress"}
    /\ a.type = "copy" /\ a.on_conflict = "overwrite" =>
          \A p \in Paths : Destination(a, p) # p
    /\ a.type \in {"move", "copy", "rename"} /\ a.on_conflict # "overwrite" =>
          Places(a) \cap Arrivals = {}
CarefulRules ==
    \A i \in DOMAIN Rules : \A k \in DOMAIN Rules[i].actions : Careful(Rules[i].actions[k])

(* A write aims at a free place, or may overwrite. *)
AimOf(a, p, q) ==
    IF a.on_conflict = "overwrite"
    THEN a.type = "copy" => q # p
    ELSE q \notin Arrivals /\ (IsFile(q) => a.type = "rename" /\ q = p)
Aims == \A w \in Workers :
    job[w].pc = "write" => AimOf(ActionOf(w), job[w].cur, job[w].dest)

(* What is left of the source of a move was copied. *)
Copied(p, q) ==
    /\ p # q
    /\ p \in Arrivals => IsFile(p)
    /\ IsFile(p) => \A x \in fs[p] : x \in forfeit \/ (IsFile(q) /\ x \in fs[q])
Halfway == \A w \in Workers : job[w].pc = "remove" => Copied(job[w].cur, job[w].dest)

SafeInv == Inv /\ NoLoss /\ Aims /\ Halfway
-----------------------------------------------------------------------------
Somewhere(x) == \/ x \in trash \cup forfeit
                \/ \E p \in Paths : IsFile(p) /\ x \in fs[p]

LEMMA NothingGone == NoLoss <=> \A x \in arrived : Somewhere(x)
BY DEF NoLoss, Kept, OnDisk, Somewhere

(* Nothing is lost in a step that keeps what is in each file somewhere. *)
LEMMA KeepStep ==
    ASSUME NoLoss, UNCHANGED arrived, trash \subseteq trash', forfeit \subseteq forfeit',
           \A p \in Paths : IsFile(p) => \A x \in fs[p] : Somewhere(x)'
    PROVE  NoLoss'
<1> SUFFICES ASSUME NEW x \in arrived PROVE Somewhere(x)'
  BY DEF NoLoss, Kept, OnDisk, Somewhere
<1>1. Somewhere(x)
  BY NothingGone
<1> QED
  BY <1>1 DEF Somewhere

(* With one worker, only its own place matters. *)
LEMMA OnlyWorker ==
    ASSUME OneWorker, NEW w \in Workers
    PROVE  /\ (job'[w].pc = "write" => AimOf(ActionOf(w), job[w].cur, job[w].dest)') => Aims'
           /\ (job'[w].pc = "remove" => Copied(job[w].cur, job[w].dest)') => Halfway'
<1>1. \A v \in Workers : v = w
  BY DEF OneWorker
<1> QED
  BY <1>1 DEF Aims, Halfway

LEMMA Elsewhere ==
    ASSUME OneWorker, NEW w \in Workers, job'[w].pc \notin {"write", "remove"}
    PROVE  Aims' /\ Halfway'
BY OnlyWorker

LEMMA InChainCareful ==
    ASSUME Inv, CarefulRules, NEW w \in Workers,
           job[w].pc \in {"action", "write", "remove"},
           job[w].act \in DOMAIN RuleOf(w).actions
    PROVE  ActionOf(w) \in Action /\ Careful(ActionOf(w))
<1>1. TypeOK /\ job[w].rule \in DOMAIN task[w].rules
  BY DEF Inv, JobsInStep
<1>2. task[w].rules[job[w].rule] \in DOMAIN Rules
  BY <1>1, RuleOfType
<1> QED
  BY <1>1, <1>2, ActionOfType DEF CarefulRules, RuleOf, ActionOf

(* The worker is at a job of its own. *)
LEMMA Moved ==
    ASSUME Inv, NEW w \in Workers, NEW p, NextAction(w, p)
    PROVE  job'[w].pc = "action"
<1>1. job \in [Workers -> JobType]
  BY DEF Inv, TypeOK
<1> QED
  BY <1>1 DEF NextAction, JobIs, JobType
-----------------------------------------------------------------------------
(* Users. *)

LEMMA UserSafe ==
    ASSUME SafeInv, Inv', OneWorker, UsersApart, User
    PROVE  SafeInv'
<1>1. /\ fs \in [Paths -> Contents] /\ UNCHANGED <<trash, task, job>>
      /\ \A w \in Workers : job[w].cur \in Paths /\ job[w].dest \in Paths
  BY DEF User, UserCreate, UserMoveIn, UserRemove, SafeInv, Inv, TypeOK, JobType
<1>2. CASE UserCreate \/ UserMoveIn
  <2>1. PICK p \in Arrivals, d \in Data \ arrived :
            /\ ~IsFile(p) /\ fs' = [fs EXCEPT ![p] = {d}]
            /\ arrived' = arrived \cup {d} /\ UNCHANGED forfeit
    BY <1>2 DEF UserCreate, UserMoveIn, Arrivals, Exists
  <2>2. p \in Paths /\ {d} # Absent
    BY DiskAssumption DEF Arrivals
  <2>3. /\ fs'[p] = {d} /\ \A q \in Paths \ {p} : fs'[q] = fs[q]
        /\ IsFile(p)' /\ \A q \in Paths \ {p} : IsFile(q)' <=> IsFile(q)
    BY <1>1, <2>1, <2>2 DEF IsFile
  <2>4. NoLoss'
    <3>1. \A x \in arrived : Somewhere(x)'
      BY <1>1, <2>1, <2>3, NothingGone DEF SafeInv, Somewhere
    <3>2. Somewhere(d)'
      BY <2>2, <2>3 DEF Somewhere
    <3>3. \A x \in arrived' : Somewhere(x)'
      BY <2>1, <3>1, <3>2
    <3> QED
      BY <3>3 DEF NoLoss, Kept, OnDisk, Somewhere
  <2>5. Aims'
    <3> SUFFICES ASSUME NEW w \in Workers, job[w].pc = "write"
                 PROVE  AimOf(ActionOf(w), job[w].cur, job[w].dest)'
      BY <1>1 DEF Aims
    <3>1. AimOf(ActionOf(w), job[w].cur, job[w].dest)
      BY DEF SafeInv, Aims
    <3>2. ActionOf(w)' = ActionOf(w)
      BY <1>1 DEF ActionOf, RuleOf
    <3> QED
      BY <1>1, <2>1, <2>3, <3>1, <3>2 DEF AimOf
  <2>6. Halfway'
    <3> SUFFICES ASSUME NEW w \in Workers, job[w].pc = "remove"
                 PROVE  Copied(job[w].cur, job[w].dest)'
      BY <1>1 DEF Halfway
    <3>1. Copied(job[w].cur, job[w].dest)
      BY DEF SafeInv, Halfway
    <3>2. job[w].cur # p
      BY <2>1, <3>1 DEF Copied
    <3> QED
      BY <1>1, <2>1, <2>3, <3>1, <3>2 DEF Copied
  <2> QED
    BY <2>4, <2>5, <2>6 DEF SafeInv
<1>3. CASE UserRemove
  <2>1. PICK p \in Taken : /\ IsFile(p) /\ fs' = [fs EXCEPT ![p] = Absent]
                           /\ forfeit' = forfeit \cup fs[p] /\ UNCHANGED arrived
    BY <1>3 DEF UserRemove
  <2>2. p \in Paths /\ p \notin Arrivals
    BY DiskAssumption DEF UsersApart
  <2>3. ~IsFile(p)' /\ \A q \in Paths \ {p} : fs'[q] = fs[q] /\ (IsFile(q)' <=> IsFile(q))
    BY <1>1, <2>1, <2>2 DEF IsFile
  <2>4. NoLoss'
    <3>1. \A q \in Paths : IsFile(q) => \A x \in fs[q] : Somewhere(x)'
      BY <2>1, <2>3 DEF Somewhere
    <3> QED
      BY <1>1, <2>1, <3>1, KeepStep DEF SafeInv
  <2>5. Aims'
    <3> SUFFICES ASSUME NEW w \in Workers, job[w].pc = "write"
                 PROVE  AimOf(ActionOf(w), job[w].cur, job[w].dest)'
      BY <1>1 DEF Aims
    <3>1. AimOf(ActionOf(w), job[w].cur, job[w].dest)
      BY DEF SafeInv, Aims
    <3>2. ActionOf(w)' = ActionOf(w)
      BY <1>1 DEF ActionOf, RuleOf
    <3> QED
      BY <1>1, <2>3, <3>1, <3>2 DEF AimOf
  <2>6. Halfway'
    <3> SUFFICES ASSUME NEW w \in Workers, job[w].pc = "remove"
                 PROVE  Copied(job[w].cur, job[w].dest)'
      BY <1>1 DEF Halfway
    <3>1. Copied(job[w].cur, job[w].dest)
      BY DEF SafeInv, Halfway
    <3> QED
      BY <1>1, <2>1, <2>2, <2>3, <3>1 DEF Copied
  <2> QED
    BY <2>4, <2>5, <2>6 DEF SafeInv
<1> QED
  BY <1>2, <1>3 DEF User
-----------------------------------------------------------------------------
(* Steps that change no file. *)

LEMMA CalmSafe ==
    ASSUME SafeInv, Inv', OneWorker, NEW w \in Workers,
           UNCHANGED <<fs, trash, forfeit, arrived>>,
           job'[w].pc \notin {"write", "remove"}
    PROVE  SafeInv'
<1>1. NoLoss'
  BY DEF SafeInv, NoLoss, Kept, OnDisk, IsFile
<1> QED
  BY <1>1, Elsewhere DEF SafeInv

LEMMA PickSafe ==
    ASSUME SafeInv, Inv', OneWorker, NEW w \in Workers,
           StartScan(w) \/ TakeEvent(w) \/ ListFolder(w) \/ TakeFile(w)
    PROVE  SafeInv'
<1>1. job \in [Workers -> JobType] /\ job[w].pc = "idle"
  BY DEF SafeInv, Inv, TypeOK, StartScan, TakeEvent, ListFolder, TakeFile, Idle
<1>2. UNCHANGED <<fs, trash, forfeit, arrived>>
  BY DEF StartScan, TakeEvent, ListFolder, TakeFile, disk
<1>3. ASSUME NEW p, StartFile(w, p)
      PROVE  job'[w].pc \in {"idle", "rules"}
  <2>1. Started(p).pc = "rules"
    BY DEF Started, IdleJob
  <2> QED
    BY <1>1, <1>3, <2>1 DEF StartFile, JobIs, Started
<1>4. CASE StartScan(w) \/ ListFolder(w)
  BY <1>1, <1>2, <1>4, CalmSafe DEF StartScan, ListFolder
<1>5. CASE TakeEvent(w) \/ TakeFile(w)
  <2>1. job'[w].pc \in {"idle", "rules"}
    BY <1>1, <1>3, <1>5 DEF TakeEvent, TakeFile
  <2> QED
    BY <1>2, <2>1, CalmSafe
<1> QED
  BY <1>4, <1>5

LEMMA MatchSafe ==
    ASSUME SafeInv, Inv', OneWorker, NEW w \in Workers,
           TryRule(w) \/ NoRuleLeft(w) \/ EndChain(w) \/ Touch(w) \/ CreateFolder(w)
           \/ WriteFails(w)
    PROVE  SafeInv'
<1>1. job \in [Workers -> JobType] /\ Inv
  BY DEF SafeInv, Inv, TypeOK
<1>2. UNCHANGED <<fs, trash, forfeit, arrived>>
  BY DEF TryRule, NoRuleLeft, EndChain, Touch, CreateFolder, WriteFails, disk
<1>3. CASE Touch(w) \/ CreateFolder(w) \/ WriteFails(w)
  <2>1. job'[w].pc = "action"
    BY <1>1, <1>3, Moved DEF Touch, CreateFolder, WriteFails
  <2> QED
    BY <1>2, <2>1, CalmSafe
<1>4. CASE TryRule(w) \/ NoRuleLeft(w) \/ EndChain(w)
  <2>1. job'[w].pc \in {"idle", "rules", "action"}
    <3>1. IdleJob.pc = "idle"
      BY DEF IdleJob
    <3>2. CASE TryRule(w)
      <4>1. DOMAIN job[w] = DOMAIN IdleJob /\ job[w].pc = "rules"
        BY <1>1, <3>2 DEF TryRule, JobType, IdleJob
      <4>2. CASE Applies(w)
        <5>1. job'[w] = [job[w] EXCEPT !.pc = "action", !.act = 1, !.cur = job[w].path,
                            !.acted = Append(job[w].acted, task[w].rules[job[w].rule])]
          BY <1>1, <3>2, <4>2 DEF TryRule, JobIs
        <5> QED
          BY <4>1, <5>1 DEF IdleJob
      <4>3. CASE ~Applies(w)
        <5>1. job'[w] = [job[w] EXCEPT !.rule = job[w].rule + 1]
          BY <1>1, <3>2, <4>3 DEF TryRule, JobIs
        <5> QED
          BY <4>1, <5>1 DEF IdleJob
      <4> QED
        BY <4>2, <4>3
    <3>3. CASE NoRuleLeft(w) \/ EndChain(w)
      <4>1. DOMAIN job[w] = DOMAIN IdleJob
        BY <1>1 DEF JobType, IdleJob
      <4>2. \/ job'[w] = IdleJob
            \/ job'[w] = [job[w] EXCEPT !.pc = "rules", !.rule = job[w].rule + 1]
        BY <1>1, <3>3 DEF NoRuleLeft, EndChain, JobIs
      <4> QED
        BY <3>1, <4>1, <4>2 DEF IdleJob
    <3> QED
      BY <1>4, <3>2, <3>3
  <2> QED
    BY <1>2, <2>1, CalmSafe
<1> QED
  BY <1>3, <1>4

(* The choice of a place. *)
LEMMA ResolveSafe ==
    ASSUME SafeInv, Inv', OneWorker, CarefulRules, NEW w \in Workers, Resolve(w)
    PROVE  SafeInv'
<1> DEFINE a == ActionOf(w)
           src == job[w].cur
           p == Destination(a, src)
<1>1. /\ job \in [Workers -> JobType] /\ Inv /\ src \in Paths
      /\ UNCHANGED <<fs, trash, forfeit, arrived, task>>
  BY DEF SafeInv, Inv, TypeOK, JobType, Resolve, disk
<1>2. a \in Action /\ Careful(a) /\ a.type \in {"move", "copy", "rename"}
  BY <1>1, InChainCareful DEF Resolve, Acting
<1>3. p \in Paths /\ p.name = a.to[src.name] /\ src.name \in Names /\ p.name \in Names
      /\ (a.here \/ p.dir = a.dir)
  BY <1>1, <1>2, DestinationType DEF Destination, Paths, Action
<1>4. ASSUME NEW q \in Paths, Choose(w, q), AimOf(a, src, q)
      PROVE  SafeInv'
  <2>1. CASE w \in DryWorkers
    <3>1. job'[w].pc = "action"
      BY <1>1, <1>4, <2>1, Moved DEF Choose, Follow
    <3> QED
      BY <1>1, <3>1, CalmSafe
  <2>2. CASE w \notin DryWorkers
    <3>1. job'[w] = [job[w] EXCEPT !.pc = "write", !.dest = q]
      BY <1>1, <1>4, <2>2 DEF Choose, JobIs
    <3>2. /\ job'[w].pc = "write" /\ job'[w].cur = src /\ job'[w].dest = q
          /\ job'[w].rule = job[w].rule /\ job'[w].act = job[w].act
      BY <1>1, <3>1 DEF JobType
    <3>3. ActionOf(w)' = a
      BY <1>1, <3>2 DEF ActionOf, RuleOf
    <3>4. AimOf(ActionOf(w), job[w].cur, job[w].dest)'
      BY <1>1, <1>4, <3>2, <3>3 DEF AimOf, IsFile
    <3>5. NoLoss'
      BY <1>1 DEF SafeInv, NoLoss, Kept, OnDisk, IsFile
    <3> QED
      BY <3>2, <3>4, <3>5, OnlyWorker DEF SafeInv
  <2> QED
    BY <2>1, <2>2
<1>5. ASSUME Follow(w, p)
      PROVE  SafeInv'
  <2>1. job'[w].pc = "action"
    BY <1>1, <1>5, Moved DEF Follow
  <2> QED
    BY <1>1, <2>1, CalmSafe
<1>6. p \in Places(a)
  BY <1>1, <1>3 DEF Places
<1>7. ASSUME ~(Exists(p) /\ ~(a.type = "rename" /\ p = src))
      PROVE  AimOf(a, src, p)
  BY <1>1, <1>2, <1>3, <1>6, <1>7 DEF AimOf, Careful, Exists
<1>8. ASSUME a.on_conflict = "overwrite"
      PROVE  AimOf(a, src, p)
  BY <1>1, <1>2, <1>8 DEF AimOf, Careful
<1>9. ASSUME a.on_conflict = "rename", NEW q \in Paths, UniquePath(p, q)
      PROVE  AimOf(a, src, q)
  <2>1. PICK k \in DOMAIN Suffixed[p.name] :
            q = [p EXCEPT !.name = Suffixed[p.name][k]] /\ ~IsFile(q)
    BY <1>9 DEF UniquePath, Exists
  <2>2. q.name = Suffixed[p.name][k] /\ q.dir = p.dir
    BY <1>3, <2>1 DEF Paths
  <2>3. q \in Places(a)
    BY <1>3, <2>2 DEF Places
  <2> QED
    BY <1>2, <1>9, <2>1, <2>3 DEF AimOf, Careful
<1>10. \/ Choose(w, p) /\ ~(Exists(p) /\ ~(a.type = "rename" /\ p = src))
       \/ Choose(w, p) /\ a.on_conflict = "overwrite"
       \/ Follow(w, p)
       \/ a.on_conflict = "rename" /\ \E q \in Paths : UniquePath(p, q) /\ Choose(w, q)
       \/ NextAction(w, src)
  BY DEF Resolve, ChooseFree
<1>11. NextAction(w, src) => SafeInv'
  <2>1. NextAction(w, src) => job'[w].pc = "action"
    BY <1>1, Moved
  <2> QED
    BY <1>1, <2>1, CalmSafe
<1> HIDE DEF a, src, p
<1> QED
  BY <1>3, <1>4, <1>5, <1>7, <1>8, <1>9, <1>10, <1>11
-----------------------------------------------------------------------------
(* Writes. *)

(* What is known of a worker that writes. *)
LEMMA AtWrite ==
    ASSUME SafeInv, CarefulRules, NEW w \in Workers, job[w].pc = "write"
    PROVE  /\ fs \in [Paths -> Contents] /\ job \in [Workers -> JobType]
           /\ job[w].cur \in Paths /\ job[w].dest \in Paths
           /\ ActionOf(w) \in Action /\ Careful(ActionOf(w))
           /\ ActionOf(w).type \in {"move", "copy", "rename"}
           /\ AimOf(ActionOf(w), job[w].cur, job[w].dest)
<1>1. Inv /\ JobsInStep /\ Aims
  BY DEF SafeInv, Inv
<1>2. /\ fs \in [Paths -> Contents] /\ job \in [Workers -> JobType]
      /\ job[w].cur \in Paths /\ job[w].dest \in Paths
  BY <1>1 DEF Inv, TypeOK, JobType
<1>3. /\ job[w].act \in DOMAIN RuleOf(w).actions
      /\ ActionOf(w).type \in {"move", "copy", "rename"}
  BY <1>1 DEF JobsInStep
<1>4. ActionOf(w) \in Action /\ Careful(ActionOf(w))
  BY <1>1, <1>3, InChainCareful
<1>5. AimOf(ActionOf(w), job[w].cur, job[w].dest)
  BY <1>1 DEF Aims
<1> QED
  BY <1>2, <1>3, <1>4, <1>5

(* A file that is replaced is given up, if it is another than the source. *)
LEMMA ReplaceSafe ==
    ASSUME SafeInv, NEW w \in Workers, AimOf(ActionOf(w), job[w].cur, job[w].dest),
           job[w].cur # job[w].dest, UNCHANGED <<trash, arrived>>,
           forfeit \subseteq forfeit',
           ActionOf(w).on_conflict = "overwrite" /\ IsFile(job[w].dest)
               => fs[job[w].dest] \subseteq forfeit',
           NEW c, fs' = [fs EXCEPT ![job[w].dest] = c]
    PROVE  NoLoss'
<1> DEFINE p == job[w].dest
<1>1. fs \in [Paths -> Contents] /\ p \in Paths /\ job[w].cur \in Paths
  BY DEF SafeInv, Inv, TypeOK, JobType
<1>2. \A q \in Paths \ {p} : fs'[q] = fs[q]
  BY <1>1
<1>3. IsFile(p) => fs[p] \subseteq forfeit'
  BY DEF AimOf
<1>4. \A q \in Paths : IsFile(q) => \A x \in fs[q] : Somewhere(x)'
  <2> SUFFICES ASSUME NEW q \in Paths, IsFile(q), NEW x \in fs[q]
               PROVE  Somewhere(x)'
    OBVIOUS
  <2>1. CASE q = p
    BY <1>3, <2>1 DEF Somewhere
  <2>2. CASE q # p
    <3>1. fs'[q] = fs[q]
      BY <1>2, <2>2
    <3> QED
      BY <3>1 DEF Somewhere, IsFile
  <2> QED
    BY <2>1, <2>2
<1> QED
  BY <1>4, KeepStep DEF SafeInv

(* What is known of a copy: it is of a file, and not onto itself. *)
LEMMA CopyAims ==
    ASSUME SafeInv, CarefulRules, NEW F, PlainRules(F), ChainsIn(PlainPaths(F)),
           NEW w \in Workers, CanCopy(w)
    PROVE  /\ job[w].cur \in PlainPaths(F) /\ job[w].dest \in PlainPaths(F)
           /\ job[w].cur # job[w].dest
           /\ AimOf(ActionOf(w), job[w].cur, job[w].dest)
           /\ Files(job[w].cur) = {job[w].cur}
<1>1. job[w].pc = "write" /\ (ActionOf(w).type = "copy" \/ Across(w)) /\ TypeOK
  BY DEF CanCopy, SafeInv, Inv
<1>2. job[w].cur \in PlainPaths(F) /\ job[w].dest \in PlainPaths(F)
  BY <1>1 DEF ChainsIn, InChain
<1>3. AimOf(ActionOf(w), job[w].cur, job[w].dest)
  BY <1>1, AtWrite
<1>4. IsFile(job[w].cur) /\ Files(job[w].cur) = {job[w].cur}
  BY <1>1, <1>2, PlainFile DEF CanCopy
<1>5. job[w].cur # job[w].dest
  BY <1>1, <1>3, <1>4 DEF AimOf, Across
<1> QED
  BY <1>2, <1>3, <1>4, <1>5

LEMMA CopySafe ==
    ASSUME SafeInv, Inv', OneWorker, CarefulRules, NEW F, PlainRules(F),
           ChainsIn(PlainPaths(F)), NEW w \in Workers, Copy(w) \/ CopyBreaks(w)
    PROVE  SafeInv'
<1> DEFINE src == job[w].cur
           p == job[w].dest
<1>1. CanCopy(w) /\ Inv
  BY DEF Copy, CopyBreaks, Completes, SafeInv
<1>2. /\ src \in PlainPaths(F) /\ p \in PlainPaths(F) /\ src # p
      /\ AimOf(ActionOf(w), src, p) /\ Files(src) = {src}
  BY <1>1, CopyAims
<1>3. \E whole, cut \in SUBSET Files(src) : \E below :
          CopyContent(w, whole, cut, below)
  <2>1. CASE Copy(w)
    BY <2>1 DEF Copy
  <2>2. CASE CopyBreaks(w)
    <3>1. PICK whole \in SUBSET Landing(src, p) :
              \E cut \in {{}} \cup {{q} : q \in Landing(src, p) \ whole} :
                  \E below : CopyContent(w, whole, cut, below)
      BY <2>2 DEF CopyBreaks
    <3>2. PICK cut \in {{}} \cup {{q} : q \in Landing(src, p) \ whole} :
              \E below : CopyContent(w, whole, cut, below)
      BY <3>1
    <3>3. \A q \in Landing(src, p) : q \in Files(src)
      BY DEF Landing
    <3> HIDE DEF src, p
    <3>4. whole \in SUBSET Files(src) /\ cut \in SUBSET Files(src)
      BY <3>3
    <3> QED
      BY <3>2, <3>4
  <2> QED
    BY <2>1, <2>2
<1>4. PICK whole, cut \in SUBSET Files(src) :
          \E below : CopyContent(w, whole, cut, below)
  BY <1>3
<1>5. PICK below : CopyContent(w, whole, cut, below)
  BY <1>4
<1>6. /\ UNCHANGED <<trash, arrived>> /\ forfeit \subseteq forfeit'
      /\ \/ UNCHANGED fs
         \/ /\ \E c \in SUBSET Data : fs' = [fs EXCEPT ![p] = c]
            /\ ActionOf(w).on_conflict = "overwrite" /\ p # src /\ IsFile(p)
                   => fs[p] \subseteq forfeit'
  BY <1>1, <1>2, <1>5, PlainCopy
<1>7. NoLoss'
  <2>1. CASE UNCHANGED fs
    BY <1>6, <2>1 DEF SafeInv, NoLoss, Kept, OnDisk, IsFile
  <2>2. CASE ~UNCHANGED fs
    BY <1>2, <1>6, <2>2, ReplaceSafe
  <2> QED
    BY <2>1, <2>2
<1>8. job'[w].pc = "action"
  BY <1>1, Moved DEF Copy, CopyBreaks
<1> QED
  BY <1>7, <1>8, Elsewhere DEF SafeInv

LEMMA CopyAcrossSafe ==
    ASSUME SafeInv, Inv', OneWorker, CarefulRules, NEW F, PlainRules(F),
           ChainsIn(PlainPaths(F)), NEW w \in Workers, CopyAcross(w)
    PROVE  SafeInv'
<1> DEFINE src == job[w].cur
           p == job[w].dest
<1>1. CanCopy(w) /\ Inv /\ job \in [Workers -> JobType] /\ fs \in [Paths -> Contents]
  BY DEF CopyAcross, Completes, SafeInv, Inv, TypeOK
<1>2. /\ src \in PlainPaths(F) /\ p \in PlainPaths(F) /\ src # p
      /\ AimOf(ActionOf(w), src, p) /\ Files(src) = {src}
  BY <1>1, CopyAims
<1>3. CopyContent(w, Files(src), {}, Folders(src))
  BY DEF CopyAcross
<1>4. /\ IsFile(src) /\ fs[src] \in SUBSET Data
      /\ UNCHANGED <<trash, arrived>> /\ forfeit \subseteq forfeit'
      /\ \/ UNCHANGED fs
         \/ /\ \E c \in SUBSET Data : fs' = [fs EXCEPT ![p] = c]
            /\ ActionOf(w).on_conflict = "overwrite" /\ p # src /\ IsFile(p)
                   => fs[p] \subseteq forfeit'
      /\ fs' = [fs EXCEPT ![p] = fs[src]]
  BY <1>1, <1>2, <1>3, PlainCopy
<1>5. src \in Paths /\ p \in Paths
  BY <1>2 DEF PlainPaths
<1>6. fs'[p] = fs[src] /\ fs'[src] = fs[src] /\ fs[src] # Absent
  BY <1>1, <1>2, <1>4, <1>5 DEF IsFile
<1>7. NoLoss'
  <2>1. CASE UNCHANGED fs
    BY <1>4, <2>1 DEF SafeInv, NoLoss, Kept, OnDisk, IsFile
  <2>2. CASE ~UNCHANGED fs
    BY <1>2, <1>4, <2>2, ReplaceSafe
  <2> QED
    BY <2>1, <2>2
<1>8. job'[w].pc = "remove" /\ job'[w].cur = src /\ job'[w].dest = p
  BY <1>1 DEF CopyAcross, JobIs, JobType
<1>9. Copied(job[w].cur, job[w].dest)'
  BY <1>2, <1>6, <1>8 DEF Copied, IsFile
<1> QED
  BY <1>7, <1>8, <1>9, OnlyWorker DEF SafeInv

LEMMA RenameSafe ==
    ASSUME SafeInv, Inv', OneWorker, CarefulRules, NEW F, PlainRules(F),
           ChainsIn(PlainPaths(F)), NEW w \in Workers, Rename(w)
    PROVE  SafeInv'
<1> DEFINE src == job[w].cur
           p == job[w].dest
           a == ActionOf(w)
<1>1. /\ fs \in [Paths -> Contents] /\ src \in Paths /\ p \in Paths /\ Inv
      /\ AimOf(a, src, p)
  BY AtWrite DEF Rename, SafeInv
<1>2. src \in PlainPaths(F) /\ p \in PlainPaths(F)
  BY DEF Rename, ChainsIn, InChain
<1>3. /\ IsFile(src) /\ UNCHANGED <<trash, arrived>> /\ forfeit \subseteq forfeit'
      /\ fs' = [fs EXCEPT ![src] = Absent, ![p] = fs[src]]
      /\ a.on_conflict = "overwrite" /\ p # src /\ IsFile(p) => fs[p] \subseteq forfeit'
  BY <1>1, <1>2, PlainRename
<1>4. fs'[p] = fs[src] /\ fs[src] # Absent
  BY <1>1, <1>3 DEF IsFile
<1>5. \A q \in Paths \ {p, src} : fs'[q] = fs[q]
  BY <1>1, <1>3
<1>6. p # src /\ IsFile(p) => fs[p] \subseteq forfeit'
  BY <1>1, <1>3 DEF AimOf
<1>7. \A q \in Paths : IsFile(q) => \A x \in fs[q] : Somewhere(x)'
  <2> SUFFICES ASSUME NEW q \in Paths, IsFile(q), NEW x \in fs[q]
               PROVE  Somewhere(x)'
    OBVIOUS
  <2>1. CASE q = src
    BY <1>1, <1>4, <2>1 DEF Somewhere, IsFile
  <2>2. CASE q = p /\ q # src
    BY <1>6, <2>2 DEF Somewhere
  <2>3. CASE q # p /\ q # src
    <3>1. fs'[q] = fs[q]
      BY <1>5, <2>3
    <3> QED
      BY <3>1 DEF Somewhere, IsFile
  <2> QED
    BY <2>1, <2>2, <2>3
<1>8. NoLoss'
  BY <1>3, <1>7, KeepStep DEF SafeInv
<1>9. job'[w].pc = "action"
  BY <1>1, Moved DEF Rename
<1> QED
  BY <1>8, <1>9, Elsewhere DEF SafeInv

LEMMA RemoveSourceSafe ==
    ASSUME SafeInv, Inv', OneWorker, NEW F, PlainRules(F), ChainsIn(PlainPaths(F)),
           NEW w \in Workers, RemoveSource(w)
    PROVE  SafeInv'
<1> DEFINE src == job[w].cur
           p == job[w].dest
<1>1. /\ fs \in [Paths -> Contents] /\ src \in Paths /\ p \in Paths /\ Inv
      /\ Copied(src, p) /\ UNCHANGED <<trash, arrived, forfeit>>
  BY DEF SafeInv, Inv, TypeOK, JobType, Halfway, RemoveSource
<1>2. job'[w].pc = "action"
  BY <1>1, Moved DEF RemoveSource, Follow
<1>3. src \in PlainPaths(F) /\ RemovePath(src, "move" \in MayFail)
  BY DEF RemoveSource, ChainsIn, InChain
<1>4. UNCHANGED fs \/ fs' = [fs EXCEPT ![src] = Absent]
  BY <1>1, <1>3, PlainRemove
<1>5. CASE UNCHANGED fs
  BY <1>1, <1>2, <1>5, CalmSafe
<1>6. CASE fs' = [fs EXCEPT ![src] = Absent]
  <2>1. \A q \in Paths \ {src} : fs'[q] = fs[q] /\ (IsFile(q)' <=> IsFile(q))
    BY <1>1, <1>6 DEF IsFile
  <2>2. \A q \in Paths : IsFile(q) => \A x \in fs[q] : Somewhere(x)'
    BY <1>1, <2>1 DEF Somewhere, Copied
  <2>3. NoLoss'
    BY <1>1, <2>2, KeepStep DEF SafeInv
  <2> QED
    BY <1>2, <2>3, Elsewhere DEF SafeInv
<1> QED
  BY <1>4, <1>5, <1>6
-----------------------------------------------------------------------------
(* Actions of one step. *)

LEMMA DiscardSafe ==
    ASSUME SafeInv, Inv', OneWorker, CarefulRules, NEW F, PlainRules(F),
           ChainsIn(PlainPaths(F)), NEW w \in Workers, Discard(w)
    PROVE  SafeInv'
<1> DEFINE src == job[w].cur
<1>1. /\ fs \in [Paths -> Contents] /\ src \in Paths /\ Inv /\ UNCHANGED arrived
  BY DEF SafeInv, Inv, TypeOK, JobType, Discard
<1>2. ActionOf(w).type = "trash"
  BY <1>1, InChainCareful DEF Discard, Acting, Careful
<1>3. job'[w].pc = "action"
  BY <1>1, Moved DEF Discard
<1>4. CASE UNCHANGED <<fs, trash, forfeit>>
  BY <1>1, <1>3, <1>4, CalmSafe
<1>5. CASE RemovePath(src, FALSE) /\ trash' = trash \cup DataAt(src) /\ UNCHANGED forfeit
  <2>1. src \in PlainPaths(F)
    BY DEF Discard, Acting, ChainsIn, InChain
  <2>2. UNCHANGED fs \/ fs' = [fs EXCEPT ![src] = Absent]
    BY <1>1, <1>5, <2>1, PlainRemove
  <2>3. \A q \in Paths \ {src} : fs'[q] = fs[q] /\ (IsFile(q)' <=> IsFile(q))
    BY <1>1, <2>2 DEF IsFile
  <2>4. IsFile(src) => fs[src] \subseteq DataAt(src)
    <3>1. Files(src) = IF IsFile(src) THEN {src} ELSE {}
      BY <1>1, <2>1, PlainFile DEF Inv
    <3> QED
      BY <3>1 DEF DataAt
  <2>5. \A q \in Paths : IsFile(q) => \A x \in fs[q] : Somewhere(x)'
    BY <1>5, <2>3, <2>4 DEF Somewhere
  <2>6. NoLoss'
    BY <1>1, <1>5, <2>5, KeepStep DEF SafeInv
  <2> QED
    BY <1>3, <2>6, Elsewhere DEF SafeInv
<1> QED
  BY <1>2, <1>4, <1>5 DEF Discard, disk

LEMMA AppendLogSafe ==
    ASSUME SafeInv, Inv', OneWorker, CarefulRules, NEW w \in Workers, AppendLog(w)
    PROVE  SafeInv'
<1> DEFINE p == Destination(ActionOf(w), job[w].cur)
<1>1. /\ fs \in [Paths -> Contents] /\ job[w].cur \in Paths /\ Inv
      /\ UNCHANGED <<trash, arrived, forfeit>>
  BY DEF SafeInv, Inv, TypeOK, JobType, AppendLog
<1>2. p \in Paths
  BY <1>1, InChainCareful, DestinationType DEF AppendLog, Acting
<1>3. job'[w].pc = "action"
  BY <1>1, Moved DEF AppendLog
<1>4. CASE UNCHANGED fs
  BY <1>1, <1>3, <1>4, CalmSafe
<1>5. CASE fs' = [fs EXCEPT ![p] = IF IsFile(p) THEN fs[p] ELSE {}]
  <2>1. \A q \in Paths : IsFile(q) => fs'[q] = fs[q] /\ IsFile(q)'
    BY <1>1, <1>2, <1>5 DEF IsFile
  <2>2. \A q \in Paths : IsFile(q) => \A x \in fs[q] : Somewhere(x)'
    BY <2>1 DEF Somewhere
  <2>3. NoLoss'
    BY <1>1, <2>2, KeepStep DEF SafeInv
  <2> QED
    BY <1>3, <2>3, Elsewhere DEF SafeInv
<1> QED
  BY <1>4, <1>5 DEF AppendLog

LEMMA SafeStep ==
    ASSUME SafeInv, OneWorker, UsersApart, CarefulRules, NEW F, PlainRules(F),
           ChainsIn(PlainPaths(F)), [Next]_vars
    PROVE  SafeInv'
<1>1. Inv'
  BY InvStep DEF SafeInv
<1>2. CASE UNCHANGED vars
  <2>1. NoLoss'
    BY <1>2 DEF SafeInv, NoLoss, Kept, OnDisk, IsFile, vars
  <2>2. Aims' /\ Halfway'
    BY <1>2 DEF SafeInv, Aims, AimOf, Halfway, Copied, IsFile, ActionOf, RuleOf, vars
  <2> QED
    BY <1>1, <2>1, <2>2 DEF SafeInv
<1>3. CASE User
  BY <1>1, <1>3, UserSafe
<1>4. ASSUME NEW w \in Workers, StartScan(w) \/ WorkerStep(w)
      PROVE  SafeInv'
  <2>1. CASE StartScan(w) \/ TakeEvent(w) \/ ListFolder(w) \/ TakeFile(w)
    BY <1>1, <2>1, PickSafe
  <2>2. CASE \/ TryRule(w) \/ NoRuleLeft(w) \/ EndChain(w) \/ Touch(w) \/ CreateFolder(w)
             \/ WriteFails(w)
    BY <1>1, <2>2, MatchSafe
  <2>3. CASE Resolve(w)
    BY <1>1, <2>3, ResolveSafe
  <2>4. CASE Copy(w) \/ CopyBreaks(w)
    BY <1>1, <2>4, CopySafe
  <2>5. CASE CopyAcross(w) \/ Rename(w) \/ RemoveSource(w)
    BY <1>1, <2>5, CopyAcrossSafe, RenameSafe, RemoveSourceSafe
  <2>6. CASE Discard(w) \/ AppendLog(w)
    BY <1>1, <2>6, DiscardSafe, AppendLogSafe
  <2>7. ~Compress(w)
    <3>1. Inv
      BY DEF SafeInv
    <3> QED
      BY <3>1, InChainCareful DEF Compress, Acting, Careful
  <2> QED
    BY <1>4, <2>1, <2>2, <2>3, <2>4, <2>5, <2>6, <2>7 DEF WorkerStep, FileStep
<1> QED
  BY <1>2, <1>3, <1>4 DEF Next

LEMMA SafeInit == Init => SafeInv
<1> SUFFICES ASSUME Init PROVE SafeInv
  OBVIOUS
<1>1. \A w \in Workers : job[w].pc = "idle"
  BY DEF Init, IdleJob
<1>2. Aims /\ Halfway
  BY <1>1 DEF Aims, Halfway
<1>3. NoLoss
  BY DEF Init, NoLoss, Kept, OnDisk, IsFile
<1> QED
  BY <1>2, <1>3, InvInit DEF SafeInv
-----------------------------------------------------------------------------
(* Whatever a careful rule tries with the files it is for, and whatever of it
   fails half-way, nothing is lost by a worker that is alone
   (actions/mod.rs:233-330, engine.rs:262-281): every piece of data is in a file
   or in the trash, or was removed by the user or overwritten by policy. *)
THEOREM NothingDestroyed ==
    ASSUME OneWorker, UsersApart, CarefulRules, NEW F, PlainRules(F)
    PROVE  Spec => []NoLoss
<1> DEFINE SafeFiles == SafeInv /\ ChainsIn(PlainPaths(F))
<1>1. Init => SafeFiles
  <2>1. Init => ChainsIn(PlainPaths(F))
    BY DEF Init, ChainsIn, IdleJob, InChain
  <2> QED
    BY <2>1, SafeInit
<1>2. SafeFiles /\ [Next]_vars => SafeFiles'
  <2> SUFFICES ASSUME SafeFiles, [Next]_vars PROVE SafeFiles'
    OBVIOUS
  <2>1. SafeInv'
    BY SafeStep
  <2>2. Inv /\ PlainPaths(F) \in SUBSET Paths
    BY DEF SafeInv, PlainPaths
  <2>3. ChainsIn(PlainPaths(F))'
    BY <2>2, PlainStarts, PlainSends, ChainsStayIn
  <2> QED
    BY <2>1, <2>3
<1>3. SafeFiles => NoLoss
  BY DEF SafeInv
<1> QED
  BY <1>1, <1>2, <1>3, PTL DEF Spec
-----------------------------------------------------------------------------
(* Projects: what is there at the start, the roots among it, and all the
   directories of projects. *)
There(p) == InitFs[p] # Absent \/ FullPath(p) \in InitDirs
Roots == {d \in Dirs : \E m \in PROJECT_MARKERS \cap Names : There([dir |-> d, name |-> m])}
Homes == {d \in Dirs : \E m \in Roots : IsPrefix(m, d)}

(* A folder shelters projects: it does not ask for them, and if it lies in one
   itself it is the root of one. *)
Shelters(f) == ~f.allow_project_roots /\ (f.path \in Homes => f.path \in Roots)

SendsTo(a, d) ==
    a.type \in {"move", "copy", "rename", "compress", "log"} /\ ~a.here /\ a.dir = d

(* Nobody asks for projects: every rule has folders, which shelter them, no
   rule sends a file into one, the user takes nothing out of one, and nobody
   makes one or unmakes it: the markers are not among the files that come and
   go, nor among the folders that appear. *)
NobodyAsks(F) ==
    /\ F \cap PROJECT_MARKERS = {}
    /\ \A i \in DOMAIN Rules :
          /\ Rules[i].folders # {} /\ \A f \in Rules[i].folders : Shelters(f)
          /\ \A k \in DOMAIN Rules[i].actions, d \in Homes :
                ~SendsTo(Rules[i].actions[k], d)
    /\ \A p \in Taken : p.dir \notin Homes
    /\ \A p \in Inbox \cup MovedIn \cup Taken : p.name \notin PROJECT_MARKERS
    /\ \A p \in Paths :
           p.name \in PROJECT_MARKERS /\ FullPath(p) \in Dirs => FullPath(p) \in InitDirs

Outside(F) == {p \in PlainPaths(F) : p.dir \notin Homes}

(* The projects of the start are there still, and no others. *)
StillThere ==
    /\ InitDirs \subseteq dirs
    /\ \A p \in Paths : p.name \in PROJECT_MARKERS => (IsFile(p) <=> InitFs[p] # Absent)

LEMMA SameRoots ==
    ASSUME TypeOK, NEW F, NobodyAsks(F), StillThere
    PROVE  Marked(PROJECT_MARKERS) = Roots /\ Projects(PROJECT_MARKERS) = Homes
<1>1. ASSUME NEW d \in Dirs, NEW m \in PROJECT_MARKERS \cap Names
      PROVE  Exists([dir |-> d, name |-> m]) <=> There([dir |-> d, name |-> m])
  <2> DEFINE p == [dir |-> d, name |-> m]
  <2>1. p \in Paths /\ p.name \in PROJECT_MARKERS
    BY DEF Paths
  <2> HIDE DEF p
  <2>2. IsFolder(p) <=> FullPath(p) \in InitDirs
    BY <2>1 DEF TypeOK, NobodyAsks, StillThere, IsFolder
  <2>3. IsFile(p) <=> InitFs[p] # Absent
    BY <2>1 DEF StillThere
  <2>4. Exists(p) <=> There(p)
    BY <2>2, <2>3 DEF Exists, There
  <2> QED
    BY <2>4 DEF p
<1>2. ASSUME NEW d \in Dirs, NEW m \in PROJECT_MARKERS \cap Names,
             There([dir |-> d, name |-> m])
      PROVE  d \in dirs
  <2> DEFINE p == [dir |-> d, name |-> m]
  <2>1. p \in Paths /\ p.dir = d
    BY DEF Paths
  <2>2. There(p)
    BY <1>2
  <2> HIDE DEF p
  <2>3. d \in InitDirs
    BY <2>1, <2>2, DiskAssumption DEF There
  <2> QED
    BY <2>3 DEF StillThere
<1>3. dirs \subseteq Dirs
  BY DEF TypeOK
<1>4. Marked(PROJECT_MARKERS) = Roots
  BY <1>1, <1>2, <1>3 DEF Marked, Roots
<1> QED
  BY <1>4 DEF Projects, Homes

(* What the gate lets a rule at, a file, is in no project. *)
LEMMA GateShelters ==
    ASSUME TypeOK, Marked(PROJECT_MARKERS) = Roots, NEW p \in Paths, FullPath(p) \notin Dirs,
           NEW folders, folders # {}, NEW base,
           \A f \in folders : f.path \in Dirs /\ Shelters(f),
           InScope(Tree, FullPath(p), folders, base)
    PROVE  p.dir \notin Homes
<1> SUFFICES ASSUME p.dir \in Homes PROVE FALSE
  OBVIOUS
<1>1. PICK f \in folders : evaluate_path_scope(Tree, FullPath(p), f) = "allowed"
  BY DEF InScope
<1> DEFINE C   == Components
           cur == p.dir
           top == f.path
           H   == Hits(Roots, top, cur, Len(cur))
<1>2. /\ p.dir \in Dirs /\ p.name \in C /\ top \in Dirs
      /\ FullPath(p) = Append(cur, p.name)
  BY <1>1 DEF Paths, Components, FullPath
<1>3. \A d \in Dirs : d \in Seq(C) /\ d # <<>>
  <2> SUFFICES ASSUME NEW d \in Dirs PROVE d \in Seq(C) /\ d # <<>>
    OBVIOUS
  <2> DEFINE q == [dir |-> d, name |-> p.name]
  <2>1. q \in Paths /\ q.dir = d
    BY DEF Paths
  <2> HIDE DEF q
  <2>2. d \in Seq(C)
    BY <2>1, PathSeq
  <2>3. d # <<>>
    BY TreeAssumption
  <2> QED
    BY <2>2, <2>3
<1> HIDE DEF C
<1>4. cur \in Seq(C) /\ top \in Seq(C) /\ top # <<>>
  BY <1>2, <1>3
<1>5. Len(cur) \in Nat /\ Len(top) \in Nat
  BY <1>4
<1>6. \A q \in Dirs \cup {FullPath(r) : r \in Paths} : Tree.canon[q] = q
  BY DEF Tree, Canon
<1>7. Tree.canon[FullPath(p)] = FullPath(p) /\ Tree.canon[top] = top /\ Tree.canon[cur] = cur
  BY <1>2, <1>6
<1>8. Tree.marked = Roots /\ Tree.folders = dirs
  BY DEF Tree
<1>9. SearchStart(Tree, FullPath(p)) = cur
  <2>1. FullPath(p) \notin Tree.folders
    BY <1>8 DEF TypeOK
  <2>2. Front(Append(cur, p.name)) = cur
    BY <1>2, <1>4, FrontOfAppend
  <2> QED
    BY <1>2, <1>7, <2>1, <2>2 DEF SearchStart
<1>10. IsPrefix(top, FullPath(p))
  <2>1. relative_depth(Tree, FullPath(p), top) # NoDepth
    BY <1>1 DEF evaluate_path_scope
  <2> QED
    BY <1>7, <2>1 DEF relative_depth
<1>11. PICK m \in Roots : IsPrefix(m, cur)
  BY DEF Homes
<1>12. m \in Dirs /\ m \in Seq(C)
  BY <1>3, <1>11 DEF Roots
<1>13. Len(m) \in Nat
  BY <1>12
<1>14. IsPrefix(top, cur)
  <2>1. top # Append(cur, p.name)
    BY <1>2
  <2> HIDE DEF cur, top
  <2> QED
    BY <1>2, <1>4, <1>10, <2>1, PrefixOfAppend
<1>15. \E k \in Roots : k \in Seq(C) /\ IsPrefix(top, k) /\ IsPrefix(k, cur)
  <2>1. CASE IsPrefix(m, top)
    <3>1. top \in Roots
      BY <1>1, <1>2, <1>11, <2>1 DEF Shelters, Homes
    <3>2. IsPrefix(top, top)
      BY <1>4, <1>5, Prefix
    <3> QED
      BY <1>4, <1>14, <3>1, <3>2
  <2>2. CASE ~IsPrefix(m, top)
    <3> HIDE DEF cur, top
    <3>1. IsPrefix(top, m)
      BY <1>4, <1>11, <1>12, <1>14, <2>2, Comparable
    <3> QED
      BY <1>11, <1>12, <3>1
  <2> QED
    BY <2>1, <2>2
<1>16. H # {}
  <2>1. PICK k \in Roots : k \in Seq(C) /\ IsPrefix(top, k) /\ IsPrefix(k, cur)
    BY <1>15
  <2> HIDE DEF cur, top
  <2>2. Len(k) <= Len(cur) /\ k = SubSeq(cur, 1, Len(k))
    BY <1>4, <2>1, Above
  <2>3. Len(k) \in 0..Len(cur)
    BY <1>5, <2>1, <2>2
  <2> QED
    BY <2>1, <2>2, <2>3 DEF Hits
<1>17. find_project_root(Tree, FullPath(p), top) # <<>>
  <2>1. IsNearest(Tree.marked, Tree.canon[top], SearchStart(Tree, FullPath(p)),
                  Len(SearchStart(Tree, FullPath(p))),
                  find_project_root(Tree, FullPath(p), top))
    BY <1>4, <1>7, <1>9, RootFound
  <2>2. IsNearest(Roots, top, cur, Len(cur), find_project_root(Tree, FullPath(p), top))
    BY <1>7, <1>8, <1>9, <2>1
  <2> HIDE DEF cur, top
  <2> QED
    BY <1>4, <1>16, <2>2, NoneFound
<1> QED
  BY <1>1, <1>17 DEF evaluate_path_scope, Shelters

LEMMA MatchedOutside ==
    ASSUME Inv, NEW F, PlainRules(F), NobodyAsks(F), StillThere
    PROVE  Starts(Outside(F))
<1> SUFFICES ASSUME NEW w \in Workers, job[w].pc = "rules",
                    job[w].rule \in DOMAIN task[w].rules, Applies(w)
             PROVE  job[w].path \in Outside(F)
  BY DEF Starts
<1> DEFINE p == job[w].path
<1>1. p \in PlainPaths(F) /\ TypeOK
  BY PlainStarts DEF Starts, Inv
<1>2. p \in Paths /\ FullPath(p) \notin Dirs
  <2>1. p \in Paths /\ FullPath(p) \in Seq(Components)
    BY <1>1, PathSeq DEF PlainPaths
  <2>2. IsPrefix(FullPath(p), FullPath(p))
    BY <2>1, Prefix
  <2> QED
    BY <1>1, <2>1, <2>2, NothingBelow
<1>3. PICK i \in DOMAIN Rules : RuleOf(w) = Rules[i]
  BY <1>1, RuleOfType DEF RuleOf
<1>4. /\ Rules[i].folders # {}
      /\ \A f \in Rules[i].folders : f.path \in Dirs /\ Shelters(f)
  BY TreeAssumption DEF NobodyAsks
<1>5. InScope(Tree, FullPath(p), Rules[i].folders, task[w].base)
  BY <1>3 DEF Applies
<1>6. p.dir \notin Homes
  BY <1>1, <1>2, <1>4, <1>5, SameRoots, GateShelters
<1> QED
  BY <1>1, <1>6 DEF Outside

(* Where an action of a chain sends its file. *)
LEMMA SentOutside ==
    ASSUME Inv, NEW F, PlainRules(F), NobodyAsks(F), ChainsIn(Outside(F)), NEW w \in Workers,
           job[w].pc \in InChain, job[w].act \in DOMAIN RuleOf(w).actions,
           \/ ActionOf(w).type \in {"move", "copy", "rename", "compress"}
           \/ ActionOf(w).type = "log" /\ ~ActionOf(w).here
    PROVE  Destination(ActionOf(w), job[w].cur) \in Outside(F)
<1> DEFINE a == ActionOf(w)
           p == Destination(a, job[w].cur)
<1>1. ChainsIn(PlainPaths(F)) /\ job[w].cur.dir \notin Homes
  BY DEF ChainsIn, Outside
<1>2. p \in PlainPaths(F)
  BY <1>1, PlainDestination
<1>3. PICK i \in DOMAIN Rules : RuleOf(w) = Rules[i]
  BY RuleOfType DEF RuleOf, Inv, JobsInStep, InChain
<1>4. p.dir = IF a.here THEN job[w].cur.dir ELSE a.dir
  BY DEF Destination
<1>5. \A d \in Homes : ~SendsTo(a, d)
  BY <1>3 DEF NobodyAsks, ActionOf
<1> HIDE DEF p
<1>6. p.dir \notin Homes
  BY <1>1, <1>4, <1>5 DEF SendsTo
<1>7. p \in Outside(F)
  BY <1>2, <1>6 DEF Outside
<1> QED
  BY <1>7 DEF p

LEMMA OutsideSends ==
    ASSUME Inv, NEW F, PlainRules(F), NobodyAsks(F), ChainsIn(Outside(F))
    PROVE  Sends(Outside(F))
<1>1. ASSUME NEW w \in Workers, Acting(w, {"move", "copy", "rename"})
      PROVE  Destination(ActionOf(w), job[w].cur) \in Outside(F)
  BY <1>1, SentOutside DEF Acting, InChain
<1>2. ASSUME NEW p \in Outside(F), NEW q \in Paths, UniquePath(p, q)
      PROVE  q \in Outside(F)
  <2>1. ChainsIn(PlainPaths(F)) /\ p \in PlainPaths(F) /\ p \in Paths
    BY DEF ChainsIn, Outside, PlainPaths
  <2>2. q \in PlainPaths(F)
    BY <1>2, <2>1, PlainSends DEF Sends
  <2>3. q.dir = p.dir
    BY <1>2, <2>1 DEF UniquePath, Paths
  <2> QED
    BY <2>2, <2>3 DEF Outside
<1> QED
  BY <1>1, <1>2 DEF Sends
-----------------------------------------------------------------------------
(* A step of a worker changes files outside of projects, and removes no
   folder. *)
Changes(G) == dirs \subseteq dirs' /\ \A p \in Paths \ G : fs'[p] = fs[p]

LEMMA OneChange ==
    ASSUME fs \in [Paths -> Contents], NEW G, NEW p \in G, NEW c, fs' = [fs EXCEPT ![p] = c]
    PROVE  \A q \in Paths \ G : fs'[q] = fs[q]
OBVIOUS

LEMMA CopyChanges ==
    ASSUME Inv, NEW F, PlainRules(F), ChainsIn(Outside(F)), NEW w \in Workers,
           Copy(w) \/ CopyAcross(w) \/ CopyBreaks(w)
    PROVE  Changes(Outside(F))
<1> DEFINE src == job[w].cur
           p   == job[w].dest
<1>1. CanCopy(w) /\ job[w].pc = "write"
  BY DEF Copy, CopyAcross, CopyBreaks, Completes, CanCopy
<1>2. /\ src \in Outside(F) /\ p \in Outside(F)
      /\ src \in PlainPaths(F) /\ p \in PlainPaths(F)
  BY <1>1 DEF ChainsIn, Outside, InChain
<1>3. \E whole, cut \in SUBSET Files(src) : \E below :
          CopyContent(w, whole, cut, below)
  <2>1. CASE Copy(w)
    BY <2>1 DEF Copy
  <2>2. CASE CopyAcross(w)
    BY <2>2 DEF CopyAcross
  <2>3. CASE CopyBreaks(w)
    <3>1. PICK whole \in SUBSET Landing(src, p) :
              \E cut \in {{}} \cup {{q} : q \in Landing(src, p) \ whole} :
                  \E below : CopyContent(w, whole, cut, below)
      BY <2>3 DEF CopyBreaks
    <3>2. PICK cut \in {{}} \cup {{q} : q \in Landing(src, p) \ whole} :
              \E below : CopyContent(w, whole, cut, below)
      BY <3>1
    <3>3. \A q \in Landing(src, p) : q \in Files(src)
      BY DEF Landing
    <3> HIDE DEF src, p
    <3>4. whole \in SUBSET Files(src) /\ cut \in SUBSET Files(src)
      BY <3>3
    <3> QED
      BY <3>2, <3>4
  <2> QED
    BY <2>1, <2>2, <2>3
<1>4. PICK whole, cut \in SUBSET Files(src) :
          \E below : CopyContent(w, whole, cut, below)
  BY <1>3
<1>5. PICK below : CopyContent(w, whole, cut, below)
  BY <1>4
<1>6. UNCHANGED fs \/ \E c \in SUBSET Data : fs' = [fs EXCEPT ![p] = c]
  BY <1>1, <1>2, <1>5, PlainCopy
<1>7. dirs \subseteq dirs'
  BY <1>5 DEF CopyContent, WithParents
<1>8. fs \in [Paths -> Contents]
  BY DEF Inv, TypeOK
<1>9. \A q \in Paths \ Outside(F) : fs'[q] = fs[q]
  <2> HIDE DEF p
  <2> QED
    BY <1>2, <1>6, <1>8, OneChange
<1> QED
  BY <1>7, <1>9 DEF Changes

LEMMA WriteChanges ==
    ASSUME Inv, NEW F, PlainRules(F), ChainsIn(Outside(F)), NEW w \in Workers,
           Rename(w) \/ WriteFails(w) \/ RemoveSource(w)
    PROVE  Changes(Outside(F))
<1> DEFINE src == job[w].cur
           p   == job[w].dest
<1>1. job[w].pc \in {"write", "remove"} /\ fs \in [Paths -> Contents] /\ TypeOK
  BY DEF Rename, WriteFails, RemoveSource, Inv, TypeOK
<1>2. /\ src \in Outside(F) /\ p \in Outside(F)
      /\ src \in PlainPaths(F) /\ p \in PlainPaths(F)
  BY <1>1 DEF ChainsIn, Outside, InChain
<1>3. CASE Rename(w)
  <2>1. fs' = [fs EXCEPT ![src] = Absent, ![p] = fs[src]]
    BY <1>2, <1>3, PlainRename
  <2>2. Folders(src) = {}
    BY <1>1, <1>2, PlainFile
  <2>3. dirs \subseteq dirs'
    BY <1>3, <2>2 DEF Rename, WithParents
  <2> HIDE DEF src, p
  <2>4. \A q \in Paths \ Outside(F) : fs'[q] = fs[q]
    BY <1>1, <1>2, <2>1
  <2> QED
    BY <2>3, <2>4 DEF Changes
<1>4. CASE WriteFails(w)
  BY <1>4 DEF WriteFails, WithParents, Changes
<1>5. CASE RemoveSource(w)
  <2>1. (UNCHANGED fs \/ fs' = [fs EXCEPT ![src] = Absent]) /\ UNCHANGED dirs
    BY <1>2, <1>5, PlainRemove DEF RemoveSource
  <2> HIDE DEF src, p
  <2> QED
    BY <1>1, <1>2, <2>1, OneChange DEF Changes
<1> QED
  BY <1>3, <1>4, <1>5

LEMMA ActChanges ==
    ASSUME Inv, NEW F, PlainRules(F), NobodyAsks(F), ChainsIn(Outside(F)), NEW w \in Workers,
           Discard(w) \/ Compress(w) \/ CreateFolder(w) \/ AppendLog(w) \/ Touch(w)
    PROVE  Changes(Outside(F))
<1> DEFINE src == job[w].cur
           a   == ActionOf(w)
           p   == Destination(a, src)
<1>1. job[w].pc = "action" /\ job[w].act \in DOMAIN RuleOf(w).actions
  BY DEF Discard, Compress, CreateFolder, AppendLog, Touch, Acting
<1>2. src \in Outside(F) /\ src \in PlainPaths(F) /\ fs \in [Paths -> Contents]
  BY <1>1 DEF ChainsIn, Outside, InChain, Inv, TypeOK
<1>3. CASE Discard(w)
  <2>1. UNCHANGED <<fs, dirs>> \/ \E b : RemovePath(src, b)
    BY <1>3 DEF Discard, disk
  <2>2. (UNCHANGED fs \/ fs' = [fs EXCEPT ![src] = Absent]) /\ UNCHANGED dirs
    BY <1>2, <2>1, PlainRemove
  <2> HIDE DEF src
  <2> QED
    BY <1>2, <2>2, OneChange DEF Changes
<1>4. CASE Compress(w)
  <2>1. p \in Outside(F)
    BY <1>1, <1>4, SentOutside DEF Compress, Acting, InChain
  <2>2. dirs \subseteq dirs' /\ (UNCHANGED fs \/ \E c : fs' = [fs EXCEPT ![p] = c])
    BY <1>4 DEF Compress, WithParents
  <2> HIDE DEF p
  <2> QED
    BY <1>2, <2>1, <2>2, OneChange DEF Changes
<1>5. CASE CreateFolder(w)
  BY <1>5 DEF CreateFolder, Changes
<1>6. CASE AppendLog(w)
  <2>1. CASE UNCHANGED <<fs, dirs>>
    BY <2>1 DEF Changes
  <2>2. CASE ~UNCHANGED <<fs, dirs>>
    <3>1. /\ ~a.here /\ a.type = "log" /\ dirs \subseteq dirs'
          /\ fs' = [fs EXCEPT ![p] = IF IsFile(p) THEN fs[p] ELSE {}]
      BY <1>6, <2>2 DEF AppendLog, Acting
    <3>2. p \in Outside(F)
      BY <1>1, <3>1, SentOutside DEF InChain
    <3> HIDE DEF p
    <3> QED
      BY <1>2, <3>1, <3>2, OneChange DEF Changes
  <2> QED
    BY <2>1, <2>2
<1>7. CASE Touch(w)
  BY <1>7 DEF Touch, disk, Changes
<1> QED
  BY <1>3, <1>4, <1>5, <1>6, <1>7

LEMMA WorkerChanges ==
    ASSUME Inv, NEW F, PlainRules(F), NobodyAsks(F), ChainsIn(Outside(F)), NEW w \in Workers,
           StartScan(w) \/ WorkerStep(w)
    PROVE  Changes(Outside(F))
<1>1. CASE \/ StartScan(w) \/ TakeEvent(w) \/ ListFolder(w) \/ TakeFile(w)
           \/ TryRule(w) \/ NoRuleLeft(w) \/ EndChain(w) \/ Resolve(w)
  <2>1. UNCHANGED disk
    BY <1>1 DEF StartScan, TakeEvent, ListFolder, TakeFile, TryRule, NoRuleLeft, EndChain,
                Resolve
  <2> QED
    BY <2>1 DEF disk, Changes
<1>2. CASE \/ Rename(w) \/ WriteFails(w) \/ RemoveSource(w)
           \/ Copy(w) \/ CopyAcross(w) \/ CopyBreaks(w)
  BY <1>2, WriteChanges, CopyChanges
<1>3. CASE Discard(w) \/ Compress(w) \/ CreateFolder(w) \/ AppendLog(w) \/ Touch(w)
  BY <1>3, ActChanges
<1> QED
  BY <1>1, <1>2, <1>3 DEF WorkerStep, FileStep

LEMMA UserChanges ==
    ASSUME Inv, NEW F, NobodyAsks(F), User
    PROVE  /\ dirs \subseteq dirs'
           /\ \A p \in Paths : fs'[p] # fs[p] =>
                  \/ ~IsFile(p) /\ p.name \notin PROJECT_MARKERS
                  \/ p.dir \notin Homes /\ p.name \notin PROJECT_MARKERS
<1>1. fs \in [Paths -> Contents]
  BY DEF Inv, TypeOK
<1>2. CASE UserCreate \/ UserMoveIn
  <2>1. /\ dirs \subseteq dirs'
        /\ \E p \in Inbox \cup MovedIn, d \in Data : ~Exists(p) /\ fs' = [fs EXCEPT ![p] = {d}]
    BY <1>2 DEF UserCreate, UserMoveIn
  <2>2. PICK p \in Inbox \cup MovedIn : ~Exists(p) /\ \E c : fs' = [fs EXCEPT ![p] = c]
    BY <2>1
  <2>3. p.name \notin PROJECT_MARKERS /\ ~IsFile(p)
    BY <2>2 DEF NobodyAsks, Exists
  <2>4. \A q \in Paths : fs'[q] # fs[q] => q = p
    BY <1>1, <2>2
  <2> QED
    BY <2>1, <2>3, <2>4
<1>3. CASE UserRemove
  <2>1. PICK p \in Taken : fs' = [fs EXCEPT ![p] = Absent]
    BY <1>3 DEF UserRemove
  <2>2. p.dir \notin Homes /\ p.name \notin PROJECT_MARKERS
    BY DEF NobodyAsks
  <2>3. \A q \in Paths : fs'[q] # fs[q] => q = p
    BY <1>1, <2>1
  <2> QED
    BY <1>3, <2>2, <2>3 DEF UserRemove
<1> QED
  BY <1>2, <1>3 DEF User

OutsideInv(F) == Inv /\ ChainsIn(Outside(F)) /\ StillThere

LEMMA OutsideStep ==
    ASSUME NEW F, PlainRules(F), NobodyAsks(F), OutsideInv(F), [Next]_vars
    PROVE  /\ OutsideInv(F)'
           /\ \A p \in OnDisk : p.dir \in Projects(PROJECT_MARKERS) => fs'[p] = fs[p]
<1>1. Inv /\ ChainsIn(Outside(F)) /\ StillThere /\ TypeOK
  BY DEF OutsideInv, Inv
<1>2. Outside(F) \in SUBSET Paths
  BY DEF Outside, PlainPaths
<1>3. Inv' /\ ChainsIn(Outside(F))'
  BY <1>1, <1>2, InvStep, MatchedOutside, OutsideSends, ChainsStayIn
<1>4. /\ dirs \subseteq dirs'
      /\ \A p \in Paths : fs'[p] # fs[p] =>
             /\ p.name \notin PROJECT_MARKERS
             /\ ~IsFile(p) \/ p.dir \notin Homes
  <2>1. CASE UNCHANGED vars
    BY <2>1 DEF vars
  <2>2. CASE User
    BY <1>1, <2>2, UserChanges
  <2>3. ASSUME NEW w \in Workers, StartScan(w) \/ WorkerStep(w)
        PROVE  Changes(Outside(F))
    BY <1>1, <2>3, WorkerChanges
  <2>4. \A p \in Outside(F) : p.name \notin PROJECT_MARKERS /\ p.dir \notin Homes
    BY DEF Outside, PlainPaths, NobodyAsks
  <2> QED
    BY <2>1, <2>2, <2>3, <2>4 DEF Next, Changes
<1>5. StillThere'
  <2>1. \A p \in Paths : p.name \in PROJECT_MARKERS => (IsFile(p)' <=> IsFile(p))
    BY <1>4 DEF IsFile
  <2> QED
    BY <1>1, <1>4, <2>1 DEF StillThere
<1>6. Projects(PROJECT_MARKERS) = Homes
  BY <1>1, SameRoots
<1> QED
  BY <1>3, <1>4, <1>5, <1>6 DEF OutsideInv, OnDisk

(* No rule that matches files only changes a file of a project nobody has asked
   for (scope.rs:104-191, engine.rs:341-370, README.md:310-312), whatever it
   does with the files it is for, with any number of watchers, scans and command
   lines at once.  A rule that matches a folder too carries projects away with
   it: the run sweep. *)
THEOREM LeavesProjectsAlone ==
    ASSUME NEW F, PlainRules(F), NobodyAsks(F)
    PROVE  Spec => ProjectsUntouched
<1>1. Init => OutsideInv(F)
  <2> SUFFICES ASSUME Init PROVE OutsideInv(F)
    OBVIOUS
  <2>1. Inv
    BY InvInit
  <2>2. ChainsIn(Outside(F))
    BY DEF Init, ChainsIn, IdleJob, InChain
  <2>3. StillThere
    BY DEF Init, StillThere, IsFile
  <2> QED
    BY <2>1, <2>2, <2>3 DEF OutsideInv
<1>2. OutsideInv(F) /\ [Next]_vars => OutsideInv(F)'
  BY OutsideStep
<1>3. OutsideInv(F) /\ [Next]_vars =>
          [\A p \in OnDisk : p.dir \in Projects(PROJECT_MARKERS) => fs'[p] = fs[p]]_vars
  BY OutsideStep
<1> QED
  BY <1>1, <1>2, <1>3, PTL DEF Spec, ProjectsUntouched
=============================================================================
