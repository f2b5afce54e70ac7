---------------------------- MODULE DaemonProofs ----------------------------
(***************************************************************************)
(* Proofs about Daemon, for any number of scans, connections, folders,     *)
(* events and threads.  The inductive invariant says of each lock who is   *)
(* in its queue and who has got it: a task is in the engine's queue from   *)
(* its request to its drop, once, as a writer if and only if it reloads,   *)
(* and in the mutex's queue while it waits for it or scans.  As every task *)
(* that waits for the mutex with the engine in its hands is in both, the   *)
(* head of the mutex's queue, if there is one, never waits.                *)
(***************************************************************************)
EXTENDS Daemon, SequenceTheorems, TLAPS

PCs == {"start", "wait", "idle", "read", "engine", "processing", "db", "scanning"}

(* Where a task of each kind can be. *)
PlacesOK(p) ==
    /\ p[Watcher] \in {"start", "wait", "engine", "processing", "db"}
    /\ \A t \in Scans : p[t] \in {"idle", "engine", "db", "scanning"}
    /\ \A t \in Statuses : p[t] \in {"idle", "engine", "db"}
    /\ \A t \in Loggers : p[t] \in {"idle", "db"}
    /\ \A t \in Reloaders : p[t] \in {"idle", "read", "engine"}

(* The tasks in the engine's queue, and those of them that have got it. *)
InEngine(p, t) ==
    \/ p[t] \in {"engine", "processing", "scanning"}
    \/ p[t] = "db" /\ t \in Scans \cup Statuses
PastEngine(p, t) == InEngine(p, t) /\ p[t] # "engine"

GotEngine(q, t) ==
    \E i \in DOMAIN q : /\ q[i].task = t
                        /\ \/ i = 1
                           \/ \A j \in 1..i : q[j].mode = "read"

EngineOK(q, p) ==
    /\ \A i, j \in DOMAIN q : q[i].task = q[j].task => i = j
    /\ \A i \in DOMAIN q : q[i].mode = "write" <=> q[i].task \in Reloaders
    /\ \A t \in Tasks : InEngine(p, t) <=> \E i \in DOMAIN q : q[i].task = t
    /\ \A t \in Tasks : PastEngine(p, t) => GotEngine(q, t)

InDb(p, t) == p[t] \in {"db", "scanning"}

DbOK(q, p) ==
    /\ \A i, j \in DOMAIN q : q[i] = q[j] => i = j
    /\ \A t \in Tasks : InDb(p, t) <=> \E i \in DOMAIN q : q[i] = t
    /\ \A t \in Tasks : p[t] = "scanning" => q # <<>> /\ Head(q) = t

Inv == TypeOK /\ PlacesOK(pc) /\ EngineOK(engineQ, pc) /\ DbOK(dbQ, pc)
-----------------------------------------------------------------------------
(* The queues *)

LEMMA RemoveAtFacts ==
    ASSUME NEW S, NEW q \in Seq(S), NEW i \in DOMAIN q
    PROVE  /\ RemoveAt(q, i) \in Seq(S)
           /\ Len(RemoveAt(q, i)) = Len(q) - 1
           /\ \A k \in 1..Len(q) - 1 :
                RemoveAt(q, i)[k] = IF k < i THEN q[k] ELSE q[k + 1]
<1>1. /\ SubSeq(q, 1, i - 1) \in Seq(S)
      /\ Len(SubSeq(q, 1, i - 1)) = i - 1
      /\ \A k \in 1..i - 1 : SubSeq(q, 1, i - 1)[k] = q[k]
  OBVIOUS
<1>2. /\ SubSeq(q, i + 1, Len(q)) \in Seq(S)
      /\ Len(SubSeq(q, i + 1, Len(q))) = Len(q) - i
      /\ \A k \in 1..Len(q) - i : SubSeq(q, i + 1, Len(q))[k] = q[k + i]
  OBVIOUS
<1> DEFINE a == SubSeq(q, 1, i - 1)
           b == SubSeq(q, i + 1, Len(q))
<1> HIDE DEF a, b
<1>3. /\ a \in Seq(S) /\ Len(a) = i - 1
      /\ b \in Seq(S) /\ Len(b) = Len(q) - i
      /\ \A k \in 1..i - 1 : a[k] = q[k]
      /\ \A k \in 1..Len(q) - i : b[k] = q[k + i]
  BY <1>1, <1>2 DEF a, b
<1> DEFINE c == a \o b
<1>4. /\ c \in Seq(S)
      /\ Len(c) = Len(a) + Len(b)
      /\ \A k \in 1..Len(a) + Len(b) :
            c[k] = IF k <= Len(a) THEN a[k] ELSE b[k - Len(a)]
  BY <1>3, ConcatProperties
<1>5. i \in Nat /\ i >= 1 /\ Len(q) \in Nat /\ i <= Len(q)
  OBVIOUS
<1>6. RemoveAt(q, i) = c
  BY DEF RemoveAt, a, b
<1> HIDE DEF c
<1>7. Len(c) = Len(q) - 1
  BY <1>3, <1>4, <1>5
<1>8. ASSUME NEW k \in 1..Len(q) - 1
      PROVE  c[k] = IF k < i THEN q[k] ELSE q[k + 1]
  <2>1. /\ k \in Nat /\ 1 <= k /\ k <= Len(q) - 1
        /\ c[k] = IF k <= i - 1 THEN a[k] ELSE b[k - (i - 1)]
    <3>1. k \in Nat /\ 1 <= k /\ k <= Len(q) - 1
      BY <1>5
    <3>2. Len(a) + Len(b) = Len(q) - 1
      BY <1>3, <1>5
    <3>3. k \in 1..Len(a) + Len(b)
      BY <3>2
    <3>4. c[k] = IF k <= Len(a) THEN a[k] ELSE b[k - Len(a)]
      BY <1>4, <3>3
    <3> QED
      BY <1>3, <3>1, <3>4
  <2>2. CASE k < i
    <3>1. k \in 1..i - 1
      BY <1>5, <2>1, <2>2
    <3> QED
      BY <1>3, <1>5, <2>1, <2>2, <3>1
  <2>3. CASE ~(k < i)
    <3>1. k - (i - 1) \in 1..Len(q) - i
      BY <1>5, <2>1, <2>3
    <3>2. b[k - (i - 1)] = q[k - (i - 1) + i]
      BY <1>3, <3>1
    <3>3. k - (i - 1) + i = k + 1
      BY <1>5, <2>1
    <3> QED
      BY <1>5, <2>1, <2>3, <3>2, <3>3
  <2> QED
    BY <2>2, <2>3
<1> QED
  BY <1>4, <1>6, <1>7, <1>8

(* A task that asks goes to the end of the queue. *)
LEMMA EngineAsked ==
    ASSUME NEW q \in Seq(Request), NEW p \in [Tasks -> PCs], NEW t \in Tasks,
           EngineOK(q, p), ~InEngine(p, t),
           NEW mode \in {"read", "write"}, mode = "write" <=> t \in Reloaders
    PROVE  EngineOK(Append(q, [task |-> t, mode |-> mode]), [p EXCEPT ![t] = "engine"])
<1> DEFINE r == [task |-> t, mode |-> mode]
           q1 == Append(q, r)
           p1 == [p EXCEPT ![t] = "engine"]
<1>1. /\ DOMAIN q1 = DOMAIN q \cup {Len(q) + 1}
      /\ \A i \in DOMAIN q : q1[i] = q[i] /\ i # Len(q) + 1
      /\ q1[Len(q) + 1] = r
  BY DEF Request
<1>2. \A i \in DOMAIN q : q[i].task # t
  BY DEF EngineOK
<1>3. /\ \A i, j \in DOMAIN q1 : q1[i].task = q1[j].task => i = j
      /\ \A i \in DOMAIN q1 : q1[i].mode = "write" <=> q1[i].task \in Reloaders
  BY <1>1, <1>2 DEF EngineOK
<1>4. ASSUME NEW u \in Tasks
      PROVE  InEngine(p1, u) <=> \E i \in DOMAIN q1 : q1[i].task = u
  <2>1. CASE u = t
    BY <1>1, <2>1 DEF InEngine
  <2>2. CASE u # t
    BY <1>1, <2>2 DEF InEngine, EngineOK
  <2> QED
    BY <2>1, <2>2
<1>5. ASSUME NEW u \in Tasks, PastEngine(p1, u)
      PROVE  GotEngine(q1, u)
  <2>1. u # t /\ PastEngine(p, u)
    BY <1>5 DEF PastEngine, InEngine
  <2>2. PICK i \in DOMAIN q : /\ q[i].task = u
                              /\ i = 1 \/ \A j \in 1..i : q[j].mode = "read"
    BY <2>1 DEF EngineOK, GotEngine
  <2>3. i \in DOMAIN q1 /\ \A j \in 1..i : j \in DOMAIN q
    BY <1>1
  <2> QED
    BY <1>1, <2>2, <2>3 DEF GotEngine
<1> QED
  BY <1>3, <1>4, <1>5 DEF EngineOK

(* A step of a task that stays in the queue, or stays out of it. *)
LEMMA EngineKept ==
    ASSUME NEW q \in Seq(Request), NEW p \in [Tasks -> PCs], NEW t \in Tasks,
           EngineOK(q, p), NEW to \in PCs,
           InEngine(p, t) <=> InEngine([p EXCEPT ![t] = to], t),
           PastEngine([p EXCEPT ![t] = to], t) => GotEngine(q, t)
    PROVE  EngineOK(q, [p EXCEPT ![t] = to])
<1> DEFINE p1 == [p EXCEPT ![t] = to]
<1>1. \A u \in Tasks : u # t => p1[u] = p[u]
  OBVIOUS
<1>2. \A u \in Tasks : u # t => /\ InEngine(p1, u) <=> InEngine(p, u)
                                /\ PastEngine(p1, u) <=> PastEngine(p, u)
  BY <1>1 DEF InEngine, PastEngine
<1>3. \A u \in Tasks : InEngine(p1, u) <=> InEngine(p, u)
  BY <1>2
<1>4. \A u \in Tasks : PastEngine(p1, u) => GotEngine(q, u)
  BY <1>2 DEF EngineOK
<1> QED
  BY <1>3, <1>4 DEF EngineOK

(* The place at which a task is in the queue. *)
PlaceOf(q, t) == CHOOSE i \in DOMAIN q : q[i].task = t

LEMMA EngineDropped ==
    ASSUME NEW q \in Seq(Request), NEW p \in [Tasks -> PCs], NEW t \in Tasks,
           EngineOK(q, p), InEngine(p, t), NEW to \in PCs,
           ~InEngine([p EXCEPT ![t] = to], t)
    PROVE  /\ RemoveAt(q, PlaceOf(q, t)) \in Seq(Request)
           /\ EngineOK(RemoveAt(q, PlaceOf(q, t)), [p EXCEPT ![t] = to])
<1> DEFINE n  == PlaceOf(q, t)
           q1 == RemoveAt(q, n)
           p1 == [p EXCEPT ![t] = to]
<1>1. n \in DOMAIN q /\ q[n].task = t
  BY DEF PlaceOf, EngineOK
<1>2. /\ q1 \in Seq(Request)
      /\ Len(q1) = Len(q) - 1
      /\ \A k \in 1..Len(q) - 1 : q1[k] = IF k < n THEN q[k] ELSE q[k + 1]
  BY <1>1, RemoveAtFacts
<1> HIDE DEF n, q1
<1>3. /\ DOMAIN q = 1..Len(q) /\ Len(q) \in Nat /\ n \in 1..Len(q)
      /\ DOMAIN q1 = 1..Len(q) - 1
  BY <1>1, <1>2
<1>3a. ASSUME NEW i \in DOMAIN q1
       PROVE  \E k \in DOMAIN q : q1[i] = q[k]
  <2>1. /\ i \in 1..Len(q) - 1
        /\ q1[i] = IF i < n THEN q[i] ELSE q[i + 1]
    BY <1>2, <1>3
  <2>2. i \in DOMAIN q /\ i + 1 \in DOMAIN q
    BY <1>3, <2>1
  <2> QED
    BY <2>1, <2>2
<1>4. \A u \in Tasks : u # t => p1[u] = p[u]
  OBVIOUS
<1>5. ASSUME NEW i \in DOMAIN q1, NEW j \in DOMAIN q1, q1[i].task = q1[j].task
      PROVE  i = j
  <2> DEFINE old(k) == IF k < n THEN k ELSE k + 1
  <2>1. q[old(i)].task = q[old(j)].task /\ old(i) \in DOMAIN q /\ old(j) \in DOMAIN q
    <3>1. ASSUME NEW k \in DOMAIN q1
          PROVE  old(k) \in DOMAIN q /\ q1[k] = q[old(k)]
      BY <1>2, <1>3
    <3> HIDE DEF old
    <3> QED
      BY <1>5, <3>1
  <2>2. old(i) = old(j)
    BY <2>1 DEF EngineOK
  <2> QED
    BY <1>3, <2>2
<1>6. \A i \in DOMAIN q1 : q1[i].mode = "write" <=> q1[i].task \in Reloaders
  <2> SUFFICES ASSUME NEW i \in DOMAIN q1
               PROVE  q1[i].mode = "write" <=> q1[i].task \in Reloaders
    OBVIOUS
  <2>1. \E k \in DOMAIN q : q1[i] = q[k]
    BY <1>3a
  <2> QED
    BY <2>1 DEF EngineOK
<1>7. \A i \in DOMAIN q : i # n => q[i].task # t
  BY <1>1 DEF EngineOK
<1>8. ASSUME NEW i \in DOMAIN q1
      PROVE  q1[i].task # t
  <2>1. /\ i \in 1..Len(q) - 1
        /\ q1[i] = IF i < n THEN q[i] ELSE q[i + 1]
    BY <1>2, <1>3
  <2>2. CASE i < n
    BY <1>3, <1>7, <2>1, <2>2
  <2>3. CASE ~(i < n)
    <3>1. i + 1 \in 1..Len(q) /\ i + 1 # n
      BY <1>3, <2>1, <2>3
    <3> QED
      BY <1>3, <1>7, <2>1, <2>3, <3>1
  <2> QED
    BY <2>2, <2>3
<1>9. ASSUME NEW u \in Tasks, u # t, NEW i \in DOMAIN q, q[i].task = u
      PROVE  /\ i < n => i \in DOMAIN q1 /\ q1[i] = q[i]
             /\ i > n => i - 1 \in DOMAIN q1 /\ q1[i - 1] = q[i]
             /\ i < n \/ i > n
  BY <1>1, <1>2, <1>3, <1>9
<1>10. ASSUME NEW u \in Tasks
       PROVE  InEngine(p1, u) <=> \E i \in DOMAIN q1 : q1[i].task = u
  <2>1. CASE u = t
    BY <1>8, <2>1
  <2>2. CASE u # t
    <3>1. InEngine(p1, u) <=> InEngine(p, u)
      BY <1>4, <2>2 DEF InEngine
    <3>2. (\E i \in DOMAIN q : q[i].task = u) => \E i \in DOMAIN q1 : q1[i].task = u
      BY <1>9, <2>2
    <3>3. (\E i \in DOMAIN q1 : q1[i].task = u) => \E i \in DOMAIN q : q[i].task = u
      BY <1>3a
    <3> QED
      BY <3>1, <3>2, <3>3 DEF EngineOK
  <2> QED
    BY <2>1, <2>2
<1>11. ASSUME NEW u \in Tasks, PastEngine(p1, u)
       PROVE  GotEngine(q1, u)
  <2>1. u # t
    BY <1>11 DEF PastEngine
  <2>2. PastEngine(p, u)
    BY <1>4, <1>11, <2>1 DEF PastEngine, InEngine
  <2>3. PICK i \in DOMAIN q : /\ q[i].task = u
                              /\ i = 1 \/ \A j \in 1..i : q[j].mode = "read"
    BY <2>2 DEF EngineOK, GotEngine
  <2>4. CASE i < n
    <3>1. i \in DOMAIN q1 /\ \A j \in 1..i : q1[j] = q[j]
      BY <1>2, <1>3, <2>4
    <3> QED
      BY <2>3, <3>1 DEF GotEngine
  <2>5. CASE i > n
    <3>1. i - 1 \in DOMAIN q1 /\ q1[i - 1] = q[i]
      BY <1>9, <2>1, <2>3, <2>5
    <3>2. \A j \in 1..i : q[j].mode = "read"
      BY <1>3, <2>3, <2>5
    <3>3. \A j \in 1..i - 1 : q1[j].mode = "read"
      BY <1>2, <1>3, <3>2
    <3> QED
      BY <2>3, <3>1, <3>3 DEF GotEngine
  <2> QED
    BY <1>9, <2>1, <2>3, <2>4, <2>5
<1> QED
  BY <1>2, <1>5, <1>6, <1>10, <1>11 DEF EngineOK, n, q1

LEMMA DbAsked ==
    ASSUME NEW q \in Seq(Tasks), NEW p \in [Tasks -> PCs], NEW t \in Tasks,
           DbOK(q, p), ~InDb(p, t)
    PROVE  DbOK(Append(q, t), [p EXCEPT ![t] = "db"])
<1> DEFINE q1 == Append(q, t)
           p1 == [p EXCEPT ![t] = "db"]
<1>1. /\ DOMAIN q1 = DOMAIN q \cup {Len(q) + 1}
      /\ \A i \in DOMAIN q : q1[i] = q[i] /\ i # Len(q) + 1
      /\ q1[Len(q) + 1] = t
      /\ q # <<>> => q1 # <<>> /\ Head(q1) = Head(q)
  OBVIOUS
<1>2. \A i \in DOMAIN q : q[i] # t
  BY DEF DbOK
<1>3. \A i, j \in DOMAIN q1 : q1[i] = q1[j] => i = j
  BY <1>1, <1>2 DEF DbOK
<1>4. ASSUME NEW u \in Tasks
      PROVE  InDb(p1, u) <=> \E i \in DOMAIN q1 : q1[i] = u
  <2>1. CASE u = t
    BY <1>1, <2>1 DEF InDb
  <2>2. CASE u # t
    BY <1>1, <2>2 DEF InDb, DbOK
  <2> QED
    BY <2>1, <2>2
<1>5. \A u \in Tasks : p1[u] = "scanning" => q1 # <<>> /\ Head(q1) = u
  BY <1>1 DEF DbOK
<1> QED
  BY <1>3, <1>4, <1>5 DEF DbOK

LEMMA DbKept ==
    ASSUME NEW q \in Seq(Tasks), NEW p \in [Tasks -> PCs], NEW t \in Tasks,
           DbOK(q, p), NEW to \in PCs,
           InDb(p, t) <=> to \in {"db", "scanning"},
           to = "scanning" => q # <<>> /\ Head(q) = t
    PROVE  DbOK(q, [p EXCEPT ![t] = to])
<1> DEFINE p1 == [p EXCEPT ![t] = to]
<1>1. \A u \in Tasks : InDb(p1, u) <=> InDb(p, u)
  BY DEF InDb
<1>2. \A u \in Tasks : p1[u] = "scanning" => q # <<>> /\ Head(q) = u
  BY DEF DbOK
<1> QED
  BY <1>1, <1>2 DEF DbOK

(* Whoever gives the mutex back is the head of the queue. *)
LEMMA DbDropped ==
    ASSUME NEW q \in Seq(Tasks), NEW p \in [Tasks -> PCs], NEW t \in Tasks,
           DbOK(q, p), q # <<>>, Head(q) = t, NEW to \in PCs,
           to \notin {"db", "scanning"}
    PROVE  /\ Tail(q) \in Seq(Tasks)
           /\ DbOK(Tail(q), [p EXCEPT ![t] = to])
<1> DEFINE p1 == [p EXCEPT ![t] = to]
           q1 == Tail(q)
<1>1. /\ Len(q) \in Nat /\ Len(q) >= 1 /\ DOMAIN q = 1..Len(q)
      /\ q[1] = t
      /\ q1 \in Seq(Tasks) /\ DOMAIN q1 = 1..Len(q) - 1
      /\ \A i \in 1..Len(q) - 1 : q1[i] = q[i + 1]
  OBVIOUS
<1> HIDE DEF q1
<1>2. ASSUME NEW i \in DOMAIN q1, NEW j \in DOMAIN q1, q1[i] = q1[j]
      PROVE  i = j
  <2>1. i + 1 \in DOMAIN q /\ j + 1 \in DOMAIN q /\ q[i + 1] = q[j + 1]
    BY <1>1, <1>2
  <2>2. i + 1 = j + 1
    BY <2>1 DEF DbOK
  <2> QED
    BY <1>1, <2>2
<1>3. ASSUME NEW i \in DOMAIN q1
      PROVE  q1[i] # t
  <2>1. i + 1 \in DOMAIN q /\ i + 1 # 1 /\ 1 \in DOMAIN q
    BY <1>1
  <2>2. q[i + 1] # q[1]
    BY <2>1 DEF DbOK
  <2> QED
    BY <1>1, <2>2
<1>4. ASSUME NEW u \in Tasks
      PROVE  InDb(p1, u) <=> \E i \in DOMAIN q1 : q1[i] = u
  <2>1. CASE u = t
    BY <1>3, <2>1 DEF InDb
  <2>2. CASE u # t
    <3>1. InDb(p1, u) <=> InDb(p, u)
      BY <2>2 DEF InDb
    <3>2. ASSUME NEW i \in DOMAIN q, q[i] = u
          PROVE  \E j \in DOMAIN q1 : q1[j] = u
      <4>1. i # 1 /\ i \in 1..Len(q)
        BY <1>1, <2>2, <3>2
      <4>2. i - 1 \in 1..Len(q) - 1 /\ (i - 1) + 1 = i
        BY <1>1, <4>1
      <4>3. q1[i - 1] = q[i]
        BY <1>1, <4>2
      <4> QED
        BY <1>1, <3>2, <4>2, <4>3
    <3>3. ASSUME NEW j \in DOMAIN q1, q1[j] = u
          PROVE  \E i \in DOMAIN q : q[i] = u
      <4>1. j + 1 \in DOMAIN q /\ q[j + 1] = u
        BY <1>1, <3>3
      <4> QED
        BY <4>1
    <3> QED
      BY <3>1, <3>2, <3>3 DEF DbOK
  <2> QED
    BY <2>1, <2>2
<1>5. \A u \in Tasks : p1[u] # "scanning"
  BY DEF DbOK
<1> QED
  BY <1>1, <1>2, <1>4, <1>5 DEF DbOK, q1
-----------------------------------------------------------------------------
(* The steps *)

LEMMA Kinds ==
    /\ Tasks = {Watcher} \cup Scans \cup Statuses \cup Loggers \cup Reloaders
    /\ Watcher \notin Scans \cup Statuses \cup Loggers \cup Reloaders
    /\ \A t \in Scans : t \notin Statuses \cup Loggers \cup Reloaders
    /\ \A t \in Statuses : t \notin Loggers \cup Reloaders
    /\ \A t \in Loggers : t \notin Reloaders
BY TasksAssumption DEF Tasks

LEMMA HasIsGot == \A t \in Tasks : HasEngine(t) <=> GotEngine(engineQ, t)
BY DEF HasEngine, GotEngine

(* Nobody but readers share the engine. *)
LEMMA WriterAlone ==
    ASSUME Inv, NEW t \in Tasks, NEW r \in Reloaders, HasEngine(r), HasEngine(t)
    PROVE  t = r
<1>1. engineQ \in Seq(Request) /\ EngineOK(engineQ, pc)
  BY DEF Inv, TypeOK
<1>2. PICK i \in DOMAIN engineQ : /\ engineQ[i].task = r
                                  /\ i = 1 \/ \A j \in 1..i : engineQ[j].mode = "read"
  BY DEF HasEngine
<1>3. PICK k \in DOMAIN engineQ : /\ engineQ[k].task = t
                                  /\ k = 1 \/ \A j \in 1..k : engineQ[j].mode = "read"
  BY DEF HasEngine
<1>4. i \in 1..i /\ 1 \in 1..k
  BY <1>1, <1>2, <1>3
<1>5. engineQ[i].mode = "write"
  BY <1>1, <1>2 DEF EngineOK
<1>6. i = 1
  BY <1>2, <1>4, <1>5
<1>7. k = 1
  BY <1>3, <1>4, <1>5, <1>6
<1> QED
  BY <1>2, <1>3, <1>6, <1>7

LEMMA PlacesNext ==
    ASSUME Inv, [Next]_vars
    PROVE  pc' \in [Tasks -> PCs] /\ PlacesOK(pc')
<1>1. pc \in [Tasks -> PCs] /\ PlacesOK(pc)
  BY DEF Inv, TypeOK, PCs
<1>2. CASE UNCHANGED pc
  BY <1>1, <1>2 DEF PlacesOK
<1>3. CASE WatcherStep
  BY <1>1, <1>3, Kinds DEF WatcherStep, WatchRules, TakeEvent, IgnoreEvent,
     ProcessEvent, EndProcess, LogResults, Goes, PlacesOK, PCs
<1>4. ASSUME NEW t \in Tasks, TaskStep(t)
      PROVE  pc' \in [Tasks -> PCs] /\ PlacesOK(pc')
  <2>1. CASE AskFirst(t)
    BY <1>1, <2>1, Kinds DEF AskFirst, Locks, Goes, PlacesOK, PCs
  <2>2. CASE AskSecond(t)
    BY <1>1, <2>2, Kinds DEF AskSecond, Locks, Goes, PlacesOK, PCs
  <2>3. CASE ScanFolders(t) \/ EndScan(t) \/ AnswerStatus(t)
    BY <1>1, <2>3, Kinds DEF ScanFolders, EndScan, AnswerStatus, Locks, Goes, PlacesOK, PCs
  <2>4. CASE AskLogs(t) \/ AnswerLogs(t)
    BY <1>1, <2>4, Kinds DEF AskLogs, AnswerLogs, Goes, PlacesOK, PCs
  <2>5. CASE ReadRules(t) \/ AskReload(t) \/ Reload(t)
    BY <1>1, <2>5, Kinds DEF ReadRules, AskReload, Reload, Goes, PlacesOK, PCs
  <2> QED
    BY <1>4, <2>1, <2>2, <2>3, <2>4, <2>5 DEF TaskStep
<1> QED
  BY <1>2, <1>3, <1>4 DEF Next, Edit, Arrive, Send, vars

LEMMA EngineNext ==
    ASSUME Inv, [Next]_vars
    PROVE  engineQ' \in Seq(Request) /\ EngineOK(engineQ', pc')
<1> DEFINE Goal == engineQ' \in Seq(Request) /\ EngineOK(engineQ', pc')
<1>1. /\ engineQ \in Seq(Request) /\ pc \in [Tasks -> PCs]
      /\ EngineOK(engineQ, pc) /\ PlacesOK(pc)
  BY DEF Inv, TypeOK, PCs
<1>2. ASSUME NEW t \in Tasks, NEW mode \in {"read", "write"}, AskEngine(t, mode),
             mode = "write" <=> t \in Reloaders,
             ~InEngine(pc, t), pc' = [pc EXCEPT ![t] = "engine"]
      PROVE  Goal
  <2>1. [task |-> t, mode |-> mode] \in Request
    BY DEF Request
  <2>2. Append(engineQ, [task |-> t, mode |-> mode]) \in Seq(Request)
    BY <1>1, <2>1
  <2>3. EngineOK(Append(engineQ, [task |-> t, mode |-> mode]), [pc EXCEPT ![t] = "engine"])
    BY <1>1, <1>2, EngineAsked
  <2> QED
    BY <1>2, <2>2, <2>3 DEF AskEngine
<1>3. ASSUME NEW t \in Tasks, NEW to \in PCs, engineQ' = engineQ,
             pc' = [pc EXCEPT ![t] = to],
             InEngine(pc, t) <=> InEngine([pc EXCEPT ![t] = to], t),
             PastEngine([pc EXCEPT ![t] = to], t) => GotEngine(engineQ, t)
      PROVE  Goal
  BY <1>1, <1>3, EngineKept
<1>4. ASSUME NEW t \in Tasks, NEW to \in PCs, DropEngine(t),
             pc' = [pc EXCEPT ![t] = to], InEngine(pc, t),
             ~InEngine([pc EXCEPT ![t] = to], t)
      PROVE  Goal
  <2>1. /\ RemoveAt(engineQ, PlaceOf(engineQ, t)) \in Seq(Request)
        /\ EngineOK(RemoveAt(engineQ, PlaceOf(engineQ, t)), [pc EXCEPT ![t] = to])
    BY <1>1, <1>4, EngineDropped
  <2> QED
    BY <1>4, <2>1 DEF DropEngine, PlaceOf
<1> HIDE DEF Goal
<1>5. CASE UNCHANGED <<engineQ, pc>>
  BY <1>1, <1>5 DEF Goal
<1>6. ASSUME WatcherStep PROVE Goal
  <2> Watcher \in Tasks /\ Watcher \notin Scans \cup Statuses \cup Reloaders
    BY Kinds
  <2>1. CASE WatchRules \/ LogResults
    BY <1>1, <1>3, <2>1 DEF WatchRules, LogResults, locks, Goes, InEngine, PastEngine, PCs
  <2>2. CASE TakeEvent
    BY <1>1, <1>2, <2>2 DEF TakeEvent, Goes, InEngine
  <2>3. CASE IgnoreEvent
    BY <1>1, <1>4, <2>3 DEF IgnoreEvent, Goes, InEngine, PCs
  <2>4. CASE ProcessEvent
    BY <1>1, <1>3, <2>4, HasIsGot DEF ProcessEvent, locks, Goes, InEngine, PCs
  <2>5. CASE EndProcess
    BY <1>1, <1>4, <2>5 DEF EndProcess, Goes, InEngine, PCs
  <2> QED
    BY <1>6, <2>1, <2>2, <2>3, <2>4, <2>5 DEF WatcherStep
<1>7. ASSUME NEW t \in Tasks, TaskStep(t)
      PROVE  Goal
  <2>1. CASE AskFirst(t)
    BY <1>1, <1>2, <2>1, Kinds DEF AskFirst, Ask, Locks, Goes, InEngine
  <2>2. CASE AskSecond(t)
    BY <1>1, <1>3, <2>2, Kinds, HasIsGot
       DEF AskSecond, Ask, Has, Locks, Goes, InEngine, PCs
  <2>3. CASE ScanFolders(t)
    <3>1. /\ t \in Scans /\ pc[t] = "db" /\ pc' = [pc EXCEPT ![t] = "scanning"]
          /\ UNCHANGED engineQ
      BY <2>3 DEF ScanFolders, locks, Locks, Goes
    <3>2. PastEngine(pc, t)
      BY <3>1 DEF PastEngine, InEngine
    <3>3. GotEngine(engineQ, t)
      BY <1>1, <3>2 DEF EngineOK
    <3>4. InEngine(pc, t) /\ InEngine(pc', t) /\ "scanning" \in PCs
      BY <1>1, <3>1 DEF InEngine, PCs
    <3> QED
      BY <1>1, <1>3, <3>1, <3>3, <3>4
  <2>4. CASE EndScan(t) \/ AnswerStatus(t)
    BY <1>1, <1>4, <2>4 DEF EndScan, AnswerStatus, Locks, Goes, InEngine, PCs
  <2>5. CASE AskLogs(t) \/ AnswerLogs(t)
    BY <1>1, <1>3, <2>5, Kinds DEF AskLogs, AnswerLogs, Goes, InEngine, PastEngine, PCs
  <2>6. CASE ReadRules(t)
    BY <1>1, <1>3, <2>6, Kinds DEF ReadRules, locks, Goes, InEngine, PastEngine, PCs
  <2>7. CASE AskReload(t)
    BY <1>1, <1>2, <2>7 DEF AskReload, Goes, InEngine
  <2>8. CASE Reload(t)
    BY <1>1, <1>4, <2>8 DEF Reload, Goes, InEngine, PCs
  <2> QED
    BY <1>7, <2>1, <2>2, <2>3, <2>4, <2>5, <2>6, <2>7, <2>8 DEF TaskStep
<1> QED
  BY <1>5, <1>6, <1>7 DEF Next, Edit, Arrive, Send, vars, locks, Goal

LEMMA DbNext ==
    ASSUME Inv, [Next]_vars
    PROVE  dbQ' \in Seq(Tasks) /\ DbOK(dbQ', pc')
<1> DEFINE Goal == dbQ' \in Seq(Tasks) /\ DbOK(dbQ', pc')
<1>1. /\ dbQ \in Seq(Tasks) /\ pc \in [Tasks -> PCs]
      /\ DbOK(dbQ, pc) /\ PlacesOK(pc)
  BY DEF Inv, TypeOK, PCs
<1>2. ASSUME NEW t \in Tasks, AskDb(t), ~InDb(pc, t), pc' = [pc EXCEPT ![t] = "db"]
      PROVE  Goal
  <2>1. Append(dbQ, t) \in Seq(Tasks)
    BY <1>1
  <2>2. DbOK(Append(dbQ, t), [pc EXCEPT ![t] = "db"])
    BY <1>1, <1>2, DbAsked
  <2> QED
    BY <1>2, <2>1, <2>2 DEF AskDb
<1>3. ASSUME NEW t \in Tasks, NEW to \in PCs, dbQ' = dbQ,
             pc' = [pc EXCEPT ![t] = to],
             InDb(pc, t) <=> to \in {"db", "scanning"},
             to = "scanning" => dbQ # <<>> /\ Head(dbQ) = t
      PROVE  Goal
  BY <1>1, <1>3, DbKept
<1>4. ASSUME NEW t \in Tasks, NEW to \in PCs, DropDb, HasDb(t),
             pc' = [pc EXCEPT ![t] = to], to \notin {"db", "scanning"}
      PROVE  Goal
  <2>1. Tail(dbQ) \in Seq(Tasks) /\ DbOK(Tail(dbQ), [pc EXCEPT ![t] = to])
    BY <1>1, <1>4, DbDropped DEF HasDb
  <2> QED
    BY <1>4, <2>1 DEF DropDb
<1> HIDE DEF Goal
<1>5. ASSUME UNCHANGED <<dbQ, pc>> PROVE Goal
  BY <1>1, <1>5 DEF Goal
<1>6. ASSUME WatcherStep PROVE Goal
  <2> Watcher \in Tasks
    BY Kinds
  <2>1. CASE WatchRules \/ TakeEvent \/ IgnoreEvent \/ ProcessEvent
    BY <1>1, <1>3, <2>1 DEF WatchRules, TakeEvent, IgnoreEvent, ProcessEvent, locks,
                            Goes, InDb, PCs
  <2>2. CASE EndProcess
    BY <1>1, <1>2, <2>2 DEF EndProcess, Goes, InDb
  <2>3. CASE LogResults
    BY <1>1, <1>4, <2>3 DEF LogResults, Goes, PCs
  <2> QED
    BY <1>6, <2>1, <2>2, <2>3 DEF WatcherStep
<1>7. ASSUME NEW t \in Tasks, TaskStep(t)
      PROVE  Goal
  <2>1. CASE AskFirst(t)
    BY <1>1, <1>3, <2>1 DEF AskFirst, Ask, Locks, Goes, InDb, PCs
  <2>2. CASE AskSecond(t)
    BY <1>1, <1>2, <2>2 DEF AskSecond, Ask, Locks, Goes, InDb
  <2>3. CASE ScanFolders(t)
    BY <1>1, <1>3, <2>3 DEF ScanFolders, Has, HasDb, locks, Locks, Goes, InDb, PCs
  <2>4. CASE EndScan(t)
    <3>1. HasDb(t)
      BY <1>1, <2>4 DEF EndScan, Goes, DbOK, HasDb
    <3> QED
      BY <1>4, <2>4, <3>1 DEF EndScan, Goes, PCs
  <2>5. CASE AnswerStatus(t) \/ AnswerLogs(t)
    BY <1>1, <1>4, <2>5 DEF AnswerStatus, AnswerLogs, Has, Locks, Goes, PCs
  <2>6. CASE AskLogs(t)
    BY <1>1, <1>2, <2>6 DEF AskLogs, Goes, InDb
  <2>7. CASE ReadRules(t) \/ AskReload(t) \/ Reload(t)
    BY <1>1, <1>3, <2>7 DEF ReadRules, AskReload, Reload, locks, Goes, InDb, PCs
  <2> QED
    BY <1>7, <2>1, <2>2, <2>3, <2>4, <2>5, <2>6, <2>7 DEF TaskStep
<1> QED
  BY <1>5, <1>6, <1>7 DEF Next, Edit, Arrive, Send, vars, locks, Goal

LEMMA AnyEventType == AnyEvent \in Event
<1>1. PICK f : f \in Folders
  BY DaemonAssumption
<1>2. [folder |-> f, settled |-> 1] \in Event
  BY <1>1, DaemonAssumption DEF Event, Versions
<1> QED
  BY <1>2 DEF AnyEvent

LEMMA TypeNext ==
    ASSUME Inv, [Next]_vars
    PROVE  TypeOK'
<1>1. TypeOK
  BY DEF Inv
<1>2. engineQ' \in Seq(Request) /\ dbQ' \in Seq(Tasks) /\ pc' \in [Tasks -> PCs]
  BY EngineNext, DbNext, PlacesNext
<1> DEFINE Rest == /\ disk \in Versions /\ rules \in Versions
                   /\ reloaded \in Versions /\ settled \in Versions
                   /\ watches \subseteq Folders
                   /\ kernel \in Seq(Event) /\ channel \in Seq(Event) /\ event \in Event
                   /\ snap \in [Reloaders -> Versions]
<1>3. Rest
  BY <1>1 DEF TypeOK
<1>4. Rest'
  <2>1. CASE UNCHANGED vars
    BY <1>3, <2>1 DEF vars
  <2>2. CASE Edit
    BY <1>3, <2>2, DaemonAssumption DEF Edit, events, Versions, history
  <2>3. CASE Arrive
    <3>1. PICK f \in watches :
            kernel' = Append(kernel, [folder |-> f, settled |-> settled])
      BY <2>3 DEF Arrive
    <3>2. [folder |-> f, settled |-> settled] \in Event
      BY <1>3, <3>1 DEF Event
    <3> QED
      BY <1>3, <2>3, <3>1, <3>2 DEF Arrive, history
  <2>4. CASE Send
    BY <1>3, <2>4 DEF Send, history
  <2>5. CASE WatcherStep
    <3>1. CASE WatchRules
      BY <1>3, <3>1, DaemonAssumption DEF WatchRules, events, history
    <3>2. CASE TakeEvent
      BY <1>3, <3>2 DEF TakeEvent, history
    <3>3. CASE IgnoreEvent \/ ProcessEvent \/ EndProcess \/ LogResults
      BY <1>3, <3>3, AnyEventType DEF IgnoreEvent, ProcessEvent, EndProcess, LogResults, events, history
    <3> QED
      BY <2>5, <3>1, <3>2, <3>3 DEF WatcherStep
  <2>6. ASSUME NEW t \in Tasks, TaskStep(t)
        PROVE  Rest'
    <3>1. CASE AskFirst(t) \/ AskSecond(t) \/ ScanFolders(t) \/ EndScan(t) \/ AnswerStatus(t)
      BY <1>3, <3>1 DEF AskFirst, AskSecond, ScanFolders, EndScan, AnswerStatus, events, history
    <3>2. CASE AskLogs(t) \/ AnswerLogs(t) \/ AskReload(t)
      BY <1>3, <3>2 DEF AskLogs, AnswerLogs, AskReload, events, history
    <3>3. CASE ReadRules(t)
      BY <1>3, <3>3 DEF ReadRules, events, history
    <3>4. CASE Reload(t)
      BY <1>3, <3>4 DEF Reload, Answered, events
    <3> QED
      BY <2>6, <3>1, <3>2, <3>3, <3>4 DEF TaskStep
  <2> QED
    BY <2>1, <2>2, <2>3, <2>4, <2>5, <2>6 DEF Next
<1> QED
  BY <1>2, <1>4 DEF TypeOK, PCs
-----------------------------------------------------------------------------
(* The theorems *)

THEOREM Invariant == Spec => []Inv
<1>1. Init => Inv
  <2> SUFFICES ASSUME Init PROVE Inv
    OBVIOUS
  <2>1. 1 \in Versions
    BY DaemonAssumption DEF Versions
  <2>2. TypeOK
    BY <2>1, AnyEventType DEF Init, TypeOK, Tasks
  <2>3. PlacesOK(pc)
    BY Kinds DEF Init, PlacesOK
  <2>4. EngineOK(engineQ, pc) /\ DbOK(dbQ, pc)
    BY DEF Init, EngineOK, DbOK, InEngine, PastEngine, InDb
  <2> QED
    BY <2>2, <2>3, <2>4 DEF Inv
<1>2. Inv /\ [Next]_vars => Inv'
  BY PlacesNext, EngineNext, DbNext, TypeNext DEF Inv
<1> QED
  BY <1>1, <1>2, PTL DEF Spec

(* The state of the daemon stays well typed: in particular a lock that is
   given back had been asked for. *)
THEOREM TypeCorrect == Spec => []TypeOK
<1>1. Inv => TypeOK
  BY DEF Inv
<1> QED
  BY <1>1, Invariant, PTL

(* Scans exclude each other, at start-up, scheduled or asked for, however many
   there are. *)
THEOREM ScansAlone == Spec => []OneScan
<1>1. Inv => OneScan
  BY DEF Inv, DbOK, OneScan
<1> QED
  BY <1>1, Invariant, PTL

(* The queues for the engine and for the database are never a deadlock. *)
THEOREM DeadlockFree == Spec => []NoDeadlock
<1>1. ASSUME Inv, NEW w \in Tasks, Waiting(w)
      PROVE  \E t \in Tasks : /\ pc[t] \in {"engine", "db", "processing", "scanning"}
                              /\ ~Waiting(t)
  <2>1. /\ engineQ \in Seq(Request) /\ dbQ \in Seq(Tasks)
        /\ EngineOK(engineQ, pc) /\ DbOK(dbQ, pc)
    BY <1>1 DEF Inv, TypeOK
  <2>2. CASE dbQ # <<>>
    <3>1. Head(dbQ) \in Tasks /\ 1 \in DOMAIN dbQ /\ dbQ[1] = Head(dbQ)
      BY <2>1, <2>2
    <3>2. InDb(pc, Head(dbQ)) /\ HasDb(Head(dbQ))
      BY <2>1, <2>2, <3>1 DEF DbOK, HasDb
    <3> QED
      BY <3>1, <3>2 DEF InDb, Waiting
  <2>3. CASE dbQ = <<>>
    <3>1. \A t \in Tasks : pc[t] # "db"
      BY <2>1, <2>3 DEF DbOK, InDb
    <3>2. InEngine(pc, w)
      BY <1>1, <3>1 DEF Waiting, InEngine
    <3>3. PICK i \in DOMAIN engineQ : engineQ[i].task = w
      BY <2>1, <3>2 DEF EngineOK
    <3>4. 1 \in DOMAIN engineQ /\ engineQ[1] \in Request
      BY <2>1, <3>3
    <3> DEFINE h == engineQ[1].task
    <3>5. h \in Tasks /\ HasEngine(h) /\ InEngine(pc, h)
      BY <2>1, <3>4 DEF Request, EngineOK, HasEngine
    <3> QED
      BY <3>1, <3>5 DEF InEngine, Waiting
  <2> QED
    BY <2>2, <2>3
<1>2. Inv => NoDeadlock
  BY <1>1 DEF NoDeadlock
<1> QED
  BY <1>2, Invariant, PTL

(* Whoever goes through the engine's rules sees one set of rules to the end. *)
THEOREM ReloadsWait == Spec => RulesStable
<1>1. ASSUME Inv, [Next]_vars, rules' # rules
      PROVE  Working = {}
  <2>1. PICK r \in Reloaders : Reload(r)
    BY <1>1 DEF Next, vars, Edit, Arrive, Send, WatcherStep, WatchRules, TakeEvent,
       IgnoreEvent, ProcessEvent, EndProcess, LogResults, TaskStep, AskFirst, AskSecond,
       ScanFolders, EndScan, AnswerStatus, AskLogs, AnswerLogs, ReadRules, AskReload, Reload
  <2>2. HasEngine(r) /\ pc[r] = "engine"
    BY <2>1 DEF Reload, Goes
  <2>3. ASSUME NEW t \in Tasks, pc[t] \in {"processing", "scanning"}
        PROVE  FALSE
    <3>1. HasEngine(t)
      BY <1>1, <2>3, HasIsGot DEF Inv, EngineOK, PastEngine, InEngine
    <3>2. t = r
      BY <1>1, <2>2, <3>1, WriterAlone
    <3> QED
      BY <2>2, <2>3, <3>2
  <2> QED
    BY <2>3 DEF Working
<1>2. Inv /\ [Next]_vars => [rules' # rules => Working = {}]_vars
  BY <1>1
<1> QED
  BY <1>2, Invariant, PTL DEF Spec, RulesStable

(* Nothing older than version v is in force or on its way into the engine. *)
Lasts(v) ==
    /\ v <= rules /\ v <= disk
    /\ \A t \in Reloaders : UnderWay(t) => v <= snap[t]

(* This is so of what is settled, and of what was settled when the events that
   are still on their way, or being seen to, arrived. *)
AllLast(queue) == \A i \in DOMAIN queue : Lasts(queue[i].settled)

SettledLasts ==
    /\ rules <= disk /\ \A t \in Reloaders : UnderWay(t) => snap[t] <= disk
    /\ Lasts(settled) /\ AllLast(kernel) /\ AllLast(channel)
    /\ pc[Watcher] \in {"engine", "processing"} => Lasts(event.settled)

(* No step lets anything older in. *)
LEMMA LastsNext ==
    ASSUME Inv, SettledLasts, [Next]_vars, NEW v \in Int, Lasts(v)
    PROVE  Lasts(v)'
<1>1. /\ disk \in Int /\ rules \in Int /\ snap \in [Reloaders -> Int]
      /\ pc \in [Tasks -> PCs] /\ Watcher \in Tasks /\ Watcher \notin Reloaders
      /\ Reloaders \subseteq Tasks
  BY Kinds DEF Inv, TypeOK, PCs, Versions, Tasks
<1>2. CASE UNCHANGED vars \/ Edit \/ Arrive \/ Send
  BY <1>1, <1>2 DEF vars, Edit, Arrive, Send, Lasts, UnderWay
<1>3. CASE WatcherStep
  <2>1. UNCHANGED <<disk, rules, snap>> /\ \A t \in Reloaders : pc'[t] = pc[t]
    BY <1>1, <1>3 DEF WatcherStep, WatchRules, TakeEvent, IgnoreEvent, ProcessEvent,
                      EndProcess, LogResults, Goes
  <2> QED
    BY <2>1 DEF Lasts, UnderWay
<1>4. ASSUME NEW t \in Tasks, TaskStep(t)
      PROVE  Lasts(v)'
  <2>1. CASE ReadRules(t)
    BY <1>1, <2>1 DEF ReadRules, Goes, Lasts, UnderWay
  <2>2. CASE AskReload(t)
    BY <1>1, <2>2 DEF AskReload, Goes, Lasts, UnderWay
  <2>3. CASE Reload(t)
    BY <1>1, <2>3 DEF Reload, Goes, Lasts, UnderWay
  <2>4. CASE \/ AskFirst(t) \/ AskSecond(t) \/ ScanFolders(t) \/ EndScan(t)
             \/ AnswerStatus(t) \/ AskLogs(t) \/ AnswerLogs(t)
    <3>1. t \notin Reloaders
      BY <2>4, Kinds DEF AskFirst, AskSecond, ScanFolders, EndScan, AnswerStatus, AskLogs,
                         AnswerLogs
    <3>2. UNCHANGED <<disk, rules, snap>> /\ \A s \in Reloaders : pc'[s] = pc[s]
      BY <1>1, <2>4, <3>1 DEF AskFirst, AskSecond, ScanFolders, EndScan, AnswerStatus,
                  AskLogs, AnswerLogs, Goes
    <3> QED
      BY <3>2 DEF Lasts, UnderWay
  <2> QED
    BY <1>4, <2>1, <2>2, <2>3, <2>4 DEF TaskStep
<1> QED
  BY <1>2, <1>3, <1>4 DEF Next

(* The rules read are never newer than those on disk. *)
LEMMA ReadNext ==
    ASSUME Inv, SettledLasts, [Next]_vars
    PROVE  /\ (rules <= disk)'
           /\ (\A t \in Reloaders : UnderWay(t) => snap[t] <= disk)'
<1>1. /\ disk \in Int /\ rules \in Int /\ snap \in [Reloaders -> Int]
      /\ pc \in [Tasks -> PCs] /\ Watcher \in Tasks /\ Watcher \notin Reloaders
      /\ Reloaders \subseteq Tasks
  BY Kinds DEF Inv, TypeOK, PCs, Versions, Tasks
<1>2. CASE UNCHANGED vars \/ Edit \/ Arrive \/ Send
  BY <1>1, <1>2 DEF vars, Edit, Arrive, Send, SettledLasts, UnderWay
<1>3. CASE WatcherStep
  <2>1. UNCHANGED <<disk, rules, snap>> /\ \A t \in Reloaders : pc'[t] = pc[t]
    BY <1>1, <1>3 DEF WatcherStep, WatchRules, TakeEvent, IgnoreEvent, ProcessEvent,
                      EndProcess, LogResults, Goes
  <2> QED
    BY <2>1 DEF SettledLasts, UnderWay
<1>4. ASSUME NEW t \in Tasks, TaskStep(t)
      PROVE  /\ (rules <= disk)'
             /\ (\A s \in Reloaders : UnderWay(s) => snap[s] <= disk)'
  <2>1. CASE ReadRules(t) \/ AskReload(t)
    BY <1>1, <2>1 DEF ReadRules, AskReload, Goes, SettledLasts, UnderWay
  <2>2. CASE Reload(t)
    BY <1>1, <2>2 DEF Reload, Goes, SettledLasts, UnderWay
  <2>3. CASE \/ AskFirst(t) \/ AskSecond(t) \/ ScanFolders(t) \/ EndScan(t)
             \/ AnswerStatus(t) \/ AskLogs(t) \/ AnswerLogs(t)
    <3>1. t \notin Reloaders
      BY <2>3, Kinds DEF AskFirst, AskSecond, ScanFolders, EndScan, AnswerStatus, AskLogs,
                         AnswerLogs
    <3>2. UNCHANGED <<disk, rules, snap>> /\ \A s \in Reloaders : pc'[s] = pc[s]
      BY <1>1, <2>3, <3>1 DEF AskFirst, AskSecond, ScanFolders, EndScan, AnswerStatus,
                  AskLogs, AnswerLogs, Goes
    <3> QED
      BY <3>2 DEF SettledLasts, UnderWay
  <2> QED
    BY <1>4, <2>1, <2>2, <2>3 DEF TaskStep
<1> QED
  BY <1>2, <1>3, <1>4 DEF Next

(* What an answer settles lasts: whoever else is under way has read rules at
   least as new. *)
LEMMA SettledNext ==
    ASSUME Inv, SettledLasts, [Next]_vars
    PROVE  Lasts(settled)'
<1>1. /\ snap \in [Reloaders -> Int] /\ pc \in [Tasks -> PCs] /\ settled \in Int
      /\ Reloaders \subseteq Tasks /\ rules \in Int /\ disk \in Int
  BY DEF Inv, TypeOK, PCs, Versions, Tasks
<1>2. CASE settled' = settled
  BY <1>1, <1>2, LastsNext DEF SettledLasts, Lasts, UnderWay
<1>3. CASE settled' # settled
  <2>1. PICK t \in Reloaders : Reload(t)
    BY <1>3 DEF Next, vars, history, Edit, Arrive, Send, WatcherStep, WatchRules, TakeEvent,
       IgnoreEvent, ProcessEvent, EndProcess, LogResults, TaskStep, AskFirst, AskSecond,
       ScanFolders, EndScan, AnswerStatus, AskLogs, AnswerLogs, ReadRules, AskReload, Reload
  <2>2. /\ pc[t] = "engine" /\ pc' = [pc EXCEPT ![t] = "idle"]
        /\ rules' = snap[t] /\ UNCHANGED <<disk, snap>>
        /\ settled' = snap[t]
        /\ \A s \in Reloaders \ {t} : UnderWay(s) => snap[s] >= snap[t]
    BY <1>3, <2>1 DEF Reload, Goes, Answered
  <2> QED
    BY <1>1, <2>2 DEF SettledLasts, Lasts, UnderWay
<1> QED
  BY <1>2, <1>3

LEMMA SettledLastsNext ==
    ASSUME Inv, SettledLasts, [Next]_vars
    PROVE  SettledLasts'
<1>1. /\ kernel \in Seq(Event) /\ channel \in Seq(Event) /\ event \in Event
      /\ pc \in [Tasks -> PCs] /\ Watcher \in Tasks /\ Watcher \notin Reloaders
      /\ Reloaders \subseteq Tasks
  BY Kinds DEF Inv, TypeOK, PCs, Tasks
<1>2. \A e \in Event : e.settled \in Int
  BY DEF Event, Versions
<1>3. /\ (rules <= disk)' /\ (\A t \in Reloaders : UnderWay(t) => snap[t] <= disk)'
      /\ Lasts(settled)'
  BY ReadNext, SettledNext
(* The version that was settled when an event arrived still lasts. *)
<1>4. ASSUME NEW e \in Event, Lasts(e.settled)
      PROVE  /\ e.settled <= rules' /\ e.settled <= disk'
             /\ \A t \in Reloaders : UnderWay(t)' => e.settled <= snap'[t]
  <2>1. PICK v \in Int : v = e.settled
    BY <1>2
  <2>2. Lasts(v)'
    BY <1>4, <2>1, LastsNext
  <2> QED
    BY <2>1, <2>2 DEF Lasts
<1> DEFINE Still(e) == /\ e.settled <= rules' /\ e.settled <= disk'
                       /\ \A t \in Reloaders : UnderWay(t)' => e.settled <= snap'[t]
<1>5. /\ \A i \in DOMAIN kernel : Still(kernel[i])
      /\ \A i \in DOMAIN channel : Still(channel[i])
      /\ pc[Watcher] \in {"engine", "processing"} => Still(event)
  BY <1>1, <1>4 DEF SettledLasts, AllLast
<1>6. SUFFICES /\ \A i \in DOMAIN kernel' : Still(kernel'[i])
               /\ \A i \in DOMAIN channel' : Still(channel'[i])
               /\ pc'[Watcher] \in {"engine", "processing"} => Still(event')
  BY <1>3 DEF SettledLasts, AllLast, Lasts
<1>7. \A g : Still([folder |-> g, settled |-> settled])
           <=> /\ settled <= rules' /\ settled <= disk'
               /\ \A t \in Reloaders : UnderWay(t)' => settled <= snap'[t]
  OBVIOUS
<1> HIDE DEF Still
<1>8. CASE UNCHANGED vars \/ Edit
  BY <1>5, <1>8 DEF vars, events, Edit
<1>9. CASE Arrive
  <2>1. PICK f \in watches : kernel' = Append(kernel, [folder |-> f, settled |-> settled])
    BY <1>9 DEF Arrive
  <2>2. Still([folder |-> f, settled |-> settled])
    <3>1. settled' = settled
      BY <1>9 DEF Arrive, history
    <3> QED
      BY <1>3, <1>7, <3>1 DEF Lasts
  <2>3. \A i \in DOMAIN kernel' :
           \/ i \in DOMAIN kernel /\ kernel'[i] = kernel[i]
           \/ kernel'[i] = [folder |-> f, settled |-> settled]
    BY <1>1, <2>1
  <2>4. \A i \in DOMAIN kernel' : Still(kernel'[i])
    BY <1>5, <2>2, <2>3
  <2> QED
    BY <1>5, <1>9, <2>4 DEF Arrive
<1>10. CASE Send
  <2>1. /\ channel' = Append(channel, Head(kernel)) /\ kernel' = Tail(kernel)
        /\ kernel # <<>>
    BY <1>10 DEF Send
  <2>2. \A i \in DOMAIN kernel' : i + 1 \in DOMAIN kernel /\ kernel'[i] = kernel[i + 1]
    BY <1>1, <2>1
  <2>3. 1 \in DOMAIN kernel /\ Head(kernel) = kernel[1]
    BY <1>1, <2>1
  <2>4. \A i \in DOMAIN channel' :
           \/ i \in DOMAIN channel /\ channel'[i] = channel[i]
           \/ channel'[i] = kernel[1]
    BY <1>1, <2>1, <2>3
  <2> QED
    BY <1>5, <1>10, <2>2, <2>3, <2>4 DEF Send
<1>11. CASE WatcherStep
  <2>1. CASE TakeEvent
    <3>1. /\ channel # <<>> /\ channel' = Tail(channel) /\ event' = Head(channel)
          /\ kernel' = kernel
      BY <2>1 DEF TakeEvent
    <3>2. \A i \in DOMAIN channel' : i + 1 \in DOMAIN channel /\ channel'[i] = channel[i + 1]
      BY <1>1, <3>1
    <3>3. 1 \in DOMAIN channel /\ Head(channel) = channel[1]
      BY <1>1, <3>1
    <3> QED
      BY <1>5, <3>1, <3>2, <3>3
  <2>2. CASE ProcessEvent
    BY <1>1, <1>5, <2>2 DEF ProcessEvent, Goes, events
  <2>3. CASE WatchRules \/ IgnoreEvent \/ EndProcess \/ LogResults
    <3>1. /\ UNCHANGED <<kernel, channel>> /\ pc'[Watcher] \in {"wait", "db"}
      BY <1>1, <2>3 DEF WatchRules, IgnoreEvent, EndProcess, LogResults, Goes, events
    <3> QED
      BY <1>5, <3>1
  <2> QED
    BY <1>11, <2>1, <2>2, <2>3 DEF WatcherStep
<1>12. ASSUME NEW t \in Tasks, TaskStep(t)
       PROVE  /\ \A i \in DOMAIN kernel' : Still(kernel'[i])
              /\ \A i \in DOMAIN channel' : Still(channel'[i])
              /\ pc'[Watcher] \in {"engine", "processing"} => Still(event')
  <2>1. t # Watcher
    BY <1>12, Kinds DEF TaskStep, AskFirst, AskSecond, ScanFolders, EndScan, AnswerStatus,
                       AskLogs, AnswerLogs, ReadRules, AskReload, Reload
  <2>2. UNCHANGED events /\ pc'[Watcher] = pc[Watcher]
    BY <1>1, <1>12, <2>1 DEF TaskStep, AskFirst, AskSecond, ScanFolders, EndScan,
                 AnswerStatus, AskLogs, AnswerLogs, ReadRules, AskReload, Reload, Goes
  <2> QED
    BY <1>5, <2>2 DEF events
<1> QED
  BY <1>8, <1>9, <1>10, <1>11, <1>12 DEF Next

(* However many reloads overlap, a file that arrives after one was answered,
   when no other was under way that had read older rules, is never processed
   by older rules than that reload's. *)
THEOREM SettledRulesLast == Spec => []SettledRulesForNewFiles
<1>1. Init => SettledLasts
  <2> SUFFICES ASSUME Init PROVE SettledLasts
    OBVIOUS
  <2>1. /\ rules = 1 /\ disk = 1 /\ settled = 1 /\ kernel = <<>> /\ channel = <<>>
    BY DEF Init
  <2>2. \A t \in Reloaders : ~UnderWay(t)
    BY Kinds DEF Init, UnderWay, Tasks
  <2>3. pc[Watcher] = "start"
    BY Kinds DEF Init, Tasks
  <2> QED
    BY <2>1, <2>2, <2>3 DEF SettledLasts, Lasts, AllLast
<1>2. Inv /\ SettledLasts /\ [Next]_vars => SettledLasts'
  BY SettledLastsNext
<1>3. Inv /\ SettledLasts => SettledRulesForNewFiles
  BY DEF Inv, TypeOK, Event, Versions, SettledLasts, Lasts, SettledRulesForNewFiles
<1> QED
  BY <1>1, <1>2, <1>3, Invariant, PTL DEF Spec
=============================================================================
