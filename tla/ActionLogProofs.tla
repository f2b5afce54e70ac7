-------------------------- MODULE ActionLogProofs --------------------------
(***************************************************************************)
(* Proofs about ActionLog, for any number of daemons and tasks, with       *)
(* statements that fail, daemons that are killed and a clock that is set   *)
(* back.  What makes the properties inductive: ids are unique and no       *)
(* greater than the last one given; two tasks never log under one id; and  *)
(* the actions stored of an event that is being logged are those the task  *)
(* has counted, 1..k.                                                      *)
(***************************************************************************)
EXTENDS ActionLog, FiniteSetTheorems, TLAPS

(* The actions stored of an event. *)
Ks(as, id) == {a.k : a \in {b \in as : b.event = id}}

Tables ==
    /\ events \subseteq Row /\ IsFiniteSet(events)
    /\ actions \subseteq [event : Nat \ {0}, k : Nat \ {0}] /\ IsFiniteSet(actions)
    /\ last_id \in Nat
    /\ cut \subseteq Nat \ {0} /\ unpurged \subseteq Nat \ {0}

Others ==
    /\ clock \in 0..MaxTime /\ made \in 0..MaxResults
    /\ lock \in [Daemons -> Tasks \cup {Free}]

RowsInStep ==
    \A t \in Tasks : Writing(t) =>
        /\ task[t].row \in Row /\ task[t].row.id <= last_id
        /\ At(t, "actions") => task[t].k <= task[t].row.n

Ids ==
    /\ \A e \in events : e.id <= last_id
    /\ \A e, f \in events : e.id = f.id => e = f
    /\ \A t, u \in Tasks :
        At(t, "actions") /\ At(u, "actions") /\ task[t].row.id = task[u].row.id => t = u
    /\ \A t \in Tasks, e \in events :
        At(t, "actions") /\ task[t].row.id = e.id => task[t].row = e

Counted ==
    \A t \in Tasks :
        At(t, "actions") /\ task[t].row \in events =>
            Ks(actions, task[t].row.id) = 1..task[t].k

Whole(e) ==
    \/ \E t \in Tasks : At(t, "actions") /\ task[t].row = e
    \/ Ks(actions, e.id) = 1..e.n
    \/ e.id \in cut /\ \E m \in 0..e.n : Ks(actions, e.id) = 1..m

LogInv ==
    /\ Tables /\ RowsInStep /\ Ids /\ ActionsHaveEvents /\ Counted
    /\ \A e \in events : Whole(e)

Inv == task \in [Tasks -> TaskType] /\ Others /\ LogInv
-----------------------------------------------------------------------------
(* Types *)

LEMMA RestType == Rest \in TaskType /\ NoRow \in Row \cup {NoRow}
BY DEF Rest, TaskType

LEMMA RowOfType ==
    ASSUME NEW id \in Nat \ {0}, NEW r \in Result
    PROVE  /\ RowOf(id, r) \in Row /\ RowOf(id, r).id = id
BY DEF RowOf, Row, Result

(* A task's record stays one under the changes the actions make. *)
LEMMA Fields ==
    ASSUME NEW s \in TaskType
    PROVE  /\ s = [pc |-> s.pc, results |-> s.results, row |-> s.row, k |-> s.k,
                   excess |-> s.excess, rows |-> s.rows, view |-> s.view]
           /\ s.pc \in {"idle", "actions", "delete", "reading"}
           /\ s.results \in Seq(Result) /\ s.row \in Row \cup {NoRow}
           /\ s.k \in Nat /\ s.excess \in Nat /\ s.rows \in SUBSET Row
           /\ s.view \in SUBSET [id : Nat, n : Nat, stored : Nat]
BY DEF TaskType

LEMMA SetK ==
    ASSUME NEW s \in TaskType,
           NEW k \in Nat
    PROVE  [s EXCEPT !.k = k] \in TaskType
BY Fields DEF TaskType

LEMMA SetResults ==
    ASSUME NEW s \in TaskType,
           NEW results \in Seq(Result)
    PROVE  [s EXCEPT !.results = results] \in TaskType
BY Fields DEF TaskType

LEMMA SetExcess ==
    ASSUME NEW s \in TaskType,
           NEW p \in {"idle", "actions", "delete", "reading"},
           NEW x \in Nat
    PROVE  [s EXCEPT !.pc = p, !.excess = x] \in TaskType
BY Fields DEF TaskType

LEMMA SetPc ==
    ASSUME NEW s \in TaskType,
           NEW p \in {"idle", "actions", "delete", "reading"}
    PROVE  [s EXCEPT !.pc = p] \in TaskType
BY Fields DEF TaskType

LEMMA SetRead ==
    ASSUME NEW s \in TaskType,
           NEW rows \in SUBSET Row,
           NEW view \in SUBSET [id : Nat, n : Nat, stored : Nat]
    PROVE  [s EXCEPT !.rows = rows, !.view = view] \in TaskType
BY Fields DEF TaskType

LEMMA SetReading ==
    ASSUME NEW s \in TaskType,
           NEW p \in {"idle", "actions", "delete", "reading"},
           NEW rows \in SUBSET Row,
           NEW view \in SUBSET [id : Nat, n : Nat, stored : Nat]
    PROVE  [s EXCEPT !.pc = p, !.rows = rows, !.view = view] \in TaskType
BY Fields DEF TaskType

LEMMA SetRow ==
    ASSUME NEW s \in TaskType,
           NEW p \in {"idle", "actions", "delete", "reading"},
           NEW row \in Row \cup {NoRow},
           NEW k \in Nat,
           NEW results \in Seq(Result)
    PROVE  [s EXCEPT !.pc = p, !.row = row, !.k = k, !.results = results] \in TaskType
BY Fields DEF TaskType

LEMMA SetReturned ==
    ASSUME NEW s \in TaskType,
           NEW p \in {"idle", "actions", "delete", "reading"},
           NEW row \in Row \cup {NoRow},
           NEW k \in Nat,
           NEW x \in Nat
    PROVE  [s EXCEPT !.pc = p, !.row = row, !.k = k, !.excess = x] \in TaskType
BY Fields DEF TaskType

LEMMA TaskIsType ==
    ASSUME task \in [Tasks -> TaskType], NEW t \in Tasks, NEW s \in TaskType, TaskIs(t, s)
    PROVE  /\ task' \in [Tasks -> TaskType] /\ task'[t] = s
           /\ \A u \in Tasks : u # t => task'[u] = task[u]
BY DEF TaskIs

LEMMA ReturnType ==
    ASSUME task \in [Tasks -> TaskType], NEW t \in Tasks, Return(t)
    PROVE  /\ task' \in [Tasks -> TaskType] /\ task'[t].pc = "idle"
           /\ \A u \in Tasks : u # t => task'[u] = task[u]
<1> DEFINE s == [task[t] EXCEPT !.pc = "idle", !.row = NoRow, !.k = 0, !.excess = 0]
<1>1. s \in TaskType
  <2>1. task[t] \in TaskType /\ NoRow \in Row \cup {NoRow} /\ 0 \in Nat
    OBVIOUS
  <2> QED
    BY <2>1, SetReturned
<1>2. s.pc = "idle"
  BY Fields
<1> QED
  BY <1>1, <1>2, TaskIsType DEF Return

LEMMA NewestType ==
    ASSUME NEW k, NEW rows \in Newest(k), events \subseteq Row
    PROVE  rows \in SUBSET Row
BY DEF Newest, kSubset

LEMMA StoredType ==
    ASSUME NEW id, IsFiniteSet(actions)
    PROVE  Stored(id) \in Nat
<1> IsFiniteSet({a \in actions : a.event = id})
  BY FS_Subset
<1> QED
  BY FS_CardinalityType DEF Stored
-----------------------------------------------------------------------------
(* Steps that leave the log alone, and what is being logged. *)

Quiet ==
    /\ UNCHANGED <<events, actions, last_id, cut, unpurged>>
    /\ \A t \in Tasks : \/ task'[t].pc \notin {"actions", "delete"} /\ ~At(t, "actions")
                        \/ /\ task'[t].pc = task[t].pc /\ task'[t].row = task[t].row
                           /\ task'[t].k = task[t].k

LEMMA QuietStep ==
    ASSUME LogInv, Quiet
    PROVE  LogInv'
<1>1. \A t \in Tasks : At(t, "actions")' <=> At(t, "actions")
  BY DEF Quiet, At
<1>2. \A t \in Tasks : At(t, "actions") => task'[t].row = task[t].row /\ task'[t].k = task[t].k
  BY DEF Quiet, At
<1>3. \A t \in Tasks : Writing(t)' => Writing(t) /\ task'[t].row = task[t].row
                                                 /\ task'[t].k = task[t].k
  BY DEF Quiet, Writing, At
<1>4. Tables' /\ ActionsHaveEvents'
  BY DEF Quiet, LogInv, Tables, ActionsHaveEvents
<1>5. RowsInStep'
  BY <1>1, <1>3 DEF Quiet, LogInv, RowsInStep
<1>6. Ids'
  BY <1>1, <1>2 DEF Quiet, LogInv, Ids
<1>7. Counted'
  BY <1>1, <1>2 DEF Quiet, LogInv, Counted
<1>8. (\A e \in events : Whole(e))'
  BY <1>1, <1>2 DEF Quiet, LogInv, Whole
<1> QED
  BY <1>4, <1>5, <1>6, <1>7, <1>8 DEF LogInv
-----------------------------------------------------------------------------
(* Steps that take tasks out of the actions they were inserting, with all of
   them in or with the event noted as cut short. *)

LEMMA StopStep ==
    ASSUME task \in [Tasks -> TaskType], LogInv, NEW S \in SUBSET Tasks,
           UNCHANGED <<events, actions, last_id>>,
           cut \subseteq cut', cut' \subseteq Nat \ {0}, unpurged' \subseteq Nat \ {0},
           \A u \in Tasks \ S : task'[u] = task[u],
           \A u \in S : task'[u].pc # "actions",
           \A u \in S : Writing(u)' => Writing(u) /\ task'[u].row = task[u].row,
           \A u \in S : At(u, "actions") => \/ task[u].k = task[u].row.n
                                            \/ task[u].row.id \in cut'
    PROVE  LogInv'
<1>1. \A u \in Tasks : At(u, "actions")' => /\ At(u, "actions") /\ task'[u] = task[u]
                                            /\ u \notin S
  BY DEF At
<1>2. \A u \in Tasks : At(u, "actions") => u \in S \/ task'[u] = task[u]
  OBVIOUS
<1>3. \A u \in Tasks : Writing(u)' => Writing(u) /\ task'[u].row = task[u].row
  BY DEF Writing
<1>4. Tables' /\ ActionsHaveEvents'
  BY DEF LogInv, Tables, ActionsHaveEvents
<1>5. RowsInStep' /\ Ids' /\ Counted'
  BY <1>1, <1>3 DEF LogInv, RowsInStep, Ids, Counted
<1>6. (\A e \in events : Whole(e))'
  <2> SUFFICES ASSUME NEW e \in events PROVE Whole(e)'
    OBVIOUS
  <2>1. CASE \E u \in S : At(u, "actions") /\ task[u].row = e
    <3>1. PICK u \in S : At(u, "actions") /\ task[u].row = e
      BY <2>1
    <3>2. Ks(actions, e.id) = 1..task[u].k
      BY <3>1 DEF LogInv, Counted
    <3>3. task[u].k \in Nat
      BY <3>1, Fields
    <3>4. e.n \in Nat /\ task[u].k <= e.n
      BY <3>1 DEF LogInv, RowsInStep, Writing, At, Row
    <3> QED
      BY <3>1, <3>2, <3>3, <3>4 DEF Whole
  <2>2. CASE ~\E u \in S : At(u, "actions") /\ task[u].row = e
    BY <2>2 DEF LogInv, Whole, At
  <2> QED
    BY <2>1, <2>2
<1> QED
  BY <1>4, <1>5, <1>6 DEF LogInv
-----------------------------------------------------------------------------
(* The statements of log_result *)

LEMMA KsAdd ==
    ASSUME NEW as, NEW new, NEW i
    PROVE  Ks(as \cup {new}, i)
             = IF i = new.event THEN Ks(as, i) \cup {new.k} ELSE Ks(as, i)
<1>1. CASE i = new.event
  <2>1. {b \in as \cup {new} : b.event = i} = {b \in as : b.event = i} \cup {new}
    BY <1>1
  <2> QED
    BY <1>1, <2>1 DEF Ks
<1>2. CASE i # new.event
  <2>1. {b \in as \cup {new} : b.event = i} = {b \in as : b.event = i}
    BY <1>2
  <2> QED
    BY <1>2, <2>1 DEF Ks
<1> QED
  BY <1>1, <1>2

LEMMA InsertEventStep ==
    ASSUME Inv, NEW t \in Tasks, InsertEvent(t)
    PROVE  task' \in [Tasks -> TaskType] /\ LogInv'
<1> DEFINE r    == Head(task[t].results)
           rest == Tail(task[t].results)
           row  == RowOf(last_id + 1, r)
           s    == [task[t] EXCEPT !.pc = "actions", !.row = row, !.k = 0, !.results = rest]
           s2   == [task[t] EXCEPT !.results = rest]
<1>1. /\ task \in [Tasks -> TaskType] /\ LogInv
      /\ At(t, "idle") /\ task[t].results # <<>>
  BY DEF Inv, InsertEvent
<1>2. task[t] \in TaskType /\ task[t].results \in Seq(Result)
  BY <1>1, Fields
<1>3. r \in Result /\ rest \in Seq(Result) /\ last_id + 1 \in Nat \ {0} /\ last_id \in Nat
  BY <1>1, <1>2 DEF LogInv, Tables
<1>4. row \in Row /\ row.id = last_id + 1
  BY <1>3, RowOfType
<1>5. s \in TaskType /\ s2 \in TaskType
  BY <1>2, <1>3, <1>4, SetRow, SetResults
<1>6. s.pc = "actions" /\ s.row = row /\ s.k = 0
  BY <1>2, Fields
<1>7. s2.pc = task[t].pc /\ s2.row = task[t].row /\ s2.k = task[t].k
  BY <1>2, Fields
<1> HIDE DEF row, s, s2
<1>8. CASE TaskIs(t, s2) /\ UNCHANGED <<events, last_id>>
  <2>1. task' \in [Tasks -> TaskType] /\ task'[t] = s2 /\ \A u \in Tasks : u # t => task'[u] = task[u]
    BY <1>1, <1>5, <1>8, TaskIsType
  <2>2. Quiet
    BY <1>7, <1>8, <2>1 DEF Quiet, InsertEvent
  <2> QED
    BY <1>1, <2>1, <2>2, QuietStep
<1>9. CASE events' = events \cup {row} /\ last_id' = row.id /\ TaskIs(t, s)
  <2>1. task' \in [Tasks -> TaskType] /\ task'[t] = s /\ \A u \in Tasks : u # t => task'[u] = task[u]
    BY <1>1, <1>5, <1>9, TaskIsType
  <2>2. UNCHANGED <<actions, cut, unpurged>>
    BY DEF InsertEvent
  <2>3. \A e \in events : e.id \in Nat /\ e.id <= last_id
    BY <1>1 DEF LogInv, Tables, Ids, Row
  <2>4. Tables'
    BY <1>1, <1>3, <1>4, <1>9, <2>2, FS_AddElement DEF LogInv, Tables
  <2>5. RowsInStep'
    <3> SUFFICES ASSUME NEW u \in Tasks, Writing(u)'
                 PROVE  /\ task'[u].row \in Row /\ task'[u].row.id <= last_id'
                        /\ At(u, "actions")' => task'[u].k <= task'[u].row.n
      BY DEF RowsInStep
    <3>1. CASE u = t
      <4>1. row.n \in Nat
        BY <1>4 DEF Row
      <4> QED
        BY <1>3, <1>4, <1>6, <1>9, <2>1, <3>1, <4>1
    <3>2. CASE u # t
      <4>1. /\ task[u].row \in Row /\ task[u].row.id <= last_id
            /\ At(u, "actions") => task[u].k <= task[u].row.n
        BY <1>1, <2>1, <3>2 DEF LogInv, RowsInStep, Writing, At
      <4>2. task[u].row.id \in Nat
        BY <4>1 DEF Row
      <4> QED
        BY <1>3, <1>4, <1>9, <2>1, <3>2, <4>1, <4>2 DEF At
    <3> QED
      BY <3>1, <3>2
  <2>6. \A u \in Tasks : u # t /\ At(u, "actions")' =>
            /\ At(u, "actions") /\ task'[u].row = task[u].row /\ task'[u].k = task[u].k
            /\ task[u].row \in Row /\ task[u].row.id \in Nat /\ task[u].row.id <= last_id
    BY <1>1, <2>1 DEF LogInv, RowsInStep, Writing, At, Row
  <2>7. Ids'
    <3>1. (\A e \in events : e.id <= last_id)'
      BY <1>3, <1>4, <1>9, <2>3
    <3>2. (\A e, f \in events : e.id = f.id => e = f)'
      BY <1>1, <1>3, <1>4, <1>9, <2>3 DEF LogInv, Ids
    <3>3. ASSUME NEW u \in Tasks, NEW v \in Tasks, At(u, "actions")', At(v, "actions")',
                 task'[u].row.id = task'[v].row.id
          PROVE  u = v
      <4>1. CASE u # t /\ v # t
        BY <1>1, <2>6, <3>3, <4>1 DEF LogInv, Ids
      <4>2. CASE u = t \/ v = t
        BY <1>3, <1>4, <1>6, <2>1, <2>6, <3>3, <4>2
      <4> QED
        BY <4>1, <4>2
    <3>4. ASSUME NEW u \in Tasks, NEW e \in events', At(u, "actions")', task'[u].row.id = e.id
          PROVE  task'[u].row = e
      <4>1. CASE u = t
        <5>1. task'[u].row = row /\ e.id = last_id + 1
          BY <1>4, <1>6, <2>1, <3>4, <4>1
        <5>2. e \notin events
          BY <1>3, <2>3, <5>1
        <5> QED
          BY <1>9, <5>1, <5>2
      <4>2. CASE u # t
        <5>1. e.id = task[u].row.id /\ e.id <= last_id /\ e.id \in Nat
          BY <2>6, <3>4, <4>2
        <5>2. e \in events
          BY <1>3, <1>4, <1>9, <5>1
        <5>3. task[u].row = e
          BY <1>1, <2>6, <3>4, <4>2, <5>1, <5>2 DEF LogInv, Ids
        <5> QED
          BY <2>6, <3>4, <4>2, <5>3
      <4> QED
        BY <4>1, <4>2
    <3> QED
      BY <3>1, <3>2, <3>3, <3>4 DEF Ids
  <2>8. ActionsHaveEvents'
    BY <1>1, <1>9, <2>2 DEF LogInv, ActionsHaveEvents
  <2>9. Ks(actions, last_id + 1) = {}
    BY <1>1, <1>3, <2>3 DEF LogInv, ActionsHaveEvents, Ks
  <2>10. Counted'
    <3> SUFFICES ASSUME NEW u \in Tasks, At(u, "actions")', task'[u].row \in events'
                 PROVE  Ks(actions', task'[u].row.id) = 1..task'[u].k
      BY DEF Counted
    <3>1. CASE u = t
      <4>1. task'[u].row.id = last_id + 1 /\ task'[u].k = 0
        BY <1>4, <1>6, <2>1, <3>1
      <4>2. 1..0 = {}
        OBVIOUS
      <4> QED
        BY <2>2, <2>9, <4>1, <4>2
    <3>2. CASE u # t
      BY <1>1, <1>3, <1>4, <1>9, <2>2, <2>6, <3>2 DEF LogInv, Counted
    <3> QED
      BY <3>1, <3>2
  <2>11. (\A e \in events : Whole(e))'
    <3> SUFFICES ASSUME NEW e \in events' PROVE Whole(e)'
      OBVIOUS
    <3>1. CASE e = row
      BY <1>6, <2>1, <3>1 DEF Whole, At
    <3>2. CASE e \in events
      <4>1. \A u \in Tasks : At(u, "actions") => u # t
        BY <1>1 DEF At
      <4> QED
        BY <1>1, <2>1, <2>2, <3>2, <4>1 DEF LogInv, Whole, At
    <3> QED
      BY <1>9, <3>1, <3>2
  <2> QED
    BY <2>1, <2>4, <2>5, <2>7, <2>8, <2>10, <2>11 DEF LogInv
<1> QED
  BY <1>8, <1>9 DEF InsertEvent, row, s, s2

LEMMA InsertActionStep ==
    ASSUME Inv, NEW t \in Tasks, InsertAction(t)
    PROVE  task' \in [Tasks -> TaskType] /\ LogInv'
<1> DEFINE id == task[t].row.id
           k  == task[t].k
           s  == [task[t] EXCEPT !.k = k + 1]
<1>1. /\ task \in [Tasks -> TaskType] /\ LogInv
      /\ task[t].pc = "actions" /\ k < task[t].row.n
      /\ UNCHANGED <<events, last_id>>
  BY DEF Inv, InsertAction, At
<1>2. task[t] \in TaskType /\ k \in Nat
  BY <1>1, Fields
<1>3. /\ task[t].row \in Row /\ id \in Nat \ {0} /\ task[t].row.n \in Nat /\ id <= last_id
  BY <1>1 DEF LogInv, RowsInStep, Writing, Row
<1>4. CASE /\ \E e \in events : e.id = id
           /\ actions' = actions \cup {[event |-> id, k |-> k + 1]}
           /\ TaskIs(t, s)
           /\ UNCHANGED <<cut, unpurged>>
  <2>1. s \in TaskType /\ s.pc = "actions" /\ s.row = task[t].row /\ s.k = k + 1
    <3>1. k + 1 \in Nat
      BY <1>2
    <3>2. s \in TaskType
      BY <1>2, <3>1, SetK
    <3> QED
      BY <1>1, <1>2, <3>2, Fields
  <2> HIDE DEF s
  <2>2. task' \in [Tasks -> TaskType] /\ task'[t] = s /\ \A u \in Tasks : u # t => task'[u] = task[u]
    BY <1>1, <1>4, <2>1, TaskIsType
  <2>3. \A u \in Tasks : /\ At(u, "actions")' <=> At(u, "actions")
                         /\ Writing(u)' <=> Writing(u)
                         /\ task'[u].row = task[u].row
    BY <1>1, <2>1, <2>2 DEF At, Writing
  <2>4. \A i : Ks(actions', i) = IF i = id THEN Ks(actions, i) \cup {k + 1} ELSE Ks(actions, i)
    <3> DEFINE new == [event |-> id, k |-> k + 1]
    <3>1. new.event = id /\ new.k = k + 1
      OBVIOUS
    <3>2. actions' = actions \cup {new}
      BY <1>4
    <3> HIDE DEF new
    <3>3. ASSUME NEW i
          PROVE  Ks(actions \cup {new}, i)
                   = IF i = new.event THEN Ks(actions, i) \cup {new.k} ELSE Ks(actions, i)
      BY KsAdd
    <3> QED
      BY <3>1, <3>2, <3>3
  <2>5. task[t].row \in events
    BY <1>1, <1>4 DEF LogInv, Ids, At
  <2>6. Ks(actions', id) = 1..k + 1
    <3>1. Ks(actions, id) = 1..k
      BY <1>1, <2>5 DEF LogInv, Counted, At
    <3>2. (1..k) \cup {k + 1} = 1..k + 1
      BY <1>2
    <3> QED
      BY <2>4, <3>1, <3>2
  <2>7. Tables'
    <3>1. [event |-> id, k |-> k + 1] \in [event : Nat \ {0}, k : Nat \ {0}]
      BY <1>2, <1>3
    <3> QED
      BY <1>1, <1>4, <3>1, FS_AddElement DEF LogInv, Tables
  <2>8. RowsInStep'
    <3> SUFFICES ASSUME NEW u \in Tasks, Writing(u)
                 PROVE  /\ task[u].row \in Row /\ task[u].row.id <= last_id
                        /\ At(u, "actions") => task'[u].k <= task[u].row.n
      BY <1>1, <2>3 DEF RowsInStep
    <3>1. /\ task[u].row \in Row /\ task[u].row.id <= last_id
          /\ At(u, "actions") => task[u].k <= task[u].row.n
      BY <1>1 DEF LogInv, RowsInStep
    <3>2. u = t => task'[u].k <= task[u].row.n
      BY <1>1, <1>2, <1>3, <2>1, <2>2
    <3> QED
      BY <2>2, <3>1, <3>2
  <2>9. Ids'
    BY <1>1, <2>3 DEF LogInv, Ids
  <2>10. ActionsHaveEvents'
    BY <1>1, <1>4 DEF LogInv, ActionsHaveEvents
  <2>11. Counted'
    <3> SUFFICES ASSUME NEW u \in Tasks, At(u, "actions"), task[u].row \in events
                 PROVE  Ks(actions', task[u].row.id) = 1..task'[u].k
      BY <1>1, <2>3 DEF Counted
    <3>1. CASE u = t
      BY <2>1, <2>2, <2>6, <3>1
    <3>2. CASE u # t
      <4>1. task[u].row.id # id
        BY <1>1, <3>2 DEF LogInv, Ids, At
      <4> QED
        BY <1>1, <2>2, <2>4, <3>2, <4>1 DEF LogInv, Counted
    <3> QED
      BY <3>1, <3>2
  <2>12. (\A e \in events : Whole(e))'
    <3> SUFFICES ASSUME NEW e \in events PROVE Whole(e)'
      BY <1>1
    <3>1. CASE e.id = id
      <4>1. task[t].row = e
        BY <1>1, <3>1 DEF LogInv, Ids, At
      <4> QED
        BY <1>1, <2>3, <4>1 DEF Whole, At
    <3>2. CASE e.id # id
      BY <1>1, <1>4, <2>3, <2>4, <3>2 DEF LogInv, Whole
    <3> QED
      BY <3>1, <3>2
  <2> QED
    BY <2>2, <2>7, <2>8, <2>9, <2>10, <2>11, <2>12 DEF LogInv
<1>5. CASE ReturnEarly(t) /\ cut' = cut \cup {id} /\ UNCHANGED actions
  <2>1. /\ task' \in [Tasks -> TaskType] /\ task'[t].pc = "idle"
        /\ \A u \in Tasks : u # t => task'[u] = task[u]
    BY <1>1, <1>5, ReturnType DEF ReturnEarly
  <2>2. unpurged' = unpurged \cup {id}
    BY <1>5 DEF ReturnEarly
  <2>3. cut' \subseteq Nat \ {0} /\ unpurged' \subseteq Nat \ {0}
    BY <1>1, <1>3, <1>5, <2>2 DEF LogInv, Tables
  <2>4. ~Writing(t)'
    BY <2>1 DEF Writing
  <2>5. LogInv'
    <3> DEFINE S == {t}
    <3>1. /\ \A u \in Tasks \ S : task'[u] = task[u]
          /\ \A u \in S : task'[u].pc # "actions"
          /\ \A u \in S : Writing(u)' => Writing(u) /\ task'[u].row = task[u].row
          /\ \A u \in S : At(u, "actions") => task[u].k = task[u].row.n \/ task[u].row.id \in cut'
      BY <1>5, <2>1, <2>4
    <3>2. S \in SUBSET Tasks
      OBVIOUS
    <3> HIDE DEF S
    <3> QED
      BY <1>1, <1>5, <2>3, <3>1, <3>2, StopStep
  <2> QED
    BY <2>1, <2>5
<1> QED
  BY <1>4, <1>5 DEF InsertAction

LEMMA CountEventsStep ==
    ASSUME Inv, NEW t \in Tasks, CountEvents(t)
    PROVE  task' \in [Tasks -> TaskType] /\ LogInv'
<1> DEFINE n == Cardinality(events)
           s == [task[t] EXCEPT !.pc = "delete", !.excess = n - max_entries]
<1>1. /\ task \in [Tasks -> TaskType] /\ LogInv /\ task[t].pc = "actions"
      /\ task[t].k = task[t].row.n /\ UNCHANGED <<events, actions, last_id, cut>>
  BY DEF Inv, CountEvents, At
<1>2. n \in Nat
  BY <1>1, FS_CardinalityType DEF LogInv, Tables
<1>3. task[t].row \in Row /\ task[t].row.id \in Nat \ {0}
  BY <1>1 DEF LogInv, RowsInStep, Writing, Row
<1>4. /\ task' \in [Tasks -> TaskType]
      /\ \A u \in Tasks : u # t => task'[u] = task[u]
      /\ task'[t].pc # "actions"
      /\ task'[t].pc = "delete" => task'[t].row = task[t].row
  <2>1. CASE n > max_entries /\ TaskIs(t, s)
    <3>1. task[t] \in TaskType /\ n - max_entries \in Nat
      BY <1>1, <1>2, <2>1, LogAssumption
    <3>2. s \in TaskType
      BY <3>1, SetExcess
    <3>3. s.pc = "delete" /\ s.row = task[t].row
      BY <3>1, Fields
    <3> HIDE DEF s
    <3> QED
      BY <1>1, <2>1, <3>2, <3>3, TaskIsType
  <2>2. CASE Return(t)
    BY <1>1, <2>2, ReturnType
  <2> QED
    BY <2>1, <2>2 DEF CountEvents, ReturnEarly
<1>5. cut' \subseteq Nat \ {0} /\ unpurged' \subseteq Nat \ {0}
  BY <1>1, <1>3 DEF LogInv, Tables, CountEvents, ReturnEarly
<1>6. LogInv'
  <2> DEFINE S == {t}
  <2>1. /\ \A u \in Tasks \ S : task'[u] = task[u]
        /\ \A u \in S : task'[u].pc # "actions"
        /\ \A u \in S : Writing(u)' => Writing(u) /\ task'[u].row = task[u].row
        /\ \A u \in S : At(u, "actions") => task[u].k = task[u].row.n \/ task[u].row.id \in cut'
    BY <1>1, <1>4 DEF Writing
  <2>2. S \in SUBSET Tasks /\ cut \subseteq cut'
    BY <1>1
  <2> HIDE DEF S
  <2> QED
    BY <1>1, <1>5, <2>1, <2>2, StopStep
<1> QED
  BY <1>4, <1>6

(* What is left of the events has its actions still. *)
LEMMA KsCascade ==
    ASSUME Ids, NEW gone \in SUBSET events, NEW e \in events, e \notin gone
    PROVE  Ks(actions \ Cascade(gone), e.id) = Ks(actions, e.id)
<1>1. \A f \in gone : f.id # e.id
  BY DEF Ids
<1>2. {a \in actions \ Cascade(gone) : a.event = e.id} = {a \in actions : a.event = e.id}
  BY <1>1 DEF Cascade
<1> QED
  BY <1>2 DEF Ks

LEMMA DeleteOldestStep ==
    ASSUME Inv, NEW t \in Tasks, DeleteOldest(t)
    PROVE  task' \in [Tasks -> TaskType] /\ LogInv'
<1>1. /\ task \in [Tasks -> TaskType] /\ LogInv /\ task[t].pc = "delete"
      /\ UNCHANGED <<last_id, cut>> /\ Return(t)
  BY DEF Inv, DeleteOldest, At, ReturnEarly
<1>2. /\ task' \in [Tasks -> TaskType] /\ task'[t].pc = "idle"
      /\ \A u \in Tasks : u # t => task'[u] = task[u]
  BY <1>1, ReturnType
<1>3. task[t].row \in Row /\ task[t].row.id \in Nat \ {0}
  BY <1>1 DEF LogInv, RowsInStep, Writing, Row
<1>4. unpurged' \subseteq Nat \ {0}
  BY <1>1, <1>3 DEF LogInv, Tables, DeleteOldest, ReturnEarly
<1>5. \A u \in Tasks : /\ At(u, "actions")' <=> At(u, "actions")
                       /\ Writing(u)' => Writing(u)
                       /\ Writing(u)' => task'[u] = task[u]
  BY <1>1, <1>2 DEF At, Writing
<1>6. PICK gone \in SUBSET events : /\ events' = events \ gone
                                   /\ actions' = actions \ Cascade(gone)
  <2>1. CASE UNCHANGED <<events, actions>>
    <3>1. events' = events \ {} /\ actions' = actions \ Cascade({}) /\ {} \in SUBSET events
      BY <2>1 DEF Cascade
    <3> QED
      BY <3>1
  <2>2. CASE \E gone \in Oldest(task[t].excess) :
                events' = events \ gone /\ actions' = actions \ Cascade(gone)
    BY <2>2 DEF Oldest, kSubset
  <2> QED
    BY <2>1, <2>2 DEF DeleteOldest
<1>7. \A e \in events' : e \in events /\ Ks(actions', e.id) = Ks(actions, e.id)
  BY <1>1, <1>6, KsCascade DEF LogInv
<1>8. Tables'
  <2>1. IsFiniteSet(events') /\ IsFiniteSet(actions')
    BY <1>1, <1>6, FS_Subset DEF LogInv, Tables
  <2> QED
    BY <1>1, <1>4, <1>6, <2>1 DEF LogInv, Tables
<1>9. RowsInStep'
  BY <1>1, <1>5 DEF LogInv, RowsInStep, At
<1>10. \A u \in Tasks : At(u, "actions")' => task'[u] = task[u]
  BY <1>5 DEF Writing, At
<1>11. Ids'
  BY <1>1, <1>5, <1>7, <1>10 DEF LogInv, Ids
<1>12. ActionsHaveEvents'
  BY <1>1, <1>6 DEF LogInv, ActionsHaveEvents, Cascade
<1>13. Counted'
  BY <1>1, <1>5, <1>7, <1>10 DEF LogInv, Counted
<1>14. (\A e \in events : Whole(e))'
  <2> SUFFICES ASSUME NEW e \in events' PROVE Whole(e)'
    OBVIOUS
  <2>1. Whole(e) /\ Ks(actions', e.id) = Ks(actions, e.id)
    BY <1>1, <1>7 DEF LogInv
  <2>2. \A u \in Tasks : At(u, "actions") => At(u, "actions")' /\ task'[u] = task[u]
    BY <1>5, <1>10
  <2> QED
    BY <1>1, <2>1, <2>2 DEF Whole
<1> QED
  BY <1>2, <1>8, <1>9, <1>11, <1>12, <1>13, <1>14 DEF LogInv

LEMMA CrashStep ==
    ASSUME Inv, NEW d \in Daemons, Crash(d)
    PROVE  task' \in [Tasks -> TaskType] /\ LogInv'
<1> DEFINE S == {t \in Tasks : Home[t] = d}
<1>1. /\ task \in [Tasks -> TaskType] /\ LogInv
      /\ task' = [t \in Tasks |-> IF t \in S THEN Rest ELSE task[t]]
      /\ cut' = cut \cup {task[t].row.id : t \in {u \in S : At(u, "actions")}}
      /\ unpurged' = unpurged \cup {task[t].row.id : t \in {u \in S : Writing(u)}}
      /\ UNCHANGED <<events, actions, last_id>>
  BY DEF Inv, Crash
<1>2. S \in SUBSET Tasks
  OBVIOUS
<1> HIDE DEF S
<1>3. task' \in [Tasks -> TaskType]
  BY <1>1, RestType
<1>4. \A u \in S : task'[u].pc = "idle" /\ ~Writing(u)'
  BY <1>1, <1>2 DEF Rest, Writing
<1>5. \A u \in Tasks : Writing(u) => task[u].row.id \in Nat \ {0}
  BY <1>1 DEF LogInv, RowsInStep, Row
<1>6. \A u \in Tasks : At(u, "actions") => Writing(u)
  BY DEF At, Writing
<1>7. /\ cut' \subseteq Nat \ {0} /\ unpurged' \subseteq Nat \ {0} /\ cut \subseteq cut'
      /\ \A u \in S : At(u, "actions") => task[u].row.id \in cut'
  BY <1>1, <1>2, <1>5, <1>6 DEF LogInv, Tables
<1>8. \A u \in Tasks \ S : task'[u] = task[u]
  BY <1>1
<1>9. LogInv'
  BY <1>1, <1>2, <1>4, <1>7, <1>8, StopStep
<1> QED
  BY <1>3, <1>9
-----------------------------------------------------------------------------
(* The rest of a task's steps *)

LEMMA QuietTask ==
    ASSUME task \in [Tasks -> TaskType], LogInv, NEW t \in Tasks, NEW s \in TaskType,
           TaskIs(t, s), task[t].pc \in {"idle", "reading"}, s.pc \in {"idle", "reading"},
           UNCHANGED tables
    PROVE  task' \in [Tasks -> TaskType] /\ LogInv'
<1>1. /\ task' \in [Tasks -> TaskType] /\ task'[t] = s
      /\ \A u \in Tasks : u # t => task'[u] = task[u]
  BY TaskIsType
<1>2. Quiet
  BY <1>1 DEF Quiet, At, tables
<1> QED
  BY <1>1, <1>2, QuietStep

LEMMA ProduceStep ==
    ASSUME Inv, NEW t \in Tasks, Produce(t)
    PROVE  task' \in [Tasks -> TaskType] /\ Others' /\ LogInv'
<1>1. /\ task \in [Tasks -> TaskType] /\ LogInv /\ Others /\ task[t].pc = "idle"
      /\ made < MaxResults /\ made' = made + 1 /\ UNCHANGED <<tables, clock, lock>>
  BY DEF Inv, Produce, At
<1>2. Others'
  BY <1>1, LogAssumption DEF Others
<1>3. PICK n \in 0..MaxActs :
        TaskIs(t, [task[t] EXCEPT !.results =
            Append(@, [no |-> made + 1, ts |-> clock, n |-> n])])
  BY DEF Produce
<1> DEFINE r == [no |-> made + 1, ts |-> clock, n |-> n]
           s == [task[t] EXCEPT !.results = Append(task[t].results, r)]
<1>4. r \in Result
  BY <1>1, LogAssumption DEF Others, Result
<1>5. task[t] \in TaskType /\ task[t].results \in Seq(Result)
  BY <1>1, Fields
<1> HIDE DEF r
<1>6. Append(task[t].results, r) \in Seq(Result)
  BY <1>4, <1>5
<1>7. s \in TaskType /\ s.pc = "idle"
  <2>1. s \in TaskType
    BY <1>5, <1>6, SetResults
  <2>2. s.pc = task[t].pc
    BY <1>5, Fields
  <2> QED
    BY <1>1, <2>1, <2>2
<1>8. TaskIs(t, s)
  BY <1>3 DEF r
<1> HIDE DEF s
<1>9. UNCHANGED tables
  BY <1>1
<1> QED
  BY <1>1, <1>2, <1>7, <1>8, <1>9, QuietTask

LEMMA ReadRowsStep ==
    ASSUME Inv, NEW t \in Tasks, ReadRows(t)
    PROVE  task' \in [Tasks -> TaskType] /\ LogInv'
<1>1. /\ task \in [Tasks -> TaskType] /\ LogInv /\ task[t].pc = "idle" /\ UNCHANGED tables
  BY DEF Inv, ReadRows, At
<1>2. PICK rows \in Newest(Limit) :
        TaskIs(t, [task[t] EXCEPT !.pc = "reading", !.rows = rows, !.view = {}])
  BY DEF ReadRows
<1> DEFINE s == [task[t] EXCEPT !.pc = "reading", !.rows = rows, !.view = {}]
<1>3. task[t] \in TaskType
  BY <1>1
<1>4. rows \in SUBSET Row
  BY <1>1, <1>2, NewestType DEF LogInv, Tables
<1>5. s \in TaskType
  BY <1>3, <1>4, SetReading
<1>6. s.pc = "reading"
  BY <1>3, Fields
<1>7. TaskIs(t, s)
  BY <1>2
<1> HIDE DEF s
<1> QED
  BY <1>1, <1>5, <1>6, <1>7, QuietTask

LEMMA ReadActionsStep ==
    ASSUME Inv, NEW t \in Tasks, ReadActions(t)
    PROVE  task' \in [Tasks -> TaskType] /\ LogInv'
<1>1. /\ task \in [Tasks -> TaskType] /\ LogInv /\ task[t].pc = "reading" /\ UNCHANGED tables
  BY DEF Inv, ReadActions, At
<1>2. task[t] \in TaskType
  BY <1>1
<1>3. CASE TaskIs(t, [task[t] EXCEPT !.pc = "idle"])
  <2> DEFINE s == [task[t] EXCEPT !.pc = "idle"]
  <2>1. s \in TaskType /\ s.pc = "idle"
    <3>1. s \in TaskType
      BY <1>2, SetPc
    <3>2. s.pc = "idle"
      BY <1>2, Fields
    <3> QED
      BY <3>1, <3>2
  <2>2. TaskIs(t, s)
    BY <1>3
  <2> HIDE DEF s
  <2> QED
    BY <1>1, <2>1, <2>2, QuietTask
<1>4. ASSUME NEW e \in task[t].rows,
             TaskIs(t, [task[t] EXCEPT !.rows = task[t].rows \ {e},
                !.view = task[t].view \cup
                    {[id |-> e.id, n |-> e.n, stored |-> Stored(e.id)]}])
      PROVE  task' \in [Tasks -> TaskType] /\ LogInv'
  <2> DEFINE rows == task[t].rows \ {e}
             seen == [id |-> e.id, n |-> e.n, stored |-> Stored(e.id)]
             view == task[t].view \cup {seen}
             s    == [task[t] EXCEPT !.rows = rows, !.view = view]
  <2>1. rows \in SUBSET Row /\ e \in Row
    BY <1>2, Fields
  <2>2. Stored(e.id) \in Nat
    BY <1>1, StoredType DEF LogInv, Tables
  <2>3. seen \in [id : Nat, n : Nat, stored : Nat]
    BY <2>1, <2>2 DEF Row
  <2> HIDE DEF seen
  <2>4. view \in SUBSET [id : Nat, n : Nat, stored : Nat]
    BY <1>2, <2>3, Fields
  <2> HIDE DEF rows, view
  <2>5. s \in TaskType /\ s.pc = "reading"
    <3>1. s \in TaskType
      BY <1>2, <2>1, <2>4, SetRead
    <3>2. s.pc = task[t].pc
      BY <1>2, Fields
    <3> QED
      BY <1>1, <3>1, <3>2
  <2>6. TaskIs(t, s)
    BY <1>4 DEF rows, view, seen
  <2> HIDE DEF s
  <2> QED
    BY <1>1, <2>5, <2>6, QuietTask
<1> QED
  BY <1>3, <1>4 DEF ReadActions

LEMMA LockType ==
    ASSUME lock \in [Daemons -> Tasks \cup {Free}], NEW d \in Daemons,
           NEW o \in Tasks \cup {Free}
    PROVE  [lock EXCEPT ![d] = o] \in [Daemons -> Tasks \cup {Free}]
OBVIOUS

LEMMA OthersStep ==
    ASSUME Inv, Next
    PROVE  Others'
<1>1. Others /\ Home \in [Tasks -> Daemons]
  BY LogAssumption DEF Inv
<1>2. CASE Tick
  BY <1>1, <1>2 DEF Tick, Others
<1>3. ASSUME NEW d \in Daemons, Crash(d) PROVE Others'
  BY <1>1, <1>3, LockType DEF Crash, Others
<1>4. ASSUME NEW t \in Tasks, Produce(t) PROVE Others'
  BY <1>4, ProduceStep
<1>5. ASSUME NEW t \in Tasks, Lock(t) \/ Unlock(t) PROVE Others'
  BY <1>1, <1>5, LockType DEF Lock, Unlock, Others
<1>6. ASSUME NEW t \in Tasks, ReadActions(t) PROVE Others'
  BY <1>1, <1>6, LockType DEF ReadActions, Others
<1>7. ASSUME NEW t \in Tasks,
             \/ ReadRows(t) \/ InsertEvent(t) \/ InsertAction(t) \/ CountEvents(t)
             \/ DeleteOldest(t)
      PROVE  Others'
  BY <1>1, <1>7 DEF ReadRows, InsertEvent, InsertAction, CountEvents, DeleteOldest, Others
<1> QED
  BY <1>2, <1>3, <1>4, <1>5, <1>6, <1>7 DEF Next, TaskStep

LEMMA InitInv == Init => Inv
<1> SUFFICES ASSUME Init PROVE Inv
  OBVIOUS
<1>1. task \in [Tasks -> TaskType]
  BY RestType DEF Init
<1>2. \A t \in Tasks : ~Writing(t) /\ ~At(t, "actions")
  BY DEF Init, Rest, Writing, At
<1>3. Others
  BY LogAssumption DEF Init, Others
<1>4. Tables
  BY FS_EmptySet DEF Init, Tables
<1>5. /\ RowsInStep /\ Ids /\ ActionsHaveEvents /\ Counted
      /\ \A e \in events : Whole(e)
  BY <1>2 DEF Init, RowsInStep, Ids, ActionsHaveEvents, Counted
<1> QED
  BY <1>1, <1>3, <1>4, <1>5 DEF Inv, LogInv

LEMMA NextInv ==
    ASSUME Inv, [Next]_vars
    PROVE  Inv'
<1>1. task \in [Tasks -> TaskType] /\ LogInv
  BY DEF Inv
<1>2. CASE UNCHANGED vars
  <2>1. Quiet
    BY <1>2 DEF vars, Quiet
  <2>2. task' \in [Tasks -> TaskType] /\ Others'
    BY <1>2 DEF vars, Inv, Others
  <2> QED
    BY <1>1, <2>1, <2>2, QuietStep DEF Inv
<1>3. CASE Next
  <2>1. ASSUME UNCHANGED <<tables, task>> PROVE task' \in [Tasks -> TaskType] /\ LogInv'
    <3>1. Quiet
      BY <2>1 DEF Quiet, tables
    <3> QED
      BY <1>1, <2>1, <3>1, QuietStep
  <2>2. task' \in [Tasks -> TaskType] /\ LogInv'
    <3>1. CASE Tick \/ \E t \in Tasks : Lock(t) \/ Unlock(t)
      BY <2>1, <3>1 DEF Tick, Lock, Unlock
    <3>2. CASE \E t \in Tasks : Produce(t) \/ ReadRows(t) \/ ReadActions(t)
      BY <3>2, ProduceStep, ReadRowsStep, ReadActionsStep
    <3>3. CASE \E t \in Tasks :
                \/ InsertEvent(t) \/ InsertAction(t) \/ CountEvents(t) \/ DeleteOldest(t)
      BY <3>3, InsertEventStep, InsertActionStep, CountEventsStep, DeleteOldestStep
    <3>4. CASE \E d \in Daemons : Crash(d)
      BY <3>4, CrashStep
    <3> QED
      BY <1>3, <3>1, <3>2, <3>3, <3>4 DEF Next, TaskStep
  <2> QED
    BY <1>3, <2>2, OthersStep DEF Inv
<1> QED
  BY <1>2, <1>3
-----------------------------------------------------------------------------
(* The inductive invariant: ids are unique, an event that is being logged has
   the actions its task has counted, and every other one has all of its
   actions or was cut short (db.rs:44-77). *)
THEOREM Invariant == Spec => []Inv
BY InitInv, NextInv, PTL DEF Spec

(* Every variable keeps its type: ids are given once and counts never negative
   (db.rs:44-77, 144-157). *)
THEOREM TypeCorrect == Spec => []TypeOK
<1>1. Inv => TypeOK
  BY DEF Inv, Others, LogInv, Tables, TypeOK
<1> QED
  BY <1>1, Invariant, PTL

(* However many daemons log and purge, and wherever they fail or die, no action
   is left without its event (db.rs:18). *)
THEOREM ActionsBelong == Spec => []ActionsHaveEvents
<1>1. Inv => ActionsHaveEvents
  BY DEF Inv, LogInv
<1> QED
  BY <1>1, Invariant, PTL

LEMMA CountTo ==
    ASSUME NEW m \in Nat
    PROVE  Cardinality(1..m) = m
<1>1. Cardinality(1..m) = IF 1 > m THEN 0 ELSE m - 1 + 1
  BY FS_Interval
<1> QED
  BY <1>1

(* What the log has of a result is its first actions, all of them unless the
   logging was cut short, and never another result's (db.rs:56-72). *)
THEOREM Prefixes == Spec => []PrefixOfResult
<1>1. ASSUME Inv PROVE PrefixOfResult
  <2> SUFFICES ASSUME NEW e \in events
               PROVE  /\ Ks(actions, e.id) = 1..Cardinality(Ks(actions, e.id))
                      /\ Cardinality(Ks(actions, e.id)) <= e.n
                      /\ \/ Cardinality(Ks(actions, e.id)) = e.n
                         \/ e.id \in cut
                         \/ \E t \in Tasks : At(t, "actions") /\ task[t].row = e
    BY DEF PrefixOfResult, Ks
  <2>1. e.n \in Nat /\ Whole(e)
    BY <1>1 DEF Inv, LogInv, Tables, Row
  <2>2. PICK m \in Nat : /\ Ks(actions, e.id) = 1..m /\ m <= e.n
                         /\ \/ m = e.n \/ e.id \in cut
                            \/ \E t \in Tasks : At(t, "actions") /\ task[t].row = e
    <3>1. CASE \E t \in Tasks : At(t, "actions") /\ task[t].row = e
      <4>1. PICK t \in Tasks : At(t, "actions") /\ task[t].row = e
        BY <3>1
      <4>2. task[t].k \in Nat
        BY <1>1, Fields DEF Inv
      <4>3. task[t].k <= e.n
        BY <1>1, <4>1 DEF Inv, LogInv, RowsInStep, Writing, At
      <4>4. Ks(actions, e.id) = 1..task[t].k
        BY <1>1, <4>1 DEF Inv, LogInv, Counted
      <4> QED
        BY <3>1, <4>2, <4>3, <4>4
    <3>2. CASE Ks(actions, e.id) = 1..e.n
      BY <2>1, <3>2
    <3>3. CASE e.id \in cut /\ \E m \in 0..e.n : Ks(actions, e.id) = 1..m
      BY <2>1, <3>3
    <3> QED
      BY <2>1, <3>1, <3>2, <3>3 DEF Whole
  <2>3. Cardinality(1..m) = m
    BY CountTo
  <2> QED
    BY <2>2, <2>3
<1> QED
  BY <1>1, Invariant, PTL
-----------------------------------------------------------------------------
(* What the actions do to a task's record. *)

OthersRest(t) == \A u \in Tasks : u # t => task'[u] = task[u]

LEMMA ReturnEffect ==
    ASSUME task \in [Tasks -> TaskType], NEW t \in Tasks, Return(t)
    PROVE  /\ task'[t].pc = "idle" /\ task'[t].results = task[t].results
           /\ task'[t].view = task[t].view
           /\ OthersRest(t)
<1> DEFINE s == [task[t] EXCEPT !.pc = "idle", !.row = NoRow, !.k = 0, !.excess = 0]
<1>1. task[t] \in TaskType
  OBVIOUS
<1>2. s.pc = "idle" /\ s.results = task[t].results /\ s.view = task[t].view
  BY <1>1, Fields
<1>3. task'[t] = s /\ \A u \in Tasks : u # t => task'[u] = task[u]
  BY DEF Return, TaskIs
<1> QED
  BY <1>2, <1>3 DEF OthersRest

LEMMA InsertEventEffect ==
    ASSUME Inv, NEW t \in Tasks, InsertEvent(t)
    PROVE  /\ Holds(t) /\ task[t].pc = "idle" /\ OthersRest(t)
           /\ task[t].results # <<>> /\ task'[t].results = Tail(task[t].results)
           /\ task'[t].view = task[t].view
           /\ UNCHANGED <<actions, cut, unpurged, clock, made, lock>>
           /\ \/ task'[t].pc = "idle" /\ UNCHANGED <<events, last_id>>
              \/ /\ task'[t].pc = "actions"
                 /\ task'[t].row = RowOf(last_id + 1, Head(task[t].results))
                 /\ events' = events \cup {task'[t].row}
<1> DEFINE row == RowOf(last_id + 1, Head(task[t].results))
           rest == Tail(task[t].results)
           s  == [task[t] EXCEPT !.pc = "actions", !.row = row, !.k = 0, !.results = rest]
           s2 == [task[t] EXCEPT !.results = rest]
<1>1. task \in [Tasks -> TaskType] /\ task[t] \in TaskType
  BY DEF Inv
<1>2. s.pc = "actions" /\ s.row = row /\ s.results = rest /\ s.view = task[t].view
  BY <1>1, Fields
<1>3. s2.pc = task[t].pc /\ s2.results = rest /\ s2.view = task[t].view
  BY <1>1, Fields
<1> HIDE DEF row, rest
<1>4. \/ /\ task'[t] = s /\ \A u \in Tasks : u # t => task'[u] = task[u]
         /\ events' = events \cup {row}
      \/ /\ task'[t] = s2 /\ \A u \in Tasks : u # t => task'[u] = task[u]
         /\ UNCHANGED <<events, last_id>>
  BY <1>1 DEF InsertEvent, TaskIs, row, rest
<1> HIDE DEF s, s2
<1> QED
  BY <1>2, <1>3, <1>4 DEF InsertEvent, At, OthersRest, row, rest

LEMMA InsertActionEffect ==
    ASSUME Inv, NEW t \in Tasks, InsertAction(t)
    PROVE  /\ task[t].pc = "actions" /\ OthersRest(t)
           /\ task'[t].results = task[t].results /\ task'[t].view = task[t].view
           /\ UNCHANGED <<events, last_id, clock, made, lock>>
           /\ \/ /\ task'[t].pc = "actions" /\ task'[t].row = task[t].row
                 /\ actions' = actions \cup {[event |-> task[t].row.id, k |-> task[t].k + 1]}
                 /\ UNCHANGED <<cut, unpurged>>
              \/ /\ task'[t].pc = "idle" /\ UNCHANGED actions /\ cut \subseteq cut'
                 /\ unpurged' = unpurged \cup {task[t].row.id}
                 /\ MayFail \/ task[t].row \notin events
<1> DEFINE s == [task[t] EXCEPT !.k = task[t].k + 1]
<1>1. task \in [Tasks -> TaskType] /\ task[t] \in TaskType
  BY DEF Inv
<1>2. /\ s.pc = task[t].pc /\ s.row = task[t].row
      /\ s.results = task[t].results /\ s.view = task[t].view
  BY <1>1, Fields
<1>3. CASE TaskIs(t, s)
           /\ actions' = actions \cup {[event |-> task[t].row.id, k |-> task[t].k + 1]}
           /\ UNCHANGED <<cut, unpurged>>
  <2>1. task'[t] = s /\ \A u \in Tasks : u # t => task'[u] = task[u]
    BY <1>1, <1>3 DEF TaskIs
  <2> HIDE DEF s
  <2> QED
    BY <1>2, <1>3, <2>1 DEF InsertAction, At, OthersRest
<1>4. CASE /\ MayFail \/ \A e \in events : e.id # task[t].row.id
           /\ Return(t) /\ UNCHANGED actions /\ cut \subseteq cut'
           /\ unpurged' = unpurged \cup {task[t].row.id}
  BY <1>1, <1>4, ReturnEffect DEF InsertAction, At
<1> QED
  BY <1>3, <1>4 DEF InsertAction, ReturnEarly

LEMMA CountEventsEffect ==
    ASSUME Inv, NEW t \in Tasks, CountEvents(t)
    PROVE  /\ task[t].pc = "actions" /\ task[t].k = task[t].row.n /\ OthersRest(t)
           /\ task'[t].results = task[t].results /\ task'[t].view = task[t].view
           /\ UNCHANGED <<events, actions, last_id, cut, clock, made, lock>>
           /\ \/ /\ task'[t].pc = "delete" /\ task'[t].row = task[t].row
                 /\ Cardinality(events) > max_entries
                 /\ task'[t].excess = Cardinality(events) - max_entries
                 /\ UNCHANGED unpurged
              \/ /\ task'[t].pc = "idle"
                 /\ \/ MayFail /\ unpurged' = unpurged \cup {task[t].row.id}
                    \/ Cardinality(events) <= max_entries /\ UNCHANGED unpurged
<1> DEFINE s == [task[t] EXCEPT !.pc = "delete", !.excess = Cardinality(events) - max_entries]
<1>1. task \in [Tasks -> TaskType] /\ task[t] \in TaskType
  BY DEF Inv
<1>2. /\ s.pc = "delete" /\ s.row = task[t].row /\ s.excess = Cardinality(events) - max_entries
      /\ s.results = task[t].results /\ s.view = task[t].view
  BY <1>1, Fields
<1>3. CASE TaskIs(t, s) /\ Cardinality(events) > max_entries /\ UNCHANGED unpurged
  <2>1. task'[t] = s /\ \A u \in Tasks : u # t => task'[u] = task[u]
    BY <1>1, <1>3 DEF TaskIs
  <2> HIDE DEF s
  <2> QED
    BY <1>2, <1>3, <2>1 DEF CountEvents, At, OthersRest
<1>4. CASE /\ Return(t)
           /\ \/ MayFail /\ unpurged' = unpurged \cup {task[t].row.id}
              \/ Cardinality(events) <= max_entries /\ UNCHANGED unpurged
  BY <1>1, <1>4, ReturnEffect DEF CountEvents, At
<1> QED
  BY <1>3, <1>4 DEF CountEvents, ReturnEarly

LEMMA DeleteOldestEffect ==
    ASSUME Inv, NEW t \in Tasks, DeleteOldest(t)
    PROVE  /\ task[t].pc = "delete" /\ task'[t].pc = "idle" /\ OthersRest(t)
           /\ task'[t].results = task[t].results /\ task'[t].view = task[t].view
           /\ UNCHANGED <<last_id, cut, clock, made, lock>>
           /\ \/ /\ MayFail /\ UNCHANGED <<events, actions>>
                 /\ unpurged' = unpurged \cup {task[t].row.id}
              \/ /\ \E gone \in Oldest(task[t].excess) :
                       events' = events \ gone /\ actions' = actions \ Cascade(gone)
                 /\ UNCHANGED unpurged
  BY ReturnEffect DEF Inv, DeleteOldest, ReturnEarly, At

LEMMA ProduceEffect ==
    ASSUME Inv, NEW t \in Tasks, Produce(t)
    PROVE  /\ task[t].pc = "idle" /\ task'[t].pc = "idle" /\ OthersRest(t)
           /\ \E r \in Result : /\ r.no = made + 1
                                /\ task'[t].results = Append(task[t].results, r)
           /\ made' = made + 1 /\ task'[t].view = task[t].view
           /\ UNCHANGED <<events, actions, last_id, cut, unpurged, clock, lock>>
<1>1. task \in [Tasks -> TaskType] /\ task[t] \in TaskType /\ Others
  BY DEF Inv
<1>2. PICK n \in 0..MaxActs :
        TaskIs(t, [task[t] EXCEPT !.results =
            Append(@, [no |-> made + 1, ts |-> clock, n |-> n])])
  BY DEF Produce
<1> DEFINE r == [no |-> made + 1, ts |-> clock, n |-> n]
           results == Append(task[t].results, r)
           s == [task[t] EXCEPT !.results = results]
<1>3. r \in Result /\ r.no = made + 1
  BY <1>1, LogAssumption DEF Others, Result, Produce
<1> HIDE DEF r, results
<1>4. s.pc = task[t].pc /\ s.results = results /\ s.view = task[t].view
  BY <1>1, Fields
<1>5. task'[t] = s /\ \A u \in Tasks : u # t => task'[u] = task[u]
  BY <1>1, <1>2 DEF TaskIs, r, results
<1> HIDE DEF s
<1> QED
  BY <1>3, <1>4, <1>5 DEF Produce, At, OthersRest, results, tables

LEMMA ReadRowsEffect ==
    ASSUME Inv, NEW t \in Tasks, ReadRows(t)
    PROVE  /\ Holds(t) /\ task[t].pc = "idle" /\ task'[t].pc = "reading" /\ OthersRest(t)
           /\ task'[t].rows \subseteq events /\ task'[t].view = {}
           /\ task'[t].results = task[t].results
           /\ UNCHANGED <<events, actions, last_id, cut, unpurged, clock, made, lock>>
<1>1. task \in [Tasks -> TaskType] /\ task[t] \in TaskType
  BY DEF Inv
<1>2. PICK rows \in Newest(Limit) :
        TaskIs(t, [task[t] EXCEPT !.pc = "reading", !.rows = rows, !.view = {}])
  BY DEF ReadRows
<1> DEFINE s == [task[t] EXCEPT !.pc = "reading", !.rows = rows, !.view = {}]
<1>3. s.pc = "reading" /\ s.rows = rows /\ s.view = {} /\ s.results = task[t].results
  BY <1>1, Fields
<1>4. task'[t] = s /\ \A u \in Tasks : u # t => task'[u] = task[u]
  BY <1>1, <1>2 DEF TaskIs
<1> HIDE DEF s
<1>5. rows \subseteq events
  BY <1>2 DEF Newest, kSubset
<1> QED
  BY <1>3, <1>4, <1>5 DEF ReadRows, At, OthersRest, tables

LEMMA ReadActionsEffect ==
    ASSUME Inv, NEW t \in Tasks, ReadActions(t)
    PROVE  /\ task[t].pc = "reading" /\ OthersRest(t)
           /\ task'[t].results = task[t].results
           /\ UNCHANGED <<events, actions, last_id, cut, unpurged, clock, made>>
           /\ \/ /\ task'[t].pc = "idle" /\ task'[t].view = task[t].view
                 /\ lock' = [lock EXCEPT ![Home[t]] = Free]
              \/ /\ task'[t].pc = "reading" /\ UNCHANGED lock
                 /\ task'[t].rows \subseteq task[t].rows
                 /\ \E e \in task[t].rows :
                       task'[t].view = task[t].view \cup
                           {[id |-> e.id, n |-> e.n, stored |-> Stored(e.id)]}
<1>1. task \in [Tasks -> TaskType] /\ task[t] \in TaskType
  BY DEF Inv
<1>2. task[t].pc = "reading" /\ UNCHANGED <<events, actions, last_id, cut, unpurged, clock, made>>
  BY DEF ReadActions, At, tables
<1>3. CASE TaskIs(t, [task[t] EXCEPT !.pc = "idle"]) /\ lock' = [lock EXCEPT ![Home[t]] = Free]
  <2> DEFINE s == [task[t] EXCEPT !.pc = "idle"]
  <2>1. s.pc = "idle" /\ s.view = task[t].view /\ s.results = task[t].results
    BY <1>1, Fields
  <2>2. task'[t] = s /\ \A u \in Tasks : u # t => task'[u] = task[u]
    BY <1>1, <1>3 DEF TaskIs
  <2> HIDE DEF s
  <2> QED
    BY <1>2, <1>3, <2>1, <2>2 DEF OthersRest
<1>4. ASSUME NEW e \in task[t].rows, UNCHANGED lock,
             TaskIs(t, [task[t] EXCEPT !.rows = task[t].rows \ {e},
                !.view = task[t].view \cup
                    {[id |-> e.id, n |-> e.n, stored |-> Stored(e.id)]}])
      PROVE  /\ OthersRest(t) /\ task'[t].results = task[t].results
             /\ task'[t].pc = "reading" /\ task'[t].rows \subseteq task[t].rows
             /\ task'[t].view = task[t].view \cup
                    {[id |-> e.id, n |-> e.n, stored |-> Stored(e.id)]}
  <2> DEFINE rows == task[t].rows \ {e}
             view == task[t].view \cup {[id |-> e.id, n |-> e.n, stored |-> Stored(e.id)]}
             s    == [task[t] EXCEPT !.rows = rows, !.view = view]
  <2>1. task'[t] = s /\ \A u \in Tasks : u # t => task'[u] = task[u]
    BY <1>1, <1>4 DEF TaskIs
  <2>2. rows \subseteq task[t].rows
    OBVIOUS
  <2> HIDE DEF rows, view
  <2>3. /\ s.pc = task[t].pc /\ s.rows = rows /\ s.view = view
        /\ s.results = task[t].results
    BY <1>1, Fields
  <2> HIDE DEF s
  <2> QED
    BY <1>2, <2>1, <2>2, <2>3 DEF OthersRest, view
<1> QED
  BY <1>2, <1>3, <1>4 DEF ReadActions
-----------------------------------------------------------------------------
(***************************************************************************)
(* The log stays within its limit, for any number of daemons and tasks.    *)
(* A task that deletes works with a count that may be out of date by then. *)
(* What saves the limit: of every such task it is true at any time that    *)
(* what it is going to leave is no more than the limit, the other results  *)
(* being logged and those that were never purged.                          *)
(***************************************************************************)

Writers == {t \in Tasks : Writing(t)}

(* How many entries there may be. *)
Allowance == max_entries + Cardinality(Writers) + Cardinality(unpurged)

Once ==
    /\ IsFiniteSet(Writers) /\ IsFiniteSet(unpurged)
    /\ \A i \in unpurged : i <= last_id
    /\ \A t \in Writers : task[t].row.id \notin unpurged
    /\ \A t, u \in Writers : task[t].row.id = task[u].row.id => t = u

Slack ==
    \A t \in Tasks :
        At(t, "delete") => /\ task[t].excess > 0
                           /\ Cardinality(events) - task[t].excess <= Allowance - 1

BoundInv == Inv /\ Once /\ Slack /\ Cardinality(events) <= Allowance
-----------------------------------------------------------------------------
LEMMA Numbered ==
    ASSUME BoundInv
    PROVE  /\ task \in [Tasks -> TaskType] /\ last_id \in Nat /\ events \subseteq Row
           /\ max_entries \in Nat /\ Cardinality(events) \in Nat /\ IsFiniteSet(events)
           /\ Cardinality(Writers) \in Nat /\ Cardinality(unpurged) \in Nat
           /\ unpurged \subseteq Nat \ {0}
           /\ \A t \in Writers : /\ task[t].row \in Row /\ task[t].row.id \in Nat
                                 /\ task[t].row.id <= last_id
           /\ \A t \in Tasks : task[t].excess \in Nat
<1>1. /\ task \in [Tasks -> TaskType] /\ last_id \in Nat /\ events \subseteq Row
      /\ IsFiniteSet(events) /\ unpurged \subseteq Nat \ {0}
  BY DEF BoundInv, Inv, LogInv, Tables
<1>2. max_entries \in Nat /\ Cardinality(events) \in Nat
  BY <1>1, LogAssumption, FS_CardinalityType
<1>3. Cardinality(Writers) \in Nat /\ Cardinality(unpurged) \in Nat
  BY FS_CardinalityType DEF BoundInv, Once
<1>4. \A t \in Writers : task[t].row \in Row /\ task[t].row.id <= last_id
  BY DEF BoundInv, Inv, LogInv, RowsInStep, Writers
<1>5. \A t \in Tasks : task[t].excess \in Nat
  BY <1>1, Fields
<1> QED
  BY <1>1, <1>2, <1>3, <1>4, <1>5 DEF Row

(* Steps that change neither the events nor who writes what. *)
LEMMA CalmStep ==
    ASSUME BoundInv, Inv', UNCHANGED <<events, last_id, unpurged>>,
           \A u \in Tasks :
              /\ Writing(u)' <=> Writing(u)
              /\ Writing(u) => task'[u].row = task[u].row
              /\ At(u, "delete")' => At(u, "delete") /\ task'[u].excess = task[u].excess
    PROVE  BoundInv'
<1>1. Writers' = Writers
  BY DEF Writers
<1>2. Allowance' = Allowance
  BY <1>1 DEF Allowance
<1>3. Once'
  BY <1>1 DEF BoundInv, Once, Writers
<1>4. Slack' /\ (Cardinality(events) <= Allowance)'
  BY <1>2 DEF BoundInv, Slack
<1> QED
  BY <1>3, <1>4 DEF BoundInv

(* A result more to log is an event more. *)
LEMMA InsertEventBound ==
    ASSUME BoundInv, Inv', NEW t \in Tasks, InsertEvent(t)
    PROVE  BoundInv'
<1>1. /\ task[t].pc = "idle" /\ OthersRest(t) /\ UNCHANGED unpurged
      /\ \/ task'[t].pc = "idle" /\ UNCHANGED <<events, last_id>>
         \/ /\ task'[t].pc = "actions"
            /\ task'[t].row = RowOf(last_id + 1, Head(task[t].results))
            /\ events' = events \cup {task'[t].row}
  BY InsertEventEffect DEF BoundInv
<1>2. CASE task'[t].pc = "idle" /\ UNCHANGED <<events, last_id>>
  BY <1>1, <1>2, CalmStep DEF OthersRest, Writing, At
<1>3. CASE /\ task'[t].pc = "actions"
           /\ task'[t].row = RowOf(last_id + 1, Head(task[t].results))
           /\ events' = events \cup {task'[t].row}
  <2>1. Writers' = Writers \cup {t} /\ t \notin Writers
    <3>1. ~Writing(t) /\ Writing(t)'
      BY <1>1, <1>3 DEF Writing
    <3>2. \A u \in Tasks : u # t => (Writing(u)' <=> Writing(u))
      BY <1>1 DEF Writing, OthersRest
    <3> QED
      BY <3>1, <3>2 DEF Writers
  <2>2. IsFiniteSet(Writers') /\ Cardinality(Writers') = Cardinality(Writers) + 1
    <3>1. IsFiniteSet(Writers)
      BY DEF BoundInv, Once
    <3> QED
      BY <2>1, <3>1, FS_AddElement
  <2>3. Cardinality(events') <= Cardinality(events) + 1
    <3> DEFINE row == task'[t].row
    <3>1. IsFiniteSet(events) /\ Cardinality(events) \in Nat
      BY Numbered
    <3>2. Cardinality(events \cup {row})
            = IF row \in events THEN Cardinality(events) ELSE Cardinality(events) + 1
      BY <3>1, FS_AddElement
    <3> QED
      BY <1>3, <3>1, <3>2
  <2>4. Cardinality(events') \in Nat
    BY FS_CardinalityType DEF Inv, LogInv, Tables
  <2>5. Allowance' = Allowance + 1
    BY <1>1, <2>2, Numbered DEF Allowance
  <2>6. task'[t].row.id = last_id + 1 /\ last_id' = last_id + 1
    <3>1. task'[t].row.id = last_id + 1
      BY <1>3 DEF RowOf
    <3>2. task'[t].row.id <= last_id'
      BY <1>3 DEF Inv, LogInv, RowsInStep, Writing
    <3>3. UNCHANGED <<events, last_id>> \/ last_id' = last_id + 1
      BY DEF InsertEvent, RowOf
    <3> QED
      BY <3>1, <3>2, <3>3, Numbered
  <2>7. \A u \in Writers : task'[u] = task[u]
    BY <1>1, <2>1 DEF OthersRest, Writers
  <2>8. Once'
    <3>1. \A i \in unpurged' : i <= last_id' /\ i # last_id + 1
      BY <1>1, <2>6, Numbered DEF BoundInv, Once
    <3>2. \A u \in Writers : task'[u].row.id \notin unpurged' /\ task'[u].row.id # last_id + 1
      BY <1>1, <2>7, Numbered DEF BoundInv, Once
    <3>3. \A u, v \in Writers : task'[u].row.id = task'[v].row.id => u = v
      BY <2>7 DEF BoundInv, Once
    <3>4. \A u, v \in Writers' : task'[u].row.id = task'[v].row.id => u = v
      BY <2>1, <2>6, <3>2, <3>3
    <3>5. \A u \in Writers' : task'[u].row.id \notin unpurged'
      BY <2>1, <2>6, <3>1, <3>2
    <3>6. IsFiniteSet(unpurged')
      BY <1>1 DEF BoundInv, Once
    <3> QED
      BY <2>2, <3>1, <3>4, <3>5, <3>6 DEF Once
  <2>9. Slack'
    <3> SUFFICES ASSUME NEW u \in Tasks, At(u, "delete")'
                 PROVE  /\ task'[u].excess > 0
                        /\ Cardinality(events') - task'[u].excess <= Allowance' - 1
      BY DEF Slack
    <3>1. task'[u] = task[u] /\ At(u, "delete")
      BY <1>1, <1>3 DEF OthersRest, At
    <3>2. task[u].excess > 0 /\ Cardinality(events) - task[u].excess <= Allowance - 1
      BY <3>1 DEF BoundInv, Slack
    <3>3. task[u].excess \in Nat /\ Cardinality(events) \in Nat /\ Allowance \in Nat
      BY Numbered DEF Allowance
    <3> QED
      BY <2>3, <2>4, <2>5, <3>1, <3>2, <3>3
  <2>10. Cardinality(events') <= Allowance'
    <3>1. Cardinality(events) <= Allowance /\ Cardinality(events) \in Nat /\ Allowance \in Nat
      BY Numbered DEF Allowance, BoundInv
    <3> QED
      BY <2>3, <2>4, <2>5, <3>1
  <2> QED
    BY <2>8, <2>9, <2>10 DEF BoundInv
<1> QED
  BY <1>1, <1>2, <1>3

(* A task is through, and its event is noted as unpurged or is within the
   limit, or the delete has made room. *)
LEMMA EndStep ==
    ASSUME BoundInv, Inv', NEW t \in Tasks, Writing(t), ~Writing(t)', OthersRest(t),
           events' \subseteq events, UNCHANGED last_id,
           \/ unpurged' = unpurged \cup {task[t].row.id}
           \/ UNCHANGED unpurged /\ Cardinality(events') <= max_entries
           \/ /\ UNCHANGED unpurged /\ At(t, "delete")
              /\ \/ Cardinality(events') = Cardinality(events) - task[t].excess
                 \/ Cardinality(events') = 0
    PROVE  BoundInv'
<1> DEFINE n == Cardinality(events)
           m == Cardinality(events')
           w == Cardinality(Writers)
           p == Cardinality(unpurged)
           id == task[t].row.id
<1>1. /\ n \in Nat /\ w \in Nat /\ p \in Nat /\ max_entries \in Nat /\ Allowance \in Nat
      /\ Allowance = max_entries + w + p /\ n <= Allowance
  BY Numbered DEF BoundInv, Allowance
<1>2. m \in Nat /\ m <= n
  BY Numbered, FS_Subset, FS_CardinalityType
<1>3. Writers' = Writers \ {t} /\ t \in Writers
  <2>1. \A u \in Tasks : u # t => (Writing(u)' <=> Writing(u))
    BY DEF Writing, OthersRest
  <2> QED
    BY <2>1 DEF Writers
<1>4. IsFiniteSet(Writers') /\ Cardinality(Writers') = w - 1
  BY <1>3, FS_RemoveElement DEF BoundInv, Once
<1>5. \A u \in Writers' : task'[u] = task[u] /\ u \in Writers /\ u # t
  BY <1>3 DEF OthersRest, Writers
<1>6. id \in Nat /\ id <= last_id /\ id \notin unpurged
  BY <1>3, Numbered DEF BoundInv, Once
<1>7. IsFiniteSet(unpurged') /\ Cardinality(unpurged') = IF unpurged' = unpurged THEN p ELSE p + 1
  <2>1. IsFiniteSet(unpurged)
    BY DEF BoundInv, Once
  <2>2. CASE unpurged' = unpurged
    BY <2>1, <2>2
  <2>3. CASE unpurged' = unpurged \cup {id}
    BY <1>6, <2>1, <2>3, FS_AddElement
  <2> QED
    BY <2>2, <2>3
<1>8. Once'
  <2>1. \A i \in unpurged' : i <= last_id'
    BY <1>6 DEF BoundInv, Once
  <2>2. \A u \in Writers' : task'[u].row.id \notin unpurged'
    BY <1>3, <1>5 DEF BoundInv, Once
  <2>3. \A u, v \in Writers' : task'[u].row.id = task'[v].row.id => u = v
    BY <1>5 DEF BoundInv, Once
  <2> QED
    BY <1>4, <1>7, <2>1, <2>2, <2>3 DEF Once
<1>9. Allowance' = max_entries + (w - 1) + Cardinality(unpurged')
  BY <1>4 DEF Allowance
<1>10. Allowance' = IF unpurged' = unpurged THEN Allowance - 1 ELSE Allowance
  BY <1>1, <1>7, <1>9
<1>11. w >= 1
  BY <1>1, <1>4, FS_CardinalityType
<1>12. /\ Allowance' \in Nat
       /\ \/ Allowance' = Allowance
          \/ Allowance' = Allowance - 1 /\ m <= max_entries
          \/ /\ Allowance' = Allowance - 1 /\ At(t, "delete")
             /\ m = n - task[t].excess \/ m = 0
  BY <1>1, <1>6, <1>10, <1>11
<1>13. At(t, "delete") => /\ task[t].excess \in Nat /\ task[t].excess > 0
                          /\ n - task[t].excess <= Allowance - 1
  BY Numbered DEF BoundInv, Slack
<1>14. m <= Allowance'
  BY <1>1, <1>2, <1>7, <1>9, <1>11, <1>12, <1>13
<1>15. Slack'
  <2> SUFFICES ASSUME NEW u \in Tasks, At(u, "delete")'
               PROVE  task'[u].excess > 0 /\ m - task'[u].excess <= Allowance' - 1
    BY DEF Slack
  <2>1. u \in Writers'
    BY DEF Writers, Writing, At
  <2>2. task'[u] = task[u] /\ At(u, "delete")
    BY <1>5, <2>1 DEF At
  <2>3. /\ task[u].excess \in Nat /\ task[u].excess > 0
        /\ n - task[u].excess <= Allowance - 1
    BY <2>2, Numbered DEF BoundInv, Slack
  <2> HIDE DEF m, n
  <2> QED
    BY <1>1, <1>2, <1>12, <1>14, <2>2, <2>3
<1> QED
  BY <1>8, <1>14, <1>15 DEF BoundInv

LEMMA InsertActionBound ==
    ASSUME BoundInv, Inv', NEW t \in Tasks, InsertAction(t)
    PROVE  BoundInv'
<1>1. /\ task[t].pc = "actions" /\ OthersRest(t) /\ UNCHANGED <<events, last_id>>
      /\ \/ task'[t].pc = "actions" /\ task'[t].row = task[t].row /\ UNCHANGED unpurged
         \/ task'[t].pc = "idle" /\ unpurged' = unpurged \cup {task[t].row.id}
  BY InsertActionEffect DEF BoundInv
<1>2. CASE task'[t].pc = "actions" /\ task'[t].row = task[t].row /\ UNCHANGED unpurged
  BY <1>1, <1>2, CalmStep DEF OthersRest, Writing, At
<1>3. CASE task'[t].pc = "idle" /\ unpurged' = unpurged \cup {task[t].row.id}
  BY <1>1, <1>3, EndStep DEF Writing
<1> QED
  BY <1>1, <1>2, <1>3

LEMMA CountEventsBound ==
    ASSUME BoundInv, Inv', NEW t \in Tasks, CountEvents(t)
    PROVE  BoundInv'
<1>1. /\ task[t].pc = "actions" /\ OthersRest(t) /\ UNCHANGED <<events, last_id>>
      /\ \/ /\ task'[t].pc = "delete" /\ task'[t].row = task[t].row
            /\ Cardinality(events) > max_entries
            /\ task'[t].excess = Cardinality(events) - max_entries
            /\ UNCHANGED unpurged
         \/ /\ task'[t].pc = "idle"
            /\ \/ unpurged' = unpurged \cup {task[t].row.id}
               \/ Cardinality(events) <= max_entries /\ UNCHANGED unpurged
  BY CountEventsEffect DEF BoundInv
<1>2. CASE task'[t].pc = "idle"
  BY <1>1, <1>2, EndStep DEF Writing
<1>3. CASE /\ task'[t].pc = "delete" /\ task'[t].row = task[t].row
           /\ Cardinality(events) > max_entries
           /\ task'[t].excess = Cardinality(events) - max_entries
           /\ UNCHANGED unpurged
  <2>1. Writers' = Writers /\ t \in Writers
    <3>1. \A u \in Tasks : Writing(u)' <=> Writing(u)
      BY <1>1, <1>3 DEF Writing, OthersRest
    <3> QED
      BY <1>1, <3>1 DEF Writers, Writing
  <2>2. Allowance' = Allowance
    BY <1>3, <2>1 DEF Allowance
  <2>3. \A u \in Writers : task'[u].row = task[u].row
    BY <1>1, <1>3 DEF OthersRest, Writers
  <2>4. Once'
    BY <1>1, <1>3, <2>1, <2>3 DEF BoundInv, Once
  <2>5. Cardinality(Writers) >= 1
    <3>1. IsFiniteSet(Writers) /\ Writers # {}
      BY <2>1 DEF BoundInv, Once
    <3>2. Cardinality(Writers) # 0
      BY <3>1, FS_EmptySet
    <3> QED
      BY <3>2, Numbered
  <2>6. Slack'
    <3> SUFFICES ASSUME NEW u \in Tasks, At(u, "delete")'
                 PROVE  /\ task'[u].excess > 0
                        /\ Cardinality(events) - task'[u].excess <= Allowance - 1
      BY <1>1, <2>2 DEF Slack
    <3>1. CASE u = t
      BY <1>3, <2>5, <3>1, Numbered DEF Allowance
    <3>2. CASE u # t
      BY <1>1, <3>2 DEF BoundInv, Slack, At, OthersRest
    <3> QED
      BY <3>1, <3>2
  <2> QED
    BY <1>1, <2>2, <2>4, <2>6 DEF BoundInv
<1> QED
  BY <1>1, <1>2, <1>3

LEMMA DeleteOldestBound ==
    ASSUME BoundInv, Inv', NEW t \in Tasks, DeleteOldest(t)
    PROVE  BoundInv'
<1>1. /\ task[t].pc = "delete" /\ task'[t].pc = "idle" /\ OthersRest(t) /\ UNCHANGED last_id
      /\ \/ UNCHANGED events /\ unpurged' = unpurged \cup {task[t].row.id}
         \/ /\ \E gone \in Oldest(task[t].excess) : events' = events \ gone
            /\ UNCHANGED unpurged
  BY DeleteOldestEffect DEF BoundInv
<1>2. CASE UNCHANGED events /\ unpurged' = unpurged \cup {task[t].row.id}
  BY <1>1, <1>2, EndStep DEF Writing
<1>3. CASE /\ \E gone \in Oldest(task[t].excess) : events' = events \ gone
           /\ UNCHANGED unpurged
  <2> DEFINE n == Cardinality(events)
             x == task[t].excess
  <2>1. PICK gone \in Oldest(x) : events' = events \ gone
    BY <1>3
  <2>2. gone \in SUBSET events /\ Cardinality(gone) = Min({x, n})
    BY DEF Oldest, kSubset
  <2>3. n \in Nat /\ x \in Nat /\ IsFiniteSet(events)
    BY Numbered
  <2>4. Min({x, n}) = IF x <= n THEN x ELSE n
    BY <2>3 DEF Min
  <2>5. Cardinality(events') = n - Cardinality(gone)
    <3>1. events \cap gone = gone
      BY <2>2
    <3>2. Cardinality(events \ gone) = n - Cardinality(events \cap gone)
      BY <2>3, FS_Difference
    <3> QED
      BY <2>1, <3>1, <3>2
  <2>6. Cardinality(events') = n - x \/ Cardinality(events') = 0
    BY <2>2, <2>3, <2>4, <2>5
  <2> QED
    BY <1>1, <1>3, <2>1, <2>6, EndStep DEF Writing, At
<1> QED
  BY <1>1, <1>2, <1>3

(* A daemon is killed: what its tasks were logging stays unpurged. *)
LEMMA CrashBound ==
    ASSUME BoundInv, Inv', NEW d \in Daemons, Crash(d)
    PROVE  BoundInv'
<1> DEFINE M    == {t \in Writers : Home[t] = d}
           gone == {task[t].row.id : t \in M}
<1>1. /\ task' = [t \in Tasks |-> IF Home[t] = d THEN Rest ELSE task[t]]
      /\ unpurged' = unpurged \cup gone /\ UNCHANGED <<events, last_id>>
  BY DEF Crash, Writers
<1>2. \A t \in Tasks : Home[t] = d => task'[t].pc = "idle"
  BY <1>1 DEF Rest
<1>3. \A t \in Tasks : Home[t] # d => task'[t] = task[t]
  BY <1>1
<1>4. Writers' = Writers \ M
  BY <1>2, <1>3 DEF Writers, Writing
<1>5. IsFiniteSet(M) /\ Cardinality(M) \in Nat
  <2>1. IsFiniteSet(Writers) /\ M \in SUBSET Writers
    BY DEF BoundInv, Once
  <2> QED
    BY <2>1, FS_Subset, FS_CardinalityType
<1>6. IsFiniteSet(Writers') /\ Cardinality(Writers') = Cardinality(Writers) - Cardinality(M)
  <2>1. IsFiniteSet(Writers) /\ M \in SUBSET Writers /\ Writers \cap M = M
    BY DEF BoundInv, Once
  <2> HIDE DEF M
  <2>2. IsFiniteSet(Writers \ M)
    BY <2>1, FS_Difference
  <2>3. Cardinality(Writers \ M) = Cardinality(Writers) - Cardinality(Writers \cap M)
    BY <2>1, FS_Difference
  <2> QED
    BY <1>4, <2>1, <2>2, <2>3
<1>7. IsFiniteSet(gone) /\ Cardinality(gone) = Cardinality(M)
  <2> DEFINE f == [t \in M |-> task[t].row.id]
  <2>1. f \in [M -> gone] /\ \A i \in gone : \E t \in M : f[t] = i
    OBVIOUS
  <2>2. \A t, u \in M : f[t] = f[u] => t = u
    BY DEF BoundInv, Once
  <2> HIDE DEF M, gone
  <2>3. f \in Bijection(M, gone)
    BY <2>1, <2>2 DEF Bijection, Injection, Surjection, IsInjective
  <2> QED
    BY <1>5, <2>3, FS_Bijection DEF ExistsBijection
<1>8. /\ IsFiniteSet(unpurged')
      /\ Cardinality(unpurged') = Cardinality(unpurged) + Cardinality(M)
  <2>1. IsFiniteSet(unpurged) /\ unpurged \cap gone = {}
    BY DEF BoundInv, Once
  <2>2. /\ IsFiniteSet(unpurged \cup gone)
        /\ Cardinality(unpurged \cup gone)
             = Cardinality(unpurged) + Cardinality(gone) - Cardinality(unpurged \cap gone)
    <3> HIDE DEF gone
    <3> QED
      BY <1>7, <2>1, FS_Union
  <2>3. unpurged' = unpurged \cup gone
    BY <1>1
  <2>4. Cardinality(unpurged \cap gone) = 0
    BY <2>1, FS_EmptySet
  <2>5. Cardinality(unpurged) \in Nat /\ Cardinality(gone) = Cardinality(M)
    BY <1>7, <2>1, FS_CardinalityType
  <2> HIDE DEF M, gone
  <2> QED
    BY <1>5, <2>2, <2>3, <2>4, <2>5
<1>9. Allowance' = Allowance
  BY <1>5, <1>6, <1>8, Numbered DEF Allowance
<1>10. Once'
  <2>1. \A i \in unpurged' : i <= last_id'
    BY <1>1, Numbered DEF BoundInv, Once
  <2>2. \A t \in Writers' : t \in Writers /\ t \notin M /\ task'[t] = task[t]
    BY <1>3, <1>4 DEF Writers
  <2>3. \A t \in Writers' : task'[t].row.id \notin unpurged'
    BY <1>1, <2>2 DEF BoundInv, Once
  <2>4. \A t, u \in Writers' : task'[t].row.id = task'[u].row.id => t = u
    BY <2>2 DEF BoundInv, Once
  <2> QED
    BY <1>6, <1>8, <2>1, <2>3, <2>4 DEF Once
<1>11. Slack'
  BY <1>1, <1>2, <1>3, <1>9 DEF BoundInv, Slack, At
<1> QED
  BY <1>1, <1>9, <1>10, <1>11 DEF BoundInv

LEMMA BoundNext ==
    ASSUME BoundInv, [Next]_vars
    PROVE  BoundInv'
<1>1. Inv'
  BY NextInv DEF BoundInv
<1>2. CASE UNCHANGED vars
  BY <1>1, <1>2, CalmStep DEF vars, Writing, At
<1>3. CASE Tick \/ \E t \in Tasks : Lock(t) \/ Unlock(t)
  BY <1>1, <1>3, CalmStep DEF Tick, Lock, Unlock, tables, Writing, At
<1>4. ASSUME NEW t \in Tasks, OthersRest(t), UNCHANGED <<events, last_id, unpurged>>,
             task[t].pc \in {"idle", "reading"}, task'[t].pc \in {"idle", "reading"}
      PROVE  BoundInv'
  BY <1>1, <1>4, CalmStep DEF OthersRest, Writing, At
<1>5. CASE \E t \in Tasks : Produce(t) \/ ReadRows(t) \/ ReadActions(t)
  BY <1>4, <1>5, ProduceEffect, ReadRowsEffect, ReadActionsEffect DEF BoundInv
<1>6. CASE \E t \in Tasks : InsertEvent(t) \/ InsertAction(t) \/ CountEvents(t) \/ DeleteOldest(t)
  BY <1>1, <1>6, InsertEventBound, InsertActionBound, CountEventsBound, DeleteOldestBound
<1>7. CASE \E d \in Daemons : Crash(d)
  BY <1>1, <1>7, CrashBound
<1> QED
  BY <1>2, <1>3, <1>5, <1>6, <1>7 DEF Next, TaskStep

LEMMA BoundInit == Init => BoundInv
<1> SUFFICES ASSUME Init PROVE BoundInv
  OBVIOUS
<1>1. \A t \in Tasks : task[t].pc = "idle"
  BY DEF Init, Rest
<1>2. Writers = {} /\ unpurged = {} /\ events = {}
  BY <1>1 DEF Init, Writers, Writing
<1>3. Once
  BY <1>2, FS_EmptySet DEF Once
<1>4. Slack
  BY <1>1 DEF Slack, At
<1>5. Cardinality(events) <= Allowance
  BY <1>2, FS_EmptySet, LogAssumption DEF Allowance
<1> QED
  BY <1>3, <1>4, <1>5, InitInv DEF BoundInv
-----------------------------------------------------------------------------
(* The limit of the log holds, but for the results being logged and those whose
   logging never came to the purge, however many daemons count and delete in
   turns, fail and die (db.rs:144-157). *)
THEOREM StaysBounded == Spec => []Bounded
<1>1. BoundInv => Bounded
  BY DEF BoundInv, Allowance, Writers, Bounded
<1> QED
  BY <1>1, BoundInit, BoundNext, PTL DEF Spec
-----------------------------------------------------------------------------
(* One daemon *)

(* With one daemon the action log implements AtomicLog.  Its mutex keeps the
   tasks apart, so a task that is not idle is the only one, the event it logs
   stays in the table until it is through, and what it counted is still true
   when it deletes.  Entries are told apart by the numbers of their results,
   of which none is logged twice. *)

OneDaemon == \A c, d \in Daemons : c = d

Alone == \A t \in Tasks : ~At(t, "idle") => Holds(t)

Logging ==
    \A t \in Tasks :
        /\ Writing(t) => task[t].row \in events
        /\ At(t, "delete") =>
              /\ task[t].excess = Cardinality(events) - max_entries
              /\ task[t].excess > 0
              /\ Ks(actions, task[t].row.id) = 1..task[t].row.n

Fresh(t, i) ==
    /\ task[t].results[i].no <= made
    /\ \A e \in events : e.no # task[t].results[i].no
    /\ \A u \in Tasks : \A j \in 1..Len(task[u].results) :
          task[u].results[j].no = task[t].results[i].no => u = t /\ j = i

Numbers ==
    /\ \A e, f \in events : e.no = f.no => e = f
    /\ \A e \in events : e.no <= made
    /\ \A t \in Tasks : \A i \in 1..Len(task[t].results) : Fresh(t, i)

Reading ==
    \A t \in Tasks : At(t, "reading") => task[t].rows \subseteq events

Seen == \A t \in Tasks : \A v \in task[t].view : v.stored = v.n \/ v.id \in cut

LoneInv == Inv /\ Alone /\ Logging /\ Numbers /\ Reading /\ Seen
-----------------------------------------------------------------------------
(* A crash ends all tasks at once. *)

LEMMA CrashEffect ==
    ASSUME OneDaemon, NEW d \in Daemons, Crash(d)
    PROVE  /\ task' = [t \in Tasks |-> Rest]
           /\ \A t \in Tasks : task'[t].pc = "idle" /\ task'[t].results = <<>>
                               /\ task'[t].view = {}
           /\ MayCrash /\ cut \subseteq cut'
           /\ UNCHANGED <<events, actions, last_id, clock, made>>
<1>1. \A t \in Tasks : Home[t] = d
  BY LogAssumption DEF OneDaemon
<1>2. task' = [t \in Tasks |-> Rest]
  BY <1>1 DEF Crash
<1>3. Rest.pc = "idle" /\ Rest.results = <<>> /\ Rest.view = {}
  BY DEF Rest
<1>4. MayCrash /\ cut \subseteq cut' /\ UNCHANGED <<events, actions, last_id, clock, made>>
  BY DEF Crash
<1> QED
  BY <1>2, <1>3, <1>4
-----------------------------------------------------------------------------
(* The invariant *)

(* Whoever is not idle is the only one. *)
LEMMA OnlyOne ==
    ASSUME OneDaemon, Alone, NEW t \in Tasks, Holds(t)
    PROVE  \A u \in Tasks : u # t => task[u].pc = "idle" /\ ~Writing(u)
  BY LogAssumption DEF OneDaemon, Alone, Holds, At, Writing

LEMMA AloneStep ==
    ASSUME OneDaemon, Inv, Alone, NEW t \in Tasks,
           \A u \in Tasks : u # t => task'[u].pc = task[u].pc,
           \/ lock' = lock /\ (Holds(t) \/ task'[t].pc = "idle")
           \/ lock[Home[t]] = Free /\ lock' = [lock EXCEPT ![Home[t]] = t]
           \/ Holds(t) /\ lock' = [lock EXCEPT ![Home[t]] = Free] /\ task'[t].pc = "idle"
    PROVE  Alone'
<1>1. lock \in [Daemons -> Tasks \cup {Free}] /\ Home \in [Tasks -> Daemons] /\ Free \notin Tasks
  BY LogAssumption DEF Inv, Others
<1>2. CASE lock' = lock /\ (Holds(t) \/ task'[t].pc = "idle")
  BY <1>2 DEF Alone, At, Holds
<1>3. CASE lock[Home[t]] = Free /\ lock' = [lock EXCEPT ![Home[t]] = t]
  <2>1. \A u \in Tasks : lock[Home[u]] = Free
    BY <1>1, <1>3 DEF OneDaemon
  <2>2. \A u \in Tasks : task[u].pc = "idle"
    BY <1>1, <2>1 DEF Alone, At, Holds
  <2>3. lock'[Home[t]] = t
    BY <1>1, <1>3
  <2> QED
    BY <2>2, <2>3 DEF Alone, At, Holds
<1>4. CASE Holds(t) /\ lock' = [lock EXCEPT ![Home[t]] = Free] /\ task'[t].pc = "idle"
  <2>1. \A u \in Tasks : u # t => task[u].pc = "idle"
    BY <1>4, OnlyOne
  <2> QED
    BY <1>4, <2>1 DEF Alone, At
<1> QED
  BY <1>2, <1>3, <1>4

LEMMA NumbersStep ==
    ASSUME Inv, Numbers, events' \subseteq events, made' = made,
           \A t \in Tasks : task'[t].results = task[t].results \/ task'[t].results = <<>>
    PROVE  Numbers'
<1>1. \A t \in Tasks : \A i \in 1..Len(task'[t].results) :
          i \in 1..Len(task[t].results) /\ task'[t].results = task[t].results
  <2> SUFFICES ASSUME NEW t \in Tasks, NEW i \in 1..Len(task'[t].results)
               PROVE  task'[t].results = task[t].results
    OBVIOUS
  <2>1. Len(<<>>) = 0
    OBVIOUS
  <2> QED
    BY <2>1
<1>2. (\A e, f \in events : e.no = f.no => e = f)' /\ (\A e \in events : e.no <= made)'
  BY DEF Numbers
<1>3. \A t \in Tasks : \A i \in 1..Len(task'[t].results) : Fresh(t, i)'
  <2> SUFFICES ASSUME NEW t \in Tasks, NEW i \in 1..Len(task'[t].results)
               PROVE  Fresh(t, i)'
    OBVIOUS
  <2>1. i \in 1..Len(task[t].results) /\ task'[t].results = task[t].results
    BY <1>1
  <2>2. Fresh(t, i)
    BY <2>1 DEF Numbers
  <2>3. /\ task'[t].results[i].no <= made'
        /\ \A e \in events' : e.no # task'[t].results[i].no
    BY <2>1, <2>2 DEF Fresh
  <2>4. ASSUME NEW u \in Tasks, NEW j \in 1..Len(task'[u].results),
               task'[u].results[j].no = task'[t].results[i].no
        PROVE  u = t /\ j = i
    <3>1. j \in 1..Len(task[u].results) /\ task'[u].results = task[u].results
      BY <1>1
    <3> QED
      BY <2>1, <2>2, <2>4, <3>1 DEF Fresh
  <2> QED
    BY <2>3, <2>4 DEF Fresh
<1> QED
  BY <1>2, <1>3 DEF Numbers

LEMMA NumbersProduce ==
    ASSUME Inv, Numbers, NEW t \in Tasks, Produce(t)
    PROVE  Numbers'
<1>1. /\ made \in Nat /\ events \subseteq Row /\ task \in [Tasks -> TaskType]
  BY DEF Inv, Others, LogInv, Tables
<1>2. PICK r \in Result : r.no = made + 1 /\ task'[t].results = Append(task[t].results, r)
  BY ProduceEffect
<1>3. OthersRest(t) /\ made' = made + 1 /\ events' = events
  BY ProduceEffect
<1>4. \A u \in Tasks : task[u].results \in Seq(Result)
  BY <1>1, Fields
<1> DEFINE n == Len(task[t].results)
<1>5. n \in Nat /\ Len(task'[t].results) = n + 1 /\ task'[t].results[n + 1] = r
      /\ \A i \in 1..n : task'[t].results[i] = task[t].results[i]
  BY <1>2, <1>4
<1>6. \A u \in Tasks : \A i \in 1..Len(task[u].results) :
          task[u].results[i].no \in Nat /\ task[u].results[i].no <= made
  <2> SUFFICES ASSUME NEW u \in Tasks, NEW i \in 1..Len(task[u].results)
               PROVE  task[u].results[i].no \in Nat /\ task[u].results[i].no <= made
    OBVIOUS
  <2>1. task[u].results[i] \in Result
    BY <1>4
  <2>2. Fresh(u, i)
    BY DEF Numbers
  <2> QED
    BY <2>1, <2>2 DEF Fresh, Result
<1>7. (\A e, f \in events : e.no = f.no => e = f)' /\ (\A e \in events : e.no <= made)'
  BY <1>1, <1>3 DEF Numbers, Row
(* A result is one there was, or the new one. *)
<1>8. ASSUME NEW u \in Tasks, NEW i \in 1..Len(task'[u].results)
      PROVE  \/ u = t /\ i = n + 1 /\ task'[u].results[i].no = made + 1
             \/ /\ i \in 1..Len(task[u].results) /\ (u = t => i <= n)
                /\ task'[u].results[i] = task[u].results[i]
  <2>1. CASE u = t /\ i = n + 1
    BY <1>2, <1>5, <2>1
  <2>2. CASE u = t /\ i # n + 1
    <3>1. i \in 1..n
      BY <1>5, <2>2
    <3> QED
      BY <1>5, <2>2, <3>1
  <2>3. CASE u # t
    BY <1>3, <2>3 DEF OthersRest
  <2> QED
    BY <2>1, <2>2, <2>3
<1>9. ASSUME NEW u \in Tasks, NEW i \in 1..Len(task'[u].results)
      PROVE  Fresh(u, i)'
  <2>1. task'[u].results[i].no <= made + 1 /\ \A e \in events : e.no # task'[u].results[i].no
    <3>1. \A e \in events : e.no \in Nat /\ e.no <= made
      BY <1>1 DEF Numbers, Row
    <3>2. CASE task'[u].results[i].no = made + 1
      BY <1>1, <3>1, <3>2
    <3>3. CASE /\ i \in 1..Len(task[u].results)
               /\ task'[u].results[i] = task[u].results[i]
      <4>1. Fresh(u, i) /\ task[u].results[i].no \in Nat
        BY <1>6, <3>3 DEF Numbers
      <4> QED
        BY <1>1, <3>3, <4>1 DEF Fresh
    <3> QED
      BY <1>8, <3>2, <3>3
  <2>2. ASSUME NEW v \in Tasks, NEW j \in 1..Len(task'[v].results),
               task'[v].results[j].no = task'[u].results[i].no
        PROVE  v = u /\ j = i
    <3>1. CASE task'[u].results[i].no = made + 1
      <4>1. u = t /\ i = n + 1
        <5>1. ~(/\ i \in 1..Len(task[u].results)
                /\ task'[u].results[i] = task[u].results[i])
          BY <1>1, <1>6, <3>1
        <5> QED
          BY <1>8, <5>1
      <4>2. v = t /\ j = n + 1
        <5>1. ~(/\ j \in 1..Len(task[v].results)
                /\ task'[v].results[j] = task[v].results[j])
          BY <1>1, <1>6, <2>2, <3>1
        <5> QED
          BY <1>8, <5>1
      <4> QED
        BY <4>1, <4>2
    <3>2. CASE task'[u].results[i].no # made + 1
      <4>1. /\ i \in 1..Len(task[u].results)
            /\ task'[u].results[i] = task[u].results[i]
        BY <1>8, <3>2
      <4>2. /\ j \in 1..Len(task[v].results)
            /\ task'[v].results[j] = task[v].results[j]
        BY <1>8, <2>2, <3>2
      <4>3. Fresh(u, i)
        BY <4>1 DEF Numbers
      <4> QED
        BY <2>2, <4>1, <4>2, <4>3 DEF Fresh
    <3> QED
      BY <3>1, <3>2
  <2> QED
    BY <1>3, <2>1, <2>2 DEF Fresh
<1> QED
  BY <1>7, <1>9 DEF Numbers

LEMMA NumbersInsert ==
    ASSUME Inv, Numbers, NEW t \in Tasks, InsertEvent(t)
    PROVE  /\ Numbers'
           /\ task'[t].pc = "actions" => \A e \in events : e.no # task'[t].row.no
<1>1. /\ made \in Nat /\ events \subseteq Row /\ task \in [Tasks -> TaskType]
      /\ last_id \in Nat
  BY DEF Inv, Others, LogInv, Tables
<1>2. /\ OthersRest(t) /\ made' = made
      /\ task[t].results # <<>> /\ task'[t].results = Tail(task[t].results)
      /\ \/ events' = events /\ task'[t].pc = "idle"
         \/ /\ task'[t].row = RowOf(last_id + 1, Head(task[t].results))
            /\ events' = events \cup {task'[t].row}
  BY InsertEventEffect
<1>3. \A u \in Tasks : task[u].results \in Seq(Result)
  BY <1>1, Fields
<1> DEFINE r == Head(task[t].results)
           n == Len(task[t].results)
<1>4. /\ n \in Nat /\ 1 \in 1..n /\ r = task[t].results[1] /\ r \in Result
      /\ Len(task'[t].results) = n - 1
      /\ \A i \in 1..n - 1 : task'[t].results[i] = task[t].results[i + 1] /\ i + 1 \in 1..n
  BY <1>2, <1>3
<1>5. r.no <= made /\ \A e \in events : e.no # r.no
  BY <1>4 DEF Numbers, Fresh
<1>6. RowOf(last_id + 1, r).no = r.no
  BY DEF RowOf
<1>7. \A e \in events' : e \in events \/ (e.no = r.no /\ e = task'[t].row)
  <2> DEFINE row == RowOf(last_id + 1, r)
  <2>1. row.no = r.no
    BY <1>6
  <2>2. \/ events' = events
        \/ task'[t].row = row /\ events' = events \cup {task'[t].row}
    BY <1>2
  <2> HIDE DEF row, r
  <2> QED
    BY <2>1, <2>2
<1>8. (\A e, f \in events : e.no = f.no => e = f)' /\ (\A e \in events : e.no <= made)'
  <2> HIDE DEF r
  <2>1. ASSUME NEW e \in events', NEW f \in events', e.no = f.no PROVE e = f
    BY <1>5, <1>7, <2>1 DEF Numbers
  <2>2. ASSUME NEW e \in events' PROVE e.no <= made'
    BY <1>2, <1>5, <1>7, <2>2 DEF Numbers
  <2> QED
    BY <2>1, <2>2
(* A result was there before, one place further on if it is of this task. *)
<1>9. ASSUME NEW u \in Tasks, NEW i \in 1..Len(task'[u].results)
      PROVE  \E j \in 1..Len(task[u].results) :
                /\ task'[u].results[i] = task[u].results[j]
                /\ j = IF u = t THEN i + 1 ELSE i
  <2>1. CASE u = t
    BY <1>4, <2>1
  <2>2. CASE u # t
    BY <1>2, <2>2 DEF OthersRest
  <2> QED
    BY <2>1, <2>2
<1>10. ASSUME NEW u \in Tasks, NEW i \in 1..Len(task'[u].results)
       PROVE  Fresh(u, i)'
  <2>1. PICK j \in 1..Len(task[u].results) :
            task'[u].results[i] = task[u].results[j] /\ j = IF u = t THEN i + 1 ELSE i
    BY <1>9
  <2>2. i \in Nat /\ i > 0 /\ Fresh(u, j)
    BY DEF Numbers
  <2>3. task[u].results[j].no # r.no
    <3>1. Fresh(t, 1)
      BY <1>4 DEF Numbers
    <3>2. task[u].results[j].no = r.no => u = t /\ j = 1
      BY <1>4, <3>1 DEF Fresh
    <3> QED
      BY <2>1, <2>2, <3>2
  <2>4. \A e \in events' : e.no # task'[u].results[i].no
    BY <1>7, <2>1, <2>2, <2>3 DEF Fresh
  <2>5. ASSUME NEW v \in Tasks, NEW k \in 1..Len(task'[v].results),
               task'[v].results[k].no = task'[u].results[i].no
        PROVE  v = u /\ k = i
    <3>1. PICK m \in 1..Len(task[v].results) :
              task'[v].results[k] = task[v].results[m] /\ m = IF v = t THEN k + 1 ELSE k
      BY <1>9
    <3>2. v = u /\ m = j
      BY <2>1, <2>2, <2>5, <3>1 DEF Fresh
    <3> QED
      BY <2>1, <3>1, <3>2
  <2> QED
    BY <1>2, <2>1, <2>2, <2>4, <2>5 DEF Fresh
<1> QED
  BY <1>2, <1>5, <1>6, <1>8, <1>10 DEF Numbers

(* Where the actions 1..m are stored, they are m. *)
LEMMA StoredIs ==
    ASSUME LogInv, NEW id, NEW m \in Nat, Ks(actions, id) = 1..m
    PROVE  Stored(id) = m
<1> DEFINE S == {a \in actions : a.event = id}
           f == [a \in S |-> a.k]
<1>1. {a.k : a \in S} = 1..m
  BY DEF Ks
<1>2. \A a, b \in S : a.k = b.k => a = b
  BY DEF LogInv, Tables
<1>3. f \in [S -> 1..m] /\ \A i \in 1..m : \E a \in S : f[a] = i
  BY <1>1
<1>4. f \in Bijection(S, 1..m)
  BY <1>2, <1>3 DEF Bijection, Injection, Surjection, IsInjective
<1>5. IsFiniteSet(S)
  BY FS_Subset DEF LogInv, Tables
<1>6. Cardinality(1..m) = Cardinality(S)
  BY <1>4, <1>5, FS_Bijection DEF ExistsBijection
<1> QED
  BY <1>6, CountTo DEF Stored

(* An event that nobody is inserting actions for has all, or was cut short. *)
LEMMA WholeEvent ==
    ASSUME LogInv, NEW e \in events,
           ~\E t \in Tasks : At(t, "actions") /\ task[t].row = e
    PROVE  /\ Stored(e.id) \in 0..e.n
           /\ Stored(e.id) = e.n \/ e.id \in cut
<1>1. e.n \in Nat
  BY DEF LogInv, Tables, Row
<1>2. PICK m \in 0..e.n : Ks(actions, e.id) = 1..m /\ (m = e.n \/ e.id \in cut)
  BY <1>1 DEF LogInv, Whole
<1>3. Stored(e.id) = m
  BY <1>2, StoredIs
<1> QED
  BY <1>2, <1>3

Duties(t) ==
    /\ Writing(t) => task[t].row \in events
    /\ At(t, "delete") =>
          /\ task[t].excess = Cardinality(events) - max_entries
          /\ task[t].excess > 0
          /\ Ks(actions, task[t].row.id) = 1..task[t].row.n
    /\ At(t, "reading") => task[t].rows \subseteq events
    /\ \A v \in task[t].view : v.stored = v.n \/ v.id \in cut

LEMMA DutiesOfAll ==
    Logging /\ Reading /\ Seen <=> \A t \in Tasks : Duties(t)
  BY DEF Logging, Reading, Seen, Duties

(* A step of the task that has the mutex. *)
LEMMA OwnStep ==
    ASSUME OneDaemon, LoneInv, NEW t \in Tasks, Holds(t), OthersRest(t), cut \subseteq cut',
           Duties(t)'
    PROVE  (Logging /\ Reading /\ Seen)'
<1>1. ASSUME NEW u \in Tasks, u # t PROVE Duties(u)'
  <2>1. task'[u] = task[u] /\ task[u].pc = "idle"
    BY <1>1, OnlyOne DEF OthersRest, LoneInv
  <2>2. \A v \in task[u].view : v.stored = v.n \/ v.id \in cut
    BY DEF LoneInv, Seen
  <2> QED
    BY <2>1, <2>2 DEF Duties, Writing, At
<1> QED
  BY <1>1, DutiesOfAll DEF Logging, Reading, Seen, Duties

(* A step that leaves the log and all but waiting tasks alone. *)
LEMMA WaitingStep ==
    ASSUME LoneInv, UNCHANGED <<events, actions, cut>>,
           \A u \in Tasks : \/ task'[u] = task[u]
                            \/ task'[u].pc = "idle" /\ task'[u].view = task[u].view
    PROVE  (Logging /\ Reading /\ Seen)'
<1>1. ASSUME NEW u \in Tasks PROVE Duties(u)'
  <2>1. Duties(u)
    BY DutiesOfAll DEF LoneInv
  <2> QED
    BY <2>1 DEF Duties, Writing, At
<1> QED
  BY <1>1, DutiesOfAll DEF Logging, Reading, Seen, Duties

LEMMA OwnType ==
    ASSUME LoneInv
    PROVE  /\ task \in [Tasks -> TaskType] /\ Inv /\ Alone /\ Numbers /\ LogInv
           /\ max_entries \in Nat /\ Cardinality(events) \in Nat
  BY LogAssumption, FS_CardinalityType DEF LoneInv, Inv, LogInv, Tables

LEMMA BusyHolds ==
    ASSUME LoneInv, NEW t \in Tasks, task[t].pc # "idle"
    PROVE  Holds(t)
  BY DEF LoneInv, Alone, At

LEMMA SameResults ==
    ASSUME NEW t \in Tasks, OthersRest(t), task'[t].results = task[t].results
    PROVE  \A u \in Tasks : task'[u].results = task[u].results
  BY DEF OthersRest

LEMMA InsertEventLone ==
    ASSUME OneDaemon, LoneInv, NEW t \in Tasks, InsertEvent(t)
    PROVE  (Alone /\ Logging /\ Numbers /\ Reading /\ Seen)'
<1>1. /\ Holds(t) /\ OthersRest(t) /\ UNCHANGED <<cut, lock>>
      /\ task'[t].view = task[t].view
      /\ \/ task'[t].pc = "idle"
         \/ task'[t].pc = "actions" /\ events' = events \cup {task'[t].row}
  BY OwnType, InsertEventEffect
<1>2. Alone'
  BY <1>1, OwnType, AloneStep DEF OthersRest
<1>3. Duties(t)'
  BY <1>1 DEF LoneInv, Seen, Duties, Writing, At
<1> QED
  BY <1>1, <1>2, <1>3, OwnType, OwnStep, NumbersInsert

LEMMA InsertActionLone ==
    ASSUME OneDaemon, LoneInv, NEW t \in Tasks, InsertAction(t)
    PROVE  (Alone /\ Logging /\ Numbers /\ Reading /\ Seen)'
<1>1. /\ task[t].pc = "actions" /\ OthersRest(t) /\ UNCHANGED <<events, made, lock>>
      /\ task'[t].results = task[t].results /\ task'[t].view = task[t].view
      /\ cut \subseteq cut'
      /\ \/ task'[t].pc = "idle"
         \/ task'[t].pc = "actions" /\ task'[t].row = task[t].row
  BY OwnType, InsertActionEffect
<1>2. Holds(t)
  BY <1>1, BusyHolds
<1>3. Alone'
  BY <1>1, <1>2, OwnType, AloneStep DEF OthersRest
<1>4. Numbers'
  BY <1>1, OwnType, SameResults, NumbersStep
<1>5. Duties(t)'
  <2>1. task[t].row \in events
    BY <1>1 DEF LoneInv, Logging, Writing
  <2>2. \A v \in task[t].view : v.stored = v.n \/ v.id \in cut
    BY DEF LoneInv, Seen
  <2> QED
    BY <1>1, <2>1, <2>2 DEF Duties, Writing, At
<1> QED
  BY <1>1, <1>2, <1>3, <1>4, <1>5, OwnStep

LEMMA CountEventsLone ==
    ASSUME OneDaemon, LoneInv, NEW t \in Tasks, CountEvents(t)
    PROVE  (Alone /\ Logging /\ Numbers /\ Reading /\ Seen)'
<1>1. /\ task[t].pc = "actions" /\ task[t].k = task[t].row.n /\ OthersRest(t)
      /\ task'[t].results = task[t].results /\ task'[t].view = task[t].view
      /\ UNCHANGED <<events, actions, cut, made, lock>>
      /\ \/ /\ task'[t].pc = "delete" /\ task'[t].row = task[t].row
            /\ Cardinality(events) > max_entries
            /\ task'[t].excess = Cardinality(events) - max_entries
         \/ task'[t].pc = "idle"
  BY OwnType, CountEventsEffect
<1>2. Holds(t)
  BY <1>1, BusyHolds
<1>3. Alone'
  BY <1>1, <1>2, OwnType, AloneStep DEF OthersRest
<1>4. Numbers'
  BY <1>1, OwnType, SameResults, NumbersStep
<1>5. Duties(t)'
  <2>1. task[t].row \in events
    BY <1>1 DEF LoneInv, Logging, Writing
  <2>2. \A v \in task[t].view : v.stored = v.n \/ v.id \in cut
    BY DEF LoneInv, Seen
  <2>3. Ks(actions, task[t].row.id) = 1..task[t].row.n
    BY <1>1, <2>1, OwnType DEF LogInv, Counted, At
  <2>4. Cardinality(events) > max_entries => Cardinality(events) - max_entries > 0
    BY OwnType
  <2> QED
    BY <1>1, <2>1, <2>2, <2>3, <2>4 DEF Duties, Writing, At
<1> QED
  BY <1>1, <1>2, <1>3, <1>4, <1>5, OwnStep

LEMMA DeleteOldestLone ==
    ASSUME OneDaemon, LoneInv, NEW t \in Tasks, DeleteOldest(t)
    PROVE  (Alone /\ Logging /\ Numbers /\ Reading /\ Seen)'
<1>1. /\ task[t].pc = "delete" /\ task'[t].pc = "idle" /\ OthersRest(t)
      /\ task'[t].results = task[t].results /\ task'[t].view = task[t].view
      /\ UNCHANGED <<cut, made, lock>>
      /\ events' \subseteq events
  BY OwnType, DeleteOldestEffect
<1>2. Holds(t)
  BY <1>1, BusyHolds
<1>3. Alone'
  BY <1>1, <1>2, OwnType, AloneStep DEF OthersRest
<1>4. Numbers'
  BY <1>1, OwnType, SameResults, NumbersStep
<1>5. Duties(t)'
  BY <1>1 DEF LoneInv, Seen, Duties, Writing, At
<1> QED
  BY <1>1, <1>2, <1>3, <1>4, <1>5, OwnStep

LEMMA ReadRowsLone ==
    ASSUME OneDaemon, LoneInv, NEW t \in Tasks, ReadRows(t)
    PROVE  (Alone /\ Logging /\ Numbers /\ Reading /\ Seen)'
<1>1. /\ Holds(t) /\ task'[t].pc = "reading" /\ OthersRest(t)
      /\ task'[t].rows \subseteq events /\ task'[t].view = {}
      /\ task'[t].results = task[t].results
      /\ UNCHANGED <<events, cut, made, lock>>
  BY OwnType, ReadRowsEffect
<1>2. Alone'
  BY <1>1, OwnType, AloneStep DEF OthersRest
<1>3. Numbers'
  BY <1>1, OwnType, SameResults, NumbersStep
<1>4. Duties(t)'
  BY <1>1 DEF Duties, Writing, At
<1> QED
  BY <1>1, <1>2, <1>3, <1>4, OwnStep

LEMMA ReadActionsLone ==
    ASSUME OneDaemon, LoneInv, NEW t \in Tasks, ReadActions(t)
    PROVE  (Alone /\ Logging /\ Numbers /\ Reading /\ Seen)'
<1>1. /\ task[t].pc = "reading" /\ OthersRest(t)
      /\ task'[t].results = task[t].results
      /\ UNCHANGED <<events, actions, cut, made>>
      /\ \/ /\ task'[t].pc = "idle" /\ task'[t].view = task[t].view
            /\ lock' = [lock EXCEPT ![Home[t]] = Free]
         \/ /\ task'[t].pc = "reading" /\ UNCHANGED lock
            /\ task'[t].rows \subseteq task[t].rows
            /\ \E e \in task[t].rows :
                  task'[t].view = task[t].view \cup
                      {[id |-> e.id, n |-> e.n, stored |-> Stored(e.id)]}
  BY OwnType, ReadActionsEffect
<1>2. Holds(t)
  BY <1>1, BusyHolds
<1>3. Alone'
  BY <1>1, <1>2, OwnType, AloneStep DEF OthersRest
<1>4. Numbers'
  BY <1>1, OwnType, SameResults, NumbersStep
<1>5. task[t].rows \subseteq events
  BY <1>1 DEF LoneInv, Reading, At
<1>6. \A u \in Tasks : ~At(u, "actions")
  BY <1>1, <1>2, OnlyOne DEF At, LoneInv
<1>7. \A v \in task'[t].view : v.stored = v.n \/ v.id \in cut
  <2>1. \A v \in task[t].view : v.stored = v.n \/ v.id \in cut
    BY DEF LoneInv, Seen
  <2>2. ASSUME NEW e \in task[t].rows
        PROVE  Stored(e.id) = e.n \/ e.id \in cut
    BY <1>5, <1>6, OwnType, WholeEvent
  <2> QED
    BY <1>1, <2>1, <2>2
<1>8. Duties(t)'
  BY <1>1, <1>5, <1>7 DEF Duties, Writing, At
<1> QED
  BY <1>1, <1>2, <1>3, <1>4, <1>8, OwnStep

LEMMA WaitingLone ==
    ASSUME OneDaemon, LoneInv,
           \/ Tick
           \/ \E t \in Tasks : Produce(t) \/ Lock(t) \/ Unlock(t)
    PROVE  (Alone /\ Logging /\ Numbers /\ Reading /\ Seen)'
<1>1. ASSUME NEW t \in Tasks, Produce(t)
      PROVE  (Alone /\ Logging /\ Numbers /\ Reading /\ Seen)'
  <2>1. /\ task[t].pc = "idle" /\ task'[t].pc = "idle" /\ OthersRest(t)
        /\ task'[t].view = task[t].view
        /\ UNCHANGED <<events, actions, cut, lock>>
    BY <1>1, OwnType, ProduceEffect
  <2>2. Alone'
    BY <2>1, OwnType, AloneStep DEF OthersRest
  <2>3. (Logging /\ Reading /\ Seen)'
    BY <2>1, WaitingStep DEF OthersRest
  <2> QED
    BY <1>1, <2>2, <2>3, OwnType, NumbersProduce
<1>2. ASSUME UNCHANGED <<tables, made, task>>
      PROVE  (Logging /\ Numbers /\ Reading /\ Seen)'
  BY <1>2, OwnType, NumbersStep, WaitingStep DEF tables
<1>3. CASE Tick
  BY <1>2, <1>3 DEF Tick, LoneInv, Alone, At, Holds
<1>4. ASSUME NEW t \in Tasks, Lock(t) PROVE Alone'
  BY <1>4, OwnType, AloneStep DEF Lock
<1>5. ASSUME NEW t \in Tasks, Unlock(t) PROVE Alone'
  BY <1>5, OwnType, AloneStep DEF Unlock, At
<1>6. ASSUME NEW t \in Tasks, Lock(t) \/ Unlock(t) PROVE UNCHANGED <<tables, made, task>>
  BY <1>6 DEF Lock, Unlock
<1> QED
  BY <1>1, <1>2, <1>3, <1>4, <1>5, <1>6

LEMMA CrashLone ==
    ASSUME OneDaemon, LoneInv, NEW d \in Daemons, Crash(d)
    PROVE  (Alone /\ Logging /\ Numbers /\ Reading /\ Seen)'
<1>1. /\ \A t \in Tasks : task'[t].pc = "idle" /\ task'[t].results = <<>>
                          /\ task'[t].view = {}
      /\ UNCHANGED <<events, made>>
  BY CrashEffect
<1>2. Alone' /\ \A t \in Tasks : Duties(t)'
  BY <1>1 DEF Alone, Duties, Writing, At
<1>3. Numbers'
  BY <1>1, OwnType, NumbersStep
<1> QED
  BY <1>2, <1>3, DutiesOfAll DEF Logging, Reading, Seen, Duties
-----------------------------------------------------------------------------
(* The invariant of one daemon: who works has the mutex, and what he found in
   the tables is still there (db.rs:44-77, 96-140). *)
LEMMA LoneInit == Init => LoneInv
<1> SUFFICES ASSUME Init PROVE LoneInv
  OBVIOUS
<1>1. \A t \in Tasks : task[t].pc = "idle" /\ task[t].results = <<>> /\ task[t].view = {}
  BY DEF Init, Rest
<1>2. Alone /\ \A t \in Tasks : Duties(t)
  BY <1>1 DEF Alone, Duties, Writing, At
<1>3. Numbers
  BY <1>1 DEF Init, Numbers
<1> QED
  BY <1>2, <1>3, InitInv, DutiesOfAll DEF LoneInv

LEMMA LoneNext ==
    ASSUME OneDaemon, LoneInv, [Next]_vars
    PROVE  LoneInv'
<1>1. Inv'
  BY OwnType, NextInv
<1>2. CASE UNCHANGED vars
  BY <1>2 DEF vars, LoneInv, Inv, Others, LogInv, Tables, RowsInStep, Ids, ActionsHaveEvents,
      Counted, Whole, Alone, Logging, Numbers, Fresh, Reading, Seen, At, Writing, Holds
<1>3. CASE Next
  <2>1. (Alone /\ Logging /\ Numbers /\ Reading /\ Seen)'
    <3>1. CASE Tick \/ \E t \in Tasks : Produce(t) \/ Lock(t) \/ Unlock(t)
      BY <3>1, WaitingLone
    <3>2. CASE \E t \in Tasks : ReadRows(t) \/ ReadActions(t)
      BY <3>2, ReadRowsLone, ReadActionsLone
    <3>3. CASE \E t \in Tasks :
                \/ InsertEvent(t) \/ InsertAction(t) \/ CountEvents(t) \/ DeleteOldest(t)
      BY <3>3, InsertEventLone, InsertActionLone, CountEventsLone, DeleteOldestLone
    <3>4. CASE \E d \in Daemons : Crash(d)
      BY <3>4, CrashLone
    <3> QED
      BY <1>3, <3>1, <3>2, <3>3, <3>4 DEF Next, TaskStep
  <2> QED
    BY <1>1, <2>1 DEF LoneInv
<1> QED
  BY <1>2, <1>3

THEOREM LoneInvariant ==
    ASSUME OneDaemon
    PROVE  Spec => []LoneInv
  BY LoneInit, LoneNext, PTL DEF Spec

(* A client of a daemon that is alone sees whole results (db.rs:96-140). *)
THEOREM SeesWhole ==
    ASSUME OneDaemon
    PROVE  Spec => []ReadsWhole
<1>1. LoneInv => ReadsWhole
  BY DEF LoneInv, Seen, ReadsWhole, Tasks
<1> QED
  BY <1>1, LoneInvariant, PTL
-----------------------------------------------------------------------------
(* The log as it is seen *)

LEMMA VisibleWhileWriting ==
    ASSUME OneDaemon, LoneInv, NEW t \in Tasks, Writing(t)
    PROVE  Visible = events \ {task[t].row}
<1>1. \A u \in Tasks : u # t => ~Writing(u)
  BY BusyHolds, OnlyOne DEF Writing, LoneInv
<1> QED
  BY <1>1 DEF Visible

LEMMA VisibleAtRest ==
    ASSUME \A u \in Tasks : ~Writing(u)
    PROVE  Visible = events
  BY DEF Visible

(* Different events are different entries. *)
LEMMA EntriesApart ==
    ASSUME LoneInv, NEW e \in events, NEW f \in events, Entry(e) = Entry(f)
    PROVE  e = f
<1>1. e.no = f.no
  BY DEF Entry
<1> QED
  BY <1>1 DEF LoneInv, Numbers

LEMMA EntryCount ==
    ASSUME LoneInv, NEW S \in SUBSET events
    PROVE  Cardinality({Entry(e) : e \in S}) = Cardinality(S)
<1> DEFINE T == {Entry(e) : e \in S}
           f == [e \in S |-> Entry(e)]
<1>1. f \in [S -> T] /\ \A x \in T : \E e \in S : f[e] = x
  OBVIOUS
<1>2. \A d, e \in S : f[d] = f[e] => d = e
  BY EntriesApart
<1>3. f \in Bijection(S, T)
  BY <1>1, <1>2 DEF Bijection, Injection, Surjection, IsInjective
<1>4. IsFiniteSet(S)
  BY OwnType, FS_Subset DEF LogInv, Tables
<1> HIDE DEF T
<1>5. Cardinality(T) = Cardinality(S)
  BY <1>3, <1>4, FS_Bijection DEF ExistsBijection
<1> QED
  BY <1>5 DEF T

(* What is stored of the event being logged. *)
LEMMA OwnEntry ==
    ASSUME LoneInv, NEW t \in Tasks, Writing(t)
    PROVE  /\ task[t].row \in events
           /\ Stored(task[t].row.id) \in 0..task[t].row.n
           /\ task[t].pc = "delete" \/ task[t].k = task[t].row.n
                 => Stored(task[t].row.id) = task[t].row.n
<1>1. task[t].row \in events
  BY DEF LoneInv, Logging
<1>2. task[t].row \in Row /\ task[t].row.n \in Nat /\ task[t].k \in Nat
  BY <1>1, OwnType, Fields DEF LogInv, Tables, Row
<1>3. CASE task[t].pc = "delete"
  <2>1. Ks(actions, task[t].row.id) = 1..task[t].row.n
    BY <1>3 DEF LoneInv, Logging, At
  <2>2. Stored(task[t].row.id) = task[t].row.n
    BY <1>2, <2>1, OwnType, StoredIs
  <2> QED
    BY <1>1, <1>2, <2>2
<1>4. CASE task[t].pc = "actions"
  <2>1. Ks(actions, task[t].row.id) = 1..task[t].k /\ task[t].k <= task[t].row.n
    BY <1>1, <1>4, OwnType DEF LogInv, Counted, RowsInStep, Writing, At
  <2>2. Stored(task[t].row.id) = task[t].k
    BY <1>2, <2>1, OwnType, StoredIs
  <2> QED
    BY <1>1, <1>2, <1>4, <2>1, <2>2
<1> QED
  BY <1>3, <1>4 DEF Writing

LEMMA EntryType ==
    ASSUME NEW e \in Row, Stored(e.id) \in 0..e.n
    PROVE  /\ Entry(e) \in [no : 1..MaxResults, ts : 0..MaxTime, n : 0..MaxActs,
                            stored : 0..MaxActs]
           /\ Entry(e).stored = Stored(e.id) /\ Entry(e).n = e.n /\ Entry(e).ts = e.ts
<1>1. /\ e.no \in 1..MaxResults /\ e.ts \in 0..MaxTime /\ e.n \in 0..MaxActs
      /\ MaxActs \in Nat
  BY LogAssumption DEF Row
<1>2. Stored(e.id) \in 0..MaxActs
  BY <1>1
<1> QED
  BY <1>1, <1>2 DEF Entry

(* The task is through and nothing is deleted: its event comes into sight. *)
LEMMA Revealed ==
    ASSUME OneDaemon, LoneInv, NEW t \in Tasks, Writing(t), UNCHANGED <<events, actions>>,
           \A u \in Tasks : ~Writing(u)'
    PROVE  /\ VisibleLog' = VisibleLog \cup {Entry(task[t].row)}
           /\ VisibleLog' = {Entry(e) : e \in events}
           /\ Entry(task[t].row) \notin VisibleLog
<1> DEFINE row == task[t].row
<1>1. Visible' = events
  BY DEF Visible
<1>2. Visible = events \ {row} /\ row \in events
  BY VisibleWhileWriting, OwnEntry
<1>3. \A e : Entry(e)' = Entry(e)
  BY DEF Entry, Stored
<1>4. VisibleLog' = {Entry(e) : e \in events}
  BY <1>1, <1>3 DEF VisibleLog
<1>5. VisibleLog = {Entry(e) : e \in events \ {row}}
  BY <1>2 DEF VisibleLog
<1>6. Entry(row) \notin VisibleLog
  BY <1>2, <1>5, EntriesApart
<1> QED
  BY <1>2, <1>4, <1>5, <1>6
-----------------------------------------------------------------------------
(* Every step adds an entry or is none. *)

(* AtomicLog counts with an instance of the same definition. *)
LEMMA SameCount == \A S : Atomic!Cardinality(S) = Cardinality(S)
  BY DEF Cardinality, Atomic!Cardinality

LEMMA AddsUnpruned ==
    ASSUME OneDaemon, LoneInv, NEW t \in Tasks, Writing(t), UNCHANGED <<events, actions>>,
           \A u \in Tasks : ~Writing(u)', MayFail \/ MayCrash
    PROVE  Atomic!Next
<1> DEFINE row == task[t].row
<1>1. row \in Row /\ Stored(row.id) \in 0..row.n
  BY OwnEntry, OwnType DEF LogInv, Tables
<1>2. /\ Entry(row) \in [no : 1..MaxResults, ts : 0..MaxTime, n : 0..MaxActs,
                         stored : 0..MaxActs]
      /\ Entry(row).stored = Stored(row.id) /\ Entry(row).n = row.n
  BY <1>1, EntryType
<1>3. Entry(row).stored <= Entry(row).n
  BY <1>1, <1>2
<1>4. VisibleLog' = VisibleLog \cup {Entry(row)} /\ Entry(row) \notin VisibleLog
  BY Revealed
<1>5. Atomic!AddUnpruned(Entry(row))
  BY <1>3, <1>4 DEF Atomic!AddUnpruned
<1> QED
  BY <1>2, <1>4, <1>5 DEF Atomic!Next

(* The task is through, and what it counted allows all entries to stay. *)
LEMMA AddsAndKeeps ==
    ASSUME OneDaemon, LoneInv, NEW t \in Tasks, Writing(t), UNCHANGED <<events, actions>>,
           \A u \in Tasks : ~Writing(u)', task[t].k = task[t].row.n,
           Cardinality(events) <= max_entries
    PROVE  Atomic!Next
<1> DEFINE row == task[t].row
           all == VisibleLog \cup {Entry(row)}
<1>1. row \in Row /\ Stored(row.id) \in 0..row.n /\ Stored(row.id) = row.n
  BY OwnEntry, OwnType DEF LogInv, Tables
<1>2. /\ Entry(row) \in [no : 1..MaxResults, ts : 0..MaxTime, n : 0..MaxActs,
                         stored : 0..MaxActs]
      /\ Entry(row).stored = Entry(row).n
  BY <1>1, EntryType
<1>3. VisibleLog' = all /\ VisibleLog' = {Entry(e) : e \in events} /\ Entry(row) \notin VisibleLog
  BY Revealed
<1>4. Cardinality(all) <= max_entries
  BY <1>3, EntryCount
<1>5. VisibleLog' \in Atomic!Newest(all)
  <2> DEFINE kept == VisibleLog'
  <2>1. kept \in SUBSET all /\ kept = all /\ \A e \in kept, f \in all \ kept : f.ts <= e.ts
    BY <1>3
  <2> HIDE DEF kept, all
  <2>2. kept \in Atomic!Newest(all)
    BY <1>4, <2>1, SameCount DEF Atomic!Newest
  <2> QED
    BY <2>2 DEF kept
<1>6. Atomic!Add(Entry(row))
  BY <1>2, <1>5 DEF Atomic!Add
<1> QED
  BY <1>2, <1>3, <1>6 DEF Atomic!Next

(* The task deletes the oldest events, one of which may be its own. *)
LEMMA AddsAndPrunes ==
    ASSUME OneDaemon, LoneInv, NEW t \in Tasks, task[t].pc = "delete",
           NEW gone \in Oldest(task[t].excess),
           events' = events \ gone, actions' = actions \ Cascade(gone),
           \A u \in Tasks : ~Writing(u)'
    PROVE  Atomic!Next
<1> DEFINE row == task[t].row
           n   == Cardinality(events)
           x   == task[t].excess
           all == VisibleLog \cup {Entry(row)}
<1>1. Writing(t) /\ row \in events /\ x = n - max_entries /\ x > 0
  BY OwnEntry DEF Writing, LoneInv, Logging, At
<1>2. row \in Row /\ Stored(row.id) \in 0..row.n /\ Stored(row.id) = row.n
  BY <1>1, OwnEntry, OwnType DEF LogInv, Tables
<1>3. /\ Entry(row) \in [no : 1..MaxResults, ts : 0..MaxTime, n : 0..MaxActs,
                         stored : 0..MaxActs]
      /\ Entry(row).stored = Entry(row).n
  BY <1>2, EntryType
<1>4. n \in Nat /\ max_entries \in Nat /\ x \in Nat /\ x <= n /\ n > max_entries
  BY <1>1, OwnType
<1>5. /\ gone \in SUBSET events /\ Cardinality(gone) = x
      /\ \A e \in gone, f \in events \ gone : e.ts <= f.ts
  <2>1. Min({x, n}) = x
    BY <1>4 DEF Min
  <2> QED
    BY <2>1 DEF Oldest, kSubset
<1>6. all = {Entry(e) : e \in events} /\ Entry(row) \notin VisibleLog
  <2>1. VisibleLog = {Entry(e) : e \in events \ {row}}
    BY <1>1, VisibleWhileWriting DEF VisibleLog
  <2> QED
    BY <1>1, <2>1, EntriesApart
<1>7. VisibleLog' = {Entry(e) : e \in events \ gone}
  <2>1. Visible' = events \ gone
    BY DEF Visible
  <2>2. ASSUME NEW e \in events \ gone PROVE Entry(e)' = Entry(e)
    <3>1. \A f \in gone : f.id # e.id
      BY <1>5, OwnType DEF LogInv, Ids
    <3>2. {a \in actions' : a.event = e.id} = {a \in actions : a.event = e.id}
      BY <3>1 DEF Cascade
    <3> QED
      BY <3>2 DEF Entry, Stored
  <2> QED
    BY <2>1, <2>2 DEF VisibleLog
<1>8. Cardinality(VisibleLog') = max_entries /\ Cardinality(all) = n
  <2>1. IsFiniteSet(events) /\ events \cap gone = gone
    BY <1>5, OwnType DEF LogInv, Tables
  <2>2. Cardinality(events \ gone) = n - x
    <3>1. Cardinality(events \ gone) = Cardinality(events) - Cardinality(events \cap gone)
      BY <2>1, FS_Difference
    <3> QED
      BY <1>5, <2>1, <3>1
  <2>3. Cardinality(VisibleLog') = n - x
    BY <1>7, <2>2, EntryCount
  <2>4. Cardinality(all) = n
    BY <1>6, EntryCount
  <2> QED
    BY <1>1, <1>4, <2>3, <2>4
<1>9. ASSUME NEW e \in VisibleLog', NEW f \in all \ VisibleLog' PROVE f.ts <= e.ts
  <2>1. PICK a \in events \ gone : e = Entry(a)
    BY <1>7
  <2>2. PICK b \in events : f = Entry(b)
    BY <1>6
  <2>3. b \in gone
    BY <1>7, <2>2
  <2> QED
    BY <1>5, <2>1, <2>2, <2>3 DEF Entry
<1> HIDE DEF all, row
<1>10. VisibleLog' \subseteq all
  BY <1>6, <1>7
<1>11. VisibleLog' \in Atomic!Newest(all)
  <2> DEFINE kept == VisibleLog'
  <2>1. kept \in SUBSET all /\ \A e \in kept, f \in all \ kept : f.ts <= e.ts
    BY <1>9, <1>10
  <2>2. Cardinality(kept) = max_entries /\ ~(Cardinality(all) <= max_entries)
    BY <1>4, <1>8
  <2> HIDE DEF kept, all
  <2>3. kept \in Atomic!Newest(all)
    BY <2>1, <2>2, SameCount DEF Atomic!Newest
  <2> QED
    BY <2>3 DEF kept
<1>12. Atomic!Add(Entry(row))
  BY <1>3, <1>11 DEF Atomic!Add, all
<1> QED
  BY <1>3, <1>6, <1>12 DEF Atomic!Next, row

(* Nothing to be seen: the tables are as they were, and so is who writes. *)
LEMMA Unseen ==
    ASSUME UNCHANGED <<events, actions>>,
           \A u \in Tasks : /\ Writing(u)' <=> Writing(u)
                            /\ Writing(u) => task'[u].row = task[u].row
    PROVE  VisibleLog' = VisibleLog
<1>1. Visible' = Visible
  BY DEF Visible
<1>2. \A e : Entry(e)' = Entry(e)
  BY DEF Entry, Stored
<1> QED
  BY <1>1, <1>2 DEF VisibleLog

LEMMA InsertEventSeen ==
    ASSUME OneDaemon, LoneInv, NEW t \in Tasks, InsertEvent(t)
    PROVE  VisibleLog' = VisibleLog
<1>1. /\ Holds(t) /\ task[t].pc = "idle" /\ OthersRest(t) /\ UNCHANGED actions
      /\ \/ task'[t].pc = "idle" /\ UNCHANGED events
         \/ task'[t].pc = "actions" /\ events' = events \cup {task'[t].row}
  BY OwnType, InsertEventEffect
<1>2. \A u \in Tasks : ~Writing(u)
  BY <1>1, OnlyOne DEF Writing, LoneInv
<1>3. CASE task'[t].pc = "idle" /\ UNCHANGED events
  BY <1>1, <1>2, <1>3, Unseen DEF Writing, OthersRest
<1>4. CASE task'[t].pc = "actions" /\ events' = events \cup {task'[t].row}
  <2>1. task'[t].row \notin events
    BY <1>4, OwnType, NumbersInsert
  <2>2. Visible = events
    BY <1>2, VisibleAtRest
  <2>3. Visible' = events
    BY <1>1, <1>2, <1>4, <2>1 DEF Visible, Writing, OthersRest
  <2>4. \A e : Entry(e)' = Entry(e)
    BY <1>1 DEF Entry, Stored
  <2> QED
    BY <2>2, <2>3, <2>4 DEF VisibleLog
<1> QED
  BY <1>1, <1>3, <1>4

LEMMA InsertActionSeen ==
    ASSUME OneDaemon, LoneInv, NEW t \in Tasks, InsertAction(t)
    PROVE  Atomic!Next \/ VisibleLog' = VisibleLog
<1>1. /\ task[t].pc = "actions" /\ OthersRest(t) /\ UNCHANGED events
      /\ \/ /\ task'[t].pc = "actions" /\ task'[t].row = task[t].row
            /\ actions' = actions \cup {[event |-> task[t].row.id, k |-> task[t].k + 1]}
         \/ /\ task'[t].pc = "idle" /\ UNCHANGED actions
            /\ MayFail \/ task[t].row \notin events
  BY OwnType, InsertActionEffect
<1>2. Writing(t) /\ task[t].row \in events /\ \A u \in Tasks : u # t => ~Writing(u)
  BY <1>1, BusyHolds, OnlyOne, OwnEntry DEF Writing, LoneInv
<1>3. CASE task'[t].pc = "idle" /\ UNCHANGED actions /\ MayFail
  <2>1. \A u \in Tasks : ~Writing(u)'
    BY <1>1, <1>2, <1>3 DEF Writing, OthersRest
  <2> QED
    BY <1>1, <1>2, <1>3, <2>1, AddsUnpruned
<1>4. CASE /\ task'[t].pc = "actions" /\ task'[t].row = task[t].row
           /\ actions' = actions \cup {[event |-> task[t].row.id, k |-> task[t].k + 1]}
  <2> DEFINE row == task[t].row
             new == [event |-> row.id, k |-> task[t].k + 1]
  <2>1. Visible = events \ {row}
    BY <1>2, VisibleWhileWriting
  <2>2. Visible' = Visible
    BY <1>1, <1>2, <1>4 DEF Visible, Writing, OthersRest
  <2>3. new.event = row.id /\ actions' = actions \cup {new}
    BY <1>4
  <2> HIDE DEF new
  <2>4. ASSUME NEW e \in Visible PROVE Entry(e)' = Entry(e)
    <3>1. e.id # row.id
      BY <1>2, <2>1, OwnType DEF LogInv, Ids
    <3>2. {a \in actions' : a.event = e.id} = {a \in actions : a.event = e.id}
      BY <2>3, <3>1
    <3> QED
      BY <3>2 DEF Entry, Stored
  <2> QED
    BY <2>2, <2>4 DEF VisibleLog
<1> QED
  BY <1>1, <1>2, <1>3, <1>4

LEMMA CountEventsSeen ==
    ASSUME OneDaemon, LoneInv, NEW t \in Tasks, CountEvents(t)
    PROVE  Atomic!Next \/ VisibleLog' = VisibleLog
<1>1. /\ task[t].pc = "actions" /\ task[t].k = task[t].row.n /\ OthersRest(t)
      /\ UNCHANGED <<events, actions>>
      /\ \/ task'[t].pc = "delete" /\ task'[t].row = task[t].row
         \/ task'[t].pc = "idle" /\ (MayFail \/ Cardinality(events) <= max_entries)
  BY OwnType, CountEventsEffect
<1>2. Writing(t) /\ \A u \in Tasks : u # t => ~Writing(u)
  BY <1>1, BusyHolds, OnlyOne DEF Writing, LoneInv
<1>3. CASE task'[t].pc = "idle" /\ (MayFail \/ Cardinality(events) <= max_entries)
  <2>1. \A u \in Tasks : ~Writing(u)'
    BY <1>1, <1>2, <1>3 DEF Writing, OthersRest
  <2> QED
    BY <1>1, <1>2, <1>3, <2>1, AddsUnpruned, AddsAndKeeps
<1>4. CASE task'[t].pc = "delete" /\ task'[t].row = task[t].row
  BY <1>1, <1>2, <1>4, Unseen DEF Writing, OthersRest
<1> QED
  BY <1>1, <1>3, <1>4

LEMMA DeleteOldestSeen ==
    ASSUME OneDaemon, LoneInv, NEW t \in Tasks, DeleteOldest(t)
    PROVE  Atomic!Next
<1>1. /\ task[t].pc = "delete" /\ task'[t].pc = "idle" /\ OthersRest(t)
      /\ \/ MayFail /\ UNCHANGED <<events, actions>>
         \/ \E gone \in Oldest(task[t].excess) :
               events' = events \ gone /\ actions' = actions \ Cascade(gone)
  BY OwnType, DeleteOldestEffect
<1>2. Writing(t) /\ \A u \in Tasks : u # t => ~Writing(u)
  BY <1>1, BusyHolds, OnlyOne DEF Writing, LoneInv
<1>3. \A u \in Tasks : ~Writing(u)'
  BY <1>1, <1>2 DEF Writing, OthersRest
<1> QED
  BY <1>1, <1>2, <1>3, AddsUnpruned, AddsAndPrunes

LEMMA CrashSeen ==
    ASSUME OneDaemon, LoneInv, NEW d \in Daemons, Crash(d)
    PROVE  Atomic!Next \/ VisibleLog' = VisibleLog
<1>1. /\ \A t \in Tasks : task'[t].pc = "idle"
      /\ MayCrash /\ UNCHANGED <<events, actions>>
  BY CrashEffect
<1>2. \A u \in Tasks : ~Writing(u)'
  BY <1>1 DEF Writing
<1>3. CASE \E t \in Tasks : Writing(t)
  BY <1>1, <1>2, <1>3, AddsUnpruned
<1>4. CASE \A t \in Tasks : ~Writing(t)
  BY <1>1, <1>2, <1>4, Unseen
<1> QED
  BY <1>3, <1>4

LEMMA OtherSteps ==
    ASSUME OneDaemon, LoneInv,
           \/ Tick
           \/ \E t \in Tasks :
                 Produce(t) \/ Lock(t) \/ Unlock(t) \/ ReadRows(t) \/ ReadActions(t)
    PROVE  VisibleLog' = VisibleLog
<1>1. ASSUME UNCHANGED <<tables, task>> PROVE VisibleLog' = VisibleLog
  BY <1>1, Unseen DEF tables, Writing
<1>2. ASSUME NEW t \in Tasks, OthersRest(t), UNCHANGED <<events, actions>>,
             task[t].pc \in {"idle", "reading"}, task'[t].pc \in {"idle", "reading"}
      PROVE  VisibleLog' = VisibleLog
  BY <1>2, Unseen DEF OthersRest, Writing
<1>3. CASE Tick \/ \E t \in Tasks : Lock(t) \/ Unlock(t)
  BY <1>1, <1>3 DEF Tick, Lock, Unlock
<1>4. ASSUME NEW t \in Tasks, Produce(t) PROVE VisibleLog' = VisibleLog
  BY <1>2, <1>4, OwnType, ProduceEffect
<1>5. ASSUME NEW t \in Tasks, ReadRows(t) PROVE VisibleLog' = VisibleLog
  BY <1>2, <1>5, OwnType, ReadRowsEffect
<1>6. ASSUME NEW t \in Tasks, ReadActions(t) PROVE VisibleLog' = VisibleLog
  BY <1>2, <1>6, OwnType, ReadActionsEffect
<1> QED
  BY <1>3, <1>4, <1>5, <1>6

LEMMA StepSeen ==
    ASSUME OneDaemon, LoneInv, [Next]_vars
    PROVE  [Atomic!Next]_VisibleLog
<1>1. CASE UNCHANGED vars
  BY <1>1, Unseen DEF vars, Writing
<1>2. CASE Tick \/ \E t \in Tasks :
                Produce(t) \/ Lock(t) \/ Unlock(t) \/ ReadRows(t) \/ ReadActions(t)
  BY <1>2, OtherSteps
<1>3. CASE \E t \in Tasks : InsertEvent(t) \/ InsertAction(t) \/ CountEvents(t) \/ DeleteOldest(t)
  BY <1>3, InsertEventSeen, InsertActionSeen, CountEventsSeen, DeleteOldestSeen
<1>4. CASE \E d \in Daemons : Crash(d)
  BY <1>4, CrashSeen
<1> QED
  BY <1>1, <1>2, <1>3, <1>4 DEF Next, TaskStep

(* The log of a daemon that is alone, as a holder of its mutex sees it, takes
   every result in one step, whole, and loses only what is oldest, whatever
   fails or dies between its statements (db.rs:44-77, 144-157). *)
THEOREM Implements ==
    ASSUME OneDaemon
    PROVE  Spec => IsAtomicLog
<1>1. Init => Atomic!Init
  BY DEF Init, Atomic!Init, VisibleLog, Visible
<1> QED
  BY <1>1, LoneInvariant, StepSeen, PTL DEF Spec, IsAtomicLog, Atomic!Spec
=============================================================================
