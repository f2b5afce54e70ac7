------------------------------ MODULE MCRules ------------------------------
(***************************************************************************)
(* What a rule means, from the four sides it is looked at, each with a     *)
(* small state of its own: which files its folders reach (MCScope), which  *)
(* of them its conditions hold for (MCConditions), what the dialog makes   *)
(* of it (MCEditor) and when it runs (Schedule).  No code of one writes    *)
(* what another reads, so a behaviour follows one of them while the others *)
(* rest in some first state.                                               *)
(***************************************************************************)
EXTENDS MCScope, MCConditions, MCEditor, Schedule

VARIABLE side
vars == <<scopeVars, conditionVars, editorVars, scheduleVars, side>>

ScopeRests     == marked = {} /\ target = NoLinks /\ folders = {Flat(W)}
ConditionRests == json = IsA /\ entry = Plain
EditorRests    == form = Closed /\ rule = NoRule /\ made = FALSE /\ touched = FALSE
                  /\ touches = 0
ScheduleRests  == schedule = Word /\ job = NoJob /\ clock = 1 /\ since = 0

Init ==
    /\ side \in {"scope", "conditions", "editor", "schedule"}
    /\ IF side = "scope"      THEN ScopeInit     ELSE ScopeRests
    /\ IF side = "conditions" THEN ConditionInit ELSE ConditionRests
    /\ IF side = "editor"     THEN EditorInit    ELSE EditorRests
    /\ IF side = "schedule"   THEN ScheduleInit  ELSE ScheduleRests

Next ==
    /\ UNCHANGED side
    /\ \/ side = "scope"      /\ ScopeNext
          /\ UNCHANGED <<conditionVars, editorVars, scheduleVars>>
       \/ side = "conditions" /\ ConditionNext
          /\ UNCHANGED <<scopeVars, editorVars, scheduleVars>>
       \/ side = "editor"     /\ EditorNext
          /\ UNCHANGED <<scopeVars, conditionVars, scheduleVars>>
       \/ side = "schedule"   /\ Tick
          /\ UNCHANGED <<scopeVars, conditionVars, editorVars>>

Spec == Init /\ [][Next]_vars
=============================================================================
