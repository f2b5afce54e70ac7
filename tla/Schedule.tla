------------------------------ MODULE Schedule ------------------------------
(***************************************************************************)
(* How often a rule with an interval for a schedule runs: normalize_cron   *)
(* and parse_interval_to_cron of crates/doumi-daemon/src/scheduler.rs, and *)
(* a clock for the job that run_scheduler makes of the result.             *)
(*                                                                         *)
(* A schedule is a number and a letter ("90m"), or a word that is neither  *)
(* that nor a cron expression.  Of a cron expression the field that is not *)
(* "*" or 0 matters, and its step.  The clock counts the values of that    *)
(* field; the fields below it are 0, so that a job fires at most once per  *)
(* value.                                                                  *)
(***************************************************************************)
EXTENDS Integers, Sequences, FiniteSetsExt

CONSTANT MaxNumber  \* bound on the numbers in intervals

ASSUME ScheduleAssumption == MaxNumber \in Nat

Schedules == [letter : {"m", "h", "d"}, number : 0..MaxNumber]
Word      == [letter |-> "", number |-> 0]

(* Mutant: minutes are put into the field of the hours. *)
parse_interval_to_cron_hours(s) ==
    CASE s.letter \in {"m", "h"} -> [field |-> "hour", step |-> s.number]
      [] s.letter = "d" -> [field |-> "day", step |-> s.number]

parse_interval_to_cron(s) ==
    CASE s.letter = "m" -> [field |-> "minute", step |-> s.number]
      [] s.letter = "h" -> [field |-> "hour", step |-> s.number]
      [] s.letter = "d" -> [field |-> "day", step |-> s.number]

(* What cannot be parsed runs every hour. *)
normalize_cron(s) == IF s = Word THEN [field |-> "hour", step |-> 1]
                     ELSE parse_interval_to_cron(s)

(* The values a field takes, one after the other, in an hour, a day or a
   common year. *)
DaysBefore == {0, 31, 59, 90, 120, 151, 181, 212, 243, 273, 304, 334} \* each month
Values == [minute |-> [i \in 1..60 |-> i - 1],
           hour   |-> [i \in 1..24 |-> i - 1],
           day    |-> [i \in 1..365 |-> i - Max({d \in DaysBefore : d < i})]]

(* Whether the cron library takes a step: never 0; one that is larger than
   the field it may take or refuse. *)
Acceptable(cron) == IF cron.step = 0 THEN {FALSE}
                    ELSE IF cron.step > Len(Values[cron.field]) THEN BOOLEAN ELSE {TRUE}

(* "*" with a step: counted from the first value the field has. *)
Fires(cron, value) == (value - Values[cron.field][1]) % cron.step = 0

VARIABLES
    schedule,  \* the schedule of the rule
    job,       \* the cron expression of its job, or NoJob
    clock,     \* position in the values of the field the schedule asks for
    since      \* values passed since the rule ran last, or the daemon started
scheduleVars == <<schedule, job, clock, since>>

NoJob == [field |-> "none", step |-> 0]

(* run_scheduler, once, when the daemon starts: a schedule the cron library
   refuses is warned about (scheduler.rs:42-47) and the rule has no job. *)
ScheduleInit ==
    /\ schedule \in Schedules \cup {Word}
    /\ \E accepted \in Acceptable(normalize_cron(schedule)) :
          job = IF accepted THEN normalize_cron(schedule) ELSE NoJob
    /\ clock = 1 /\ since = 0

(* Time goes on whether or not there is a job.  Bound: the clock is not
   followed further once it is past every interval there is. *)
Tick ==
    LET field == normalize_cron(schedule).field
    IN  /\ since <= MaxNumber
        /\ clock' = (clock % Len(Values[field])) + 1
        /\ since' = IF job # NoJob /\ Fires(job, Values[field][clock'])
                    THEN 0 ELSE since + 1
        /\ UNCHANGED <<schedule, job>>

ScheduleSpec == ScheduleInit /\ [][Tick]_scheduleVars
----------------------------------------------------------------------------
Minutes == [minute |-> 1, hour |-> 60, day |-> 1440]
Asked   == [m |-> 1, h |-> 60, d |-> 1440]
Lengths == [minute |-> {60}, hour |-> {24}, day |-> {28, 30, 31}]

(* A rule whose interval gave it a job never waits longer than the interval
   says (scheduler.rs:91-105).  It waits exactly as long when the interval
   divides the next larger unit; any other, 90m or 7d, comes round too early,
   because the count starts anew with every hour, day or month.  Of an
   interval that gives no job - 0, or a step the cron library refuses -
   nothing is said: such a rule never runs. *)
IntervalsHold ==
    [][schedule # Word /\ job # NoJob =>
          LET asked == schedule.number * Asked[schedule.letter]
              waited == (since + 1) * Minutes[job.field]
          IN  /\ waited <= asked
              /\ /\ since' = 0
                 /\ \A n \in Lengths[job.field] : n % schedule.number = 0
                 => waited = asked]_scheduleVars
=============================================================================
