---------------------------- MODULE LoadEngine ----------------------------
(***************************************************************************)
(* The engine of one worker, engine/runner.rs without the VU curve:        *)
(* run_scenario (closed loop: VUs spawned along a ramp, each iterating     *)
(* until the deadline) and run_scenario_open_loop (arrivals at scheduled   *)
(* times, each on a free slot or dropped), with the rows a unique dataset  *)
(* hands to the iterations (engine/dataset.rs).                            *)
(*                                                                         *)
(* The main task and the tasks it spawns are polled in any order.  An      *)
(* actor is a VU of the closed loop or a slot of the open one.             *)
(***************************************************************************)
EXTENDS Integers, Sequences, FiniteSets, SequencesExt

CONSTANTS
    Actors,      \* plan.vus VUs, or max_in_flight slots: a set 1..N
    Deadline,    \* the deadline, in ticks of the clock
    RowCounts,   \* the sizes of the unique slice; 0: no unique binding
    Schedules,   \* open loop: the attempts' times, in order; then Deadline
    Ramps,       \* closed loop: the ramps, in ticks
    MaxPanics    \* bound: tasks that panic

\* What the proofs ask of the constants: finitely many actors, a longest slice,
\* a schedule to begin with.
Admissible ==
    /\ IsFiniteSet(Actors)
    /\ RowCounts \subseteq Nat
    /\ \E m \in RowCounts : \A n \in RowCounts : n <= m
    /\ Ramps \subseteq Nat /\ Schedules # {}
    /\ Deadline \in Nat /\ MaxPanics \in Nat

NoRow == 0

VARIABLES
    loop,       \* "closed" or "open"
    schedule,   \* the attempts' times of the open loop
    ramp,       \* ramp_secs of the closed loop
    rows,       \* rows in the slice of the unique binding
    clock,
    cancel,     \* the run's CancellationToken
    main,       \* the main task's position
    attempts,   \* spawned VUs, or the attempt index "tick" of the open loop
    nextSpawn,  \* next_spawn
    task,       \* each actor's task
    free,       \* the channel of free slots
    cursor,     \* the shared counter of the unique binding
    row,        \* the row an iteration holds
    used,       \* history: how many iterations were given each row
    exhausted,
    outcome,    \* how each actor's task ended last, "none" before
    result, panics

inputVars == <<loop, schedule, ramp, rows>>
rowVars   == <<cursor, row, used>>
vars == <<inputVars, clock, cancel, main, attempts, nextSpawn, task, free,
          rowVars, exhausted, outcome, result, panics>>

N       == Cardinality(Actors)
MaxRow  == CHOOSE m \in RowCounts : \A n \in RowCounts : n <= m
Rows    == 1..MaxRow
Running == {a \in Actors : task[a] \notin {"none", "ended"}}

TypeOK ==
    /\ loop \in {"closed", "open"} /\ schedule \in Schedules
    /\ ramp \in Ramps \cup {0} /\ rows \in RowCounts
    /\ clock \in 0..Deadline
    /\ {cancel, exhausted} \subseteq BOOLEAN
    /\ main \in {"spawn", "check", "act", "join", "over"}
    /\ attempts \in Nat /\ nextSpawn \in Nat
    /\ task \in [Actors -> {"none", "top", "bind", "steps", "request", "ended"}]
    /\ free \in Seq(Actors)
    /\ cursor \in Nat
    /\ row \in [Actors -> Rows \cup {NoRow}]
    /\ used \in [Rows -> Nat]
    /\ outcome \in [Actors -> {"none", "ok", "aborted", "error", "panic"}]
    /\ result \in {"none", "ok", "aborted", "allVusFailed"}
    /\ panics \in 0..MaxPanics

Init ==
    /\ \/ loop = "closed" /\ ramp \in Ramps /\ main = "spawn" /\ free = <<>>
          /\ schedule = CHOOSE s \in Schedules : TRUE
       \/ loop = "open" /\ schedule \in Schedules /\ main = "check"
          /\ ramp = 0 /\ free = SetToSeq(Actors)
    /\ rows \in RowCounts
    /\ clock = 0 /\ cancel = FALSE
    /\ attempts = 0 /\ nextSpawn = 0
    /\ task = [a \in Actors |-> "none"]
    /\ cursor = 0
    /\ row = [a \in Actors |-> NoRow]
    /\ outcome = [a \in Actors |-> "none"]
    /\ used = [r \in Rows |-> 0]
    /\ exhausted = FALSE /\ result = "none" /\ panics = 0

----------------------------------------------------------------------------
(***************************************************************************)
(* The closed loop's main task: per_tick VUs each second until all are     *)
(* spawned; the ramp looks at the token but not at the deadline.           *)
(***************************************************************************)

PerTick == IF ramp = 0 THEN N ELSE (N + ramp - 1) \div ramp

SpawnVus ==
    /\ main = "spawn" /\ ~cancel /\ attempts < N
    /\ clock >= nextSpawn
    /\ LET upTo == IF attempts + PerTick < N THEN attempts + PerTick ELSE N
       IN  /\ task' = [a \in Actors |-> IF a \in (attempts + 1)..upTo THEN "top"
                                        ELSE task[a]]
           /\ attempts' = upTo
    /\ nextSpawn' = nextSpawn + 1
    /\ UNCHANGED <<inputVars, clock, cancel, main, free, rowVars, exhausted,
                   outcome, result, panics>>

SpawnEnds ==
    /\ main = "spawn" /\ (cancel \/ attempts = N)
    /\ main' = "join"
    /\ UNCHANGED <<inputVars, clock, cancel, attempts, nextSpawn, task, free,
                   rowVars, exhausted, outcome, result, panics>>

----------------------------------------------------------------------------
(***************************************************************************)
(* The open loop's main task.                                              *)
(***************************************************************************)

\* Mutant of LoopEnds: the deadline is left to the schedule.
LoopEndsLate == cancel \/ exhausted

LoopEnds == cancel \/ exhausted \/ clock >= Deadline

\* curve_time, or the sum of the intervals: parked at the deadline at the end.
NextAttempt == IF attempts < Len(schedule) THEN schedule[attempts + 1] ELSE Deadline

\* The head of the loop; until the next attempt's time the task sleeps.
Check ==
    /\ main = "check"
    /\ LoopEnds \/ clock >= NextAttempt
    /\ main' = IF LoopEnds THEN "join" ELSE "act"
    /\ UNCHANGED <<inputVars, clock, cancel, attempts, nextSpawn, task, free,
                   rowVars, exhausted, outcome, result, panics>>

\* try_recv: the arrival fires on the slot, or it is dropped.
Act ==
    /\ main = "act"
    /\ \/ /\ free # <<>>
          /\ task' = [task EXCEPT ![Head(free)] = "bind"]
          /\ free' = Tail(free)
       \/ /\ free = <<>>
          /\ UNCHANGED <<task, free>>
    /\ attempts' = IF attempts < Len(schedule) THEN attempts + 1 ELSE attempts
    /\ main' = "check"
    /\ UNCHANGED <<inputVars, clock, cancel, nextSpawn, rowVars, exhausted,
                   outcome, result, panics>>

----------------------------------------------------------------------------
(***************************************************************************)
(* The tasks of VUs and arrivals.                                          *)
(***************************************************************************)

\* Mutant of GivesBack: the slot is returned by those who finish, not by Drop.
GivesBackOnReturn(a, how) ==
    free' = IF loop = "open" /\ how # "panic" THEN Append(free, a) ELSE free

\* SlotGuard's Drop runs on every way out of an arrival.
GivesBack(a, how) == free' = IF loop = "open" THEN Append(free, a) ELSE free

Ends(a, how) ==
    /\ task' = [task EXCEPT ![a] = "ended"]
    /\ row' = [row EXCEPT ![a] = NoRow]
    /\ GivesBack(a, how)
    /\ outcome' = [outcome EXCEPT ![a] = how]

Goes(a, to) ==
    /\ task' = [task EXCEPT ![a] = to]
    /\ UNCHANGED <<row, free, outcome>>

mainVars == <<inputVars, clock, cancel, main, attempts, nextSpawn, result>>

\* run_vu's loop head.
Top(a) ==
    /\ task[a] = "top"
    /\ \/ clock >= Deadline /\ Ends(a, "ok")
       \/ clock < Deadline /\ cancel /\ Ends(a, "aborted")
       \/ clock < Deadline /\ ~cancel /\ Goes(a, "bind")
    /\ UNCHANGED <<mainVars, cursor, used, exhausted, panics>>

\* Mutant of SelectIndex: the cursor wraps like the sequential policy's.
SelectWrapped == (cursor % rows) + 1

\* Unique: fetch_add on the worker's cursor; NoRow when the slice is exhausted.
SelectIndex == IF cursor < rows THEN cursor + 1 ELSE NoRow

\* The iteration is given a row, needs none, or ends for want of one.
Bind(a) ==
    /\ task[a] = "bind"
    /\ \/ /\ rows = 0
          /\ Goes(a, "steps")
          /\ UNCHANGED <<cursor, used, exhausted>>
       \/ /\ rows > 0
          /\ cursor' = cursor + 1
          /\ \/ /\ SelectIndex # NoRow
                /\ task' = [task EXCEPT ![a] = "steps"]
                /\ row' = [row EXCEPT ![a] = SelectIndex]
                /\ used' = [used EXCEPT ![SelectIndex] = @ + 1]
                /\ UNCHANGED <<free, outcome, exhausted>>
             \/ /\ SelectIndex = NoRow
                /\ Ends(a, "ok")
                /\ exhausted' = (exhausted \/ loop = "open")
                /\ UNCHANGED used
    /\ UNCHANGED <<mainVars, panics>>

\* The head of execute_steps: the deadline before the token, then a request.
Step(a) ==
    /\ task[a] = "steps"
    /\ \/ clock >= Deadline /\ Ends(a, "ok")
       \/ clock < Deadline /\ cancel /\ Ends(a, "aborted")
       \/ clock < Deadline /\ ~cancel /\ Goes(a, "request")
    /\ UNCHANGED <<mainVars, cursor, used, exhausted, panics>>

\* A request returns: more steps, the end of the iteration, or an engine error.
Return(a) ==
    /\ task[a] = "request"
    /\ \/ Goes(a, "steps")
       \/ loop = "open" /\ Ends(a, "ok")
       \/ /\ loop = "closed"
          /\ task' = [task EXCEPT ![a] = "top"]
          /\ row' = [row EXCEPT ![a] = NoRow]
          /\ UNCHANGED <<free, outcome>>
       \/ Ends(a, "error")
    /\ UNCHANGED <<mainVars, cursor, used, exhausted, panics>>

Panic(a) ==
    /\ a \in Running /\ panics < MaxPanics
    /\ panics' = panics + 1
    /\ Ends(a, "panic")
    /\ UNCHANGED <<mainVars, cursor, used, exhausted>>

----------------------------------------------------------------------------
\* The counter of failed VUs: errors, panics, and VUs that were aborted.
AllFailed ==
    /\ loop = "closed"
    /\ Cardinality({a \in Actors : outcome[a] \notin {"none", "ok"}}) >= N

\* Mutant of Verdict: the failures are looked at before the cancellation.
VerdictFailedFirst ==
    IF AllFailed THEN "allVusFailed" ELSE IF cancel THEN "aborted" ELSE "ok"

\* The token first, then the failures; an open loop never fails.
Verdict ==
    IF cancel THEN "aborted" ELSE IF AllFailed THEN "allVusFailed" ELSE "ok"

\* join_next until no task is left; the final flush is MetricsPath's.
Join ==
    /\ main = "join" /\ Running = {}
    /\ result' = Verdict
    /\ main' = "over"
    /\ UNCHANGED <<inputVars, clock, cancel, attempts, nextSpawn, task, free,
                   rowVars, exhausted, outcome, panics>>

Tick ==
    /\ clock < Deadline
    /\ clock' = clock + 1
    /\ UNCHANGED <<inputVars, cancel, main, attempts, nextSpawn, task, free,
                   rowVars, exhausted, outcome, result, panics>>

Cancel ==
    /\ ~cancel
    /\ cancel' = TRUE
    /\ UNCHANGED <<inputVars, clock, main, attempts, nextSpawn, task, free,
                   rowVars, exhausted, outcome, result, panics>>

MainMoves == SpawnVus \/ SpawnEnds \/ Check \/ Act \/ Join
TaskMoves(a) == Top(a) \/ Bind(a) \/ Step(a) \/ Return(a)

Next ==
    \/ MainMoves \/ Tick \/ Cancel
    \/ \E a \in Actors : TaskMoves(a) \/ Panic(a)

Spec == Init /\ [][Next]_vars

\* Tasks are polled, time passes, a request returns (its timeout at the latest).
Fairness ==
    /\ WF_vars(MainMoves) /\ WF_vars(Tick)
    /\ \A a \in Actors : WF_vars(TaskMoves(a))

FairSpec == Spec /\ Fairness

----------------------------------------------------------------------------
(***************************************************************************)
(* No slot is lost or doubled, on any way out of an arrival: the free      *)
(* slots and those of running arrivals are all the slots, each once.  A    *)
(* leaked slot would turn later arrivals into drops for good, a doubled    *)
(* one would give two arrivals one client and one vu_id.                   *)
(***************************************************************************)
SlotsAreConserved ==
    loop = "open" =>
        /\ IsInjective(free)
        /\ ToSet(free) = Actors \ Running

(***************************************************************************)
(* No row of a unique slice is given to two iterations, however the VUs or *)
(* arrivals interleave, and no iteration of a run with such a slice sends  *)
(* a request without a row.                                                *)
(***************************************************************************)
UniqueRowsAreUsedOnce ==
    /\ \A r \in Rows : used[r] <= 1
    /\ \A a \in Actors :
        task[a] \in {"steps", "request"} /\ rows > 0 => row[a] # NoRow

\* What is handed out, a slot or a row, is one iteration's at a time.
SlotsAndRowsAreHeldOnce == SlotsAreConserved /\ UniqueRowsAreUsedOnce

(***************************************************************************)
(* The verdict is true: a run fails only when every VU of the plan failed  *)
(* by itself, and neither a run that failed nor one that completed has an  *)
(* iteration that was cut short by the cancellation.  Running out of       *)
(* unique rows is no failure.                                              *)
(***************************************************************************)
VerdictIsTrue ==
    /\ result = "allVusFailed" => \A a \in Actors : outcome[a] \in {"error", "panic"}
    /\ result = "ok" => \A a \in Actors : outcome[a] # "aborted"

(***************************************************************************)
(* Every run ends: the ramp, the schedule, the rows and the iterations     *)
(* come to an end with the deadline or before, whoever panics.             *)
(***************************************************************************)
EngineEnds == <>(main = "over")
=============================================================================
