----------------------------- MODULE Scheduler -----------------------------
(***************************************************************************)
(* The run scheduler of the controller: a loop that asks the database for  *)
(* the schedules that are due and settles them one after the other, against *)
(* users who replace or delete schedules meanwhile, runs that end, and a   *)
(* controller that restarts between any two steps.                         *)
(*                                                                         *)
(* What the loop knows of a schedule is the row of its due query, however  *)
(* old by then.  Time is counted in units of which a cron fires every      *)
(* Period-th; a wall clock that steps back is not modelled.                *)
(***************************************************************************)
EXTENDS Integers, FiniteSets

CONSTANTS
    Schedules,
    Period,      \* a cron fires at the multiples of it
    MissGrace,   \* MISS_GRACE_MS
    MaxTime,     \* bound: the clock
    MaxRuns,     \* bound: runs started
    MaxEdits,    \* bound: PUT and DELETE /schedules/{id}
    MaxCrashes   \* bound: controller restarts

ASSUME SchedulerAssumption ==
    /\ IsFiniteSet(Schedules)
    /\ Period \in Nat \ {0}
    /\ {MissGrace, MaxTime, MaxRuns, MaxEdits, MaxCrashes} \subseteq Nat

Never  == -1
NoRun  == 0
RunIds == 1..MaxRuns
Times  == 0..(MaxTime + Period)
Kinds  == {"fired", "skipped_overlap", "missed", "error"}

Row == [exists : BOOLEAN, kind : {"once", "cron"}, enabled : BOOLEAN,
        next : Times \cup {Never}, last : RunIds \cup {NoRun}]

VARIABLES
    now,
    row,        \* the schedules table
    status,     \* runs.status of the runs the scheduler started
    origin,     \* the schedule and the slot a run was started for
    pc,         \* process_due_schedules' position
    due,        \* the rows of the due query still to settle: <<schedule, row>>
    tick,       \* now_ms of the tick, 0 between ticks
    decision,   \* what is being recorded: its kind and its run
    settled,    \* the slot of the schedule's latest event
    put,        \* the PUT between its gate and its update
    late,       \* history: schedules of a PUT whose time came before its update
    edits, crashes

loopVars  == <<pc, due, tick, decision>>
runVars   == <<status, origin>>
boundVars == <<edits, crashes>>
putVars   == <<put, late>>
vars == <<now, row, runVars, loopVars, settled, putVars, boundVars>>

NoOrigin   == <<>>
NoPut      == <<>>
NoDecision == [kind |-> "none", run |-> NoRun]

TypeOK ==
    /\ now \in 0..MaxTime
    /\ row \in [Schedules -> Row]
    /\ status \in [RunIds -> {"none", "active", "over"}]
    /\ origin \in [RunIds -> (Schedules \X Times) \cup {NoOrigin}]
    /\ pc \in {"idle", "check", "validate", "dispatch", "mark", "event"}
    /\ due \in SUBSET (Schedules \X Row)
    /\ tick \in 0..MaxTime
    /\ decision \in [kind : Kinds \cup {"none"}, run : RunIds \cup {NoRun}]
    /\ settled \in [Schedules -> Times \cup {Never}]
    /\ put \in (Schedules \X Row) \cup {NoPut} /\ late \subseteq Schedules
    /\ edits \in 0..MaxEdits /\ crashes \in 0..MaxCrashes

----------------------------------------------------------------------------
(***************************************************************************)
(* schedule/trigger.rs.                                                    *)
(***************************************************************************)

\* Mutant of NextSlot: the occurrence at t itself counts.
SlotFrom(t) == ((t + Period - 1) \div Period) * Period

\* Mutant of NextSlot: the occurrence after the next.
SlotAfterNext(t) == (t \div Period + 2) * Period

\* find_next_occurrence, exclusive of t.
NextSlot(t) == (t \div Period + 1) * Period

\* validate_trigger and next_fire_after, as the gate of the API applies them
\* at time t: a one-time schedule lies in the future.
Triggers(t) ==
    {[kind |-> "cron", next |-> NextSlot(t)]}
      \cup {[kind |-> "once", next |-> u] : u \in (t + 1)..MaxTime}

Written(trigger, enabled, last) ==
    [exists |-> TRUE, kind |-> trigger.kind, enabled |-> enabled, next |-> trigger.next,
     last |-> last]

Init ==
    /\ now = 0
    /\ \E triggers \in [Schedules -> Triggers(0)] :
         row = [s \in Schedules |-> Written(triggers[s], TRUE, NoRun)]
    /\ status = [r \in RunIds |-> "none"]
    /\ origin = [r \in RunIds |-> NoOrigin]
    /\ pc = "idle" /\ due = {} /\ tick = 0 /\ decision = NoDecision
    /\ settled = [s \in Schedules |-> Never]
    /\ put = NoPut /\ late = {} /\ edits = 0 /\ crashes = 0

----------------------------------------------------------------------------
(***************************************************************************)
(* process_due_schedules.                                                  *)
(***************************************************************************)

\* The due query: enabled, with a next_run_at that has come.
IsDue(s) == row[s].exists /\ row[s].enabled /\ row[s].next \in 0..now

Tick ==
    /\ pc = "idle"
    /\ \E s \in Schedules : IsDue(s)
    /\ due' = {<<s, row[s]>> : s \in {s \in Schedules : IsDue(s)}}
    /\ tick' = now
    /\ pc' = "check"
    /\ UNCHANGED <<now, row, runVars, decision, settled, putVars, boundVars>>

\* ORDER BY next_run_at.
IsFirst(x) == x \in due /\ \A y \in due : x[2].next <= y[2].next

\* The schedule being settled: the loop keeps it first until its event.
Settling(x) == IsFirst(x) /\ x = CHOOSE y \in due : IsFirst(y)

Decide(kind, run) == decision' = [kind |-> kind, run |-> run]

IsMissed(x)  == x[2].kind = "cron" /\ tick - x[2].next > MissGrace
Overlaps(x)  == x[2].last # NoRun /\ status[x[2].last] = "active"

\* Missed, overlapping, or to be fired.
Check(x) ==
    /\ pc = "check"
    /\ Settling(x)
    /\ \/ /\ IsMissed(x)
          /\ Decide("missed", NoRun) /\ pc' = "mark"
       \/ /\ ~IsMissed(x) /\ Overlaps(x)
          /\ Decide("skipped_overlap", NoRun) /\ pc' = "mark"
       \/ /\ ~IsMissed(x) /\ ~Overlaps(x)
          /\ pc' = "validate" /\ UNCHANGED decision
    /\ UNCHANGED <<now, row, runVars, due, tick, settled, putVars, boundVars>>

\* The scenario is gone, or the profile or a criterion no longer valid; or
\* spawn_run inserts a pending run.
Invalid(x) ==
    /\ pc = "validate"
    /\ Settling(x)
    /\ Decide("error", NoRun)
    /\ pc' = "mark"
    /\ UNCHANGED <<now, row, runVars, due, tick, settled, putVars, boundVars>>

InsertRun(x, r) ==
    /\ pc = "validate"
    /\ Settling(x)
    /\ status[r] = "none" /\ \A q \in 1..(r - 1) : status[q] # "none"
    /\ status' = [status EXCEPT ![r] = "active"]
    /\ origin' = [origin EXCEPT ![r] = <<x[1], x[2].next>>]
    /\ Decide("fired", r)
    /\ pc' = "dispatch"
    /\ UNCHANGED <<now, row, due, tick, settled, putVars, boundVars>>

\* The rest of spawn_run: dispatched, or failed and the run marked so.
Dispatch ==
    /\ pc = "dispatch"
    /\ \/ UNCHANGED <<status, decision>>
       \/ /\ status' = [status EXCEPT ![decision.run] = "over"]
          /\ Decide("error", NoRun)
    /\ pc' = "mark"
    /\ UNCHANGED <<now, row, origin, due, tick, settled, putVars, boundVars>>

\* Mutant of Advance: a one-time schedule is not used up.
AdvanceCronOnly(x) ==
    [next |-> IF x[2].kind = "once" THEN x[2].next ELSE NextSlot(tick), enabled |-> TRUE]

\* Mutant of Advance: a schedule that missed its slot keeps it.
AdvanceUnlessMissed(x) ==
    IF decision.kind = "missed" THEN [next |-> x[2].next, enabled |-> TRUE]
    ELSE IF x[2].kind = "once" THEN [next |-> Never, enabled |-> FALSE]
    ELSE [next |-> NextSlot(tick), enabled |-> TRUE]

\* adv_next and adv_enabled: where the schedule goes whatever the outcome.
Advance(x) ==
    IF x[2].kind = "once" THEN [next |-> Never, enabled |-> FALSE]
                          ELSE [next |-> NextSlot(tick), enabled |-> TRUE]

\* Mutant of LastRun: last_run_id is not coalesced.
LastRunAsGiven(x) == decision.run
LastRun(x) == IF decision.run # NoRun THEN decision.run ELSE row[x[1]].last

\* record, first statement: mark_outcome, over whatever the row says now.
MarkOutcome(x) ==
    /\ pc = "mark"
    /\ Settling(x)
    /\ row' = IF row[x[1]].exists
              THEN [row EXCEPT ![x[1]].next = Advance(x).next,
                               ![x[1]].enabled = Advance(x).enabled,
                               ![x[1]].last = LastRun(x)]
              ELSE row
    /\ pc' = "event"
    /\ UNCHANGED <<now, runVars, due, tick, decision, settled, putVars, boundVars>>

\* record, second statement: insert_event, refused if the schedule is gone.
InsertEvent(x) ==
    /\ pc = "event"
    /\ Settling(x)
    /\ settled' = IF row[x[1]].exists
                  THEN [settled EXCEPT ![x[1]] = x[2].next] ELSE settled
    /\ due' = due \ {x}
    /\ decision' = NoDecision
    /\ IF due' = {} THEN pc' = "idle" /\ tick' = 0
                    ELSE pc' = "check" /\ UNCHANGED tick
    /\ UNCHANGED <<now, row, runVars, putVars, boundVars>>

----------------------------------------------------------------------------
(***************************************************************************)
(* The rest of the world.                                                  *)
(***************************************************************************)

TimePasses ==
    /\ now < MaxTime
    /\ now' = now + 1
    /\ UNCHANGED <<row, runVars, loopVars, settled, putVars, boundVars>>

RunEnds(r) ==
    /\ status[r] = "active"
    /\ status' = [status EXCEPT ![r] = "over"]
    /\ UNCHANGED <<now, row, origin, loopVars, settled, putVars, boundVars>>

\* PUT: the gate computes when the schedule is next to fire...
PutGate(s) ==
    /\ edits < MaxEdits
    /\ edits' = edits + 1
    /\ put = NoPut
    /\ row[s].exists
    /\ \E trigger \in Triggers(now), enabled \in BOOLEAN :
         put' = <<s, Written(trigger, enabled, NoRun)>>
    /\ UNCHANGED <<now, row, runVars, loopVars, settled, crashes, late>>

\* ...and the update writes it, and everything but the loop's own columns.
PutWrite ==
    /\ put # NoPut
    /\ LET s == put[1] IN
         /\ row' = IF row[s].exists
                   THEN [row EXCEPT ![s] = [put[2] EXCEPT !.last = row[s].last]] ELSE row
         /\ late' = IF put[2].next <= now THEN late \cup {s} ELSE late
    /\ put' = NoPut
    /\ UNCHANGED <<now, runVars, loopVars, settled, boundVars>>

\* DELETE: the row and its events.
Delete(s) ==
    /\ edits < MaxEdits
    /\ edits' = edits + 1
    /\ row[s].exists
    /\ row' = [row EXCEPT ![s].exists = FALSE]
    /\ UNCHANGED <<now, runVars, loopVars, settled, putVars, crashes>>

\* The controller restarts: mark_orphans_failed, and a new loop.
Restart ==
    /\ crashes < MaxCrashes
    /\ crashes' = crashes + 1
    /\ status' = [r \in RunIds |-> IF status[r] = "active" THEN "over" ELSE status[r]]
    /\ pc' = "idle" /\ due' = {} /\ tick' = 0 /\ decision' = NoDecision
    /\ put' = NoPut
    /\ UNCHANGED <<now, row, origin, settled, edits, late>>

----------------------------------------------------------------------------
Settle(x) ==
    \/ Check(x) \/ Invalid(x) \/ MarkOutcome(x) \/ InsertEvent(x)
    \/ \E r \in RunIds : InsertRun(x, r)

Loop == Tick \/ Dispatch \/ \E x \in due : Settle(x)

Next ==
    \/ Loop \/ TimePasses \/ Restart
    \/ \E r \in RunIds : RunEnds(r)
    \/ PutWrite \/ \E s \in Schedules : PutGate(s) \/ Delete(s)

\* The loop ticks and its queries return; nothing makes a run end.
Spec     == Init /\ [][Next]_vars
FairSpec == Spec /\ WF_vars(Loop)

----------------------------------------------------------------------------
\* Two runs of one schedule are never active at a time, though the check
\* reads the run of an old row, several statements before the next starts,
\* and a restart may lose the record of a run that started.
NoOverlappingRuns ==
    \A p, r \in RunIds :
        p # r /\ status[p] = "active" /\ status[r] = "active" => origin[p][1] # origin[r][1]

\* A slot starts one run, and one more for each restart that came between a
\* start and its record, whatever a PUT made of the schedule in between; only
\* a PUT whose slot came before its update may bring a slot back.
SlotFiresOnce ==
    \A s \in Schedules \ late, t \in Times :
        Cardinality({r \in RunIds : origin[r] = <<s, t>>}) <= 1 + crashes

\* "One event per slot": no slot of a schedule is settled a second time, nor
\* an earlier one after it, through restarts and all PUTs but such late ones.
SlotsSettleInOrder ==
    [][\A x \in due : InsertEvent(x) /\ row[x[1]].exists /\ x[1] \notin late =>
         settled[x[1]] < x[2].next]_vars

NothingIsDue == \A s \in Schedules : ~IsDue(s)

\* A schedule that is due does not stay so: whatever the outcome, and
\* whatever was missed meanwhile, it moves past its slot.  The clock stops, so
\* the loop comes to a time when none is.
DueSchedulesAdvance == []<>NothingIsDue
=============================================================================
