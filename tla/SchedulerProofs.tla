--------------------------- MODULE SchedulerProofs ---------------------------
(***************************************************************************)
(* Runs of one schedule do not overlap, for any schedules, periods, edits, *)
(* runs and restarts; and what holds of the services of MCServices.        *)
(***************************************************************************)
EXTENDS MCServices, TLAPS, FiniteSetTheorems

\* A row, whatever its time.
AnyRow == [exists : BOOLEAN, kind : {"once", "cron"}, enabled : BOOLEAN, next : Int,
           last : RunIds \cup {NoRun}]

TypeInv ==
    /\ now \in Int /\ tick \in Int
    /\ row \in [Schedules -> AnyRow]
    /\ status \in [RunIds -> {"none", "active", "over"}]
    /\ origin \in [RunIds -> (Schedules \X Int) \cup {NoOrigin}]
    /\ due \in SUBSET (Schedules \X AnyRow)
    /\ decision \in [kind : Kinds \cup {"none"}, run : RunIds \cup {NoRun}]
    /\ put \in (Schedules \X AnyRow) \cup {NoPut}

Settled(x) == pc = "event" /\ Settling(x)

\* A schedule is due once in a tick, and what the tick knows of its last run is
\* true until the outcome is marked: no user writes that column.
LastIsKnown ==
    /\ \A x, y \in due : x[1] = y[1] => x = y
    /\ \A x \in due : ~Settled(x) => x[2].last = row[x[1]].last

\* What is known as a run has been started, so it never starts again.
KnownRunsStarted ==
    /\ \A s \in Schedules : row[s].last # NoRun => status[row[s].last] # "none"
    /\ decision.run # NoRun => status[decision.run] # "none"

\* An active run is its schedule's last, or about to be marked so, or nothing
\* starts another, because the schedule is gone.
Recorded(r, s) ==
    \/ row[s].last = r
    \/ pc \in {"dispatch", "mark"} /\ decision.run = r /\ \E x \in due : Settling(x) /\ x[1] = s
    \/ ~row[s].exists /\ \A x \in due : x[1] = s => Settled(x)

ActiveIsRecorded ==
    \A r \in RunIds : status[r] = "active" =>
        origin[r][1] \in Schedules /\ Recorded(r, origin[r][1])

\* Once it has passed the check a schedule does not overlap, until the run it
\* then started is marked its last.
Passed ==
    pc = "validate" \/ (pc \in {"dispatch", "mark"} /\ decision.run # NoRun) =>
        \A x \in due : Settling(x) => ~Overlaps(x)

Inv ==
    /\ TypeInv /\ LastIsKnown /\ KnownRunsStarted /\ ActiveIsRecorded /\ Passed
    /\ NoOverlappingRuns

----------------------------------------------------------------------------
\* At most one schedule is being settled.
LEMMA OneIsSettling ==
    ASSUME NEW x \in due, NEW y \in due, Settling(x), Settling(y) PROVE x = y
BY DEF Settling

\* A slot is a number.
LEMMA SlotIsANumber ==
    ASSUME NEW t \in Int PROVE NextSlot(t) \in Int
BY SchedulerAssumption DEF NextSlot

LEMMA TriggersAreTyped ==
    ASSUME NEW t \in Int, NEW trigger \in Triggers(t)
    PROVE  trigger \in [kind : {"once", "cron"}, next : Int]
<1>1. CASE trigger = [kind |-> "cron", next |-> NextSlot(t)]
  BY <1>1, SlotIsANumber
<1>2. CASE trigger \in {[kind |-> "once", next |-> u] : u \in (t + 1)..MaxTime}
  BY <1>2
<1> QED BY <1>1, <1>2 DEF Triggers

LEMMA WrittenIsARow ==
    ASSUME NEW t \in Int, NEW trigger \in Triggers(t), NEW enabled \in BOOLEAN
    PROVE  Written(trigger, enabled, NoRun) \in AnyRow
           /\ Written(trigger, enabled, NoRun).last = NoRun
BY TriggersAreTyped DEF Written, AnyRow

LEMMA NoRunIsNone == NoRun \notin RunIds
BY SchedulerAssumption DEF NoRun, RunIds

LEMMA NoDecisionIsTyped ==
    /\ NoDecision \in [kind : Kinds \cup {"none"}, run : RunIds \cup {NoRun}]
    /\ NoDecision.run = NoRun
BY DEF NoDecision

\* The initial states satisfy the invariant.
LEMMA InitKeepsIt == Init => Inv
<1> SUFFICES ASSUME Init PROVE Inv
  OBVIOUS
<1>1. PICK triggers \in [Schedules -> Triggers(0)] :
        row = [s \in Schedules |-> Written(triggers[s], TRUE, NoRun)]
  BY DEF Init
<1>2. ASSUME NEW s \in Schedules PROVE row[s] \in AnyRow /\ row[s].last = NoRun
  <2>1. triggers[s] \in Triggers(0)
    OBVIOUS
  <2>2. TRUE \in BOOLEAN /\ 0 \in Int
    OBVIOUS
  <2>3. Written(triggers[s], TRUE, NoRun) \in AnyRow
        /\ Written(triggers[s], TRUE, NoRun).last = NoRun
    BY <2>1, <2>2, WrittenIsARow, Zenon
  <2> QED BY <1>1, <2>3
<1>3. row \in [Schedules -> AnyRow]
  <2>1. DOMAIN row = Schedules /\ row = [s \in Schedules |-> row[s]]
    BY <1>1
  <2> QED BY <1>2, <2>1
<1>4. TypeInv
  <2>1. now \in Int /\ tick \in Int
    BY DEF Init
  <2>2. status \in [RunIds -> {"none", "active", "over"}]
    BY DEF Init
  <2>3. origin \in [RunIds -> (Schedules \X Int) \cup {NoOrigin}]
    BY DEF Init
  <2>4. due \in SUBSET (Schedules \X AnyRow) /\ put \in (Schedules \X AnyRow) \cup {NoPut}
    BY DEF Init
  <2> QED BY <1>3, <2>1, <2>2, <2>3, <2>4, NoDecisionIsTyped DEF Init, TypeInv
<1>5. LastIsKnown /\ KnownRunsStarted
  BY <1>2, NoDecisionIsTyped DEF Init, LastIsKnown, KnownRunsStarted
<1>6. ActiveIsRecorded /\ Passed /\ NoOverlappingRuns
  BY DEF Init, ActiveIsRecorded, Passed, NoOverlappingRuns
<1> QED BY <1>4, <1>5, <1>6 DEF Inv

----------------------------------------------------------------------------
(***************************************************************************)
(* The rest of the world: no step of it starts a run, or takes a last run  *)
(* from a schedule.                                                        *)
(***************************************************************************)

\* The clock and the edits are none of the invariant's business but for types.
LEMMA TimePassesKeepsIt == Inv /\ TimePasses => Inv'
<1> SUFFICES ASSUME Inv, TimePasses PROVE Inv'
  OBVIOUS
<1> USE DEF TimePasses, loopVars, runVars, putVars, boundVars
<1>1. TypeInv'
  BY DEF Inv, TypeInv
<1>2. LastIsKnown' /\ KnownRunsStarted'
  BY DEF Inv, LastIsKnown, KnownRunsStarted, Settled, Settling, IsFirst
<1>3. ActiveIsRecorded'
  BY DEF Inv, ActiveIsRecorded, Recorded, Settled, Settling, IsFirst
<1>4. Passed' /\ NoOverlappingRuns'
  BY DEF Inv, Passed, NoOverlappingRuns, Overlaps, Settling, IsFirst
<1> QED BY <1>1, <1>2, <1>3, <1>4 DEF Inv

\* An old loop's knowledge goes with it, and no run survives a restart.
LEMMA RestartKeepsIt == Inv /\ Restart => Inv'
<1> SUFFICES ASSUME Inv, Restart PROVE Inv'
  OBVIOUS
<1> USE DEF Restart
<1>1. TypeInv'
  <2>1. status' \in [RunIds -> {"none", "active", "over"}]
    BY DEF Inv, TypeInv
  <2>2. due' \in SUBSET (Schedules \X AnyRow) /\ put' \in (Schedules \X AnyRow) \cup {NoPut}
    OBVIOUS
  <2> QED BY <2>1, <2>2, NoDecisionIsTyped DEF Inv, TypeInv
<1>2. \A r \in RunIds : status'[r] # "active" /\ (status[r] # "none" => status'[r] # "none")
  BY DEF Inv, TypeInv
<1>3. \A s \in Schedules : row[s].last \in RunIds \cup {NoRun}
  BY DEF Inv, TypeInv, AnyRow
<1>4. LastIsKnown' /\ KnownRunsStarted'
  BY <1>2, <1>3, NoDecisionIsTyped DEF Inv, LastIsKnown, KnownRunsStarted
<1>5. ActiveIsRecorded' /\ Passed' /\ NoOverlappingRuns'
  BY <1>2 DEF ActiveIsRecorded, Passed, NoOverlappingRuns
<1> QED BY <1>1, <1>4, <1>5 DEF Inv

\* A run that ends is no longer to be recorded.
LEMMA RunEndsKeepsIt == ASSUME NEW r \in RunIds PROVE Inv /\ RunEnds(r) => Inv'
<1> SUFFICES ASSUME Inv, RunEnds(r) PROVE Inv'
  OBVIOUS
<1> USE DEF RunEnds, loopVars, putVars, boundVars
<1>1. TypeInv'
  BY DEF Inv, TypeInv
<1>2. \A q \in RunIds : /\ status'[q] = "active" => status[q] = "active"
                        /\ status[q] # "none" => status'[q] # "none"
  BY DEF Inv, TypeInv
<1>3. /\ \A s \in Schedules : row[s].last \in RunIds \cup {NoRun}
      /\ decision.run \in RunIds \cup {NoRun}
      /\ \A x \in due : x[2].last \in RunIds \cup {NoRun}
  BY DEF Inv, TypeInv, AnyRow
<1>4. LastIsKnown' /\ KnownRunsStarted'
  BY <1>2, <1>3 DEF Inv, LastIsKnown, KnownRunsStarted, Settled, Settling, IsFirst
<1>5. ActiveIsRecorded'
  BY <1>2 DEF Inv, ActiveIsRecorded, Recorded, Settled, Settling, IsFirst
<1>6. Passed' /\ NoOverlappingRuns'
  BY <1>2, <1>3 DEF Inv, Passed, NoOverlappingRuns, Overlaps, Settling, IsFirst
<1> QED BY <1>1, <1>4, <1>5, <1>6 DEF Inv

\* The gate of a PUT computes a row, and writes none.
LEMMA PutGateKeepsIt == ASSUME NEW s \in Schedules PROVE Inv /\ PutGate(s) => Inv'
<1> SUFFICES ASSUME Inv, PutGate(s) PROVE Inv'
  OBVIOUS
<1>1. UNCHANGED <<now, row, status, origin, pc, due, tick, decision>>
  BY DEF PutGate, runVars, loopVars
<1>2. TypeInv'
  <2>1. PICK trigger \in Triggers(now), enabled \in BOOLEAN :
          put' = <<s, Written(trigger, enabled, NoRun)>>
    BY DEF PutGate
  <2>2. Written(trigger, enabled, NoRun) \in AnyRow
    <3>1. now \in Int
      BY DEF Inv, TypeInv
    <3> QED BY <3>1, WrittenIsARow, Zenon
  <2>3. put' \in (Schedules \X AnyRow) \cup {NoPut}
    BY <2>1, <2>2
  <2> QED BY <1>1, <2>3 DEF Inv, TypeInv
<1>3. LastIsKnown' /\ KnownRunsStarted'
  BY <1>1 DEF Inv, LastIsKnown, KnownRunsStarted, Settled, Settling, IsFirst
<1>4. ActiveIsRecorded'
  BY <1>1 DEF Inv, ActiveIsRecorded, Recorded, Settled, Settling, IsFirst
<1>5. Passed' /\ NoOverlappingRuns'
  BY <1>1 DEF Inv, Passed, NoOverlappingRuns, Overlaps, Settling, IsFirst
<1> QED BY <1>2, <1>3, <1>4, <1>5 DEF Inv

\* A change of rows that leaves each its last run and brings none back keeps
\* the invariant.
LEMMA OtherColumnsKeepIt ==
    ASSUME Inv,
           UNCHANGED <<now, status, origin, pc, due, tick, decision>>,
           row' \in [Schedules -> AnyRow],
           put' \in (Schedules \X AnyRow) \cup {NoPut},
           \A s \in Schedules : /\ row'[s].last = row[s].last
                                /\ row'[s].exists => row[s].exists
    PROVE  Inv'
<1>1. TypeInv'
  BY DEF Inv, TypeInv
<1>2. \A x \in due : x[1] \in Schedules
  BY DEF Inv, TypeInv
<1>3. LastIsKnown' /\ KnownRunsStarted'
  BY <1>2 DEF Inv, LastIsKnown, KnownRunsStarted, Settled, Settling, IsFirst
<1>4. ActiveIsRecorded'
  BY DEF Inv, ActiveIsRecorded, Recorded, Settled, Settling, IsFirst
<1>5. Passed' /\ NoOverlappingRuns'
  BY DEF Inv, Passed, NoOverlappingRuns, Overlaps, Settling, IsFirst
<1> QED BY <1>1, <1>3, <1>4, <1>5 DEF Inv

\* The update of a PUT leaves the last run to the loop.
LEMMA PutWriteKeepsIt == Inv /\ PutWrite => Inv'
<1> SUFFICES ASSUME Inv, PutWrite PROVE Inv'
  OBVIOUS
<1>1. UNCHANGED <<now, status, origin, pc, due, tick, decision>>
      /\ put' \in (Schedules \X AnyRow) \cup {NoPut}
  BY DEF PutWrite, runVars, loopVars
<1>2. put \in Schedules \X AnyRow /\ row \in [Schedules -> AnyRow]
  BY DEF Inv, TypeInv, PutWrite
<1>3. PICK s \in Schedules, w \in AnyRow : put = <<s, w>>
  BY <1>2
<1>4. row' = IF row[s].exists
             THEN [row EXCEPT ![s] = [w EXCEPT !.last = row[s].last]] ELSE row
  BY <1>3 DEF PutWrite
<1>5. row[s] \in AnyRow
  BY <1>2
<1>6. [w EXCEPT !.last = row[s].last] \in AnyRow
      /\ [w EXCEPT !.last = row[s].last].last = row[s].last
  BY <1>5 DEF AnyRow
<1>7. row' \in [Schedules -> AnyRow]
  BY <1>2, <1>4, <1>6
<1>8. \A q \in Schedules : row'[q].last = row[q].last /\ (row'[q].exists => row[q].exists)
  BY <1>2, <1>4, <1>6
<1> QED BY <1>1, <1>7, <1>8, OtherColumnsKeepIt

\* A deleted schedule starts nothing more.
LEMMA DeleteKeepsIt == ASSUME NEW s \in Schedules PROVE Inv /\ Delete(s) => Inv'
<1> SUFFICES ASSUME Inv, Delete(s) PROVE Inv'
  OBVIOUS
<1>1. UNCHANGED <<now, status, origin, pc, due, tick, decision>>
      /\ put' \in (Schedules \X AnyRow) \cup {NoPut}
  BY DEF Delete, runVars, loopVars, putVars, Inv, TypeInv
<1>2. row \in [Schedules -> AnyRow] /\ row[s] \in AnyRow
  BY DEF Inv, TypeInv
<1>3. row' = [row EXCEPT ![s] = [row[s] EXCEPT !.exists = FALSE]]
  BY DEF Delete
<1>4. [row[s] EXCEPT !.exists = FALSE] \in AnyRow
      /\ [row[s] EXCEPT !.exists = FALSE].last = row[s].last
      /\ ~[row[s] EXCEPT !.exists = FALSE].exists
  BY <1>2 DEF AnyRow
<1>5. row' \in [Schedules -> AnyRow]
  BY <1>2, <1>3, <1>4
<1>6. \A q \in Schedules : row'[q].last = row[q].last /\ (row'[q].exists => row[q].exists)
  BY <1>2, <1>3, <1>4
<1> QED BY <1>1, <1>5, <1>6, OtherColumnsKeepIt

----------------------------------------------------------------------------
(***************************************************************************)
(* The loop.                                                               *)
(***************************************************************************)

\* A tick knows each schedule's last run as the row has it.
LEMMA TickKeepsIt == Inv /\ Tick => Inv'
<1> SUFFICES ASSUME Inv, Tick PROVE Inv'
  OBVIOUS
<1>1. UNCHANGED <<now, row, status, origin, decision, put>> /\ pc = "idle" /\ pc' = "check"
  BY DEF Tick, runVars, putVars
<1>2. \A x \in due' : \E s \in Schedules : IsDue(s) /\ x = <<s, row[s]>>
  BY DEF Tick
<1>3. due' \in SUBSET (Schedules \X AnyRow) /\ tick' \in Int
  BY <1>2 DEF Inv, TypeInv, Tick
<1>4. TypeInv'
  BY <1>1, <1>3 DEF Inv, TypeInv
<1>5. LastIsKnown' /\ KnownRunsStarted'
  BY <1>1, <1>2 DEF Inv, LastIsKnown, KnownRunsStarted
<1>6. \A x \in due' : row[x[1]].exists
  BY <1>2 DEF IsDue
<1>7. ActiveIsRecorded'
  BY <1>1, <1>6 DEF Inv, ActiveIsRecorded, Recorded
<1>8. Passed' /\ NoOverlappingRuns'
  BY <1>1 DEF Inv, Passed, NoOverlappingRuns
<1> QED BY <1>4, <1>5, <1>7, <1>8 DEF Inv

\* A schedule whose last run is active does not pass.
LEMMA CheckKeepsIt == ASSUME NEW x \in due PROVE Inv /\ Check(x) => Inv'
<1> SUFFICES ASSUME Inv, Check(x) PROVE Inv'
  OBVIOUS
<1>1. UNCHANGED <<now, row, status, origin, due, tick, put>> /\ pc = "check" /\ Settling(x)
  BY DEF Check, runVars, putVars
<1>2. \/ pc' = "mark" /\ decision' \in [kind : Kinds, run : {NoRun}]
      \/ pc' = "validate" /\ decision' = decision /\ ~Overlaps(x)
  BY DEF Check, Decide, Kinds
<1>3. decision' = decision \/ decision'.run = NoRun
  BY <1>2
<1>4. TypeInv'
  BY <1>1, <1>2 DEF Inv, TypeInv
<1>5. LastIsKnown' /\ KnownRunsStarted'
  BY <1>1, <1>2, <1>3 DEF Inv, LastIsKnown, KnownRunsStarted, Settled
<1>6. ActiveIsRecorded'
  BY <1>1, <1>2 DEF Inv, ActiveIsRecorded, Recorded, Settled
<1>7. Passed'
  <2>1. CASE pc' = "mark"
    BY <1>2, <2>1 DEF Passed
  <2>2. CASE pc' = "validate"
    <3>1. \A y \in due : Settling(y) => ~Overlaps(y)
      BY <1>1, <1>2, <2>2, OneIsSettling
    <3>2. \A y \in due : (Settling(y)' <=> Settling(y)) /\ (Overlaps(y)' <=> Overlaps(y))
      BY <1>1 DEF Settling, IsFirst, Overlaps
    <3> QED BY <1>1, <3>1, <3>2 DEF Passed
  <2> QED BY <1>2, <2>1, <2>2
<1>8. NoOverlappingRuns'
  BY <1>1 DEF Inv, NoOverlappingRuns
<1> QED BY <1>4, <1>5, <1>6, <1>7, <1>8 DEF Inv

\* A schedule that fails its validation starts nothing.
LEMMA InvalidKeepsIt == ASSUME NEW x \in due PROVE Inv /\ Invalid(x) => Inv'
<1> SUFFICES ASSUME Inv, Invalid(x) PROVE Inv'
  OBVIOUS
<1>1. /\ UNCHANGED <<now, row, status, origin, due, tick, put>>
      /\ pc = "validate" /\ pc' = "mark"
  BY DEF Invalid, runVars, putVars
<1>2. decision' \in [kind : Kinds, run : {NoRun}] /\ decision'.run = NoRun
  BY DEF Invalid, Decide, Kinds
<1>3. TypeInv'
  BY <1>1, <1>2 DEF Inv, TypeInv
<1>4. LastIsKnown' /\ KnownRunsStarted'
  BY <1>1, <1>2 DEF Inv, LastIsKnown, KnownRunsStarted, Settled
<1>5. ActiveIsRecorded'
  BY <1>1 DEF Inv, ActiveIsRecorded, Recorded, Settled
<1>6. Passed' /\ NoOverlappingRuns'
  BY <1>1, <1>2 DEF Inv, Passed, NoOverlappingRuns
<1> QED BY <1>3, <1>4, <1>5, <1>6 DEF Inv

\* The run that starts is the only one of its schedule: another active one
\* would be the last run of a schedule that passed.
LEMMA InsertRunKeepsIt ==
    ASSUME NEW x \in due, NEW r \in RunIds PROVE Inv /\ InsertRun(x, r) => Inv'
<1> SUFFICES ASSUME Inv, InsertRun(x, r) PROVE Inv'
  OBVIOUS
<1>1. /\ UNCHANGED <<now, row, due, tick, put>>
      /\ pc = "validate" /\ pc' = "dispatch" /\ Settling(x) /\ status[r] = "none"
      /\ status' = [status EXCEPT ![r] = "active"]
      /\ origin' = [origin EXCEPT ![r] = <<x[1], x[2].next>>]
      /\ decision' = [kind |-> "fired", run |-> r]
  BY DEF InsertRun, Decide, putVars
<1>2. x[1] \in Schedules /\ x[2] \in AnyRow
  BY DEF Inv, TypeInv
<1>3. /\ \A s \in Schedules : row[s].last \in RunIds \cup {NoRun}
      /\ \A y \in due : y[1] \in Schedules /\ y[2].last \in RunIds \cup {NoRun}
  BY DEF Inv, TypeInv, AnyRow
<1>4. <<x[1], x[2].next>> \in Schedules \X Int
  BY <1>2 DEF AnyRow
<1>5. TypeInv'
  <2>1. status' \in [RunIds -> {"none", "active", "over"}]
    BY <1>1 DEF Inv, TypeInv
  <2>2. origin' \in [RunIds -> (Schedules \X Int) \cup {NoOrigin}]
    BY <1>1, <1>4 DEF Inv, TypeInv
  <2>3. decision' \in [kind : Kinds \cup {"none"}, run : RunIds \cup {NoRun}]
    BY <1>1 DEF Kinds
  <2> QED BY <1>1, <2>1, <2>2, <2>3 DEF Inv, TypeInv
<1>6. /\ status'[r] = "active" /\ origin'[r][1] = x[1]
      /\ \A q \in RunIds \ {r} : status'[q] = status[q] /\ origin'[q] = origin[q]
  BY <1>1, <1>2 DEF Inv, TypeInv
<1>7. decision'.run = r
  BY <1>1
<1>8. LastIsKnown' /\ KnownRunsStarted'
  <2>1. LastIsKnown'
    BY <1>1 DEF Inv, LastIsKnown, Settled, Settling, IsFirst
  <2>2. KnownRunsStarted'
    BY <1>1, <1>3, <1>6, <1>7 DEF Inv, KnownRunsStarted
  <2> QED BY <2>1, <2>2
<1>9. \A y \in due : Settling(y)' <=> Settling(y)
  BY <1>1 DEF Settling, IsFirst
<1>10. \A q \in RunIds \ {r} : status[q] = "active" =>
          /\ origin[q][1] \in Schedules
          /\ \/ row[origin[q][1]].last = q
             \/ /\ ~row[origin[q][1]].exists
                /\ \A y \in due : y[1] # origin[q][1]
  BY <1>1 DEF Inv, ActiveIsRecorded, Recorded, Settled
<1>11. ActiveIsRecorded'
  <2>1. ASSUME NEW q \in RunIds, status'[q] = "active"
        PROVE  (origin[q][1] \in Schedules /\ Recorded(q, origin[q][1]))'
    <3>1. CASE q = r
      <4>1. origin'[q][1] = x[1] /\ decision'.run = q /\ pc' = "dispatch" /\ due' = due
        BY <1>1, <1>6, <1>7, <3>1
      <4>2. x \in due /\ Settling(x)'
        BY <1>1, <1>9
      <4> QED BY <1>2, <4>1, <4>2 DEF Recorded
    <3>2. CASE q # r
      <4>1. origin'[q] = origin[q] /\ status[q] = "active"
        BY <1>6, <2>1, <3>2
      <4>2. UNCHANGED <<row, due>>
        BY <1>1
      <4> QED BY <1>10, <3>2, <4>1, <4>2 DEF Recorded
    <3> QED BY <3>1, <3>2
  <2> QED BY <2>1 DEF ActiveIsRecorded
<1>12. \A s \in Schedules : row[s].last # r
  BY <1>1, NoRunIsNone DEF Inv, KnownRunsStarted
<1>13. \A y \in due : y[2].last = row[y[1]].last
  BY <1>1 DEF Inv, LastIsKnown, Settled
<1>14. ~Overlaps(x)
  <2>1. Passed
    BY DEF Inv
  <2>2. pc = "validate" /\ Settling(x)
    BY <1>1
  <2> QED BY <2>1, <2>2, Zenon DEF Passed
<1>15. Passed'
  <2>1. ~Overlaps(x)'
    BY <1>1, <1>3, <1>6, <1>12, <1>13, <1>14 DEF Overlaps
  <2>2. \A y \in due : Settling(y) => y = x
    BY <1>1, OneIsSettling
  <2> QED BY <1>1, <1>9, <2>1, <2>2 DEF Passed
<1>16. \A q \in RunIds \ {r} : status[q] = "active" => origin[q][1] # x[1]
  BY <1>10, <1>13, <1>14, NoRunIsNone DEF Overlaps
<1>17. NoOverlappingRuns'
  BY <1>6, <1>16 DEF Inv, NoOverlappingRuns
<1> QED BY <1>5, <1>8, <1>11, <1>15, <1>17 DEF Inv

\* A dispatch that fails ends the run.
LEMMA DispatchKeepsIt == Inv /\ Dispatch => Inv'
<1> SUFFICES ASSUME Inv, Dispatch PROVE Inv'
  OBVIOUS
<1>1. /\ UNCHANGED <<now, row, origin, due, tick, put>>
      /\ pc = "dispatch" /\ pc' = "mark"
  BY DEF Dispatch, putVars
<1>2. /\ \A s \in Schedules : row[s].last \in RunIds \cup {NoRun}
      /\ decision.run \in RunIds \cup {NoRun}
      /\ \A y \in due : y[2].last \in RunIds \cup {NoRun}
  BY DEF Inv, TypeInv, AnyRow
<1>3. \A x \in due : Settling(x)' <=> Settling(x)
  BY <1>1 DEF Settling, IsFirst
<1>4. \A x \in due : ~Settled(x) /\ ~Settled(x)'
  BY <1>1 DEF Settled
<1>5. LastIsKnown'
  BY <1>1, <1>4 DEF Inv, LastIsKnown
<1>6. CASE UNCHANGED <<status, decision>>
  <2>1. TypeInv' /\ KnownRunsStarted' /\ NoOverlappingRuns'
    BY <1>1, <1>6 DEF Inv, TypeInv, KnownRunsStarted, NoOverlappingRuns
  <2>2. ActiveIsRecorded'
    BY <1>1, <1>3, <1>4, <1>6 DEF Inv, ActiveIsRecorded, Recorded
  <2>3. Passed'
    BY <1>1, <1>3, <1>6 DEF Inv, Passed, Overlaps
  <2> QED BY <1>5, <2>1, <2>2, <2>3 DEF Inv
<1>7. CASE status' = [status EXCEPT ![decision.run] = "over"] /\ Decide("error", NoRun)
  <2>1. decision' \in [kind : Kinds, run : {NoRun}] /\ decision'.run = NoRun
    BY <1>7 DEF Decide, Kinds
  <2>2. \A q \in RunIds : /\ status'[q] = "active" => status[q] = "active" /\ q # decision.run
                          /\ status[q] # "none" => status'[q] # "none"
    BY <1>7 DEF Inv, TypeInv
  <2>3. TypeInv'
    <3>1. status' \in [RunIds -> {"none", "active", "over"}]
      BY <1>7 DEF Inv, TypeInv
    <3> QED BY <1>1, <2>1, <3>1 DEF Inv, TypeInv
  <2>4. KnownRunsStarted'
    BY <1>1, <1>2, <2>1, <2>2 DEF Inv, KnownRunsStarted
  <2>5. ActiveIsRecorded'
    BY <1>1, <1>4, <2>2 DEF Inv, ActiveIsRecorded, Recorded
  <2>6. Passed' /\ NoOverlappingRuns'
    BY <1>1, <2>1, <2>2 DEF Inv, Passed, NoOverlappingRuns
  <2> QED BY <1>5, <2>3, <2>4, <2>5, <2>6 DEF Inv
<1> QED BY <1>6, <1>7 DEF Dispatch

\* The record takes the last run from a schedule only where it had ended.
LEMMA MarkOutcomeKeepsIt == ASSUME NEW x \in due PROVE Inv /\ MarkOutcome(x) => Inv'
<1> SUFFICES ASSUME Inv, MarkOutcome(x) PROVE Inv'
  OBVIOUS
<1> DEFINE s == x[1]
<1> DEFINE marked == [row[s] EXCEPT !.next = Advance(x).next, !.enabled = Advance(x).enabled,
                                    !.last = LastRun(x)]
<1>1. /\ UNCHANGED <<now, status, origin, due, tick, decision, put>>
      /\ pc = "mark" /\ pc' = "event" /\ Settling(x)
  BY DEF MarkOutcome, runVars, putVars
<1>2. s \in Schedules /\ row \in [Schedules -> AnyRow] /\ row[s] \in AnyRow
  BY DEF Inv, TypeInv
<1>3. row' = IF row[s].exists THEN [row EXCEPT ![s] = marked] ELSE row
  BY DEF MarkOutcome
<1>4. LastRun(x) \in RunIds \cup {NoRun}
  BY <1>2 DEF LastRun, Inv, TypeInv, AnyRow
<1>5. Advance(x).next \in Int /\ Advance(x).enabled \in BOOLEAN
  <2>1. NextSlot(tick) \in Int
    BY SlotIsANumber DEF Inv, TypeInv
  <2> QED BY <2>1 DEF Advance, Never
<1>6. marked \in AnyRow /\ marked.last = LastRun(x) /\ marked.exists = row[s].exists
  <2>1. marked.exists \in BOOLEAN /\ marked.exists = row[s].exists
    BY <1>2 DEF AnyRow
  <2> QED BY <1>2, <1>4, <1>5, <2>1 DEF AnyRow
<1> HIDE DEF marked
<1>7. TypeInv'
  <2>1. row' \in [Schedules -> AnyRow]
    BY <1>2, <1>3, <1>6
  <2> QED BY <1>1, <2>1 DEF Inv, TypeInv
<1>8. /\ \A q \in Schedules : q # s => row'[q] = row[q]
      /\ row'[s].exists = row[s].exists
      /\ row'[s].last = IF row[s].exists THEN LastRun(x) ELSE row[s].last
  BY <1>2, <1>3, <1>6
<1>9. \A y \in due : y[1] \in Schedules /\ (Settled(y)' <=> Settling(y)) /\ ~Settled(y)
  BY <1>1 DEF Settled, Settling, IsFirst, Inv, TypeInv
<1>10. \A y \in due : y[1] = s => y = x
  BY DEF Inv, LastIsKnown
<1>11. LastIsKnown'
  <2>1. \A y \in due : ~Settled(y)' => y[2].last = row'[y[1]].last
    BY <1>1, <1>8, <1>9, <1>10 DEF Inv, LastIsKnown
  <2> QED BY <1>1, <2>1 DEF Inv, LastIsKnown
<1>12. KnownRunsStarted'
  BY <1>1, <1>8 DEF Inv, KnownRunsStarted, LastRun
<1>13. decision.run # NoRun /\ row[s].last # NoRun => status[row[s].last] # "active"
  <2>1. x[2].last = row[s].last
    BY <1>9 DEF Inv, LastIsKnown
  <2>2. ASSUME decision.run # NoRun PROVE ~Overlaps(x)
    <3>1. Passed
      BY DEF Inv
    <3> QED BY <1>1, <2>2, <3>1 DEF Passed
  <2> QED BY <2>1, <2>2 DEF Overlaps
<1>14. ActiveIsRecorded'
  <2>1. ASSUME NEW q \in RunIds, status[q] = "active"
        PROVE  (origin[q][1] \in Schedules /\ Recorded(q, origin[q][1]))'
    <3> DEFINE of == origin[q][1]
    <3>1. of \in Schedules /\ Recorded(q, of)
      BY <2>1 DEF Inv, ActiveIsRecorded
    <3>2. q # NoRun
      BY NoRunIsNone
    <3>3. CASE of # s
      <4>1. row'[of] = row[of]
        BY <1>8, <3>1, <3>3
      <4>2. \A y \in due : Settling(y) => y[1] # of
        BY <1>1, <3>3, OneIsSettling
      <4>3. row[of].last = q \/ (~row[of].exists /\ \A y \in due : y[1] # of)
        BY <1>9, <3>1, <4>2 DEF Recorded
      <4> QED BY <1>1, <3>1, <4>1, <4>3 DEF Recorded
    <3>4. CASE of = s /\ row[s].exists
      <4>1. q = row[s].last \/ q = decision.run
        BY <3>1, <3>4 DEF Recorded
      <4>2. LastRun(x) = q
        BY <1>13, <2>1, <3>2, <4>1 DEF LastRun
      <4>3. row'[of].last = q
        BY <1>8, <3>4, <4>2
      <4> QED BY <1>1, <3>1, <4>3 DEF Recorded
    <3>5. CASE of = s /\ ~row[s].exists
      <4>1. ~row'[of].exists /\ \A y \in due : y[1] = of => Settled(y)'
        BY <1>1, <1>8, <1>9, <1>10, <3>5
      <4> QED BY <1>1, <3>1, <4>1 DEF Recorded
    <3> QED BY <3>3, <3>4, <3>5
  <2> QED BY <1>1, <2>1 DEF ActiveIsRecorded
<1>15. Passed' /\ NoOverlappingRuns'
  BY <1>1 DEF Inv, Passed, NoOverlappingRuns
<1> QED BY <1>7, <1>11, <1>12, <1>14, <1>15 DEF Inv

\* A schedule that is settled leaves the tick.
LEMMA InsertEventKeepsIt == ASSUME NEW x \in due PROVE Inv /\ InsertEvent(x) => Inv'
<1> SUFFICES ASSUME Inv, InsertEvent(x) PROVE Inv'
  OBVIOUS
<1>1. /\ UNCHANGED <<now, row, status, origin, put>>
      /\ pc = "event" /\ pc' \in {"idle", "check"} /\ Settling(x)
      /\ due' = due \ {x} /\ decision' = NoDecision /\ (tick' = 0 \/ tick' = tick)
  BY DEF InsertEvent, runVars, putVars
<1>2. TypeInv'
  BY <1>1, NoDecisionIsTyped DEF Inv, TypeInv
<1>3. \A y \in due : Settled(y) => y = x
  BY <1>1, OneIsSettling DEF Settled
<1>4. LastIsKnown' /\ KnownRunsStarted'
  BY <1>1, <1>3, NoDecisionIsTyped DEF Inv, LastIsKnown, KnownRunsStarted
<1>5. ActiveIsRecorded'
  BY <1>1, <1>3 DEF Inv, ActiveIsRecorded, Recorded
<1>6. Passed' /\ NoOverlappingRuns'
  BY <1>1 DEF Inv, Passed, NoOverlappingRuns
<1> QED BY <1>2, <1>4, <1>5, <1>6 DEF Inv

----------------------------------------------------------------------------
LEMMA StepKeepsIt == Inv /\ [Next]_vars => Inv'
<1> SUFFICES ASSUME Inv, [Next]_vars PROVE Inv'
  OBVIOUS
<1>1. CASE Tick
  BY <1>1, TickKeepsIt
<1>2. CASE Dispatch
  BY <1>2, DispatchKeepsIt
<1>3. ASSUME NEW x \in due, Settle(x) PROVE Inv'
  BY <1>3, CheckKeepsIt, InvalidKeepsIt, InsertRunKeepsIt, MarkOutcomeKeepsIt,
     InsertEventKeepsIt DEF Settle
<1>4. CASE TimePasses
  BY <1>4, TimePassesKeepsIt
<1>5. CASE Restart
  BY <1>5, RestartKeepsIt
<1>6. ASSUME NEW r \in RunIds, RunEnds(r) PROVE Inv'
  BY <1>6, RunEndsKeepsIt
<1>7. CASE PutWrite
  BY <1>7, PutWriteKeepsIt
<1>8. ASSUME NEW s \in Schedules, PutGate(s) \/ Delete(s) PROVE Inv'
  BY <1>8, PutGateKeepsIt, DeleteKeepsIt
<1>9. CASE UNCHANGED vars
  <2> USE <1>9 DEF vars, runVars, loopVars, putVars, boundVars
  <2>1. TypeInv' /\ LastIsKnown' /\ KnownRunsStarted'
    BY DEF Inv, TypeInv, LastIsKnown, KnownRunsStarted, Settled, Settling, IsFirst
  <2>2. ActiveIsRecorded'
    BY DEF Inv, ActiveIsRecorded, Recorded, Settled, Settling, IsFirst
  <2>3. Passed' /\ NoOverlappingRuns'
    BY DEF Inv, Passed, NoOverlappingRuns, Overlaps, Settling, IsFirst
  <2> QED BY <2>1, <2>2, <2>3 DEF Inv
<1> QED BY <1>1, <1>2, <1>3, <1>4, <1>5, <1>6, <1>7, <1>8, <1>9 DEF Next, Loop

LEMMA InvHolds == Spec => []Inv
<1> QED BY InitKeepsIt, StepKeepsIt, PTL DEF Spec

\* Two runs of one schedule are never active at a time: the loop starts a run
\* for a row it read several statements earlier, and no edit, end of a run,
\* failed dispatch or restart in between leaves one active that the row it
\* read, and the check of its last run, do not tell of.
THEOREM RunsDoNotOverlap == Spec => []NoOverlappingRuns
<1>1. Inv => NoOverlappingRuns
  BY DEF Inv
<1> QED BY InvHolds, <1>1, PTL

----------------------------------------------------------------------------
(***************************************************************************)
(* The slots.  A run is counted for the slot of its schedule: one may, and *)
(* one more for each restart.                                              *)
(***************************************************************************)
Fired(s, t) == {r \in RunIds : origin[r] = <<s, t>>}

\* The slot has been fired in vain only, by runs whose record a restart lost.
Fresh(s, t) == Cardinality(Fired(s, t)) <= crashes

\* It is the one being fired, or settled without.
Firing(s, t) ==
    /\ pc \in {"dispatch", "mark", "event"}
    /\ \E x \in due : Settling(x) /\ x[1] = s /\ x[2].next = t

Ahead(s, from) == \A t \in Times : t >= from => Fresh(s, t) \/ Firing(s, t)

\* What is fired or settled was due, so its time had come.
ClockIsTrue ==
    /\ settled \in [Schedules -> Int] /\ crashes \in Nat
    /\ \A x \in due : 0 <= x[2].next /\ x[2].next <= tick /\ tick <= now
    /\ \A r \in RunIds : origin[r] # NoOrigin => origin[r][2] <= now
    /\ \A s \in Schedules : settled[s] <= now

Comes(s) == s \notin late /\ row[s].exists /\ row[s].next # Never

\* Ahead of a schedule, as its row or the tick's copy of it says, no slot is
\* settled or has fired, but the one at work.
SlotsAhead ==
    /\ \A s \in Schedules : Comes(s) => settled[s] < row[s].next /\ Ahead(s, row[s].next)
    /\ \A x \in due : x[1] \notin late => settled[x[1]] < x[2].next /\ Ahead(x[1], x[2].next)

\* Once its outcome is marked, the row has moved past the slot.
MovedOn ==
    pc = "event" => \A x \in due : Settling(x) /\ Comes(x[1]) => x[2].next < row[x[1]].next

SlotInv == ClockIsTrue /\ SlotsAhead /\ MovedOn /\ SlotFiresOnce

\* The next slot is after the time it is asked for.
LEMMA NextSlotIsLater == ASSUME NEW t \in Int PROVE NextSlot(t) > t
BY SchedulerAssumption DEF NextSlot

LEMMA RunsAreFinite ==
    ASSUME NEW s, NEW t
    PROVE  IsFiniteSet(Fired(s, t)) /\ Cardinality(Fired(s, t)) \in Nat
<1>1. IsFiniteSet(1..MaxRuns)
  BY SchedulerAssumption, FS_Interval
<1> QED BY <1>1, FS_Subset, FS_CardinalityType DEF Fired, RunIds

LEMMA OneMore ==
    ASSUME NEW S, IsFiniteSet(S), NEW e
    PROVE  /\ IsFiniteSet(S \cup {e}) /\ Cardinality(S \cup {e}) \in Nat
           /\ Cardinality(S \cup {e}) <= Cardinality(S) + 1
<1>1. IsFiniteSet(S \cup {e}) /\ Cardinality(S) \in Nat /\ Cardinality(S \cup {e}) \in Nat
  BY FS_AddElement, FS_CardinalityType
<1>2. Cardinality(S \cup {e}) = Cardinality(S) \/ Cardinality(S \cup {e}) = Cardinality(S) + 1
  BY FS_AddElement
<1> QED BY <1>1, <1>2

\* A slot that never fired is fresh.
LEMMA UnfiredIsFresh ==
    ASSUME crashes \in Nat, NEW s, NEW t, Fired(s, t) = {} PROVE Fresh(s, t)
BY FS_EmptySet DEF Fresh

LEMMA SlotsAtFirst == Init => SlotInv
<1> SUFFICES ASSUME Init PROVE SlotInv
  OBVIOUS
<1>1. PICK triggers \in [Schedules -> Triggers(0)] :
        row = [s \in Schedules |-> Written(triggers[s], TRUE, NoRun)]
  BY DEF Init
<1>2. \A s \in Schedules : settled[s] = Never
  BY DEF Init
<1>3. ASSUME NEW s \in Schedules PROVE row[s].next > 0
  <2>1. triggers[s] \in Triggers(0)
    OBVIOUS
  <2>2. row[s].next = triggers[s].next
    BY <1>1 DEF Written
  <2>3. CASE triggers[s] = [kind |-> "cron", next |-> NextSlot(0)]
    BY <2>2, <2>3, NextSlotIsLater
  <2>4. CASE triggers[s] \in {[kind |-> "once", next |-> u] : u \in (0 + 1)..MaxTime}
    BY <2>2, <2>4
  <2> QED BY <2>1, <2>3, <2>4 DEF Triggers
<1>4. \A s \in Schedules, t \in Times : Fired(s, t) = {}
  BY DEF Init, Fired, NoOrigin
<1>5. crashes = 0 /\ due = {} /\ pc = "idle" /\ now = 0
  BY DEF Init
<1>6. \A s \in Schedules, t \in Times : Fresh(s, t)
  BY <1>4, <1>5, UnfiredIsFresh
<1>7. ClockIsTrue
  BY <1>5 DEF Init, ClockIsTrue, Never
<1>8. SlotsAhead /\ MovedOn
  BY <1>2, <1>3, <1>5, <1>6, InitKeepsIt DEF SlotsAhead, MovedOn, Ahead, Never, Inv, TypeInv, AnyRow
<1>9. SlotFiresOnce
  <2> SUFFICES ASSUME NEW s \in Schedules, NEW t \in Times
               PROVE  Cardinality(Fired(s, t)) <= 1 + crashes
    BY DEF SlotFiresOnce, Fired
  <2> QED BY <1>5, <1>6, RunsAreFinite DEF Fresh
<1> QED BY <1>7, <1>8, <1>9 DEF SlotInv

\* A step that starts no run, settles nothing and moves no row to a slot.
LEMMA QuietStepKeepsSlots ==
    ASSUME SlotInv, Inv, now' \in Int, now' >= now,
           UNCHANGED <<origin, crashes, settled, due, late, tick>>,
           \A s \in Schedules : row'[s].next = row[s].next /\ (row'[s].exists => row[s].exists),
           pc \in {"dispatch", "mark", "event"} => pc' \in {"dispatch", "mark", "event"},
           pc' = "event" => pc = "event"
    PROVE  SlotInv'
<1>1. \A x \in due : (Settling(x) <=> Settling(x)') /\ x[1] \in Schedules
  BY DEF Settling, IsFirst, Inv, TypeInv
<1>2. \A s, t : Fired(s, t)' = Fired(s, t) /\ (Fresh(s, t) => Fresh(s, t)')
  BY DEF Fired, Fresh
<1>3. \A s, t : Firing(s, t) => Firing(s, t)'
  BY <1>1 DEF Firing
<1>4. \A s, from : Ahead(s, from) => Ahead(s, from)'
  BY <1>2, <1>3 DEF Ahead
<1>5. \A s \in Schedules : Comes(s)' => Comes(s)
  BY DEF Comes
<1>6. ClockIsTrue'
  BY DEF ClockIsTrue, SlotInv, Inv, TypeInv
<1>7. SlotsAhead'
  BY <1>4, <1>5 DEF SlotsAhead, SlotInv
<1>8. MovedOn' /\ SlotFiresOnce'
  BY <1>1, <1>2, <1>5 DEF MovedOn, SlotFiresOnce, SlotInv, Fired
<1> QED BY <1>6, <1>7, <1>8 DEF SlotInv

\* A PUT moves its schedule to a slot that has yet to come, or is late.
LEMMA PutWriteKeepsSlots == SlotInv /\ Inv /\ PutWrite => SlotInv'
<1> SUFFICES ASSUME SlotInv, Inv, PutWrite PROVE SlotInv'
  OBVIOUS
<1>1. UNCHANGED <<now, origin, crashes, settled, pc, due, tick>>
  BY DEF PutWrite, runVars, loopVars, boundVars
<1>2. PICK s \in Schedules, w \in AnyRow : put = <<s, w>>
  BY DEF Inv, TypeInv, PutWrite
<1>3. /\ row' = IF row[s].exists THEN [row EXCEPT ![s] = [w EXCEPT !.last = row[s].last]] ELSE row
      /\ late' = IF w.next <= now THEN late \cup {s} ELSE late
  BY <1>2 DEF PutWrite
<1>4. row \in [Schedules -> AnyRow] /\ w.next \in Int /\ now \in Int
  BY <1>2 DEF Inv, TypeInv, AnyRow
<1>5. /\ \A q \in Schedules \ {s} : row'[q] = row[q]
      /\ row'[s].exists => row[s].exists /\ row'[s].next = w.next
  BY <1>3, <1>4 DEF AnyRow
<1>6. Comes(s)' => w.next > now
  BY <1>3, <1>4 DEF Comes
<1>7. \A q : q \notin late' => q \notin late
  BY <1>3
<1>8. \A q \in Schedules \ {s} : Comes(q)' => Comes(q)
  BY <1>5, <1>7 DEF Comes
<1>9. \A x \in due : (Settling(x) <=> Settling(x)') /\ x[1] \in Schedules
  BY <1>1 DEF Settling, IsFirst, Inv, TypeInv
<1>10. \A q, from : Ahead(q, from)' <=> Ahead(q, from)
  BY <1>1, <1>9 DEF Ahead, Fresh, Fired, Firing
<1>11. ClockIsTrue'
  BY <1>1 DEF ClockIsTrue, SlotInv
<1>12. w.next > now => settled[s] < w.next /\ Ahead(s, w.next)
  <2> SUFFICES ASSUME w.next > now
               PROVE  settled[s] < w.next /\ Ahead(s, w.next)
    OBVIOUS
  <2>1. settled[s] < w.next
    BY <1>4 DEF ClockIsTrue, SlotInv
  <2>2. ASSUME NEW t \in Times, t >= w.next PROVE Fired(s, t) = {}
    <3>1. t \in Int
      BY SchedulerAssumption DEF Times
    <3>2. \A r \in RunIds : origin[r] = <<s, t>> => t <= now
      <4>1. \A r \in RunIds : origin[r] # NoOrigin => origin[r][2] <= now
        BY DEF ClockIsTrue, SlotInv
      <4> SUFFICES ASSUME NEW r \in RunIds, origin[r] = <<s, t>> PROVE t <= now
        OBVIOUS
      <4>2. origin[r] # NoOrigin /\ origin[r][2] = t
        BY ONLY origin[r] = <<s, t>> DEF NoOrigin
      <4> QED BY <4>1, <4>2
    <3> QED BY <1>4, <2>2, <3>1, <3>2 DEF Fired
  <2> QED BY <2>1, <2>2, UnfiredIsFresh DEF Ahead, ClockIsTrue, SlotInv
<1>13. SlotsAhead'
  <2>1. \A q \in Schedules : Comes(q)' => (settled[q] < row[q].next /\ Ahead(q, row[q].next))'
    BY <1>1, <1>5, <1>6, <1>8, <1>10, <1>12 DEF SlotsAhead, SlotInv, Comes
  <2>2. \A x \in due : x[1] \notin late' => settled[x[1]] < x[2].next /\ Ahead(x[1], x[2].next)'
    BY <1>7, <1>10 DEF SlotsAhead, SlotInv
  <2> QED BY <1>1, <2>1, <2>2 DEF SlotsAhead
<1>14. MovedOn'
  <2> SUFFICES ASSUME pc = "event", NEW x \in due, Settling(x), Comes(x[1])'
               PROVE  x[2].next < row'[x[1]].next
    BY <1>1, <1>9 DEF MovedOn
  <2>1. CASE x[1] = s
    <3>1. x[2].next \in Int /\ x[2].next <= now
      BY <1>4 DEF ClockIsTrue, SlotInv, Inv, TypeInv, AnyRow
    <3> QED BY <1>4, <1>5, <1>6, <2>1, <3>1 DEF Comes
  <2>2. CASE x[1] # s
    BY <1>5, <1>8, <1>9, <2>2 DEF MovedOn, SlotInv
  <2> QED BY <2>1, <2>2
<1>15. SlotFiresOnce'
  BY <1>1, <1>7 DEF SlotFiresOnce, SlotInv
<1> QED BY <1>11, <1>13, <1>14, <1>15 DEF SlotInv

\* A restart may lose the record of the run at work.
LEMMA RestartKeepsSlots == SlotInv /\ Inv /\ Restart => SlotInv'
<1> SUFFICES ASSUME SlotInv, Inv, Restart PROVE SlotInv'
  OBVIOUS
<1>1. /\ UNCHANGED <<now, row, origin, settled, late>>
      /\ crashes' = crashes + 1 /\ crashes \in Nat /\ due' = {} /\ pc' = "idle"
  BY DEF Restart, SlotInv, ClockIsTrue
<1>2. \A s \in Schedules \ late, t \in Times : Fresh(s, t)'
  <2> TAKE s \in Schedules \ late, t \in Times
  <2>1. Cardinality(Fired(s, t)) <= 1 + crashes /\ Fired(s, t)' = Fired(s, t)
    BY <1>1 DEF SlotInv, SlotFiresOnce, Fired
  <2> QED BY <1>1, <2>1, RunsAreFinite DEF Fresh
<1>3. ClockIsTrue' /\ MovedOn'
  BY <1>1 DEF SlotInv, ClockIsTrue, MovedOn
<1>4. SlotsAhead'
  BY <1>1, <1>2 DEF SlotInv, SlotsAhead, Ahead, Comes
<1>5. SlotFiresOnce'
  <2> SUFFICES ASSUME NEW s \in Schedules \ late, NEW t \in Times
               PROVE  Cardinality(Fired(s, t)') <= 1 + crashes'
    BY <1>1 DEF SlotFiresOnce, Fired
  <2>1. Cardinality(Fired(s, t)') <= crashes'
    BY <1>2 DEF Fresh
  <2>2. Cardinality(Fired(s, t)) \in Nat /\ Fired(s, t)' = Fired(s, t)
    BY <1>1, RunsAreFinite DEF Fired
  <2> QED BY <1>1, <2>1, <2>2
<1> QED BY <1>3, <1>4, <1>5 DEF SlotInv

\* A tick takes the rows as they are.
LEMMA TickKeepsSlots == SlotInv /\ Inv /\ Tick => SlotInv'
<1> SUFFICES ASSUME SlotInv, Inv, Tick PROVE SlotInv'
  OBVIOUS
<1>1. /\ UNCHANGED <<now, row, origin, settled, late, crashes>>
      /\ pc = "idle" /\ pc' = "check" /\ tick' = now
  BY DEF Tick, runVars, putVars, boundVars
<1>2. \A x \in due' : \E s \in Schedules : IsDue(s) /\ x = <<s, row[s]>>
  BY DEF Tick
<1>3. \A s, t : Fresh(s, t)' <=> Fresh(s, t)
  BY <1>1 DEF Fresh, Fired
<1>4. \A s, from : Ahead(s, from) => Ahead(s, from)'
  BY <1>1, <1>3 DEF Ahead, Firing
<1>5. \A s \in Schedules : IsDue(s) => /\ 0 <= row[s].next /\ row[s].next <= now
                                       /\ s \notin late => Comes(s)
  BY DEF IsDue, Comes, Never, Inv, TypeInv
<1>6. ClockIsTrue'
  <2>1. ASSUME NEW x \in due'
        PROVE  0 <= x[2].next /\ x[2].next <= tick' /\ tick' <= now
    <3>1. PICK s \in Schedules : IsDue(s) /\ x = <<s, row[s]>>
      BY <1>2
    <3>2. x[2].next = row[s].next /\ now \in Int
      BY <3>1 DEF Inv, TypeInv
    <3>3. 0 <= row[s].next /\ row[s].next <= now
      BY <1>5, <3>1
    <3> QED BY <1>1, <3>2, <3>3
  <2> QED BY <1>1, <2>1 DEF SlotInv, ClockIsTrue
<1>7. SlotsAhead'
  <2>1. \A s \in Schedules : Comes(s)' => (settled[s] < row[s].next /\ Ahead(s, row[s].next))'
    BY <1>1, <1>4 DEF SlotInv, SlotsAhead, Comes
  <2>2. \A x \in due' : x[1] \notin late => settled[x[1]] < x[2].next /\ Ahead(x[1], x[2].next)'
    <3> TAKE x \in due'
    <3>1. PICK s \in Schedules : IsDue(s) /\ x = <<s, row[s]>>
      BY <1>2
    <3>2. x[1] = s /\ x[2].next = row[s].next
      BY <3>1
    <3>3. s \notin late => Comes(s)
      BY <1>5, <3>1
    <3>4. Comes(s) => (settled[s] < row[s].next /\ Ahead(s, row[s].next))'
      BY <1>1, <1>4 DEF SlotInv, SlotsAhead
    <3> QED BY <1>1, <3>2, <3>3, <3>4
  <2> QED BY <1>1, <2>1, <2>2 DEF SlotsAhead
<1>8. MovedOn' /\ SlotFiresOnce'
  BY <1>1 DEF SlotInv, MovedOn, SlotFiresOnce
<1> QED BY <1>6, <1>7, <1>8 DEF SlotInv

\* The run that starts is its slot's first, or one more after a restart.
LEMMA InsertRunKeepsSlots ==
    ASSUME NEW x \in due, NEW r \in RunIds PROVE SlotInv /\ Inv /\ InsertRun(x, r) => SlotInv'
<1> SUFFICES ASSUME SlotInv, Inv, InsertRun(x, r) PROVE SlotInv'
  OBVIOUS
<1> DEFINE s == x[1]
<1> DEFINE slot == x[2].next
<1>1. /\ UNCHANGED <<now, row, due, tick, settled, late, crashes>>
      /\ pc = "validate" /\ pc' = "dispatch" /\ Settling(x)
      /\ origin' = [origin EXCEPT ![r] = <<s, slot>>]
  BY DEF InsertRun, putVars, boundVars
<1>2. /\ origin \in [RunIds -> (Schedules \X Int) \cup {NoOrigin}]
      /\ s \in Schedules /\ slot \in Int /\ now \in Int /\ tick \in Int /\ crashes \in Nat
      /\ slot <= now
  BY DEF Inv, TypeInv, AnyRow, SlotInv, ClockIsTrue
<1>3. /\ Fired(s, slot)' \subseteq Fired(s, slot) \cup {r}
      /\ \A q, t : <<q, t>> # <<s, slot>> => Fired(q, t)' \subseteq Fired(q, t)
  BY <1>1, <1>2 DEF Fired
<1>4. \A q, t : <<q, t>> # <<s, slot>> => Cardinality(Fired(q, t)') <= Cardinality(Fired(q, t))
  BY <1>3, RunsAreFinite, FS_Subset
<1>5. Firing(s, slot)'
  BY <1>1 DEF Firing, Settling, IsFirst
<1>6. \A q, t : Fresh(q, t) => Fresh(q, t)' \/ Firing(q, t)'
  <2> TAKE q, t
  <2> SUFFICES ASSUME Fresh(q, t), <<q, t>> # <<s, slot>> PROVE Fresh(q, t)'
    BY <1>5
  <2>1. IsFiniteSet(Fired(q, t)) /\ Cardinality(Fired(q, t)) \in Nat
    BY RunsAreFinite
  <2>2. Cardinality(Fired(q, t)') \in Nat
    BY <1>3, <2>1, FS_Subset, FS_CardinalityType
  <2> QED BY <1>1, <1>2, <1>4, <2>1, <2>2 DEF Fresh
<1>7. \A q, from : Ahead(q, from) => Ahead(q, from)'
  BY <1>1, <1>6 DEF Ahead, Firing
<1>8. ClockIsTrue'
  BY <1>1, <1>2 DEF SlotInv, ClockIsTrue
<1>9. SlotsAhead' /\ MovedOn'
  BY <1>1, <1>7 DEF SlotInv, SlotsAhead, MovedOn, Comes
<1>10. SlotFiresOnce'
  <2> SUFFICES ASSUME NEW q \in Schedules \ late, NEW t \in Times
               PROVE  Cardinality(Fired(q, t)') <= 1 + crashes
    BY <1>1 DEF SlotFiresOnce, Fired
  <2>1. /\ IsFiniteSet(Fired(q, t)) /\ Cardinality(Fired(q, t)) \in Nat
        /\ Cardinality(Fired(q, t)) <= 1 + crashes
    BY RunsAreFinite DEF SlotInv, SlotFiresOnce, Fired
  <2>2. CASE <<q, t>> # <<s, slot>>
    <3>1. Cardinality(Fired(q, t)') \in Nat
      BY <1>3, <2>1, <2>2, FS_Subset, FS_CardinalityType
    <3> QED BY <1>2, <1>4, <2>1, <2>2, <3>1
  <2>3. CASE <<q, t>> = <<s, slot>>
    <3>1. ~Firing(s, slot)
      BY <1>1 DEF Firing
    <3>2. Ahead(s, slot) /\ t = slot /\ q = s
      BY <1>1, <2>3 DEF SlotInv, SlotsAhead
    <3>3. Cardinality(Fired(q, t)) <= crashes
      BY <1>2, <3>1, <3>2 DEF Ahead, Fresh
    <3>4. /\ IsFiniteSet(Fired(q, t) \cup {r})
          /\ Cardinality(Fired(q, t) \cup {r}) <= Cardinality(Fired(q, t)) + 1
          /\ Cardinality(Fired(q, t) \cup {r}) \in Nat
      BY <2>1, OneMore
    <3>5. Cardinality(Fired(q, t)') <= Cardinality(Fired(q, t) \cup {r})
      BY <1>3, <3>2, <3>4, FS_Subset
    <3>6. Cardinality(Fired(q, t)') \in Nat
      BY <1>3, <3>2, <3>4, FS_Subset, FS_CardinalityType
    <3> QED BY <1>2, <2>1, <3>3, <3>4, <3>5, <3>6
  <2> QED BY <2>2, <2>3
<1> QED BY <1>8, <1>9, <1>10 DEF SlotInv

\* The outcome moves the row past the slot.
LEMMA MarkOutcomeKeepsSlots ==
    ASSUME NEW x \in due PROVE SlotInv /\ Inv /\ MarkOutcome(x) => SlotInv'
<1> SUFFICES ASSUME SlotInv, Inv, MarkOutcome(x) PROVE SlotInv'
  OBVIOUS
<1> DEFINE s == x[1]
<1>1. /\ UNCHANGED <<now, origin, due, tick, settled, late, crashes>>
      /\ pc = "mark" /\ pc' = "event" /\ Settling(x)
  BY DEF MarkOutcome, runVars, putVars, boundVars
<1>2. /\ s \in Schedules /\ row \in [Schedules -> AnyRow] /\ row[s] \in AnyRow
      /\ tick \in Int /\ x[2].next \in Int /\ x[2].next <= tick
  BY DEF Inv, TypeInv, AnyRow, SlotInv, ClockIsTrue
<1>3. /\ \A q \in Schedules \ {s} : row'[q] = row[q]
      /\ row'[s].exists => row[s].exists /\ row'[s].next = Advance(x).next
  BY <1>2 DEF MarkOutcome, AnyRow
<1>4. Advance(x).next # Never => Advance(x).next > tick /\ Advance(x).next \in Int
  BY <1>2, NextSlotIsLater, SlotIsANumber DEF Advance
<1>5. Comes(s)' => row'[s].next > tick /\ row'[s].next \in Int /\ s \notin late
  BY <1>1, <1>3, <1>4 DEF Comes
<1>6. \A y \in due : (Settling(y)' <=> Settling(y)) /\ (Settling(y) => y = x)
  BY <1>1, OneIsSettling DEF Settling, IsFirst
<1>7. \A q, from : Ahead(q, from) => Ahead(q, from)'
  BY <1>1, <1>6 DEF Ahead, Fresh, Fired, Firing
<1>8. ClockIsTrue' /\ SlotFiresOnce'
  BY <1>1 DEF SlotInv, ClockIsTrue, SlotFiresOnce
<1>9. Comes(s)' => (settled[s] < row[s].next /\ Ahead(s, row[s].next))'
  <2> SUFFICES ASSUME Comes(s)' PROVE (settled[s] < row[s].next /\ Ahead(s, row[s].next))'
    OBVIOUS
  <2>1. settled[s] \in Int /\ settled[s] < x[2].next /\ Ahead(s, x[2].next)
    BY <1>2, <1>5 DEF SlotInv, SlotsAhead, ClockIsTrue
  <2>2. \A t \in Times : t \in Int
    BY SchedulerAssumption DEF Times
  <2>3. Ahead(s, row'[s].next)
    BY <1>2, <1>5, <2>1, <2>2 DEF Ahead
  <2>4. settled[s] < row'[s].next
    BY <1>2, <1>5, <2>1
  <2> QED BY <1>1, <1>7, <2>3, <2>4
<1>10. SlotsAhead'
  <2>1. \A q \in Schedules \ {s} : Comes(q)' => (settled[q] < row[q].next /\ Ahead(q, row[q].next))'
    BY <1>1, <1>3, <1>7 DEF SlotInv, SlotsAhead, Comes
  <2>2. \A y \in due : y[1] \notin late => settled[y[1]] < y[2].next /\ Ahead(y[1], y[2].next)'
    BY <1>7 DEF SlotInv, SlotsAhead
  <2>3. \A q \in Schedules : Comes(q)' => (settled[q] < row[q].next /\ Ahead(q, row[q].next))'
    BY <1>1, <1>9, <2>1
  <2> QED BY <1>1, <2>2, <2>3 DEF SlotsAhead
<1>11. MovedOn'
  BY <1>1, <1>2, <1>5, <1>6 DEF MovedOn
<1> QED BY <1>8, <1>10, <1>11 DEF SlotInv

\* A slot that is settled is behind its row.
LEMMA InsertEventKeepsSlots ==
    ASSUME NEW x \in due PROVE SlotInv /\ Inv /\ InsertEvent(x) => SlotInv'
<1> SUFFICES ASSUME SlotInv, Inv, InsertEvent(x) PROVE SlotInv'
  OBVIOUS
<1> DEFINE s == x[1]
<1>1. /\ UNCHANGED <<now, row, origin, late, crashes>>
      /\ pc = "event" /\ pc' \in {"idle", "check"} /\ Settling(x)
      /\ due' = due \ {x} /\ (due' # {} => tick' = tick)
  BY DEF InsertEvent, runVars, putVars, boundVars
<1>2. /\ s \in Schedules /\ x[2].next \in Int /\ x[2].next <= now /\ now \in Int
      /\ settled \in [Schedules -> Int]
  BY DEF Inv, TypeInv, AnyRow, SlotInv, ClockIsTrue
<1>3. settled' = IF row[s].exists THEN [settled EXCEPT ![s] = x[2].next] ELSE settled
  BY DEF InsertEvent
<1>4. /\ \A q \in Schedules \ {s} : settled'[q] = settled[q]
      /\ settled'[s] = IF row[s].exists THEN x[2].next ELSE settled[s]
  BY <1>2, <1>3
<1>5. \A y \in due' : y[1] # s
  BY <1>1 DEF Inv, LastIsKnown
<1>6. \A q, t : /\ Fresh(q, t) => Fresh(q, t)'
                /\ Firing(q, t) => q = s /\ t = x[2].next
  BY <1>1, OneIsSettling DEF Fresh, Fired, Firing
<1>7. ClockIsTrue'
  BY <1>1, <1>2, <1>3 DEF SlotInv, ClockIsTrue
<1>8. ASSUME NEW q \in Schedules, Comes(q)
      PROVE  settled'[q] < row[q].next /\ Ahead(q, row[q].next)'
  <2>1. settled[q] < row[q].next /\ Ahead(q, row[q].next)
    BY <1>8 DEF SlotInv, SlotsAhead
  <2>2. q = s => x[2].next < row[q].next
    BY <1>1, <1>8 DEF SlotInv, MovedOn
  <2>3. \A t \in Times : t >= row[q].next => ~(q = s /\ t = x[2].next)
    <3>1. \A t \in Times : t \in Int
      BY SchedulerAssumption DEF Times
    <3>2. row[q].next \in Int
      BY DEF Inv, TypeInv, AnyRow
    <3> QED BY <1>2, <2>2, <3>1, <3>2
  <2> QED BY <1>1, <1>4, <1>6, <2>1, <2>2, <2>3 DEF Ahead
<1>9. ASSUME NEW y \in due', y[1] \notin late
      PROVE  settled'[y[1]] < y[2].next /\ Ahead(y[1], y[2].next)'
  <2>1. y \in due /\ y[1] \in Schedules
    BY <1>1, <1>9 DEF Inv, TypeInv
  <2>2. settled[y[1]] < y[2].next /\ Ahead(y[1], y[2].next)
    BY <1>9, <2>1 DEF SlotInv, SlotsAhead
  <2> QED BY <1>1, <1>4, <1>5, <1>6, <2>1, <2>2 DEF Ahead
<1>10. SlotsAhead'
  BY <1>1, <1>8, <1>9 DEF SlotsAhead, Comes
<1>11. MovedOn' /\ SlotFiresOnce'
  BY <1>1 DEF SlotInv, MovedOn, SlotFiresOnce
<1> QED BY <1>7, <1>10, <1>11 DEF SlotInv

----------------------------------------------------------------------------
LEMMA StepKeepsSlots == SlotInv /\ Inv /\ Inv' /\ [Next]_vars => SlotInv'
<1> SUFFICES ASSUME SlotInv, Inv, Inv', [Next]_vars PROVE SlotInv'
  OBVIOUS
<1> USE DEF runVars, loopVars, putVars, boundVars
<1>1. now' \in Int /\ now \in Int /\ now >= now
  BY DEF Inv, TypeInv
<1>2. CASE Tick \/ Restart \/ PutWrite
  BY <1>2, TickKeepsSlots, RestartKeepsSlots, PutWriteKeepsSlots
<1>3. ASSUME NEW x \in due, MarkOutcome(x) \/ InsertEvent(x) \/ \E r \in RunIds : InsertRun(x, r)
      PROVE  SlotInv'
  BY <1>3, MarkOutcomeKeepsSlots, InsertEventKeepsSlots, InsertRunKeepsSlots
<1>4. ASSUME NEW x \in due, Check(x) \/ Invalid(x) PROVE SlotInv'
  BY <1>1, <1>4, QuietStepKeepsSlots DEF Check, Invalid
<1>5. CASE Dispatch
  BY <1>1, <1>5, QuietStepKeepsSlots DEF Dispatch
<1>6. CASE TimePasses
  BY <1>1, <1>6, QuietStepKeepsSlots DEF TimePasses
<1>7. ASSUME NEW r \in RunIds, RunEnds(r) PROVE SlotInv'
  BY <1>1, <1>7, QuietStepKeepsSlots DEF RunEnds
<1>8. ASSUME NEW s \in Schedules, PutGate(s) PROVE SlotInv'
  BY <1>1, <1>8, QuietStepKeepsSlots DEF PutGate
<1>9. ASSUME NEW s \in Schedules, Delete(s) PROVE SlotInv'
  <2>1. row \in [Schedules -> AnyRow] /\ row' = [row EXCEPT ![s].exists = FALSE]
    BY <1>9 DEF Delete, Inv, TypeInv
  <2>2. \A q \in Schedules : row'[q].next = row[q].next /\ (row'[q].exists => row[q].exists)
    BY <2>1 DEF AnyRow
  <2> QED BY <1>1, <1>9, <2>2, QuietStepKeepsSlots DEF Delete
<1>10. CASE UNCHANGED vars
  BY <1>1, <1>10, QuietStepKeepsSlots DEF vars
<1> QED BY <1>2, <1>3, <1>4, <1>5, <1>6, <1>7, <1>8, <1>9, <1>10 DEF Next, Loop, Settle

LEMMA SlotInvHolds == Spec => []SlotInv
<1> QED BY SlotsAtFirst, StepKeepsSlots, InvHolds, PTL DEF Spec

\* process_due_schedules starts one run for a slot of a schedule, and one more
\* for each restart between a run's start and mark_outcome, whatever is put or
\* deleted meanwhile; only a PUT written after its own slot is excepted.
THEOREM SlotsFireOnce == Spec => []SlotFiresOnce
<1>1. SlotInv => SlotFiresOnce
  BY DEF SlotInv
<1> QED BY <1>1, SlotInvHolds, PTL

\* insert_event never records a slot twice, or after a later one of the
\* schedule, though a PUT may write next_run_at between any two statements.
THEOREM EventsAreInOrder == Spec => SlotsSettleInOrder
<1>1. SlotInv /\ [Next]_vars =>
        [\A x \in due : InsertEvent(x) /\ row[x[1]].exists /\ x[1] \notin late =>
            settled[x[1]] < x[2].next]_vars
  BY DEF SlotInv, SlotsAhead
<1> QED BY <1>1, SlotInvHolds, PTL DEF Spec, SlotsSettleInOrder

----------------------------------------------------------------------------
(***************************************************************************)
(* The types: a schedule that is due has a time, and a time is at most one *)
(* period ahead.                                                           *)
(***************************************************************************)
Typed == TypeOK /\ \A x \in due : x[2].next \in 0..MaxTime

LEMMA NextSlotIsATime ==
    ASSUME NEW t \in 0..MaxTime
    PROVE  NextSlot(t) \in Times
<1>1. Period \in Nat \ {0} /\ MaxTime \in Nat /\ t \in Nat /\ t <= MaxTime
  BY SchedulerAssumption
<1> DEFINE q == t \div Period
           r == t % Period
<1>2. q \in Nat /\ r \in 0..(Period - 1) /\ t = Period * q + r
  BY <1>1
<1>3. NextSlot(t) = (q + 1) * Period
  BY DEF NextSlot
<1> HIDE DEF q, r
<1> DEFINE a == Period * q
<1>4. a \in Nat /\ (q + 1) * Period = a + Period
  BY <1>1, <1>2
<1> HIDE DEF a
<1>5. t = a + r
  BY <1>2 DEF a
<1> QED BY <1>1, <1>2, <1>3, <1>4, <1>5 DEF Times

LEMMA WrittenIsOfARow ==
    ASSUME NEW t \in 0..MaxTime, NEW trigger \in Triggers(t), NEW enabled \in BOOLEAN
    PROVE  Written(trigger, enabled, NoRun) \in Row
<1>1. MaxTime \in Nat /\ Period \in Nat
  BY SchedulerAssumption
<1>2. trigger.kind \in {"once", "cron"} /\ trigger.next \in Times
  <2>1. CASE trigger = [kind |-> "cron", next |-> NextSlot(t)]
    BY <2>1, NextSlotIsATime
  <2>2. CASE trigger \in {[kind |-> "once", next |-> u] : u \in (t + 1)..MaxTime}
    BY <1>1, <2>2 DEF Times
  <2> QED BY <2>1, <2>2 DEF Triggers
<1> QED BY <1>2 DEF Written, Row

LEMMA InitIsTyped == Init => Typed
<1> SUFFICES ASSUME Init PROVE Typed
  OBVIOUS
<1>1. PICK triggers \in [Schedules -> Triggers(0)] :
        row = [s \in Schedules |-> Written(triggers[s], TRUE, NoRun)]
  BY DEF Init
<1>2. /\ MaxTime \in Nat /\ MaxEdits \in Nat /\ MaxCrashes \in Nat /\ Period \in Nat
      /\ 0 \in 0..MaxTime
  BY SchedulerAssumption
<1>3. \A s \in Schedules : Written(triggers[s], TRUE, NoRun) \in Row
  <2> TAKE s \in Schedules
  <2>1. triggers[s] \in Triggers(0) /\ TRUE \in BOOLEAN
    OBVIOUS
  <2> QED BY <1>2, <2>1, WrittenIsOfARow, Zenon
<1>4. row \in [Schedules -> Row]
  BY <1>1, <1>3
<1>5. /\ now \in 0..MaxTime /\ tick \in 0..MaxTime
      /\ edits \in 0..MaxEdits /\ crashes \in 0..MaxCrashes
  BY <1>2 DEF Init
<1>6. /\ decision \in [kind : Kinds \cup {"none"}, run : RunIds \cup {NoRun}]
      /\ settled \in [Schedules -> Times \cup {Never}]
      /\ status \in [RunIds -> {"none", "active", "over"}]
      /\ origin \in [RunIds -> (Schedules \X Times) \cup {NoOrigin}]
  BY NoDecisionIsTyped DEF Init
<1>7. due = {} /\ put = NoPut /\ late = {} /\ pc = "idle"
  BY DEF Init
<1> QED BY <1>4, <1>5, <1>6, <1>7 DEF Typed, TypeOK

\* The loop.
LEMMA SettleIsTyped ==
    ASSUME Typed, NEW x \in due, Settle(x)
    PROVE  Typed'
<1>1. /\ x \in Schedules \X Row /\ x[2].next \in 0..MaxTime
      /\ x[1] \in Schedules /\ x[2] \in Row /\ tick \in 0..MaxTime
      /\ MaxTime \in Nat /\ Period \in Nat
  BY SchedulerAssumption DEF Typed, TypeOK
<1>2. CASE Check(x) \/ Invalid(x)
  <2>1. /\ decision' \in [kind : Kinds \cup {"none"}, run : RunIds \cup {NoRun}]
        /\ pc' \in {"mark", "validate"}
    BY <1>2 DEF Check, Invalid, Decide, Kinds, Typed, TypeOK
  <2>2. UNCHANGED <<now, row, runVars, due, tick, settled, putVars, boundVars>>
    BY <1>2 DEF Check, Invalid
  <2> QED BY <2>1, <2>2 DEF Typed, TypeOK, runVars, putVars, boundVars
<1>3. ASSUME NEW r \in RunIds, InsertRun(x, r) PROVE Typed'
  <2>1. /\ status' \in [RunIds -> {"none", "active", "over"}]
        /\ origin' \in [RunIds -> (Schedules \X Times) \cup {NoOrigin}]
    <3>1. <<x[1], x[2].next>> \in Schedules \X Times
      BY <1>1 DEF Times
    <3> QED BY <1>3, <3>1 DEF InsertRun, Typed, TypeOK
  <2>2. decision' \in [kind : Kinds \cup {"none"}, run : RunIds \cup {NoRun}] /\ pc' = "dispatch"
    BY <1>3 DEF InsertRun, Decide, Kinds
  <2>3. UNCHANGED <<now, row, due, tick, settled, putVars, boundVars>>
    BY <1>3 DEF InsertRun
  <2> QED BY <2>1, <2>2, <2>3 DEF Typed, TypeOK, putVars, boundVars
<1>4. CASE MarkOutcome(x)
  <2>1. Advance(x).next \in Times \cup {Never} /\ Advance(x).enabled \in BOOLEAN
    BY <1>1, NextSlotIsATime DEF Advance
  <2>2. LastRun(x) \in RunIds \cup {NoRun}
    BY <1>1 DEF LastRun, Typed, TypeOK, Row
  <2>3. row' \in [Schedules -> Row]
    <3> DEFINE old == row[x[1]]
               new == [old EXCEPT !.next = Advance(x).next, !.enabled = Advance(x).enabled,
                                  !.last = LastRun(x)]
    <3>1. row \in [Schedules -> Row] /\ old \in Row
      BY <1>1 DEF Typed, TypeOK
    <3>2. new \in Row
      <4> HIDE DEF old
      <4> QED BY <2>1, <2>2, <3>1 DEF Row
    <3>3. row' = row \/ row' = [row EXCEPT ![x[1]] = new]
      <4>1. CASE row[x[1]].exists
        <5>1. row' = [row EXCEPT ![x[1]].next = Advance(x).next,
                                 ![x[1]].enabled = Advance(x).enabled,
                                 ![x[1]].last = LastRun(x)]
          BY <1>4, <4>1 DEF MarkOutcome
        <5> DEFINE n == Advance(x).next
                   e == Advance(x).enabled
                   r == LastRun(x)
        <5>2. row' = [row EXCEPT ![x[1]].next = n, ![x[1]].enabled = e, ![x[1]].last = r]
          BY <5>1
        <5>3. new = [old EXCEPT !.next = n, !.enabled = e, !.last = r]
          OBVIOUS
        <5> HIDE DEF n, e, r, new
        <5> QED BY <1>1, <3>1, <5>2, <5>3
      <4>2. CASE ~row[x[1]].exists
        BY <1>4, <4>2 DEF MarkOutcome
      <4> QED BY <4>1, <4>2
    <3> HIDE DEF new
    <3> QED BY <3>1, <3>2, <3>3
  <2>4. pc' = "event" /\ UNCHANGED <<now, runVars, due, tick, decision, settled, putVars, boundVars>>
    BY <1>4 DEF MarkOutcome
  <2> QED BY <2>3, <2>4 DEF Typed, TypeOK, runVars, putVars, boundVars
<1>5. CASE InsertEvent(x)
  <2>1. settled' \in [Schedules -> Times \cup {Never}]
    <3>1. x[2].next \in Times
      BY <1>1 DEF Times
    <3> QED BY <1>5, <3>1 DEF InsertEvent, Typed, TypeOK
  <2>2. /\ due' \subseteq due /\ pc' \in {"idle", "check"} /\ tick' \in 0..MaxTime
        /\ decision' = NoDecision /\ UNCHANGED <<now, row, runVars, putVars, boundVars>>
    BY <1>1, <1>5 DEF InsertEvent
  <2> QED BY <2>1, <2>2, NoDecisionIsTyped DEF Typed, TypeOK, runVars, putVars, boundVars
<1> QED BY <1>2, <1>3, <1>4, <1>5 DEF Settle

LEMMA LoopIsTyped ==
    ASSUME Typed, Tick \/ Dispatch
    PROVE  Typed'
<1>1. CASE Tick
  <2>1. \A y \in due' : \E s \in Schedules : y = <<s, row[s]>> /\ IsDue(s)
    BY <1>1 DEF Tick
  <2>2. \A y \in due' : y \in Schedules \X Row /\ y[2].next \in 0..MaxTime
    <3> TAKE y \in due'
    <3>1. PICK s \in Schedules : y = <<s, row[s]>> /\ IsDue(s)
      BY <2>1
    <3>2. row[s] \in Row /\ now \in 0..MaxTime /\ MaxTime \in Nat
      BY SchedulerAssumption DEF Typed, TypeOK
    <3>3. row[s].next \in 0..now
      BY <3>1 DEF IsDue
    <3> QED BY <3>1, <3>2, <3>3
  <2> QED BY <1>1, <2>2 DEF Tick, Typed, TypeOK, runVars, putVars, boundVars
<1>2. CASE Dispatch
  <2>1. decision' \in [kind : Kinds \cup {"none"}, run : RunIds \cup {NoRun}]
    BY <1>2 DEF Dispatch, Decide, Kinds, Typed, TypeOK
  <2>2. status' \in [RunIds -> {"none", "active", "over"}]
    BY <1>2 DEF Dispatch, Typed, TypeOK
  <2> QED BY <1>2, <2>1, <2>2 DEF Dispatch, Typed, TypeOK, putVars, boundVars
<1> QED BY <1>1, <1>2

\* The world.
LEMMA WorldIsTyped ==
    ASSUME Typed, \/ TimePasses \/ Restart \/ PutWrite
                  \/ \E r \in RunIds : RunEnds(r)
                  \/ \E s \in Schedules : PutGate(s) \/ Delete(s)
    PROVE  Typed'
<1>0. /\ MaxTime \in Nat /\ MaxEdits \in Nat /\ MaxCrashes \in Nat /\ 0 \in 0..MaxTime
      /\ now \in 0..MaxTime /\ edits \in 0..MaxEdits /\ crashes \in 0..MaxCrashes
  BY SchedulerAssumption DEF Typed, TypeOK
<1>1. CASE TimePasses
  <2>1. now' \in 0..MaxTime
    BY <1>0, <1>1 DEF TimePasses
  <2> QED BY <1>1, <2>1 DEF TimePasses, Typed, TypeOK, runVars, loopVars, putVars, boundVars
<1>2. CASE Restart
  <2>1. crashes' \in 0..MaxCrashes
    BY <1>0, <1>2 DEF Restart
  <2>2. status' \in [RunIds -> {"none", "active", "over"}]
    BY <1>2 DEF Restart, Typed, TypeOK
  <2> QED BY <1>0, <1>2, <2>1, <2>2, NoDecisionIsTyped DEF Restart, Typed, TypeOK
<1>3. CASE PutWrite
  <2> DEFINE s == put[1]
             new == [put[2] EXCEPT !.last = row[s].last]
  <2>1. s \in Schedules /\ put[2] \in Row /\ row[s] \in Row
    BY <1>3 DEF PutWrite, Typed, TypeOK
  <2>2. new \in Row
    BY <2>1 DEF Row
  <2>3. row' = row \/ row' = [row EXCEPT ![s] = new]
    BY <1>3 DEF PutWrite
  <2>4. late' = late \/ late' = late \cup {s}
    BY <1>3 DEF PutWrite
  <2>5. put' = NoPut /\ UNCHANGED <<now, runVars, loopVars, settled, boundVars>>
    BY <1>3 DEF PutWrite
  <2> HIDE DEF new, s
  <2>6. row' \in [Schedules -> Row] /\ late' \subseteq Schedules
    BY <2>1, <2>2, <2>3, <2>4 DEF Typed, TypeOK
  <2> QED BY <2>5, <2>6 DEF Typed, TypeOK, runVars, loopVars, boundVars
<1>4. ASSUME NEW r \in RunIds, RunEnds(r) PROVE Typed'
  BY <1>4 DEF RunEnds, Typed, TypeOK, loopVars, putVars, boundVars
<1>5. ASSUME NEW s \in Schedules, PutGate(s) PROVE Typed'
  <2>1. edits' \in 0..MaxEdits
    BY <1>0, <1>5 DEF PutGate
  <2>2. PICK trigger \in Triggers(now), enabled \in BOOLEAN :
          put' = <<s, Written(trigger, enabled, NoRun)>>
    BY <1>5 DEF PutGate
  <2>3. Written(trigger, enabled, NoRun) \in Row
    BY <1>0, <2>2, WrittenIsOfARow, Zenon
  <2>4. put' \in (Schedules \X Row) \cup {NoPut}
    BY <2>2, <2>3
  <2> QED BY <1>5, <2>1, <2>4 DEF PutGate, Typed, TypeOK, runVars, loopVars
<1>6. ASSUME NEW s \in Schedules, Delete(s) PROVE Typed'
  <2>1. edits' \in 0..MaxEdits
    BY <1>0, <1>6 DEF Delete
  <2>2. row' \in [Schedules -> Row]
    <3> DEFINE new == [row[s] EXCEPT !.exists = FALSE]
    <3>1. row \in [Schedules -> Row] /\ row[s] \in Row
      BY DEF Typed, TypeOK
    <3>2. new \in Row
      BY <3>1 DEF Row
    <3>3. row' = [row EXCEPT ![s] = new]
      BY <1>6 DEF Delete
    <3> HIDE DEF new
    <3> QED BY <3>1, <3>2, <3>3
  <2> QED BY <1>6, <2>1, <2>2 DEF Delete, Typed, TypeOK, runVars, loopVars, putVars
<1> QED BY <1>1, <1>2, <1>3, <1>4, <1>5, <1>6

\* The state of the scheduler is of its type: every time it stores or records
\* is one the clock and one period reach (schedule/mod.rs).
LEMMA SchedulerTypes == Spec => []TypeOK
<1>1. ASSUME Typed, [Next]_vars PROVE Typed'
  <2>1. CASE Loop
    BY <1>1, <2>1, LoopIsTyped, SettleIsTyped DEF Loop
  <2>2. CASE UNCHANGED vars
    BY <1>1, <2>2 DEF vars, runVars, loopVars, putVars, boundVars, Typed, TypeOK
  <2> QED BY <1>1, <2>1, <2>2, WorldIsTyped DEF Next
<1>2. Typed => TypeOK
  BY DEF Typed
<1> QED BY <1>1, <1>2, InitIsTyped, PTL DEF Spec

----------------------------------------------------------------------------
\* A step of the services is one of the monitor or leaves it alone.
LEMMA StepOfTheMonitor ==
    [MCNext]_<<part, vars, monitorVars>> => [Board!Next]_(Board!vars)
<1> SUFFICES ASSUME [MCNext]_<<part, vars, monitorVars>>, monitorVars' # monitorVars
             PROVE  Board!Next
  BY DEF Board!vars, Board!slotVars, monitorVars
<1> QED BY DEF MCNext, SchedulerNext, MonitorNext

LEMMA MonitorOfTheServices == MCSpec => Board!Spec
<1>1. MCInit => Board!Init
  BY DEF MCInit
<1> QED BY <1>1, StepOfTheMonitor, PTL DEF MCSpec, Board!Spec

(***************************************************************************)
(* Beside the scheduler, with any boards, panels, edits and permits, no    *)
(* two loops of supervisor.rs write one panel's buffer, none is left       *)
(* behind by reconcile_slot, and the running flag is true of its check.    *)
(***************************************************************************)
THEOREM PanelsAreWell == MCSpec => []PanelsAreServedOnce
<1>1. /\ Board!Spec => []Board!OneLoopPerPanel
      /\ Board!Spec => []Board!RunningFlagIsTrue
  BY Board!PanelsHaveOneLoop, Board!FlagsAreTrue, MonitorAssumption
<1> QED BY <1>1, MonitorOfTheServices, PTL DEF PanelsAreServedOnce

(***************************************************************************)
(* A board that no reconcile is under way for, and whose last one was not  *)
(* lost, runs what its row in the database says; and once stop_all has     *)
(* returned no loop is alive, whichever reconciles it overtook.            *)
(***************************************************************************)
THEOREM BoardsAreWell == MCSpec => []BoardsSettle
<1>1. /\ Board!Spec => []Board!BoardsConverge
      /\ Board!Spec => []Board!NothingOutlivesStopAll
  BY Board!BoardsRunTheirRow, Board!ShutdownIsComplete, MonitorAssumption
<1> QED BY <1>1, MonitorOfTheServices, PTL DEF BoardsSettle

LEMMA SchedulerOfTheServices == MCSpec => Spec
<1>1. MCInit => Init
  BY DEF MCInit
<1>2. [MCNext]_<<part, vars, monitorVars>> => [Next]_vars
  BY DEF MCNext, SchedulerNext, MonitorNext
<1> QED BY <1>1, <1>2, PTL DEF MCSpec, Spec

\* The state of the two services is of its type, with times no further ahead
\* than one period of a schedule, and with no more checks at work than
\* supervisor.rs has permits, whatever the number of boards and units.
THEOREM ServicesAreTyped == MCSpec => []TypesOK
<1>1. Board!Spec => []Board!TypeOK
  BY Board!MonitorTypes, MonitorAssumption
<1> QED BY <1>1, MonitorOfTheServices, SchedulerOfTheServices, SchedulerTypes, PTL DEF TypesOK
=============================================================================
