------------------------------ MODULE VuCurve ------------------------------
(***************************************************************************)
(* The closed-loop VU curve of the load engine: a supervisor follows a     *)
(* curve of desired virtual users and the VU tasks, which it spawns as the *)
(* curve first reaches them and which park while it is below them, obey    *)
(* two channels it writes at different moments: a watch of the desired     *)
(* count and, in a slab, the cancellation token of each activation.        *)
(*                                                                         *)
(* The curve is any sequence of counts.  An activation's token is a child  *)
(* of the run's: it is cancelled when either is.  A VU may die of an engine*)
(* error as it builds its client and whenever it runs steps; a panic of its*)
(* task is not modelled.  The deadline is Duration.                        *)
(***************************************************************************)
EXTENDS Integers, FiniteSets

CONSTANTS
    MaxVus,    \* max_vus: the highest target of the curve
    Cap,       \* graceful_ramp_down, in ticks of the clock
    Duration   \* plan.duration, in ticks of the clock

ASSUME VuCurveAssumption == {MaxVus, Cap, Duration} \subseteq Nat

Vus   == 0..(MaxVus - 1)
Never == -1
Modes == {"immediate", "graceful", "capped"}

\* A VU is absent until spawned; woken when the watch let it through but its
\* slot is not yet registered.
Running == {"head", "iterate", "pace", "leave"}
Ended   == {"over", "aborted", "died"}

VARIABLES
    mode,         \* ramp_down and graceful_ramp_down
    now,
    cancelled,    \* the run's token
    super,        \* the supervisor's position
    at,           \* the instant its round began
    desired,      \* the watch
    spawned,
    retireSince,  \* retire_since
    slab,         \* the token of each activation
    vu,           \* the position of each VU
    failed,
    result,
    \* History, which nothing in the code keeps:
    undesired,    \* since when the VU has been above the curve
    timed         \* the registered activation is the one retireSince times

superVars == <<super, at, desired, spawned, retireSince, result>>
vuVars    == <<vu, slab, failed, timed>>
vars      == <<mode, now, cancelled, superVars, vuVars, undesired>>

TypeOK ==
    /\ mode \in Modes
    /\ now \in 0..Duration /\ at \in 0..Duration
    /\ cancelled \in BOOLEAN
    /\ super \in {"adjust", "retire", "sleep", "join", "done"}
    /\ desired \in 0..MaxVus /\ spawned \in 0..MaxVus /\ failed \in 0..MaxVus
    /\ retireSince \in [Vus -> 0..Duration \cup {Never}]
    /\ slab \in [Vus -> {"none", "live", "cancelled"}]
    /\ vu \in [Vus -> {"absent", "start", "park", "woken"} \cup Running \cup Ended]
    /\ result \in {"none", "ok", "aborted", "all_failed"}
    /\ undesired \in [Vus -> 0..Duration \cup {Never}]
    /\ timed \in [Vus -> BOOLEAN]

Init ==
    /\ mode \in Modes
    /\ now = 0 /\ at = 0 /\ cancelled = FALSE
    /\ super = "adjust" /\ result = "none"
    /\ desired = 0 /\ spawned = 0 /\ failed = 0
    /\ retireSince = [i \in Vus |-> Never]
    /\ slab = [i \in Vus |-> "none"]
    /\ vu = [i \in Vus |-> "absent"]
    /\ undesired = [i \in Vus |-> 0]
    /\ timed = [i \in Vus |-> FALSE]

Expired == now >= Duration

----------------------------------------------------------------------------
(***************************************************************************)
(* The supervisor, run_scenario_vu_curve.                                  *)
(***************************************************************************)

StopLoop ==
    /\ super = "adjust"
    /\ cancelled \/ Expired
    /\ super' = "join"
    /\ UNCHANGED <<mode, now, cancelled, at, desired, spawned, retireSince, result,
                   vuVars, undesired>>

\* A round: spawn what the curve reaches for the first time, publish it.
Adjust ==
    /\ super = "adjust"
    /\ ~cancelled /\ ~Expired
    /\ at' = now
    /\ desired' \in 0..MaxVus
    /\ spawned' = IF desired' > spawned THEN desired' ELSE spawned
    /\ vu' = [i \in Vus |-> IF i \in spawned..(desired' - 1) THEN "start" ELSE vu[i]]
    /\ undesired' = [i \in Vus |->
         IF desired' > i THEN Never ELSE IF desired > i THEN now ELSE undesired[i]]
    /\ super' = "retire"
    /\ UNCHANGED <<mode, now, cancelled, retireSince, result, slab, failed, timed>>

Registered(i) == slab[i] # "none"
Retired(i)    == i >= desired

\* Immediate: the tokens above the curve, those cancelled before included.
RetireNow ==
    /\ slab' = [i \in Vus |->
         IF Retired(i) /\ Registered(i) THEN "cancelled" ELSE slab[i]]
    /\ UNCHANGED <<retireSince, timed>>

\* Mutant of Timer: a VU the curve reaches again keeps its timer.
TimerKept(i) ==
    IF Retired(i) /\ i < spawned
    THEN IF ~Registered(i) THEN Never
         ELSE IF retireSince[i] = Never THEN at ELSE retireSince[i]
    ELSE retireSince[i]

Timer(i) ==
    IF Retired(i) /\ i < spawned
    THEN IF ~Registered(i) THEN Never
         ELSE IF retireSince[i] = Never THEN at ELSE retireSince[i]
    ELSE IF Retired(i) THEN retireSince[i] ELSE Never

GraceOver(i) == retireSince[i] # Never /\ at - retireSince[i] >= Cap

\* retire_expired: the tokens of the VUs above the curve for the cap.
RetireExpired ==
    /\ slab' = [i \in Vus |->
         IF Retired(i) /\ i < spawned /\ Registered(i) /\ GraceOver(i)
         THEN "cancelled" ELSE slab[i]]
    /\ retireSince' = [i \in Vus |-> Timer(i)]
    /\ timed' = [i \in Vus |-> timed[i] \/ (retireSince[i] = Never /\ Timer(i) # Never)]

\* After the wait for the aggregator's lock, of which Adjust knew nothing.
Retire ==
    /\ super = "retire"
    /\ \/ mode = "immediate" /\ RetireNow
       \/ mode = "capped" /\ RetireExpired
       \/ mode = "graceful" /\ UNCHANGED <<slab, retireSince, timed>>
    /\ super' = "sleep"
    /\ UNCHANGED <<mode, now, cancelled, at, desired, spawned, result, vu, failed, undesired>>

Wake ==
    /\ super = "sleep"
    /\ \/ super' = "adjust"
       \/ cancelled /\ super' = "join"
    /\ UNCHANGED <<mode, now, cancelled, at, desired, spawned, retireSince, result,
                   vuVars, undesired>>

\* All VUs joined: the run's result.
Join ==
    /\ super = "join"
    /\ \A i \in 0..(spawned - 1) : vu[i] \in Ended
    /\ result' = IF cancelled THEN "aborted"
                 ELSE IF spawned > 0 /\ failed >= spawned THEN "all_failed" ELSE "ok"
    /\ super' = "done"
    /\ UNCHANGED <<mode, now, cancelled, at, desired, spawned, retireSince, vuVars, undesired>>

Supervisor == StopLoop \/ Adjust \/ Retire \/ Wake \/ Join

----------------------------------------------------------------------------
(***************************************************************************)
(* A VU, run_vu_curve.                                                     *)
(***************************************************************************)

ActCancelled(i) == cancelled \/ slab[i] = "cancelled"

UnchangedByVu == UNCHANGED <<mode, now, cancelled, superVars, undesired>>

Goto(i, where) == vu' = [vu EXCEPT ![i] = where]
Clear(i)       == slab' = [slab EXCEPT ![i] = "none"]

\* The task returns, and its spawn closure counts every error.
End(i, how) ==
    /\ Goto(i, how)
    /\ failed' = IF how = "over" THEN failed ELSE failed + 1

\* The client is built, or cannot be.
Start(i) ==
    /\ vu[i] = "start"
    /\ \/ Goto(i, "park") /\ UNCHANGED failed
       \/ End(i, "died")
    /\ UNCHANGED <<slab, timed>> /\ UnchangedByVu

\* Mutant of Park: the wait is for the watch and the run's token alone.
ParkUntilWoken(i) ==
    /\ vu[i] = "park"
    /\ \/ cancelled /\ End(i, "aborted")
       \/ ~cancelled /\ desired > i /\ Goto(i, "woken") /\ UNCHANGED failed
    /\ UNCHANGED <<slab, timed>> /\ UnchangedByVu

Park(i) ==
    /\ vu[i] = "park"
    /\ \/ cancelled /\ End(i, "aborted")
       \/ Expired /\ End(i, "over")
       \/ desired > i /\ Goto(i, "woken") /\ UNCHANGED failed
    /\ UNCHANGED <<slab, timed>> /\ UnchangedByVu

Register(i) ==
    /\ vu[i] = "woken"
    /\ slab' = [slab EXCEPT ![i] = "live"]
    /\ timed' = [timed EXCEPT ![i] = FALSE]
    /\ Goto(i, "head")
    /\ UNCHANGED failed /\ UnchangedByVu

\* Mutant of MayIterate: the watch is not read again after registering.
MayIterateOnce(i) == ~Expired /\ ~ActCancelled(i)
MayIterate(i)     == ~Expired /\ ~ActCancelled(i) /\ desired > i

\* The loop's head: the deadline, the token, the curve, the unique rows left.
Head(i) ==
    /\ vu[i] = "head"
    /\ \/ Expired /\ End(i, "over") /\ Clear(i)
       \/ ~Expired /\ ~MayIterate(i) /\ Goto(i, "leave") /\ UNCHANGED <<slab, failed>>
       \/ MayIterate(i) /\ Goto(i, "iterate") /\ UNCHANGED <<slab, failed>>
       \/ MayIterate(i) /\ End(i, "over") /\ Clear(i)
    /\ UNCHANGED timed /\ UnchangedByVu

\* Mutant of Die: the slot of a VU that died is left behind.
DieInPlace(i) == End(i, "died") /\ UNCHANGED slab
Die(i)        == End(i, "died") /\ Clear(i)

\* execute_steps: a token or a deadline it did not notice lets it complete.
Iterate(i) ==
    /\ vu[i] = "iterate"
    /\ \/ Goto(i, IF desired > i THEN "pace" ELSE "leave") /\ UNCHANGED <<slab, failed>>
       \/ ActCancelled(i) /\ Goto(i, "leave") /\ UNCHANGED <<slab, failed>>
       \/ Expired /\ End(i, "over") /\ Clear(i)
       \/ Die(i)
    /\ UNCHANGED timed /\ UnchangedByVu

\* The think time, none at all included.
Pace(i) ==
    /\ vu[i] = "pace"
    /\ \/ Goto(i, "head") /\ UNCHANGED <<slab, failed>>
       \/ ActCancelled(i) /\ Goto(i, "leave") /\ UNCHANGED <<slab, failed>>
       \/ Expired /\ End(i, "over") /\ Clear(i)
    /\ UNCHANGED timed /\ UnchangedByVu

\* Mutant of Leave: a retirement counts as a failure.
LeaveCounted(i) ==
    /\ vu[i] = "leave"
    /\ Clear(i)
    /\ IF cancelled THEN End(i, "aborted") ELSE Goto(i, "park") /\ failed' = failed + 1
    /\ UNCHANGED timed /\ UnchangedByVu

\* Deactivated: a run that is aborted ends the VU, a retirement parks it.
Leave(i) ==
    /\ vu[i] = "leave"
    /\ Clear(i)
    /\ IF cancelled THEN End(i, "aborted") ELSE Goto(i, "park") /\ UNCHANGED failed
    /\ UNCHANGED timed /\ UnchangedByVu

Vu(i) == Start(i) \/ Park(i) \/ Register(i) \/ Head(i) \/ Iterate(i) \/ Pace(i) \/ Leave(i)

----------------------------------------------------------------------------
\* The caller aborts the run.
CancelRun ==
    /\ super # "done" /\ ~cancelled
    /\ cancelled' = TRUE
    /\ UNCHANGED <<mode, now, superVars, vuVars, undesired>>

ClockTicks ==
    /\ now < Duration
    /\ now' = now + 1
    /\ UNCHANGED <<mode, cancelled, superVars, vuVars, undesired>>

Next == Supervisor \/ CancelRun \/ ClockTicks \/ \E i \in Vus : Vu(i)

Spec == Init /\ [][Next]_vars

\* The tasks are scheduled and their requests time out; time passes.
FairSpec ==
    /\ Spec
    /\ WF_vars(ClockTicks) /\ WF_vars(Supervisor)
    /\ \A i \in Vus : WF_vars(Vu(i))

----------------------------------------------------------------------------
\* Once the supervisor of an immediate ramp-down has been round, no VU above
\* the curve runs under a live token, not even one it woke while it was still
\* below and that registered after the tokens were cancelled.
NoneOutlivesItsRetirement ==
    mode = "immediate" /\ super = "sleep" =>
        \A i \in Vus : Retired(i) /\ vu[i] \in {"iterate", "pace"} => slab[i] = "cancelled"

\* "Always the original lingering activation": the cap cancels an activation
\* only when the VU has been above the curve for all of it, and the one whose
\* timer ran, whatever the curve did before.
CapIsGranted ==
    [][\A i \in Vus : mode = "capped" /\ slab[i] = "live" /\ slab'[i] = "cancelled" =>
         timed[i] /\ undesired[i] # Never /\ at - undesired[i] >= Cap]_vars

\* What is counted of the VUs is true.  The gauge of active VUs counts the
\* slab: none that parked, ended or died is in it, and every one at work is.
\* A run fails because all its VUs died, and only then; retirements and the
\* VUs an abort ended do not make it fail.
CountsAreTrue ==
    /\ \A i \in Vus : Registered(i) <=> vu[i] \in Running
    /\ super = "done" =>
         (result = "all_failed" <=>
            ~cancelled /\ spawned > 0 /\ \A i \in 0..(spawned - 1) : vu[i] = "died")

\* The run ends, though VUs sleep on a watch nobody writes any more.
RunEnds == <>(super = "done")
=============================================================================
