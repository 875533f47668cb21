--------------------------- MODULE VuCurveProofs ---------------------------
(***************************************************************************)
(* The closed-loop VU curve for every number of VUs, every cap and every   *)
(* duration: types, retirements, the cap and the counts.                   *)
(***************************************************************************)
EXTENDS VuCurve, TLAPS, FiniteSetTheorems

\* The VUs the counter of failures has counted.
Failed == {i \in Vus : vu[i] \in {"aborted", "died"}}

\* The counter is exact, VUs are spawned in order, and only an abort aborts.
FailuresAreCounted ==
    /\ failed = Cardinality(Failed)
    /\ \A i \in Vus : i >= spawned <=> vu[i] = "absent"
    /\ desired <= spawned
    /\ ~cancelled => \A i \in Vus : vu[i] # "aborted"
    /\ super = "done" => \A i \in Vus : vu[i] \in Ended \cup {"absent"}
    /\ super \in {"adjust", "retire", "sleep", "join"} => result = "none"

\* A timer runs for a VU above the curve only, since after it came there; one
\* the curve has reached again is stopped before the next round.
TimersAreTrue ==
    /\ at <= now
    /\ mode # "capped" => \A i \in Vus : retireSince[i] = Never
    /\ \A i \in Vus :
        /\ Retired(i) => undesired[i] \in 0..at
        /\ Retired(i) /\ retireSince[i] # Never => undesired[i] <= retireSince[i]
        /\ ~Retired(i) /\ super # "retire" => retireSince[i] = Never

\* The timer that runs is the registered activation's: a VU that was woken and
\* is above the curve again has none.
TimersAreOfTheActivation ==
    \A i \in Vus : Retired(i) /\ retireSince[i] # Never =>
        /\ vu[i] # "woken"
        /\ slab[i] = "live" => timed[i]

Inv ==
    /\ TypeOK /\ FailuresAreCounted /\ CountsAreTrue
    /\ TimersAreTrue /\ TimersAreOfTheActivation /\ NoneOutlivesItsRetirement

----------------------------------------------------------------------------
LEMMA VusAreFinite == IsFiniteSet(Vus) /\ Cardinality(Vus) = MaxVus
<1>1. MaxVus \in Nat
  BY VuCurveAssumption
<1>2. IsFiniteSet(0..(MaxVus - 1)) /\ Cardinality(0..(MaxVus - 1)) = MaxVus
  BY <1>1, FS_Interval
<1> QED BY <1>2 DEF Vus

\* What fails is counted as long as everybody fails once.
LEMMA FailedIsFinite == IsFiniteSet(Failed) /\ Cardinality(Failed) \in 0..MaxVus
<1>1. Failed \subseteq Vus
  BY DEF Failed
<1>2. IsFiniteSet(Failed) /\ Cardinality(Failed) <= Cardinality(Vus)
  BY <1>1, VusAreFinite, FS_Subset
<1>3. Cardinality(Failed) \in Nat
  BY <1>2, FS_CardinalityType
<1> QED BY <1>2, <1>3, VusAreFinite, VuCurveAssumption

LEMMA InitKeepsIt == Init => Inv
<1> SUFFICES ASSUME Init PROVE Inv
  OBVIOUS
<1>1. MaxVus \in Nat /\ Duration \in Nat
  BY VuCurveAssumption
<1>2. TypeOK
  <2>1. /\ mode \in Modes /\ cancelled \in BOOLEAN
        /\ super \in {"adjust", "retire", "sleep", "join", "done"}
        /\ result \in {"none", "ok", "aborted", "all_failed"}
    BY ZenonT(20) DEF Init
  <2>0. /\ now \in 0..Duration /\ at \in 0..Duration
        /\ desired \in 0..MaxVus /\ spawned \in 0..MaxVus /\ failed \in 0..MaxVus
    BY <1>1 DEF Init
  <2>2. /\ retireSince \in [Vus -> 0..Duration \cup {Never}]
        /\ undesired \in [Vus -> 0..Duration \cup {Never}]
    BY <1>1 DEF Init
  <2>3. /\ slab \in [Vus -> {"none", "live", "cancelled"}]
        /\ vu \in [Vus -> {"absent", "start", "park", "woken"} \cup Running \cup Ended]
        /\ timed \in [Vus -> BOOLEAN]
    BY DEF Init
  <2> QED BY <2>0, <2>1, <2>2, <2>3 DEF TypeOK
<1>3. Failed = {}
  BY DEF Init, Failed
<1>4. FailuresAreCounted
  BY <1>1, <1>3, FS_EmptySet DEF Init, FailuresAreCounted, Vus
<1>5. CountsAreTrue /\ NoneOutlivesItsRetirement
  BY DEF Init, CountsAreTrue, NoneOutlivesItsRetirement, Registered, Running
<1>6. TimersAreTrue /\ TimersAreOfTheActivation
  BY DEF Init, TimersAreTrue, TimersAreOfTheActivation, Never
<1> QED BY <1>2, <1>4, <1>5, <1>6 DEF Inv

----------------------------------------------------------------------------
(***************************************************************************)
(* The VUs.  All of them keep to one contract.                             *)
(***************************************************************************)
Alive == {"start", "park", "woken"} \cup Running

\* What a step of VU i may do.
Contract(i) ==
    /\ UNCHANGED <<mode, now, cancelled, super, at, desired, spawned, retireSince, result,
                   undesired>>
    /\ \E where \in Alive \cup Ended, token \in {"none", "live", "cancelled"} :
        /\ vu[i] \in Alive
        /\ vu' = [vu EXCEPT ![i] = where]
        /\ slab' = [slab EXCEPT ![i] = token]
        /\ token # "none" <=> where \in Running
        /\ vu[i] = "woken" => token = "live" /\ timed' = [timed EXCEPT ![i] = FALSE]
        /\ vu[i] # "woken" => token \in {"none", slab[i]} /\ timed' = timed
        /\ where \in {"woken", "iterate", "pace"} => desired > i
        /\ where = "aborted" => cancelled
        /\ failed' = IF where \in {"aborted", "died"} THEN failed + 1 ELSE failed

LEMMA VuKeepsTheContract ==
    ASSUME TypeOK, CountsAreTrue, NEW i \in Vus, Vu(i)
    PROVE  Contract(i)
<1> USE DEF Alive, Running, Ended, Goto, Clear, End, UnchangedByVu, superVars
<1>1. /\ slab = [slab EXCEPT ![i] = slab[i]] /\ slab[i] \in {"none", "live", "cancelled"}
      /\ slab[i] # "none" <=> vu[i] \in Running
  BY DEF TypeOK, CountsAreTrue, Registered
<1>2. CASE Start(i)
  BY <1>1, <1>2 DEF Start, Contract
<1>3. CASE Park(i)
  BY <1>1, <1>3 DEF Park, Contract
<1>4. CASE Register(i)
  BY <1>1, <1>4 DEF Register, Contract
<1>5. CASE Head(i)
  BY <1>1, <1>5 DEF Head, MayIterate, Contract
<1>6. CASE Iterate(i)
  BY <1>1, <1>6 DEF Iterate, Die, Contract
<1>7. CASE Pace(i)
  BY <1>1, <1>7 DEF Pace, Contract
<1>8. CASE Leave(i)
  BY <1>1, <1>8 DEF Leave, Contract
<1> QED BY <1>2, <1>3, <1>4, <1>5, <1>6, <1>7, <1>8 DEF Vu

LEMMA VuKeepsTheTypes ==
    ASSUME Inv, NEW i \in Vus, Contract(i)
    PROVE  TypeOK' /\ FailuresAreCounted'
<1> USE DEF Alive, Running, Ended, Retired, Never
<1>1. PICK where \in Alive \cup Ended, token \in {"none", "live", "cancelled"} :
        /\ vu[i] \in Alive
        /\ vu' = [vu EXCEPT ![i] = where]
        /\ slab' = [slab EXCEPT ![i] = token]
        /\ timed' = timed \/ timed' = [timed EXCEPT ![i] = FALSE]
        /\ where = "aborted" => cancelled
        /\ failed' = IF where \in {"aborted", "died"} THEN failed + 1 ELSE failed
  BY DEF Contract
<1>2. Failed' = IF where \in {"aborted", "died"} THEN Failed \cup {i} ELSE Failed
  BY <1>1 DEF Failed, Inv, TypeOK
<1>3. i \notin Failed
  BY <1>1 DEF Failed
<1>4. failed' = Cardinality(Failed')
  BY <1>1, <1>2, <1>3, FailedIsFinite, FS_AddElement DEF Inv, FailuresAreCounted
<1>5. IsFiniteSet(Failed)' /\ Cardinality(Failed)' \in 0..MaxVus
  BY <1>2, <1>3, FailedIsFinite, FS_Subset, FS_AddElement, VusAreFinite, FS_CardinalityType,
     VuCurveAssumption DEF Failed
<1>6. TypeOK'
  BY <1>1, <1>4, <1>5 DEF Contract, Inv, TypeOK
<1>7. FailuresAreCounted'
  BY <1>1, <1>4 DEF Contract, Inv, FailuresAreCounted, TypeOK
<1> QED BY <1>6, <1>7

LEMMA VuKeepsIt ==
    ASSUME Inv, NEW i \in Vus, Vu(i)
    PROVE  Inv'
<1>1. Contract(i)
  BY VuKeepsTheContract DEF Inv
<1>2. TypeOK' /\ FailuresAreCounted'
  BY <1>1, VuKeepsTheTypes
<1>3. PICK where \in Alive \cup Ended, token \in {"none", "live", "cancelled"} :
        /\ vu[i] \in Alive
        /\ vu' = [vu EXCEPT ![i] = where]
        /\ slab' = [slab EXCEPT ![i] = token]
        /\ token # "none" <=> where \in Running
        /\ vu[i] = "woken" => token = "live" /\ timed' = [timed EXCEPT ![i] = FALSE]
        /\ vu[i] # "woken" => token \in {"none", slab[i]} /\ timed' = timed
        /\ where \in {"woken", "iterate", "pace"} => desired > i
  BY <1>1 DEF Contract
<1>4. UNCHANGED <<mode, now, cancelled, super, at, desired, spawned, retireSince, result,
                  undesired>>
  BY <1>1 DEF Contract
<1>5. /\ DOMAIN vu = Vus /\ DOMAIN slab = Vus /\ DOMAIN timed = Vus
      /\ desired \in Nat /\ i \in Int
  BY VuCurveAssumption DEF Inv, TypeOK, Vus
<1>6. CountsAreTrue'
  <2>1. super # "done"
    BY <1>3 DEF Inv, FailuresAreCounted, Alive, Running, Ended
  <2> QED BY <1>3, <1>4, <1>5, <2>1 DEF Inv, CountsAreTrue, Registered
<1>7. TimersAreTrue'
  BY <1>4 DEF Inv, TimersAreTrue, Retired
<1>8. TimersAreOfTheActivation'
  <2> SUFFICES ASSUME NEW j \in Vus, Retired(j), retireSince[j] # Never
               PROVE  vu'[j] # "woken" /\ (slab'[j] = "live" => timed'[j])
    BY <1>4 DEF TimersAreOfTheActivation, Retired
  <2>1. vu[j] # "woken" /\ (slab[j] = "live" => timed[j])
    BY DEF Inv, TimersAreOfTheActivation
  <2>2. CASE j # i
    BY <1>3, <1>5, <2>1, <2>2
  <2>3. CASE j = i
    BY <1>3, <1>5, <2>1, <2>3 DEF Retired
  <2> QED BY <2>2, <2>3
<1>9. NoneOutlivesItsRetirement'
  <2> SUFFICES ASSUME mode = "immediate", super = "sleep",
                      NEW j \in Vus, Retired(j), vu'[j] \in {"iterate", "pace"}
               PROVE  slab'[j] = "cancelled"
    BY <1>4 DEF NoneOutlivesItsRetirement, Retired
  <2>1. j # i
    BY <1>3, <1>5 DEF Retired
  <2> QED BY <1>3, <1>5, <2>1 DEF Inv, NoneOutlivesItsRetirement
<1> QED BY <1>2, <1>6, <1>7, <1>8, <1>9 DEF Inv

----------------------------------------------------------------------------
(***************************************************************************)
(* The supervisor.                                                         *)
(***************************************************************************)

\* The VUs that failed are spawned ones.
LEMMA AllFailedAllDied ==
    ASSUME TypeOK, FailuresAreCounted, \A i \in 0..(spawned - 1) : vu[i] \in Ended, ~cancelled
    PROVE  failed >= spawned <=> \A i \in 0..(spawned - 1) : vu[i] = "died"
<1>0. spawned \in Nat /\ spawned <= MaxVus /\ MaxVus \in Nat
  BY VuCurveAssumption DEF TypeOK
<1>1. IsFiniteSet(0..(spawned - 1)) /\ Cardinality(0..(spawned - 1)) = spawned
  BY <1>0, FS_Interval
<1>2. Failed \subseteq 0..(spawned - 1)
  BY <1>0 DEF Failed, FailuresAreCounted, Vus
<1>6. /\ Cardinality(Failed) <= Cardinality(0..(spawned - 1))
      /\ Cardinality(0..(spawned - 1)) = Cardinality(Failed) => 0..(spawned - 1) = Failed
  BY <1>1, <1>2, FS_Subset
<1>3. failed = Cardinality(Failed) /\ Cardinality(Failed) \in Nat /\ failed <= spawned
  BY <1>1, <1>6, FailedIsFinite DEF FailuresAreCounted
<1>4. ASSUME failed >= spawned
      PROVE  \A i \in 0..(spawned - 1) : vu[i] = "died"
  <2>1. Failed = 0..(spawned - 1)
    BY <1>0, <1>1, <1>3, <1>4, <1>6
  <2> QED BY <1>0, <1>1, <2>1 DEF Failed, FailuresAreCounted
<1>5. ASSUME \A i \in 0..(spawned - 1) : vu[i] = "died"
      PROVE  failed >= spawned
  <2>1. 0..(spawned - 1) \subseteq Failed
    BY <1>0, <1>1, <1>5 DEF Failed, Vus
  <2>2. Failed = 0..(spawned - 1)
    BY <1>2, <2>1
  <2> QED BY <1>0, <1>1, <1>3, <2>2
<1> QED BY <1>4, <1>5

LEMMA TurnKeepsIt ==
    ASSUME Inv, StopLoop \/ Wake \/ Join \/ CancelRun \/ ClockTicks
    PROVE  Inv'
<1> USE DEF superVars, vuVars
<1>1. UNCHANGED <<mode, at, desired, spawned, retireSince, vuVars, undesired>>
  BY DEF StopLoop, Wake, Join, CancelRun, ClockTicks
<1>2. now' \in 0..Duration /\ now' >= now
  BY VuCurveAssumption DEF StopLoop, Wake, Join, CancelRun, ClockTicks, Inv, TypeOK
<1>0. cancelled' \in BOOLEAN /\ (cancelled => cancelled')
  BY ZenonT(30) DEF StopLoop, Wake, Join, CancelRun, ClockTicks, Inv, TypeOK
<1>3. /\ super' \in {"adjust", "retire", "sleep", "join", "done"}
      /\ super' = "retire" <=> super = "retire"
      /\ super' = "sleep" => super = "sleep"
  BY DEF StopLoop, Wake, Join, CancelRun, ClockTicks, Inv, TypeOK
<1>4. /\ result' \in {"none", "ok", "aborted", "all_failed"}
      /\ super' # "done" => result' = result /\ super # "done"
      /\ super' = "done" => super \in {"join", "done"}
      /\ super = "done" => result' = result /\ super' = super /\ cancelled' = cancelled
      /\ super = "join" /\ super' = "done" => Join
  BY DEF StopLoop, Wake, Join, CancelRun, ClockTicks, Inv, TypeOK
<1>5. TypeOK'
  BY <1>0, <1>1, <1>2, <1>3, <1>4 DEF Inv, TypeOK
<1>6. FailuresAreCounted'
  <2>1. failed' = Cardinality(Failed)'
    BY <1>1 DEF Inv, FailuresAreCounted, Failed
  <2>2. super' = "done" => \A i \in Vus : vu'[i] \in Ended \cup {"absent"}
    <3>1. CASE super = "done"
      BY <1>1, <3>1 DEF Inv, FailuresAreCounted
    <3>2. CASE super = "join" /\ super' = "done"
      BY <1>1, <1>4, <3>2 DEF Join, Inv, FailuresAreCounted, TypeOK, Vus
    <3> QED BY <1>4, <3>1, <3>2
  <2>3. super' \in {"adjust", "retire", "sleep", "join"} => result' = "none"
    BY <1>4 DEF Inv, FailuresAreCounted, TypeOK
  <2>4. ~cancelled' => \A i \in Vus : vu'[i] # "aborted"
    BY <1>0, <1>1 DEF Inv, FailuresAreCounted
  <2> QED BY <1>1, <2>1, <2>2, <2>3, <2>4 DEF Inv, FailuresAreCounted
<1>7. CountsAreTrue'
  <2>1. super' = "done" =>
          (result' = "all_failed" <=>
             ~cancelled' /\ spawned > 0 /\ \A i \in 0..(spawned - 1) : vu[i] = "died")
    <3>1. CASE super = "done"
      BY <1>4, <3>1 DEF Inv, CountsAreTrue
    <3>2. CASE super = "join" /\ super' = "done"
      <4>1. Join
        BY <1>4, <3>2
      <4>2. CASE cancelled
        BY <4>1, <4>2 DEF Join
      <4>3. CASE ~cancelled
        <5>1. failed >= spawned <=> \A i \in 0..(spawned - 1) : vu[i] = "died"
          BY <4>1, <4>3, AllFailedAllDied DEF Join, Inv
        <5> QED BY <4>1, <4>3, <5>1 DEF Join
      <4> QED BY <4>2, <4>3
    <3> QED BY <1>4, <3>1, <3>2
  <2> QED BY <1>1, <2>1 DEF Inv, CountsAreTrue, Registered
<1>8. TimersAreTrue'
  BY <1>1, <1>2, <1>3 DEF Inv, TypeOK, TimersAreTrue, Retired
<1>9. TimersAreOfTheActivation' /\ NoneOutlivesItsRetirement'
  BY <1>1, <1>3 DEF Inv, TimersAreOfTheActivation, NoneOutlivesItsRetirement, Retired
<1> QED BY <1>5, <1>6, <1>7, <1>8, <1>9 DEF Inv

LEMMA SpawnedInOrder ==
    ASSUME NEW i \in Int, NEW from \in Int, NEW to \in Int, NEW next,
           next = IF to > from THEN to ELSE from
    PROVE  i \in from..(to - 1) <=> i >= from /\ i < next
OBVIOUS

\* A round spawns the VUs the curve reaches for the first time, in order.
LEMMA AdjustKeepsIt == ASSUME Inv, Adjust PROVE Inv'
<1> USE DEF Never
<1>1. /\ UNCHANGED <<mode, now, cancelled, retireSince, result, slab, failed, timed>>
      /\ super = "adjust" /\ super' = "retire" /\ at' = now
  BY DEF Adjust
<1>2. /\ now \in 0..Duration /\ Duration \in Nat /\ MaxVus \in Nat
      /\ desired \in 0..MaxVus /\ spawned \in 0..MaxVus /\ desired <= spawned
      /\ desired' \in 0..MaxVus /\ spawned' \in 0..MaxVus /\ desired' <= spawned'
  BY VuCurveAssumption DEF Adjust, Inv, TypeOK, FailuresAreCounted
<1>3. \A i \in Vus : IF i >= spawned /\ i < spawned' THEN vu'[i] = "start" ELSE vu'[i] = vu[i]
  <2> SUFFICES ASSUME NEW i \in Vus
               PROVE  IF i >= spawned /\ i < spawned' THEN vu'[i] = "start" ELSE vu'[i] = vu[i]
    OBVIOUS
  <2>1. vu'[i] = IF i \in spawned..(desired' - 1) THEN "start" ELSE vu[i]
    BY DEF Adjust
  <2>2. spawned' = IF desired' > spawned THEN desired' ELSE spawned
    BY DEF Adjust
  <2>3. i \in Int /\ spawned \in Int /\ desired' \in Int
    BY <1>2 DEF Vus
  <2>4. i \in spawned..(desired' - 1) <=> i >= spawned /\ i < spawned'
    BY <2>2, <2>3, SpawnedInOrder
  <2> QED BY <2>1, <2>4
<1>4. \A i \in Vus : undesired'[i] =
         IF desired' > i THEN Never ELSE IF desired > i THEN now ELSE undesired[i]
  BY DEF Adjust
<1>5. \A i \in Vus : i >= spawned <=> vu[i] = "absent"
  BY DEF Inv, FailuresAreCounted
<1>6. TypeOK'
  <2>1. vu' \in [Vus -> {"absent", "start", "park", "woken"} \cup Running \cup Ended]
    BY DEF Adjust, Inv, TypeOK
  <2>2. undesired' \in [Vus -> 0..Duration \cup {Never}]
    BY DEF Adjust, Inv, TypeOK
  <2> QED BY <1>1, <1>2, <2>1, <2>2 DEF Inv, TypeOK
<1>7. FailuresAreCounted'
  <2>1. Failed' = Failed
    BY <1>3, <1>5 DEF Failed
  <2>2. \A i \in Vus : i >= spawned' <=> vu'[i] = "absent"
    <3>1. spawned' >= spawned /\ Vus \subseteq Int
      BY <1>2 DEF Adjust, Vus
    <3> QED BY <1>2, <1>3, <1>5, <3>1
  <2>3. ~cancelled' => \A i \in Vus : vu'[i] # "aborted"
    BY <1>1, <1>3 DEF Inv, FailuresAreCounted
  <2> QED BY <1>1, <1>2, <2>1, <2>2, <2>3 DEF Inv, FailuresAreCounted
<1>8. CountsAreTrue'
  BY <1>1, <1>3, <1>5 DEF Inv, CountsAreTrue, Registered, Running
<1>9. TimersAreTrue'
  <2> SUFFICES ASSUME NEW i \in Vus, ~(desired' > i)
               PROVE  /\ undesired'[i] \in 0..now
                      /\ retireSince[i] # Never => undesired'[i] <= retireSince[i]
    BY <1>1, <1>2 DEF Inv, TimersAreTrue, Retired, Vus
  <2>1. CASE desired > i
    BY <1>1, <1>2, <1>4, <2>1 DEF Inv, TimersAreTrue, Retired, Vus
  <2>2. CASE ~(desired > i)
    <3>1. undesired[i] \in 0..at /\ at <= now /\ at \in 0..Duration
      BY <1>2, <2>2 DEF Inv, TimersAreTrue, TypeOK, Retired, Vus
    <3>2. retireSince[i] # Never => undesired[i] <= retireSince[i]
      BY <1>2, <2>2 DEF Inv, TimersAreTrue, Retired, Vus
    <3> QED BY <1>2, <1>4, <2>2, <3>1, <3>2
  <2> QED BY <2>1, <2>2
<1>10. TimersAreOfTheActivation'
  <2> SUFFICES ASSUME NEW i \in Vus, i >= desired', retireSince[i] # Never
               PROVE  vu'[i] # "woken" /\ (slab[i] = "live" => timed[i])
    BY <1>1 DEF TimersAreOfTheActivation, Retired
  <2>1. Retired(i)
    BY <1>1, <1>2 DEF Inv, TimersAreTrue, Retired, Vus
  <2> QED BY <1>3, <2>1 DEF Inv, TimersAreOfTheActivation
<1>11. NoneOutlivesItsRetirement'
  BY <1>1 DEF NoneOutlivesItsRetirement
<1> QED BY <1>6, <1>7, <1>8, <1>9, <1>10, <1>11 DEF Inv

\* The retirement cancels and times what is registered; every ramp-down mode.
LEMMA RetireKeepsIt == ASSUME Inv, Retire PROVE Inv'
<1> USE DEF Never
<1>1. /\ UNCHANGED <<mode, now, cancelled, at, desired, spawned, result, vu, failed, undesired>>
      /\ super = "retire" /\ super' = "sleep"
  BY DEF Retire
<1>2. /\ slab' \in [Vus -> {"none", "live", "cancelled"}]
      /\ \A i \in Vus : /\ slab'[i] = "none" <=> slab[i] = "none"
                        /\ slab'[i] = "live" => slab[i] = "live"
  BY DEF Retire, RetireNow, RetireExpired, Registered, Inv, TypeOK
<1>3. /\ retireSince' \in [Vus -> 0..Duration \cup {Never}]
      /\ timed' \in [Vus -> BOOLEAN]
      /\ mode # "capped" => retireSince' = retireSince /\ timed' = timed
      /\ mode = "capped" => /\ RetireExpired
                            /\ \A i \in Vus : retireSince'[i] = Timer(i)
  BY DEF Retire, RetireNow, RetireExpired, Timer, Inv, TypeOK
<1>4. TypeOK'
  BY <1>1, <1>2, <1>3 DEF Inv, TypeOK
<1>5. FailuresAreCounted' /\ CountsAreTrue'
  BY <1>1, <1>2 DEF Inv, FailuresAreCounted, CountsAreTrue, Registered, Failed
<1>6. \A i \in Vus : i \in Int /\ desired \in Int
  BY VuCurveAssumption DEF Vus, Inv, TypeOK
<1>7. TimersAreTrue'
  <2>1. CASE mode # "capped"
    BY <1>1, <1>3, <2>1 DEF Inv, TimersAreTrue, Retired
  <2>2. CASE mode = "capped"
    <3> SUFFICES ASSUME NEW i \in Vus
                 PROVE  /\ Retired(i) /\ Timer(i) # Never => undesired[i] <= Timer(i)
                        /\ ~Retired(i) => Timer(i) = Never
      BY <1>1, <1>3, <2>2 DEF Inv, TimersAreTrue, Retired
    <3>1. Retired(i) => undesired[i] <= at /\ (retireSince[i] # Never => undesired[i] <= retireSince[i])
      BY VuCurveAssumption DEF Inv, TypeOK, TimersAreTrue
    <3> QED BY <3>1 DEF Timer
  <2> QED BY <2>1, <2>2
<1>8. TimersAreOfTheActivation'
  <2>1. CASE mode # "capped"
    BY <1>1, <1>3, <2>1 DEF Inv, TimersAreTrue, TimersAreOfTheActivation
  <2>2. CASE mode = "capped"
    <3> SUFFICES ASSUME NEW i \in Vus, Retired(i), Timer(i) # Never
                 PROVE  vu[i] # "woken" /\ (slab'[i] = "live" => timed'[i])
      BY <1>1, <1>3, <2>2 DEF TimersAreOfTheActivation, Retired
    <3>1. timed'[i] = (timed[i] \/ (retireSince[i] = Never /\ Timer(i) # Never))
      BY <1>3, <2>2 DEF RetireExpired
    <3>2. retireSince[i] # Never => vu[i] # "woken" /\ (slab[i] = "live" => timed[i])
      BY DEF Inv, TimersAreOfTheActivation
    <3>3. Registered(i) <=> vu[i] \in Running
      BY DEF Inv, CountsAreTrue
    <3>4. vu[i] # "woken"
      BY <3>2, <3>3 DEF Timer, Running
    <3> QED BY <1>2, <3>1, <3>2, <3>4
  <2> QED BY <2>1, <2>2
<1>9. NoneOutlivesItsRetirement'
  <2> SUFFICES ASSUME mode = "immediate", NEW i \in Vus, Retired(i), vu[i] \in {"iterate", "pace"}
               PROVE  slab'[i] = "cancelled"
    BY <1>1 DEF NoneOutlivesItsRetirement, Retired
  <2>1. Registered(i)
    BY DEF Inv, CountsAreTrue, Running
  <2> QED BY <2>1 DEF Retire, RetireNow
<1> QED BY <1>4, <1>5, <1>7, <1>8, <1>9 DEF Inv

----------------------------------------------------------------------------
LEMMA StepKeepsIt == Inv /\ [Next]_vars => Inv'
<1> SUFFICES ASSUME Inv, [Next]_vars PROVE Inv'
  OBVIOUS
<1>1. CASE Next
  BY <1>1, VuKeepsIt, TurnKeepsIt, AdjustKeepsIt, RetireKeepsIt DEF Next, Supervisor
<1>2. CASE UNCHANGED vars
  BY <1>2 DEF vars, superVars, vuVars, Inv, TypeOK, FailuresAreCounted, Failed, CountsAreTrue,
     Registered, TimersAreTrue, TimersAreOfTheActivation, NoneOutlivesItsRetirement, Retired
<1> QED BY <1>1, <1>2

LEMMA InvHolds == Spec => []Inv
<1> QED BY InitKeepsIt, StepKeepsIt, PTL DEF Spec

\* The types of the supervisor's and the VUs' state (run_scenario_vu_curve and
\* run_vu_curve), for any curve: desired counts, spawned VUs, slab and timers.
THEOREM CurveTypes == Spec => []TypeOK
<1>1. Inv => TypeOK
  BY DEF Inv
<1> QED BY <1>1, InvHolds, PTL

\* However many VUs there are and however the curve moves, once the supervisor
\* of an immediate ramp-down has been round no VU above the curve is at work
\* under a live token: the token it cancels in the slab, or the curve the VU
\* reads again after it registered, reaches it.
THEOREM RetirementReachesEveryVu == Spec => []NoneOutlivesItsRetirement
<1>1. Inv => NoneOutlivesItsRetirement
  BY DEF Inv
<1> QED BY <1>1, InvHolds, PTL

\* The slab counts exactly the VUs at work, and run_scenario_vu_curve returns
\* AllVusFailed exactly when all the VUs it spawned died and nobody aborted.
THEOREM CountsHold == Spec => []CountsAreTrue
<1>1. Inv => CountsAreTrue
  BY DEF Inv
<1> QED BY <1>1, InvHolds, PTL

\* retire_expired cancels an activation only when the VU has been above the
\* curve for graceful_ramp_down, by a timer started in that activation.
THEOREM CapHolds == Spec => CapIsGranted
<1>1. ASSUME Inv, [Next]_vars,
             NEW i \in Vus, mode = "capped", slab[i] = "live", slab'[i] = "cancelled"
      PROVE  timed[i] /\ undesired[i] # Never /\ at - undesired[i] >= Cap
  <2>1. ASSUME NEW j \in Vus, Vu(j)
        PROVE  slab'[i] # "cancelled"
    <3>1. Contract(j)
      BY <1>1, <2>1, VuKeepsTheContract DEF Inv
    <3>2. slab'[i] \in {"none", "live", slab[i]}
      BY <1>1, <3>1 DEF Contract, Inv, TypeOK
    <3> QED BY <1>1, <3>2
  <2>2. Retire
    BY <1>1, <2>1 DEF Next, Supervisor, StopLoop, Adjust, Wake, Join, CancelRun, ClockTicks,
       vars, vuVars
  <2>3. Retired(i) /\ GraceOver(i)
    BY <1>1, <2>2 DEF Retire, RetireExpired, Inv, TypeOK
  <2>4. timed[i]
    BY <1>1, <2>3 DEF Inv, TimersAreOfTheActivation, GraceOver
  <2>5. undesired[i] \in 0..at /\ undesired[i] <= retireSince[i]
    BY <1>1, <2>3 DEF Inv, TimersAreTrue, GraceOver
  <2>6. retireSince[i] \in 0..Duration /\ at \in 0..Duration /\ Cap \in Nat
    BY <1>1, <2>3, VuCurveAssumption DEF Inv, TypeOK, GraceOver
  <2> QED BY <2>3, <2>4, <2>5, <2>6, VuCurveAssumption DEF GraceOver, Never
<1>2. Inv /\ [Next]_vars =>
        [\A i \in Vus : mode = "capped" /\ slab[i] = "live" /\ slab'[i] = "cancelled" =>
            timed[i] /\ undesired[i] # Never /\ at - undesired[i] >= Cap]_vars
  BY <1>1
<1> QED BY <1>2, InvHolds, PTL DEF Spec, CapIsGranted
=============================================================================
