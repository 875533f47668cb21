---------------------------- MODULE LoadProfile ----------------------------
(***************************************************************************)
(* A run's load profile on its way from POST /api/runs to the engines:     *)
(* validate_run_config accepts or refuses it, spawn_run works out how many *)
(* workers share it and how long the watchdog waits, assignment_for cuts   *)
(* each worker's share (reduce_pool_profile), and the worker chooses an    *)
(* engine by the share it got (worker/lib.rs).  Times are in seconds.      *)
(***************************************************************************)
EXTENDS Shards, FiniteSetsExt

CONSTANTS
    Profiles,            \* the profiles that are posted
    StartupFloor,        \* run_startup_grace_seconds
    Margin,              \* STARTUP_MARGIN
    BackstopGrace,       \* run_backstop_grace_seconds
    FlushDelay,          \* from a measurement to its MetricBatch, at most
    MaxOpenLoopWorkers,  \* max_open_loop_worker_count
    WorkerCapacity,      \* worker_capacity_vus
    MaxPool              \* bound: idle workers in the pool

VARIABLES
    profile,
    answer,    \* "posted", "refused", "accepted" or "launched"
    grace,     \* startup_grace
    backstop,  \* backstop_total
    plans      \* the workers' RunPlans

vars == <<profile, answer, grace, backstop, plans>>

None == -1   \* an Option that is not set

Opt(S) == S \cup {None}
Stages == Seq([target : Nat, seconds : Nat])

Profile ==
    [vus : Nat, ramp : Nat, duration : Nat, rps : Opt(Nat), inFlight : Opt(Nat),
     stages : Stages, vuStages : Stages, workers : Opt(Nat), timeout : Nat,
     rampDown : BOOLEAN, think : BOOLEAN]

Plan ==
    [engine : {"closed", "open", "vuCurve"}, slots : Nat, ramp : Nat,
     rps : Opt(Nat), stages : Stages, duration : Nat, timeout : Nat]

Admissible ==
    /\ Profiles \subseteq Profile
    /\ StartupFloor \in Nat /\ Margin \in Nat /\ BackstopGrace \in Nat
    /\ FlushDelay \in Nat /\ FlushDelay <= Margin  \* the margin is the metrics'
    /\ WorkerCapacity \in Nat /\ MaxPool \in Nat

TypeOK ==
    /\ profile \in Profile
    /\ answer \in {"posted", "refused", "accepted", "launched"}
    /\ grace \in Nat /\ backstop \in Nat
    /\ plans \in Seq(Plan)

Init ==
    /\ profile \in Profiles
    /\ answer = "posted"
    /\ grace = 0 /\ backstop = 0 /\ plans = <<>>

----------------------------------------------------------------------------
(***************************************************************************)
(* store/runs.rs: what kind of load a profile is.                          *)
(***************************************************************************)

is_vu_curve(p)  == p.vuStages # <<>>
is_open_loop(p) == p.rps # None \/ p.stages # <<>>

Targets(s)  == {s[i].target : i \in DOMAIN s}
Length(s)   == Sum([i \in DOMAIN s |-> s[i].seconds])
Or(o, n)    == IF o = None THEN n ELSE o
HasLoad(s)  == \E t \in Targets(s) : t > 0

concurrency_demand(p) ==
    CASE is_vu_curve(p) -> Max(Targets(p.vuStages))
      [] ~is_vu_curve(p) /\ is_open_loop(p) -> Or(p.inFlight, 1)
      [] ~is_vu_curve(p) /\ ~is_open_loop(p) -> p.vus

pool_worker_cap(p) ==
    IF is_open_loop(p) /\ ~is_vu_curve(p)
    THEN Lesser(concurrency_demand(p),
                IF p.rps # None THEN p.rps ELSE Max(Targets(p.stages)))
    ELSE concurrency_demand(p)

\* proto's run_duration_secs, of the controller's watchdog and the engine.
run_duration_secs(p) ==
    CASE is_vu_curve(p) -> Length(p.vuStages)
      [] ~is_vu_curve(p) /\ p.stages = <<>> -> p.duration
      [] ~is_vu_curve(p) /\ p.stages # <<>> -> Length(p.stages)

----------------------------------------------------------------------------
(***************************************************************************)
(* validate_run_config.                                                    *)
(***************************************************************************)

CommonRules(p) ==
    /\ p.rampDown => is_vu_curve(p)
    /\ p.workers # None =>
        /\ p.workers \in 1..MaxOpenLoopWorkers
        /\ p.workers > 1 => is_open_loop(p)
    /\ p.timeout \in 1..600

VuCurveRules(p) ==
    /\ p.rps = None /\ p.inFlight = None /\ p.stages = <<>>
    /\ p.ramp = 0 /\ p.duration = 0 /\ p.vus = 0
    /\ \A i \in DOMAIN p.vuStages : p.vuStages[i].seconds > 0
    /\ HasLoad(p.vuStages)

MaxRate == 1000000  \* requests per second

\* Mutant of FanOutRules: a fixed rate may be smaller than the workers.
FanOutRulesSlotsOnly(p) == p.workers > 1 => p.inFlight >= p.workers

\* At least one slot and, of a fixed rate, one arrival a second for each.
FanOutRules(p) ==
    p.workers > 1 =>
        /\ p.inFlight >= p.workers
        /\ p.stages = <<>> => p.rps >= p.workers

OpenLoopRules(p) ==
    /\ p.inFlight \in 1..10000
    /\ p.ramp = 0 /\ ~p.think /\ p.vus = 0
    /\ IF p.stages # <<>>
       THEN /\ p.rps = None /\ p.duration = 0
            /\ \A i \in DOMAIN p.stages : p.stages[i].seconds > 0
            /\ HasLoad(p.stages)
       ELSE p.rps \in 1..MaxRate /\ p.duration > 0
    /\ FanOutRules(p)

ClosedRules(p) == p.vus > 0 /\ p.duration > 0

Valid(p) ==
    /\ CommonRules(p)
    /\ CASE is_vu_curve(p) -> VuCurveRules(p)
         [] ~is_vu_curve(p) /\ is_open_loop(p) -> OpenLoopRules(p)
         [] ~is_vu_curve(p) /\ ~is_open_loop(p) -> ClosedRules(p)

Validate ==
    /\ answer = "posted"
    /\ answer' = IF Valid(profile) THEN "accepted" ELSE "refused"
    /\ UNCHANGED <<profile, grace, backstop, plans>>

----------------------------------------------------------------------------
(***************************************************************************)
(* spawn_run: the watchdog's times.                                        *)
(***************************************************************************)

\* Leading stages without load.
Leading(s) == IF HasLoad(s) THEN Min({i \in DOMAIN s : s[i].target > 0}) - 1 ELSE Len(s)

leading_idle_secs(p) ==
    LET s == IF is_vu_curve(p) THEN p.vuStages ELSE p.stages
    IN  Length(SubSeq(s, 1, Leading(s)))

\* The smallest k with k >= sqrt(m / n), of the first bound numbers.
CeilSqrt(m, n, bound) == Min({k \in 0..bound : k * k * n >= m} \cup {bound})

\* Mutant of curve_first_arrival_secs: the workers are forgotten.
FirstArrivalOfOne(p, n) ==
    IF is_vu_curve(p) \/ ~HasLoad(p.stages) THEN 0
    ELSE LET s == p.stages[Leading(p.stages) + 1]
         IN  CeilSqrt(s.seconds, s.target, s.seconds)

curve_first_arrival_secs(p, n) ==
    IF is_vu_curve(p) \/ ~HasLoad(p.stages) THEN 0
    ELSE LET s == p.stages[Leading(p.stages) + 1]
         IN  CeilSqrt(n * s.seconds, s.target, s.seconds)

startup_grace_eff(p, n) ==
    Greater(StartupFloor, p.timeout + Margin)
        + leading_idle_secs(p) + curve_first_arrival_secs(p, n)

fanout_worker_count(p) ==
    IF is_open_loop(p) /\ ~is_vu_curve(p) THEN Or(p.workers, 1)
    ELSE worker_count(concurrency_demand(p), WorkerCapacity)

----------------------------------------------------------------------------
(***************************************************************************)
(* The shares, and the engines the workers choose.                         *)
(***************************************************************************)

ShareOfStages(s, counts, weighted, i) ==
    [j \in DOMAIN s |->
        [s[j] EXCEPT !.target = Shares("curve", s[j].target, counts, weighted)[i]]]

\* proto_is_vu_curve before proto_is_open_loop; to_run_plan.
PlanOf(p, counts, weighted, i) ==
    [engine   |-> CASE is_vu_curve(p) -> "vuCurve"
                    [] ~is_vu_curve(p) /\ is_open_loop(p) -> "open"
                    [] ~is_vu_curve(p) /\ ~is_open_loop(p) -> "closed",
     slots    |-> counts[i],
     ramp     |-> p.ramp,
     rps      |-> IF p.rps = None THEN None
                  ELSE Shares("fixed", p.rps, counts, weighted)[i],
     stages   |-> ShareOfStages(p.vuStages \o p.stages, counts, weighted, i),
     duration |-> run_duration_secs(p),
     timeout  |-> p.timeout]

Launches(counts, weighted, n) ==
    /\ answer = "accepted"
    /\ answer' = "launched"
    /\ grace' = startup_grace_eff(profile, n)
    /\ backstop' = run_duration_secs(profile) + BackstopGrace
    /\ plans' = [i \in DOMAIN counts |-> PlanOf(profile, counts, weighted, i)]
    /\ UNCHANGED profile

FanOut ==
    LET n == fanout_worker_count(profile)
    IN  Launches(EvenCounts(concurrency_demand(profile), n), FALSE, n)

\* Every division of the slots that capacities may lead to.
Divisions(total, n) ==
    {c \in [1..n -> 1..total] : Sum(c) = total}

PoolLaunch ==
    \E n \in 1..MaxPool :
        /\ n <= pool_worker_cap(profile)
        /\ \/ \E counts \in Divisions(concurrency_demand(profile), n) :
                Launches(counts, TRUE, pool_worker_cap(profile))
           \/ Launches(EvenCounts(concurrency_demand(profile), n), FALSE,
                       pool_worker_cap(profile))

Next == Validate \/ (answer = "accepted" /\ (FanOut \/ PoolLaunch))

Spec == Init /\ [][Next]_vars

----------------------------------------------------------------------------
(***************************************************************************)
(* When the engines show load, at the latest: a request that is not        *)
(* answered is measured when it times out.                                 *)
(***************************************************************************)

\* run_scenario spawns per_tick VUs a second, and the flusher after the last.
LastSpawn(plan) ==
    LET perTick == IF plan.ramp = 0 THEN plan.slots
                   ELSE (plan.slots + plan.ramp - 1) \div plan.ramp
    IN  (plan.slots + perTick - 1) \div perTick - 1

\* ArrivalSchedule: a ramp from 0 to s over D seconds has its first arrival,
\* of half a unit of load, at sqrt(D / s).
FirstArrival(s) ==
    Length(SubSeq(s, 1, Leading(s)))
        + LET first == s[Leading(s) + 1]
          IN  CeilSqrt(first.seconds, first.target, first.seconds)

\* A worker without any share of the load shows none.
ShowsLoad(plan) == plan.engine = "open" /\ plan.rps = None => HasLoad(plan.stages)

FirstLoad(plan) ==
    FlushDelay +
        CASE plan.engine = "vuCurve" -> 0
          [] plan.engine = "closed" -> Greater(LastSpawn(plan), plan.timeout)
          [] plan.engine = "open" /\ plan.rps # None -> plan.timeout
          [] plan.engine = "open" /\ plan.rps = None ->
                FirstArrival(plan.stages) + plan.timeout

\* The last request is sent before the deadline, or as the ramp ends.
EngineEnd(plan) ==
    plan.timeout + IF plan.engine = "closed" THEN Greater(LastSpawn(plan), plan.duration)
                   ELSE plan.duration

LoadInTime == \E i \in DOMAIN plans : ShowsLoad(plans[i]) /\ FirstLoad(plans[i]) <= grace

(***************************************************************************)
(* The watchdog fails no run whose workers do as they are told: one of     *)
(* them shows load within the startup grace, with the curve cut among any  *)
(* number of workers in any way, idle stages first or requests that all    *)
(* time out; and all end within the backstop.  Two kinds of profile are    *)
(* left out: a ramp that the grace does not cover (see NoHealthyRunIsHung) *)
(* or that outlasts the run, and a timeout longer than the backstop's.     *)
(***************************************************************************)
WatchdogSparesTheRun ==
    answer = "launched" =>
        /\ profile.ramp + FlushDelay <= StartupFloor => LoadInTime
        /\ profile.ramp <= profile.duration /\ profile.timeout <= BackstopGrace =>
            \A i \in DOMAIN plans : EngineEnd(plans[i]) <= backstop

(***************************************************************************)
(* What was posted is what runs: the workers' shares of every stage and of *)
(* a fixed rate add up to the posted one although the open-loop engine     *)
(* raises a rate of 0 to 1, everyone has a slot, no worker of a VU curve   *)
(* is asked for more VUs than its slots.                                   *)
(***************************************************************************)
LoadIsAsPosted ==
    answer = "launched" =>
        /\ \A i \in DOMAIN plans : plans[i].slots > 0
        /\ Sum([i \in DOMAIN plans |-> plans[i].slots]) = concurrency_demand(profile)
        /\ profile.rps # None =>
            Sum([i \in DOMAIN plans |-> AtLeastOne(plans[i].rps)]) = profile.rps
        /\ LET s == profile.vuStages \o profile.stages
           IN  \A j \in DOMAIN s :
                /\ Sum([i \in DOMAIN plans |-> plans[i].stages[j].target]) = s[j].target
                /\ \A i \in DOMAIN plans : plans[i].engine = "vuCurve" =>
                    plans[i].stages[j].target <= plans[i].slots

(***************************************************************************)
(* The design of the watchdog says of every healthy run that its first     *)
(* metric comes before the startup grace is over.                          *)
(***************************************************************************)
NoHealthyRunIsHung == answer = "launched" => LoadInTime
=============================================================================
