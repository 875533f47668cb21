---------------------------- MODULE MCRequests ----------------------------
(***************************************************************************)
(* What the requests of the REST API do, in one state space.  A launch:    *)
(* the workers it takes from the pool (MCWorkerPool), the shards it gives  *)
(* them (Sharding) and the profile it gives them (LoadProfile).  An edit   *)
(* of the heartbeat's settings (Settings).  What reads and then writes the *)
(* catalogue (Catalog).  They share no state, so each behaviour moves one  *)
(* of them, the part, and leaves the others where they begin.              *)
(***************************************************************************)
EXTENDS MCWorkerPool, Shards

CONSTANTS MaxWorkers, MaxCap,
          Profiles, StartupFloor, Margin, BackstopGrace, FlushDelay,
          MaxOpenLoopWorkers, WorkerCapacity, MaxPool,
          Requests, Intervals, Timeouts, Seeds, MaxEdits, MaxStarts,
          Clients, Asks, Worlds, Files,
          scn, env1, env2, env3, brd1, brd2,   \* ids and
          oldText, newText                           \* texts of the catalogue

VARIABLES part, caps, load, plan, limits, shards,
          profile, answer, grace, backstop, plans,
          seed, table, snap, edit, reaper, edits, starts, crossed, changes,
          db, commits, lock, file, request

Shard  == INSTANCE ShardingProofs
Posted == INSTANCE LoadProfile
Pair   == INSTANCE Settings WITH request <- edit
Rows   == INSTANCE Catalog

ASSUME ShardingAssumption == Shard!Admissible
ASSUME ProfileAssumption  == Posted!Admissible
ASSUME SettingsAssumption == Pair!Admissible
ASSUME CatalogAssumption  == Rows!Admissible

\* LoadProfile's None.
None == -1   \* an Option that is not set
Stage(t, s) == [target |-> t, seconds |-> s]

\* No stage, an idle lead, a slow and a steep ramp, a stage without length,
\* a curve without load.
MCStages == {<<>>, <<Stage(0, 40), Stage(1, 30)>>, <<Stage(3, 1200), Stage(5, 5)>>,
             <<Stage(4, 300)>>, <<Stage(2, 0)>>, <<Stage(0, 9)>>}

\* Every combination of these, of which validation refuses most.
MCProfiles ==
    [vus : {0, 3}, ramp : {0, 200}, duration : {0, 300}, rps : {None, 0, 2, 5},
     inFlight : {None, 0, 3}, stages : MCStages, vuStages : MCStages,
     workers : {None, 0, 1, 3}, timeout : {0, 30, 100, 601},
     rampDown : BOOLEAN, think : BOOLEAN]

\* The profile of the behaviours that post none.
OneProfile ==
    [vus |-> 3, ramp |-> 0, duration |-> 300, rps |-> None, inFlight |-> None,
     stages |-> <<>>, vuStages |-> <<>>, workers |-> None, timeout |-> 30,
     rampDown |-> FALSE, think |-> FALSE]

\* A closed loop that spawns one VU a second.
SlowRamps == {[OneProfile EXCEPT !.vus = n, !.ramp = n] : n \in {50, 200}}

\* One client each for two edits, a launch in the midst of a deletion, names
\* that are taken under an import, a scenario that goes and comes again.
MCAsks == <<{"edit", "delete", "import"}, {"edit", "launch", "rename", "delete"},
            {"preset", "schedule", "import"}>>

\* A pair in order, and one the start must clamp.
MCSeeds == {[interval |-> 1, stale |-> 3], [interval |-> 3, stale |-> 2]}

Nothing  == [id \in {} |-> 0]   \* Catalog's NoRows
Scenario == scn :> [version |-> 1, text |-> oldText]
Ref(kind, active) ==
    [by |-> 0, scenario |-> scn, active |-> active, kind |-> kind, since |-> 0]

World(scenarios, environments, boards, refs) ==
    [scenarios |-> scenarios, environments |-> environments, boards |-> boards, refs |-> refs]

\* A scenario with nothing, a schedule, a run under way; none.  The file's
\* names are free, taken by others, or by what it has itself.
MCWorlds ==
    {World(Scenario, Nothing, Nothing, {}),
     World(Scenario, env3 :> [name |-> <<>>, vars |-> oldText], brd2 :> [name |-> <<>>],
           {Ref("schedule", FALSE)}),
     World(Scenario, env1 :> [name |-> <<>>, vars |-> newText], Nothing, {Ref("run", TRUE)}),
     World(Nothing, env1 :> [name |-> <<2>>, vars |-> oldText], Nothing, {})}

\* One board, the scenario, two environments of one name.
MCFiles ==
    {[scenarios |-> scn :> [text |-> text],
      environments |-> <<[id |-> env1, name |-> <<>>, vars |-> newText],
                         [id |-> env2, name |-> <<>>, vars |-> newText]>>,
      boards |-> <<[id |-> brd1, name |-> <<>>]>>] : text \in {oldText, newText}}

shardVars   == <<caps, load, plan, limits, shards>>
postedVars  == <<profile, answer, grace, backstop, plans>>
requestVars == <<vars, shardVars, postedVars>>
pairVars    == <<seed, table, snap, edit, reaper, edits, starts, crossed, changes>>
catalogVars == <<db, commits, lock, file, request>>

\* A part that does not move begins in one state.
MCInit ==
    /\ part \in {"pool", "shards", "profile", "settings", "catalog"}
    /\ part # "profile" => profile = OneProfile
    /\ part # "settings" => seed = [interval |-> 1, stale |-> 3]
    /\ part # "catalog" =>
         /\ db = World(Scenario, Nothing, Nothing, {})
         /\ file = CHOOSE f \in Files : f.scenarios[scn].text = oldText
    /\ Init /\ Shard!Init /\ Posted!Init /\ Pair!Init /\ Rows!Init

PoolNext ==
    /\ part = "pool" /\ Next
    /\ UNCHANGED <<part, shardVars, postedVars, pairVars, catalogVars>>

ShardNext ==
    /\ part = "shards" /\ Shard!Next
    /\ UNCHANGED <<part, vars, postedVars, pairVars, catalogVars>>

PostedNext ==
    /\ part = "profile" /\ Posted!Next
    /\ UNCHANGED <<part, vars, shardVars, pairVars, catalogVars>>

SettingsNext ==
    /\ part = "settings" /\ Pair!Next
    /\ UNCHANGED <<part, requestVars, catalogVars>>

CatalogNext ==
    /\ part = "catalog" /\ Rows!Next
    /\ UNCHANGED <<part, requestVars, pairVars>>

MCNext == PoolNext \/ ShardNext \/ PostedNext \/ SettingsNext \/ CatalogNext

allVars == <<part, requestVars, pairVars, catalogVars>>

MCSpec == MCInit /\ [][MCNext]_allVars

----------------------------------------------------------------------------
\* The state of each part is of its type.
TypesOK == TypeOK /\ Shard!TypeOK /\ Posted!TypeOK /\ Pair!TypeOK /\ Rows!TypeOK

\* WorkerPool's: load that is measured stops with its run, be it completed or
\* failed, excluded, evicted or given up half way.
LoadEndsWithItsRun == CompletedRunLoadStopped /\ FailedRunLoadIsAborted

\* Sharding's: every VU id and every unique row is one worker's, within its
\* capacity.
ShardsTileTheLoad == Shard!ShardsTileTheLoad

\* LoadProfile's: the shares add up to what was posted.
LoadIsAsPosted == Posted!LoadIsAsPosted

\* LoadProfile's: the watchdog's times cover every run but those excepted.
WatchdogSparesTheRun == Posted!WatchdogSparesTheRun

\* LoadProfile's: the design's claim about every healthy run.
NoHealthyRunIsHung == Posted!NoHealthyRunIsHung

\* Settings': the timeout in effect, and the one a sweep goes by, is longer
\* than the interval, but for the crossings and changes it excepts.
HeartbeatPairHolds == Pair!HeartbeatPairHolds

\* Catalog's: a deletion takes no run under way, and unasked nothing it saw.
DeletionsAreAnnounced == Rows!DeletionsAreAnnounced

\* Catalog's: a PUT replaces the text its editor was shown.
EditsReplaceWhatWasSeen == Rows!EditsReplaceWhatWasSeen

\* Catalog's: an import is all or nothing, and changes no row there was.
ImportsAreWhole == Rows!ImportsAreWhole
=============================================================================
