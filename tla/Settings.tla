------------------------------ MODULE Settings ------------------------------
(***************************************************************************)
(* The pair of operator settings that the heartbeat reaper of the LAN pool *)
(* lives by, the ping interval and the stale timeout, on their way from    *)
(* the REST API to the reaper.  A PUT or DELETE checks its value against   *)
(* the snapshot in memory, writes the table, and then the snapshot; the    *)
(* reaper reads the two values one after the other.  A restart builds the  *)
(* snapshot from the table and the command line.                           *)
(*                                                                         *)
(* The other settings go the same way, but no rule ties them together.     *)
(* Rows of the table are in range: nobody else writes it.                  *)
(***************************************************************************)
EXTENDS Integers

CONSTANTS
    Requests,    \* requests under way at one time
    Intervals,   \* min to max of pool_heartbeat_interval_seconds
    Timeouts,    \* min to max of pool_stale_timeout_seconds
    Seeds,       \* the pairs a command line may give
    MaxEdits, MaxStarts

Admissible ==
    /\ Intervals \subseteq Nat /\ Timeouts \subseteq Nat
    /\ Seeds \subseteq [interval : Nat, stale : Nat]

Keys   == {"interval", "stale"}
Values == [interval |-> Intervals, stale |-> Timeouts]

None == -1   \* no row; in a request, to delete it

VARIABLES
    seed,      \* SettingsState.seeds
    table,     \* the table's rows
    snap,      \* SettingsState.snap
    request,   \* where each request is, and what it wants
    reaper,    \* the reaper's loop and its locals
    edits, starts,
    \* History, which nothing in the code keeps:
    crossed,   \* since the start, requests for the two keys were under way at once
    changes    \* of the snapshot since the reaper read the interval

vars == <<seed, table, snap, request, reaper, edits, starts, crossed, changes>>

check_heartbeat_pair(pair) == pair.stale > pair.interval

\* main.rs, of the command line; SettingsState::build does the same of the
\* pair that is in effect.
Clamped(pair) ==
    IF check_heartbeat_pair(pair) THEN pair ELSE [pair EXCEPT !.stale = pair.interval + 1]

\* Mutant of build: the pair in effect is not looked at again.
BuildUnclamped(rows, seeds) ==
    [key \in Keys |-> IF rows[key] = None THEN seeds[key] ELSE rows[key]]

build(rows, seeds) ==
    Clamped([key \in Keys |-> IF rows[key] = None THEN seeds[key] ELSE rows[key]])

Idle == [at |-> "idle", key |-> "interval", value |-> None]

\* What the request makes of its setting.
Wanted(r) == IF request[r].value = None THEN seed[request[r].key] ELSE request[r].value

UnderWay(r) == request[r].at # "idle"

Asleep == [at |-> "interval", interval |-> 0, stale |-> 0]

----------------------------------------------------------------------------
\* Mutant of Accepts: a deletion is not checked.
AcceptsAnyRevert(key, value) ==
    value = None \/ check_heartbeat_pair([snap EXCEPT ![key] = value])

Accepts(key, value) ==
    check_heartbeat_pair([snap EXCEPT ![key] = IF value = None THEN seed[key] ELSE value])

\* put and delete, up to the write; a request that is refused changes nothing.
Check(r) ==
    /\ ~UnderWay(r) /\ edits < MaxEdits
    /\ \E key \in Keys : \E value \in Values[key] \cup {None} :
         /\ Accepts(key, value)
         /\ request' = [request EXCEPT ![r] = [at |-> "checked", key |-> key, value |-> value]]
         /\ crossed' = (crossed \/ \E q \in Requests : UnderWay(q) /\ request[q].key # key)
    /\ edits' = edits + 1
    /\ UNCHANGED <<seed, table, snap, reaper, starts, changes>>

\* settings_store::upsert and delete.
Store(r) ==
    /\ request[r].at = "checked"
    /\ table' = [table EXCEPT ![request[r].key] = request[r].value]
    /\ request' = [request EXCEPT ![r].at = "stored"]
    /\ UNCHANGED <<seed, snap, reaper, edits, starts, crossed, changes>>

\* apply_override and revert.
Apply(r) ==
    /\ request[r].at = "stored"
    /\ snap' = [snap EXCEPT ![request[r].key] = Wanted(r)]
    /\ request' = [request EXCEPT ![r] = Idle]
    /\ changes' = IF reaper.at = "stale" /\ changes < 2 THEN changes + 1 ELSE changes
    /\ UNCHANGED <<seed, table, reaper, edits, starts, crossed>>

\* The write fails, or the client leaves and its handler is dropped, even
\* between the write and its application.
Drop(r) ==
    /\ UnderWay(r)
    /\ request' = [request EXCEPT ![r] = Idle]
    /\ UNCHANGED <<seed, table, snap, reaper, edits, starts, crossed, changes>>

ReadInterval ==
    /\ reaper.at = "interval"
    /\ reaper' = [reaper EXCEPT !.at = "stale", !.interval = snap.interval]
    /\ changes' = 0
    /\ UNCHANGED <<seed, table, snap, request, edits, starts, crossed>>

\* Mutant of ReadStale: the timeout is read after the sleep.
ReadStaleLate ==
    /\ reaper.at \in {"stale", "sleep"}
    /\ reaper' = [reaper EXCEPT !.at = "sleep", !.stale = snap.stale]
    /\ UNCHANGED <<seed, table, snap, request, edits, starts, crossed, changes>>

ReadStale ==
    /\ reaper.at = "stale"
    /\ reaper' = [reaper EXCEPT !.at = "sleep", !.stale = snap.stale]
    /\ UNCHANGED <<seed, table, snap, request, edits, starts, crossed, changes>>

\* The reaper sleeps for the interval, sweeps by the timeout, and begins anew.
Sweep ==
    /\ reaper.at = "sleep"
    /\ reaper' = Asleep
    /\ UNCHANGED <<seed, table, snap, request, edits, starts, crossed, changes>>

\* The controller stops at any time and starts, perhaps with other arguments.
Restart ==
    /\ starts < MaxStarts
    /\ starts' = starts + 1
    /\ \E pair \in Seeds :
         /\ seed' = Clamped(pair)
         /\ snap' = build(table, seed')
    /\ request' = [r \in Requests |-> Idle]
    /\ reaper' = Asleep
    /\ crossed' = FALSE /\ changes' = 0
    /\ UNCHANGED <<table, edits>>

Init ==
    /\ \E pair \in Seeds : seed = Clamped(pair)
    /\ table = [key \in Keys |-> None]
    /\ snap = build(table, seed)
    /\ request = [r \in Requests |-> Idle]
    /\ reaper = Asleep
    /\ edits = 0 /\ starts = 0 /\ crossed = FALSE /\ changes = 0

Next ==
    \/ \E r \in Requests : Check(r) \/ Store(r) \/ Apply(r) \/ Drop(r)
    \/ ReadInterval \/ ReadStale \/ Sweep \/ Restart

Spec == Init /\ [][Next]_vars

----------------------------------------------------------------------------
TypeOK ==
    /\ seed \in [interval : Nat, stale : Nat]
    /\ table \in [interval : Intervals \cup {None}, stale : Timeouts \cup {None}]
    /\ snap \in [interval : Nat, stale : Nat]
    /\ request \in [Requests -> [at : {"idle", "checked", "stored"}, key : Keys,
                                 value : Nat \cup {None}]]
    /\ reaper \in [at : {"interval", "stale", "sleep"}, interval : Nat, stale : Nat]
    /\ crossed \in BOOLEAN /\ changes \in 0..2

\* "The stale timeout must be greater than the ping interval" (settings.rs),
\* whatever rows and arguments the controller starts with and whatever is
\* edited and dropped, as long as requests for the two keys do not cross.
SerialEditsKeepThePair == crossed \/ check_heartbeat_pair(snap)

\* A sweep that would take workers that answer every ping for stale, because
\* the interval it slept was not shorter than the timeout it goes by, follows
\* such a crossing, or two changes between its two reads.
SweepsSpareTheHealthy ==
    reaper.at = "sleep" => crossed \/ changes = 2 \/ reaper.stale > reaper.interval

\* The rule of the pair where it counts: in the snapshot, and in each sweep.
HeartbeatPairHolds == SerialEditsKeepThePair /\ SweepsSpareTheHealthy
=============================================================================
