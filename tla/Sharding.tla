----------------------------- MODULE Sharding -----------------------------
(***************************************************************************)
(* How a run's load is divided among its workers: grpc/shard.rs, and the   *)
(* three places that use it, the capacity-aware pool launch, the forced    *)
(* pool launch and the dispatcher's fan-out.  A shard is the VU range      *)
(* (offset, count) of a worker and its slice of a unique dataset; the      *)
(* shares of rates and stages are LoadProfile's.                           *)
(***************************************************************************)
EXTENDS Shards

CONSTANTS
    MaxWorkers,  \* bound: idle workers in the pool, 1 or more
    MaxCap       \* bound: a worker's advertised capacity, at most MaxU32

\* A capacity is a number of the width of all others.
Admissible == MaxWorkers \in Nat /\ MaxCap \in 0..MaxU32

----------------------------------------------------------------------------
(***************************************************************************)
(* A validated profile: its mode; its slots, the concurrency_demand (vus,  *)
(* max_in_flight or the VU curve's peak); its peak rate, 0 in the closed   *)
(* modes; and the rows of a unique dataset.  Closed loads stand for all of *)
(* them in the matter of the dataset.                                      *)
(***************************************************************************)
U32 == 0..MaxU32

Loads ==
    [kind : {"closed"}, slots : U32 \ {0}, peak : {0}, rows : U32 \ {0}]
    \cup [kind : {"fixed", "curve"}, slots : U32 \ {0}, peak : U32 \ {0}, rows : {0}]
    \cup [kind : {"vuCurve"}, slots : U32 \ {0}, peak : {0}, rows : {0}]

\* No load yet.
NoLoad == [kind |-> "none", slots |-> 0, peak |-> 0, rows |-> 0]

\* The open-loop bound keeps a fixed rate at one request per second or more
\* for each worker.
pool_worker_cap(load) ==
    IF load.kind \in {"fixed", "curve"} THEN Lesser(load.slots, load.peak) ELSE load.slots

\* What assignment_for gives each worker.
ShardsOf(load, counts, offsets) ==
    LET n == Len(counts) IN
    [i \in 1..n |->
       [offset |-> offsets[i], count |-> counts[i],
        rowOffset |-> ShardOffset(load.rows, n, i - 1),
        rows      |-> ShardCount(load.rows, n, i - 1)]]

----------------------------------------------------------------------------
VARIABLES
    caps,     \* effective capacities of the idle workers, in worker-id order
    load,     \* the load that was launched
    plan,     \* "none", the launch path, or "refused"
    limits,   \* the capacities of the workers of the run
    shards    \* what each of them is given

vars == <<caps, load, plan, limits, shards>>

Init ==
    /\ caps = <<>>
    /\ load = NoLoad
    /\ plan = "none"
    /\ limits = <<>>
    /\ shards = <<>>

\* Another worker is idle in the pool.
RegisterIdle(cap) ==
    /\ plan = "none"
    /\ Len(caps) < MaxWorkers
    /\ caps' = Append(caps, cap)
    /\ UNCHANGED <<load, plan, limits, shards>>

Launches(l, path, workers, given) ==
    /\ plan = "none"
    /\ load' = l
    /\ plan' = path
    /\ limits' = workers
    /\ shards' = given
    /\ UNCHANGED caps

Even(l, n) ==
    ShardsOf(l, EvenCounts(l.slots, n), [i \in 1..n |-> ShardOffset(l.slots, n, i - 1)])

\* A unique dataset has fewer rows than there are workers: the launch is
\* rejected in validation, or by pool_unique_floor_violation.
UniqueFloor(l, n) == l.kind = "closed" => l.rows >= n

\* reserve_idle_pool_capacity, the run's counts, and assignment_for.
CapacityLaunch(l) ==
    LET n      == Lesser(Len(caps), pool_worker_cap(l))
        chosen == SubSeq(caps, 1, n)
        counts == capacity_split(l.slots, chosen)
    IN  /\ caps # <<>>
        /\ UniqueFloor(l, n)
        /\ IF achievable_capacity(chosen) < l.slots
             THEN Launches(l, "refused", chosen, <<>>)
             ELSE Launches(l, "capacity", chosen,
                           ShardsOf(l, counts,
                                    [i \in 1..n |-> Sum([j \in 1..(i - 1) |-> counts[j]])]))

\* The launch with ?force: even, whatever the capacities.
ForcedLaunch(l) ==
    LET n == Lesser(Len(caps), pool_worker_cap(l)) IN
    /\ caps # <<>>
    /\ UniqueFloor(l, n)
    /\ Launches(l, "forced", SubSeq(caps, 1, n), Even(l, n))

\* fanout_worker_count: the controller's capacity setting decides for closed
\* loads, the profile's worker_count (validation rules 3 and 4) for open ones.
\* A controller with a dispatcher has no pool.
FanOut(l, capacity) ==
    \E n \in 1..MaxU32 :
        /\ caps = <<>>
        /\ IF l.kind \in {"closed", "vuCurve"}
             THEN n = worker_count(l.slots, capacity)
             ELSE n <= l.slots /\ (l.kind = "fixed" => n <= l.peak)
        /\ UniqueFloor(l, n)
        /\ Launches(l, "fanout", [i \in 1..n |-> capacity], Even(l, n))

Next ==
    \/ \E cap \in 0..MaxCap : RegisterIdle(cap)
    \/ \E l \in Loads : CapacityLaunch(l)
    \/ \E l \in Loads : ForcedLaunch(l)
    \/ \E l \in Loads, capacity \in 0..MaxCap : FanOut(l, capacity)

Spec == Init /\ [][Next]_vars

----------------------------------------------------------------------------
(***************************************************************************)
(* Properties.                                                             *)
(***************************************************************************)

\* No number of a shard leaves the u32 range: neither below 0, where the
\* subtractions of capacity_split would panic or wrap, nor above.
TypeOK ==
    /\ caps \in Seq(0..MaxCap) /\ Len(caps) <= MaxWorkers
    /\ load \in Loads \cup {NoLoad}
    /\ plan \in {"none", "refused", "capacity", "forced", "fanout"}
    /\ limits \in Seq(0..MaxCap)
    /\ shards \in Seq([offset : U32, count : U32, rowOffset : U32, rows : U32])

ShardHolders == DOMAIN shards
Planned == plan \in {"capacity", "forced", "fanout"}

\* Consecutive ranges: they start at 0, each at the end of the one before,
\* the last ends at the total, and none is empty.
Tile(offset, count, total) ==
    /\ \A i \in ShardHolders :
         /\ count[i] > 0
         /\ offset[i] = IF i = 1 THEN 0 ELSE offset[i - 1] + count[i - 1]
    /\ offset[Len(shards)] + count[Len(shards)] = total

\* A capacity-aware launch gives no worker more than it advertised, and is
\* refused exactly when the workers together fall short.  Of the fan-out's
\* workers none has more than the setting.
WithinCapacity ==
    /\ plan = "capacity" \/ (plan = "fanout" /\ load.kind \in {"closed", "vuCurve"}) =>
         \A i \in ShardHolders : shards[i].count <= AtLeastOne(limits[i])
    /\ plan = "capacity" =>
         Sum([i \in DOMAIN limits |-> AtLeastOne(limits[i])]) >= load.slots
    /\ plan = "refused" =>
         Sum([i \in DOMAIN limits |-> AtLeastOne(limits[i])]) < load.slots

\* On all three paths every VU id, and every row of a unique dataset, is
\* some worker's and nobody else's, every worker has some, and none has more
\* than it can take.
ShardsTileTheLoad ==
    /\ WithinCapacity
    /\ Planned =>
         /\ Tile([i \in ShardHolders |-> shards[i].offset],
                 [i \in ShardHolders |-> shards[i].count], load.slots)
         /\ load.kind = "closed" =>
              Tile([i \in ShardHolders |-> shards[i].rowOffset],
                   [i \in ShardHolders |-> shards[i].rows], load.rows)
=============================================================================
