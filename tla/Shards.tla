------------------------------ MODULE Shards ------------------------------
(***************************************************************************)
(* The arithmetic of grpc/shard.rs: how a number of VUs, slots, rows or    *)
(* arrivals is divided among workers.                                      *)
(*                                                                         *)
(* Numbers are u32 in the code: MaxU32 stands for its largest value, so    *)
(* that the saturating sum of the capacities saturates on a small scale.   *)
(***************************************************************************)
EXTENDS Integers, Sequences, FiniteSets, Functions

CONSTANT MaxU32  \* the largest number

ASSUME ShardsAssumption == MaxU32 \in Nat \ {0}

Lesser(m, n)  == IF m < n THEN m ELSE n
Greater(m, n) == IF m < n THEN n ELSE m
AtLeastOne(n) == Greater(n, 1)
Sum(f)        == SumFunctionOnSet(f, DOMAIN f)

----------------------------------------------------------------------------
(***************************************************************************)
(* grpc/shard.rs.  The workers of a sequence are 1..n; a shard index, as   *)
(* in the code, is 0..n-1.                                                 *)
(***************************************************************************)

worker_count(total, capacity) ==
    LET cap == AtLeastOne(capacity) IN AtLeastOne((total + cap - 1) \div cap)

\* Mutant of ShardOffset: the earlier shards' extra units are forgotten.
OffsetWithoutExtra(total, n, i) == i * (total \div n)

\* Mutant of ShardOffset: every earlier shard is taken to have one.
OffsetAllExtra(total, n, i) == i * (total \div n + 1)

\* shard_split: the first total % n shards take one more.
ShardCount(total, n, i)  == total \div n + (IF i < total % n THEN 1 ELSE 0)
ShardOffset(total, n, i) == i * (total \div n) + Lesser(i, total % n)

EvenCounts(total, n) == [i \in 1..n |-> ShardCount(total, n, i - 1)]

\* The fold of saturating_add saturates like its sum.
achievable_capacity(caps) ==
    Lesser(Sum([i \in DOMAIN caps |-> AtLeastOne(caps[i])]), MaxU32)

Clamped(total, caps) ==
    [i \in DOMAIN caps |->
        Lesser(EvenCounts(total, Len(caps))[i], AtLeastOne(caps[i]))]

\* Clamp the even split to the capacities, and hand what is over to the
\* workers with slack, in their order.
capacity_split(total, caps) ==
    LET clamped  == Clamped(total, caps)
        slack    == [i \in DOMAIN caps |-> AtLeastOne(caps[i]) - clamped[i]]
        overflow == Sum([i \in DOMAIN caps |-> Greater(0,
                       EvenCounts(total, Len(caps))[i] - AtLeastOne(caps[i]))])
        before(i) == Sum([j \in 1..(i - 1) |-> slack[j]])
    IN  [i \in DOMAIN caps |->
           clamped[i] + Lesser(slack[i], Greater(overflow - before(i), 0))]

\* Mutant of proportional_split: the remaining units are dropped.
FloorsOnly(total, weights) ==
    [i \in DOMAIN weights |-> (total * weights[i]) \div Sum(weights)]

\* Floors of the quotas, the remaining units to the largest remainders, the
\* first index first.
proportional_split(total, weights) ==
    LET n     == Len(weights)
        whole == Sum(weights)
        quota == [i \in 1..n |-> (total * weights[i]) \div whole]
        rest  == [i \in 1..n |-> (total * weights[i]) % whole]
        left  == total - Sum(quota)
        ahead(i) == {j \in 1..n : rest[j] > rest[i] \/ (rest[j] = rest[i] /\ j < i)}
    IN  IF whole = 0
          THEN EvenCounts(total, n)
          ELSE [i \in 1..n |-> quota[i] + IF Cardinality(ahead(i)) < left THEN 1 ELSE 0]

proportional_split_min1(total, weights) ==
    IF total < Len(weights) \/ Sum(weights) = 0
      THEN proportional_split(total, weights)
      ELSE LET extra == proportional_split(total - Len(weights), weights)
           IN  [i \in DOMAIN weights |-> extra[i] + 1]

----------------------------------------------------------------------------
\* reduce_pool_profile, of one number of a profile (the fixed rate, or a
\* stage's target): with the slots as weights in a capacity-aware launch,
\* even otherwise.
Shares(kind, target, counts, weighted) ==
    LET n == Len(counts) IN
    CASE n <= 1 -> [i \in 1..n |-> target]
      [] n > 1 /\ ~weighted -> EvenCounts(target, n)
      [] n > 1 /\ weighted /\ kind = "fixed" ->
            proportional_split_min1(target, counts)
      [] n > 1 /\ weighted /\ kind # "fixed" -> proportional_split(target, counts)
=============================================================================
