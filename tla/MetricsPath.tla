--------------------------- MODULE MetricsPath ---------------------------
(***************************************************************************)
(* The way of a measurement from a virtual user of one worker to the       *)
(* database: the engine's aggregator (engine/aggregator.rs), the flusher   *)
(* and the final flush of a run (engine/runner.rs), the worker's forwarder *)
(* (worker/lib.rs), the gRPC stream and the controller's ingest_metrics.   *)
(*                                                                         *)
(* The flusher and the engine's main task send into a bounded channel from *)
(* which the forwarder receives.  A sender that finds the channel full     *)
(* joins the channel's queue, gets a permit in the order of arrival and    *)
(* completes its send when it is next polled, so that a task aborted in    *)
(* between has a permit and a batch and delivers neither.                  *)
(*                                                                         *)
(* A measurement counts in the window of its second and in a delta: the    *)
(* loop, branch, group, phase and error-kind counters are taken and reset  *)
(* together and are one number here.  An arrival without a slot counts in  *)
(* the engine's dropped total, which only the final flush carries.         *)
(***************************************************************************)
EXTENDS Integers, FiniteSets, Sequences, SequencesExt

CONSTANTS
    Capacity,    \* flushes the channel between engine and forwarder holds
    LinkCap,     \* messages the stream to the controller holds
    MaxRecords,  \* bound: measurements of the run
    MaxSecond,   \* bound: the last second of the clock
    MaxBreaks,   \* bound: times the stream breaks
    MaxDbErrors  \* bound: inserts that fail

Admissible ==
    /\ {Capacity, LinkCap} \subseteq Nat \ {0}
    /\ {MaxRecords, MaxSecond, MaxBreaks, MaxDbErrors} \subseteq Nat

Seconds == 0..MaxSecond
Counts  == 0..MaxRecords

\* A MetricFlush, or what the tables of the run hold.
Batches == [win : [Seconds -> Counts], delta : Counts, dropped : Counts]
Nothing == [win |-> [t \in Seconds |-> 0], delta |-> 0, dropped |-> 0]

Plus(a, b) ==
    [win |-> [t \in Seconds |-> a.win[t] + b.win[t]],
     delta |-> a.delta + b.delta, dropped |-> a.dropped + b.dropped]
Minus(a, b) ==
    [win |-> [t \in Seconds |-> a.win[t] - b.win[t]],
     delta |-> a.delta - b.delta, dropped |-> a.dropped - b.dropped]

VARIABLES
    second,    \* current_second(), the wall clock
    mode,      \* closed loop, closed loop with a ramp, or open loop
    engine,    \* the position of run_scenario, run_scenario_open_loop
    pending,   \* the aggregator and the dropped total
    recorded,  \* history: everything the engine measured
    flusher,   \* the flusher task's position
    upTo,      \* the second the flusher read before it took the lock
    cancelled, \* the flusher is aborted: it ends at its next yield
    hand,      \* the batch a sender is sending
    channel,   \* the flushes in the channel
    waiting,   \* the senders in the channel's queue, in order of arrival
    permits,   \* the senders that were given a permit and not polled since
    forwarder, \* the forwarder's position
    carried,   \* the batch the forwarder is sending
    link,      \* the messages in the stream to the controller
    open,      \* the stream is open
    breaks,
    stored,    \* the rows of run_metrics and of the other tables
    verdict,   \* the phase the controller has recorded for the worker
    excused,   \* history: a batch was lost with an aborted flusher or an insert
    dbErrors

engineVars    == <<mode, engine, pending, recorded>>
flusherVars   == <<flusher, upTo, cancelled>>
sendVars      == <<hand, channel, waiting, permits>>
forwarderVars == <<forwarder, carried>>
linkVars      == <<link, open, breaks>>
storeVars     == <<stored, verdict, excused, dbErrors>>
vars == <<second, engineVars, flusherVars, sendVars, forwarderVars, linkVars,
          storeVars>>

Senders   == {"flusher", "engine"}
Phases    == {"completed", "failed"}
Metrics(b) == [kind |-> "metrics", batch |-> b]
Status(p)  == [kind |-> "status", phase |-> p]
LinkMsgs  == [kind : {"metrics"}, batch : Batches]
             \cup [kind : {"status"}, phase : Phases]

TypeOK ==
    /\ second \in Seconds
    /\ mode \in {"closed", "ramped", "open"}
    /\ engine \in {"spawning", "running", "joined", "sending", "stopping",
                   "reporting", "gone"}
    /\ {pending, recorded, carried, stored} \subseteq Batches
    /\ flusher \in {"off", "tick", "lock", "send", "queued", "done"}
    /\ upTo \in Seconds
    /\ hand \in [Senders -> Batches]
    /\ channel \in Seq(Batches) /\ Len(channel) <= Capacity
    /\ waiting \in Seq(Senders) /\ IsInjective(waiting)
    /\ permits \subseteq Senders
    /\ forwarder \in {"recv", "send", "done"}
    /\ link \in Seq(LinkMsgs) /\ Len(link) <= LinkCap
    /\ {cancelled, open, excused} \subseteq BOOLEAN
    /\ verdict \in {"none", "disconnected"} \cup Phases
    /\ breaks \in 0..MaxBreaks
    /\ dbErrors \in 0..MaxDbErrors

Init ==
    /\ second = 0
    /\ mode \in {"closed", "ramped", "open"}
    /\ engine = IF mode = "ramped" THEN "spawning" ELSE "running"
    /\ flusher = IF mode = "ramped" THEN "off" ELSE "tick"
    /\ pending = Nothing /\ recorded = Nothing
    /\ upTo = 0 /\ cancelled = FALSE
    /\ hand = [s \in Senders |-> Nothing]
    /\ channel = <<>> /\ waiting = <<>> /\ permits = {}
    /\ forwarder = "recv" /\ carried = Nothing
    /\ link = <<>> /\ open = TRUE /\ breaks = 0
    /\ stored = Nothing /\ verdict = "none"
    /\ excused = FALSE /\ dbErrors = 0

----------------------------------------------------------------------------
(***************************************************************************)
(* The aggregator, each operation under its lock.                          *)
(***************************************************************************)

\* A request in a loop or a branch; the second is read under the lock.
Measurement == [Nothing EXCEPT !.win[second] = 1, !.delta = 1]

Recorded(b) ==
    /\ recorded.delta + recorded.dropped < MaxRecords
    /\ pending' = Plus(pending, b)
    /\ recorded' = Plus(recorded, b)

\* Mutant of Completed: the window of the running second is taken as well.
CompletedAndCurrent(b, now) ==
    [b EXCEPT !.win = [t \in Seconds |-> IF t <= now THEN b.win[t] ELSE 0],
              !.dropped = 0]

\* drain_completed and the five drain_*_deltas.
Completed(b, now) ==
    [b EXCEPT !.win = [t \in Seconds |-> IF t < now THEN b.win[t] ELSE 0],
              !.dropped = 0]

----------------------------------------------------------------------------
(***************************************************************************)
(* The channel of flushes.                                                 *)
(***************************************************************************)

\* Mutant of Room: a place that was promised to a waiting sender is free.
RoomUnreserved == Len(channel) < Capacity

Room      == Len(channel) + Cardinality(permits) < Capacity
Listening == forwarder # "done"

\* send(): a place if no one waits for one, else the end of the queue.
Sent(s) ==
    /\ Listening /\ Room /\ waiting = <<>>
    /\ channel' = Append(channel, hand[s])
    /\ hand' = [hand EXCEPT ![s] = Nothing]
    /\ UNCHANGED <<waiting, permits>>

Queued(s) ==
    /\ Listening /\ ~(Room /\ waiting = <<>>)
    /\ waiting' = Append(waiting, s)
    /\ UNCHANGED <<hand, channel, permits>>

\* The sender in the queue is polled again, with a permit.
Delivered(s) ==
    /\ Listening /\ s \in permits
    /\ channel' = Append(channel, hand[s])
    /\ hand' = [hand EXCEPT ![s] = Nothing]
    /\ permits' = permits \ {s}
    /\ UNCHANGED waiting

\* A send that fails, or is dropped with its task, leaves the queue.
Withdrawn(s) ==
    /\ \/ ~Contains(waiting, s) /\ UNCHANGED waiting
       \/ \E i \in DOMAIN waiting : waiting[i] = s /\ waiting' = RemoveAt(waiting, i)
    /\ permits' = permits \ {s}
    /\ hand' = [hand EXCEPT ![s] = Nothing]
    /\ UNCHANGED channel

SendFails(s) == ~Listening /\ Withdrawn(s)

\* A place becomes free: the first in the queue gets the permit.
GrantPermit ==
    /\ waiting # <<>> /\ Room
    /\ permits' = permits \cup {Head(waiting)}
    /\ waiting' = Tail(waiting)
    /\ UNCHANGED <<second, engineVars, flusherVars, hand, channel,
                   forwarderVars, linkVars, storeVars>>

----------------------------------------------------------------------------
(***************************************************************************)
(* The flusher task.                                                       *)
(***************************************************************************)

\* is_closed, after an empty drain or a send, ends the loop.
NextTick == IF Listening THEN "tick" ELSE "done"

\* The clock is read before the lock is taken.
FlusherTick ==
    /\ flusher = "tick" /\ ~cancelled
    /\ upTo' = second
    /\ flusher' = "lock"
    /\ UNCHANGED <<second, engineVars, cancelled, sendVars, forwarderVars,
                   linkVars, storeVars>>

FlusherDrain ==
    LET taken == Completed(pending, upTo)
    IN  /\ flusher = "lock" /\ ~cancelled
        /\ pending' = Minus(pending, taken)
        /\ hand' = [hand EXCEPT !["flusher"] = taken]
        /\ flusher' = IF taken = Nothing THEN NextTick ELSE "send"
        /\ upTo' = 0
        /\ UNCHANGED <<second, mode, engine, recorded, cancelled, channel,
                       waiting, permits, forwarderVars, linkVars, storeVars>>

\* The first poll of the send, which an abort does not interrupt.
FlusherSend ==
    /\ flusher = "send"
    /\ \/ Sent("flusher") /\ flusher' = "tick"
       \/ Queued("flusher") /\ flusher' = "queued"
       \/ SendFails("flusher") /\ flusher' = "done"
    /\ UNCHANGED <<second, engineVars, upTo, cancelled, forwarderVars, linkVars,
                   storeVars>>

FlusherDeliver ==
    /\ flusher = "queued" /\ ~cancelled
    /\ \/ Delivered("flusher") /\ flusher' = NextTick
       \/ SendFails("flusher") /\ flusher' = "done"
    /\ UNCHANGED <<second, engineVars, upTo, cancelled, forwarderVars, linkVars,
                   storeVars>>

\* flusher.abort(): the task is dropped where it waits, and its batch with it.
FlusherAborted ==
    /\ cancelled /\ flusher \in {"tick", "lock", "queued"}
    /\ flusher' = "done"
    /\ upTo' = 0
    /\ Withdrawn("flusher")
    /\ excused' = (excused \/ flusher = "queued")
    /\ UNCHANGED <<second, engineVars, cancelled, forwarderVars, linkVars,
                   stored, verdict, dbErrors>>

----------------------------------------------------------------------------
(***************************************************************************)
(* The engine's main task and its virtual users.                           *)
(***************************************************************************)

\* A request of a virtual user ends, in the spawn loop or after it.
Record ==
    /\ engine \in {"spawning", "running"}
    /\ Recorded(Measurement)
    /\ UNCHANGED <<second, mode, engine, flusherVars, sendVars, forwarderVars,
                   linkVars, storeVars>>

\* An arrival of the open loop finds no free slot.
DropArrival ==
    /\ mode = "open" /\ engine = "running"
    /\ Recorded([Nothing EXCEPT !.dropped = 1])
    /\ UNCHANGED <<second, mode, engine, flusherVars, sendVars, forwarderVars,
                   linkVars, storeVars>>

\* The spawn loop ends with its ramp; only then is the flusher spawned.
SpawnFlusher ==
    /\ engine = "spawning"
    /\ engine' = "running"
    /\ flusher' = "tick"
    /\ UNCHANGED <<second, mode, pending, recorded, upTo, cancelled, sendVars,
                   forwarderVars, linkVars, storeVars>>

\* The deadline or a cancellation: every VU and every arrival is joined.
JoinAll ==
    /\ engine = "running"
    /\ engine' = "joined"
    /\ UNCHANGED <<second, mode, pending, recorded, flusherVars, sendVars,
                   forwarderVars, linkVars, storeVars>>

\* drain_all and the final flush, which only the open loop sends when empty.
FinalDrain ==
    /\ engine = "joined"
    /\ hand' = [hand EXCEPT !["engine"] = pending]
    /\ pending' = Nothing
    /\ engine' = IF pending = Nothing /\ mode # "open" THEN "stopping"
                 ELSE "sending"
    /\ UNCHANGED <<second, mode, recorded, flusherVars, channel, waiting,
                   permits, forwarderVars, linkVars, storeVars>>

FinalSend ==
    /\ engine = "sending"
    /\ \/ /\ ~Contains(waiting, "engine") /\ "engine" \notin permits
          /\ \/ Sent("engine") /\ engine' = "stopping"
             \/ Queued("engine") /\ UNCHANGED engine
       \/ Delivered("engine") /\ engine' = "stopping"
       \/ SendFails("engine") /\ engine' = "stopping"
    /\ UNCHANGED <<second, mode, pending, recorded, flusherVars, forwarderVars,
                   linkVars, storeVars>>

\* Mutant of Stop: the flusher is left running.
StopEngineOnly ==
    /\ engine = "stopping"
    /\ engine' = "reporting"
    /\ UNCHANGED <<second, mode, pending, recorded, flusherVars, sendVars,
                   forwarderVars, linkVars, storeVars>>

\* drop(out) and flusher.abort(); its end is awaited in MayReport.
Stop ==
    /\ engine = "stopping"
    /\ engine' = "reporting"
    /\ cancelled' = TRUE
    /\ UNCHANGED <<second, mode, pending, recorded, flusher, upTo, sendVars,
                   forwarderVars, linkVars, storeVars>>

\* Mutant of MayReport: the forwarder is not awaited.
MayReportEarly == engine = "reporting" /\ flusher = "done"

\* flusher.await ends the engine, forwarder.await precedes the RunStatus.
MayReport == engine = "reporting" /\ flusher = "done" /\ forwarder = "done"

Report ==
    /\ MayReport
    /\ engine' = "gone"
    /\ \/ ~open /\ UNCHANGED link
       \/ /\ open /\ Len(link) < LinkCap
          /\ \E p \in Phases : link' = Append(link, Status(p))
    /\ UNCHANGED <<second, mode, pending, recorded, flusherVars, sendVars,
                   forwarderVars, open, breaks, storeVars>>

----------------------------------------------------------------------------
(***************************************************************************)
(* The worker's forwarder.                                                 *)
(***************************************************************************)

\* Mutant of Skipped: the final flush that only carries dropped is skipped.
SkippedForDropped(b) == [b EXCEPT !.dropped = 0] = Nothing

\* Only a flush with nothing in it, dropped included, is not sent.
Skipped(b) == b = Nothing

ForwarderRecv ==
    /\ forwarder = "recv" /\ channel # <<>>
    /\ channel' = Tail(channel)
    /\ IF Skipped(Head(channel))
       THEN UNCHANGED forwarderVars
       ELSE forwarder' = "send" /\ carried' = Head(channel)
    /\ UNCHANGED <<second, engineVars, flusherVars, hand, waiting, permits,
                   linkVars, storeVars>>

ForwarderSend ==
    /\ forwarder = "send"
    /\ \/ /\ open /\ Len(link) < LinkCap
          /\ link' = Append(link, Metrics(carried))
          /\ forwarder' = "recv"
       \/ ~open /\ forwarder' = "done" /\ UNCHANGED link
    /\ carried' = Nothing
    /\ UNCHANGED <<second, engineVars, flusherVars, sendVars, open, breaks,
                   storeVars>>

\* recv() is None: every sender is dropped and the channel is empty.
ForwarderEnd ==
    /\ forwarder = "recv"
    /\ channel = <<>> /\ engine = "reporting" /\ flusher = "done"
    /\ forwarder' = "done"
    /\ UNCHANGED <<second, engineVars, flusherVars, sendVars, carried, linkVars,
                   storeVars>>

----------------------------------------------------------------------------
(***************************************************************************)
(* The controller's handler of the stream: its messages in order.          *)
(***************************************************************************)

\* insert_batch keeps the first row of a (run, second, step, worker).
KeepFirst(old, b) ==
    [old EXCEPT !.win = [t \in Seconds |->
                            IF old.win[t] = 0 THEN b.win[t] ELSE old.win[t]]]

\* The upserts and appends of the other tables, and runs.dropped.
AddDeltas(old, b) ==
    [old EXCEPT !.delta = @ + b.delta, !.dropped = @ + b.dropped]

\* An insert that fails loses its rows with a warning; the others go on.
HandleMetrics ==
    /\ link # <<>> /\ Head(link).kind = "metrics"
    /\ LET b == Head(link).batch
       IN  \/ /\ stored' = AddDeltas(KeepFirst(stored, b), b)
              /\ UNCHANGED <<excused, dbErrors>>
           \/ /\ dbErrors < MaxDbErrors
              /\ stored' \in {AddDeltas(stored, b), KeepFirst(stored, b)}
              /\ excused' = TRUE
              /\ dbErrors' = dbErrors + 1
    /\ link' = Tail(link)
    /\ UNCHANGED <<second, engineVars, flusherVars, sendVars, forwarderVars,
                   open, breaks, verdict>>

HandleStatus ==
    /\ link # <<>> /\ Head(link).kind = "status"
    /\ verdict' = Head(link).phase
    /\ link' = Tail(link)
    /\ UNCHANGED <<second, engineVars, flusherVars, sendVars, forwarderVars,
                   open, breaks, stored, excused, dbErrors>>

\* The stream ends without a status: worker_disconnected.
HandleEof ==
    /\ ~open /\ link = <<>> /\ verdict = "none"
    /\ verdict' = "disconnected"
    /\ UNCHANGED <<second, engineVars, flusherVars, sendVars, forwarderVars,
                   linkVars, stored, excused, dbErrors>>

----------------------------------------------------------------------------
(***************************************************************************)
(* The environment: the clock, and a stream that breaks with what it holds.*)
(***************************************************************************)

Tick ==
    /\ second < MaxSecond
    /\ second' = second + 1
    /\ UNCHANGED <<engineVars, flusherVars, sendVars, forwarderVars, linkVars,
                   storeVars>>

Break ==
    /\ open /\ breaks < MaxBreaks
    /\ breaks' = breaks + 1
    /\ open' = FALSE
    /\ link' = <<>>
    /\ UNCHANGED <<second, engineVars, flusherVars, sendVars, forwarderVars,
                   storeVars>>

FlusherMoves   == FlusherSend \/ FlusherDeliver \/ FlusherAborted
EngineMoves    == SpawnFlusher \/ JoinAll \/ FinalDrain \/ FinalSend \/ Stop \/ Report
ForwarderMoves == ForwarderRecv \/ ForwarderSend \/ ForwarderEnd
HandlerMoves   == HandleMetrics \/ HandleStatus \/ HandleEof

Next ==
    \/ Tick \/ Break
    \/ Record \/ DropArrival
    \/ GrantPermit
    \/ FlusherTick \/ FlusherDrain \/ FlusherMoves
    \/ EngineMoves \/ ForwarderMoves \/ HandlerMoves

Spec == Init /\ [][Next]_vars

(***************************************************************************)
(* A task that can move is polled, the deadline passes and the handler     *)
(* reads.  No measurement has to come and nothing has to break.            *)
(***************************************************************************)
Fairness ==
    /\ WF_vars(GrantPermit)
    /\ WF_vars(FlusherMoves)
    /\ WF_vars(EngineMoves)
    /\ WF_vars(ForwarderMoves)
    /\ WF_vars(HandlerMoves)

FairSpec == Spec /\ Fairness

----------------------------------------------------------------------------
(***************************************************************************)
(* A worker that the controller takes for completed has all its            *)
(* measurements in the database, each counted once: the terminal status    *)
(* overtakes no batch, no window comes in two batches (insert_batch would  *)
(* drop the second), and no flush is skipped that carries anything.  The   *)
(* two losses the code accepts are excused: a batch that an aborted        *)
(* flusher held, and an insert that failed.                                *)
(***************************************************************************)
CompletedRunIsFullyStored ==
    verdict = "completed" /\ ~excused => stored = recorded

(***************************************************************************)
(* The end of the engine, the abort of the flusher and the bounded         *)
(* channels never wait for one another for ever: a worker's run comes to a *)
(* verdict, by its report or by the end of its stream.                     *)
(***************************************************************************)
RunIsReported == <>(verdict # "none")
=============================================================================
