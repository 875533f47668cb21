---------------------------- MODULE WorkerPool ----------------------------
(***************************************************************************)
(* Pool mode of the controller: long-lived workers register idle, a launch *)
(* reserves some of them for its run and pushes the assignments, and the   *)
(* worker reconnects to be idle again when its run is over.                *)
(*                                                                         *)
(* Two maps with a mutex each are involved, the pool (entry) and the runs  *)
(* (present .. reported), and no critical section holds both.  Everything  *)
(* in the pool goes by worker id, while a worker's connections outlive it  *)
(* there: a connection is a session <<worker, n>>.                         *)
(***************************************************************************)
EXTENDS Integers, Sequences, FiniteSets

CONSTANTS
    Workers,      \* worker ids
    Runs,         \* runs launched, each once
    WorkerCap,    \* pool_worker_cap: how many workers a run uses at most
    MaxSessions,  \* bound: connections a worker opens
    MaxExcludes,  \* bound: POST .../exclude
    MaxAborts,    \* bound: user aborts
    MaxBreaks     \* bound: connections of a live worker that break

NoRun    == "no run"

ASSUME WorkerPoolAssumption ==
    /\ IsFiniteSet(Workers) /\ NoRun \notin Runs
    /\ WorkerCap \in Nat \ {0}
    /\ {MaxSessions, MaxExcludes, MaxAborts, MaxBreaks} \subseteq Nat

NoEntry  == [chan |-> 0, run |-> NoRun]
Sessions == Workers \X (1..MaxSessions)
NoSession == <<>>
Results  == {"completed", "failed", "aborted"}

VARIABLES
    entry,     \* the pool: PoolEntry.tx (as a session number) and assigned_run
    launch,    \* spawn_run's position, per run
    queue,     \* the reserved (worker, tx) pairs still to be assigned
    current,   \* the pair assign_pool_workers is at
    expected,  \* RunWorkers.expected
    present,   \* the runs map holds a RunWorkers
    verdict,   \* RunWorkers.terminal, as the outcome that set it
    members,   \* RunWorkers.workers, as the sessions of their senders
    reported,  \* the members whose WorkerEntry.phase is terminal
    handler,   \* the stream handler of a session
    inbox,     \* worker-to-controller messages
    outbox,    \* controller-to-worker messages
    gone,      \* the worker's end of the session is closed
    worker,    \* the worker process
    session,   \* its latest session
    job,       \* the run it is executing
    evicting,  \* workers pool_heartbeat_tick found stale in its snapshot
    excludes, aborts, breaks

launchVars == <<launch, queue, current>>
runVars    == <<expected, present, verdict, members, reported>>
streamVars == <<handler, inbox, outbox, gone>>
workerVars == <<worker, session, job>>
boundVars  == <<excludes, aborts, breaks>>
vars == <<entry, launchVars, runVars, streamVars, workerVars, evicting, boundVars>>

Assign(r)      == [kind |-> "assignment", run |-> r]
Abort(r)       == [kind |-> "abort", run |-> r]
Disconnect     == [kind |-> "disconnect", run |-> NoRun]
RegisterMsg    == [kind |-> "register", run |-> NoRun]
Status(r, res) == [kind |-> res, run |-> r]

ServerMsgs == {Assign(r) : r \in Runs} \cup {Abort(r) : r \in Runs} \cup {Disconnect}
WorkerMsgs == {RegisterMsg} \cup {Status(r, res) : r \in Runs, res \in Results}

TypeOK ==
    /\ entry \in [Workers -> [chan : 0..MaxSessions, run : Runs \cup {NoRun}]]
    /\ launch \in [Runs -> {"new", "reserved", "assigning", "pushing", "launched",
                            "cancel", "failed"}]
    /\ queue \in [Runs -> SUBSET Sessions]
    /\ current \in [Runs -> Sessions \cup {NoSession}]
    /\ expected \in [Runs -> 0..WorkerCap]
    /\ present \in [Runs -> BOOLEAN]
    /\ verdict \in [Runs -> {"none"} \cup Results]
    /\ members \in [Runs -> SUBSET Sessions]
    /\ reported \in [Runs -> SUBSET Workers]
    /\ handler \in [Sessions -> {"none", "open", "closed"}]
    /\ inbox \in [Sessions -> Seq(WorkerMsgs)]
    /\ outbox \in [Sessions -> Seq(ServerMsgs)]
    /\ gone \in [Sessions -> BOOLEAN]
    /\ worker \in [Workers -> {"connect", "wait", "run", "exited"}]
    /\ session \in [Workers -> 0..MaxSessions]
    /\ job \in [Workers -> Runs \cup {NoRun}]
    /\ evicting \subseteq Workers
    /\ excludes \in 0..MaxExcludes /\ aborts \in 0..MaxAborts /\ breaks \in 0..MaxBreaks

Init ==
    /\ entry = [w \in Workers |-> NoEntry]
    /\ launch = [r \in Runs |-> "new"]
    /\ queue = [r \in Runs |-> {}]
    /\ current = [r \in Runs |-> NoSession]
    /\ expected = [r \in Runs |-> 0]
    /\ present = [r \in Runs |-> FALSE]
    /\ verdict = [r \in Runs |-> "none"]
    /\ members = [r \in Runs |-> {}]
    /\ reported = [r \in Runs |-> {}]
    /\ handler = [s \in Sessions |-> "none"]
    /\ inbox = [s \in Sessions |-> <<>>]
    /\ outbox = [s \in Sessions |-> <<>>]
    /\ gone = [s \in Sessions |-> FALSE]
    /\ worker = [w \in Workers |-> "connect"]
    /\ session = [w \in Workers |-> 0]
    /\ job = [w \in Workers |-> NoRun]
    /\ evicting = {}
    /\ excludes = 0 /\ aborts = 0 /\ breaks = 0

----------------------------------------------------------------------------
InPool(w) == entry[w].chan # 0

\* Mutant of Idle: a reserved worker is taken again.
IdleOrReserved(w) == InPool(w)

\* The workers a reservation may take (operator drain is not modelled).
Idle(w) == InPool(w) /\ entry[w].run = NoRun

IsTerminal(r)      == verdict[r] # "none"
MemberWorkers(r)   == {s[1] : s \in members[r]}
IsMember(r, w)     == present[r] /\ w \in MemberWorkers(r)
SessionsOf(set, r) == {s \in members[r] : s[1] \in set}

\* A message to a session whose worker closed its end is lost.
SendTo(targets, m) ==
    outbox' = [s \in Sessions |-> IF s \in targets /\ ~gone[s]
                                  THEN Append(outbox[s], m) ELSE outbox[s]]

\* Mutant of FailRun: fail-fast without telling the siblings.
FailRunQuietly(r, w) ==
    /\ verdict' = [verdict EXCEPT ![r] = "failed"]
    /\ members' = [members EXCEPT ![r] = @ \ SessionsOf({w}, r)]
    /\ UNCHANGED outbox

\* The fail-fast of worker_disconnected: w's entry goes, its siblings abort.
FailRun(r, w) ==
    /\ verdict' = [verdict EXCEPT ![r] = "failed"]
    /\ members' = [members EXCEPT ![r] = @ \ SessionsOf({w}, r)]
    /\ SendTo(members[r] \ SessionsOf({w}, r), Abort(r))

\* worker_disconnected: nothing for an unknown run or worker, a terminal run,
\* or a worker that has reported.
WorkerDisconnected(r, w) ==
    IF /\ r # NoRun /\ present[r] /\ ~IsTerminal(r)
       /\ w \in MemberWorkers(r) \ reported[r]
    THEN FailRun(r, w)
    ELSE UNCHANGED <<verdict, members, outbox>>

\* pool_disconnect: whoever calls it names the worker, not the connection.
PoolDisconnect(w) ==
    /\ entry' = [entry EXCEPT ![w] = NoEntry]
    /\ WorkerDisconnected(entry[w].run, w)

----------------------------------------------------------------------------
(***************************************************************************)
(* spawn_run, pool mode.                                                   *)
(***************************************************************************)

IdleWorkers == {w \in Workers : Idle(w)}

Smaller(m, n) == IF m < n THEN m ELSE n

\* reserve_idle_pool and reserve_idle_pool_capacity: all of the chosen
\* workers under one lock, none if the pool is empty or too small.
Reserve(r) ==
    /\ launch[r] = "new"
    /\ \/ \E chosen \in SUBSET IdleWorkers :
            /\ chosen # {}
            /\ Cardinality(chosen) = Smaller(Cardinality(IdleWorkers), WorkerCap)
            /\ entry' = [w \in Workers |->
                           IF w \in chosen THEN [entry[w] EXCEPT !.run = r] ELSE entry[w]]
            /\ queue' = [queue EXCEPT ![r] = {<<w, entry[w].chan>> : w \in chosen}]
            /\ launch' = [launch EXCEPT ![r] = "reserved"]
       \/ /\ launch' = [launch EXCEPT ![r] = "failed"]
          /\ UNCHANGED <<entry, queue>>
    /\ UNCHANGED <<current, runVars, streamVars, workerVars, evicting, boundVars>>

\* pool_unique_floor_violation, then release_pool_reservation: by worker id,
\* whatever the entry is reserved for by now.
ReleaseReservation(r) ==
    /\ launch[r] = "reserved"
    /\ entry' = [w \in Workers |->
                   IF InPool(w) /\ \E s \in queue[r] : s[1] = w
                   THEN [entry[w] EXCEPT !.run = NoRun] ELSE entry[w]]
    /\ queue' = [queue EXCEPT ![r] = {}]
    /\ launch' = [launch EXCEPT ![r] = "failed"]
    /\ UNCHANGED <<current, runVars, streamVars, workerVars, evicting, boundVars>>

\* Mutant of Enqueue: one worker too many is waited for.
EnqueueOneMore(r) ==
    /\ launch[r] = "reserved"
    /\ expected' = [expected EXCEPT ![r] = Cardinality(queue[r]) + 1]
    /\ present' = [present EXCEPT ![r] = TRUE]
    /\ launch' = [launch EXCEPT ![r] = "assigning"]
    /\ UNCHANGED <<entry, queue, current, verdict, members, reported, streamVars,
                   workerVars, evicting, boundVars>>

\* enqueue: expected is the number of workers reserved.
Enqueue(r) ==
    /\ launch[r] = "reserved"
    /\ expected' = [expected EXCEPT ![r] = Cardinality(queue[r])]
    /\ present' = [present EXCEPT ![r] = TRUE]
    /\ launch' = [launch EXCEPT ![r] = "assigning"]
    /\ UNCHANGED <<entry, queue, current, verdict, members, reported, streamVars,
                   workerVars, evicting, boundVars>>

\* assign_pool_workers, one worker: register; a run terminal by now is an
\* error ...
AssignRegister(r) ==
    /\ launch[r] = "assigning"
    /\ \E s \in queue[r] :
         \/ /\ ~IsTerminal(r)
            /\ members' = [members EXCEPT ![r] = @ \cup {s}]
            /\ queue' = [queue EXCEPT ![r] = @ \ {s}]
            /\ current' = [current EXCEPT ![r] = s]
            /\ launch' = [launch EXCEPT ![r] = "pushing"]
         \/ /\ IsTerminal(r)
            /\ launch' = [launch EXCEPT ![r] = "cancel"]
            /\ UNCHANGED <<members, queue, current>>
    /\ UNCHANGED <<entry, expected, present, verdict, reported, streamVars, workerVars,
                   evicting, boundVars>>

\* ... then assignment_for, tx.send and the dataset.  A broken connection
\* shows in the send, or not yet.
AssignPush(r) ==
    /\ launch[r] = "pushing"
    /\ \/ /\ SendTo({current[r]}, Assign(r))
          /\ launch' = [launch EXCEPT ![r] = "assigning"]
       \/ /\ gone[current[r]]
          /\ launch' = [launch EXCEPT ![r] = "cancel"]
          /\ UNCHANGED outbox
    /\ current' = [current EXCEPT ![r] = NoSession]
    /\ UNCHANGED <<entry, queue, runVars, handler, inbox, gone, workerVars, evicting,
                   boundVars>>

Launched(r) ==
    /\ launch[r] = "assigning"
    /\ queue[r] = {}
    /\ launch' = [launch EXCEPT ![r] = "launched"]
    /\ UNCHANGED <<entry, queue, current, runVars, streamVars, workerVars, evicting,
                   boundVars>>

\* cancel_dispatch_failed: the run's entry goes and its members are told;
\* the reservations of the others stay as they are.
CancelLaunch(r) ==
    /\ launch[r] = "cancel"
    /\ SendTo(members[r], Abort(r))
    /\ present' = [present EXCEPT ![r] = FALSE]
    /\ members' = [members EXCEPT ![r] = {}]
    /\ queue' = [queue EXCEPT ![r] = {}]
    /\ launch' = [launch EXCEPT ![r] = "failed"]
    /\ UNCHANGED <<entry, current, expected, verdict, reported, handler, inbox, gone, workerVars,
                   evicting, boundVars>>

----------------------------------------------------------------------------
(***************************************************************************)
(* The stream handler of a session.                                        *)
(***************************************************************************)

Reads(s, m) ==
    /\ handler[s] = "open"
    /\ inbox[s] # <<>>
    /\ Head(inbox[s]) = m
    /\ inbox' = [inbox EXCEPT ![s] = Tail(@)]

\* pool_register_idle: insert, or refresh and reset to idle.
RegisterIdle(s) ==
    /\ Reads(s, RegisterMsg)
    /\ entry' = [entry EXCEPT ![s[1]] = [chan |-> s[2], run |-> NoRun]]
    /\ UNCHANGED <<launchVars, runVars, handler, outbox, gone, workerVars, evicting,
                   boundVars>>

Reporters(r, w) == reported[r] \cup (MemberWorkers(r) \cap {w})

\* Mutant of AllCompleted: everybody registered, not everybody done.
AllRegisteredOnly(r, w) == Cardinality(members[r]) = expected[r]

AllCompleted(r, w) ==
    /\ MemberWorkers(r) \subseteq Reporters(r, w)
    /\ Cardinality(members[r]) = expected[r]

\* record_phase, for the run the message names.
HandleStatus(s, r, res) ==
    LET w == s[1] IN
    /\ Reads(s, Status(r, res))
    /\ IF ~present[r]
         THEN UNCHANGED <<verdict, reported, outbox>>
         ELSE /\ reported' = [reported EXCEPT ![r] = Reporters(r, w)]
              /\ IF IsTerminal(r) \/ (res = "completed" /\ ~AllCompleted(r, w))
                   THEN UNCHANGED <<verdict, outbox>>
                   ELSE /\ verdict' = [verdict EXCEPT ![r] = res]
                        /\ IF res = "failed"
                             THEN SendTo(members[r] \ SessionsOf({w}, r), Abort(r))
                             ELSE UNCHANGED outbox
    /\ UNCHANGED <<entry, launchVars, expected, present, members, handler, gone, workerVars,
                   evicting, boundVars>>

\* The stream closed: pool_disconnect, for the worker the session named.
HandleEof(s) ==
    /\ handler[s] = "open"
    /\ inbox[s] = <<>>
    /\ gone[s]
    /\ PoolDisconnect(s[1])
    /\ handler' = [handler EXCEPT ![s] = "closed"]
    /\ UNCHANGED <<launchVars, expected, present, reported, inbox, gone, workerVars, evicting,
                   boundVars>>

----------------------------------------------------------------------------
(***************************************************************************)
(* The heartbeat reaper, the operator, the user and run_watchdog.          *)
(***************************************************************************)

\* pool_heartbeat_tick: the snapshot under the lock ...
HeartbeatSnapshot(w) ==
    /\ InPool(w) /\ gone[<<w, entry[w].chan>>]
    /\ w \notin evicting
    /\ evicting' = evicting \cup {w}
    /\ UNCHANGED <<entry, launchVars, runVars, streamVars, workerVars, boundVars>>

\* ... and the eviction after it.
HeartbeatEvict(w) ==
    /\ w \in evicting
    /\ evicting' = evicting \ {w}
    /\ PoolDisconnect(w)
    /\ UNCHANGED <<launchVars, expected, present, reported, handler, inbox, gone, workerVars,
                   boundVars>>

\* pool_exclude: remove, fail the run it is busy with, ask it to exit.
Exclude(w) ==
    /\ excludes < MaxExcludes
    /\ excludes' = excludes + 1
    /\ InPool(w)
    /\ entry' = [entry EXCEPT ![w] = NoEntry]
    /\ LET r == entry[w].run
           s == <<w, entry[w].chan>>
           fails == /\ r # NoRun /\ present[r] /\ ~IsTerminal(r)
                    /\ w \in MemberWorkers(r) \ reported[r]
           siblings == IF fails THEN members[r] \ SessionsOf({w}, r) ELSE {}
       IN /\ verdict' = IF fails THEN [verdict EXCEPT ![r] = "failed"] ELSE verdict
          /\ members' = IF fails THEN [members EXCEPT ![r] = siblings] ELSE members
          /\ outbox' = [t \in Sessions |->
                          IF gone[t] THEN outbox[t]
                          ELSE IF t = s THEN Append(outbox[t], Disconnect)
                          ELSE IF t \in siblings THEN Append(outbox[t], Abort(r))
                          ELSE outbox[t]]
    /\ UNCHANGED <<launchVars, expected, present, reported, handler, inbox, gone, workerVars,
                   evicting, aborts, breaks>>

UserAbort(r) ==
    /\ aborts < MaxAborts
    /\ aborts' = aborts + 1
    /\ present[r]
    /\ SendTo(members[r], Abort(r))
    /\ UNCHANGED <<entry, launchVars, runVars, handler, inbox, gone, workerVars, evicting,
                   excludes, breaks>>

\* run_watchdog's fail_run_hung: the startup grace or the backstop ran out.
WatchdogFails(r) ==
    /\ present[r] /\ ~IsTerminal(r)
    /\ launch[r] = "launched"
    /\ verdict' = [verdict EXCEPT ![r] = "failed"]
    /\ SendTo(members[r], Abort(r))
    /\ UNCHANGED <<entry, launchVars, expected, present, members, reported, handler, inbox, gone,
                   workerVars, evicting, boundVars>>

----------------------------------------------------------------------------
(***************************************************************************)
(* The worker: run_pool.                                                   *)
(***************************************************************************)

Current(w) == <<w, session[w]>>

Receives(s, m) ==
    /\ outbox[s] # <<>>
    /\ ~gone[s]
    /\ Head(outbox[s]) = m

HangUp(closing) ==
    /\ gone' = [s \in Sessions |-> gone[s] \/ s \in closing]
    /\ outbox' = [s \in Sessions |-> IF s \in closing THEN <<>> ELSE outbox[s]]

\* connect_and_register with an empty run id.
Connect(w) ==
    LET s == <<w, session[w] + 1>> IN
    /\ worker[w] = "connect"
    /\ session[w] < MaxSessions
    /\ session' = [session EXCEPT ![w] = @ + 1]
    /\ worker' = [worker EXCEPT ![w] = "wait"]
    /\ handler' = [handler EXCEPT ![s] = "open"]
    /\ inbox' = [inbox EXCEPT ![s] = <<RegisterMsg>>]
    /\ UNCHANGED <<entry, launchVars, runVars, outbox, gone, job, evicting, boundVars>>

Accept(w) ==
    LET s == Current(w) IN
    /\ worker[w] = "wait"
    /\ \E r \in Runs :
         /\ Receives(s, Assign(r))
         /\ job' = [job EXCEPT ![w] = r]
    /\ outbox' = [outbox EXCEPT ![s] = Tail(@)]
    /\ worker' = [worker EXCEPT ![w] = "run"]
    /\ UNCHANGED <<entry, launchVars, runVars, handler, inbox, gone, session, evicting,
                   boundVars>>

\* An abort where an assignment was due: the link is dropped.
Refused(w) ==
    /\ worker[w] = "wait"
    /\ \E r \in Runs : Receives(Current(w), Abort(r))
    /\ HangUp({Current(w)})
    /\ worker' = [worker EXCEPT ![w] = "connect"]
    /\ UNCHANGED <<entry, launchVars, runVars, handler, inbox, session, job, evicting,
                   boundVars>>

\* The end of execute_assignment: report, drop the sender, reconnect.  The
\* forwarding task still holds a clone of it and the inbound stream, so the
\* session does not end here.
Ends(w, res) ==
    LET s == Current(w) IN
    /\ worker[w] = "run"
    /\ inbox' = [inbox EXCEPT ![s] = Append(@, Status(job[w], res))]
    /\ job' = [job EXCEPT ![w] = NoRun]
    /\ worker' = [worker EXCEPT ![w] = "connect"]
    /\ UNCHANGED <<entry, launchVars, runVars, handler, gone, session, evicting, boundVars>>

EngineReturns(w) ==
    /\ \E res \in {"completed", "failed"} : Ends(w, res)
    /\ UNCHANGED outbox

\* abort_listener_loop: only an abort of its own run counts, and whatever
\* came before it is passed over; a Disconnect is the forwarder's.
AbortListener(w) ==
    LET s == Current(w) IN
    /\ worker[w] = "run"
    /\ \E i \in DOMAIN outbox[s] :
         /\ outbox[s][i] = Abort(job[w])
         /\ \A j \in 1..(i - 1) : outbox[s][j] \notin {Abort(job[w]), Disconnect}
         /\ outbox' = [outbox EXCEPT ![s] = SubSeq(@, i + 1, Len(@))]
    /\ Ends(w, "aborted")

\* Disconnect, on the current or on a left session: the process exits and
\* all of its connections close.  A running engine reports Aborted first.
DisconnectedByOperator(w) ==
    /\ worker[w] # "exited"
    /\ \E s \in Sessions : s[1] = w /\ Receives(s, Disconnect)
    /\ inbox' = IF worker[w] = "run"
                THEN [inbox EXCEPT ![Current(w)] = Append(@, Status(job[w], "aborted"))]
                ELSE inbox
    /\ HangUp({s \in Sessions : s[1] = w})
    /\ worker' = [worker EXCEPT ![w] = "exited"]
    /\ job' = [job EXCEPT ![w] = NoRun]
    /\ UNCHANGED <<entry, launchVars, runVars, handler, session, evicting, boundVars>>

\* A session the worker has left ends with the first message forwarded to
\* nobody.
LeftSessionEnds(s) ==
    /\ handler[s] # "none" /\ ~gone[s]
    /\ s # Current(s[1]) \/ worker[s[1]] = "connect"
    /\ outbox[s] # <<>> /\ Head(outbox[s]) # Disconnect
    /\ HangUp({s})
    /\ UNCHANGED <<entry, launchVars, runVars, handler, inbox, workerVars, evicting,
                   boundVars>>

\* A connection breaks: a left one quietly; the current one puts the worker
\* back to connecting and its report is lost.
Break(s) ==
    /\ breaks < MaxBreaks
    /\ breaks' = breaks + 1
    /\ handler[s] # "none" /\ ~gone[s]
    /\ HangUp({s})
    /\ IF s = Current(s[1]) /\ worker[s[1]] \in {"wait", "run"}
         THEN /\ worker' = [worker EXCEPT ![s[1]] = "connect"]
              /\ job' = [job EXCEPT ![s[1]] = NoRun]
         ELSE UNCHANGED <<worker, job>>
    /\ UNCHANGED <<entry, launchVars, runVars, handler, inbox, session, evicting, excludes,
                   aborts>>

----------------------------------------------------------------------------
SpawnRun(r) ==
    \/ Reserve(r) \/ ReleaseReservation(r) \/ Enqueue(r) \/ AssignRegister(r)
    \/ AssignPush(r) \/ Launched(r) \/ CancelLaunch(r)

Handler(s) ==
    \/ RegisterIdle(s) \/ HandleEof(s)
    \/ \E r \in Runs, res \in Results : HandleStatus(s, r, res)

Heartbeat(w) == HeartbeatSnapshot(w) \/ HeartbeatEvict(w)

WorkerReacts(w) ==
    Connect(w) \/ Accept(w) \/ Refused(w) \/ AbortListener(w) \/ DisconnectedByOperator(w)

Next ==
    \/ \E r \in Runs : SpawnRun(r) \/ UserAbort(r) \/ WatchdogFails(r)
    \/ \E s \in Sessions : Handler(s) \/ LeftSessionEnds(s) \/ Break(s)
    \/ \E w \in Workers : Heartbeat(w) \/ Exclude(w) \/ WorkerReacts(w)
                          \/ EngineReturns(w)

\* Ready tasks are polled and the watchdog's timers fire; launches, engines,
\* operators and faults move when they like.
Fairness ==
    /\ \A r \in Runs : WF_vars(launch[r] # "new" /\ SpawnRun(r)) /\ WF_vars(WatchdogFails(r))
    /\ \A s \in Sessions : WF_vars(Handler(s)) /\ WF_vars(LeftSessionEnds(s))
    /\ \A w \in Workers : WF_vars(Heartbeat(w)) /\ WF_vars(WorkerReacts(w))

Spec     == Init /\ [][Next]_vars
FairSpec == Spec /\ Fairness

----------------------------------------------------------------------------
\* Two runs in progress never hold the same worker: the reservation under
\* the pool lock stops a concurrent launch from grabbing it.  Holds while no
\* worker reconnects (MaxSessions = 1).
Holds(r, w) ==
    \/ \E s \in queue[r] : s[1] = w
    \/ /\ IsMember(r, w) /\ ~IsTerminal(r)
       /\ w \notin reported[r]
ReservationIsExclusive ==
    \A w \in Workers, r1, r2 \in Runs : Holds(r1, w) /\ Holds(r2, w) => r1 = r2

\* A run is completed only when no worker executes it any more: the gate of
\* record_phase against launches that still register, evictions and aborts.
CompletedRunLoadStopped ==
    \A r \in Runs : verdict[r] = "completed" => \A w \in Workers : job[w] # r

\* Wherever a run failed or lost its launch, the abort (or the operator's
\* Disconnect) is on its way to every worker that executes it: by the watchdog,
\* a sibling's failure, an eviction, an exclusion or a launch given up half
\* way.  Like the exclusive reservation it needs MaxSessions = 1: a worker
\* evicted through a session it had left keeps the load of the run.
FailedRunLoadIsAborted ==
    \A r \in Runs, w \in Workers :
        (launch[r] = "failed" \/ verdict[r] = "failed") /\ job[w] = r =>
            \E i \in DOMAIN outbox[Current(w)] :
                outbox[Current(w)][i] \in {Abort(r), Disconnect}

----------------------------------------------------------------------------
(***************************************************************************)
(* What the design document says, and the code does not do (see README,    *)
(* findings).                                                              *)
(***************************************************************************)

\* R13: a worker whose assignment failed recovers by itself.  A worker that
\* is reserved for a launch that failed becomes available again.
FailedLaunchFreesWorkers ==
    \A r \in Runs, w \in Workers :
        (launch[r] = "failed" /\ entry[w].run = r) ~> (entry[w].run # r)

\* R13: after its run a worker registers again on a new stream, so that
\* reserve_idle_pool sees it.  A worker waiting for an assignment, whose
\* Register was handled, is in the pool by that connection.
WaitingWorkerIsInPool ==
    \A w \in Workers :
        worker[w] = "wait" /\ inbox[Current(w)] = <<>> => entry[w].chan = session[w]
=============================================================================
