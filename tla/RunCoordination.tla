------------------------- MODULE RunCoordination -------------------------
(***************************************************************************)
(* One load-test run of the controller in dispatcher mode, from the        *)
(* POST /api/runs request to the terminal row in the runs table.           *)
(*                                                                         *)
(* Five kinds of task act on the run concurrently, each of them async, so  *)
(* that between two awaits every other one may move:                       *)
(*   - the request handlers spawn_run and abort_run (api, user);           *)
(*   - one stream handler per worker connection (handler), which reads     *)
(*     the connection's messages one at a time;                            *)
(*   - run_watchdog, the three-phase timer task of the run (watchdog);     *)
(*   - the dispatcher's reaper, one per worker process;                    *)
(*   - the worker processes themselves (worker).                           *)
(* Shared state is the RunWorkers entry behind the coordinator's mutex     *)
(* (present .. firstLoad) and the run's row in SQLite (row).  A critical   *)
(* section is one action; the database write that follows it is another,   *)
(* because the mutex is released before the write.                         *)
(***************************************************************************)
EXTENDS Integers, Sequences, FiniteSets

CONSTANTS
    Workers,       \* worker processes the dispatcher can start
    Expected,      \* RunWorkers.expected: the number of shards of the run
    MaxAborts,     \* bound: user aborts that get past the 409 check (0 or 1)
    MaxSessions,   \* bound: connections one worker process opens
    MaxCrashes,    \* bound: worker processes that die without a report
    MaxDrops,      \* bound: connections that break under a live worker
    MaxRestarts    \* bound: controller restarts

ASSUME RunCoordinationAssumption ==
    /\ IsFiniteSet(Workers)
    /\ Expected \in Nat \ {0}
    /\ MaxAborts \in {0, 1}
    /\ {MaxSessions, MaxCrashes, MaxDrops, MaxRestarts} \subseteq Nat

Sessions == Workers \X (1..MaxSessions)
Shards   == 0..(Expected - 1)
NoShard  == -1
NoChan   == 0

Active   == {"pending", "running"}
Terminal == {"completed", "failed", "aborted"}
Rows     == {"none"} \cup Active \cup Terminal
Phases   == {"started"} \cup Terminal
Verdicts == {"none"} \cup Terminal

VARIABLES
    row,        \* runs.status of the run's row; "none" before the INSERT
    present,    \* the runs map holds a RunWorkers for the run
    verdict,    \* RunWorkers.terminal, as the outcome that set it
    shard,      \* WorkerEntry.shard_index; NoShard: not in RunWorkers.workers
    phase,      \* WorkerEntry.phase
    chan,       \* WorkerEntry.tx, as the session whose sender it clones
    nextShard,  \* RunWorkers.next_shard
    firstLoad,  \* RunWorkers.first_load is cancelled
    api,        \* spawn_run's position
    user,       \* abort_run's position
    watchdog,   \* run_watchdog's position
    handler,    \* the stream handler's position, per session
    grant,      \* the handler's shard_index, what register returned to it
    inbox,      \* worker-to-controller messages in flight, per session
    outbox,     \* controller-to-worker messages in flight, per session
    hungUp,     \* the worker's end of the session is closed
    worker,     \* the worker process's position
    session,    \* the worker's current session; 0 before the first
    job,        \* the shard index of the assignment the worker accepted
    report,     \* the terminal phase the worker's engine ended with
    crashes, drops, restarts

rowVars     == <<row>>
runVars     == <<present, verdict, shard, phase, chan, nextShard, firstLoad>>
requestVars == <<api, user>>
streamVars  == <<handler, grant, inbox, outbox, hungUp>>
workerVars  == <<worker, session, job, report>>
faultVars   == <<crashes, drops, restarts>>
vars == <<rowVars, runVars, requestVars, watchdog, streamVars, workerVars,
          faultVars>>

\* Mutant of AssignmentMsg: the shard index counted from one.
AssignmentFromOne(i) == [kind |-> "assignment", shard |-> i + 1]
AssignmentMsg(i) == [kind |-> "assignment", shard |-> i]
AbortMsg         == [kind |-> "abort", shard |-> NoShard]
ServerMsgs       == {AssignmentMsg(i) : i \in Shards} \cup {AbortMsg}
WorkerMsgs       == {"register", "metric"} \cup Terminal

HandlerStates ==
    {"none", "open", "assign", "assignFirst", "markRunning",
     "writeCompleted", "writeFailed", "writeAborted", "closeFailed", "closed"}

TypeOK ==
    /\ row \in Rows
    /\ present \in BOOLEAN
    /\ verdict \in Verdicts
    /\ shard \in [Workers -> Shards \cup {NoShard}]
    /\ phase \in [Workers -> Phases]
    /\ chan \in [Workers -> {NoChan} \cup (1..MaxSessions)]
    /\ nextShard \in 0..Expected
    /\ firstLoad \in BOOLEAN
    /\ api \in {"start", "inserted", "dispatching", "cancel", "markFailed",
                "done"}
    /\ user \in {"idle", "send", "mark", "done"}
    /\ watchdog \in {"off", "registration", "deadline", "startup", "backstop",
                     "hung", "write", "exited"}
    /\ handler \in [Sessions -> HandlerStates]
    /\ grant \in [Sessions -> Shards \cup {NoShard}]
    /\ inbox \in [Sessions -> Seq(WorkerMsgs)]
    /\ outbox \in [Sessions -> Seq(ServerMsgs)]
    /\ hungUp \in [Sessions -> BOOLEAN]
    /\ worker \in [Workers -> {"none", "connect", "wait", "run", "died",
                               "exited"}]
    /\ session \in [Workers -> 0..MaxSessions]
    /\ job \in [Workers -> Shards \cup {NoShard}]
    /\ report \in [Workers -> {"none"} \cup Terminal]
    /\ crashes \in 0..MaxCrashes
    /\ drops \in 0..MaxDrops
    /\ restarts \in 0..MaxRestarts

Init ==
    /\ row = "none"
    /\ present = FALSE
    /\ verdict = "none"
    /\ shard = [w \in Workers |-> NoShard]
    /\ phase = [w \in Workers |-> "started"]
    /\ chan = [w \in Workers |-> NoChan]
    /\ nextShard = 0
    /\ firstLoad = FALSE
    /\ api = "start"
    /\ user = "idle"
    /\ watchdog = "off"
    /\ handler = [s \in Sessions |-> "none"]
    /\ grant = [s \in Sessions |-> NoShard]
    /\ inbox = [s \in Sessions |-> <<>>]
    /\ outbox = [s \in Sessions |-> <<>>]
    /\ hungUp = [s \in Sessions |-> FALSE]
    /\ worker = [w \in Workers |-> "none"]
    /\ session = [w \in Workers |-> 0]
    /\ job = [w \in Workers |-> NoShard]
    /\ report = [w \in Workers |-> "none"]
    /\ crashes = 0
    /\ drops = 0
    /\ restarts = 0

----------------------------------------------------------------------------
(***************************************************************************)
(* The statements of store/runs.rs, each one atomic UPDATE.                *)
(***************************************************************************)

\* Mutant of SetStatus: the guard on 'aborted' is dropped.
SetStatusUnguarded(status) == row' = status

\* set_status: every transition but the one out of 'aborted'.
SetStatus(status) == row' = IF row = "aborted" THEN row ELSE status

\* mark_failed_if_active: only a pending or running row.
MarkFailedIfActive == row' = IF row \in Active THEN "failed" ELSE row

----------------------------------------------------------------------------
(***************************************************************************)
(* The RunWorkers map.                                                     *)
(***************************************************************************)

Registered == {w \in Workers : shard[w] # NoShard}
IsTerminal == verdict # "none"

\* reg_deadline is cancelled once everyone is registered.  No entry leaves
\* the map before the run is terminal, so next_shard counts the entries.
AllRegistered == nextShard = Expected

\* done is cancelled wherever terminal is set, and by cancel_dispatch_failed.
DoneCancelled == IsTerminal \/ ~present

\* Mutant of EntrySessions: the filter keeps the reporter, not its siblings.
EntrySessionsSwapped(except) == {<<w, chan[w]>> : w \in Registered \cap except}

\* The senders fan_out_abort uses: those of the entries, by session.
EntrySessions(except) == {<<w, chan[w]>> : w \in Registered \ except}

\* A send to a session whose worker hung up fails and is ignored.
FanOutAbort(targets) ==
    outbox' = [s \in Sessions |->
                 IF s \in targets /\ ~hungUp[s]
                 THEN Append(outbox[s], AbortMsg)
                 ELSE outbox[s]]

Drop(w) ==
    /\ shard' = [shard EXCEPT ![w] = NoShard]
    /\ phase' = [phase EXCEPT ![w] = "started"]
    /\ chan' = [chan EXCEPT ![w] = NoChan]

DropAll ==
    /\ shard' = [w \in Workers |-> NoShard]
    /\ phase' = [w \in Workers |-> "started"]
    /\ chan' = [w \in Workers |-> NoChan]

----------------------------------------------------------------------------
(***************************************************************************)
(* spawn_run, dispatcher mode.                                             *)
(***************************************************************************)

\* spawn_run inserts the row as pending.
InsertRun ==
    /\ api = "start"
    /\ row' = "pending"
    /\ api' = "inserted"
    /\ UNCHANGED <<runVars, user, watchdog, streamVars, workerVars, faultVars>>

\* enqueue: a fresh RunWorkers and its watchdog task.
Enqueue ==
    /\ api = "inserted"
    /\ present' = TRUE
    /\ watchdog' = "registration"
    /\ api' = "dispatching"
    /\ UNCHANGED <<row, verdict, shard, phase, chan, nextShard, firstLoad, user,
                   streamVars, workerVars, faultVars>>

Spawned == {w \in Workers : worker[w] # "none"}

\* dispatch: one worker process per shard, one after the other.
SpawnWorker(w) ==
    /\ api = "dispatching"
    /\ worker[w] = "none"
    /\ Cardinality(Spawned) < Expected
    /\ worker' = [worker EXCEPT ![w] = "connect"]
    /\ UNCHANGED <<row, runVars, requestVars, watchdog, streamVars, session, job,
                   report, faultVars>>

DispatchDone ==
    /\ api = "dispatching"
    /\ Cardinality(Spawned) = Expected
    /\ api' = "done"
    /\ UNCHANGED <<row, runVars, user, watchdog, streamVars, workerVars,
                   faultVars>>

\* cmd.spawn fails for one of the processes; the earlier ones keep running.
DispatchFail ==
    /\ api = "dispatching"
    /\ Cardinality(Spawned) < Expected
    /\ api' = "cancel"
    /\ UNCHANGED <<row, runVars, user, watchdog, streamVars, workerVars,
                   faultVars>>

\* cancel_dispatch_failed removes the entry and aborts who raced in.
CancelDispatchFailed ==
    /\ api = "cancel"
    /\ present' = FALSE
    /\ FanOutAbort(EntrySessions({}))
    /\ DropAll
    /\ api' = "markFailed"
    /\ UNCHANGED <<row, verdict, nextShard, firstLoad, user, watchdog, handler,
                   grant, inbox, hungUp, workerVars, faultVars>>

\* mark_failed has no guard on the current status.
MarkDispatchFailed ==
    /\ api = "markFailed"
    /\ row' = "failed"
    /\ api' = "done"
    /\ UNCHANGED <<runVars, user, watchdog, streamVars, workerVars, faultVars>>

----------------------------------------------------------------------------
(***************************************************************************)
(* abort_run: read the row, tell the registered workers, write the row.    *)
(***************************************************************************)

AbortCheck ==
    /\ MaxAborts > 0
    /\ user = "idle"
    /\ row \in Active
    /\ user' = "send"
    /\ UNCHANGED <<row, runVars, api, watchdog, streamVars, workerVars, faultVars>>

CoordinatorAbort ==
    /\ user = "send"
    /\ FanOutAbort(EntrySessions({}))
    /\ user' = "mark"
    /\ UNCHANGED <<row, runVars, api, watchdog, handler, grant, inbox, hungUp,
                   workerVars, faultVars>>

MarkAborted ==
    /\ user = "mark"
    /\ row' = "aborted"
    /\ user' = "done"
    /\ UNCHANGED <<runVars, api, watchdog, streamVars, workerVars, faultVars>>

----------------------------------------------------------------------------
(***************************************************************************)
(* The stream handler of a session: one message at a time, each to its     *)
(* last await before the next is read.                                     *)
(***************************************************************************)

Reads(s, m) ==
    /\ handler[s] = "open"
    /\ inbox[s] # <<>>
    /\ Head(inbox[s]) = m
    /\ inbox' = [inbox EXCEPT ![s] = Tail(@)]

\* register, the four outcomes of its critical section.
RegisterNoRun(s) ==
    /\ ~present
    /\ handler' = [handler EXCEPT ![s] = "closed"]
    /\ UNCHANGED <<shard, phase, chan, nextShard, grant, outbox>>

RegisterReject(s) ==
    /\ present
    /\ IsTerminal \/ (shard[s[1]] = NoShard /\ AllRegistered)
    /\ FanOutAbort({s})
    /\ handler' = [handler EXCEPT ![s] = "closed"]
    /\ UNCHANGED <<shard, phase, chan, nextShard, grant>>

\* Mutant of RegisterResend: the shard is recomputed from the registrations.
ResendLatest(s) ==
    /\ present /\ ~IsTerminal
    /\ shard[s[1]] # NoShard
    /\ grant' = [grant EXCEPT ![s] = nextShard - 1]
    /\ handler' = [handler EXCEPT ![s] = "assign"]
    /\ UNCHANGED <<shard, phase, chan, nextShard, outbox>>

\* The entry keeps its sender: a reconnecting worker's new session is not
\* the one an abort is sent to.
RegisterResend(s) ==
    /\ present /\ ~IsTerminal
    /\ shard[s[1]] # NoShard
    /\ grant' = [grant EXCEPT ![s] = shard[s[1]]]
    /\ handler' = [handler EXCEPT ![s] = "assign"]
    /\ UNCHANGED <<shard, phase, chan, nextShard, outbox>>

RegisterAssigned(s) ==
    /\ present /\ ~IsTerminal
    /\ shard[s[1]] = NoShard
    /\ ~AllRegistered
    /\ shard' = [shard EXCEPT ![s[1]] = nextShard]
    /\ phase' = [phase EXCEPT ![s[1]] = "started"]
    /\ chan' = [chan EXCEPT ![s[1]] = s[2]]
    /\ grant' = [grant EXCEPT ![s] = nextShard]
    /\ nextShard' = nextShard + 1
    /\ handler' = [handler EXCEPT
                     ![s] = IF Registered = {} THEN "assignFirst" ELSE "assign"]
    /\ UNCHANGED outbox

HandleRegister(s) ==
    /\ Reads(s, "register")
    /\ \/ RegisterNoRun(s)
       \/ RegisterReject(s)
       \/ RegisterResend(s)
       \/ RegisterAssigned(s)
    /\ UNCHANGED <<row, present, verdict, firstLoad, requestVars, watchdog,
                   hungUp, workerVars, faultVars>>

\* assignment_for takes the lock again; it asks for the run and not for the
\* worker's entry, nor whether the run became terminal since.
SendAssignment(s) ==
    /\ handler[s] \in {"assign", "assignFirst"}
    /\ \/ /\ present
          /\ outbox' = IF hungUp[s] THEN outbox
                       ELSE [outbox EXCEPT ![s] = Append(@, AssignmentMsg(grant[s]))]
          /\ handler' = [handler EXCEPT
                           ![s] = IF @ = "assignFirst" THEN "markRunning" ELSE "open"]
       \/ /\ ~present
          /\ handler' = [handler EXCEPT ![s] = "closed"]
          /\ UNCHANGED outbox
    /\ UNCHANGED <<row, runVars, requestVars, watchdog, grant, inbox, hungUp,
                   workerVars, faultVars>>

\* The first registrant's handler moves the row to running.
SetRunning(s) ==
    /\ handler[s] = "markRunning"
    /\ SetStatus("running")
    /\ handler' = [handler EXCEPT ![s] = "open"]
    /\ UNCHANGED <<runVars, requestVars, watchdog, grant, inbox, outbox, hungUp,
                   workerVars, faultVars>>

\* ingest_metrics: the run's first batch cancels first_load.
HandleMetric(s) ==
    /\ Reads(s, "metric")
    /\ firstLoad' = (firstLoad \/ present)
    /\ UNCHANGED <<row, present, verdict, shard, phase, chan, nextShard,
                   requestVars, watchdog, handler, grant, outbox, hungUp,
                   workerVars, faultVars>>

\* Mutant of AllCompleted: the gate without workers.len() == expected.
AllCompletedSoFar(w) == \A v \in Registered \ {w} : phase[v] = "completed"

\* The completion gate of record_phase, on the phases with w's recorded.
AllCompleted(w) ==
    /\ Cardinality(Registered) = Expected
    /\ \A v \in Registered \ {w} : phase[v] = "completed"

\* Mutant of Decides: the terminal guard is dropped.
DecidesAgain(w, reported) == reported = "completed" => AllCompleted(w)

\* record_phase's critical section: what the report decides, if anything.
Decides(w, reported) ==
    /\ ~IsTerminal
    /\ reported = "completed" => AllCompleted(w)

WriteOf(reported) == CASE reported = "completed" -> "writeCompleted"
                       [] reported = "failed" -> "writeFailed"
                       [] reported = "aborted" -> "writeAborted"

HandleStatus(s, reported) ==
    /\ Reads(s, reported)
    /\ phase' = IF present /\ s[1] \in Registered
                THEN [phase EXCEPT ![s[1]] = reported] ELSE phase
    /\ IF present /\ Decides(s[1], reported)
          THEN /\ verdict' = reported
               /\ handler' = [handler EXCEPT ![s] = WriteOf(reported)]
          ELSE UNCHANGED <<verdict, handler>>
    /\ UNCHANGED <<row, present, shard, chan, nextShard, firstLoad, requestVars,
                   watchdog, grant, outbox, hungUp, workerVars, faultVars>>

(***************************************************************************)
(* The database write of the decision, and for a failure the aborts that   *)
(* follow it.  They go to the entries at the time of the decision, which   *)
(* are the entries now: only cancel_dispatch_failed removes any from a     *)
(* terminal run, and it sends the abort itself.                            *)
(***************************************************************************)
Finalize(s) ==
    /\ \/ /\ handler[s] = "writeCompleted"
          /\ SetStatus("completed")
          /\ UNCHANGED outbox
       \/ /\ handler[s] = "writeAborted"
          /\ SetStatus("aborted")
          /\ UNCHANGED outbox
       \/ /\ handler[s] = "writeFailed"
          /\ MarkFailedIfActive
          /\ FanOutAbort(EntrySessions({s[1]}))
    /\ handler' = [handler EXCEPT ![s] = "open"]
    /\ UNCHANGED <<runVars, requestVars, watchdog, grant, inbox, hungUp,
                   workerVars, faultVars>>

\* Mutant of Disconnects: the terminal guard is dropped.
DisconnectsAgain(w) == present /\ w \in Registered /\ phase[w] = "started"

\* worker_disconnected acts on a run in progress whose worker had reported
\* nothing.
Disconnects(w) ==
    /\ present /\ ~IsTerminal
    /\ w \in Registered
    /\ phase[w] = "started"

HandleEof(s) ==
    /\ handler[s] = "open"
    /\ inbox[s] = <<>>
    /\ hungUp[s]
    /\ IF Disconnects(s[1])
          THEN /\ Drop(s[1])
               /\ verdict' = "failed"
               /\ handler' = [handler EXCEPT ![s] = "closeFailed"]
          ELSE /\ handler' = [handler EXCEPT ![s] = "closed"]
               /\ UNCHANGED <<verdict, shard, phase, chan>>
    /\ UNCHANGED <<row, present, nextShard, firstLoad, requestVars, watchdog,
                   grant, inbox, outbox, hungUp, workerVars, faultVars>>

FinalizeDisconnect(s) ==
    /\ handler[s] = "closeFailed"
    /\ MarkFailedIfActive
    /\ FanOutAbort(EntrySessions({}))
    /\ handler' = [handler EXCEPT ![s] = "closed"]
    /\ UNCHANGED <<runVars, requestVars, watchdog, grant, inbox, hungUp,
                   workerVars, faultVars>>

----------------------------------------------------------------------------
(***************************************************************************)
(* The worker process.                                                     *)
(***************************************************************************)

Current(w) == <<w, session[w]>>

\* The inbound stream ends when the last clone of its sender is dropped: the
\* handler's, and the one the entry keeps.
StreamEnded(s) ==
    /\ handler[s] = "closed"
    /\ outbox[s] = <<>>
    /\ s \notin EntrySessions({})

Post(s, m) == IF hungUp[s] THEN inbox ELSE [inbox EXCEPT ![s] = Append(@, m)]

\* The worker closes its end; what the controller still sends is lost.
HangUp(s) ==
    /\ hungUp' = [hungUp EXCEPT ![s] = TRUE]
    /\ outbox' = [outbox EXCEPT ![s] = <<>>]

\* connect_and_register: a new stream, with Register as its first message.
Connect(w) ==
    /\ worker[w] = "connect"
    /\ session[w] < MaxSessions
    /\ LET s == <<w, session[w] + 1>> IN
         /\ session' = [session EXCEPT ![w] = @ + 1]
         /\ handler' = [handler EXCEPT ![s] = "open"]
         /\ inbox' = [inbox EXCEPT ![s] = <<"register">>]
    /\ worker' = [worker EXCEPT ![w] = "wait"]
    /\ UNCHANGED <<row, runVars, requestVars, watchdog, grant, outbox, hungUp, job,
                   report, faultVars>>

Accept(w) ==
    LET s == Current(w) IN
    /\ worker[w] = "wait"
    /\ outbox[s] # <<>>
    /\ Head(outbox[s]).kind = "assignment"
    /\ job' = [job EXCEPT ![w] = Head(outbox[s]).shard]
    /\ outbox' = [outbox EXCEPT ![s] = Tail(@)]
    /\ worker' = [worker EXCEPT ![w] = "run"]
    /\ UNCHANGED <<row, runVars, requestVars, watchdog, handler, grant, inbox,
                   hungUp, session, report, faultVars>>

\* NoAssignment: anything but an assignment first, or the end of the stream.
\* connect_with_backoff tries again.
Refused(w) ==
    LET s == Current(w) IN
    /\ worker[w] = "wait"
    /\ \/ outbox[s] # <<>> /\ Head(outbox[s]) = AbortMsg
       \/ StreamEnded(s)
    /\ HangUp(s)
    /\ worker' = [worker EXCEPT ![w] = "connect"]
    /\ UNCHANGED <<row, runVars, requestVars, watchdog, handler, grant, inbox,
                   session, job, report, faultVars>>

\* The cap on the total backoff is reached: exit status non-zero.
GiveUp(w) ==
    /\ worker[w] = "connect"
    /\ session[w] > 0
    /\ worker' = [worker EXCEPT ![w] = "died"]
    /\ UNCHANGED <<row, runVars, requestVars, watchdog, streamVars, session, job,
                   report, faultVars>>

\* The engine flushes a batch of metrics (one is enough for first_load).
Metric(w) ==
    LET s == Current(w) IN
    /\ worker[w] = "run"
    /\ ~firstLoad
    /\ \A i \in DOMAIN inbox[s] : inbox[s][i] # "metric"
    /\ inbox' = Post(s, "metric")
    /\ UNCHANGED <<row, runVars, requestVars, watchdog, handler, grant, outbox,
                   hungUp, workerVars, faultVars>>

\* The end of execute_assignment: report the phase, drop the sender, exit 0.
Ends(w, result) ==
    LET s == Current(w) IN
    /\ worker[w] = "run"
    /\ report' = [report EXCEPT ![w] = result]
    /\ inbox' = Post(s, result)
    /\ HangUp(s)
    /\ worker' = [worker EXCEPT ![w] = "exited"]
    /\ UNCHANGED <<row, runVars, requestVars, watchdog, handler, grant, session, job>>

EngineReturns(w) ==
    /\ \E result \in {"completed", "failed"} : Ends(w, result)
    /\ UNCHANGED faultVars

\* abort_listener_loop: an AbortRun, or a stream that ended without one.
AbortListener(w) ==
    LET s == Current(w) IN
    /\ worker[w] = "run"
    /\ \/ outbox[s] # <<>> /\ Head(outbox[s]) = AbortMsg
       \/ StreamEnded(s)
    /\ Ends(w, "aborted")
    /\ UNCHANGED faultVars

\* SIGTERM cancels the same token.
Sigterm(w) ==
    /\ crashes < MaxCrashes
    /\ crashes' = crashes + 1
    /\ Ends(w, "aborted")
    /\ UNCHANGED <<drops, restarts>>

\* What of the session's messages the controller still gets when it breaks.
Breaks(s) ==
    /\ \E n \in 0..Len(inbox[s]) :
         inbox' = [inbox EXCEPT ![s] = SubSeq(@, 1, n)]
    /\ HangUp(s)

\* The process dies: killed, or an assignment whose scenario does not parse.
Crash(w) ==
    /\ crashes < MaxCrashes
    /\ crashes' = crashes + 1
    /\ \/ /\ worker[w] = "connect"
          /\ UNCHANGED <<inbox, hungUp, outbox>>
       \/ /\ worker[w] \in {"wait", "run"}
          /\ Breaks(Current(w))
    /\ worker' = [worker EXCEPT ![w] = "died"]
    /\ UNCHANGED <<row, runVars, requestVars, watchdog, handler, grant, session, job,
                   report, drops, restarts>>

\* The connection breaks under a live process.  Waiting, it reconnects;
\* running, it cancels the engine and its report is lost.
NetDrop(w) ==
    /\ drops < MaxDrops
    /\ drops' = drops + 1
    /\ \/ /\ worker[w] = "wait"
          /\ worker' = [worker EXCEPT ![w] = "connect"]
          /\ UNCHANGED report
       \/ /\ worker[w] = "run"
          /\ worker' = [worker EXCEPT ![w] = "exited"]
          /\ report' = [report EXCEPT ![w] = "aborted"]
    /\ Breaks(Current(w))
    /\ UNCHANGED <<row, runVars, requestVars, watchdog, handler, grant, session, job,
                   crashes, restarts>>

\* SubprocessDispatcher's reaper: a non-zero exit fails the row, and nothing
\* else.  A restarted controller is no longer the parent of its workers.
Reaper(w) ==
    /\ worker[w] = "died"
    /\ IF restarts = 0 THEN MarkFailedIfActive ELSE UNCHANGED row
    /\ worker' = [worker EXCEPT ![w] = "exited"]
    /\ UNCHANGED <<runVars, requestVars, watchdog, streamVars, session, job, report,
                   faultVars>>

----------------------------------------------------------------------------
(***************************************************************************)
(* run_watchdog.                                                           *)
(***************************************************************************)

WatchdogMoves(from, to) ==
    /\ watchdog = from
    /\ watchdog' = to
    /\ UNCHANGED <<row, runVars, requestVars, streamVars, workerVars, faultVars>>

AwaitsPhase == watchdog \in {"registration", "startup", "backstop"}

\* Phase 1: all registered, or the deadline, or done.
RegistrationComplete == AllRegistered /\ WatchdogMoves("registration", "startup")
RegistrationDeadline == WatchdogMoves("registration", "deadline")

\* fail_incomplete_registration: its own critical section, then that of
\* fail_run_hung.  Whatever it finds, the task is over after it.
FailIncompleteRegistration ==
    WatchdogMoves("deadline",
                  IF present /\ ~IsTerminal /\ ~AllRegistered THEN "hung" ELSE "exited")

\* Mutant of FirstLoad: the task ends with the first batch.
FirstLoadEnds == firstLoad /\ WatchdogMoves("startup", "exited")

\* Phases 2 and 3: the first batch of metrics, then the terminal state.
FirstLoad    == firstLoad /\ WatchdogMoves("startup", "backstop")
StartupGrace == WatchdogMoves("startup", "hung")
Backstop     == WatchdogMoves("backstop", "hung")

WatchdogDone == AwaitsPhase /\ DoneCancelled /\ WatchdogMoves(watchdog, "exited")

FailRunHung ==
    /\ watchdog = "hung"
    /\ IF present /\ ~IsTerminal
         THEN verdict' = "failed" /\ watchdog' = "write"
         ELSE watchdog' = "exited" /\ UNCHANGED verdict
    /\ UNCHANGED <<row, present, shard, phase, chan, nextShard, firstLoad,
                   requestVars, streamVars, workerVars, faultVars>>

FinalizeHung ==
    /\ watchdog = "write"
    /\ MarkFailedIfActive
    /\ FanOutAbort(EntrySessions({}))
    /\ watchdog' = "exited"
    /\ UNCHANGED <<runVars, requestVars, handler, grant, inbox, hungUp, workerVars,
                   faultVars>>

----------------------------------------------------------------------------
(***************************************************************************)
(* The controller process restarts: every task and the runs map are gone,  *)
(* every connection breaks, and before it serves again it fails the row    *)
(* that was left active.                                                   *)
(***************************************************************************)
Restart ==
    /\ restarts < MaxRestarts
    /\ restarts' = restarts + 1
    /\ row # "none"
    /\ MarkFailedIfActive
    /\ present' = FALSE
    /\ DropAll
    /\ api' = "done"
    /\ user' = "done"
    /\ watchdog' = "exited"
    /\ handler' = [s \in Sessions |-> IF handler[s] = "none" THEN "none" ELSE "closed"]
    /\ grant' = [s \in Sessions |-> NoShard]
    /\ inbox' = [s \in Sessions |-> <<>>]
    /\ outbox' = [s \in Sessions |-> <<>>]
    /\ UNCHANGED <<verdict, nextShard, firstLoad, hungUp, workerVars, crashes, drops>>

----------------------------------------------------------------------------
SpawnRun  == InsertRun \/ Enqueue \/ (\E w \in Workers : SpawnWorker(w))
             \/ DispatchDone \/ DispatchFail \/ CancelDispatchFailed
             \/ MarkDispatchFailed
AbortRun  == AbortCheck \/ CoordinatorAbort \/ MarkAborted

Handler(s) ==
    \/ HandleRegister(s) \/ SendAssignment(s) \/ SetRunning(s) \/ HandleMetric(s)
    \/ \E reported \in Terminal : HandleStatus(s, reported)
    \/ Finalize(s) \/ HandleEof(s) \/ FinalizeDisconnect(s)

\* The worker's answers to the controller, as against its own load.
Answers(w) == Connect(w) \/ Accept(w) \/ Refused(w) \/ GiveUp(w) \/ AbortListener(w)
Engine(w)  == Metric(w) \/ EngineReturns(w)
Faults(w)  == Crash(w) \/ NetDrop(w) \/ Sigterm(w)

Watchdog ==
    \/ RegistrationComplete \/ RegistrationDeadline \/ FailIncompleteRegistration
    \/ FirstLoad \/ StartupGrace \/ Backstop \/ WatchdogDone
    \/ FailRunHung \/ FinalizeHung

Next ==
    \/ SpawnRun \/ AbortRun \/ Watchdog \/ Restart
    \/ \E s \in Sessions : Handler(s)
    \/ \E w \in Workers : Answers(w) \/ Engine(w) \/ Faults(w) \/ Reaper(w)

(***************************************************************************)
(* The runtime polls every task that is ready, timers fire, and TCP        *)
(* delivers.  Nothing makes a user abort, a process fail, or an engine     *)
(* return: a scenario may hang.                                            *)
(***************************************************************************)
Fairness ==
    /\ WF_vars(SpawnRun)
    /\ WF_vars(CoordinatorAbort \/ MarkAborted)
    /\ WF_vars(Watchdog)
    /\ \A s \in Sessions : WF_vars(Handler(s))
    /\ \A w \in Workers : WF_vars(Answers(w)) /\ WF_vars(Reaper(w))

Spec     == Init /\ [][Next]_vars
FairSpec == Spec /\ Fairness

----------------------------------------------------------------------------
(***************************************************************************)
(* Properties.                                                             *)
(***************************************************************************)

\* A run is recorded as completed only if every one of its shards was run to
\* its end by a worker: record_phase counts entries, never shards, and the
\* gate must not be met by a worker counted twice, one dropped and replaced,
\* or one that reported before the others were handed a shard.
CompletedCoversAllShards ==
    row = "completed" =>
        \A i \in Shards : \E w \in Workers : job[w] = i /\ report[w] = "completed"

\* No two workers accept the same shard, through every reconnection, Resend
\* and late assignment: the VU ranges and unique data slices stay disjoint.
NoSharedShard ==
    \A v, w \in Workers : v # w /\ job[v] # NoShard => job[v] # job[w]

\* Of the handlers and the watchdog, one task at most is between deciding the
\* outcome of the run and writing it: the terminal guard under the mutex.
Finalizers ==
    {s \in Sessions : handler[s] \in {"writeCompleted", "writeFailed", "writeAborted",
                                      "closeFailed"}}
AtMostOneFinalizer ==
    /\ Cardinality(Finalizers) <= 1
    /\ watchdog = "write" => Finalizers = {}

\* An aborted row stays so, whatever set_status, the reapers and the watchdog
\* still write; only a dispatch that fails overwrites it.
AbortedRowStays ==
    [][row = "aborted" /\ api # "markFailed" => row' = "aborted"]_vars

\* A run whose workers have all registered ends: hung, disconnected or silent
\* workers are failed by the watchdog's phases 2 and 3.
RegisteredRunTerminates ==
    watchdog \in {"startup", "backstop"} ~> (IsTerminal \/ ~present)

\* Fail-fast: once the run has failed, a worker the entry can reach stops its
\* load, wherever its assignment was at that moment.
FailFastStopsSiblings ==
    \A w \in Workers :
        (verdict = "failed" /\ w \in Registered /\ chan[w] = session[w]
           /\ worker[w] = "run") ~> (worker[w] # "run")

\* The coordinator implements RunOutcome: one outcome, no shard handed out
\* after it or twice, and no completion without all of them.
Outcome ==
    CASE IsTerminal -> verdict
      [] ~IsTerminal /\ ~present /\ api \notin {"start", "inserted"} -> "withdrawn"
      [] OTHER -> "none"

Promise == INSTANCE RunOutcome WITH
    outcome  <- Outcome,
    handed   <- 0..(nextShard - 1),
    finished <- {job[w] : w \in {v \in Workers : report[v] = "completed"}}

ImplementsRunOutcome == Promise!Spec

----------------------------------------------------------------------------
(***************************************************************************)
(* What the repository's comments and documents say, and the code does not *)
(* do (see README, findings).                                              *)
(***************************************************************************)

\* Once the coordinator holds an outcome, the row ends up terminal for good:
\* "the last stuck-running" is closed.
TerminalRunHasTerminalRow == IsTerminal ~> [](row \in Terminal)

\* abort_run: "If the worker hasn't registered yet (still pending),
\* mark_aborted below is sufficient", so no shard is handed out after it.
NoShardAfterAbort ==
    [][row = "aborted" => \A w \in Workers : shard[w] = NoShard => shard'[w] = NoShard]_vars
=============================================================================
