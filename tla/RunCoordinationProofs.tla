----------------------- MODULE RunCoordinationProofs -----------------------
(***************************************************************************)
(* How a run is coordinated, for every number of workers, shards, sessions *)
(* and faults: who has a shard, when a run is completed, one task at a     *)
(* time between a decision and its write, an aborted row that stays so,    *)
(* and the coordinator as an implementation of RunOutcome.                 *)
(***************************************************************************)
EXTENDS RunCoordination, TLAPS, FiniteSetTheorems, SequenceTheorems

----------------------------------------------------------------------------
(***************************************************************************)
(* Types.  TypeOK is not inductive: that the index put into an assignment  *)
(* is a shard's depends on the handler's position.                         *)
(***************************************************************************)
GrantedWhenAssigning ==
    \A s \in Sessions : handler[s] \in {"assign", "assignFirst"} => grant[s] \in Shards

ConnectedHasSession ==
    \A w \in Workers : worker[w] \in {"wait", "run"} => session[w] # 0

TypeInv == TypeOK /\ GrantedWhenAssigning /\ ConnectedHasSession

\* Initially the types are right.
LEMMA TypeInit == Init => TypeInv
<1> SUFFICES ASSUME Init
             PROVE  TypeInv
  OBVIOUS
<1>1. /\ MaxSessions \in Nat /\ MaxCrashes \in Nat /\ MaxDrops \in Nat
      /\ MaxRestarts \in Nat /\ Expected \in Nat \ {0}
  BY RunCoordinationAssumption DEF RunCoordinationAssumption
<1>2. /\ inbox \in [Sessions -> Seq(WorkerMsgs)]
      /\ outbox \in [Sessions -> Seq(ServerMsgs)]
  BY EmptySeq DEF Init
<1>3. /\ shard \in [Workers -> Shards \cup {NoShard}]
      /\ phase \in [Workers -> Phases]
      /\ chan \in [Workers -> {NoChan} \cup (1..MaxSessions)]
      /\ handler \in [Sessions -> HandlerStates]
      /\ grant \in [Sessions -> Shards \cup {NoShard}]
      /\ hungUp \in [Sessions -> BOOLEAN]
  BY <1>1 DEF Init, Phases, HandlerStates
<1>4. /\ session \in [Workers -> 0..MaxSessions]
      /\ job \in [Workers -> Shards \cup {NoShard}]
      /\ report \in [Workers -> {"none"} \cup Terminal]
      /\ worker \in [Workers -> {"none", "connect", "wait", "run", "died", "exited"}]
      /\ nextShard \in 0..Expected /\ crashes \in 0..MaxCrashes
      /\ drops \in 0..MaxDrops /\ restarts \in 0..MaxRestarts
  BY <1>1 DEF Init
<1>5. GrantedWhenAssigning /\ ConnectedHasSession
  BY DEF Init, GrantedWhenAssigning, ConnectedHasSession
<1>6. /\ row \in Rows /\ present \in BOOLEAN /\ verdict \in Verdicts
      /\ firstLoad \in BOOLEAN
  BY DEF Init, Rows, Verdicts
<1>7. QED
  BY <1>2, <1>3, <1>4, <1>5, <1>6 DEF Init, TypeInv, TypeOK, ConnectedHasSession

\* What the helpers do to the queues keeps their types.
LEMMA FanOutType ==
    ASSUME TypeOK, NEW targets, FanOutAbort(targets)
    PROVE  outbox' \in [Sessions -> Seq(ServerMsgs)]
<1>1. AbortMsg \in ServerMsgs
  BY DEF ServerMsgs
<1>2. \A s \in Sessions : Append(outbox[s], AbortMsg) \in Seq(ServerMsgs)
  BY <1>1, AppendProperties DEF TypeOK
<1>3. QED
  BY <1>2 DEF TypeOK, FanOutAbort

\* A worker that hangs up empties its outbox.
LEMMA HangUpType ==
    ASSUME TypeOK, NEW s, HangUp(s)
    PROVE  outbox' \in [Sessions -> Seq(ServerMsgs)] /\ hungUp' \in [Sessions -> BOOLEAN]
BY EmptySeq DEF TypeOK, HangUp

\* A handler that reads leaves the rest of the inbox.
LEMMA ReadsType ==
    ASSUME TypeOK, NEW s \in Sessions, NEW m, Reads(s, m)
    PROVE  inbox' \in [Sessions -> Seq(WorkerMsgs)]
BY DEF TypeOK, Reads

\* A broken connection keeps a prefix of what was on its way.
LEMMA BreaksType ==
    ASSUME TypeOK, NEW s \in Sessions, Breaks(s)
    PROVE  /\ inbox' \in [Sessions -> Seq(WorkerMsgs)]
           /\ outbox' \in [Sessions -> Seq(ServerMsgs)]
           /\ hungUp' \in [Sessions -> BOOLEAN]
<1>1. PICK n \in 0..Len(inbox[s]) : inbox' = [inbox EXCEPT ![s] = SubSeq(@, 1, n)]
  BY DEF Breaks
<1>2. inbox[s] \in Seq(WorkerMsgs)
  BY DEF TypeOK
<1>3. SubSeq(inbox[s], 1, n) \in Seq(WorkerMsgs)
  BY <1>2, SubSeqProperties
<1>4. QED
  BY <1>1, <1>3, HangUpType DEF TypeOK, Breaks

\* spawn_run's steps keep them.
LEMMA TypeSpawnRun == TypeInv /\ SpawnRun => TypeInv'
<1> SUFFICES ASSUME TypeInv, SpawnRun
             PROVE  TypeInv'
  OBVIOUS
<1> USE DEF TypeInv, TypeOK, ConnectedHasSession, GrantedWhenAssigning
<1>1. CASE InsertRun
  BY <1>1 DEF InsertRun, runVars, streamVars, workerVars, faultVars, Rows, Active
<1>2. CASE Enqueue
  BY <1>2 DEF Enqueue, streamVars, workerVars, faultVars
<1>3. CASE \E w \in Workers : SpawnWorker(w)
  BY <1>3 DEF SpawnWorker, runVars, requestVars, streamVars, faultVars
<1>4. CASE DispatchDone
  BY <1>4 DEF DispatchDone, runVars, streamVars, workerVars, faultVars
<1>5. CASE DispatchFail
  BY <1>5 DEF DispatchFail, runVars, streamVars, workerVars, faultVars
<1>6. CASE CancelDispatchFailed
  BY <1>6, FanOutType DEF CancelDispatchFailed, DropAll, workerVars, faultVars,
     Phases, NoChan, NoShard
<1>7. CASE MarkDispatchFailed
  BY <1>7 DEF MarkDispatchFailed, runVars, streamVars, workerVars, faultVars, Rows,
     Terminal
<1>8. QED
  BY <1>1, <1>2, <1>3, <1>4, <1>5, <1>6, <1>7 DEF SpawnRun

\* abort_run's steps keep them.
LEMMA TypeAbortRun == TypeInv /\ AbortRun => TypeInv'
<1> SUFFICES ASSUME TypeInv, AbortRun
             PROVE  TypeInv'
  OBVIOUS
<1> USE DEF TypeInv, TypeOK, ConnectedHasSession, GrantedWhenAssigning
<1>1. CASE AbortCheck
  BY <1>1 DEF AbortCheck, runVars, streamVars, workerVars, faultVars
<1>2. CASE CoordinatorAbort
  BY <1>2, FanOutType DEF CoordinatorAbort, runVars, workerVars, faultVars
<1>3. CASE MarkAborted
  BY <1>3 DEF MarkAborted, runVars, streamVars, workerVars, faultVars, Rows, Terminal
<1>4. QED
  BY <1>1, <1>2, <1>3 DEF AbortRun

\* The watchdog's steps keep them.
LEMMA TypeWatchdog == TypeInv /\ Watchdog => TypeInv'
<1> SUFFICES ASSUME TypeInv, Watchdog
             PROVE  TypeInv'
  OBVIOUS
<1> USE DEF TypeInv, TypeOK, ConnectedHasSession, GrantedWhenAssigning
<1>1. ASSUME NEW from, NEW to \in {"deadline", "startup", "backstop", "hung", "exited"},
             WatchdogMoves(from, to)
      PROVE  TypeInv'
  BY <1>1 DEF WatchdogMoves, runVars, requestVars, streamVars, workerVars, faultVars
<1>2. CASE FailRunHung
  BY <1>2 DEF FailRunHung, requestVars, streamVars, workerVars, faultVars, Verdicts,
     Terminal
<1>3. CASE FinalizeHung
  BY <1>3, FanOutType DEF FinalizeHung, MarkFailedIfActive, runVars, requestVars,
     workerVars, faultVars, Rows, Terminal
<1>4. CASE FailIncompleteRegistration
  <2>1. \/ WatchdogMoves("deadline", "hung")
        \/ WatchdogMoves("deadline", "exited")
    BY <1>4 DEF FailIncompleteRegistration
  <2>2. QED
    BY <2>1, <1>1
<1>5. CASE RegistrationComplete \/ RegistrationDeadline \/ FirstLoad
  BY <1>5, <1>1 DEF RegistrationComplete, RegistrationDeadline, FirstLoad
<1>leaves. CASE StartupGrace \/ Backstop \/ WatchdogDone
  BY <1>leaves, <1>1 DEF StartupGrace, Backstop, WatchdogDone
<1>6. QED
  BY <1>2, <1>3, <1>4, <1>5, <1>leaves DEF Watchdog

\* A restart keeps them.
LEMMA TypeRestart == TypeInv /\ Restart => TypeInv'
<1> SUFFICES ASSUME TypeInv, Restart
             PROVE  TypeInv'
  OBVIOUS
<1>1. MaxRestarts \in Nat
  BY RunCoordinationAssumption DEF RunCoordinationAssumption
<1>2. /\ inbox' \in [Sessions -> Seq(WorkerMsgs)]
      /\ outbox' \in [Sessions -> Seq(ServerMsgs)]
  BY EmptySeq DEF Restart
<1>3. /\ shard' \in [Workers -> Shards \cup {NoShard}]
      /\ phase' \in [Workers -> Phases]
      /\ chan' \in [Workers -> {NoChan} \cup (1..MaxSessions)]
      /\ handler' \in [Sessions -> HandlerStates]
      /\ grant' \in [Sessions -> Shards \cup {NoShard}]
  BY DEF Restart, DropAll, Phases, HandlerStates
<1>4. row' \in Rows /\ restarts' \in 0..MaxRestarts
  BY <1>1 DEF TypeInv, TypeOK, ConnectedHasSession, Restart, MarkFailedIfActive, Rows, Terminal
<1>5. GrantedWhenAssigning'
  BY DEF Restart, GrantedWhenAssigning
<1>6. QED
  BY <1>2, <1>3, <1>4, <1>5 DEF TypeInv, TypeOK, ConnectedHasSession, Restart, workerVars

\* A stream handler's steps keep them.
LEMMA TypeHandler == ASSUME NEW s \in Sessions, TypeInv, Handler(s)
                     PROVE  TypeInv'
<1>0. TypeOK /\ GrantedWhenAssigning /\ ConnectedHasSession /\ s[1] \in Workers /\ s[2] \in 1..MaxSessions
  BY DEF TypeInv, Sessions
<1>1. CASE HandleRegister(s)
  <2>1. inbox' \in [Sessions -> Seq(WorkerMsgs)]
    BY <1>1, <1>0, ReadsType DEF HandleRegister
  <2>2. UNCHANGED <<row, present, verdict, firstLoad, requestVars, watchdog, hungUp,
                    workerVars, faultVars>>
    BY <1>1 DEF HandleRegister
  <2>3. CASE RegisterNoRun(s)
    BY <2>1, <2>2, <2>3, <1>0, SMTT(30) DEF RegisterNoRun, TypeInv, TypeOK, ConnectedHasSession, GrantedWhenAssigning,
       requestVars, workerVars, faultVars, HandlerStates
  <2>4. CASE RegisterReject(s)
    BY <2>1, <2>2, <2>4, <1>0, FanOutType, SMTT(30) DEF RegisterReject, TypeInv, TypeOK, ConnectedHasSession,
       GrantedWhenAssigning, requestVars, workerVars, faultVars, HandlerStates
  <2>5. CASE RegisterResend(s)
    BY <2>1, <2>2, <2>5, <1>0 DEF RegisterResend, TypeInv, TypeOK, ConnectedHasSession, GrantedWhenAssigning,
       requestVars, workerVars, faultVars, HandlerStates
  <2>6. CASE RegisterAssigned(s)
    <3>1. nextShard \in Shards /\ nextShard + 1 \in 0..Expected
      <4>1. nextShard \in 0..Expected
        BY <1>0 DEF TypeOK
      <4>2. nextShard # Expected
        BY <2>6 DEF RegisterAssigned, AllRegistered
      <4> QED BY ONLY <4>1, <4>2, RunCoordinationAssumption DEF RunCoordinationAssumption, Shards
    <3>2. /\ shard' \in [Workers -> Shards \cup {NoShard}]
          /\ phase' \in [Workers -> Phases]
          /\ chan' \in [Workers -> {NoChan} \cup (1..MaxSessions)]
          /\ grant' \in [Sessions -> Shards \cup {NoShard}]
      BY <2>6, <3>1, <1>0 DEF RegisterAssigned, TypeOK, Phases
    <3>3. handler' \in [Sessions -> HandlerStates]
      BY <2>6, <1>0 DEF RegisterAssigned, TypeOK, HandlerStates
    <3>4. GrantedWhenAssigning'
      BY <2>6, <3>1, <1>0 DEF RegisterAssigned, TypeOK, GrantedWhenAssigning
    <3>5. nextShard' \in 0..Expected /\ outbox' = outbox
      BY <2>6, <3>1 DEF RegisterAssigned
    <3>6. QED
      BY <2>1, <2>2, <3>2, <3>3, <3>4, <3>5, <1>0, SMTT(30) DEF TypeInv, TypeOK, ConnectedHasSession, requestVars,
         workerVars, faultVars
  <2>7. QED
    BY <1>1, <2>3, <2>4, <2>5, <2>6 DEF HandleRegister
<1>2. CASE SendAssignment(s)
  <2>1. AssignmentMsg(grant[s]) \in ServerMsgs
    BY <1>2, <1>0 DEF SendAssignment, GrantedWhenAssigning, ServerMsgs
  <2>append. Append(outbox[s], AssignmentMsg(grant[s])) \in Seq(ServerMsgs)
    BY <2>1, <1>0, AppendProperties DEF TypeOK
  <2>2. outbox' \in [Sessions -> Seq(ServerMsgs)]
    BY <2>append, <1>2, <1>0 DEF SendAssignment, TypeOK
  <2>3. handler' \in [Sessions -> HandlerStates] /\ GrantedWhenAssigning'
    BY <1>2, <1>0 DEF SendAssignment, TypeOK, GrantedWhenAssigning, HandlerStates
  <2>4. QED
    BY <1>2, <1>0, <2>2, <2>3, SMTT(30) DEF SendAssignment, TypeInv, TypeOK, ConnectedHasSession, runVars, requestVars,
       workerVars, faultVars
<1>3. CASE SetRunning(s)
  BY <1>3, <1>0 DEF SetRunning, SetStatus, TypeInv, TypeOK, ConnectedHasSession, GrantedWhenAssigning, runVars,
     requestVars, workerVars, faultVars, HandlerStates, Rows, Active
<1>4. CASE HandleMetric(s)
  <2>1. inbox' \in [Sessions -> Seq(WorkerMsgs)]
    BY <1>4, <1>0, ReadsType DEF HandleMetric
  <2>2. QED
    BY <1>4, <1>0, <2>1 DEF HandleMetric, TypeInv, TypeOK, ConnectedHasSession, GrantedWhenAssigning,
       requestVars, workerVars, faultVars
<1>5. ASSUME NEW reported \in Terminal, HandleStatus(s, reported)
      PROVE  TypeInv'
  <2>1. inbox' \in [Sessions -> Seq(WorkerMsgs)]
    BY <1>5, <1>0, ReadsType DEF HandleStatus
  <2>2. WriteOf(reported) \in HandlerStates \ {"assign", "assignFirst"}
    BY DEF WriteOf, HandlerStates, Terminal
  <2>3. handler' \in [Sessions -> HandlerStates] /\ GrantedWhenAssigning'
    BY <1>5, <1>0, <2>2 DEF HandleStatus, TypeOK, GrantedWhenAssigning
  <2>4. phase' \in [Workers -> Phases] /\ verdict' \in Verdicts
    BY <1>5, <1>0 DEF HandleStatus, TypeOK, Phases, Verdicts
  <2>5. QED
    BY <1>5, <1>0, <2>1, <2>3, <2>4, SMTT(30) DEF HandleStatus, TypeInv, TypeOK, ConnectedHasSession, requestVars,
       workerVars, faultVars
<1>6. CASE Finalize(s)
  <2>1. outbox' \in [Sessions -> Seq(ServerMsgs)]
    BY <1>6, <1>0, FanOutType DEF Finalize, TypeOK
  <2>2. row' \in Rows
    BY <1>6, <1>0 DEF Finalize, TypeOK, SetStatus, MarkFailedIfActive, Rows, Terminal
  <2>3. QED
    BY <1>6, <1>0, <2>1, <2>2 DEF Finalize, TypeInv, TypeOK, ConnectedHasSession, GrantedWhenAssigning,
       runVars, requestVars, workerVars, faultVars, HandlerStates
<1>7. CASE HandleEof(s)
  <2>1. /\ shard' \in [Workers -> Shards \cup {NoShard}]
        /\ phase' \in [Workers -> Phases]
        /\ chan' \in [Workers -> {NoChan} \cup (1..MaxSessions)]
    BY <1>7, <1>0 DEF HandleEof, Drop, TypeOK, Phases
  <2>2. handler' \in [Sessions -> HandlerStates] /\ verdict' \in Verdicts
    BY <1>7, <1>0 DEF HandleEof, TypeOK, HandlerStates, Verdicts, Terminal
  <2>3. GrantedWhenAssigning'
    BY <1>7, <1>0 DEF HandleEof, TypeOK, GrantedWhenAssigning
  <2>4. QED
    BY <1>7, <1>0, <2>1, <2>2, <2>3 DEF HandleEof, TypeInv, TypeOK, ConnectedHasSession, requestVars,
       workerVars, faultVars
<1>8. CASE FinalizeDisconnect(s)
  <2>1. row' \in Rows
    BY <1>8, <1>0 DEF FinalizeDisconnect, TypeOK, MarkFailedIfActive, Rows, Terminal
  <2>2. QED
    BY <1>8, <1>0, <2>1, FanOutType, SMTT(30) DEF FinalizeDisconnect, TypeInv, TypeOK, ConnectedHasSession,
       GrantedWhenAssigning, runVars, requestVars, workerVars, faultVars, HandlerStates
<1>9. QED
  BY <1>1, <1>2, <1>3, <1>4, <1>5, <1>6, <1>7, <1>8 DEF Handler

\* The session of a worker that ever connected is one of Sessions.
LEMMA CurrentIsSession ==
    ASSUME TypeOK, NEW w \in Workers, session[w] # 0
    PROVE  Current(w) \in Sessions
BY RunCoordinationAssumption DEF RunCoordinationAssumption, TypeOK, Current, Sessions

\* Ends, for the three ways an engine ends.
LEMMA TypeEnds ==
    ASSUME TypeInv, NEW w \in Workers, NEW result \in Terminal, Ends(w, result),
           faultVars' \in (0..MaxCrashes) \X (0..MaxDrops) \X (0..MaxRestarts)
    PROVE  TypeInv'
<1>0. TypeOK /\ GrantedWhenAssigning /\ ConnectedHasSession
  BY DEF TypeInv
<1>1. inbox' \in [Sessions -> Seq(WorkerMsgs)]
  <2>1. result \in WorkerMsgs
    BY DEF WorkerMsgs
  <2>2. QED
    BY <1>0, <2>1, AppendProperties, ZenonT(60) DEF TypeOK, Ends, Post
<1>2. outbox' \in [Sessions -> Seq(ServerMsgs)] /\ hungUp' \in [Sessions -> BOOLEAN]
  BY <1>0, HangUpType DEF Ends
<1>3. QED
  BY <1>0, <1>1, <1>2 DEF Ends, TypeInv, TypeOK, ConnectedHasSession, GrantedWhenAssigning, runVars, requestVars,
     faultVars

\* A worker's steps keep them.
LEMMA TypeWorker == ASSUME NEW w \in Workers, TypeInv,
                           Answers(w) \/ Engine(w) \/ Faults(w) \/ Reaper(w)
                    PROVE  TypeInv'
<1>0. TypeOK /\ GrantedWhenAssigning /\ ConnectedHasSession
  BY DEF TypeInv
<1>bounds. MaxSessions \in Nat /\ MaxCrashes \in Nat /\ MaxDrops \in Nat
  BY RunCoordinationAssumption DEF RunCoordinationAssumption
<1>1. CASE Connect(w)
  <2>1. <<"register">> \in Seq(WorkerMsgs)
    BY DEF WorkerMsgs
  <2>2. inbox' \in [Sessions -> Seq(WorkerMsgs)]
    BY <1>1, <1>0, <2>1 DEF Connect, TypeOK
  <2>3. handler' \in [Sessions -> HandlerStates] /\ GrantedWhenAssigning'
    BY <1>1, <1>0 DEF Connect, TypeOK, GrantedWhenAssigning, HandlerStates
  <2>4. session' \in [Workers -> 0..MaxSessions] /\ ConnectedHasSession'
    BY <1>1, <1>0, <1>bounds DEF Connect, TypeOK, ConnectedHasSession
  <2>5. QED
    BY <1>1, <1>0, <2>2, <2>3, <2>4 DEF Connect, TypeInv, TypeOK, runVars, requestVars,
       faultVars
<1>2. CASE Accept(w)
  <2> DEFINE s == Current(w)
  <2>1. s \in Sessions
    BY <1>2, <1>0, CurrentIsSession DEF Accept, ConnectedHasSession
  <2>2. Head(outbox[s]) \in ServerMsgs /\ Tail(outbox[s]) \in Seq(ServerMsgs)
    BY <1>2, <1>0, <2>1, HeadTailProperties DEF Accept, TypeOK
  <2>3. Head(outbox[s]).shard \in Shards \cup {NoShard}
    BY <2>2 DEF ServerMsgs, AssignmentMsg, AbortMsg
  <2>4. QED
    BY <1>2, <1>0, <2>2, <2>3, ZenonT(60) DEF Accept, TypeInv, TypeOK, ConnectedHasSession,
       GrantedWhenAssigning, runVars, requestVars, faultVars
<1>3. CASE Refused(w)
  BY <1>3, <1>0, HangUpType DEF Refused, TypeInv, TypeOK, ConnectedHasSession, GrantedWhenAssigning, runVars,
     requestVars, faultVars
<1>4. CASE GiveUp(w)
  BY <1>4, <1>0 DEF GiveUp, TypeInv, TypeOK, ConnectedHasSession, GrantedWhenAssigning, runVars, requestVars,
     streamVars, faultVars
<1>5. CASE AbortListener(w)
  BY <1>5, <1>0, TypeEnds DEF AbortListener, TypeOK, faultVars, Terminal
<1>6. CASE Metric(w)
  <2>1. "metric" \in WorkerMsgs
    BY DEF WorkerMsgs
  <2>2. inbox' \in [Sessions -> Seq(WorkerMsgs)]
    BY <1>6, <1>0, <2>1, AppendProperties, ZenonT(60) DEF Metric, Post, TypeOK
  <2>3. QED
    BY <1>6, <1>0, <2>2 DEF Metric, TypeInv, TypeOK, ConnectedHasSession, GrantedWhenAssigning, runVars,
       requestVars, workerVars, faultVars
<1>7. CASE EngineReturns(w)
  BY <1>7, <1>0, TypeEnds DEF EngineReturns, TypeOK, faultVars, Terminal
<1>8. CASE Sigterm(w)
  <2>1. faultVars' \in (0..MaxCrashes) \X (0..MaxDrops) \X (0..MaxRestarts)
    BY <1>8, <1>0, <1>bounds DEF Sigterm, TypeOK, faultVars
  <2>2. QED
    BY <1>8, <2>1, TypeEnds DEF Sigterm, Terminal
<1>9. CASE Crash(w)
  <2>1. /\ inbox' \in [Sessions -> Seq(WorkerMsgs)]
        /\ outbox' \in [Sessions -> Seq(ServerMsgs)]
        /\ hungUp' \in [Sessions -> BOOLEAN]
    BY <1>9, <1>0, CurrentIsSession, BreaksType DEF Crash, ConnectedHasSession, TypeOK
  <2>2. QED
    BY <1>9, <1>0, <1>bounds, <2>1 DEF Crash, TypeInv, TypeOK, ConnectedHasSession,
       GrantedWhenAssigning, runVars, requestVars
<1>10. CASE NetDrop(w)
  <2>1. /\ inbox' \in [Sessions -> Seq(WorkerMsgs)]
        /\ outbox' \in [Sessions -> Seq(ServerMsgs)]
        /\ hungUp' \in [Sessions -> BOOLEAN]
    BY <1>10, <1>0, CurrentIsSession, BreaksType DEF NetDrop, ConnectedHasSession
  <2>2. report' \in [Workers -> {"none"} \cup Terminal]
    BY <1>10, <1>0 DEF NetDrop, TypeOK, Terminal
  <2>3. drops' \in 0..MaxDrops
    BY <1>10, <1>0, <1>bounds DEF NetDrop, TypeOK
  <2>4. worker' \in [Workers -> {"none", "connect", "wait", "run", "died", "exited"}]
        /\ ConnectedHasSession'
    BY <1>10, <1>0 DEF NetDrop, TypeOK, ConnectedHasSession
  <2>5. QED
    BY <1>10, <1>0, <2>1, <2>2, <2>3, <2>4 DEF NetDrop, TypeInv, TypeOK,
       GrantedWhenAssigning, runVars, requestVars
<1>11. CASE Reaper(w)
  <2>1. row' \in Rows
    BY <1>11, <1>0 DEF Reaper, TypeOK, MarkFailedIfActive, Rows, Terminal
  <2>2. QED
    BY <1>11, <1>0, <2>1 DEF Reaper, TypeInv, TypeOK, ConnectedHasSession,
       GrantedWhenAssigning, runVars, requestVars, streamVars, faultVars
<1>12. QED
  BY <1>1, <1>2, <1>3, <1>4, <1>5, <1>6, <1>7, <1>8, <1>9, <1>10, <1>11
     DEF Answers, Engine, Faults

\* Every step keeps the types.
LEMMA TypeStep == TypeInv /\ [Next]_vars => TypeInv'
<1> SUFFICES ASSUME TypeInv, [Next]_vars
             PROVE  TypeInv'
  OBVIOUS
<1>1. CASE UNCHANGED vars
  BY <1>1 DEF TypeInv, TypeOK, GrantedWhenAssigning, ConnectedHasSession, vars, rowVars,
     runVars, requestVars, streamVars, workerVars, faultVars
<1>2. QED
  BY <1>1, TypeSpawnRun, TypeAbortRun, TypeWatchdog, TypeRestart, TypeHandler, TypeWorker
     DEF Next

\* Type correctness: every variable stays in its type, whatever the workers,
\* the user and the faults do; no shard index leaves 0..Expected-1.
THEOREM TypeCorrect == Spec => []TypeOK
<1>1. TypeInv => TypeOK
  BY DEF TypeInv
<1>2. QED
  BY TypeInit, TypeStep, <1>1, PTL DEF Spec

----------------------------------------------------------------------------
(***************************************************************************)
(* Who holds a shard.  A worker holds the shard of its entry, the one its  *)
(* handlers are about to send or have sent on any of its sessions, and the *)
(* one it accepted: always the same one, and nobody else's.                *)
(***************************************************************************)
Sent(s) == {outbox[s][k].shard : k \in DOMAIN outbox[s]}

Held(w) ==
    {i \in Shards : \/ i = shard[w]
                    \/ i = job[w]
                    \/ \E n \in 1..MaxSessions : i = grant[<<w, n>>] \/ i \in Sent(<<w, n>>)}

\* The run still registers workers, or is not enqueued yet.
Fresh == ~IsTerminal /\ (present \/ api \in {"start", "inserted"})

Ownership ==
    /\ \A w \in Workers : \A i, j \in Held(w) : i = j
    /\ \A v, w \in Workers : v # w => Held(v) \cap Held(w) = {}
    /\ \A w \in Workers : \A i \in Held(w) : i < nextShard
    /\ Fresh => \A w \in Workers : shard[w] = NoShard => Held(w) = {}

\* At first nobody holds a shard.
LEMMA OwnershipInit == Init => Ownership
<1> SUFFICES ASSUME Init
             PROVE  Ownership
  OBVIOUS
<1>1. \A w \in Workers, n \in 1..MaxSessions :
        grant[<<w, n>>] = NoShard /\ Sent(<<w, n>>) = {}
  BY DEF Init, Sent, Sessions
<1>2. \A w \in Workers : shard[w] = NoShard /\ job[w] = NoShard
  BY DEF Init
<1>3. NoShard \notin Shards
  BY RunCoordinationAssumption DEF RunCoordinationAssumption, NoShard, Shards
<1>4. \A w \in Workers : Held(w) = {}
  BY <1>1, <1>2, <1>3 DEF Held
<1>5. QED
  BY <1>4 DEF Ownership

\* A step that hands nobody a shard that is not already held keeps it.
LEMMA OwnershipKept ==
    ASSUME Ownership,
           \A w \in Workers : /\ shard'[w] \in {shard[w], NoShard}
                              /\ job'[w] \in {job[w], NoShard} \cup Held(w),
           \A w \in Workers, n \in 1..MaxSessions :
             /\ grant'[<<w, n>>] \in {grant[<<w, n>>], NoShard} \cup Held(w)
             /\ Sent(<<w, n>>)' \subseteq Sent(<<w, n>>) \cup {NoShard} \cup Held(w),
           nextShard' = nextShard,
           Fresh' => Fresh /\ shard' = shard
    PROVE  Ownership'
<1>1. NoShard \notin Shards
  BY RunCoordinationAssumption DEF RunCoordinationAssumption, NoShard, Shards
<1>2. ASSUME NEW w \in Workers, NEW i \in Held(w)'
      PROVE  i \in Held(w)
  <2>1. i \in Shards /\ i # NoShard
    BY <1>2, <1>1 DEF Held
  <2>2. \/ i = shard'[w] \/ i = job'[w]
        \/ \E n \in 1..MaxSessions : i = grant'[<<w, n>>] \/ i \in Sent(<<w, n>>)'
    BY <1>2 DEF Held
  <2>3. CASE i = shard'[w] \/ i = job'[w]
    BY <2>1, <2>3, SMTT(30) DEF Held
  <2>4. ASSUME NEW n \in 1..MaxSessions, i = grant'[<<w, n>>] \/ i \in Sent(<<w, n>>)'
        PROVE  i \in Held(w)
    <3>1. i = grant[<<w, n>>] \/ i \in Sent(<<w, n>>) \/ i \in Held(w)
      BY <2>1, <2>4
    <3>2. (i = grant[<<w, n>>] \/ i \in Sent(<<w, n>>)) => i \in Held(w)
      BY <2>1 DEF Held
    <3>3. QED
      BY <3>1, <3>2
  <2>5. QED
    BY <2>2, <2>3, <2>4
<1>3. QED
  BY <1>2 DEF Ownership

\* An abort in an outbox carries no shard.
LEMMA SentFanOut ==
    ASSUME TypeOK, NEW targets, FanOutAbort(targets), NEW s \in Sessions
    PROVE  Sent(s)' \subseteq Sent(s) \cup {NoShard}
<1>1. outbox[s] \in Seq(ServerMsgs)
  BY DEF TypeOK
<1>2. CASE outbox'[s] = Append(outbox[s], AbortMsg)
  <2>1. DOMAIN outbox'[s] = 1..(Len(outbox[s]) + 1)
    BY <1>1, <1>2
  <2>2. \A k \in 1..Len(outbox[s]) : outbox'[s][k] = outbox[s][k]
    BY <1>1, <1>2
  <2>3. outbox'[s][Len(outbox[s]) + 1] = AbortMsg
    BY <1>1, <1>2
  <2>4. QED
    BY <1>1, <2>1, <2>2, <2>3 DEF Sent, AbortMsg
<1>3. CASE outbox'[s] = outbox[s]
  BY <1>3 DEF Sent
<1>4. QED
  BY <1>2, <1>3 DEF FanOutAbort

\* Hanging up sends nothing.
LEMMA SentHangUp ==
    ASSUME TypeOK, NEW t, HangUp(t), NEW s \in Sessions
    PROVE  Sent(s)' \subseteq Sent(s)
<1>1. outbox'[s] = <<>> \/ outbox'[s] = outbox[s]
  BY DEF TypeOK, HangUp
<1>2. QED
  BY <1>1 DEF Sent

\* Nothing but aborts is sent, nobody accepts, no handler is granted a shard.
LEMMA OwnershipSent ==
    ASSUME Ownership,
           \A w \in Workers : shard'[w] \in {shard[w], NoShard},
           \A s \in Sessions : Sent(s)' \subseteq Sent(s) \cup {NoShard},
           UNCHANGED <<job, grant, nextShard>>,
           Fresh' => Fresh /\ shard' = shard
    PROVE  Ownership'
<1>1. \A w \in Workers : job'[w] \in {job[w], NoShard} \cup Held(w)
  OBVIOUS
<1>2. \A w \in Workers, n \in 1..MaxSessions :
        /\ grant'[<<w, n>>] \in {grant[<<w, n>>], NoShard} \cup Held(w)
        /\ Sent(<<w, n>>)' \subseteq Sent(<<w, n>>) \cup {NoShard} \cup Held(w)
  BY DEF Sessions
<1>3. QED
  BY <1>1, <1>2, OwnershipKept

\* Neither who holds what nor what is sent changes.
LEMMA OwnershipQuiet ==
    ASSUME Ownership,
           UNCHANGED <<shard, job, grant, outbox, nextShard>>,
           Fresh' => Fresh
    PROVE  Ownership'
<1>1. \A s \in Sessions : Sent(s)' \subseteq Sent(s) \cup {NoShard}
  BY DEF Sent
<1>2. QED
  BY <1>1, OwnershipSent

\* The steps of the requests, the watchdog and a restart keep it.
LEMMA OwnershipController ==
    ASSUME TypeInv, Ownership, SpawnRun \/ AbortRun \/ Watchdog \/ Restart
    PROVE  Ownership'
<1>0. TypeOK
  BY DEF TypeInv
<1> USE DEF Fresh, IsTerminal
<1>1. CASE SpawnRun
  <2>1. CASE CancelDispatchFailed
    BY <1>0, <2>1, SentFanOut, OwnershipSent DEF CancelDispatchFailed, DropAll, workerVars
  <2>2. CASE InsertRun \/ Enqueue
    BY <2>2, OwnershipQuiet DEF InsertRun, Enqueue, runVars, streamVars, workerVars
  <2>3. CASE \E w \in Workers : SpawnWorker(w)
    BY <2>3, OwnershipQuiet DEF SpawnWorker, runVars, requestVars, streamVars
  <2>4. CASE DispatchDone \/ DispatchFail \/ MarkDispatchFailed
    BY <2>4, OwnershipQuiet DEF DispatchDone, DispatchFail, MarkDispatchFailed, runVars,
       streamVars, workerVars
  <2>5. QED
    BY <1>1, <2>1, <2>2, <2>3, <2>4 DEF SpawnRun
<1>2. CASE AbortRun
  <2>1. CASE CoordinatorAbort
    BY <1>0, <2>1, SentFanOut, OwnershipSent DEF CoordinatorAbort, runVars, workerVars
  <2>2. CASE AbortCheck \/ MarkAborted
    BY <2>2, OwnershipQuiet DEF AbortCheck, MarkAborted, runVars, streamVars, workerVars
  <2>3. QED
    BY <1>2, <2>1, <2>2 DEF AbortRun
<1>3. CASE Watchdog
  <2>1. ASSUME NEW from, NEW to, WatchdogMoves(from, to)
        PROVE  Ownership'
    BY <2>1, OwnershipQuiet DEF WatchdogMoves, runVars, requestVars, streamVars, workerVars
  <2>2. CASE FailRunHung
    BY <2>2, OwnershipQuiet DEF FailRunHung, requestVars, streamVars, workerVars
  <2>3. CASE FinalizeHung
    BY <1>0, <2>3, SentFanOut, OwnershipSent DEF FinalizeHung, runVars, requestVars,
       workerVars
  <2>4. CASE FailIncompleteRegistration
    BY <2>1, <2>4 DEF FailIncompleteRegistration
  <2>5. CASE RegistrationComplete \/ RegistrationDeadline \/ FirstLoad
    BY <2>1, <2>5 DEF RegistrationComplete, RegistrationDeadline, FirstLoad
  <2>6. CASE StartupGrace \/ Backstop \/ WatchdogDone
    BY <2>1, <2>6 DEF StartupGrace, Backstop, WatchdogDone
  <2>7. QED
    BY <1>3, <2>2, <2>3, <2>4, <2>5, <2>6 DEF Watchdog
<1>4. CASE Restart
  <2>1. \A s \in Sessions : grant'[s] = NoShard /\ Sent(s)' = {}
    BY <1>4 DEF Restart, Sent
  <2>2. \A w \in Workers : shard'[w] = NoShard /\ job'[w] = job[w]
    BY <1>4 DEF Restart, DropAll, workerVars
  <2>3. nextShard' = nextShard /\ ~Fresh'
    BY <1>4 DEF Restart
  <2>4. QED
    BY <2>1, <2>2, <2>3, OwnershipKept DEF Sessions
<1>5. QED
  BY <1>1, <1>2, <1>3, <1>4

\* register hands a fresh worker a fresh shard.
LEMMA OwnershipAssigned ==
    ASSUME TypeInv, Ownership, NEW s \in Sessions, HandleRegister(s), RegisterAssigned(s)
    PROVE  Ownership'
<1> DEFINE v == s[1]
<1>0. TypeOK /\ v \in Workers /\ s = <<v, s[2]>> /\ s[2] \in 1..MaxSessions
  BY DEF TypeInv, Sessions
<1>1. Fresh /\ shard[v] = NoShard /\ Held(v) = {}
  BY <1>0 DEF RegisterAssigned, Fresh, Ownership
<1>2. nextShard \in Nat /\ nextShard \in Shards /\ nextShard # NoShard
  <2>1. nextShard \in 0..Expected /\ nextShard # Expected
    BY <1>0 DEF TypeOK, RegisterAssigned, AllRegistered
  <2>2. Expected \in Nat
    BY RunCoordinationAssumption DEF RunCoordinationAssumption
  <2> QED BY <2>1, <2>2 DEF Shards, NoShard
<1>3. /\ shard' = [shard EXCEPT ![v] = nextShard]
      /\ grant' = [grant EXCEPT ![s] = nextShard]
      /\ nextShard' = nextShard + 1
      /\ outbox' = outbox
      /\ job' = job
  BY DEF HandleRegister, RegisterAssigned, workerVars
<1>4. Held(v)' = {nextShard}
  <2>1. shard'[v] = nextShard
    BY <1>0, <1>3 DEF TypeOK
  <2>2. \A n \in 1..MaxSessions : grant'[<<v, n>>] \in {grant[<<v, n>>], nextShard}
    BY <1>0, <1>3 DEF TypeOK, Sessions
  <2>3. \A n \in 1..MaxSessions : Sent(<<v, n>>)' = Sent(<<v, n>>)
    BY <1>3 DEF Sent
  <2>4. ASSUME NEW i \in Held(v)'
        PROVE  i = nextShard
    <3>1. \A j \in Shards : /\ j # job[v]
                            /\ \A n \in 1..MaxSessions :
                                 j # grant[<<v, n>>] /\ j \notin Sent(<<v, n>>)
      BY <1>1 DEF Held
    <3>2. i \in Shards
      BY <2>4 DEF Held
    <3>3. \/ i = shard'[v] \/ i = job'[v]
          \/ \E n \in 1..MaxSessions : i = grant'[<<v, n>>] \/ i \in Sent(<<v, n>>)'
      BY <2>4 DEF Held
    <3>4. CASE i = shard'[v] \/ i = job'[v]
      BY <1>3, <2>1, <3>1, <3>2, <3>4
    <3>5. ASSUME NEW n \in 1..MaxSessions, i = grant'[<<v, n>>] \/ i \in Sent(<<v, n>>)'
          PROVE  i = nextShard
      <4>1. grant'[<<v, n>>] \in {grant[<<v, n>>], nextShard}
        BY <2>2
      <4>2. i # grant[<<v, n>>] /\ i \notin Sent(<<v, n>>)'
        BY <2>3, <3>1, <3>2
      <4>3. QED
        BY <3>5, <4>1, <4>2
    <3>6. QED
      BY <3>3, <3>4, <3>5
  <2>5. nextShard \in Held(v)'
    BY <1>2, <2>1 DEF Held, Shards
  <2>6. QED
    BY <2>4, <2>5
<1>5. ASSUME NEW w \in Workers, w # v
      PROVE  Held(w)' = Held(w)
  <2>1. shard'[w] = shard[w]
    BY <1>0, <1>3, <1>5 DEF TypeOK
  <2>2. \A n \in 1..MaxSessions : grant'[<<w, n>>] = grant[<<w, n>>]
    BY <1>0, <1>3, <1>5 DEF TypeOK, Sessions
  <2>3. \A n \in 1..MaxSessions : Sent(<<w, n>>)' = Sent(<<w, n>>)
    BY <1>3 DEF Sent
  <2>4. QED
    BY <2>1, <2>2, <2>3, <1>3 DEF Held, Shards
<1>6. \A w \in Workers : \A i \in Held(w) : i \in Nat /\ i < nextShard
  BY DEF Ownership, Held, Shards
<1>7. \A w \in Workers : nextShard \notin Held(w)
  BY <1>2, <1>6
<1>8. (\A w \in Workers : \A i, j \in Held(w) : i = j)'
  BY <1>4, <1>5 DEF Ownership
<1>9. (\A u, w \in Workers : u # w => Held(u) \cap Held(w) = {})'
  BY <1>4, <1>5, <1>7 DEF Ownership
<1>10. (\A w \in Workers : \A i \in Held(w) : i < nextShard)'
  BY <1>2, <1>3, <1>4, <1>5, <1>6
<1>11. (\A w \in Workers : shard[w] = NoShard => Held(w) = {})'
  BY <1>0, <1>1, <1>2, <1>3, <1>5 DEF Ownership, TypeOK
<1>12. QED
  BY <1>8, <1>9, <1>10, <1>11 DEF Ownership

\* A stream handler's steps keep it.
LEMMA OwnershipHandler ==
    ASSUME TypeInv, Ownership, NEW s \in Sessions, Handler(s)
    PROVE  Ownership'
<1>0. TypeOK /\ GrantedWhenAssigning /\ s[1] \in Workers /\ s = <<s[1], s[2]>>
      /\ s[2] \in 1..MaxSessions
  BY DEF TypeInv, Sessions
<1> USE DEF Fresh, IsTerminal
<1>1. CASE HandleRegister(s)
  <2>1. CASE RegisterNoRun(s)
    BY <1>1, <2>1, OwnershipQuiet DEF HandleRegister, RegisterNoRun, requestVars,
       workerVars
  <2>2. CASE RegisterReject(s)
    BY <1>0, <1>1, <2>2, SentFanOut, OwnershipSent DEF HandleRegister, RegisterReject,
       requestVars, workerVars
  <2>3. CASE RegisterResend(s)
    <3>1. shard[s[1]] \in Held(s[1])
      BY <1>0, <2>3 DEF RegisterResend, Held, TypeOK
    <3>2. \A w \in Workers, n \in 1..MaxSessions :
            grant'[<<w, n>>] \in {grant[<<w, n>>], NoShard} \cup Held(w)
      BY <1>0, <2>3, <3>1 DEF RegisterResend, TypeOK, Sessions
    <3>3. UNCHANGED <<shard, job, outbox, nextShard, verdict, present, api>>
      BY <1>1, <2>3 DEF HandleRegister, RegisterResend, requestVars, workerVars
    <3>4. \A w \in Workers, n \in 1..MaxSessions : Sent(<<w, n>>)' = Sent(<<w, n>>)
      BY <3>3 DEF Sent
    <3>5. QED
      BY <3>2, <3>3, <3>4, OwnershipKept
  <2>4. CASE RegisterAssigned(s)
    BY <1>1, <2>4, OwnershipAssigned
  <2>5. QED
    BY <1>1, <2>1, <2>2, <2>3, <2>4 DEF HandleRegister
<1>2. CASE SendAssignment(s)
  <2>1. grant[s] \in Held(s[1])
    BY <1>0, <1>2 DEF SendAssignment, GrantedWhenAssigning, Held
  <2>2. \A t \in Sessions : Sent(t)' \subseteq Sent(t) \cup {NoShard} \cup Held(t[1])
    <3> SUFFICES ASSUME NEW t \in Sessions
                 PROVE  Sent(t)' \subseteq Sent(t) \cup {NoShard} \cup Held(t[1])
      OBVIOUS
    <3>1. CASE outbox'[t] = outbox[t]
      BY <3>1 DEF Sent
    <3>2. CASE t = s /\ outbox'[s] = Append(outbox[s], AssignmentMsg(grant[s]))
      <4>1. outbox[s] \in Seq(ServerMsgs)
        BY <1>0 DEF TypeOK
      <4>2. DOMAIN outbox'[s] = 1..(Len(outbox[s]) + 1)
        BY <3>2, <4>1
      <4>3. \A k \in 1..Len(outbox[s]) : outbox'[s][k] = outbox[s][k]
        BY <3>2, <4>1
      <4>4. outbox'[s][Len(outbox[s]) + 1] = AssignmentMsg(grant[s])
        BY <3>2, <4>1
      <4>5. QED
        BY <3>2, <2>1, <4>1, <4>2, <4>3, <4>4 DEF Sent, AssignmentMsg
    <3>3. QED
      BY <1>0, <1>2, <3>1, <3>2 DEF SendAssignment, TypeOK
  <2>3. UNCHANGED <<shard, job, grant, nextShard, verdict, present, api>>
    BY <1>2 DEF SendAssignment, runVars, requestVars, workerVars
  <2>4. QED
    BY <2>2, <2>3, OwnershipKept DEF Sessions
<1>3. CASE SetRunning(s) \/ HandleMetric(s)
  BY <1>3, OwnershipQuiet DEF SetRunning, HandleMetric, runVars, requestVars, workerVars
<1>4. ASSUME NEW reported \in Terminal, HandleStatus(s, reported)
      PROVE  Ownership'
  BY <1>4, OwnershipQuiet DEF HandleStatus, Decides, requestVars, workerVars
<1>5. CASE Finalize(s)
  <2>1. \A t \in Sessions : Sent(t)' \subseteq Sent(t) \cup {NoShard}
    BY <1>0, <1>5, SentFanOut DEF Finalize, Sent
  <2>2. QED
    BY <2>1, <1>5, OwnershipSent DEF Finalize, runVars, requestVars, workerVars
<1>6. CASE HandleEof(s)
  <2>1. CASE Disconnects(s[1])
    <3>1. verdict' = "failed" /\ UNCHANGED <<outbox, job, grant, nextShard>>
      BY <1>6, <2>1 DEF HandleEof, workerVars
    <3>2. \A w \in Workers : shard'[w] \in {shard[w], NoShard}
      BY <1>0, <1>6, <2>1 DEF HandleEof, Drop, TypeOK
    <3>3. \A t \in Sessions : Sent(t)' \subseteq Sent(t) \cup {NoShard}
      BY <3>1 DEF Sent
    <3>4. QED
      BY <3>1, <3>2, <3>3, OwnershipSent
  <2>2. CASE ~Disconnects(s[1])
    BY <1>6, <2>2, OwnershipQuiet DEF HandleEof, requestVars, workerVars
  <2>3. QED
    BY <2>1, <2>2
<1>7. CASE FinalizeDisconnect(s)
  BY <1>0, <1>7, SentFanOut, OwnershipSent DEF FinalizeDisconnect, runVars, requestVars,
     workerVars
<1>8. QED
  BY <1>1, <1>2, <1>3, <1>4, <1>5, <1>6, <1>7 DEF Handler

\* A worker's steps keep it.
LEMMA OwnershipWorker ==
    ASSUME TypeInv, Ownership, NEW w \in Workers,
           Answers(w) \/ Engine(w) \/ Faults(w) \/ Reaper(w)
    PROVE  Ownership'
<1>0. TypeOK /\ ConnectedHasSession
  BY DEF TypeInv
<1> USE DEF Fresh, IsTerminal
<1>hangsUp. ASSUME NEW t, HangUp(t),
             UNCHANGED <<shard, job, grant, nextShard, verdict, present, api>>
      PROVE  Ownership'
  <2>1. \A s \in Sessions : Sent(s)' \subseteq Sent(s) \cup {NoShard}
    BY <1>0, <1>hangsUp, SentHangUp
  <2>2. QED
    BY <2>1, <1>hangsUp, OwnershipSent
<1>1. CASE Accept(w)
  <2> DEFINE s == Current(w)
  <2>1. s \in Sessions /\ s = <<w, session[w]>> /\ session[w] \in 1..MaxSessions
    BY <1>0, <1>1, CurrentIsSession DEF Accept, ConnectedHasSession, Current, Sessions
  <2>2. outbox[s] \in Seq(ServerMsgs) /\ outbox[s] # <<>>
    BY <1>0, <1>1, <2>1 DEF TypeOK, Accept
  <2>3. Head(outbox[s]).shard \in Sent(s) /\ Head(outbox[s]).shard \in Shards \cup {NoShard}
    <3>1. Head(outbox[s]) = outbox[s][1] /\ 1 \in DOMAIN outbox[s]
      BY <2>2
    <3>2. Head(outbox[s]) \in ServerMsgs
      BY <2>2, HeadTailProperties
    <3>3. QED
      BY <3>1, <3>2 DEF Sent, ServerMsgs, AssignmentMsg, AbortMsg
  <2>4. Head(outbox[s]).shard \in {NoShard} \cup Held(w)
    BY <2>1, <2>3 DEF Held
  <2>5. \A t \in Sessions : Sent(t)' \subseteq Sent(t)
    <3> SUFFICES ASSUME NEW t \in Sessions
                 PROVE  Sent(t)' \subseteq Sent(t)
      OBVIOUS
    <3>1. CASE t = s
      <4>1. outbox'[s] = Tail(outbox[s])
        BY <1>0, <1>1, <2>1 DEF Accept, TypeOK
      <4>2. \A k \in DOMAIN outbox'[s] :
              k + 1 \in DOMAIN outbox[s] /\ outbox'[s][k] = outbox[s][k + 1]
        BY <2>2, <4>1
      <4>3. QED
        BY <3>1, <4>2 DEF Sent
    <3>2. CASE t # s
      BY <1>0, <1>1, <3>2 DEF Accept, Sent, TypeOK
    <3>3. QED
      BY <3>1, <3>2
  <2>6. UNCHANGED <<shard, grant, nextShard, verdict, present, api>>
    BY <1>1 DEF Accept, runVars, requestVars
  <2>7. \A v \in Workers : job'[v] \in {job[v], NoShard} \cup Held(v)
    BY <1>0, <1>1, <2>4 DEF Accept, TypeOK
  <2>8. QED
    BY <2>5, <2>6, <2>7, OwnershipKept DEF Sessions
<1>2. CASE Connect(w) \/ GiveUp(w)
  BY <1>2, OwnershipQuiet DEF Connect, GiveUp, runVars, requestVars, streamVars
<1>3. CASE Refused(w)
  BY <1>3, <1>hangsUp DEF Refused, runVars, requestVars
<1>4. ASSUME NEW result, Ends(w, result)
      PROVE  Ownership'
  BY <1>4, <1>hangsUp DEF Ends, runVars, requestVars
<1>5. CASE Metric(w) \/ Reaper(w)
  BY <1>5, OwnershipQuiet DEF Metric, Reaper, runVars, requestVars, streamVars, workerVars
<1>6. CASE Crash(w)
  <2>1. UNCHANGED <<shard, job, grant, nextShard, verdict, present, api>>
    BY <1>6 DEF Crash, runVars, requestVars
  <2>2. QED
    BY <1>6, <2>1, <1>hangsUp, OwnershipQuiet DEF Crash, Breaks
<1>7. CASE NetDrop(w)
  <2>1. UNCHANGED <<shard, job, grant, nextShard, verdict, present, api>>
    BY <1>7 DEF NetDrop, runVars, requestVars
  <2>2. QED
    BY <1>7, <2>1, <1>hangsUp DEF NetDrop, Breaks
<1>8. QED
  BY <1>1, <1>2, <1>3, <1>4, <1>5, <1>6, <1>7
     DEF Answers, Engine, Faults, AbortListener, EngineReturns, Sigterm

\* Every step keeps the ownership of shards.
LEMMA OwnershipStep == TypeInv /\ Ownership /\ [Next]_vars => Ownership'
<1> SUFFICES ASSUME TypeInv, Ownership, [Next]_vars
             PROVE  Ownership'
  OBVIOUS
<1>1. CASE UNCHANGED vars
  BY <1>1, OwnershipQuiet DEF vars, runVars, requestVars, streamVars, workerVars, Fresh,
     IsTerminal
<1>2. QED
  BY <1>1, OwnershipController, OwnershipHandler, OwnershipWorker DEF Next

\* No two workers ever accept the same shard: through every interleaving of
\* registrations, reconnections, Resends and late assignments, the VU ranges
\* and the unique data slices of a run's workers are disjoint.
THEOREM ShardsAreNotShared == Spec => []NoSharedShard
<1>1. TypeInv /\ Ownership => NoSharedShard
  BY DEF TypeInv, TypeOK, Ownership, Held, NoSharedShard
<1>2. QED
  BY TypeInit, TypeStep, OwnershipInit, OwnershipStep, <1>1, PTL DEF Spec

----------------------------------------------------------------------------
(***************************************************************************)
(* What the coordinator has heard is true: a phase or a message that says  *)
(* completed is that of a worker whose engine completed its shard.         *)
(***************************************************************************)
Got(s) == {inbox[s][k] : k \in DOMAIN inbox[s]}

Reports ==
    /\ \A w \in Workers : report[w] = "completed" => worker[w] = "exited"
    /\ \A w \in Workers : worker[w] = "run" \/ report[w] = "completed" => job[w] \in Shards
    /\ \A w \in Workers : phase[w] = "completed" => report[w] = "completed"
    /\ \A s \in Sessions : "completed" \in Got(s) => report[s[1]] = "completed"

\* At first nothing was reported.
LEMMA ReportsInit == Init => Reports
<1> SUFFICES ASSUME Init
             PROVE  Reports
  OBVIOUS
<1>1. \A s \in Sessions : Got(s) = {}
  BY DEF Init, Got
<1>2. QED
  BY <1>1 DEF Init, Reports

\* A step of the controller: the workers stand still.
LEMMA ReportsController ==
    ASSUME Reports, UNCHANGED <<worker, job, report>>,
           \A w \in Workers : phase'[w] = "completed" => report[w] = "completed",
           \A s \in Sessions : "completed" \in Got(s)' => "completed" \in Got(s)
    PROVE  Reports'
BY DEF Reports

\* A step of a worker.
LEMMA ReportsWorker ==
    ASSUME Reports, NEW w \in Workers,
           \A v \in Workers \ {w} :
             report'[v] = report[v] /\ worker'[v] = worker[v] /\ job'[v] = job[v],
           worker[w] # "exited",
           report'[w] = "completed" => worker'[w] = "exited",
           worker'[w] = "run" \/ report'[w] = "completed" => job'[w] \in Shards,
           phase' = phase,
           \A s \in Sessions : "completed" \in Got(s)' =>
             "completed" \in Got(s) \/ (s[1] = w /\ report'[w] = "completed")
    PROVE  Reports'
<1>1. report[w] # "completed" /\ phase[w] # "completed"
  BY DEF Reports
<1>2. \A s \in Sessions : s[1] \in Workers /\ (s[1] = w => "completed" \notin Got(s))
  BY <1>1 DEF Reports, Sessions
<1>3. QED
  BY <1>1, <1>2 DEF Reports

\* What a handler reads was on its way, and no more comes.
LEMMA GotReads ==
    ASSUME TypeOK, NEW s \in Sessions, NEW m, Reads(s, m)
    PROVE  m \in Got(s) /\ \A t \in Sessions : Got(t)' \subseteq Got(t)
<1>1. inbox[s] \in Seq(WorkerMsgs) /\ inbox[s] # <<>> /\ m = inbox[s][1]
      /\ 1 \in DOMAIN inbox[s]
  BY DEF TypeOK, Reads
<1>2. inbox'[s] = Tail(inbox[s]) /\ \A t \in Sessions \ {s} : inbox'[t] = inbox[t]
  BY DEF TypeOK, Reads
<1>3. \A k \in DOMAIN inbox'[s] :
        k + 1 \in DOMAIN inbox[s] /\ inbox'[s][k] = inbox[s][k + 1]
  BY <1>1, <1>2
<1>4. m \in Got(s)
  BY <1>1 DEF Got
<1>5. Got(s)' \subseteq Got(s)
  BY <1>3 DEF Got
<1>6. \A t \in Sessions \ {s} : Got(t)' = Got(t)
  BY <1>2 DEF Got
<1>7. QED
  BY <1>4, <1>5, <1>6

\* A post adds its message to its session, and nothing else.
LEMMA GotPost ==
    ASSUME TypeOK, NEW s, NEW m, inbox' = Post(s, m)
    PROVE  \A t \in Sessions : Got(t)' \subseteq IF t = s THEN Got(t) \cup {m} ELSE Got(t)
<1> SUFFICES ASSUME NEW t \in Sessions
             PROVE  Got(t)' \subseteq IF t = s THEN Got(t) \cup {m} ELSE Got(t)
  OBVIOUS
<1>1. CASE inbox'[t] = inbox[t]
  BY <1>1 DEF Got
<1>2. CASE t = s /\ inbox'[t] = Append(inbox[t], m)
  <2>1. inbox[t] \in Seq(WorkerMsgs)
    BY DEF TypeOK
  <2>2. DOMAIN inbox'[t] = 1..(Len(inbox[t]) + 1)
    BY <1>2, <2>1
  <2>3. \A k \in 1..Len(inbox[t]) : inbox'[t][k] = inbox[t][k]
    BY <1>2, <2>1
  <2>4. inbox'[t][Len(inbox[t]) + 1] = m
    BY <1>2, <2>1
  <2>5. QED
    BY <1>2, <2>1, <2>2, <2>3, <2>4 DEF Got
<1>3. QED
  BY <1>1, <1>2 DEF TypeOK, Post

\* A broken connection adds nothing.
LEMMA GotBreaks ==
    ASSUME TypeOK, NEW s \in Sessions, Breaks(s)
    PROVE  \A t \in Sessions : Got(t)' \subseteq Got(t)
<1>1. PICK n \in 0..Len(inbox[s]) : inbox' = [inbox EXCEPT ![s] = SubSeq(@, 1, n)]
  BY DEF Breaks
<1>2. inbox[s] \in Seq(WorkerMsgs)
  BY DEF TypeOK
<1>3. inbox'[s] = SubSeq(inbox[s], 1, n) /\ \A t \in Sessions \ {s} : inbox'[t] = inbox[t]
  BY <1>1 DEF TypeOK
<1>4. Len(inbox'[s]) = n /\ \A k \in 1..n : inbox'[s][k] = inbox[s][k]
  BY <1>2, <1>3, SubSeqProperties
<1>5. DOMAIN inbox'[s] = 1..n
  BY <1>2, <1>3, <1>4, SubSeqProperties
<1>6. QED
  BY <1>2, <1>3, <1>4, <1>5 DEF Got

\* The steps of the controller keep Reports.
LEMMA ReportsControllerStep ==
    ASSUME TypeInv, Reports, SpawnRun \/ AbortRun \/ Watchdog \/ Restart
    PROVE  Reports'
<1>1. ASSUME UNCHANGED <<phase, inbox, worker, job, report>>
      PROVE  Reports'
  BY <1>1 DEF Reports, Got
<1>2. CASE SpawnRun
  <2>1. CASE CancelDispatchFailed
    <3>1. UNCHANGED <<worker, job, report, inbox>>
      BY <2>1 DEF CancelDispatchFailed, workerVars
    <3>2. \A w \in Workers : phase'[w] # "completed"
      BY <2>1 DEF CancelDispatchFailed, DropAll
    <3>3. QED
      BY <3>1, <3>2, ReportsController DEF Got
  <2>2. CASE \E w \in Workers : SpawnWorker(w)
    <3>1. PICK w \in Workers : SpawnWorker(w)
      BY <2>2
    <3>2. UNCHANGED <<phase, inbox, job, report>>
      BY <3>1 DEF SpawnWorker, runVars, streamVars
    <3>3. worker[w] = "none" /\ worker'[w] = "connect"
          /\ \A v \in Workers \ {w} : worker'[v] = worker[v]
      BY <3>1 DEF SpawnWorker, TypeInv, TypeOK
    <3>4. report[w] # "completed"
      BY <3>3 DEF Reports
    <3>5. QED
      BY <3>2, <3>3, <3>4, ReportsWorker DEF Got
  <2>3. CASE InsertRun \/ Enqueue
    BY <2>3, <1>1 DEF InsertRun, Enqueue, runVars, streamVars, workerVars
  <2>4. CASE DispatchDone \/ DispatchFail \/ MarkDispatchFailed
    BY <2>4, <1>1 DEF DispatchDone, DispatchFail, MarkDispatchFailed, runVars, streamVars,
       workerVars
  <2>5. QED
    BY <1>2, <2>1, <2>2, <2>3, <2>4 DEF SpawnRun
<1>3. CASE AbortRun
  BY <1>3, <1>1 DEF AbortRun, AbortCheck, CoordinatorAbort, MarkAborted, runVars,
     streamVars, workerVars
<1>4. CASE Watchdog
  <2>1. ASSUME NEW from, NEW to, WatchdogMoves(from, to)
        PROVE  Reports'
    BY <2>1, <1>1 DEF WatchdogMoves, runVars, streamVars, workerVars
  <2>2. CASE FailRunHung \/ FinalizeHung
    BY <2>2, <1>1 DEF FailRunHung, FinalizeHung, runVars, streamVars, workerVars
  <2>3. CASE FailIncompleteRegistration
    BY <2>1, <2>3 DEF FailIncompleteRegistration
  <2>4. CASE RegistrationComplete \/ RegistrationDeadline \/ FirstLoad
    BY <2>1, <2>4 DEF RegistrationComplete, RegistrationDeadline, FirstLoad
  <2>5. CASE StartupGrace \/ Backstop \/ WatchdogDone
    BY <2>1, <2>5 DEF StartupGrace, Backstop, WatchdogDone
  <2>6. QED
    BY <1>4, <2>2, <2>3, <2>4, <2>5 DEF Watchdog
<1>5. CASE Restart
  <2>1. UNCHANGED <<worker, job, report>>
    BY <1>5 DEF Restart, workerVars
  <2>2. \A w \in Workers : phase'[w] # "completed"
    BY <1>5 DEF Restart, DropAll
  <2>3. \A s \in Sessions : Got(s)' = {}
    BY <1>5 DEF Restart, Got
  <2>4. QED
    BY <2>1, <2>2, <2>3, ReportsController
<1>6. QED
  BY <1>2, <1>3, <1>4, <1>5

\* The steps of a stream handler keep it: the phase it records is the one its
\* worker reported.
LEMMA ReportsHandlerStep ==
    ASSUME TypeInv, Reports, NEW s \in Sessions, Handler(s)
    PROVE  Reports'
<1>0. TypeOK /\ s[1] \in Workers
  BY DEF TypeInv, Sessions
<1>1. UNCHANGED <<worker, job, report>>
  BY DEF Handler, HandleRegister, SendAssignment, SetRunning, HandleMetric, HandleStatus,
     Finalize, HandleEof, FinalizeDisconnect, workerVars
<1>2. ASSUME \A w \in Workers : phase'[w] \in {phase[w], "started"},
             \A t \in Sessions : Got(t)' \subseteq Got(t)
      PROVE  Reports'
  BY <1>1, <1>2, ReportsController DEF Reports
<1>3. CASE HandleRegister(s)
  <2>1. \A t \in Sessions : Got(t)' \subseteq Got(t)
    BY <1>0, <1>3, GotReads DEF HandleRegister
  <2>2. \A w \in Workers : phase'[w] \in {phase[w], "started"}
    BY <1>0, <1>3 DEF HandleRegister, RegisterNoRun, RegisterReject, RegisterResend,
       RegisterAssigned, TypeOK
  <2>3. QED
    BY <2>1, <2>2, <1>2
<1>4. CASE SendAssignment(s) \/ SetRunning(s) \/ Finalize(s) \/ FinalizeDisconnect(s)
  <2>1. UNCHANGED <<phase, inbox>>
    BY <1>4 DEF SendAssignment, SetRunning, Finalize, FinalizeDisconnect, runVars
  <2>2. QED
    BY <2>1, <1>2 DEF Got
<1>5. CASE HandleMetric(s)
  BY <1>0, <1>5, <1>2, GotReads DEF HandleMetric
<1>6. ASSUME NEW reported \in Terminal, HandleStatus(s, reported)
      PROVE  Reports'
  <2>1. reported \in Got(s) /\ \A t \in Sessions : Got(t)' \subseteq Got(t)
    BY <1>0, <1>6, GotReads DEF HandleStatus
  <2>2. ASSUME NEW w \in Workers, phase'[w] = "completed"
        PROVE  report[w] = "completed"
    <3>1. phase'[w] = phase[w] \/ (w = s[1] /\ phase'[w] = reported)
      BY <1>0, <1>6 DEF HandleStatus, TypeOK
    <3>2. QED
      BY <2>1, <2>2, <3>1 DEF Reports
  <2>3. QED
    BY <1>1, <2>1, <2>2, ReportsController
<1>7. CASE HandleEof(s)
  <2>1. \A w \in Workers : phase'[w] \in {phase[w], "started"}
    BY <1>0, <1>7 DEF HandleEof, Drop, TypeOK
  <2>2. inbox' = inbox
    BY <1>7 DEF HandleEof
  <2>3. QED
    BY <2>1, <2>2, <1>2 DEF Got
<1>8. QED
  BY <1>3, <1>4, <1>5, <1>6, <1>7 DEF Handler

\* The steps of a worker keep it.
LEMMA ReportsWorkerStep ==
    ASSUME TypeInv, Reports, NEW w \in Workers,
           Answers(w) \/ Engine(w) \/ Faults(w) \/ Reaper(w)
    PROVE  Reports'
<1>0. TypeOK /\ ConnectedHasSession
  BY DEF TypeInv
<1>1. CASE Connect(w)
  <2>1. \A t \in Sessions : Got(t)' \subseteq Got(t) \cup {"register"}
    <3> SUFFICES ASSUME NEW t \in Sessions
                 PROVE  Got(t)' \subseteq Got(t) \cup {"register"}
      OBVIOUS
    <3>1. inbox'[t] = inbox[t] \/ inbox'[t] = <<"register">>
      BY <1>0, <1>1 DEF Connect, TypeOK
    <3>2. QED
      BY <3>1 DEF Got
  <2>2. UNCHANGED <<phase, job, report>>
    BY <1>1 DEF Connect, runVars
  <2>3. worker[w] = "connect" /\ worker'[w] = "wait"
        /\ \A v \in Workers \ {w} : worker'[v] = worker[v]
    BY <1>0, <1>1 DEF Connect, TypeOK
  <2>4. report[w] # "completed"
    BY <2>3 DEF Reports
  <2>5. \A t \in Sessions : "completed" \in Got(t)' => "completed" \in Got(t)
    BY <2>1
  <2>6. QED
    BY <2>2, <2>3, <2>4, <2>5, ReportsWorker
<1>2. CASE Accept(w)
  <2> DEFINE s == Current(w)
  <2>1. outbox[s] \in Seq(ServerMsgs) /\ outbox[s] # <<>>
    BY <1>0, <1>2, CurrentIsSession DEF Accept, ConnectedHasSession, TypeOK
  <2>2. Head(outbox[s]).shard \in Shards
    <3>1. Head(outbox[s]) \in ServerMsgs /\ Head(outbox[s]).kind = "assignment"
      BY <2>1, <1>2, HeadTailProperties DEF Accept
    <3>2. QED
      BY <3>1 DEF ServerMsgs, AssignmentMsg, AbortMsg
  <2>3. UNCHANGED <<phase, inbox, report>>
    BY <1>2 DEF Accept, runVars
  <2>4. /\ worker[w] = "wait" /\ worker'[w] = "run" /\ job'[w] \in Shards
        /\ \A v \in Workers \ {w} : worker'[v] = worker[v] /\ job'[v] = job[v]
    BY <1>0, <1>2, <2>2 DEF Accept, TypeOK
  <2>5. report[w] # "completed"
    BY <2>4 DEF Reports
  <2>6. QED
    BY <2>3, <2>4, <2>5, ReportsWorker DEF Got
<1>3. ASSUME NEW to \in {"connect", "died", "exited"}, worker[w] \in {"wait", "connect", "run", "died"},
             worker' = [worker EXCEPT ![w] = to],
             UNCHANGED <<phase, job, report>>,
             \A t \in Sessions : Got(t)' \subseteq Got(t)
      PROVE  Reports'
  <2>1. report[w] # "completed"
    BY <1>3 DEF Reports
  <2>2. worker'[w] = to /\ \A v \in Workers \ {w} : worker'[v] = worker[v]
    BY <1>0, <1>3 DEF TypeOK
  <2>3. QED
    BY <1>3, <2>1, <2>2, ReportsWorker
<1>4. CASE Refused(w) \/ GiveUp(w) \/ Reaper(w)
  <2>1. UNCHANGED <<phase, job, report, inbox>>
    BY <1>4 DEF Refused, GiveUp, Reaper, runVars, streamVars
  <2>2. worker[w] \in {"wait", "connect", "died"}
        /\ \E to \in {"connect", "died", "exited"} : worker' = [worker EXCEPT ![w] = to]
    BY <1>4 DEF Refused, GiveUp, Reaper
  <2>3. QED
    BY <2>1, <2>2, <1>3 DEF Got
<1>5. CASE Metric(w)
  <2>1. UNCHANGED <<phase, job, report, worker>>
    BY <1>5 DEF Metric, runVars, workerVars
  <2>2. \A t \in Sessions : Got(t)' \subseteq Got(t) \cup {"metric"}
    BY <1>0, <1>5, GotPost DEF Metric
  <2>3. \A t \in Sessions : "completed" \in Got(t)' => "completed" \in Got(t)
    BY <2>2
  <2>4. QED
    BY <2>1, <2>3 DEF Reports
<1>6. ASSUME NEW result \in Terminal, Ends(w, result)
      PROVE  Reports'
  <2>1. \A t \in Sessions :
          Got(t)' \subseteq IF t = Current(w) THEN Got(t) \cup {result} ELSE Got(t)
    BY <1>0, <1>6, GotPost DEF Ends
  <2>2. phase' = phase /\ job' = job
    BY <1>6 DEF Ends, runVars
  <2>3. /\ worker[w] = "run" /\ worker'[w] = "exited" /\ report'[w] = result
        /\ \A v \in Workers \ {w} : worker'[v] = worker[v] /\ report'[v] = report[v]
    BY <1>0, <1>6 DEF Ends, TypeOK
  <2>4. job[w] \in Shards
    BY <2>3 DEF Reports
  <2>5. \A t \in Sessions : "completed" \in Got(t)' =>
          "completed" \in Got(t) \/ (t[1] = w /\ report'[w] = "completed")
    BY <2>1, <2>3 DEF Current
  <2>6. QED
    BY <2>2, <2>3, <2>4, <2>5, ReportsWorker
<1>7. CASE AbortListener(w) \/ EngineReturns(w) \/ Sigterm(w)
  BY <1>7, <1>6 DEF AbortListener, EngineReturns, Sigterm, Terminal
<1>8. CASE Crash(w)
  <2>1. UNCHANGED <<phase, job, report>> /\ worker' = [worker EXCEPT ![w] = "died"]
        /\ worker[w] \in {"wait", "connect", "run"}
    BY <1>8 DEF Crash, runVars
  <2>2. \A t \in Sessions : Got(t)' \subseteq Got(t)
    BY <1>0, <1>8, CurrentIsSession, GotBreaks DEF Crash, ConnectedHasSession, Got
  <2>3. QED
    BY <2>1, <2>2, <1>3
<1>9. CASE NetDrop(w)
  <2>1. \A t \in Sessions : Got(t)' \subseteq Got(t)
    BY <1>0, <1>9, CurrentIsSession, GotBreaks DEF NetDrop, ConnectedHasSession
  <2>2. phase' = phase /\ job' = job
    BY <1>9 DEF NetDrop, runVars
  <2>3. CASE worker[w] = "wait"
    BY <1>9, <2>1, <2>2, <2>3, <1>3 DEF NetDrop
  <2>4. CASE worker[w] = "run"
    <3>1. /\ worker'[w] = "exited" /\ report'[w] = "aborted"
          /\ \A v \in Workers \ {w} : worker'[v] = worker[v] /\ report'[v] = report[v]
      BY <1>0, <1>9, <2>4 DEF NetDrop, TypeOK
    <3>2. QED
      BY <2>1, <2>2, <2>4, <3>1, ReportsWorker
  <2>5. QED
    BY <1>9, <2>3, <2>4 DEF NetDrop
<1>10. QED
  BY <1>1, <1>2, <1>4, <1>5, <1>7, <1>8, <1>9 DEF Answers, Engine, Faults

\* Every step keeps the reports true to the engines.
LEMMA ReportsStep == TypeInv /\ Reports /\ [Next]_vars => Reports'
<1> SUFFICES ASSUME TypeInv, Reports, [Next]_vars
             PROVE  Reports'
  OBVIOUS
<1>1. CASE UNCHANGED vars
  BY <1>1 DEF Reports, Got, vars, runVars, streamVars, workerVars
<1>2. QED
  BY <1>1, ReportsControllerStep, ReportsHandlerStep, ReportsWorkerStep DEF Next

----------------------------------------------------------------------------
(***************************************************************************)
(* The completion gate.  It counts entries; that they are all the shards   *)
(* is the pigeonhole principle over the distinct shards of the entries.    *)
(***************************************************************************)
AllDone == \A i \in Shards : \E w \in Workers : job[w] = i /\ report[w] = "completed"

Completion ==
    /\ verdict = "completed" => AllDone
    /\ row = "completed" => verdict = "completed"
    /\ \A s \in Sessions : handler[s] = "writeCompleted" => verdict = "completed"

\* At first nothing is completed.
LEMMA CompletionInit == Init => Completion
BY DEF Init, Completion

\* If as many entries as there are shards have all reported completed, every
\* shard was run to its end.
LEMMA GateCountsShards ==
    ASSUME TypeInv, Ownership, Reports, Cardinality(Registered) = Expected,
           \A v \in Registered : report[v] = "completed"
    PROVE  AllDone
<1>0. TypeOK
  BY DEF TypeInv
<1>1. Expected \in Nat \ {0} /\ IsFiniteSet(Workers)
  BY RunCoordinationAssumption DEF RunCoordinationAssumption
<1>2. IsFiniteSet(Shards) /\ Cardinality(Shards) = Expected
  <2>1. IsFiniteSet(0..(Expected - 1)) /\ Cardinality(0..(Expected - 1)) = Expected
    BY <1>1, FS_Interval
  <2>2. QED
    BY <2>1 DEF Shards
<1>3. \A v \in Registered : v \in Workers /\ shard[v] \in Shards /\ job[v] = shard[v]
  <2> SUFFICES ASSUME NEW v \in Registered
               PROVE  v \in Workers /\ shard[v] \in Shards /\ job[v] = shard[v]
    OBVIOUS
  <2>1. v \in Workers /\ shard[v] \in Shards
    BY <1>0 DEF Registered, TypeOK
  <2>2. job[v] \in Shards
    BY <2>1 DEF Reports
  <2>3. shard[v] \in Held(v) /\ job[v] \in Held(v)
    BY <2>1, <2>2 DEF Held
  <2>4. QED
    BY <2>1, <2>3 DEF Ownership
<1>4. \A u, v \in Registered : shard[u] = shard[v] => u = v
  BY <1>3 DEF Ownership, Held
<1> DEFINE f == [v \in Registered |-> shard[v]]
<1>5. f \in Injection(Registered, Shards)
  BY <1>3, <1>4 DEF Injection, IsInjective
<1>6. f \in Surjection(Registered, Shards)
  BY <1>2, <1>5, FS_Injection
<1>7. ASSUME NEW i \in Shards
      PROVE  \E w \in Workers : job[w] = i /\ report[w] = "completed"
  <2>1. PICK v \in Registered : f[v] = i
    BY <1>6 DEF Surjection
  <2>2. QED
    BY <2>1, <1>3
<1>8. QED
  BY <1>7 DEF AllDone

\* Whoever has completed a shard stays so.
LEMMA DoneStays == TypeInv /\ Reports /\ [Next]_vars /\ AllDone => AllDone'
<1> SUFFICES ASSUME TypeInv, Reports, [Next]_vars
             PROVE  AllDone => AllDone'
  OBVIOUS
<1>1. ASSUME UNCHANGED <<job, report>>
      PROVE  AllDone => AllDone'
  BY <1>1 DEF AllDone
<1>2. ASSUME NEW w \in Workers, worker[w] # "exited",
             \A v \in Workers \ {w} : report'[v] = report[v] /\ job'[v] = job[v]
      PROVE  AllDone => AllDone'
  <2>1. report[w] # "completed"
    BY <1>2 DEF Reports
  <2>2. QED
    BY <1>2, <2>1 DEF AllDone
<1>3. CASE SpawnRun \/ AbortRun \/ Restart \/ UNCHANGED vars
  <2>1. CASE SpawnRun
    BY <2>1, <1>1 DEF SpawnRun, InsertRun, Enqueue, SpawnWorker, DispatchDone, DispatchFail,
       CancelDispatchFailed, MarkDispatchFailed, workerVars
  <2>2. CASE AbortRun \/ Restart \/ UNCHANGED vars
    BY <2>2, <1>1 DEF AbortRun, AbortCheck, CoordinatorAbort, MarkAborted, Restart, vars,
       workerVars
  <2>3. QED
    BY <1>3, <2>1, <2>2
<1>4. CASE Watchdog
  <2>1. UNCHANGED workerVars
    BY <1>4 DEF Watchdog, WatchdogMoves, RegistrationComplete, RegistrationDeadline,
       FailIncompleteRegistration, FirstLoad, StartupGrace, Backstop, WatchdogDone,
       FailRunHung, FinalizeHung
  <2>2. QED
    BY <2>1, <1>1 DEF workerVars
<1>5. CASE \E s \in Sessions : Handler(s)
  BY <1>5, <1>1 DEF Handler, HandleRegister, SendAssignment, SetRunning, HandleMetric,
     HandleStatus, Finalize, HandleEof, FinalizeDisconnect, workerVars
<1>6. ASSUME NEW w \in Workers, Answers(w) \/ Engine(w) \/ Faults(w) \/ Reaper(w)
      PROVE  AllDone => AllDone'
  <2>1. CASE Accept(w)
    BY <2>1, <1>2 DEF Accept, TypeInv, TypeOK
  <2>2. CASE AbortListener(w) \/ EngineReturns(w) \/ Sigterm(w)
    BY <2>2, <1>2 DEF AbortListener, EngineReturns, Sigterm, Ends, TypeInv, TypeOK
  <2>3. CASE NetDrop(w)
    BY <2>3, <1>2 DEF NetDrop, TypeInv, TypeOK
  <2>4. CASE Connect(w) \/ Refused(w) \/ GiveUp(w) \/ Metric(w) \/ Crash(w) \/ Reaper(w)
    BY <2>4, <1>1 DEF Connect, Refused, GiveUp, Metric, Crash, Reaper, workerVars
  <2>5. QED
    BY <1>6, <2>1, <2>2, <2>3, <2>4 DEF Answers, Engine, Faults
<1>7. QED
  BY <1>3, <1>4, <1>5, <1>6 DEF Next

\* A step that decides no completion and writes none keeps it.
LEMMA CompletionKept ==
    ASSUME TypeInv, Reports, Completion, [Next]_vars,
           verdict' = verdict \/ (verdict = "none" /\ verdict' # "completed"),
           row' = "completed" => row = "completed" \/ verdict = "completed",
           \A s \in Sessions : handler'[s] = "writeCompleted" => handler[s] = "writeCompleted"
    PROVE  Completion'
BY DoneStays DEF Completion

\* The controller's own steps complete no run.
LEMMA CompletionController ==
    ASSUME TypeInv, Reports, Completion, [Next]_vars,
           SpawnRun \/ AbortRun \/ Watchdog \/ Restart
    PROVE  Completion'
<1> USE DEF MarkFailedIfActive
<1>1. CASE SpawnRun
  <2>1. verdict' = verdict /\ handler' = handler
    BY <1>1 DEF SpawnRun, InsertRun, Enqueue, SpawnWorker, DispatchDone, DispatchFail,
       CancelDispatchFailed, MarkDispatchFailed, runVars, streamVars
  <2>2. row' = "completed" => row = "completed"
    BY <1>1 DEF SpawnRun, InsertRun, Enqueue, SpawnWorker, DispatchDone, DispatchFail,
       CancelDispatchFailed, MarkDispatchFailed
  <2>3. QED
    BY <2>1, <2>2, CompletionKept
<1>2. CASE AbortRun
  <2>1. verdict' = verdict /\ handler' = handler
        /\ (row' = "completed" => row = "completed")
    BY <1>2 DEF AbortRun, AbortCheck, CoordinatorAbort, MarkAborted, runVars, streamVars
  <2>2. QED
    BY <2>1, CompletionKept
<1>3. CASE Watchdog
  <2>1. handler' = handler /\ (row' = "completed" => row = "completed")
    BY <1>3 DEF Watchdog, WatchdogMoves, RegistrationComplete, RegistrationDeadline,
       FailIncompleteRegistration, FirstLoad, StartupGrace, Backstop, WatchdogDone,
       FailRunHung, FinalizeHung, streamVars
  <2>2. verdict' = verdict \/ (verdict = "none" /\ verdict' # "completed")
    BY <1>3 DEF Watchdog, WatchdogMoves, RegistrationComplete, RegistrationDeadline,
       FailIncompleteRegistration, FirstLoad, StartupGrace, Backstop, WatchdogDone,
       FailRunHung, FinalizeHung, IsTerminal, runVars
  <2>3. QED
    BY <2>1, <2>2, CompletionKept
<1>4. CASE Restart
  <2>1. verdict' = verdict /\ (row' = "completed" => row = "completed")
    BY <1>4 DEF Restart
  <2>2. \A s \in Sessions : handler'[s] # "writeCompleted"
    BY <1>4 DEF Restart
  <2>3. QED
    BY <2>1, <2>2, CompletionKept
<1>5. QED
  BY <1>1, <1>2, <1>3, <1>4

\* A handler completes a run only through the completion gate.
LEMMA CompletionHandler ==
    ASSUME TypeInv, Ownership, Reports, Completion, [Next]_vars,
           NEW s \in Sessions, Handler(s)
    PROVE  Completion'
<1>0. TypeOK
  BY DEF TypeInv
<1>1. CASE HandleRegister(s)
  <2>1. UNCHANGED <<row, verdict>>
    BY <1>1 DEF HandleRegister
  <2>2. \A t \in Sessions : handler'[t] = "writeCompleted" => handler[t] = "writeCompleted"
    BY <1>0, <1>1 DEF HandleRegister, RegisterNoRun, RegisterReject, RegisterResend,
       RegisterAssigned, TypeOK
  <2>3. QED
    BY <2>1, <2>2, CompletionKept
<1>2. CASE SendAssignment(s) \/ HandleMetric(s)
  <2>1. UNCHANGED <<row, verdict>>
    BY <1>2 DEF SendAssignment, HandleMetric, runVars
  <2>2. \A t \in Sessions : handler'[t] = "writeCompleted" => handler[t] = "writeCompleted"
    BY <1>0, <1>2 DEF SendAssignment, HandleMetric, TypeOK
  <2>3. QED
    BY <2>1, <2>2, CompletionKept
<1>3. CASE SetRunning(s) \/ FinalizeDisconnect(s)
  <2>1. verdict' = verdict /\ (row' = "completed" => row = "completed")
    BY <1>3 DEF SetRunning, FinalizeDisconnect, SetStatus, MarkFailedIfActive, runVars
  <2>2. \A t \in Sessions : handler'[t] = "writeCompleted" => handler[t] = "writeCompleted"
    BY <1>0, <1>3 DEF SetRunning, FinalizeDisconnect, TypeOK
  <2>3. QED
    BY <2>1, <2>2, CompletionKept
<1>4. CASE Finalize(s)
  <2>1. verdict' = verdict
    BY <1>4 DEF Finalize, runVars
  <2>2. row' = "completed" => row = "completed" \/ verdict = "completed"
    BY <1>4 DEF Finalize, SetStatus, MarkFailedIfActive, Completion
  <2>3. \A t \in Sessions : handler'[t] = "writeCompleted" => handler[t] = "writeCompleted"
    BY <1>0, <1>4 DEF Finalize, TypeOK
  <2>4. QED
    BY <2>1, <2>2, <2>3, CompletionKept
<1>5. ASSUME NEW reported \in Terminal, HandleStatus(s, reported)
      PROVE  Completion'
  <2>1. CASE present /\ Decides(s[1], reported) /\ reported = "completed"
    <3>1. Cardinality(Registered) = Expected
      BY <2>1 DEF Decides, AllCompleted
    <3>2. reported \in Got(s)
      BY <1>0, <1>5, GotReads DEF HandleStatus
    <3>3. \A v \in Registered : report[v] = "completed"
      <4> SUFFICES ASSUME NEW v \in Registered
                   PROVE  report[v] = "completed"
        OBVIOUS
      <4>1. CASE v = s[1]
        BY <2>1, <3>2, <4>1 DEF Reports
      <4>2. CASE v # s[1]
        BY <2>1, <4>2 DEF Decides, AllCompleted, Reports, Registered
      <4>3. QED
        BY <4>1, <4>2
    <3>4. AllDone
      BY <3>1, <3>3, GateCountsShards
    <3>5. AllDone'
      BY <3>4, DoneStays
    <3>6. verdict' = "completed"
      BY <1>5, <2>1 DEF HandleStatus
    <3>7. QED
      BY <3>5, <3>6 DEF Completion
  <2>2. CASE present /\ Decides(s[1], reported) /\ reported # "completed"
    <3>1. verdict = "none" /\ verdict' = reported /\ row' = row
      BY <1>5, <2>2 DEF HandleStatus, Decides, IsTerminal
    <3>2. WriteOf(reported) # "writeCompleted"
      BY <2>2 DEF WriteOf, Terminal
    <3>3. \A t \in Sessions : handler'[t] = "writeCompleted" => handler[t] = "writeCompleted"
      BY <1>0, <1>5, <2>2, <3>2 DEF HandleStatus, TypeOK
    <3>4. QED
      BY <2>2, <3>1, <3>3, CompletionKept
  <2>3. CASE ~(present /\ Decides(s[1], reported))
    <3>1. UNCHANGED <<row, verdict, handler>>
      BY <1>5, <2>3 DEF HandleStatus
    <3>2. QED
      BY <3>1, CompletionKept
  <2>4. QED
    BY <2>1, <2>2, <2>3
<1>6. CASE HandleEof(s)
  <2>1. row' = row /\ (verdict' = verdict \/ (verdict = "none" /\ verdict' # "completed"))
    BY <1>6 DEF HandleEof, Disconnects, IsTerminal
  <2>2. \A t \in Sessions : handler'[t] = "writeCompleted" => handler[t] = "writeCompleted"
    BY <1>0, <1>6 DEF HandleEof, TypeOK
  <2>3. QED
    BY <2>1, <2>2, CompletionKept
<1>7. QED
  BY <1>1, <1>2, <1>3, <1>4, <1>5, <1>6 DEF Handler

\* A worker's steps touch neither the verdict nor the row.
LEMMA CompletionWorker ==
    ASSUME TypeInv, Reports, Completion, [Next]_vars, NEW w \in Workers,
           Answers(w) \/ Engine(w) \/ Faults(w) \/ Reaper(w)
    PROVE  Completion'
<1>0. TypeOK
  BY DEF TypeInv
<1>1. verdict' = verdict
  BY DEF Answers, Engine, Faults, Connect, Accept, Refused, GiveUp, AbortListener, Metric,
     EngineReturns, Crash, NetDrop, Sigterm, Ends, Reaper, runVars
<1>2. row' = "completed" => row = "completed"
  BY DEF Answers, Engine, Faults, Connect, Accept, Refused, GiveUp, AbortListener, Metric,
     EngineReturns, Crash, NetDrop, Sigterm, Ends, Reaper, MarkFailedIfActive
<1>3. CASE Connect(w)
  <2>1. \A s \in Sessions : handler'[s] = "writeCompleted" => handler[s] = "writeCompleted"
    BY <1>0, <1>3 DEF Connect, TypeOK
  <2>2. QED
    BY <1>1, <1>2, <2>1, CompletionKept
<1>4. CASE ~Connect(w)
  <2>1. handler' = handler
    BY <1>4 DEF Answers, Engine, Faults, Accept, Refused, GiveUp, AbortListener, Metric,
       EngineReturns, Crash, NetDrop, Sigterm, Ends, Reaper, streamVars
  <2>2. QED
    BY <1>1, <1>2, <2>1, CompletionKept
<1>5. QED
  BY <1>3, <1>4

\* Every step keeps completion earned.
LEMMA CompletionStep ==
    TypeInv /\ Ownership /\ Reports /\ Completion /\ [Next]_vars => Completion'
<1> SUFFICES ASSUME TypeInv, Ownership, Reports, Completion, [Next]_vars
             PROVE  Completion'
  OBVIOUS
<1>1. CASE UNCHANGED vars
  BY <1>1, CompletionKept DEF vars, rowVars, runVars, streamVars
<1>2. QED
  BY <1>1, CompletionController, CompletionHandler, CompletionWorker DEF Next

\* A run is recorded as completed only if each of its shards was run to its
\* end: the gate of record_phase is never met by a worker counted twice, by
\* one dropped and replaced, or before the others were handed a shard.
THEOREM CompletionIsEarned == Spec => []CompletedCoversAllShards
<1>1. Completion => CompletedCoversAllShards
  BY DEF Completion, AllDone, CompletedCoversAllShards
<1>2. QED
  BY TypeInit, TypeStep, OwnershipInit, OwnershipStep, ReportsInit, ReportsStep,
     CompletionInit, CompletionStep, <1>1, PTL DEF Spec

----------------------------------------------------------------------------
(***************************************************************************)
(* One finaliser.  Whoever is between the decision and the write found the *)
(* run undecided, and has set its verdict: no other task does after it.    *)
(***************************************************************************)
Writing == {"writeCompleted", "writeFailed", "writeAborted", "closeFailed"}

OneDecided ==
    /\ \A s, t \in Sessions : handler[s] \in Writing /\ handler[t] \in Writing => s = t
    /\ \A s \in Sessions : handler[s] \in Writing => IsTerminal /\ watchdog # "write"
    /\ watchdog = "write" => IsTerminal

\* A step in which nobody begins to write, and the verdict is kept.
LEMMA OneDecidedKept ==
    ASSUME OneDecided, IsTerminal => IsTerminal',
           \A s \in Sessions : handler'[s] \in Writing => handler[s] \in Writing,
           watchdog' = "write" => watchdog = "write"
    PROVE  OneDecided'
BY DEF OneDecided

\* The decision of one task, of an undecided run.
LEMMA OneDecidedBegins ==
    ASSUME OneDecided, ~IsTerminal, IsTerminal', watchdog' = watchdog,
           NEW s \in Sessions, \A t \in Sessions \ {s} : handler'[t] = handler[t]
    PROVE  OneDecided'
BY DEF OneDecided

\* The controller's own steps.
LEMMA OneDecidedController ==
    ASSUME TypeInv, OneDecided, SpawnRun \/ AbortRun \/ Watchdog \/ Restart
    PROVE  OneDecided'
<1>1. CASE SpawnRun
  <2>1. UNCHANGED <<verdict, handler>> /\ watchdog' \in {watchdog, "registration"}
    BY <1>1 DEF SpawnRun, InsertRun, Enqueue, SpawnWorker, DispatchDone, DispatchFail,
       CancelDispatchFailed, MarkDispatchFailed, runVars, streamVars
  <2>2. QED
    BY <2>1, OneDecidedKept DEF IsTerminal
<1>2. CASE AbortRun
  BY <1>2, OneDecidedKept DEF AbortRun, AbortCheck, CoordinatorAbort, MarkAborted, runVars,
     streamVars, IsTerminal
<1>3. CASE Watchdog
  <2>1. CASE FailRunHung
    BY <2>1 DEF FailRunHung, OneDecided, IsTerminal, streamVars
  <2>2. CASE FinalizeHung
    BY <2>2, OneDecidedKept DEF FinalizeHung, runVars, IsTerminal
  <2>3. CASE ~FailRunHung /\ ~FinalizeHung
    <3>1. UNCHANGED <<verdict, handler>> /\ watchdog' # "write"
      BY <1>3, <2>3 DEF Watchdog, WatchdogMoves, RegistrationComplete, RegistrationDeadline,
         FailIncompleteRegistration, FirstLoad, StartupGrace, Backstop, WatchdogDone,
         runVars, streamVars
    <3>2. QED
      BY <3>1, OneDecidedKept DEF IsTerminal
  <2>4. QED
    BY <2>1, <2>2, <2>3
<1>4. CASE Restart
  BY <1>4 DEF Restart, OneDecided, Writing
<1>5. QED
  BY <1>1, <1>2, <1>3, <1>4

\* The handler of a session.
LEMMA OneDecidedHandler ==
    ASSUME TypeInv, OneDecided, NEW s \in Sessions, Handler(s)
    PROVE  OneDecided'
<1>1. handler \in [Sessions -> HandlerStates]
  BY DEF TypeInv, TypeOK
<1>2. \A t \in Sessions \ {s} : handler'[t] = handler[t]
  BY <1>1 DEF Handler, HandleRegister, RegisterNoRun, RegisterReject, RegisterResend,
     RegisterAssigned, SendAssignment, SetRunning, HandleMetric, HandleStatus, Finalize,
     HandleEof, FinalizeDisconnect
<1>3. watchdog' = watchdog
  BY DEF Handler, HandleRegister, SendAssignment, SetRunning, HandleMetric, HandleStatus,
     Finalize, HandleEof, FinalizeDisconnect
<1>4. ASSUME NEW reported \in Terminal, HandleStatus(s, reported)
      PROVE  OneDecided'
  <2>1. CASE present /\ Decides(s[1], reported)
    <3>1. ~IsTerminal /\ IsTerminal'
      BY <1>4, <2>1 DEF HandleStatus, Decides, IsTerminal, Terminal
    <3>2. QED
      BY <1>2, <1>3, <3>1, OneDecidedBegins
  <2>2. CASE ~(present /\ Decides(s[1], reported))
    BY <1>3, <1>4, <2>2, OneDecidedKept DEF HandleStatus, IsTerminal
  <2>3. QED
    BY <2>1, <2>2
<1>5. CASE HandleEof(s)
  <2>1. CASE Disconnects(s[1])
    <3>1. ~IsTerminal /\ IsTerminal'
      BY <1>5, <2>1 DEF HandleEof, Disconnects, IsTerminal
    <3>2. QED
      BY <1>2, <1>3, <3>1, OneDecidedBegins
  <2>2. CASE ~Disconnects(s[1])
    <3>1. verdict' = verdict /\ handler'[s] = "closed"
      BY <1>1, <1>5, <2>2 DEF HandleEof
    <3>2. QED
      BY <1>2, <1>3, <3>1, OneDecidedKept DEF IsTerminal, Writing
  <2>3. QED
    BY <2>1, <2>2
<1>6. CASE \/ HandleRegister(s) \/ SendAssignment(s) \/ SetRunning(s) \/ HandleMetric(s)
           \/ Finalize(s) \/ FinalizeDisconnect(s)
  <2>1. verdict' = verdict
    BY <1>6 DEF HandleRegister, SendAssignment, SetRunning, HandleMetric, Finalize,
       FinalizeDisconnect, runVars
  <2>2. handler'[s] = handler[s] \/ handler'[s] \notin Writing
    BY <1>1, <1>6 DEF HandleRegister, RegisterNoRun, RegisterReject, RegisterResend,
       RegisterAssigned, SendAssignment, SetRunning, HandleMetric, Finalize,
       FinalizeDisconnect, Writing
  <2>3. QED
    BY <1>2, <1>3, <2>1, <2>2, OneDecidedKept DEF IsTerminal
<1>7. QED
  BY <1>4, <1>5, <1>6 DEF Handler

\* A worker's steps, which touch a handler only to open a session.
LEMMA OneDecidedWorker ==
    ASSUME TypeInv, OneDecided, NEW w \in Workers,
           Answers(w) \/ Engine(w) \/ Faults(w) \/ Reaper(w)
    PROVE  OneDecided'
<1>1. UNCHANGED <<verdict, watchdog>>
  BY DEF Answers, Engine, Faults, Connect, Accept, Refused, GiveUp, AbortListener, Metric,
     EngineReturns, Crash, NetDrop, Sigterm, Ends, Reaper, runVars
<1>2. \A s \in Sessions : handler'[s] \in {handler[s], "open"}
  BY DEF Answers, Engine, Faults, Connect, Accept, Refused, GiveUp, AbortListener, Metric,
     EngineReturns, Crash, NetDrop, Sigterm, Ends, Reaper, streamVars, TypeInv, TypeOK
<1>3. QED
  BY <1>1, <1>2, OneDecidedKept DEF IsTerminal, Writing

\* Every step.
LEMMA OneDecidedStep == TypeInv /\ OneDecided /\ [Next]_vars => OneDecided'
<1> SUFFICES ASSUME TypeInv, OneDecided, [Next]_vars
             PROVE  OneDecided'
  OBVIOUS
<1>1. CASE UNCHANGED vars
  BY <1>1, OneDecidedKept DEF vars, runVars, streamVars, IsTerminal
<1>2. QED
  BY <1>1, OneDecidedController, OneDecidedHandler, OneDecidedWorker DEF Next

\* Of all handlers and the watchdog, one task at most is between deciding the
\* run's outcome and writing it: record_phase, worker_disconnected and
\* fail_run_hung exclude each other through the terminal flag.
THEOREM OneFinalizer == Spec => []AtMostOneFinalizer
<1>1. Init => OneDecided
  BY DEF Init, OneDecided, Writing
<1>2. OneDecided => AtMostOneFinalizer
  <2> SUFFICES ASSUME OneDecided
               PROVE  AtMostOneFinalizer
    OBVIOUS
  <2>1. Finalizers = {} \/ \E s \in Sessions : Finalizers = {s}
    BY DEF OneDecided, Finalizers, Writing
  <2>2. Cardinality(Finalizers) <= 1
    <3>1. CASE Finalizers = {}
      BY <3>1, FS_EmptySet
    <3>2. ASSUME NEW s \in Sessions, Finalizers = {s}
          PROVE  Cardinality(Finalizers) <= 1
      <4>1. Cardinality({s}) = 1
        BY FS_Singleton
      <4>2. QED
        BY <3>2, <4>1
    <3>3. QED
      BY <2>1, <3>1, <3>2
  <2>3. watchdog = "write" => Finalizers = {}
    BY DEF OneDecided, Finalizers, Writing
  <2>4. QED
    BY <2>2, <2>3 DEF AtMostOneFinalizer
<1>3. QED
  BY <1>1, <1>2, TypeInit, TypeStep, OneDecidedStep, PTL DEF Spec

----------------------------------------------------------------------------
(***************************************************************************)
(* The aborted row.                                                        *)
(***************************************************************************)
\* Before spawn_run's INSERT there is no row, and nobody to write one.
NothingYet ==
    /\ row = "none" /\ user = "idle" /\ watchdog = "off" /\ ~present
    /\ \A w \in Workers : worker[w] = "none"
    /\ \A s \in Sessions : handler[s] = "none"

Unstarted == api = "start" => NothingYet

\* At first there is nothing.
LEMMA UnstartedInit == Init => Unstarted
BY DEF Init, Unstarted, NothingYet

\* The only step out of nothing is the INSERT.
LEMMA FirstStep ==
    ASSUME TypeInv, NothingYet, api = "start", Next
    PROVE  InsertRun
<1>1. ~(AbortRun \/ Watchdog \/ Restart)
  BY DEF NothingYet, AbortRun, AbortCheck, CoordinatorAbort, MarkAborted, Active, Restart,
     Watchdog, WatchdogMoves, RegistrationComplete, RegistrationDeadline,
     FailIncompleteRegistration, FirstLoad, StartupGrace, Backstop, WatchdogDone,
     AwaitsPhase, FailRunHung, FinalizeHung
<1>2. ASSUME NEW s \in Sessions
      PROVE  ~Handler(s)
  BY DEF NothingYet, Handler, HandleRegister, SendAssignment, SetRunning, HandleMetric,
     HandleStatus, Finalize, HandleEof, FinalizeDisconnect, Reads
<1>3. ASSUME NEW w \in Workers
      PROVE  ~(Answers(w) \/ Engine(w) \/ Faults(w) \/ Reaper(w))
  BY DEF NothingYet, Answers, Engine, Faults, Connect, Accept, Refused, GiveUp,
     AbortListener, Metric, EngineReturns, Crash, NetDrop, Sigterm, Ends, Reaper
<1>4. SpawnRun => InsertRun
  BY DEF SpawnRun, Enqueue, SpawnWorker, DispatchDone, DispatchFail, CancelDispatchFailed,
     MarkDispatchFailed
<1>5. QED
  BY <1>1, <1>2, <1>3, <1>4 DEF Next

\* Nothing goes back to the start.
LEMMA StartIsLeft ==
    ASSUME Next
    PROVE  api' # "start" \/ api' = api
<1>1. CASE SpawnRun \/ AbortRun \/ Watchdog \/ Restart
  BY <1>1 DEF SpawnRun, InsertRun, Enqueue, SpawnWorker, DispatchDone, DispatchFail,
     CancelDispatchFailed, MarkDispatchFailed, AbortRun, AbortCheck, CoordinatorAbort,
     MarkAborted, Restart, Watchdog, WatchdogMoves, RegistrationComplete,
     RegistrationDeadline, FailIncompleteRegistration, FirstLoad, StartupGrace, Backstop,
     WatchdogDone, FailRunHung, FinalizeHung, requestVars
<1>2. ASSUME NEW s \in Sessions, Handler(s)
      PROVE  api' = api
  BY <1>2 DEF Handler, HandleRegister, SendAssignment, SetRunning, HandleMetric,
     HandleStatus, Finalize, HandleEof, FinalizeDisconnect, requestVars
<1>3. ASSUME NEW w \in Workers, Answers(w) \/ Engine(w) \/ Faults(w) \/ Reaper(w)
      PROVE  api' = api
  BY <1>3 DEF Answers, Engine, Faults, Connect, Accept, Refused, GiveUp, AbortListener,
     Metric, EngineReturns, Crash, NetDrop, Sigterm, Ends, Reaper, requestVars
<1>4. QED
  BY <1>1, <1>2, <1>3 DEF Next

\* Every step.
LEMMA UnstartedStep == TypeInv /\ Unstarted /\ [Next]_vars => Unstarted'
<1> SUFFICES ASSUME TypeInv, Unstarted, [Next]_vars, api' = "start"
             PROVE  NothingYet'
  BY DEF Unstarted
<1>1. CASE UNCHANGED vars
  BY <1>1 DEF Unstarted, NothingYet, vars, rowVars, runVars, requestVars, streamVars,
     workerVars
<1>2. CASE Next
  <2>1. api = "start" /\ NothingYet
    BY <1>2, StartIsLeft DEF Unstarted
  <2>2. InsertRun
    BY <1>2, <2>1, FirstStep
  <2>3. QED
    BY <2>2 DEF InsertRun
<1>3. QED
  BY <1>1, <1>2

\* A step writes the row by one of the guarded statements, but for the INSERT
\* and mark_failed.
LEMMA AbortedStep ==
    ASSUME Next, row = "aborted", api \notin {"start", "markFailed"}
    PROVE  row' = "aborted"
<1> USE DEF MarkFailedIfActive, SetStatus, Active
<1>1. CASE SpawnRun \/ AbortRun \/ Watchdog \/ Restart
  BY <1>1 DEF SpawnRun, InsertRun, Enqueue, SpawnWorker, DispatchDone, DispatchFail,
     CancelDispatchFailed, MarkDispatchFailed, AbortRun, AbortCheck, CoordinatorAbort,
     MarkAborted, Restart, Watchdog, WatchdogMoves, RegistrationComplete,
     RegistrationDeadline, FailIncompleteRegistration, FirstLoad, StartupGrace, Backstop,
     WatchdogDone, FailRunHung, FinalizeHung
<1>2. ASSUME NEW s \in Sessions, Handler(s)
      PROVE  row' = "aborted"
  BY <1>2 DEF Handler, HandleRegister, SendAssignment, SetRunning, HandleMetric,
     HandleStatus, Finalize, HandleEof, FinalizeDisconnect
<1>3. ASSUME NEW w \in Workers, Answers(w) \/ Engine(w) \/ Faults(w) \/ Reaper(w)
      PROVE  row' = "aborted"
  BY <1>3 DEF Answers, Engine, Faults, Connect, Accept, Refused, GiveUp, AbortListener,
     Metric, EngineReturns, Crash, NetDrop, Sigterm, Ends, Reaper
<1>4. QED
  BY <1>1, <1>2, <1>3 DEF Next

\* An aborted row stays aborted, whatever the handlers, the reapers, the
\* watchdog and a restart still write, until mark_failed of a dispatch that
\* failed, which has no guard, overwrites it.
THEOREM AbortIsFinal == Spec => AbortedRowStays
<1>1. Unstarted /\ [Next]_vars => [row = "aborted" /\ api # "markFailed" => row' = "aborted"]_vars
  <2> SUFFICES ASSUME Unstarted, Next, row = "aborted", api # "markFailed"
               PROVE  row' = "aborted"
    OBVIOUS
  <2>1. api # "start"
    BY DEF Unstarted, NothingYet
  <2>2. QED
    BY <2>1, AbortedStep
<1>2. QED
  BY <1>1, TypeInit, TypeStep, UnstartedInit, UnstartedStep, PTL DEF Spec, AbortedRowStays

----------------------------------------------------------------------------
(***************************************************************************)
(* The refinement.                                                         *)
(***************************************************************************)
Completed == {v \in Workers : report[v] = "completed"}
Handed    == 0..(nextShard - 1)
Finished  == {job[w] : w \in Completed}
Pending   == ~IsTerminal /\ (present \/ api \in {"start", "inserted"})

\* The outcome, in the three cases of its definition.
LEMMA OutcomeCases ==
    /\ IsTerminal => Outcome = verdict
    /\ Pending => Outcome = "none"
    /\ ~IsTerminal /\ ~Pending => Outcome = "withdrawn"
BY DEF Outcome, Pending

LEMMA OutcomeCasesNext ==
    /\ IsTerminal' => Outcome' = verdict'
    /\ Pending' => Outcome' = "none"
    /\ ~IsTerminal' /\ ~Pending' => Outcome' = "withdrawn"
BY DEF Outcome, Pending

\* What leaves the verdict and the standing of the run alone.
LEMMA OutcomeKept ==
    ASSUME verdict' = verdict, Pending' <=> Pending
    PROVE  Outcome' = Outcome
BY OutcomeCases, OutcomeCasesNext DEF IsTerminal

\* The abstract step of a concrete one: none, a hand-out, a finished shard, a
\* decision.
LEMMA PromiseKept ==
    ASSUME UNCHANGED <<Outcome, Handed, Finished>>
    PROVE  [Promise!Next]_(Promise!vars)
BY DEF Promise!vars, Handed, Finished, Completed

LEMMA PromiseHandsOut ==
    ASSUME NEW i \in Shards, Outcome = "none", i \notin Handed,
           Handed' = Handed \cup {i}, UNCHANGED <<Outcome, Finished>>
    PROVE  [Promise!Next]_(Promise!vars)
BY DEF Promise!Next, Promise!HandOut, Handed, Finished, Completed

LEMMA PromiseFinishes ==
    ASSUME NEW i \in Shards, i \in Handed, i \notin Finished,
           Finished' = Finished \cup {i}, UNCHANGED <<Outcome, Handed>>
    PROVE  [Promise!Next]_(Promise!vars)
BY DEF Promise!Next, Promise!Finish, Handed, Finished, Completed

LEMMA PromiseDecides ==
    ASSUME Outcome = "none", Outcome' \in {"completed", "failed", "aborted", "withdrawn"},
           Outcome' = "completed" => Finished = Shards, UNCHANGED <<Handed, Finished>>
    PROVE  [Promise!Next]_(Promise!vars)
BY DEF Promise!Next, Promise!Decide, Handed, Finished, Completed

\* The controller's own steps are decisions, or nothing.
LEMMA PromiseController ==
    ASSUME TypeInv, Unstarted, Next, SpawnRun \/ AbortRun \/ Watchdog \/ Restart
    PROVE  [Promise!Next]_(Promise!vars)
<1>1. UNCHANGED <<nextShard, job, report>>
  BY DEF SpawnRun, InsertRun, Enqueue, SpawnWorker, DispatchDone, DispatchFail,
     CancelDispatchFailed, MarkDispatchFailed, AbortRun, AbortCheck, CoordinatorAbort,
     MarkAborted, Restart, Watchdog, WatchdogMoves, RegistrationComplete,
     RegistrationDeadline, FailIncompleteRegistration, FirstLoad, StartupGrace, Backstop,
     WatchdogDone, FailRunHung, FinalizeHung, runVars, workerVars
<1>2. UNCHANGED <<Handed, Finished>>
  BY <1>1 DEF Handed, Finished, Completed
<1>3. ASSUME verdict' = verdict, Pending' <=> Pending
      PROVE  [Promise!Next]_(Promise!vars)
  BY <1>2, <1>3, OutcomeKept, PromiseKept
<1>4. ASSUME verdict' = verdict, ~Pending'
      PROVE  [Promise!Next]_(Promise!vars)
  <2>1. CASE Pending
    <3>1. Outcome = "none" /\ Outcome' = "withdrawn"
      BY <1>4, <2>1, OutcomeCases, OutcomeCasesNext DEF Pending, IsTerminal
    <3>2. QED
      BY <1>2, <3>1, PromiseDecides
  <2>2. CASE ~Pending
    BY <1>3, <1>4, <2>2
  <2>3. QED
    BY <2>1, <2>2
<1>5. CASE SpawnRun
  <2>1. CASE InsertRun \/ Enqueue
    <3>1. verdict' = verdict /\ (Pending' <=> Pending)
      BY <2>1 DEF InsertRun, Enqueue, runVars, Pending, IsTerminal
    <3>2. QED
      BY <1>3, <3>1
  <2>2. CASE \/ \E w \in Workers : SpawnWorker(w)
             \/ DispatchDone \/ DispatchFail \/ MarkDispatchFailed
    <3>1. verdict' = verdict /\ (Pending' <=> Pending)
      BY <2>2 DEF SpawnWorker, DispatchDone, DispatchFail, MarkDispatchFailed, runVars,
         requestVars, Pending, IsTerminal
    <3>2. QED
      BY <1>3, <3>1
  <2>3. CASE CancelDispatchFailed
    <3>1. verdict' = verdict /\ ~Pending'
      BY <2>3 DEF CancelDispatchFailed, Pending
    <3>2. QED
      BY <1>4, <3>1
  <2>4. QED
    BY <1>5, <2>1, <2>2, <2>3 DEF SpawnRun
<1>6. CASE AbortRun
  <2>1. verdict' = verdict /\ (Pending' <=> Pending)
    BY <1>6 DEF AbortRun, AbortCheck, CoordinatorAbort, MarkAborted, runVars, Pending,
       IsTerminal
  <2>2. QED
    BY <1>3, <2>1
<1>7. CASE Watchdog
  <2>1. CASE FailRunHung /\ verdict' # verdict
    <3>1. Outcome = "none" /\ Outcome' = "failed"
      BY <2>1, OutcomeCases, OutcomeCasesNext DEF FailRunHung, Pending, IsTerminal
    <3>2. QED
      BY <1>2, <3>1, PromiseDecides
  <2>2. CASE ~(FailRunHung /\ verdict' # verdict)
    <3>1. verdict' = verdict /\ UNCHANGED <<present, api>>
      BY <1>7, <2>2 DEF Watchdog, WatchdogMoves, RegistrationComplete,
         RegistrationDeadline, FailIncompleteRegistration, FirstLoad, StartupGrace,
         Backstop, WatchdogDone, FailRunHung, FinalizeHung, runVars, requestVars
    <3>2. QED
      BY <1>3, <3>1 DEF Pending, IsTerminal
  <2>3. QED
    BY <2>1, <2>2
<1>8. CASE Restart
  <2>1. verdict' = verdict /\ ~Pending'
    BY <1>8 DEF Restart, Pending
  <2>2. QED
    BY <1>4, <2>1
<1>9. QED
  BY <1>5, <1>6, <1>7, <1>8

\* A handler hands out a shard or decides; a completion, when all are done.
LEMMA PromiseHandler ==
    ASSUME TypeInv, Ownership, Reports, Completion, Completion', NEW s \in Sessions,
           Handler(s)
    PROVE  [Promise!Next]_(Promise!vars)
<1>1. UNCHANGED <<present, api, job, report>>
  BY DEF Handler, HandleRegister, SendAssignment, SetRunning, HandleMetric, HandleStatus,
     Finalize, HandleEof, FinalizeDisconnect, runVars, requestVars, workerVars
<1>2. UNCHANGED Finished
  BY <1>1 DEF Finished, Completed
<1>3. ASSUME verdict' = verdict, nextShard' = nextShard
      PROVE  [Promise!Next]_(Promise!vars)
  BY <1>1, <1>2, <1>3, OutcomeKept, PromiseKept DEF Pending, IsTerminal, Handed
<1>4. ASSUME nextShard' = nextShard, present, ~IsTerminal, verdict' \in Terminal
      PROVE  [Promise!Next]_(Promise!vars)
  <2>1. Outcome = "none" /\ Outcome' = verdict'
    BY <1>4, OutcomeCases, OutcomeCasesNext DEF Pending, IsTerminal, Terminal
  <2>2. ASSUME verdict' = "completed"
        PROVE  Finished = Shards
    <3>1. \A i \in Shards : \E w \in Workers : job[w] = i /\ report[w] = "completed"
      BY <1>1, <2>2 DEF Completion, AllDone
    <3>2. \A w \in Completed : job[w] \in Shards
      BY DEF Reports, Completed
    <3>3. QED
      BY <3>1, <3>2 DEF Finished, Completed
  <2>3. QED
    BY <1>2, <1>4, <2>1, <2>2, PromiseDecides DEF Handed, Terminal
<1>5. CASE HandleRegister(s)
  <2>1. CASE RegisterAssigned(s)
    <3>1. verdict' = verdict
      BY <1>5 DEF HandleRegister
    <3>2. Outcome = "none" /\ Outcome' = Outcome
      BY <1>1, <2>1, <3>1, OutcomeCases, OutcomeKept DEF RegisterAssigned, Pending,
         IsTerminal
    <3>3. nextShard \in 0..Expected /\ nextShard # Expected /\ nextShard' = nextShard + 1
      BY <2>1 DEF RegisterAssigned, AllRegistered, TypeInv, TypeOK
    <3>4. Expected \in Nat
      BY RunCoordinationAssumption DEF RunCoordinationAssumption
    <3>5. nextShard \in Shards /\ nextShard \notin Handed
      BY <3>3, <3>4 DEF Handed, Shards
    <3>6. Handed' = Handed \cup {nextShard}
      BY <3>3, <3>4 DEF Handed
    <3>7. QED
      BY <1>2, <3>2, <3>5, <3>6, PromiseHandsOut
  <2>2. CASE RegisterNoRun(s) \/ RegisterReject(s) \/ RegisterResend(s)
    BY <1>3, <1>5, <2>2 DEF HandleRegister, RegisterNoRun, RegisterReject, RegisterResend
  <2>3. QED
    BY <1>5, <2>1, <2>2 DEF HandleRegister
<1>6. ASSUME NEW reported \in Terminal, HandleStatus(s, reported)
      PROVE  [Promise!Next]_(Promise!vars)
  <2>1. CASE present /\ Decides(s[1], reported)
    BY <1>4, <1>6, <2>1 DEF HandleStatus, Decides
  <2>2. CASE ~(present /\ Decides(s[1], reported))
    BY <1>3, <1>6, <2>2 DEF HandleStatus
  <2>3. QED
    BY <2>1, <2>2
<1>7. CASE HandleEof(s)
  <2>1. CASE Disconnects(s[1])
    BY <1>4, <1>7, <2>1 DEF HandleEof, Disconnects, Terminal
  <2>2. CASE ~Disconnects(s[1])
    BY <1>3, <1>7, <2>2 DEF HandleEof
  <2>3. QED
    BY <2>1, <2>2
<1>8. CASE \/ SendAssignment(s) \/ SetRunning(s) \/ HandleMetric(s) \/ Finalize(s)
           \/ FinalizeDisconnect(s)
  BY <1>3, <1>8 DEF SendAssignment, SetRunning, HandleMetric, Finalize,
     FinalizeDisconnect, runVars
<1>9. QED
  BY <1>5, <1>6, <1>7, <1>8 DEF Handler

\* A worker finishes its shard, which was handed to it and to nobody else, or
\* does nothing the promise speaks of.
LEMMA PromiseWorker ==
    ASSUME TypeInv, Ownership, Reports, NEW w \in Workers,
           Answers(w) \/ Engine(w) \/ Faults(w) \/ Reaper(w)
    PROVE  [Promise!Next]_(Promise!vars)
<1>1. UNCHANGED <<verdict, present, api, nextShard>>
  BY DEF Answers, Engine, Faults, Connect, Accept, Refused, GiveUp, AbortListener, Metric,
     EngineReturns, Crash, NetDrop, Sigterm, Ends, Reaper, runVars, requestVars
<1>2. UNCHANGED <<Outcome, Handed>>
  BY <1>1, OutcomeKept DEF Pending, IsTerminal, Handed
<1>3. /\ job \in [Workers -> Shards \cup {NoShard}]
      /\ report \in [Workers -> {"none"} \cup Terminal]
  BY DEF TypeInv, TypeOK
<1>4. ASSUME worker[w] # "exited", \A v \in Workers \ {w} : job'[v] = job[v],
             \A v \in Workers \ {w} : report'[v] = report[v], report'[w] # "completed"
      PROVE  [Promise!Next]_(Promise!vars)
  <2>1. report[w] # "completed"
    BY <1>4 DEF Reports
  <2>2. Completed' = Completed /\ \A v \in Completed : job'[v] = job[v]
    BY <1>4, <2>1 DEF Completed
  <2>3. Finished' = Finished
    BY <2>2 DEF Finished
  <2>4. QED
    BY <1>2, <2>3, PromiseKept
<1>5. CASE Ends(w, "completed")
  <2>1. worker[w] = "run" /\ job' = job /\ report' = [report EXCEPT ![w] = "completed"]
    BY <1>5 DEF Ends
  <2>2. job[w] \in Shards /\ report[w] # "completed"
    BY <2>1 DEF Reports
  <2>3. job[w] \in Held(w) /\ job[w] < nextShard
    BY <2>2 DEF Held, Ownership
  <2>4. job[w] \in Handed
    <3>1. Expected \in Nat
      BY RunCoordinationAssumption DEF RunCoordinationAssumption
    <3>2. nextShard \in Nat
      BY <3>1 DEF TypeInv, TypeOK
    <3>3. QED
      BY <2>2, <2>3, <3>1, <3>2 DEF Handed, Shards
  <2>5. ASSUME NEW v \in Completed
        PROVE  job[v] # job[w]
    <3>1. v \in Workers /\ v # w
      BY <2>2 DEF Completed
    <3>2. job[v] \in Shards => job[v] \in Held(v)
      BY DEF Held
    <3>3. Held(v) \cap Held(w) = {}
      BY <3>1 DEF Ownership
    <3>4. QED
      BY <2>2, <2>3, <3>2, <3>3
  <2>6. job[w] \notin Finished
    BY <2>5 DEF Finished
  <2>7. Completed' = Completed \cup {w}
    BY <1>3, <2>1 DEF Completed
  <2>8. Finished' = Finished \cup {job[w]}
    BY <2>1, <2>7 DEF Finished
  <2>9. QED
    BY <1>2, <2>2, <2>4, <2>6, <2>8, PromiseFinishes
<1>6. ASSUME NEW result \in {"failed", "aborted"}, Ends(w, result)
      PROVE  [Promise!Next]_(Promise!vars)
  <2>1. worker[w] # "exited" /\ job' = job /\ report' = [report EXCEPT ![w] = result]
    BY <1>6 DEF Ends
  <2>2. QED
    BY <1>3, <1>4, <2>1
<1>7. CASE Accept(w)
  <2>1. worker[w] # "exited" /\ report' = report
        /\ \A v \in Workers \ {w} : job'[v] = job[v]
    BY <1>3, <1>7 DEF Accept
  <2>2. report[w] # "completed"
    BY <2>1 DEF Reports
  <2>3. QED
    BY <1>4, <2>1, <2>2
<1>8. CASE NetDrop(w)
  <2>1. worker[w] # "exited" /\ job' = job
        /\ (report' = report \/ report' = [report EXCEPT ![w] = "aborted"])
    BY <1>8 DEF NetDrop
  <2>2. report[w] # "completed"
    BY <2>1 DEF Reports
  <2>3. QED
    BY <1>3, <1>4, <2>1, <2>2
<1>9. CASE \/ Connect(w) \/ Refused(w) \/ GiveUp(w) \/ Metric(w) \/ Crash(w) \/ Reaper(w)
  <2>1. UNCHANGED <<job, report>>
    BY <1>9 DEF Connect, Refused, GiveUp, Metric, Crash, Reaper, workerVars
  <2>2. Finished' = Finished
    BY <2>1 DEF Finished, Completed
  <2>3. QED
    BY <1>2, <2>2, PromiseKept
<1>10. QED
  BY <1>5, <1>6, <1>7, <1>8, <1>9 DEF Answers, Engine, Faults, AbortListener, EngineReturns,
     Sigterm

\* The coordinator implements RunOutcome: whatever the interleaving, a run
\* has one outcome, decided once; shards are handed out once each and before
\* it; and the outcome is completed only when every shard is finished.
THEOREM CoordinatorImplementsOutcome == Spec => ImplementsRunOutcome
<1>1. Init => Promise!Init
  <2> SUFFICES ASSUME Init
               PROVE  Promise!Init
    OBVIOUS
  <2>1. Outcome = "none"
    BY OutcomeCases DEF Init, Pending, IsTerminal
  <2>2. Handed = {} /\ Finished = {}
    BY DEF Init, Handed, Finished, Completed
  <2>3. QED
    BY <2>1, <2>2 DEF Promise!Init, Handed, Finished, Completed
<1>2. TypeInv /\ Ownership /\ Reports /\ Completion /\ Completion' /\ Unstarted
        /\ [Next]_vars => [Promise!Next]_(Promise!vars)
  <2> SUFFICES ASSUME TypeInv, Ownership, Reports, Completion, Completion', Unstarted,
                      [Next]_vars
               PROVE  [Promise!Next]_(Promise!vars)
    OBVIOUS
  <2>1. CASE UNCHANGED vars
    <3>1. UNCHANGED <<verdict, present, api, nextShard, job, report>>
      BY <2>1 DEF vars, runVars, requestVars, workerVars
    <3>2. QED
      BY <3>1, OutcomeKept, PromiseKept DEF Pending, IsTerminal, Handed, Finished, Completed
  <2>2. CASE Next
    BY <2>2, PromiseController, PromiseHandler, PromiseWorker DEF Next
  <2>3. QED
    BY <2>1, <2>2
<1>3. QED
  BY <1>1, <1>2, TypeInit, TypeStep, OwnershipInit, OwnershipStep, ReportsInit, ReportsStep,
     CompletionInit, CompletionStep, UnstartedInit, UnstartedStep, PTL
     DEF Spec, ImplementsRunOutcome, Promise!Spec
=============================================================================
