---------------------------- MODULE MCDataPlane ----------------------------
(***************************************************************************)
(* The data plane of one run in one state space: the rows on their way to  *)
(* the engines (DataRows), an engine (LoadEngine) and the measurements on  *)
(* their way back (MetricsPath).  They share no state, so each behaviour   *)
(* moves one of them, the part, and leaves the others where they begin.    *)
(*                                                                         *)
(* Of the disturbances of DataRows a behaviour has one kind: deletions of  *)
(* datasets, the user's abort, or faults.                                  *)
(***************************************************************************)
EXTENDS LoadEngine, FiniteSetsExt

CONSTANTS Capacity, LinkCap, MaxRecords, MaxSecond, MaxBreaks, MaxDbErrors,
          Workers, Bindings, Batch, ChanCap, MaxFaults

VARIABLES part, second, mode, engine, pending, recorded, flusher, upTo, cancelled,
          hand, channel, waiting, permits, forwarder, carried, link, open, breaks,
          stored, verdict, excused, dbErrors,
          datasets, deleter, launch, runRow, terminal, user, handler,
          at, sent, fetched, owed, chan, conn, worker, bucket, report, faults

Metrics == INSTANCE MetricsPathProofs
Data    == INSTANCE DataRows WITH stored <- datasets, open <- conn

ASSUME EngineAssumption  == Admissible
ASSUME MetricsAssumption == Metrics!Admissible
ASSUME DataAssumption    == Data!Admissible

MCSchedules == {<<0, 0, 1>>, <<0, 1, 2>>, <<1>>}
MCBindings  == <<[unique |-> TRUE, rows |-> 3, slots |-> 0],
                 [unique |-> FALSE, rows |-> 2, slots |-> 1]>>

DataParts == {"deletions", "abort", "faults"}

metricsVars ==
    <<second, mode, engine, pending, recorded, flusher, upTo, cancelled, hand,
      channel, waiting, permits, forwarder, carried, link, open, breaks, stored,
      verdict, excused, dbErrors>>
rowsVars == <<datasets, deleter, launch, runRow, terminal, user, handler, at,
              sent, fetched, owed, chan, conn, worker, bucket, report, faults>>

MCInit ==
    /\ part \in {"metrics", "engine"} \cup DataParts
    /\ Init /\ Metrics!Init /\ Data!Init
    /\ part # "metrics" => mode = "closed"
    /\ part # "engine" =>
        /\ loop = "closed" /\ ramp = Min(Ramps) /\ rows = Min(RowCounts)

EngineNext == part = "engine" /\ Next /\ UNCHANGED <<part, metricsVars, rowsVars>>

MetricsNext ==
    /\ part = "metrics" /\ Metrics!Next
    /\ UNCHANGED <<part, vars, rowsVars>>

DataNext ==
    /\ part \in DataParts /\ Data!Next
    /\ part # "deletions" => deleter' = deleter
    /\ part # "abort" => user' = user
    /\ part # "faults" => faults' = faults
    /\ UNCHANGED <<part, vars, metricsVars>>

MCNext == MetricsNext \/ EngineNext \/ DataNext

\* The fairness of each of the three, when it is the one that moves.
MCFairness ==
    /\ WF_metricsVars(part = "metrics" /\ Metrics!GrantPermit)
    /\ WF_metricsVars(part = "metrics" /\ Metrics!FlusherMoves)
    /\ WF_metricsVars(part = "metrics" /\ Metrics!EngineMoves)
    /\ WF_metricsVars(part = "metrics" /\ Metrics!ForwarderMoves)
    /\ WF_metricsVars(part = "metrics" /\ Metrics!HandlerMoves)
    /\ WF_vars(part = "engine" /\ MainMoves)
    /\ WF_vars(part = "engine" /\ Tick)
    /\ \A a \in Actors : WF_vars(part = "engine" /\ TaskMoves(a))
    /\ \A w \in Workers :
        /\ WF_rowsVars(part \in DataParts /\ Data!HandlerMoves(w))
        /\ WF_rowsVars(part \in DataParts /\ Data!WorkerMoves(w))
        /\ WF_rowsVars(part \in DataParts /\ Data!FanOutAbort(w))

MCSpec == MCInit /\ [][MCNext]_<<part, vars, metricsVars, rowsVars>> /\ MCFairness

----------------------------------------------------------------------------
\* The state of each part is of its type.
TypesOK == TypeOK /\ Metrics!TypeOK /\ Data!TypeOK

\* MetricsPath's: a completed run's measurements are all in the database, once.
CompletedRunIsFullyStored == Metrics!CompletedRunIsFullyStored

\* DataRows': no engine starts with rows missing, or with another's.
NoEngineOnPartialData == Data!NoEngineOnPartialData

\* Every worker that loads has its rows or was told, the engine is over, the
\* measured run has its verdict.
NothingWaits ==
    /\ part = "metrics" => verdict # "none"
    /\ part = "engine" => main = "over"
    /\ \A w \in Workers : worker[w] # "loading"

(***************************************************************************)
(* Nothing in the data plane waits for ever: a worker that loads rows gets *)
(* them or is told, an engine comes to its end, and a measured run comes   *)
(* to a verdict (LoadingEnds, EngineEnds and RunIsReported of the parts).  *)
(***************************************************************************)
NothingWaitsForEver == []<>NothingWaits
=============================================================================
