----------------------------- MODULE MCServices -----------------------------
(***************************************************************************)
(* The background services of the controller in one state space: the run   *)
(* scheduler (Scheduler) and the monitor's supervisor (Monitor).  They     *)
(* share no state, so each behaviour moves one of them, the part, and      *)
(* leaves the other where it begins.                                       *)
(***************************************************************************)
EXTENDS Scheduler

CONSTANTS
    s1, s2,            \* two schedules in one tick, the least that makes a row of it old
    b1, p1, p2,        \* one board of two panels, which form one unit, two, or leave it
    k1, k2,
    Boards, Panels, MaxChecks, Calls

VARIABLES part, board, root, calls, stopping, slots, op, running, units, tokens,
          loops, view, unheard

Board == INSTANCE MonitorProofs WITH row <- board

ASSUME MonitorAssumption == Board!Admissible

MCSchedules == {s1, s2}
MCBoards    == {b1}
MCPanels    == {p1, p2}
MCCalls     == {k1, k2}

monitorVars == <<board, root, calls, stopping, slots, op, running, units, tokens,
                 loops, view, unheard>>

MCInit ==
    /\ part \in {"schedules", "monitor"}
    /\ Init /\ Board!Init
    /\ part = "schedules" =>
         \A b \in Boards : ~board[b].enabled /\ board[b].config = {Panels}
    /\ part = "monitor" => \A s \in Schedules : row[s].kind = "cron"

SchedulerNext == part = "schedules" /\ Next /\ UNCHANGED <<part, monitorVars>>
MonitorNext   == part = "monitor" /\ Board!Next /\ UNCHANGED <<part, vars>>

MCNext == SchedulerNext \/ MonitorNext

\* The fairness of the two: in the one that does not move none of it is enabled.
MCFairness ==
    /\ WF_vars(Loop)
    /\ \A k \in Calls : WF_monitorVars(Board!Reconcile(k))
    /\ WF_monitorVars(Board!StopAll)
    /\ WF_monitorVars(\E l \in loops : Board!Quit(l))

MCSpec == MCInit /\ [][MCNext]_<<part, vars, monitorVars>> /\ MCFairness

----------------------------------------------------------------------------
\* The state of each part is of its type.
TypesOK == TypeOK /\ Board!TypeOK

\* Monitor's: one writer for each panel, no orphaned loop, and a panel shows a
\* check running exactly while one is.
PanelsAreServedOnce == Board!OneLoopPerPanel /\ Board!RunningFlagIsTrue

\* Monitor's: a board runs what its row says, and nothing is alive after
\* stop_all.
BoardsSettle == Board!BoardsConverge /\ Board!NothingOutlivesStopAll

(***************************************************************************)
(* Neither service stalls: the schedules that are due move past their      *)
(* slots, and reconciles and the shutdown return (DueSchedulesAdvance of   *)
(* Scheduler and EveryOperationReturns of Monitor).                        *)
(***************************************************************************)
ServicesMoveOn == []<>(NothingIsDue /\ Board!Resting)
=============================================================================
