------------------------------ MODULE Monitor ------------------------------
(***************************************************************************)
(* The monitor's supervisor: for each board that the database says is      *)
(* enabled, one check loop per unit of its panels, which share a bound on  *)
(* the checks at work.  Every write of a board is followed by a reconcile, *)
(* which stops the board's loops and starts those of the row it reads;     *)
(* reconciles of a board, and the shutdown, take turns on its op lock.     *)
(*                                                                         *)
(* A unit is a set of panels.  What a check finds, its record and the      *)
(* lengths of the buffers are left out: of a panel's buffer the model      *)
(* keeps its running flag.  A unit's panels finish a round at once.        *)
(***************************************************************************)
EXTENDS Integers, FiniteSets

CONSTANTS
    Boards,
    Panels,
    MaxChecks,  \* MAX_CONCURRENT_CHECKS
    Calls       \* bound: reconciles, those of startup included

NoOne    == "no one"
Shutdown == "shutdown"
Off      == "off"

\* What is assumed of the constants.
Admissible ==
    /\ IsFiniteSet(Boards) /\ IsFiniteSet(Panels)
    /\ MaxChecks \in Nat \ {0}
    /\ Cardinality(Boards) <= Cardinality(Calls)
    /\ NoOne \notin Boards /\ {NoOne, Shutdown} \cap Calls = {}

\* plan_units: units that share no panel, of a board that has one.
Units   == SUBSET Panels \ {{}}
Configs == {us \in SUBSET Units \ {{}} : \A u, v \in us : u # v => u \cap v = {}}
Gone    == [enabled |-> FALSE, config |-> {}]
Row     == [enabled : BOOLEAN, config : Configs] \cup {Gone}

\* A reconcile, by name: what it serves, where it is, the row it goes by.
Idle == [board |-> NoOne, at |-> "unused", row |-> Gone]

VARIABLES
    row,      \* the monitor_boards table; Gone once deleted
    root,     \* the root token is cancelled
    calls,    \* the tasks of reconcile
    stopping, \* stop_all: its position and the slots it has yet to stop
    slots,    \* the boards that have a slot
    op,       \* who holds a slot's op lock
    running,  \* the loops a slot owns: the reconcile that started them
    units,    \* the units each reconcile started
    tokens,   \* the reconciles whose loops' token is cancelled by a stop
    loops,    \* the live loops: whose, which unit, and where it is
    view,     \* the panels shown of a board, with their running flag
    unheard   \* boards whose last write no reconcile is to follow

slotVars == <<op, running, units, tokens, view>>
vars == <<row, root, calls, stopping, slots, slotVars, loops, unheard>>

Loop == [call : Calls, unit : Units, at : {"begin", "permit", "check", "sleep"}]

Checking == {l \in loops : l.at = "check"}

TypeOK ==
    /\ row \in [Boards -> Row]
    /\ root \in BOOLEAN
    /\ calls \in [Calls -> [board : Boards \cup {NoOne},
                            at : {"unused", "spawned", "wait", "read", "stop", "start", "done"},
                            row : Row]]
    /\ stopping.at \in {"idle", "next", "wait", "stop", "done"}
    /\ stopping.left \subseteq Boards
    /\ slots \subseteq Boards
    /\ op \in [Boards -> Calls \cup {NoOne, Shutdown}]
    /\ running \in [Boards -> Calls \cup {NoOne}]
    /\ units \in [Calls -> Configs \cup {{}}]
    /\ tokens \subseteq Calls
    /\ loops \subseteq Loop /\ Cardinality(Checking) <= MaxChecks
    /\ view \in [Boards -> [Panels -> {Off, "idle", "running"}]]
    /\ unheard \subseteq Boards

NoView == [p \in Panels |-> Off]

\* At startup the enabled boards are resumed, in any order.
Init ==
    /\ row \in [Boards -> Row \ {Gone}]
    /\ \E resume \in [Boards -> Calls] :
         /\ \A b, c \in Boards : b # c => resume[b] # resume[c]
         /\ calls = [k \in Calls |->
              IF \E b \in Boards : resume[b] = k /\ row[b].enabled
              THEN LET b == CHOOSE b \in Boards : resume[b] = k
                   IN  [board |-> b, at |-> "spawned", row |-> row[b]]
              ELSE Idle]
    /\ root = FALSE /\ stopping = [at |-> "idle", left |-> {}]
    /\ slots = {} /\ tokens = {} /\ loops = {} /\ unheard = {}
    /\ op = [b \in Boards |-> NoOne] /\ running = [b \in Boards |-> NoOne]
    /\ units = [k \in Calls |-> {}]
    /\ view = [b \in Boards |-> NoView]

----------------------------------------------------------------------------
(***************************************************************************)
(* The handlers that write a board: PUT, start, stop, DELETE.              *)
(***************************************************************************)

\* The write commits; its reconcile follows, unless the handler is dropped
\* (bound: once for a board until the next reconcile of it).
Commit(b, r) ==
    /\ row' = [row EXCEPT ![b] = r]
    /\ \/ /\ \E k \in Calls :
               /\ calls[k] = Idle
               /\ calls' = [calls EXCEPT ![k] = [board |-> b, at |-> "spawned", row |-> r]]
          /\ UNCHANGED unheard
       \/ /\ b \notin unheard
          /\ unheard' = unheard \cup {b}
          /\ UNCHANGED calls
    /\ UNCHANGED <<root, stopping, slots, slotVars, loops>>

Put(b) ==
    /\ row[b] # Gone
    /\ \E config \in Configs \ {row[b].config} : Commit(b, [row[b] EXCEPT !.config = config])

SetEnabled(b) ==
    /\ row[b] # Gone
    /\ Commit(b, [row[b] EXCEPT !.enabled = ~@])

Delete(b) ==
    /\ row[b] # Gone
    /\ Commit(b, Gone)

----------------------------------------------------------------------------
(***************************************************************************)
(* reconcile_slot.                                                         *)
(***************************************************************************)
At(k, where)   == calls[k].at = where
Goto(k, where) == calls' = [calls EXCEPT ![k].at = where]

EnterSlot(k) ==
    /\ At(k, "spawned")
    /\ slots' = slots \cup {calls[k].board}
    /\ Goto(k, "wait")
    /\ UNCHANGED <<row, root, stopping, slotVars, loops, unheard>>

\* Mutant of Unlocked: the op lock excludes no one but the shutdown.
LockedByShutdown(b) == op[b] # Shutdown
Unlocked(b)         == op[b] = NoOne

Lock(k) ==
    LET b == calls[k].board IN
    /\ At(k, "wait")
    /\ Unlocked(b)
    /\ op' = [op EXCEPT ![b] = k]
    /\ Goto(k, "read")
    /\ UNCHANGED <<row, root, stopping, slots, running, units, tokens, view, loops, unheard>>

\* Mutant of RowToServe: the row its handler wrote.
RowOfHandler(k) == calls[k].row
RowToServe(k)   == row[calls[k].board]

CancelToken(b) == tokens \cup ({running[b]} \ {NoOne})

\* The row is read under the lock, then the old loops are taken and told.
Read(k) ==
    LET b == calls[k].board IN
    /\ At(k, "read")
    /\ calls' = [calls EXCEPT ![k].at = "stop", ![k].row = RowToServe(k)]
    /\ tokens' = CancelToken(b)
    /\ running' = [running EXCEPT ![b] = NoOne]
    /\ unheard' = unheard \ {b}
    /\ UNCHANGED <<row, root, stopping, slots, op, units, view, loops>>

\* The query fails: the reconcile returns, and all is as before.
FailRead(k) ==
    LET b == calls[k].board IN
    /\ At(k, "read")
    /\ Goto(k, "done")
    /\ op' = [op EXCEPT ![b] = NoOne]
    /\ unheard' = unheard \cup {b}
    /\ UNCHANGED <<row, root, stopping, slots, running, units, tokens, view, loops>>

LoopsOf(b) == {l \in loops : calls[l.call].board = b}

\* Mutant of Stopped: the loops are told, not waited for.
StoppedAtOnce(b) == TRUE
Stopped(b)       == LoopsOf(b) = {}

Waited(k) ==
    /\ At(k, "stop")
    /\ Stopped(calls[k].board)
    /\ Goto(k, "start")
    /\ UNCHANGED <<row, root, stopping, slots, slotVars, loops, unheard>>

\* Mutant of MayRun: the root token is not asked.
MayRunAlways(k) == calls[k].row.enabled
MayRun(k)       == calls[k].row.enabled /\ ~root

\* Start the row's units; a panel that stays keeps its buffer.
Start(k) ==
    LET b == calls[k].board
        us == IF MayRun(k) THEN calls[k].row.config ELSE {}
    IN
    /\ At(k, "start")
    /\ units' = [units EXCEPT ![k] = us]
    /\ loops' = loops \cup {[call |-> k, unit |-> u, at |-> "begin"] : u \in us}
    /\ view' = [view EXCEPT ![b] =
         [p \in Panels |-> IF p \notin UNION us THEN Off
                           ELSE IF @[p] = Off THEN "idle" ELSE @[p]]]
    /\ running' = [running EXCEPT ![b] = IF MayRun(k) THEN k ELSE NoOne]
    /\ op' = [op EXCEPT ![b] = NoOne]
    /\ Goto(k, "done")
    /\ UNCHANGED <<row, root, stopping, slots, tokens, unheard>>

Reconcile(k) ==
    EnterSlot(k) \/ Lock(k) \/ Read(k) \/ FailRead(k) \/ Waited(k) \/ Start(k)

----------------------------------------------------------------------------
(***************************************************************************)
(* stop_all, as the application shuts down.                                *)
(***************************************************************************)
BeginStopAll ==
    /\ stopping.at = "idle"
    /\ root' = TRUE
    /\ stopping' = [at |-> "next", left |-> {}]
    /\ UNCHANGED <<row, calls, slots, slotVars, loops, unheard>>

\* The slots there are by now.
ListSlots ==
    /\ stopping.at = "next"
    /\ stopping' = [at |-> "wait", left |-> slots]
    /\ UNCHANGED <<row, root, calls, slots, slotVars, loops, unheard>>

LockForStop(b) ==
    /\ stopping.at = "wait"
    /\ b \in stopping.left
    /\ Unlocked(b)
    /\ op' = [op EXCEPT ![b] = Shutdown]
    /\ tokens' = CancelToken(b)
    /\ running' = [running EXCEPT ![b] = NoOne]
    /\ stopping' = [stopping EXCEPT !.at = "stop"]
    /\ UNCHANGED <<row, root, calls, slots, units, view, loops, unheard>>

StopSlot(b) ==
    /\ stopping.at = "stop"
    /\ op[b] = Shutdown
    /\ Stopped(b)
    /\ view' = [view EXCEPT ![b] = NoView]
    /\ op' = [op EXCEPT ![b] = NoOne]
    /\ stopping' = [at |-> "wait", left |-> stopping.left \ {b}]
    /\ UNCHANGED <<row, root, calls, slots, running, units, tokens, loops, unheard>>

EndStopAll ==
    /\ stopping.at = "wait"
    /\ stopping.left = {}
    /\ stopping' = [stopping EXCEPT !.at = "done"]
    /\ UNCHANGED <<row, root, calls, slots, slotVars, loops, unheard>>

StopAll ==
    ListSlots \/ EndStopAll \/ \E b \in Boards : LockForStop(b) \/ StopSlot(b)

----------------------------------------------------------------------------
(***************************************************************************)
(* unit_loop.                                                              *)
(***************************************************************************)
Cancelled(l) == root \/ l.call \in tokens

MoveLoop(l, where) == loops' = (loops \ {l}) \cup {[l EXCEPT !.at = where]}

\* The running flag of a unit's panels.
Flag(l, value) ==
    view' = [view EXCEPT ![calls[l.call].board] =
               [p \in Panels |-> IF p \in l.unit THEN value ELSE @[p]]]

UnchangedByLoop == UNCHANGED <<row, root, calls, stopping, slots, op, running, units, tokens,
                               unheard>>

BeginRound(l) ==
    /\ l.at = "begin"
    /\ MoveLoop(l, "permit") /\ Flag(l, "running")
    /\ UnchangedByLoop

PermitLeft == Cardinality(Checking) < MaxChecks

Acquire(l) ==
    /\ l.at = "permit"
    /\ PermitLeft
    /\ MoveLoop(l, "check")
    /\ UNCHANGED view /\ UnchangedByLoop

FinishRound(l) ==
    /\ l.at = "check"
    /\ MoveLoop(l, "sleep") /\ Flag(l, "idle")
    /\ UnchangedByLoop

NextRound(l) ==
    /\ l.at = "sleep"
    /\ ~Cancelled(l)
    /\ MoveLoop(l, "begin")
    /\ UNCHANGED view /\ UnchangedByLoop

\* Mutant of Quit: the flag outlives a round that is dropped.
QuitInPlace(l) ==
    /\ Cancelled(l)
    /\ loops' = loops \ {l}
    /\ UNCHANGED view /\ UnchangedByLoop

\* At its await a cancelled loop returns, and an aborted one is dropped.
Quit(l) ==
    /\ Cancelled(l)
    /\ loops' = loops \ {l}
    /\ IF l.at \in {"permit", "check"} THEN Flag(l, "idle") ELSE UNCHANGED view
    /\ UnchangedByLoop

Work(l) == BeginRound(l) \/ Acquire(l) \/ FinishRound(l) \/ NextRound(l) \/ Quit(l)

----------------------------------------------------------------------------
Next ==
    \/ \E b \in Boards : Put(b) \/ SetEnabled(b) \/ Delete(b)
    \/ \E k \in Calls : Reconcile(k)
    \/ BeginStopAll \/ StopAll
    \/ \E l \in loops : Work(l)

Spec == Init /\ [][Next]_vars

\* Tasks are scheduled, and a loop that was told is aborted if it must be.
FairSpec ==
    /\ Spec
    /\ \A k \in Calls : WF_vars(Reconcile(k))
    /\ WF_vars(StopAll)
    /\ WF_vars(\E l \in loops : Quit(l))

----------------------------------------------------------------------------
\* No two live loops check one panel, whatever edits follow each other, so the
\* buffer a panel keeps has one writer; and no loop is an orphan: its board's
\* slot owns it, or whoever holds the slot has told it to stop and waits for it.
OneLoopPerPanel ==
    \A l \in loops : LET b == calls[l.call].board IN
        /\ \A m \in LoopsOf(b) \ {l} : l.unit \cap m.unit = {}
        /\ running[b] = l.call \/ (l.call \in tokens /\ op[b] # NoOne)

\* A panel shows a check running exactly while one is.
RunningFlagIsTrue ==
    \A b \in Boards, p \in Panels :
        view[b][p] = "running" <=>
            \E l \in LoopsOf(b) : p \in l.unit /\ l.at \in {"permit", "check"}

\* "Converges to the database state the last reconcile saw": with no reconcile
\* under way, and none lost, a board runs what its row says.
BoardsConverge ==
    \A b \in Boards \ unheard :
        (\A k \in Calls : calls[k].board = b => At(k, "done")) /\ ~root =>
            IF row[b].enabled
            THEN running[b] # NoOne /\ units[running[b]] = row[b].config
            ELSE running[b] = NoOne

\* Once stop_all has returned no loop is alive, and a reconcile that was on
\* its way starts none.
NothingOutlivesStopAll ==
    stopping.at = "done" => loops = {} /\ \A b \in Boards : view[b] = NoView

Resting ==
    /\ \A k \in Calls : At(k, "unused") \/ At(k, "done")
    /\ stopping.at \in {"idle", "done"}

\* Reconciles and the shutdown return, whoever they wait for.
EveryOperationReturns == []<>Resting
=============================================================================
