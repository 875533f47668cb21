--------------------------- MODULE MonitorProofs ---------------------------
(***************************************************************************)
(* The check loops of the monitor's boards, for any number of boards,      *)
(* panels, reconciles and checks at a time: a panel has one loop and shows *)
(* what it does, a board comes to run what its row says, and nothing is    *)
(* alive after the shutdown.                                               *)
(***************************************************************************)
EXTENDS Monitor, TLAPS, FiniteSetTheorems

\* Where a reconcile holds its board's op lock.
Holding == {"read", "stop", "start"}

TypeInv ==
    /\ row \in [Boards -> Row]
    /\ root \in BOOLEAN
    /\ calls \in [Calls -> [board : Boards \cup {NoOne},
                            at : {"unused", "spawned", "wait", "read", "stop", "start", "done"},
                            row : Row]]
    /\ stopping \in [at : {"idle", "next", "wait", "stop", "done"}, left : SUBSET Boards]
    /\ slots \subseteq Boards
    /\ op \in [Boards -> Calls \cup {NoOne, Shutdown}]
    /\ running \in [Boards -> Calls \cup {NoOne}]
    /\ units \in [Calls -> Configs \cup {{}}]
    /\ loops \subseteq Loop
    /\ view \in [Boards -> [Panels -> {Off, "idle", "running"}]]

\* Reconciles and the shutdown take turns on the lock of a slot.
Turns ==
    /\ \A k \in Calls : calls[k].at = "unused" <=> calls[k].board = NoOne
    /\ \A k \in Calls : calls[k].at \in Holding => op[calls[k].board] = k
    /\ \A k \in Calls : calls[k].at \notin {"unused", "spawned"} => calls[k].board \in slots
    /\ \A b \in Boards : op[b] = Shutdown => stopping.at = "stop" /\ b \in stopping.left
    /\ \A b, c \in Boards : op[b] = Shutdown /\ op[c] = Shutdown => b = c

\* A slot's loops are those of a reconcile that is done.  While they are
\* stopped the slot owns none, and only then are others started.
Owned ==
    /\ \A b \in Boards : running[b] # NoOne =>
         calls[running[b]].at = "done" /\ calls[running[b]].board = b
    /\ \A k \in Calls : calls[k].at \in {"stop", "start"} => running[calls[k].board] = NoOne
    /\ \A b \in Boards : op[b] = Shutdown => running[b] = NoOne
    /\ \A l \in loops : calls[l.call].at = "done"
    /\ \A k \in Calls, l \in loops : calls[l.call].board = calls[k].board =>
         /\ calls[k].at # "start"
         /\ calls[k].at = "read" => running[calls[k].board] = l.call

\* OneLoopPerPanel, of one loop.
Served(l) ==
    /\ \A m \in LoopsOf(calls[l.call].board) \ {l} : l.unit \cap m.unit = {}
    /\ \/ running[calls[l.call].board] = l.call
       \/ l.call \in tokens /\ op[calls[l.call].board] # NoOne

\* A board runs what its row says, and no reconcile is about to change that.
Settled(b) ==
    /\ \A k \in Calls : calls[k].board = b => calls[k].at \notin {"stop", "start"}
    /\ IF row[b].enabled
       THEN running[b] # NoOne /\ units[running[b]] = row[b].config
       ELSE running[b] = NoOne

\* A board that is not settled has a reconcile that is yet to read its row, or
\* one that goes by the row there is, unless the last one was lost.
Settling ==
    ~root => \A b \in Boards \ unheard :
        \/ Settled(b)
        \/ \E k \in Calls :
             /\ calls[k].board = b
             /\ \/ calls[k].at \in {"spawned", "wait", "read"}
                \/ calls[k].at \in {"stop", "start"} /\ calls[k].row = row[b]

Still(b) == LoopsOf(b) = {} /\ view[b] = NoView

\* The slots the shutdown has passed, or that came after it, are still.
ShutDown ==
    /\ root <=> stopping.at # "idle"
    /\ \A b \in Boards \ slots : Still(b)
    /\ stopping.at \in {"wait", "stop", "done"} => \A b \in Boards \ stopping.left : Still(b)
    /\ stopping.at = "done" => stopping.left = {}

Inv == TypeInv /\ Turns /\ Owned /\ OneLoopPerPanel /\ RunningFlagIsTrue /\ Settling /\ ShutDown

----------------------------------------------------------------------------
(***************************************************************************)
(* What the steps have in common.                                          *)
(***************************************************************************)
LEMMA Places ==
    ASSUME Admissible, TypeInv, Turns, Owned
    PROVE  /\ \A k \in Calls : calls[k].at # "unused" => calls[k].board \in Boards
           /\ \A l \in loops : /\ l.call \in Calls /\ l.unit \in Units
                               /\ calls[l.call].board \in Boards /\ calls[l.call].at = "done"
           /\ \A k \in Calls : k # NoOne /\ k # Shutdown
<1>1. \A k \in Calls : calls[k].at # "unused" => calls[k].board \in Boards
  BY DEF TypeInv, Turns
<1>2. \A l \in loops : l.call \in Calls /\ l.unit \in Units /\ calls[l.call].at = "done"
  BY DEF TypeInv, Owned, Loop
<1>3. \A k \in Calls : k # NoOne /\ k # Shutdown
  BY DEF Admissible
<1> QED BY <1>1, <1>2, <1>3

LEMMA GoneTo ==
    ASSUME TypeInv, NEW k \in Calls, NEW where, Goto(k, where)
    PROVE  /\ calls'[k].at = where /\ calls'[k].board = calls[k].board
           /\ calls'[k].row = calls[k].row
           /\ \A j \in Calls : j # k => calls'[j] = calls[j]
           /\ where \in {"unused", "spawned", "wait", "read", "stop", "start", "done"} =>
                calls' \in [Calls -> [board : Boards \cup {NoOne},
                  at : {"unused", "spawned", "wait", "read", "stop", "start", "done"}, row : Row]]
<1> DEFINE c == [calls[k] EXCEPT !.at = where]
<1>1. calls' = [calls EXCEPT ![k] = c]
  BY DEF TypeInv, Goto
<1>2. c.at = where /\ c.board = calls[k].board /\ c.row = calls[k].row
  BY DEF TypeInv
<1>3. where \in {"unused", "spawned", "wait", "read", "stop", "start", "done"} =>
        c \in [board : Boards \cup {NoOne},
               at : {"unused", "spawned", "wait", "read", "stop", "start", "done"}, row : Row]
  BY DEF TypeInv
<1>4. calls'[k] = c /\ \A j \in Calls : j # k => calls'[j] = calls[j]
  BY <1>1 DEF TypeInv
<1> HIDE DEF c
<1> QED BY <1>1, <1>2, <1>3, <1>4 DEF TypeInv

\* Loops stay with their boards while only reconciles that are not done move.
LEMMA LoopsStay ==
    ASSUME loops' = loops,
           \A l \in loops : calls'[l.call].board = calls[l.call].board
    PROVE  \A b : LoopsOf(b)' = LoopsOf(b)
BY DEF LoopsOf

LEMMA ViewsStay ==
    ASSUME loops' = loops, view' = view, RunningFlagIsTrue,
           \A l \in loops : calls'[l.call].board = calls[l.call].board
    PROVE  RunningFlagIsTrue' /\ \A b : Still(b)' <=> Still(b)
<1>1. \A b : LoopsOf(b)' = LoopsOf(b)
  BY LoopsStay
<1>2. RunningFlagIsTrue'
  BY <1>1 DEF RunningFlagIsTrue
<1>3. \A b : Still(b)' <=> Still(b)
  BY <1>1 DEF Still
<1> QED BY <1>2, <1>3

----------------------------------------------------------------------------
(***************************************************************************)
(* The writes.                                                             *)
(***************************************************************************)
LEMMA RowsOfWrites ==
    ASSUME TypeInv, NEW b \in Boards, Put(b) \/ SetEnabled(b) \/ Delete(b)
    PROVE  \E r \in Row : Commit(b, r)
<1>1. row[b] \in Row
  BY DEF TypeInv
<1>2. CASE Put(b)
  <2>1. PICK config \in Configs : Commit(b, [row[b] EXCEPT !.config = config])
    BY <1>2 DEF Put
  <2>2. row[b] \in [enabled : BOOLEAN, config : Configs]
    BY <1>1, <1>2 DEF Put, Row
  <2>3. [row[b] EXCEPT !.config = config] \in Row
    BY <2>2 DEF Row
  <2> QED BY <2>1, <2>3
<1>3. CASE SetEnabled(b)
  <2>1. row[b] \in [enabled : BOOLEAN, config : Configs]
    BY <1>1, <1>3 DEF SetEnabled, Row
  <2>2. [row[b] EXCEPT !.enabled = ~@] \in Row
    BY <2>1, Zenon DEF Row
  <2> QED BY <1>3, <2>2 DEF SetEnabled
<1>4. CASE Delete(b)
  BY <1>4 DEF Delete, Row
<1> QED BY <1>2, <1>3, <1>4

LEMMA WriteKeepsIt ==
    ASSUME Admissible, Inv, NEW b \in Boards, NEW r \in Row, Commit(b, r)
    PROVE  Inv'
<1> USE DEF Inv
<1>1. /\ row' \in [Boards -> Row] /\ row'[b] = r /\ \A c \in Boards : c # b => row'[c] = row[c]
      /\ UNCHANGED <<root, stopping, slots, op, running, units, tokens, view, loops>>
  BY DEF Commit, TypeInv, slotVars
<1>2. \/ calls' = calls /\ unheard' = unheard \cup {b}
      \/ \E k \in Calls : /\ calls[k] = Idle /\ unheard' = unheard
                          /\ calls' = [calls EXCEPT ![k] = [board |-> b, at |-> "spawned", row |-> r]]
  BY DEF Commit
<1>3. calls' \in [Calls -> [board : Boards \cup {NoOne},
                  at : {"unused", "spawned", "wait", "read", "stop", "start", "done"}, row : Row]]
  BY <1>2 DEF TypeInv
<1>4. \A k \in Calls :
        \/ calls'[k] = calls[k]
        \/ calls[k].at = "unused" /\ calls'[k].at = "spawned" /\ calls'[k].board = b
  BY <1>2 DEF TypeInv, Idle
<1>5. TypeInv'
  BY <1>1, <1>3 DEF TypeInv
<1>6. b # NoOne
  BY DEF Admissible
<1>7. Turns'
  BY <1>1, <1>4, <1>6 DEF Turns, Holding
<1>8. \A l \in loops : l.call \in Calls /\ calls'[l.call] = calls[l.call]
  BY <1>4, Places
<1>9. Owned'
  <2>1. \A c \in Boards : running[c] # NoOne => running[c] \in Calls
    BY DEF TypeInv
  <2>2. \A c \in Boards : (running[c] # NoOne =>
           calls[running[c]].at = "done" /\ calls[running[c]].board = c)'
    BY <1>1, <1>4, <2>1 DEF Owned
  <2>3. \A k \in Calls : (calls[k].at \in {"stop", "start"} => running[calls[k].board] = NoOne)'
    BY <1>1, <1>4 DEF Owned
  <2>4. \A k \in Calls, l \in loops : (calls[l.call].board = calls[k].board =>
         /\ calls[k].at # "start"
         /\ calls[k].at = "read" => running[calls[k].board] = l.call)'
    BY <1>1, <1>4, <1>8 DEF Owned
  <2> QED BY <1>1, <1>8, <2>2, <2>3, <2>4 DEF Owned
<1>10. RunningFlagIsTrue' /\ \A c : Still(c)' <=> Still(c)
  BY <1>1, <1>8, ViewsStay
<1>11. OneLoopPerPanel'
  <2>1. \A c : LoopsOf(c)' = LoopsOf(c)
    BY <1>1, <1>8, LoopsStay
  <2> QED BY <1>1, <1>8, <2>1 DEF OneLoopPerPanel
<1>12. Settling'
  <2> SUFFICES ASSUME ~root', NEW c \in Boards \ unheard'
               PROVE  (\/ Settled(c)
                       \/ \E k \in Calls :
                            /\ calls[k].board = c
                            /\ \/ calls[k].at \in {"spawned", "wait", "read"}
                               \/ calls[k].at \in {"stop", "start"} /\ calls[k].row = row[c])'
    BY DEF Settling
  <2>1. CASE c = b
    <3>1. PICK k \in Calls : calls' = [calls EXCEPT ![k] = [board |-> b, at |-> "spawned", row |-> r]]
      BY <1>2, <2>1
    <3>2. calls'[k].board = c /\ calls'[k].at = "spawned"
      BY <2>1, <3>1 DEF TypeInv
    <3> QED BY <3>2
  <2>2. CASE c # b
    <3>1. c \in Boards \ unheard /\ ~root
      BY <1>1, <1>2, <2>2
    <3>2. Settled(c) => Settled(c)'
      BY <1>1, <1>4, <2>2 DEF Settled
    <3>3. CASE Settled(c)
      BY <3>2, <3>3
    <3>4. CASE ~Settled(c)
      <4>1. PICK k \in Calls :
              /\ calls[k].board = c
              /\ \/ calls[k].at \in {"spawned", "wait", "read"}
                 \/ calls[k].at \in {"stop", "start"} /\ calls[k].row = row[c]
        BY <3>1, <3>4 DEF Settling
      <4>2. calls'[k] = calls[k]
        BY <1>4, <4>1
      <4> QED BY <1>1, <2>2, <4>1, <4>2
    <3> QED BY <3>3, <3>4
  <2> QED BY <2>1, <2>2
<1>13. ShutDown'
  BY <1>1, <1>10 DEF ShutDown
<1> QED BY <1>5, <1>7, <1>9, <1>10, <1>11, <1>12, <1>13

----------------------------------------------------------------------------
(***************************************************************************)
(* The steps of a reconcile.                                               *)
(***************************************************************************)

\* A board that has not settled keeps a reconcile that will settle it.
LEMMA SettlingStays ==
    ASSUME Settling, UNCHANGED <<row, root, running, units>>, unheard' = unheard,
           \A k \in Calls : /\ calls'[k].board = calls[k].board /\ calls'[k].row = calls[k].row
                            /\ calls[k].at \in {"spawned", "wait"} =>
                                 calls'[k].at \in {"spawned", "wait", "read"}
                            /\ calls[k].at = "read" => calls'[k].at = "read"
                            /\ calls[k].at \in {"stop", "start"} <=> calls'[k].at \in {"stop", "start"}
    PROVE  Settling'
<1> SUFFICES ASSUME ~root, NEW c \in Boards \ unheard
             PROVE  (\/ Settled(c)
                     \/ \E j \in Calls :
                          /\ calls[j].board = c
                          /\ \/ calls[j].at \in {"spawned", "wait", "read"}
                             \/ calls[j].at \in {"stop", "start"} /\ calls[j].row = row[c])'
  BY DEF Settling
<1>1. CASE Settled(c)
  BY <1>1 DEF Settled
<1>2. CASE ~Settled(c)
  <2>1. PICK j \in Calls :
          /\ calls[j].board = c
          /\ \/ calls[j].at \in {"spawned", "wait", "read"}
             \/ calls[j].at \in {"stop", "start"} /\ calls[j].row = row[c]
    BY <1>2 DEF Settling
  <2> QED BY <2>1
<1> QED BY <1>1, <1>2

\* EnterSlot, Lock and Waited change nothing but the reconcile, its slot and
\* the lock.
LEMMA AdvanceKeepsIt ==
    ASSUME Admissible, Inv, NEW k \in Calls, EnterSlot(k) \/ Lock(k) \/ Waited(k)
    PROVE  Inv'
<1> USE DEF Inv
<1> DEFINE b == calls[k].board
<1>1. /\ calls[k].at \in {"spawned", "wait", "stop"} /\ b \in Boards /\ k # NoOne /\ k # Shutdown
      /\ UNCHANGED <<row, root, stopping, running, units, tokens, view, loops, unheard>>
  BY Places DEF EnterSlot, Lock, Waited, At, slotVars
<1>2. /\ \E where \in {"wait", "read", "start"} : Goto(k, where)
      /\ calls'[k].at \in {"wait", "read", "start"}
      /\ calls'[k].board = b /\ calls'[k].row = calls[k].row
      /\ \A j \in Calls : j # k => calls'[j] = calls[j]
      /\ calls' \in [Calls -> [board : Boards \cup {NoOne},
                  at : {"unused", "spawned", "wait", "read", "stop", "start", "done"}, row : Row]]
  BY GoneTo DEF EnterSlot, Lock, Waited
<1>3. /\ calls[k].at = "spawned" => calls'[k].at = "wait" /\ slots' = slots \cup {b} /\ op' = op
      /\ calls[k].at = "wait" => /\ calls'[k].at = "read" /\ slots' = slots
                                 /\ op[b] = NoOne /\ op' = [op EXCEPT ![b] = k]
      /\ calls[k].at = "stop" => /\ calls'[k].at = "start" /\ slots' = slots /\ op' = op
                                 /\ LoopsOf(b) = {}
  BY GoneTo DEF EnterSlot, Lock, Waited, At, Unlocked, Stopped, slotVars
<1>4. /\ slots' \subseteq Boards /\ slots \subseteq slots'
      /\ op' \in [Boards -> Calls \cup {NoOne, Shutdown}]
  <2>1. slots' \subseteq Boards /\ slots \subseteq slots'
    BY <1>1, <1>3 DEF TypeInv
  <2>2. op' = op \/ op' = [op EXCEPT ![b] = k]
    BY <1>1, <1>3
  <2> QED BY <2>1, <2>2 DEF TypeInv
<1>5. /\ op'[b] = k \/ op'[b] = op[b]
      /\ \A c \in Boards : c # b => op'[c] = op[c]
      /\ \A c \in Boards : op'[c] = Shutdown => op[c] = Shutdown
      /\ \A c \in Boards : op[c] # NoOne => op'[c] = op[c]
  <2>1. op' = op \/ (op[b] = NoOne /\ op' = [op EXCEPT ![b] = k])
    BY <1>1, <1>3
  <2>2. CASE op' = op
    BY <2>2
  <2>3. CASE op[b] = NoOne /\ op' = [op EXCEPT ![b] = k]
    <3>1. op'[b] = k /\ \A c \in Boards : c # b => op'[c] = op[c]
      BY <1>1, <2>3 DEF TypeInv
    <3> QED BY <1>1, <2>3, <3>1
  <2> QED BY <2>1, <2>2, <2>3
<1>6. TypeInv'
  BY <1>1, <1>2, <1>4 DEF TypeInv
<1>7. Turns'
  <2>1. \A j \in Calls : (calls[j].at = "unused" <=> calls[j].board = NoOne)'
    BY <1>1, <1>2 DEF Turns, Admissible
  <2>2. \A j \in Calls : (calls[j].at \in Holding => op[calls[j].board] = j)'
    <3> SUFFICES ASSUME NEW j \in Calls, calls'[j].at \in Holding PROVE op'[calls'[j].board] = j
      OBVIOUS
    <3>1. CASE j = k
      <4>1. calls[k].at = "stop" => op[b] = k
        BY DEF Turns, Holding
      <4> QED BY <1>1, <1>2, <1>3, <1>5, <3>1, <4>1 DEF Holding, TypeInv
    <3>2. CASE j # k
      <4>1. calls'[j] = calls[j] /\ op[calls[j].board] = j /\ j # NoOne /\ calls[j].board \in Boards
        BY <1>2, <3>2, Places DEF Turns, Holding
      <4> QED BY <1>5, <4>1
    <3> QED BY <3>1, <3>2
  <2>3. \A j \in Calls : (calls[j].at \notin {"unused", "spawned"} => calls[j].board \in slots)'
    BY <1>1, <1>2, <1>3, <1>4 DEF Turns
  <2>4. \A c \in Boards : (op[c] = Shutdown => stopping.at = "stop" /\ c \in stopping.left)'
    BY <1>1, <1>5 DEF Turns
  <2>5. \A c, d \in Boards : (op[c] = Shutdown /\ op[d] = Shutdown => c = d)'
    BY <1>5 DEF Turns
  <2> QED BY <2>1, <2>2, <2>3, <2>4, <2>5 DEF Turns
<1>8. \A l \in loops : l.call \in Calls /\ calls'[l.call] = calls[l.call]
  BY <1>1, <1>2, Places
<1>9. \A l \in loops, c \in Boards : calls[l.call].board = c /\ op[c] = NoOne => running[c] = l.call
  BY DEF OneLoopPerPanel
<1>10. Owned'
  <2>1. \A c \in Boards : running[c] # NoOne => running[c] \in Calls
    BY DEF TypeInv
  <2>2. \A c \in Boards : (running[c] # NoOne =>
           calls[running[c]].at = "done" /\ calls[running[c]].board = c)'
    BY <1>1, <1>2, <2>1 DEF Owned
  <2>3. \A j \in Calls : (calls[j].at \in {"stop", "start"} => running[calls[j].board] = NoOne)'
    BY <1>1, <1>2, <1>3 DEF Owned
  <2>4. ASSUME NEW j \in Calls, NEW l \in loops, calls'[l.call].board = calls'[j].board
        PROVE  /\ calls'[j].at # "start"
               /\ calls'[j].at = "read" => running'[calls'[j].board] = l.call
    <3>1. calls[l.call].board = calls'[j].board
      BY <1>8, <2>4
    <3>2. CASE j # k
      BY <1>1, <1>2, <3>1, <3>2 DEF Owned
    <3>3. CASE j = k
      <4>1. calls[l.call].board = b /\ l \in LoopsOf(b)
        BY <1>2, <3>1, <3>3 DEF LoopsOf
      <4>2. calls[k].at # "stop"
        BY <1>3, <4>1
      <4>3. calls[k].at = "wait" => running[b] = l.call
        BY <1>1, <1>3, <1>9, <4>1
      <4> QED BY <1>1, <1>2, <1>3, <3>3, <4>2, <4>3
    <3> QED BY <3>2, <3>3
  <2>5. \A c \in Boards : (op[c] = Shutdown => running[c] = NoOne)'
    BY <1>1, <1>5 DEF Owned
  <2> QED BY <1>1, <1>8, <2>2, <2>3, <2>4, <2>5, Places DEF Owned
<1>11. RunningFlagIsTrue' /\ \A c : Still(c)' <=> Still(c)
  BY <1>1, <1>8, ViewsStay
<1>12. OneLoopPerPanel'
  <2>1. \A c : LoopsOf(c)' = LoopsOf(c)
    BY <1>1, <1>8, LoopsStay
  <2>2. \A l \in loops : calls[l.call].board \in Boards
    BY Places
  <2> QED BY <1>1, <1>5, <1>8, <2>1, <2>2 DEF OneLoopPerPanel
<1>13. Settling'
  BY <1>1, <1>2, <1>3, SettlingStays
<1>14. ShutDown'
  BY <1>1, <1>4, <1>11 DEF ShutDown
<1> QED BY <1>6, <1>7, <1>10, <1>11, <1>12, <1>13, <1>14

LEMMA ReadKeepsIt ==
    ASSUME Admissible, Inv, NEW k \in Calls, Read(k)
    PROVE  Inv'
<1> USE DEF Inv
<1> DEFINE b == calls[k].board
<1>1. /\ calls[k].at = "read" /\ b \in Boards /\ k # NoOne /\ op[b] = k
      /\ UNCHANGED <<row, root, stopping, slots, op, units, view, loops>>
      /\ unheard' = unheard \ {b} /\ tokens' = tokens \cup ({running[b]} \ {NoOne})
      /\ running' = [running EXCEPT ![b] = NoOne]
  BY Places DEF Read, At, Turns, Holding, CancelToken
<1>2. /\ calls'[k].at = "stop" /\ calls'[k].board = b /\ calls'[k].row = row[b]
      /\ \A j \in Calls : j # k => calls'[j] = calls[j]
      /\ calls' \in [Calls -> [board : Boards \cup {NoOne},
                  at : {"unused", "spawned", "wait", "read", "stop", "start", "done"}, row : Row]]
  <2> DEFINE c == [board |-> b, at |-> "stop", row |-> row[b]]
  <2>1. calls' = [calls EXCEPT ![k] = c]
    <3>1. calls[k] \in [board : Boards \cup {NoOne},
             at : {"unused", "spawned", "wait", "read", "stop", "start", "done"}, row : Row]
      BY DEF TypeInv
    <3>2. [calls[k] EXCEPT !.at = "stop"] = [board |-> b, at |-> "stop", row |-> calls[k].row]
      BY <3>1
    <3>3. [[board |-> b, at |-> "stop", row |-> calls[k].row] EXCEPT !.row = row[b]] = c
      OBVIOUS
    <3>4. [[calls[k] EXCEPT !.at = "stop"] EXCEPT !.row = row[b]] = c
      BY <3>2, <3>3
    <3>5. calls' = [calls EXCEPT ![k].at = "stop", ![k].row = row[b]]
      BY DEF Read, RowToServe
    <3>6. calls' = [[calls EXCEPT ![k].at = "stop"] EXCEPT ![k].row = row[b]]
      BY <3>5
    <3>7. calls' = [calls EXCEPT ![k] = [[calls[k] EXCEPT !.at = "stop"] EXCEPT !.row = row[b]]]
      BY <3>6 DEF TypeInv
    <3> QED BY <3>4, <3>7
  <2>2. c \in [board : Boards \cup {NoOne},
          at : {"unused", "spawned", "wait", "read", "stop", "start", "done"}, row : Row]
    BY <1>1 DEF TypeInv
  <2> QED BY <2>1, <2>2 DEF TypeInv
<1>3. /\ running'[b] = NoOne /\ \A c \in Boards : c # b => running'[c] = running[c]
      /\ running' \in [Boards -> Calls \cup {NoOne}]
  BY <1>1 DEF TypeInv
<1>4. TypeInv'
  BY <1>1, <1>2, <1>3 DEF TypeInv
<1>5. Turns'
  BY <1>1, <1>2 DEF Turns, Holding, Admissible
<1>6. \A l \in loops : l.call \in Calls /\ calls'[l.call] = calls[l.call]
  BY <1>1, <1>2, Places
<1>7. Owned'
  <2>1. \A c \in Boards : running[c] # NoOne => running[c] \in Calls
    BY DEF TypeInv
  <2>2. ASSUME NEW c \in Boards, running'[c] # NoOne
        PROVE  calls'[running'[c]].at = "done" /\ calls'[running'[c]].board = c
    <3>1. c # b /\ running'[c] = running[c] /\ running[c] \in Calls
      BY <1>3, <2>1, <2>2
    <3>2. calls[running[c]].at = "done" /\ calls[running[c]].board = c
      BY <2>2, <3>1 DEF Owned
    <3>3. running[c] # k
      BY <1>1, <3>2
    <3> QED BY <1>2, <3>1, <3>2, <3>3
  <2>3. ASSUME NEW j \in Calls, calls'[j].at \in {"stop", "start"}
        PROVE  running'[calls'[j].board] = NoOne
    <3>1. CASE j = k
      BY <1>2, <1>3, <3>1
    <3>2. CASE j # k
      <4>1. calls[j].board \in Boards /\ running[calls[j].board] = NoOne /\ calls'[j] = calls[j]
        BY <1>2, <2>3, <3>2, Places DEF Owned
      <4> QED BY <1>3, <4>1
    <3> QED BY <3>1, <3>2
  <2>4. ASSUME NEW j \in Calls, NEW l \in loops, calls'[l.call].board = calls'[j].board
        PROVE  /\ calls'[j].at # "start"
               /\ calls'[j].at = "read" => running'[calls'[j].board] = l.call
    <3>1. CASE j = k
      BY <1>2, <3>1
    <3>2. CASE j # k
      <4>1. calls'[j] = calls[j] /\ calls[l.call].board = calls[j].board /\ calls[l.call].board \in Boards
        BY <1>2, <1>6, <2>4, <3>2, Places
      <4>2. /\ calls[j].at # "start"
            /\ calls[j].at = "read" => running[calls[j].board] = l.call
        BY <4>1 DEF Owned
      <4>3. calls[j].at = "read" => calls[j].board # b
        BY <1>1, <3>2 DEF Turns, Holding
      <4> QED BY <1>3, <4>1, <4>2, <4>3
    <3> QED BY <3>1, <3>2
  <2>5. \A c \in Boards : (op[c] = Shutdown => running[c] = NoOne)'
    BY <1>1, <1>3 DEF Owned
  <2> QED BY <1>1, <1>6, <2>2, <2>3, <2>4, <2>5, Places DEF Owned
<1>8. RunningFlagIsTrue' /\ \A c : Still(c)' <=> Still(c)
  BY <1>1, <1>6, ViewsStay
<1>9. OneLoopPerPanel'
  <2>1. \A c : LoopsOf(c)' = LoopsOf(c)
    BY <1>1, <1>6, LoopsStay
  <2> SUFFICES ASSUME NEW l \in loops PROVE Served(l)'
    BY <1>1 DEF OneLoopPerPanel, Served
  <2>2. Served(l)
    BY DEF OneLoopPerPanel, Served
  <2>3. PICK c \in Boards : c = calls[l.call].board /\ c = calls'[l.call].board
    BY <1>6, Places
  <2>4. l.call # NoOne
    BY Places
  <2>5. \A m \in LoopsOf(c)' \ {l} : l.unit \cap m.unit = {}
    BY <2>1, <2>2, <2>3 DEF Served
  <2>6. running'[c] = l.call \/ (l.call \in tokens' /\ op'[c] # NoOne)
    BY <1>1, <1>3, <2>2, <2>3, <2>4 DEF Served
  <2> QED BY <2>3, <2>5, <2>6 DEF Served, LoopsOf
<1>10. Settling'
  <2> SUFFICES ASSUME ~root', NEW c \in Boards \ unheard'
               PROVE  (\/ Settled(c)
                       \/ \E j \in Calls :
                            /\ calls[j].board = c
                            /\ \/ calls[j].at \in {"spawned", "wait", "read"}
                               \/ calls[j].at \in {"stop", "start"} /\ calls[j].row = row[c])'
    BY DEF Settling
  <2>1. CASE c = b
    BY <1>1, <1>2, <2>1
  <2>2. CASE c # b
    <3>1. c \in Boards \ unheard /\ ~root
      BY <1>1, <2>2
    <3>2. CASE Settled(c)
      BY <1>1, <1>2, <1>3, <2>2, <3>2 DEF Settled
    <3>3. CASE ~Settled(c)
      <4>1. PICK j \in Calls :
              /\ calls[j].board = c
              /\ \/ calls[j].at \in {"spawned", "wait", "read"}
                 \/ calls[j].at \in {"stop", "start"} /\ calls[j].row = row[c]
        BY <3>1, <3>3 DEF Settling
      <4>2. calls'[j] = calls[j]
        BY <1>2, <2>2, <4>1
      <4> QED BY <1>1, <4>1, <4>2
    <3> QED BY <3>2, <3>3
  <2> QED BY <2>1, <2>2
<1>11. ShutDown'
  BY <1>1, <1>8 DEF ShutDown
<1> QED BY <1>4, <1>5, <1>7, <1>8, <1>9, <1>10, <1>11

LEMMA FailReadKeepsIt ==
    ASSUME Admissible, Inv, NEW k \in Calls, FailRead(k)
    PROVE  Inv'
<1> USE DEF Inv
<1> DEFINE b == calls[k].board
<1>1. /\ calls[k].at = "read" /\ b \in Boards /\ k # NoOne /\ op[b] = k
      /\ UNCHANGED <<row, root, stopping, slots, running, units, tokens, view, loops>>
      /\ unheard' = unheard \cup {b} /\ op' = [op EXCEPT ![b] = NoOne]
  BY Places DEF FailRead, At, Turns, Holding
<1>2. /\ calls'[k].at = "done" /\ calls'[k].board = b /\ calls'[k].row = calls[k].row
      /\ \A j \in Calls : j # k => calls'[j] = calls[j]
      /\ calls' \in [Calls -> [board : Boards \cup {NoOne},
                  at : {"unused", "spawned", "wait", "read", "stop", "start", "done"}, row : Row]]
  BY GoneTo DEF FailRead
<1>3. /\ op'[b] = NoOne /\ \A c \in Boards : c # b => op'[c] = op[c]
      /\ op' \in [Boards -> Calls \cup {NoOne, Shutdown}]
  BY <1>1 DEF TypeInv
<1>4. TypeInv'
  BY <1>1, <1>2, <1>3 DEF TypeInv
<1>5. Turns'
  <2>1. \A j \in Calls : (calls[j].at = "unused" <=> calls[j].board = NoOne)'
    BY <1>1, <1>2 DEF Turns, Admissible
  <2>2. ASSUME NEW j \in Calls, calls'[j].at \in Holding PROVE op'[calls'[j].board] = j
    <3>1. j # k /\ calls'[j] = calls[j]
      BY <1>2, <2>2 DEF Holding
    <3>2. op[calls[j].board] = j /\ calls[j].board \in Boards
      BY <2>2, <3>1, Places DEF Turns, Holding
    <3> QED BY <1>1, <1>3, <3>1, <3>2
  <2>3. \A j \in Calls : (calls[j].at \notin {"unused", "spawned"} => calls[j].board \in slots)'
    BY <1>1, <1>2 DEF Turns
  <2>4. \A c \in Boards : op'[c] = Shutdown => op[c] = Shutdown
    BY <1>3 DEF NoOne, Shutdown
  <2> QED BY <1>1, <2>1, <2>2, <2>3, <2>4 DEF Turns
<1>6. \A l \in loops : l.call \in Calls /\ calls'[l.call].board = calls[l.call].board
  BY <1>2, Places
<1>7. \A l \in loops : calls[l.call].board = b => running[b] = l.call
  BY <1>1 DEF Owned
<1>8. Owned'
  <2>1. \A c \in Boards : running[c] # NoOne => running[c] \in Calls
    BY DEF TypeInv
  <2>2. \A c \in Boards : (running[c] # NoOne =>
           calls[running[c]].at = "done" /\ calls[running[c]].board = c)'
    BY <1>1, <1>2, <2>1 DEF Owned
  <2>3. \A j \in Calls : (calls[j].at \in {"stop", "start"} => running[calls[j].board] = NoOne)'
    BY <1>1, <1>2 DEF Owned
  <2>4. \A j \in Calls, l \in loops : (calls[l.call].board = calls[j].board =>
         /\ calls[j].at # "start"
         /\ calls[j].at = "read" => running[calls[j].board] = l.call)'
    BY <1>1, <1>2, <1>6 DEF Owned
  <2>5. \A c \in Boards : (op[c] = Shutdown => running[c] = NoOne)'
    BY <1>1, <1>3 DEF Owned, NoOne, Shutdown
  <2>6. \A l \in loops : calls'[l.call].at = "done"
    BY <1>2, Places
  <2> QED BY <1>1, <2>2, <2>3, <2>4, <2>5, <2>6 DEF Owned
<1>9. RunningFlagIsTrue' /\ \A c : Still(c)' <=> Still(c)
  BY <1>1, <1>6, ViewsStay
<1>10. OneLoopPerPanel'
  <2>1. \A c : LoopsOf(c)' = LoopsOf(c)
    BY <1>1, <1>6, LoopsStay
  <2> SUFFICES ASSUME NEW l \in loops PROVE Served(l)'
    BY <1>1 DEF OneLoopPerPanel, Served
  <2>2. Served(l)
    BY DEF OneLoopPerPanel, Served
  <2>3. PICK c \in Boards : c = calls[l.call].board /\ c = calls'[l.call].board
    BY <1>6, Places
  <2>4. \A m \in LoopsOf(c)' \ {l} : l.unit \cap m.unit = {}
    BY <2>1, <2>2, <2>3 DEF Served
  <2>5. running'[c] = l.call \/ (l.call \in tokens' /\ op'[c] # NoOne)
    BY <1>1, <1>3, <1>7, <2>2, <2>3 DEF Served
  <2> QED BY <2>3, <2>4, <2>5 DEF Served, LoopsOf
<1>11. Settling'
  <2> SUFFICES ASSUME ~root', NEW c \in Boards \ unheard'
               PROVE  (\/ Settled(c)
                       \/ \E j \in Calls :
                            /\ calls[j].board = c
                            /\ \/ calls[j].at \in {"spawned", "wait", "read"}
                               \/ calls[j].at \in {"stop", "start"} /\ calls[j].row = row[c])'
    BY DEF Settling
  <2>1. c \in Boards \ unheard /\ ~root /\ c # b
    BY <1>1
  <2>2. CASE Settled(c)
    BY <1>1, <1>2, <2>1, <2>2 DEF Settled
  <2>3. CASE ~Settled(c)
    <3>1. PICK j \in Calls :
            /\ calls[j].board = c
            /\ \/ calls[j].at \in {"spawned", "wait", "read"}
               \/ calls[j].at \in {"stop", "start"} /\ calls[j].row = row[c]
      BY <2>1, <2>3 DEF Settling
    <3>2. calls'[j] = calls[j]
      BY <1>2, <2>1, <3>1
    <3> QED BY <1>1, <3>1, <3>2
  <2> QED BY <2>2, <2>3
<1>12. ShutDown'
  BY <1>1, <1>9 DEF ShutDown
<1> QED BY <1>4, <1>5, <1>8, <1>9, <1>10, <1>11, <1>12

LEMMA StartKeepsIt ==
    ASSUME Admissible, Inv, NEW k \in Calls, Start(k)
    PROVE  Inv'
<1> USE DEF Inv
<1> DEFINE b == calls[k].board
<1> DEFINE us == IF MayRun(k) THEN calls[k].row.config ELSE {}
<1> DEFINE new == {[call |-> k, unit |-> u, at |-> "begin"] : u \in us}
<1>1. /\ calls[k].at = "start" /\ b \in Boards /\ k # NoOne /\ op[b] = k /\ running[b] = NoOne
      /\ UNCHANGED <<row, root, stopping, slots, tokens, unheard>>
      /\ op' = [op EXCEPT ![b] = NoOne]
      /\ running' = [running EXCEPT ![b] = IF MayRun(k) THEN k ELSE NoOne]
      /\ units' = [units EXCEPT ![k] = us]
      /\ loops' = loops \cup new
  BY Places DEF Start, At, Turns, Owned, Holding
<1>2. /\ calls'[k].at = "done" /\ calls'[k].board = b /\ calls'[k].row = calls[k].row
      /\ \A j \in Calls : j # k => calls'[j] = calls[j]
      /\ calls' \in [Calls -> [board : Boards \cup {NoOne},
                  at : {"unused", "spawned", "wait", "read", "stop", "start", "done"}, row : Row]]
  BY GoneTo DEF Start
<1>3. /\ op'[b] = NoOne /\ \A c \in Boards : c # b => op'[c] = op[c]
      /\ op' \in [Boards -> Calls \cup {NoOne, Shutdown}]
  BY <1>1 DEF TypeInv
<1>4. /\ running'[b] = (IF MayRun(k) THEN k ELSE NoOne)
      /\ \A c \in Boards : c # b => running'[c] = running[c]
      /\ running' \in [Boards -> Calls \cup {NoOne}]
  BY <1>1 DEF TypeInv
<1>5. us \in Configs \cup {{}} /\ us \subseteq Units /\ \A u, v \in us : u # v => u \cap v = {}
  <2>1. calls[k].row \in Row
    BY DEF TypeInv
  <2>2. calls[k].row.config \in Configs \cup {{}}
    BY <2>1 DEF Row, Gone
  <2> QED BY <2>2 DEF Configs
<1> DEFINE seen == [p \in Panels |-> IF p \notin UNION us THEN Off
                                   ELSE IF view[b][p] = Off THEN "idle" ELSE view[b][p]]
<1>6. view' = [view EXCEPT ![b] = seen]
  BY DEF Start
<1>7. seen \in [Panels -> {Off, "idle", "running"}]
  BY <1>1 DEF TypeInv
<1>8. /\ view'[b] = seen /\ \A c \in Boards : c # b => view'[c] = view[c]
      /\ view' \in [Boards -> [Panels -> {Off, "idle", "running"}]]
  <2> HIDE DEF seen
  <2> QED BY <1>1, <1>6, <1>7 DEF TypeInv
<1>9. /\ units'[k] = us /\ \A j \in Calls : j # k => units'[j] = units[j]
      /\ units' \in [Calls -> Configs \cup {{}}]
  <2> HIDE DEF us
  <2> QED BY <1>1, <1>5 DEF TypeInv
<1>10. /\ \A l \in new : l \in Loop /\ l.call = k /\ l.unit \in us /\ l.at = "begin"
       /\ \A l, m \in new : l # m => l.unit \cap m.unit = {}
       /\ us = {} => new = {}
  <2>1. us \subseteq Units /\ \A u, v \in us : u # v => u \cap v = {}
    BY <1>5
  <2> HIDE DEF us
  <2> QED BY <2>1 DEF Loop
<1>11. \A l \in loops : /\ l.call \in Calls /\ calls'[l.call] = calls[l.call]
                        /\ calls[l.call].board # b /\ calls[l.call].board \in Boards
                        /\ calls[l.call].at = "done" /\ l.call # k
  BY <1>1, <1>2, Places DEF Owned
<1> HIDE DEF new, us, seen
<1>12. /\ \A l \in new : calls'[l.call].board = b
       /\ \A c : c = b => LoopsOf(c)' = new
       /\ \A c : c # b => LoopsOf(c)' = LoopsOf(c)
  BY <1>1, <1>2, <1>10, <1>11 DEF LoopsOf
<1>13. TypeInv'
  BY <1>1, <1>2, <1>3, <1>4, <1>8, <1>9, <1>10 DEF TypeInv
<1>14. Turns'
  <2>1. \A j \in Calls : (calls[j].at = "unused" <=> calls[j].board = NoOne)'
    BY <1>1, <1>2 DEF Turns, Admissible
  <2>2. ASSUME NEW j \in Calls, calls'[j].at \in Holding PROVE op'[calls'[j].board] = j
    <3>1. j # k /\ calls'[j] = calls[j]
      BY <1>2, <2>2 DEF Holding
    <3>2. op[calls[j].board] = j /\ calls[j].board \in Boards
      BY <2>2, <3>1, Places DEF Turns, Holding
    <3> QED BY <1>1, <1>3, <3>1, <3>2
  <2>3. \A j \in Calls : (calls[j].at \notin {"unused", "spawned"} => calls[j].board \in slots)'
    BY <1>1, <1>2 DEF Turns
  <2>4. \A c \in Boards : op'[c] = Shutdown => op[c] = Shutdown
    BY <1>3 DEF NoOne, Shutdown
  <2> QED BY <1>1, <2>1, <2>2, <2>3, <2>4 DEF Turns
<1>15. Owned'
  <2>1. \A c \in Boards : running[c] # NoOne => running[c] \in Calls
    BY DEF TypeInv
  <2>2. ASSUME NEW c \in Boards, running'[c] # NoOne
        PROVE  calls'[running'[c]].at = "done" /\ calls'[running'[c]].board = c
    <3>1. CASE c = b
      BY <1>2, <1>4, <2>2, <3>1
    <3>2. CASE c # b
      BY <1>2, <1>4, <2>1, <2>2, <3>2 DEF Owned
    <3> QED BY <3>1, <3>2
  <2>3. ASSUME NEW j \in Calls, calls'[j].at \in {"read", "stop", "start"}
        PROVE  j # k /\ calls'[j] = calls[j] /\ calls[j].board # b /\ calls[j].board \in Boards
    <3>1. j # k /\ calls'[j] = calls[j]
      BY <1>2, <2>3
    <3>2. op[calls[j].board] = j
      BY <2>3, <3>1 DEF Turns, Holding
    <3> QED BY <1>1, <2>3, <3>1, <3>2, Places
  <2>4. \A j \in Calls : (calls[j].at \in {"stop", "start"} => running[calls[j].board] = NoOne)'
    BY <1>4, <2>3 DEF Owned
  <2>5. ASSUME NEW j \in Calls, NEW l \in loops', calls'[l.call].board = calls'[j].board
        PROVE  /\ calls'[j].at # "start"
               /\ calls'[j].at = "read" => running'[calls'[j].board] = l.call
    <3> SUFFICES ASSUME calls'[j].at \in {"read", "start"}
                 PROVE  calls'[j].at = "read" /\ running'[calls'[j].board] = l.call
      OBVIOUS
    <3>1. calls'[j] = calls[j] /\ calls[j].board # b /\ calls[j].board \in Boards
      BY <2>3
    <3>2. l \in loops
      BY <1>1, <1>12, <2>5, <3>1
    <3> QED BY <1>4, <1>11, <2>5, <3>1, <3>2 DEF Owned
  <2>6. \A c \in Boards : (op[c] = Shutdown => running[c] = NoOne)'
    BY <1>3, <1>4 DEF Owned, NoOne, Shutdown
  <2>7. \A l \in loops' : calls'[l.call].at = "done"
    BY <1>1, <1>2, <1>10, <1>11
  <2> QED BY <2>2, <2>4, <2>5, <2>6, <2>7 DEF Owned
<1>16. OneLoopPerPanel'
  <2> SUFFICES ASSUME NEW l \in loops' PROVE Served(l)'
    BY DEF OneLoopPerPanel, Served
  <2>1. CASE l \in new
    <3>1. calls'[l.call].board = b /\ l.call = k
      BY <1>10, <1>12, <2>1
    <3>2. MayRun(k)
      BY <1>10, <2>1 DEF us
    <3>3. running'[b] = k
      BY <1>4, <3>2
    <3>4. PICK c \in Boards : c = b
      BY <1>1
    <3>5. \A m \in LoopsOf(c)' \ {l} : l.unit \cap m.unit = {}
      BY <1>10, <1>12, <2>1, <3>4
    <3> QED BY <3>1, <3>3, <3>4, <3>5 DEF Served, LoopsOf
  <2>2. CASE l \in loops
    <3>1. Served(l)
      BY <2>2 DEF OneLoopPerPanel, Served
    <3>2. PICK c \in Boards : c = calls[l.call].board /\ c = calls'[l.call].board /\ c # b
      BY <1>11, <2>2
    <3>3. LoopsOf(c)' = LoopsOf(c) /\ running'[c] = running[c] /\ op'[c] = op[c]
      BY <1>3, <1>4, <1>12, <3>2
    <3>4. \A m \in LoopsOf(c)' \ {l} : l.unit \cap m.unit = {}
      BY <3>1, <3>2, <3>3 DEF Served
    <3> QED BY <1>1, <3>1, <3>2, <3>3, <3>4 DEF Served, LoopsOf
  <2> QED BY <1>1, <2>1, <2>2
<1>17. RunningFlagIsTrue'
  <2> SUFFICES ASSUME NEW c \in Boards, NEW p \in Panels
               PROVE  (view[c][p] = "running" <=>
                         \E l \in LoopsOf(c) : p \in l.unit /\ l.at \in {"permit", "check"})'
    BY DEF RunningFlagIsTrue
  <2>1. CASE c # b
    BY <1>8, <1>12, <2>1 DEF RunningFlagIsTrue
  <2>2. CASE c = b
    <3>1. LoopsOf(b) = {}
      BY <1>11 DEF LoopsOf
    <3>2. view[b][p] # "running"
      BY <1>1, <3>1 DEF RunningFlagIsTrue
    <3>3. view'[b][p] # "running"
      BY <1>8, <3>2 DEF seen, Off
    <3>4. \A l \in LoopsOf(c)' : l.at = "begin"
      BY <1>10, <1>12, <2>2
    <3> QED BY <2>2, <3>3, <3>4
  <2> QED BY <2>1, <2>2
<1>18. Settling'
  <2> SUFFICES ASSUME ~root', NEW c \in Boards \ unheard'
               PROVE  (\/ Settled(c)
                       \/ \E j \in Calls :
                            /\ calls[j].board = c
                            /\ \/ calls[j].at \in {"spawned", "wait", "read"}
                               \/ calls[j].at \in {"stop", "start"} /\ calls[j].row = row[c])'
    BY DEF Settling
  <2>0. c \in Boards \ unheard /\ ~root
    BY <1>1
  <2>1. CASE Settled(c) /\ c # b
    <3>1. running[c] # NoOne => running[c] # k /\ running[c] \in Calls
      BY <1>1, <2>0 DEF Owned, TypeInv
    <3> QED BY <1>1, <1>2, <1>4, <1>9, <2>0, <2>1, <3>1 DEF Settled
  <2>2. CASE ~Settled(c) \/ c = b
    <3>1. CASE \E j \in Calls : /\ calls[j].board = c
                                /\ \/ calls[j].at \in {"spawned", "wait", "read"}
                                   \/ /\ calls[j].at \in {"stop", "start"} /\ j # k
                                      /\ calls[j].row = row[c]
      <4>1. PICK j \in Calls : /\ calls[j].board = c
                               /\ \/ calls[j].at \in {"spawned", "wait", "read"}
                                  \/ /\ calls[j].at \in {"stop", "start"} /\ j # k
                                     /\ calls[j].row = row[c]
        BY <3>1
      <4>2. j # k
        BY <1>1, <4>1
      <4> QED BY <1>1, <1>2, <4>1, <4>2
    <3>5. \A j \in Calls : calls'[j].board = b => calls'[j].at \notin {"stop", "start"}
      BY <1>1, <1>2 DEF Turns, Holding
    <3>2. CASE /\ c = b
               /\ calls[k].row = row[b]
      <4>1. CASE row[b].enabled
        <5>1. MayRun(k)
          BY <2>0, <3>2, <4>1 DEF MayRun
        <5>2. us = row[b].config
          BY <3>2, <5>1 DEF us
        <5>3. running'[b] = k /\ units'[k] = row[b].config
          BY <1>4, <1>9, <5>1, <5>2
        <5> QED BY <1>1, <3>2, <3>5, <4>1, <5>3 DEF Settled
      <4>2. CASE ~row[b].enabled
        <5>1. running'[b] = NoOne
          BY <1>4, <3>2, <4>2 DEF MayRun
        <5> QED BY <1>1, <3>2, <3>5, <4>2, <5>1 DEF Settled
      <4> QED BY <4>1, <4>2
    <3>3. c = b => ~Settled(c)
      BY <1>1 DEF Settled
    <3>4. PICK j \in Calls :
            /\ calls[j].board = c
            /\ \/ calls[j].at \in {"spawned", "wait", "read"}
               \/ calls[j].at \in {"stop", "start"} /\ calls[j].row = row[c]
      BY <2>0, <2>2, <3>3 DEF Settling
    <3> QED BY <3>1, <3>2, <3>4
  <2> QED BY <2>1, <2>2
<1>19. ShutDown'
  <2>1. ASSUME NEW c \in Boards, Still(c), root \/ c # b PROVE Still(c)'
    <3>1. CASE c # b
      BY <1>8, <1>12, <2>1, <3>1 DEF Still
    <3>2. CASE c = b
      <4>1. us = {}
        BY <2>1, <3>2 DEF us, MayRun
      <4>2. seen = NoView
        BY <4>1 DEF seen, NoView
      <4> QED BY <1>8, <1>10, <1>12, <3>2, <4>1, <4>2 DEF Still, NoView
    <3> QED BY <3>1, <3>2
  <2>2. b \in slots
    BY <1>1 DEF Turns
  <2> QED BY <1>1, <2>1, <2>2 DEF ShutDown
<1> QED BY <1>13, <1>14, <1>15, <1>16, <1>17, <1>18, <1>19

----------------------------------------------------------------------------
(***************************************************************************)
(* The steps of the shutdown.                                              *)
(***************************************************************************)
LEMMA ShutdownKeepsIt ==
    ASSUME Admissible, Inv, BeginStopAll \/ ListSlots \/ EndStopAll
    PROVE  Inv'
<1> USE DEF Inv
<1>1. /\ UNCHANGED <<row, calls, slots, op, running, units, tokens, view, loops, unheard>>
      /\ stopping.at \in {"idle", "next", "wait"} /\ root' = TRUE
      /\ stopping' \in [at : {"idle", "next", "wait", "stop", "done"}, left : SUBSET Boards]
  BY DEF BeginStopAll, ListSlots, EndStopAll, slotVars, ShutDown, TypeInv
<1>2. \A b \in Boards : op[b] # Shutdown
  BY <1>1 DEF Turns
<1>3. TypeInv' /\ Turns' /\ Owned'
  BY <1>1, <1>2 DEF TypeInv, Turns, Owned, Holding
<1>4. RunningFlagIsTrue' /\ \A b : Still(b)' <=> Still(b)
  BY <1>1, ViewsStay
<1>5. OneLoopPerPanel'
  <2>1. \A b : LoopsOf(b)' = LoopsOf(b)
    BY <1>1, LoopsStay
  <2> QED BY <1>1, <2>1 DEF OneLoopPerPanel
<1>6. Settling'
  BY <1>1 DEF Settling
<1>7. ShutDown'
  <2>1. CASE BeginStopAll
    BY <1>1, <1>4, <2>1 DEF BeginStopAll, ShutDown
  <2>2. CASE ListSlots
    BY <1>1, <1>4, <2>2 DEF ListSlots, ShutDown
  <2>3. CASE EndStopAll
    <3>1. stopping.at = "wait" /\ stopping'.at = "done" /\ stopping'.left = stopping.left /\ stopping.left = {}
      BY <2>3 DEF EndStopAll, TypeInv
    <3> QED BY <1>1, <1>4, <3>1 DEF ShutDown
  <2> QED BY <2>1, <2>2, <2>3
<1> QED BY <1>3, <1>4, <1>5, <1>6, <1>7

LEMMA LockForStopKeepsIt ==
    ASSUME Admissible, Inv, NEW b \in Boards, LockForStop(b)
    PROVE  Inv'
<1> USE DEF Inv
<1>1. /\ stopping.at = "wait" /\ b \in stopping.left /\ op[b] = NoOne /\ root
      /\ UNCHANGED <<row, root, calls, slots, units, view, loops, unheard>>
      /\ tokens' = tokens \cup ({running[b]} \ {NoOne})
  BY DEF LockForStop, Unlocked, CancelToken, ShutDown
<1>2. /\ stopping'.at = "stop" /\ stopping'.left = stopping.left
      /\ stopping' \in [at : {"idle", "next", "wait", "stop", "done"}, left : SUBSET Boards]
  BY DEF LockForStop, TypeInv
<1>3. /\ op'[b] = Shutdown /\ \A c \in Boards : c # b => op'[c] = op[c]
      /\ op' \in [Boards -> Calls \cup {NoOne, Shutdown}]
      /\ running'[b] = NoOne /\ \A c \in Boards : c # b => running'[c] = running[c]
      /\ running' \in [Boards -> Calls \cup {NoOne}]
  BY DEF LockForStop, TypeInv
<1>4. \A c \in Boards : op[c] # Shutdown
  BY <1>1 DEF Turns
<1>5. \A k \in Calls : calls[k].at \in Holding => calls[k].board # b /\ calls[k].board \in Boards
  BY <1>1, Places DEF Turns, Holding
<1>6. TypeInv'
  BY <1>1, <1>2, <1>3 DEF TypeInv
<1>7. Turns'
  <2>1. \A k \in Calls : (calls[k].at \in Holding => op[calls[k].board] = k)'
    BY <1>1, <1>3, <1>5 DEF Turns
  <2>2. \A c \in Boards : op'[c] = Shutdown => c = b
    BY <1>3, <1>4
  <2> QED BY <1>1, <1>2, <2>1, <2>2 DEF Turns
<1>8. Owned'
  <2>1. \A c \in Boards : (running[c] # NoOne =>
           calls[running[c]].at = "done" /\ calls[running[c]].board = c)'
    BY <1>1, <1>3 DEF Owned
  <2>2. \A k \in Calls : (calls[k].at \in {"stop", "start"} => running[calls[k].board] = NoOne)'
    BY <1>1, <1>3, <1>5 DEF Owned, Holding
  <2>3. \A c \in Boards : (op[c] = Shutdown => running[c] = NoOne)'
    BY <1>3, <1>4
  <2>4. \A k \in Calls, l \in loops : (calls[l.call].board = calls[k].board =>
         /\ calls[k].at # "start"
         /\ calls[k].at = "read" => running[calls[k].board] = l.call)'
    BY <1>1, <1>3, <1>5 DEF Owned, Holding
  <2> QED BY <1>1, <2>1, <2>2, <2>3, <2>4 DEF Owned
<1>9. RunningFlagIsTrue' /\ \A c : Still(c)' <=> Still(c)
  BY <1>1, ViewsStay
<1>10. OneLoopPerPanel'
  <2>1. \A c : LoopsOf(c)' = LoopsOf(c)
    BY <1>1, LoopsStay
  <2> SUFFICES ASSUME NEW l \in loops PROVE Served(l)'
    BY <1>1 DEF OneLoopPerPanel, Served
  <2>2. Served(l)
    BY DEF OneLoopPerPanel, Served
  <2>3. PICK c \in Boards : c = calls[l.call].board /\ c = calls'[l.call].board
    BY <1>1, Places
  <2>4. l.call # NoOne
    BY Places
  <2>5. \A m \in LoopsOf(c)' \ {l} : l.unit \cap m.unit = {}
    BY <2>1, <2>2, <2>3 DEF Served
  <2>6. running'[c] = l.call \/ (l.call \in tokens' /\ op'[c] # NoOne)
    <3>1. CASE c = b
      BY <1>1, <1>3, <2>2, <2>3, <2>4, <3>1 DEF Served, NoOne, Shutdown
    <3>2. CASE c # b
      BY <1>1, <1>3, <2>2, <2>3, <3>2 DEF Served
    <3> QED BY <3>1, <3>2
  <2> QED BY <2>3, <2>5, <2>6 DEF Served, LoopsOf
<1>11. Settling'
  BY <1>1 DEF Settling
<1>12. ShutDown'
  BY <1>1, <1>2, <1>9 DEF ShutDown
<1> QED BY <1>6, <1>7, <1>8, <1>9, <1>10, <1>11, <1>12

LEMMA StopSlotKeepsIt ==
    ASSUME Admissible, Inv, NEW b \in Boards, StopSlot(b)
    PROVE  Inv'
<1> USE DEF Inv
<1>1. /\ stopping.at = "stop" /\ op[b] = Shutdown /\ LoopsOf(b) = {} /\ root
      /\ UNCHANGED <<row, root, calls, slots, running, units, tokens, loops, unheard>>
      /\ stopping'.at = "wait" /\ stopping'.left = stopping.left \ {b}
  BY DEF StopSlot, Stopped, ShutDown
<1>2. stopping' \in [at : {"idle", "next", "wait", "stop", "done"}, left : SUBSET Boards]
  BY DEF StopSlot, TypeInv
<1>3. /\ op'[b] = NoOne /\ \A c \in Boards : c # b => op'[c] = op[c]
      /\ op' \in [Boards -> Calls \cup {NoOne, Shutdown}]
  BY DEF StopSlot, TypeInv
<1>4. /\ view'[b] = NoView /\ \A c \in Boards : c # b => view'[c] = view[c]
      /\ view' \in [Boards -> [Panels -> {Off, "idle", "running"}]]
  <2>1. NoView \in [Panels -> {Off, "idle", "running"}]
    BY DEF NoView
  <2> QED BY <2>1 DEF StopSlot, TypeInv
<1>5. \A c \in Boards : op'[c] # Shutdown
  BY <1>1, <1>3 DEF Turns, NoOne, Shutdown
<1>6. TypeInv'
  BY <1>1, <1>2, <1>3, <1>4 DEF TypeInv
<1>7. \A k \in Calls : calls[k].at \in Holding => calls[k].board # b /\ calls[k].board \in Boards
  BY <1>1, Places DEF Turns, Holding
<1>8. Turns'
  <2>1. \A k \in Calls : (calls[k].at \in Holding => op[calls[k].board] = k)'
    BY <1>1, <1>3, <1>7 DEF Turns
  <2> QED BY <1>1, <1>5, <2>1 DEF Turns
<1>9. Owned'
  BY <1>1, <1>5 DEF Owned
<1>10. \A c : LoopsOf(c)' = LoopsOf(c)
  BY <1>1, LoopsStay
<1>11. OneLoopPerPanel'
  <2> SUFFICES ASSUME NEW l \in loops PROVE Served(l)'
    BY <1>1 DEF OneLoopPerPanel, Served
  <2>1. Served(l)
    BY DEF OneLoopPerPanel, Served
  <2>2. PICK c \in Boards : c = calls[l.call].board /\ c = calls'[l.call].board /\ c # b
    BY <1>1, Places DEF LoopsOf
  <2>3. \A m \in LoopsOf(c)' \ {l} : l.unit \cap m.unit = {}
    BY <1>10, <2>1, <2>2 DEF Served
  <2> QED BY <1>1, <1>3, <2>1, <2>2, <2>3 DEF Served, LoopsOf
<1>12. RunningFlagIsTrue'
  <2> SUFFICES ASSUME NEW c \in Boards, NEW p \in Panels
               PROVE  (view[c][p] = "running" <=>
                         \E l \in LoopsOf(c) : p \in l.unit /\ l.at \in {"permit", "check"})'
    BY DEF RunningFlagIsTrue
  <2>1. CASE c # b
    BY <1>4, <1>10, <2>1 DEF RunningFlagIsTrue
  <2>2. CASE c = b
    BY <1>1, <1>4, <1>10, <2>2 DEF NoView, Off
  <2> QED BY <2>1, <2>2
<1>13. Settling'
  BY <1>1 DEF Settling
<1>14. ShutDown'
  <2>1. \A c \in Boards : Still(c) => Still(c)'
    BY <1>4, <1>10 DEF Still
  <2>2. Still(b)'
    BY <1>1, <1>4, <1>10 DEF Still
  <2>3. \A c \in Boards \ stopping'.left : Still(c)'
    BY <1>1, <2>1, <2>2 DEF ShutDown
  <2> QED BY <1>1, <2>1, <2>3 DEF ShutDown
<1> QED BY <1>6, <1>8, <1>9, <1>11, <1>12, <1>13, <1>14

----------------------------------------------------------------------------
(***************************************************************************)
(* The steps of a loop: it goes on, as the loop in N, or ends.             *)
(***************************************************************************)
LEMMA LoopKeepsIt ==
    ASSUME Admissible, Inv, UnchangedByLoop, NEW l \in loops, NEW N \in SUBSET Loop,
           loops' = (loops \ {l}) \cup N,
           \A m \in N : m.call = l.call /\ m.unit = l.unit,
           \A m, n \in N : m = n,
           view' \in [Boards -> [Panels -> {Off, "idle", "running"}]],
           \A c \in Boards : c # calls[l.call].board => view'[c] = view[c],
           \A p \in Panels : p \notin l.unit =>
             view'[calls[l.call].board][p] = view[calls[l.call].board][p],
           \A p \in l.unit :
             view'[calls[l.call].board][p] = "running" <=> \E m \in N : m.at \in {"permit", "check"}
    PROVE  Inv'
<1> USE DEF Inv
<1>1. UNCHANGED <<row, root, calls, stopping, slots, op, running, units, tokens, unheard>>
  BY DEF UnchangedByLoop
<1>2. PICK b \in Boards : b = calls[l.call].board
  BY Places
<1>3. l.call \in Calls /\ l.unit \in Units /\ l.unit \subseteq Panels /\ calls[l.call].at = "done"
  BY Places DEF Units
<1>4. TypeInv'
  BY <1>1 DEF TypeInv
<1>5. Turns'
  BY <1>1 DEF Turns
<1>6. Owned'
  <2>1. \A m \in loops' : calls[m.call].at = "done"
    BY <1>3 DEF Owned
  <2>2. ASSUME NEW k \in Calls, NEW m \in loops', calls[m.call].board = calls[k].board
        PROVE  /\ calls[k].at # "start"
               /\ calls[k].at = "read" => running[calls[k].board] = m.call
    <3>1. CASE m \in loops
      BY <2>2, <3>1 DEF Owned
    <3>2. CASE m \in N
      BY <2>2, <3>2 DEF Owned
    <3> QED BY <3>1, <3>2
  <2> QED BY <1>1, <2>1, <2>2 DEF Owned
<1>7. \A c : LoopsOf(c)' = {m \in loops' : calls[m.call].board = c}
  BY <1>1 DEF LoopsOf
<1>8. \A c : c # b => LoopsOf(c)' = LoopsOf(c)
  BY <1>2, <1>7 DEF LoopsOf
<1>9. \A m \in loops : \A n \in LoopsOf(calls[m.call].board) \ {m} : m.unit \cap n.unit = {}
  BY DEF OneLoopPerPanel
<1>10. OneLoopPerPanel'
  <2> SUFFICES ASSUME NEW m \in loops' PROVE Served(m)'
    BY DEF OneLoopPerPanel, Served
  <2>1. PICK o \in loops : o.call = m.call /\ o.unit = m.unit /\ (m \in N => o = l)
                           /\ (m \notin N => o = m /\ o # l)
    <3>1. CASE m \in N
      BY <3>1
    <3>2. CASE m \notin N
      BY <3>2
    <3> QED BY <3>1, <3>2
  <2>2. Served(o)
    BY DEF OneLoopPerPanel, Served
  <2>3. ASSUME NEW n \in loops', n # m, calls[n.call].board = calls[m.call].board
        PROVE  m.unit \cap n.unit = {}
    <3>1. PICK q \in loops : q.call = n.call /\ q.unit = n.unit /\ q # o
      <4>1. CASE n \in N
        <5>1. m \notin N
          BY <2>3, <4>1
        <5> QED BY <2>1, <4>1, <5>1
      <4>2. CASE n \notin N
        <5>1. n \in loops /\ n # l
          BY <4>2
        <5> QED BY <2>1, <2>3, <5>1
      <4> QED BY <4>1, <4>2
    <3>2. q \in LoopsOf(calls[o.call].board) \ {o}
      BY <2>1, <2>3, <3>1 DEF LoopsOf
    <3> QED BY <1>9, <2>1, <3>1, <3>2
  <2>4. \A n \in LoopsOf(calls[m.call].board)' \ {m} : m.unit \cap n.unit = {}
    BY <1>1, <2>3 DEF LoopsOf
  <2> QED BY <1>1, <2>1, <2>2, <2>4 DEF Served, LoopsOf
<1>11. RunningFlagIsTrue'
  <2> SUFFICES ASSUME NEW c \in Boards, NEW p \in Panels
               PROVE  (view[c][p] = "running" <=>
                         \E m \in LoopsOf(c) : p \in m.unit /\ m.at \in {"permit", "check"})'
    BY DEF RunningFlagIsTrue
  <2>1. CASE c # b
    BY <1>2, <1>8, <2>1 DEF RunningFlagIsTrue
  <2>2. CASE c = b /\ p \notin l.unit
    <3>1. view'[c][p] = view[c][p]
      BY <1>2, <2>2
    <3>2. \A m : m \in loops' /\ p \in m.unit <=> m \in loops /\ p \in m.unit
      BY <2>2
    <3>4. \A m : m \in LoopsOf(c)' /\ p \in m.unit <=> m \in LoopsOf(c) /\ p \in m.unit
      BY <1>1, <3>2 DEF LoopsOf
    <3> QED BY <3>1, <3>4 DEF RunningFlagIsTrue
  <2>3. CASE c = b /\ p \in l.unit
    <3>1. \A m \in LoopsOf(c)' : p \in m.unit => m \in N
      <4> SUFFICES ASSUME NEW m \in loops, calls[m.call].board = b, m # l, p \in m.unit PROVE FALSE
        BY <1>7, <2>3
      <4>1. m \in LoopsOf(calls[l.call].board) \ {l}
        BY <1>2 DEF LoopsOf
      <4> QED BY <1>9, <2>3, <4>1
    <3>2. \A m \in N : m \in LoopsOf(c)' /\ p \in m.unit
      BY <1>2, <1>7, <2>3
    <3>3. view'[c][p] = "running" <=> \E m \in N : m.at \in {"permit", "check"}
      BY <1>2, <2>3
    <3> QED BY <3>1, <3>2, <3>3
  <2> QED BY <2>1, <2>2, <2>3
<1>12. Settling'
  BY <1>1, SettlingStays
<1>13. ShutDown'
  <2>1. ASSUME NEW c \in Boards, Still(c) PROVE Still(c)'
    <3>1. l \in LoopsOf(b)
      BY <1>2 DEF LoopsOf
    <3>2. c # b
      BY <2>1, <3>1 DEF Still
    <3> QED BY <1>2, <1>8, <2>1, <3>2 DEF Still
  <2> QED BY <1>1, <2>1 DEF ShutDown
<1> QED BY <1>4, <1>5, <1>6, <1>10, <1>11, <1>12, <1>13

LEMMA LoopGoesOn ==
    ASSUME Admissible, Inv, UnchangedByLoop, NEW l \in loops, NEW m \in Loop,
           loops' = (loops \ {l}) \cup {m}, m.call = l.call, m.unit = l.unit,
           view' \in [Boards -> [Panels -> {Off, "idle", "running"}]],
           \A c \in Boards : c # calls[l.call].board => view'[c] = view[c],
           \A p \in Panels : p \notin l.unit =>
             view'[calls[l.call].board][p] = view[calls[l.call].board][p],
           \A p \in l.unit :
             view'[calls[l.call].board][p] = "running" <=> m.at \in {"permit", "check"}
    PROVE  Inv'
<1>1. PICK N \in SUBSET Loop : N = {m}
  OBVIOUS
<1>2. /\ loops' = (loops \ {l}) \cup N
      /\ \A n \in N : n.call = l.call /\ n.unit = l.unit
      /\ \A n, o \in N : n = o
  BY <1>1
<1>3. \A p \in l.unit :
        view'[calls[l.call].board][p] = "running" <=> \E n \in N : n.at \in {"permit", "check"}
  BY <1>1
<1> HIDE <1>1
<1> QED BY <1>2, <1>3, LoopKeepsIt

LEMMA LoopEnds ==
    ASSUME Admissible, Inv, UnchangedByLoop, NEW l \in loops, loops' = loops \ {l},
           view' \in [Boards -> [Panels -> {Off, "idle", "running"}]],
           \A c \in Boards : c # calls[l.call].board => view'[c] = view[c],
           \A p \in Panels : p \notin l.unit =>
             view'[calls[l.call].board][p] = view[calls[l.call].board][p],
           \A p \in l.unit : view'[calls[l.call].board][p] # "running"
    PROVE  Inv'
<1>1. PICK N \in SUBSET Loop : N = {}
  OBVIOUS
<1>2. /\ loops' = (loops \ {l}) \cup N
      /\ \A n \in N : n.call = l.call /\ n.unit = l.unit
      /\ \A n, o \in N : n = o
  BY <1>1
<1>3. \A p \in l.unit :
        view'[calls[l.call].board][p] = "running" <=> \E n \in N : n.at \in {"permit", "check"}
  BY <1>1
<1> HIDE <1>1
<1> QED BY <1>2, <1>3, LoopKeepsIt

LEMMA FlagIs ==
    ASSUME Admissible, Inv, NEW l \in loops, NEW v \in {"idle", "running"}, Flag(l, v)
    PROVE  /\ view' \in [Boards -> [Panels -> {Off, "idle", "running"}]]
           /\ \A c \in Boards : c # calls[l.call].board => view'[c] = view[c]
           /\ \A p \in Panels : p \notin l.unit =>
                view'[calls[l.call].board][p] = view[calls[l.call].board][p]
           /\ \A p \in l.unit : view'[calls[l.call].board][p] = v
<1> USE DEF Inv
<1>1. PICK b \in Boards : b = calls[l.call].board
  BY Places
<1>2. l.unit \subseteq Panels
  BY Places DEF Units
<1> DEFINE seen == [p \in Panels |-> IF p \in l.unit THEN v ELSE view[b][p]]
<1>3. view[b] \in [Panels -> {Off, "idle", "running"}]
  BY DEF TypeInv
<1>4. seen \in [Panels -> {Off, "idle", "running"}]
  BY <1>3
<1>5. view' = [view EXCEPT ![b] = seen]
  BY <1>1 DEF Flag
<1>6. /\ \A p \in Panels : p \notin l.unit => seen[p] = view[b][p]
      /\ \A p \in l.unit : seen[p] = v
  BY <1>2
<1> HIDE DEF seen
<1>7. view'[b] = seen /\ \A c \in Boards : c # b => view'[c] = view[c]
  BY <1>5 DEF TypeInv
<1>8. view' \in [Boards -> [Panels -> {Off, "idle", "running"}]]
  BY <1>4, <1>5 DEF TypeInv
<1> QED BY <1>1, <1>6, <1>7, <1>8

\* Of a loop's panels no other loop has the flag.
LEMMA FlagOfALoop ==
    ASSUME Admissible, Inv, NEW l \in loops, NEW p \in l.unit
    PROVE  view[calls[l.call].board][p] = "running" <=> l.at \in {"permit", "check"}
<1> USE DEF Inv
<1>1. PICK b \in Boards : b = calls[l.call].board
  BY Places
<1>2. p \in Panels
  BY Places DEF Units
<1>3. l \in LoopsOf(b)
  BY <1>1 DEF LoopsOf
<1>4. \A m \in LoopsOf(b) : p \in m.unit => m = l
  BY <1>1 DEF OneLoopPerPanel
<1> QED BY <1>1, <1>2, <1>3, <1>4 DEF RunningFlagIsTrue

LEMMA MovedLoop ==
    ASSUME TypeInv, NEW l \in loops, NEW where \in {"begin", "permit", "check", "sleep"}
    PROVE  /\ [l EXCEPT !.at = where] \in Loop
           /\ [l EXCEPT !.at = where].call = l.call /\ [l EXCEPT !.at = where].unit = l.unit
           /\ [l EXCEPT !.at = where].at = where
BY DEF TypeInv, Loop

LEMMA WorkKeepsIt ==
    ASSUME Admissible, Inv, NEW l \in loops, Work(l)
    PROVE  Inv'
<1>0. TypeInv
  BY DEF Inv
<1>1. CASE BeginRound(l)
  <2>1. PICK m : m = [l EXCEPT !.at = "permit"]
    OBVIOUS
  <2>2. m \in Loop /\ m.call = l.call /\ m.unit = l.unit /\ m.at = "permit"
    BY <1>0, <2>1, MovedLoop
  <2>3. loops' = (loops \ {l}) \cup {m} /\ UnchangedByLoop /\ Flag(l, "running")
    BY <1>1, <2>1 DEF BeginRound, MoveLoop
  <2> QED BY <2>2, <2>3, FlagIs, LoopGoesOn
<1>2. CASE Acquire(l)
  <2>1. PICK m : m = [l EXCEPT !.at = "check"]
    OBVIOUS
  <2>2. m \in Loop /\ m.call = l.call /\ m.unit = l.unit /\ m.at = "check"
    BY <1>0, <2>1, MovedLoop
  <2>3. loops' = (loops \ {l}) \cup {m} /\ UnchangedByLoop /\ view' = view /\ l.at = "permit"
    BY <1>2, <2>1 DEF Acquire, MoveLoop
  <2>4. view' \in [Boards -> [Panels -> {Off, "idle", "running"}]]
    BY <1>0, <2>3 DEF TypeInv
  <2>5. \A p \in l.unit : view'[calls[l.call].board][p] = "running"
    BY <2>3, FlagOfALoop
  <2> QED BY <2>2, <2>3, <2>4, <2>5, LoopGoesOn
<1>3. CASE FinishRound(l)
  <2>1. PICK m : m = [l EXCEPT !.at = "sleep"]
    OBVIOUS
  <2>2. m \in Loop /\ m.call = l.call /\ m.unit = l.unit /\ m.at = "sleep"
    BY <1>0, <2>1, MovedLoop
  <2>3. loops' = (loops \ {l}) \cup {m} /\ UnchangedByLoop /\ Flag(l, "idle")
    BY <1>3, <2>1 DEF FinishRound, MoveLoop
  <2> QED BY <2>2, <2>3, FlagIs, LoopGoesOn
<1>4. CASE NextRound(l)
  <2>1. PICK m : m = [l EXCEPT !.at = "begin"]
    OBVIOUS
  <2>2. m \in Loop /\ m.call = l.call /\ m.unit = l.unit /\ m.at = "begin"
    BY <1>0, <2>1, MovedLoop
  <2>3. loops' = (loops \ {l}) \cup {m} /\ UnchangedByLoop /\ view' = view /\ l.at = "sleep"
    BY <1>4, <2>1 DEF NextRound, MoveLoop
  <2>4. view' \in [Boards -> [Panels -> {Off, "idle", "running"}]]
    BY <1>0, <2>3 DEF TypeInv
  <2>5. \A p \in l.unit : view'[calls[l.call].board][p] # "running"
    BY <2>3, FlagOfALoop
  <2> QED BY <2>2, <2>3, <2>4, <2>5, LoopGoesOn
<1>5. CASE Quit(l)
  <2>1. loops' = loops \ {l} /\ UnchangedByLoop
    BY <1>5 DEF Quit
  <2>2. CASE l.at \in {"permit", "check"}
    <3>1. Flag(l, "idle")
      BY <1>5, <2>2 DEF Quit
    <3>2. \A p \in l.unit : view'[calls[l.call].board][p] = "idle"
      BY <3>1, FlagIs
    <3> QED BY <2>1, <3>1, <3>2, FlagIs, LoopEnds
  <2>3. CASE l.at \notin {"permit", "check"}
    <3>1. view' = view
      BY <1>5, <2>3 DEF Quit
    <3>2. view' \in [Boards -> [Panels -> {Off, "idle", "running"}]]
      BY <1>0, <3>1 DEF TypeInv
    <3>3. \A p \in l.unit : view'[calls[l.call].board][p] # "running"
      BY <2>3, <3>1, FlagOfALoop
    <3> QED BY <2>1, <3>1, <3>2, <3>3, LoopEnds
  <2> QED BY <2>2, <2>3
<1> QED BY <1>1, <1>2, <1>3, <1>4, <1>5 DEF Work

----------------------------------------------------------------------------
(***************************************************************************)
(* The whole.                                                              *)
(***************************************************************************)
LEMMA InitHolds ==
    ASSUME Admissible, Init
    PROVE  Inv
<1>1. /\ row \in [Boards -> Row] /\ root = FALSE /\ stopping = [at |-> "idle", left |-> {}]
      /\ slots = {} /\ tokens = {} /\ loops = {} /\ unheard = {}
      /\ op = [b \in Boards |-> NoOne] /\ running = [b \in Boards |-> NoOne]
      /\ units = [k \in Calls |-> {}] /\ view = [b \in Boards |-> NoView]
  BY DEF Init
<1>2. PICK resume \in [Boards -> Calls] :
        /\ \A b, c \in Boards : b # c => resume[b] # resume[c]
        /\ calls = [k \in Calls |->
             IF \E b \in Boards : resume[b] = k /\ row[b].enabled
             THEN LET b == CHOOSE b \in Boards : resume[b] = k
                  IN  [board |-> b, at |-> "spawned", row |-> row[b]]
             ELSE Idle]
  BY DEF Init
<1>3. \A k \in Calls :
        \/ calls[k] = Idle
        \/ \E b \in Boards : resume[b] = k /\ calls[k] = [board |-> b, at |-> "spawned", row |-> row[b]]
  <2> SUFFICES ASSUME NEW k \in Calls, \E b \in Boards : resume[b] = k /\ row[b].enabled
               PROVE  \E b \in Boards : /\ resume[b] = k
                                        /\ calls[k] = [board |-> b, at |-> "spawned", row |-> row[b]]
    BY <1>2
  <2>1. PICK c : c = CHOOSE b \in Boards : resume[b] = k
    OBVIOUS
  <2>2. c \in Boards /\ resume[c] = k
    BY <2>1
  <2>3. calls[k] = [board |-> c, at |-> "spawned", row |-> row[c]]
    BY <1>2, <2>1
  <2> QED BY <2>2, <2>3
<1>4. \A b \in Boards : row[b].enabled =>
        calls[resume[b]] = [board |-> b, at |-> "spawned", row |-> row[b]]
  <2> SUFFICES ASSUME NEW b \in Boards, row[b].enabled
               PROVE  calls[resume[b]] = [board |-> b, at |-> "spawned", row |-> row[b]]
    OBVIOUS
  <2>1. PICK c : c = CHOOSE d \in Boards : resume[d] = resume[b]
    OBVIOUS
  <2>2. c \in Boards /\ resume[c] = resume[b]
    BY <2>1
  <2>3. c = b
    BY <1>2, <2>2
  <2>4. resume[b] \in Calls /\ \E d \in Boards : resume[d] = resume[b] /\ row[d].enabled
    OBVIOUS
  <2> QED BY <1>2, <2>1, <2>3, <2>4
<1>5. calls \in [Calls -> [board : Boards \cup {NoOne},
                  at : {"unused", "spawned", "wait", "read", "stop", "start", "done"}, row : Row]]
  <2>1. Idle \in [board : Boards \cup {NoOne},
                  at : {"unused", "spawned", "wait", "read", "stop", "start", "done"}, row : Row]
    BY DEF Idle, Row
  <2>2. \A k \in Calls : calls[k] \in [board : Boards \cup {NoOne},
                  at : {"unused", "spawned", "wait", "read", "stop", "start", "done"}, row : Row]
    <3> SUFFICES ASSUME NEW k \in Calls, NEW b \in Boards,
                        calls[k] = [board |-> b, at |-> "spawned", row |-> row[b]]
                 PROVE  calls[k] \in [board : Boards \cup {NoOne},
                  at : {"unused", "spawned", "wait", "read", "stop", "start", "done"}, row : Row]
      BY <1>3, <2>1, ZenonT(60)
    <3>1. row[b] \in Row
      BY <1>1
    <3> QED BY <3>1
  <2> QED BY <1>2, <2>2
<1>6. NoView \in [Panels -> {Off, "idle", "running"}]
  BY DEF NoView
<1>7. TypeInv
  BY <1>1, <1>5, <1>6 DEF TypeInv
<1>8. \A k \in Calls : \/ calls[k].at = "unused" /\ calls[k].board = NoOne
                       \/ calls[k].at = "spawned" /\ calls[k].board \in Boards
  <2>1. Idle.at = "unused" /\ Idle.board = NoOne
    BY DEF Idle
  <2> SUFFICES ASSUME NEW k \in Calls, NEW b \in Boards,
                      calls[k] = [board |-> b, at |-> "spawned", row |-> row[b]]
               PROVE  calls[k].at = "spawned" /\ calls[k].board \in Boards
    BY <1>3, <2>1
  <2> QED OBVIOUS
<1>9. Turns
  BY <1>1, <1>8 DEF Turns, Holding, Admissible, NoOne, Shutdown
<1>10. Owned
  BY <1>1, <1>8 DEF Owned, NoOne, Shutdown
<1>11. \A b : LoopsOf(b) = {}
  BY <1>1 DEF LoopsOf
<1>12. OneLoopPerPanel
  BY <1>1 DEF OneLoopPerPanel
<1>13. RunningFlagIsTrue
  BY <1>1, <1>11 DEF RunningFlagIsTrue, NoView, Off
<1>14. Settling
  <2> SUFFICES ASSUME NEW b \in Boards
               PROVE  \/ Settled(b)
                      \/ \E k \in Calls : calls[k].board = b /\ calls[k].at \in {"spawned", "wait", "read"}
    BY DEF Settling
  <2>1. CASE row[b].enabled
    <3>1. resume[b] \in Calls /\ calls[resume[b]].board = b /\ calls[resume[b]].at = "spawned"
      <4>1. calls[resume[b]] = [board |-> b, at |-> "spawned", row |-> row[b]]
        BY <1>4, <2>1
      <4> QED BY <4>1
    <3> QED BY <3>1
  <2>2. CASE ~row[b].enabled
    BY <1>1, <1>8, <2>2 DEF Settled
  <2> QED BY <2>1, <2>2
<1>15. ShutDown
  BY <1>1, <1>11 DEF ShutDown, Still
<1> QED BY <1>7, <1>9, <1>10, <1>12, <1>13, <1>14, <1>15 DEF Inv

LEMMA StutterKeepsIt ==
    ASSUME Inv, UNCHANGED vars
    PROVE  Inv'
<1>1. UNCHANGED <<row, root, calls, stopping, slots, op, running, units, tokens, view, loops, unheard>>
  BY DEF vars, slotVars
<1>2. \A b : LoopsOf(b)' = LoopsOf(b)
  BY <1>1 DEF LoopsOf
<1>3. TypeInv' /\ Turns' /\ Owned' /\ ShutDown'
  BY <1>1, <1>2 DEF Inv, TypeInv, Turns, Owned, ShutDown, Still
<1>4. OneLoopPerPanel' /\ RunningFlagIsTrue'
  BY <1>1, <1>2 DEF Inv, OneLoopPerPanel, RunningFlagIsTrue
<1>5. Settling'
  BY <1>1 DEF Inv, Settling, Settled
<1> QED BY <1>3, <1>4, <1>5 DEF Inv

LEMMA StepKeepsIt ==
    ASSUME Admissible, Inv, [Next]_vars
    PROVE  Inv'
<1>1. ASSUME NEW b \in Boards, Put(b) \/ SetEnabled(b) \/ Delete(b) PROVE Inv'
  <2>1. PICK r \in Row : Commit(b, r)
    BY <1>1, RowsOfWrites DEF Inv
  <2> QED BY <2>1, WriteKeepsIt
<1>2. ASSUME NEW k \in Calls, Reconcile(k) PROVE Inv'
  BY <1>2, AdvanceKeepsIt, ReadKeepsIt, FailReadKeepsIt, StartKeepsIt DEF Reconcile
<1>3. ASSUME BeginStopAll \/ StopAll PROVE Inv'
  BY <1>3, ShutdownKeepsIt, LockForStopKeepsIt, StopSlotKeepsIt DEF StopAll
<1>4. ASSUME NEW l \in loops, Work(l) PROVE Inv'
  BY <1>4, WorkKeepsIt
<1>5. CASE UNCHANGED vars
  BY <1>5, StutterKeepsIt
<1> QED BY <1>1, <1>2, <1>3, <1>4, <1>5 DEF Next

LEMMA InvHolds ==
    ASSUME Admissible
    PROVE  Spec => []Inv
<1>1. Init => Inv
  BY InitHolds
<1>2. Inv /\ [Next]_vars => Inv'
  BY StepKeepsIt
<1> QED BY <1>1, <1>2, PTL DEF Spec

LEMMA WhatInvSays ==
    ASSUME Inv
    PROVE  OneLoopPerPanel /\ RunningFlagIsTrue /\ BoardsConverge /\ NothingOutlivesStopAll
<1>1. BoardsConverge
  <2> SUFFICES ASSUME NEW b \in Boards \ unheard, ~root,
                      \A k \in Calls : calls[k].board = b => calls[k].at = "done"
               PROVE  Settled(b)
    BY DEF BoardsConverge, Settled, At
  <2> QED BY DEF Inv, Settling
<1>2. NothingOutlivesStopAll
  <2> SUFFICES ASSUME stopping.at = "done"
               PROVE  loops = {} /\ \A b \in Boards : view[b] = NoView
    BY DEF NothingOutlivesStopAll
  <2>1. \A b \in Boards : LoopsOf(b) = {} /\ view[b] = NoView
    BY DEF Inv, ShutDown, Still
  <2>2. \A l \in loops : calls[l.call].board \in Boards
    BY DEF Inv, TypeInv, Turns, Owned, Loop
  <2> QED BY <2>1, <2>2 DEF LoopsOf
<1> QED BY <1>1, <1>2 DEF Inv

\* Whatever edits, reconciles and shutdowns interleave, no two live loops check
\* one panel, and every loop of unit_loop is owned by its board's slot, or its
\* reconcile_slot has cancelled it and waits for it.
THEOREM PanelsHaveOneLoop ==
    ASSUME Admissible
    PROVE  Spec => []OneLoopPerPanel
<1>1. Inv => OneLoopPerPanel
  BY WhatInvSays
<1> QED BY <1>1, InvHolds, PTL

\* The running flag of a panel's buffer, which unit_loop sets and a guard
\* clears as the loop is dropped, is set exactly while a check is at work.
THEOREM FlagsAreTrue ==
    ASSUME Admissible
    PROVE  Spec => []RunningFlagIsTrue
<1>1. Inv => RunningFlagIsTrue
  BY WhatInvSays
<1> QED BY <1>1, InvHolds, PTL

\* As the comment of reconcile promises, a board converges to its row: with no
\* reconcile under way and none lost it runs the units the row says, or none.
THEOREM BoardsRunTheirRow ==
    ASSUME Admissible
    PROVE  Spec => []BoardsConverge
<1>1. Inv => BoardsConverge
  BY WhatInvSays
<1> QED BY <1>1, InvHolds, PTL

\* When stop_all has returned no loop is alive and no panel is shown, also of a
\* board whose slot appeared after stop_all listed the slots.
THEOREM ShutdownIsComplete ==
    ASSUME Admissible
    PROVE  Spec => []NothingOutlivesStopAll
<1>1. Inv => NothingOutlivesStopAll
  BY WhatInvSays
<1> QED BY <1>1, InvHolds, PTL

----------------------------------------------------------------------------
(***************************************************************************)
(* The types; no more checks are at work than there are permits.           *)
(***************************************************************************)
Permitted == IsFiniteSet(Checking) /\ Cardinality(Checking) <= MaxChecks

LEMMA NoMoreChecks ==
    ASSUME Admissible, Permitted, Checking' \subseteq Checking
    PROVE  Permitted'
<1>1. IsFiniteSet(Checking') /\ Cardinality(Checking') <= Cardinality(Checking)
  BY FS_Subset DEF Permitted
<1>2. Cardinality(Checking) \in Nat /\ Cardinality(Checking') \in Nat /\ MaxChecks \in Nat
  BY <1>1, FS_CardinalityType DEF Permitted, Admissible
<1> QED BY <1>1, <1>2 DEF Permitted

LEMMA OneMoreCheck ==
    ASSUME Admissible, Permitted, NEW l, Acquire(l)
    PROVE  Permitted'
<1> DEFINE new == [l EXCEPT !.at = "check"]
<1>1. Checking' \subseteq Checking \cup {new}
  BY DEF Acquire, MoveLoop, Checking
<1>2. /\ IsFiniteSet(Checking \cup {new})
      /\ Cardinality(Checking \cup {new})
           = IF new \in Checking THEN Cardinality(Checking) ELSE Cardinality(Checking) + 1
  <2> HIDE DEF new
  <2> QED BY FS_AddElement DEF Permitted
<1> DEFINE more == Checking \cup {new}
<1> HIDE DEF new
<1>3. IsFiniteSet(Checking') /\ Cardinality(Checking') <= Cardinality(more)
  <2>1. Checking' \in SUBSET more /\ IsFiniteSet(more)
    BY <1>1, <1>2
  <2> HIDE DEF more
  <2> QED BY <2>1, FS_Subset
<1>4. Cardinality(Checking) < MaxChecks
  BY DEF Acquire, PermitLeft
<1>5. /\ Cardinality(Checking) \in Nat /\ Cardinality(Checking') \in Nat
      /\ Cardinality(more) \in Nat /\ MaxChecks \in Nat
  BY <1>2, <1>3, FS_CardinalityType DEF Permitted, Admissible
<1> QED BY <1>2, <1>3, <1>4, <1>5 DEF Permitted

LEMMA PermitsHold ==
    ASSUME Admissible, Permitted, [Next]_vars
    PROVE  Permitted'
<1>1. CASE UNCHANGED loops
  <2>1. Checking' \subseteq Checking
    BY <1>1 DEF Checking
  <2> QED BY <2>1, NoMoreChecks
<1>2. ASSUME NEW k \in Calls, Start(k) PROVE Permitted'
  <2>1. Checking' \subseteq Checking
    BY <1>2 DEF Start, Checking
  <2> QED BY <2>1, NoMoreChecks
<1>3. ASSUME NEW l \in loops, Work(l) PROVE Permitted'
  <2>1. CASE Acquire(l)
    BY <2>1, OneMoreCheck
  <2>2. CASE BeginRound(l) \/ FinishRound(l) \/ NextRound(l)
    <3>1. PICK where \in {"permit", "sleep", "begin"} : MoveLoop(l, where)
      BY <2>2 DEF BeginRound, FinishRound, NextRound
    <3> DEFINE new == [l EXCEPT !.at = where]
    <3>2. new.at # "check" \/ new = l
      OBVIOUS
    <3>3. loops' = (loops \ {l}) \cup {new}
      BY <3>1 DEF MoveLoop
    <3> HIDE DEF new
    <3>4. Checking' \subseteq Checking
      BY <3>2, <3>3 DEF Checking
    <3> QED BY <3>4, NoMoreChecks
  <2>3. CASE Quit(l)
    <3>1. Checking' \subseteq Checking
      BY <2>3 DEF Quit, Checking
    <3> QED BY <3>1, NoMoreChecks
  <2> QED BY <1>3, <2>1, <2>2, <2>3 DEF Work
<1>4. CASE ~UNCHANGED loops
  <2>1. (\E k \in Calls : Start(k)) \/ (\E l \in loops : Work(l))
    BY <1>4 DEF Next, vars, Put, SetEnabled, Delete, Commit, Reconcile, EnterSlot, Lock, Read,
                FailRead, Waited, BeginStopAll, StopAll, ListSlots, EndStopAll, LockForStop, StopSlot
  <2> QED BY <1>2, <1>3, <2>1
<1> QED BY <1>1, <1>4

\* Tokens are reconciles', what is lost is a board's.
LEMMA NamesHold ==
    ASSUME Admissible, Inv, tokens \subseteq Calls, unheard \subseteq Boards, [Next]_vars
    PROVE  tokens' \subseteq Calls /\ unheard' \subseteq Boards
<1>1. \A b \in Boards : CancelToken(b) \subseteq Calls
  BY DEF CancelToken, Inv, TypeInv
<1>2. \A k \in Calls : calls[k].at = "read" => calls[k].board \in Boards
  BY DEF Inv, TypeInv, Turns
<1>3. ASSUME NEW k \in Calls, Reconcile(k) PROVE tokens' \subseteq Calls /\ unheard' \subseteq Boards
  <2>1. CASE Read(k) \/ FailRead(k)
    BY <1>1, <1>2, <2>1 DEF Read, FailRead, At
  <2>2. CASE ~(Read(k) \/ FailRead(k))
    BY <1>3, <2>2 DEF Reconcile, EnterSlot, Lock, Waited, Start, slotVars
  <2> QED BY <2>1, <2>2
<1>4. ASSUME NEW b \in Boards, Put(b) \/ SetEnabled(b) \/ Delete(b)
      PROVE  tokens' \subseteq Calls /\ unheard' \subseteq Boards
  BY <1>4 DEF Put, SetEnabled, Delete, Commit, slotVars
<1>5. ASSUME BeginStopAll \/ StopAll PROVE tokens' \subseteq Calls /\ unheard' \subseteq Boards
  BY <1>1, <1>5 DEF BeginStopAll, StopAll, ListSlots, EndStopAll, LockForStop, StopSlot, slotVars
<1>6. ASSUME NEW l \in loops, Work(l) PROVE tokens' \subseteq Calls /\ unheard' \subseteq Boards
  BY <1>6 DEF Work, BeginRound, Acquire, FinishRound, NextRound, Quit, UnchangedByLoop
<1>7. CASE UNCHANGED vars
  BY <1>7 DEF vars, slotVars
<1> QED BY <1>3, <1>4, <1>5, <1>6, <1>7 DEF Next

\* The state of the supervisor is of its type, and never are more checks at
\* work than its semaphore has permits (supervisor.rs).
THEOREM MonitorTypes ==
    ASSUME Admissible
    PROVE  Spec => []TypeOK
<1>1. Init => Permitted /\ tokens \subseteq Calls /\ unheard \subseteq Boards
  BY FS_EmptySet DEF Init, Permitted, Checking, Admissible
<1>2. Permitted /\ [Next]_vars => Permitted'
  BY PermitsHold
<1>3. Inv /\ tokens \subseteq Calls /\ unheard \subseteq Boards /\ [Next]_vars =>
        (tokens \subseteq Calls)' /\ (unheard \subseteq Boards)'
  BY NamesHold
<1>4. Inv /\ Permitted /\ tokens \subseteq Calls /\ unheard \subseteq Boards => TypeOK
  BY DEF Inv, TypeInv, Permitted, TypeOK
<1> QED BY <1>1, <1>2, <1>3, <1>4, InvHolds, PTL DEF Spec
=============================================================================
