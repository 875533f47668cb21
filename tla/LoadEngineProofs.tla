-------------------------- MODULE LoadEngineProofs --------------------------
(***************************************************************************)
(* The slots of the open loop and the rows of a unique slice, for every    *)
(* number of slots, VUs and rows, every schedule and any number of panics; *)
(* the measurements of MetricsPath and the rows of DataRows in the         *)
(* composed data plane.                                                    *)
(***************************************************************************)
EXTENDS MCDataPlane, TLAPS, FiniteSetTheorems, SequenceTheorems

Busy == {"top", "bind", "steps", "request"}

\* As much of TypeOK as slots and rows rest on.
TypeInv ==
    /\ loop \in {"closed", "open"} /\ rows \in RowCounts
    /\ task \in [Actors -> {"none", "ended"} \cup Busy]
    /\ free \in Seq(Actors)
    /\ cursor \in Nat
    /\ row \in [Actors -> Rows \cup {NoRow}]
    /\ used \in [Rows -> Nat]

\* The open loop has no ramp, so that nothing starts without a slot, and the
\* closed loop no arrivals.
Slots ==
    /\ SlotsAreConserved
    /\ loop = "open" => main # "spawn"
    /\ loop = "closed" => main \notin {"check", "act"}

\* The rows past the cursor are unused.
Unused ==
    /\ UniqueRowsAreUsedOnce
    /\ \A r \in Rows : r > cursor => used[r] = 0

----------------------------------------------------------------------------
\* A sequence of all elements of a finite set, each once.
LEMMA AllInSequence ==
    ASSUME NEW S, IsFiniteSet(S)
    PROVE  SetToSeq(S) \in Seq(S) /\ IsInjective(SetToSeq(S)) /\ ToSet(SetToSeq(S)) = S
<1>1. Cardinality(S) \in Nat /\ ExistsBijection(1..Cardinality(S), S)
  BY FS_CardinalityType
<1>2. PICK f \in Bijection(1..Cardinality(S), S) : TRUE
  BY <1>1 DEF ExistsBijection
<1>3. f \in [1..Cardinality(S) -> S] /\ IsInjective(f)
  BY <1>2 DEF Bijection, Injection, IsInjective
<1>4. SetToSeq(S) \in [1..Cardinality(S) -> S] /\ IsInjective(SetToSeq(S))
  BY <1>3 DEF SetToSeq
<1>5. SetToSeq(S) \in Seq(S)
  BY <1>1, <1>4
<1>6. SetToSeq(S) \in Injection(1..Cardinality(S), S)
  BY <1>4 DEF Injection, IsInjective
<1>7. Cardinality(1..Cardinality(S)) = Cardinality(S)
  BY <1>1, FS_Interval
<1>8. SetToSeq(S) \in Surjection(1..Cardinality(S), S)
  BY <1>6, <1>7, FS_Injection
<1>9. ToSet(SetToSeq(S)) = S
  BY <1>4, <1>8 DEF Surjection, ToSet
<1> QED BY <1>4, <1>5, <1>9

\* A slot that comes back was not among the free ones.
LEMMA SlotComesBack ==
    ASSUME NEW S, NEW s \in Seq(S), IsInjective(s), NEW a \in S, a \notin ToSet(s)
    PROVE  /\ Append(s, a) \in Seq(S) /\ IsInjective(Append(s, a))
           /\ ToSet(Append(s, a)) = ToSet(s) \cup {a}
<1> DEFINE t == Append(s, a)
<1>1. /\ t \in Seq(S) /\ Len(t) = Len(s) + 1 /\ Len(s) \in Nat
      /\ \A i \in 1..Len(s) : t[i] = s[i]
      /\ t[Len(s) + 1] = a
  BY AppendProperties
<1>2. DOMAIN s = 1..Len(s) /\ DOMAIN t = 1..(Len(s) + 1)
  BY <1>1
<1>3. \A i \in 1..Len(s) : s[i] # a
  BY <1>2 DEF ToSet
<1>4. ASSUME NEW i \in DOMAIN t, NEW j \in DOMAIN t, t[i] = t[j] PROVE i = j
  <2>1. CASE i \in 1..Len(s) /\ j \in 1..Len(s)
    BY <1>1, <1>2, <1>4, <2>1 DEF IsInjective
  <2>2. CASE i = Len(s) + 1 \/ j = Len(s) + 1
    BY <1>1, <1>2, <1>3, <1>4, <2>2
  <2> QED BY <1>1, <1>2, <2>1, <2>2
<1>5. ToSet(t) = ToSet(s) \cup {a}
  <2>1. ASSUME NEW x \in ToSet(t) PROVE x \in ToSet(s) \cup {a}
    BY <1>1, <1>2, <2>1 DEF ToSet
  <2>2. ASSUME NEW x \in ToSet(s) \cup {a} PROVE x \in ToSet(t)
    <3>1. CASE x = a
      BY <1>1, <1>2, <3>1 DEF ToSet
    <3>2. CASE x \in ToSet(s)
      BY <1>1, <1>2, <3>2 DEF ToSet
    <3> QED BY <2>2, <3>1, <3>2
  <2> QED BY <2>1, <2>2
<1> QED BY <1>1, <1>4, <1>5 DEF IsInjective

\* A slot that is taken is no longer among the free ones.
LEMMA SlotIsTaken ==
    ASSUME NEW S, NEW s \in Seq(S), s # <<>>, IsInjective(s)
    PROVE  /\ Head(s) \in S /\ Tail(s) \in Seq(S) /\ IsInjective(Tail(s))
           /\ ToSet(Tail(s)) = ToSet(s) \ {Head(s)}
           /\ Head(s) \in ToSet(s)
<1> DEFINE t == Tail(s)
<1>1. /\ Head(s) \in S /\ t \in Seq(S) /\ Len(t) = Len(s) - 1
      /\ \A i \in 1..Len(t) : t[i] = s[i + 1]
  BY HeadTailProperties
<1>2. /\ Len(s) \in Nat \ {0} /\ Head(s) = s[1]
      /\ DOMAIN s = 1..Len(s) /\ DOMAIN t = 1..(Len(s) - 1)
  BY <1>1
<1>3. ASSUME NEW i \in DOMAIN t, NEW j \in DOMAIN t, t[i] = t[j] PROVE i = j
  BY <1>1, <1>2, <1>3 DEF IsInjective
<1>4. ASSUME NEW x \in ToSet(t) PROVE x \in ToSet(s) \ {Head(s)}
  <2>1. PICK i \in DOMAIN t : x = t[i]
    BY <1>4 DEF ToSet
  <2>2. x = s[i + 1] /\ i + 1 \in DOMAIN s /\ i + 1 # 1 /\ 1 \in DOMAIN s
    BY <1>1, <1>2, <2>1
  <2> QED BY <1>2, <2>2 DEF ToSet, IsInjective
<1>5. ASSUME NEW x \in ToSet(s) \ {Head(s)} PROVE x \in ToSet(t)
  <2>1. PICK i \in DOMAIN s : x = s[i]
    BY <1>5 DEF ToSet
  <2>2. i - 1 \in DOMAIN t /\ t[i - 1] = x
    BY <1>1, <1>2, <1>5, <2>1
  <2> QED BY <2>2 DEF ToSet
<1>6. Head(s) \in ToSet(s)
  BY <1>2 DEF ToSet
<1> QED BY <1>1, <1>3, <1>4, <1>5, <1>6 DEF IsInjective

----------------------------------------------------------------------------
LEMMA RowsAreNumbers ==
    ASSUME Admissible
    PROVE  MaxRow \in Nat /\ \A n \in RowCounts : n <= MaxRow
BY DEF Admissible, MaxRow

LEMMA InitKeepsIt ==
    ASSUME Admissible, Init
    PROVE  TypeInv /\ Slots /\ Unused
<1>1. Running = {}
  BY DEF Init, Running
<1>2. free \in Seq(Actors) /\ (loop = "open" => IsInjective(free) /\ ToSet(free) = Actors)
  <2>1. /\ SetToSeq(Actors) \in Seq(Actors) /\ IsInjective(SetToSeq(Actors))
        /\ ToSet(SetToSeq(Actors)) = Actors
    BY AllInSequence DEF Admissible
  <2>2. CASE loop = "closed" /\ free = <<>>
    BY <2>2
  <2>3. CASE loop = "open" /\ free = SetToSeq(Actors)
    BY <2>1, <2>3
  <2> QED BY <2>2, <2>3 DEF Init
<1>3. TypeInv
  BY <1>2 DEF Init, TypeInv
<1>4. Slots
  BY <1>1, <1>2 DEF Init, Slots, SlotsAreConserved
<1>5. Unused
  BY DEF Init, Unused, UniqueRowsAreUsedOnce
<1> QED BY <1>3, <1>4, <1>5

----------------------------------------------------------------------------
\* A task that goes on keeps its slot; the one that has a row keeps it, or
\* needs none where it goes.
LEMMA MoveKeepsIt ==
    ASSUME Admissible, TypeInv, Slots, Unused, NEW a \in Actors, task[a] \in Busy,
           NEW to \in Busy, task' = [task EXCEPT ![a] = to],
           NEW held \in Rows \cup {NoRow}, row' = [row EXCEPT ![a] = held],
           to \in {"steps", "request"} /\ rows > 0 => held # NoRow,
           UNCHANGED <<loop, rows, main, free, cursor, used>>
    PROVE  TypeInv' /\ Slots' /\ Unused'
<1>1. Running' = Running
  BY DEF Running, TypeInv, Busy
<1>2. TypeInv'
  BY DEF TypeInv, Busy, Rows
<1>3. Slots'
  BY <1>1 DEF Slots, SlotsAreConserved
<1>4. Unused'
  <2>1. \A r \in Rows : used'[r] <= 1 /\ (r > cursor' => used'[r] = 0)
    BY DEF Unused, UniqueRowsAreUsedOnce
  <2>2. ASSUME NEW b \in Actors, task'[b] \in {"steps", "request"}, rows' > 0
        PROVE  row'[b] # NoRow
    <3>1. CASE b = a
      BY <2>2, <3>1 DEF TypeInv
    <3>2. CASE b # a
      BY <2>2, <3>2 DEF Unused, UniqueRowsAreUsedOnce, TypeInv
    <3> QED BY <3>1, <3>2
  <2> QED BY <2>1, <2>2 DEF Unused, UniqueRowsAreUsedOnce, Rows
<1> QED BY <1>2, <1>3, <1>4

\* A task that ends, in whatever way, gives its slot back.
LEMMA EndKeepsIt ==
    ASSUME Admissible, TypeInv, Slots, Unused, NEW a \in Actors, task[a] \in Busy,
           NEW how, Ends(a, how), UNCHANGED <<loop, rows, main, used>>,
           cursor' \in Nat, cursor' >= cursor
    PROVE  TypeInv' /\ Slots' /\ Unused'
<1>1. Running' = Running \ {a} /\ a \in Running
  BY DEF Running, TypeInv, Busy, Ends
<1>2. free' \in Seq(Actors)
  BY DEF Ends, GivesBack, TypeInv
<1>3. TypeInv'
  BY <1>2 DEF TypeInv, Busy, Rows, Ends
<1>4. ASSUME loop = "open" PROVE IsInjective(free') /\ ToSet(free') = Actors \ Running'
  <2>1. free' = Append(free, a) /\ free \in Seq(Actors)
    BY <1>4 DEF Ends, GivesBack, TypeInv
  <2>2. IsInjective(free) /\ ToSet(free) = Actors \ Running
    BY <1>4 DEF Slots, SlotsAreConserved
  <2>3. IsInjective(free') /\ ToSet(free') = ToSet(free) \cup {a}
    BY <1>1, <2>1, <2>2, SlotComesBack
  <2> QED BY <1>1, <2>2, <2>3
<1>5. Slots'
  BY <1>4 DEF Slots, SlotsAreConserved
<1>6. Unused'
  <2>1. \A r \in Rows : used'[r] <= 1 /\ (r > cursor' => used'[r] = 0)
    BY DEF Unused, UniqueRowsAreUsedOnce, TypeInv, Rows
  <2>2. \A b \in Actors : task'[b] \in {"steps", "request"} /\ rows' > 0 => row'[b] # NoRow
    BY DEF Ends, Unused, UniqueRowsAreUsedOnce, TypeInv
  <2> QED BY <2>1, <2>2 DEF Unused, UniqueRowsAreUsedOnce, Rows
<1> QED BY <1>3, <1>5, <1>6

\* The cursor gives a row to one task, and is past it then.
LEMMA BindKeepsIt ==
    ASSUME Admissible, TypeInv, Slots, Unused, NEW a \in Actors, Bind(a)
    PROVE  TypeInv' /\ Slots' /\ Unused'
<1>1. task[a] = "bind" /\ "bind" \in Busy /\ UNCHANGED <<loop, rows, main>>
  BY DEF Bind, Busy, mainVars, inputVars
<1>2. CASE rows = 0 /\ Goes(a, "steps") /\ UNCHANGED <<cursor, used, exhausted>>
  <2>1. row' = [row EXCEPT ![a] = row[a]] /\ row[a] \in Rows \cup {NoRow}
    BY <1>2 DEF Goes, TypeInv
  <2>2. ~(rows > 0) /\ "steps" \in Busy
    BY <1>2 DEF Busy
  <2>3. task' = [task EXCEPT ![a] = "steps"] /\ UNCHANGED <<free, cursor, used>>
    BY <1>2 DEF Goes
  <2> QED BY <1>1, <2>1, <2>2, <2>3, MoveKeepsIt
<1>3. CASE SelectIndex = NoRow /\ Ends(a, "ok") /\ cursor' = cursor + 1 /\ used' = used
  <2>1. cursor' \in Nat /\ cursor' >= cursor
    BY <1>3 DEF TypeInv
  <2> QED BY <1>1, <1>3, <2>1, EndKeepsIt
<1>4. CASE /\ rows > 0 /\ cursor' = cursor + 1 /\ SelectIndex # NoRow
           /\ task' = [task EXCEPT ![a] = "steps"]
           /\ row' = [row EXCEPT ![a] = SelectIndex]
           /\ used' = [used EXCEPT ![SelectIndex] = @ + 1]
           /\ UNCHANGED free
  <2>1. cursor \in Nat /\ rows \in Nat /\ MaxRow \in Nat /\ rows <= MaxRow
    BY RowsAreNumbers DEF TypeInv, Admissible
  <2>2. SelectIndex = cursor + 1 /\ cursor + 1 \in Rows /\ cursor + 1 # NoRow
    BY <1>4, <2>1 DEF SelectIndex, Rows, NoRow
  <2>3. used[cursor + 1] = 0
    BY <2>1, <2>2 DEF Unused
  <2>4. Running' = Running
    BY <1>1, <1>4 DEF Running, TypeInv, Busy
  <2>5. used' \in [Rows -> Nat]
    BY <1>4, <2>2 DEF TypeInv, Rows
  <2>6. TypeInv'
    BY <1>1, <1>4, <2>1, <2>2, <2>5 DEF TypeInv, Busy, Rows
  <2>7. Slots'
    BY <1>1, <1>4, <2>4 DEF Slots, SlotsAreConserved
  <2>8. \A r \in Rows : used'[r] <= 1 /\ (r > cursor' => used'[r] = 0)
    BY <1>4, <2>1, <2>2, <2>3 DEF Unused, UniqueRowsAreUsedOnce, TypeInv, Rows
  <2>9. \A b \in Actors : task'[b] \in {"steps", "request"} /\ rows' > 0 => row'[b] # NoRow
    BY <1>1, <1>4, <2>2 DEF Unused, UniqueRowsAreUsedOnce, TypeInv
  <2> QED BY <2>6, <2>7, <2>8, <2>9 DEF Unused, UniqueRowsAreUsedOnce, Rows
<1> QED BY <1>2, <1>3, <1>4 DEF Bind

----------------------------------------------------------------------------
LEMMA TaskKeepsIt ==
    ASSUME Admissible, TypeInv, Slots, Unused, NEW a \in Actors, TaskMoves(a) \/ Panic(a)
    PROVE  TypeInv' /\ Slots' /\ Unused'
<1>1. row[a] \in Rows \cup {NoRow} /\ row = [row EXCEPT ![a] = row[a]]
  BY DEF TypeInv
<1>2. CASE Bind(a)
  BY <1>2, BindKeepsIt
<1>3. ASSUME ~Bind(a)
      PROVE  /\ task[a] \in Busy
             /\ UNCHANGED <<loop, rows, main, used, cursor>>
             /\ cursor' \in Nat /\ cursor' >= cursor
  BY <1>3 DEF TaskMoves, Top, Step, Return, Panic, Running, Busy, TypeInv, mainVars, inputVars
<1>4. CASE \E how \in {"ok", "aborted", "error", "panic"} : Ends(a, how)
  BY <1>2, <1>3, <1>4, EndKeepsIt
<1>5. CASE task[a] \in {"steps", "request"} /\ \E to \in {"steps", "request"} : Goes(a, to)
  <2>1. PICK to \in {"steps", "request"} : Goes(a, to)
    BY <1>5
  <2>2. rows > 0 => row[a] # NoRow
    BY <1>5 DEF Unused, UniqueRowsAreUsedOnce
  <2> QED BY <1>1, <1>2, <1>3, <2>1, <2>2, MoveKeepsIt DEF Goes, Busy
<1>6. CASE task[a] = "top" /\ Goes(a, "bind")
  BY <1>1, <1>2, <1>3, <1>6, MoveKeepsIt DEF Goes, Busy
<1>7. CASE /\ task' = [task EXCEPT ![a] = "top"] /\ row' = [row EXCEPT ![a] = NoRow]
           /\ free' = free
  BY <1>2, <1>3, <1>7, MoveKeepsIt DEF Busy
<1> QED BY <1>2, <1>4, <1>5, <1>6, <1>7 DEF TaskMoves, Top, Step, Return, Panic

\* An arrival takes its slot from the free ones.
LEMMA ActKeepsIt ==
    ASSUME Admissible, TypeInv, Slots, Unused, Act, loop = "open"
    PROVE  TypeInv' /\ Slots' /\ Unused'
<1>1. UNCHANGED <<loop, rows, cursor, row, used>> /\ main' = "check"
  BY DEF Act, inputVars, rowVars
<1>2. CASE free = <<>> /\ UNCHANGED <<task, free>>
  BY <1>1, <1>2 DEF TypeInv, Slots, SlotsAreConserved, Unused, UniqueRowsAreUsedOnce, Running
<1>3. CASE free # <<>> /\ task' = [task EXCEPT ![Head(free)] = "bind"] /\ free' = Tail(free)
  <2>1. IsInjective(free) /\ ToSet(free) = Actors \ Running /\ free \in Seq(Actors)
    BY DEF Slots, SlotsAreConserved, TypeInv
  <2>2. /\ Head(free) \in Actors /\ free' \in Seq(Actors) /\ IsInjective(free')
        /\ ToSet(free') = ToSet(free) \ {Head(free)}
    BY <1>3, <2>1, SlotIsTaken
  <2>3. Running' = Running \cup {Head(free)}
    BY <1>3, <2>2 DEF Running, TypeInv
  <2>4. TypeInv'
    BY <1>1, <1>3, <2>2 DEF TypeInv, Busy, Rows
  <2>5. Slots'
    BY <1>1, <2>1, <2>2, <2>3 DEF Slots, SlotsAreConserved
  <2>6. Unused'
    BY <1>1, <1>3, <2>2 DEF Unused, UniqueRowsAreUsedOnce, TypeInv, Rows
  <2> QED BY <2>4, <2>5, <2>6
<1> QED BY <1>2, <1>3 DEF Act

\* The closed loop's VUs start without a slot.
LEMMA SpawnKeepsIt ==
    ASSUME Admissible, TypeInv, Slots, Unused, SpawnVus
    PROVE  TypeInv' /\ Slots' /\ Unused'
<1>1. loop = "closed" /\ main = "spawn"
  BY DEF SpawnVus, Slots, TypeInv
<1>2. UNCHANGED <<loop, rows, main, free, cursor, row, used>>
  BY DEF SpawnVus, inputVars, rowVars
<1>3. PICK last : task' = [a \in Actors |-> IF a \in (attempts + 1)..last THEN "top" ELSE task[a]]
  BY DEF SpawnVus
<1>4. TypeInv'
  BY <1>2, <1>3 DEF TypeInv, Busy, Rows
<1>5. Slots'
  BY <1>1, <1>2 DEF Slots, SlotsAreConserved
<1>6. Unused'
  <2>1. \A a \in Actors : task'[a] \in {"steps", "request"} => task[a] \in {"steps", "request"}
    BY <1>3
  <2> QED BY <1>2, <2>1 DEF Unused, UniqueRowsAreUsedOnce, Rows
<1> QED BY <1>4, <1>5, <1>6

LEMMA StepKeepsIt ==
    ASSUME Admissible, TypeInv, Slots, Unused, [Next]_vars
    PROVE  TypeInv' /\ Slots' /\ Unused'
<1>1. CASE \E a \in Actors : TaskMoves(a) \/ Panic(a)
  BY <1>1, TaskKeepsIt
<1>2. CASE SpawnVus
  BY <1>2, SpawnKeepsIt
<1>3. CASE Act
  <2>1. loop = "open"
    BY <1>3 DEF Act, Slots, TypeInv
  <2> QED BY <1>3, <2>1, ActKeepsIt
<1>4. CASE SpawnEnds \/ Check \/ Join \/ Tick \/ Cancel \/ UNCHANGED vars
  <2>1. UNCHANGED <<loop, rows, task, free, cursor, row, used>>
    BY <1>4 DEF SpawnEnds, Check, Join, Tick, Cancel, vars, inputVars, rowVars
  <2>2. Running' = Running
    BY <2>1 DEF Running
  <2>3. /\ loop = "open" => main' # "spawn"
        /\ loop = "closed" => main' \notin {"check", "act"}
    BY <1>4 DEF SpawnEnds, Check, Join, Tick, Cancel, vars, Slots
  <2> QED BY <2>1, <2>2, <2>3 DEF TypeInv, Slots, SlotsAreConserved, Unused,
                                  UniqueRowsAreUsedOnce, Rows
<1> QED BY <1>1, <1>2, <1>3, <1>4 DEF Next, MainMoves

----------------------------------------------------------------------------
\* However arrivals, VUs, panics, errors and the cancellation interleave, the
\* free slots and those at work are all slots, each once (SlotGuard in
\* engine/runner.rs), and no row of a unique slice is given to two iterations
\* (engine/dataset.rs).
THEOREM SlotsAndRowsAreHeld ==
    ASSUME Admissible
    PROVE  Spec => []SlotsAndRowsAreHeldOnce
<1> DEFINE Inv == TypeInv /\ Slots /\ Unused
<1>1. Init => Inv
  BY InitKeepsIt
<1>2. Inv /\ [Next]_vars => Inv'
  BY StepKeepsIt
<1>3. Inv => SlotsAndRowsAreHeldOnce
  BY DEF Slots, Unused, SlotsAndRowsAreHeldOnce
<1> QED BY <1>1, <1>2, <1>3, PTL DEF Spec

----------------------------------------------------------------------------
(***************************************************************************)
(* The verdict.                                                            *)
(***************************************************************************)

\* Tasks are aborted by the token alone, and nothing runs or is given a
\* verdict a second time once the main task has returned.
Verdicts ==
    /\ outcome \in [Actors -> {"none", "ok", "aborted", "error", "panic"}]
    /\ ~cancel => \A a \in Actors : outcome[a] # "aborted"
    /\ result # "none" => main = "over"
    /\ main = "over" => Running = {}
    /\ VerdictIsTrue

\* As many failures as VUs are the failures of all VUs.
LEMMA AllFailedIsAll ==
    ASSUME Admissible, AllFailed
    PROVE  \A a \in Actors : outcome[a] \notin {"none", "ok"}
<1> DEFINE F == {a \in Actors : outcome[a] \notin {"none", "ok"}}
<1>1. /\ F \subseteq Actors /\ IsFiniteSet(Actors)
      /\ Cardinality(F) >= Cardinality(Actors)
  BY DEF Admissible, AllFailed, N
<1>2. /\ Cardinality(F) <= Cardinality(Actors) /\ Cardinality(Actors) \in Nat
      /\ Cardinality(F) \in Nat
      /\ Cardinality(Actors) = Cardinality(F) => Actors = F
  BY <1>1, FS_Subset, FS_CardinalityType
<1>3. Actors = F
  BY <1>1, <1>2
<1> QED BY <1>3

\* What a task's step does to the outcomes.
LEMMA TaskEndsItself ==
    ASSUME NEW a \in Actors, TaskMoves(a) \/ Panic(a)
    PROVE  /\ a \in Running
           /\ UNCHANGED <<cancel, main, result>>
           /\ \/ outcome' = outcome
              \/ \E how \in {"ok", "error", "panic"} : outcome' = [outcome EXCEPT ![a] = how]
              \/ cancel /\ outcome' = [outcome EXCEPT ![a] = "aborted"]
<1> USE DEF mainVars, Ends, Goes, Running
<1>1. CASE Top(a)
  BY <1>1 DEF Top
<1>2. CASE Bind(a)
  BY <1>2 DEF Bind
<1>3. CASE Step(a)
  BY <1>3 DEF Step
<1>4. CASE Return(a)
  BY <1>4 DEF Return
<1>5. CASE Panic(a)
  BY <1>5 DEF Panic
<1> QED BY <1>1, <1>2, <1>3, <1>4, <1>5 DEF TaskMoves

LEMMA VerdictsAtFirst == Init => Verdicts
BY DEF Init, Verdicts, VerdictIsTrue

LEMMA StepKeepsVerdicts ==
    ASSUME Admissible, Verdicts, [Next]_vars
    PROVE  Verdicts'
<1>1. ASSUME NEW a \in Actors, TaskMoves(a) \/ Panic(a) PROVE Verdicts'
  <2>1. a \in Running /\ UNCHANGED <<cancel, main, result>>
    BY <1>1, TaskEndsItself
  <2>2. main # "over" /\ result = "none"
    BY <2>1 DEF Verdicts
  <2>3. outcome' \in [Actors -> {"none", "ok", "aborted", "error", "panic"}]
    BY <1>1, TaskEndsItself DEF Verdicts
  <2>4. ~cancel => \A b \in Actors : outcome'[b] # "aborted"
    BY <1>1, TaskEndsItself DEF Verdicts
  <2> QED BY <2>1, <2>2, <2>3, <2>4 DEF Verdicts, VerdictIsTrue
<1>2. CASE Join
  <2>1. UNCHANGED <<cancel, outcome, task>> /\ main' = "over" /\ Running = {} /\ result' = Verdict
    BY <1>2 DEF Join
  <2>2. Running' = {}
    BY <2>1 DEF Running
  <2>3. VerdictIsTrue'
    <3>1. CASE cancel
      BY <2>1, <3>1 DEF Verdict, VerdictIsTrue
    <3>2. CASE ~cancel /\ AllFailed
      BY <2>1, <3>2, AllFailedIsAll DEF Verdict, VerdictIsTrue, Verdicts
    <3>3. CASE ~cancel /\ ~AllFailed
      BY <2>1, <3>3 DEF Verdict, VerdictIsTrue, Verdicts
    <3> QED BY <3>1, <3>2, <3>3
  <2> QED BY <2>1, <2>2, <2>3 DEF Verdicts
<1>3. CASE Cancel \/ Tick \/ UNCHANGED vars
  <2>1. UNCHANGED <<outcome, task, main, result>> /\ (~cancel' => ~cancel)
    BY <1>3 DEF Cancel, Tick, vars
  <2>2. Running' = Running
    BY <2>1 DEF Running
  <2> QED BY <2>1, <2>2 DEF Verdicts, VerdictIsTrue
<1>4. CASE SpawnVus \/ SpawnEnds \/ Check \/ Act
  <2>1. UNCHANGED <<outcome, cancel, result>> /\ main # "over" /\ main' # "over"
    BY <1>4 DEF SpawnVus, SpawnEnds, Check, Act
  <2> QED BY <2>1 DEF Verdicts, VerdictIsTrue
<1> QED BY <1>1, <1>2, <1>3, <1>4 DEF Next, MainMoves

\* run_scenario returns AllVusFailed only when every VU of the plan failed or
\* panicked by itself, and Ok only when the token cut no iteration short,
\* though it may be cancelled at any time and VUs end in any order.
THEOREM TheVerdictIsTrue ==
    ASSUME Admissible
    PROVE  Spec => []VerdictIsTrue
<1>1. Verdicts /\ [Next]_vars => Verdicts'
  BY StepKeepsVerdicts
<1>2. Verdicts => VerdictIsTrue
  BY DEF Verdicts
<1> QED BY VerdictsAtFirst, <1>1, <1>2, PTL DEF Spec

----------------------------------------------------------------------------
\* A step of the data plane is one of the metrics path or leaves it alone.
LEMMA StepOfTheMetrics ==
    [MCNext]_<<part, vars, metricsVars, rowsVars>> => [Metrics!Next]_(Metrics!vars)
<1> SUFFICES ASSUME [MCNext]_<<part, vars, metricsVars, rowsVars>>, metricsVars' # metricsVars
             PROVE  Metrics!Next
  BY DEF Metrics!vars, metricsVars, Metrics!engineVars, Metrics!flusherVars,
         Metrics!sendVars, Metrics!forwarderVars, Metrics!linkVars, Metrics!storeVars
<1> QED BY DEF MCNext, MetricsNext, EngineNext, DataNext

(***************************************************************************)
(* In the data plane as the runs compose it, what a completed run measured *)
(* is what the database has of it: the batches that the flusher and the    *)
(* final flush of runner.rs send, the forwarder of worker/lib.rs forwards  *)
(* and ingest_metrics inserts hold every measurement once.                 *)
(***************************************************************************)
THEOREM MeasurementsArrive == MCSpec => []CompletedRunIsFullyStored
<1>1. Metrics!Spec => []Metrics!CompletedRunIsFullyStored
  BY Metrics!NoMeasurementIsLost, MetricsAssumption
<1>2. MCInit => Metrics!Init
  BY DEF MCInit
<1> QED BY <1>1, <1>2, StepOfTheMetrics, PTL
        DEF MCSpec, Metrics!Spec, CompletedRunIsFullyStored

----------------------------------------------------------------------------
\* Natural numbers are well-ordered.
LEMMA Least ==
    ASSUME NEW T \in SUBSET Nat, T # {}
    PROVE  \E n \in T : \A m \in T : n <= m
<1>1. \E n \in T : \A m \in T : ~(<<m, n>> \in OpToRel(<, Nat))
  BY NatLessThanWellFounded, WFMin
<1>2. PICK n \in T : \A m \in T : ~(<<m, n>> \in OpToRel(<, Nat))
  BY <1>1
<1>3. \A m \in T : ~(m < n)
  BY <1>2 DEF OpToRel
<1> QED BY <1>3

\* Induction, in terms of a set.
LEMMA Inductive ==
    ASSUME NEW T \in SUBSET Nat, 0 \in T, \A n \in Nat : n \in T => n + 1 \in T
    PROVE  T = Nat
<1> SUFFICES ASSUME Nat \ T # {} PROVE FALSE
  OBVIOUS
<1>1. PICK n \in Nat \ T : \A m \in Nat \ T : n <= m
  BY Least
<1>2. n # 0 /\ n - 1 \in Nat /\ n - 1 \in T
  BY <1>1
<1>3. (n - 1) + 1 \in T
  BY <1>2
<1> QED BY <1>1, <1>3

Chosen(s) == CHOOSE x \in s : TRUE
Sums(f, g, s) == g[s] = IF s = {} THEN 0 ELSE f[Chosen(s)] + g[s \ {Chosen(s)}]

IsSum(g, f, S) ==
    g = [s \in SUBSET S |-> IF s = {} THEN 0 ELSE f[Chosen(s)] + g[s \ {Chosen(s)}]]

\* A part of a finite set, less the element chosen of it, is a smaller part.
LEMMA Smaller ==
    ASSUME NEW S, IsFiniteSet(S), NEW s \in SUBSET S, s # {}
    PROVE  /\ Chosen(s) \in s /\ s \ {Chosen(s)} \in SUBSET S
           /\ IsFiniteSet(s) /\ Cardinality(s) \in Nat
           /\ Cardinality(s \ {Chosen(s)}) = Cardinality(s) - 1
           /\ Cardinality(s) # 0 /\ IsFiniteSet(s \ {Chosen(s)})
<1>1. Chosen(s) \in s /\ s \ {Chosen(s)} \in SUBSET S
  BY DEF Chosen
<1>2. IsFiniteSet(s)
  BY FS_Subset
<1>3. /\ Cardinality(s \ {Chosen(s)}) = Cardinality(s) - 1
      /\ IsFiniteSet(s \ {Chosen(s)})
  BY <1>1, <1>2, FS_RemoveElement
<1>4. Cardinality(s) \in Nat /\ Cardinality(s) # 0
  BY <1>2, FS_CardinalityType, FS_EmptySet
<1> QED BY <1>1, <1>2, <1>3, <1>4

\* The sums of all parts of a finite set.
LEMMA SumsExist ==
    ASSUME NEW f, NEW S, IsFiniteSet(S)
    PROVE  \E g : IsSum(g, f, S)
<1> DEFINE T == {n \in Nat : \E g : \A s \in SUBSET S : Cardinality(s) <= n => Sums(f, g, s)}
<1>1. 0 \in T
  <2>1. \A s \in SUBSET S : Cardinality(s) <= 0 => s = {}
    <3> SUFFICES ASSUME NEW s \in SUBSET S, Cardinality(s) <= 0, s # {} PROVE FALSE
      OBVIOUS
    <3>1. Cardinality(s) \in Nat /\ Cardinality(s) # 0
      BY Smaller, Zenon
    <3> QED BY <3>1
  <2>2. \A s \in SUBSET S : Cardinality(s) <= 0 => Sums(f, [s1 \in SUBSET S |-> 0], s)
    BY <2>1 DEF Sums
  <2> QED BY <2>2
<1>2. ASSUME NEW n \in Nat, n \in T PROVE n + 1 \in T
  <2>1. PICK g : \A s \in SUBSET S : Cardinality(s) <= n => Sums(f, g, s)
    BY <1>2
  <2> DEFINE h == [s \in SUBSET S |-> IF s = {} THEN 0 ELSE f[Chosen(s)] + g[s \ {Chosen(s)}]]
  <2>2. ASSUME NEW s \in SUBSET S, Cardinality(s) <= n PROVE h[s] = g[s]
    BY <2>1, <2>2 DEF Sums
  <2>3. ASSUME NEW s \in SUBSET S, Cardinality(s) <= n + 1 PROVE Sums(f, h, s)
    <3>1. CASE s = {}
      BY <3>1 DEF Sums
    <3>2. CASE s # {}
      <4>1. s \ {Chosen(s)} \in SUBSET S /\ Cardinality(s \ {Chosen(s)}) <= n
        <5>1. /\ s \ {Chosen(s)} \in SUBSET S
              /\ Cardinality(s \ {Chosen(s)}) = Cardinality(s) - 1
              /\ Cardinality(s) \in Nat
          BY <3>2, Smaller, Zenon
        <5> QED BY <2>3, <5>1
      <4>2. h[s \ {Chosen(s)}] = g[s \ {Chosen(s)}]
        BY <4>1, <2>2
      <4>3. h[s] = f[Chosen(s)] + g[s \ {Chosen(s)}]
        BY <3>2
      <4> HIDE DEF h
      <4> QED BY <3>2, <4>2, <4>3 DEF Sums
    <3> QED BY <3>1, <3>2
  <2> HIDE DEF h
  <2> QED BY <2>3
<1>3. T = Nat
  <2> HIDE DEF T
  <2>1. T \in SUBSET Nat
    BY DEF T
  <2> QED BY <1>1, <1>2, <2>1, Inductive
<1>4. Cardinality(S) \in T
  BY <1>3, FS_CardinalityType
<1>5. PICK g : \A s \in SUBSET S : Cardinality(s) <= Cardinality(S) => Sums(f, g, s)
  BY <1>4
<1>6. \A s \in SUBSET S : Sums(f, g, s)
  BY <1>5, FS_Subset
<1> DEFINE h == [s \in SUBSET S |-> g[s]]
<1>7. \A s \in SUBSET S : s # {} => s \ {Chosen(s)} \in SUBSET S
  OBVIOUS
<1>8. h = [s \in SUBSET S |-> IF s = {} THEN 0 ELSE f[Chosen(s)] + h[s \ {Chosen(s)}]]
  BY <1>6, <1>7 DEF Sums
<1> HIDE DEF h
<1> QED BY <1>8 DEF IsSum

\* SumFunctionOnSet, one chosen element after the other.
LEMMA SumIs ==
    ASSUME NEW f, NEW S, IsFiniteSet(S)
    PROVE  \E g : /\ SumFunctionOnSet(f, S) = g[S]
                  /\ \A s \in SUBSET S : Sums(f, g, s)
<1> DEFINE g == CHOOSE h : IsSum(h, f, S)
<1>1. SumFunctionOnSet(f, S) = g[S]
  BY DEF SumFunctionOnSet, FoldFunctionOnSet, MapThenFoldSet, Chosen, IsSum
<1>2. IsSum(g, f, S)
  BY SumsExist, Zenon
<1> HIDE DEF g
<1>3. \A s \in SUBSET S : Sums(f, g, s)
  BY <1>2 DEF Sums, IsSum
<1> QED BY <1>1, <1>3


----------------------------------------------------------------------------
(***************************************************************************)
(* The rows of the datasets.  A bucket of a worker is always the beginning *)
(* of its slice; until the engine starts, the batches on their way follow  *)
(* it without a gap, to where the handler stands as long as the connection *)
(* holds.  So the count over all bindings is reached with all of each.     *)
(***************************************************************************)

\* The rows promised to worker w of binding b: how many, and those before it.
Count(w, b)  == Data!SliceOf(w, b).count
Offset(w, b) == Data!SliceOf(w, b).offset

\* The k rows that follow the first n.
Stretch(w, b, n, k) == [i \in 1..k |-> Offset(w, b) + n + i]

\* A message that a worker with n[b] rows of each binding b takes, to have
\* next[b] then: a batch is the next stretch of its binding.
Continues(w, m, n, next) ==
    \/ m.kind # "batch" /\ next = n
    \/ \E b \in Data!BindingIds, k \in Nat :
        /\ m = Data!Rows(b, Stretch(w, b, n[b], k))
        /\ next = [n EXCEPT ![b] = @ + k]

\* The messages q on their way, taken one after the other, lead from p[0] rows
\* to p[Len(q)], and never past the slice.
Flow(w, q, p) ==
    /\ p \in [0..Len(q) -> [Data!BindingIds -> Nat]]
    /\ \A i \in 1..Len(q) : Continues(w, q[i], p[i - 1], p[i])
    /\ \A i \in 0..Len(q), b \in Data!BindingIds : p[i][b] <= Count(w, b)

Loaded(w) == [b \in Data!BindingIds |-> Len(bucket[w][b])]

\* What stream_dataset has sent.
Given(w) ==
    [b \in Data!BindingIds |->
        IF b < at[w] THEN Count(w, b) ELSE IF b = at[w] THEN sent[w] ELSE 0]

Streaming == {"none", "assign", "row", "stream", "send"}

\* Until its engine starts, what a worker has and what is on its way to it are
\* the slice's rows in their order, up to those its handler has sent if no
\* error or break came in between.
RowsInFlight(w) ==
    worker[w] \in {"waiting", "loading"} =>
        \E p : /\ Flow(w, chan[w], p) /\ p[0] = Loaded(w)
               /\ conn[w] /\ handler[w] \in Streaming => p[Len(chan[w])] = Given(w)

\* What the worker has is the beginning of its slice, and all when it runs.
RowsLoaded(w) ==
    \A b \in Data!BindingIds :
        /\ Len(bucket[w][b]) \in 0..Count(w, b)
        /\ bucket[w][b] = Stretch(w, b, 0, Len(bucket[w][b]))
        /\ worker[w] = "running" => Len(bucket[w][b]) = Count(w, b)

\* The handler begins with the first binding, and sends what it has not sent.
HandlerReads(w) ==
    /\ sent[w] <= Count(w, at[w])
    /\ handler[w] \in {"none", "assign", "row"} => at[w] = 1 /\ sent[w] = 0
    /\ handler[w] = "send" =>
        \E k \in Nat \ {0} :
            /\ fetched[w] = Stretch(w, at[w], sent[w], k)
            /\ sent[w] + k <= Count(w, at[w])

RowsArrive(w) == RowsInFlight(w) /\ RowsLoaded(w) /\ HandlerReads(w)
\* Numbers that are together as large as others, none of them larger than its
\* own, are those.
LEMMA SumsMatch ==
    ASSUME NEW S, IsFiniteSet(S), NEW x \in [S -> Nat], NEW y \in [S -> Nat],
           \A b \in S : x[b] <= y[b],
           SumFunctionOnSet(x, S) >= SumFunctionOnSet(y, S)
    PROVE  \A b \in S : x[b] = y[b]
<1>1. PICK g : SumFunctionOnSet(x, S) = g[S] /\ \A s \in SUBSET S : Sums(x, g, s)
  BY SumIs
<1>2. PICK h : SumFunctionOnSet(y, S) = h[S] /\ \A s \in SUBSET S : Sums(y, h, s)
  BY SumIs
<1> DEFINE Match(s) == /\ g[s] \in Nat /\ h[s] \in Nat /\ g[s] <= h[s]
                       /\ g[s] = h[s] => \A b \in s : x[b] = y[b]
           T == {n \in Nat : \A s \in SUBSET S : Cardinality(s) <= n => Match(s)}
<1>3. 0 \in T
  <2>1. ASSUME NEW s \in SUBSET S, Cardinality(s) <= 0 PROVE s = {}
    <3>1. s # {} => Cardinality(s) \in Nat /\ Cardinality(s) # 0
      BY Smaller, Zenon
    <3> QED BY <2>1, <3>1
  <2>2. {} \in SUBSET S /\ Sums(x, g, {}) /\ Sums(y, h, {})
    BY <1>1, <1>2
  <2>3. Match({})
    BY <2>2 DEF Sums
  <2> HIDE DEF Match
  <2> QED BY <2>1, <2>3
<1>4. ASSUME NEW n \in Nat, n \in T PROVE n + 1 \in T
  <2>1. ASSUME NEW s \in SUBSET S, Cardinality(s) <= n + 1 PROVE Match(s)
    <3>0. Sums(x, g, s) /\ Sums(y, h, s)
      BY <1>1, <1>2
    <3>1. CASE s = {}
      BY <3>0, <3>1 DEF Sums
    <3>2. CASE s # {}
      <4> DEFINE c == Chosen(s)
      <4>1. /\ c \in s /\ s \ {c} \in SUBSET S
            /\ Cardinality(s \ {c}) = Cardinality(s) - 1 /\ Cardinality(s) \in Nat
        BY <3>2, Smaller, Zenon
      <4>2. g[s] = x[c] + g[s \ {c}] /\ h[s] = y[c] + h[s \ {c}]
        BY <3>0, <3>2 DEF Sums
      <4> HIDE DEF c
      <4>3. Match(s \ {c})
        <5>1. Cardinality(s \ {c}) <= n
          BY <2>1, <4>1
        <5> HIDE DEF Match
        <5> QED BY <1>4, <4>1, <5>1
      <4>4. x[c] \in Nat /\ y[c] \in Nat /\ x[c] <= y[c]
        BY <4>1
      <4>5. g[s] \in Nat /\ h[s] \in Nat /\ g[s] <= h[s]
        BY <4>2, <4>3, <4>4
      <4>6. ASSUME g[s] = h[s], NEW b \in s PROVE x[b] = y[b]
        <5>1. x[c] = y[c] /\ g[s \ {c}] = h[s \ {c}]
          BY <4>2, <4>3, <4>4, <4>6
        <5> QED BY <4>3, <5>1
      <4> QED BY <4>5, <4>6
    <3> QED BY <3>1, <3>2
  <2> HIDE DEF Match
  <2> QED BY <2>1
<1>5. T = Nat
  <2> HIDE DEF T
  <2>1. T \in SUBSET Nat
    BY DEF T
  <2> QED BY <1>3, <1>4, <2>1, Inductive
<1>6. Cardinality(S) \in Nat /\ Cardinality(S) \in T
  BY <1>5, FS_CardinalityType
<1>7. Match(S)
  <2> HIDE DEF Match
  <2> QED BY <1>6
<1> QED BY <1>1, <1>2, <1>7

----------------------------------------------------------------------------
\* The slices.
LEMMA MinOfTwo ==
    ASSUME NEW m \in Int, NEW n \in Int
    PROVE  Min({m, n}) = IF m <= n THEN m ELSE n
<1> DEFINE k == IF m <= n THEN m ELSE n
<1>1. k \in {m, n} /\ \A y \in {m, n} : k <= y
  OBVIOUS
<1>2. \A x \in {m, n} : (\A y \in {m, n} : x <= y) => x = k
  OBVIOUS
<1> HIDE DEF k
<1>3. (CHOOSE x \in {m, n} : \A y \in {m, n} : x <= y) = k
  BY <1>1, <1>2
<1> QED BY <1>3 DEF Min, k

\* A product grows with its factor.
LEMMA TimesGrows ==
    ASSUME NEW m \in Nat, NEW n \in Nat, NEW q \in Nat, m <= n
    PROVE  m * q \in Nat /\ n * q \in Nat /\ m * q <= n * q
<1>1. m * q \in Nat /\ n * q \in Nat /\ (n - m) * q \in Nat
  OBVIOUS
<1>2. n * q = m * q + (n - m) * q
  OBVIOUS
<1> QED BY <1>1, <1>2

\* The operators of the standard modules are the instance's, too.
LEMMA SameOperators ==
    /\ \A S : Data!IsFiniteSet(S) <=> IsFiniteSet(S)
    /\ \A S : Data!Cardinality(S) = Cardinality(S)
    /\ \A S : Data!Min(S) = Min(S)
    /\ \A s : Data!ToSet(s) = ToSet(s)
    /\ \A f, S : Data!SumFunctionOnSet(f, S) = SumFunctionOnSet(f, S)
<1>1. \A S : Data!IsFiniteSet(S) <=> IsFiniteSet(S)
  BY DEF Data!IsFiniteSet, IsFiniteSet
<1>2. \A S : Data!Cardinality(S) = Cardinality(S)
  BY DEF Data!Cardinality, Cardinality, Data!IsFiniteSet, IsFiniteSet
<1>3. \A S : Data!Min(S) = Min(S)
  BY DEF Data!Min, Min
<1>4. \A s : Data!ToSet(s) = ToSet(s)
  BY DEF Data!ToSet, ToSet
<1>5. \A f, S : Data!SumFunctionOnSet(f, S) = SumFunctionOnSet(f, S)
  BY DEF Data!SumFunctionOnSet, Data!FoldFunctionOnSet, Data!MapThenFoldSet,
         SumFunctionOnSet, FoldFunctionOnSet, MapThenFoldSet
<1> QED BY <1>1, <1>2, <1>3, <1>4, <1>5

\* The constants, as the steps use them.
LEMMA Constants ==
    ASSUME Data!Admissible
    PROVE  /\ Cardinality(Workers) \in Nat \ {0} /\ Workers = 1..Cardinality(Workers)
           /\ Data!BindingIds = 1..Len(Bindings) /\ Len(Bindings) \in Nat \ {0}
           /\ \A b \in Data!BindingIds :
                /\ Bindings[b].unique \in BOOLEAN
                /\ Bindings[b].rows \in Nat /\ Bindings[b].slots \in Nat
                /\ Data!Promised(b) \in 0..Bindings[b].rows
<1>1. Cardinality(Workers) \in Nat \ {0}
  <2>1. IsFiniteSet(Workers) /\ Workers # {}
    BY SameOperators DEF Data!Admissible
  <2> QED BY <2>1, FS_CardinalityType, FS_EmptySet
<1>2. Data!BindingIds = 1..Len(Bindings) /\ Len(Bindings) \in Nat \ {0}
  BY EmptySeq DEF Data!Admissible, Data!BindingIds
<1>3. ASSUME NEW b \in Data!BindingIds
      PROVE  /\ Bindings[b].unique \in BOOLEAN
             /\ Bindings[b].rows \in Nat /\ Bindings[b].slots \in Nat
             /\ Data!Promised(b) \in 0..Bindings[b].rows
  <2>1. Bindings[b] \in [unique : BOOLEAN, rows : Nat, slots : Nat]
    <3>1. Bindings \in Seq([unique : BOOLEAN, rows : Nat, slots : Nat])
      BY DEF Data!Admissible
    <3>2. b \in 1..Len(Bindings)
      BY <1>2
    <3> QED BY <3>1, <3>2, ElementOfSeq
  <2>2. Bindings[b].rows \in Nat /\ Bindings[b].slots \in Nat
    BY <2>1
  <2> QED BY <2>1, <2>2 DEF Data!Promised
<1>4. Workers = 1..Cardinality(Workers)
  BY SameOperators DEF Data!Admissible
<1> QED BY <1>1, <1>2, <1>3, <1>4

\* dataset_slice: the slice lies within the rows, and those of a unique
\* binding follow one another.
LEMMA SliceIs ==
    ASSUME Data!Admissible, NEW w \in Workers, NEW b \in Data!BindingIds
    PROVE  /\ Count(w, b) \in Nat /\ Offset(w, b) \in Nat
           /\ Offset(w, b) + Count(w, b) <= Bindings[b].rows
           /\ Bindings[b].unique =>
                \A v \in Workers : w < v => Offset(w, b) + Count(w, b) <= Offset(v, b)
<1> DEFINE n    == Cardinality(Workers)
           t    == Data!Promised(b)
           base == t \div n
           rem  == t % n
           Take(v) == IF v - 1 < rem THEN base + 1 ELSE base
           From(v) == (v - 1) * base + (IF v - 1 <= rem THEN v - 1 ELSE rem)
<1>1. /\ n \in Nat \ {0} /\ Workers = 1..n /\ t \in Nat /\ t <= Bindings[b].rows
      /\ Bindings[b].rows \in Nat /\ Bindings[b].unique \in BOOLEAN
  BY Constants
<1> HIDE DEF n, t
<1>2. base \in Nat /\ rem \in Nat /\ rem < n /\ t = n * base + rem
  BY <1>1
<1>3. ASSUME NEW v \in Workers, Bindings[b].unique
      PROVE  Count(v, b) = Take(v) /\ Offset(v, b) = From(v)
  <2>1. v - 1 \in Int /\ rem \in Int
    BY <1>1, <1>2
  <2>2. Min({v - 1, rem}) = IF v - 1 <= rem THEN v - 1 ELSE rem
    BY <2>1, MinOfTwo
  <2>3. Data!Min({v - 1, rem}) = Min({v - 1, rem}) /\ Data!Cardinality(Workers) = n
    BY SameOperators DEF n
  <2>4. Data!SliceOf(v, b) = [offset |-> (v - 1) * base + Data!Min({v - 1, rem}),
                              count  |-> Take(v)]
    BY <1>3, <2>3 DEF Data!SliceOf, t
  <2> QED BY <2>2, <2>3, <2>4 DEF Count, Offset
<1> HIDE DEF base, rem
<1>4. ASSUME NEW v \in Workers
      PROVE  /\ Take(v) \in Nat /\ From(v) \in Nat
             /\ From(v) + Take(v) <= v * base + (IF v <= rem THEN v ELSE rem)
  <2>1. v \in Nat \ {0} /\ v - 1 \in Nat
    BY <1>1
  <2>2. (v - 1) * base \in Nat /\ v * base = (v - 1) * base + base
    BY <1>2, <2>1
  <2> DEFINE m == (v - 1) * base
             k == v * base
  <2> HIDE DEF m, k
  <2>3. m \in Nat /\ k = m + base
    BY <2>2 DEF m, k
  <2>4. From(v) = m + (IF v - 1 <= rem THEN v - 1 ELSE rem)
    BY DEF m
  <2>5. From(v) + Take(v) <= k + (IF v <= rem THEN v ELSE rem) /\ From(v) \in Nat /\ Take(v) \in Nat
    BY <1>2, <2>1, <2>3, <2>4
  <2> QED BY <2>5 DEF k
<1>5. CASE Bindings[b].unique
  <2>1. /\ Count(w, b) \in Nat /\ Offset(w, b) \in Nat
        /\ Offset(w, b) + Count(w, b) <= w * base + (IF w <= rem THEN w ELSE rem)
    BY <1>3, <1>4, <1>5
  <2>2. w \in Nat /\ w <= n /\ w * base \in Nat /\ n * base \in Nat /\ w * base <= n * base
    <3>1. w \in Nat /\ w <= n /\ n \in Nat
      BY <1>1
    <3> QED BY <1>2, <3>1, TimesGrows
  <2>3. w * base + (IF w <= rem THEN w ELSE rem) <= Bindings[b].rows
    <3> DEFINE m == w * base
               k == n * base
    <3>1. m \in Nat /\ k \in Nat /\ m <= k /\ t = k + rem
      BY <1>2, <2>2
    <3> HIDE DEF m, k
    <3>2. m + (IF w <= rem THEN w ELSE rem) <= Bindings[b].rows
      BY <1>1, <1>2, <2>2, <3>1
    <3> QED BY <3>2 DEF m
  <2>4. ASSUME NEW v \in Workers, w < v
        PROVE  w * base + (IF w <= rem THEN w ELSE rem) <= Offset(v, b)
    <3>1. w \in Nat /\ v - 1 \in Nat /\ w <= v - 1
      BY <1>1, <2>4
    <3>2. w * base \in Nat /\ (v - 1) * base \in Nat /\ w * base <= (v - 1) * base
      BY <1>2, <3>1, TimesGrows
    <3>3. Offset(v, b) = (v - 1) * base + (IF v - 1 <= rem THEN v - 1 ELSE rem)
      BY <1>3, <1>5
    <3> DEFINE m == w * base
               k == (v - 1) * base
    <3>4. m \in Nat /\ k \in Nat /\ m <= k /\ Offset(v, b) = k + (IF v - 1 <= rem THEN v - 1 ELSE rem)
      BY <3>2, <3>3
    <3> HIDE DEF m, k
    <3>5. m + (IF w <= rem THEN w ELSE rem) <= Offset(v, b)
      BY <1>2, <3>1, <3>4
    <3> QED BY <3>5 DEF m
  <2> DEFINE m == w * base + (IF w <= rem THEN w ELSE rem)
  <2>5. m \in Int
    BY <1>1, <1>2, <2>2
  <2>6. Offset(w, b) + Count(w, b) <= m /\ m <= Bindings[b].rows
    BY <2>1, <2>3
  <2>7. \A v \in Workers : w < v => m <= Offset(v, b)
    BY <2>4
  <2>8. \A v \in Workers : Offset(v, b) \in Nat
    BY <1>3, <1>4, <1>5
  <2> HIDE DEF m
  <2>9. Offset(w, b) + Count(w, b) <= Bindings[b].rows
    BY <1>1, <2>1, <2>5, <2>6
  <2>10. ASSUME NEW v \in Workers, w < v PROVE Offset(w, b) + Count(w, b) <= Offset(v, b)
    BY <2>1, <2>5, <2>6, <2>7, <2>8, <2>10
  <2> QED BY <2>1, <2>9, <2>10
<1>6. CASE ~Bindings[b].unique
  <2>1. Count(w, b) = t /\ Offset(w, b) = 0
    BY <1>6 DEF Data!SliceOf, Count, Offset, t
  <2> QED BY <1>1, <1>6, <2>1
<1> QED BY <1>1, <1>5, <1>6

----------------------------------------------------------------------------
\* Another message on its way.
LEMMA FlowGrows ==
    ASSUME NEW w, NEW Q, NEW q \in Seq(Q), NEW m \in Q, NEW p, Flow(w, q, p),
           NEW next \in [Data!BindingIds -> Nat], Continues(w, m, p[Len(q)], next),
           \A b \in Data!BindingIds : next[b] <= Count(w, b)
    PROVE  \E r : Flow(w, Append(q, m), r) /\ r[0] = p[0] /\ r[Len(q) + 1] = next
<1> DEFINE t == Append(q, m)
           r == [i \in 0..(Len(q) + 1) |-> IF i <= Len(q) THEN p[i] ELSE next]
<1>1. /\ Len(t) = Len(q) + 1 /\ Len(q) \in Nat /\ t[Len(q) + 1] = m
      /\ \A i \in 1..Len(q) : t[i] = q[i]
  BY AppendProperties
<1>2. p \in [0..Len(q) -> [Data!BindingIds -> Nat]]
  BY DEF Flow
<1>3. r \in [0..Len(t) -> [Data!BindingIds -> Nat]]
  BY <1>1, <1>2
<1>4. r[0] = p[0] /\ r[Len(q) + 1] = next /\ \A i \in 0..Len(q) : r[i] = p[i]
  BY <1>1
<1> HIDE DEF r, t
<1>5. ASSUME NEW i \in 1..Len(t) PROVE Continues(w, t[i], r[i - 1], r[i])
  <2>1. CASE i \in 1..Len(q)
    <3>1. Continues(w, q[i], p[i - 1], p[i])
      BY <2>1 DEF Flow
    <3> QED BY <1>1, <1>4, <2>1, <3>1
  <2>2. CASE i = Len(q) + 1
    <3>1. t[i] = m /\ r[i] = next /\ r[i - 1] = p[Len(q)]
      BY <1>1, <1>4, <2>2
    <3> QED BY <3>1
  <2> QED BY <1>1, <2>1, <2>2
<1>6. ASSUME NEW i \in 0..Len(t), NEW b \in Data!BindingIds PROVE r[i][b] <= Count(w, b)
  <2>1. CASE i \in 0..Len(q)
    BY <1>4, <2>1 DEF Flow
  <2>2. CASE i = Len(q) + 1
    BY <1>4, <2>2
  <2> QED BY <1>1, <2>1, <2>2
<1>7. Flow(w, t, r)
  BY <1>3, <1>5, <1>6 DEF Flow
<1> QED BY <1>4, <1>7 DEF t

\* The first message is taken.
LEMMA FlowAdvances ==
    ASSUME NEW w, NEW Q, NEW q \in Seq(Q), q # <<>>, NEW p, Flow(w, q, p)
    PROVE  /\ Continues(w, Head(q), p[0], p[1])
           /\ p[0] \in [Data!BindingIds -> Nat] /\ p[1] \in [Data!BindingIds -> Nat]
           /\ \A b \in Data!BindingIds : p[1][b] <= Count(w, b)
<1>1. Len(q) \in Nat \ {0} /\ Head(q) = q[1]
  BY HeadTailProperties, EmptySeq
<1>2. /\ p \in [0..Len(q) -> [Data!BindingIds -> Nat]]
      /\ \A i \in 1..Len(q) : Continues(w, q[i], p[i - 1], p[i])
      /\ \A i \in 0..Len(q), b \in Data!BindingIds : p[i][b] <= Count(w, b)
  BY DEF Flow
<1>3. 1 \in 1..Len(q) /\ 1 \in 0..Len(q) /\ 0 \in 0..Len(q) /\ 1 - 1 = 0
  BY <1>1
<1>4. Continues(w, q[1], p[1 - 1], p[1])
  BY <1>2, <1>3
<1> QED BY <1>1, <1>2, <1>3, <1>4

\* The others follow it.
LEMMA FlowGoesOn ==
    ASSUME NEW w, NEW Q, NEW q \in Seq(Q), q # <<>>, NEW p, Flow(w, q, p)
    PROVE  \E r : Flow(w, Tail(q), r) /\ r[0] = p[1] /\ r[Len(Tail(q))] = p[Len(q)]
<1> DEFINE t == Tail(q)
           r == [i \in 0..(Len(q) - 1) |-> p[i + 1]]
<1>1. /\ Len(q) \in Nat \ {0} /\ Head(q) = q[1] /\ Len(t) = Len(q) - 1
      /\ \A i \in 1..Len(t) : t[i] = q[i + 1]
  BY HeadTailProperties, EmptySeq
<1>2. /\ p \in [0..Len(q) -> [Data!BindingIds -> Nat]]
      /\ \A i \in 1..Len(q) : Continues(w, q[i], p[i - 1], p[i])
      /\ \A i \in 0..Len(q), b \in Data!BindingIds : p[i][b] <= Count(w, b)
  BY DEF Flow
<1>3. /\ r \in [0..Len(t) -> [Data!BindingIds -> Nat]]
      /\ r[0] = p[1] /\ r[Len(t)] = p[Len(q)]
      /\ \A i \in 0..Len(t) : r[i] = p[i + 1]
  BY <1>1, <1>2
<1> HIDE DEF r, t
<1>4. ASSUME NEW i \in 1..Len(t) PROVE Continues(w, t[i], r[i - 1], r[i])
  <2>1. /\ i + 1 \in 1..Len(q) /\ t[i] = q[i + 1] /\ r[i] = p[i + 1]
        /\ r[i - 1] = p[i] /\ (i + 1) - 1 = i
    BY <1>1, <1>3
  <2>2. Continues(w, q[i + 1], p[(i + 1) - 1], p[i + 1])
    BY <1>2, <2>1
  <2> QED BY <2>1, <2>2
<1>5. ASSUME NEW i \in 0..Len(t), NEW b \in Data!BindingIds PROVE r[i][b] <= Count(w, b)
  BY <1>1, <1>2, <1>3
<1>6. Flow(w, t, r)
  BY <1>3, <1>4, <1>5 DEF Flow
<1> QED BY <1>3, <1>6 DEF t

\* The last messages are lost.
LEMMA FlowBreaks ==
    ASSUME NEW w, NEW Q, NEW q \in Seq(Q), NEW n \in 0..Len(q), NEW p, Flow(w, q, p)
    PROVE  \E r : Flow(w, SubSeq(q, 1, n), r) /\ r[0] = p[0]
<1> DEFINE t == SubSeq(q, 1, n)
           r == [i \in 0..n |-> p[i]]
<1>1. Len(q) \in Nat /\ n \in Nat /\ n <= Len(q)
  BY LenProperties
<1>2. Len(t) = n /\ \A i \in 1..n : t[i] = q[i]
  BY <1>1, SubSeqProperties
<1>3. /\ p \in [0..Len(q) -> [Data!BindingIds -> Nat]]
      /\ \A i \in 1..Len(q) : Continues(w, q[i], p[i - 1], p[i])
      /\ \A i \in 0..Len(q), b \in Data!BindingIds : p[i][b] <= Count(w, b)
  BY DEF Flow
<1>4. /\ r \in [0..n -> [Data!BindingIds -> Nat]]
      /\ r[0] = p[0] /\ \A i \in 0..n : r[i] = p[i]
  BY <1>1, <1>3
<1> HIDE DEF r, t
<1>5. ASSUME NEW i \in 1..n PROVE Continues(w, t[i], r[i - 1], r[i])
  <2>1. i \in 1..Len(q) /\ t[i] = q[i] /\ r[i] = p[i] /\ r[i - 1] = p[i - 1]
    BY <1>1, <1>2, <1>4
  <2> QED BY <1>3, <2>1
<1>6. ASSUME NEW i \in 0..n, NEW b \in Data!BindingIds PROVE r[i][b] <= Count(w, b)
  BY <1>1, <1>3, <1>4
<1>7. Flow(w, t, r)
  BY <1>2, <1>4, <1>5, <1>6 DEF Flow
<1> QED BY <1>4, <1>7 DEF t

----------------------------------------------------------------------------
\* What may be on its way to a worker.
Messages ==
    {Data!Assignment, Data!Abort}
    \cup {Data!Rows(b, s) : b \in Data!BindingIds, s \in Data!BatchesOf(Batch)}

\* As much of DataRows' TypeOK as does not rest on the rows in the buckets.
RowTypes ==
    /\ datasets \subseteq Data!BindingIds
    /\ deleter \in [Data!BindingIds -> {"idle", "checked"}]
    /\ launch \in {"validate", "insert", "enqueue", "launched", "refused"}
    /\ runRow \in {"none", "pending", "running", "aborted", "failed"}
    /\ terminal \in BOOLEAN
    /\ user \in {"idle", "sending", "done"}
    /\ handler \in [Workers -> {"none", "assign", "row", "stream", "send",
                                "abort", "read", "over"}]
    /\ at \in [Workers -> Data!BindingIds] /\ sent \in [Workers -> Nat]
    /\ fetched \in [Workers -> Data!BatchesOf(Batch)]
    /\ owed \subseteq Workers
    /\ chan \in [Workers -> Seq(Messages)]
    /\ \A w \in Workers : Len(chan[w]) <= ChanCap
    /\ bucket \in [Workers -> [Data!BindingIds -> Seq(Nat)]]
    /\ conn \in [Workers -> BOOLEAN]
    /\ worker \in [Workers -> {"waiting", "loading", "running", "ended", "gone"}]
    /\ report \in [Workers -> {"none", "aborted"}]
    /\ faults \in 0..MaxFaults

\* Batches are no assignments, and no aborts.
LEMMA KindsOfMessages ==
    /\ Data!Assignment \in Messages /\ Data!Abort \in Messages
    /\ Data!Assignment.kind # "batch" /\ Data!Abort.kind # "batch"
    /\ Data!Assignment # Data!Abort
    /\ \A b \in Data!BindingIds, s \in Data!BatchesOf(Batch) : Data!Rows(b, s) \in Messages
    /\ \A b, s : /\ Data!Rows(b, s).kind = "batch"
                 /\ Data!Rows(b, s).binding = b /\ Data!Rows(b, s).rows = s
<1>1. /\ Data!Assignment.kind = "assignment" /\ Data!Abort.kind = "abort"
      /\ \A b, s : /\ Data!Rows(b, s).kind = "batch"
                   /\ Data!Rows(b, s).binding = b /\ Data!Rows(b, s).rows = s
  BY DEF Data!Assignment, Data!Abort, Data!Rows
<1> QED BY <1>1 DEF Messages

\* A batch is a short sequence of rows.
LEMMA BatchIs ==
    ASSUME NEW n \in Nat, NEW s
    PROVE  s \in Data!BatchesOf(n) <=> \E k \in 0..n : s \in [1..k -> Data!AllRows]
BY DEF Data!BatchesOf

\* A row of a binding is a row.
LEMMA RowIs ==
    ASSUME Data!Admissible, NEW b \in Data!BindingIds, NEW i \in 1..Bindings[b].rows
    PROVE  i \in Data!AllRows
BY DEF Data!AllRows

\* A stretch within the slice has the rows of the binding.
LEMMA StretchIs ==
    ASSUME Data!Admissible, NEW w \in Workers, NEW b \in Data!BindingIds,
           NEW n \in Nat, NEW k \in Nat, n + k <= Count(w, b)
    PROVE  /\ Stretch(w, b, n, k) \in [1..k -> Data!AllRows]
           /\ Stretch(w, b, n, k) \in Seq(Nat) /\ Len(Stretch(w, b, n, k)) = k
           /\ \A i \in 1..k : /\ Stretch(w, b, n, k)[i] = Offset(w, b) + n + i
                              /\ Stretch(w, b, n, k)[i] \in 1..Bindings[b].rows
<1>1. /\ Count(w, b) \in Nat /\ Offset(w, b) \in Nat
      /\ Offset(w, b) + Count(w, b) <= Bindings[b].rows
      /\ Bindings[b].rows \in Nat
  BY SliceIs, Constants
<1>2. \A i \in 1..k : Offset(w, b) + n + i \in 1..Bindings[b].rows /\ Offset(w, b) + n + i \in Nat
  BY <1>1
<1>3. \A i \in 1..k : Offset(w, b) + n + i \in Data!AllRows
  BY <1>2, RowIs
<1> QED BY <1>2, <1>3 DEF Stretch

\* Two stretches, one after the other.
LEMMA StretchJoin ==
    ASSUME Data!Admissible, NEW w \in Workers, NEW b \in Data!BindingIds,
           NEW n \in Nat, NEW k \in Nat, n + k <= Count(w, b)
    PROVE  Stretch(w, b, 0, n) \o Stretch(w, b, n, k) = Stretch(w, b, 0, n + k)
<1> DEFINE s == Stretch(w, b, 0, n)
           t == Stretch(w, b, n, k)
           u == Stretch(w, b, 0, n + k)
<1>1. Count(w, b) \in Nat /\ Offset(w, b) \in Nat
  BY SliceIs
<1>2. 0 + n <= Count(w, b) /\ 0 + (n + k) <= Count(w, b) /\ n + k \in Nat
  BY <1>1
<1>3. /\ s \in Seq(Nat) /\ Len(s) = n
      /\ \A i \in 1..n : s[i] = Offset(w, b) + 0 + i
  BY <1>2, StretchIs
<1>4. /\ t \in Seq(Nat) /\ Len(t) = k
      /\ \A i \in 1..k : t[i] = Offset(w, b) + n + i
  BY StretchIs
<1>5. /\ u \in Seq(Nat) /\ Len(u) = n + k
      /\ \A i \in 1..(n + k) : u[i] = Offset(w, b) + 0 + i
  BY <1>2, StretchIs
<1> HIDE DEF s, t, u
<1>6. /\ s \o t \in Seq(Nat) /\ Len(s \o t) = n + k
      /\ \A i \in 1..(n + k) : (s \o t)[i] = IF i <= n THEN s[i] ELSE t[i - n]
  BY <1>3, <1>4, ConcatProperties, ZenonT(60)
<1>7. \A i \in 1..(n + k) : (s \o t)[i] = u[i]
  <2> SUFFICES ASSUME NEW i \in 1..(n + k) PROVE (s \o t)[i] = u[i]
    OBVIOUS
  <2>1. CASE i <= n
    BY <1>3, <1>5, <1>6, <2>1
  <2>2. CASE i > n
    <3>1. i - n \in 1..k /\ n + (i - n) = i
      BY <2>2
    <3>2. t[i - n] = Offset(w, b) + n + (i - n)
      BY <1>4, <3>1
    <3>3. (s \o t)[i] = t[i - n]
      BY <1>6, <2>2
    <3> QED BY <1>1, <1>5, <3>1, <3>2, <3>3
  <2>3. i \in Int /\ n \in Int
    OBVIOUS
  <2>4. i <= n \/ i > n
    BY <2>3
  <2> QED BY <2>1, <2>2, <2>4
<1>8. s \o t = u
  BY <1>5, <1>6, <1>7, SeqEqual
<1> QED BY <1>8 DEF s, t, u

\* load_datasets counts all rows together; as no binding has more than its
\* slice, enough of them is all of each.
LEMMA EnoughIsAll ==
    ASSUME Data!Admissible, RowTypes, NEW w \in Workers,
           NEW s \in [Data!BindingIds -> Seq(Nat)],
           \A b \in Data!BindingIds : Len(s[b]) <= Count(w, b),
           Data!Collected(w, s)
    PROVE  \E to \in {"running", "loading"} :
              /\ worker' = [worker EXCEPT ![w] = to]
              /\ to = "running" => \A b \in Data!BindingIds : Len(s[b]) = Count(w, b)
<1> DEFINE x == [b \in Data!BindingIds |-> Len(s[b])]
           y == [b \in Data!BindingIds |-> Count(w, b)]
<1>1. /\ x \in [Data!BindingIds -> Nat] /\ y \in [Data!BindingIds -> Nat]
      /\ \A b \in Data!BindingIds : x[b] <= y[b] /\ x[b] = Len(s[b]) /\ y[b] = Count(w, b)
  BY SliceIs, LenProperties
<1>2. IsFiniteSet(Data!BindingIds)
  BY Constants, FS_Interval
<1>3. worker' = [worker EXCEPT ![w] = IF Data!Total(x) >= Data!Total(y) THEN "running" ELSE "loading"]
  BY DEF Data!Collected, Count
<1>4. /\ Data!Total(x) = SumFunctionOnSet(x, Data!BindingIds)
      /\ Data!Total(y) = SumFunctionOnSet(y, Data!BindingIds)
  BY SameOperators DEF Data!Total
<1> HIDE DEF x, y
<1>5. CASE Data!Total(x) >= Data!Total(y)
  <2>1. \A b \in Data!BindingIds : x[b] = y[b]
    BY <1>1, <1>2, <1>4, <1>5, SumsMatch
  <2> QED BY <1>1, <1>3, <1>5, <2>1
<1>6. CASE ~(Data!Total(x) >= Data!Total(y))
  BY <1>3, <1>6
<1> QED BY <1>5, <1>6

----------------------------------------------------------------------------
\* A worker keeps its rows where it stands, whatever its handler says to it but
\* rows.
LEMMA OthersKeepTheirs ==
    ASSUME RowTypes, NEW w \in Workers, RowsArrive(w),
           bucket'[w] = bucket[w], worker'[w] = worker[w], conn'[w] = conn[w],
           at'[w] = at[w], sent'[w] = sent[w], fetched'[w] = fetched[w],
           handler'[w] = handler[w] \/ handler'[w] \notin {"none", "assign", "row", "send"}
             \/ handler[w] \in {"none", "assign", "row"},
           handler'[w] \in Streaming => handler[w] \in Streaming,
           handler'[w] = "send" => handler[w] = "send",
           \/ chan'[w] = chan[w]
           \/ \E m \in Messages : m.kind # "batch" /\ chan'[w] = Append(chan[w], m)
    PROVE  RowsArrive(w)'
<1>1. HandlerReads(w)'
  BY DEF RowsArrive, HandlerReads
<1>2. RowsLoaded(w)'
  BY DEF RowsArrive, RowsLoaded
<1>3. RowsInFlight(w)'
  <2> SUFFICES ASSUME worker[w] \in {"waiting", "loading"}
               PROVE  \E p : /\ Flow(w, chan'[w], p) /\ p[0] = Loaded(w)
                             /\ conn[w] /\ handler[w] \in Streaming =>
                                  p[Len(chan'[w])] = Given(w)
    <3>1. Loaded(w)' = Loaded(w)
      BY DEF Loaded
    <3>2. Given(w)' = Given(w)
      BY DEF Given
    <3>3. \A p : Flow(w, chan[w], p)' <=> Flow(w, chan'[w], p)
      OBVIOUS
    <3> QED BY <3>1, <3>2, <3>3 DEF RowsInFlight
  <2>1. PICK p : /\ Flow(w, chan[w], p) /\ p[0] = Loaded(w)
                 /\ conn[w] /\ handler[w] \in Streaming => p[Len(chan[w])] = Given(w)
    BY DEF RowsArrive, RowsInFlight
  <2>2. CASE chan'[w] = chan[w]
    BY <2>1, <2>2
  <2>3. CASE \E m \in Messages : m.kind # "batch" /\ chan'[w] = Append(chan[w], m)
    <3>1. PICK m \in Messages : m.kind # "batch" /\ chan'[w] = Append(chan[w], m)
      BY <2>3
    <3>2. chan[w] \in Seq(Messages) /\ Len(chan[w]) \in 0..Len(chan[w])
          /\ Len(chan'[w]) = Len(chan[w]) + 1
      BY <3>1, AppendProperties DEF RowTypes
    <3>3. /\ p[Len(chan[w])] \in [Data!BindingIds -> Nat]
          /\ \A b \in Data!BindingIds : p[Len(chan[w])][b] <= Count(w, b)
      BY <2>1, <3>2 DEF Flow
    <3>4. Continues(w, m, p[Len(chan[w])], p[Len(chan[w])])
      BY <3>1 DEF Continues
    <3>5. \E r : /\ Flow(w, Append(chan[w], m), r) /\ r[0] = p[0]
                 /\ r[Len(chan[w]) + 1] = p[Len(chan[w])]
      BY <2>1, <3>2, <3>3, <3>4, FlowGrows, SMTT(30)
    <3> QED BY <2>1, <3>1, <3>2, <3>5
  <2> QED BY <2>2, <2>3
<1> QED BY <1>1, <1>2, <1>3 DEF RowsArrive

RowsInv == RowTypes /\ \A w \in Workers : RowsArrive(w)

\* A send puts the message at the end of one channel, or is lost with it.
LEMMA SendIs ==
    ASSUME Data!Admissible, RowTypes, NEW w \in Workers, NEW m \in Messages,
           Data!Sends(w, m)
    PROVE  /\ chan' \in [Workers -> Seq(Messages)]
           /\ \A v \in Workers : Len(chan'[v]) <= ChanCap
           /\ \A v \in Workers : v # w => chan'[v] = chan[v]
           /\ IF conn[w] THEN chan'[w] = Append(chan[w], m) ELSE chan' = chan
<1>1. chan \in [Workers -> Seq(Messages)] /\ \A v \in Workers : Len(chan[v]) <= ChanCap
  BY DEF RowTypes
<1>2. CASE ~conn[w] /\ chan' = chan
  BY <1>1, <1>2
<1>3. CASE conn[w] /\ Len(chan[w]) < ChanCap /\ chan' = [chan EXCEPT ![w] = Append(@, m)]
  <2>1. /\ chan[w] \in Seq(Messages) /\ Append(chan[w], m) \in Seq(Messages)
        /\ Len(Append(chan[w], m)) = Len(chan[w]) + 1 /\ Len(chan[w]) \in Nat
    BY <1>1, AppendProperties
  <2>2. /\ chan'[w] = Append(chan[w], m)
        /\ \A v \in Workers : v # w => chan'[v] = chan[v]
        /\ chan' \in [Workers -> Seq(Messages)]
    BY <1>1, <1>3, <2>1
  <2>3. \A v \in Workers : Len(chan'[v]) <= ChanCap
    <3>1. ChanCap \in Nat
      BY DEF Data!Admissible
    <3>2. Len(chan'[w]) <= ChanCap
      BY <1>3, <2>1, <2>2, <3>1
    <3> QED BY <1>1, <2>2, <3>2
  <2> QED BY <1>3, <2>2, <2>3
<1> QED BY <1>2, <1>3 DEF Data!Sends

\* The REST handlers touch neither the streams nor the workers.
LEMMA ApiKeepsRows ==
    ASSUME RowsInv,
           \/ Data!Validate \/ Data!InsertRow \/ Data!Enqueue
           \/ Data!UserAbort \/ Data!MarkAborted
           \/ \E b \in Data!BindingIds : Data!CheckUse(b) \/ Data!DeleteDataset(b)
    PROVE  RowsInv'
<1> USE DEF Data!apiVars, Data!runVars, Data!streamVars, Data!wireVars, Data!workerVars
<1>1. /\ UNCHANGED <<handler, at, sent, fetched, chan, conn, report, worker, bucket, faults>>
      /\ datasets' \subseteq Data!BindingIds
      /\ deleter' \in [Data!BindingIds -> {"idle", "checked"}]
      /\ launch' \in {"validate", "insert", "enqueue", "launched", "refused"}
      /\ runRow' \in {"none", "pending", "running", "aborted", "failed"}
      /\ terminal' \in BOOLEAN /\ user' \in {"idle", "sending", "done"}
      /\ owed' \subseteq Workers
  <2> USE DEF RowsInv, RowTypes
  <2>1. CASE Data!Validate
    BY <2>1 DEF Data!Validate
  <2>2. CASE Data!InsertRow
    BY <2>2 DEF Data!InsertRow
  <2>3. CASE Data!Enqueue
    BY <2>3 DEF Data!Enqueue
  <2>4. CASE Data!UserAbort
    BY <2>4 DEF Data!UserAbort, Data!Registered
  <2>5. CASE Data!MarkAborted
    BY <2>5 DEF Data!MarkAborted
  <2>6. CASE \E b \in Data!BindingIds : Data!CheckUse(b)
    BY <2>6 DEF Data!CheckUse
  <2>7. CASE \E b \in Data!BindingIds : Data!DeleteDataset(b)
    BY <2>7 DEF Data!DeleteDataset
  <2> QED BY <2>1, <2>2, <2>3, <2>4, <2>5, <2>6, <2>7
<1>2. ASSUME NEW w \in Workers PROVE RowsArrive(w)'
  BY <1>1, OthersKeepTheirs DEF RowsInv
<1> QED BY <1>1, <1>2 DEF RowsInv, RowTypes

\* A handler's step that sends no rows and leaves its place in the stream.
LEMMA HandlerKeepsRows ==
    ASSUME Data!Admissible, RowsInv, NEW w \in Workers,
           NEW to \in {"assign", "row", "stream", "abort", "read", "over"},
           handler' = [handler EXCEPT ![w] = to],
           to \in {"assign", "row"} => handler[w] \in {"none", "assign"},
           to = "stream" => handler[w] \in Streaming,
           UNCHANGED <<at, sent, fetched, conn, report, worker, bucket, datasets, deleter,
                       launch, user>>,
           faults' \in 0..MaxFaults,
           runRow' \in {"none", "pending", "running", "aborted", "failed"},
           terminal' \in BOOLEAN, owed' \subseteq Workers,
           \/ chan' = chan
           \/ \E m \in Messages : m.kind # "batch" /\ Data!Sends(w, m)
    PROVE  RowsInv'
<1>1. /\ chan' \in [Workers -> Seq(Messages)]
      /\ \A v \in Workers : Len(chan'[v]) <= ChanCap
      /\ \A v \in Workers : \/ chan'[v] = chan[v]
                            \/ \E m \in Messages : m.kind # "batch" /\ chan'[v] = Append(chan[v], m)
  <2>1. CASE chan' = chan
    BY <2>1 DEF RowsInv, RowTypes
  <2>2. CASE \E m \in Messages : m.kind # "batch" /\ Data!Sends(w, m)
    <3>1. PICK m \in Messages : m.kind # "batch" /\ Data!Sends(w, m)
      BY <2>2
    <3> QED BY <3>1, SendIs DEF RowsInv
  <2> QED BY <2>1, <2>2
<1>2. RowTypes'
  BY <1>1 DEF RowsInv, RowTypes
<1>3. ASSUME NEW v \in Workers PROVE RowsArrive(v)'
  <2>1. /\ handler'[v] = handler[v] \/ handler'[v] \notin {"none", "assign", "row", "send"}
             \/ handler[v] \in {"none", "assign", "row"}
        /\ handler'[v] \in Streaming => handler[v] \in Streaming
        /\ handler'[v] = "send" => handler[v] = "send"
    BY DEF RowsInv, RowTypes, Streaming
  <2> QED BY <1>1, <2>1, OthersKeepTheirs DEF RowsInv
<1> QED BY <1>2, <1>3 DEF RowsInv

\* fan_out_abort sends no rows.
LEMMA FanOutKeepsRows ==
    ASSUME Data!Admissible, RowsInv, NEW w \in Workers, Data!FanOutAbort(w)
    PROVE  RowsInv'
<1>1. UNCHANGED <<datasets, deleter, launch, user, runRow, terminal, handler, at, sent,
                  fetched, conn, report, worker, bucket, faults>>
  BY DEF Data!FanOutAbort, Data!apiVars, Data!streamVars, Data!workerVars
<1>2. Data!Abort \in Messages /\ Data!Abort.kind # "batch"
  BY KindsOfMessages
<1>3. Data!Sends(w, Data!Abort) /\ owed' \subseteq Workers
  BY DEF Data!FanOutAbort, RowsInv, RowTypes
<1>4. RowTypes'
  BY <1>1, <1>2, <1>3, SendIs DEF RowsInv, RowTypes
<1>5. ASSUME NEW v \in Workers PROVE RowsArrive(v)'
  <2>1. chan'[v] = chan[v] \/ chan'[v] = Append(chan[v], Data!Abort)
    BY <1>2, <1>3, SendIs DEF RowsInv
  <2> QED BY <1>1, <1>2, <2>1, OthersKeepTheirs DEF RowsInv
<1> QED BY <1>4, <1>5 DEF RowsInv

\* Register, the assignment, the abort and the ends of a stream.
LEMMA TalkKeepsRows ==
    ASSUME Data!Admissible, RowsInv, NEW w \in Workers,
           \/ Data!Register(w) \/ Data!SendAssignment(w) \/ Data!SetRunning(w)
           \/ Data!SendAbort(w) \/ Data!RecordAborted(w) \/ Data!Disconnected(w)
    PROVE  RowsInv'
<1> USE DEF Data!apiVars, Data!runVars, Data!streamVars, Data!wireVars, Data!workerVars,
            Data!Goes, Streaming
<1>1. /\ RowTypes /\ handler[w] \in {"none", "assign", "row", "stream", "send",
                                     "abort", "read", "over"}
      /\ faults \in 0..MaxFaults
  BY DEF RowsInv, RowTypes
<1>2. /\ Data!Abort \in Messages /\ Data!Abort.kind # "batch"
      /\ Data!Assignment \in Messages /\ Data!Assignment.kind # "batch"
  BY KindsOfMessages
<1>3. CASE Data!Register(w)
  <2>1. /\ handler[w] = "none" /\ handler' = [handler EXCEPT ![w] = "assign"]
        /\ UNCHANGED <<at, sent, fetched, conn, report, worker, bucket, datasets, deleter,
                       launch, user, faults, runRow, terminal, owed, chan>>
    <3>1. w \notin Data!Registered \/ ~(w \in 1..(w - 1))
      OBVIOUS
    <3> QED BY <1>3 DEF Data!Register, Data!Registered
  <2> QED BY <1>1, <2>1, HandlerKeepsRows DEF RowTypes
<1>4. CASE Data!SendAssignment(w)
  <2>1. /\ handler[w] = "assign" /\ handler' = [handler EXCEPT ![w] = "row"]
        /\ UNCHANGED <<at, sent, fetched, conn, report, worker, bucket, datasets, deleter,
                       launch, user, faults, runRow, terminal, owed>>
        /\ Data!Sends(w, Data!Assignment)
    BY <1>4 DEF Data!SendAssignment
  <2> QED BY <1>1, <1>2, <2>1, HandlerKeepsRows DEF RowTypes
<1>5. CASE Data!SetRunning(w)
  <2>1. /\ handler[w] = "row" /\ handler' = [handler EXCEPT ![w] = "stream"]
        /\ UNCHANGED <<at, sent, fetched, conn, report, worker, bucket, datasets, deleter,
                       launch, user, faults, terminal, owed, chan>>
        /\ runRow' \in {runRow, "running"}
    BY <1>5 DEF Data!SetRunning
  <2> QED BY <1>1, <2>1, HandlerKeepsRows DEF RowTypes
<1>6. CASE Data!SendAbort(w)
  <2>1. /\ handler' = [handler EXCEPT ![w] = "read"]
        /\ UNCHANGED <<at, sent, fetched, conn, report, worker, bucket, datasets, deleter,
                       launch, user, faults, runRow, terminal, owed>>
        /\ Data!Sends(w, Data!Abort)
    BY <1>6 DEF Data!SendAbort
  <2> QED BY <1>1, <1>2, <2>1, HandlerKeepsRows DEF RowTypes
<1>7. CASE Data!RecordAborted(w)
  <2>1. /\ handler' = [handler EXCEPT ![w] = "over"]
        /\ UNCHANGED <<at, sent, fetched, conn, report, worker, bucket, datasets, deleter,
                       launch, user, faults, owed, chan>>
        /\ runRow' \in {runRow, "aborted"} /\ terminal' \in BOOLEAN
    BY <1>7 DEF Data!RecordAborted
  <2> QED BY <1>1, <2>1, HandlerKeepsRows DEF RowTypes
<1>8. CASE Data!Disconnected(w)
  <2>1. /\ handler' = [handler EXCEPT ![w] = "over"]
        /\ UNCHANGED <<at, sent, fetched, conn, report, worker, bucket, datasets, deleter,
                       launch, user, faults, chan>>
        /\ runRow' \in {runRow, "failed"} /\ terminal' \in BOOLEAN /\ owed' \subseteq Workers
    BY <1>1, <1>8 DEF Data!Disconnected, Data!Registered, RowTypes
  <2> QED BY <1>1, <2>1, HandlerKeepsRows DEF RowTypes
<1> QED BY <1>3, <1>4, <1>5, <1>6, <1>7, <1>8


----------------------------------------------------------------------------
\* stream_dataset: what is on the way stays, as long as the handler's place in
\* the rows does.
LEMMA FlightStays ==
    ASSUME NEW w \in Workers, RowsInFlight(w),
           chan'[w] = chan[w], bucket'[w] = bucket[w], worker'[w] = worker[w],
           conn'[w] = conn[w],
           handler'[w] \in Streaming => handler[w] \in Streaming /\ Given(w)' = Given(w)
    PROVE  RowsInFlight(w)'
<1> SUFFICES ASSUME worker[w] \in {"waiting", "loading"}
             PROVE  \E p : /\ Flow(w, chan[w], p) /\ p[0] = Loaded(w)
                           /\ conn[w] /\ handler'[w] \in Streaming =>
                                p[Len(chan[w])] = Given(w)'
  <2>1. Loaded(w)' = Loaded(w)
    BY DEF Loaded
  <2>2. \A p : Flow(w, chan[w], p)' <=> Flow(w, chan[w], p)
    OBVIOUS
  <2> QED BY <2>1, <2>2 DEF RowsInFlight
<1>1. PICK p : /\ Flow(w, chan[w], p) /\ p[0] = Loaded(w)
               /\ conn[w] /\ handler[w] \in Streaming => p[Len(chan[w])] = Given(w)
  BY DEF RowsInFlight
<1> QED BY <1>1

\* get_rows_range: the next rows of the slice, at most a batch of them.
LEMMA RangeIs ==
    ASSUME Data!Admissible, RowTypes, NEW w \in Workers,
           sent[w] < Count(w, at[w]), Data!RowsRange(w) # <<>>
    PROVE  \E k \in 1..Batch : /\ Data!RowsRange(w) = Stretch(w, at[w], sent[w], k)
                               /\ sent[w] + k <= Count(w, at[w])
<1> DEFINE b == at[w]
           n == sent[w]
           k == Data!Limit(w)
<1>1. b \in Data!BindingIds /\ n \in Nat /\ Batch \in Nat \ {0}
  BY DEF RowTypes, Data!Admissible
<1>2. /\ Count(w, b) \in Nat /\ Offset(w, b) \in Nat /\ Bindings[b].rows \in Nat
      /\ Offset(w, b) + Count(w, b) <= Bindings[b].rows
  BY <1>1, SliceIs, Constants
<1>3. k = IF Batch <= Count(w, b) - n THEN Batch ELSE Count(w, b) - n
  <2>1. Count(w, b) - n \in Int /\ Batch \in Int
    BY <1>1, <1>2
  <2>2. Data!Min({Batch, Count(w, b) - n}) = Min({Batch, Count(w, b) - n})
    BY SameOperators
  <2> QED BY <2>1, <2>2, MinOfTwo DEF Data!Limit, Count
<1> HIDE DEF k
<1>4. k \in 1..Batch /\ n + k <= Count(w, b)
  BY <1>1, <1>2, <1>3
<1> DEFINE first == Offset(w, b) + n + 1
<1>5. Data!Min({first + k - 1, Bindings[b].rows}) = Offset(w, b) + n + k
  <2>1. first + k - 1 = Offset(w, b) + n + k /\ first + k - 1 <= Bindings[b].rows
    BY <1>1, <1>2, <1>4, SMTT(30)
  <2>2. first + k - 1 \in Int /\ Bindings[b].rows \in Int
    BY <1>1, <1>2, <1>4
  <2>3. Data!Min({first + k - 1, Bindings[b].rows}) = Min({first + k - 1, Bindings[b].rows})
    BY SameOperators
  <2> HIDE DEF first
  <2> QED BY <2>1, <2>2, <2>3, MinOfTwo
<1>6. Data!RowsRange(w) = [i \in 1..(Offset(w, b) + n + k - first + 1) |-> first + i - 1]
  <2> DEFINE last == Data!Min({first + k - 1, Bindings[b].rows})
  <2>1. Data!RowsRange(w) =
          IF b \in datasets THEN [i \in 1..(last - first + 1) |-> first + i - 1] ELSE <<>>
    BY DEF Data!RowsRange, Offset, k
  <2>2. last = Offset(w, b) + n + k
    BY <1>5
  <2> HIDE DEF first, last
  <2>3. last - first + 1 = Offset(w, b) + n + k - first + 1
    <3>1. Offset(w, b) \in Int /\ n \in Int /\ k \in Int /\ first \in Int
      BY <1>1, <1>2, <1>4 DEF first
    <3> QED BY <2>2, <3>1
  <2>4. b \in datasets
    BY <2>1
  <2>5. Data!RowsRange(w) = [i \in 1..(last - first + 1) |-> first + i - 1]
    BY <2>1, <2>4
  <2> QED BY <2>3, <2>5, Zenon
<1>7. Offset(w, b) + n + k - first + 1 = k
  BY <1>1, <1>2, <1>4
<1>8. \A i \in 1..k : first + i - 1 = Offset(w, b) + n + i
  BY <1>1, <1>2, <1>4
<1>9. Data!RowsRange(w) = Stretch(w, b, n, k)
  <2> HIDE DEF first
  <2> QED BY <1>6, <1>7, <1>8 DEF Stretch
<1> QED BY <1>4, <1>9

\* stream_dataset reads the next batch, or gives up.
LEMMA FetchKeepsRows ==
    ASSUME Data!Admissible, RowsInv, NEW w \in Workers, Data!Fetch(w)
    PROVE  RowsInv'
<1> USE DEF Data!apiVars, Data!runVars, Data!wireVars, Data!workerVars, Data!Goes
<1>1. /\ RowTypes /\ handler[w] = "stream" /\ sent[w] < Count(w, at[w])
      /\ UNCHANGED <<datasets, deleter, launch, user, runRow, terminal, owed, at, sent,
                     chan, conn, report, worker, bucket>>
  BY DEF Data!Fetch, RowsInv, Count
<1>2. CASE /\ (Data!RowsRange(w) = <<>> /\ UNCHANGED faults) \/ Data!Fault
           /\ handler' = [handler EXCEPT ![w] = "abort"]
           /\ UNCHANGED fetched
  <2>1. faults' \in 0..MaxFaults
    <3>1. faults \in 0..MaxFaults /\ MaxFaults \in Nat
      BY <1>1 DEF RowTypes, Data!Admissible
    <3>2. faults' = faults \/ (faults < MaxFaults /\ faults' = faults + 1)
      BY <1>2 DEF Data!Fault
    <3> QED BY <3>1, <3>2
  <2> QED BY <1>1, <1>2, <2>1, HandlerKeepsRows DEF RowTypes
<1>3. CASE /\ Data!RowsRange(w) # <<>>
           /\ fetched' = [fetched EXCEPT ![w] = Data!RowsRange(w)]
           /\ handler' = [handler EXCEPT ![w] = "send"]
           /\ UNCHANGED faults
  <2>1. PICK k \in 1..Batch : /\ Data!RowsRange(w) = Stretch(w, at[w], sent[w], k)
                              /\ sent[w] + k <= Count(w, at[w])
    BY <1>1, <1>3, RangeIs
  <2>2. Batch \in Nat /\ k \in Nat \ {0} /\ at[w] \in Data!BindingIds /\ sent[w] \in Nat
    BY <1>1 DEF Data!Admissible, RowTypes
  <2>3. Data!RowsRange(w) \in Data!BatchesOf(Batch)
    <3>1. Stretch(w, at[w], sent[w], k) \in [1..k -> Data!AllRows]
      BY <2>1, <2>2, StretchIs
    <3> QED BY <2>1, <2>2, <3>1, BatchIs
  <2>4. RowTypes'
    BY <1>1, <1>3, <2>3 DEF RowTypes
  <2>5. RowsArrive(w)'
    <3>0. handler'[w] = "send" /\ fetched'[w] = Data!RowsRange(w)
      BY <1>1, <1>3 DEF RowTypes
    <3>1. RowsInFlight(w)'
      <4>1. Given(w)' = Given(w)
        BY <1>1 DEF Given
      <4> QED BY <1>1, <4>1, FlightStays DEF RowsInv, RowsArrive, Streaming
    <3>2. RowsLoaded(w)'
      BY <1>1 DEF RowsInv, RowsArrive, RowsLoaded
    <3>3. HandlerReads(w)'
      BY <1>1, <2>1, <2>2, <3>0 DEF RowsInv, RowsArrive, HandlerReads
    <3> QED BY <3>1, <3>2, <3>3 DEF RowsArrive
  <2>6. ASSUME NEW v \in Workers, v # w PROVE RowsArrive(v)'
    <3>1. handler'[v] = handler[v] /\ fetched'[v] = fetched[v]
      BY <1>1, <1>3, <2>6 DEF RowTypes
    <3> QED BY <1>1, <3>1, OthersKeepTheirs DEF RowsInv
  <2> QED BY <2>4, <2>5, <2>6 DEF RowsInv
<1> QED BY <1>2, <1>3 DEF Data!Fetch, Data!AfterIncomplete

\* stream_dataset goes on with the next binding once it has sent the slice.
LEMMA NextBindingKeepsRows ==
    ASSUME Data!Admissible, RowsInv, NEW w \in Workers, Data!NextBinding(w)
    PROVE  RowsInv'
<1> USE DEF Data!apiVars, Data!runVars, Data!wireVars, Data!workerVars, Data!Goes
<1>1. /\ RowTypes /\ handler[w] = "stream"
      /\ UNCHANGED <<datasets, deleter, launch, user, runRow, terminal, owed, fetched,
                     chan, conn, report, worker, bucket, faults>>
      /\ sent' = [sent EXCEPT ![w] = 0]
  BY DEF Data!NextBinding, RowsInv
<1>2. /\ at[w] \in Data!BindingIds /\ sent[w] \in Nat /\ Count(w, at[w]) \in Nat
      /\ Data!BindingIds = 1..Len(Bindings) /\ Len(Bindings) \in Nat
  BY <1>1, SliceIs, Constants DEF RowTypes
<1>3. sent[w] = Count(w, at[w])
  <2>1. sent[w] >= Count(w, at[w]) /\ sent[w] <= Count(w, at[w])
    BY DEF Data!NextBinding, Count, RowsInv, RowsArrive, HandlerReads
  <2> QED BY <1>2, <2>1
<1>4. \/ /\ handler' = [handler EXCEPT ![w] = "read"] /\ at' = at
      \/ /\ at[w] # Len(Bindings)
         /\ at' = [at EXCEPT ![w] = @ + 1] /\ handler' = handler
  BY DEF Data!NextBinding
<1>5. /\ handler'[w] = "read" \/ (handler'[w] = "stream" /\ at'[w] = at[w] + 1)
      /\ sent'[w] = 0 /\ at'[w] \in Data!BindingIds
  BY <1>1, <1>2, <1>4 DEF RowTypes
<1>6. RowTypes'
  <2>1. /\ handler' \in [Workers -> {"none", "assign", "row", "stream", "send",
                                    "abort", "read", "over"}]
        /\ sent' \in [Workers -> Nat]
    BY <1>1, <1>4 DEF RowTypes
  <2>2. at' \in [Workers -> Data!BindingIds]
    <3>1. at \in [Workers -> Data!BindingIds]
      BY <1>1 DEF RowTypes
    <3> QED BY <1>4, <1>5, <3>1
  <2> QED BY <1>1, <2>1, <2>2 DEF RowTypes
<1>7. RowsArrive(w)'
  <2>1. RowsInFlight(w)'
    <3>1. handler'[w] \in Streaming => Given(w)' = Given(w)
      <4> SUFFICES ASSUME handler'[w] \in Streaming PROVE Given(w)' = Given(w)
        OBVIOUS
      <4>1. at'[w] = at[w] + 1
        BY <1>5 DEF Streaming
      <4>2. \A b \in Data!BindingIds :
              (IF b < at'[w] THEN Count(w, b) ELSE IF b = at'[w] THEN sent'[w] ELSE 0)
                = (IF b < at[w] THEN Count(w, b) ELSE IF b = at[w] THEN sent[w] ELSE 0)
        BY <1>2, <1>3, <1>5, <4>1
      <4> QED BY <4>2 DEF Given
    <3> QED BY <1>1, <3>1, FlightStays DEF RowsInv, RowsArrive, Streaming
  <2>2. RowsLoaded(w)'
    BY <1>1 DEF RowsInv, RowsArrive, RowsLoaded
  <2>3. HandlerReads(w)'
    <3>1. Count(w, at'[w]) \in Nat
      BY <1>5, SliceIs
    <3> QED BY <1>5, <3>1 DEF HandlerReads
  <2> QED BY <2>1, <2>2, <2>3 DEF RowsArrive
<1>8. ASSUME NEW v \in Workers, v # w PROVE RowsArrive(v)'
  <2>1. handler'[v] = handler[v] /\ at'[v] = at[v] /\ sent'[v] = sent[v]
    BY <1>1, <1>4, <1>8 DEF RowTypes
  <2> QED BY <1>1, <2>1, OthersKeepTheirs DEF RowsInv
<1> QED BY <1>6, <1>7, <1>8 DEF RowsInv

\* stream_dataset sends the batch, or its worker is gone.
LEMMA SendBatchKeepsRows ==
    ASSUME Data!Admissible, RowsInv, NEW w \in Workers, Data!SendBatch(w)
    PROVE  RowsInv'
<1> USE DEF Data!apiVars, Data!runVars, Data!wireVars, Data!workerVars, Data!Goes
<1> DEFINE m == Data!Rows(at[w], fetched[w])
<1>1. /\ RowTypes /\ handler[w] = "send"
      /\ UNCHANGED <<datasets, deleter, launch, user, runRow, terminal, owed, at, conn,
                     report, worker, bucket, faults>>
      /\ Data!Sends(w, m)
      /\ handler' = [handler EXCEPT ![w] = IF conn[w] THEN "stream" ELSE "abort"]
      /\ sent' = IF conn[w] THEN [sent EXCEPT ![w] = @ + Len(fetched[w])] ELSE sent
      /\ fetched' = [fetched EXCEPT ![w] = <<>>]
  BY DEF Data!SendBatch, Data!AfterIncomplete, RowsInv
<1>2. PICK k \in Nat \ {0} : /\ fetched[w] = Stretch(w, at[w], sent[w], k)
                             /\ sent[w] + k <= Count(w, at[w])
  BY <1>1 DEF RowsInv, RowsArrive, HandlerReads
<1>3. /\ at[w] \in Data!BindingIds /\ sent[w] \in Nat /\ Count(w, at[w]) \in Nat
      /\ conn[w] \in BOOLEAN /\ m \in Messages /\ Len(fetched[w]) = k
  <2>1. at[w] \in Data!BindingIds /\ sent[w] \in Nat /\ conn[w] \in BOOLEAN
        /\ fetched[w] \in Data!BatchesOf(Batch)
    BY <1>1 DEF RowTypes
  <2>2. Len(fetched[w]) = k
    BY <1>2, <2>1, StretchIs
  <2> QED BY <2>1, <2>2, KindsOfMessages, SliceIs
<1> HIDE DEF m
<1>4. /\ chan' \in [Workers -> Seq(Messages)]
      /\ \A v \in Workers : Len(chan'[v]) <= ChanCap
      /\ \A v \in Workers : v # w => chan'[v] = chan[v]
      /\ IF conn[w] THEN chan'[w] = Append(chan[w], m) ELSE chan' = chan
  BY <1>1, <1>3, SendIs
<1>5. /\ handler'[w] = IF conn[w] THEN "stream" ELSE "abort"
      /\ sent'[w] = IF conn[w] THEN sent[w] + k ELSE sent[w]
      /\ sent' \in [Workers -> Nat]
  BY <1>1, <1>2, <1>3 DEF RowTypes
<1>6. RowTypes'
  <2>1. <<>> \in Data!BatchesOf(Batch)
    <3>1. <<>> \in [1..0 -> Data!AllRows] /\ Batch \in Nat /\ 0 \in 0..Batch
      BY DEF Data!Admissible
    <3> QED BY <3>1, BatchIs
  <2> QED BY <1>1, <1>4, <1>5, <2>1 DEF RowTypes
<1>7. RowsArrive(w)'
  <2>1. HandlerReads(w)'
    BY <1>1, <1>2, <1>3, <1>5 DEF HandlerReads, RowsInv, RowsArrive
  <2>2. RowsLoaded(w)'
    BY <1>1 DEF RowsInv, RowsArrive, RowsLoaded
  <2>3. CASE ~conn[w]
    <3>1. handler'[w] \notin Streaming
      BY <1>5, <2>3 DEF Streaming
    <3>2. RowsInFlight(w)'
      BY <1>1, <1>4, <2>3, <3>1, FlightStays DEF RowsInv, RowsArrive
    <3> QED BY <2>1, <2>2, <3>2 DEF RowsArrive
  <2>4. CASE conn[w]
    <3> SUFFICES ASSUME worker[w] \in {"waiting", "loading"}
                 PROVE  \E p : /\ Flow(w, chan'[w], p) /\ p[0] = Loaded(w)
                               /\ p[Len(chan'[w])] = Given(w)'
      <4>1. Loaded(w)' = Loaded(w)
        BY <1>1 DEF Loaded
      <4>2. \A p : Flow(w, chan[w], p)' <=> Flow(w, chan'[w], p)
        OBVIOUS
      <4>3. RowsInFlight(w)'
        BY <1>1, <4>1, <4>2 DEF RowsInFlight
      <4> QED BY <2>1, <2>2, <4>3 DEF RowsArrive
    <3> DEFINE next == Given(w)'
    <3>1. PICK p : Flow(w, chan[w], p) /\ p[0] = Loaded(w) /\ p[Len(chan[w])] = Given(w)
      BY <1>1, <2>4 DEF RowsInv, RowsArrive, RowsInFlight, Streaming
    <3>2. next = [b \in Data!BindingIds |->
                    IF b < at[w] THEN Count(w, b) ELSE IF b = at[w] THEN sent[w] + k ELSE 0]
      BY <1>1, <1>5, <2>4 DEF Given
    <3> HIDE DEF next
    <3>3. /\ next \in [Data!BindingIds -> Nat]
          /\ \A b \in Data!BindingIds : next[b] <= Count(w, b)
      <4>1. \A b \in Data!BindingIds : Count(w, b) \in Nat
        BY SliceIs
      <4> QED BY <1>2, <1>3, <3>2, <4>1
    <3>4. Continues(w, m, Given(w), next)
      <4>1. Given(w)[at[w]] = sent[w]
        BY <1>3, Constants DEF Given
      <4>2. m = Data!Rows(at[w], Stretch(w, at[w], Given(w)[at[w]], k))
        BY <1>2, <4>1 DEF m
      <4>3. next = [Given(w) EXCEPT ![at[w]] = @ + k]
        <5>1. \A b \in Data!BindingIds : b \in Int
          BY Constants
        <5>2. Given(w) = [b \in Data!BindingIds |->
                IF b < at[w] THEN Count(w, b) ELSE IF b = at[w] THEN sent[w] ELSE 0]
          BY DEF Given
        <5> QED BY <1>3, <3>2, <5>1, <5>2
      <4> QED BY <1>3, <4>2, <4>3 DEF Continues
    <3>5. chan[w] \in Seq(Messages)
      BY <1>1 DEF RowTypes
    <3>6. \E r : /\ Flow(w, Append(chan[w], m), r) /\ r[0] = p[0]
                 /\ r[Len(chan[w]) + 1] = next
      <4>1. Continues(w, m, p[Len(chan[w])], next)
        BY <3>1, <3>4
      <4> QED BY <1>3, <3>1, <3>3, <3>5, <4>1, FlowGrows
    <3>7. chan'[w] = Append(chan[w], m) /\ Len(chan'[w]) = Len(chan[w]) + 1
      BY <1>3, <1>4, <2>4, <3>5, AppendProperties
    <3> QED BY <3>1, <3>6, <3>7 DEF next
  <2> QED BY <1>3, <2>3, <2>4
<1>8. ASSUME NEW v \in Workers, v # w PROVE RowsArrive(v)'
  <2>1. /\ handler'[v] = handler[v] /\ fetched'[v] = fetched[v] /\ sent'[v] = sent[v]
        /\ chan'[v] = chan[v]
    BY <1>1, <1>4, <1>8 DEF RowTypes
  <2> QED BY <1>1, <2>1, OthersKeepTheirs DEF RowsInv
<1> QED BY <1>6, <1>7, <1>8 DEF RowsInv

----------------------------------------------------------------------------
\* The worker takes the first message.
LEMMA TakenIs ==
    ASSUME Data!Admissible, RowTypes, NEW w \in Workers, chan[w] # <<>>, Data!Taken(w)
    PROVE  /\ chan' \in [Workers -> Seq(Messages)]
           /\ \A v \in Workers : Len(chan'[v]) <= ChanCap
           /\ \A v \in Workers : v # w => chan'[v] = chan[v]
           /\ chan'[w] = Tail(chan[w]) /\ Head(chan[w]) \in Messages
<1>1. chan \in [Workers -> Seq(Messages)] /\ \A v \in Workers : Len(chan[v]) <= ChanCap
  BY DEF RowTypes
<1>2. chan' = [chan EXCEPT ![w] = Tail(chan[w])]
  BY DEF Data!Taken
<1>3. /\ Tail(chan[w]) \in Seq(Messages) /\ Head(chan[w]) \in Messages
      /\ Len(Tail(chan[w])) = Len(chan[w]) - 1 /\ Len(chan[w]) \in Nat
  BY <1>1, HeadTailProperties, LenProperties
<1>4. ChanCap \in Nat /\ Len(chan[w]) <= ChanCap
  BY <1>1 DEF Data!Admissible
<1>5. Len(Tail(chan[w])) <= ChanCap
  BY <1>3, <1>4
<1> QED BY <1>1, <1>2, <1>3, <1>5

\* load_datasets: with the message the worker has what the flow says.
LEMMA TakingKeepsRows ==
    ASSUME Data!Admissible, RowsInv, NEW w \in Workers,
           worker[w] \in {"waiting", "loading"}, chan[w] # <<>>,
           NEW s \in [Data!BindingIds -> Seq(Nat)],
           \A p : Flow(w, chan[w], p) /\ p[0] = Loaded(w) =>
                    \A b \in Data!BindingIds : /\ Len(s[b]) = p[1][b]
                                               /\ s[b] = Stretch(w, b, 0, p[1][b]),
           Data!Collected(w, s), bucket' = [bucket EXCEPT ![w] = s], Data!Taken(w),
           UNCHANGED <<datasets, deleter, launch, user, runRow, terminal, owed, handler,
                       at, sent, fetched, conn, report, faults>>
    PROVE  RowsInv'
<1>1. RowTypes /\ RowsInFlight(w) /\ RowsLoaded(w) /\ HandlerReads(w)
  BY DEF RowsInv, RowsArrive
<1>2. /\ chan' \in [Workers -> Seq(Messages)]
      /\ \A v \in Workers : Len(chan'[v]) <= ChanCap
      /\ \A v \in Workers : v # w => chan'[v] = chan[v]
      /\ chan'[w] = Tail(chan[w])
  BY <1>1, TakenIs
<1>3. PICK p : /\ Flow(w, chan[w], p) /\ p[0] = Loaded(w)
               /\ conn[w] /\ handler[w] \in Streaming => p[Len(chan[w])] = Given(w)
  BY <1>1 DEF RowsInFlight
<1>4. /\ p[1] \in [Data!BindingIds -> Nat]
      /\ \A b \in Data!BindingIds : p[1][b] <= Count(w, b)
      /\ \E r : /\ Flow(w, Tail(chan[w]), r) /\ r[0] = p[1]
                /\ r[Len(Tail(chan[w]))] = p[Len(chan[w])]
  <2>1. chan[w] \in Seq(Messages)
    BY <1>1 DEF RowTypes
  <2>2. Flow(w, chan[w], p)
    BY <1>3
  <2> DEFINE q == chan[w]
  <2>3. q \in Seq(Messages) /\ q # <<>> /\ Flow(w, q, p)
    BY <2>1, <2>2
  <2> HIDE DEF q
  <2>4. p[1] \in [Data!BindingIds -> Nat] /\ \A b \in Data!BindingIds : p[1][b] <= Count(w, b)
    BY <2>3, FlowAdvances
  <2>5. \E r : Flow(w, Tail(q), r) /\ r[0] = p[1] /\ r[Len(Tail(q))] = p[Len(q)]
    BY <2>3, FlowGoesOn
  <2> QED BY <2>4, <2>5 DEF q
<1>5. \A b \in Data!BindingIds : /\ Len(s[b]) = p[1][b] /\ Len(s[b]) \in 0..Count(w, b)
                                 /\ s[b] = Stretch(w, b, 0, Len(s[b]))
  <2>1. \A b \in Data!BindingIds : Len(s[b]) = p[1][b] /\ s[b] = Stretch(w, b, 0, p[1][b])
    BY <1>3
  <2> QED BY <1>4, <2>1, SliceIs
<1>6. PICK to \in {"running", "loading"} :
         /\ worker' = [worker EXCEPT ![w] = to]
         /\ to = "running" => \A b \in Data!BindingIds : Len(s[b]) = Count(w, b)
  <2>1. \A b \in Data!BindingIds : Len(s[b]) <= Count(w, b)
    BY <1>5, SliceIs
  <2> QED BY <1>1, <2>1, EnoughIsAll
<1>7. RowTypes'
  <2>1. bucket' \in [Workers -> [Data!BindingIds -> Seq(Nat)]]
    BY <1>1 DEF RowTypes
  <2> QED BY <1>1, <1>2, <1>6, <2>1 DEF RowTypes
<1>8. bucket'[w] = s /\ worker'[w] = to
  BY <1>1, <1>6 DEF RowTypes
<1>9. RowsArrive(w)'
  <2>1. RowsInFlight(w)'
    <3>1. PICK r : /\ Flow(w, chan'[w], r) /\ r[0] = p[1]
                   /\ r[Len(chan'[w])] = p[Len(chan[w])]
      BY <1>2, <1>4
    <3>2. Given(w)' = Given(w)
      BY DEF Given
    <3>3. Loaded(w)' = p[1]
      <4>1. \A b \in Data!BindingIds : Len(bucket'[w][b]) = p[1][b]
        BY <1>5, <1>8
      <4>2. Loaded(w)' = [b \in Data!BindingIds |-> Len(bucket'[w][b])]
        BY DEF Loaded
      <4> QED BY <1>4, <4>1, <4>2, ZenonT(60)
    <3>4. Flow(w, chan[w], r)' <=> Flow(w, chan'[w], r)
      OBVIOUS
    <3> QED BY <1>3, <3>1, <3>2, <3>3, <3>4 DEF RowsInFlight
  <2>2. RowsLoaded(w)'
    BY <1>5, <1>6, <1>8 DEF RowsLoaded
  <2>3. HandlerReads(w)'
    BY <1>1 DEF HandlerReads
  <2> QED BY <2>1, <2>2, <2>3 DEF RowsArrive
<1>10. ASSUME NEW v \in Workers, v # w PROVE RowsArrive(v)'
  <2>1. /\ bucket'[v] = bucket[v] /\ worker'[v] = worker[v] /\ chan'[v] = chan[v]
    BY <1>1, <1>2, <1>6, <1>10 DEF RowTypes
  <2> QED BY <1>1, <2>1, OthersKeepTheirs DEF RowsInv
<1> QED BY <1>7, <1>9, <1>10 DEF RowsInv

\* A worker that is over has no more to do with its rows.
LEMMA EndKeepsRows ==
    ASSUME RowsInv, NEW w \in Workers, NEW to \in {"ended", "gone"},
           worker' = [worker EXCEPT ![w] = to],
           chan' \in [Workers -> Seq(Messages)],
           \A v \in Workers : Len(chan'[v]) <= ChanCap,
           conn' \in [Workers -> BOOLEAN], report' \in [Workers -> {"none", "aborted"}],
           faults' \in 0..MaxFaults,
           \A v \in Workers : v # w => chan'[v] = chan[v] /\ conn'[v] = conn[v],
           UNCHANGED <<datasets, deleter, launch, user, runRow, terminal, owed, handler,
                       at, sent, fetched, bucket>>
    PROVE  RowsInv'
<1>1. RowTypes /\ RowsLoaded(w) /\ HandlerReads(w)
  BY DEF RowsInv, RowsArrive
<1>2. RowTypes'
  BY <1>1 DEF RowTypes
<1>3. worker'[w] = to
  BY <1>1 DEF RowTypes
<1>4. RowsArrive(w)'
  <2>1. RowsInFlight(w)'
    BY <1>3 DEF RowsInFlight
  <2>2. RowsLoaded(w)'
    BY <1>1, <1>3 DEF RowsLoaded
  <2>3. HandlerReads(w)'
    BY <1>1 DEF HandlerReads
  <2> QED BY <2>1, <2>2, <2>3 DEF RowsArrive
<1>5. ASSUME NEW v \in Workers, v # w PROVE RowsArrive(v)'
  <2>1. worker'[v] = worker[v] /\ chan'[v] = chan[v] /\ conn'[v] = conn[v]
    BY <1>1, <1>5 DEF RowTypes
  <2> QED BY <1>1, <2>1, OthersKeepTheirs DEF RowsInv
<1> QED BY <1>2, <1>4, <1>5 DEF RowsInv

\* connect_and_register takes the assignment; a slice without rows is loaded.
LEMMA GetAssignmentKeepsRows ==
    ASSUME Data!Admissible, RowsInv, NEW w \in Workers, Data!GetAssignment(w)
    PROVE  RowsInv'
<1> USE DEF Data!apiVars, Data!runVars, Data!streamVars
<1>1. /\ RowTypes /\ RowsLoaded(w) /\ worker[w] = "waiting" /\ chan[w] # <<>>
      /\ Data!Taken(w)
      /\ UNCHANGED <<datasets, deleter, launch, user, runRow, terminal, owed, handler, at,
                     sent, fetched, conn, report, bucket, faults>>
  BY DEF Data!GetAssignment, RowsInv, RowsArrive
<1>2. CASE Data!Received(w, Data!Assignment)
  <2> DEFINE s == bucket[w]
  <2>1. /\ s \in [Data!BindingIds -> Seq(Nat)] /\ bucket' = [bucket EXCEPT ![w] = s]
        /\ Data!Collected(w, s) /\ Head(chan[w]) = Data!Assignment
    BY <1>1, <1>2 DEF RowTypes, Data!GetAssignment, Data!Received
  <2>2. ASSUME NEW p, Flow(w, chan[w], p), p[0] = Loaded(w)
        PROVE  \A b \in Data!BindingIds : /\ Len(s[b]) = p[1][b]
                                          /\ s[b] = Stretch(w, b, 0, p[1][b])
    <3>1. chan[w] \in Seq(Messages)
      BY <1>1 DEF RowTypes
    <3>2. Continues(w, Head(chan[w]), p[0], p[1])
      BY <1>1, <2>2, <3>1, FlowAdvances
    <3>3. p[1] = Loaded(w)
      <4>1. Continues(w, Data!Assignment, p[0], p[1])
        BY <2>1, <3>2
      <4>2. \A b, t : Data!Assignment # Data!Rows(b, t)
        BY KindsOfMessages
      <4>3. p[1] = p[0]
        BY <4>1, <4>2 DEF Continues
      <4> QED BY <2>2, <4>3
    <3> QED BY <1>1, <3>3 DEF Loaded, RowsLoaded
  <2> HIDE DEF s
  <2> QED BY <1>1, <2>1, <2>2, TakingKeepsRows
<1>3. CASE ~Data!Received(w, Data!Assignment)
  <2>1. worker' = [worker EXCEPT ![w] = "ended"]
    BY <1>3 DEF Data!GetAssignment
  <2> QED BY <1>1, <2>1, TakenIs, EndKeepsRows DEF RowTypes
<1> QED BY <1>2, <1>3

\* load_datasets appends the batch to the rows of its binding.
LEMMA LoadBatchKeepsRows ==
    ASSUME Data!Admissible, RowsInv, NEW w \in Workers, Data!LoadBatch(w)
    PROVE  RowsInv'
<1> USE DEF Data!apiVars, Data!runVars, Data!streamVars
<1> DEFINE m == Head(chan[w])
           s == IF m.kind = "batch"
                THEN [bucket[w] EXCEPT ![m.binding] = @ \o m.rows]
                ELSE bucket[w]
<1>1. /\ RowTypes /\ RowsInFlight(w) /\ RowsLoaded(w) /\ worker[w] = "loading"
      /\ chan[w] # <<>> /\ Data!Taken(w)
      /\ UNCHANGED <<datasets, deleter, launch, user, runRow, terminal, owed, handler, at,
                     sent, fetched, conn, report, faults>>
      /\ bucket' = [bucket EXCEPT ![w] = s] /\ Data!Collected(w, s)
  BY DEF Data!LoadBatch, RowsInv, RowsArrive
<1> HIDE DEF m
<1>2. ASSUME NEW p, Flow(w, chan[w], p), p[0] = Loaded(w)
      PROVE  /\ s \in [Data!BindingIds -> Seq(Nat)]
             /\ \A b \in Data!BindingIds : /\ Len(s[b]) = p[1][b]
                                           /\ s[b] = Stretch(w, b, 0, p[1][b])
  <2>1. chan[w] \in Seq(Messages)
    BY <1>1 DEF RowTypes
  <2>2. /\ Continues(w, m, p[0], p[1])
        /\ \A b \in Data!BindingIds : p[1][b] <= Count(w, b)
    BY <1>1, <1>2, <2>1, FlowAdvances DEF m
  <2>3. bucket[w] \in [Data!BindingIds -> Seq(Nat)]
    BY <1>1 DEF RowTypes
  <2>4. \A b \in Data!BindingIds : /\ Len(bucket[w][b]) = p[0][b] /\ p[0][b] \in Nat
                                   /\ bucket[w][b] = Stretch(w, b, 0, p[0][b])
    <3>1. \A b \in Data!BindingIds : p[0][b] = Len(bucket[w][b])
      BY <1>2 DEF Loaded
    <3> QED BY <1>1, <2>3, <3>1, LenProperties DEF RowsLoaded
  <2>5. CASE m.kind # "batch" /\ p[1] = p[0]
    BY <2>3, <2>4, <2>5
  <2>6. CASE \E c \in Data!BindingIds, k \in Nat :
               /\ m = Data!Rows(c, Stretch(w, c, p[0][c], k))
               /\ p[1] = [p[0] EXCEPT ![c] = @ + k]
    <3>1. PICK c \in Data!BindingIds, k \in Nat :
             /\ m = Data!Rows(c, Stretch(w, c, p[0][c], k))
             /\ p[1] = [p[0] EXCEPT ![c] = @ + k]
      BY <2>6
    <3> DEFINE n == p[0][c]
    <3>2. m.kind = "batch" /\ m.binding = c /\ m.rows = Stretch(w, c, n, k)
      BY <3>1, KindsOfMessages
    <3>3. p[0] \in [Data!BindingIds -> Nat]
      <4>1. p[0] = [b \in Data!BindingIds |-> Len(bucket[w][b])]
        BY <1>2 DEF Loaded
      <4> QED BY <2>3, <4>1, LenProperties
    <3>4. n \in Nat /\ p[1][c] = n + k
      BY <3>1, <3>3
    <3>5. n + k <= Count(w, c) /\ Count(w, c) \in Nat
      BY <2>2, <3>4, SliceIs
    <3>6. s = [bucket[w] EXCEPT ![c] = @ \o Stretch(w, c, n, k)]
      BY <3>2
    <3>7. bucket[w][c] \o Stretch(w, c, n, k) = Stretch(w, c, 0, n + k)
      <4>1. bucket[w][c] = Stretch(w, c, 0, n)
        BY <2>4
      <4> HIDE DEF n
      <4>2. n \in Nat /\ k \in Nat /\ n + k <= Count(w, c)
        BY <3>4, <3>5
      <4>3. Stretch(w, c, 0, n) \o Stretch(w, c, n, k) = Stretch(w, c, 0, n + k)
        BY ONLY <4>2, StretchJoin, Data!Admissible, w \in Workers, c \in Data!BindingIds
      <4> QED BY ONLY <4>1, <4>3
    <3>8. /\ Stretch(w, c, 0, n + k) \in Seq(Nat)
          /\ Len(Stretch(w, c, 0, n + k)) = n + k
      <4>1. 0 + (n + k) <= Count(w, c) /\ n + k \in Nat
        BY <3>4, <3>5
      <4> HIDE DEF n
      <4> QED BY <4>1, StretchIs
    <3> HIDE DEF n
    <3>9. s = [bucket[w] EXCEPT ![c] = Stretch(w, c, 0, n + k)]
      BY <3>6, <3>7
    <3> HIDE DEF s
    <3>10. s \in [Data!BindingIds -> Seq(Nat)]
      BY <2>3, <3>8, <3>9
    <3>11. ASSUME NEW b \in Data!BindingIds
           PROVE  Len(s[b]) = p[1][b] /\ s[b] = Stretch(w, b, 0, p[1][b])
      <4>1. CASE b = c
        <5>1. s[b] = Stretch(w, b, 0, n + k) /\ p[1][b] = n + k
          BY <2>3, <3>4, <3>9, <4>1
        <5> QED BY <3>8, <4>1, <5>1
      <4>2. CASE b # c
        <5>1. s[b] = bucket[w][b] /\ p[1][b] = p[0][b]
          BY <2>3, <3>1, <3>3, <3>9, <4>2
        <5> QED BY <2>4, <5>1
      <4> QED BY <4>1, <4>2
    <3> QED BY <3>10, <3>11
  <2> HIDE DEF s
  <2> QED BY <2>2, <2>5, <2>6 DEF Continues
<1>3. \E p : Flow(w, chan[w], p) /\ p[0] = Loaded(w)
  BY <1>1 DEF RowsInFlight
<1> HIDE DEF s
<1>4. s \in [Data!BindingIds -> Seq(Nat)]
  BY <1>2, <1>3
<1> QED BY <1>1, <1>2, <1>4, TakingKeepsRows

\* The other steps of a worker.
LEMMA WorkerKeepsRows ==
    ASSUME Data!Admissible, RowsInv, NEW w \in Workers,
           \/ Data!GetAbort(w) \/ Data!PassOver(w) \/ Data!StreamEnds(w)
           \/ Data!Sigterm(w) \/ Data!HangUp(w)
    PROVE  RowsInv'
<1> USE DEF Data!apiVars, Data!runVars, Data!streamVars, Data!wireVars, Data!workerVars
<1>1. RowTypes /\ faults \in 0..MaxFaults /\ MaxFaults \in Nat
  BY DEF RowsInv, RowTypes, Data!Admissible
<1>2. CASE Data!GetAbort(w)
  <2>1. /\ worker' = [worker EXCEPT ![w] = "ended"] /\ chan[w] # <<>> /\ Data!Taken(w)
        /\ report' \in [Workers -> {"none", "aborted"}]
        /\ UNCHANGED <<datasets, deleter, launch, user, runRow, terminal, owed, handler, at,
                       sent, fetched, conn, bucket, faults>>
    BY <1>1, <1>2 DEF Data!GetAbort, Data!Received, Data!ReportsAborted, RowTypes
  <2>2. /\ chan' \in [Workers -> Seq(Messages)]
        /\ \A v \in Workers : Len(chan'[v]) <= ChanCap
        /\ \A v \in Workers : v # w => chan'[v] = chan[v]
    BY <1>1, <2>1, TakenIs
  <2>3. conn' \in [Workers -> BOOLEAN] /\ \A v \in Workers : v # w => conn'[v] = conn[v]
    BY <1>1, <2>1 DEF RowTypes
  <2> QED BY <1>1, <2>1, <2>2, <2>3, EndKeepsRows
<1>3. CASE Data!PassOver(w)
  <2>1. /\ worker[w] = "running" /\ chan[w] # <<>> /\ Data!Taken(w)
        /\ UNCHANGED <<datasets, deleter, launch, user, runRow, terminal, owed, handler, at,
                       sent, fetched, conn, report, worker, bucket, faults>>
    BY <1>3 DEF Data!PassOver
  <2>2. /\ chan' \in [Workers -> Seq(Messages)]
        /\ \A v \in Workers : Len(chan'[v]) <= ChanCap
        /\ \A v \in Workers : v # w => chan'[v] = chan[v]
    BY <1>1, <2>1, TakenIs
  <2>3. RowTypes'
    BY <1>1, <2>1, <2>2 DEF RowTypes
  <2>4. RowsArrive(w)'
    <3>1. RowsInFlight(w)'
      BY <2>1 DEF RowsInFlight
    <3>2. RowsLoaded(w)' /\ HandlerReads(w)'
      BY <2>1 DEF RowsInv, RowsArrive, RowsLoaded, HandlerReads
    <3> QED BY <3>1, <3>2 DEF RowsArrive
  <2>5. ASSUME NEW v \in Workers, v # w PROVE RowsArrive(v)'
    BY <1>1, <2>1, <2>2, <2>5, OthersKeepTheirs DEF RowsInv
  <2> QED BY <2>3, <2>4, <2>5 DEF RowsInv
<1>4. CASE Data!StreamEnds(w)
  <2>1. /\ worker' = [worker EXCEPT ![w] = "ended"]
        /\ UNCHANGED <<datasets, deleter, launch, user, runRow, terminal, owed, handler, at,
                       sent, fetched, chan, conn, report, bucket, faults>>
    BY <1>4 DEF Data!StreamEnds
  <2> QED BY <1>1, <2>1, EndKeepsRows DEF RowTypes
<1>5. CASE Data!Sigterm(w)
  <2>1. /\ worker' = [worker EXCEPT ![w] = "ended"]
        /\ report' \in [Workers -> {"none", "aborted"}]
        /\ UNCHANGED <<datasets, deleter, launch, user, runRow, terminal, owed, handler, at,
                       sent, fetched, chan, conn, bucket>>
    BY <1>1, <1>5 DEF Data!Sigterm, Data!ReportsAborted, RowTypes
  <2>2. faults' \in 0..MaxFaults
    BY <1>1, <1>5 DEF Data!Sigterm, Data!Fault
  <2> QED BY <1>1, <2>1, <2>2, EndKeepsRows DEF RowTypes
<1>6. CASE Data!HangUp(w)
  <2>1. /\ worker' = [worker EXCEPT ![w] = "gone"]
        /\ conn' = [conn EXCEPT ![w] = FALSE] /\ chan' = [chan EXCEPT ![w] = <<>>]
        /\ UNCHANGED <<datasets, deleter, launch, user, runRow, terminal, owed, handler, at,
                       sent, fetched, report, bucket, faults>>
    BY <1>6 DEF Data!HangUp
  <2>2. /\ chan' \in [Workers -> Seq(Messages)] /\ conn' \in [Workers -> BOOLEAN]
        /\ \A v \in Workers : v # w => chan'[v] = chan[v] /\ conn'[v] = conn[v]
        /\ chan'[w] = <<>>
    BY <1>1, <2>1, EmptySeq DEF RowTypes
  <2>3. \A v \in Workers : Len(chan'[v]) <= ChanCap
    <3>1. Len(<<>>) = 0 /\ ChanCap \in Nat
      BY EmptySeq DEF Data!Admissible
    <3>2. Len(chan'[w]) <= ChanCap
      BY <2>2, <3>1
    <3> QED BY <1>1, <2>2, <3>2 DEF RowTypes
  <2> QED BY <1>1, <2>1, <2>2, <2>3, EndKeepsRows DEF RowTypes
<1> QED BY <1>2, <1>3, <1>4, <1>5, <1>6

\* The connection breaks: no engine starts on what is missing.
LEMMA BreakKeepsRows ==
    ASSUME Data!Admissible, RowsInv, NEW w \in Workers, Data!Break(w)
    PROVE  RowsInv'
<1> USE DEF Data!apiVars, Data!runVars, Data!streamVars, Data!workerVars
<1>1. /\ RowTypes /\ RowsInFlight(w) /\ RowsLoaded(w) /\ HandlerReads(w)
      /\ conn' = [conn EXCEPT ![w] = FALSE] /\ report' = [report EXCEPT ![w] = "none"]
      /\ faults < MaxFaults /\ faults' = faults + 1
      /\ UNCHANGED <<datasets, deleter, launch, user, runRow, terminal, owed, handler, at,
                     sent, fetched, worker, bucket>>
  BY DEF Data!Break, Data!Fault, RowsInv, RowsArrive
<1>2. PICK n \in 0..Len(chan[w]) : chan' = [chan EXCEPT ![w] = SubSeq(chan[w], 1, n)]
  BY DEF Data!Break
<1>3. chan[w] \in Seq(Messages) /\ Len(chan[w]) \in Nat /\ Len(chan[w]) <= ChanCap
  BY <1>1, LenProperties DEF RowTypes
<1>4. SubSeq(chan[w], 1, n) \in Seq(Messages) /\ Len(SubSeq(chan[w], 1, n)) = n
  BY <1>3, SubSeqProperties
<1>5. /\ chan'[w] = SubSeq(chan[w], 1, n) /\ ~conn'[w]
      /\ chan' \in [Workers -> Seq(Messages)] /\ conn' \in [Workers -> BOOLEAN]
      /\ \A v \in Workers : v # w => chan'[v] = chan[v] /\ conn'[v] = conn[v]
  BY <1>1, <1>2, <1>4 DEF RowTypes
<1>6. RowTypes'
  <2>1. ChanCap \in Nat /\ MaxFaults \in Nat /\ faults \in 0..MaxFaults
    BY <1>1 DEF Data!Admissible, RowTypes
  <2>2. Len(chan'[w]) <= ChanCap
    BY <1>3, <1>4, <1>5, <2>1
  <2>3. faults' \in 0..MaxFaults
    BY <1>1, <2>1
  <2> QED BY <1>1, <1>5, <2>2, <2>3 DEF RowTypes
<1>7. RowsArrive(w)'
  <2>1. RowsInFlight(w)'
    <3>1. Loaded(w)' = Loaded(w)
      BY <1>1 DEF Loaded
    <3>2. \A p : Flow(w, chan[w], p)' <=> Flow(w, chan'[w], p)
      OBVIOUS
    <3>3. ASSUME worker[w] \in {"waiting", "loading"}
          PROVE  \E r : Flow(w, chan'[w], r) /\ r[0] = Loaded(w)
      <4>1. PICK p : Flow(w, chan[w], p) /\ p[0] = Loaded(w)
        BY <1>1, <3>3 DEF RowsInFlight
      <4>2. \E r : Flow(w, SubSeq(chan[w], 1, n), r) /\ r[0] = p[0]
        BY <1>3, <4>1, FlowBreaks
      <4> QED BY <1>5, <4>1, <4>2
    <3> QED BY <1>1, <1>5, <3>1, <3>2, <3>3 DEF RowsInFlight
  <2>2. RowsLoaded(w)'
    BY <1>1 DEF RowsLoaded
  <2>3. HandlerReads(w)'
    BY <1>1 DEF HandlerReads
  <2> QED BY <2>1, <2>2, <2>3 DEF RowsArrive
<1>8. ASSUME NEW v \in Workers, v # w PROVE RowsArrive(v)'
  <2>1. chan'[v] = chan[v] /\ conn'[v] = conn[v]
    BY <1>5, <1>8
  <2> QED BY <1>1, <2>1, OthersKeepTheirs DEF RowsInv
<1> QED BY <1>6, <1>7, <1>8 DEF RowsInv

\* Every step keeps the rows.
LEMMA NextKeepsRows ==
    ASSUME Data!Admissible, RowsInv, [Data!Next]_(Data!vars)
    PROVE  RowsInv'
<1>1. CASE UNCHANGED Data!vars
  <2>1. UNCHANGED <<datasets, deleter, launch, user, runRow, terminal, owed, handler, at,
                    sent, fetched, chan, conn, report, worker, bucket, faults>>
    BY <1>1 DEF Data!vars, Data!apiVars, Data!runVars, Data!streamVars, Data!wireVars,
                Data!workerVars
  <2>2. RowTypes'
    BY <2>1 DEF RowsInv, RowTypes
  <2>3. ASSUME NEW v \in Workers PROVE RowsArrive(v)'
    BY <2>1, OthersKeepTheirs DEF RowsInv
  <2> QED BY <2>2, <2>3 DEF RowsInv
<1>2. CASE \/ Data!Validate \/ Data!InsertRow \/ Data!Enqueue
           \/ Data!UserAbort \/ Data!MarkAborted
           \/ \E b \in Data!BindingIds : Data!CheckUse(b) \/ Data!DeleteDataset(b)
  BY <1>2, ApiKeepsRows
<1>3. ASSUME NEW w \in Workers,
             \/ Data!Register(w) \/ Data!FanOutAbort(w) \/ Data!HandlerMoves(w)
             \/ Data!WorkerMoves(w) \/ Data!Sigterm(w) \/ Data!Break(w)
      PROVE  RowsInv'
  <2>1. CASE Data!Register(w)
    BY <2>1, TalkKeepsRows
  <2>2. CASE Data!FanOutAbort(w)
    BY <2>2, FanOutKeepsRows
  <2>3. CASE Data!HandlerMoves(w)
    <3>1. CASE \/ Data!SendAssignment(w) \/ Data!SetRunning(w) \/ Data!SendAbort(w)
               \/ Data!RecordAborted(w) \/ Data!Disconnected(w)
      BY <3>1, TalkKeepsRows
    <3>2. CASE Data!NextBinding(w)
      BY <3>2, NextBindingKeepsRows
    <3>3. CASE Data!Fetch(w)
      BY <3>3, FetchKeepsRows
    <3>4. CASE Data!SendBatch(w)
      BY <3>4, SendBatchKeepsRows
    <3> QED BY <2>3, <3>1, <3>2, <3>3, <3>4 DEF Data!HandlerMoves
  <2>4. CASE Data!WorkerMoves(w)
    <3>1. CASE Data!GetAssignment(w)
      BY <3>1, GetAssignmentKeepsRows
    <3>2. CASE Data!LoadBatch(w)
      BY <3>2, LoadBatchKeepsRows
    <3>3. CASE \/ Data!GetAbort(w) \/ Data!PassOver(w) \/ Data!StreamEnds(w)
               \/ Data!HangUp(w)
      BY <3>3, WorkerKeepsRows
    <3> QED BY <2>4, <3>1, <3>2, <3>3 DEF Data!WorkerMoves
  <2>5. CASE Data!Sigterm(w)
    BY <2>5, WorkerKeepsRows
  <2>6. CASE Data!Break(w)
    BY <2>6, BreakKeepsRows
  <2> QED BY <1>3, <2>1, <2>2, <2>3, <2>4, <2>5, <2>6
<1> QED BY <1>1, <1>2, <1>3 DEF Data!Next

\* Nobody has rows, and none are on their way.
LEMMA RowsAtFirst ==
    ASSUME Data!Admissible, Data!Init
    PROVE  RowsInv
<1>1. 1 \in Data!BindingIds /\ \A b \in Data!BindingIds : b \in Nat \ {0}
  BY Constants
<1>2. /\ Batch \in Nat /\ ChanCap \in Nat /\ MaxFaults \in Nat
      /\ <<>> \in Seq(Messages) /\ <<>> \in Seq(Nat) /\ Len(<<>>) = 0
  BY EmptySeq DEF Data!Admissible
<1>3. <<>> \in Data!BatchesOf(Batch)
  <2>1. <<>> \in [1..0 -> Data!AllRows] /\ 0 \in 0..Batch
    BY <1>2
  <2> QED BY <1>2, <2>1, BatchIs
<1>4. RowTypes
  <2>1. /\ chan \in [Workers -> Seq(Messages)] /\ \A w \in Workers : chan[w] = <<>>
        /\ bucket \in [Workers -> [Data!BindingIds -> Seq(Nat)]]
        /\ fetched \in [Workers -> Data!BatchesOf(Batch)]
        /\ at \in [Workers -> Data!BindingIds]
    BY <1>1, <1>2, <1>3 DEF Data!Init
  <2>2. \A w \in Workers : Len(chan[w]) <= ChanCap
    BY <1>2, <2>1
  <2>3. /\ datasets \subseteq Data!BindingIds
        /\ deleter \in [Data!BindingIds -> {"idle", "checked"}]
        /\ handler \in [Workers -> {"none", "assign", "row", "stream", "send",
                                   "abort", "read", "over"}]
        /\ sent \in [Workers -> Nat] /\ conn \in [Workers -> BOOLEAN]
        /\ worker \in [Workers -> {"waiting", "loading", "running", "ended", "gone"}]
        /\ report \in [Workers -> {"none", "aborted"}]
    BY DEF Data!Init
  <2>4. /\ launch = "validate" /\ runRow = "none" /\ terminal = FALSE /\ user = "idle"
        /\ owed = {} /\ faults \in 0..MaxFaults
    BY <1>2 DEF Data!Init
  <2> QED BY <2>1, <2>2, <2>3, <2>4 DEF RowTypes
<1>5. ASSUME NEW w \in Workers PROVE RowsArrive(w)
  <2>1. /\ chan[w] = <<>> /\ at[w] = 1 /\ sent[w] = 0 /\ handler[w] = "none"
        /\ worker[w] = "waiting" /\ \A b \in Data!BindingIds : bucket[w][b] = <<>>
    BY DEF Data!Init
  <2>2. \A b \in Data!BindingIds : Count(w, b) \in Nat
    BY SliceIs
  <2>3. RowsInFlight(w)
    <3> DEFINE none == [b \in Data!BindingIds |-> 0]
               p == [i \in 0..0 |-> none]
    <3>1. Loaded(w) = none
      BY <1>2, <2>1 DEF Loaded
    <3>2. Given(w) = none
      BY <1>1, <2>1 DEF Given
    <3>3. none \in [Data!BindingIds -> Nat] /\ \A b \in Data!BindingIds : none[b] = 0
      OBVIOUS
    <3> HIDE DEF none
    <3>4. Flow(w, <<>>, p)
      <4>1. \A i \in 0..0 : p[i] = none
        OBVIOUS
      <4>2. \A i \in 0..0, b \in Data!BindingIds : p[i][b] <= Count(w, b)
        BY <2>2, <3>3, <4>1
      <4>3. p \in [0..0 -> [Data!BindingIds -> Nat]]
        BY <3>3
      <4>4. 1..0 = {}
        OBVIOUS
      <4> HIDE DEF p
      <4> QED BY <1>2, <4>2, <4>3, <4>4 DEF Flow
    <3>5. p[0] = none
      OBVIOUS
    <3> HIDE DEF p
    <3> QED BY <1>2, <2>1, <3>1, <3>2, <3>4, <3>5 DEF RowsInFlight
  <2>4. RowsLoaded(w)
    <3>1. ASSUME NEW b \in Data!BindingIds PROVE <<>> = Stretch(w, b, 0, 0)
      <4>1. /\ Stretch(w, b, 0, 0) \in Seq(Nat) /\ Len(Stretch(w, b, 0, 0)) = 0
        BY <2>2, StretchIs
      <4> QED BY <4>1, EmptySeq
    <3> QED BY <1>2, <2>1, <2>2, <3>1 DEF RowsLoaded
  <2>5. HandlerReads(w)
    BY <1>1, <2>1, <2>2 DEF HandlerReads
  <2> QED BY <2>3, <2>4, <2>5 DEF RowsArrive
<1> QED BY <1>4, <1>5 DEF RowsInv

\* An engine that runs has all of its slices, and no other worker's rows.
LEMMA RowsAreWhole ==
    ASSUME Data!Admissible, RowsInv
    PROVE  Data!NoEngineOnPartialData
<1>1. ASSUME NEW w \in Workers, NEW b \in Data!BindingIds, worker[w] = "running"
      PROVE  bucket[w][b] = Data!FullBucket(w, b)
  <2>1. bucket[w][b] = Stretch(w, b, 0, Count(w, b))
    BY <1>1 DEF RowsInv, RowsArrive, RowsLoaded
  <2>2. Count(w, b) \in Nat /\ Offset(w, b) \in Nat
    BY SliceIs
  <2>3. \A i \in 1..Count(w, b) : Offset(w, b) + 0 + i = Offset(w, b) + i
    BY <2>2
  <2>4. Data!FullBucket(w, b) = [i \in 1..Count(w, b) |-> Offset(w, b) + i]
    BY DEF Data!FullBucket, Count, Offset
  <2> QED BY <2>1, <2>3, <2>4 DEF Stretch
<1>2. ASSUME NEW w \in Workers, NEW b \in Data!BindingIds, NEW x \in ToSet(bucket[w][b])
      PROVE  x \in Nat /\ Offset(w, b) < x /\ x <= Offset(w, b) + Count(w, b)
  <2> DEFINE n == Len(bucket[w][b])
  <2>1. n \in 0..Count(w, b) /\ bucket[w][b] = Stretch(w, b, 0, n)
    BY DEF RowsInv, RowsArrive, RowsLoaded
  <2>2. Count(w, b) \in Nat /\ Offset(w, b) \in Nat
    BY SliceIs
  <2> HIDE DEF n
  <2>3. PICK i \in DOMAIN bucket[w][b] : x = bucket[w][b][i]
    BY DEF ToSet
  <2>4. i \in 1..n /\ x = Offset(w, b) + 0 + i
    BY <2>1, <2>3 DEF Stretch
  <2> QED BY <2>1, <2>2, <2>4
<1>3. ASSUME NEW w \in Workers, NEW v \in Workers, NEW b \in Data!BindingIds, w < v,
             Bindings[b].unique
      PROVE  ToSet(bucket[w][b]) \cap ToSet(bucket[v][b]) = {}
  <2>1. Offset(w, b) + Count(w, b) <= Offset(v, b) /\ Offset(v, b) \in Nat
        /\ Offset(w, b) \in Nat /\ Count(w, b) \in Nat
    BY <1>3, SliceIs
  <2>2. ASSUME NEW x \in ToSet(bucket[w][b]), x \in ToSet(bucket[v][b]) PROVE FALSE
    <3>1. x \in Nat /\ x <= Offset(w, b) + Count(w, b) /\ Offset(v, b) < x
      BY <1>2, <2>2
    <3> QED BY <2>1, <3>1
  <2> QED BY <2>2
<1>4. ASSUME NEW w \in Workers, NEW v \in Workers \ {w}, NEW b \in Data!BindingIds,
             Bindings[b].unique
      PROVE  Data!ToSet(bucket[w][b]) \cap Data!ToSet(bucket[v][b]) = {}
  <2>1. w \in Int /\ v \in Int /\ w # v
    BY Constants
  <2>2. w < v \/ v < w
    BY <2>1
  <2>3. ToSet(bucket[w][b]) \cap ToSet(bucket[v][b]) = {}
    BY <1>3, <1>4, <2>2
  <2> QED BY <2>3, SameOperators
<1> QED BY <1>1, <1>4 DEF Data!NoEngineOnPartialData

\* A step of the data plane is one of the rows or leaves them alone.
LEMMA StepOfTheRows ==
    [MCNext]_<<part, vars, metricsVars, rowsVars>> => [Data!Next]_(Data!vars)
<1> SUFFICES ASSUME [MCNext]_<<part, vars, metricsVars, rowsVars>>, rowsVars' # rowsVars
             PROVE  Data!Next
  BY DEF Data!vars, rowsVars, Data!apiVars, Data!runVars, Data!streamVars, Data!wireVars,
         Data!workerVars
<1> QED BY DEF MCNext, MetricsNext, EngineNext, DataNext

(***************************************************************************)
(* In every run of any number of workers, bindings, rows and batches, and  *)
(* whatever is deleted, aborted, lost or fails meanwhile, an engine that   *)
(* load_datasets lets start has of each binding the whole slice that       *)
(* dataset_slice promised its worker, in order, and no row of a unique     *)
(* binding is also another worker's.                                       *)
(***************************************************************************)
THEOREM EnginesHaveTheirRows == MCSpec => []NoEngineOnPartialData
<1>1. MCInit => RowsInv
  <2>1. MCInit => Data!Init
    BY DEF MCInit
  <2> QED BY <2>1, RowsAtFirst, DataAssumption
<1>2. RowsInv /\ [MCNext]_<<part, vars, metricsVars, rowsVars>> => RowsInv'
  BY NextKeepsRows, StepOfTheRows, DataAssumption
<1>3. RowsInv => NoEngineOnPartialData
  BY RowsAreWhole, DataAssumption DEF NoEngineOnPartialData
<1> QED BY <1>1, <1>2, <1>3, PTL DEF MCSpec

----------------------------------------------------------------------------
\* The rest of LoadEngine's TypeOK.
Rest ==
    /\ schedule \in Schedules /\ ramp \in Ramps \cup {0}
    /\ clock \in 0..Deadline
    /\ cancel \in BOOLEAN /\ exhausted \in BOOLEAN
    /\ main \in {"spawn", "check", "act", "join", "over"}
    /\ attempts \in Nat /\ nextSpawn \in Nat
    /\ outcome \in [Actors -> {"none", "ok", "aborted", "error", "panic"}]
    /\ result \in {"none", "ok", "aborted", "allVusFailed"}
    /\ panics \in 0..MaxPanics

LEMMA RestAtFirst == Init => Rest
<1> SUFFICES ASSUME Init PROVE Rest
  OBVIOUS
<1>1. Deadline \in Nat /\ MaxPanics \in Nat /\ Schedules # {}
  BY EngineAssumption DEF Admissible
<1>2. schedule \in Schedules /\ ramp \in Ramps \cup {0} /\ main \in {"spawn", "check"}
  BY <1>1, Zenon DEF Init
<1>3. /\ clock = 0 /\ cancel = FALSE /\ exhausted = FALSE /\ panics = 0 /\ result = "none"
      /\ attempts = 0 /\ nextSpawn = 0 /\ outcome = [a \in Actors |-> "none"]
  BY DEF Init
<1>4. 0 \in 0..Deadline /\ 0 \in 0..MaxPanics
  BY <1>1
<1> QED BY <1>2, <1>3, <1>4 DEF Rest

\* What a task does leaves the main task's state.
LEMMA TaskKeepsRest ==
    ASSUME Rest, NEW a \in Actors, TaskMoves(a) \/ Panic(a)
    PROVE  Rest'
<1>1. ASSUME NEW how \in {"ok", "aborted", "error", "panic"}, Ends(a, how)
      PROVE outcome' \in [Actors -> {"none", "ok", "aborted", "error", "panic"}]
  BY <1>1 DEF Rest, Ends
<1>2. ASSUME NEW to, Goes(a, to)
      PROVE outcome' \in [Actors -> {"none", "ok", "aborted", "error", "panic"}]
  BY <1>2 DEF Rest, Goes
<1>3. outcome' \in [Actors -> {"none", "ok", "aborted", "error", "panic"}]
  BY <1>1, <1>2 DEF Rest, TaskMoves, Top, Bind, Step, Return, Panic
<1>4. UNCHANGED mainVars
  BY DEF TaskMoves, Top, Bind, Step, Return, Panic
<1>5. exhausted' \in BOOLEAN
  BY Zenon DEF Rest, TaskMoves, Top, Bind, Step, Return, Panic
<1>6. panics' \in 0..MaxPanics
  <2>1. MaxPanics \in Nat
    BY EngineAssumption DEF Admissible
  <2> QED BY <2>1 DEF Rest, TaskMoves, Top, Bind, Step, Return, Panic
<1> QED BY <1>3, <1>4, <1>5, <1>6 DEF Rest, mainVars, inputVars

LEMMA StepKeepsRest == Rest /\ [Next]_vars => Rest'
<1> SUFFICES ASSUME Rest, [Next]_vars PROVE Rest'
  OBVIOUS
<1>1. CASE SpawnVus
  <2>1. N \in Nat
    BY EngineAssumption, FS_CardinalityType DEF Admissible, N
  <2>2. ramp \in Nat
    BY EngineAssumption DEF Admissible, Rest
  <2>3. PerTick \in Nat
    BY <2>1, <2>2 DEF PerTick
  <2>4. attempts' = IF attempts + PerTick < N THEN attempts + PerTick ELSE N
    BY <1>1 DEF SpawnVus
  <2>5. attempts' \in Nat /\ nextSpawn' \in Nat
    BY <1>1, <2>1, <2>3, <2>4 DEF SpawnVus, Rest
  <2> QED BY <1>1, <2>5 DEF SpawnVus, Rest, inputVars
<1>2. CASE SpawnEnds
  BY <1>2 DEF SpawnEnds, Rest, inputVars
<1>3. CASE Check
  BY <1>3 DEF Check, Rest, inputVars
<1>4. CASE Act
  BY <1>4 DEF Act, Rest, inputVars
<1>5. CASE Join
  BY <1>5 DEF Join, Verdict, Rest, inputVars
<1>6. CASE Tick
  <2>1. Deadline \in Nat
    BY EngineAssumption DEF Admissible
  <2> QED BY <1>6, <2>1 DEF Tick, Rest, inputVars
<1>7. CASE Cancel
  BY <1>7 DEF Cancel, Rest, inputVars
<1>8. ASSUME NEW a \in Actors, TaskMoves(a) \/ Panic(a) PROVE Rest'
  BY <1>8, TaskKeepsRest
<1>9. CASE UNCHANGED vars
  BY <1>9 DEF vars, Rest, inputVars
<1> QED BY <1>1, <1>2, <1>3, <1>4, <1>5, <1>6, <1>7, <1>8, <1>9 DEF Next, MainMoves

LEMMA EngineIsTyped == TypeInv /\ Rest => TypeOK
<1> SUFFICES ASSUME TypeInv, Rest PROVE TypeOK
  OBVIOUS
<1>1. task \in [Actors -> {"none", "top", "bind", "steps", "request", "ended"}]
  BY DEF TypeInv, Busy
<1> QED BY <1>1 DEF TypeInv, Rest, TypeOK

----------------------------------------------------------------------------
\* The rows of the bindings are finitely many.
LEMMA RowsAreFinite == ASSUME Data!Admissible PROVE IsFiniteSet(Data!AllRows)
<1> DEFINE S == {1..Bindings[b].rows : b \in Data!BindingIds}
           f == [b \in Data!BindingIds |-> 1..Bindings[b].rows]
<1>1. IsFiniteSet(Data!BindingIds)
  <2>1. Data!BindingIds = 1..Len(Bindings) /\ Len(Bindings) \in Int /\ 1 \in Int
    BY Constants
  <2>2. IsFiniteSet(1..Len(Bindings))
    BY <2>1, FS_Interval
  <2> QED BY <2>1, <2>2
<1>2. f \in Surjection(Data!BindingIds, S)
  BY DEF Surjection
<1>3. IsFiniteSet(S)
  <2> HIDE DEF f, S
  <2> QED BY <1>1, <1>2, FS_Surjection
<1>4. ASSUME NEW T \in S PROVE IsFiniteSet(T)
  <2>1. PICK b \in Data!BindingIds : T = 1..Bindings[b].rows
    OBVIOUS
  <2>2. Bindings[b].rows \in Int /\ 1 \in Int
    BY Constants
  <2>3. IsFiniteSet(1..Bindings[b].rows)
    BY <2>2, FS_Interval
  <2> QED BY <2>1, <2>3
<1>5. Data!AllRows = UNION S
  BY DEF Data!AllRows
<1> HIDE DEF S
<1> QED BY <1>3, <1>4, <1>5, FS_UNION

\* A bucket has no more rows than the bindings have.
LEMMA BucketsAreTyped ==
    ASSUME Data!Admissible, RowsInv, NEW w \in Workers, NEW b \in Data!BindingIds
    PROVE  bucket[w][b] \in Data!BatchesOf(Data!Cardinality(Data!AllRows))
<1> DEFINE k == Len(bucket[w][b])
           m == Bindings[b].rows
           n == Cardinality(Data!AllRows)
<1>1. k \in 0..Count(w, b) /\ bucket[w][b] = Stretch(w, b, 0, k)
  BY DEF RowsInv, RowsArrive, RowsLoaded
<1>2. m \in Nat /\ Count(w, b) \in Nat /\ Offset(w, b) \in Nat /\ Offset(w, b) + Count(w, b) <= m
  BY Constants, SliceIs
<1>3. n \in Nat /\ m <= n
  <2>1. IsFiniteSet(Data!AllRows)
    BY RowsAreFinite
  <2>2. 1..m \in SUBSET Data!AllRows
    BY RowIs
  <2>3. Cardinality(1..m) = m
    <3>1. m \in Int /\ 1 \in Int /\ m \in Nat
      BY <1>2
    <3> HIDE DEF m
    <3>2. Cardinality(1..m) = IF 1 > m THEN 0 ELSE m - 1 + 1
      BY <3>1, FS_Interval
    <3> QED BY <3>1, <3>2
  <2>4. n \in Nat
    BY <2>1, FS_CardinalityType
  <2>5. Cardinality(1..m) <= n
    BY <2>1, <2>2, FS_Subset
  <2> QED BY <2>3, <2>4, <2>5
<1> HIDE DEF k, m, n
<1>4. k \in 0..n /\ k \in Nat /\ 0 + k <= Count(w, b)
  BY <1>1, <1>2, <1>3
<1>5. bucket[w][b] \in [1..k -> Data!AllRows]
  BY <1>1, <1>4, StretchIs
<1>6. bucket[w][b] \in Data!BatchesOf(n)
  BY <1>3, <1>4, <1>5, BatchIs
<1> QED BY <1>6, SameOperators DEF n

LEMMA RowsAreTyped == ASSUME Data!Admissible, RowsInv PROVE Data!TypeOK
<1>1. ASSUME NEW w \in Workers, NEW m \in Data!ToSet(chan[w])
      PROVE  \/ m \in {Data!Assignment, Data!Abort}
             \/ \E b \in Data!BindingIds, s \in Data!BatchesOf(Batch) : m = Data!Rows(b, s)
  <2>1. chan[w] \in Seq(Messages) /\ m \in ToSet(chan[w])
    BY SameOperators DEF RowsInv, RowTypes
  <2>2. m \in Messages
    BY <2>1 DEF ToSet
  <2> QED BY <2>2 DEF Messages
<1>2. \A w \in Workers : Len(chan[w]) <= ChanCap
  BY DEF RowsInv, RowTypes
<1>3. \A w \in Workers, b \in Data!BindingIds :
        bucket[w][b] \in Data!BatchesOf(Data!Cardinality(Data!AllRows))
  BY BucketsAreTyped
<1> QED BY <1>1, <1>2, <1>3 DEF RowsInv, RowTypes, Data!TypeOK

----------------------------------------------------------------------------
\* A step of the data plane is one of the engine or leaves it alone.
LEMMA StepOfTheEngine ==
    [MCNext]_<<part, vars, metricsVars, rowsVars>> => [Next]_vars
BY DEF MCNext, MetricsNext, EngineNext, DataNext

(***************************************************************************)
(* The state of each part of the data plane is of its type, whatever the   *)
(* numbers of workers, bindings, rows, slots and measurements and the      *)
(* capacities: the streams keep to their capacities, the engine to its     *)
(* bounds, and no count is larger than what was measured.                  *)
(***************************************************************************)
THEOREM DataPlaneIsTyped == MCSpec => []TypesOK
<1>1. Metrics!Spec => []Metrics!TypeOK
  BY Metrics!MeasurementsAreTyped, MetricsAssumption
<1>2. MCInit => TypeInv /\ Slots /\ Unused /\ Rest /\ RowsInv /\ Metrics!Init
  <2>1. MCInit => Init /\ Metrics!Init /\ Data!Init
    BY DEF MCInit
  <2> QED BY <2>1, InitKeepsIt, RestAtFirst, RowsAtFirst, EngineAssumption, DataAssumption
<1>3. /\ TypeInv /\ Slots /\ Unused /\ Rest /\ RowsInv
      /\ [MCNext]_<<part, vars, metricsVars, rowsVars>>
      => (TypeInv /\ Slots /\ Unused /\ Rest /\ RowsInv)'
  BY StepKeepsIt, StepKeepsRest, NextKeepsRows, StepOfTheEngine, StepOfTheRows,
     EngineAssumption, DataAssumption
<1>4. TypeInv /\ Rest /\ RowsInv /\ Metrics!TypeOK => TypesOK
  BY EngineIsTyped, RowsAreTyped, DataAssumption DEF TypesOK
<1> QED BY <1>1, <1>2, <1>3, <1>4, StepOfTheMetrics, PTL DEF MCSpec, Metrics!Spec
=============================================================================
