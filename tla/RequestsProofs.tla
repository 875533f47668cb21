--------------------------- MODULE RequestsProofs ---------------------------
(***************************************************************************)
(* What holds of the requests of MCRequests, for any number of them.       *)
(* WorkerPool: a completed run has no load left, however often workers     *)
(* reconnect; and while none does, no two runs hold one worker and what    *)
(* fails is told to stop.  Settings: the pair of heartbeat values.         *)
(* Sharding: ShardingProofs' theorem.  LoadProfile: the load that was      *)
(* posted is the load that runs, and the watchdog leaves it time to.       *)
(* Catalog: what deletions announce, what edits replace, and that imports  *)
(* are all or nothing.  All of them: their state is of its type.           *)
(***************************************************************************)
EXTENDS MCRequests, TLAPS, FiniteSetTheorems

----------------------------------------------------------------------------
(***************************************************************************)
(* Messages in a queue.                                                    *)
(***************************************************************************)
In(m, q)   == \E i \in DOMAIN q : q[i] = m
Once(m, q) == \A i, j \in DOMAIN q : q[i] = m /\ q[j] = m => i = j

LEMMA InAppended ==
    ASSUME NEW T, NEW q \in Seq(T), NEW m \in T, NEW x
    PROVE  /\ Append(q, m) \in Seq(T)
           /\ In(x, Append(q, m)) <=> In(x, q) \/ x = m
           /\ x # m /\ Once(x, q) => Once(x, Append(q, m))
           /\ ~In(x, q) => Once(x, Append(q, m))
<1>1. /\ Append(q, m) \in Seq(T) /\ Len(q) \in Nat
      /\ DOMAIN q = 1..Len(q) /\ DOMAIN Append(q, m) = 1..(Len(q) + 1)
      /\ \A i \in 1..Len(q) : Append(q, m)[i] = q[i]
      /\ Append(q, m)[Len(q) + 1] = m
  OBVIOUS
<1>2. In(x, Append(q, m)) <=> In(x, q) \/ x = m
  BY <1>1 DEF In
<1>3. x # m /\ Once(x, q) => Once(x, Append(q, m))
  BY <1>1 DEF Once
<1>4. ~In(x, q) => Once(x, Append(q, m))
  BY <1>1 DEF In, Once
<1> QED BY <1>1, <1>2, <1>3, <1>4

LEMMA InSuffix ==
    ASSUME NEW T, NEW q \in Seq(T), NEW n \in 1..Len(q), NEW p,
           p \in Seq(T), Len(p) = Len(q) - n, \A i \in 1..Len(p) : p[i] = q[i + n], NEW x
    PROVE  /\ In(x, p) => In(x, q)
           /\ Once(x, q) => Once(x, p)
           /\ Once(x, q) /\ (\E i \in 1..n : q[i] = x) => ~In(x, p)
<1>1. /\ Len(q) \in Nat /\ Len(p) \in Nat /\ DOMAIN q = 1..Len(q) /\ DOMAIN p = 1..Len(p)
      /\ n \in Nat
  OBVIOUS
<1>0. \A i \in 1..Len(p) : i + n \in 1..Len(q) /\ q[i + n] = p[i]
  <2> TAKE i \in 1..Len(p)
  <2>1. i + n \in 1..Len(q)
    BY <1>1
  <2> QED BY <2>1
<1>2. In(x, p) => In(x, q)
  BY <1>0, <1>1 DEF In
<1>3. Once(x, q) => Once(x, p)
  <2> SUFFICES ASSUME Once(x, q), NEW i \in 1..Len(p), NEW j \in 1..Len(p), p[i] = x, p[j] = x
               PROVE  i = j
    BY <1>1 DEF Once
  <2>1. i + n \in DOMAIN q /\ j + n \in DOMAIN q /\ q[i + n] = x /\ q[j + n] = x
    BY <1>0, <1>1
  <2>2. i + n = j + n
    BY <2>1 DEF Once
  <2> QED BY <1>1, <2>2
<1>4. Once(x, q) /\ (\E i \in 1..n : q[i] = x) => ~In(x, p)
  <2> SUFFICES ASSUME Once(x, q), NEW i \in 1..n, q[i] = x, NEW j \in 1..Len(p), p[j] = x
               PROVE  FALSE
    BY <1>1 DEF In
  <2>1. i \in DOMAIN q /\ j + n \in DOMAIN q /\ q[j + n] = x
    BY <1>0, <1>1
  <2>2. i = j + n
    BY <2>1 DEF Once
  <2> QED BY <1>1, <2>2
<1> QED BY <1>2, <1>3, <1>4

LEMMA InTail ==
    ASSUME NEW T, NEW q \in Seq(T), q # <<>>, NEW x
    PROVE  /\ Tail(q) \in Seq(T)
           /\ In(x, Tail(q)) => In(x, q)
           /\ Once(x, q) => Once(x, Tail(q))
           /\ Once(x, q) /\ x = Head(q) => ~In(x, Tail(q))
           /\ In(x, q) /\ x # Head(q) => In(x, Tail(q))
<1>1. /\ Tail(q) \in Seq(T) /\ Len(q) \in Nat \ {0} /\ Len(Tail(q)) = Len(q) - 1
      /\ \A i \in 1..Len(Tail(q)) : Tail(q)[i] = q[i + 1]
      /\ Head(q) = q[1]
  OBVIOUS
<1>2. PICK p, n : p = Tail(q) /\ n = 1
  OBVIOUS
<1>3. /\ n \in 1..Len(q) /\ p \in Seq(T) /\ Len(p) = Len(q) - n
      /\ \A i \in 1..Len(p) : p[i] = q[i + n]
  BY <1>1, <1>2
<1>4. (In(x, p) => In(x, q)) /\ (Once(x, q) => Once(x, p))
  BY <1>3, InSuffix
<1>5. \A i : i \in 1..n <=> i = 1
  BY <1>2
<1>6. ASSUME Once(x, q), x = Head(q) PROVE ~In(x, p)
  <2>1. \E i \in 1..n : q[i] = x
    BY <1>1, <1>5, <1>6
  <2> QED BY <1>3, <1>6, <2>1, InSuffix
<1>7. ASSUME In(x, q), x # Head(q) PROVE In(x, p)
  <2>1. PICK j \in 1..Len(q) : q[j] = x
    BY <1>7 DEF In
  <2>2. j # 1
    BY <1>1, <1>7, <2>1
  <2>3. j - 1 \in 1..Len(p) /\ (j - 1) + 1 = j
    BY <1>1, <1>2, <2>2
  <2>4. p[j - 1] = x /\ DOMAIN p = 1..Len(p)
    BY <1>2, <1>3, <2>1, <2>3
  <2> QED BY <2>3, <2>4 DEF In
<1> QED BY <1>1, <1>2, <1>4, <1>6, <1>7

LEMMA InHead ==
    ASSUME NEW T, NEW q \in Seq(T), q # <<>>
    PROVE  In(Head(q), q)
<1>1. Len(q) \in Nat \ {0} /\ DOMAIN q = 1..Len(q) /\ Head(q) = q[1]
  OBVIOUS
<1>2. 1 \in 1..Len(q)
  BY <1>1
<1> QED BY <1>1, <1>2 DEF In

LEMMA InSubSeq ==
    ASSUME NEW T, NEW q \in Seq(T), NEW n \in DOMAIN q, NEW x
    PROVE  /\ SubSeq(q, n + 1, Len(q)) \in Seq(T)
           /\ In(x, SubSeq(q, n + 1, Len(q))) => In(x, q)
           /\ Once(x, q) => Once(x, SubSeq(q, n + 1, Len(q)))
<1>1. Len(q) \in Nat /\ n \in 1..Len(q) /\ n \in Nat
  OBVIOUS
<1>2. /\ SubSeq(q, n + 1, Len(q)) \in Seq(T)
      /\ Len(SubSeq(q, n + 1, Len(q))) = Len(q) - n
      /\ \A i \in 1..Len(SubSeq(q, n + 1, Len(q))) : SubSeq(q, n + 1, Len(q))[i] = q[i + n]
  BY <1>1
<1>3. PICK p : p = SubSeq(q, n + 1, Len(q))
  OBVIOUS
<1>4. p \in Seq(T) /\ Len(p) = Len(q) - n /\ \A i \in 1..Len(p) : p[i] = q[i + n]
  BY <1>2, <1>3
<1>5. (In(x, p) => In(x, q)) /\ (Once(x, q) => Once(x, p))
  BY <1>1, <1>4, InSuffix
<1> QED BY <1>2, <1>3, <1>5

LEMMA InNone == \A x : ~In(x, <<>>) /\ Once(x, <<>>)
BY DEF In, Once

LEMMA Messages ==
    /\ \A r, q : Assign(r) = Assign(q) => r = q
    /\ \A r, q : Assign(r) # Abort(q) /\ Assign(r) # Disconnect
    /\ \A r, q, x, y : Status(r, x) = Status(q, y) => r = q /\ x = y
    /\ \A r, x : x \in Results => Status(r, x) # RegisterMsg
    /\ \A r \in Runs : Assign(r) \in ServerMsgs /\ Abort(r) \in ServerMsgs
    /\ \A r \in Runs, x \in Results : Status(r, x) \in WorkerMsgs
    /\ Disconnect \in ServerMsgs /\ RegisterMsg \in WorkerMsgs
<1>1. /\ \A r, q : Assign(r) = Assign(q) => r = q
      /\ \A r, q : Assign(r) # Abort(q) /\ Assign(r) # Disconnect
  BY DEF Assign, Abort, Disconnect
<1>2. \A r, q, x, y : Status(r, x) = Status(q, y) => r = q /\ x = y
  BY DEF Status
<1>3. \A r, x : x \in Results => Status(r, x) # RegisterMsg
  BY DEF Status, RegisterMsg, Results
<1>4. \A r \in Runs : Assign(r) \in ServerMsgs /\ Abort(r) \in ServerMsgs
  BY DEF ServerMsgs
<1>5. \A r \in Runs, x \in Results : Status(r, x) \in WorkerMsgs
  BY DEF WorkerMsgs
<1>6. Disconnect \in ServerMsgs /\ RegisterMsg \in WorkerMsgs
  BY DEF ServerMsgs, WorkerMsgs
<1> QED BY <1>1, <1>2, <1>3, <1>4, <1>5, <1>6

----------------------------------------------------------------------------
(***************************************************************************)
(* How far a run has come with a worker.  It is reserved, registered,      *)
(* assigned, at work and reported, once each and in this order: whoever is *)
(* at one of these has none of the later behind him.                       *)
(***************************************************************************)
AssignedIn(r, s) == In(Assign(r), outbox[s])
ReportedIn(r, s) == \E res \in Results : In(Status(r, res), inbox[s])

NotReported(r, w) == w \notin reported[r] /\ \A s \in Sessions : s[1] = w => ~ReportedIn(r, s)
NotRunning(r, w)  == NotReported(r, w) /\ job[w] # r
NotSent(r, w)     == NotRunning(r, w) /\ \A s \in Sessions : s[1] = w => ~AssignedIn(r, s)

PushingTo(r, w)     == launch[r] = "pushing" /\ current[r][1] = w
NotRegistered(r, w) == NotSent(r, w) /\ w \notin MemberWorkers(r) /\ ~PushingTo(r, w)

TypeInv ==
    /\ entry \in [Workers -> [chan : 0..MaxSessions, run : Runs \cup {NoRun}]]
    /\ launch \in [Runs -> {"new", "reserved", "assigning", "pushing", "launched",
                            "cancel", "failed"}]
    /\ queue \in [Runs -> SUBSET Sessions]
    /\ current \in [Runs -> Sessions \cup {NoSession}]
    /\ expected \in [Runs -> Nat]
    /\ present \in [Runs -> BOOLEAN]
    /\ verdict \in [Runs -> {"none"} \cup Results]
    /\ members \in [Runs -> SUBSET Sessions]
    /\ reported \in [Runs -> SUBSET Workers]
    /\ inbox \in [Sessions -> Seq(WorkerMsgs)]
    /\ outbox \in [Sessions -> Seq(ServerMsgs)]
    /\ gone \in [Sessions -> BOOLEAN]
    /\ worker \in [Workers -> {"connect", "wait", "run", "exited"}]
    /\ session \in [Workers -> 0..MaxSessions]
    /\ job \in [Workers -> Runs \cup {NoRun}]
    /\ evicting \subseteq Workers

\* A worker that is at work has a connection, and registers first on each.
Lines ==
    /\ \A s \in Sessions : gone[s] => outbox[s] = <<>>
    /\ \A w \in Workers : worker[w] \in {"wait", "run"} => session[w] # 0 /\ ~gone[Current(w)]
    /\ \A w \in Workers : (worker[w] = "run" <=> job[w] # NoRun)
    /\ \A s \in Sessions : Once(RegisterMsg, inbox[s])
    /\ \A s \in Sessions : session[s[1]] < s[2] => inbox[s] = <<>>

Stages ==
    \A r \in Runs :
        /\ launch[r] \in {"new", "reserved"} => \A w \in Workers : NotRegistered(r, w)
        /\ \A s \in queue[r] : NotRegistered(r, s[1])
        /\ \A s, t \in queue[r] : s[1] = t[1] => s = t
        /\ launch[r] = "pushing" => current[r] \in Sessions /\ NotSent(r, current[r][1])
        /\ \A s \in Sessions : AssignedIn(r, s) => NotRunning(r, s[1])
        /\ \A s, t \in Sessions : s[1] = t[1] /\ AssignedIn(r, s) /\ AssignedIn(r, t) => s = t
        /\ \A s \in Sessions : Once(Assign(r), outbox[s])
        /\ \A w \in Workers : job[w] = r => NotReported(r, w)

\* No load of the run is on its way or at work.
Over(r) ==
    /\ queue[r] = {} /\ launch[r] # "pushing"
    /\ \A s \in Sessions : ~AssignedIn(r, s)
    /\ \A w \in Workers : job[w] # r

\* Whoever is assigned is a member of the run, but of a failed one; and a run
\* waits for as many as it has members and reservations.
Enrolled ==
    \A r \in Runs :
        /\ launch[r] \in {"new", "reserved"} =>
             ~present[r] /\ verdict[r] = "none" /\ members[r] = {}
        /\ launch[r] \in {"assigning", "pushing", "cancel", "launched"} => present[r]
        /\ present[r] => Cardinality(members[r] \cup queue[r]) <= expected[r]
        /\ present[r] /\ verdict[r] # "failed" =>
             /\ launch[r] = "pushing" => current[r] \in members[r]
             /\ \A s \in Sessions : AssignedIn(r, s) => s \in members[r]
             /\ \A w \in Workers : job[w] = r => Current(w) \in members[r]
        /\ verdict[r] = "completed" => Over(r)

Inv == TypeInv /\ Lines /\ Stages /\ Enrolled

----------------------------------------------------------------------------
(***************************************************************************)
(* What the steps do to the queues and the connections.                    *)
(***************************************************************************)
LEMMA SessionFacts ==
    /\ MaxSessions \in Nat
    /\ \A s \in Sessions : s[1] \in Workers /\ s[2] \in 1..MaxSessions /\ s = <<s[1], s[2]>>
    /\ \A w \in Workers, n \in 1..MaxSessions : <<w, n>> \in Sessions
BY WorkerPoolAssumption DEF Sessions

LEMMA SentTo ==
    ASSUME TypeInv, NEW targets, NEW m \in ServerMsgs, SendTo(targets, m)
    PROVE  /\ outbox' \in [Sessions -> Seq(ServerMsgs)]
           /\ \A s \in Sessions : s \notin targets \/ gone[s] => outbox'[s] = outbox[s]
           /\ \A s \in Sessions : \A x : In(x, outbox'[s]) <=>
                In(x, outbox[s]) \/ (x = m /\ s \in targets /\ ~gone[s])
           /\ \A s \in Sessions : \A x : x # m /\ Once(x, outbox[s]) => Once(x, outbox'[s])
<1>1. /\ \A s \in Sessions : outbox'[s] = IF s \in targets /\ ~gone[s]
                                          THEN Append(outbox[s], m) ELSE outbox[s]
      /\ DOMAIN outbox' = Sessions /\ outbox' = [s \in Sessions |-> outbox'[s]]
  BY DEF SendTo
<1>2. \A s \in Sessions : outbox[s] \in Seq(ServerMsgs)
  BY DEF TypeInv
<1>3. \A s \in Sessions : /\ Append(outbox[s], m) \in Seq(ServerMsgs)
                          /\ \A x : In(x, Append(outbox[s], m)) <=> In(x, outbox[s]) \/ x = m
                          /\ \A x : x # m /\ Once(x, outbox[s]) => Once(x, Append(outbox[s], m))
  BY <1>2, InAppended
<1>4. \A s \in Sessions : outbox'[s] \in Seq(ServerMsgs)
  BY <1>1, <1>2, <1>3
<1>5. outbox' \in [Sessions -> Seq(ServerMsgs)]
  BY <1>1, <1>4
<1> QED BY <1>1, <1>3, <1>5

LEMMA HungUp ==
    ASSUME TypeInv, NEW closing, HangUp(closing)
    PROVE  /\ outbox' \in [Sessions -> Seq(ServerMsgs)]
           /\ gone' \in [Sessions -> BOOLEAN]
           /\ \A s \in Sessions : gone'[s] <=> gone[s] \/ s \in closing
           /\ \A s \in Sessions : s \in closing => outbox'[s] = <<>>
           /\ \A s \in Sessions : s \notin closing => outbox'[s] = outbox[s]
<1>1. /\ gone' = [s \in Sessions |-> gone[s] \/ s \in closing]
      /\ outbox' = [s \in Sessions |-> IF s \in closing THEN <<>> ELSE outbox[s]]
  BY DEF HangUp
<1>2. /\ \A s \in Sessions : gone'[s] <=> gone[s] \/ s \in closing
      /\ gone' \in [Sessions -> BOOLEAN]
  BY <1>1, Zenon
<1>3. outbox' \in [Sessions -> Seq(ServerMsgs)]
  BY <1>1 DEF TypeInv
<1> QED BY <1>1, <1>2, <1>3

\* What a worker hears last, and what it had heard before.
LEMMA Heard ==
    ASSUME TypeInv, NEW s \in Sessions, NEW m, Receives(s, m),
           outbox' = [outbox EXCEPT ![s] = Tail(@)]
    PROVE  /\ outbox' \in [Sessions -> Seq(ServerMsgs)]
           /\ In(m, outbox[s])
           /\ \A t \in Sessions : t # s => outbox'[t] = outbox[t]
           /\ \A x : In(x, outbox'[s]) => In(x, outbox[s])
           /\ \A x : In(x, outbox[s]) /\ x # m => In(x, outbox'[s])
           /\ \A x : Once(x, outbox[s]) => Once(x, outbox'[s])
           /\ Once(m, outbox[s]) => ~In(m, outbox'[s])
<1>1. outbox[s] \in Seq(ServerMsgs) /\ outbox[s] # <<>> /\ Head(outbox[s]) = m
  BY DEF TypeInv, Receives
<1>2. PICK p : p = Tail(outbox[s])
  OBVIOUS
<1>3. /\ p \in Seq(ServerMsgs) /\ In(m, outbox[s])
      /\ \A x : In(x, p) => In(x, outbox[s])
      /\ \A x : In(x, outbox[s]) /\ x # m => In(x, p)
      /\ \A x : Once(x, outbox[s]) => Once(x, p)
      /\ Once(m, outbox[s]) => ~In(m, p)
  BY <1>1, <1>2, InTail, InHead
<1>4. outbox' = [outbox EXCEPT ![s] = p]
  BY <1>2
<1>5. outbox'[s] = p /\ (\A t \in Sessions : t # s => outbox'[t] = outbox[t])
      /\ outbox' \in [Sessions -> Seq(ServerMsgs)]
  BY <1>3, <1>4 DEF TypeInv
<1> QED BY <1>3, <1>5

LEMMA ReadMsg ==
    ASSUME TypeInv, NEW s \in Sessions, NEW m, Reads(s, m)
    PROVE  /\ inbox' \in [Sessions -> Seq(WorkerMsgs)]
           /\ In(m, inbox[s]) /\ inbox[s] # <<>>
           /\ \A t \in Sessions : t # s => inbox'[t] = inbox[t]
           /\ \A x : In(x, inbox'[s]) => In(x, inbox[s])
           /\ \A x : Once(x, inbox[s]) => Once(x, inbox'[s])
           /\ Once(m, inbox[s]) => ~In(m, inbox'[s])
<1>1. /\ inbox[s] \in Seq(WorkerMsgs) /\ inbox[s] # <<>> /\ Head(inbox[s]) = m
      /\ inbox' = [inbox EXCEPT ![s] = Tail(inbox[s])]
  BY DEF TypeInv, Reads
<1>2. PICK p : p = Tail(inbox[s])
  OBVIOUS
<1>3. /\ p \in Seq(WorkerMsgs) /\ In(m, inbox[s])
      /\ \A x : In(x, p) => In(x, inbox[s])
      /\ \A x : Once(x, inbox[s]) => Once(x, p)
      /\ Once(m, inbox[s]) => ~In(m, p)
  BY <1>1, <1>2, InTail, InHead
<1>4. inbox' = [inbox EXCEPT ![s] = p]
  BY <1>1, <1>2
<1>5. inbox'[s] = p /\ (\A t \in Sessions : t # s => inbox'[t] = inbox[t])
      /\ inbox' \in [Sessions -> Seq(WorkerMsgs)]
  BY <1>3, <1>4 DEF TypeInv
<1> QED BY <1>1, <1>3, <1>5

LEMMA SaidMsg ==
    ASSUME TypeInv, NEW s \in Sessions, NEW m \in WorkerMsgs,
           inbox' = [inbox EXCEPT ![s] = Append(@, m)]
    PROVE  /\ inbox' \in [Sessions -> Seq(WorkerMsgs)]
           /\ \A t \in Sessions : t # s => inbox'[t] = inbox[t]
           /\ \A x : In(x, inbox'[s]) <=> In(x, inbox[s]) \/ x = m
           /\ \A x : x # m /\ Once(x, inbox[s]) => Once(x, inbox'[s])
<1>1. inbox[s] \in Seq(WorkerMsgs)
  BY DEF TypeInv
<1>2. PICK p : p = Append(inbox[s], m)
  OBVIOUS
<1>3. /\ p \in Seq(WorkerMsgs)
      /\ \A x : In(x, p) <=> In(x, inbox[s]) \/ x = m
      /\ \A x : x # m /\ Once(x, inbox[s]) => Once(x, p)
  BY <1>1, <1>2, InAppended
<1>4. inbox' = [inbox EXCEPT ![s] = p]
  BY <1>2
<1>5. inbox'[s] = p /\ (\A t \in Sessions : t # s => inbox'[t] = inbox[t])
      /\ inbox' \in [Sessions -> Seq(WorkerMsgs)]
  BY <1>3, <1>4 DEF TypeInv
<1> QED BY <1>3, <1>5

LEMMA CurrentIs ==
    ASSUME TypeInv, NEW w \in Workers, session[w] # 0
    PROVE  Current(w) \in Sessions /\ Current(w)[1] = w /\ Current(w)[2] = session[w]
BY SessionFacts DEF TypeInv, Current

----------------------------------------------------------------------------
(***************************************************************************)
(* Stages and Enrolled, by what a step may do.                             *)
(***************************************************************************)
AssignsShrink ==
    \A r \in Runs, s \in Sessions :
        /\ AssignedIn(r, s)' => AssignedIn(r, s)
        /\ Once(Assign(r), outbox[s]) => Once(Assign(r), outbox[s])'

LEMMA StagesKept ==
    ASSUME TypeInv, Stages, AssignsShrink,
           \A r \in Runs, w \in Workers : NotRunning(r, w) => NotRunning(r, w)',
           \A r \in Runs, w \in Workers : job'[w] = r => NotReported(r, w)',
           \A r \in Runs : launch'[r] \in {"new", "reserved"} =>
             launch[r] \in {"new", "reserved"} /\ members'[r] \subseteq members[r],
           \A r \in Runs : \A s \in queue'[r] :
             s \in Sessions /\ NotSent(r, s[1]) /\ s[1] \notin MemberWorkers(r)' /\ ~PushingTo(r, s[1])',
           \A r \in Runs : \A s, t \in queue'[r] : s[1] = t[1] => s = t,
           \A r \in Runs : launch'[r] = "pushing" =>
             current'[r] \in Sessions /\ NotSent(r, current'[r][1])
    PROVE  Stages'
<1>1. \A r \in Runs, w \in Workers : NotSent(r, w) => NotSent(r, w)'
  BY DEF NotSent, AssignsShrink
<1> SUFFICES ASSUME NEW r \in Runs
             PROVE  (/\ launch[r] \in {"new", "reserved"} => \A w \in Workers : NotRegistered(r, w)
                     /\ \A s \in queue[r] : NotRegistered(r, s[1])
                     /\ \A s, t \in queue[r] : s[1] = t[1] => s = t
                     /\ launch[r] = "pushing" => current[r] \in Sessions /\ NotSent(r, current[r][1])
                     /\ \A s \in Sessions : AssignedIn(r, s) => NotRunning(r, s[1])
                     /\ \A s, t \in Sessions :
                          s[1] = t[1] /\ AssignedIn(r, s) /\ AssignedIn(r, t) => s = t
                     /\ \A s \in Sessions : Once(Assign(r), outbox[s])
                     /\ \A w \in Workers : job[w] = r => NotReported(r, w))'
  BY DEF Stages
<1>2. ASSUME launch'[r] \in {"new", "reserved"}, NEW w \in Workers PROVE NotRegistered(r, w)'
  <2>1. NotRegistered(r, w) /\ members'[r] \subseteq members[r]
    BY <1>2 DEF Stages
  <2>2. w \notin MemberWorkers(r)'
    BY <2>1 DEF NotRegistered, MemberWorkers
  <2> QED BY <1>1, <1>2, <2>1, <2>2 DEF NotRegistered, PushingTo
<1>3. \A s \in queue'[r] : NotRegistered(r, s[1])'
  BY <1>1, SessionFacts DEF NotRegistered
<1>4. launch'[r] = "pushing" => current'[r] \in Sessions /\ NotSent(r, current[r][1])'
  <2> SUFFICES ASSUME launch'[r] = "pushing"
               PROVE  current'[r] \in Sessions /\ NotSent(r, current[r][1])'
    OBVIOUS
  <2>1. PICK w \in Workers : w = current'[r][1] /\ NotSent(r, w)
    BY SessionFacts
  <2>2. NotSent(r, w)'
    BY <1>1, <2>1
  <2> QED BY <2>1, <2>2 DEF NotSent, NotRunning, NotReported
<1>5. \A s \in Sessions : AssignedIn(r, s)' => NotRunning(r, s[1])'
  BY SessionFacts DEF Stages, AssignsShrink
<1>6. \A s, t \in Sessions : s[1] = t[1] /\ AssignedIn(r, s)' /\ AssignedIn(r, t)' => s = t
  BY DEF Stages, AssignsShrink
<1>7. \A s \in Sessions : Once(Assign(r), outbox[s])'
  BY DEF Stages, AssignsShrink
<1> QED BY <1>2, <1>3, <1>4, <1>5, <1>6, <1>7

LEMMA Finite ==
    ASSUME NEW S \in SUBSET Sessions
    PROVE  IsFiniteSet(S) /\ Cardinality(S) \in Nat
<1>1. IsFiniteSet(Sessions)
  <2>1. 1 \in Int /\ MaxSessions \in Int /\ IsFiniteSet(Workers)
    BY WorkerPoolAssumption
  <2>2. IsFiniteSet(1..MaxSessions)
    BY <2>1, FS_Interval
  <2> QED BY <2>1, <2>2, FS_Product DEF Sessions
<1> QED BY <1>1, FS_Subset, FS_CardinalityType

LEMMA Smaller2 ==
    ASSUME NEW S \in SUBSET Sessions, NEW T \in SUBSET S
    PROVE  Cardinality(T) <= Cardinality(S) /\ (Cardinality(T) = Cardinality(S) => S = T)
BY Finite, FS_Subset

\* A run is decided at most once, and removes members only as it fails.
Decides ==
    \A r \in Runs :
        \/ verdict'[r] = verdict[r] /\ members'[r] = members[r]
        \/ present[r] /\ verdict'[r] = "failed" /\ members'[r] \subseteq members[r]
        \/ /\ present[r] /\ verdict[r] # "failed" /\ members'[r] = members[r]
           /\ verdict'[r] = "aborted" \/ (verdict'[r] = "completed" /\ Over(r))

\* What all steps do but those of a launch, and the worker's that accepts it.
Quiet ==
    /\ AssignsShrink /\ Decides /\ UNCHANGED launchVars
    /\ \A r \in Runs, w \in Workers : job'[w] = r => job[w] = r /\ session'[w] = session[w]

LEMMA MoveKeepsIt ==
    ASSUME Inv, TypeInv', Lines', AssignsShrink, Decides, UNCHANGED <<launchVars, expected, present>>,
           \A r \in Runs, w \in Workers : NotRunning(r, w) => NotRunning(r, w)',
           \A r \in Runs, w \in Workers : job'[w] = r =>
             job[w] = r /\ session'[w] = session[w] /\ NotReported(r, w)'
    PROVE  Inv' /\ Quiet
<1> USE DEF Inv
<1>1. UNCHANGED <<launch, queue, current>>
  BY DEF launchVars
<1>2. \A r \in Runs : members'[r] \subseteq members[r]
  BY DEF Decides
<1>3. Stages'
  <2>1. \A r \in Runs : \A s \in queue'[r] :
          s \in Sessions /\ NotSent(r, s[1]) /\ s[1] \notin MemberWorkers(r)' /\ ~PushingTo(r, s[1])'
    <3> SUFFICES ASSUME NEW r \in Runs, NEW s \in queue[r]
                 PROVE  s \in Sessions /\ NotSent(r, s[1]) /\ s[1] \notin MemberWorkers(r)'
                        /\ ~PushingTo(r, s[1])'
      BY <1>1
    <3>1. s \in Sessions /\ NotRegistered(r, s[1])
      BY DEF TypeInv, Stages
    <3> QED BY <1>1, <1>2, <3>1 DEF NotRegistered, MemberWorkers, PushingTo
  <2>2. /\ \A r \in Runs : \A s, t \in queue'[r] : s[1] = t[1] => s = t
        /\ \A r \in Runs : launch'[r] = "pushing" =>
             current'[r] \in Sessions /\ NotSent(r, current'[r][1])
    BY <1>1 DEF Stages
  <2> QED BY <1>1, <1>2, <2>1, <2>2, StagesKept
<1>4. Enrolled'
  <2> SUFFICES ASSUME NEW r \in Runs
               PROVE  (/\ launch[r] \in {"new", "reserved"} =>
                            ~present[r] /\ verdict[r] = "none" /\ members[r] = {}
                       /\ launch[r] \in {"assigning", "pushing", "cancel", "launched"} => present[r]
                       /\ present[r] => Cardinality(members[r] \cup queue[r]) <= expected[r]
                       /\ present[r] /\ verdict[r] # "failed" =>
                            /\ launch[r] = "pushing" => current[r] \in members[r]
                            /\ \A s \in Sessions : AssignedIn(r, s) => s \in members[r]
                            /\ \A w \in Workers : job[w] = r => Current(w) \in members[r]
                       /\ verdict[r] = "completed" => Over(r))'
    BY DEF Enrolled
  <2>1. launch'[r] \in {"new", "reserved"} =>
          ~present'[r] /\ verdict'[r] = "none" /\ members'[r] = {}
    BY <1>1 DEF Enrolled, Decides
  <2>2. present'[r] => Cardinality(members'[r] \cup queue'[r]) <= expected'[r]
    <3>1. /\ members[r] \cup queue[r] \in SUBSET Sessions
          /\ members'[r] \cup queue'[r] \in SUBSET (members[r] \cup queue[r])
          /\ expected[r] \in Nat
      BY <1>1, <1>2 DEF TypeInv
    <3>2. Cardinality(members'[r] \cup queue'[r]) <= Cardinality(members[r] \cup queue[r])
          /\ Cardinality(members'[r] \cup queue'[r]) \in Nat /\ Cardinality(members[r] \cup queue[r]) \in Nat
      BY <3>1, Smaller2, Finite
    <3> QED BY <3>1, <3>2 DEF Enrolled
  <2>3. present'[r] /\ verdict'[r] # "failed" =>
          /\ launch'[r] = "pushing" => current'[r] \in members'[r]
          /\ \A s \in Sessions : AssignedIn(r, s)' => s \in members'[r]
          /\ \A w \in Workers : job'[w] = r => Current(w)' \in members'[r]
    <3> SUFFICES ASSUME present[r], verdict'[r] # "failed"
                 PROVE  /\ launch[r] = "pushing" => current[r] \in members'[r]
                        /\ \A s \in Sessions : AssignedIn(r, s)' => s \in members'[r]
                        /\ \A w \in Workers : job'[w] = r => Current(w)' \in members'[r]
      BY <1>1
    <3>1. verdict[r] # "failed" /\ members'[r] = members[r]
      BY DEF Decides
    <3>2. \A w \in Workers : job'[w] = r => job[w] = r /\ Current(w)' = Current(w)
      BY DEF Current
    <3>3. /\ launch[r] = "pushing" => current[r] \in members[r]
          /\ \A s \in Sessions : AssignedIn(r, s) => s \in members[r]
          /\ \A w \in Workers : job[w] = r => Current(w) \in members[r]
      BY <3>1 DEF Enrolled
    <3>4. \A s \in Sessions : AssignedIn(r, s)' => AssignedIn(r, s)
      BY DEF AssignsShrink
    <3> QED BY <3>1, <3>2, <3>3, <3>4
  <2>4. verdict'[r] = "completed" => Over(r)'
    <3>1. verdict'[r] = "completed" => Over(r)
      BY DEF Decides, Enrolled
    <3>2. Over(r) => Over(r)'
      BY <1>1 DEF Over, AssignsShrink
    <3> QED BY <3>1, <3>2
  <2>5. launch'[r] \in {"assigning", "pushing", "cancel", "launched"} => present'[r]
    BY <1>1 DEF Enrolled
  <2> QED BY <2>1, <2>2, <2>3, <2>4, <2>5
<1> QED BY <1>3, <1>4 DEF Quiet

\* A step that sends something else than an assignment, or nothing.
LEMMA Sending ==
    ASSUME TypeInv, Lines, NEW targets, NEW m \in ServerMsgs, \A r \in Runs : m # Assign(r),
           SendTo(targets, m) \/ outbox' = outbox
    PROVE  /\ outbox' \in [Sessions -> Seq(ServerMsgs)] /\ AssignsShrink
           /\ \A s \in Sessions : gone[s] => outbox'[s] = <<>>
<1>1. CASE SendTo(targets, m)
  <2>1. /\ outbox' \in [Sessions -> Seq(ServerMsgs)]
        /\ \A s \in Sessions : gone[s] => outbox'[s] = outbox[s]
        /\ \A s \in Sessions : \A x : x # m => (In(x, outbox'[s]) <=> In(x, outbox[s]))
        /\ \A s \in Sessions : \A x : x # m /\ Once(x, outbox[s]) => Once(x, outbox'[s])
    BY <1>1, SentTo
  <2> QED BY <2>1 DEF AssignsShrink, AssignedIn, Lines
<1>2. CASE outbox' = outbox
  BY <1>2 DEF AssignsShrink, AssignedIn, Lines, TypeInv
<1> QED BY <1>1, <1>2

LEMMA Closing ==
    ASSUME TypeInv, NEW closing, HangUp(closing)
    PROVE  AssignsShrink
<1>1. /\ \A s \in Sessions : s \in closing => outbox'[s] = <<>>
      /\ \A s \in Sessions : s \notin closing => outbox'[s] = outbox[s]
  BY HungUp
<1> QED BY <1>1, InNone DEF AssignsShrink, AssignedIn

LEMMA NoMove ==
    ASSUME UNCHANGED <<inbox, reported, job>>
    PROVE  /\ \A r \in Runs, w \in Workers : NotReported(r, w) => NotReported(r, w)'
           /\ \A r \in Runs, w \in Workers : NotRunning(r, w) => NotRunning(r, w)'
BY DEF NotRunning, NotReported, ReportedIn

\* The pool forgets a worker, and fails the run it was to report to.
LEMMA PoolForgets ==
    ASSUME Inv, NEW w \in Workers, PoolDisconnect(w)
    PROVE  /\ entry' \in [Workers -> [chan : 0..MaxSessions, run : Runs \cup {NoRun}]]
           /\ verdict' \in [Runs -> {"none"} \cup Results]
           /\ members' \in [Runs -> SUBSET Sessions]
           /\ outbox' \in [Sessions -> Seq(ServerMsgs)]
           /\ Decides /\ AssignsShrink
           /\ \A s \in Sessions : gone[s] => outbox'[s] = <<>>
<1> USE DEF Inv
<1>1. entry' \in [Workers -> [chan : 0..MaxSessions, run : Runs \cup {NoRun}]]
  <2>1. NoEntry \in [chan : 0..MaxSessions, run : Runs \cup {NoRun}]
    BY SessionFacts DEF NoEntry
  <2> QED BY <2>1 DEF PoolDisconnect, TypeInv
<1>2. CASE UNCHANGED <<verdict, members, outbox>>
  BY <1>1, <1>2 DEF Decides, AssignsShrink, AssignedIn, Lines, TypeInv
<1>3. CASE ~UNCHANGED <<verdict, members, outbox>>
  <2>1. PICK r \in Runs : present[r] /\ FailRun(r, w)
    <3>1. PICK r : r = entry[w].run
      OBVIOUS
    <3>2. r \in Runs \cup {NoRun}
      BY <3>1 DEF TypeInv
    <3>3. r # NoRun /\ present[r] /\ FailRun(r, w)
      BY <1>3, <3>1 DEF PoolDisconnect, WorkerDisconnected
    <3> QED BY <3>2, <3>3
  <2>2. Abort(r) \in ServerMsgs /\ \A q \in Runs : Abort(r) # Assign(q)
    BY Messages
  <2>3. /\ verdict' = [verdict EXCEPT ![r] = "failed"]
        /\ members' = [members EXCEPT ![r] = members[r] \ SessionsOf({w}, r)]
        /\ SendTo(members[r] \ SessionsOf({w}, r), Abort(r))
    BY <2>1 DEF FailRun
  <2>4. /\ outbox' \in [Sessions -> Seq(ServerMsgs)] /\ AssignsShrink
        /\ \A s \in Sessions : gone[s] => outbox'[s] = <<>>
    BY <2>2, <2>3, Sending
  <2>5. /\ verdict' \in [Runs -> {"none"} \cup Results] /\ members' \in [Runs -> SUBSET Sessions]
        /\ verdict'[r] = "failed" /\ members'[r] \subseteq members[r]
        /\ \A q \in Runs : q # r => verdict'[q] = verdict[q] /\ members'[q] = members[q]
    BY <2>3 DEF TypeInv, Results
  <2> QED BY <1>1, <2>1, <2>4, <2>5 DEF Decides
<1> QED BY <1>2, <1>3

LEMMA DisconnectsKeepIt ==
    ASSUME Inv, (\E s \in Sessions : HandleEof(s)) \/ (\E w \in Workers : HeartbeatEvict(w))
    PROVE  Inv' /\ Quiet
<1> USE DEF Inv
<1>1. PICK w \in Workers : PoolDisconnect(w)
  BY SessionFacts DEF HandleEof, HeartbeatEvict
<1>2. /\ UNCHANGED <<launchVars, expected, present, reported, inbox, gone, workerVars>>
      /\ evicting' \subseteq evicting
  BY DEF HandleEof, HeartbeatEvict
<1>3. /\ entry' \in [Workers -> [chan : 0..MaxSessions, run : Runs \cup {NoRun}]]
      /\ verdict' \in [Runs -> {"none"} \cup Results]
      /\ members' \in [Runs -> SUBSET Sessions]
      /\ outbox' \in [Sessions -> Seq(ServerMsgs)]
      /\ Decides /\ AssignsShrink
      /\ \A s \in Sessions : gone[s] => outbox'[s] = <<>>
  BY <1>1, PoolForgets
<1>4. UNCHANGED <<launch, queue, current, worker, session, job>>
  BY <1>2 DEF launchVars, workerVars
<1>5. TypeInv'
  BY <1>2, <1>3, <1>4 DEF TypeInv
<1>6. Lines'
  BY <1>2, <1>3, <1>4 DEF Lines, Current
<1>7. \A r \in Runs, v \in Workers : NotReported(r, v) => NotReported(r, v)'
  BY <1>2, <1>4, NoMove
<1>8. \A r \in Runs, v \in Workers : NotRunning(r, v) => NotRunning(r, v)'
  BY <1>2, <1>4, NoMove
<1>9. \A r \in Runs, v \in Workers : job'[v] = r =>
        job[v] = r /\ session'[v] = session[v] /\ NotReported(r, v)'
  BY <1>4, <1>7 DEF Stages
<1> QED BY <1>2, <1>3, <1>5, <1>6, <1>8, <1>9, MoveKeepsIt

LEMMA AbortsKeepIt ==
    ASSUME Inv, NEW r \in Runs, UserAbort(r) \/ WatchdogFails(r)
    PROVE  Inv' /\ Quiet
<1> USE DEF Inv
<1>1. /\ UNCHANGED <<entry, launchVars, expected, present, members, reported, inbox, gone,
                     workerVars, evicting>>
      /\ present[r] /\ SendTo(members[r], Abort(r))
      /\ verdict' = verdict \/ verdict' = [verdict EXCEPT ![r] = "failed"]
  BY DEF UserAbort, WatchdogFails, runVars
<1>2. Abort(r) \in ServerMsgs /\ \A q \in Runs : Abort(r) # Assign(q)
  BY Messages
<1>3. /\ outbox' \in [Sessions -> Seq(ServerMsgs)] /\ AssignsShrink
      /\ \A s \in Sessions : gone[s] => outbox'[s] = <<>>
  BY <1>1, <1>2, Sending
<1>4. UNCHANGED <<launch, queue, current, worker, session, job>>
  BY <1>1 DEF launchVars, workerVars
<1>5. /\ verdict' \in [Runs -> {"none"} \cup Results]
      /\ verdict'[r] = verdict[r] \/ verdict'[r] = "failed"
      /\ \A q \in Runs : q # r => verdict'[q] = verdict[q]
  BY <1>1 DEF TypeInv, Results
<1>6. Decides
  BY <1>1, <1>5 DEF Decides
<1>7. TypeInv'
  BY <1>1, <1>3, <1>4, <1>5 DEF TypeInv
<1>8. Lines'
  BY <1>1, <1>3, <1>4 DEF Lines, Current
<1>9. \A q \in Runs, w \in Workers : NotReported(q, w) => NotReported(q, w)'
  BY <1>1, <1>4, NoMove
<1>10. \A q \in Runs, w \in Workers : NotRunning(q, w) => NotRunning(q, w)'
  BY <1>1, <1>4, NoMove
<1>11. \A q \in Runs, w \in Workers : job'[w] = q =>
         job[w] = q /\ session'[w] = session[w] /\ NotReported(q, w)'
  BY <1>4, <1>9 DEF Stages
<1> QED BY <1>1, <1>3, <1>6, <1>7, <1>8, <1>10, <1>11, MoveKeepsIt

LEMMA ExcludeKeepsIt ==
    ASSUME Inv, NEW w \in Workers, Exclude(w)
    PROVE  Inv' /\ Quiet
<1> USE DEF Inv
<1>17. PICK r, s : r = entry[w].run /\ s = <<w, entry[w].chan>>
  OBVIOUS
<1>18. PICK fails \in BOOLEAN :
         fails <=> /\ r # NoRun /\ present[r] /\ ~IsTerminal(r)
                   /\ w \in MemberWorkers(r) \ reported[r]
  <2>1. (r # NoRun /\ present[r] /\ ~IsTerminal(r) /\ w \in MemberWorkers(r) \ reported[r])
          \in BOOLEAN
    OBVIOUS
  <2> QED BY <2>1, Zenon
<1>19. PICK siblings : siblings = IF fails THEN members[r] \ SessionsOf({w}, r) ELSE {}
  OBVIOUS
<1>1. /\ r = entry[w].run
      /\ \/ UNCHANGED <<verdict, members>>
         \/ /\ r # NoRun /\ present[r]
            /\ verdict' = [verdict EXCEPT ![r] = "failed"]
            /\ members' = [members EXCEPT ![r] = siblings]
            /\ siblings \subseteq members[r]
      /\ siblings = {} \/ r # NoRun
      /\ outbox' = [t \in Sessions |->
                      IF gone[t] THEN outbox[t]
                      ELSE IF t = s THEN Append(outbox[t], Disconnect)
                      ELSE IF t \in siblings THEN Append(outbox[t], Abort(r))
                      ELSE outbox[t]]
  <2>1. /\ verdict' = IF fails THEN [verdict EXCEPT ![r] = "failed"] ELSE verdict
        /\ members' = IF fails THEN [members EXCEPT ![r] = siblings] ELSE members
        /\ outbox' = [t \in Sessions |->
                        IF gone[t] THEN outbox[t]
                        ELSE IF t = s THEN Append(outbox[t], Disconnect)
                        ELSE IF t \in siblings THEN Append(outbox[t], Abort(r))
                        ELSE outbox[t]]
    BY <1>17, <1>18, <1>19 DEF Exclude
  <2>2. CASE fails
    BY <1>17, <1>18, <1>19, <2>1, <2>2
  <2>3. CASE ~fails
    BY <1>17, <1>19, <2>1, <2>3
  <2> QED BY <2>2, <2>3
<1>2. UNCHANGED <<launchVars, expected, present, reported, inbox, gone, workerVars, evicting>>
  BY DEF Exclude
<1>3. UNCHANGED <<launch, queue, current, worker, session, job>>
  BY <1>2 DEF launchVars, workerVars
<1>4. r \in Runs \cup {NoRun}
  BY <1>1 DEF TypeInv
<1>5. /\ DOMAIN outbox' = Sessions /\ outbox' = [t \in Sessions |-> outbox'[t]]
      /\ \A t \in Sessions :
        \/ outbox'[t] = outbox[t]
        \/ ~gone[t] /\ outbox'[t] = Append(outbox[t], Disconnect)
        \/ ~gone[t] /\ r \in Runs /\ outbox'[t] = Append(outbox[t], Abort(r))
  BY <1>1, <1>4
<1>6. \A t \in Sessions : outbox[t] \in Seq(ServerMsgs)
  BY DEF TypeInv
<1>7. \A t \in Sessions :
        /\ outbox'[t] \in Seq(ServerMsgs)
        /\ \A q \in Runs : In(Assign(q), outbox'[t]) => In(Assign(q), outbox[t])
        /\ \A q \in Runs : Once(Assign(q), outbox[t]) => Once(Assign(q), outbox'[t])
        /\ gone[t] => outbox'[t] = outbox[t]
  <2> TAKE t \in Sessions
  <2>1. CASE outbox'[t] = outbox[t]
    BY <1>6, <2>1
  <2>2. ASSUME NEW m \in ServerMsgs, ~gone[t], outbox'[t] = Append(outbox[t], m),
               \A q \in Runs : Assign(q) # m
        PROVE  /\ outbox'[t] \in Seq(ServerMsgs)
               /\ \A q \in Runs : In(Assign(q), outbox'[t]) => In(Assign(q), outbox[t])
               /\ \A q \in Runs : Once(Assign(q), outbox[t]) => Once(Assign(q), outbox'[t])
    BY <1>6, <2>2, InAppended
  <2> QED BY <1>5, <2>1, <2>2, Messages
<1>8. outbox' \in [Sessions -> Seq(ServerMsgs)]
  BY <1>5, <1>7
<1>9. AssignsShrink
  BY <1>7 DEF AssignsShrink, AssignedIn
<1>10. /\ verdict' \in [Runs -> {"none"} \cup Results] /\ members' \in [Runs -> SUBSET Sessions]
       /\ Decides
  <2>1. CASE UNCHANGED <<verdict, members>>
    BY <2>1 DEF Decides, TypeInv
  <2>2. CASE ~UNCHANGED <<verdict, members>>
    <3>1. /\ r \in Runs /\ present[r]
          /\ verdict' = [verdict EXCEPT ![r] = "failed"]
          /\ members' = [members EXCEPT ![r] = siblings]
          /\ siblings \subseteq members[r]
      BY <1>1, <1>4, <2>2
    <3>2. /\ verdict'[r] = "failed" /\ members'[r] = siblings
          /\ \A q \in Runs : q # r => verdict'[q] = verdict[q] /\ members'[q] = members[q]
          /\ verdict' \in [Runs -> {"none"} \cup Results] /\ members' \in [Runs -> SUBSET Sessions]
      BY <3>1 DEF TypeInv, Results
    <3> QED BY <3>1, <3>2 DEF Decides
  <2> QED BY <2>1, <2>2
<1>11. entry' \in [Workers -> [chan : 0..MaxSessions, run : Runs \cup {NoRun}]]
  <2>1. NoEntry \in [chan : 0..MaxSessions, run : Runs \cup {NoRun}]
    BY SessionFacts DEF NoEntry
  <2> QED BY <2>1 DEF Exclude, TypeInv
<1>12. TypeInv'
  BY <1>2, <1>3, <1>8, <1>10, <1>11 DEF TypeInv
<1>13. Lines'
  BY <1>2, <1>3, <1>7 DEF Lines, Current
<1>14. \A q \in Runs, v \in Workers : NotReported(q, v) => NotReported(q, v)'
  BY <1>2, <1>3, NoMove
<1>15. \A q \in Runs, v \in Workers : NotRunning(q, v) => NotRunning(q, v)'
  BY <1>2, <1>3, NoMove
<1>16. \A q \in Runs, v \in Workers : job'[v] = q =>
         job[v] = q /\ session'[v] = session[v] /\ NotReported(q, v)'
  BY <1>3, <1>14 DEF Stages
<1> QED BY <1>2, <1>9, <1>10, <1>12, <1>13, <1>15, <1>16, MoveKeepsIt

\* A message that is read reports no more than there was.
LEMMA ReadingReports ==
    ASSUME TypeInv, Lines, NEW s \in Sessions, NEW m, Reads(s, m)
    PROVE  /\ \A r \in Runs, t \in Sessions : ReportedIn(r, t)' => ReportedIn(r, t)
           /\ \A t \in Sessions : Once(RegisterMsg, inbox'[t])
           /\ \A t \in Sessions : session[t[1]] < t[2] => inbox'[t] = <<>>
           /\ inbox' \in [Sessions -> Seq(WorkerMsgs)]
<1>1. /\ inbox' \in [Sessions -> Seq(WorkerMsgs)]
      /\ inbox[s] # <<>>
      /\ \A t \in Sessions : t # s => inbox'[t] = inbox[t]
      /\ \A x : In(x, inbox'[s]) => In(x, inbox[s])
      /\ \A x : Once(x, inbox[s]) => Once(x, inbox'[s])
  BY ReadMsg
<1>2. \A r \in Runs, t \in Sessions : ReportedIn(r, t)' => ReportedIn(r, t)
  BY <1>1 DEF ReportedIn
<1>3. \A t \in Sessions : Once(RegisterMsg, inbox'[t])
  BY <1>1 DEF Lines
<1>4. \A t \in Sessions : session[t[1]] < t[2] => inbox'[t] = <<>>
  BY <1>1 DEF Lines
<1> QED BY <1>1, <1>2, <1>3, <1>4

LEMMA RegisterKeepsIt ==
    ASSUME Inv, (\E s \in Sessions : RegisterIdle(s)) \/ (\E w \in Workers : HeartbeatSnapshot(w))
    PROVE  Inv' /\ Quiet
<1> USE DEF Inv
<1>1. /\ UNCHANGED <<launchVars, runVars, outbox, gone, workerVars>>
      /\ inbox' = inbox \/ \E s \in Sessions : Reads(s, RegisterMsg)
  BY DEF RegisterIdle, HeartbeatSnapshot, streamVars
<1>2. UNCHANGED <<launch, queue, current, worker, session, job, expected, present, verdict, members, reported>>
  BY <1>1 DEF launchVars, workerVars, runVars
<1>3. /\ entry' \in [Workers -> [chan : 0..MaxSessions, run : Runs \cup {NoRun}]]
      /\ evicting' \subseteq Workers
  <2>1. CASE \E s \in Sessions : RegisterIdle(s)
    <3>1. PICK s \in Sessions : RegisterIdle(s)
      BY <2>1
    <3>2. [chan |-> s[2], run |-> NoRun] \in [chan : 0..MaxSessions, run : Runs \cup {NoRun}]
      BY SessionFacts
    <3> QED BY <3>1, <3>2 DEF RegisterIdle, TypeInv
  <2>2. CASE \E w \in Workers : HeartbeatSnapshot(w)
    BY <2>2 DEF HeartbeatSnapshot, TypeInv
  <2> QED BY <2>1, <2>2
<1>4. /\ \A r \in Runs, t \in Sessions : ReportedIn(r, t)' => ReportedIn(r, t)
      /\ \A t \in Sessions : Once(RegisterMsg, inbox'[t])
      /\ \A t \in Sessions : session[t[1]] < t[2] => inbox'[t] = <<>>
      /\ inbox' \in [Sessions -> Seq(WorkerMsgs)]
  <2>1. CASE inbox' = inbox
    BY <2>1 DEF ReportedIn, Lines, TypeInv
  <2>2. CASE \E s \in Sessions : Reads(s, RegisterMsg)
    BY <2>2, ReadingReports
  <2> QED BY <1>1, <2>1, <2>2
<1>5. TypeInv'
  BY <1>1, <1>2, <1>3, <1>4 DEF TypeInv
<1>6. Lines'
  BY <1>1, <1>2, <1>4 DEF Lines, Current
<1>7. AssignsShrink /\ Decides
  BY <1>1, <1>2 DEF AssignsShrink, AssignedIn, Decides
<1>8. \A q \in Runs, v \in Workers : NotReported(q, v) => NotReported(q, v)'
  BY <1>2, <1>4 DEF NotReported
<1>9. \A q \in Runs, v \in Workers : NotRunning(q, v) => NotRunning(q, v)'
  BY <1>2, <1>8 DEF NotRunning
<1>10. \A q \in Runs, v \in Workers : job'[v] = q =>
         job[v] = q /\ session'[v] = session[v] /\ NotReported(q, v)'
  BY <1>2, <1>8 DEF Stages
<1> QED BY <1>1, <1>2, <1>5, <1>6, <1>7, <1>9, <1>10, MoveKeepsIt

LEMMA StatusKeepsIt ==
    ASSUME Inv, NEW s \in Sessions, NEW r \in Runs, NEW res \in Results, HandleStatus(s, r, res)
    PROVE  Inv' /\ Quiet
<1> USE DEF Inv
<1>1. PICK w \in Workers : w = s[1]
  BY SessionFacts
<1>2. /\ Reads(s, Status(r, res))
      /\ UNCHANGED <<entry, launchVars, expected, present, members, gone, workerVars, evicting>>
  BY DEF HandleStatus
<1>3. UNCHANGED <<launch, queue, current, worker, session, job>>
  BY <1>2 DEF launchVars, workerVars
<1>4. /\ \A q \in Runs, t \in Sessions : ReportedIn(q, t)' => ReportedIn(q, t)
      /\ \A t \in Sessions : Once(RegisterMsg, inbox'[t])
      /\ \A t \in Sessions : session[t[1]] < t[2] => inbox'[t] = <<>>
      /\ inbox' \in [Sessions -> Seq(WorkerMsgs)]
  BY <1>2, ReadingReports
<1>5. ReportedIn(r, s)
  BY <1>2, ReadMsg DEF ReportedIn
<1>6. ~NotReported(r, w)
  BY <1>1, <1>5 DEF NotReported
<1>7. /\ reported' \in [Runs -> SUBSET Workers]
      /\ \A q \in Runs : reported'[q] = reported[q] \/ (q = r /\ reported'[q] \subseteq reported[q] \cup {w})
  <2>1. reported' = reported \/ reported' = [reported EXCEPT ![r] = Reporters(r, w)]
    BY <1>1 DEF HandleStatus
  <2>2. Reporters(r, w) \subseteq reported[r] \cup {w}
    BY DEF Reporters
  <2>3. reported[r] \cup {w} \subseteq Workers
    BY DEF TypeInv
  <2>4. CASE reported' = reported
    BY <2>4 DEF TypeInv
  <2>5. CASE reported' = [reported EXCEPT ![r] = Reporters(r, w)]
    <3>1. /\ reported'[r] = Reporters(r, w) /\ reported' \in [Runs -> SUBSET Workers]
          /\ \A q \in Runs : q # r => reported'[q] = reported[q]
      BY <2>2, <2>3, <2>5 DEF TypeInv
    <3> QED BY <2>2, <3>1
  <2> QED BY <2>1, <2>4, <2>5
<1>8. /\ outbox' = outbox \/ SendTo(members[r] \ SessionsOf({w}, r), Abort(r))
      /\ \/ verdict' = verdict
         \/ /\ present[r] /\ verdict[r] = "none" /\ verdict' = [verdict EXCEPT ![r] = res]
            /\ res = "completed" => AllCompleted(r, w)
  BY <1>1 DEF HandleStatus, IsTerminal
<1>9. Abort(r) \in ServerMsgs /\ \A q \in Runs : Abort(r) # Assign(q)
  BY Messages
<1>10. /\ outbox' \in [Sessions -> Seq(ServerMsgs)] /\ AssignsShrink
       /\ \A t \in Sessions : gone[t] => outbox'[t] = <<>>
  BY <1>8, <1>9, Sending
<1>11. verdict' \in [Runs -> {"none"} \cup Results]
  BY <1>8 DEF TypeInv
<1>12. TypeInv'
  BY <1>2, <1>3, <1>4, <1>7, <1>10, <1>11 DEF TypeInv
<1>13. Lines'
  BY <1>2, <1>3, <1>4, <1>10 DEF Lines, Current
<1>14. \A q \in Runs, v \in Workers : NotReported(q, v) => NotReported(q, v)'
  <2> SUFFICES ASSUME NEW q \in Runs, NEW v \in Workers, NotReported(q, v)
               PROVE  v \notin reported'[q]
    BY <1>4 DEF NotReported
  <2>1. v \notin reported[q] /\ (q = r => v # w)
    BY <1>6 DEF NotReported
  <2> QED BY <1>7, <2>1
<1>15. \A q \in Runs, v \in Workers : NotRunning(q, v) => NotRunning(q, v)'
  BY <1>3, <1>14 DEF NotRunning
<1>16. \A q \in Runs, v \in Workers : job'[v] = q =>
         job[v] = q /\ session'[v] = session[v] /\ NotReported(q, v)'
  BY <1>3, <1>14 DEF Stages
<1>17. ASSUME present[r], verdict[r] = "none", AllCompleted(r, w) PROVE Over(r)
  <2>1. /\ launch[r] = "pushing" => current[r] \in members[r]
        /\ \A t \in Sessions : AssignedIn(r, t) => t \in members[r]
        /\ \A v \in Workers : job[v] = r => Current(v) \in members[r]
        /\ Cardinality(members[r] \cup queue[r]) <= expected[r]
    BY <1>17 DEF Enrolled
  <2>2. \A t \in members[r] : ~NotReported(r, t[1])
    <3> TAKE t \in members[r]
    <3>1. t[1] \in reported[r] \cup {w}
      BY <1>17 DEF AllCompleted, Reporters, MemberWorkers
    <3> QED BY <1>6, <3>1 DEF NotReported
  <2>3. launch[r] # "pushing"
    BY <2>1, <2>2 DEF Stages, NotSent, NotRunning
  <2>4. \A t \in Sessions : ~AssignedIn(r, t)
    BY <2>1, <2>2 DEF Stages, NotRunning
  <2>5. \A v \in Workers : job[v] # r
    <3> SUFFICES ASSUME NEW v \in Workers, job[v] = r PROVE FALSE
      OBVIOUS
    <3>1. NotReported(r, v) /\ Current(v) \in members[r]
      BY <2>1 DEF Stages
    <3>2. Current(v)[1] = v
      BY DEF Current
    <3>3. ~NotReported(r, Current(v)[1])
      BY <2>2, <3>1
    <3> QED BY <3>1, <3>2, <3>3
  <2>6. queue[r] = {}
    <3>1. /\ members[r] \cup queue[r] \in SUBSET Sessions
          /\ members[r] \in SUBSET (members[r] \cup queue[r])
      BY DEF TypeInv
    <3>2. Cardinality(members[r]) = expected[r]
      BY <1>17 DEF AllCompleted
    <3>3. Cardinality(members[r]) <= Cardinality(members[r] \cup queue[r])
          /\ (Cardinality(members[r]) = Cardinality(members[r] \cup queue[r]) =>
                members[r] \cup queue[r] = members[r])
          /\ Cardinality(members[r] \cup queue[r]) \in Nat /\ Cardinality(members[r]) \in Nat
      BY <3>1, Smaller2, Finite
    <3>4. members[r] \cup queue[r] = members[r]
      BY <2>1, <3>2, <3>3
    <3>5. \A t \in queue[r] : t[1] \notin MemberWorkers(r)
      BY DEF Stages, NotRegistered
    <3> QED BY <3>4, <3>5 DEF MemberWorkers
  <2> QED BY <2>3, <2>4, <2>5, <2>6 DEF Over
<1>18. Decides
  <2>1. CASE verdict' = verdict
    BY <1>2, <2>1 DEF Decides
  <2>2. CASE ~(verdict' = verdict)
    <3>1. /\ present[r] /\ verdict[r] = "none" /\ verdict'[r] = res
          /\ \A q \in Runs : q # r => verdict'[q] = verdict[q]
          /\ res = "completed" => Over(r)
      BY <1>8, <1>17, <2>2 DEF TypeInv
    <3> QED BY <1>2, <3>1 DEF Decides, Results
  <2> QED BY <2>1, <2>2
<1> QED BY <1>2, <1>10, <1>12, <1>13, <1>15, <1>16, <1>18, MoveKeepsIt

----------------------------------------------------------------------------
(***************************************************************************)
(* The steps of a worker, but for the one that accepts.                    *)
(***************************************************************************)

\* A worker that reports is done with its run, and with no other's.
LEMMA Reporting ==
    ASSUME Inv, NEW w \in Workers, worker[w] = "run", NEW res \in Results,
           inbox' = [inbox EXCEPT ![Current(w)] = Append(@, Status(job[w], res))],
           job' = [job EXCEPT ![w] = NoRun], UNCHANGED <<reported, session>>
    PROVE  /\ inbox' \in [Sessions -> Seq(WorkerMsgs)]
           /\ \A t \in Sessions : Once(RegisterMsg, inbox'[t])
           /\ \A t \in Sessions : session[t[1]] < t[2] => inbox'[t] = <<>>
           /\ \A r \in Runs, v \in Workers : NotRunning(r, v) => NotRunning(r, v)'
           /\ \A r \in Runs, v \in Workers : job'[v] = r => job[v] = r /\ NotReported(r, v)'
<1> USE DEF Inv
<1>1. session[w] # 0 /\ job[w] \in Runs
  BY DEF Lines, TypeInv
<1>2. PICK s \in Sessions : s = Current(w) /\ s[1] = w /\ s[2] = session[w]
  BY <1>1, CurrentIs
<1>3. PICK m \in WorkerMsgs : m = Status(job[w], res) /\ m # RegisterMsg
  BY <1>1, Messages
<1>4. /\ inbox' \in [Sessions -> Seq(WorkerMsgs)]
      /\ \A t \in Sessions : t # s => inbox'[t] = inbox[t]
      /\ \A x : In(x, inbox'[s]) <=> In(x, inbox[s]) \/ x = m
      /\ \A x : x # m /\ Once(x, inbox[s]) => Once(x, inbox'[s])
  BY <1>2, <1>3, SaidMsg
<1>5. \A t \in Sessions : Once(RegisterMsg, inbox'[t])
  BY <1>3, <1>4 DEF Lines
<1>6. \A t \in Sessions : session[t[1]] < t[2] => t # s
  BY <1>2 DEF TypeInv
<1>7. \A t \in Sessions : session[t[1]] < t[2] => inbox'[t] = <<>>
  BY <1>4, <1>6 DEF Lines
<1>8. /\ job'[w] = NoRun
      /\ \A v \in Workers : v # w => job'[v] = job[v]
  BY DEF TypeInv
<1>9. \A r \in Runs, t \in Sessions : ReportedIn(r, t)' => ReportedIn(r, t) \/ (t = s /\ r = job[w])
  BY <1>3, <1>4, Messages DEF ReportedIn
<1>10. \A r \in Runs, v \in Workers : NotReported(r, v) /\ (v # w \/ r # job[w]) => NotReported(r, v)'
  BY <1>2, <1>9 DEF NotReported
<1>11. \A r \in Runs : r # NoRun
  BY WorkerPoolAssumption
<1>12. \A r \in Runs, v \in Workers : NotRunning(r, v) => NotRunning(r, v)'
  BY <1>8, <1>10, <1>11 DEF NotRunning
<1>13. \A r \in Runs, v \in Workers : job'[v] = r => job[v] = r /\ NotReported(r, v)'
  BY <1>8, <1>10, <1>11 DEF Stages
<1> QED BY <1>4, <1>5, <1>7, <1>12, <1>13

LEMMA EndsKeepsIt ==
    ASSUME Inv, NEW w \in Workers, EngineReturns(w) \/ AbortListener(w)
    PROVE  Inv' /\ Quiet
<1> USE DEF Inv
<1>1. PICK res \in Results : Ends(w, res)
  BY DEF EngineReturns, AbortListener, Results
<1>2. /\ worker[w] = "run"
      /\ inbox' = [inbox EXCEPT ![Current(w)] = Append(@, Status(job[w], res))]
      /\ job' = [job EXCEPT ![w] = NoRun]
      /\ worker' = [worker EXCEPT ![w] = "connect"]
      /\ UNCHANGED <<entry, launchVars, runVars, gone, session, evicting>>
  BY <1>1 DEF Ends
<1>3. UNCHANGED <<launch, queue, current, expected, present, verdict, members, reported>>
  BY <1>2 DEF launchVars, runVars
<1>4. /\ inbox' \in [Sessions -> Seq(WorkerMsgs)]
      /\ \A t \in Sessions : Once(RegisterMsg, inbox'[t])
      /\ \A t \in Sessions : session[t[1]] < t[2] => inbox'[t] = <<>>
      /\ \A r \in Runs, v \in Workers : NotRunning(r, v) => NotRunning(r, v)'
      /\ \A r \in Runs, v \in Workers : job'[v] = r => job[v] = r /\ NotReported(r, v)'
  BY <1>2, <1>3, Reporting
<1>5. /\ outbox' \in [Sessions -> Seq(ServerMsgs)] /\ AssignsShrink
      /\ \A s \in Sessions : gone[s] => outbox'[s] = <<>>
  <2>1. CASE EngineReturns(w)
    <3>1. outbox' = outbox
      BY <2>1 DEF EngineReturns
    <3> QED BY <3>1 DEF AssignsShrink, AssignedIn, Lines, TypeInv
  <2>2. CASE AbortListener(w)
    <3>1. PICK s \in Sessions : s = Current(w) /\ ~gone[s]
      BY <1>2, CurrentIs DEF Lines
    <3>2. PICK i \in DOMAIN outbox[s] :
            outbox' = [outbox EXCEPT ![s] = SubSeq(outbox[s], i + 1, Len(outbox[s]))]
      BY <2>2, <3>1 DEF AbortListener
    <3>3. PICK p : p = SubSeq(outbox[s], i + 1, Len(outbox[s]))
      OBVIOUS
    <3>4. outbox[s] \in Seq(ServerMsgs)
      BY DEF TypeInv
    <3>5. /\ p \in Seq(ServerMsgs)
          /\ \A x : In(x, p) => In(x, outbox[s])
          /\ \A x : Once(x, outbox[s]) => Once(x, p)
      BY <3>3, <3>4, InSubSeq
    <3>6. outbox' = [outbox EXCEPT ![s] = p]
      BY <3>2, <3>3
    <3>7. /\ outbox'[s] = p /\ outbox' \in [Sessions -> Seq(ServerMsgs)]
          /\ \A t \in Sessions : t # s => outbox'[t] = outbox[t]
      BY <3>5, <3>6 DEF TypeInv
    <3>8. AssignsShrink
      BY <3>5, <3>7 DEF AssignsShrink, AssignedIn
    <3>9. \A t \in Sessions : gone[t] => outbox'[t] = <<>>
      BY <3>1, <3>7 DEF Lines
    <3> QED BY <3>7, <3>8, <3>9
  <2> QED BY <2>1, <2>2
<1>6. /\ worker'[w] = "connect" /\ job'[w] = NoRun
      /\ \A v \in Workers : v # w => worker'[v] = worker[v] /\ job'[v] = job[v]
      /\ worker' \in [Workers -> {"connect", "wait", "run", "exited"}]
      /\ job' \in [Workers -> Runs \cup {NoRun}]
  BY <1>2 DEF TypeInv
<1>7. TypeInv'
  BY <1>2, <1>3, <1>4, <1>5, <1>6 DEF TypeInv
<1>8. Lines'
  BY <1>2, <1>4, <1>5, <1>6 DEF Lines, Current
<1>9. Decides
  BY <1>3 DEF Decides
<1> QED BY <1>2, <1>3, <1>4, <1>5, <1>7, <1>8, <1>9, MoveKeepsIt

\* Connections close; the workers whose current ones these are leave them.
LEMMA HangUpKeepsIt ==
    ASSUME Inv, NEW closing, HangUp(closing),
           UNCHANGED <<entry, launchVars, runVars, session, evicting>>,
           inbox' \in [Sessions -> Seq(WorkerMsgs)],
           \A t \in Sessions : Once(RegisterMsg, inbox'[t]),
           \A t \in Sessions : session[t[1]] < t[2] => inbox'[t] = <<>>,
           \A r \in Runs, v \in Workers : NotRunning(r, v) => NotRunning(r, v)',
           \A r \in Runs, v \in Workers : job'[v] = r => job[v] = r /\ NotReported(r, v)',
           NEW gives \in SUBSET Workers, \A v \in Workers \ gives :
             worker'[v] = worker[v] /\ job'[v] = job[v]
             /\ (worker[v] \in {"wait", "run"} => Current(v) \notin closing),
           \A v \in gives : worker'[v] \in {"connect", "exited"} /\ job'[v] = NoRun,
           worker' \in [Workers -> {"connect", "wait", "run", "exited"}],
           job' \in [Workers -> Runs \cup {NoRun}]
    PROVE  Inv' /\ Quiet
<1> USE DEF Inv
<1>1. UNCHANGED <<launch, queue, current, expected, present, verdict, members, reported>>
  BY DEF launchVars, runVars
<1>2. /\ outbox' \in [Sessions -> Seq(ServerMsgs)]
      /\ gone' \in [Sessions -> BOOLEAN]
      /\ \A s \in Sessions : gone'[s] <=> gone[s] \/ s \in closing
      /\ \A s \in Sessions : s \in closing => outbox'[s] = <<>>
      /\ \A s \in Sessions : s \notin closing => outbox'[s] = outbox[s]
  BY HungUp
<1>3. AssignsShrink
  BY Closing
<1>4. Decides
  BY <1>1 DEF Decides
<1>5. TypeInv'
  BY <1>1, <1>2 DEF TypeInv
<1>6. Lines'
  <2>1. \A s \in Sessions : gone'[s] => outbox'[s] = <<>>
    BY <1>2 DEF Lines
  <2>2. ASSUME NEW v \in Workers, worker'[v] \in {"wait", "run"}
        PROVE  session'[v] # 0 /\ ~gone'[Current(v)']
    <3>1. worker[v] \in {"wait", "run"} /\ Current(v) \notin closing
      BY <2>2
    <3>2. session[v] # 0 /\ ~gone[Current(v)] /\ Current(v)' = Current(v)
      BY <3>1 DEF Lines, Current
    <3>3. Current(v) \in Sessions
      BY <3>2, CurrentIs
    <3> QED BY <1>2, <3>1, <3>2, <3>3
  <2>3. \A v \in Workers : (worker'[v] = "run" <=> job'[v] # NoRun)
    BY DEF Lines
  <2> QED BY <2>1, <2>2, <2>3 DEF Lines
<1> QED BY <1>1, <1>3, <1>4, <1>5, <1>6, MoveKeepsIt

LEMMA LeavesKeepIt ==
    ASSUME Inv, (\E w \in Workers : Refused(w)) \/ (\E s \in Sessions : LeftSessionEnds(s) \/ Break(s))
    PROVE  Inv' /\ Quiet
<1> USE DEF Inv
<1>1. PICK s \in Sessions :
        /\ HangUp({s}) /\ UNCHANGED <<entry, launchVars, runVars, inbox, session, evicting>>
        /\ \/ /\ worker' = [worker EXCEPT ![s[1]] = "connect"]
              /\ job' = [job EXCEPT ![s[1]] = NoRun]
           \/ /\ UNCHANGED <<worker, job>>
              /\ s # Current(s[1]) \/ worker[s[1]] \notin {"wait", "run"}
  <2>1. ASSUME NEW w \in Workers, Refused(w)
        PROVE  /\ Current(w) \in Sessions /\ Current(w)[1] = w
               /\ HangUp({Current(w)})
               /\ UNCHANGED <<entry, launchVars, runVars, inbox, session, evicting>>
               /\ worker' = [worker EXCEPT ![w] = "connect"]
               /\ job' = [job EXCEPT ![w] = NoRun]
    <3>1. worker[w] = "wait" /\ session[w] # 0 /\ job[w] = NoRun /\ job' = job
      BY <2>1 DEF Refused, Lines
    <3>2. job' = [job EXCEPT ![w] = NoRun]
      BY <3>1 DEF TypeInv
    <3> QED BY <2>1, <3>1, <3>2, CurrentIs DEF Refused
  <2>2. ASSUME NEW s \in Sessions, LeftSessionEnds(s) \/ Break(s)
        PROVE  /\ HangUp({s}) /\ UNCHANGED <<entry, launchVars, runVars, inbox, session, evicting>>
               /\ \/ /\ worker' = [worker EXCEPT ![s[1]] = "connect"]
                     /\ job' = [job EXCEPT ![s[1]] = NoRun]
                  \/ /\ UNCHANGED <<worker, job>>
                     /\ s # Current(s[1]) \/ worker[s[1]] \notin {"wait", "run"}
    BY <2>2 DEF LeftSessionEnds, Break, workerVars
  <2>3. CASE \E w \in Workers : Refused(w)
    <3>1. PICK w \in Workers : Refused(w)
      BY <2>3
    <3>2. PICK s \in Sessions : s = Current(w)
      BY <2>1, <3>1
    <3>3. /\ HangUp({s}) /\ UNCHANGED <<entry, launchVars, runVars, inbox, session, evicting>>
          /\ worker' = [worker EXCEPT ![s[1]] = "connect"]
          /\ job' = [job EXCEPT ![s[1]] = NoRun]
      BY <2>1, <3>1, <3>2
    <3> QED BY <3>3
  <2> QED BY <2>2, <2>3
<1>2. PICK gives \in SUBSET Workers :
        gives = IF UNCHANGED <<worker, job>>
                   /\ (s # Current(s[1]) \/ worker[s[1]] \notin {"wait", "run"})
                THEN {} ELSE {s[1]}
  BY SessionFacts
<1>3. /\ \A v \in Workers \ gives :
           worker'[v] = worker[v] /\ job'[v] = job[v]
           /\ (worker[v] \in {"wait", "run"} => Current(v) \notin {s})
      /\ \A v \in gives : worker'[v] \in {"connect", "exited"} /\ job'[v] = NoRun
      /\ worker' \in [Workers -> {"connect", "wait", "run", "exited"}]
      /\ job' \in [Workers -> Runs \cup {NoRun}]
  <2>0. \A v \in Workers : Current(v)[1] = v
    BY DEF Current
  <2>1. CASE gives = {}
    <3>1. /\ UNCHANGED <<worker, job>>
          /\ s # Current(s[1]) \/ worker[s[1]] \notin {"wait", "run"}
      BY <1>2, <2>1
    <3>2. \A v \in Workers : worker[v] \in {"wait", "run"} => Current(v) # s
      BY <2>0, <3>1
    <3> QED BY <2>1, <3>1, <3>2 DEF TypeInv
  <2>2. CASE gives # {}
    <3>1. /\ gives = {s[1]} /\ s[1] \in Workers
          /\ worker' = [worker EXCEPT ![s[1]] = "connect"]
          /\ job' = [job EXCEPT ![s[1]] = NoRun]
      BY <1>1, <1>2, <2>2, SessionFacts
    <3>2. \A v \in Workers \ gives : Current(v) # s
      BY <2>0, <3>1
    <3> QED BY <3>1, <3>2 DEF TypeInv
  <2> QED BY <2>1, <2>2
<1>4. /\ inbox' \in [Sessions -> Seq(WorkerMsgs)]
      /\ \A t \in Sessions : Once(RegisterMsg, inbox'[t])
      /\ \A t \in Sessions : session[t[1]] < t[2] => inbox'[t] = <<>>
  BY <1>1 DEF Lines, TypeInv
<1>5. \A r \in Runs, v \in Workers : NotReported(r, v) => NotReported(r, v)'
  BY <1>1 DEF NotReported, ReportedIn, runVars
<1>6. \A v \in Workers : job'[v] = job[v] \/ job'[v] = NoRun
  BY <1>3
<1>7. \A r \in Runs, v \in Workers : NotRunning(r, v) => NotRunning(r, v)'
  BY <1>5, <1>6, WorkerPoolAssumption DEF NotRunning
<1>8. \A r \in Runs, v \in Workers : job'[v] = r => job[v] = r /\ NotReported(r, v)'
  BY <1>5, <1>6, WorkerPoolAssumption DEF Stages
<1> QED BY <1>1, <1>3, <1>4, <1>7, <1>8, HangUpKeepsIt

LEMMA ExitKeepsIt ==
    ASSUME Inv, NEW w \in Workers, DisconnectedByOperator(w)
    PROVE  Inv' /\ Quiet
<1> USE DEF Inv
<1>1. /\ HangUp({s \in Sessions : s[1] = w})
      /\ UNCHANGED <<entry, launchVars, runVars, session, evicting>>
      /\ worker' = [worker EXCEPT ![w] = "exited"]
      /\ job' = [job EXCEPT ![w] = NoRun]
      /\ worker[w] = "run" =>
           inbox' = [inbox EXCEPT ![Current(w)] = Append(@, Status(job[w], "aborted"))]
      /\ worker[w] # "run" => inbox' = inbox
  BY DEF DisconnectedByOperator
<1>2. PICK closing : closing = {s \in Sessions : s[1] = w}
  OBVIOUS
<1>3. reported' = reported
  BY <1>1 DEF runVars
<1>4. /\ inbox' \in [Sessions -> Seq(WorkerMsgs)]
      /\ \A t \in Sessions : Once(RegisterMsg, inbox'[t])
      /\ \A t \in Sessions : session[t[1]] < t[2] => inbox'[t] = <<>>
      /\ \A r \in Runs, v \in Workers : NotRunning(r, v) => NotRunning(r, v)'
      /\ \A r \in Runs, v \in Workers : job'[v] = r => job[v] = r /\ NotReported(r, v)'
  <2>1. CASE worker[w] = "run"
    <3>1. PICK res \in Results : res = "aborted"
      BY DEF Results
    <3> QED BY <1>1, <1>3, <2>1, <3>1, Reporting
  <2>2. CASE worker[w] # "run"
    <3>1. inbox' = inbox /\ job[w] = NoRun
      BY <1>1, <2>2 DEF Lines
    <3>2. job' = job
      BY <1>1, <3>1 DEF TypeInv
    <3>3. /\ \A r \in Runs, v \in Workers : NotReported(r, v) => NotReported(r, v)'
          /\ \A r \in Runs, v \in Workers : NotRunning(r, v) => NotRunning(r, v)'
      BY <1>3, <3>1, <3>2, NoMove
    <3>4. \A r \in Runs, v \in Workers : job'[v] = r => job[v] = r /\ NotReported(r, v)'
      BY <3>2, <3>3 DEF Stages
    <3> QED BY <3>1, <3>3, <3>4 DEF Lines, TypeInv
  <2> QED BY <2>1, <2>2
<1>5. PICK gives \in SUBSET Workers : gives = {w}
  OBVIOUS
<1>6. /\ \A v \in Workers \ gives : worker'[v] = worker[v] /\ job'[v] = job[v]
      /\ \A v \in gives : worker'[v] \in {"connect", "exited"} /\ job'[v] = NoRun
      /\ worker' \in [Workers -> {"connect", "wait", "run", "exited"}]
      /\ job' \in [Workers -> Runs \cup {NoRun}]
  BY <1>1, <1>5 DEF TypeInv
<1>7. \A v \in Workers \ gives : Current(v) \notin closing
  BY <1>2, <1>5 DEF Current
<1> QED BY <1>1, <1>2, <1>4, <1>6, <1>7, HangUpKeepsIt, ZenonT(60)

\* A connection that was not opened yet has no handler, and is as good as any.
Fresh ==
    /\ handler \in [Sessions -> {"none", "open", "closed"}]
    /\ \A s \in Sessions : session[s[1]] < s[2] =>
         handler[s] = "none" /\ (worker[s[1]] # "exited" => ~gone[s])

LEMMA ConnectKeepsIt ==
    ASSUME Inv, Fresh, NEW w \in Workers, Connect(w)
    PROVE  Inv' /\ Fresh' /\ Quiet
<1> USE DEF Inv
<1>1. /\ worker[w] = "connect" /\ session[w] \in 0..MaxSessions /\ session[w] < MaxSessions
      /\ UNCHANGED <<entry, launchVars, runVars, outbox, gone, job, evicting>>
      /\ session' = [session EXCEPT ![w] = session[w] + 1]
      /\ worker' = [worker EXCEPT ![w] = "wait"]
  BY DEF Connect, TypeInv
<1>0. session[w] + 1 \in 1..MaxSessions
  BY <1>1, SessionFacts
<1>2. PICK s \in Sessions : s = <<w, session[w] + 1>> /\ s[1] = w /\ s[2] = session[w] + 1
  BY <1>0, SessionFacts
<1>3. /\ handler' = [handler EXCEPT ![s] = "open"]
      /\ inbox' = [inbox EXCEPT ![s] = <<RegisterMsg>>]
  BY <1>2 DEF Connect
<1>4. inbox[s] = <<>> /\ ~gone[s]
  BY <1>1, <1>2 DEF Lines, Fresh
<1>5. UNCHANGED <<launch, queue, current, expected, present, verdict, members, reported>>
  BY <1>1 DEF launchVars, runVars
<1>6. <<RegisterMsg>> \in Seq(WorkerMsgs)
  BY Messages
<1>7. /\ inbox' \in [Sessions -> Seq(WorkerMsgs)] /\ inbox'[s] = <<RegisterMsg>>
      /\ \A t \in Sessions : t # s => inbox'[t] = inbox[t]
  BY <1>3, <1>6 DEF TypeInv
<1>8. Once(RegisterMsg, inbox'[s]) /\ \A x : In(x, inbox'[s]) => x = RegisterMsg
  BY <1>7 DEF Once, In
<1>9. /\ session'[w] = session[w] + 1 /\ worker'[w] = "wait"
      /\ \A v \in Workers : v # w => session'[v] = session[v] /\ worker'[v] = worker[v]
      /\ session' \in [Workers -> 0..MaxSessions]
      /\ worker' \in [Workers -> {"connect", "wait", "run", "exited"}]
  BY <1>1, SessionFacts DEF TypeInv
<1>10. TypeInv'
  BY <1>1, <1>5, <1>7, <1>9 DEF TypeInv
<1>11. \A t \in Sessions : session'[t[1]] < t[2] => session[t[1]] < t[2] /\ t # s
  BY <1>1, <1>2, <1>9, SessionFacts DEF TypeInv
<1>12. job[w] = NoRun
  BY <1>1 DEF Lines
<1>13. Lines'
  <2>1. ASSUME NEW v \in Workers, worker'[v] \in {"wait", "run"}
        PROVE  session'[v] # 0 /\ ~gone'[Current(v)']
    <3>1. CASE v = w
      <4>1. Current(w)' = s
        BY <1>2, <1>9 DEF Current
      <4> QED BY <1>1, <1>4, <1>9, <3>1, <4>1
    <3>2. CASE v # w
      BY <1>1, <1>9, <2>1, <3>2 DEF Lines, Current
    <3> QED BY <3>1, <3>2
  <2>2. \A v \in Workers : (worker'[v] = "run" <=> job'[v] # NoRun)
    BY <1>1, <1>9, <1>12 DEF Lines
  <2>3. \A t \in Sessions : Once(RegisterMsg, inbox'[t])
    BY <1>7, <1>8 DEF Lines
  <2>4. \A t \in Sessions : session'[t[1]] < t[2] => inbox'[t] = <<>>
    BY <1>7, <1>11 DEF Lines
  <2>5. \A t \in Sessions : gone'[t] => outbox'[t] = <<>>
    BY <1>1 DEF Lines
  <2> QED BY <2>1, <2>2, <2>3, <2>4, <2>5 DEF Lines
<1>14. AssignsShrink /\ Decides
  BY <1>1, <1>5 DEF AssignsShrink, AssignedIn, Decides
<1>15. \A r \in Runs, t \in Sessions : ReportedIn(r, t)' => ReportedIn(r, t)
  <2> SUFFICES ASSUME NEW r \in Runs, NEW t \in Sessions, ReportedIn(r, t)', t = s PROVE FALSE
    BY <1>7 DEF ReportedIn
  <2>1. PICK res \in Results : In(Status(r, res), inbox'[s])
    BY DEF ReportedIn
  <2> QED BY <1>8, <2>1, Messages
<1>16. \A r \in Runs, v \in Workers : NotReported(r, v) => NotReported(r, v)'
  BY <1>5, <1>15 DEF NotReported
<1>17. \A r \in Runs, v \in Workers : NotRunning(r, v) => NotRunning(r, v)'
  BY <1>1, <1>16 DEF NotRunning
<1>18. \A r \in Runs, v \in Workers : job'[v] = r =>
         job[v] = r /\ session'[v] = session[v] /\ NotReported(r, v)'
  <2>1. \A r \in Runs, v \in Workers : job'[v] = r => job[v] = r /\ v # w
    BY <1>1, <1>12, WorkerPoolAssumption
  <2> QED BY <1>9, <1>16, <2>1 DEF Stages
<1>19. Fresh'
  <2>1. /\ handler' \in [Sessions -> {"none", "open", "closed"}]
        /\ \A t \in Sessions : t # s => handler'[t] = handler[t]
    BY <1>3 DEF Fresh
  <2>2. \A t \in Sessions : worker'[t[1]] # "exited" => worker[t[1]] # "exited"
    BY <1>1, <1>9, SessionFacts
  <2> QED BY <1>1, <1>11, <2>1, <2>2 DEF Fresh
<1>20. Inv' /\ Quiet
  BY <1>1, <1>5, <1>10, <1>13, <1>14, <1>17, <1>18, MoveKeepsIt
<1> QED BY <1>19, <1>20

\* Every other step leaves the connections that are not open alone, or is the
\* last of a worker.
LEMMA FreshKept ==
    ASSUME TypeInv, Fresh, [Next]_vars, \A w \in Workers : ~Connect(w)
    PROVE  Fresh'
<1>1. CASE UNCHANGED <<handler, gone, worker, session>>
  BY <1>1 DEF Fresh
<1>2. ASSUME NEW s \in Sessions, HandleEof(s) PROVE Fresh'
  <2>1. /\ handler[s] = "open" /\ handler' = [handler EXCEPT ![s] = "closed"]
        /\ UNCHANGED <<gone, worker, session>>
    BY <1>2 DEF HandleEof, workerVars
  <2>2. /\ handler' \in [Sessions -> {"none", "open", "closed"}]
        /\ \A t \in Sessions : t # s => handler'[t] = handler[t]
    BY <2>1 DEF Fresh
  <2>3. ~(session[s[1]] < s[2])
    BY <2>1 DEF Fresh
  <2> QED BY <2>1, <2>2, <2>3 DEF Fresh
<1>3. ASSUME NEW w \in Workers, Refused(w) \/ AbortListener(w) \/ EngineReturns(w) \/ Accept(w)
      PROVE  Fresh'
  <2>1. /\ worker[w] # "exited" /\ UNCHANGED <<handler, session>>
        /\ gone' = gone \/ HangUp({Current(w)})
        /\ worker' = [worker EXCEPT ![w] = "connect"] \/ worker' = [worker EXCEPT ![w] = "run"]
    BY <1>3 DEF Refused, AbortListener, EngineReturns, Ends, Accept
  <2>2. \A t \in Sessions : worker'[t[1]] # "exited" => worker[t[1]] # "exited"
    BY <2>1, SessionFacts DEF TypeInv
  <2>3. \A t \in Sessions : gone'[t] => gone[t] \/ t = Current(w)
    BY <2>1, HungUp
  <2>4. \A t \in Sessions : session[t[1]] < t[2] => t # Current(w)
    BY SessionFacts DEF Current, TypeInv
  <2> QED BY <2>1, <2>2, <2>3, <2>4 DEF Fresh
<1>4. ASSUME NEW s \in Sessions, LeftSessionEnds(s) \/ Break(s) PROVE Fresh'
  <2>1. /\ handler[s] # "none" /\ UNCHANGED <<handler, session>> /\ HangUp({s})
        /\ worker' = worker \/ (worker[s[1]] \in {"wait", "run"} /\ worker' = [worker EXCEPT ![s[1]] = "connect"])
    BY <1>4 DEF LeftSessionEnds, Break, workerVars
  <2>2. \A t \in Sessions : worker'[t[1]] # "exited" => worker[t[1]] # "exited"
    BY <2>1, SessionFacts DEF TypeInv
  <2>3. \A t \in Sessions : gone'[t] => gone[t] \/ t = s
    BY <2>1, HungUp
  <2> QED BY <2>1, <2>2, <2>3 DEF Fresh
<1>5. ASSUME NEW w \in Workers, DisconnectedByOperator(w) PROVE Fresh'
  <2>1. /\ HangUp({s \in Sessions : s[1] = w}) /\ UNCHANGED <<handler, session>>
        /\ worker' = [worker EXCEPT ![w] = "exited"]
    BY <1>5 DEF DisconnectedByOperator
  <2>2. /\ worker'[w] = "exited"
        /\ \A t \in Sessions : t[1] # w => worker'[t[1]] = worker[t[1]]
    BY <2>1, SessionFacts DEF TypeInv
  <2>3. PICK closing : closing = {s \in Sessions : s[1] = w} /\ HangUp(closing)
    BY <2>1
  <2>4. \A t \in Sessions : gone'[t] => gone[t] \/ t \in closing
    BY <2>3, HungUp
  <2>5. \A t \in closing : t[1] = w
    BY <2>3
  <2> QED BY <2>1, <2>2, <2>4, <2>5 DEF Fresh
<1>6. CASE UNCHANGED vars
  BY <1>1, <1>6 DEF vars, streamVars, workerVars
<1>7. ASSUME NEW r \in Runs, SpawnRun(r) \/ UserAbort(r) \/ WatchdogFails(r) PROVE Fresh'
  BY <1>1, <1>7 DEF SpawnRun, Reserve, ReleaseReservation, Enqueue, AssignRegister, AssignPush,
                    Launched, CancelLaunch, UserAbort, WatchdogFails, streamVars, workerVars
<1>8. ASSUME NEW s \in Sessions, Handler(s) PROVE Fresh'
  BY <1>1, <1>2, <1>8 DEF Handler, RegisterIdle, HandleStatus, workerVars
<1>9. ASSUME NEW w \in Workers, Heartbeat(w) \/ Exclude(w) PROVE Fresh'
  BY <1>1, <1>9 DEF Heartbeat, HeartbeatSnapshot, HeartbeatEvict, Exclude, streamVars, workerVars
<1> QED BY <1>3, <1>4, <1>5, <1>6, <1>7, <1>8, <1>9 DEF Next, WorkerReacts

----------------------------------------------------------------------------
(***************************************************************************)
(* The steps of a launch, and the worker's that accepts.                   *)
(***************************************************************************)

\* Steps of a launch that assign nothing.
LEMMA LaunchKeepsIt ==
    ASSUME Inv, NEW r \in Runs, TypeInv', UNCHANGED <<verdict, reported, inbox, gone, workerVars>>,
           AssignsShrink, \A s \in Sessions : gone[s] => outbox'[s] = <<>>,
           \A q \in Runs : q # r =>
             /\ launch'[q] = launch[q] /\ queue'[q] = queue[q] /\ current'[q] = current[q]
             /\ expected'[q] = expected[q] /\ present'[q] = present[q] /\ members'[q] = members[q],
           launch'[r] \in {"new", "reserved"} =>
             /\ launch[r] \in {"new", "reserved"}
             /\ ~present'[r] /\ members'[r] = members[r],
           \A s \in queue'[r] :
             s \in Sessions /\ NotSent(r, s[1]) /\ s[1] \notin MemberWorkers(r)' /\ ~PushingTo(r, s[1])',
           \A s, t \in queue'[r] : s[1] = t[1] => s = t,
           launch'[r] = "pushing" =>
             current'[r] \in Sessions /\ NotSent(r, current'[r][1]) /\ current'[r] \in members'[r],
           launch'[r] \in {"assigning", "pushing", "cancel", "launched"} => present'[r],
           present'[r] =>
             /\ Cardinality(members'[r] \cup queue'[r]) <= expected'[r]
             /\ present[r] \/ launch[r] \in {"new", "reserved"}
             /\ members[r] \subseteq members'[r],
           verdict[r] = "completed" => queue'[r] = {} /\ launch'[r] # "pushing"
    PROVE  Inv'
<1> USE DEF Inv
<1>1. UNCHANGED <<worker, session, job>>
  BY DEF workerVars
<1>2. Lines'
  BY <1>1 DEF Lines, Current
<1>3. /\ \A q \in Runs, v \in Workers : NotReported(q, v) => NotReported(q, v)'
      /\ \A q \in Runs, v \in Workers : NotRunning(q, v) => NotRunning(q, v)'
  BY <1>1, NoMove
<1>4. \A q \in Runs, v \in Workers : job'[v] = q => NotReported(q, v)'
  BY <1>1, <1>3 DEF Stages
<1>5. \A q \in Runs : q # r => \A s \in queue'[q] :
        s \in Sessions /\ NotSent(q, s[1]) /\ s[1] \notin MemberWorkers(q)' /\ ~PushingTo(q, s[1])'
  <2> SUFFICES ASSUME NEW q \in Runs, q # r, NEW s \in queue[q]
               PROVE  s \in Sessions /\ NotSent(q, s[1]) /\ s[1] \notin MemberWorkers(q)'
                      /\ ~PushingTo(q, s[1])'
    OBVIOUS
  <2>1. s \in Sessions /\ NotRegistered(q, s[1])
    BY DEF TypeInv, Stages
  <2> QED BY <2>1 DEF NotRegistered, MemberWorkers, PushingTo
<1>6. /\ \A q \in Runs : launch'[q] \in {"new", "reserved"} =>
           launch[q] \in {"new", "reserved"} /\ members'[q] \subseteq members[q]
      /\ \A q \in Runs : \A s, t \in queue'[q] : s[1] = t[1] => s = t
      /\ \A q \in Runs : launch'[q] = "pushing" =>
           current'[q] \in Sessions /\ NotSent(q, current'[q][1])
  BY DEF Stages
<1>7. Stages'
  BY <1>3, <1>4, <1>5, <1>6, StagesKept
<1>8. ASSUME NEW q \in Runs
      PROVE  (/\ launch[q] \in {"new", "reserved"} =>
                   ~present[q] /\ verdict[q] = "none" /\ members[q] = {}
              /\ launch[q] \in {"assigning", "pushing", "cancel", "launched"} => present[q]
              /\ present[q] => Cardinality(members[q] \cup queue[q]) <= expected[q]
              /\ present[q] /\ verdict[q] # "failed" =>
                   /\ launch[q] = "pushing" => current[q] \in members[q]
                   /\ \A s \in Sessions : AssignedIn(q, s) => s \in members[q]
                   /\ \A w \in Workers : job[w] = q => Current(w) \in members[q]
              /\ verdict[q] = "completed" => Over(q))'
  <2>0. \A s \in Sessions : AssignedIn(q, s)' => AssignedIn(q, s)
    BY DEF AssignsShrink
  <2>1. CASE q # r
    <3>1. /\ launch'[q] = launch[q] /\ queue'[q] = queue[q] /\ current'[q] = current[q]
          /\ expected'[q] = expected[q] /\ present'[q] = present[q] /\ members'[q] = members[q]
          /\ verdict'[q] = verdict[q]
      BY <2>1
    <3>2. Over(q) => Over(q)'
      BY <1>1, <2>0, <3>1 DEF Over
    <3>3. \A w \in Workers : Current(w)' = Current(w) /\ job'[w] = job[w]
      BY <1>1 DEF Current
    <3>4. present'[q] /\ verdict'[q] # "failed" =>
            /\ launch'[q] = "pushing" => current'[q] \in members'[q]
            /\ \A s \in Sessions : AssignedIn(q, s)' => s \in members'[q]
            /\ \A w \in Workers : job'[w] = q => Current(w)' \in members'[q]
      <4> SUFFICES ASSUME present[q], verdict[q] # "failed"
                   PROVE  /\ launch[q] = "pushing" => current[q] \in members[q]
                          /\ \A s \in Sessions : AssignedIn(q, s) => s \in members[q]
                          /\ \A w \in Workers : job[w] = q => Current(w) \in members[q]
        BY <2>0, <3>1, <3>3
      <4> QED BY DEF Enrolled
    <3> QED BY <3>1, <3>2, <3>4 DEF Enrolled
  <2>2. CASE q = r
    <3>1. ASSUME present'[r], verdict[r] # "failed"
          PROVE  /\ \A s \in Sessions : AssignedIn(r, s)' => s \in members'[r]
                 /\ \A w \in Workers : job'[w] = r => Current(w)' \in members'[r]
      <4>1. CASE present[r]
        <5>1. /\ \A s \in Sessions : AssignedIn(r, s) => s \in members[r]
              /\ \A w \in Workers : job[w] = r => Current(w) \in members[r]
          BY <3>1, <4>1 DEF Enrolled
        <5>2. \A w \in Workers : Current(w)' = Current(w) /\ job'[w] = job[w]
          BY <1>1 DEF Current
        <5> QED BY <2>0, <2>2, <3>1, <5>1, <5>2
      <4>2. CASE launch[r] \in {"new", "reserved"}
        <5>1. \A w \in Workers : NotSent(r, w)
          BY <4>2 DEF Stages, NotRegistered
        <5>2. (\A s \in Sessions : ~AssignedIn(r, s)) /\ (\A w \in Workers : job[w] # r)
          BY <5>1, SessionFacts DEF NotSent, NotRunning
        <5> QED BY <1>1, <2>0, <2>2, <5>2
      <4> QED BY <3>1, <4>1, <4>2
    <3>2. verdict[r] = "completed" => Over(r)'
      <4>1. verdict[r] = "completed" => Over(r)
        BY DEF Enrolled
      <4> QED BY <1>1, <2>0, <2>2, <4>1 DEF Over
    <3>3. launch'[r] \in {"new", "reserved"} =>
            ~present'[r] /\ verdict'[r] = "none" /\ members'[r] = {}
      BY DEF Enrolled
    <3> QED BY <2>2, <3>1, <3>2, <3>3
  <2> QED BY <2>1, <2>2
<1>9. Enrolled'
  BY <1>8 DEF Enrolled
<1> QED BY <1>2, <1>7, <1>9

LEMMA Reassigned ==
    ASSUME NEW e \in [chan : 0..MaxSessions, run : Runs \cup {NoRun}], NEW r \in Runs \cup {NoRun}
    PROVE  /\ [e EXCEPT !.run = r] \in [chan : 0..MaxSessions, run : Runs \cup {NoRun}]
           /\ [e EXCEPT !.run = r].chan = e.chan /\ [e EXCEPT !.run = r].run = r
<1>1. [e EXCEPT !.run = r] = [chan |-> e.chan, run |-> r]
  OBVIOUS
<1>2. [chan |-> e.chan, run |-> r] \in [chan : 0..MaxSessions, run : Runs \cup {NoRun}]
  OBVIOUS
<1> QED BY <1>1, <1>2

LEMMA ReserveKeepsIt ==
    ASSUME Inv, NEW r \in Runs, Reserve(r) \/ ReleaseReservation(r)
    PROVE  Inv'
<1> USE DEF Inv
<1>1. /\ launch[r] \in {"new", "reserved"}
      /\ UNCHANGED <<current, runVars, streamVars, workerVars, evicting>>
  BY DEF Reserve, ReleaseReservation
<1>2. UNCHANGED <<expected, present, verdict, members, reported, inbox, outbox, gone, worker, session, job>>
  BY <1>1 DEF runVars, streamVars, workerVars
<1>3. PICK l \in {"reserved", "failed"} : launch' = [launch EXCEPT ![r] = l]
  BY DEF Reserve, ReleaseReservation
<1>4. /\ launch' \in [Runs -> {"new", "reserved", "assigning", "pushing", "launched",
                               "cancel", "failed"}]
      /\ launch'[r] = l
      /\ \A q \in Runs : q # r => launch'[q] = launch[q]
  BY <1>3 DEF TypeInv
<1>5. /\ entry' \in [Workers -> [chan : 0..MaxSessions, run : Runs \cup {NoRun}]]
      /\ queue' \in [Runs -> SUBSET Sessions]
      /\ \A q \in Runs : q # r => queue'[q] = queue[q]
      /\ \A s, t \in queue'[r] : s[1] = t[1] => s = t
  <2>1. CASE UNCHANGED <<entry, queue>>
    BY <2>1 DEF TypeInv, Stages
  <2>2. CASE ReleaseReservation(r)
    <3>1. /\ entry' = [w \in Workers |->
                         IF InPool(w) /\ \E s \in queue[r] : s[1] = w
                         THEN [entry[w] EXCEPT !.run = NoRun] ELSE entry[w]]
          /\ queue' = [queue EXCEPT ![r] = {}]
      BY <2>2 DEF ReleaseReservation
    <3>2. \A w \in Workers : /\ entry[w] \in [chan : 0..MaxSessions, run : Runs \cup {NoRun}]
                             /\ [entry[w] EXCEPT !.run = NoRun]
                                  \in [chan : 0..MaxSessions, run : Runs \cup {NoRun}]
      BY Reassigned, ZenonT(60) DEF TypeInv
    <3>3. entry' \in [Workers -> [chan : 0..MaxSessions, run : Runs \cup {NoRun}]]
      BY <3>1, <3>2
    <3> QED BY <3>1, <3>3 DEF TypeInv
  <2>3. CASE Reserve(r) /\ ~UNCHANGED <<entry, queue>>
    <3>1. PICK chosen \in SUBSET IdleWorkers :
            /\ entry' = [w \in Workers |->
                           IF w \in chosen THEN [entry[w] EXCEPT !.run = r] ELSE entry[w]]
            /\ queue' = [queue EXCEPT ![r] = {<<w, entry[w].chan>> : w \in chosen}]
      BY <2>3 DEF Reserve
    <3>2. \A w \in Workers : /\ entry[w] \in [chan : 0..MaxSessions, run : Runs \cup {NoRun}]
                             /\ [entry[w] EXCEPT !.run = r]
                                  \in [chan : 0..MaxSessions, run : Runs \cup {NoRun}]
      BY Reassigned DEF TypeInv
    <3>3. entry' \in [Workers -> [chan : 0..MaxSessions, run : Runs \cup {NoRun}]]
      BY <3>1, <3>2
    <3>4. \A w \in chosen : w \in Workers /\ entry[w].chan \in 1..MaxSessions
      BY SessionFacts DEF IdleWorkers, Idle, InPool, TypeInv
    <3>5. \A w \in chosen : <<w, entry[w].chan>> \in Sessions
      BY <3>4, SessionFacts
    <3>6. PICK picked \in SUBSET Sessions : picked = {<<w, entry[w].chan>> : w \in chosen}
      BY <3>5
    <3>7. \A s, t \in picked : s[1] = t[1] => s = t
      BY <3>6
    <3>8. queue' = [queue EXCEPT ![r] = picked]
      BY <3>1, <3>6
    <3> QED BY <3>3, <3>7, <3>8 DEF TypeInv
  <2> QED BY <2>1, <2>2, <2>3
<1>6. TypeInv'
  BY <1>1, <1>2, <1>4, <1>5 DEF TypeInv
<1>7. AssignsShrink /\ \A s \in Sessions : gone[s] => outbox'[s] = <<>>
  BY <1>2 DEF AssignsShrink, AssignedIn, Lines
<1>8. ~present[r] /\ verdict[r] = "none" /\ members[r] = {}
  BY <1>1 DEF Enrolled
<1>9. \A w \in Workers : NotSent(r, w) /\ w \notin MemberWorkers(r)' /\ ~PushingTo(r, w)'
  <2>1. \A w \in Workers : NotSent(r, w)
    BY <1>1 DEF Stages, NotRegistered
  <2> QED BY <1>2, <1>4, <1>8, <2>1 DEF MemberWorkers, PushingTo
<1>10. \A s \in queue'[r] :
         s \in Sessions /\ NotSent(r, s[1]) /\ s[1] \notin MemberWorkers(r)' /\ ~PushingTo(r, s[1])'
  BY <1>5, <1>9, SessionFacts
<1>11. /\ launch'[r] \notin {"assigning", "pushing", "cancel", "launched"}
       /\ ~present'[r] /\ verdict[r] # "completed" /\ members'[r] = members[r]
  BY <1>2, <1>4, <1>8
<1> QED BY <1>1, <1>2, <1>4, <1>5, <1>6, <1>7, <1>10, <1>11, LaunchKeepsIt

LEMMA EnqueueKeepsIt ==
    ASSUME Inv, NEW r \in Runs, Enqueue(r)
    PROVE  Inv'
<1> USE DEF Inv
<1>1. /\ launch[r] = "reserved"
      /\ expected' = [expected EXCEPT ![r] = Cardinality(queue[r])]
      /\ present' = [present EXCEPT ![r] = TRUE]
      /\ launch' = [launch EXCEPT ![r] = "assigning"]
      /\ UNCHANGED <<entry, queue, current, verdict, members, reported, streamVars,
                     workerVars, evicting>>
  BY DEF Enqueue
<1>2. UNCHANGED <<inbox, outbox, gone, worker, session, job>>
  BY <1>1 DEF streamVars, workerVars
<1>3. queue[r] \in SUBSET Sessions /\ members[r] = {}
  BY <1>1 DEF TypeInv, Enrolled
<1>4. Cardinality(queue[r]) \in Nat
  BY <1>3, Finite
<1>5. /\ expected' \in [Runs -> Nat] /\ expected'[r] = Cardinality(queue[r])
      /\ present' \in [Runs -> BOOLEAN]
      /\ launch' \in [Runs -> {"new", "reserved", "assigning", "pushing", "launched",
                               "cancel", "failed"}]
      /\ launch'[r] = "assigning"
      /\ \A q \in Runs : q # r => launch'[q] = launch[q] /\ expected'[q] = expected[q]
                                  /\ present'[q] = present[q]
  BY <1>1, <1>4 DEF TypeInv
<1>6. TypeInv'
  BY <1>1, <1>2, <1>5 DEF TypeInv
<1>7. AssignsShrink /\ \A s \in Sessions : gone[s] => outbox'[s] = <<>>
  BY <1>2 DEF AssignsShrink, AssignedIn, Lines
<1>8. \A s \in queue'[r] :
        s \in Sessions /\ NotSent(r, s[1]) /\ s[1] \notin MemberWorkers(r)' /\ ~PushingTo(r, s[1])'
  <2>1. \A s \in queue[r] : s \in Sessions /\ NotRegistered(r, s[1])
    BY DEF TypeInv, Stages
  <2> QED BY <1>1, <1>5, <2>1 DEF NotRegistered, MemberWorkers, PushingTo
<1>9. members[r] \cup queue[r] = queue[r]
  BY <1>3
<1>10. Cardinality(members'[r] \cup queue'[r]) <= expected'[r]
  <2>1. members'[r] \cup queue'[r] = queue[r]
    BY <1>1, <1>9
  <2>2. PICK n \in Nat : n = Cardinality(queue[r])
    BY <1>4
  <2>3. expected'[r] = n
    BY <1>5, <2>2
  <2>4. Cardinality(members'[r] \cup queue'[r]) = n
    BY <2>1, <2>2
  <2>5. n <= n
    OBVIOUS
  <2> QED BY <2>3, <2>4, <2>5
<1>11. \A s, t \in queue'[r] : s[1] = t[1] => s = t
  BY <1>1 DEF Stages
<1>12. present'[r] /\ verdict[r] # "completed"
  <2>1. verdict[r] = "none"
    BY <1>1 DEF Enrolled
  <2> QED BY <1>1, <2>1 DEF TypeInv
<1> QED BY <1>1, <1>2, <1>3, <1>5, <1>6, <1>7, <1>8, <1>10, <1>11, <1>12, LaunchKeepsIt

LEMMA AssignRegisterKeepsIt ==
    ASSUME Inv, NEW r \in Runs, AssignRegister(r)
    PROVE  Inv'
<1> USE DEF Inv
<1>1. PICK s \in queue[r] :
         \/ /\ ~IsTerminal(r)
            /\ members' = [members EXCEPT ![r] = members[r] \cup {s}]
            /\ queue' = [queue EXCEPT ![r] = queue[r] \ {s}]
            /\ current' = [current EXCEPT ![r] = s]
            /\ launch' = [launch EXCEPT ![r] = "pushing"]
         \/ /\ launch' = [launch EXCEPT ![r] = "cancel"]
            /\ UNCHANGED <<members, queue, current>>
  BY DEF AssignRegister
<1>2. /\ launch[r] = "assigning"
      /\ UNCHANGED <<entry, expected, present, verdict, reported, streamVars, workerVars, evicting>>
  BY DEF AssignRegister
<1>3. UNCHANGED <<inbox, outbox, gone, worker, session, job>>
  BY <1>2 DEF streamVars, workerVars
<1>4. s \in Sessions /\ present[r] /\ NotRegistered(r, s[1])
  BY <1>2 DEF TypeInv, Enrolled, Stages
<1>5. AssignsShrink /\ \A t \in Sessions : gone[t] => outbox'[t] = <<>>
  BY <1>3 DEF AssignsShrink, AssignedIn, Lines
<1>6. Cardinality(members[r] \cup queue[r]) <= expected[r]
  BY <1>4 DEF Enrolled
<1>7. CASE launch' = [launch EXCEPT ![r] = "cancel"] /\ UNCHANGED <<members, queue, current>>
  <2>1. /\ launch' \in [Runs -> {"new", "reserved", "assigning", "pushing", "launched",
                                 "cancel", "failed"}]
        /\ launch'[r] = "cancel" /\ \A q \in Runs : q # r => launch'[q] = launch[q]
    BY <1>7 DEF TypeInv
  <2>2. TypeInv'
    BY <1>2, <1>3, <1>7, <2>1 DEF TypeInv
  <2>3. \A t \in queue'[r] :
          t \in Sessions /\ NotSent(r, t[1]) /\ t[1] \notin MemberWorkers(r)' /\ ~PushingTo(r, t[1])'
    <3>1. \A t \in queue[r] : t \in Sessions /\ NotRegistered(r, t[1])
      BY DEF TypeInv, Stages
    <3> QED BY <1>7, <2>1, <3>1 DEF NotRegistered, MemberWorkers, PushingTo
  <2>4. \A t, u \in queue'[r] : t[1] = u[1] => t = u
    BY <1>7 DEF Stages
  <2>5. verdict[r] = "completed" => queue'[r] = {}
    BY <1>7 DEF Enrolled, Over
  <2> QED BY <1>2, <1>3, <1>4, <1>5, <1>6, <1>7, <2>1, <2>2, <2>3, <2>4, <2>5, LaunchKeepsIt
<1>8. CASE /\ ~IsTerminal(r)
           /\ members' = [members EXCEPT ![r] = members[r] \cup {s}]
           /\ queue' = [queue EXCEPT ![r] = queue[r] \ {s}]
           /\ current' = [current EXCEPT ![r] = s]
           /\ launch' = [launch EXCEPT ![r] = "pushing"]
  <2>1. /\ launch' \in [Runs -> {"new", "reserved", "assigning", "pushing", "launched",
                                 "cancel", "failed"}]
        /\ members' \in [Runs -> SUBSET Sessions] /\ queue' \in [Runs -> SUBSET Sessions]
        /\ current' \in [Runs -> Sessions \cup {NoSession}]
    BY <1>4, <1>8 DEF TypeInv
  <2>2. /\ launch'[r] = "pushing" /\ current'[r] = s
        /\ members'[r] = members[r] \cup {s} /\ queue'[r] = queue[r] \ {s}
        /\ \A q \in Runs : q # r => /\ launch'[q] = launch[q] /\ queue'[q] = queue[q]
                                    /\ current'[q] = current[q] /\ members'[q] = members[q]
    BY <1>8 DEF TypeInv
  <2>3. TypeInv'
    BY <1>2, <1>3, <2>1 DEF TypeInv
  <2>4. \A t \in queue'[r] :
          t \in Sessions /\ NotSent(r, t[1]) /\ t[1] \notin MemberWorkers(r)' /\ ~PushingTo(r, t[1])'
    <3> SUFFICES ASSUME NEW t \in queue[r], t # s
                 PROVE  t \in Sessions /\ NotSent(r, t[1]) /\ t[1] \notin MemberWorkers(r)'
                        /\ ~PushingTo(r, t[1])'
      BY <2>2
    <3>1. t \in Sessions /\ NotRegistered(r, t[1]) /\ t[1] # s[1]
      BY DEF TypeInv, Stages
    <3> QED BY <2>2, <3>1 DEF NotRegistered, MemberWorkers, PushingTo
  <2>5. \A t, u \in queue'[r] : t[1] = u[1] => t = u
    BY <2>2 DEF Stages
  <2>6. members'[r] \cup queue'[r] = members[r] \cup queue[r]
    BY <2>2
  <2>7. Cardinality(members'[r] \cup queue'[r]) <= expected'[r]
    BY <1>2, <1>6, <2>6
  <2>8. NotSent(r, s[1])
    BY <1>4 DEF NotRegistered
  <2>9. verdict[r] # "completed" /\ s \in members'[r] /\ present'[r]
    BY <1>2, <1>4, <1>8, <2>2 DEF IsTerminal
  <2> QED BY <1>2, <1>3, <1>4, <1>5, <2>2, <2>3, <2>4, <2>5, <2>7, <2>8, <2>9, LaunchKeepsIt
<1> QED BY <1>1, <1>7, <1>8

LEMMA LaunchEndsKeepIt ==
    ASSUME Inv, NEW r \in Runs, Launched(r) \/ CancelLaunch(r)
    PROVE  Inv'
<1> USE DEF Inv
<1>1. CASE Launched(r)
  <2>1. /\ launch[r] = "assigning" /\ queue[r] = {}
        /\ launch' = [launch EXCEPT ![r] = "launched"]
        /\ UNCHANGED <<entry, queue, current, runVars, streamVars, workerVars, evicting>>
    BY <1>1 DEF Launched
  <2>2. UNCHANGED <<expected, present, verdict, members, reported, inbox, outbox, gone, worker, session, job>>
    BY <2>1 DEF runVars, streamVars, workerVars
  <2>3. /\ launch' \in [Runs -> {"new", "reserved", "assigning", "pushing", "launched",
                                 "cancel", "failed"}]
        /\ launch'[r] = "launched" /\ \A q \in Runs : q # r => launch'[q] = launch[q]
    BY <2>1 DEF TypeInv
  <2>4. TypeInv'
    BY <2>1, <2>2, <2>3 DEF TypeInv
  <2>5. AssignsShrink /\ \A t \in Sessions : gone[t] => outbox'[t] = <<>>
    BY <2>2 DEF AssignsShrink, AssignedIn, Lines
  <2>6. present[r] /\ Cardinality(members[r] \cup queue[r]) <= expected[r]
    BY <2>1 DEF Enrolled
  <2>7. Cardinality(members'[r] \cup queue'[r]) <= expected'[r]
    BY <2>1, <2>2, <2>6
  <2> QED BY <2>1, <2>2, <2>3, <2>4, <2>5, <2>6, <2>7, LaunchKeepsIt
<1>2. CASE CancelLaunch(r)
  <2>1. /\ SendTo(members[r], Abort(r))
        /\ present' = [present EXCEPT ![r] = FALSE]
        /\ members' = [members EXCEPT ![r] = {}]
        /\ queue' = [queue EXCEPT ![r] = {}]
        /\ launch' = [launch EXCEPT ![r] = "failed"]
        /\ UNCHANGED <<entry, current, expected, verdict, reported, inbox, gone, workerVars, evicting>>
    BY <1>2 DEF CancelLaunch
  <2>2. UNCHANGED <<worker, session, job>>
    BY <2>1 DEF workerVars
  <2>3. Abort(r) \in ServerMsgs /\ \A q \in Runs : Abort(r) # Assign(q)
    BY Messages
  <2>4. /\ outbox' \in [Sessions -> Seq(ServerMsgs)] /\ AssignsShrink
        /\ \A s \in Sessions : gone[s] => outbox'[s] = <<>>
    BY <2>1, <2>3, Sending
  <2>5. /\ launch' \in [Runs -> {"new", "reserved", "assigning", "pushing", "launched",
                                 "cancel", "failed"}]
        /\ members' \in [Runs -> SUBSET Sessions] /\ queue' \in [Runs -> SUBSET Sessions]
        /\ present' \in [Runs -> BOOLEAN]
    BY <2>1 DEF TypeInv
  <2>6. /\ launch'[r] = "failed" /\ members'[r] = {} /\ queue'[r] = {} /\ ~present'[r]
        /\ \A q \in Runs : q # r => /\ launch'[q] = launch[q] /\ queue'[q] = queue[q]
                                    /\ present'[q] = present[q] /\ members'[q] = members[q]
    BY <2>1 DEF TypeInv
  <2>7. TypeInv'
    BY <2>1, <2>2, <2>4, <2>5 DEF TypeInv
  <2> QED BY <2>1, <2>2, <2>4, <2>6, <2>7, LaunchKeepsIt
<1> QED BY <1>1, <1>2

LEMMA AssignPushKeepsIt ==
    ASSUME Inv, NEW r \in Runs, AssignPush(r)
    PROVE  Inv'
<1> USE DEF Inv
<1>1. /\ launch[r] = "pushing"
      /\ current' = [current EXCEPT ![r] = NoSession]
      /\ SendTo({current[r]}, Assign(r)) \/ outbox' = outbox
      /\ UNCHANGED <<entry, queue, runVars, inbox, gone, workerVars, evicting>>
  BY DEF AssignPush
<1>2. UNCHANGED <<expected, present, verdict, members, reported, worker, session, job>>
  BY <1>1 DEF runVars, workerVars
<1>3. PICK l \in {"assigning", "cancel"} : launch' = [launch EXCEPT ![r] = l]
  BY DEF AssignPush
<1>4. /\ launch' \in [Runs -> {"new", "reserved", "assigning", "pushing", "launched",
                               "cancel", "failed"}]
      /\ launch'[r] = l /\ \A q \in Runs : q # r => launch'[q] = launch[q]
      /\ current' \in [Runs -> Sessions \cup {NoSession}]
      /\ \A q \in Runs : q # r => current'[q] = current[q]
  BY <1>1, <1>3 DEF TypeInv
<1>5. PICK s \in Sessions : s = current[r] /\ NotSent(r, s[1])
  BY <1>1 DEF Stages
<1>6. /\ outbox' \in [Sessions -> Seq(ServerMsgs)]
      /\ \A t \in Sessions : t # s \/ gone[t] => outbox'[t] = outbox[t]
      /\ \A q \in Runs : AssignedIn(q, s)' => AssignedIn(q, s) \/ q = r
      /\ \A q \in Runs : Once(Assign(q), outbox[s]) => Once(Assign(q), outbox[s])'
  <2>1. PICK m \in ServerMsgs : m = Assign(r)
    BY Messages
  <2>2. CASE SendTo({s}, m)
    <3>1. /\ outbox' \in [Sessions -> Seq(ServerMsgs)]
          /\ \A t \in Sessions : t # s \/ gone[t] => outbox'[t] = outbox[t]
          /\ \A x : In(x, outbox'[s]) => In(x, outbox[s]) \/ x = m
          /\ \A x : x # m /\ Once(x, outbox[s]) => Once(x, outbox'[s])
      <4>1. PICK targets : targets = {s} /\ SendTo(targets, m)
        BY <2>2
      <4>2. /\ outbox' \in [Sessions -> Seq(ServerMsgs)]
            /\ \A t \in Sessions : t \notin targets \/ gone[t] => outbox'[t] = outbox[t]
            /\ \A x : In(x, outbox'[s]) => In(x, outbox[s]) \/ x = m
            /\ \A x : x # m /\ Once(x, outbox[s]) => Once(x, outbox'[s])
        BY <4>1, SentTo
      <4> QED BY <4>1, <4>2
    <3>2. ~In(m, outbox[s])
      BY <1>5, <2>1 DEF NotSent, AssignedIn
    <3>3. Once(m, outbox'[s])
      <4>1. outbox[s] \in Seq(ServerMsgs)
        BY DEF TypeInv
      <4>2. Once(m, Append(outbox[s], m)) /\ Once(m, outbox[s])
        BY <3>2, <4>1, InAppended DEF In, Once
      <4>3. outbox'[s] = Append(outbox[s], m) \/ outbox'[s] = outbox[s]
        BY <2>2 DEF SendTo
      <4> QED BY <4>2, <4>3
    <3>4. \A q \in Runs : q = r \/ Assign(q) # m
      BY <2>1, Messages
    <3>5. \A q \in Runs : Once(Assign(q), outbox[s]) => Once(Assign(q), outbox'[s])
      BY <2>1, <3>1, <3>3, <3>4
    <3> QED BY <3>1, <3>4, <3>5 DEF AssignedIn
  <2>3. CASE outbox' = outbox
    BY <2>3 DEF TypeInv, AssignedIn
  <2> QED BY <1>1, <1>5, <2>1, <2>2, <2>3
<1>7. \A q \in Runs, t \in Sessions : AssignedIn(q, t)' => AssignedIn(q, t) \/ (q = r /\ t = s)
  BY <1>6 DEF AssignedIn
<1>8. TypeInv'
  BY <1>1, <1>2, <1>4, <1>6 DEF TypeInv
<1>9. Lines'
  BY <1>1, <1>2, <1>6 DEF Lines, Current
<1>10. /\ \A q \in Runs, v \in Workers : NotReported(q, v) => NotReported(q, v)'
       /\ \A q \in Runs, v \in Workers : NotRunning(q, v) => NotRunning(q, v)'
  BY <1>1, <1>2, NoMove
<1>11. \A q \in Runs, v \in Workers : NotSent(q, v) /\ (q # r \/ v # s[1]) => NotSent(q, v)'
  BY <1>7, <1>10 DEF NotSent
<1>12. ASSUME NEW q \in Runs
       PROVE  (/\ launch[q] \in {"new", "reserved"} => \A w \in Workers : NotRegistered(q, w)
               /\ \A t \in queue[q] : NotRegistered(q, t[1])
               /\ \A t, u \in queue[q] : t[1] = u[1] => t = u
               /\ launch[q] = "pushing" => current[q] \in Sessions /\ NotSent(q, current[q][1])
               /\ \A t \in Sessions : AssignedIn(q, t) => NotRunning(q, t[1])
               /\ \A t, u \in Sessions :
                    t[1] = u[1] /\ AssignedIn(q, t) /\ AssignedIn(q, u) => t = u
               /\ \A t \in Sessions : Once(Assign(q), outbox[t])
               /\ \A w \in Workers : job[w] = q => NotReported(q, w))'
  <2>1. ASSUME launch'[q] \in {"new", "reserved"}, NEW w \in Workers PROVE NotRegistered(q, w)'
    <3>1. q # r /\ NotRegistered(q, w)
      BY <1>4, <2>1 DEF Stages
    <3> QED BY <1>2, <1>4, <1>11, <3>1 DEF NotRegistered, MemberWorkers, PushingTo
  <2>2. ASSUME NEW t \in queue'[q] PROVE NotRegistered(q, t[1])'
    <3>1. t \in Sessions /\ NotRegistered(q, t[1]) /\ t[1] \in Workers
      BY <1>1, <2>2, SessionFacts DEF Stages, TypeInv
    <3>2. q # r \/ t[1] # s[1]
      BY <1>1, <1>5, <3>1 DEF NotRegistered, PushingTo
    <3> QED BY <1>2, <1>4, <1>11, <3>1, <3>2 DEF NotRegistered, MemberWorkers, PushingTo
  <2>3. \A t, u \in queue'[q] : t[1] = u[1] => t = u
    BY <1>1 DEF Stages
  <2>4. ASSUME launch'[q] = "pushing" PROVE current'[q] \in Sessions /\ NotSent(q, current[q][1])'
    <3>1. q # r /\ current'[q] = current[q] /\ launch[q] = "pushing"
      BY <1>4, <2>4
    <3>2. PICK w \in Workers : w = current[q][1] /\ NotSent(q, w) /\ current[q] \in Sessions
      BY <3>1, SessionFacts DEF Stages
    <3>3. NotSent(q, w)'
      BY <1>11, <3>1, <3>2
    <3> QED BY <3>1, <3>2, <3>3 DEF NotSent, NotRunning, NotReported
  <2>5. \A t \in Sessions : AssignedIn(q, t)' => NotRunning(q, t[1])'
    <3> SUFFICES ASSUME NEW t \in Sessions, AssignedIn(q, t)' PROVE NotRunning(q, t[1])
      BY <1>10, SessionFacts
    <3> QED BY <1>5, <1>7 DEF Stages, NotSent
  <2>6. \A t, u \in Sessions : t[1] = u[1] /\ AssignedIn(q, t)' /\ AssignedIn(q, u)' => t = u
    <3>1. \A t \in Sessions : t[1] = s[1] => ~AssignedIn(r, t)
      BY <1>5 DEF NotSent
    <3> QED BY <1>7, <3>1 DEF Stages
  <2>7. \A t \in Sessions : Once(Assign(q), outbox[t])'
    BY <1>6 DEF Stages
  <2>8. \A w \in Workers : job'[w] = q => NotReported(q, w)'
    BY <1>2, <1>10 DEF Stages
  <2> QED BY <2>1, <2>2, <2>3, <2>4, <2>5, <2>6, <2>7, <2>8
<1>13. Stages'
  BY <1>12 DEF Stages
<1>14. ASSUME NEW q \in Runs
       PROVE  (/\ launch[q] \in {"new", "reserved"} =>
                    ~present[q] /\ verdict[q] = "none" /\ members[q] = {}
               /\ launch[q] \in {"assigning", "pushing", "cancel", "launched"} => present[q]
               /\ present[q] => Cardinality(members[q] \cup queue[q]) <= expected[q]
               /\ present[q] /\ verdict[q] # "failed" =>
                    /\ launch[q] = "pushing" => current[q] \in members[q]
                    /\ \A t \in Sessions : AssignedIn(q, t) => t \in members[q]
                    /\ \A w \in Workers : job[w] = q => Current(w) \in members[q]
               /\ verdict[q] = "completed" => Over(q))'
  <2>1. /\ launch'[q] \in {"new", "reserved"} => launch[q] \in {"new", "reserved"}
        /\ launch'[q] \in {"assigning", "pushing", "cancel", "launched"} =>
             launch[q] \in {"assigning", "pushing", "cancel", "launched"}
        /\ launch'[q] = "pushing" => q # r /\ launch[q] = "pushing" /\ current'[q] = current[q]
    BY <1>1, <1>4
  <2>2. ASSUME present'[q], verdict'[q] # "failed"
        PROVE  /\ launch'[q] = "pushing" => current'[q] \in members'[q]
               /\ \A t \in Sessions : AssignedIn(q, t)' => t \in members'[q]
               /\ \A w \in Workers : job'[w] = q => Current(w)' \in members'[q]
    <3>1. /\ launch[q] = "pushing" => current[q] \in members[q]
          /\ \A t \in Sessions : AssignedIn(q, t) => t \in members[q]
          /\ \A w \in Workers : job[w] = q => Current(w) \in members[q]
      BY <1>2, <2>2 DEF Enrolled
    <3>2. q = r => s \in members[q]
      BY <1>1, <1>5, <3>1
    <3>3. \A w \in Workers : Current(w)' = Current(w)
      BY <1>2 DEF Current
    <3> QED BY <1>2, <1>7, <2>1, <3>1, <3>2, <3>3
  <2>3. ASSUME verdict'[q] = "completed" PROVE Over(q)'
    <3>1. Over(q) /\ q # r
      BY <1>1, <1>2, <2>3 DEF Enrolled, Over
    <3> QED BY <1>1, <1>2, <1>7, <2>1, <3>1 DEF Over
  <2>4. launch'[q] \in {"new", "reserved"} => ~present'[q] /\ verdict'[q] = "none" /\ members'[q] = {}
    BY <1>2, <2>1 DEF Enrolled
  <2>5. launch'[q] \in {"assigning", "pushing", "cancel", "launched"} => present'[q]
    BY <1>2, <2>1 DEF Enrolled
  <2>6. present'[q] => Cardinality(members'[q] \cup queue'[q]) <= expected'[q]
    BY <1>1, <1>2 DEF Enrolled
  <2> QED BY <2>2, <2>3, <2>4, <2>5, <2>6
<1>15. Enrolled'
  BY <1>14 DEF Enrolled
<1> QED BY <1>8, <1>9, <1>13, <1>15

LEMMA AcceptKeepsIt ==
    ASSUME Inv, NEW w \in Workers, Accept(w)
    PROVE  Inv'
<1> USE DEF Inv
<1>1. worker[w] = "wait" /\ session[w] # 0 /\ job[w] = NoRun
  BY DEF Accept, Lines
<1>2. PICK s \in Sessions : s = Current(w) /\ s[1] = w
  BY <1>1, CurrentIs
<1>3. PICK r \in Runs : Receives(s, Assign(r)) /\ job' = [job EXCEPT ![w] = r]
  BY <1>2 DEF Accept
<1>4. /\ outbox' = [outbox EXCEPT ![s] = Tail(@)]
      /\ worker' = [worker EXCEPT ![w] = "run"]
      /\ UNCHANGED <<entry, launchVars, runVars, inbox, gone, session, evicting>>
  BY <1>2 DEF Accept
<1>5. UNCHANGED <<launch, queue, current, expected, present, verdict, members, reported>>
  BY <1>4 DEF launchVars, runVars
<1>6. PICK m : m = Assign(r)
  OBVIOUS
<1>7. /\ outbox' \in [Sessions -> Seq(ServerMsgs)]
      /\ In(m, outbox[s]) /\ ~gone[s]
      /\ \A t \in Sessions : t # s => outbox'[t] = outbox[t]
      /\ \A x : In(x, outbox'[s]) => In(x, outbox[s])
      /\ \A x : Once(x, outbox[s]) => Once(x, outbox'[s])
      /\ Once(m, outbox[s]) => ~In(m, outbox'[s])
  BY <1>3, <1>4, <1>6, Heard DEF Receives
<1>8. AssignedIn(r, s) /\ ~AssignedIn(r, s)' /\ AssignsShrink
  BY <1>6, <1>7 DEF AssignedIn, AssignsShrink, Stages
<1>9. /\ job'[w] = r /\ worker'[w] = "run"
      /\ \A v \in Workers : v # w => job'[v] = job[v] /\ worker'[v] = worker[v]
      /\ job' \in [Workers -> Runs \cup {NoRun}]
      /\ worker' \in [Workers -> {"connect", "wait", "run", "exited"}]
  BY <1>3, <1>4 DEF TypeInv
<1>10. TypeInv'
  BY <1>4, <1>5, <1>7, <1>9 DEF TypeInv
<1>11. Lines'
  <2>1. \A t \in Sessions : gone'[t] => outbox'[t] = <<>>
    BY <1>4, <1>7 DEF Lines
  <2>2. \A v \in Workers : worker'[v] \in {"wait", "run"} => session'[v] # 0 /\ ~gone'[Current(v)']
    BY <1>1, <1>2, <1>4, <1>7, <1>9 DEF Lines, Current
  <2>3. \A v \in Workers : (worker'[v] = "run" <=> job'[v] # NoRun)
    BY <1>9, WorkerPoolAssumption DEF Lines
  <2> QED BY <1>4, <2>1, <2>2, <2>3 DEF Lines
<1>12. NotRunning(r, w) /\ ~NotSent(r, w)
  BY <1>2, <1>8 DEF Stages, NotSent
<1>13. \A q \in Runs, v \in Workers : NotReported(q, v) => NotReported(q, v)'
  BY <1>4, <1>5 DEF NotReported, ReportedIn
<1>14. \A q \in Runs, v \in Workers : NotRunning(q, v) /\ (q # r \/ v # w) => NotRunning(q, v)'
  BY <1>9, <1>13 DEF NotRunning
<1>15. \A q \in Runs, v \in Workers : NotSent(q, v) => NotSent(q, v)'
  BY <1>8, <1>12, <1>14 DEF NotSent, AssignsShrink
<1>16. \A q \in Runs, v \in Workers : NotRegistered(q, v) => NotRegistered(q, v)'
  BY <1>5, <1>15 DEF NotRegistered, MemberWorkers, PushingTo
<1>17. ASSUME NEW q \in Runs
       PROVE  (/\ launch[q] \in {"new", "reserved"} => \A v \in Workers : NotRegistered(q, v)
               /\ \A t \in queue[q] : NotRegistered(q, t[1])
               /\ \A t, u \in queue[q] : t[1] = u[1] => t = u
               /\ launch[q] = "pushing" => current[q] \in Sessions /\ NotSent(q, current[q][1])
               /\ \A t \in Sessions : AssignedIn(q, t) => NotRunning(q, t[1])
               /\ \A t, u \in Sessions :
                    t[1] = u[1] /\ AssignedIn(q, t) /\ AssignedIn(q, u) => t = u
               /\ \A t \in Sessions : Once(Assign(q), outbox[t])
               /\ \A v \in Workers : job[v] = q => NotReported(q, v))'
  <2>1. launch'[q] \in {"new", "reserved"} => \A v \in Workers : NotRegistered(q, v)'
    BY <1>5, <1>16 DEF Stages
  <2>2. \A t \in queue'[q] : NotRegistered(q, t[1])'
    BY <1>5, <1>16, SessionFacts DEF Stages, TypeInv
  <2>3. \A t, u \in queue'[q] : t[1] = u[1] => t = u
    BY <1>5 DEF Stages
  <2>4. launch'[q] = "pushing" => current'[q] \in Sessions /\ NotSent(q, current[q][1])'
    <3> SUFFICES ASSUME launch[q] = "pushing"
                 PROVE  current[q] \in Sessions /\ NotSent(q, current[q][1])'
      BY <1>5
    <3>1. PICK v \in Workers : v = current[q][1] /\ NotSent(q, v) /\ current[q] \in Sessions
      BY SessionFacts DEF Stages
    <3>2. NotSent(q, v)'
      BY <1>15, <3>1
    <3> QED BY <1>5, <3>1, <3>2 DEF NotSent, NotRunning, NotReported
  <2>5. \A t \in Sessions : AssignedIn(q, t)' => NotRunning(q, t[1])'
    <3> SUFFICES ASSUME NEW t \in Sessions, AssignedIn(q, t)' PROVE NotRunning(q, t[1])'
      OBVIOUS
    <3>1. AssignedIn(q, t) /\ NotRunning(q, t[1]) /\ t[1] \in Workers
      BY <1>8, SessionFacts DEF AssignsShrink, Stages
    <3>2. q # r \/ t[1] # w
      BY <1>2, <1>8, <3>1 DEF Stages
    <3> QED BY <1>14, <3>1, <3>2
  <2>6. \A t, u \in Sessions : t[1] = u[1] /\ AssignedIn(q, t)' /\ AssignedIn(q, u)' => t = u
    BY <1>8 DEF AssignsShrink, Stages
  <2>7. \A t \in Sessions : Once(Assign(q), outbox[t])'
    BY <1>8 DEF AssignsShrink, Stages
  <2>8. \A v \in Workers : job'[v] = q => NotReported(q, v)'
    BY <1>9, <1>12, <1>13 DEF Stages, NotRunning
  <2> QED BY <2>1, <2>2, <2>3, <2>4, <2>5, <2>6, <2>7, <2>8
<1>18. Stages'
  BY <1>17 DEF Stages
<1>19. \A v \in Workers : Current(v)' = Current(v)
  BY <1>4 DEF Current
<1>20. ASSUME NEW q \in Runs, present[q], verdict[q] # "failed"
       PROVE  /\ \A t \in Sessions : AssignedIn(q, t)' => t \in members'[q]
              /\ \A v \in Workers : job'[v] = q => Current(v)' \in members'[q]
  <2>1. /\ \A t \in Sessions : AssignedIn(q, t) => t \in members[q]
        /\ \A v \in Workers : job[v] = q => Current(v) \in members[q]
    BY <1>20 DEF Enrolled
  <2>2. \A v \in Workers : job'[v] = q => Current(v) \in members[q]
    BY <1>2, <1>8, <1>9, <2>1
  <2> QED BY <1>5, <1>8, <1>19, <2>1, <2>2 DEF AssignsShrink
<1>21. ASSUME NEW q \in Runs, verdict[q] = "completed" PROVE Over(q)'
  <2>1. Over(q) /\ q # r
    BY <1>8, <1>21 DEF Enrolled, Over
  <2> QED BY <1>5, <1>8, <1>9, <2>1 DEF Over, AssignsShrink
<1>22. Enrolled'
  <2> SUFFICES ASSUME NEW q \in Runs
               PROVE  (/\ launch[q] \in {"new", "reserved"} =>
                            ~present[q] /\ verdict[q] = "none" /\ members[q] = {}
                       /\ launch[q] \in {"assigning", "pushing", "cancel", "launched"} => present[q]
                       /\ present[q] => Cardinality(members[q] \cup queue[q]) <= expected[q]
                       /\ present[q] /\ verdict[q] # "failed" =>
                            /\ launch[q] = "pushing" => current[q] \in members[q]
                            /\ \A t \in Sessions : AssignedIn(q, t) => t \in members[q]
                            /\ \A v \in Workers : job[v] = q => Current(v) \in members[q]
                       /\ verdict[q] = "completed" => Over(q))'
    BY DEF Enrolled
  <2>1. /\ launch[q] \in {"new", "reserved"} =>
             ~present[q] /\ verdict[q] = "none" /\ members[q] = {}
        /\ launch[q] \in {"assigning", "pushing", "cancel", "launched"} => present[q]
        /\ present[q] => Cardinality(members[q] \cup queue[q]) <= expected[q]
        /\ present[q] /\ verdict[q] # "failed" /\ launch[q] = "pushing" => current[q] \in members[q]
    BY DEF Enrolled
  <2> QED BY <1>5, <1>20, <1>21, <2>1
<1> QED BY <1>10, <1>11, <1>18, <1>22

----------------------------------------------------------------------------
LEMMA InitHolds == Init => Inv /\ Fresh
<1> SUFFICES ASSUME Init PROVE Inv /\ Fresh
  OBVIOUS
<1> USE DEF Init
<1>1. TypeInv
  <2>1. NoEntry \in [chan : 0..MaxSessions, run : Runs \cup {NoRun}]
    BY SessionFacts DEF NoEntry
  <2>2. 0 \in 0..MaxSessions
    BY SessionFacts
  <2>3. NoSession \in Sessions \cup {NoSession}
    OBVIOUS
  <2> QED BY <2>1, <2>2, <2>3 DEF TypeInv
<1>2. Lines
  BY InNone DEF Lines
<1>3. /\ \A r \in Runs, s \in Sessions : ~AssignedIn(r, s) /\ ~ReportedIn(r, s)
      /\ \A r \in Runs, s \in Sessions : Once(Assign(r), outbox[s])
  BY InNone DEF AssignedIn, ReportedIn
<1>4. \A r \in Runs, w \in Workers : NotRegistered(r, w)
  BY <1>3, WorkerPoolAssumption DEF NotRegistered, NotSent, NotRunning, NotReported,
                                    MemberWorkers, PushingTo
<1>5. \A r \in Runs, w \in Workers : job[w] # r
  BY WorkerPoolAssumption
<1>6. Stages
  BY <1>3, <1>4, <1>5 DEF Stages
<1>7. Enrolled
  BY <1>3, <1>5 DEF Enrolled
<1>8. Fresh
  BY SessionFacts DEF Fresh
<1> QED BY <1>1, <1>2, <1>6, <1>7, <1>8 DEF Inv

LEMMA StepKeepsIt ==
    ASSUME Inv, Fresh, [Next]_vars
    PROVE  Inv' /\ Fresh'
<1>1. CASE \E w \in Workers : Connect(w)
  BY <1>1, ConnectKeepsIt
<1>2. CASE \A w \in Workers : ~Connect(w)
  <2>1. Fresh'
    BY <1>2, FreshKept DEF Inv
  <2>2. CASE UNCHANGED vars
    <3>1. UNCHANGED <<entry, launch, queue, current, expected, present, verdict, members, reported,
                      handler, inbox, outbox, gone, worker, session, job, evicting>>
      BY <2>2 DEF vars, launchVars, runVars, streamVars, workerVars
    <3>2. UNCHANGED <<launchVars, expected, present>>
      BY <3>1 DEF launchVars
    <3>3. TypeInv'
      BY <3>1 DEF Inv, TypeInv
    <3>4. Lines'
      BY <3>1 DEF Inv, Lines, Current
    <3>5. AssignsShrink /\ Decides
      BY <3>1 DEF AssignsShrink, AssignedIn, Decides
    <3>6. \A r \in Runs, w \in Workers : NotRunning(r, w) => NotRunning(r, w)'
      BY <3>1, NoMove
    <3>7. \A r \in Runs, w \in Workers : job'[w] = r =>
            job[w] = r /\ session'[w] = session[w] /\ NotReported(r, w)'
      BY <3>1 DEF Inv, Stages, NotReported, ReportedIn
    <3>8. Inv'
      BY <3>2, <3>3, <3>4, <3>5, <3>6, <3>7, MoveKeepsIt
    <3> QED BY <2>1, <3>8
  <2>3. ASSUME NEW r \in Runs, SpawnRun(r) \/ UserAbort(r) \/ WatchdogFails(r) PROVE Inv'
    BY <2>3, ReserveKeepsIt, EnqueueKeepsIt, AssignRegisterKeepsIt, AssignPushKeepsIt,
       LaunchEndsKeepIt, AbortsKeepIt DEF SpawnRun
  <2>4. ASSUME NEW s \in Sessions, Handler(s) \/ LeftSessionEnds(s) \/ Break(s) PROVE Inv'
    BY <2>4, RegisterKeepsIt, DisconnectsKeepIt, StatusKeepsIt, LeavesKeepIt DEF Handler
  <2>5. ASSUME NEW w \in Workers, Heartbeat(w) \/ Exclude(w) \/ WorkerReacts(w) \/ EngineReturns(w)
        PROVE  Inv'
    BY <1>2, <2>5, RegisterKeepsIt, DisconnectsKeepIt, ExcludeKeepsIt, AcceptKeepsIt, LeavesKeepIt,
       EndsKeepsIt, ExitKeepsIt DEF Heartbeat, WorkerReacts
  <2> QED BY <2>1, <2>2, <2>3, <2>4, <2>5 DEF Next
<1> QED BY <1>1, <1>2

LEMMA InvHolds == Spec => [](Inv /\ Fresh)
<1>1. Init => Inv /\ Fresh
  BY InitHolds
<1>2. Inv /\ Fresh /\ [Next]_vars => Inv' /\ Fresh'
  BY StepKeepsIt
<1> QED BY <1>1, <1>2, PTL DEF Spec

\* However often the workers reconnect, are evicted or excluded, and whatever
\* launches still register: a run that record_phase completed has no load left
\* anywhere (coordinator.rs).
THEOREM CompletedLoadStops == Spec => []CompletedRunLoadStopped
<1>1. Inv => CompletedRunLoadStopped
  BY DEF Inv, Enrolled, Over, CompletedRunLoadStopped
<1> QED BY <1>1, InvHolds, PTL

----------------------------------------------------------------------------
(***************************************************************************)
(* While no worker reconnects: the pool's entry, once it is there, is of   *)
(* the only connection, and tells of the only run that has the worker.     *)
(***************************************************************************)
Used(w) == session[w] = 1 /\ ~In(RegisterMsg, inbox[<<w, 1>>])

Has(r, w) ==
    \/ \E s \in queue[r] : s[1] = w
    \/ w \in MemberWorkers(r) \/ PushingTo(r, w) \/ job[w] = r
    \/ \E s \in Sessions : s[1] = w /\ AssignedIn(r, s)

Exclusive ==
    /\ \A w \in Workers : InPool(w) => Used(w)
    /\ \A r \in Runs, w \in Workers : Has(r, w) => Used(w) /\ (InPool(w) => entry[w].run = r)
    /\ \A r, q \in Runs, w \in Workers : Has(r, w) /\ Has(q, w) => r = q

HasShrinks == \A r \in Runs, w \in Workers : Has(r, w)' => Has(r, w)

LEMMA QuietShrinks ==
    ASSUME TypeInv, Quiet
    PROVE  HasShrinks
<1> SUFFICES ASSUME NEW r \in Runs, NEW w \in Workers, Has(r, w)' PROVE Has(r, w)
  BY DEF HasShrinks
<1>1. /\ UNCHANGED <<launch, queue, current>> /\ members'[r] \subseteq members[r]
      /\ job'[w] = r => job[w] = r
      /\ \A s \in Sessions : AssignedIn(r, s)' => AssignedIn(r, s)
  BY DEF Quiet, Decides, launchVars, AssignsShrink
<1>2. w \in MemberWorkers(r)' => w \in MemberWorkers(r)
  BY <1>1 DEF MemberWorkers
<1>3. PushingTo(r, w)' => PushingTo(r, w)
  BY <1>1 DEF PushingTo
<1> QED BY <1>1, <1>2, <1>3 DEF Has

\* The steps of a launch but for the reservation's: a worker moves on.
LEMMA LaunchShrinks ==
    ASSUME Inv, NEW r \in Runs,
           Enqueue(r) \/ AssignRegister(r) \/ AssignPush(r) \/ Launched(r) \/ CancelLaunch(r)
    PROVE  HasShrinks
<1> USE DEF Inv
<1>1. UNCHANGED job
  BY DEF Enqueue, AssignRegister, AssignPush, Launched, CancelLaunch, workerVars
<1>2. CASE Enqueue(r) \/ Launched(r)
  <2>1. /\ UNCHANGED <<queue, members, current, outbox>>
        /\ \A q \in Runs : launch'[q] = "pushing" => launch[q] = "pushing"
    BY <1>2 DEF Enqueue, Launched, runVars, streamVars, TypeInv
  <2> QED BY <1>1, <2>1 DEF HasShrinks, Has, MemberWorkers, PushingTo, AssignedIn
<1>3. CASE AssignRegister(r)
  <2>1. PICK s \in queue[r] :
         \/ /\ members' = [members EXCEPT ![r] = members[r] \cup {s}]
            /\ queue' = [queue EXCEPT ![r] = queue[r] \ {s}]
            /\ current' = [current EXCEPT ![r] = s]
            /\ launch' = [launch EXCEPT ![r] = "pushing"]
         \/ /\ launch' = [launch EXCEPT ![r] = "cancel"]
            /\ UNCHANGED <<members, queue, current>>
    BY <1>3 DEF AssignRegister
  <2>2. outbox' = outbox
    BY <1>3 DEF AssignRegister, streamVars
  <2>3. \A q \in Runs : /\ members'[q] \subseteq members[q] \cup queue[q]
                        /\ queue'[q] \subseteq queue[q]
    <3>1. CASE UNCHANGED <<members, queue>>
      BY <3>1
    <3>2. CASE /\ members' = [members EXCEPT ![r] = members[r] \cup {s}]
               /\ queue' = [queue EXCEPT ![r] = queue[r] \ {s}]
      <4>1. /\ members'[r] = members[r] \cup {s} /\ queue'[r] = queue[r] \ {s}
            /\ \A q \in Runs : q # r => members'[q] = members[q] /\ queue'[q] = queue[q]
        BY <3>2 DEF TypeInv
      <4> QED BY <4>1
    <3> QED BY <2>1, <3>1, <3>2
  <2>4. \A q \in Runs : launch'[q] = "pushing" =>
          \/ launch[q] = "pushing" /\ current'[q] = current[q]
          \/ current'[q] \in queue[q]
    BY <2>1 DEF TypeInv
  <2>5. ASSUME NEW q \in Runs, NEW w \in Workers, Has(q, w)' PROVE Has(q, w)
    <3>1. w \in MemberWorkers(q)' => w \in MemberWorkers(q) \/ \E t \in queue[q] : t[1] = w
      BY <2>3 DEF MemberWorkers
    <3>2. PushingTo(q, w)' => PushingTo(q, w) \/ \E t \in queue[q] : t[1] = w
      BY <2>4 DEF PushingTo
    <3> QED BY <1>1, <2>2, <2>3, <2>5, <3>1, <3>2 DEF Has, AssignedIn
  <2> QED BY <2>5 DEF HasShrinks
<1>4. CASE AssignPush(r)
  <2>1. /\ UNCHANGED <<queue, members>> /\ launch[r] = "pushing"
        /\ \A q \in Runs : launch'[q] = "pushing" => launch[q] = "pushing" /\ current'[q] = current[q]
        /\ SendTo({current[r]}, Assign(r)) \/ outbox' = outbox
    BY <1>4 DEF AssignPush, runVars, TypeInv
  <2>2. PICK targets : targets = {current[r]}
    OBVIOUS
  <2>3. PICK m \in ServerMsgs : m = Assign(r)
    BY Messages
  <2>4. \A s \in Sessions : \A x : In(x, outbox'[s]) => In(x, outbox[s]) \/ (x = m /\ s \in targets)
    <3>1. CASE outbox' = outbox
      BY <3>1
    <3>2. CASE SendTo(targets, m)
      BY <3>2, SentTo
    <3> QED BY <2>1, <2>2, <2>3, <3>1, <3>2
  <2>5. \A q \in Runs, s \in Sessions : AssignedIn(q, s)' => AssignedIn(q, s) \/ (q = r /\ s = current[r])
    BY <2>2, <2>3, <2>4, Messages DEF AssignedIn
  <2>6. ASSUME NEW q \in Runs, NEW w \in Workers, Has(q, w)' PROVE Has(q, w)
    <3>1. PushingTo(q, w)' => PushingTo(q, w)
      BY <2>1 DEF PushingTo
    <3>2. (\E s \in Sessions : s[1] = w /\ AssignedIn(q, s)') => Has(q, w)
      BY <2>1, <2>5 DEF Has, PushingTo
    <3>3. w \in MemberWorkers(q)' => w \in MemberWorkers(q)
      BY <2>1 DEF MemberWorkers
    <3> QED BY <1>1, <2>1, <2>6, <3>1, <3>2, <3>3 DEF Has
  <2> QED BY <2>6 DEF HasShrinks
<1>5. CASE CancelLaunch(r)
  <2>1. /\ SendTo(members[r], Abort(r)) /\ UNCHANGED current
        /\ \A q \in Runs : queue'[q] \subseteq queue[q] /\ members'[q] \subseteq members[q]
        /\ \A q \in Runs : launch'[q] = "pushing" => launch[q] = "pushing"
    BY <1>5 DEF CancelLaunch, TypeInv
  <2>2. Abort(r) \in ServerMsgs /\ \A q \in Runs : Abort(r) # Assign(q)
    BY Messages
  <2>3. AssignsShrink
    BY <2>1, <2>2, Sending
  <2>4. ASSUME NEW q \in Runs, NEW w \in Workers, Has(q, w)' PROVE Has(q, w)
    <3>1. w \in MemberWorkers(q)' => w \in MemberWorkers(q)
      BY <2>1 DEF MemberWorkers
    <3>2. PushingTo(q, w)' => PushingTo(q, w)
      BY <2>1 DEF PushingTo
    <3> QED BY <1>1, <2>1, <2>3, <2>4, <3>1, <3>2 DEF Has, AssignsShrink
  <2> QED BY <2>4 DEF HasShrinks
<1> QED BY <1>2, <1>3, <1>4, <1>5

LEMMA AcceptShrinks ==
    ASSUME Inv, NEW w \in Workers, Accept(w)
    PROVE  HasShrinks
<1> USE DEF Inv
<1>1. session[w] # 0
  BY DEF Accept, Lines
<1>2. PICK s \in Sessions : s = Current(w) /\ s[1] = w
  BY <1>1, CurrentIs
<1>3. PICK r \in Runs : Receives(s, Assign(r)) /\ job' = [job EXCEPT ![w] = r]
  BY <1>2 DEF Accept
<1>4. outbox' = [outbox EXCEPT ![s] = Tail(@)] /\ UNCHANGED <<launchVars, runVars>>
  BY <1>2 DEF Accept
<1>5. UNCHANGED <<launch, queue, current, members>>
  BY <1>4 DEF launchVars, runVars
<1>6. /\ In(Assign(r), outbox[s])
      /\ \A t \in Sessions : t # s => outbox'[t] = outbox[t]
      /\ \A x : In(x, outbox'[s]) => In(x, outbox[s])
  BY <1>3, <1>4, Heard
<1>7. \A q \in Runs, t \in Sessions : AssignedIn(q, t)' => AssignedIn(q, t)
  BY <1>6 DEF AssignedIn
<1>8. \A q \in Runs, v \in Workers : job'[v] = q => job[v] = q \/ (q = r /\ v = w)
  BY <1>3 DEF TypeInv
<1>9. Has(r, w)
  BY <1>2, <1>6 DEF Has, AssignedIn
<1> SUFFICES ASSUME NEW q \in Runs, NEW v \in Workers, Has(q, v)' PROVE Has(q, v)
  BY DEF HasShrinks
<1>10. v \in MemberWorkers(q)' => v \in MemberWorkers(q)
  BY <1>5 DEF MemberWorkers
<1>11. PushingTo(q, v)' => PushingTo(q, v)
  BY <1>5 DEF PushingTo
<1>12. job'[v] = q => Has(q, v)
  BY <1>8, <1>9 DEF Has
<1> QED BY <1>5, <1>7, <1>10, <1>11, <1>12 DEF Has

\* A connection that is in use stays the only one.
LEMMA UsedKept ==
    ASSUME MaxSessions = 1, Inv, [Next]_vars
    PROVE  \A w \in Workers : Used(w) => Used(w)'
<1> USE DEF Inv
<1>0. \A w \in Workers : <<w, 1>> \in Sessions
  <2>1. 1 \in 1..MaxSessions
    OBVIOUS
  <2> QED BY <2>1, SessionFacts
<1>1. ASSUME UNCHANGED session,
             \A s \in Sessions : In(RegisterMsg, inbox'[s]) => In(RegisterMsg, inbox[s])
      PROVE  \A w \in Workers : Used(w) => Used(w)'
  BY <1>0, <1>1 DEF Used
<1>2. ASSUME NEW s \in Sessions, NEW m, Reads(s, m), UNCHANGED session
      PROVE  \A w \in Workers : Used(w) => Used(w)'
  <2>1. \A t \in Sessions : In(RegisterMsg, inbox'[t]) => In(RegisterMsg, inbox[t])
    BY <1>2, ReadMsg
  <2> QED BY <1>1, <1>2, <2>1
<1>3. ASSUME NEW w \in Workers, worker[w] = "run", UNCHANGED session, NEW res \in Results,
             inbox' = [inbox EXCEPT ![Current(w)] = Append(@, Status(job[w], res))]
      PROVE  \A v \in Workers : Used(v) => Used(v)'
  <2>1. session[w] # 0 /\ job[w] \in Runs
    BY <1>3 DEF Lines, TypeInv
  <2>2. PICK m \in WorkerMsgs : m = Status(job[w], res) /\ m # RegisterMsg
    BY <2>1, Messages
  <2>3. PICK s \in Sessions : s = Current(w)
    BY <2>1, CurrentIs
  <2>4. \A t \in Sessions : In(RegisterMsg, inbox'[t]) => In(RegisterMsg, inbox[t])
    BY <1>3, <2>2, <2>3, SaidMsg
  <2> QED BY <1>1, <1>3, <2>4
<1>4. ASSUME NEW w \in Workers, Connect(w) PROVE \A v \in Workers : Used(v) => Used(v)'
  <2>1. /\ session[w] < MaxSessions
        /\ session' = [session EXCEPT ![w] = session[w] + 1]
        /\ inbox' = [inbox EXCEPT ![<<w, session[w] + 1>>] = <<RegisterMsg>>]
    BY <1>4 DEF Connect
  <2>2. \A v \in Workers : Used(v) => v # w /\ session'[v] = session[v] /\ inbox'[<<v, 1>>] = inbox[<<v, 1>>]
    BY <1>0, <2>1 DEF Used, TypeInv
  <2> QED BY <2>2 DEF Used
<1>5. CASE UNCHANGED <<inbox, session>>
  BY <1>1, <1>5
<1>6. CASE UNCHANGED vars
  BY <1>5, <1>6 DEF vars, streamVars, workerVars
<1>7. ASSUME NEW r \in Runs, SpawnRun(r) \/ UserAbort(r) \/ WatchdogFails(r)
      PROVE  \A v \in Workers : Used(v) => Used(v)'
  BY <1>5, <1>7 DEF SpawnRun, Reserve, ReleaseReservation, Enqueue, AssignRegister, AssignPush,
                    Launched, CancelLaunch, UserAbort, WatchdogFails, streamVars, workerVars
<1>8. ASSUME NEW s \in Sessions, Handler(s) \/ LeftSessionEnds(s) \/ Break(s)
      PROVE  \A v \in Workers : Used(v) => Used(v)'
  <2>1. CASE HandleEof(s) \/ LeftSessionEnds(s) \/ Break(s)
    BY <1>5, <2>1 DEF HandleEof, LeftSessionEnds, Break, workerVars
  <2>2. CASE RegisterIdle(s) \/ \E r \in Runs, res \in Results : HandleStatus(s, r, res)
    <3>1. UNCHANGED session /\ \E m : Reads(s, m)
      BY <2>2 DEF RegisterIdle, HandleStatus, workerVars
    <3> QED BY <1>2, <3>1
  <2> QED BY <1>8, <2>1, <2>2 DEF Handler
<1>9. ASSUME NEW w \in Workers, Heartbeat(w) \/ Exclude(w) \/ WorkerReacts(w) \/ EngineReturns(w)
      PROVE  \A v \in Workers : Used(v) => Used(v)'
  <2>1. CASE Heartbeat(w) \/ Exclude(w) \/ Accept(w) \/ Refused(w)
    BY <1>5, <2>1 DEF Heartbeat, HeartbeatSnapshot, HeartbeatEvict, Exclude, Accept, Refused,
                      streamVars, workerVars
  <2>2. CASE AbortListener(w) \/ EngineReturns(w)
    <3>1. PICK res \in Results : Ends(w, res)
      BY <2>2 DEF AbortListener, EngineReturns, Results
    <3> QED BY <1>3, <3>1 DEF Ends
  <2>3. CASE DisconnectedByOperator(w)
    <3>1. PICK res \in Results : res = "aborted"
      BY DEF Results
    <3>2. CASE worker[w] = "run"
      BY <1>3, <2>3, <3>1, <3>2 DEF DisconnectedByOperator
    <3>3. CASE worker[w] # "run"
      BY <1>5, <2>3, <3>3 DEF DisconnectedByOperator
    <3> QED BY <3>2, <3>3
  <2> QED BY <1>4, <1>9, <2>1, <2>2, <2>3 DEF WorkerReacts
<1> QED BY <1>6, <1>7, <1>8, <1>9 DEF Next

\* What makes an entry is a registration, what changes it a reservation.
LEMMA EntryKept ==
    ASSUME TypeInv, [Next]_vars, \A r \in Runs : ~Reserve(r) /\ ~ReleaseReservation(r),
           \A s \in Sessions : ~RegisterIdle(s)
    PROVE  \A w \in Workers : InPool(w)' => entry'[w] = entry[w]
<1>1. CASE UNCHANGED entry
  BY <1>1
<1>2. ASSUME NEW w \in Workers, entry' = [entry EXCEPT ![w] = NoEntry]
      PROVE  \A v \in Workers : InPool(v)' => entry'[v] = entry[v]
  BY <1>2 DEF InPool, NoEntry, TypeInv
<1>3. CASE UNCHANGED vars
  BY <1>1, <1>3 DEF vars
<1>4. ASSUME NEW r \in Runs, SpawnRun(r) \/ UserAbort(r) \/ WatchdogFails(r) PROVE UNCHANGED entry
  BY <1>4 DEF SpawnRun, Enqueue, AssignRegister, AssignPush, Launched, CancelLaunch, UserAbort,
              WatchdogFails
<1>5. ASSUME NEW s \in Sessions, Handler(s) \/ LeftSessionEnds(s) \/ Break(s)
      PROVE  \A v \in Workers : InPool(v)' => entry'[v] = entry[v]
  <2>1. CASE HandleEof(s)
    <3>1. PICK w \in Workers : entry' = [entry EXCEPT ![w] = NoEntry]
      BY <2>1, SessionFacts DEF HandleEof, PoolDisconnect
    <3> QED BY <1>2, <3>1
  <2> QED BY <1>1, <1>5, <2>1 DEF Handler, HandleStatus, LeftSessionEnds, Break
<1>6. ASSUME NEW w \in Workers, Heartbeat(w) \/ Exclude(w) \/ WorkerReacts(w) \/ EngineReturns(w)
      PROVE  \A v \in Workers : InPool(v)' => entry'[v] = entry[v]
  <2>1. CASE HeartbeatEvict(w) \/ Exclude(w)
    BY <1>2, <2>1 DEF HeartbeatEvict, PoolDisconnect, Exclude
  <2>2. CASE HeartbeatSnapshot(w) \/ WorkerReacts(w) \/ EngineReturns(w)
    BY <1>1, <2>2 DEF HeartbeatSnapshot, WorkerReacts, Connect, Accept, Refused, AbortListener,
                      DisconnectedByOperator, EngineReturns, Ends
  <2> QED BY <1>6, <2>1, <2>2 DEF Heartbeat
<1> QED BY <1>1, <1>3, <1>4, <1>5, <1>6 DEF Next

LEMMA ExclusiveKept ==
    ASSUME Exclusive, HasShrinks, \A w \in Workers : Used(w) => Used(w)',
           \A w \in Workers : InPool(w)' => entry'[w] = entry[w]
    PROVE  Exclusive'
<1>1. \A w \in Workers : InPool(w)' => InPool(w)
  BY DEF InPool
<1> QED BY <1>1 DEF Exclusive, HasShrinks

LEMMA NobodyHas ==
    ASSUME Inv, NEW r \in Runs, launch[r] \in {"new", "reserved"}, NEW w \in Workers
    PROVE  /\ w \notin MemberWorkers(r) /\ ~PushingTo(r, w) /\ job[w] # r
           /\ \A s \in Sessions : s[1] = w => ~AssignedIn(r, s)
BY DEF Inv, Stages, NotRegistered, NotSent, NotRunning

LEMMA ReserveIsExclusive ==
    ASSUME MaxSessions = 1, Inv, Exclusive, NEW r \in Runs, Reserve(r) \/ ReleaseReservation(r),
           \A w \in Workers : Used(w) => Used(w)'
    PROVE  Exclusive'
<1> USE DEF Inv
<1>1. /\ launch[r] \in {"new", "reserved"}
      /\ UNCHANGED <<current, members, outbox, job>>
  BY DEF Reserve, ReleaseReservation, runVars, streamVars, workerVars
<1>2. \A q \in Runs : launch'[q] = "pushing" => launch[q] = "pushing"
  BY DEF Reserve, ReleaseReservation, TypeInv
<1>3. \A q \in Runs, w \in Workers :
        /\ w \in MemberWorkers(q)' <=> w \in MemberWorkers(q)
        /\ PushingTo(q, w)' => PushingTo(q, w)
        /\ \A s \in Sessions : AssignedIn(q, s)' <=> AssignedIn(q, s)
  BY <1>1, <1>2 DEF MemberWorkers, PushingTo, AssignedIn
<1>4. \A q \in Runs, w \in Workers :
        Has(q, w)' => (\E s \in queue'[q] : s[1] = w) \/ Has(q, w)
  BY <1>1, <1>3 DEF Has
<1>5. \A w \in Workers : Has(r, w)' => \E s \in queue'[r] : s[1] = w
  BY <1>1, <1>3, NobodyHas DEF Has
<1>6. CASE UNCHANGED <<entry, queue>>
  <2>1. HasShrinks
    BY <1>4, <1>6 DEF HasShrinks, Has
  <2> QED BY <1>6, <2>1, ExclusiveKept
<1>7. CASE ReleaseReservation(r)
  <2>1. /\ entry' = [w \in Workers |->
                       IF InPool(w) /\ \E s \in queue[r] : s[1] = w
                       THEN [entry[w] EXCEPT !.run = NoRun] ELSE entry[w]]
        /\ queue' = [queue EXCEPT ![r] = {}]
    BY <1>7 DEF ReleaseReservation
  <2>2. \A w \in Workers : [entry[w] EXCEPT !.run = NoRun].chan = entry[w].chan
    BY Reassigned DEF TypeInv
  <2>3. \A w \in Workers : /\ InPool(w)' => InPool(w)
                           /\ entry'[w] = entry[w] \/ Has(r, w)
    BY <2>1, <2>2 DEF InPool, Has
  <2>4. \A w \in Workers : ~Has(r, w)'
    BY <1>5, <2>1 DEF TypeInv
  <2>5. HasShrinks
    BY <1>4, <2>1, <2>4 DEF HasShrinks, Has, TypeInv
  <2>6. \A w \in Workers, q \in Runs : Has(q, w)' => q # r /\ entry'[w] = entry[w] /\ Has(q, w)
    BY <2>3, <2>4, <2>5 DEF HasShrinks, Exclusive
  <2> QED BY <2>3, <2>6 DEF Exclusive
<1>8. CASE Reserve(r) /\ ~UNCHANGED <<entry, queue>>
  <2>1. PICK chosen \in SUBSET IdleWorkers :
          /\ entry' = [w \in Workers |->
                         IF w \in chosen THEN [entry[w] EXCEPT !.run = r] ELSE entry[w]]
          /\ queue' = [queue EXCEPT ![r] = {<<w, entry[w].chan>> : w \in chosen}]
    BY <1>8 DEF Reserve
  <2>2. \A w \in Workers : /\ [entry[w] EXCEPT !.run = r].chan = entry[w].chan
                           /\ [entry[w] EXCEPT !.run = r].run = r
    BY Reassigned DEF TypeInv
  <2>3. \A w \in chosen : InPool(w) /\ Used(w) /\ \A q \in Runs : ~Has(q, w)
    BY WorkerPoolAssumption DEF IdleWorkers, Idle, Exclusive
  <2>4. \A w \in Workers : Has(r, w)' => w \in chosen
    <3>1. queue'[r] = {<<w, entry[w].chan>> : w \in chosen}
      BY <2>1 DEF TypeInv
    <3> QED BY <1>5, <3>1
  <2>5. \A q \in Runs, w \in Workers : Has(q, w)' /\ q # r => Has(q, w)
    <3>1. \A q \in Runs : q # r => queue'[q] = queue[q]
      BY <2>1 DEF TypeInv
    <3> QED BY <1>4, <3>1 DEF Has
  <2>6. \A w \in Workers : InPool(w)' => InPool(w)
    BY <2>1, <2>2 DEF InPool
  <2>7. \A w \in Workers : /\ w \in chosen => entry'[w].run = r
                           /\ w \notin chosen => entry'[w] = entry[w]
    BY <2>1, <2>2
  <2>8. \A q \in Runs, w \in Workers : Has(q, w)' =>
          \/ q = r /\ w \in chosen
          \/ q # r /\ w \notin chosen /\ Has(q, w)
    BY <2>3, <2>4, <2>5
  <2>9. \A w \in Workers : InPool(w)' => Used(w)'
    BY <2>6 DEF Exclusive
  <2>10. \A q \in Runs, w \in Workers : Has(q, w)' => Used(w)' /\ (InPool(w)' => entry'[w].run = q)
    <3> SUFFICES ASSUME NEW q \in Runs, NEW w \in Workers, Has(q, w)'
                 PROVE  Used(w)' /\ (InPool(w)' => entry'[w].run = q)
      OBVIOUS
    <3>1. CASE q = r /\ w \in chosen
      BY <2>3, <2>7, <3>1
    <3>2. CASE q # r /\ w \notin chosen /\ Has(q, w)
      BY <2>6, <2>7, <3>2 DEF Exclusive
    <3> QED BY <2>8, <3>1, <3>2
  <2>11. \A p, q \in Runs, w \in Workers : Has(p, w)' /\ Has(q, w)' => p = q
    BY <2>8 DEF Exclusive
  <2> QED BY <2>9, <2>10, <2>11 DEF Exclusive
<1> QED BY <1>6, <1>7, <1>8

LEMMA RegisterIsExclusive ==
    ASSUME MaxSessions = 1, Inv, Exclusive, NEW s \in Sessions, RegisterIdle(s),
           \A w \in Workers : Used(w) => Used(w)'
    PROVE  Exclusive'
<1> USE DEF Inv
<1>1. PICK w \in Workers : w = s[1] /\ s = <<w, 1>>
  BY SessionFacts
<1>2. /\ Reads(s, RegisterMsg) /\ UNCHANGED session
      /\ entry' = [entry EXCEPT ![w] = [chan |-> s[2], run |-> NoRun]]
  BY <1>1 DEF RegisterIdle, workerVars
<1>3. In(RegisterMsg, inbox[s]) /\ ~In(RegisterMsg, inbox'[s]) /\ inbox[s] # <<>>
  BY <1>2, ReadMsg DEF Lines
<1>4. session[w] = 1
  <2>1. ~(session[s[1]] < s[2]) /\ s[2] = 1 /\ session[w] \in 0..1
    BY <1>1, <1>3, SessionFacts DEF Lines, TypeInv
  <2> QED BY <1>1, <2>1
<1>5. Used(w)' /\ ~Used(w)
  BY <1>1, <1>2, <1>3, <1>4 DEF Used
<1>6. HasShrinks
  BY RegisterKeepsIt, QuietShrinks
<1>7. \A r \in Runs : ~Has(r, w)'
  BY <1>5, <1>6 DEF HasShrinks, Exclusive
<1>8. \A v \in Workers : v # w => entry'[v] = entry[v]
  BY <1>2 DEF TypeInv
<1>9. \A v \in Workers : InPool(v)' => Used(v)'
  BY <1>5, <1>8 DEF Exclusive, InPool
<1>10. \A q \in Runs, v \in Workers : Has(q, v)' => Used(v)' /\ (InPool(v)' => entry'[v].run = q)
  BY <1>6, <1>7, <1>8 DEF Exclusive, HasShrinks, InPool
<1>11. \A p, q \in Runs, v \in Workers : Has(p, v)' /\ Has(q, v)' => p = q
  BY <1>6 DEF Exclusive, HasShrinks
<1> QED BY <1>9, <1>10, <1>11 DEF Exclusive

LEMMA ExclusiveStep ==
    ASSUME MaxSessions = 1, Inv, Fresh, Exclusive, [Next]_vars
    PROVE  Exclusive'
<1>1. \A w \in Workers : Used(w) => Used(w)'
  BY UsedKept
<1>2. CASE \E r \in Runs : Reserve(r) \/ ReleaseReservation(r)
  BY <1>1, <1>2, ReserveIsExclusive
<1>3. CASE \E s \in Sessions : RegisterIdle(s)
  BY <1>1, <1>3, RegisterIsExclusive
<1>4. CASE /\ \A r \in Runs : ~Reserve(r) /\ ~ReleaseReservation(r)
           /\ \A s \in Sessions : ~RegisterIdle(s)
  <2>1. HasShrinks
    <3>1. CASE UNCHANGED vars
      BY <3>1 DEF vars, launchVars, runVars, streamVars, workerVars, HasShrinks, Has,
                  MemberWorkers, PushingTo, AssignedIn
    <3>2. ASSUME NEW r \in Runs, SpawnRun(r) \/ UserAbort(r) \/ WatchdogFails(r) PROVE HasShrinks
      BY <1>4, <3>2, LaunchShrinks, AbortsKeepIt, QuietShrinks DEF SpawnRun, Inv
    <3>3. ASSUME NEW s \in Sessions, Handler(s) \/ LeftSessionEnds(s) \/ Break(s) PROVE HasShrinks
      BY <1>4, <3>3, DisconnectsKeepIt, StatusKeepsIt, LeavesKeepIt, QuietShrinks DEF Handler, Inv
    <3>4. ASSUME NEW w \in Workers, Heartbeat(w) \/ Exclude(w) \/ WorkerReacts(w) \/ EngineReturns(w)
          PROVE  HasShrinks
      BY <3>4, RegisterKeepsIt, DisconnectsKeepIt, ExcludeKeepsIt, ConnectKeepsIt, AcceptShrinks,
         LeavesKeepIt, EndsKeepsIt, ExitKeepsIt, QuietShrinks DEF Heartbeat, WorkerReacts, Inv
    <3> QED BY <3>1, <3>2, <3>3, <3>4 DEF Next
  <2>2. \A w \in Workers : InPool(w)' => entry'[w] = entry[w]
    BY <1>4, EntryKept DEF Inv
  <2> QED BY <1>1, <2>1, <2>2, ExclusiveKept
<1> QED BY <1>2, <1>3, <1>4

LEMMA InitIsExclusive == Init => Exclusive
<1> SUFFICES ASSUME Init PROVE Exclusive
  OBVIOUS
<1>1. \A w \in Workers : ~InPool(w)
  BY DEF Init, InPool, NoEntry
<1>2. \A r \in Runs, w \in Workers : ~Has(r, w)
  BY InNone, WorkerPoolAssumption DEF Init, Has, MemberWorkers, PushingTo, AssignedIn
<1> QED BY <1>1, <1>2 DEF Exclusive

\* Two runs in progress never hold one worker, whatever launches are given up
\* or released, workers evicted or excluded (reserve_idle_pool,
\* release_pool_reservation, pool_disconnect): as long as no worker reconnects,
\* for a second connection's registration frees the entry of a reserved worker.
THEOREM ReservationsAreExclusive ==
    ASSUME MaxSessions = 1
    PROVE  Spec => []ReservationIsExclusive
<1> DEFINE All == Inv /\ Fresh /\ Exclusive
<1>1. Init => All
  BY InitHolds, InitIsExclusive
<1>2. All /\ [Next]_vars => All'
  BY StepKeepsIt, ExclusiveStep
<1>3. All => ReservationIsExclusive
  <2>1. \A r \in Runs, w \in Workers : Holds(r, w) => Has(r, w)
    BY DEF Holds, Has, IsMember
  <2> QED BY <2>1 DEF Exclusive, ReservationIsExclusive
<1> QED BY <1>1, <1>2, <1>3, PTL DEF Spec

----------------------------------------------------------------------------
(***************************************************************************)
(* While no worker reconnects: of a run that failed, every session with    *)
(* its load or an assignment of it is told to stop, or is about to be      *)
(* found closed.                                                           *)
(***************************************************************************)
Failed(r)  == launch[r] = "failed" \/ verdict[r] = "failed"
Told(r, s) == In(Abort(r), outbox[s]) \/ In(Disconnect, outbox[s])

Stopping(r) ==
    /\ \A w \in Workers : job[w] = r => Told(r, Current(w))
    /\ \A s \in Sessions : AssignedIn(r, s) => Told(r, s)
    /\ launch[r] = "pushing" => gone[current[r]] \/ Told(r, current[r])

Aborting ==
    /\ \A w \in evicting : gone[<<w, 1>>]
    /\ \A r \in Runs : Failed(r) => Stopping(r)

LEMMA FirstSession ==
    ASSUME MaxSessions = 1
    PROVE  /\ \A w \in Workers : <<w, 1>> \in Sessions
           /\ \A s \in Sessions : s = <<s[1], 1>>
<1>1. 1 \in 1..MaxSessions /\ \A n \in 1..MaxSessions : n = 1
  OBVIOUS
<1> QED BY <1>1, SessionFacts

LEMMA AtWork ==
    ASSUME Inv, NEW w \in Workers, NEW r \in Runs, job[w] = r
    PROVE  Current(w) \in Sessions /\ Current(w)[1] = w /\ ~gone[Current(w)]
<1>1. worker[w] = "run"
  BY WorkerPoolAssumption DEF Inv, Lines
<1> QED BY <1>1, CurrentIs DEF Inv, Lines

LEMMA AssignedIsOpen ==
    ASSUME Inv, NEW s \in Sessions, NEW r, AssignedIn(r, s)
    PROVE  ~gone[s]
BY InNone DEF Inv, Lines, AssignedIn

\* Who is stopping goes on stopping ...
LEMMA StoppingKept ==
    ASSUME Inv, Inv', NEW r \in Runs, Stopping(r),
           \A s \in Sessions : AssignedIn(r, s)' => AssignedIn(r, s),
           \A w \in Workers : job'[w] = r => job[w] = r /\ session'[w] = session[w],
           launch'[r] = "pushing" => launch[r] = "pushing" /\ current'[r] = current[r],
           \A s \in Sessions : gone[s] => gone'[s],
           \A s \in Sessions : Told(r, s) => Told(r, s)' \/ gone'[s]
    PROVE  Stopping(r)'
<1>1. ASSUME NEW w \in Workers, job'[w] = r PROVE Told(r, Current(w))'
  <2>1. job[w] = r /\ Current(w)' = Current(w)
    BY <1>1 DEF Current
  <2>2. PICK s \in Sessions : s = Current(w) /\ Told(r, s)
    BY <2>1, AtWork DEF Stopping
  <2>3. worker'[w] = "run"
    BY <1>1, WorkerPoolAssumption DEF Inv, Lines
  <2>4. ~gone'[s]
    BY <2>1, <2>2, <2>3 DEF Inv, Lines
  <2>5. Told(r, s)'
    BY <2>2, <2>4
  <2> QED BY <2>1, <2>2, <2>5 DEF Told
<1>2. ASSUME NEW s \in Sessions, AssignedIn(r, s)' PROVE Told(r, s)'
  <2>1. AssignedIn(r, s) /\ Told(r, s)
    BY <1>2 DEF Stopping
  <2>2. ~gone'[s]
    BY <1>2, InNone DEF Inv, Lines, AssignedIn
  <2> QED BY <2>1, <2>2
<1>3. ASSUME launch'[r] = "pushing" PROVE (gone[current[r]] \/ Told(r, current[r]))'
  <2>1. PICK s \in Sessions : s = current[r] /\ current'[r] = s /\ (gone[s] \/ Told(r, s))
    BY <1>3 DEF Stopping, Inv, Stages
  <2>2. gone'[s] \/ Told(r, s)'
    BY <2>1
  <2> QED BY <2>1, <2>2 DEF Told
<1> QED BY <1>1, <1>2, <1>3 DEF Stopping

\* ... and who fails as all that may have its load are told begins to.
LEMMA FailedAreTold ==
    ASSUME Inv, NEW r \in Runs, present[r], verdict[r] # "failed", AssignsShrink,
           \A w \in Workers : job'[w] = r => job[w] = r /\ session'[w] = session[w],
           launch'[r] = "pushing" => launch[r] = "pushing" /\ current'[r] = current[r],
           \A t \in members[r] : gone[t] \/ Told(r, t)' \/ ~NotReported(r, t[1]),
           gone' = gone
    PROVE  Stopping(r)'
<1>1. /\ launch[r] = "pushing" => current[r] \in members[r] /\ NotReported(r, current[r][1])
      /\ \A s \in Sessions : AssignedIn(r, s) => s \in members[r] /\ NotReported(r, s[1])
      /\ \A w \in Workers : job[w] = r => Current(w) \in members[r] /\ NotReported(r, w)
  BY DEF Inv, Enrolled, Stages, NotSent, NotRunning
<1>2. ASSUME NEW w \in Workers, job'[w] = r PROVE Told(r, Current(w))'
  <2>1. job[w] = r /\ Current(w)' = Current(w)
    BY <1>2 DEF Current
  <2>2. PICK s \in members[r] : s = Current(w) /\ s[1] = w /\ ~gone[s]
    BY <1>1, <2>1, AtWork
  <2>3. Told(r, s)'
    BY <1>1, <2>1, <2>2
  <2> QED BY <2>1, <2>2, <2>3 DEF Told
<1>3. ASSUME NEW s \in Sessions, AssignedIn(r, s)' PROVE Told(r, s)'
  <2>1. AssignedIn(r, s) /\ ~gone[s]
    BY <1>3, AssignedIsOpen DEF AssignsShrink
  <2> QED BY <1>1, <2>1
<1>4. ASSUME launch'[r] = "pushing" PROVE (gone[current[r]] \/ Told(r, current[r]))'
  <2>1. PICK s \in members[r] : s = current[r] /\ current'[r] = s /\ NotReported(r, s[1])
    BY <1>1, <1>4
  <2>2. gone'[s] \/ Told(r, s)'
    BY <2>1
  <2> QED BY <2>1, <2>2 DEF Told
<1> QED BY <1>2, <1>3, <1>4 DEF Stopping

LEMMA QuietAborts ==
    ASSUME Inv, Inv', Aborting, Quiet, \A s \in Sessions : gone[s] => gone'[s],
           \A w \in evicting' : w \in evicting \/ gone[<<w, 1>>], \A w \in Workers : <<w, 1>> \in Sessions,
           \A r \in Runs, s \in Sessions : Told(r, s) => Told(r, s)' \/ gone'[s],
           \A r \in Runs : verdict'[r] = "failed" => verdict[r] = "failed" \/ Stopping(r)'
    PROVE  Aborting'
<1>1. UNCHANGED <<launch, current>>
  BY DEF Quiet, launchVars
<1>2. \A r \in Runs, s \in Sessions : AssignedIn(r, s)' => AssignedIn(r, s)
  BY DEF Quiet, AssignsShrink
<1>3. \A r \in Runs, w \in Workers : job'[w] = r => job[w] = r /\ session'[w] = session[w]
  BY DEF Quiet
<1>4. ASSUME NEW r \in Runs, Failed(r)' PROVE Stopping(r)'
  <2>1. CASE verdict'[r] = "failed" /\ verdict[r] # "failed"
    BY <2>1
  <2>2. CASE Failed(r)
    <3>1. Stopping(r)
      BY <2>2 DEF Aborting
    <3> QED BY <1>1, <1>2, <1>3, <3>1, StoppingKept
  <2> QED BY <1>1, <1>4, <2>1, <2>2 DEF Failed
<1>5. \A w \in evicting' : gone'[<<w, 1>>]
  <2>1. evicting' \subseteq Workers
    BY DEF Inv, TypeInv
  <2> QED BY <2>1 DEF Aborting
<1> QED BY <1>4, <1>5 DEF Aborting

\* Messages that are sent come on top of those there are.
LEMMA ToldMore ==
    ASSUME TypeInv, NEW targets, NEW m \in ServerMsgs, SendTo(targets, m) \/ outbox' = outbox
    PROVE  /\ \A r \in Runs, s \in Sessions : Told(r, s) => Told(r, s)'
           /\ SendTo(targets, m) => \A s \in Sessions : s \in targets => gone[s] \/ In(m, outbox'[s])
<1>1. CASE outbox' = outbox /\ ~SendTo(targets, m)
  BY <1>1 DEF Told
<1>2. CASE SendTo(targets, m)
  <2>1. \A s \in Sessions : \A x : In(x, outbox[s]) => In(x, outbox'[s])
    BY <1>2, SentTo
  <2>2. \A s \in Sessions : s \in targets => gone[s] \/ In(m, outbox'[s])
    BY <1>2, SentTo
  <2> QED BY <2>1, <2>2 DEF Told
<1> QED BY <1>1, <1>2

LEMMA DisconnectsAbort ==
    ASSUME MaxSessions = 1, Inv, Exclusive, Aborting,
           (\E s \in Sessions : HandleEof(s)) \/ (\E w \in Workers : HeartbeatEvict(w))
    PROVE  Aborting'
<1> USE DEF Inv
<1>1. PICK w \in Workers : PoolDisconnect(w) /\ gone[<<w, 1>>]
  <2>1. CASE \E s \in Sessions : HandleEof(s)
    <3>1. PICK s \in Sessions : HandleEof(s)
      BY <2>1
    <3>2. s[1] \in Workers /\ gone[<<s[1], 1>>] /\ PoolDisconnect(s[1])
      BY <3>1, FirstSession, SessionFacts DEF HandleEof
    <3> QED BY <3>2
  <2>2. CASE \E w \in Workers : HeartbeatEvict(w)
    BY <2>2 DEF HeartbeatEvict, Aborting
  <2> QED BY <2>1, <2>2
<1>2. gone' = gone /\ evicting' \subseteq evicting
  BY DEF HandleEof, HeartbeatEvict
<1>3. Inv' /\ Quiet
  BY DisconnectsKeepIt
<1>4. WorkerDisconnected(entry[w].run, w)
  BY <1>1 DEF PoolDisconnect
<1>5. CASE UNCHANGED <<verdict, members, outbox>>
  <2>1. \A r \in Runs, s \in Sessions : Told(r, s) => Told(r, s)'
    BY <1>5 DEF Told
  <2> QED BY <1>2, <1>3, <1>5, <2>1, FirstSession, QuietAborts
<1>6. CASE ~UNCHANGED <<verdict, members, outbox>>
  <2>1. PICK r \in Runs : present[r] /\ ~IsTerminal(r) /\ FailRun(r, w)
    <3>1. PICK r : r = entry[w].run
      OBVIOUS
    <3>2. r \in Runs \cup {NoRun}
      BY <3>1 DEF TypeInv
    <3>3. r # NoRun /\ present[r] /\ ~IsTerminal(r) /\ FailRun(r, w)
      BY <1>4, <1>6, <3>1 DEF WorkerDisconnected
    <3> QED BY <3>2, <3>3
  <2>2. PICK targets : targets = members[r] \ SessionsOf({w}, r)
    OBVIOUS
  <2>3. PICK m \in ServerMsgs : m = Abort(r)
    BY Messages
  <2>4. /\ SendTo(targets, m)
        /\ verdict' = [verdict EXCEPT ![r] = "failed"] /\ verdict[r] # "failed"
    BY <2>1, <2>2, <2>3 DEF FailRun, IsTerminal
  <2>5. /\ \A q \in Runs, s \in Sessions : Told(q, s) => Told(q, s)'
        /\ \A s \in Sessions : s \in targets => gone[s] \/ In(m, outbox'[s])
    BY <2>4, ToldMore
  <2>6. \A t \in members[r] : gone[t] \/ Told(r, t)'
    <3> SUFFICES ASSUME NEW t \in members[r] PROVE gone[t] \/ Told(r, t)'
      OBVIOUS
    <3>1. t \in Sessions /\ t = <<t[1], 1>>
      BY FirstSession DEF TypeInv
    <3>2. CASE t[1] = w
      BY <1>1, <3>1, <3>2
    <3>3. CASE t[1] # w
      BY <2>2, <2>3, <2>5, <3>1, <3>3 DEF SessionsOf, Told
    <3> QED BY <3>2, <3>3
  <2>7. Stopping(r)'
    BY <1>2, <1>3, <2>1, <2>4, <2>6, FailedAreTold DEF Quiet, launchVars
  <2>8. \A q \in Runs : verdict'[q] = "failed" => verdict[q] = "failed" \/ q = r
    BY <2>4 DEF TypeInv
  <2> QED BY <1>2, <1>3, <2>5, <2>7, <2>8, FirstSession, QuietAborts
<1> QED BY <1>5, <1>6

LEMMA AbortsAbort ==
    ASSUME MaxSessions = 1, Inv, Aborting, NEW r \in Runs, UserAbort(r) \/ WatchdogFails(r)
    PROVE  Aborting'
<1> USE DEF Inv
<1>1. /\ present[r] /\ SendTo(members[r], Abort(r)) /\ gone' = gone /\ evicting' = evicting
      /\ verdict' = verdict \/ verdict' = [verdict EXCEPT ![r] = "failed"]
  BY DEF UserAbort, WatchdogFails, runVars
<1>2. Inv' /\ Quiet
  BY AbortsKeepIt
<1>3. PICK m \in ServerMsgs : m = Abort(r)
  BY Messages
<1>4. PICK targets : targets = members[r]
  OBVIOUS
<1>5. /\ \A q \in Runs, s \in Sessions : Told(q, s) => Told(q, s)'
      /\ \A s \in Sessions : s \in targets => gone[s] \/ In(m, outbox'[s])
  BY <1>1, <1>3, <1>4, ToldMore
<1>6. \A t \in members[r] : gone[t] \/ Told(r, t)'
  BY <1>3, <1>4, <1>5 DEF Told, TypeInv
<1>7. verdict[r] # "failed" => Stopping(r)'
  BY <1>1, <1>2, <1>6, FailedAreTold DEF Quiet, launchVars
<1>8. \A q \in Runs : verdict'[q] = "failed" => verdict[q] = "failed" \/ q = r
  BY <1>1 DEF TypeInv
<1> QED BY <1>1, <1>2, <1>5, <1>7, <1>8, FirstSession, QuietAborts

LEMMA ExcludeAborts ==
    ASSUME MaxSessions = 1, Inv, Aborting, NEW w \in Workers, Exclude(w)
    PROVE  Aborting'
<1> USE DEF Inv
<1>1. Inv' /\ Quiet
  BY ExcludeKeepsIt
<1>2. gone' = gone /\ evicting' = evicting /\ InPool(w)
  BY DEF Exclude
<1>3. PICK r, s : r = entry[w].run /\ s = <<w, entry[w].chan>>
  OBVIOUS
<1>4. entry[w].chan = 1 /\ s = <<w, 1>> /\ r \in Runs \cup {NoRun}
  <2>1. entry[w].chan \in 0..1 /\ entry[w].chan # 0
    BY <1>2 DEF InPool, TypeInv
  <2>2. entry[w].chan = 1
    BY <2>1
  <2> QED BY <1>3, <2>2 DEF TypeInv
<1>5. PICK fails \in BOOLEAN :
        fails <=> /\ r # NoRun /\ present[r] /\ ~IsTerminal(r)
                  /\ w \in MemberWorkers(r) \ reported[r]
  <2>1. (r # NoRun /\ present[r] /\ ~IsTerminal(r) /\ w \in MemberWorkers(r) \ reported[r])
          \in BOOLEAN
    OBVIOUS
  <2> QED BY <2>1, Zenon
<1>6. PICK siblings : siblings = IF fails THEN members[r] \ SessionsOf({w}, r) ELSE {}
  OBVIOUS
<1>7. /\ verdict' = IF fails THEN [verdict EXCEPT ![r] = "failed"] ELSE verdict
      /\ outbox' = [t \in Sessions |->
                      IF gone[t] THEN outbox[t]
                      ELSE IF t = s THEN Append(outbox[t], Disconnect)
                      ELSE IF t \in siblings THEN Append(outbox[t], Abort(r))
                      ELSE outbox[t]]
  BY <1>3, <1>5, <1>6 DEF Exclude
<1>8. \A t \in Sessions :
        /\ outbox[t] \in Seq(ServerMsgs)
        /\ ~gone[t] /\ t = s => outbox'[t] = Append(outbox[t], Disconnect)
        /\ ~gone[t] /\ t # s /\ t \in siblings => r \in Runs /\ outbox'[t] = Append(outbox[t], Abort(r))
        /\ gone[t] \/ (t # s /\ t \notin siblings) => outbox'[t] = outbox[t]
  <2>1. siblings = {} \/ r \in Runs
    BY <1>4, <1>5, <1>6
  <2> QED BY <1>7, <2>1 DEF TypeInv
<1>9. \A t \in Sessions :
        /\ \A x : In(x, outbox[t]) => In(x, outbox'[t])
        /\ ~gone[t] /\ t = s => In(Disconnect, outbox'[t])
        /\ ~gone[t] /\ t # s /\ t \in siblings => In(Abort(r), outbox'[t])
  <2> TAKE t \in Sessions
  <2>1. Disconnect \in ServerMsgs /\ (r \in Runs => Abort(r) \in ServerMsgs)
    BY Messages
  <2>2. CASE outbox'[t] = outbox[t] /\ (gone[t] \/ (t # s /\ t \notin siblings))
    BY <2>2
  <2>3. CASE ~gone[t] /\ t = s
    <3>1. \A x : In(x, Append(outbox[t], Disconnect)) <=> In(x, outbox[t]) \/ x = Disconnect
      BY <1>8, <2>1, InAppended
    <3>2. outbox'[t] = Append(outbox[t], Disconnect)
      BY <1>8, <2>3
    <3> QED BY <2>3, <3>1, <3>2
  <2>4. CASE ~gone[t] /\ t # s /\ t \in siblings
    <3>1. Abort(r) \in ServerMsgs /\ outbox'[t] = Append(outbox[t], Abort(r))
      BY <1>8, <2>1, <2>4
    <3>2. \A x : In(x, Append(outbox[t], Abort(r))) <=> In(x, outbox[t]) \/ x = Abort(r)
      BY <1>8, <3>1, InAppended
    <3> QED BY <2>4, <3>1, <3>2
  <2> QED BY <1>8, <2>2, <2>3, <2>4
<1>10. \A q \in Runs, t \in Sessions : Told(q, t) => Told(q, t)'
  BY <1>9 DEF Told
<1>11. ASSUME fails PROVE r \in Runs /\ (verdict[r] # "failed" => Stopping(r)')
  <2>1. r \in Runs /\ present[r] /\ siblings = members[r] \ SessionsOf({w}, r)
    BY <1>4, <1>5, <1>6, <1>11
  <2>2. \A t \in members[r] : gone[t] \/ Told(r, t)'
    <3> SUFFICES ASSUME NEW t \in members[r], ~gone[t] PROVE Told(r, t)'
      OBVIOUS
    <3>1. t \in Sessions /\ t = <<t[1], 1>>
      BY <2>1, FirstSession DEF TypeInv
    <3>2. t = s \/ t \in siblings
      BY <1>4, <2>1, <3>1 DEF SessionsOf
    <3> QED BY <1>9, <3>1, <3>2 DEF Told
  <2> QED BY <1>1, <1>2, <2>1, <2>2, FailedAreTold DEF Quiet, launchVars
<1>12. \A q \in Runs : verdict'[q] = "failed" => verdict[q] = "failed" \/ Stopping(q)'
  <2>1. CASE fails
    <3>1. \A q \in Runs : q # r => verdict'[q] = verdict[q]
      BY <1>7, <2>1 DEF TypeInv
    <3> QED BY <1>11, <2>1, <3>1
  <2>2. CASE ~fails
    BY <1>7, <2>2
  <2> QED BY <2>1, <2>2
<1> QED BY <1>1, <1>2, <1>10, <1>12, FirstSession, QuietAborts

LEMMA ReadsAbort ==
    ASSUME MaxSessions = 1, Inv, Aborting,
           (\E s \in Sessions : RegisterIdle(s)) \/ (\E w \in Workers : HeartbeatSnapshot(w))
    PROVE  Aborting'
<1> USE DEF Inv
<1>1. Inv' /\ Quiet
  BY RegisterKeepsIt
<1>2. UNCHANGED <<outbox, gone, verdict>>
  BY DEF RegisterIdle, HeartbeatSnapshot, streamVars, runVars
<1>3. \A w \in evicting' : w \in evicting \/ gone[<<w, 1>>]
  <2>1. CASE \E s \in Sessions : RegisterIdle(s)
    BY <2>1 DEF RegisterIdle
  <2>2. CASE \E w \in Workers : HeartbeatSnapshot(w)
    <3>1. PICK w \in Workers : HeartbeatSnapshot(w)
      BY <2>2
    <3>2. entry[w].chan \in 0..1 /\ entry[w].chan # 0
      BY <3>1 DEF HeartbeatSnapshot, InPool, TypeInv
    <3>3. entry[w].chan = 1
      BY <3>2
    <3> QED BY <3>1, <3>3 DEF HeartbeatSnapshot
  <2> QED BY <2>1, <2>2
<1>4. \A r \in Runs, s \in Sessions : Told(r, s) => Told(r, s)'
  BY <1>2 DEF Told
<1> QED BY <1>1, <1>2, <1>3, <1>4, FirstSession, QuietAborts

LEMMA StatusAborts ==
    ASSUME MaxSessions = 1, Inv, Aborting, NEW s \in Sessions, NEW r \in Runs, NEW res \in Results,
           HandleStatus(s, r, res)
    PROVE  Aborting'
<1> USE DEF Inv
<1>1. Inv' /\ Quiet
  BY StatusKeepsIt
<1>2. PICK w \in Workers : w = s[1]
  BY SessionFacts
<1>3. /\ Reads(s, Status(r, res)) /\ gone' = gone /\ evicting' = evicting
      /\ \/ verdict' = verdict /\ outbox' = outbox
         \/ /\ present[r] /\ verdict[r] = "none" /\ verdict' = [verdict EXCEPT ![r] = res]
            /\ \/ res # "failed" /\ outbox' = outbox
               \/ SendTo(members[r] \ SessionsOf({w}, r), Abort(r))
  BY <1>2 DEF HandleStatus, IsTerminal
<1>4. ~NotReported(r, w)
  <2>1. ReportedIn(r, s)
    BY <1>3, ReadMsg DEF ReportedIn
  <2> QED BY <1>2, <2>1 DEF NotReported
<1>5. PICK targets : targets = members[r] \ SessionsOf({w}, r)
  OBVIOUS
<1>6. PICK m \in ServerMsgs : m = Abort(r)
  BY Messages
<1>7. /\ \A q \in Runs, t \in Sessions : Told(q, t) => Told(q, t)'
      /\ SendTo(targets, m) => \A t \in Sessions : t \in targets => gone[t] \/ In(m, outbox'[t])
  BY <1>3, <1>5, <1>6, ToldMore
<1>8. ASSUME verdict'[r] = "failed", verdict[r] # "failed" PROVE Stopping(r)'
  <2>1. present[r] /\ SendTo(targets, m)
    BY <1>3, <1>5, <1>6, <1>8 DEF TypeInv
  <2>2. \A t \in members[r] : gone[t] \/ Told(r, t)' \/ ~NotReported(r, t[1])
    BY <1>4, <1>5, <1>6, <1>7, <2>1 DEF SessionsOf, Told, TypeInv
  <2> QED BY <1>1, <1>3, <1>8, <2>1, <2>2, FailedAreTold DEF Quiet, launchVars
<1>9. \A q \in Runs : verdict'[q] = "failed" => verdict[q] = "failed" \/ q = r
  BY <1>3 DEF TypeInv
<1> QED BY <1>1, <1>3, <1>7, <1>8, <1>9, FirstSession, QuietAborts

\* The steps of a worker but for the one that accepts, and the one that hears
\* the abort of its run.
LEMMA WorkersAbort ==
    ASSUME MaxSessions = 1, Inv, Inv', Aborting, Quiet, UNCHANGED <<evicting, runVars>>,
           UNCHANGED <<outbox, gone>> \/ \E closing \in SUBSET Sessions : HangUp(closing)
    PROVE  Aborting'
<1>1. UNCHANGED verdict
  BY DEF runVars
<1>2. /\ \A s \in Sessions : gone[s] => gone'[s]
      /\ \A r \in Runs, s \in Sessions : Told(r, s) => Told(r, s)' \/ gone'[s]
  <2>1. CASE UNCHANGED <<outbox, gone>>
    BY <2>1 DEF Told
  <2>2. CASE \E closing \in SUBSET Sessions : HangUp(closing)
    <3>1. PICK closing \in SUBSET Sessions : HangUp(closing)
      BY <2>2
    <3>2. \A s \in Sessions : (gone[s] \/ s \in closing => gone'[s])
                              /\ (s \notin closing => outbox'[s] = outbox[s])
      BY <3>1, HungUp DEF Inv
    <3> QED BY <3>2 DEF Told
  <2> QED BY <2>1, <2>2
<1> QED BY <1>1, <1>2, FirstSession, QuietAborts

LEMMA ListenerAborts ==
    ASSUME MaxSessions = 1, Inv, Exclusive, Aborting, NEW w \in Workers, AbortListener(w)
    PROVE  Aborting'
<1> USE DEF Inv
<1>1. Inv' /\ Quiet
  BY EndsKeepsIt
<1>2. /\ worker[w] = "run" /\ UNCHANGED <<gone, evicting, runVars, session>>
      /\ job' = [job EXCEPT ![w] = NoRun]
  BY DEF AbortListener, Ends
<1>3. UNCHANGED <<launch, current, verdict>>
  BY <1>1, <1>2 DEF Quiet, launchVars, runVars
<1>4. PICK r \in Runs : r = job[w]
  BY <1>2 DEF Lines, TypeInv
<1>5. PICK s \in Sessions : s = Current(w) /\ s[1] = w
  BY <1>4, AtWork
<1>6. \A t \in Sessions : t # s => outbox'[t] = outbox[t]
  <2>1. PICK i : outbox' = [outbox EXCEPT ![s] = SubSeq(@, i + 1, Len(@))]
    BY <1>5 DEF AbortListener
  <2> QED BY <2>1 DEF TypeInv
<1>7. /\ \A q \in Runs : ~AssignedIn(q, s)
      /\ \A q \in Runs : launch[q] = "pushing" => current[q] # s
      /\ \A q \in Runs : job'[w] # q
  <2>1. \A q \in Runs : Has(q, w) => q = r
    BY <1>4 DEF Has, Exclusive
  <2>2. ~NotRunning(r, w)
    BY <1>4 DEF NotRunning
  <2>3. \A q \in Runs : ~AssignedIn(q, s)
    BY <1>5, <2>1, <2>2 DEF Has, Stages
  <2>4. \A q \in Runs : launch[q] = "pushing" => current[q] # s
    BY <1>5, <2>1, <2>2 DEF Has, PushingTo, Stages, NotSent
  <2>5. \A q \in Runs : job'[w] # q
    BY <1>2, WorkerPoolAssumption DEF TypeInv
  <2> QED BY <2>3, <2>4, <2>5
<1>8. \A v \in Workers : Current(v)' = Current(v) /\ (v # w => Current(v) # s)
  BY <1>2, <1>5 DEF Current
<1>9. \A q \in Runs, t \in Sessions : t # s /\ Told(q, t) => Told(q, t)'
  BY <1>6 DEF Told
<1>10. ASSUME NEW q \in Runs, Stopping(q) PROVE Stopping(q)'
  <2>1. ASSUME NEW v \in Workers, job'[v] = q PROVE Told(q, Current(v))'
    <3>1. v # w /\ job[v] = q
      BY <1>1, <1>7, <2>1 DEF Quiet
    <3>2. PICK t \in Sessions : t = Current(v) /\ t # s /\ Told(q, t)
      BY <1>8, <1>10, <3>1, AtWork DEF Stopping
    <3>3. Told(q, t)'
      BY <1>9, <3>2
    <3> QED BY <1>8, <3>2, <3>3 DEF Told
  <2>2. ASSUME NEW t \in Sessions, AssignedIn(q, t)' PROVE Told(q, t)'
    <3>1. AssignedIn(q, t) /\ t # s
      BY <1>1, <1>7, <2>2 DEF Quiet, AssignsShrink
    <3> QED BY <1>9, <1>10, <3>1 DEF Stopping
  <2>3. ASSUME launch'[q] = "pushing" PROVE (gone[current[q]] \/ Told(q, current[q]))'
    <3>1. PICK t \in Sessions : t = current[q] /\ t # s /\ (gone[t] \/ Told(q, t))
      BY <1>3, <1>7, <1>10, <2>3 DEF Stopping, Stages
    <3>2. gone'[t] \/ Told(q, t)'
      BY <1>2, <1>9, <3>1
    <3> QED BY <1>3, <3>1, <3>2 DEF Told
  <2> QED BY <2>1, <2>2, <2>3 DEF Stopping
<1> QED BY <1>2, <1>3, <1>10 DEF Aborting, Failed

LEMMA AcceptAborts ==
    ASSUME Inv, Aborting, NEW w \in Workers, Accept(w)
    PROVE  Aborting'
<1> USE DEF Inv
<1>1. session[w] # 0
  BY DEF Accept, Lines
<1>2. PICK s \in Sessions : s = Current(w) /\ s[1] = w
  BY <1>1, CurrentIs
<1>3. PICK r \in Runs : Receives(s, Assign(r)) /\ job' = [job EXCEPT ![w] = r]
  BY <1>2 DEF Accept
<1>4. /\ outbox' = [outbox EXCEPT ![s] = Tail(@)]
      /\ UNCHANGED <<launchVars, runVars, gone, session, evicting>>
  BY <1>2 DEF Accept
<1>5. UNCHANGED <<launch, current, verdict>>
  BY <1>4 DEF launchVars, runVars
<1>6. PICK m : m = Assign(r)
  OBVIOUS
<1>7. /\ In(m, outbox[s])
      /\ \A t \in Sessions : t # s => outbox'[t] = outbox[t]
      /\ \A x : In(x, outbox'[s]) => In(x, outbox[s])
      /\ \A x : In(x, outbox[s]) /\ x # m => In(x, outbox'[s])
  BY <1>3, <1>4, <1>6, Heard
<1>8. \A q \in Runs, t \in Sessions : Told(q, t) => Told(q, t)'
  BY <1>6, <1>7, Messages DEF Told
<1>9. \A q \in Runs, t \in Sessions : AssignedIn(q, t)' => AssignedIn(q, t)
  BY <1>7 DEF AssignedIn
<1>10. AssignedIn(r, s)
  BY <1>6, <1>7 DEF AssignedIn
<1>11. \A v \in Workers : Current(v)' = Current(v)
  BY <1>4 DEF Current
<1>12. ASSUME NEW q \in Runs, Stopping(q) PROVE Stopping(q)'
  <2>1. ASSUME NEW v \in Workers, job'[v] = q PROVE Told(q, Current(v))'
    <3>1. job[v] = q \/ (v = w /\ q = r)
      BY <1>3, <2>1 DEF TypeInv
    <3>2. PICK t \in Sessions : t = Current(v) /\ Told(q, t)
      BY <1>2, <1>10, <1>12, <3>1, AtWork DEF Stopping
    <3>3. Told(q, t)'
      BY <1>8, <3>2
    <3> QED BY <1>11, <3>2, <3>3 DEF Told
  <2>2. \A t \in Sessions : AssignedIn(q, t)' => Told(q, t)'
    BY <1>8, <1>9, <1>12 DEF Stopping
  <2>3. ASSUME launch'[q] = "pushing" PROVE (gone[current[q]] \/ Told(q, current[q]))'
    <3>1. PICK t \in Sessions : t = current[q] /\ (gone[t] \/ Told(q, t))
      BY <1>5, <1>12, <2>3 DEF Stopping, Stages
    <3>2. gone'[t] \/ Told(q, t)'
      BY <1>4, <1>8, <3>1
    <3> QED BY <1>5, <3>1, <3>2 DEF Told
  <2> QED BY <2>1, <2>2, <2>3 DEF Stopping
<1> QED BY <1>4, <1>5, <1>12 DEF Aborting, Failed

LEMMA LaunchAborts ==
    ASSUME MaxSessions = 1, Inv, Aborting, NEW r \in Runs, SpawnRun(r)
    PROVE  Aborting'
<1> USE DEF Inv
<1>1. /\ UNCHANGED <<verdict, gone, evicting, job, session>>
      /\ \A q \in Runs : q # r => launch'[q] = launch[q] /\ current'[q] = current[q]
  <2>1. UNCHANGED <<verdict, gone, evicting, job, session>>
    BY DEF SpawnRun, Reserve, ReleaseReservation, Enqueue, AssignRegister, AssignPush, Launched,
           CancelLaunch, runVars, streamVars, workerVars
  <2>2. \A q \in Runs : q # r => launch'[q] = launch[q]
    BY DEF SpawnRun, Reserve, ReleaseReservation, Enqueue, AssignRegister, AssignPush, Launched,
           CancelLaunch, TypeInv
  <2>3. current' = current \/ \E x : current' = [current EXCEPT ![r] = x]
    BY DEF SpawnRun, Reserve, ReleaseReservation, Enqueue, AssignRegister, AssignPush, Launched,
           CancelLaunch
  <2>4. \A q \in Runs : q # r => current'[q] = current[q]
    BY <2>3 DEF TypeInv
  <2> QED BY <2>1, <2>2, <2>4
<1>2. Inv'
  BY ReserveKeepsIt, EnqueueKeepsIt, AssignRegisterKeepsIt, AssignPushKeepsIt,
     LaunchEndsKeepIt DEF SpawnRun
<1>3. PICK targets : targets = IF AssignPush(r) THEN {current[r]} ELSE members[r]
  OBVIOUS
<1>4. PICK m \in ServerMsgs : m = IF AssignPush(r) THEN Assign(r) ELSE Abort(r)
  BY Messages
<1>5. /\ SendTo(targets, m) \/ outbox' = outbox
      /\ m = Assign(r) => AssignPush(r) /\ targets = {current[r]}
      /\ \A q \in Runs : q # r => m # Assign(q)
      /\ CancelLaunch(r) => targets = members[r] /\ m = Abort(r) /\ SendTo(targets, m)
  <2>1. CASE AssignPush(r)
    <3>1. SendTo({current[r]}, Assign(r)) \/ outbox' = outbox
      BY <2>1 DEF AssignPush
    <3>2. ~CancelLaunch(r)
      BY <2>1 DEF AssignPush, CancelLaunch
    <3>3. targets = {current[r]} /\ m = Assign(r)
      BY <1>3, <1>4, <2>1
    <3> QED BY <2>1, <3>1, <3>2, <3>3, Messages
  <2>2. CASE ~AssignPush(r)
    <3>1. targets = members[r] /\ m = Abort(r) /\ \A q \in Runs : m # Assign(q)
      BY <1>3, <1>4, <2>2, Messages
    <3>2. CASE CancelLaunch(r)
      BY <3>1, <3>2 DEF CancelLaunch
    <3>3. CASE ~CancelLaunch(r)
      <4>1. outbox' = outbox
        BY <2>2, <3>3 DEF SpawnRun, Reserve, ReleaseReservation, Enqueue, AssignRegister, Launched,
                          streamVars
      <4> QED BY <3>1, <3>3, <4>1
    <3> QED BY <3>2, <3>3
  <2> QED BY <2>1, <2>2
<1>6. /\ \A q \in Runs, s \in Sessions : Told(q, s) => Told(q, s)'
      /\ SendTo(targets, m) => \A s \in Sessions : s \in targets => gone[s] \/ In(m, outbox'[s])
  BY <1>5, ToldMore
<1>7. \A q \in Runs, s \in Sessions : AssignedIn(q, s)' =>
        AssignedIn(q, s) \/ (q = r /\ AssignPush(r) /\ s = current[r] /\ ~gone[s])
  <2>1. \A s \in Sessions : \A x : In(x, outbox'[s]) =>
          In(x, outbox[s]) \/ (x = m /\ s \in targets /\ ~gone[s])
    <3>1. CASE outbox' = outbox
      BY <3>1
    <3>2. CASE SendTo(targets, m)
      BY <3>2, SentTo
    <3> QED BY <1>5, <3>1, <3>2
  <2> QED BY <1>5, <2>1 DEF AssignedIn
<1>8. ASSUME NEW q \in Runs, q # r, Failed(q)' PROVE Stopping(q)'
  <2>1. Failed(q)
    BY <1>1, <1>8 DEF Failed
  <2>2. Stopping(q)
    BY <2>1 DEF Aborting
  <2> QED BY <1>1, <1>2, <1>6, <1>7, <1>8, <2>2, StoppingKept
<1>9. ASSUME Failed(r)' PROVE Stopping(r)'
  <2>1. CASE Reserve(r) \/ ReleaseReservation(r)
    <3>1. launch[r] \in {"new", "reserved"} /\ launch'[r] # "pushing" /\ outbox' = outbox
      BY <2>1 DEF Reserve, ReleaseReservation, streamVars, TypeInv
    <3>2. /\ \A w \in Workers : job'[w] # r
          /\ \A s \in Sessions : ~AssignedIn(r, s)'
      BY <1>1, <3>1, NobodyHas, SessionFacts DEF AssignedIn
    <3> QED BY <3>1, <3>2 DEF Stopping
  <2>2. CASE Enqueue(r) \/ Launched(r)
    <3>1. /\ launch'[r] \notin {"failed", "pushing"} /\ ~AssignPush(r)
      BY <2>2 DEF Enqueue, Launched, AssignPush, TypeInv
    <3>2. Stopping(r)
      BY <1>1, <1>9, <3>1 DEF Failed, Aborting
    <3> QED BY <1>1, <1>2, <1>6, <1>7, <3>1, <3>2, StoppingKept
  <2>3. CASE AssignRegister(r)
    <3>1. launch'[r] = "cancel" \/ (launch'[r] = "pushing" /\ ~IsTerminal(r))
      BY <2>3 DEF AssignRegister, TypeInv
    <3>2. verdict[r] = "failed" /\ launch'[r] = "cancel" /\ ~AssignPush(r)
      BY <1>1, <1>9, <2>3, <3>1 DEF Failed, IsTerminal, AssignRegister, AssignPush
    <3>3. Stopping(r)
      BY <3>2 DEF Failed, Aborting
    <3> QED BY <1>1, <1>2, <1>6, <1>7, <3>2, <3>3, StoppingKept
  <2>4. CASE AssignPush(r)
    <3>1. launch[r] = "pushing" /\ launch'[r] \notin {"failed", "pushing"}
      BY <2>4 DEF AssignPush, TypeInv
    <3>2. Stopping(r)
      BY <1>1, <1>9, <3>1 DEF Failed, Aborting
    <3>3. \A s \in Sessions : AssignedIn(r, s)' => Told(r, s)'
      BY <1>6, <1>7, <3>1, <3>2 DEF Stopping
    <3>4. \A w \in Workers : job'[w] = r => Told(r, Current(w))'
      <4> SUFFICES ASSUME NEW w \in Workers, job[w] = r PROVE Told(r, Current(w))'
        BY <1>1
      <4>1. PICK s \in Sessions : s = Current(w) /\ Told(r, s)
        BY <3>2, AtWork DEF Stopping
      <4>2. Told(r, s)' /\ Current(w)' = s
        BY <1>1, <1>6, <4>1 DEF Current
      <4> QED BY <4>1, <4>2 DEF Told
    <3> QED BY <3>1, <3>3, <3>4 DEF Stopping
  <2>5. CASE CancelLaunch(r)
    <3>1. launch[r] = "cancel" /\ launch'[r] # "pushing" /\ ~AssignPush(r)
      BY <2>5 DEF CancelLaunch, AssignPush, TypeInv
    <3>2. CASE verdict[r] = "failed"
      <4>1. Stopping(r)
        BY <3>2 DEF Failed, Aborting
      <4> QED BY <1>1, <1>2, <1>6, <1>7, <3>1, <4>1, StoppingKept
    <3>3. CASE verdict[r] # "failed"
      <4>1. present[r] /\ SendTo(targets, m) /\ m = Abort(r) /\ targets = members[r]
        BY <1>5, <2>5, <3>1 DEF Enrolled
      <4>2. \A t \in members[r] : gone[t] \/ Told(r, t)'
        BY <1>6, <4>1 DEF Told, TypeInv
      <4>3. AssignsShrink
        BY <4>1, Sending, Messages
      <4> QED BY <1>1, <3>1, <3>3, <4>1, <4>2, <4>3, FailedAreTold
    <3> QED BY <3>2, <3>3
  <2> QED BY <2>1, <2>2, <2>3, <2>4, <2>5 DEF SpawnRun
<1> QED BY <1>1, <1>8, <1>9 DEF Aborting

LEMMA AbortingStep ==
    ASSUME MaxSessions = 1, Inv, Fresh, Exclusive, Aborting, [Next]_vars
    PROVE  Aborting'
<1>1. Inv'
  BY StepKeepsIt
<1>2. CASE UNCHANGED vars
  BY <1>2 DEF vars, launchVars, runVars, streamVars, workerVars, Aborting, Failed, Stopping, Told,
              Current, AssignedIn
<1>3. ASSUME NEW r \in Runs, SpawnRun(r) \/ UserAbort(r) \/ WatchdogFails(r) PROVE Aborting'
  BY <1>3, LaunchAborts, AbortsAbort
<1>4. ASSUME NEW s \in Sessions, Handler(s) \/ LeftSessionEnds(s) \/ Break(s) PROVE Aborting'
  <2>1. CASE Handler(s)
    BY <2>1, ReadsAbort, DisconnectsAbort, StatusAborts DEF Handler
  <2>2. CASE LeftSessionEnds(s) \/ Break(s)
    <3>1. Quiet
      BY <2>2, LeavesKeepIt
    <3>2. UNCHANGED <<evicting, runVars>> /\ HangUp({s}) /\ {s} \in SUBSET Sessions
      BY <2>2 DEF LeftSessionEnds, Break
    <3> QED BY <1>1, <3>1, <3>2, WorkersAbort
  <2> QED BY <1>4, <2>1, <2>2
<1>5. ASSUME NEW w \in Workers, Heartbeat(w) \/ Exclude(w) \/ WorkerReacts(w) \/ EngineReturns(w)
      PROVE  Aborting'
  <2>1. CASE Heartbeat(w) \/ Exclude(w) \/ Accept(w) \/ AbortListener(w)
    BY <2>1, ReadsAbort, DisconnectsAbort, ExcludeAborts, AcceptAborts, ListenerAborts DEF Heartbeat
  <2>2. CASE Connect(w) \/ EngineReturns(w)
    <3>1. Quiet
      BY <2>2, ConnectKeepsIt, EndsKeepsIt
    <3>2. UNCHANGED <<evicting, runVars, outbox, gone>>
      BY <2>2 DEF Connect, EngineReturns, Ends
    <3> QED BY <1>1, <3>1, <3>2, WorkersAbort
  <2>3. CASE Refused(w)
    <3>1. Quiet
      BY <2>3, LeavesKeepIt
    <3>2. session[w] # 0
      BY <2>3 DEF Refused, Inv, Lines
    <3>3. UNCHANGED <<evicting, runVars>> /\ HangUp({Current(w)}) /\ {Current(w)} \in SUBSET Sessions
      BY <2>3, <3>2, CurrentIs DEF Refused, Inv
    <3> QED BY <1>1, <3>1, <3>3, WorkersAbort
  <2>4. CASE DisconnectedByOperator(w)
    <3>1. Quiet
      BY <2>4, ExitKeepsIt
    <3>2. /\ UNCHANGED <<evicting, runVars>> /\ HangUp({s \in Sessions : s[1] = w})
          /\ {s \in Sessions : s[1] = w} \in SUBSET Sessions
      BY <2>4 DEF DisconnectedByOperator
    <3> QED BY <1>1, <3>1, <3>2, WorkersAbort
  <2> QED BY <1>5, <2>1, <2>2, <2>3, <2>4 DEF WorkerReacts
<1> QED BY <1>2, <1>3, <1>4, <1>5 DEF Next

LEMMA InitIsAborting == Init => Aborting
BY InNone DEF Init, Aborting, Failed, Stopping, AssignedIn

----------------------------------------------------------------------------
(***************************************************************************)
(* The same of the state space the requests share.                         *)
(***************************************************************************)
LEMMA PoolMoves == [MCNext]_allVars => [Next]_vars
BY DEF MCNext, PoolNext, ShardNext, PostedNext, SettingsNext, CatalogNext, allVars, requestVars

\* The load of a run stops with it: of a completed one there is none, and of
\* one that failed, was given up half way, excluded or evicted the abort is on
\* its way to every worker that has it (fail_in, cancel_dispatch_failed,
\* pool_exclude, worker_disconnected); as long as no worker reconnects.
THEOREM LoadEnds ==
    ASSUME MaxSessions = 1
    PROVE  MCSpec => []LoadEndsWithItsRun
<1> DEFINE All == Inv /\ Fresh /\ Exclusive /\ Aborting
<1>1. MCInit => All
  BY InitHolds, InitIsExclusive, InitIsAborting DEF MCInit
<1>2. All /\ [MCNext]_allVars => All'
  BY PoolMoves, StepKeepsIt, ExclusiveStep, AbortingStep
<1>3. All => LoadEndsWithItsRun
  <2> SUFFICES ASSUME All PROVE LoadEndsWithItsRun
    OBVIOUS
  <2>1. CompletedRunLoadStopped
    BY DEF Inv, Enrolled, Over, CompletedRunLoadStopped
  <2>2. FailedRunLoadIsAborted
    BY DEF Aborting, Failed, Stopping, Told, In, FailedRunLoadIsAborted
  <2> QED BY <2>1, <2>2 DEF LoadEndsWithItsRun
<1> QED BY <1>1, <1>2, <1>3, PTL DEF MCSpec

----------------------------------------------------------------------------
(***************************************************************************)
(* The pair of heartbeat settings: Settings.                               *)
(***************************************************************************)
Pairs == [interval : Nat, stale : Nat]

\* TypeOK, and of each request that its value is one of its setting's.
PairTypeInv ==
    /\ Pair!TypeOK
    /\ \A r \in Requests : edit[r].value \in Pair!Values[edit[r].key] \cup {Pair!None}

\* Until requests for the two keys cross, those under way are for one key, and
\* each was checked against the value the other still has: in whatever order
\* they are applied, the rule holds.
Checked ==
    ~crossed =>
        /\ Pair!check_heartbeat_pair(snap)
        /\ \A q, r \in Requests :
             Pair!UnderWay(q) /\ Pair!UnderWay(r) => edit[q].key = edit[r].key
        /\ \A r \in Requests : Pair!UnderWay(r) =>
             Pair!check_heartbeat_pair([snap EXCEPT ![edit[r].key] = Pair!Wanted(r)])

\* Between the reaper's reads the interval it has is the snapshot's, or at one
\* change the timeout is still longer than it.
ReadApart ==
    reaper.at = "stale" /\ ~crossed =>
        /\ changes = 0 => reaper.interval = snap.interval
        /\ changes = 1 => snap.stale > reaper.interval

----------------------------------------------------------------------------
\* Clamping makes a pair of a pair, one that keeps the rule.
LEMMA ClampedKeepsTheRule ==
    ASSUME NEW pair \in Pairs
    PROVE  Pair!Clamped(pair) \in Pairs /\ Pair!check_heartbeat_pair(Pair!Clamped(pair))
BY DEF Pair!Clamped, Pair!check_heartbeat_pair, Pairs

\* Whatever rows there are, a start builds such a pair.
LEMMA BuildKeepsTheRule ==
    ASSUME Pair!Admissible, NEW seeds \in Pairs,
           NEW rows \in [interval : Intervals \cup {Pair!None}, stale : Timeouts \cup {Pair!None}]
    PROVE  Pair!build(rows, seeds) \in Pairs /\ Pair!check_heartbeat_pair(Pair!build(rows, seeds))
<1> DEFINE pair == [key \in Pair!Keys |-> IF rows[key] = Pair!None THEN seeds[key] ELSE rows[key]]
<1>1. pair \in Pairs
  BY DEF Pairs, Pair!Keys, Pair!Admissible, Pair!None
<1>2. Pair!build(rows, seeds) = Pair!Clamped(pair)
  BY DEF Pair!build
<1> QED BY <1>1, <1>2, ClampedKeepsTheRule

LEMMA ValuesAreNumbers ==
    ASSUME Pair!Admissible, NEW key \in Pair!Keys
    PROVE  Pair!Values[key] \subseteq Nat
<1>1. CASE key = "interval"
  BY <1>1 DEF Pair!Values, Pair!Admissible
<1>2. CASE key = "stale"
  BY <1>2 DEF Pair!Values, Pair!Admissible
<1> QED BY <1>1, <1>2 DEF Pair!Keys

LEMMA IdleIsOfItsType ==
    /\ Pair!Idle \in [at : {"idle", "checked", "stored"}, key : Pair!Keys, value : Nat \cup {Pair!None}]
    /\ Pair!Idle.at = "idle" /\ Pair!Idle.value = Pair!None
BY DEF Pair!Idle, Pair!Keys

LEMMA AsleepIsOfItsType ==
    /\ Pair!Asleep \in [at : {"interval", "stale", "sleep"}, interval : Nat, stale : Nat]
    /\ Pair!Asleep.at = "interval"
BY DEF Pair!Asleep

----------------------------------------------------------------------------
\* What the start leaves.
LEMMA InitKeepsIt ==
    ASSUME Pair!Admissible, Pair!Init
    PROVE  PairTypeInv /\ Checked /\ ReadApart /\ Pair!SweepsSpareTheHealthy
<1>1. PICK pair \in Seeds : seed = Pair!Clamped(pair)
  BY DEF Pair!Init
<1>2. seed \in Pairs
  BY <1>1, ClampedKeepsTheRule DEF Pair!Admissible, Pairs
<1>3. table \in [interval : Intervals \cup {Pair!None}, stale : Timeouts \cup {Pair!None}]
  BY DEF Pair!Init, Pair!Keys
<1>4. snap \in Pairs /\ Pair!check_heartbeat_pair(snap)
  BY <1>2, <1>3, BuildKeepsTheRule DEF Pair!Init
<1>5. PairTypeInv
  <2>1. edit \in [Requests -> [at : {"idle", "checked", "stored"}, key : Pair!Keys,
                                  value : Nat \cup {Pair!None}]]
    BY IdleIsOfItsType DEF Pair!Init
  <2>2. \A r \in Requests : edit[r].value = Pair!None
    BY IdleIsOfItsType DEF Pair!Init
  <2>3. reaper \in [at : {"interval", "stale", "sleep"}, interval : Nat, stale : Nat]
    BY AsleepIsOfItsType DEF Pair!Init
  <2>4. crossed \in BOOLEAN
    BY DEF Pair!Init
  <2>5. changes \in 0..2
    BY DEF Pair!Init
  <2> QED BY <1>2, <1>3, <1>4, <2>1, <2>2, <2>3, <2>4, <2>5 DEF PairTypeInv, Pair!TypeOK, Pairs
<1>6. \A r \in Requests : ~Pair!UnderWay(r)
  BY DEF Pair!Init, Pair!UnderWay, Pair!Idle
<1>7. reaper.at = "interval"
  BY DEF Pair!Init, Pair!Asleep
<1> QED BY <1>4, <1>5, <1>6, <1>7 DEF Checked, ReadApart, Pair!SweepsSpareTheHealthy

\* What a request wants is a number, and so is the pair it would make.
LEMMA WantedIsOfItsType ==
    ASSUME Pair!Admissible, PairTypeInv, NEW r \in Requests
    PROVE  Pair!Wanted(r) \in Nat /\ [snap EXCEPT ![edit[r].key] = Pair!Wanted(r)] \in Pairs
<1>1. edit[r].key \in Pair!Keys /\ edit[r].value \in Nat \cup {Pair!None}
  BY DEF PairTypeInv, Pair!TypeOK
<1>2. seed \in Pairs /\ snap \in Pairs
  BY DEF PairTypeInv, Pair!TypeOK, Pairs
<1>3. Pair!Wanted(r) \in Nat
  BY <1>1, <1>2 DEF Pair!Wanted, Pair!Keys, Pairs
<1> QED BY <1>1, <1>2, <1>3 DEF Pair!Keys, Pairs

LEMMA CheckKeepsTypes ==
    ASSUME Pair!Admissible, PairTypeInv, NEW r \in Requests, Pair!Check(r)
    PROVE  PairTypeInv'
<1>1. PICK key \in Pair!Keys : \E value \in Pair!Values[key] \cup {Pair!None} :
        /\ edit' = [edit EXCEPT ![r] = [at |-> "checked", key |-> key, value |-> value]]
        /\ crossed' = (crossed \/ \E q \in Requests : Pair!UnderWay(q) /\ edit[q].key # key)
  BY DEF Pair!Check
<1>2. PICK value \in Pair!Values[key] \cup {Pair!None} :
        /\ edit' = [edit EXCEPT ![r] = [at |-> "checked", key |-> key, value |-> value]]
        /\ crossed' = (crossed \/ \E q \in Requests : Pair!UnderWay(q) /\ edit[q].key # key)
  BY <1>1
<1>6. value \in Nat \cup {Pair!None}
  BY ValuesAreNumbers
<1>3. crossed' \in BOOLEAN
  BY <1>2 DEF PairTypeInv, Pair!TypeOK
<1>4. edit' \in [Requests -> [at : {"idle", "checked", "stored"}, key : Pair!Keys,
                                 value : Nat \cup {Pair!None}]]
  BY <1>2, <1>6 DEF PairTypeInv, Pair!TypeOK
<1>5. \A q \in Requests : edit'[q].value \in Pair!Values[edit'[q].key] \cup {Pair!None}
  BY <1>2 DEF PairTypeInv, Pair!TypeOK
<1>7. UNCHANGED <<seed, table, snap, reaper, changes>>
  BY DEF Pair!Check
<1> QED BY <1>3, <1>4, <1>5, <1>7 DEF PairTypeInv, Pair!TypeOK

LEMMA StoreKeepsTypes ==
    ASSUME Pair!Admissible, PairTypeInv, NEW r \in Requests, Pair!Store(r)
    PROVE  PairTypeInv'
<1>1. edit' = [edit EXCEPT ![r].at = "stored"]
  BY DEF Pair!Store
<1>2. table' \in [interval : Intervals \cup {Pair!None}, stale : Timeouts \cup {Pair!None}]
  <2>1. edit[r].key \in Pair!Keys /\ edit[r].value \in Pair!Values[edit[r].key] \cup {Pair!None}
    BY DEF PairTypeInv, Pair!TypeOK
  <2>2. CASE edit[r].key = "interval"
    BY <2>1, <2>2 DEF Pair!Store, PairTypeInv, Pair!TypeOK, Pair!Values
  <2>3. CASE edit[r].key = "stale"
    BY <2>1, <2>3 DEF Pair!Store, PairTypeInv, Pair!TypeOK, Pair!Values
  <2> QED BY <2>1, <2>2, <2>3 DEF Pair!Keys
<1> QED BY <1>1, <1>2 DEF PairTypeInv, Pair!TypeOK, Pair!Store

LEMMA ApplyKeepsTypes ==
    ASSUME Pair!Admissible, PairTypeInv, NEW r \in Requests, Pair!Apply(r)
    PROVE  PairTypeInv'
<1>1. snap' \in Pairs
  BY WantedIsOfItsType DEF Pair!Apply
<1>2. edit' = [edit EXCEPT ![r] = Pair!Idle]
  BY DEF Pair!Apply
<1>3. changes' \in 0..2
  BY DEF Pair!Apply, PairTypeInv, Pair!TypeOK
<1> QED BY <1>1, <1>2, <1>3 DEF PairTypeInv, Pair!TypeOK, Pair!Apply, Pairs, Pair!Idle, Pair!Keys, Pair!None

LEMMA RestartKeepsTypes ==
    ASSUME Pair!Admissible, PairTypeInv, Pair!Restart
    PROVE  PairTypeInv' /\ Pair!check_heartbeat_pair(snap)'
<1>1. PICK pair \in Seeds : seed' = Pair!Clamped(pair) /\ snap' = Pair!build(table, seed')
  BY DEF Pair!Restart
<1>2. seed' \in Pairs
  BY <1>1, ClampedKeepsTheRule DEF Pair!Admissible, Pairs
<1>3. snap' \in Pairs /\ Pair!check_heartbeat_pair(snap')
  BY <1>1, <1>2, BuildKeepsTheRule DEF PairTypeInv, Pair!TypeOK
<1>4. PairTypeInv'
  <2>1. edit' \in [Requests -> [at : {"idle", "checked", "stored"}, key : Pair!Keys,
                                   value : Nat \cup {Pair!None}]]
    BY IdleIsOfItsType DEF Pair!Restart
  <2>2. \A r \in Requests : edit'[r].value = Pair!None
    BY IdleIsOfItsType DEF Pair!Restart
  <2>3. reaper' \in [at : {"interval", "stale", "sleep"}, interval : Nat, stale : Nat]
    BY AsleepIsOfItsType DEF Pair!Restart
  <2>4. crossed' \in BOOLEAN
    BY DEF Pair!Restart
  <2>5. changes' \in 0..2 /\ table' = table
    BY DEF Pair!Restart
  <2> QED BY <1>2, <1>3, <2>1, <2>2, <2>3, <2>4, <2>5 DEF PairTypeInv, Pair!TypeOK, Pairs
<1> QED BY <1>3, <1>4 DEF Pair!check_heartbeat_pair

LEMMA TypesKept ==
    ASSUME Pair!Admissible, PairTypeInv, [Pair!Next]_(Pair!vars)
    PROVE  PairTypeInv'
<1>1. CASE \E r \in Requests : Pair!Check(r) \/ Pair!Store(r) \/ Pair!Apply(r)
  BY <1>1, CheckKeepsTypes, StoreKeepsTypes, ApplyKeepsTypes
<1>2. ASSUME NEW r \in Requests, Pair!Drop(r) PROVE PairTypeInv'
  BY <1>2 DEF Pair!Drop, PairTypeInv, Pair!TypeOK, Pair!Idle, Pair!Keys, Pair!None
<1>3. CASE Pair!ReadInterval \/ Pair!ReadStale \/ Pair!Sweep
  <2>1. reaper' \in [at : {"interval", "stale", "sleep"}, interval : Nat, stale : Nat]
    BY <1>3, AsleepIsOfItsType DEF Pair!ReadInterval, Pair!ReadStale, Pair!Sweep, PairTypeInv, Pair!TypeOK
  <2>2. changes' \in 0..2
    BY <1>3 DEF Pair!ReadInterval, Pair!ReadStale, Pair!Sweep, PairTypeInv, Pair!TypeOK
  <2>3. UNCHANGED <<seed, table, snap, edit, crossed>>
    BY <1>3 DEF Pair!ReadInterval, Pair!ReadStale, Pair!Sweep
  <2> QED BY <2>1, <2>2, <2>3 DEF PairTypeInv, Pair!TypeOK
<1>4. CASE Pair!Restart
  BY <1>4, RestartKeepsTypes
<1>5. CASE UNCHANGED Pair!vars
  BY <1>5 DEF Pair!vars, PairTypeInv, Pair!TypeOK
<1> QED BY <1>1, <1>2, <1>3, <1>4, <1>5 DEF Pair!Next

----------------------------------------------------------------------------
\* Of two values given to one setting the second counts.
LEMMA SecondValueCounts ==
    ASSUME NEW pair \in Pairs, NEW key \in Pair!Keys, NEW m \in Nat, NEW n \in Nat
    PROVE  [[pair EXCEPT ![key] = m] EXCEPT ![key] = n] = [pair EXCEPT ![key] = n]
BY DEF Pairs, Pair!Keys

LEMMA CheckKeepsChecked ==
    ASSUME Pair!Admissible, PairTypeInv, Checked, NEW r \in Requests, Pair!Check(r)
    PROVE  Checked'
<1> SUFFICES ASSUME ~crossed' PROVE Checked'
  BY DEF Checked
<1>1. PICK key \in Pair!Keys : \E value \in Pair!Values[key] \cup {Pair!None} :
        /\ Pair!Accepts(key, value)
        /\ edit' = [edit EXCEPT ![r] = [at |-> "checked", key |-> key, value |-> value]]
        /\ crossed' = (crossed \/ \E q \in Requests : Pair!UnderWay(q) /\ edit[q].key # key)
  BY DEF Pair!Check
<1>2. PICK value \in Pair!Values[key] \cup {Pair!None} :
        /\ Pair!Accepts(key, value)
        /\ edit' = [edit EXCEPT ![r] = [at |-> "checked", key |-> key, value |-> value]]
        /\ crossed' = (crossed \/ \E q \in Requests : Pair!UnderWay(q) /\ edit[q].key # key)
  BY <1>1
<1>3. ~crossed /\ \A q \in Requests : Pair!UnderWay(q) => edit[q].key = key
  BY <1>2
<1>4. edit'[r].key = key /\ edit'[r].value = value
  BY <1>2 DEF PairTypeInv, Pair!TypeOK
<1>5. \A q \in Requests \ {r} : edit'[q] = edit[q]
  BY <1>2 DEF PairTypeInv, Pair!TypeOK
<1>6. snap' = snap /\ seed' = seed
  BY DEF Pair!Check
<1>7. Pair!check_heartbeat_pair([snap EXCEPT ![edit[r].key] = Pair!Wanted(r)])'
  BY <1>2, <1>4, <1>6 DEF Pair!Accepts, Pair!Wanted
<1>8. \A q \in Requests \ {r} : Pair!UnderWay(q)' =>
        Pair!check_heartbeat_pair([snap EXCEPT ![edit[q].key] = Pair!Wanted(q)])'
  BY <1>3, <1>5, <1>6 DEF Checked, Pair!UnderWay, Pair!Wanted
<1>9. \A q \in Requests : Pair!UnderWay(q)' => edit'[q].key = key
  BY <1>3, <1>4, <1>5 DEF Pair!UnderWay
<1>10. Pair!check_heartbeat_pair(snap)'
  BY <1>3, <1>6 DEF Checked
<1> QED BY <1>7, <1>8, <1>9, <1>10 DEF Checked

LEMMA ApplyKeepsChecked ==
    ASSUME Pair!Admissible, PairTypeInv, Checked, NEW r \in Requests, Pair!Apply(r)
    PROVE  Checked'
<1> SUFFICES ASSUME ~crossed' PROVE Checked'
  BY DEF Checked
<1>1. ~crossed /\ Pair!UnderWay(r)
  BY DEF Pair!Apply, Pair!UnderWay
<1>2. snap' = [snap EXCEPT ![edit[r].key] = Pair!Wanted(r)] /\ seed' = seed
  BY DEF Pair!Apply
<1>3. Pair!check_heartbeat_pair(snap)'
  BY <1>1, <1>2 DEF Checked
<1>4. ~Pair!UnderWay(r)'
  BY IdleIsOfItsType DEF Pair!Apply, Pair!UnderWay, PairTypeInv, Pair!TypeOK
<1>5. \A q \in Requests \ {r} : edit'[q] = edit[q]
  BY DEF Pair!Apply, PairTypeInv, Pair!TypeOK
<1>6. ASSUME NEW q \in Requests, Pair!UnderWay(q)'
      PROVE  Pair!check_heartbeat_pair([snap EXCEPT ![edit[q].key] = Pair!Wanted(q)])'
  <2>1. q # r /\ edit'[q] = edit[q] /\ Pair!UnderWay(q)
    BY <1>4, <1>5, <1>6 DEF Pair!UnderWay
  <2>2. edit[q].key = edit[r].key /\ edit[q].key \in Pair!Keys
    BY <1>1, <2>1 DEF Checked, PairTypeInv, Pair!TypeOK
  <2>3. snap \in Pairs /\ Pair!Wanted(q) \in Nat /\ Pair!Wanted(r) \in Nat
    BY WantedIsOfItsType DEF PairTypeInv, Pair!TypeOK, Pairs
  <2>4. [snap' EXCEPT ![edit[q].key] = Pair!Wanted(q)]
          = [snap EXCEPT ![edit[q].key] = Pair!Wanted(q)]
    BY <1>2, <2>2, <2>3, SecondValueCounts
  <2>5. Pair!check_heartbeat_pair([snap EXCEPT ![edit[q].key] = Pair!Wanted(q)])
    BY <1>1, <2>1 DEF Checked
  <2>6. Pair!Wanted(q)' = Pair!Wanted(q)
    BY <1>2, <2>1 DEF Pair!Wanted
  <2> QED BY <2>1, <2>4, <2>5, <2>6
<1>7. \A p, q \in Requests : Pair!UnderWay(p)' /\ Pair!UnderWay(q)' => edit'[p].key = edit'[q].key
  BY <1>1, <1>4, <1>5 DEF Checked, Pair!UnderWay
<1> QED BY <1>3, <1>6, <1>7 DEF Checked

\* The steps that touch no setting: requests at most move on or go.
LEMMA OthersKeepChecked ==
    ASSUME Checked, UNCHANGED <<snap, seed, crossed>>,
           \A r \in Requests : Pair!UnderWay(r)' =>
             /\ Pair!UnderWay(r)
             /\ edit'[r].key = edit[r].key /\ edit'[r].value = edit[r].value
    PROVE  Checked'
BY DEF Checked, Pair!Wanted

LEMMA CheckedKept ==
    ASSUME Pair!Admissible, PairTypeInv, Checked, [Pair!Next]_(Pair!vars)
    PROVE  Checked'
<1>1. CASE \E r \in Requests : Pair!Check(r) \/ Pair!Apply(r)
  BY <1>1, CheckKeepsChecked, ApplyKeepsChecked
<1>2. ASSUME NEW r \in Requests, Pair!Store(r) \/ Pair!Drop(r) PROVE Checked'
  <2>1. UNCHANGED <<snap, seed, crossed>>
    BY <1>2 DEF Pair!Store, Pair!Drop
  <2>2. Pair!UnderWay(r)
    BY <1>2 DEF Pair!Store, Pair!Drop, Pair!UnderWay
  <2>3. edit' = [edit EXCEPT ![r].at = "stored"] \/ edit' = [edit EXCEPT ![r] = Pair!Idle]
    BY <1>2 DEF Pair!Store, Pair!Drop
  <2>4. \A q \in Requests : Pair!UnderWay(q)' =>
          /\ Pair!UnderWay(q)
          /\ edit'[q].key = edit[q].key /\ edit'[q].value = edit[q].value
    BY <2>2, <2>3, IdleIsOfItsType DEF Pair!UnderWay, PairTypeInv, Pair!TypeOK
  <2> QED BY <2>1, <2>4, OthersKeepChecked
<1>3. CASE Pair!ReadInterval \/ Pair!ReadStale \/ Pair!Sweep \/ UNCHANGED Pair!vars
  <2>1. UNCHANGED <<snap, seed, crossed, edit>>
    BY <1>3 DEF Pair!ReadInterval, Pair!ReadStale, Pair!Sweep, Pair!vars
  <2> QED BY <2>1, OthersKeepChecked DEF Pair!UnderWay
<1>4. CASE Pair!Restart
  <2>1. \A r \in Requests : ~Pair!UnderWay(r)'
    BY <1>4, IdleIsOfItsType DEF Pair!Restart, Pair!UnderWay
  <2> QED BY <1>4, <2>1, RestartKeepsTypes DEF Checked
<1> QED BY <1>1, <1>2, <1>3, <1>4 DEF Pair!Next

----------------------------------------------------------------------------
\* A change between the reads: after the first, the interval that was read is
\* the one of a pair that kept the rule, and the timeout is that of one.
LEMMA ApplyKeepsReads ==
    ASSUME Pair!Admissible, PairTypeInv, Checked, ReadApart, NEW r \in Requests, Pair!Apply(r)
    PROVE  ReadApart'
<1> SUFFICES ASSUME reaper'.at = "stale", ~crossed' PROVE ReadApart'
  BY DEF ReadApart
<1>1. reaper' = reaper /\ ~crossed /\ Pair!UnderWay(r)
  BY DEF Pair!Apply, Pair!UnderWay
<1>2. changes' = IF changes < 2 THEN changes + 1 ELSE changes
  BY <1>1 DEF Pair!Apply
<1>3. changes \in 0..2 /\ snap \in Pairs /\ edit[r].key \in Pair!Keys
  BY DEF PairTypeInv, Pair!TypeOK, Pairs
<1>4. changes' # 0
  BY <1>2, <1>3
<1>5. ASSUME changes' = 1 PROVE snap'.stale > reaper.interval
  <2>1. reaper.interval = snap.interval
    BY <1>1, <1>2, <1>3, <1>5 DEF ReadApart
  <2>2. snap' = [snap EXCEPT ![edit[r].key] = Pair!Wanted(r)]
    BY DEF Pair!Apply
  <2>3. Pair!check_heartbeat_pair(snap) /\ Pair!check_heartbeat_pair(snap')
    BY <1>1, <2>2 DEF Checked
  <2>4. CASE edit[r].key = "interval"
    BY <1>3, <2>1, <2>2, <2>3, <2>4 DEF Pair!check_heartbeat_pair, Pairs
  <2>5. CASE edit[r].key = "stale"
    BY <1>3, <2>1, <2>2, <2>3, <2>5 DEF Pair!check_heartbeat_pair, Pairs
  <2> QED BY <1>3, <2>4, <2>5 DEF Pair!Keys
<1> QED BY <1>1, <1>4, <1>5 DEF ReadApart

LEMMA ReadsKept ==
    ASSUME Pair!Admissible, PairTypeInv, Checked, ReadApart, Pair!SweepsSpareTheHealthy, [Pair!Next]_(Pair!vars)
    PROVE  ReadApart' /\ Pair!SweepsSpareTheHealthy'
<1>1. ASSUME NEW r \in Requests, Pair!Apply(r) PROVE ReadApart' /\ Pair!SweepsSpareTheHealthy'
  <2>1. reaper.at = "sleep" => UNCHANGED <<reaper, crossed, changes>>
    BY <1>1 DEF Pair!Apply
  <2>2. reaper' = reaper
    BY <1>1 DEF Pair!Apply
  <2> QED BY <1>1, <2>1, <2>2, ApplyKeepsReads DEF Pair!SweepsSpareTheHealthy
<1>2. ASSUME NEW r \in Requests, Pair!Check(r) \/ Pair!Store(r) \/ Pair!Drop(r)
      PROVE  ReadApart' /\ Pair!SweepsSpareTheHealthy'
  <2>1. UNCHANGED <<snap, reaper, changes>>
    BY <1>2 DEF Pair!Check, Pair!Store, Pair!Drop
  <2>2. crossed => crossed'
    <3>1. CASE Pair!Check(r)
      BY <3>1, Zenon DEF Pair!Check
    <3>2. CASE Pair!Store(r) \/ Pair!Drop(r)
      BY <3>2 DEF Pair!Store, Pair!Drop
    <3> QED BY <1>2, <3>1, <3>2
  <2> QED BY <2>1, <2>2 DEF ReadApart, Pair!SweepsSpareTheHealthy
<1>3. CASE Pair!ReadInterval
  <2>1. /\ reaper'.at = "stale" /\ reaper'.interval = snap.interval
        /\ changes' = 0 /\ snap' = snap
    BY <1>3 DEF Pair!ReadInterval, PairTypeInv, Pair!TypeOK
  <2> QED BY <2>1 DEF ReadApart, Pair!SweepsSpareTheHealthy
<1>4. CASE Pair!ReadStale
  <2>1. /\ reaper.at = "stale" /\ reaper'.at = "sleep"
        /\ reaper'.interval = reaper.interval /\ reaper'.stale = snap.stale
        /\ UNCHANGED <<crossed, changes>>
    BY <1>4 DEF Pair!ReadStale, PairTypeInv, Pair!TypeOK
  <2>2. changes \in 0..2 /\ snap \in Pairs
    BY DEF PairTypeInv, Pair!TypeOK, Pairs
  <2>3. crossed \/ changes = 2 \/ snap.stale > reaper.interval
    BY <2>1, <2>2 DEF ReadApart, Checked, Pair!check_heartbeat_pair
  <2> QED BY <2>1, <2>3 DEF ReadApart, Pair!SweepsSpareTheHealthy
<1>5. CASE Pair!Sweep \/ Pair!Restart
  <2>1. reaper'.at = "interval"
    BY <1>5, AsleepIsOfItsType DEF Pair!Sweep, Pair!Restart
  <2> QED BY <2>1 DEF ReadApart, Pair!SweepsSpareTheHealthy
<1>6. CASE UNCHANGED Pair!vars
  BY <1>6 DEF Pair!vars, ReadApart, Pair!SweepsSpareTheHealthy
<1> QED BY <1>1, <1>2, <1>3, <1>4, <1>5, <1>6 DEF Pair!Next

----------------------------------------------------------------------------
\* The timeout in effect is longer than the ping interval after any edits that
\* do not cross, any handlers dropped and any restarts (api/settings.rs,
\* settings.rs); and no sweep of the reaper (main.rs) goes by a timeout that is
\* not, unless they cross or both values change between its two reads.
THEOREM ThePairHolds ==
    ASSUME Pair!Admissible
    PROVE  Pair!Spec => []Pair!HeartbeatPairHolds
<1> DEFINE PairInv == PairTypeInv /\ Checked /\ ReadApart /\ Pair!SweepsSpareTheHealthy
<1>1. Pair!Init => PairInv
  BY InitKeepsIt
<1>2. PairInv /\ [Pair!Next]_(Pair!vars) => PairInv'
  BY TypesKept, CheckedKept, ReadsKept
<1>3. PairInv => Pair!HeartbeatPairHolds
  BY DEF Checked, Pair!HeartbeatPairHolds, Pair!SerialEditsKeepThePair
<1> QED BY <1>1, <1>2, <1>3, PTL DEF Pair!Spec

\* ThePairHolds, in the state space of all requests: the
\* timeout in effect, and the one the reaper sweeps by, is longer than the ping
\* interval (api/settings.rs, main.rs).
THEOREM PairHolds == MCSpec => []HeartbeatPairHolds
<1>1. Pair!Admissible
  BY SettingsAssumption
<1>2. Pair!Spec => []Pair!HeartbeatPairHolds
  BY <1>1, ThePairHolds
<1>3. MCInit => Pair!Init
  BY DEF MCInit
<1>4. [MCNext]_allVars => [Pair!Next]_(Pair!vars)
  BY DEF MCNext, PoolNext, ShardNext, PostedNext, SettingsNext, CatalogNext, allVars, pairVars,
         Pair!vars
<1>5. HeartbeatPairHolds <=> Pair!HeartbeatPairHolds
  BY DEF HeartbeatPairHolds
<1> QED BY <1>2, <1>3, <1>4, <1>5, PTL DEF MCSpec, Pair!Spec

\* ShardingProofs' ShardsAreWhole, in the state space of all requests: every VU
\* id and every row of a unique dataset is exactly one worker's, and no worker
\* has more than it advertised (grpc/shard.rs).
THEOREM ShardsTile == MCSpec => []ShardsTileTheLoad
<1>1. Shard!Spec => []Shard!ShardsTileTheLoad
  BY ShardsAssumption, Shard!ShardsAreWhole
<1>2. MCInit => Shard!Init
  BY DEF MCInit
<1>3. [MCNext]_allVars => [Shard!Next]_(Shard!vars)
  BY DEF MCNext, PoolNext, ShardNext, PostedNext, SettingsNext, CatalogNext, allVars, requestVars,
         shardVars, Shard!vars
<1>4. ShardsTileTheLoad <=> Shard!ShardsTileTheLoad
  BY DEF ShardsTileTheLoad
<1> QED BY <1>1, <1>2, <1>3, <1>4, PTL DEF MCSpec, Shard!Spec

----------------------------------------------------------------------------
(***************************************************************************)
(* What was posted is what runs: LoadProfile, by the lemmas of             *)
(* ShardingProofs about the splits.                                        *)
(***************************************************************************)
\* LoadProfile and ShardingProofs speak of the same arithmetic.
LEMMA SameSums ==
    ASSUME NEW f, NEW S
    PROVE  Posted!SumFunctionOnSet(f, S) = Shard!SumFunctionOnSet(f, S)
BY DEF Posted!SumFunctionOnSet, Shard!SumFunctionOnSet, Posted!FoldFunctionOnSet,
       Shard!FoldFunctionOnSet, Posted!MapThenFoldSet, Shard!MapThenFoldSet

LEMMA SameOperators ==
    /\ \A f : Posted!Sum(f) = Shard!Sum(f)
    /\ \A m, n : Posted!Lesser(m, n) = Shard!Lesser(m, n)
    /\ \A m, n : Posted!Greater(m, n) = Shard!Greater(m, n)
    /\ \A t, n : Posted!EvenCounts(t, n) = Shard!EvenCounts(t, n)
    /\ \A t, c : Posted!worker_count(t, c) = Shard!worker_count(t, c)
BY SameSums
   DEF Posted!Sum, Shard!Sum, Posted!Lesser, Shard!Lesser, Posted!Greater, Shard!Greater,
       Posted!EvenCounts, Shard!EvenCounts, Posted!ShardCount, Shard!ShardCount,
       Posted!worker_count, Shard!worker_count, Posted!AtLeastOne, Shard!AtLeastOne

LEMMA SameSplits ==
    ASSUME NEW t, NEW c
    PROVE  Posted!proportional_split(t, c) = Shard!proportional_split(t, c)
<1>1. ASSUME NEW S PROVE Posted!Cardinality(S) = Shard!Cardinality(S)
  BY DEF Posted!Cardinality, Shard!Cardinality, Posted!IsFiniteSet, Shard!IsFiniteSet
<1> QED BY <1>1, SameOperators DEF Posted!proportional_split, Shard!proportional_split

LEMMA SameShares ==
    ASSUME NEW kind, NEW t, NEW c, NEW weighted
    PROVE  Posted!Shares(kind, t, c, weighted) = Shard!Shares(kind, t, c, weighted)
BY SameOperators, SameSplits
   DEF Posted!Shares, Shard!Shares, Posted!proportional_split_min1, Shard!proportional_split_min1

LEMMA ElementsOf ==
    ASSUME NEW S, NEW s \in Seq(S)
    PROVE  \A j \in 1..Len(s) : s[j] \in S
OBVIOUS

\* A curve has a stage of the largest target.
LEMMA LargestTarget ==
    ASSUME NEW s \in Posted!Stages, Posted!HasLoad(s)
    PROVE  /\ Posted!Max(Posted!Targets(s)) \in Nat \ {0}
           /\ \A j \in DOMAIN s : s[j].target <= Posted!Max(Posted!Targets(s))
<1> DEFINE n == Len(s)
           T == {m \in Nat : m \in 1..n =>
                   \E k \in 1..n : \A j \in 1..m : s[j].target <= s[k].target}
<1>1. n \in Nat /\ DOMAIN s = 1..n /\ \A j \in 1..n : s[j].target \in Nat
  <2>1. s \in Seq([target : Nat, seconds : Nat])
    BY DEF Posted!Stages
  <2>2. \A j \in 1..n : s[j] \in [target : Nat, seconds : Nat]
    BY <2>1, ElementsOf
  <2>3. n \in Nat /\ DOMAIN s = 1..n
    BY <2>1
  <2> QED BY <2>2, <2>3
<1>2. 0 \in T
  OBVIOUS
<1>3. ASSUME NEW m \in Nat, m \in T PROVE m + 1 \in T
  <2> SUFFICES ASSUME m + 1 \in 1..n
               PROVE  \E k \in 1..n : \A j \in 1..(m + 1) : s[j].target <= s[k].target
    OBVIOUS
  <2> HIDE DEF n
  <2>1. \A j \in 1..(m + 1) : j \in 1..m \/ j = m + 1
    OBVIOUS
  <2>2. CASE m = 0
    <3>1. \A j \in 1..(m + 1) : s[j].target <= s[m + 1].target
      BY <1>1, <2>2
    <3> QED BY <3>1
  <2>3. CASE m # 0
    <3>1. m \in 1..n
      BY <1>1, <2>3
    <3>2. PICK k \in 1..n : \A j \in 1..m : s[j].target <= s[k].target
      BY <1>3, <3>1
    <3>3. \A j \in 1..(m + 1) : j \in 1..n
      BY <1>1
    <3>4. CASE s[m + 1].target <= s[k].target
      BY <2>1, <3>2, <3>4
    <3>5. CASE s[k].target <= s[m + 1].target
      <4>1. \A j \in 1..(m + 1) : s[j].target <= s[m + 1].target
        <5> TAKE j \in 1..(m + 1)
        <5>1. s[j].target \in Nat /\ s[k].target \in Nat /\ s[m + 1].target \in Nat
          BY <1>1, <3>3
        <5> QED BY <2>1, <3>2, <3>5, <5>1
      <4> QED BY <4>1
    <3> QED BY <1>1, <3>4, <3>5
  <2> QED BY <2>2, <2>3
<1>4. T = Nat
  <2> HIDE DEF T
  <2>1. T \in SUBSET Nat
    BY DEF T
  <2> QED BY <1>2, <1>3, <2>1, ShardsAssumption, Shard!Inductive
<1>5. \E j \in 1..n : s[j].target > 0
  BY <1>1 DEF Posted!HasLoad, Posted!Targets
<1>6. n \in 1..n
  BY <1>1, <1>5
<1>7. n \in T
  BY <1>1, <1>4
<1>8. PICK k \in 1..n : \A j \in 1..n : s[j].target <= s[k].target
  BY <1>6, <1>7
<1> DEFINE S == Posted!Targets(s)
<1>9. S = {s[j].target : j \in 1..n}
  BY <1>1 DEF Posted!Targets
<1>10. s[k].target \in S /\ \A y \in S : s[k].target >= y
  BY <1>1, <1>8, <1>9
<1>11. Posted!Max(S) \in S /\ \A y \in S : Posted!Max(S) >= y
  <2> HIDE DEF S
  <2> QED BY <1>10 DEF Posted!Max
<1>12. \A j \in 1..n : s[j].target \in S
  BY <1>9
<1>13. S \subseteq Nat
  BY <1>1, <1>9
<1> HIDE DEF S, n
<1>14. Posted!Max(S) \in Nat /\ \A j \in 1..n : s[j].target <= Posted!Max(S)
  BY <1>1, <1>11, <1>12, <1>13
<1>15. Posted!Max(S) > 0
  BY <1>1, <1>5, <1>14
<1> QED BY <1>1, <1>14, <1>15 DEF S

\* A profile that is accepted has slots; of a VU curve the most it asks for,
\* and a fixed rate is one of an open-loop profile.
LEMMA ValidProfile ==
    ASSUME NEW p \in Posted!Profile, Posted!Valid(p)
    PROVE  /\ Posted!concurrency_demand(p) \in Nat \ {0}
           /\ Posted!is_vu_curve(p) =>
                /\ p.stages = <<>> /\ p.rps = -1
                /\ \A j \in DOMAIN p.vuStages :
                     p.vuStages[j].target <= Posted!concurrency_demand(p)
           /\ p.rps # -1 => p.rps \in Nat \ {0} /\ p.stages = <<>> /\ ~Posted!is_vu_curve(p)
<1>0. p.vuStages \in Posted!Stages /\ p.stages \in Posted!Stages /\ p.vus \in Nat
      /\ p.inFlight \in Nat \cup {-1} /\ p.rps \in Nat \cup {-1}
  BY DEF Posted!Profile, Posted!Opt, Posted!None
<1>1. CASE Posted!is_vu_curve(p)
  <2>1. Posted!VuCurveRules(p)
    BY <1>1 DEF Posted!Valid
  <2>2. Posted!concurrency_demand(p) = Posted!Max(Posted!Targets(p.vuStages))
    BY <1>1 DEF Posted!concurrency_demand
  <2>3. p.stages = <<>> /\ p.rps = -1 /\ Posted!HasLoad(p.vuStages)
    BY <2>1 DEF Posted!VuCurveRules, Posted!None
  <2> QED BY <1>0, <1>1, <2>2, <2>3, LargestTarget
<1>2. CASE ~Posted!is_vu_curve(p) /\ Posted!is_open_loop(p)
  <2>1. Posted!OpenLoopRules(p)
    BY <1>2 DEF Posted!Valid
  <2>2. p.inFlight \in Nat \ {0}
    <3> DEFINE most == 10000
    <3>1. most \in Int
      BY ONLY SMT
    <3>2. p.inFlight \in 1..most
      BY ONLY <2>1, SMTT(30) DEF Posted!OpenLoopRules
    <3> HIDE DEF most
    <3> QED BY ONLY <3>1, <3>2, SMT
  <2>3. Posted!concurrency_demand(p) = p.inFlight
    <3>1. p.inFlight # -1
      BY <2>2
    <3> QED BY <1>2, <3>1 DEF Posted!concurrency_demand, Posted!Or, Posted!None
  <2>4. p.rps # -1 => p.rps \in Nat \ {0} /\ p.stages = <<>>
    BY ONLY <2>1, SMTT(30) DEF Posted!OpenLoopRules, Posted!None
  <2> QED BY <1>2, <2>2, <2>3, <2>4
<1>3. CASE ~Posted!is_vu_curve(p) /\ ~Posted!is_open_loop(p)
  <2>1. Posted!ClosedRules(p)
    BY <1>3 DEF Posted!Valid
  <2>2. p.vus \in Nat \ {0} /\ p.rps = -1
    BY <1>0, <1>3, <2>1 DEF Posted!ClosedRules, Posted!is_open_loop, Posted!None
  <2>3. Posted!concurrency_demand(p) = p.vus
    BY <1>3 DEF Posted!concurrency_demand
  <2> QED BY <1>3, <2>2, <2>3
<1> QED BY <1>1, <1>2, <1>3

\* How a launch divides the slots: among no more workers than there are, none
\* left without, all given out; and evenly if it does not go by the slots.
Divided(counts, weighted) ==
    LET d == Posted!concurrency_demand(profile) IN
    /\ counts \in Seq(Nat) /\ Len(counts) > 0 /\ weighted \in BOOLEAN
    /\ \A i \in 1..Len(counts) : counts[i] > 0
    /\ Shard!Sum(counts) = d
    /\ ~weighted => counts = Shard!EvenCounts(d, Len(counts))
    /\ profile.rps # -1 => profile.rps >= Len(counts)

LEMMA EvenDivides ==
    ASSUME NEW d \in Nat \ {0}, NEW n \in Nat \ {0}, n <= d
    PROVE  /\ Shard!EvenCounts(d, n) \in Seq(Nat) /\ Len(Shard!EvenCounts(d, n)) = n
           /\ \A i \in 1..n : Shard!EvenCounts(d, n)[i] > 0
           /\ Shard!Sum(Shard!EvenCounts(d, n)) = d
<1> DEFINE c == Shard!EvenCounts(d, n)
<1>1. c \in [1..n -> Nat] /\ Shard!SumFunctionOnSet(c, 1..n) = d
  BY ShardsAssumption, Shard!EvenCountsSum
<1>2. \A i \in 0..(n - 1) : Shard!ShardCount(d, n, i) > 0
  BY ShardsAssumption, Shard!EvenSplit
<1>3. \A i \in 1..n : i - 1 \in 0..(n - 1) /\ c[i] = Shard!ShardCount(d, n, i - 1)
  BY DEF Shard!EvenCounts
<1> HIDE DEF c
<1>4. c \in Seq(Nat) /\ Len(c) = n
  BY <1>1
<1>5. Shard!Sum(c) = d
  BY <1>1 DEF Shard!Sum
<1>6. \A i \in 1..n : c[i] > 0
  BY <1>2, <1>3
<1> QED BY <1>4, <1>5, <1>6 DEF c

\* What a launch of divided slots gives the workers is what was posted.
LEMMA DividedIsAsPosted ==
    ASSUME profile \in Posted!Profile, Posted!Valid(profile),
           NEW counts, NEW weighted, Divided(counts, weighted), NEW n,
           Posted!Launches(counts, weighted, n)
    PROVE  LoadIsAsPosted'
<1> DEFINE m == Len(counts)
           d == Posted!concurrency_demand(profile)
           p == profile
           s == p.vuStages \o p.stages
<1>1. /\ counts \in Seq(Nat) /\ Len(counts) > 0 /\ weighted \in BOOLEAN
      /\ \A i \in 1..Len(counts) : counts[i] > 0
      /\ Shard!Sum(counts) = d
      /\ ~weighted => counts = Shard!EvenCounts(d, Len(counts))
      /\ p.rps # -1 => p.rps >= Len(counts)
  BY DEF Divided
<1>2. m \in Nat \ {0} /\ DOMAIN counts = 1..m
  BY <1>1
<1>3. /\ d \in Nat \ {0}
      /\ Posted!is_vu_curve(p) =>
           /\ p.stages = <<>> /\ p.rps = -1
           /\ \A j \in DOMAIN p.vuStages : p.vuStages[j].target <= d
      /\ p.rps # -1 => p.rps \in Nat \ {0} /\ p.stages = <<>> /\ ~Posted!is_vu_curve(p)
  BY ValidProfile
<1>4. /\ p' = p
      /\ plans' = [i \in 1..m |-> Posted!PlanOf(p, counts, weighted, i)]
  BY <1>2 DEF Posted!Launches
<1>5. \A i \in 1..m : plans'[i] = Posted!PlanOf(p, counts, weighted, i)
  BY <1>4
<1>6. s \in Seq([target : Nat, seconds : Nat])
  <2>1. /\ p.vuStages \in Seq([target : Nat, seconds : Nat])
        /\ p.stages \in Seq([target : Nat, seconds : Nat])
    BY DEF Posted!Profile, Posted!Stages
  <2> QED BY <2>1
<1>7. DOMAIN s = 1..Len(s) /\ \A j \in DOMAIN s : s[j].target \in Nat
  <2>1. DOMAIN s = 1..Len(s)
    BY <1>6
  <2>2. \A j \in 1..Len(s) : s[j] \in [target : Nat, seconds : Nat]
    BY <1>6, ElementsOf
  <2> QED BY <2>1, <2>2
<1>8. \A i \in 1..m :
        /\ plans'[i].slots = counts[i]
        /\ p.rps # -1 => plans'[i].rps = Shard!Shares("fixed", p.rps, counts, weighted)[i]
        /\ plans'[i].stages = Posted!ShareOfStages(s, counts, weighted, i)
        /\ plans'[i].engine = "vuCurve" => Posted!is_vu_curve(p)
  <2> TAKE i \in 1..m
  <2>1. plans'[i] = Posted!PlanOf(p, counts, weighted, i)
    BY <1>5
  <2>2. /\ plans'[i].slots = counts[i]
        /\ plans'[i].rps = IF p.rps = -1 THEN -1
                           ELSE Posted!Shares("fixed", p.rps, counts, weighted)[i]
        /\ plans'[i].stages = Posted!ShareOfStages(s, counts, weighted, i)
    BY <2>1 DEF Posted!PlanOf, Posted!None
  <2>3. plans'[i].engine =
          CASE Posted!is_vu_curve(p) -> "vuCurve"
            [] ~Posted!is_vu_curve(p) /\ Posted!is_open_loop(p) -> "open"
            [] ~Posted!is_vu_curve(p) /\ ~Posted!is_open_loop(p) -> "closed"
    BY <2>1 DEF Posted!PlanOf
  <2>4. plans'[i].engine = "vuCurve" => Posted!is_vu_curve(p)
    BY <2>3
  <2> QED BY <2>2, <2>4, SameShares
<1>9. \A i \in 1..m, j \in DOMAIN s :
        plans'[i].stages[j].target = Shard!Shares("curve", s[j].target, counts, weighted)[i]
  <2> TAKE i \in 1..m, j \in DOMAIN s
  <2>1. plans'[i].stages[j]
          = [s[j] EXCEPT !.target = Posted!Shares("curve", s[j].target, counts, weighted)[i]]
    <3>1. plans'[i].stages = Posted!ShareOfStages(s, counts, weighted, i)
      BY <1>8
    <3> HIDE DEF s
    <3> QED BY <3>1 DEF Posted!ShareOfStages
  <2>2. s[j] \in [target : Nat, seconds : Nat]
    BY <1>6, <1>7, ElementsOf
  <2> HIDE DEF s
  <2> QED BY <2>1, <2>2, SameShares
<1> HIDE DEF m, d, s
<1>10. \A t \in Nat : /\ Shard!Shares("curve", t, counts, weighted) \in [1..m -> Nat]
                      /\ Shard!SumFunctionOnSet(Shard!Shares("curve", t, counts, weighted), 1..m) = t
  <2> TAKE t \in Nat
  <2>1. /\ Shard!Shares("curve", t, counts, weighted) \in [1..m -> Nat]
        /\ Shard!Sum(Shard!Shares("curve", t, counts, weighted)) = t
    BY <1>1, ShardsAssumption, Shard!SharesAddUp DEF m
  <2> QED BY <2>1 DEF Shard!Sum
<1>11. \A j \in DOMAIN s :
         Posted!Sum([i \in DOMAIN plans' |-> plans'[i].stages[j].target]) = s[j].target
  <2> TAKE j \in DOMAIN s
  <2> DEFINE S == Shard!Shares("curve", s[j].target, counts, weighted)
  <2>1. s[j].target \in Nat /\ DOMAIN plans' = 1..m
    BY <1>4, <1>7
  <2>2. S \in [1..m -> Nat] /\ Shard!SumFunctionOnSet(S, 1..m) = s[j].target
    BY <1>10, <2>1
  <2>3. [i \in DOMAIN plans' |-> plans'[i].stages[j].target] = S
    <3>1. \A i \in 1..m : plans'[i].stages[j].target = S[i]
      BY <1>9
    <3> HIDE DEF S
    <3> QED BY <2>1, <2>2, <3>1
  <2> HIDE DEF S
  <2> QED BY <2>2, <2>3, SameOperators DEF Shard!Sum
<1>12. ASSUME NEW j \in DOMAIN s, NEW i \in 1..m, plans'[i].engine = "vuCurve"
       PROVE  plans'[i].stages[j].target <= plans'[i].slots
  <2>1. Posted!is_vu_curve(p)
    BY <1>8, <1>12
  <2>2. s = p.vuStages
    <3>1. p.vuStages \in Seq([target : Nat, seconds : Nat]) /\ p.stages = <<>>
      BY <1>3, <2>1 DEF Posted!Profile, Posted!Stages
    <3> QED BY <3>1 DEF s
  <2>3. s[j].target <= d /\ s[j].target \in Nat
    BY <1>3, <1>7, <2>1, <2>2
  <2>4. \A t \in Nat : t <= d =>
          \A k \in 1..m : Shard!Shares("curve", t, counts, weighted)[k] <= counts[k]
    BY <1>1, ShardsAssumption, Shard!SharesWithinSlots DEF m
  <2>5. Shard!Shares("curve", s[j].target, counts, weighted)[i] <= counts[i]
    BY <2>3, <2>4
  <2> QED BY <1>8, <1>9, <2>5
<1>13. p.rps # -1 =>
         Posted!Sum([i \in DOMAIN plans' |-> Posted!AtLeastOne(plans'[i].rps)]) = p.rps
  <2> SUFFICES ASSUME p.rps # -1
               PROVE  Posted!Sum([i \in DOMAIN plans' |-> Posted!AtLeastOne(plans'[i].rps)]) = p.rps
    OBVIOUS
  <2> DEFINE S == Shard!Shares("fixed", p.rps, counts, weighted)
  <2>1. p.rps \in Nat /\ p.rps >= Len(counts) /\ DOMAIN plans' = 1..m
    BY <1>1, <1>3, <1>4
  <2>2. S \in [1..m -> Nat] /\ Shard!Sum(S) = p.rps
    BY <1>1, <2>1, ShardsAssumption, Shard!SharesAddUp DEF m
  <2>3. \A i \in 1..m : S[i] > 0
    BY <1>1, <2>1, ShardsAssumption, Shard!EveryoneHasAShare DEF m
  <2>4. \A i \in 1..m : plans'[i].rps = S[i]
    BY <1>8
  <2> HIDE DEF S
  <2>5. \A i \in 1..m : Posted!AtLeastOne(plans'[i].rps) = S[i]
    BY <2>2, <2>3, <2>4 DEF Posted!AtLeastOne, Posted!Greater
  <2>6. [i \in DOMAIN plans' |-> Posted!AtLeastOne(plans'[i].rps)] = S
    BY <2>1, <2>2, <2>5
  <2> QED BY <2>2, <2>6, SameOperators
<1>14. Posted!Sum([i \in DOMAIN plans' |-> plans'[i].slots]) = d
  <2>1. DOMAIN plans' = 1..m /\ \A i \in 1..m : plans'[i].slots = counts[i]
    BY <1>4, <1>8
  <2>2. counts \in [1..m -> Nat]
    BY <1>1 DEF m
  <2>3. [i \in DOMAIN plans' |-> plans'[i].slots] = counts
    BY <2>1, <2>2
  <2> QED BY <1>1, <2>3, SameOperators DEF d
<1>15. \A i \in DOMAIN plans' : plans'[i].slots > 0
  BY <1>1, <1>4, <1>8 DEF m
<1>16. Posted!concurrency_demand(profile)' = d
  BY <1>4 DEF d, Posted!concurrency_demand, Posted!is_vu_curve, Posted!is_open_loop
<1> QED BY <1>4, <1>11, <1>12, <1>13, <1>14, <1>15, <1>16
        DEF LoadIsAsPosted, Posted!LoadIsAsPosted, s, Posted!None

\* The rules of an open-loop profile, as far as the launches rely on them.
LEMMA OpenLoopProfile ==
    ASSUME NEW p \in Posted!Profile, Posted!Valid(p), Posted!is_open_loop(p), ~Posted!is_vu_curve(p)
    PROVE  /\ p.rps = -1 => Posted!Max(Posted!Targets(p.stages)) \in Nat
           /\ Posted!Or(p.workers, 1) \in Nat \ {0}
           /\ Posted!Or(p.workers, 1) <= Posted!concurrency_demand(p)
           /\ p.rps # -1 => Posted!Or(p.workers, 1) <= p.rps
<1>0. p.stages \in Posted!Stages /\ p.workers \in Nat \cup {-1}
  BY DEF Posted!Profile, Posted!Opt, Posted!None
<1>1. Posted!OpenLoopRules(p) /\ Posted!CommonRules(p)
  BY DEF Posted!Valid
<1>2. p.rps = -1 => Posted!HasLoad(p.stages)
  <2>1. p.rps = -1 => p.stages # <<>>
    BY DEF Posted!is_open_loop, Posted!None
  <2> QED BY ONLY <1>1, <2>1, SMTT(30) DEF Posted!OpenLoopRules
<1>3. p.rps = -1 => Posted!Max(Posted!Targets(p.stages)) \in Nat
  BY <1>0, <1>2, LargestTarget
<1>4. /\ Posted!concurrency_demand(p) \in Nat \ {0}
      /\ p.rps # -1 => p.rps \in Nat \ {0} /\ p.stages = <<>>
  BY ValidProfile
<1>5. CASE p.workers = -1
  <2>1. Posted!Or(p.workers, 1) = 1
    BY <1>5 DEF Posted!Or, Posted!None
  <2> QED BY <1>3, <1>4, <2>1
<1>6. CASE p.workers # -1
  <2>1. Posted!Or(p.workers, 1) = p.workers /\ p.workers \in Nat \ {0}
    BY <1>0, <1>1, <1>6 DEF Posted!Or, Posted!None, Posted!CommonRules
  <2>2. p.workers > 1 => p.inFlight >= p.workers /\ (p.stages = <<>> => p.rps >= p.workers)
    <3>1. Posted!FanOutRules(p)
      BY ONLY <1>1, SMTT(30) DEF Posted!OpenLoopRules
    <3> QED BY <3>1 DEF Posted!FanOutRules
  <2>3. p.workers > 1 => p.inFlight >= p.workers /\ p.inFlight # -1
    BY <2>1, <2>2
  <2>4. p.inFlight # -1 => Posted!concurrency_demand(p) = p.inFlight
    BY DEF Posted!concurrency_demand, Posted!Or, Posted!None
  <2>5. p.workers = 1 \/ p.workers > 1
    BY <2>1
  <2> QED BY <1>3, <1>4, <2>1, <2>2, <2>3, <2>4, <2>5
<1> QED BY <1>5, <1>6

\* A launch divides the slots, and the watchdog reckons with no fewer workers.
LEMMA FanOutDivides ==
    ASSUME Posted!Admissible, profile \in Posted!Profile, Posted!Valid(profile), Posted!FanOut
    PROVE  \E counts, weighted, n : /\ Divided(counts, weighted)
                                    /\ n \in Nat /\ n >= Len(counts)
                                    /\ Posted!Launches(counts, weighted, n)
<1> DEFINE d == Posted!concurrency_demand(profile)
           n == Posted!fanout_worker_count(profile)
           c == Posted!EvenCounts(d, n)
<1>1. Posted!Launches(c, FALSE, n)
  BY DEF Posted!FanOut
<1>2. d \in Nat \ {0}
  BY ValidProfile
<1>3. n \in Nat \ {0} /\ n <= d /\ (profile.rps # -1 => n <= profile.rps)
  <2>1. CASE Posted!is_open_loop(profile) /\ ~Posted!is_vu_curve(profile)
    <3>1. n = Posted!Or(profile.workers, 1)
      BY <2>1 DEF Posted!fanout_worker_count
    <3> QED BY <2>1, <3>1, OpenLoopProfile
  <2>2. CASE ~(Posted!is_open_loop(profile) /\ ~Posted!is_vu_curve(profile))
    <3>1. n = Shard!worker_count(d, WorkerCapacity)
      BY <2>2, SameOperators DEF Posted!fanout_worker_count
    <3>2. profile.rps = -1
      BY <2>2, ValidProfile DEF Posted!is_open_loop, Posted!None
    <3>3. WorkerCapacity \in Nat
      BY DEF Posted!Admissible
    <3> HIDE DEF d, n
    <3>4. n \in Nat \ {0} /\ n <= d
      BY <1>2, <3>1, <3>3, ShardsAssumption, Shard!EnoughWorkers
    <3> QED BY <3>2, <3>4
  <2> QED BY <2>1, <2>2
<1>4. c = Shard!EvenCounts(d, n)
  BY SameOperators
<1> HIDE DEF n, c
<1>5. Divided(c, FALSE)
  <2>1. /\ c \in Seq(Nat) /\ Len(c) = n /\ \A i \in 1..n : c[i] > 0
        /\ Shard!Sum(c) = d
    <3> HIDE DEF d
    <3> QED BY <1>2, <1>3, <1>4, EvenDivides
  <2>2. profile.rps # -1 => profile.rps >= n
    <3>1. profile.rps # -1 => profile.rps \in Nat
      BY ValidProfile
    <3> QED BY <1>3, <3>1
  <2> QED BY <1>3, <1>4, <2>1, <2>2 DEF Divided
<1>6. n \in Nat /\ n >= Len(c)
  <2> HIDE DEF d
  <2> QED BY <1>2, <1>3, <1>4, EvenDivides
<1> QED BY <1>1, <1>5, <1>6

LEMMA PoolLaunchDivides ==
    ASSUME Posted!Admissible, profile \in Posted!Profile, Posted!Valid(profile), Posted!PoolLaunch
    PROVE  \E counts, weighted, n : /\ Divided(counts, weighted)
                                    /\ n \in Nat /\ n >= Len(counts)
                                    /\ Posted!Launches(counts, weighted, n)
<1> DEFINE d == Posted!concurrency_demand(profile)
           m == Posted!pool_worker_cap(profile)
<1>1. PICK n \in 1..MaxPool :
        /\ n <= m
        /\ \/ \E counts \in Posted!Divisions(d, n) : Posted!Launches(counts, TRUE, m)
           \/ Posted!Launches(Posted!EvenCounts(d, n), FALSE, m)
  BY DEF Posted!PoolLaunch
<1>2. d \in Nat \ {0} /\ (profile.rps # -1 => profile.rps \in Nat)
  BY ValidProfile
<1>3. n \in Nat \ {0} /\ n <= d /\ (profile.rps # -1 => n <= profile.rps) /\ m \in Nat
  <2>0. n \in Nat \ {0}
    BY <1>1 DEF Posted!Admissible
  <2>1. CASE Posted!is_open_loop(profile) /\ ~Posted!is_vu_curve(profile)
    <3> DEFINE x == IF profile.rps # -1 THEN profile.rps
                    ELSE Posted!Max(Posted!Targets(profile.stages))
    <3>1. m = Posted!Lesser(d, x)
      BY <2>1 DEF Posted!pool_worker_cap, Posted!None
    <3>2. x \in Nat
      BY <1>2, <2>1, OpenLoopProfile
    <3>3. profile.rps # -1 => x = profile.rps
      OBVIOUS
    <3> HIDE DEF d, m, x
    <3>4. m <= d /\ m <= x
      BY <1>2, <3>1, <3>2 DEF Posted!Lesser
    <3>5. m \in Nat
      BY <1>2, <3>1, <3>2 DEF Posted!Lesser
    <3> QED BY <1>1, <1>2, <2>0, <3>2, <3>3, <3>4, <3>5
  <2>2. CASE ~(Posted!is_open_loop(profile) /\ ~Posted!is_vu_curve(profile))
    <3>1. m = d
      BY <2>2 DEF Posted!pool_worker_cap
    <3>2. profile.rps = -1
      BY <2>2, ValidProfile DEF Posted!is_open_loop, Posted!None
    <3> QED BY <1>1, <1>2, <2>0, <3>1, <3>2
  <2> QED BY <2>1, <2>2
<1> HIDE DEF m
<1>4. CASE \E counts \in Posted!Divisions(d, n) : Posted!Launches(counts, TRUE, m)
  <2>1. PICK counts \in Posted!Divisions(d, n) : Posted!Launches(counts, TRUE, m)
    BY <1>4
  <2>2. counts \in [1..n -> 1..d] /\ Shard!Sum(counts) = d
    BY SameOperators DEF Posted!Divisions
  <2>3. Divided(counts, TRUE)
    <3>1. \A i \in 1..n : counts[i] \in Nat /\ counts[i] > 0
      BY <1>2, <2>2
    <3>2. counts \in Seq(Nat) /\ Len(counts) = n
      BY <1>3, <2>2, <3>1
    <3>3. profile.rps # -1 => profile.rps >= n
      BY <1>2, <1>3
    <3> QED BY <1>3, <2>2, <3>1, <3>2, <3>3 DEF Divided
  <2>4. Len(counts) = n
    BY <1>3, <2>2
  <2> QED BY <1>1, <1>3, <2>1, <2>3, <2>4
<1>5. CASE Posted!Launches(Posted!EvenCounts(d, n), FALSE, m)
  <2> DEFINE c == Shard!EvenCounts(d, n)
  <2>1. Posted!Launches(c, FALSE, m)
    BY <1>5, SameOperators
  <2>2. /\ c \in Seq(Nat) /\ Len(c) = n /\ \A i \in 1..n : c[i] > 0
        /\ Shard!Sum(c) = d
    <3> HIDE DEF d
    <3> QED BY <1>2, <1>3, EvenDivides
  <2>3. profile.rps # -1 => profile.rps >= n
    BY <1>2, <1>3
  <2>4. c = Shard!EvenCounts(d, n)
    OBVIOUS
  <2> HIDE DEF c
  <2>5. Divided(c, FALSE)
    BY <1>3, <2>2, <2>3, <2>4 DEF Divided
  <2> QED BY <1>1, <1>3, <2>1, <2>2, <2>5
<1> QED BY <1>1, <1>4, <1>5

----------------------------------------------------------------------------
(***************************************************************************)
(* The watchdog's times.  The busiest worker of a curve has at least the   *)
(* average share of its first stage with load, and so its first arrival no *)
(* later than curve_first_arrival_secs; before it are the same idle stages *)
(* as the posted curve's.                                                  *)
(***************************************************************************)

\* L stages without load, then one with.
Led(s, L) ==
    /\ L \in Nat /\ L + 1 \in 1..Len(s) /\ s[L + 1].target > 0
    /\ \A j \in 1..L : s[j].target = 0

LEMMA LeadingIs ==
    ASSUME NEW s \in Posted!Stages, NEW L, Led(s, L)
    PROVE  Posted!Leading(s) = L /\ Posted!HasLoad(s)
<1> DEFINE T == {i \in DOMAIN s : s[i].target > 0}
<1>1. DOMAIN s = 1..Len(s) /\ Len(s) \in Nat
  BY DEF Posted!Stages
<1>2. L + 1 \in T /\ \A y \in T : L + 1 <= y
  <2>1. L \in Nat /\ \A j \in 1..L : ~(s[j].target > 0)
    BY DEF Led
  <2>2. \A y \in 1..Len(s) : y \in 1..L \/ L + 1 <= y
    BY <2>1
  <2> QED BY <1>1, <2>1, <2>2 DEF Led
<1>3. T \subseteq Nat
  BY <1>1
<1>4. Posted!Min(T) \in T /\ \A y \in T : Posted!Min(T) <= y
  <2> HIDE DEF T
  <2> QED BY <1>2 DEF Posted!Min
<1>5. Posted!Min(T) = L + 1
  <2>1. L \in Nat
    BY DEF Led
  <2> HIDE DEF T
  <2>2. /\ Posted!Min(T) \in Nat /\ Posted!Min(T) <= L + 1
        /\ L + 1 <= Posted!Min(T)
    BY <1>2, <1>3, <1>4
  <2> QED BY <2>1, <2>2
<1>6. Posted!HasLoad(s)
  BY <1>1 DEF Led, Posted!HasLoad, Posted!Targets
<1>7. Posted!Leading(s) = Posted!Min(T) - 1
  BY <1>6 DEF Posted!Leading
<1> HIDE DEF T
<1>8. L \in Nat
  BY DEF Led
<1> QED BY <1>5, <1>6, <1>7, <1>8

LEMMA HasLed ==
    ASSUME NEW s \in Posted!Stages, Posted!HasLoad(s)
    PROVE  \E L \in Nat : Led(s, L)
<1> DEFINE T == {i \in 1..Len(s) : s[i].target > 0}
<1>1. DOMAIN s = 1..Len(s) /\ Len(s) \in Nat
  BY DEF Posted!Stages
<1>2. T \in SUBSET Nat /\ T # {}
  BY <1>1 DEF Posted!HasLoad, Posted!Targets
<1> HIDE DEF T
<1>3. PICK n \in T : \A y \in T : n <= y
  BY <1>2, ShardsAssumption, Shard!Least
<1> USE DEF T
<1>4. n \in 1..Len(s) /\ n - 1 \in Nat /\ (n - 1) + 1 = n /\ s[n].target > 0
  BY <1>1, <1>3
<1>5. ASSUME NEW j \in 1..(n - 1) PROVE s[j].target = 0
  <2>1. j \in 1..Len(s) /\ ~(n <= j)
    BY <1>1, <1>4
  <2>2. ~(s[j].target > 0)
    BY <1>3, <2>1
  <2>3. s[j] \in [target : Nat, seconds : Nat]
    BY <2>1, ElementsOf DEF Posted!Stages
  <2> QED BY <2>2, <2>3
<1> QED BY <1>4, <1>5 DEF Led

LEMMA LengthIs ==
    ASSUME NEW s \in Posted!Stages
    PROVE  Posted!Length(s) \in Nat
<1> DEFINE f == [i \in DOMAIN s |-> s[i].seconds]
<1>1. DOMAIN s = 1..Len(s) /\ Len(s) \in Nat
  BY DEF Posted!Stages
<1>2. \A i \in 1..Len(s) : s[i] \in [target : Nat, seconds : Nat]
  BY ElementsOf DEF Posted!Stages
<1>3. \A i \in 1..Len(s) : f[i] \in Nat
  BY <1>1, <1>2
<1>4. Posted!Length(s) = Shard!SumFunctionOnSet(f, 1..Len(s))
  BY <1>1, SameOperators DEF Posted!Length, Shard!Sum
<1> HIDE DEF f
<1>5. Shard!SumsTo(f, Len(s)) \in [0..Len(s) -> Nat]
  BY <1>1, <1>3, ShardsAssumption, Shard!SumsOfNats
<1>6. Shard!SumsTo(f, Len(s))[Len(s)] = Shard!SumFunctionOnSet(f, 1..Len(s))
  BY <1>1 DEF Shard!SumsTo
<1> QED BY <1>1, <1>4, <1>5, <1>6

LEMMA SameLength ==
    ASSUME NEW s \in Posted!Stages, NEW r \in Posted!Stages, Len(r) = Len(s),
           \A j \in 1..Len(s) : r[j].seconds = s[j].seconds, NEW L \in 0..Len(s)
    PROVE  Posted!Length(SubSeq(r, 1, L)) = Posted!Length(SubSeq(s, 1, L))
<1> DEFINE a == SubSeq(r, 1, L)
           b == SubSeq(s, 1, L)
<1>1. /\ DOMAIN a = 1..L /\ \A j \in 1..L : a[j] = r[j]
      /\ DOMAIN b = 1..L /\ \A j \in 1..L : b[j] = s[j]
  BY DEF Posted!Stages
<1>2. \A j \in 1..L : j \in 1..Len(s)
  BY DEF Posted!Stages
<1> HIDE DEF a, b
<1>3. [j \in DOMAIN a |-> a[j].seconds] = [j \in DOMAIN b |-> b[j].seconds]
  BY <1>1, <1>2
<1> QED BY <1>3 DEF Posted!Length, a, b

\* CeilSqrt is the smallest number that is large enough, or the bound.
LEMMA CeilSqrtIs ==
    ASSUME NEW m \in Nat, NEW n \in Nat, NEW b \in Nat, NEW k, k = Posted!CeilSqrt(m, n, b)
    PROVE  /\ k \in 0..b
           /\ k = b \/ k * k * n >= m
           /\ \A j \in 0..b : j * j * n >= m => k <= j
<1> DEFINE T == {j \in 0..b : j * j * n >= m} \cup {b}
<1>1. T \in SUBSET Nat /\ T # {} /\ b \in T
  OBVIOUS
<1>2. k = Posted!Min(T)
  BY DEF Posted!CeilSqrt
<1>3. k \in T /\ \A y \in T : k <= y
  <2> HIDE DEF T
  <2>1. \E x \in T : \A y \in T : x <= y
    BY <1>1, ShardsAssumption, Shard!Least
  <2> QED BY <1>2, <2>1 DEF Posted!Min
<1> QED BY <1>3

LEMMA BusiestArrives ==
    ASSUME NEW seconds \in Nat, NEW t \in Nat \ {0}, NEW share \in Nat, NEW n \in Nat \ {0},
           share * n >= t
    PROVE  /\ Posted!CeilSqrt(seconds, share, seconds) \in Nat
           /\ Posted!CeilSqrt(n * seconds, t, seconds) \in Nat
           /\ Posted!CeilSqrt(seconds, share, seconds) <= Posted!CeilSqrt(n * seconds, t, seconds)
<1> DEFINE k == Posted!CeilSqrt(seconds, share, seconds)
           h == Posted!CeilSqrt(n * seconds, t, seconds)
<1>1. n * seconds \in Nat
  OBVIOUS
<1>2. /\ k \in 0..seconds
      /\ \A j \in 0..seconds : j * j * share >= seconds => k <= j
  BY CeilSqrtIs
<1>3. h \in 0..seconds /\ (h = seconds \/ h * h * t >= n * seconds)
  BY <1>1, CeilSqrtIs
<1> HIDE DEF k, h
<1>4. ASSUME h = seconds PROVE k <= h
  BY <1>2, <1>3, <1>4
<1>5. ASSUME h * h * t >= n * seconds PROVE k <= h
  <2> DEFINE q == h * h
  <2>1. q \in Nat /\ q * t >= n * seconds
    BY <1>3, <1>5
  <2> HIDE DEF q
  <2>2. q * (share * n) >= q * t
    BY <2>1
  <2>3. q * (share * n) = n * (q * share)
    BY <2>1
  <2>4. q * share \in Nat
    BY <2>1
  <2>5. q * share < seconds => n * (q * share) < n * seconds
    BY <2>4
  <2>6. n * (q * share) \in Int /\ n * seconds \in Int /\ q * t \in Int
    BY <2>1, <2>4
  <2>7. q * share >= seconds
    BY <2>1, <2>2, <2>3, <2>4, <2>5, <2>6
  <2>8. h * h * share >= seconds
    BY <2>7 DEF q
  <2> QED BY <1>2, <1>3, <2>8
<1> QED BY <1>2, <1>3, <1>4, <1>5 DEF k, h

\* Somebody has the average or more.
LEMMA Busiest ==
    ASSUME NEW t \in Nat \ {0}, NEW n \in Nat \ {0}, NEW f \in [1..n -> Nat],
           Shard!SumFunctionOnSet(f, 1..n) = t
    PROVE  \E i \in 1..n : f[i] * n >= t
<1> SUFFICES ASSUME \A i \in 1..n : ~(f[i] * n >= t) PROVE FALSE
  OBVIOUS
<1> DEFINE e == [i \in 1..n |-> n * f[i]]
<1>1. \A i \in 1..n : e[i] = n * f[i]
  OBVIOUS
<1>2. ASSUME NEW i \in 1..n PROVE e[i] \in Nat /\ e[i] < t
  <2>1. f[i] \in Nat /\ ~(f[i] * n >= t)
    OBVIOUS
  <2>2. f[i] * n = n * f[i] /\ n * f[i] \in Nat
    BY <2>1
  <2> QED BY <1>1, <2>1, <2>2
<1> HIDE DEF e
<1>3. \A i \in 1..n : f[i] \in Int
  OBVIOUS
<1>4. n \in Nat /\ n \in Int
  OBVIOUS
<1>5. Shard!SumFunctionOnSet(e, 1..n) = n * t
  BY <1>1, <1>3, <1>4, ShardsAssumption, Shard!SumTimes
<1>6. Shard!SumFunctionOnSet(e, 1..n) < t * n
  BY <1>2, ShardsAssumption, Shard!SumIsBounded
<1>7. n * t = t * n /\ n * t \in Int
  OBVIOUS
<1> QED BY <1>5, <1>6, <1>7

\* Nobody has a share of nothing.
LEMMA NoneOfNothing ==
    ASSUME NEW n \in Nat \ {0}, NEW f \in [1..n -> Nat],
           Shard!SumFunctionOnSet(f, 1..n) = 0, NEW i \in 1..n
    PROVE  f[i] = 0
<1> DEFINE e == [j \in 1..n |-> IF j = i THEN 0 ELSE f[j]]
<1>1. Shard!IsFiniteSet(1..n) /\ Shard!IsFiniteSet((1..n) \ {i}) /\ n \in 0..n
  <2>1. IsFiniteSet(1..n)
    BY FS_Interval
  <2>2. IsFiniteSet((1..n) \ {i})
    BY <2>1, FS_RemoveElement
  <2>3. \A S : IsFiniteSet(S) => Shard!IsFiniteSet(S)
    BY DEF Shard!IsFiniteSet, IsFiniteSet
  <2>4. n \in 0..n
    OBVIOUS
  <2> QED BY <2>1, <2>2, <2>3, <2>4
<1>2. \A j \in 1..n : e[j] \in Nat /\ f[j] \in Nat
  OBVIOUS
<1>3. e[i] = 0 /\ \A j \in (1..n) \ {i} : f[j] = e[j]
  OBVIOUS
<1> HIDE DEF e
<1>4. \A j \in 1..n : e[j] \in Int
  BY <1>2
<1>5. \A j \in 1..n : f[j] \in Int
  BY <1>2
<1>6. Shard!SumFunctionOnSet(f, 1..n) = f[i] + Shard!SumFunctionOnSet(f, (1..n) \ {i})
  <2>1. \A x \in 1..n :
          Shard!SumFunctionOnSet(f, 1..n) = f[x] + Shard!SumFunctionOnSet(f, (1..n) \ {x})
    <3> DEFINE S == 1..n
    <3>1. Shard!IsFiniteSet(S) /\ \A j \in S : f[j] \in Int
      BY <1>1, <1>5
    <3> HIDE DEF S
    <3>2. \A x \in S : Shard!SumFunctionOnSet(f, S) = f[x] + Shard!SumFunctionOnSet(f, S \ {x})
      BY ONLY <3>1, ShardsAssumption, Shard!SumWithout
    <3> QED BY <3>2 DEF S
  <2> QED BY <2>1
<1>7. Shard!SumFunctionOnSet(e, 1..n) = e[i] + Shard!SumFunctionOnSet(e, (1..n) \ {i})
  <2>1. \A x \in 1..n :
          Shard!SumFunctionOnSet(e, 1..n) = e[x] + Shard!SumFunctionOnSet(e, (1..n) \ {x})
    <3> DEFINE S == 1..n
    <3>1. Shard!IsFiniteSet(S) /\ \A j \in S : e[j] \in Int
      BY <1>1, <1>4
    <3> HIDE DEF S
    <3>2. \A x \in S : Shard!SumFunctionOnSet(e, S) = e[x] + Shard!SumFunctionOnSet(e, S \ {x})
      BY ONLY <3>1, ShardsAssumption, Shard!SumWithout
    <3> QED BY <3>2 DEF S
  <2> QED BY <2>1
<1>8. Shard!SumFunctionOnSet(f, (1..n) \ {i}) = Shard!SumFunctionOnSet(e, (1..n) \ {i})
  BY <1>1, <1>3, ShardsAssumption, Shard!SumOfEqual
<1>9. Shard!SumFunctionOnSet(e, (1..n) \ {i}) \in Int
  <2>1. \A j \in (1..n) \ {i} : e[j] \in Int
    BY <1>4
  <2> QED BY <1>1, <2>1, ShardsAssumption, Shard!SumWithout
<1>10. Shard!SumFunctionOnSet(e, 1..n) \in Nat
  <2>1. n \in Nat /\ \A j \in 1..n : e[j] \in Nat
    BY <1>2
  <2>2. Shard!SumsTo(e, n) \in [0..n -> Nat]
    BY <2>1, ShardsAssumption, Shard!SumsOfNats
  <2>3. Shard!SumsTo(e, n)[n] = Shard!SumFunctionOnSet(e, 1..n)
    BY <1>1 DEF Shard!SumsTo
  <2> QED BY <1>1, <2>2, <2>3
<1>11. f[i] \in Nat
  OBVIOUS
<1> QED BY <1>3, <1>6, <1>7, <1>8, <1>9, <1>10, <1>11

LEMMA FunctionIsSequence ==
    ASSUME NEW S, NEW n \in Nat, NEW f \in [1..n -> S]
    PROVE  f \in Seq(S) /\ Len(f) = n
OBVIOUS

LEMMA PrefixIsSequence ==
    ASSUME NEW S, NEW s \in Seq(S), NEW n \in 0..Len(s)
    PROVE  SubSeq(s, 1, n) \in Seq(S)
OBVIOUS

\* The VUs of a ramp have all been spawned when it ends.
LEMMA LastSpawnIs ==
    ASSUME NEW slots \in Nat \ {0}, NEW ramp \in Nat, NEW given,
           given.slots = slots, given.ramp = ramp
    PROVE  Posted!LastSpawn(given) \in Nat /\ Posted!LastSpawn(given) <= ramp
<1> DEFINE perTick == IF ramp = 0 THEN slots ELSE (slots + ramp - 1) \div ramp
           x == slots + perTick - 1
           q == x \div perTick
<1>1. Posted!LastSpawn(given) = q - 1
  BY DEF Posted!LastSpawn
<1>2. perTick \in Nat \ {0} /\ (ramp # 0 => ramp * perTick >= slots)
  <2>1. CASE ramp = 0
    BY <2>1
  <2>2. CASE ramp # 0
    <3> DEFINE y == slots + ramp - 1
               r == y % ramp
               d == y \div ramp
    <3>1. y \in Nat /\ ramp \in Nat \ {0}
      BY <2>2
    <3>2. perTick = d
      BY <2>2
    <3> HIDE DEF y, perTick
    <3>3. d \in Nat /\ r \in Nat /\ r < ramp /\ y = ramp * d + r
      BY <3>1, ShardsAssumption, Shard!Division
    <3> HIDE DEF d, r
    <3>4. ramp * d \in Int
      BY <3>1, <3>3
    <3>5. ramp * d >= slots
      BY <3>1, <3>3, <3>4 DEF y
    <3>6. d # 0
      BY <3>1, <3>5
    <3> QED BY <3>2, <3>3, <3>5, <3>6
  <2> QED BY <2>1, <2>2
<1>3. ramp = 0 => perTick = slots
  OBVIOUS
<1> HIDE DEF perTick
<1>4. x \in Nat
  BY <1>2
<1> DEFINE r == x % perTick
<1> HIDE DEF x
<1>5. q \in Nat /\ r \in Nat /\ r < perTick /\ x = perTick * q + r
  BY <1>2, <1>4, ShardsAssumption, Shard!Division
<1> HIDE DEF q, r
<1>6. q >= 1
  <2>1. q = 0 => perTick * q = 0
    BY <1>2
  <2>2. x >= perTick
    BY <1>2 DEF x
  <2> QED BY <1>2, <1>4, <1>5, <2>1, <2>2
<1>7. CASE ramp = 0
  <2>1. q >= 2 => perTick * q >= perTick * 2
    BY <1>2, <1>5
  <2>2. perTick * 2 = perTick + perTick /\ perTick * q \in Int
    BY <1>2, <1>5
  <2>3. x < perTick + perTick
    BY <1>2, <1>3, <1>7 DEF x
  <2>4. ~(q >= 2)
    BY <1>2, <1>4, <1>5, <2>1, <2>2, <2>3
  <2> QED BY <1>1, <1>5, <1>6, <1>7, <2>4
<1>8. CASE ramp # 0
  <2>1. q >= ramp + 2 => perTick * q >= perTick * (ramp + 1)
    BY <1>2, <1>5
  <2>2. /\ perTick * (ramp + 1) = (ramp * perTick) + perTick
        /\ ramp * perTick \in Int /\ perTick * q \in Int
    BY <1>2, <1>5
  <2>3. x < (ramp * perTick) + perTick
    BY <1>2, <1>8, <2>2 DEF x
  <2>4. ~(q >= ramp + 2)
    BY <1>2, <1>4, <1>5, <2>1, <2>2, <2>3
  <2> QED BY <1>1, <1>5, <1>6, <2>4
<1> QED BY <1>7, <1>8

\* A rate curve is cut into curves of the same stages, and one of them has the
\* first arrivals of the whole, or earlier ones.
LEMMA CurveArrivesInTime ==
    ASSUME Posted!Admissible, profile \in Posted!Profile, Posted!Valid(profile),
           NEW counts, NEW weighted, Divided(counts, weighted),
           NEW n \in Nat, n >= Len(counts),
           ~Posted!is_vu_curve(profile), Posted!HasLoad(profile.stages)
    PROVE  \E i \in 1..Len(counts) :
             LET given == Posted!ShareOfStages(profile.stages, counts, weighted, i)
             IN  /\ Posted!HasLoad(given)
                 /\ Posted!FirstArrival(given) \in Nat
                 /\ Posted!FirstArrival(given)
                      <= Posted!leading_idle_secs(profile)
                         + Posted!curve_first_arrival_secs(profile, n)
<1> DEFINE s == profile.stages
           m == Len(counts)
           Given(i) == Posted!ShareOfStages(s, counts, weighted, i)
<1>1. s \in Posted!Stages /\ s \in Seq([target : Nat, seconds : Nat])
      /\ DOMAIN s = 1..Len(s) /\ Len(s) \in Nat
  BY DEF Posted!Profile, Posted!Stages
<1>2. \A j \in 1..Len(s) : s[j] \in [target : Nat, seconds : Nat]
  BY <1>1, ElementsOf
<1>3. /\ counts \in Seq(Nat) /\ Len(counts) > 0 /\ weighted \in BOOLEAN
      /\ \A i \in 1..Len(counts) : counts[i] > 0
  BY DEF Divided
<1>4. m \in Nat \ {0}
  BY <1>3
<1>5. PICK L \in Nat : Led(s, L)
  BY <1>1, HasLed
<1> DEFINE first == s[L + 1]
<1>6. /\ L + 1 \in 1..Len(s) /\ L \in 0..Len(s) /\ first.target \in Nat \ {0}
      /\ first.seconds \in Nat /\ \A j \in 1..L : s[j].target = 0 /\ j \in 1..Len(s)
  BY <1>1, <1>2, <1>5 DEF Led
<1>7. Posted!Leading(s) = L
  BY <1>1, <1>5, LeadingIs
<1> HIDE DEF s, m
<1>8. \A t \in Nat : /\ Shard!Shares("curve", t, counts, weighted) \in [1..m -> Nat]
                     /\ Shard!SumFunctionOnSet(Shard!Shares("curve", t, counts, weighted), 1..m) = t
  <2> TAKE t \in Nat
  <2>1. /\ Shard!Shares("curve", t, counts, weighted) \in [1..m -> Nat]
        /\ Shard!Sum(Shard!Shares("curve", t, counts, weighted)) = t
    BY <1>3, ShardsAssumption, Shard!SharesAddUp DEF m
  <2> QED BY <2>1 DEF Shard!Sum
<1> HIDE DEF first
<1>9. PICK i \in 1..m : Shard!Shares("curve", first.target, counts, weighted)[i] * m >= first.target
  BY <1>4, <1>6, <1>8, Busiest
<1> DEFINE share == Shard!Shares("curve", first.target, counts, weighted)[i]
           given == Given(i)
<1>10. share \in Nat /\ share > 0 /\ share * n >= first.target /\ n \in Nat \ {0}
  <2>1. share \in Nat
    BY <1>6, <1>8
  <2>2. share * m >= first.target
    BY <1>9
  <2> HIDE DEF share
  <2>3. share # 0
    <3>1. share = 0 => share * m = 0
      BY <1>4
    <3> QED BY <1>6, <2>2, <3>1
  <2>4. n >= m
    BY DEF m
  <2>5. share * n >= share * m /\ share * n \in Int /\ share * m \in Int
    BY <1>4, <2>1, <2>4
  <2> QED BY <1>4, <1>6, <2>1, <2>2, <2>3, <2>4, <2>5
<1>11. /\ DOMAIN given = 1..Len(s)
       /\ \A j \in 1..Len(s) :
            /\ given[j].seconds = s[j].seconds
            /\ given[j].target = Shard!Shares("curve", s[j].target, counts, weighted)[i]
  <2>1. \A j \in 1..Len(s) :
          given[j] = [s[j] EXCEPT !.target = Posted!Shares("curve", s[j].target, counts, weighted)[i]]
    BY <1>1 DEF Posted!ShareOfStages
  <2>2. DOMAIN given = 1..Len(s)
    BY <1>1 DEF Posted!ShareOfStages
  <2> HIDE DEF given
  <2> QED BY <1>2, <2>1, <2>2, SameShares
<1>12. given \in Posted!Stages /\ Len(given) = Len(s)
  <2>1. \A j \in 1..Len(s) : given[j] \in [target : Nat, seconds : Nat]
    <3> TAKE j \in 1..Len(s)
    <3>1. given[j] = [s[j] EXCEPT !.target = Posted!Shares("curve", s[j].target, counts, weighted)[i]]
      BY <1>1 DEF Posted!ShareOfStages
    <3>2. s[j] \in [target : Nat, seconds : Nat]
      BY <1>2
    <3>3. Posted!Shares("curve", s[j].target, counts, weighted)[i] \in Nat
      BY <1>8, <3>2, SameShares
    <3> HIDE DEF given
    <3> QED BY <3>1, <3>2, <3>3
  <2>2. given = [j \in 1..Len(s) |-> given[j]]
    BY <1>1 DEF Posted!ShareOfStages
  <2> HIDE DEF given
  <2>3. given \in [1..Len(s) -> [target : Nat, seconds : Nat]]
    BY <2>1, <2>2
  <2> QED BY <1>1, <2>3, FunctionIsSequence DEF Posted!Stages
<1> HIDE DEF given, share
<1>13. given[L + 1].target = share /\ given[L + 1].seconds = first.seconds
  BY <1>6, <1>11 DEF share, first
<1>14. Led(given, L)
  <2>1. ASSUME NEW j \in 1..L PROVE given[j].target = 0
    <3> DEFINE S == Shard!Shares("curve", 0, counts, weighted)
    <3>1. given[j].target = S[i]
      BY <1>6, <1>11
    <3>2. S \in [1..m -> Nat] /\ Shard!SumFunctionOnSet(S, 1..m) = 0
      BY <1>8
    <3> HIDE DEF S
    <3>3. S[i] = 0
      BY <1>4, <3>2, NoneOfNothing
    <3> QED BY <3>1, <3>3
  <2> QED BY <1>6, <1>10, <1>12, <1>13, <2>1 DEF Led
<1>15. Posted!Leading(given) = L /\ Posted!HasLoad(given)
  BY <1>12, <1>14, LeadingIs
<1> DEFINE idle == Posted!Length(SubSeq(s, 1, L))
           k == Posted!CeilSqrt(first.seconds, share, first.seconds)
           h == Posted!CeilSqrt(n * first.seconds, first.target, first.seconds)
<1>16. Posted!FirstArrival(given) = idle + k
  <2>1. Posted!Length(SubSeq(given, 1, L)) = idle
    BY <1>1, <1>6, <1>11, <1>12, SameLength
  <2> QED BY <1>13, <1>15, <2>1 DEF Posted!FirstArrival
<1>17. Posted!leading_idle_secs(profile) = idle
  BY <1>7 DEF Posted!leading_idle_secs, s
<1>18. Posted!curve_first_arrival_secs(profile, n) = h
  BY <1>7 DEF Posted!curve_first_arrival_secs, s, first
<1>19. idle \in Nat
  <2>1. SubSeq(s, 1, L) \in Posted!Stages
    BY <1>1, <1>6, PrefixIsSequence DEF Posted!Stages
  <2> QED BY <2>1, LengthIs
<1>20. k \in Nat /\ h \in Nat /\ k <= h
  BY <1>6, <1>10, BusiestArrives
<1> HIDE DEF idle, k, h
<1> QED BY <1>15, <1>16, <1>17, <1>18, <1>19, <1>20 DEF given, Given, m, s

\* The plans a launch gives, but for the shares.
LEMMA GivenPlans ==
    ASSUME NEW counts \in Seq(Nat), NEW weighted, NEW n, Posted!Launches(counts, weighted, n)
    PROVE  /\ profile' = profile /\ answer' = "launched"
           /\ grace' = Posted!startup_grace_eff(profile, n)
           /\ backstop' = Posted!run_duration_secs(profile) + BackstopGrace
           /\ DOMAIN plans' = 1..Len(counts)
           /\ \A i \in 1..Len(counts) :
                /\ plans'[i].slots = counts[i]
                /\ plans'[i].ramp = profile.ramp /\ plans'[i].timeout = profile.timeout
                /\ plans'[i].duration = Posted!run_duration_secs(profile)
                /\ profile.rps = -1 => plans'[i].rps = -1
                /\ plans'[i].stages
                     = Posted!ShareOfStages(profile.vuStages \o profile.stages, counts, weighted, i)
                /\ Posted!is_vu_curve(profile) => plans'[i].engine = "vuCurve"
                /\ Posted!is_open_loop(profile) /\ ~Posted!is_vu_curve(profile) =>
                     plans'[i].engine = "open"
                /\ ~Posted!is_open_loop(profile) /\ ~Posted!is_vu_curve(profile) =>
                     plans'[i].engine = "closed"
<1>1. /\ profile' = profile /\ answer' = "launched"
      /\ grace' = Posted!startup_grace_eff(profile, n)
      /\ backstop' = Posted!run_duration_secs(profile) + BackstopGrace
      /\ plans' = [i \in 1..Len(counts) |-> Posted!PlanOf(profile, counts, weighted, i)]
  BY DEF Posted!Launches
<1>2. ASSUME NEW i \in 1..Len(counts)
      PROVE  /\ plans'[i].slots = counts[i]
             /\ plans'[i].ramp = profile.ramp /\ plans'[i].timeout = profile.timeout
             /\ plans'[i].duration = Posted!run_duration_secs(profile)
             /\ profile.rps = -1 => plans'[i].rps = -1
             /\ plans'[i].stages
                  = Posted!ShareOfStages(profile.vuStages \o profile.stages, counts, weighted, i)
             /\ Posted!is_vu_curve(profile) => plans'[i].engine = "vuCurve"
             /\ Posted!is_open_loop(profile) /\ ~Posted!is_vu_curve(profile) =>
                  plans'[i].engine = "open"
             /\ ~Posted!is_open_loop(profile) /\ ~Posted!is_vu_curve(profile) =>
                  plans'[i].engine = "closed"
  <2>1. plans'[i] = Posted!PlanOf(profile, counts, weighted, i)
    BY <1>1
  <2>2. /\ plans'[i].slots = counts[i]
        /\ plans'[i].ramp = profile.ramp /\ plans'[i].timeout = profile.timeout
        /\ plans'[i].duration = Posted!run_duration_secs(profile)
        /\ profile.rps = -1 => plans'[i].rps = -1
        /\ plans'[i].stages
             = Posted!ShareOfStages(profile.vuStages \o profile.stages, counts, weighted, i)
    BY <2>1 DEF Posted!PlanOf, Posted!None
  <2>3. plans'[i].engine =
          CASE Posted!is_vu_curve(profile) -> "vuCurve"
            [] ~Posted!is_vu_curve(profile) /\ Posted!is_open_loop(profile) -> "open"
            [] ~Posted!is_vu_curve(profile) /\ ~Posted!is_open_loop(profile) -> "closed"
    BY <2>1 DEF Posted!PlanOf
  <2>4. /\ Posted!is_vu_curve(profile) => plans'[i].engine = "vuCurve"
        /\ Posted!is_open_loop(profile) /\ ~Posted!is_vu_curve(profile) =>
             plans'[i].engine = "open"
        /\ ~Posted!is_open_loop(profile) /\ ~Posted!is_vu_curve(profile) =>
             plans'[i].engine = "closed"
    BY <2>3
  <2> QED BY <2>2, <2>4
<1> QED BY <1>1, <1>2

LEMMA TimesOfAProfile ==
    ASSUME Posted!Admissible, NEW p \in Posted!Profile, Posted!Valid(p), NEW n \in Nat
    PROVE  /\ p.timeout \in Nat /\ p.ramp \in Nat /\ p.duration \in Nat
           /\ Posted!run_duration_secs(p) \in Nat
           /\ Posted!leading_idle_secs(p) \in Nat
           /\ Posted!curve_first_arrival_secs(p, n) \in Nat
           /\ Posted!startup_grace_eff(p, n) \in Nat
           /\ Posted!startup_grace_eff(p, n)
                >= p.timeout + Margin + Posted!leading_idle_secs(p)
                   + Posted!curve_first_arrival_secs(p, n)
           /\ Posted!startup_grace_eff(p, n) >= StartupFloor
<1>1. /\ p.timeout \in Nat /\ p.ramp \in Nat /\ p.duration \in Nat
      /\ p.stages \in Posted!Stages /\ p.vuStages \in Posted!Stages
  BY DEF Posted!Profile
<1>2. Posted!run_duration_secs(p) \in Nat
  <2>1. Posted!Length(p.stages) \in Nat /\ Posted!Length(p.vuStages) \in Nat
    BY <1>1, LengthIs
  <2> QED BY <1>1, <2>1 DEF Posted!run_duration_secs
<1>3. Posted!leading_idle_secs(p) \in Nat
  <2> DEFINE s == IF Posted!is_vu_curve(p) THEN p.vuStages ELSE p.stages
  <2>1. s \in Posted!Stages
    BY <1>1
  <2>2. Posted!leading_idle_secs(p) = Posted!Length(SubSeq(s, 1, Posted!Leading(s)))
    BY DEF Posted!leading_idle_secs
  <2> HIDE DEF s
  <2>3. s \in Seq([target : Nat, seconds : Nat]) /\ Len(s) \in Nat
    BY <2>1 DEF Posted!Stages
  <2>4. Posted!Leading(s) \in 0..Len(s)
    <3>1. CASE Posted!HasLoad(s)
      <4>1. PICK L \in Nat : Led(s, L)
        BY <2>1, <3>1, HasLed
      <4>2. Posted!Leading(s) = L
        BY <2>1, <4>1, LeadingIs
      <4> QED BY <2>3, <4>1, <4>2 DEF Led
    <3>2. CASE ~Posted!HasLoad(s)
      BY <2>3, <3>2 DEF Posted!Leading
    <3> QED BY <3>1, <3>2
  <2>5. SubSeq(s, 1, Posted!Leading(s)) \in Posted!Stages
    BY <2>3, <2>4, PrefixIsSequence DEF Posted!Stages
  <2> QED BY <2>2, <2>5, LengthIs
<1>4. Posted!curve_first_arrival_secs(p, n) \in Nat
  <2>1. CASE Posted!is_vu_curve(p) \/ ~Posted!HasLoad(p.stages)
    BY <2>1 DEF Posted!curve_first_arrival_secs
  <2>2. CASE ~(Posted!is_vu_curve(p) \/ ~Posted!HasLoad(p.stages))
    <3>1. PICK L \in Nat : Led(p.stages, L)
      BY <1>1, <2>2, HasLed
    <3>2. Posted!Leading(p.stages) = L
      BY <1>1, <3>1, LeadingIs
    <3> DEFINE first == p.stages[L + 1]
    <3>3. first \in [target : Nat, seconds : Nat]
      BY <1>1, <3>1, ElementsOf DEF Posted!Stages, Led
    <3>4. Posted!curve_first_arrival_secs(p, n)
            = Posted!CeilSqrt(n * first.seconds, first.target, first.seconds)
      BY <2>2, <3>2 DEF Posted!curve_first_arrival_secs
    <3> HIDE DEF first
    <3>5. n * first.seconds \in Nat /\ first.target \in Nat /\ first.seconds \in Nat
      BY <3>3
    <3>6. \A m \in Nat, t \in Nat, b \in Nat : Posted!CeilSqrt(m, t, b) \in 0..b
      BY CeilSqrtIs
    <3>7. Posted!CeilSqrt(n * first.seconds, first.target, first.seconds) \in 0..first.seconds
      BY <3>5, <3>6
    <3> QED BY <3>4, <3>5, <3>7
  <2> QED BY <2>1, <2>2
<1>5. StartupFloor \in Nat /\ Margin \in Nat
  BY DEF Posted!Admissible
<1> DEFINE floor == Posted!Greater(StartupFloor, p.timeout + Margin)
<1>6. floor \in Nat /\ floor >= StartupFloor /\ floor >= p.timeout + Margin
  BY <1>1, <1>5 DEF Posted!Greater
<1>7. Posted!startup_grace_eff(p, n)
        = floor + Posted!leading_idle_secs(p) + Posted!curve_first_arrival_secs(p, n)
  BY DEF Posted!startup_grace_eff
<1> HIDE DEF floor
<1> QED BY <1>1, <1>2, <1>3, <1>4, <1>5, <1>6, <1>7

\* One of the workers of a launch shows load within the grace.
LEMMA LoadIsInTime ==
    ASSUME Posted!Admissible, profile \in Posted!Profile, Posted!Valid(profile),
           NEW counts, NEW weighted, Divided(counts, weighted),
           NEW n \in Nat, n >= Len(counts), Posted!Launches(counts, weighted, n),
           profile.ramp + FlushDelay <= StartupFloor
    PROVE  \E i \in 1..Len(counts) :
             Posted!ShowsLoad(plans'[i]) /\ Posted!FirstLoad(plans'[i]) <= grace'
<1> DEFINE p == profile
<1>1. /\ counts \in Seq(Nat) /\ Len(counts) > 0 /\ weighted \in BOOLEAN
      /\ \A i \in 1..Len(counts) : counts[i] > 0
  BY DEF Divided
<1>2. /\ grace' = Posted!startup_grace_eff(p, n)
      /\ \A i \in 1..Len(counts) :
           /\ plans'[i].slots = counts[i]
           /\ plans'[i].ramp = p.ramp /\ plans'[i].timeout = p.timeout
           /\ p.rps = -1 => plans'[i].rps = -1
           /\ plans'[i].stages = Posted!ShareOfStages(p.vuStages \o p.stages, counts, weighted, i)
           /\ Posted!is_vu_curve(p) => plans'[i].engine = "vuCurve"
           /\ Posted!is_open_loop(p) /\ ~Posted!is_vu_curve(p) => plans'[i].engine = "open"
           /\ ~Posted!is_open_loop(p) /\ ~Posted!is_vu_curve(p) => plans'[i].engine = "closed"
  BY <1>1, GivenPlans
<1>3. /\ p.timeout \in Nat /\ p.ramp \in Nat
      /\ Posted!leading_idle_secs(p) \in Nat /\ Posted!curve_first_arrival_secs(p, n) \in Nat
      /\ grace' \in Nat /\ grace' >= StartupFloor
      /\ grace' >= p.timeout + Margin + Posted!leading_idle_secs(p)
                   + Posted!curve_first_arrival_secs(p, n)
  BY <1>2, TimesOfAProfile
<1>4. FlushDelay \in Nat /\ FlushDelay <= Margin /\ Margin \in Nat /\ StartupFloor \in Nat
  BY DEF Posted!Admissible
<1>5. 1 \in 1..Len(counts) /\ counts[1] \in Nat \ {0}
  BY <1>1
<1>6. p.rps # -1 => p.rps \in Nat \ {0} /\ ~Posted!is_vu_curve(p)
  BY ValidProfile
<1>7. CASE Posted!is_vu_curve(p)
  <2>1. plans'[1].engine = "vuCurve"
    BY <1>2, <1>5, <1>7
  <2>2. Posted!ShowsLoad(plans'[1]) /\ Posted!FirstLoad(plans'[1]) = FlushDelay + 0
    BY <2>1 DEF Posted!ShowsLoad, Posted!FirstLoad
  <2>3. Posted!FirstLoad(plans'[1]) <= grace'
    BY <1>3, <1>4, <2>2
  <2> QED BY <1>5, <2>2, <2>3
<1>8. CASE ~Posted!is_vu_curve(p) /\ ~Posted!is_open_loop(p)
  <2>1. plans'[1].engine = "closed" /\ plans'[1].slots = counts[1]
        /\ plans'[1].ramp = p.ramp /\ plans'[1].timeout = p.timeout
    BY <1>2, <1>5, <1>8
  <2> DEFINE last == Posted!LastSpawn(plans'[1])
  <2>2. last \in Nat /\ last <= p.ramp
    BY <1>3, <1>5, <2>1, LastSpawnIs
  <2>3. /\ Posted!ShowsLoad(plans'[1])
        /\ Posted!FirstLoad(plans'[1]) = FlushDelay + Posted!Greater(last, p.timeout)
    BY <2>1 DEF Posted!ShowsLoad, Posted!FirstLoad
  <2> HIDE DEF last
  <2>4. Posted!Greater(last, p.timeout) = last \/ Posted!Greater(last, p.timeout) = p.timeout
    BY DEF Posted!Greater
  <2>5. Posted!FirstLoad(plans'[1]) <= grace'
    <3>1. CASE Posted!Greater(last, p.timeout) = last
      <4>1. /\ last \in Int /\ p.ramp \in Int /\ last <= p.ramp /\ p.ramp + FlushDelay <= StartupFloor
            /\ FlushDelay \in Int /\ StartupFloor \in Int /\ grace' \in Int /\ StartupFloor <= grace'
        BY <1>3, <1>4, <2>2
      <4>2. FlushDelay + last <= grace'
        BY ONLY <4>1
      <4> QED BY <2>3, <3>1, <4>2
    <3>2. CASE Posted!Greater(last, p.timeout) = p.timeout
      BY <1>3, <1>4, <2>3, <3>2
    <3> QED BY <2>4, <3>1, <3>2
  <2> QED BY <1>5, <2>3, <2>5
<1>9. CASE ~Posted!is_vu_curve(p) /\ Posted!is_open_loop(p) /\ p.rps # -1
  <2>1. plans'[1].engine = "open" /\ plans'[1].timeout = p.timeout
    BY <1>2, <1>5, <1>9
  <2>2. plans'[1].rps # -1
    <3>1. plans'[1] = Posted!PlanOf(p, counts, weighted, 1)
      BY <1>1, <1>5 DEF Posted!Launches
    <3>2. plans'[1].rps = Posted!Shares("fixed", p.rps, counts, weighted)[1]
      BY <1>9, <3>1 DEF Posted!PlanOf, Posted!None
    <3>3. Posted!Shares("fixed", p.rps, counts, weighted)
            = Shard!Shares("fixed", p.rps, counts, weighted)
      BY SameShares
    <3>4. Shard!Shares("fixed", p.rps, counts, weighted) \in [1..Len(counts) -> Nat]
      BY <1>1, <1>6, <1>9, ShardsAssumption, Shard!SharesAddUp
    <3>5. plans'[1].rps \in Nat
      BY <1>5, <3>2, <3>3, <3>4
    <3> QED BY <3>5
  <2>3. Posted!ShowsLoad(plans'[1]) /\ Posted!FirstLoad(plans'[1]) = FlushDelay + p.timeout
    BY <2>1, <2>2 DEF Posted!ShowsLoad, Posted!FirstLoad, Posted!None
  <2>4. Posted!FirstLoad(plans'[1]) <= grace'
    BY <1>3, <1>4, <2>3
  <2> QED BY <1>5, <2>3, <2>4
<1>10. CASE ~Posted!is_vu_curve(p) /\ Posted!is_open_loop(p) /\ p.rps = -1
  <2>1. Posted!HasLoad(p.stages) /\ p.vuStages = <<>>
    <3>1. Posted!OpenLoopRules(p) /\ p.stages # <<>>
      BY <1>10 DEF Posted!Valid, Posted!is_open_loop, Posted!None
    <3> QED BY ONLY <1>10, <3>1, SMTT(30) DEF Posted!OpenLoopRules, Posted!is_vu_curve
  <2>2. PICK i \in 1..Len(counts) :
          LET given == Posted!ShareOfStages(p.stages, counts, weighted, i)
          IN  /\ Posted!HasLoad(given)
              /\ Posted!FirstArrival(given) \in Nat
              /\ Posted!FirstArrival(given)
                   <= Posted!leading_idle_secs(p) + Posted!curve_first_arrival_secs(p, n)
    BY <1>10, <2>1, CurveArrivesInTime
  <2>3. p.vuStages \o p.stages = p.stages
    <3>1. p.stages \in Seq([target : Nat, seconds : Nat])
      BY DEF Posted!Profile, Posted!Stages
    <3> QED BY <2>1, <3>1
  <2>4. /\ plans'[i].engine = "open" /\ plans'[i].timeout = p.timeout /\ plans'[i].rps = -1
        /\ plans'[i].stages = Posted!ShareOfStages(p.stages, counts, weighted, i)
    BY <1>2, <1>10, <2>3
  <2> DEFINE first == Posted!FirstArrival(plans'[i].stages)
  <2>5. /\ Posted!HasLoad(plans'[i].stages) /\ first \in Nat
        /\ first <= Posted!leading_idle_secs(p) + Posted!curve_first_arrival_secs(p, n)
    BY <2>2, <2>4
  <2>6. /\ Posted!ShowsLoad(plans'[i])
        /\ Posted!FirstLoad(plans'[i]) = FlushDelay + (first + p.timeout)
    BY <2>4, <2>5 DEF Posted!ShowsLoad, Posted!FirstLoad, Posted!None
  <2> HIDE DEF first
  <2>7. Posted!FirstLoad(plans'[i]) <= grace'
    <3> DEFINE idle  == Posted!leading_idle_secs(p)
               curve == Posted!curve_first_arrival_secs(p, n)
               time  == p.timeout
               last  == grace'
    <3>1. /\ idle \in Nat /\ curve \in Nat /\ first <= idle + curve
          /\ grace' \in Nat /\ grace' >= p.timeout + Margin + idle + curve
      BY <1>3, <2>5
    <3>2. /\ time \in Int /\ first \in Int /\ last \in Int /\ last >= time + Margin + idle + curve
          /\ FlushDelay \in Int /\ Margin \in Int /\ FlushDelay <= Margin
      BY <1>3, <1>4, <2>5, <3>1
    <3> HIDE DEF idle, curve, time, last
    <3>3. FlushDelay + (first + time) <= last
      BY ONLY <3>1, <3>2
    <3> QED BY <2>6, <3>3 DEF time, last
  <2> QED BY <2>6, <2>7
<1> QED BY <1>7, <1>8, <1>9, <1>10

\* All workers of a launch are done within the backstop.
LEMMA EnginesEndInTime ==
    ASSUME Posted!Admissible, profile \in Posted!Profile, Posted!Valid(profile),
           NEW counts, NEW weighted, Divided(counts, weighted),
           NEW n \in Nat, Posted!Launches(counts, weighted, n),
           profile.ramp <= profile.duration, profile.timeout <= BackstopGrace,
           NEW i \in 1..Len(counts)
    PROVE  Posted!EngineEnd(plans'[i]) <= backstop'
<1> DEFINE p == profile
           given == plans'[i]
           duration == Posted!run_duration_secs(p)
<1>1. /\ counts \in Seq(Nat) /\ counts[i] \in Nat \ {0}
  BY DEF Divided
<1>2. /\ backstop' = duration + BackstopGrace
      /\ given.slots = counts[i] /\ given.ramp = p.ramp /\ given.timeout = p.timeout
      /\ given.duration = duration
      /\ Posted!is_vu_curve(p) => given.engine = "vuCurve"
      /\ Posted!is_open_loop(p) /\ ~Posted!is_vu_curve(p) => given.engine = "open"
      /\ ~Posted!is_open_loop(p) /\ ~Posted!is_vu_curve(p) => given.engine = "closed"
  BY <1>1, GivenPlans
<1>3. p.timeout \in Nat /\ p.ramp \in Nat /\ p.duration \in Nat /\ duration \in Nat
  BY TimesOfAProfile
<1>4. BackstopGrace \in Nat
  BY DEF Posted!Admissible
<1>5. CASE ~Posted!is_open_loop(p) /\ ~Posted!is_vu_curve(p)
  <2>1. duration = p.duration
    BY <1>5 DEF Posted!run_duration_secs, Posted!is_open_loop
  <2> DEFINE last == Posted!LastSpawn(given)
  <2>2. last \in Nat /\ last <= p.ramp
    BY <1>1, <1>2, <1>3, LastSpawnIs
  <2>3. Posted!EngineEnd(given) = p.timeout + Posted!Greater(last, duration)
    BY <1>2, <1>5 DEF Posted!EngineEnd
  <2> HIDE DEF last, given, duration
  <2>4. Posted!Greater(last, duration) = duration
    BY <1>3, <2>1, <2>2 DEF Posted!Greater
  <2> QED BY <1>2, <1>3, <1>4, <2>3, <2>4 DEF given
<1>6. CASE Posted!is_open_loop(p) \/ Posted!is_vu_curve(p)
  <2>1. Posted!EngineEnd(given) = p.timeout + duration
    BY <1>2, <1>6 DEF Posted!EngineEnd
  <2> HIDE DEF given, duration
  <2> QED BY <1>2, <1>3, <1>4, <2>1 DEF given
<1> QED BY <1>5, <1>6

LEMMA LaunchSparesTheRun ==
    ASSUME Posted!Admissible, profile \in Posted!Profile, Posted!Valid(profile),
           NEW counts, NEW weighted, Divided(counts, weighted),
           NEW n \in Nat, n >= Len(counts), Posted!Launches(counts, weighted, n)
    PROVE  WatchdogSparesTheRun'
<1>1. counts \in Seq(Nat)
  BY DEF Divided
<1>2. profile' = profile /\ DOMAIN plans' = 1..Len(counts)
  BY <1>1, GivenPlans
<1>3. profile.ramp + FlushDelay <= StartupFloor =>
        \E i \in DOMAIN plans' : Posted!ShowsLoad(plans'[i]) /\ Posted!FirstLoad(plans'[i]) <= grace'
  BY <1>2, LoadIsInTime
<1>4. profile.ramp <= profile.duration /\ profile.timeout <= BackstopGrace =>
        \A i \in DOMAIN plans' : Posted!EngineEnd(plans'[i]) <= backstop'
  BY <1>2, EnginesEndInTime
<1> QED BY <1>2, <1>3, <1>4 DEF WatchdogSparesTheRun, Posted!WatchdogSparesTheRun, Posted!LoadInTime

\* Only what was found valid is launched.
PostedInv ==
    /\ profile \in Posted!Profile
    /\ answer \in {"posted", "refused", "accepted", "launched"}
    /\ answer = "accepted" => Posted!Valid(profile)

\* A launch is one of a valid profile, of which the slots are divided.
LEMMA LaunchDivides ==
    ASSUME Posted!Admissible, PostedInv, answer = "accepted", Posted!FanOut \/ Posted!PoolLaunch
    PROVE  /\ PostedInv'
           /\ \E counts, weighted, n : /\ Divided(counts, weighted)
                                      /\ n \in Nat /\ n >= Len(counts)
                                      /\ Posted!Launches(counts, weighted, n)
<1>1. profile \in Posted!Profile /\ Posted!Valid(profile)
  BY DEF PostedInv
<1>2. profile' = profile /\ answer' = "launched"
  BY DEF Posted!FanOut, Posted!PoolLaunch, Posted!Launches
<1> QED BY <1>1, <1>2, FanOutDivides, PoolLaunchDivides DEF PostedInv

\* Before the launch there is nothing to be spared or added up.
LEMMA ValidationKeepsIt ==
    ASSUME PostedInv, Posted!Validate
    PROVE  PostedInv' /\ LoadIsAsPosted' /\ WatchdogSparesTheRun'
<1>1. /\ profile' = profile
      /\ answer' = IF Posted!Valid(profile) THEN "accepted" ELSE "refused"
  BY DEF Posted!Validate
<1>2. Posted!Valid(profile)' <=> Posted!Valid(profile)
  BY <1>1
<1> QED BY <1>1, <1>2 DEF PostedInv, LoadIsAsPosted, Posted!LoadIsAsPosted,
                          WatchdogSparesTheRun, Posted!WatchdogSparesTheRun

LEMMA PostedNextKeepsIt ==
    ASSUME Posted!Admissible, PostedInv, LoadIsAsPosted, WatchdogSparesTheRun,
           [Posted!Next]_(Posted!vars)
    PROVE  PostedInv' /\ LoadIsAsPosted' /\ WatchdogSparesTheRun'
<1>1. CASE Posted!Validate
  BY <1>1, ValidationKeepsIt
<1>2. CASE answer = "accepted" /\ (Posted!FanOut \/ Posted!PoolLaunch)
  <2>1. PostedInv'
    BY <1>2, LaunchDivides
  <2>2. PICK counts, weighted, n : /\ Divided(counts, weighted)
                                   /\ n \in Nat /\ n >= Len(counts)
                                   /\ Posted!Launches(counts, weighted, n)
    BY <1>2, LaunchDivides
  <2>3. profile \in Posted!Profile /\ Posted!Valid(profile)
    BY <1>2 DEF PostedInv
  <2>4. LoadIsAsPosted'
    BY <2>2, <2>3, DividedIsAsPosted
  <2>5. WatchdogSparesTheRun'
    BY <2>2, <2>3, LaunchSparesTheRun
  <2> QED BY <2>1, <2>4, <2>5
<1>3. CASE UNCHANGED Posted!vars
  <2>1. /\ profile' = profile /\ answer' = answer /\ plans' = plans
        /\ grace' = grace /\ backstop' = backstop
    BY <1>3 DEF Posted!vars
  <2>2. LoadIsAsPosted' <=> LoadIsAsPosted
    BY <2>1 DEF LoadIsAsPosted, Posted!LoadIsAsPosted, Posted!concurrency_demand
  <2>3. WatchdogSparesTheRun' <=> WatchdogSparesTheRun
    BY <2>1 DEF WatchdogSparesTheRun, Posted!WatchdogSparesTheRun, Posted!LoadInTime
  <2>4. Posted!Valid(profile)' <=> Posted!Valid(profile)
    BY <2>1
  <2> QED BY <2>1, <2>2, <2>3, <2>4 DEF PostedInv
<1> QED BY <1>1, <1>2, <1>3 DEF Posted!Next

\* The behaviours of the whole, as far as the launches go.
LEMMA PostedThroughout == MCSpec => [](LoadIsAsPosted /\ WatchdogSparesTheRun)
<1>1. MCInit => PostedInv /\ LoadIsAsPosted /\ WatchdogSparesTheRun
  BY ProfileAssumption
     DEF MCInit, Posted!Init, Posted!Admissible, PostedInv, LoadIsAsPosted, Posted!LoadIsAsPosted,
         WatchdogSparesTheRun, Posted!WatchdogSparesTheRun
<1>2. [MCNext]_allVars => [Posted!Next]_(Posted!vars)
  BY DEF MCNext, PoolNext, ShardNext, PostedNext, SettingsNext, CatalogNext, allVars, requestVars,
         postedVars, Posted!vars
<1>3. PostedInv /\ LoadIsAsPosted /\ WatchdogSparesTheRun /\ [MCNext]_allVars =>
        PostedInv' /\ LoadIsAsPosted' /\ WatchdogSparesTheRun'
  BY <1>2, ProfileAssumption, PostedNextKeepsIt
<1> QED BY <1>1, <1>3, PTL DEF MCSpec

\* What was posted is what runs, whatever the profile, however many workers
\* share it and however their capacities divide it: everyone has a slot, the
\* shares of the slots, of a fixed rate and of every stage add up, and no VU
\* curve asks a worker for more than its slots (reduce_pool_profile).
THEOREM LoadArrivesAsPosted == MCSpec => []LoadIsAsPosted
BY PostedThroughout, PTL

\* The watchdog fails no run whose workers do as they are told, whatever the
\* profile and its division, but for the ramps and timeouts excepted: the claim
\* of curve_first_arrival_secs that the busiest worker's share of the first
\* stage is at least the average, so that its first arrival is within the grace
\* reckoned with as many workers; and of run_watchdog's backstop.
THEOREM WatchdogSparesEveryRun == MCSpec => []WatchdogSparesTheRun
BY PostedThroughout, PTL

----------------------------------------------------------------------------
(***************************************************************************)
(* What reads and then writes the catalogue: Catalog.                      *)
(***************************************************************************)
RefKinds == {"run", "preset", "schedule"}
Fields   == {"kind", "at", "id", "force", "base", "seen", "counted", "since", "gone", "plan"}

\* References are to scenarios there are, and no younger than the database.
Referred ==
    /\ DOMAIN db = {"scenarios", "environments", "boards", "refs"}
    /\ commits \in Nat
    /\ lock \in Clients \cup {Rows!Nobody}
    /\ \A ref \in db.refs :
         /\ DOMAIN ref = {"by", "scenario", "active", "kind", "since"}
         /\ ref.active \in BOOLEAN
         /\ ref.kind \in RefKinds
         /\ ref.since \in Nat
         /\ ref.scenario \in DOMAIN db.scenarios

Asked ==
    /\ DOMAIN request = Clients
    /\ \A c \in Clients :
         /\ DOMAIN request[c] = Fields
         /\ request[c].kind \in Rows!Kinds \cup {"none"}
         /\ request[c].base \in Nat /\ request[c].since \in Nat

\* The kinds of reference a deletion has counted.
CountedAt(at) ==
    IF at = "presets" THEN {"run"}
    ELSE IF at = "schedules" THEN {"run", "preset"}
    ELSE RefKinds

\* If a deletion counted none, what refers to its scenario is younger than the
\* count: each count was of all there was.  What its transaction read stands
\* until the next commit.
Deleting(c) ==
    /\ request[c].at # "deleted" => request[c].gone = {}
    /\ request[c].kind = "delete" /\ request[c].at \in {"presets", "schedules", "exists", "write"} =>
         /\ request[c].since <= commits
         /\ request[c].counted = {} =>
              \A ref \in db.refs :
                ref.scenario = request[c].id /\ ref.kind \in CountedAt(request[c].at) =>
                  ref.since > request[c].since
    /\ request[c].kind = "delete" /\ request[c].at = "write" =>
         /\ request[c].force \/ request[c].counted = {}
         /\ request[c].base <= commits
         /\ request[c].base = commits =>
              \A ref \in db.refs : ref.scenario = request[c].id => ~ref.active
    /\ \A ref \in request[c].gone :
         ~ref.active /\ (~request[c].force => ref.since > request[c].since)

\* What a step does to the references, whichever handler it is in: they are
\* those there were, of which a run may have ended, and new ones.
RefsFollow ==
    \A ref \in db.refs' :
      \/ ref.since = commits + 1 /\ commits' = commits + 1
      \/ \E old \in db.refs :
           /\ old.scenario = ref.scenario /\ old.kind = ref.kind /\ old.since = ref.since
           /\ ref.active => old.active

----------------------------------------------------------------------------
\* A step of one client leaves the others' requests as they are, and of its own
\* but what is named.
Alone(c) == \A d \in Clients \ {c} : request'[d] = request[d]

But(c, names) ==
    /\ Asked'
    /\ Alone(c)
    /\ \A name \in Fields \ names : request'[c][name] = request[c][name]

LEMMA Moving ==
    ASSUME Asked, NEW c \in Clients, NEW at, Rows!Move(c, at)
    PROVE  But(c, {"at"}) /\ request'[c].at = at
<1>1. request' = [request EXCEPT ![c].at = at]
  BY DEF Rows!Move
<1>2. /\ DOMAIN request' = Clients /\ Alone(c)
      /\ request'[c] = [request[c] EXCEPT !.at = at]
  BY <1>1 DEF Asked, Alone
<1>3. /\ DOMAIN request'[c] = Fields /\ request'[c].at = at
      /\ \A name \in Fields \ {"at"} : request'[c][name] = request[c][name]
  BY <1>2 DEF Asked, Fields
<1>4. /\ request'[c].kind = request[c].kind /\ request'[c].base = request[c].base
      /\ request'[c].since = request[c].since
  BY <1>3 DEF Fields
<1>5. Asked'
  BY <1>2, <1>3, <1>4 DEF Asked, Alone
<1> QED BY <1>2, <1>3, <1>5 DEF But

\* A request is new.
LEMMA Asking ==
    ASSUME Rows!Admissible, Asked, NEW c \in Clients, Rows!Ask(c)
    PROVE  /\ Asked' /\ Alone(c)
           /\ request'[c].at = "begin" /\ request'[c].gone = {} /\ request'[c].seen.version = 0
           /\ UNCHANGED <<db, commits, lock, file>>
<1>1. PICK kind \in Asks[c] : \E id \in Rows!Ids, force \in BOOLEAN :
        request' = [request EXCEPT ![c] = [Rows!Fresh EXCEPT
                     !.kind = kind, !.at = "begin", !.id = id, !.force = force]]
  BY DEF Rows!Ask
<1>2. PICK id \in Rows!Ids, force \in BOOLEAN :
        request' = [request EXCEPT ![c] = [Rows!Fresh EXCEPT
                     !.kind = kind, !.at = "begin", !.id = id, !.force = force]]
  BY <1>1
<1>3. /\ DOMAIN request' = Clients /\ Alone(c)
      /\ request'[c] = [Rows!Fresh EXCEPT
                         !.kind = kind, !.at = "begin", !.id = id, !.force = force]
  BY <1>2 DEF Asked, Alone
<1>4. /\ DOMAIN request'[c] = Fields /\ request'[c].at = "begin" /\ request'[c].gone = {}
      /\ request'[c].kind = kind /\ request'[c].base = 0 /\ request'[c].since = 0
      /\ request'[c].seen.version = 0
  BY <1>3 DEF Rows!Fresh, Fields
<1>5. kind \in Rows!Kinds
  BY DEF Rows!Admissible
<1>7. /\ request'[c].kind \in Rows!Kinds \cup {"none"}
      /\ request'[c].base \in Nat /\ request'[c].since \in Nat
  BY <1>4, <1>5
<1>6. Asked'
  BY <1>3, <1>4, <1>7, ZenonT(60) DEF Asked, Alone
<1> QED BY <1>3, <1>4, <1>6 DEF Rows!Ask, Rows!Unchanged

----------------------------------------------------------------------------
\* What a step does to the database: nothing, or one commit more, after which
\* the scenarios and references are as they should be.
Follows ==
    /\ Referred'
    /\ RefsFollow
    /\ (commits' = commits /\ db' = db) \/ commits' = commits + 1

LEMMA NoCommit ==
    ASSUME Referred, UNCHANGED <<db, commits>>, lock' \in Clients \cup {Rows!Nobody}
    PROVE  Follows
<1>1. RefsFollow
  BY DEF RefsFollow
<1>2. Referred'
  BY DEF Referred
<1> QED BY <1>1, <1>2 DEF Follows

\* A commit that changes no reference and takes no scenario away.
LEMMA RefsKept ==
    ASSUME Referred, commits' = commits + 1, lock' \in Clients \cup {Rows!Nobody},
           DOMAIN db' = DOMAIN db, db'.refs = db.refs,
           DOMAIN db.scenarios \subseteq DOMAIN db'.scenarios
    PROVE  Follows
<1>1. RefsFollow
  BY DEF RefsFollow
<1>2. Referred'
  BY DEF Referred
<1> QED BY <1>1, <1>2 DEF Follows

LEMMA UpdateFollows ==
    ASSUME Referred, NEW c \in Clients, Rows!UpdateWrites(c)
    PROVE  Follows
<1>1. db' = [db EXCEPT !.scenarios[request[c].id] =
               [version |-> request[c].seen.version + 1, text |-> c]]
  BY DEF Rows!UpdateWrites, Rows!Commit, Rows!Scenario
<1>2. DOMAIN db' = DOMAIN db /\ db'.refs = db.refs /\ DOMAIN db'.scenarios = DOMAIN db.scenarios
  BY <1>1 DEF Referred
<1>3. commits' = commits + 1 /\ lock' = lock
  BY DEF Rows!UpdateWrites, Rows!Commit
<1> QED BY <1>2, <1>3, RefsKept DEF Referred

LEMMA DeleteFollows ==
    ASSUME Referred, NEW c \in Clients, Rows!DeleteWrites(c)
    PROVE  Follows
<1> DEFINE left == {ref \in db.refs : ref.scenario # request[c].id}
<1>1. db' = [db EXCEPT !.scenarios = Rows!Restrict(@, DOMAIN @ \ {request[c].id}),
                       !.refs = @ \ Rows!RefsTo(db, request[c].id)]
  BY DEF Rows!DeleteWrites, Rows!Commit, Rows!Scenario
<1>2. DOMAIN db' = DOMAIN db /\ db'.refs = left
      /\ db'.scenarios = Rows!Restrict(db.scenarios, DOMAIN db.scenarios \ {request[c].id})
  BY <1>1 DEF Referred, Rows!RefsTo
<1>3. DOMAIN db'.scenarios = DOMAIN db.scenarios \ {request[c].id}
  BY <1>2 DEF Rows!Restrict
<1>4. commits' = commits + 1 /\ lock' = lock
  BY DEF Rows!DeleteWrites, Rows!Commit
<1>5. RefsFollow
  BY <1>2 DEF RefsFollow
<1>6. Referred'
  BY <1>2, <1>3, <1>4 DEF Referred
<1> QED BY <1>4, <1>5, <1>6 DEF Follows

LEMMA InsertFollows ==
    ASSUME Referred, NEW c \in Clients, Rows!InsertRow(c)
    PROVE  Follows
<1>1. CASE Rows!Exists(c)
  <2> DEFINE row == [by |-> c, scenario |-> request[c].id, active |-> request[c].kind = "launch",
                     kind |-> IF request[c].kind = "launch" THEN "run" ELSE request[c].kind,
                     since |-> commits + 1]
  <2>1. db' = [db EXCEPT !.refs = @ \cup {row}] /\ commits' = commits + 1 /\ lock' = lock
    BY <1>1 DEF Rows!InsertRow, Rows!Commit, Rows!Scenario
  <2>2. DOMAIN db' = DOMAIN db /\ db'.scenarios = db.scenarios /\ db'.refs = db.refs \cup {row}
    BY <2>1 DEF Referred
  <2>3. /\ DOMAIN row = {"by", "scenario", "active", "kind", "since"}
        /\ row.active \in BOOLEAN /\ row.since = commits + 1
        /\ row.scenario \in DOMAIN db.scenarios
    BY <1>1 DEF Rows!Exists, Rows!Scenario
  <2>4. row.kind \in RefKinds
    BY DEF Rows!InsertRow, Rows!Refers, RefKinds
  <2> HIDE DEF row
  <2>5. RefsFollow
    BY <2>1, <2>2, <2>3 DEF RefsFollow
  <2>6. Referred'
    BY <2>1, <2>2, <2>3, <2>4 DEF Referred
  <2> QED BY <2>1, <2>5, <2>6 DEF Follows
<1>2. CASE ~Rows!Exists(c)
  BY <1>2, NoCommit DEF Rows!InsertRow, Referred
<1> QED BY <1>1, <1>2

LEMMA RunEndFollows ==
    ASSUME Referred, Rows!RunEnds
    PROVE  Follows
<1>1. PICK old \in db.refs :
        /\ db' = [db EXCEPT !.refs = (@ \ {old}) \cup {[old EXCEPT !.active = FALSE]}]
        /\ commits' = commits + 1
  BY DEF Rows!RunEnds, Rows!Commit, Rows!Active
<1> DEFINE new == [old EXCEPT !.active = FALSE]
<1>2. /\ DOMAIN db' = DOMAIN db /\ db'.scenarios = db.scenarios
      /\ db'.refs = (db.refs \ {old}) \cup {new}
  BY <1>1 DEF Referred
<1>3. /\ DOMAIN new = {"by", "scenario", "active", "kind", "since"} /\ new.active = FALSE
      /\ new.scenario = old.scenario /\ new.kind = old.kind /\ new.since = old.since
  BY DEF Referred
<1> HIDE DEF new
<1>4. RefsFollow
  BY <1>2, <1>3 DEF RefsFollow
<1>6. lock' = lock
  BY DEF Rows!RunEnds
<1>7. \A ref \in db'.refs : ref \in db.refs \/ ref = new
  BY <1>2
<1>8. \A ref \in db.refs : /\ DOMAIN ref = {"by", "scenario", "active", "kind", "since"}
                           /\ ref.active \in BOOLEAN /\ ref.kind \in RefKinds
                           /\ ref.since \in Nat /\ ref.scenario \in DOMAIN db.scenarios
  BY DEF Referred
<1>9. \A ref \in db'.refs : /\ DOMAIN ref = {"by", "scenario", "active", "kind", "since"}
                            /\ ref.active \in BOOLEAN /\ ref.kind \in RefKinds
                            /\ ref.since \in Nat /\ ref.scenario \in DOMAIN db.scenarios
  BY <1>3, <1>7, <1>8
<1>5. Referred'
  BY <1>1, <1>2, <1>6, <1>9 DEF Referred
<1> QED BY <1>1, <1>4, <1>5 DEF Follows

LEMMA WithMore ==
    ASSUME NEW new, NEW rows
    PROVE  /\ DOMAIN Rows!With(new, rows) = DOMAIN new \cup DOMAIN rows
           /\ \A id \in DOMAIN new : Rows!With(new, rows)[id] = new[id]
           /\ \A id \in DOMAIN rows \ DOMAIN new : Rows!With(new, rows)[id] = rows[id]
BY DEF Rows!With

LEMMA RenameFollows ==
    ASSUME Referred, NEW c \in Clients, Rows!Rename(c)
    PROVE  Follows
<1>1. PICK name \in {<<>>, <<2>>} :
        \/ db' = [db EXCEPT !.environments =
                    Rows!With(Rows!Row(c, [name |-> name, vars |-> c]), @)]
        \/ db' = [db EXCEPT !.boards = Rows!With(Rows!Row(c, [name |-> name]), @)]
  BY DEF Rows!Rename, Rows!Commit
<1>2. DOMAIN db' = DOMAIN db /\ db'.scenarios = db.scenarios /\ db'.refs = db.refs
  BY <1>1 DEF Referred
<1>3. commits' = commits + 1 /\ lock' = lock
  BY DEF Rows!Rename, Rows!Commit
<1> QED BY <1>2, <1>3, RefsKept DEF Referred

LEMMA ImportFollows ==
    ASSUME Referred, NEW c \in Clients, Rows!ImportWrites(c)
    PROVE  Follows
<1> DEFINE new == [id \in request[c].plan.scenarios |->
                     [version |-> 1, text |-> file.scenarios[id].text]]
<1>1. CASE Rows!Clashes(request[c].plan)
  BY <1>1, NoCommit DEF Rows!ImportWrites
<1>2. CASE ~Rows!Clashes(request[c].plan)
  <2>1. commits' = commits + 1 /\ lock' = Rows!Nobody
    BY <1>2 DEF Rows!ImportWrites, Rows!Commit
  <2>2. DOMAIN db' = DOMAIN db /\ db'.refs = db.refs
        /\ db'.scenarios = Rows!With(new, db.scenarios)
    BY <1>2 DEF Rows!ImportWrites, Rows!Commit, Referred
  <2> HIDE DEF new
  <2>3. DOMAIN Rows!With(new, db.scenarios) = DOMAIN new \cup DOMAIN db.scenarios
    BY WithMore, Zenon
  <2>4. DOMAIN db.scenarios \subseteq DOMAIN db'.scenarios
    BY <2>2, <2>3
  <2> QED BY <2>1, <2>2, <2>4, RefsKept
<1> QED BY <1>1, <1>2

----------------------------------------------------------------------------
\* Deletions, while others move.
LEMMA OthersDelete ==
    ASSUME Referred, Asked, Follows, NEW d \in Clients, Deleting(d), request'[d] = request[d]
    PROVE  Deleting(d)'
<1>1. commits \in Nat /\ request[d].since \in Nat /\ request[d].base \in Nat
  BY DEF Referred, Asked
<1>2. commits' = commits \/ commits' = commits + 1
  BY DEF Follows
<1>3. ASSUME request[d].kind = "delete", request[d].at \in {"presets", "schedules", "exists", "write"}
      PROVE  /\ request[d].since <= commits'
             /\ request[d].counted = {} =>
                  \A ref \in db'.refs :
                    ref.scenario = request[d].id /\ ref.kind \in CountedAt(request[d].at) =>
                      ref.since > request[d].since
  <2>1. request[d].since <= commits
    BY <1>3 DEF Deleting
  <2>2. ASSUME request[d].counted = {}, NEW ref \in db'.refs,
               ref.scenario = request[d].id, ref.kind \in CountedAt(request[d].at)
        PROVE  ref.since > request[d].since
    <3>1. CASE ref.since = commits + 1
      BY <1>1, <2>1, <3>1
    <3>2. CASE \E old \in db.refs :
                 old.scenario = ref.scenario /\ old.kind = ref.kind /\ old.since = ref.since
      BY <1>3, <2>2, <3>2 DEF Deleting
    <3> QED BY <3>1, <3>2 DEF Follows, RefsFollow
  <2> QED BY <1>1, <1>2, <2>1, <2>2
<1>4. ASSUME request[d].kind = "delete", request[d].at = "write"
      PROVE  /\ request[d].force \/ request[d].counted = {}
             /\ request[d].base <= commits'
             /\ request[d].base = commits' =>
                  \A ref \in db'.refs : ref.scenario = request[d].id => ~ref.active
  <2>1. /\ request[d].force \/ request[d].counted = {}
        /\ request[d].base <= commits
        /\ request[d].base = commits =>
             \A ref \in db.refs : ref.scenario = request[d].id => ~ref.active
    BY <1>4 DEF Deleting
  <2>2. CASE commits' = commits /\ db' = db
    BY <2>1, <2>2
  <2>3. CASE commits' = commits + 1
    BY <1>1, <2>1, <2>3
  <2> QED BY <2>2, <2>3 DEF Follows
<1>5. /\ request[d].at # "deleted" => request[d].gone = {}
      /\ \A ref \in request[d].gone :
           ~ref.active /\ (~request[d].force => ref.since > request[d].since)
  BY DEF Deleting
<1> QED BY <1>3, <1>4, <1>5 DEF Deleting

\* The client's own steps, outside a deletion, or at its end.
LEMMA NotDeleting ==
    ASSUME NEW c, request'[c].gone = {},
           \/ request'[c].kind # "delete"
           \/ request'[c].at \notin {"presets", "schedules", "exists", "write"}
    PROVE  Deleting(c)'
BY DEF Deleting

\* Where the other ways of a request end.
Finals == {"updated", "imported", "clash"}

\* A deletion goes on, or ends.
DeletesOn(c) ==
    /\ Asked' /\ Alone(c) /\ Deleting(c)'
    /\ request'[c].kind = request[c].kind /\ request'[c].seen = request[c].seen
    /\ request'[c].at \notin Finals

LEMMA CountRunsDeletes ==
    ASSUME Referred, Asked, NEW c \in Clients, Deleting(c), Rows!CountRuns(c)
    PROVE  DeletesOn(c)
<1>1. /\ request[c].kind = "delete" /\ request[c].at = "begin" /\ request[c].gone = {}
      /\ UNCHANGED <<db, commits>>
  BY DEF Rows!CountRuns, Rows!Is, Rows!Unchanged, Deleting
<1>2. ASSUME NEW at \in {"not found", "active"}, Rows!Move(c, at)
      PROVE  DeletesOn(c)
  <2>1. But(c, {"at"}) /\ request'[c].at = at
    BY <1>2, Moving
  <2>2. /\ request'[c].gone = {}
        /\ request'[c].seen = request[c].seen /\ request'[c].kind = request[c].kind
    BY <1>1, <2>1 DEF But, Fields
  <2> QED BY <2>1, <2>2, NotDeleting DEF But, DeletesOn, Finals
<1> DEFINE runs == Rows!OfKind(Rows!RefsTo(db, request[c].id), "run")
<1>3. ASSUME request' = [request EXCEPT ![c].counted = runs, ![c].since = commits,
                                        ![c].at = "presets"]
      PROVE  DeletesOn(c)
  <2>1. /\ DOMAIN request' = Clients /\ Alone(c)
        /\ request'[c] = [request[c] EXCEPT !.counted = runs, !.since = commits, !.at = "presets"]
    BY <1>3 DEF Asked, Alone
  <2>2. /\ DOMAIN request'[c] = Fields
        /\ request'[c].counted = runs /\ request'[c].since = commits
        /\ request'[c].at = "presets" /\ request'[c].kind = request[c].kind
        /\ request'[c].id = request[c].id /\ request'[c].gone = request[c].gone
        /\ request'[c].base = request[c].base /\ request'[c].seen = request[c].seen
    BY <2>1 DEF Asked, Fields
  <2>6. /\ request'[c].kind \in Rows!Kinds \cup {"none"}
        /\ request'[c].base \in Nat /\ request'[c].since \in Nat
    BY <2>2 DEF Asked, Referred
  <2>3. Asked'
    BY <2>1, <2>2, <2>6, ZenonT(60) DEF Asked, Alone
  <2>4. \A ref \in db.refs : ref.scenario = request[c].id /\ ref.kind = "run" => ref \in runs
    BY DEF Rows!OfKind, Rows!RefsTo
  <2>5. Deleting(c)'
    BY <1>1, <2>2, <2>4 DEF Deleting, CountedAt, Referred
  <2> QED BY <2>1, <2>2, <2>3, <2>5 DEF DeletesOn, Finals
<1> QED BY <1>2, <1>3 DEF Rows!CountRuns, Rows!Scenario

LEMMA CountsDeletes ==
    ASSUME Referred, Asked, NEW c \in Clients, Deleting(c), UNCHANGED <<db, commits>>,
           request[c].kind = "delete",
           NEW kind, NEW next \in {"schedules", "exists"},
           \/ /\ request[c].at = "presets" /\ kind = "preset" /\ next = "schedules"
           \/ /\ request[c].at = "schedules" /\ kind = "schedule" /\ next = "exists",
           Rows!Counts(c, kind, next)
    PROVE  DeletesOn(c)
<1> DEFINE more    == Rows!OfKind(Rows!RefsTo(db, request[c].id), kind)
           counted == request[c].counted \cup more
<1>1. request' = [request EXCEPT ![c].counted = counted, ![c].at = next]
  BY DEF Rows!Counts, Rows!Scenario
<1>2. /\ DOMAIN request' = Clients /\ Alone(c)
      /\ request'[c] = [request[c] EXCEPT !.counted = counted, !.at = next]
  BY <1>1 DEF Asked, Alone
<1>3. /\ DOMAIN request'[c] = Fields
      /\ request'[c].counted = counted /\ request'[c].at = next
      /\ request'[c].kind = request[c].kind /\ request'[c].since = request[c].since
      /\ request'[c].id = request[c].id /\ request'[c].gone = request[c].gone
      /\ request'[c].base = request[c].base /\ request'[c].force = request[c].force
      /\ request'[c].seen = request[c].seen
  BY <1>2 DEF Asked, Fields
<1>4. Asked'
  BY <1>2, <1>3 DEF Asked, Alone
<1>5. \A ref \in db.refs : ref.scenario = request[c].id /\ ref.kind = kind => ref \in counted
  BY DEF Rows!OfKind, Rows!RefsTo
<1>6. counted = {} => request[c].counted = {}
  OBVIOUS
<1> HIDE DEF counted
<1>7. \A k \in CountedAt(next) : k \in CountedAt(request[c].at) \/ k = kind
  BY DEF CountedAt, RefKinds
<1>8. /\ request[c].gone = {} /\ request[c].since <= commits
      /\ request[c].counted = {} =>
           \A ref \in db.refs :
             ref.scenario = request[c].id /\ ref.kind \in CountedAt(request[c].at) =>
               ref.since > request[c].since
  BY DEF Deleting
<1>9. request'[c].counted = {} =>
        \A ref \in db'.refs :
          ref.scenario = request[c].id /\ ref.kind \in CountedAt(next) => ref.since > request[c].since
  BY <1>3, <1>5, <1>6, <1>7, <1>8
<1>10. Deleting(c)'
  BY <1>3, <1>8, <1>9 DEF Deleting
<1> QED BY <1>2, <1>3, <1>4, <1>10 DEF DeletesOn, Finals

LEMMA DeleteReadsDeletes ==
    ASSUME Referred, Asked, NEW c \in Clients, Deleting(c), Rows!DeleteReads(c)
    PROVE  DeletesOn(c)
<1>1. /\ request[c].kind = "delete" /\ request[c].at = "exists" /\ request[c].gone = {}
      /\ UNCHANGED <<db, commits>>
  BY DEF Rows!DeleteReads, Rows!Is, Rows!Unchanged, Deleting
<1>2. ASSUME NEW at \in {"referenced", "active"}, Rows!Move(c, at)
      PROVE  DeletesOn(c)
  <2>1. But(c, {"at"}) /\ request'[c].at = at
    BY <1>2, Moving
  <2>2. /\ request'[c].gone = {}
        /\ request'[c].seen = request[c].seen /\ request'[c].kind = request[c].kind
    BY <1>1, <2>1 DEF But, Fields
  <2> QED BY <2>1, <2>2, NotDeleting DEF But, DeletesOn, Finals
<1>3. ASSUME Rows!Forced(c), Rows!NothingActive(c),
             request' = [request EXCEPT ![c].base = commits, ![c].at = "write"]
      PROVE  DeletesOn(c)
  <2>1. /\ DOMAIN request' = Clients /\ Alone(c)
        /\ request'[c] = [request[c] EXCEPT !.base = commits, !.at = "write"]
    BY <1>3 DEF Asked, Alone
  <2>2. /\ DOMAIN request'[c] = Fields
        /\ request'[c].at = "write" /\ request'[c].base = commits
        /\ request'[c].counted = request[c].counted /\ request'[c].since = request[c].since
        /\ request'[c].kind = request[c].kind /\ request'[c].id = request[c].id
        /\ request'[c].gone = request[c].gone /\ request'[c].force = request[c].force
        /\ request'[c].seen = request[c].seen
    BY <2>1 DEF Asked, Fields
  <2>3. Asked'
    BY <2>1, <2>2, ZenonT(60) DEF Asked, Alone, Referred
  <2>4. request[c].force \/ request[c].counted = {}
    BY <1>3 DEF Rows!Forced
  <2>5. \A ref \in db.refs : ref.scenario = request[c].id => ~ref.active
    BY <1>3 DEF Rows!NothingActive, Rows!Active, Rows!RefsTo, Rows!Scenario
  <2>6. CountedAt("write") = CountedAt("exists")
    BY DEF CountedAt
  <2>7. /\ request[c].since <= commits
        /\ request[c].counted = {} =>
             \A ref \in db.refs :
               ref.scenario = request[c].id /\ ref.kind \in CountedAt("exists") =>
                 ref.since > request[c].since
    BY <1>1 DEF Deleting
  <2>8. Deleting(c)'
    BY <1>1, <2>2, <2>4, <2>5, <2>6, <2>7 DEF Deleting, Referred
  <2> QED BY <2>1, <2>2, <2>3, <2>8 DEF DeletesOn, Finals
<1> QED BY <1>2, <1>3 DEF Rows!DeleteReads

\* Where it writes, the deletion takes what its transaction has read: nothing
\* active, and if the client has not forced it nothing that was counted.
LEMMA DeleteWritesDeletes ==
    ASSUME Referred, Asked, NEW c \in Clients, Deleting(c), Rows!DeleteWrites(c)
    PROVE  DeletesOn(c)
<1> DEFINE taken == {ref \in db.refs : ref.scenario = request[c].id}
<1>1. /\ request[c].kind = "delete" /\ request[c].at = "write" /\ request[c].base = commits
      /\ request' = [request EXCEPT ![c].gone = taken, ![c].at = "deleted"]
  BY DEF Rows!DeleteWrites, Rows!Is, Rows!CanUpgrade, Rows!RefsTo, Rows!Scenario
<1>2. /\ DOMAIN request' = Clients /\ Alone(c)
      /\ request'[c] = [request[c] EXCEPT !.gone = taken, !.at = "deleted"]
  BY <1>1 DEF Asked, Alone
<1>3. /\ DOMAIN request'[c] = Fields
      /\ request'[c].at = "deleted" /\ request'[c].gone = taken
      /\ request'[c].base = request[c].base /\ request'[c].since = request[c].since
      /\ request'[c].kind = request[c].kind /\ request'[c].force = request[c].force
      /\ request'[c].seen = request[c].seen
  BY <1>2 DEF Asked, Fields
<1>4. Asked'
  BY <1>2, <1>3 DEF Asked, Alone
<1>5. \A ref \in taken : ~ref.active
  BY <1>1 DEF Deleting
<1>6. ASSUME ~request[c].force, NEW ref \in taken
      PROVE  ref.since > request[c].since
  <2>1. request[c].counted = {}
    BY <1>1, <1>6 DEF Deleting
  <2>2. ref.kind \in CountedAt(request[c].at)
    BY <1>1 DEF Referred, CountedAt
  <2> QED BY <1>1, <2>1, <2>2 DEF Deleting
<1> HIDE DEF taken
<1>7. Deleting(c)'
  BY <1>3, <1>5, <1>6 DEF Deleting
<1> QED BY <1>2, <1>3, <1>4, <1>7 DEF DeletesOn, Finals

----------------------------------------------------------------------------
\* The other steps, which count nothing.
LEMMA Setting ==
    ASSUME Asked, NEW c \in Clients, NEW name \in {"seen", "base", "plan"}, NEW value, NEW at,
           name = "base" => value \in Nat,
           request' = [request EXCEPT ![c][name] = value, ![c].at = at]
    PROVE  But(c, {name, "at"}) /\ request'[c].at = at /\ request'[c][name] = value
<1>1. /\ DOMAIN request' = Clients /\ Alone(c)
      /\ request'[c] = [request[c] EXCEPT ![name] = value, !.at = at]
  BY DEF Asked, Alone
<1>2. /\ DOMAIN request'[c] = Fields /\ request'[c].at = at /\ request'[c][name] = value
      /\ \A n \in Fields \ {name, "at"} : request'[c][n] = request[c][n]
  BY <1>1 DEF Asked, Fields
<1>3. /\ request'[c].kind = request[c].kind /\ request'[c].since = request[c].since
      /\ request'[c].base \in Nat
  BY <1>2 DEF Fields, Asked
<1>4. Asked'
  BY <1>1, <1>2, <1>3 DEF Asked, Alone
<1> QED BY <1>1, <1>2, <1>4 DEF But

\* What such a step is, as far as deletions go.
Counting(c) ==
    \/ Rows!CountRuns(c) \/ Rows!CountPresets(c) \/ Rows!CountSchedules(c)
    \/ Rows!DeleteReads(c) \/ Rows!DeleteWrites(c)

Elsewhere(c) ==
    \/ Rows!Drop(c) \/ Rows!Busy(c) \/ Rows!Get(c) \/ Rows!UpdateReads(c) \/ Rows!UpdateWrites(c)
    \/ Rows!ReadScenario(c) \/ Rows!InsertRow(c) \/ Rows!Rename(c)
    \/ Rows!ImportReads(c) \/ Rows!ImportWrites(c)

\* Such a step moves the request on, and may fill one local.
LEMMA ElsewhereMoves ==
    ASSUME Referred, Asked, NEW c \in Clients, Elsewhere(c)
    PROVE  /\ request[c].at # "deleted"
           /\ But(c, {"at", "seen", "base", "plan"})
           /\ Rows!Get(c) \/ request'[c].seen = request[c].seen
           /\ \/ request[c].kind # "delete"
              \/ request'[c].at \notin {"presets", "schedules", "exists", "write"}
           /\ request'[c].at = "updated" => Rows!UpdateWrites(c)
           /\ request'[c].at \in {"imported", "clash"} => Rows!ImportWrites(c)
           /\ \/ request[c].kind # "edit"
              \/ request'[c].at \notin {"seen", "write"}
              \/ Rows!Get(c) \/ Rows!UpdateReads(c)
<1>1. ASSUME NEW at, Rows!Move(c, at)
      PROVE  /\ But(c, {"at", "seen", "base", "plan"}) /\ request'[c].at = at
             /\ request'[c].seen = request[c].seen
  <2>1. But(c, {"at"}) /\ request'[c].at = at
    BY <1>1, Moving
  <2> QED BY <2>1 DEF But, Fields
<1>2. ASSUME NEW name \in {"seen", "base", "plan"}, NEW value, NEW at,
             name = "base" => value \in Nat,
             request' = [request EXCEPT ![c][name] = value, ![c].at = at]
      PROVE  /\ But(c, {"at", "seen", "base", "plan"}) /\ request'[c].at = at
             /\ name # "seen" => request'[c].seen = request[c].seen
  <2>1. But(c, {name, "at"})
    BY <1>2, Setting
  <2>2. request'[c].at = at
    BY <1>2 DEF Asked, Fields
  <2> QED BY <2>1, <2>2 DEF But, Fields
<1>3. CASE Rows!Drop(c)
  BY <1>1, <1>3 DEF Rows!Drop
<1>4. CASE Rows!Busy(c)
  BY <1>1, <1>4 DEF Rows!Busy, Rows!Is
<1>5. CASE Rows!Get(c)
  <2>1. request[c].kind = "edit" /\ request[c].at = "begin"
    BY <1>5 DEF Rows!Get, Rows!Is
  <2>2. CASE Rows!Exists(c)
    <3> DEFINE seen == db.scenarios[Rows!Scenario(c)]
    <3>1. request' = [request EXCEPT ![c].seen = seen, ![c].at = "seen"]
      BY <1>5, <2>2 DEF Rows!Get
    <3> HIDE DEF seen
    <3>2. But(c, {"at", "seen", "base", "plan"}) /\ request'[c].at = "seen"
      BY <1>2, <3>1
    <3> QED BY <1>5, <2>1, <3>2
  <2>3. CASE Rows!Move(c, "not found")
    <3>1. /\ But(c, {"at", "seen", "base", "plan"}) /\ request'[c].at = "not found"
      BY <1>1, <2>3
    <3> QED BY <1>5, <2>1, <3>1
  <2> QED BY <1>5, <2>2, <2>3 DEF Rows!Get
<1>6. CASE Rows!UpdateReads(c)
  <2>1. request[c].kind = "edit" /\ request[c].at = "seen"
    BY <1>6 DEF Rows!UpdateReads, Rows!Is
  <2>2. CASE \E at \in {"not found", "stale"} : Rows!Move(c, at)
    BY <1>1, <2>1, <2>2
  <2>3. CASE request' = [request EXCEPT ![c].base = commits, ![c].at = "write"]
    <3>1. /\ But(c, {"at", "seen", "base", "plan"}) /\ request'[c].at = "write"
          /\ request'[c].seen = request[c].seen
      BY <1>2, <2>3 DEF Referred
    <3> QED BY <1>6, <2>1, <3>1
  <2> QED BY <1>6, <2>2, <2>3 DEF Rows!UpdateReads
<1>7. CASE Rows!UpdateWrites(c)
  <2>1. request[c].kind = "edit" /\ request[c].at = "write" /\ Rows!Move(c, "updated")
    BY <1>7 DEF Rows!UpdateWrites, Rows!Is
  <2> QED BY <1>1, <1>7, <2>1
<1>8. CASE Rows!ReadScenario(c)
  <2>1. request[c].kind \notin {"delete", "edit"} /\ request[c].at = "begin"
    BY <1>8 DEF Rows!ReadScenario, Rows!Refers
  <2>2. PICK at \in {"write", "not found"} : Rows!Move(c, at)
    BY <1>8 DEF Rows!ReadScenario
  <2> QED BY <1>1, <2>1, <2>2
<1>9. CASE Rows!InsertRow(c)
  <2>1. request[c].kind \notin {"delete", "edit"} /\ request[c].at = "write"
    BY <1>9 DEF Rows!InsertRow, Rows!Refers
  <2>2. PICK at \in {"inserted", "foreign key"} : Rows!Move(c, at)
    BY <1>9 DEF Rows!InsertRow
  <2> QED BY <1>1, <2>1, <2>2
<1>10. CASE Rows!Rename(c)
  <2>1. request[c].kind = "rename" /\ request[c].at = "begin" /\ Rows!Move(c, "renamed")
    BY <1>10 DEF Rows!Rename, Rows!Is
  <2> QED BY <1>1, <2>1
<1>11. CASE Rows!ImportReads(c)
  <2>1. request[c].kind = "import" /\ request[c].at = "begin"
    BY <1>11 DEF Rows!ImportReads, Rows!Is
  <2>2. CASE Rows!Move(c, "conflicts")
    BY <1>1, <2>1, <2>2
  <2>3. CASE request' = [request EXCEPT ![c].plan = Rows!plan_add, ![c].at = "write"]
    <3>1. /\ But(c, {"at", "seen", "base", "plan"}) /\ request'[c].at = "write"
          /\ request'[c].seen = request[c].seen
      BY <1>2, <2>3
    <3> QED BY <2>1, <3>1
  <2> QED BY <1>11, <2>2, <2>3 DEF Rows!ImportReads
<1>12. CASE Rows!ImportWrites(c)
  <2>1. request[c].kind = "import" /\ request[c].at = "write"
    BY <1>12 DEF Rows!ImportWrites, Rows!Is
  <2>2. PICK at \in {"clash", "imported"} : Rows!Move(c, at)
    BY <1>12 DEF Rows!ImportWrites
  <2> QED BY <1>1, <1>12, <2>1, <2>2
<1> QED BY <1>3, <1>4, <1>5, <1>6, <1>7, <1>8, <1>9, <1>10, <1>11, <1>12 DEF Elsewhere

LEMMA ElsewhereDeletes ==
    ASSUME Referred, Asked, NEW c \in Clients, Deleting(c), Elsewhere(c)
    PROVE  Deleting(c)'
<1>1. request[c].gone = {}
  BY ElsewhereMoves DEF Deleting
<1>2. request'[c].gone = request[c].gone /\ request'[c].kind = request[c].kind
  BY ElsewhereMoves DEF But, Fields
<1> QED BY <1>1, <1>2, ElsewhereMoves, NotDeleting

----------------------------------------------------------------------------
\* Edits.  A version is a number, and until a file is imported the version of a
\* scenario only grows: who has seen the one it has has seen its text.
Versioned ==
    /\ \A id \in DOMAIN db.scenarios :
         /\ DOMAIN db.scenarios[id] = {"version", "text"}
         /\ db.scenarios[id].version \in Nat
    /\ \A c \in Clients : request[c].seen.version \in Nat

NoneImported == \A d \in Clients : request[d].at # "imported"

Editing(c) ==
    request[c].kind = "edit" /\ request[c].at \in {"seen", "write"} =>
      /\ request[c].id \in DOMAIN db.scenarios =>
           /\ request[c].seen.version <= db.scenarios[request[c].id].version
           /\ request[c].seen.version = db.scenarios[request[c].id].version =>
                db.scenarios[request[c].id].text = request[c].seen.text
      /\ request[c].at = "write" =>
           /\ request[c].base <= commits
           /\ request[c].base = commits =>
                /\ request[c].id \in DOMAIN db.scenarios
                /\ request[c].seen.version = db.scenarios[request[c].id].version

\* What a step does to the scenarios, unless a file is imported by it.
VersionsGrow ==
    \A id \in DOMAIN db'.scenarios :
      /\ id \in DOMAIN db.scenarios
      /\ \/ db'.scenarios[id] = db.scenarios[id]
         \/ db'.scenarios[id].version > db.scenarios[id].version

LEMMA OthersEdit ==
    ASSUME Referred, Asked, Versioned, Versioned', VersionsGrow, Follows,
           NEW d \in Clients, Editing(d), request'[d] = request[d]
    PROVE  Editing(d)'
<1> SUFFICES ASSUME request[d].kind = "edit", request[d].at \in {"seen", "write"}
             PROVE  Editing(d)'
  BY DEF Editing
<1>1. /\ request[d].seen.version \in Nat /\ request[d].base \in Nat /\ commits \in Nat
      /\ \A id \in DOMAIN db.scenarios : db.scenarios[id].version \in Nat
      /\ \A id \in DOMAIN db'.scenarios : db'.scenarios[id].version \in Nat
  BY DEF Versioned, Asked, Referred
<1>2. ASSUME request[d].id \in DOMAIN db'.scenarios
      PROVE  /\ request[d].seen.version <= db'.scenarios[request[d].id].version
             /\ request[d].seen.version = db'.scenarios[request[d].id].version =>
                  db'.scenarios[request[d].id].text = request[d].seen.text
  <2>1. request[d].id \in DOMAIN db.scenarios
    BY <1>2 DEF VersionsGrow
  <2>2. /\ request[d].seen.version <= db.scenarios[request[d].id].version
        /\ request[d].seen.version = db.scenarios[request[d].id].version =>
             db.scenarios[request[d].id].text = request[d].seen.text
    BY <2>1 DEF Editing
  <2>3. CASE db'.scenarios[request[d].id] = db.scenarios[request[d].id]
    BY <2>2, <2>3
  <2>4. CASE db'.scenarios[request[d].id].version > db.scenarios[request[d].id].version
    BY <1>1, <1>2, <2>1, <2>2, <2>4
  <2> QED BY <1>2, <2>3, <2>4 DEF VersionsGrow
<1>3. ASSUME request[d].at = "write"
      PROVE  /\ request[d].base <= commits'
             /\ request[d].base = commits' =>
                  /\ request[d].id \in DOMAIN db'.scenarios
                  /\ request[d].seen.version = db'.scenarios[request[d].id].version
  <2>1. /\ request[d].base <= commits
        /\ request[d].base = commits =>
             /\ request[d].id \in DOMAIN db.scenarios
             /\ request[d].seen.version = db.scenarios[request[d].id].version
    BY <1>3 DEF Editing
  <2>2. CASE commits' = commits /\ db' = db
    BY <2>1, <2>2
  <2>3. CASE commits' = commits + 1
    BY <1>1, <2>1, <2>3
  <2> QED BY <2>2, <2>3 DEF Follows
<1> QED BY <1>2, <1>3 DEF Editing

\* Who was shown a version of the scenario that is still there may write.
LEMMA GetEdits ==
    ASSUME Referred, Asked, Versioned, NEW c \in Clients, Rows!Get(c)
    PROVE  Versioned' /\ Editing(c)'
<1>1. UNCHANGED <<db, commits>>
  BY DEF Rows!Get, Rows!Unchanged
<1>2. CASE Rows!Move(c, "not found")
  <2>1. But(c, {"at"}) /\ request'[c].at = "not found"
    BY <1>2, Moving
  <2>2. \A d \in Clients : request'[d].seen = request[d].seen
    BY <2>1 DEF But, Alone, Fields
  <2> QED BY <1>1, <2>1, <2>2 DEF Versioned, Editing
<1>3. CASE /\ Rows!Exists(c)
           /\ request' = [request EXCEPT ![c].seen = db.scenarios[Rows!Scenario(c)], ![c].at = "seen"]
  <2> DEFINE seen == db.scenarios[request[c].id]
  <2>6. /\ request[c].id \in DOMAIN db.scenarios /\ seen.version \in Nat
        /\ request' = [request EXCEPT ![c].seen = seen, ![c].at = "seen"]
    BY <1>3 DEF Rows!Exists, Rows!Scenario, Versioned
  <2>7. seen = db.scenarios[request[c].id]
    OBVIOUS
  <2> HIDE DEF seen
  <2>1. But(c, {"seen", "at"}) /\ request'[c].at = "seen" /\ request'[c].seen = seen
    BY <2>6, Setting
  <2>2. request'[c].id = request[c].id
    BY <2>1 DEF But, Fields
  <2>3. \A d \in Clients : request'[d].seen.version \in Nat
    BY <2>1, <2>6 DEF But, Alone, Versioned
  <2>4. Versioned'
    BY <1>1, <2>3 DEF Versioned
  <2>5. Editing(c)'
    BY <1>1, <2>1, <2>2, <2>6, <2>7 DEF Editing
  <2> QED BY <2>4, <2>5
<1> QED BY <1>2, <1>3 DEF Rows!Get

LEMMA UpdateReadsEdits ==
    ASSUME Referred, Asked, Versioned, NEW c \in Clients, Editing(c), Rows!UpdateReads(c)
    PROVE  Versioned' /\ Editing(c)'
<1>1. /\ UNCHANGED <<db, commits>> /\ request[c].kind = "edit" /\ request[c].at = "seen"
  BY DEF Rows!UpdateReads, Rows!Unchanged, Rows!Is
<1>2. ASSUME NEW at \in {"not found", "stale"}, Rows!Move(c, at)
      PROVE  Versioned' /\ Editing(c)'
  <2>1. But(c, {"at"}) /\ request'[c].at = at
    BY <1>2, Moving
  <2>2. \A d \in Clients : request'[d].seen = request[d].seen
    BY <2>1 DEF But, Alone, Fields
  <2> QED BY <1>1, <2>1, <2>2 DEF Versioned, Editing
<1>3. ASSUME request' = [request EXCEPT ![c].base = commits, ![c].at = "write"],
             Rows!Exists(c), db.scenarios[Rows!Scenario(c)].version = request[c].seen.version
      PROVE  Versioned' /\ Editing(c)'
  <2>1. But(c, {"base", "at"}) /\ request'[c].at = "write" /\ request'[c].base = commits
    BY <1>3, Setting DEF Referred
  <2>2. request'[c].id = request[c].id /\ request'[c].seen = request[c].seen
    BY <2>1 DEF But, Fields
  <2>3. Versioned'
    BY <1>1, <2>1, <2>2 DEF But, Alone, Versioned
  <2>4. Editing(c)'
    BY <1>1, <1>3, <2>1, <2>2 DEF Editing, Rows!Exists, Rows!Scenario, Referred
  <2> QED BY <2>3, <2>4
<1> QED BY <1>2, <1>3 DEF Rows!UpdateReads

LEMMA UpdateVersions ==
    ASSUME Referred, Asked, Versioned, NEW c \in Clients, Rows!UpdateWrites(c)
    PROVE  Versioned'
<1> DEFINE new == [version |-> request[c].seen.version + 1, text |-> c]
<1>1. db'.scenarios = [db.scenarios EXCEPT ![request[c].id] = new] /\ Rows!Move(c, "updated")
  BY DEF Rows!UpdateWrites, Rows!Commit, Rows!Scenario, Referred
<1>2. DOMAIN new = {"version", "text"} /\ new.version \in Nat
  BY DEF Versioned
<1> HIDE DEF new
<1>3. But(c, {"at"})
  BY <1>1, Moving
<1>4. \A d \in Clients : request'[d].seen = request[d].seen
  BY <1>3 DEF But, Alone, Fields
<1> QED BY <1>1, <1>2, <1>4 DEF Versioned

\* The update writes a version that is new, as nobody has written since its
\* transaction read.
LEMMA UpdateWritesEdits ==
    ASSUME Referred, Asked, Versioned, NEW c \in Clients, Editing(c), Rows!UpdateWrites(c)
    PROVE  VersionsGrow /\ db.scenarios[request[c].id].text = request[c].seen.text
<1> DEFINE new == [version |-> request[c].seen.version + 1, text |-> c]
<1>1. /\ request[c].kind = "edit" /\ request[c].at = "write" /\ request[c].base = commits
      /\ db'.scenarios = [db.scenarios EXCEPT ![request[c].id] = new]
  BY DEF Rows!UpdateWrites, Rows!Is, Rows!CanUpgrade, Rows!Commit, Rows!Scenario, Referred
<1>2. /\ request[c].id \in DOMAIN db.scenarios
      /\ db.scenarios[request[c].id].version = request[c].seen.version
      /\ db.scenarios[request[c].id].text = request[c].seen.text
  BY <1>1 DEF Editing
<1>3. new.version > db.scenarios[request[c].id].version
  BY <1>2 DEF Versioned
<1> HIDE DEF new
<1> QED BY <1>1, <1>2, <1>3 DEF VersionsGrow

----------------------------------------------------------------------------
\* All of it, step by step.
LEMMA ScenariosStay ==
    ASSUME Versioned, \A id \in DOMAIN db'.scenarios :
                        id \in DOMAIN db.scenarios /\ db'.scenarios[id] = db.scenarios[id]
    PROVE  /\ VersionsGrow
           /\ \A id \in DOMAIN db'.scenarios :
                /\ DOMAIN db'.scenarios[id] = {"version", "text"}
                /\ db'.scenarios[id].version \in Nat
BY DEF Versioned, VersionsGrow

\* Unless it is an update or an import, a step at most takes a scenario away.
LEMMA ScenariosGo ==
    ASSUME Referred, NEW c \in Clients,
           \/ UNCHANGED db
           \/ Rows!DeleteWrites(c) \/ Rows!InsertRow(c) \/ Rows!Rename(c) \/ Rows!RunEnds
    PROVE  \A id \in DOMAIN db'.scenarios :
             id \in DOMAIN db.scenarios /\ db'.scenarios[id] = db.scenarios[id]
<1>1. CASE UNCHANGED db
  BY <1>1
<1>2. CASE Rows!DeleteWrites(c)
  <2>1. db'.scenarios = Rows!Restrict(db.scenarios, DOMAIN db.scenarios \ {request[c].id})
    BY <1>2 DEF Rows!DeleteWrites, Rows!Commit, Rows!Scenario, Referred
  <2> QED BY <2>1 DEF Rows!Restrict
<1>3. CASE Rows!InsertRow(c)
  <2>1. db'.scenarios = db.scenarios
    BY <1>3 DEF Rows!InsertRow, Rows!Commit, Referred
  <2> QED BY <2>1
<1>4. CASE Rows!Rename(c)
  <2>1. PICK name \in {<<>>, <<2>>} :
          \/ db' = [db EXCEPT !.environments =
                      Rows!With(Rows!Row(c, [name |-> name, vars |-> c]), @)]
          \/ db' = [db EXCEPT !.boards = Rows!With(Rows!Row(c, [name |-> name]), @)]
    BY <1>4 DEF Rows!Rename, Rows!Commit
  <2>2. db'.scenarios = db.scenarios
    BY <2>1 DEF Referred
  <2> QED BY <2>2
<1>5. CASE Rows!RunEnds
  <2>1. PICK old \in db.refs :
          db' = [db EXCEPT !.refs = (@ \ {old}) \cup {[old EXCEPT !.active = FALSE]}]
    BY <1>5 DEF Rows!RunEnds, Rows!Commit, Rows!Active
  <2>2. db'.scenarios = db.scenarios
    BY <2>1 DEF Referred
  <2> QED BY <2>2
<1> QED BY <1>1, <1>2, <1>3, <1>4, <1>5

\* Scenarios that are imported have a version, too.
LEMMA ImportVersions ==
    ASSUME Referred, Versioned, NEW c \in Clients, Rows!ImportWrites(c)
    PROVE  \A id \in DOMAIN db'.scenarios :
             /\ DOMAIN db'.scenarios[id] = {"version", "text"}
             /\ db'.scenarios[id].version \in Nat
<1> DEFINE new == [id \in request[c].plan.scenarios |->
                     [version |-> 1, text |-> file.scenarios[id].text]]
<1>1. db' = db \/ db'.scenarios = Rows!With(new, db.scenarios)
  BY DEF Rows!ImportWrites, Rows!Commit, Referred
<1>2. \A id \in DOMAIN new : DOMAIN new[id] = {"version", "text"} /\ new[id].version \in Nat
  OBVIOUS
<1> HIDE DEF new
<1>3. /\ DOMAIN Rows!With(new, db.scenarios) = DOMAIN new \cup DOMAIN db.scenarios
      /\ \A id \in DOMAIN new : Rows!With(new, db.scenarios)[id] = new[id]
      /\ \A id \in DOMAIN db.scenarios \ DOMAIN new :
           Rows!With(new, db.scenarios)[id] = db.scenarios[id]
  BY WithMore, Zenon
<1> QED BY <1>1, <1>2, <1>3 DEF Versioned

CatalogStep(c) == Rows!Ask(c) \/ Elsewhere(c) \/ Counting(c)

LEMMA StepFollows ==
    ASSUME Referred, NEW c \in Clients, CatalogStep(c)
    PROVE  Follows
<1>1. CASE Rows!UpdateWrites(c) \/ Rows!DeleteWrites(c) \/ Rows!InsertRow(c) \/ Rows!Rename(c)
             \/ Rows!ImportWrites(c)
  BY <1>1, UpdateFollows, DeleteFollows, InsertFollows, RenameFollows, ImportFollows
<1>2. CASE \/ Rows!Ask(c) \/ Rows!Busy(c) \/ Rows!Get(c) \/ Rows!UpdateReads(c)
           \/ Rows!ReadScenario(c) \/ Rows!CountRuns(c) \/ Rows!CountPresets(c)
           \/ Rows!CountSchedules(c) \/ Rows!DeleteReads(c)
  <2>1. UNCHANGED <<db, commits, lock>>
    BY <1>2 DEF Rows!Ask, Rows!Busy, Rows!Get, Rows!UpdateReads, Rows!ReadScenario, Rows!CountRuns,
                Rows!CountPresets, Rows!CountSchedules, Rows!DeleteReads, Rows!Unchanged
  <2> QED BY <2>1, NoCommit DEF Referred
<1>3. CASE Rows!Drop(c) \/ Rows!ImportReads(c)
  <2>1. UNCHANGED <<db, commits>> /\ lock' \in Clients \cup {Rows!Nobody}
    BY <1>3 DEF Rows!Drop, Rows!ImportReads, Rows!Locks, Referred
  <2> QED BY <2>1, NoCommit
<1> QED BY <1>1, <1>2, <1>3 DEF CatalogStep, Elsewhere, Counting

LEMMA CountingDeletes ==
    ASSUME Referred, Asked, NEW c \in Clients, Deleting(c), Counting(c)
    PROVE  request[c].kind = "delete" /\ DeletesOn(c)
<1>1. request[c].kind = "delete"
  BY DEF Counting, Rows!CountRuns, Rows!CountPresets, Rows!CountSchedules, Rows!DeleteReads,
         Rows!DeleteWrites, Rows!Is
<1>2. CASE Rows!CountRuns(c) \/ Rows!DeleteReads(c) \/ Rows!DeleteWrites(c)
  <2>1. CASE Rows!CountRuns(c)
    BY <1>1, <2>1, CountRunsDeletes
  <2>2. CASE Rows!DeleteReads(c)
    BY <1>1, <2>2, DeleteReadsDeletes
  <2>3. CASE Rows!DeleteWrites(c)
    BY <1>1, <2>3, DeleteWritesDeletes
  <2> QED BY <1>2, <2>1, <2>2, <2>3
<1>3. CASE Rows!CountPresets(c)
  BY <1>1, <1>3, CountsDeletes DEF Rows!CountPresets, Rows!Is, Rows!Unchanged
<1>4. CASE Rows!CountSchedules(c)
  BY <1>1, <1>4, CountsDeletes DEF Rows!CountSchedules, Rows!Is, Rows!Unchanged
<1> QED BY <1>1, <1>2, <1>3, <1>4 DEF Counting

\* The request after the step, as far as deletions and edits go.
LEMMA StepMoves ==
    ASSUME Rows!Admissible, Referred, Asked, Versioned, NEW c \in Clients, Deleting(c), CatalogStep(c)
    PROVE  /\ Asked' /\ Alone(c) /\ Deleting(c)'
           /\ Rows!Get(c) \/ request'[c].seen.version \in Nat
           /\ request'[c].at = "updated" => Rows!UpdateWrites(c)
           /\ request'[c].at \in {"imported", "clash"} => Rows!ImportWrites(c)
           /\ \/ request'[c].kind # "edit" \/ request'[c].at \notin {"seen", "write"}
              \/ Rows!Get(c) \/ Rows!UpdateReads(c)
<1>1. request[c].seen.version \in Nat
  BY DEF Versioned
<1>2. CASE Rows!Ask(c)
  <2>1. /\ Asked' /\ Alone(c) /\ request'[c].at = "begin" /\ request'[c].gone = {}
        /\ request'[c].seen.version = 0
    BY <1>2, Asking
  <2> QED BY <2>1, NotDeleting
<1>3. CASE Elsewhere(c)
  <2>1. /\ But(c, {"at", "seen", "base", "plan"})
        /\ Rows!Get(c) \/ request'[c].seen = request[c].seen
        /\ request'[c].at = "updated" => Rows!UpdateWrites(c)
        /\ request'[c].at \in {"imported", "clash"} => Rows!ImportWrites(c)
        /\ \/ request[c].kind # "edit" \/ request'[c].at \notin {"seen", "write"}
           \/ Rows!Get(c) \/ Rows!UpdateReads(c)
    BY <1>3, ElsewhereMoves
  <2>2. Asked' /\ Alone(c) /\ request'[c].kind = request[c].kind
    BY <2>1 DEF But, Fields
  <2>3. Deleting(c)'
    BY <1>3, ElsewhereDeletes
  <2> QED BY <1>1, <2>1, <2>2, <2>3
<1>4. CASE Counting(c)
  <2>1. request[c].kind = "delete" /\ DeletesOn(c)
    BY <1>4, CountingDeletes
  <2> QED BY <1>1, <2>1 DEF DeletesOn, Finals
<1> QED BY <1>2, <1>3, <1>4 DEF CatalogStep

LEMMA StepKeepsVersions ==
    ASSUME Rows!Admissible, Referred, Asked, Versioned, NEW c \in Clients, Deleting(c),
           CatalogStep(c)
    PROVE  Versioned' /\ (Rows!ImportWrites(c) \/ (Editing(c) => VersionsGrow))
<1>1. CASE Rows!UpdateWrites(c)
  BY <1>1, UpdateVersions, UpdateWritesEdits
<1>2. CASE ~Rows!UpdateWrites(c)
  <2>1. \A d \in Clients : request'[d].seen.version \in Nat
    <3>1. CASE Rows!Get(c)
      BY <3>1, GetEdits DEF Versioned
    <3>2. CASE ~Rows!Get(c)
      BY <3>2, StepMoves DEF Alone, Versioned
    <3> QED BY <3>1, <3>2
  <2>2. CASE Rows!ImportWrites(c)
    BY <2>1, <2>2, ImportVersions DEF Versioned
  <2>3. CASE ~Rows!ImportWrites(c)
    <3>1. UNCHANGED db \/ Rows!DeleteWrites(c) \/ Rows!InsertRow(c) \/ Rows!Rename(c)
      BY <1>2, <2>3 DEF CatalogStep, Elsewhere, Counting, Rows!Ask, Rows!Busy, Rows!Get,
           Rows!UpdateReads, Rows!ReadScenario, Rows!CountRuns, Rows!CountPresets,
           Rows!CountSchedules, Rows!DeleteReads, Rows!Unchanged, Rows!Drop, Rows!ImportReads
    <3> QED BY <2>1, <3>1, ScenariosGo, ScenariosStay DEF Versioned
  <2> QED BY <2>2, <2>3
<1> QED BY <1>1, <1>2

LEMMA StepIsNotOver ==
    ASSUME NEW c \in Clients, CatalogStep(c)
    PROVE  request[c].at # "imported"
<1>1. CASE Rows!Ask(c)
  BY <1>1 DEF Rows!Ask, Rows!Fresh
<1>2. CASE Rows!Drop(c) \/ Rows!Busy(c) \/ Rows!Get(c) \/ Rows!UpdateReads(c) \/ Rows!UpdateWrites(c)
  BY <1>2 DEF Rows!Drop, Rows!Busy, Rows!Get, Rows!Is, Rows!UpdateReads, Rows!UpdateWrites
<1>3. CASE Rows!ReadScenario(c) \/ Rows!InsertRow(c) \/ Rows!Rename(c)
  BY <1>3 DEF Rows!ReadScenario, Rows!InsertRow, Rows!Rename, Rows!Is
<1>4. CASE Rows!ImportReads(c)
  BY <1>4 DEF Rows!ImportReads, Rows!Is
<1>5. CASE Rows!ImportWrites(c)
  BY <1>5 DEF Rows!ImportWrites, Rows!Is
<1>6. CASE Counting(c)
  BY <1>6 DEF Counting, Rows!CountRuns, Rows!CountPresets, Rows!CountSchedules, Rows!DeleteReads,
              Rows!DeleteWrites, Rows!Is
<1> QED BY <1>1, <1>2, <1>3, <1>4, <1>5, <1>6 DEF CatalogStep, Elsewhere

CatalogInv ==
    /\ Referred /\ Asked /\ Versioned
    /\ \A c \in Clients : Deleting(c)
    /\ NoneImported => \A c \in Clients : Editing(c)

LEMMA StepKeepsEdits ==
    ASSUME Rows!Admissible, CatalogInv, NEW c \in Clients, CatalogStep(c), NoneImported'
    PROVE  \A d \in Clients : Editing(d)'
<1>1. /\ Referred /\ Asked /\ Versioned /\ Deleting(c)
  BY DEF CatalogInv
<1>2. Alone(c) /\ Follows /\ Versioned'
  BY <1>1, StepMoves, StepFollows, StepKeepsVersions
<1>3. NoneImported
  <2>1. request[c].at # "imported"
    BY StepIsNotOver
  <2>2. \A d \in Clients \ {c} : request[d].at # "imported"
    BY <1>2 DEF NoneImported, Alone
  <2> QED BY <2>1, <2>2 DEF NoneImported
<1>4. \A d \in Clients : Editing(d)
  BY <1>3 DEF CatalogInv
<1>5. VersionsGrow
  <2>1. CASE Rows!ImportWrites(c)
    <3>1. UNCHANGED db \/ Rows!Move(c, "imported")
      BY <2>1 DEF Rows!ImportWrites
    <3>2. ~Rows!Move(c, "imported")
      BY <1>1, Moving DEF NoneImported
    <3> QED BY <3>1, <3>2 DEF VersionsGrow
  <2>2. CASE ~Rows!ImportWrites(c)
    BY <1>1, <1>4, <2>2, StepKeepsVersions
  <2> QED BY <2>1, <2>2
<1>6. \A d \in Clients \ {c} : Editing(d)'
  BY <1>1, <1>2, <1>4, <1>5, OthersEdit DEF Alone
<1>7. Editing(c)'
  <2>1. CASE Rows!Get(c)
    BY <1>1, <2>1, GetEdits
  <2>2. CASE Rows!UpdateReads(c)
    BY <1>1, <1>4, <2>2, UpdateReadsEdits
  <2>3. CASE request'[c].kind # "edit" \/ request'[c].at \notin {"seen", "write"}
    BY <2>3 DEF Editing
  <2> QED BY <1>1, <2>1, <2>2, <2>3, StepMoves
<1> QED BY <1>6, <1>7

LEMMA RunEndsKeepsIt ==
    ASSUME CatalogInv, Rows!RunEnds
    PROVE  CatalogInv'
<1>1. /\ Referred /\ Asked /\ Versioned /\ request' = request
  BY DEF CatalogInv, Rows!RunEnds
<1>2. Follows
  BY <1>1, RunEndFollows
<1>3. Asked'
  BY <1>1 DEF Asked
<1>4. \A d \in Clients : Deleting(d)'
  BY <1>1, <1>2, OthersDelete DEF CatalogInv
<1>5. \A id \in DOMAIN db'.scenarios : id \in DOMAIN db.scenarios /\ db'.scenarios[id] = db.scenarios[id]
  <2>1. PICK old \in db.refs :
          db' = [db EXCEPT !.refs = (@ \ {old}) \cup {[old EXCEPT !.active = FALSE]}]
    BY DEF Rows!RunEnds, Rows!Commit, Rows!Active
  <2>2. db'.scenarios = db.scenarios
    BY <1>1, <2>1 DEF Referred
  <2> QED BY <2>2
<1>6. VersionsGrow /\ Versioned'
  BY <1>1, <1>5, ScenariosStay DEF Versioned
<1>7. NoneImported' => \A d \in Clients : Editing(d)'
  <2> SUFFICES ASSUME NoneImported', NEW d \in Clients PROVE Editing(d)'
    OBVIOUS
  <2>1. NoneImported
    BY <1>1 DEF NoneImported
  <2> QED BY <1>1, <1>2, <1>6, <2>1, OthersEdit DEF CatalogInv
<1> QED BY <1>2, <1>3, <1>4, <1>6, <1>7 DEF CatalogInv, Follows

LEMMA CatalogStepKeepsIt ==
    ASSUME Rows!Admissible, CatalogInv, NEW c \in Clients, CatalogStep(c)
    PROVE  CatalogInv'
<1>1. Referred /\ Asked /\ Versioned /\ Deleting(c)
  BY DEF CatalogInv
<1>2. Follows /\ Asked' /\ Alone(c) /\ Deleting(c)' /\ Versioned'
  BY <1>1, StepFollows, StepMoves, StepKeepsVersions
<1>3. \A d \in Clients \ {c} : Deleting(d)'
  BY <1>1, <1>2, OthersDelete DEF CatalogInv, Alone
<1>4. NoneImported' => \A d \in Clients : Editing(d)'
  BY StepKeepsEdits
<1> QED BY <1>2, <1>3, <1>4 DEF CatalogInv, Follows

LEMMA CatalogNextKeepsIt ==
    ASSUME Rows!Admissible, CatalogInv, [Rows!Next]_(Rows!vars)
    PROVE  CatalogInv'
<1>1. CASE \E c \in Clients : CatalogStep(c)
  BY <1>1, CatalogStepKeepsIt
<1>2. CASE Rows!RunEnds
  BY <1>2, RunEndsKeepsIt
<1>3. CASE UNCHANGED Rows!vars
  <2>1. db' = db /\ commits' = commits /\ lock' = lock /\ request' = request
    BY <1>3 DEF Rows!vars
  <2> QED BY <2>1 DEF CatalogInv, Referred, Asked, Versioned, Deleting, NoneImported, Editing
<1> QED BY <1>1, <1>2, <1>3 DEF Rows!Next, CatalogStep, Elsewhere, Counting

LEMMA CatalogInit ==
    ASSUME Rows!Admissible, Rows!Init
    PROVE  CatalogInv
<1>1. PICK world \in Worlds : db = world
  BY DEF Rows!Init
<1>2. Referred
  BY <1>1 DEF Rows!Admissible, Rows!Init, Referred, RefKinds
<1>3. /\ DOMAIN request = Clients
      /\ \A c \in Clients : request[c] = Rows!Fresh
  BY DEF Rows!Init
<1>4. /\ DOMAIN Rows!Fresh = Fields /\ Rows!Fresh.kind = "none" /\ Rows!Fresh.at = "idle"
      /\ Rows!Fresh.base = 0 /\ Rows!Fresh.since = 0 /\ Rows!Fresh.gone = {}
      /\ Rows!Fresh.seen.version = 0
  BY DEF Rows!Fresh, Fields
<1>5. Asked
  BY <1>3, <1>4 DEF Asked
<1>6. Versioned
  BY <1>1, <1>3, <1>4 DEF Rows!Admissible, Versioned
<1>7. \A c \in Clients : Deleting(c) /\ Editing(c)
  BY <1>3, <1>4 DEF Deleting, Editing
<1> QED BY <1>2, <1>5, <1>6, <1>7 DEF CatalogInv

\* A deletion takes no run that is under way and, unless the client forces it,
\* nothing that was there when it began to count: however the counts, the
\* launches, the saves and the commits of other transactions lie between
\* (api/scenarios.rs, store/scenarios.rs delete_cascade).
THEOREM DeletionsAnnounced == MCSpec => []DeletionsAreAnnounced
<1>1. MCInit => CatalogInv
  BY CatalogAssumption, CatalogInit DEF MCInit
<1>2. CatalogInv /\ [MCNext]_allVars => CatalogInv'
  <2>1. [MCNext]_allVars => [Rows!Next]_(Rows!vars)
    BY DEF MCNext, PoolNext, ShardNext, PostedNext, SettingsNext, CatalogNext, allVars, catalogVars,
           Rows!vars
  <2> QED BY <2>1, CatalogAssumption, CatalogNextKeepsIt
<1>3. CatalogInv => DeletionsAreAnnounced
  BY DEF CatalogInv, Deleting, DeletionsAreAnnounced, Rows!DeletionsAreAnnounced
<1> QED BY <1>1, <1>2, <1>3, PTL DEF MCSpec

\* A PUT that is accepted replaces the text its client was shown, however many
\* edit one scenario, as long as no file is imported (api/scenarios.rs update).
THEOREM EditsReplace == MCSpec => EditsReplaceWhatWasSeen
<1> DEFINE Replaces ==
             \A c \in Clients :
               Rows!Happens(c, "updated") =>
                 \/ db.scenarios[Rows!Scenario(c)].text = request[c].seen.text
                 \/ \E d \in Clients : request[d].at = "imported"
<1>1. MCInit => CatalogInv
  BY CatalogAssumption, CatalogInit DEF MCInit
<1>2. [MCNext]_allVars => [Rows!Next]_(Rows!vars)
  BY DEF MCNext, PoolNext, ShardNext, PostedNext, SettingsNext, CatalogNext, allVars, catalogVars,
         Rows!vars
<1>3. CatalogInv /\ [MCNext]_allVars => CatalogInv'
  BY <1>2, CatalogAssumption, CatalogNextKeepsIt
<1>4. CatalogInv /\ [MCNext]_allVars => [Replaces]_(Rows!vars)
  <2> SUFFICES ASSUME CatalogInv, Rows!Next, NEW c \in Clients, Rows!Happens(c, "updated"), NoneImported
               PROVE  db.scenarios[Rows!Scenario(c)].text = request[c].seen.text
    BY <1>2 DEF NoneImported
  <2>1. Referred /\ Asked /\ Versioned /\ Deleting(c) /\ Editing(c)
    BY DEF CatalogInv
  <2>2. PICK d \in Clients : CatalogStep(d)
    BY DEF Rows!Next, CatalogStep, Elsewhere, Counting, Rows!RunEnds, Rows!Happens
  <2>3. c = d
    BY <2>1, <2>2, StepMoves, CatalogAssumption DEF CatalogInv, Alone, Rows!Happens
  <2>4. Rows!UpdateWrites(c)
    BY <2>1, <2>2, <2>3, StepMoves, CatalogAssumption DEF Rows!Happens
  <2> QED BY <2>1, <2>4, UpdateWritesEdits DEF Rows!Scenario
<1>5. EditsReplaceWhatWasSeen <=> [][Replaces]_(Rows!vars)
  BY DEF EditsReplaceWhatWasSeen, Rows!EditsReplaceWhatWasSeen
<1> QED BY <1>1, <1>3, <1>4, <1>5, PTL DEF MCSpec

----------------------------------------------------------------------------
(***************************************************************************)
(* The names an import gives out.  Named folds AddName over the rows of    *)
(* the file; the induction is over how many of them it has seen.           *)
(***************************************************************************)
\* Some number of 2 and above is free, by the pigeonhole principle.
LEMMA UniqueName ==
    ASSUME NEW taken, IsFiniteSet(taken), NEW name \in Seq(Nat)
    PROVE  Rows!unique_name(name, taken) \notin taken
<1>1. CASE name \notin taken
  BY <1>1 DEF Rows!unique_name
<1>2. CASE name \in taken
  <2> DEFINE c    == Cardinality(taken)
             free == {n \in 2..(c + 2) : Append(name, n) \notin taken}
  <2>1. c \in Nat /\ c = Cardinality(taken)
    BY FS_CardinalityType
  <2>6. Rows!Cardinality(taken) = c
    BY DEF Rows!Cardinality, Cardinality
  <2> HIDE DEF c
  <2>2. free # {}
    <3> SUFFICES ASSUME free = {} PROVE FALSE
      OBVIOUS
    <3> DEFINE tried == [n \in 2..(c + 2) |-> Append(name, n)]
    <3>1. tried \in [2..(c + 2) -> taken]
      OBVIOUS
    <3>2. IsFiniteSet(2..(c + 2)) /\ Cardinality(2..(c + 2)) = c + 1
      <4>1. 2 \in Int /\ c + 2 \in Int /\ ~(2 > c + 2) /\ (c + 2) - 2 + 1 = c + 1
        BY <2>1
      <4> QED BY <4>1, FS_Interval
    <3>3. Cardinality(taken) < Cardinality(2..(c + 2))
      BY <2>1, <3>2
    <3> HIDE DEF tried
    <3>4. \E x, y \in 2..(c + 2) : x # y /\ tried[x] = tried[y]
      <4> DEFINE numbers == 2..(c + 2)
      <4>1. /\ IsFiniteSet(numbers) /\ IsFiniteSet(taken)
            /\ Cardinality(taken) < Cardinality(numbers) /\ tried \in [numbers -> taken]
        BY <3>1, <3>2, <3>3
      <4> HIDE DEF numbers
      <4>2. \E x, y \in numbers : x # y /\ tried[x] = tried[y]
        BY <4>1, FS_PigeonHole
      <4> QED BY <4>2 DEF numbers
    <3>5. \A x, y \in 2..(c + 2) : Append(name, x) = Append(name, y) => x = y
      <4> TAKE x, y \in 2..(c + 2)
      <4>1. /\ Append(name, x)[Len(name) + 1] = x /\ Append(name, y)[Len(name) + 1] = y
        BY <2>1
      <4> QED BY <4>1
    <3> QED BY <3>4, <3>5 DEF tried
  <2>3. \E n \in free : \A m \in free : n <= m
    <3>1. free \in SUBSET Nat
      BY <2>1
    <3> HIDE DEF free
    <3> QED BY <2>2, <3>1, ShardsAssumption, Shard!Least
  <2>4. Rows!unique_name(name, taken) = Append(name, CHOOSE n \in free : \A m \in free : n <= m)
    BY <1>2, <2>6 DEF Rows!unique_name
  <2>5. (CHOOSE n \in free : \A m \in free : n <= m) \in free
    <3> HIDE DEF free
    <3> QED BY <2>3
  <2> QED BY <2>4, <2>5
<1> QED BY <1>1, <1>2

LEMMA Last ==
    ASSUME NEW n \in Nat, NEW s \in SUBSET (1..n), s # {}
    PROVE  Rows!Max(s) \in s /\ \A y \in s : Rows!Max(s) >= y
<1> DEFINE T == {m \in Nat : \A y \in s : y <= m}
<1>1. T \in SUBSET Nat /\ n \in T
  OBVIOUS
<1> HIDE DEF T
<1>2. PICK m \in T : \A k \in T : m <= k
  BY <1>1, ShardsAssumption, Shard!Least
<1>3. m \in Nat /\ \A y \in s : y <= m
  BY DEF T
<1>4. m \in s
  <2> SUFFICES ASSUME m \notin s PROVE FALSE
    OBVIOUS
  <2>1. \A y \in s : y \in Nat /\ y >= 1 /\ y <= m - 1
    <3> TAKE y \in s
    <3>1. y \in 1..n /\ y <= m /\ y # m
      BY <1>3
    <3> QED BY <1>3, <3>1
  <2>2. m - 1 \in Nat
    <3>1. PICK y \in s : TRUE
      OBVIOUS
    <3>2. y \in Nat /\ y >= 1 /\ y <= m - 1
      BY <2>1
    <3> QED BY <1>3, <3>2
  <2>3. m - 1 \in T
    BY <2>1, <2>2 DEF T
  <2> QED BY <1>2, <1>3, <2>3
<1>5. \E x \in s : \A y \in s : x >= y
  BY <1>3, <1>4
<1> QED BY <1>5 DEF Rows!Max

\* What FoldLeft folds with, at one set of positions.
Folds(g, rows, here, s) ==
    g[s] = IF s = {} THEN Rows!NoRows
           ELSE Rows!AddName(here, g[s \ {Rows!Max(s)}], rows[Rows!Max(s)])

IsFold(g, rows, here) ==
    g = [s \in SUBSET DOMAIN rows |->
           IF s = {} THEN Rows!NoRows
           ELSE Rows!AddName(here, g[s \ {Rows!Max(s)}], rows[Rows!Max(s)])]

LEMMA FoldsExist ==
    ASSUME NEW rows, NEW here, NEW n \in Nat, DOMAIN rows = 1..n
    PROVE  \E g : IsFold(g, rows, here)
<1> DEFINE S == DOMAIN rows
           T == {k \in Nat : \E g : \A s \in SUBSET S : Cardinality(s) <= k => Folds(g, rows, here, s)}
<1>0. /\ IsFiniteSet(S) /\ Cardinality(S) \in Nat
      /\ \A s \in SUBSET S : IsFiniteSet(s) /\ Cardinality(s) \in Nat /\ Cardinality(s) <= Cardinality(S)
  <2>1. IsFiniteSet(S)
    <3>1. 1 \in Int /\ n \in Int
      OBVIOUS
    <3> QED BY <3>1, FS_Interval
  <2> HIDE DEF S
  <2>2. \A s \in SUBSET S : IsFiniteSet(s) /\ Cardinality(s) <= Cardinality(S)
    BY <2>1, FS_Subset
  <2> QED BY <2>1, <2>2, FS_CardinalityType
<1>9. \A s \in SUBSET S : s # {} =>
        /\ s \ {Rows!Max(s)} \in SUBSET S
        /\ Cardinality(s \ {Rows!Max(s)}) = Cardinality(s) - 1
  <2> SUFFICES ASSUME NEW s \in SUBSET S, s # {}
               PROVE  /\ s \ {Rows!Max(s)} \in SUBSET S
                      /\ Cardinality(s \ {Rows!Max(s)}) = Cardinality(s) - 1
    OBVIOUS
  <2>1. Rows!Max(s) \in s
    BY Last
  <2> QED BY <1>0, <2>1, FS_RemoveElement
<1> HIDE DEF S
<1>1. 0 \in T
  <2>1. \A s \in SUBSET S : Cardinality(s) <= 0 => s = {}
    BY <1>0, FS_EmptySet
  <2>2. \A s \in SUBSET S : Cardinality(s) <= 0 => Folds([s1 \in SUBSET S |-> Rows!NoRows], rows, here, s)
    BY <2>1 DEF Folds
  <2> QED BY <2>2
<1>2. ASSUME NEW k \in Nat, k \in T PROVE k + 1 \in T
  <2>1. PICK g : \A s \in SUBSET S : Cardinality(s) <= k => Folds(g, rows, here, s)
    BY <1>2
  <2> DEFINE h == [s \in SUBSET S |->
                     IF s = {} THEN Rows!NoRows
                     ELSE Rows!AddName(here, g[s \ {Rows!Max(s)}], rows[Rows!Max(s)])]
  <2>2. ASSUME NEW s \in SUBSET S, Cardinality(s) <= k PROVE h[s] = g[s]
    BY <2>1, <2>2 DEF Folds
  <2>3. ASSUME NEW s \in SUBSET S, Cardinality(s) <= k + 1 PROVE Folds(h, rows, here, s)
    <3>1. CASE s = {}
      BY <3>1 DEF Folds
    <3>2. CASE s # {}
      <4>1. s \ {Rows!Max(s)} \in SUBSET S /\ Cardinality(s \ {Rows!Max(s)}) <= k
        BY <1>0, <1>9, <2>3, <3>2
      <4>2. h[s \ {Rows!Max(s)}] = g[s \ {Rows!Max(s)}]
        BY <4>1, <2>2
      <4>3. h[s] = Rows!AddName(here, g[s \ {Rows!Max(s)}], rows[Rows!Max(s)])
        BY <3>2
      <4> HIDE DEF h
      <4> QED BY <3>2, <4>2, <4>3 DEF Folds
    <3> QED BY <3>1, <3>2
  <2> HIDE DEF h
  <2>4. \E f : \A s \in SUBSET S : Cardinality(s) <= k + 1 => Folds(f, rows, here, s)
    BY <2>3
  <2>5. k + 1 \in Nat
    OBVIOUS
  <2> QED BY <2>4, <2>5, Zenon
<1>3. T = Nat
  <2> HIDE DEF T
  <2>1. T \in SUBSET Nat
    BY DEF T
  <2> QED BY <1>1, <1>2, <2>1, ShardsAssumption, Shard!Inductive
<1>4. Cardinality(S) \in T
  BY <1>0, <1>3
<1>5. PICK g : \A s \in SUBSET S : Cardinality(s) <= Cardinality(S) => Folds(g, rows, here, s)
  BY <1>4
<1>6. \A s \in SUBSET S : Folds(g, rows, here, s)
  BY <1>0, <1>5
<1> DEFINE h == [s \in SUBSET S |-> g[s]]
<1>8. h = [s \in SUBSET S |->
             IF s = {} THEN Rows!NoRows
             ELSE Rows!AddName(here, h[s \ {Rows!Max(s)}], rows[Rows!Max(s)])]
  BY <1>6, <1>9 DEF Folds
<1> HIDE DEF h
<1> QED BY <1>8 DEF IsFold, S

LEMMA NamedFolds ==
    ASSUME NEW rows, NEW here, NEW n \in Nat, DOMAIN rows = 1..n
    PROVE  \E g : /\ Rows!Named(rows, here) = g[1..n]
                  /\ \A s \in SUBSET (1..n) : Folds(g, rows, here, s)
<1> DEFINE g == CHOOSE h : IsFold(h, rows, here)
<1>1. Rows!Named(rows, here) = g[DOMAIN rows]
  BY DEF Rows!Named, Rows!FoldLeft, Rows!MapThenFoldSet, IsFold
<1>2. IsFold(g, rows, here)
  BY FoldsExist, Zenon
<1> HIDE DEF g
<1>3. \A s \in SUBSET (1..n) : Folds(g, rows, here, s)
  BY <1>2 DEF Folds, IsFold
<1> QED BY <1>1, <1>3

----------------------------------------------------------------------------
\* What is given out after the first m rows.
GivenOut(m, names, rows, here) ==
    /\ DOMAIN names = {rows[i].id : i \in 1..m} \ DOMAIN here
    /\ IsFiniteSet(DOMAIN names)
    /\ \A id \in DOMAIN names : names[id] \notin Rows!NamesOf(here)
    /\ \A a, b \in DOMAIN names : names[a] = names[b] => a = b

AreRows(rows) ==
    /\ Len(rows) \in Nat /\ DOMAIN rows = 1..Len(rows)
    /\ \A i \in DOMAIN rows : rows[i].name \in Seq(Nat)
    /\ \A i, j \in DOMAIN rows : rows[i].id = rows[j].id => i = j

LEMMA FiniteImage ==
    ASSUME NEW f, IsFiniteSet(DOMAIN f)
    PROVE  IsFiniteSet(Rows!Range(f)) /\ Cardinality(Rows!Range(f)) <= Cardinality(DOMAIN f)
           /\ ((\A a, b \in DOMAIN f : f[a] = f[b] => a = b) =>
                 Cardinality(Rows!Range(f)) = Cardinality(DOMAIN f))
<1> DEFINE S == DOMAIN f
           T == Rows!Range(f)
           g == [x \in S |-> f[x]]
<1>1. T = {f[x] : x \in S}
  BY DEF Rows!Range
<1>2. g \in Surjection(S, T)
  BY <1>1 DEF Surjection
<1>3. (\A a, b \in S : f[a] = f[b] => a = b) => g \in Injection(S, T)
  BY <1>1 DEF Injection, IsInjective
<1> HIDE DEF g, T, S
<1>4. /\ IsFiniteSet(T) /\ Cardinality(T) <= Cardinality(S)
      /\ Cardinality(T) = Cardinality(S) <=> g \in Injection(S, T)
  BY <1>2, FS_Surjection DEF S
<1> QED BY <1>3, <1>4 DEF S, T

LEMMA OneMoreName ==
    ASSUME NEW rows, AreRows(rows), NEW here, IsFiniteSet(DOMAIN here),
           NEW m \in Nat, m + 1 \in 1..Len(rows), NEW names, GivenOut(m, names, rows, here)
    PROVE  GivenOut(m + 1, Rows!AddName(here, names, rows[m + 1]), rows, here)
<1> DEFINE row   == rows[m + 1]
           taken == Rows!NamesOf(here) \cup Rows!Range(names)
           new   == Rows!unique_name(row.name, taken)
           one   == Rows!Row(row.id, new)
           more  == Rows!With(one, names)
<1>1. {rows[i].id : i \in 1..(m + 1)} = {rows[i].id : i \in 1..m} \cup {row.id}
  <2>1. 1..(m + 1) = 1..m \cup {m + 1}
    OBVIOUS
  <2> QED BY <2>1
<1>2. CASE row.id \in DOMAIN here
  <2>1. Rows!AddName(here, names, row) = names
    BY <1>2 DEF Rows!AddName
  <2>2. {rows[i].id : i \in 1..(m + 1)} \ DOMAIN here = {rows[i].id : i \in 1..m} \ DOMAIN here
    BY <1>1, <1>2
  <2> HIDE DEF row
  <2> QED BY <2>1, <2>2 DEF GivenOut, row
<1>3. CASE row.id \notin DOMAIN here
  <2>1. Rows!AddName(here, names, row) = more
    BY <1>3 DEF Rows!AddName
  <2>2. IsFiniteSet(taken)
    <3>1. Rows!NamesOf(here) = Rows!Range([id \in DOMAIN here |-> here[id].name])
      BY DEF Rows!NamesOf, Rows!Range
    <3>2. IsFiniteSet(Rows!NamesOf(here))
      <4> DEFINE f == [id \in DOMAIN here |-> here[id].name]
      <4>1. IsFiniteSet(DOMAIN f)
        OBVIOUS
      <4> HIDE DEF f
      <4>2. IsFiniteSet(Rows!Range(f))
        BY <4>1, FiniteImage
      <4> QED BY <3>1, <4>2 DEF f
    <3>3. IsFiniteSet(Rows!Range(names))
      BY FiniteImage DEF GivenOut
    <3> QED BY <3>2, <3>3, FS_Union
  <2>3. new \notin taken
    <3>1. row.name \in Seq(Nat)
      BY DEF AreRows
    <3> HIDE DEF taken, row
    <3> QED BY <2>2, <3>1, UniqueName
  <2>4. row.id \notin DOMAIN names
    <3>1. \A i \in 1..m : rows[i].id # row.id
      <4> TAKE i \in 1..m
      <4>1. i \in DOMAIN rows /\ m + 1 \in DOMAIN rows /\ i # m + 1
        BY DEF AreRows
      <4> QED BY <4>1 DEF AreRows
    <3> HIDE DEF row
    <3> QED BY <3>1 DEF GivenOut
  <2> HIDE DEF new, row
  <2>5. DOMAIN one = {row.id} /\ one[row.id] = new
    BY DEF Rows!Row
  <2> HIDE DEF one
  <2>6. /\ DOMAIN more = {row.id} \cup DOMAIN names
        /\ more[row.id] = new
        /\ \A id \in DOMAIN names : more[id] = names[id]
    <3>1. /\ DOMAIN more = DOMAIN one \cup DOMAIN names
          /\ \A id \in DOMAIN one : more[id] = one[id]
          /\ \A id \in DOMAIN names \ DOMAIN one : more[id] = names[id]
      BY WithMore, Zenon
    <3> HIDE DEF more
    <3> QED BY <2>4, <2>5, <3>1
  <2> HIDE DEF more
  <2>7. \A id \in DOMAIN names : names[id] \in taken /\ names[id] # new
    BY <2>3 DEF Rows!Range
  <2>8. DOMAIN more = {rows[i].id : i \in 1..(m + 1)} \ DOMAIN here
    BY <1>1, <1>3, <2>6 DEF GivenOut, row
  <2>9. IsFiniteSet(DOMAIN more)
    <3>1. IsFiniteSet({row.id}) /\ IsFiniteSet(DOMAIN names)
      BY FS_Singleton DEF GivenOut
    <3>2. IsFiniteSet({row.id} \cup DOMAIN names)
      BY <3>1, FS_Union, Zenon
    <3> QED BY <2>6, <3>2
  <2>10. \A id \in DOMAIN more : more[id] \notin Rows!NamesOf(here)
    BY <2>3, <2>6 DEF GivenOut
  <2>11. \A a, b \in DOMAIN more : more[a] = more[b] => a = b
    BY <2>6, <2>7 DEF GivenOut
  <2> QED BY <2>1, <2>8, <2>9, <2>10, <2>11 DEF GivenOut, row
<1> QED BY <1>2, <1>3

\* The rows that are not here get names, which are free and differ.
LEMMA NamesAreFree ==
    ASSUME NEW rows, AreRows(rows), NEW here, IsFiniteSet(DOMAIN here)
    PROVE  GivenOut(Len(rows), Rows!Named(rows, here), rows, here)
<1> DEFINE n == Len(rows)
<1>1. n \in Nat /\ DOMAIN rows = 1..n
  BY DEF AreRows
<1> HIDE DEF n
<1>2. PICK g : /\ Rows!Named(rows, here) = g[1..n]
               /\ \A s \in SUBSET (1..n) : Folds(g, rows, here, s)
  BY <1>1, NamedFolds
<1> DEFINE T == {m \in Nat : m <= n => GivenOut(m, g[1..m], rows, here)}
<1>3. 0 \in T
  <2>1. g[{}] = Rows!NoRows
    BY <1>2 DEF Folds
  <2>2. 1..0 = {}
    OBVIOUS
  <2>3. DOMAIN Rows!NoRows = {}
    BY DEF Rows!NoRows
  <2>4. GivenOut(0, Rows!NoRows, rows, here)
    BY <2>2, <2>3, FS_EmptySet DEF GivenOut
  <2> QED BY <2>1, <2>2, <2>4
<1>4. ASSUME NEW m \in Nat, m \in T PROVE m + 1 \in T
  <2> SUFFICES ASSUME m + 1 <= n PROVE GivenOut(m + 1, g[1..(m + 1)], rows, here)
    OBVIOUS
  <2>1. m + 1 \in 1..n /\ 1..(m + 1) \in SUBSET (1..n) /\ 1..(m + 1) # {} /\ m <= n
    BY <1>1
  <2>2. Rows!Max(1..(m + 1)) = m + 1
    <3>1. /\ Rows!Max(1..(m + 1)) \in 1..(m + 1)
          /\ \A y \in 1..(m + 1) : Rows!Max(1..(m + 1)) >= y
      BY <1>1, <2>1, Last
    <3>2. m + 1 \in 1..(m + 1)
      OBVIOUS
    <3>3. Rows!Max(1..(m + 1)) >= m + 1
      BY <3>1, <3>2
    <3> QED BY <3>1, <3>3
  <2>3. (1..(m + 1)) \ {m + 1} = 1..m
    OBVIOUS
  <2>4. Folds(g, rows, here, 1..(m + 1))
    BY <1>2, <2>1
  <2>5. g[1..(m + 1)] = Rows!AddName(here, g[1..m], rows[m + 1])
    BY <2>1, <2>2, <2>3, <2>4 DEF Folds
  <2>6. GivenOut(m, g[1..m], rows, here)
    BY <1>4, <2>1
  <2> QED BY <2>1, <2>5, <2>6, OneMoreName DEF n
<1>5. T = Nat
  <2> HIDE DEF T
  <2>1. T \in SUBSET Nat
    BY DEF T
  <2> QED BY <1>3, <1>4, <2>1, ShardsAssumption, Shard!Inductive
<1>6. GivenOut(n, g[1..n], rows, here)
  BY <1>1, <1>5
<1> QED BY <1>2, <1>6 DEF n

----------------------------------------------------------------------------
\* Imports.  Who is about to write holds the lock, and so the database is still
\* the one its plan was made for.
Importing(c) ==
    request[c].kind = "import" /\ request[c].at = "write" =>
      lock = c /\ ~Rows!Conflicts /\ request[c].plan = Rows!plan_add

FiniteTables == IsFiniteSet(DOMAIN db.environments) /\ IsFiniteSet(DOMAIN db.boards)

ImportInv ==
    /\ FiniteTables /\ AreRows(file.environments) /\ AreRows(file.boards)
    /\ \A c \in Clients : Importing(c)

\* Nobody else writes while one holds the lock.
LEMMA LockedOut ==
    ASSUME NEW c \in Clients, lock # c, lock # Rows!Nobody, CatalogStep(c)
    PROVE  UNCHANGED <<db, lock, file>>
<1>1. CASE \/ Rows!Ask(c) \/ Rows!Busy(c) \/ Rows!Get(c) \/ Rows!UpdateReads(c)
           \/ Rows!ReadScenario(c) \/ Rows!CountRuns(c) \/ Rows!CountPresets(c)
           \/ Rows!CountSchedules(c) \/ Rows!DeleteReads(c)
  BY <1>1 DEF Rows!Ask, Rows!Busy, Rows!Get, Rows!UpdateReads, Rows!ReadScenario, Rows!CountRuns,
              Rows!CountPresets, Rows!CountSchedules, Rows!DeleteReads, Rows!Unchanged
<1>2. CASE Rows!Drop(c)
  BY <1>2 DEF Rows!Drop
<1>3. CASE \/ Rows!UpdateWrites(c) \/ Rows!DeleteWrites(c) \/ Rows!InsertRow(c) \/ Rows!Rename(c)
           \/ Rows!ImportReads(c)
  <2>1. lock = Rows!Nobody
    BY <1>3 DEF Rows!UpdateWrites, Rows!DeleteWrites, Rows!InsertRow, Rows!Rename, Rows!ImportReads,
                Rows!CanUpgrade, Rows!Unlocked
  <2> QED BY <2>1
<1>4. CASE Rows!ImportWrites(c)
  <2>1. lock \in {c, Rows!Nobody}
    BY <1>4 DEF Rows!ImportWrites
  <2> QED BY <2>1
<1> QED BY <1>1, <1>2, <1>3, <1>4 DEF CatalogStep, Elsewhere, Counting

LEMMA OthersImport ==
    ASSUME Rows!Admissible, NEW c \in Clients, CatalogStep(c),
           NEW d \in Clients, d # c, Importing(d), request'[d] = request[d]
    PROVE  Importing(d)'
<1> SUFFICES ASSUME request[d].kind = "import", request[d].at = "write"
             PROVE  Importing(d)'
  BY DEF Importing
<1>1. lock = d /\ ~Rows!Conflicts /\ request[d].plan = Rows!plan_add
  BY DEF Importing
<1>2. lock # c /\ lock # Rows!Nobody
  BY <1>1 DEF Rows!Admissible
<1>3. db' = db /\ lock' = lock /\ file' = file
  BY <1>2, LockedOut
<1> QED BY <1>1, <1>3 DEF Importing, Rows!Conflicts, Rows!plan_add

\* Only its reads bring an import to where it writes.
LEMMA ImportBegins ==
    ASSUME Rows!Admissible, Referred, Asked, NEW c \in Clients, Deleting(c), CatalogStep(c),
           request'[c].kind = "import", request'[c].at = "write"
    PROVE  Rows!ImportReads(c)
<1>1. CASE Rows!Ask(c)
  BY <1>1, Asking
<1>2. CASE Counting(c)
  BY <1>2, CountingDeletes DEF DeletesOn
<1>3. CASE Elsewhere(c)
  <2>1. request[c].kind = "import"
    BY <1>3, ElsewhereMoves DEF But, Fields
  <2>2. Rows!Drop(c) \/ Rows!ImportReads(c) \/ Rows!ImportWrites(c)
    BY <1>3, <2>1 DEF Elsewhere, Rows!Busy, Rows!Get, Rows!UpdateReads, Rows!UpdateWrites,
                      Rows!ReadScenario, Rows!InsertRow, Rows!Rename, Rows!Is, Rows!Refers
  <2>3. CASE Rows!Drop(c)
    <3>1. Rows!Move(c, "dropped")
      BY <2>3 DEF Rows!Drop
    <3> QED BY <3>1, Moving
  <2>4. CASE Rows!ImportWrites(c)
    <3>1. PICK at \in {"clash", "imported"} : Rows!Move(c, at)
      BY <2>4 DEF Rows!ImportWrites
    <3> QED BY <3>1, Moving
  <2> QED BY <2>2, <2>3, <2>4
<1> QED BY <1>1, <1>2, <1>3 DEF CatalogStep

LEMMA ImportReadsImports ==
    ASSUME Asked, NEW c \in Clients, Rows!ImportReads(c),
           request'[c].at = "write"
    PROVE  Importing(c)'
<1>1. ~Rows!Move(c, "conflicts")
  BY Moving
<1>2. /\ ~Rows!Conflicts /\ lock' = c /\ db' = db /\ file' = file
      /\ request' = [request EXCEPT ![c].plan = Rows!plan_add, ![c].at = "write"]
  BY <1>1 DEF Rows!ImportReads, Rows!Locks
<1>3. request'[c].plan = Rows!plan_add
  <2> DEFINE plan_ == Rows!plan_add
  <2>1. request' = [request EXCEPT ![c].plan = plan_, ![c].at = "write"]
    BY <1>2
  <2> HIDE DEF plan_
  <2>2. request'[c].plan = plan_
    BY <2>1, Setting
  <2> QED BY <2>2 DEF plan_
<1> QED BY <1>2, <1>3 DEF Importing, Rows!Conflicts, Rows!plan_add

\* The ids that rows of a file have.
LEMMA IdsOfRows ==
    ASSUME NEW rows, AreRows(rows)
    PROVE  /\ Rows!IdsOf(rows) = {rows[i].id : i \in 1..Len(rows)}
           /\ \A row \in Rows!Range(rows) : Rows!RowOf(rows, row.id) = row
<1>1. Rows!Range(rows) = {rows[i] : i \in 1..Len(rows)}
  BY DEF Rows!Range, AreRows
<1>2. Rows!IdsOf(rows) = {rows[i].id : i \in 1..Len(rows)}
  BY <1>1 DEF Rows!IdsOf
<1>3. ASSUME NEW row \in Rows!Range(rows) PROVE Rows!RowOf(rows, row.id) = row
  <2>1. \A other \in Rows!Range(rows) : other.id = row.id => other = row
    BY <1>1 DEF AreRows
  <2>2. (CHOOSE other \in Rows!Range(rows) : other.id = row.id) = row
    BY <2>1
  <2> QED BY <2>2 DEF Rows!RowOf
<1> QED BY <1>2, <1>3

\* A table to which an import adds the rows that are not here.
LEMMA NothingClashes ==
    ASSUME NEW rows, AreRows(rows), NEW here, IsFiniteSet(DOMAIN here)
    PROVE  LET names == Rows!Named(rows, here) IN
           /\ DOMAIN names = Rows!IdsOf(rows) \ DOMAIN here
           /\ Rows!Range(names) \cap Rows!NamesOf(here) = {}
           /\ Rows!Cardinality(Rows!Range(names)) = Rows!Cardinality(DOMAIN names)
<1> DEFINE names == Rows!Named(rows, here)
<1>1. GivenOut(Len(rows), names, rows, here)
  BY NamesAreFree
<1> HIDE DEF names
<1>2. DOMAIN names = Rows!IdsOf(rows) \ DOMAIN here
  BY <1>1, IdsOfRows DEF GivenOut
<1>3. Rows!Range(names) \cap Rows!NamesOf(here) = {}
  BY <1>1 DEF GivenOut, Rows!Range
<1>4. Cardinality(Rows!Range(names)) = Cardinality(DOMAIN names)
  BY <1>1, FiniteImage DEF GivenOut
<1>5. Rows!Cardinality(Rows!Range(names)) = Cardinality(Rows!Range(names))
  BY DEF Rows!Cardinality, Cardinality
<1>6. Rows!Cardinality(DOMAIN names) = Cardinality(DOMAIN names)
  BY DEF Rows!Cardinality, Cardinality
<1> QED BY <1>2, <1>3, <1>4, <1>5, <1>6 DEF names

LEMMA PlanFits ==
    ASSUME ImportInv
    PROVE  /\ ~Rows!Clashes(Rows!plan_add)
           /\ DOMAIN Rows!plan_add.environments =
                Rows!IdsOf(file.environments) \ DOMAIN db.environments
           /\ DOMAIN Rows!plan_add.boards = Rows!IdsOf(file.boards) \ DOMAIN db.boards
           /\ Rows!plan_add.scenarios = DOMAIN file.scenarios \ DOMAIN db.scenarios
<1> DEFINE e == Rows!Named(file.environments, db.environments)
           b == Rows!Named(file.boards, db.boards)
           p == Rows!plan_add
<1>1. /\ DOMAIN e = Rows!IdsOf(file.environments) \ DOMAIN db.environments
      /\ Rows!Range(e) \cap Rows!NamesOf(db.environments) = {}
      /\ Rows!Cardinality(Rows!Range(e)) = Rows!Cardinality(DOMAIN e)
  BY NothingClashes DEF ImportInv, FiniteTables
<1>2. /\ DOMAIN b = Rows!IdsOf(file.boards) \ DOMAIN db.boards
      /\ Rows!Range(b) \cap Rows!NamesOf(db.boards) = {}
      /\ Rows!Cardinality(Rows!Range(b)) = Rows!Cardinality(DOMAIN b)
  BY NothingClashes DEF ImportInv, FiniteTables
<1>3. /\ p.scenarios = DOMAIN file.scenarios \ DOMAIN db.scenarios
      /\ p.environments = e /\ p.boards = b
      /\ p["environments"] = e /\ p["boards"] = b
  BY DEF Rows!plan_add
<1> HIDE DEF e, b, p
<1>4. ~Rows!Clashes(p)
  BY <1>1, <1>2, <1>3 DEF Rows!Clashes
<1> QED BY <1>1, <1>2, <1>3, <1>4 DEF p

\* What an import does to the database.
WholeImport ==
    /\ \A relation \in {"scenarios", "environments", "boards"} :
         \A id \in DOMAIN db[relation] : db'[relation][id] = db[relation][id]
    /\ Rows!IdsOf(file.boards) \subseteq DOMAIN db'.boards \ DOMAIN db.boards
    /\ \A id \in DOMAIN file.scenarios : db'.scenarios[id].text = file.scenarios[id].text
    /\ \A row \in Rows!Range(file.environments) : db'.environments[row.id].vars = row.vars

LEMMA ImportIsWhole ==
    ASSUME Referred, ImportInv, NEW c \in Clients, Rows!ImportWrites(c)
    PROVE  Rows!Move(c, "imported") /\ WholeImport /\ FiniteTables'
<1> DEFINE p == Rows!plan_add
           s == [id \in p.scenarios |-> [version |-> 1, text |-> file.scenarios[id].text]]
           e == [id \in DOMAIN p.environments |->
                   [name |-> p.environments[id], vars |-> Rows!RowOf(file.environments, id).vars]]
           b == [id \in DOMAIN p.boards |-> [name |-> p.boards[id]]]
<1>1. request[c].plan = p /\ ~Rows!Conflicts
  BY DEF ImportInv, Importing, Rows!ImportWrites, Rows!Is
<1>2. ~Rows!Clashes(p)
  BY PlanFits
<1>3. /\ DOMAIN p.environments = Rows!IdsOf(file.environments) \ DOMAIN db.environments
      /\ DOMAIN p.boards = Rows!IdsOf(file.boards) \ DOMAIN db.boards
      /\ p.scenarios = DOMAIN file.scenarios \ DOMAIN db.scenarios
  BY PlanFits
<1> HIDE DEF p
<1>4. /\ Rows!Move(c, "imported")
      /\ db' = [db EXCEPT !.scenarios = Rows!With(s, @), !.environments = Rows!With(e, @),
                          !.boards = Rows!With(b, @)]
  BY <1>1, <1>2 DEF Rows!ImportWrites, Rows!Commit
<1>5. /\ DOMAIN s = DOMAIN file.scenarios \ DOMAIN db.scenarios
      /\ DOMAIN e = Rows!IdsOf(file.environments) \ DOMAIN db.environments
      /\ DOMAIN b = Rows!IdsOf(file.boards) \ DOMAIN db.boards
      /\ \A id \in DOMAIN s : s[id].text = file.scenarios[id].text
      /\ \A id \in DOMAIN e : e[id].vars = Rows!RowOf(file.environments, id).vars
  BY <1>3
<1> HIDE DEF s, e, b
<1>6. /\ db'.scenarios = Rows!With(s, db.scenarios)
      /\ db'.environments = Rows!With(e, db.environments)
      /\ db'.boards = Rows!With(b, db.boards)
  BY <1>4 DEF Referred
<1>7. /\ DOMAIN db'.scenarios = DOMAIN s \cup DOMAIN db.scenarios
      /\ \A id \in DOMAIN s : db'.scenarios[id] = s[id]
      /\ \A id \in DOMAIN db.scenarios \ DOMAIN s : db'.scenarios[id] = db.scenarios[id]
  <2>1. /\ DOMAIN Rows!With(s, db.scenarios) = DOMAIN s \cup DOMAIN db.scenarios
        /\ \A id \in DOMAIN s : Rows!With(s, db.scenarios)[id] = s[id]
        /\ \A id \in DOMAIN db.scenarios \ DOMAIN s :
             Rows!With(s, db.scenarios)[id] = db.scenarios[id]
    BY WithMore, Zenon
  <2> QED BY <1>6, <2>1
<1>8. /\ DOMAIN db'.environments = DOMAIN e \cup DOMAIN db.environments
      /\ \A id \in DOMAIN e : db'.environments[id] = e[id]
      /\ \A id \in DOMAIN db.environments \ DOMAIN e : db'.environments[id] = db.environments[id]
  <2>1. /\ DOMAIN Rows!With(e, db.environments) = DOMAIN e \cup DOMAIN db.environments
        /\ \A id \in DOMAIN e : Rows!With(e, db.environments)[id] = e[id]
        /\ \A id \in DOMAIN db.environments \ DOMAIN e :
             Rows!With(e, db.environments)[id] = db.environments[id]
    BY WithMore, Zenon
  <2> QED BY <1>6, <2>1
<1>9. /\ DOMAIN db'.boards = DOMAIN b \cup DOMAIN db.boards
      /\ \A id \in DOMAIN db.boards \ DOMAIN b : db'.boards[id] = db.boards[id]
  <2>1. /\ DOMAIN Rows!With(b, db.boards) = DOMAIN b \cup DOMAIN db.boards
        /\ \A id \in DOMAIN db.boards \ DOMAIN b : Rows!With(b, db.boards)[id] = db.boards[id]
    BY WithMore, Zenon
  <2> QED BY <1>6, <2>1
<1>10. \A relation \in {"scenarios", "environments", "boards"} :
         \A id \in DOMAIN db[relation] : db'[relation][id] = db[relation][id]
  <2>1. \A id \in DOMAIN db.scenarios : db'.scenarios[id] = db.scenarios[id]
    BY <1>5, <1>7
  <2>2. \A id \in DOMAIN db.environments : db'.environments[id] = db.environments[id]
    BY <1>5, <1>8
  <2>3. \A id \in DOMAIN db.boards : db'.boards[id] = db.boards[id]
    BY <1>5, <1>9
  <2> QED BY <2>1, <2>2, <2>3
<1>11. Rows!IdsOf(file.boards) \subseteq DOMAIN db'.boards \ DOMAIN db.boards
  BY <1>1, <1>5, <1>9 DEF Rows!Conflicts
<1>12. ASSUME NEW id \in DOMAIN file.scenarios PROVE db'.scenarios[id].text = file.scenarios[id].text
  BY <1>1, <1>5, <1>7 DEF Rows!Conflicts
<1>13. ASSUME NEW row \in Rows!Range(file.environments)
       PROVE  db'.environments[row.id].vars = row.vars
  <2>1. row.id \in Rows!IdsOf(file.environments)
    BY DEF Rows!IdsOf
  <2>2. CASE row.id \in DOMAIN db.environments
    BY <1>1, <1>5, <1>8, <2>2 DEF Rows!Conflicts
  <2>3. CASE row.id \notin DOMAIN db.environments
    <3>1. Rows!RowOf(file.environments, row.id) = row
      BY IdsOfRows DEF ImportInv
    <3>2. row.id \in DOMAIN e
      BY <1>5, <2>1, <2>3
    <3> QED BY <1>5, <1>8, <3>1, <3>2
  <2> QED BY <2>2, <2>3
<1>14. FiniteTables'
  <2>1. IsFiniteSet(DOMAIN e) /\ IsFiniteSet(DOMAIN b)
    <3>1. /\ GivenOut(Len(file.environments), p.environments, file.environments, db.environments)
          /\ GivenOut(Len(file.boards), p.boards, file.boards, db.boards)
      BY NamesAreFree DEF ImportInv, FiniteTables, p, Rows!plan_add
    <3> QED BY <1>3, <1>5, <3>1 DEF GivenOut
  <2>2. IsFiniteSet(DOMAIN e \cup DOMAIN db.environments)
    BY <2>1, FS_Union, Zenon DEF ImportInv, FiniteTables
  <2>3. IsFiniteSet(DOMAIN b \cup DOMAIN db.boards)
    BY <2>1, FS_Union, Zenon DEF ImportInv, FiniteTables
  <2> QED BY <1>8, <1>9, <2>2, <2>3 DEF FiniteTables
<1> QED BY <1>4, <1>10, <1>11, <1>12, <1>13, <1>14 DEF WholeImport

----------------------------------------------------------------------------
LEMMA StepKeepsFile ==
    ASSUME NEW c \in Clients, CatalogStep(c)
    PROVE  file' = file
BY DEF CatalogStep, Elsewhere, Counting, Rows!Ask, Rows!Drop, Rows!Busy, Rows!Get, Rows!UpdateReads,
       Rows!UpdateWrites, Rows!ReadScenario, Rows!InsertRow, Rows!Rename, Rows!ImportReads,
       Rows!ImportWrites, Rows!CountRuns, Rows!CountPresets, Rows!CountSchedules,
       Rows!DeleteReads, Rows!DeleteWrites, Rows!Unchanged

LEMMA RenameKeepsTables ==
    ASSUME Referred, FiniteTables, NEW c \in Clients, Rows!Rename(c)
    PROVE  FiniteTables'
<1>1. PICK name \in {<<>>, <<2>>} :
        \/ db' = [db EXCEPT !.environments =
                    Rows!With(Rows!Row(c, [name |-> name, vars |-> c]), @)]
        \/ db' = [db EXCEPT !.boards = Rows!With(Rows!Row(c, [name |-> name]), @)]
  BY DEF Rows!Rename, Rows!Commit
<1>2. IsFiniteSet({c} \cup DOMAIN db.environments) /\ IsFiniteSet({c} \cup DOMAIN db.boards)
  <2>1. IsFiniteSet({c})
    BY FS_Singleton, Zenon
  <2> QED BY <2>1, FS_Union, Zenon DEF FiniteTables
<1>3. ASSUME NEW value, NEW rows
      PROVE  DOMAIN Rows!With(Rows!Row(c, value), rows) = {c} \cup DOMAIN rows
  BY DEF Rows!With, Rows!Row
<1>4. CASE db' = [db EXCEPT !.environments =
                    Rows!With(Rows!Row(c, [name |-> name, vars |-> c]), @)]
  <2> DEFINE v == [name |-> name, vars |-> c]
  <2>1. /\ db'.environments = Rows!With(Rows!Row(c, v), db.environments)
        /\ db'.boards = db.boards
    BY <1>4 DEF Referred
  <2> HIDE DEF v
  <2>2. DOMAIN db'.environments = {c} \cup DOMAIN db.environments
    BY <1>3, <2>1
  <2> QED BY <1>2, <2>1, <2>2 DEF FiniteTables
<1>5. CASE db' = [db EXCEPT !.boards = Rows!With(Rows!Row(c, [name |-> name]), @)]
  <2> DEFINE v == [name |-> name]
  <2>1. /\ db'.boards = Rows!With(Rows!Row(c, v), db.boards)
        /\ db'.environments = db.environments
    BY <1>5 DEF Referred
  <2> HIDE DEF v
  <2>2. DOMAIN db'.boards = {c} \cup DOMAIN db.boards
    BY <1>3, <2>1
  <2> QED BY <1>2, <2>1, <2>2 DEF FiniteTables
<1> QED BY <1>1, <1>4, <1>5

LEMMA StepKeepsTables ==
    ASSUME Referred, ImportInv, NEW c \in Clients, CatalogStep(c)
    PROVE  FiniteTables'
<1>1. CASE Rows!Rename(c)
  BY <1>1, RenameKeepsTables DEF ImportInv
<1>2. CASE Rows!ImportWrites(c)
  BY <1>2, ImportIsWhole
<1>3. CASE \/ Rows!UpdateWrites(c) \/ Rows!DeleteWrites(c) \/ Rows!InsertRow(c)
  <2>1. db'.environments = db.environments /\ db'.boards = db.boards
    BY <1>3 DEF Rows!UpdateWrites, Rows!DeleteWrites, Rows!InsertRow, Rows!Commit, Referred
  <2> QED BY <2>1 DEF ImportInv, FiniteTables
<1>4. CASE UNCHANGED db
  BY <1>4 DEF ImportInv, FiniteTables
<1> QED BY <1>1, <1>2, <1>3, <1>4
        DEF CatalogStep, Elsewhere, Counting, Rows!Ask, Rows!Drop, Rows!Busy, Rows!Get,
            Rows!UpdateReads, Rows!ReadScenario, Rows!ImportReads, Rows!CountRuns,
            Rows!CountPresets, Rows!CountSchedules, Rows!DeleteReads, Rows!Unchanged

LEMMA ImportStepKeepsIt ==
    ASSUME Rows!Admissible, CatalogInv, ImportInv, NEW c \in Clients, CatalogStep(c)
    PROVE  ImportInv'
<1>1. Referred /\ Asked /\ Versioned /\ Deleting(c)
  BY DEF CatalogInv
<1>2. Alone(c) /\ file' = file /\ FiniteTables'
  BY <1>1, StepMoves, StepKeepsFile, StepKeepsTables
<1>3. \A d \in Clients \ {c} : Importing(d)'
  BY <1>2, OthersImport DEF ImportInv, Alone
<1>4. Importing(c)'
  <2>1. CASE request'[c].kind = "import" /\ request'[c].at = "write"
    <3>1. Rows!ImportReads(c)
      BY <1>1, <2>1, ImportBegins
    <3> QED BY <1>1, <2>1, <3>1, ImportReadsImports
  <2>2. CASE ~(request'[c].kind = "import" /\ request'[c].at = "write")
    BY <2>2 DEF Importing
  <2> QED BY <2>1, <2>2
<1>5. AreRows(file.environments)' /\ AreRows(file.boards)'
  BY <1>2 DEF ImportInv, AreRows
<1> QED BY <1>2, <1>3, <1>4, <1>5 DEF ImportInv

LEMMA ImportNextKeepsIt ==
    ASSUME Rows!Admissible, CatalogInv, ImportInv, [Rows!Next]_(Rows!vars)
    PROVE  ImportInv'
<1>1. CASE \E c \in Clients : CatalogStep(c)
  BY <1>1, ImportStepKeepsIt
<1>2. CASE Rows!RunEnds
  <2>1. PICK old \in db.refs :
          db' = [db EXCEPT !.refs = (@ \ {old}) \cup {[old EXCEPT !.active = FALSE]}]
    BY <1>2 DEF Rows!RunEnds, Rows!Commit, Rows!Active
  <2>2. /\ db'.environments = db.environments /\ db'.boards = db.boards
        /\ file' = file /\ lock' = lock /\ request' = request /\ lock = Rows!Nobody
    BY <1>2, <2>1 DEF CatalogInv, Referred, Rows!RunEnds, Rows!Unlocked
  <2>3. \A c \in Clients : Importing(c)'
    BY <2>2 DEF ImportInv, Importing, Rows!Admissible
  <2> QED BY <2>2, <2>3 DEF ImportInv, FiniteTables, AreRows
<1>3. CASE UNCHANGED Rows!vars
  <2>1. db' = db /\ lock' = lock /\ file' = file /\ request' = request
    BY <1>3 DEF Rows!vars
  <2>2. \A c \in Clients : Importing(c)'
    BY <2>1 DEF ImportInv, Importing, Rows!Conflicts, Rows!plan_add
  <2> QED BY <2>1, <2>2 DEF ImportInv, FiniteTables, AreRows
<1> QED BY <1>1, <1>2, <1>3 DEF Rows!Next, CatalogStep, Elsewhere, Counting

LEMMA ImportInit ==
    ASSUME Rows!Admissible, Rows!Init
    PROVE  ImportInv
<1>1. db \in Worlds /\ file \in Files
  BY DEF Rows!Init
<1>2. FiniteTables
  BY <1>1 DEF FiniteTables, Rows!Admissible, Rows!IsFiniteSet, IsFiniteSet
<1>3. AreRows(file.environments) /\ AreRows(file.boards)
  BY <1>1 DEF AreRows, Rows!Admissible
<1>4. \A c \in Clients : request[c].at = "idle"
  BY DEF Rows!Init, Rows!Fresh
<1> QED BY <1>2, <1>3, <1>4 DEF ImportInv, Importing

\* An import never fails by a name or an id that is taken, though others write
\* between its analysis and its writes if they can; it adds every board of its
\* file, leaves every row as it was, and what the boards use is then what the
\* file says (import_board_file under BEGIN IMMEDIATE).
THEOREM ImportsWhole == MCSpec => ImportsAreWhole
<1> DEFINE Whole ==
             \A c \in Clients :
               /\ ~Rows!Happens(c, "clash")
               /\ Rows!Happens(c, "imported") =>
                    /\ \A relation \in {"scenarios", "environments", "boards"} :
                         \A id \in DOMAIN db[relation] : db'[relation][id] = db[relation][id]
                    /\ Rows!IdsOf(file.boards) \subseteq DOMAIN db'.boards \ DOMAIN db.boards
                    /\ \A id \in DOMAIN file.scenarios :
                         db'.scenarios[id].text = file.scenarios[id].text
                    /\ \A row \in Rows!Range(file.environments) :
                         db'.environments[row.id].vars = row.vars
<1>1. MCInit => CatalogInv /\ ImportInv
  BY CatalogAssumption, CatalogInit, ImportInit DEF MCInit
<1>2. [MCNext]_allVars => [Rows!Next]_(Rows!vars)
  BY DEF MCNext, PoolNext, ShardNext, PostedNext, SettingsNext, CatalogNext, allVars, catalogVars,
         Rows!vars
<1>3. CatalogInv /\ ImportInv /\ [MCNext]_allVars => (CatalogInv /\ ImportInv)'
  BY <1>2, CatalogAssumption, CatalogNextKeepsIt, ImportNextKeepsIt
<1>4. CatalogInv /\ ImportInv /\ [MCNext]_allVars => [Whole]_(Rows!vars)
  <2> SUFFICES ASSUME CatalogInv, ImportInv, Rows!Next, NEW c \in Clients, NEW how \in {"clash", "imported"},
                      Rows!Happens(c, how)
               PROVE  how = "imported" /\ WholeImport
    BY <1>2 DEF WholeImport
  <2>1. Referred /\ Asked /\ Versioned /\ Deleting(c)
    BY DEF CatalogInv
  <2>2. PICK d \in Clients : CatalogStep(d)
    BY DEF Rows!Next, CatalogStep, Elsewhere, Counting, Rows!RunEnds, Rows!Happens
  <2>3. c = d
    BY <2>1, <2>2, StepMoves, CatalogAssumption DEF CatalogInv, Alone, Rows!Happens
  <2>4. Rows!ImportWrites(c)
    BY <2>1, <2>2, <2>3, StepMoves, CatalogAssumption DEF Rows!Happens
  <2>5. Rows!Move(c, "imported") /\ WholeImport
    BY <2>1, <2>4, ImportIsWhole
  <2>6. request'[c].at = "imported"
    BY <2>1, <2>5, Moving
  <2> QED BY <2>5, <2>6 DEF Rows!Happens
<1>5. ImportsAreWhole <=> [][Whole]_(Rows!vars)
  BY DEF ImportsAreWhole, Rows!ImportsAreWhole
<1> QED BY <1>1, <1>3, <1>4, <1>5, PTL DEF MCSpec

----------------------------------------------------------------------------
(***************************************************************************)
(* The types.  A run waits for no more workers than a launch may reserve,  *)
(* for it waits for those it launched on.  A worker's share of a profile   *)
(* is a profile's: of the stages that were posted, with shares of their    *)
(* targets.  A reference to a scenario goes with the scenario.             *)
(***************************************************************************)
\* What TypeOK says of the pool beyond TypeInv: a run waits for no more workers
\* than a launch may reserve, and the bounds are kept.
Bounded ==
    /\ \A r \in Runs :
         /\ expected[r] <= WorkerCap
         /\ launch[r] = "reserved" => Cardinality(queue[r]) <= WorkerCap
    /\ handler \in [Sessions -> {"none", "open", "closed"}]
    /\ excludes \in 0..MaxExcludes /\ aborts \in 0..MaxAborts /\ breaks \in 0..MaxBreaks

\* One of the idle for each worker chosen.
LEMMA ReservedAreFew ==
    ASSUME TypeInv, NEW chosen \in SUBSET IdleWorkers,
           Cardinality(chosen) = Smaller(Cardinality(IdleWorkers), WorkerCap)
    PROVE  Cardinality({<<w, entry[w].chan>> : w \in chosen}) <= WorkerCap
<1> DEFINE pairs == {<<w, entry[w].chan>> : w \in chosen}
           first == [p \in pairs |-> p[1]]
<1>1. IsFiniteSet(Workers) /\ IdleWorkers \subseteq Workers /\ WorkerCap \in Nat
  BY WorkerPoolAssumption DEF IdleWorkers
<1>2. IsFiniteSet(chosen) /\ IsFiniteSet(IdleWorkers)
  BY <1>1, FS_Subset
<1>3. Cardinality(chosen) <= WorkerCap
  <2>1. Cardinality(IdleWorkers) \in Nat
    BY <1>2, FS_CardinalityType
  <2> QED BY <1>1, <2>1 DEF Smaller
<1>4. first \in Injection(pairs, chosen)
  <2>1. first \in [pairs -> chosen]
    OBVIOUS
  <2>2. \A p, q \in pairs : first[p] = first[q] => p = q
    OBVIOUS
  <2> QED BY <2>1, <2>2 DEF Injection, IsInjective
<1> HIDE DEF pairs, first
<1>5. IsFiniteSet(pairs) /\ Cardinality(pairs) <= Cardinality(chosen)
  BY <1>2, <1>4, FS_Injection
<1>6. Cardinality(pairs) \in Nat /\ Cardinality(chosen) \in Nat
  BY <1>2, <1>5, FS_CardinalityType
<1> QED BY <1>1, <1>3, <1>5, <1>6 DEF pairs

LEMMA LaunchIsBounded ==
    ASSUME TypeInv, Bounded, NEW r \in Runs, SpawnRun(r)
    PROVE  Bounded'
<1>1. CASE Reserve(r)
  <2>1. /\ \A q \in Runs \ {r} : launch'[q] = launch[q] /\ queue'[q] = queue[q]
        /\ UNCHANGED <<expected, handler, excludes, aborts, breaks>>
    BY <1>1 DEF Reserve, TypeInv, runVars, streamVars, boundVars
  <2>2. launch'[r] = "reserved" => Cardinality(queue'[r]) <= WorkerCap
    BY <1>1, ReservedAreFew DEF Reserve, TypeInv
  <2> QED BY <2>1, <2>2 DEF Bounded
<1>2. CASE Enqueue(r)
  <2>1. /\ \A q \in Runs \ {r} : launch'[q] = launch[q] /\ expected'[q] = expected[q]
        /\ UNCHANGED <<queue, handler, excludes, aborts, breaks>>
        /\ launch'[r] = "assigning" /\ expected'[r] = Cardinality(queue[r])
        /\ launch[r] = "reserved"
    BY <1>2 DEF Enqueue, TypeInv, streamVars, boundVars
  <2> QED BY <2>1 DEF Bounded
<1>3. CASE ReleaseReservation(r) \/ AssignRegister(r) \/ AssignPush(r) \/ Launched(r) \/ CancelLaunch(r)
  <2>1. /\ \A q \in Runs \ {r} : launch'[q] = launch[q] /\ queue'[q] = queue[q]
        /\ UNCHANGED <<expected, handler, excludes, aborts, breaks>>
        /\ launch'[r] # "reserved"
    BY <1>3 DEF ReleaseReservation, AssignRegister, AssignPush, Launched, CancelLaunch, TypeInv,
                runVars, streamVars, boundVars
  <2> QED BY <2>1 DEF Bounded
<1> QED BY <1>1, <1>2, <1>3 DEF SpawnRun

LEMMA BoundedStep ==
    ASSUME TypeInv, Bounded, [Next]_vars
    PROVE  Bounded'
<1>1. CASE \E r \in Runs : SpawnRun(r)
  BY <1>1, LaunchIsBounded
<1>2. MaxSessions \in Nat /\ MaxExcludes \in Nat /\ MaxAborts \in Nat /\ MaxBreaks \in Nat
  BY WorkerPoolAssumption
<1>3. ASSUME UNCHANGED <<launch, queue, expected>>,
             handler' \in [Sessions -> {"none", "open", "closed"}],
             \/ UNCHANGED <<excludes, aborts, breaks>>
             \/ excludes < MaxExcludes /\ excludes' = excludes + 1 /\ UNCHANGED <<aborts, breaks>>
             \/ aborts < MaxAborts /\ aborts' = aborts + 1 /\ UNCHANGED <<excludes, breaks>>
             \/ breaks < MaxBreaks /\ breaks' = breaks + 1 /\ UNCHANGED <<excludes, aborts>>
      PROVE  Bounded'
  BY <1>2, <1>3 DEF Bounded
<1>4. handler \in [Sessions -> {"none", "open", "closed"}]
  BY DEF Bounded
<1>5. ASSUME NEW r \in Runs, UserAbort(r) \/ WatchdogFails(r) PROVE Bounded'
  BY <1>3, <1>4, <1>5 DEF UserAbort, WatchdogFails, launchVars, runVars, boundVars
<1>6. ASSUME NEW s \in Sessions, Handler(s) \/ LeftSessionEnds(s) \/ Break(s) PROVE Bounded'
  <2>1. CASE HandleEof(s)
    BY <1>3, <1>4, <2>1 DEF HandleEof, launchVars, runVars, boundVars
  <2>2. CASE RegisterIdle(s) \/ LeftSessionEnds(s)
    BY <1>3, <1>4, <2>2 DEF RegisterIdle, LeftSessionEnds, launchVars, runVars, boundVars
  <2>3. CASE Break(s)
    BY <1>3, <1>4, <2>3 DEF Break, launchVars, runVars
  <2>4. ASSUME NEW r \in Runs, NEW res \in Results, HandleStatus(s, r, res) PROVE Bounded'
    BY <1>3, <1>4, <2>4 DEF HandleStatus, launchVars, boundVars
  <2> QED BY <1>6, <2>1, <2>2, <2>3, <2>4 DEF Handler
<1>7. ASSUME NEW w \in Workers, Heartbeat(w) \/ Exclude(w) \/ WorkerReacts(w) \/ EngineReturns(w)
      PROVE  Bounded'
  <2>1. CASE Heartbeat(w)
    BY <1>3, <1>4, <2>1 DEF Heartbeat, HeartbeatSnapshot, HeartbeatEvict, streamVars, launchVars,
                            runVars, boundVars
  <2>2. CASE Exclude(w)
    BY <1>3, <1>4, <2>2 DEF Exclude, launchVars, runVars
  <2>3. CASE Connect(w)
    <3>1. UNCHANGED <<launch, queue, expected, excludes, aborts, breaks>>
      BY <2>3 DEF Connect, launchVars, runVars, boundVars
    <3>2. handler' \in [Sessions -> {"none", "open", "closed"}]
      BY <1>4, <2>3 DEF Connect
    <3> QED BY <1>3, <3>1, <3>2
  <2>4. CASE Accept(w) \/ Refused(w) \/ DisconnectedByOperator(w)
    BY <1>3, <1>4, <2>4 DEF Accept, Refused, DisconnectedByOperator, launchVars, runVars, boundVars
  <2>5. CASE AbortListener(w) \/ EngineReturns(w)
    BY <1>3, <1>4, <2>5 DEF AbortListener, EngineReturns, Ends, launchVars, runVars, boundVars
  <2> QED BY <1>7, <2>1, <2>2, <2>3, <2>4, <2>5 DEF WorkerReacts
<1>8. CASE UNCHANGED vars
  BY <1>3, <1>4, <1>8 DEF vars, launchVars, runVars, streamVars, boundVars
<1> QED BY <1>1, <1>5, <1>6, <1>7, <1>8 DEF Next

LEMMA PoolIsTyped == TypeInv /\ Bounded => TypeOK
<1>1. WorkerCap \in Nat
  BY WorkerPoolAssumption
<1>2. TypeInv /\ Bounded => expected \in [Runs -> 0..WorkerCap]
  BY <1>1 DEF TypeInv, Bounded
<1> QED BY <1>2 DEF TypeInv, Bounded, TypeOK

LEMMA PoolBeginsBounded == Init => Bounded
BY WorkerPoolAssumption DEF Init, Bounded

LEMMA SharesAreStages ==
    ASSUME profile \in Posted!Profile, NEW counts, NEW weighted, Divided(counts, weighted),
           NEW i \in 1..Len(counts)
    PROVE  Posted!ShareOfStages(profile.vuStages \o profile.stages, counts, weighted, i)
             \in Posted!Stages
<1> DEFINE s == profile.vuStages \o profile.stages
           given == Posted!ShareOfStages(s, counts, weighted, i)
<1>1. s \in Posted!Stages
  <2>1. profile.vuStages \in Posted!Stages /\ profile.stages \in Posted!Stages
    BY DEF Posted!Profile
  <2> QED BY <2>1 DEF Posted!Stages
<1>2. /\ counts \in Seq(Nat) /\ Len(counts) > 0 /\ weighted \in BOOLEAN
      /\ \A k \in 1..Len(counts) : counts[k] > 0
  BY DEF Divided
<1>3. ASSUME NEW t \in Nat
      PROVE  Posted!Shares("curve", t, counts, weighted)[i] \in Nat
  <2>1. Shard!Shares("curve", t, counts, weighted) \in [1..Len(counts) -> Nat]
    BY <1>2, ShardsAssumption, Shard!SharesAddUp
  <2>2. Posted!Shares("curve", t, counts, weighted) \in [1..Len(counts) -> Nat]
    BY <2>1, SameShares
  <2> QED BY <2>2
<1> HIDE DEF s
<1>4. s \in Seq([target : Nat, seconds : Nat]) /\ Len(s) \in Nat /\ DOMAIN s = 1..Len(s)
  BY <1>1 DEF Posted!Stages
<1>5. \A j \in 1..Len(s) : s[j] \in [target : Nat, seconds : Nat]
  BY <1>4, ElementsOf
<1>6. given = [j \in 1..Len(s) |->
                 [s[j] EXCEPT !.target = Posted!Shares("curve", s[j].target, counts, weighted)[i]]]
  BY <1>4 DEF Posted!ShareOfStages
<1> HIDE DEF given
<1>7. ASSUME NEW j \in 1..Len(s) PROVE given[j] \in [target : Nat, seconds : Nat]
  <2> DEFINE share == Posted!Shares("curve", s[j].target, counts, weighted)[i]
  <2>1. s[j] \in [target : Nat, seconds : Nat] /\ s[j].target \in Nat
    BY <1>5
  <2>2. share \in Nat
    BY <1>3, <2>1
  <2>3. given[j] = [s[j] EXCEPT !.target = share]
    BY <1>6
  <2> HIDE DEF share
  <2> QED BY <2>1, <2>2, <2>3
<1>8. given \in Seq([target : Nat, seconds : Nat])
  BY <1>4, <1>6, <1>7
<1> QED BY <1>8 DEF given, s, Posted!Stages

LEMMA PlansAreTyped ==
    ASSUME Posted!Admissible, profile \in Posted!Profile, Posted!Valid(profile),
           NEW counts, NEW weighted, Divided(counts, weighted),
           NEW n \in Nat, Posted!Launches(counts, weighted, n)
    PROVE  Posted!TypeOK'
<1> DEFINE p == profile
<1>1. /\ counts \in Seq(Nat) /\ Len(counts) > 0 /\ weighted \in BOOLEAN
      /\ \A k \in 1..Len(counts) : counts[k] > 0 /\ counts[k] \in Nat
  BY DEF Divided
<1>2. /\ p.timeout \in Nat /\ p.ramp \in Nat
      /\ Posted!run_duration_secs(p) \in Nat /\ Posted!startup_grace_eff(p, n) \in Nat
  BY TimesOfAProfile
<1>3. /\ profile' = profile /\ answer' = "launched"
      /\ grace' = Posted!startup_grace_eff(profile, n)
      /\ backstop' = Posted!run_duration_secs(profile) + BackstopGrace
      /\ plans' = [i \in 1..Len(counts) |-> Posted!PlanOf(profile, counts, weighted, i)]
  BY <1>1 DEF Posted!Launches
<1>4. BackstopGrace \in Nat
  BY DEF Posted!Admissible
<1>5. ASSUME NEW i \in 1..Len(counts) PROVE Posted!PlanOf(p, counts, weighted, i) \in Posted!Plan
  <2> DEFINE rate == IF p.rps = Posted!None THEN Posted!None
                     ELSE Posted!Shares("fixed", p.rps, counts, weighted)[i]
             engine == CASE Posted!is_vu_curve(p) -> "vuCurve"
                         [] ~Posted!is_vu_curve(p) /\ Posted!is_open_loop(p) -> "open"
                         [] ~Posted!is_vu_curve(p) /\ ~Posted!is_open_loop(p) -> "closed"
             stages == Posted!ShareOfStages(p.vuStages \o p.stages, counts, weighted, i)
  <2>1. rate \in Posted!Opt(Nat)
    <3>1. CASE p.rps = Posted!None
      BY <3>1 DEF Posted!Opt
    <3>2. CASE p.rps # Posted!None
      <4>1. p.rps \in Nat
        BY <3>2 DEF Posted!Profile, Posted!Opt
      <4>2. Shard!Shares("fixed", p.rps, counts, weighted) \in [1..Len(counts) -> Nat]
        BY <1>1, <4>1, ShardsAssumption, Shard!SharesAddUp
      <4>3. Posted!Shares("fixed", p.rps, counts, weighted) \in [1..Len(counts) -> Nat]
        BY <4>2, SameShares
      <4> QED BY <3>2, <4>3 DEF Posted!Opt
    <3> QED BY <3>1, <3>2
  <2>2. engine \in {"closed", "open", "vuCurve"}
    OBVIOUS
  <2>3. stages \in Posted!Stages
    BY SharesAreStages
  <2>4. Posted!PlanOf(p, counts, weighted, i)
          = [engine |-> engine, slots |-> counts[i], ramp |-> p.ramp, rps |-> rate,
             stages |-> stages, duration |-> Posted!run_duration_secs(p), timeout |-> p.timeout]
    BY DEF Posted!PlanOf
  <2> HIDE DEF rate, engine, stages, p
  <2> QED BY <1>1, <1>2, <2>1, <2>2, <2>3, <2>4 DEF Posted!Plan
<1>6. plans' \in Seq(Posted!Plan)
  <2>1. Len(counts) \in Nat
    BY <1>1
  <2> HIDE DEF p
  <2> QED BY <1>3, <1>5, <2>1 DEF p
<1> QED BY <1>2, <1>3, <1>4, <1>6 DEF Posted!TypeOK

LEMMA PostedIsTyped ==
    ASSUME Posted!Admissible, PostedInv, Posted!TypeOK, [Posted!Next]_(Posted!vars)
    PROVE  PostedInv' /\ Posted!TypeOK'
<1>1. CASE Posted!Validate
  <2>1. /\ UNCHANGED <<profile, grace, backstop, plans>>
        /\ answer' = IF Posted!Valid(profile) THEN "accepted" ELSE "refused"
    BY <1>1 DEF Posted!Validate
  <2>2. Posted!Valid(profile)' <=> Posted!Valid(profile)
    BY <2>1
  <2> QED BY <2>1, <2>2 DEF PostedInv, Posted!TypeOK
<1>2. CASE answer = "accepted" /\ (Posted!FanOut \/ Posted!PoolLaunch)
  <2>1. PostedInv'
    BY <1>2, LaunchDivides
  <2>2. PICK counts, weighted, n : /\ Divided(counts, weighted)
                                   /\ n \in Nat /\ n >= Len(counts)
                                   /\ Posted!Launches(counts, weighted, n)
    BY <1>2, LaunchDivides
  <2>3. profile \in Posted!Profile /\ Posted!Valid(profile)
    BY <1>2 DEF PostedInv
  <2> QED BY <2>1, <2>2, <2>3, PlansAreTyped
<1>3. CASE UNCHANGED Posted!vars
  <2>1. /\ profile' = profile /\ answer' = answer /\ plans' = plans
        /\ grace' = grace /\ backstop' = backstop
    BY <1>3 DEF Posted!vars
  <2>2. Posted!Valid(profile)' <=> Posted!Valid(profile)
    BY <2>1
  <2> QED BY <2>1, <2>2 DEF PostedInv, Posted!TypeOK
<1> QED BY <1>1, <1>2, <1>3 DEF Posted!Next

\* Every part's state is of its type, however many workers, clients and
\* requests there are: no number of a shard leaves its range (grpc/shard.rs), a
\* run expects no more workers than its load can use (reserve_idle_pool), a plan
\* has the shares of its profile, and what refers to a scenario goes with it
\* (delete_cascade).
THEOREM RequestsAreTyped == MCSpec => []TypesOK
<1> DEFINE PoolInv == Inv /\ Fresh /\ Bounded
           PairInv == PairTypeInv /\ Checked /\ ReadApart /\ Pair!SweepsSpareTheHealthy
           Moves   == /\ [Next]_vars /\ [Shard!Next]_(Shard!vars)
                      /\ [Posted!Next]_(Posted!vars) /\ [Pair!Next]_(Pair!vars)
                      /\ [Rows!Next]_(Rows!vars)
<1>1. [MCNext]_allVars => Moves
  <2>1. [MCNext]_allVars => [Next]_vars
    BY PoolMoves
  <2>2. [MCNext]_allVars => [Shard!Next]_(Shard!vars) /\ [Posted!Next]_(Posted!vars)
    BY DEF MCNext, PoolNext, ShardNext, PostedNext, SettingsNext, CatalogNext, allVars, requestVars,
           shardVars, postedVars, Shard!vars, Posted!vars
  <2>3. [MCNext]_allVars => [Pair!Next]_(Pair!vars) /\ [Rows!Next]_(Rows!vars)
    BY DEF MCNext, PoolNext, ShardNext, PostedNext, SettingsNext, CatalogNext, allVars, pairVars,
           catalogVars, Pair!vars, Rows!vars
  <2> QED BY <2>1, <2>2, <2>3
<1>2. MCInit => /\ Init /\ Shard!Init /\ Posted!Init /\ Pair!Init /\ Rows!Init
  BY DEF MCInit
<1>3. Shard!Spec => []Shard!TypeOK
  BY ShardsAssumption, ShardingAssumption, Shard!NumbersAreInRange
<1>4. MCInit => PoolInv
  BY <1>2, InitHolds, PoolBeginsBounded
<1>5. PoolInv /\ Moves => PoolInv'
  BY StepKeepsIt, BoundedStep DEF Inv
<1>6. PoolInv => TypeOK
  BY PoolIsTyped DEF Inv
<1>7. MCInit => PostedInv /\ Posted!TypeOK
  BY ProfileAssumption
     DEF MCInit, Posted!Init, Posted!Admissible, PostedInv, Posted!TypeOK
<1>8. PostedInv /\ Posted!TypeOK /\ Moves => PostedInv' /\ Posted!TypeOK'
  BY ProfileAssumption, PostedIsTyped
<1>9. MCInit => PairInv
  BY <1>2, SettingsAssumption, InitKeepsIt
<1>10. PairInv /\ Moves => PairInv'
  BY SettingsAssumption, TypesKept, CheckedKept, ReadsKept
<1>11. PairInv => Pair!TypeOK
  BY DEF PairTypeInv
<1>12. MCInit => CatalogInv
  BY <1>2, CatalogAssumption, CatalogInit
<1>13. CatalogInv /\ Moves => CatalogInv'
  BY CatalogAssumption, CatalogNextKeepsIt
<1>14. CatalogInv => Rows!TypeOK
  BY DEF CatalogInv, Referred, Asked, Rows!TypeOK
<1>15. MCSpec => Shard!Spec
  <2>1. MCInit => Shard!Init
    BY <1>2
  <2>2. [MCNext]_allVars => [Shard!Next]_(Shard!vars)
    BY <1>1
  <2> QED BY <2>1, <2>2, PTL DEF MCSpec, Shard!Spec
<1>16. TypesOK <=> TypeOK /\ Shard!TypeOK /\ Posted!TypeOK /\ Pair!TypeOK /\ Rows!TypeOK
  BY DEF TypesOK
<1> HIDE DEF PoolInv, PairInv, Moves
<1> QED BY <1>1, <1>3, <1>4, <1>5, <1>6, <1>7, <1>8, <1>9, <1>10, <1>11, <1>12, <1>13, <1>14,
           <1>15, <1>16, PTL DEF MCSpec
=============================================================================
