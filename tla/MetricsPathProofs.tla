------------------------- MODULE MetricsPathProofs -------------------------
(***************************************************************************)
(* What a completed run recorded is what the database has of it: for any   *)
(* number of measurements and seconds, any size of the channel and of the  *)
(* stream, any breaks and failed inserts.                                  *)
(***************************************************************************)
EXTENDS MetricsPath, TLAPS, SequenceTheorems, FiniteSetTheorems

(***************************************************************************)
(* A count over a sequence, by its partial sums: d tells what an element   *)
(* counts.                                                                 *)
(***************************************************************************)
IsSum(s, d, v) ==
    \E p \in [0..Len(s) -> Int] :
        /\ p[0] = 0 /\ p[Len(s)] = v
        /\ \A i \in 1..Len(s) : p[i] = p[i - 1] + d[s[i]]

\* All of v, if it is anything, is in one element of the sequence.
LiesIn(s, d, v) ==
    /\ \A i \in 1..Len(s) : d[s[i]] \in {0, v}
    /\ \A i, j \in 1..Len(s) : i # j => d[s[i]] = 0 \/ d[s[j]] = 0
    /\ v # 0 => \E i \in 1..Len(s) : d[s[i]] = v

LEMMA NothingInNone ==
    ASSUME NEW d PROVE IsSum(<<>>, d, 0) /\ LiesIn(<<>>, d, 0)
<1>1. IsSum(<<>>, d, 0)
  <2> DEFINE p == [i \in 0..Len(<<>>) |-> 0]
  <2>1. p \in [0..Len(<<>>) -> Int] /\ p[0] = 0 /\ p[Len(<<>>)] = 0
    OBVIOUS
  <2>2. \A i \in 1..Len(<<>>) : p[i] = p[i - 1] + d[<<>>[i]]
    OBVIOUS
  <2> QED BY <2>1, <2>2 DEF IsSum
<1>2. LiesIn(<<>>, d, 0)
  BY DEF LiesIn
<1> QED BY <1>1, <1>2

LEMMA NoneIsNothing ==
    ASSUME NEW d, NEW v PROVE (IsSum(<<>>, d, v) => v = 0) /\ (LiesIn(<<>>, d, v) => v = 0)
BY DEF IsSum, LiesIn

LEMMA OneMore ==
    ASSUME NEW S, NEW s \in Seq(S), NEW e \in S, NEW d \in [S -> Int], NEW v \in Int
    PROVE  /\ IsSum(s, d, v) => IsSum(Append(s, e), d, v + d[e])
           /\ LiesIn(s, d, v) /\ (v = 0 \/ d[e] = 0) => LiesIn(Append(s, e), d, v + d[e])
<1> DEFINE t == Append(s, e)
<1>1. /\ t \in Seq(S) /\ Len(t) = Len(s) + 1 /\ Len(s) \in Nat
      /\ \A i \in 1..Len(s) : t[i] = s[i] /\ s[i] \in S
      /\ t[Len(s) + 1] = e
  BY AppendProperties, ElementOfSeq
<1>2. d[e] \in Int /\ \A i \in 1..Len(s) : d[s[i]] \in Int /\ d[t[i]] = d[s[i]]
  BY <1>1
<1>3. d[t[Len(s) + 1]] = d[e] /\ 1..Len(t) = 1..Len(s) \cup {Len(s) + 1}
  BY <1>1
<1> HIDE DEF t
<1>4. ASSUME IsSum(s, d, v) PROVE IsSum(t, d, v + d[e])
  <2>1. PICK p \in [0..Len(s) -> Int] :
          /\ p[0] = 0 /\ p[Len(s)] = v
          /\ \A i \in 1..Len(s) : p[i] = p[i - 1] + d[s[i]]
    BY <1>4 DEF IsSum
  <2> DEFINE q == [i \in 0..Len(t) |-> IF i = Len(t) THEN v + d[e] ELSE p[i]]
  <2>2. q \in [0..Len(t) -> Int]
    BY <1>1, <1>2
  <2>3. q[0] = 0 /\ q[Len(t)] = v + d[e]
    BY <1>1, <2>1
  <2>4. ASSUME NEW i \in 1..Len(t) PROVE q[i] = q[i - 1] + d[t[i]]
    <3>1. CASE i \in 1..Len(s)
      <4>1. i \in 0..Len(t) /\ i - 1 \in 0..Len(t) /\ i # Len(t) /\ i - 1 # Len(t)
        BY <1>1, <3>1
      <4>2. q[i] = p[i] /\ q[i - 1] = p[i - 1]
        BY <4>1
      <4> QED BY <1>2, <2>1, <3>1, <4>2
    <3>2. CASE i = Len(s) + 1
      BY <1>1, <1>3, <2>1, <3>2
    <3> QED BY <1>3, <3>1, <3>2
  <2> HIDE DEF q
  <2> QED BY <2>2, <2>3, <2>4 DEF IsSum
<1>5. ASSUME LiesIn(s, d, v), v = 0 \/ d[e] = 0 PROVE LiesIn(t, d, v + d[e])
  <2>1. CASE v = 0
    <3>1. \A i \in 1..Len(s) : d[t[i]] = 0
      BY <1>2, <1>5, <2>1 DEF LiesIn
    <3> QED BY <1>1, <1>2, <1>3, <2>1, <3>1 DEF LiesIn
  <2>2. CASE d[e] = 0
    <3>1. /\ \A i \in 1..Len(s) : d[t[i]] \in {0, v}
          /\ \A i, j \in 1..Len(s) : i # j => d[t[i]] = 0 \/ d[t[j]] = 0
          /\ v # 0 => \E i \in 1..Len(s) : d[t[i]] = v
      BY <1>2, <1>5 DEF LiesIn
    <3>2. v + d[e] = v /\ d[t[Len(s) + 1]] = 0
      BY <1>3, <2>2
    <3>3. \A i, j \in 1..Len(t) : i # j => d[t[i]] = 0 \/ d[t[j]] = 0
      BY <1>3, <3>1, <3>2
    <3>4. \A i \in 1..Len(t) : d[t[i]] \in {0, v}
      BY <1>3, <3>1, <3>2
    <3>5. v # 0 => \E i \in 1..Len(t) : d[t[i]] = v
      BY <1>3, <3>1
    <3> QED BY <3>2, <3>3, <3>4, <3>5 DEF LiesIn
  <2> QED BY <1>5, <2>1, <2>2
<1> QED BY <1>4, <1>5 DEF t

LEMMA OneLess ==
    ASSUME NEW S, NEW s \in Seq(S), s # <<>>, NEW d \in [S -> Int], NEW v \in Int
    PROVE  /\ IsSum(s, d, v) => IsSum(Tail(s), d, v - d[Head(s)])
           /\ LiesIn(s, d, v) => /\ LiesIn(Tail(s), d, v - d[Head(s)])
                                 /\ d[Head(s)] \in {0, v}
           /\ d[Head(s)] \in Int
<1> DEFINE t == Tail(s)
<1> DEFINE h == d[Head(s)]
<1>1. /\ Head(s) \in S /\ t \in Seq(S) /\ Len(t) = Len(s) - 1
      /\ \A i \in 1..Len(t) : t[i] = s[i + 1]
  BY HeadTailProperties
<1>2. Len(s) \in Nat \ {0} /\ Head(s) = s[1] /\ Len(t) \in Nat
  BY <1>1
<1>3. /\ h \in Int /\ \A i \in 1..Len(s) : d[s[i]] \in Int
      /\ \A i \in 1..Len(t) : i + 1 \in 1..Len(s) /\ d[t[i]] = d[s[i + 1]]
  BY <1>1, <1>2, ElementOfSeq
<1> HIDE DEF t
<1>4. ASSUME IsSum(s, d, v) PROVE IsSum(t, d, v - h)
  <2>1. PICK p \in [0..Len(s) -> Int] :
          /\ p[0] = 0 /\ p[Len(s)] = v
          /\ \A i \in 1..Len(s) : p[i] = p[i - 1] + d[s[i]]
    BY <1>4 DEF IsSum
  <2>2. p[1] = h
    BY <1>2, <1>3, <2>1
  <2> DEFINE q == [i \in 0..Len(t) |-> p[i + 1] - h]
  <2>3. \A i \in 0..Len(t) : i + 1 \in 0..Len(s)
    BY <1>1, <1>2
  <2>4. q \in [0..Len(t) -> Int]
    BY <1>3, <2>1, <2>3
  <2>5. q[0] = 0 /\ q[Len(t)] = v - h
    BY <1>1, <1>2, <1>3, <2>1, <2>2
  <2>6. ASSUME NEW i \in 1..Len(t) PROVE q[i] = q[i - 1] + d[t[i]]
    <3>1. p[i + 1] = p[i] + d[s[i + 1]]
      BY <1>1, <1>2, <2>1, SMTT(30)
    <3>2. q[i] = p[i + 1] - h /\ q[i - 1] = p[i] - h
      BY <1>2
    <3>3. p[i] \in Int /\ p[i + 1] \in Int
      <4>1. i \in 0..Len(s) /\ i + 1 \in 0..Len(s)
        BY <1>1, <1>2
      <4> QED BY <2>1, <4>1
    <3> QED BY <1>3, <3>1, <3>2, <3>3, SMTT(30)
  <2> HIDE DEF q
  <2> QED BY <2>4, <2>5, <2>6 DEF IsSum
<1>5. ASSUME LiesIn(s, d, v) PROVE LiesIn(t, d, v - h) /\ h \in {0, v}
  <2>1. 1 \in 1..Len(s) /\ h = d[s[1]] /\ h \in {0, v}
    BY <1>2, <1>5 DEF LiesIn
  <2>2. /\ \A i \in 1..Len(t) : d[t[i]] \in {0, v}
        /\ \A i, j \in 1..Len(t) : i # j => d[t[i]] = 0 \/ d[t[j]] = 0
    <3>1. \A i \in 1..Len(t) : d[t[i]] \in {0, v}
      BY <1>3, <1>5 DEF LiesIn
    <3>2. ASSUME NEW i \in 1..Len(t), NEW j \in 1..Len(t), i # j
          PROVE  d[t[i]] = 0 \/ d[t[j]] = 0
      <4>1. i + 1 # j + 1
        BY <3>2
      <4>2. i + 1 \in 1..Len(s) /\ j + 1 \in 1..Len(s)
        BY <1>3
      <4> QED BY <1>3, <1>5, <4>1, <4>2 DEF LiesIn
    <3> QED BY <3>1, <3>2
  <2>3. CASE h # 0
    <3>1. \A i \in 1..Len(t) : d[t[i]] = 0
      <4> TAKE i \in 1..Len(t)
      <4>1. i + 1 # 1 /\ i + 1 \in 1..Len(s) /\ d[t[i]] = d[s[i + 1]]
        BY <1>2, <1>3
      <4> QED BY <1>5, <2>1, <2>3, <4>1 DEF LiesIn
    <3>2. v - h = 0
      BY <1>3, <2>1, <2>3
    <3> QED BY <2>1, <3>1, <3>2 DEF LiesIn
  <2>4. CASE h = 0
    <3>1. v - h = v
      BY <2>4
    <3>2. v # 0 => \E i \in 1..Len(t) : d[t[i]] = v
      <4> SUFFICES ASSUME v # 0 PROVE \E i \in 1..Len(t) : d[t[i]] = v
        OBVIOUS
      <4>1. PICK k \in 1..Len(s) : d[s[k]] = v
        BY <1>5 DEF LiesIn
      <4>2. k # 1
        BY <2>1, <2>4, <4>1
      <4>3. k - 1 \in 1..Len(t) /\ (k - 1) + 1 = k
        BY <1>1, <1>2, <4>2
      <4> QED BY <1>3, <4>1, <4>3
    <3> QED BY <2>1, <2>2, <3>1, <3>2 DEF LiesIn
  <2> QED BY <2>3, <2>4
<1> QED BY <1>3, <1>4, <1>5 DEF t

----------------------------------------------------------------------------
(***************************************************************************)
(* The invariant.                                                          *)
(***************************************************************************)

\* Batches and messages, whatever they count.
AnyBatch == [win : [Seconds -> Int], delta : Int, dropped : Int]
AnyMsgs  == [kind : {"metrics"}, batch : AnyBatch] \cup [kind : {"status"}, phase : Phases]

TypeInv ==
    /\ second \in Seconds /\ upTo \in Seconds
    /\ engine \in {"spawning", "running", "joined", "sending", "stopping", "reporting", "gone"}
    /\ flusher \in {"off", "tick", "lock", "send", "queued", "done"}
    /\ forwarder \in {"recv", "send", "done"}
    /\ pending \in AnyBatch /\ recorded \in AnyBatch
    /\ carried \in AnyBatch /\ stored \in AnyBatch
    /\ hand \in [Senders -> AnyBatch]
    /\ channel \in Seq(AnyBatch)
    /\ link \in Seq(AnyMsgs)

\* Who holds something is at the step where it does; nothing is sent to a
\* forwarder that has ended unless the stream broke; a status is the last
\* message, and behind it nothing is on its way.
Places ==
    /\ engine = "spawning" => flusher = "off"
    /\ hand["flusher"] # Nothing => flusher \in {"send", "queued"}
    /\ hand["engine"] # Nothing => engine = "sending"
    /\ pending # Nothing => engine \in {"spawning", "running", "joined"}
    /\ carried # Nothing => forwarder = "send"
    /\ flusher = "lock" => upTo <= second
    /\ ~open => link = <<>>
    /\ open /\ forwarder = "done" =>
         engine \in {"reporting", "gone"} /\ flusher = "done" /\ channel = <<>>
    /\ engine = "gone" => flusher = "done" /\ forwarder = "done"
    /\ \A i \in 1..Len(link) : link[i].kind = "status" => i = Len(link) /\ engine = "gone"
    /\ verdict \in Phases => engine = "gone" /\ link = <<>>

\* The counts that add up, and what of them is in the channel and the stream.
Amounts == {"delta", "dropped"}

Of(b, x)    == IF x = "delta" THEN b.delta ELSE b.dropped
InFlush(x)  == [b \in AnyBatch |-> Of(b, x)]
InMsg(x)    == [m \in AnyMsgs |-> IF m.kind = "metrics" THEN Of(m.batch, x) ELSE 0]
WinFlush(t) == [b \in AnyBatch |-> b.win[t]]
WinMsg(t)   == [m \in AnyMsgs |-> IF m.kind = "metrics" THEN m.batch.win[t] ELSE 0]

\* What was recorded is on its way or stored.
AmountKept(x) ==
    \E l, c \in Int :
        /\ IsSum(link, InMsg(x), l) /\ IsSum(channel, InFlush(x), c)
        /\ Of(recorded, x) = Of(stored, x) + l + Of(carried, x) + c
             + Of(hand["flusher"], x) + Of(hand["engine"], x) + Of(pending, x)

AtMostOne(a, b, c, d, e, f, g) ==
    /\ a = 0 \/ (b = 0 /\ c = 0 /\ d = 0 /\ e = 0 /\ f = 0 /\ g = 0)
    /\ b = 0 \/ (c = 0 /\ d = 0 /\ e = 0 /\ f = 0 /\ g = 0)
    /\ c = 0 \/ (d = 0 /\ e = 0 /\ f = 0 /\ g = 0)
    /\ d = 0 \/ (e = 0 /\ f = 0 /\ g = 0)
    /\ e = 0 \/ (f = 0 /\ g = 0)
    /\ f = 0 \/ g = 0

\* The window of a second is in one place, and while requests are made the
\* window of the present is in the aggregator.
OnePlace(t, l, c) ==
    /\ recorded.win[t] = stored.win[t] + l + carried.win[t] + c
         + hand["flusher"].win[t] + hand["engine"].win[t] + pending.win[t]
    /\ AtMostOne(stored.win[t], l, carried.win[t], c,
                 hand["flusher"].win[t], hand["engine"].win[t], pending.win[t])
    /\ engine \in {"spawning", "running"} /\ t >= second =>
         /\ stored.win[t] = 0 /\ l = 0 /\ carried.win[t] = 0 /\ c = 0
         /\ hand["flusher"].win[t] = 0 /\ hand["engine"].win[t] = 0

WindowKept(t) ==
    \E l, c \in Int :
        /\ LiesIn(link, WinMsg(t), l) /\ LiesIn(channel, WinFlush(t), c)
        /\ OnePlace(t, l, c)

Kept == (\A x \in Amounts : AmountKept(x)) /\ (\A t \in Seconds : WindowKept(t))
Flow == open /\ ~excused => Kept

Inv == TypeInv /\ Places /\ Flow /\ CompletedRunIsFullyStored

----------------------------------------------------------------------------
(***************************************************************************)
(* Batches.                                                                *)
(***************************************************************************)
LEMMA NothingIsABatch ==
    /\ Nothing \in AnyBatch
    /\ \A t \in Seconds : Nothing.win[t] = 0
    /\ \A x : Of(Nothing, x) = 0
BY DEF Nothing, AnyBatch, Of

LEMMA BatchParts ==
    ASSUME NEW b \in AnyBatch
    PROVE  /\ \A x : Of(b, x) \in Int
           /\ \A t \in Seconds : b.win[t] \in Int
           /\ \A x : InFlush(x)[b] = Of(b, x)
           /\ \A t : WinFlush(t)[b] = b.win[t]
BY DEF AnyBatch, Of, InFlush, WinFlush

LEMMA CountsOfFlushes ==
    /\ \A x : InFlush(x) \in [AnyBatch -> Int] /\ InMsg(x) \in [AnyMsgs -> Int]
    /\ \A t \in Seconds : WinFlush(t) \in [AnyBatch -> Int] /\ WinMsg(t) \in [AnyMsgs -> Int]
<1>1. \A m \in AnyMsgs : m.kind = "metrics" => m.batch \in AnyBatch
  BY DEF AnyMsgs
<1>2. ASSUME NEW x PROVE InFlush(x) \in [AnyBatch -> Int] /\ InMsg(x) \in [AnyMsgs -> Int]
  <2>1. \A b \in AnyBatch : Of(b, x) \in Int
    BY BatchParts
  <2> QED BY <1>1, <2>1 DEF InFlush, InMsg
<1>3. ASSUME NEW t \in Seconds
      PROVE  WinFlush(t) \in [AnyBatch -> Int] /\ WinMsg(t) \in [AnyMsgs -> Int]
  <2>1. \A b \in AnyBatch : b.win[t] \in Int
    BY BatchParts
  <2> QED BY <1>1, <2>1 DEF WinFlush, WinMsg
<1> QED BY <1>2, <1>3

LEMMA MessageParts ==
    /\ \A b \in AnyBatch : /\ Metrics(b) \in AnyMsgs /\ Metrics(b).kind = "metrics"
                           /\ Metrics(b).batch = b
                           /\ \A x : InMsg(x)[Metrics(b)] = Of(b, x)
                           /\ \A t : WinMsg(t)[Metrics(b)] = b.win[t]
    /\ \A p \in Phases : /\ Status(p) \in AnyMsgs /\ Status(p).kind = "status"
                         /\ Status(p).phase = p
                         /\ \A x : InMsg(x)[Status(p)] = 0
                         /\ \A t : WinMsg(t)[Status(p)] = 0
    /\ \A m \in AnyMsgs : /\ m.kind = "metrics" => m.batch \in AnyBatch
                          /\ m.kind = "status" => m.phase \in Phases
                          /\ m.kind \in {"metrics", "status"}
BY DEF Metrics, Status, AnyMsgs, InMsg, WinMsg

LEMMA BatchesAdd ==
    ASSUME NEW a \in AnyBatch, NEW b \in AnyBatch
    PROVE  /\ Plus(a, b) \in AnyBatch /\ Minus(a, b) \in AnyBatch
           /\ \A x : Of(Plus(a, b), x) = Of(a, x) + Of(b, x)
           /\ \A x : Of(Minus(a, b), x) = Of(a, x) - Of(b, x)
           /\ \A t \in Seconds : Plus(a, b).win[t] = a.win[t] + b.win[t]
           /\ \A t \in Seconds : Minus(a, b).win[t] = a.win[t] - b.win[t]
BY DEF AnyBatch, Plus, Minus, Of

LEMMA TwoFields ==
    ASSUME NEW w, NEW d, NEW r, NEW e, NEW f, NEW b, b = [win |-> w, delta |-> d, dropped |-> r]
    PROVE  [b EXCEPT !.delta = e, !.dropped = f] = [win |-> w, delta |-> e, dropped |-> f]
<1>1. [b EXCEPT !.delta = e] = [win |-> w, delta |-> e, dropped |-> r]
  OBVIOUS
<1>2. [[win |-> w, delta |-> e, dropped |-> r] EXCEPT !.dropped = f]
        = [win |-> w, delta |-> e, dropped |-> f]
  OBVIOUS
<1>3. [b EXCEPT !.delta = e, !.dropped = f] = [[b EXCEPT !.delta = e] EXCEPT !.dropped = f]
  OBVIOUS
<1> QED BY <1>1, <1>2, <1>3

\* What the flusher takes, and what an insert does.
LEMMA Taken ==
    ASSUME NEW b \in AnyBatch, NEW now
    PROVE  /\ Completed(b, now) \in AnyBatch
           /\ \A t \in Seconds : Completed(b, now).win[t] = IF t < now THEN b.win[t] ELSE 0
<1> DEFINE w == [t \in Seconds |-> IF t < now THEN b.win[t] ELSE 0]
<1>1. PICK bw \in [Seconds -> Int], bd \in Int, br \in Int :
         b = [win |-> bw, delta |-> bd, dropped |-> br]
  BY DEF AnyBatch
<1>2. w \in [Seconds -> Int] /\ \A t \in Seconds : w[t] = IF t < now THEN b.win[t] ELSE 0
  BY <1>1
<1>3. Completed(b, now) = [b EXCEPT !.win = w, !.dropped = 0]
  BY DEF Completed
<1> HIDE DEF w
<1>4. Completed(b, now) = [win |-> w, delta |-> bd, dropped |-> 0]
  BY <1>1, <1>3
<1> QED BY <1>2, <1>4 DEF AnyBatch

LEMMA Inserted ==
    ASSUME NEW a \in AnyBatch, NEW b \in AnyBatch
    PROVE  /\ KeepFirst(a, b) \in AnyBatch /\ AddDeltas(a, b) \in AnyBatch
           /\ \A t \in Seconds :
                KeepFirst(a, b).win[t] = IF a.win[t] = 0 THEN b.win[t] ELSE a.win[t]
           /\ \A x : Of(AddDeltas(a, b), x) = Of(a, x) + Of(b, x)
           /\ AddDeltas(a, b).win = a.win
           /\ \A x : Of(KeepFirst(a, b), x) = Of(a, x)
<1> DEFINE w == [t \in Seconds |-> IF a.win[t] = 0 THEN b.win[t] ELSE a.win[t]]
<1>1. PICK aw \in [Seconds -> Int], ad \in Int, ar \in Int :
         a = [win |-> aw, delta |-> ad, dropped |-> ar]
  BY DEF AnyBatch
<1>2. b.win \in [Seconds -> Int] /\ b.delta \in Int /\ b.dropped \in Int
  BY DEF AnyBatch
<1>3. w \in [Seconds -> Int]
  <2>1. \A t \in Seconds : (IF a.win[t] = 0 THEN b.win[t] ELSE a.win[t]) \in Int
    BY <1>1, <1>2
  <2> QED BY <2>1
<1>4. \A t \in Seconds : w[t] = IF a.win[t] = 0 THEN b.win[t] ELSE a.win[t]
  OBVIOUS
<1>5. KeepFirst(a, b) = [a EXCEPT !.win = w]
  BY DEF KeepFirst
<1> HIDE DEF w
<1>6. KeepFirst(a, b) = [win |-> w, delta |-> ad, dropped |-> ar]
  BY <1>1, <1>5
<1>7. AddDeltas(a, b) = [win |-> aw, delta |-> ad + b.delta, dropped |-> ar + b.dropped]
  <2>1. a.delta = ad /\ a.dropped = ar
    BY <1>1
  <2>2. AddDeltas(a, b) = [a EXCEPT !.delta = ad + b.delta, !.dropped = ar + b.dropped]
    BY <2>1 DEF AddDeltas
  <2> QED BY <1>1, <2>2, TwoFields
<1>8. KeepFirst(a, b) \in AnyBatch /\ AddDeltas(a, b) \in AnyBatch
  BY <1>2, <1>3, <1>6, <1>7 DEF AnyBatch
<1> QED BY <1>1, <1>4, <1>6, <1>7, <1>8 DEF Of

----------------------------------------------------------------------------
(***************************************************************************)
(* The invariant over the ways a batch moves.                              *)
(***************************************************************************)

\* What every step keeps to: time passes, a broken stream stays broken, a
\* loss stays excused, an engine that has joined its users measures no more.
Onward ==
    /\ second' \in Int /\ second' >= second
    /\ open' => open
    /\ excused => excused'
    /\ engine' \in {"spawning", "running"} => engine \in {"spawning", "running"}

LEMMA HandsAreBatches ==
    ASSUME TypeInv
    PROVE  /\ hand["flusher"] \in AnyBatch /\ hand["engine"] \in AnyBatch
           /\ pending \in AnyBatch /\ recorded \in AnyBatch
           /\ carried \in AnyBatch /\ stored \in AnyBatch
BY DEF TypeInv, Senders

\* What a request or an arrival without a slot adds.
LEMMA MeasuredBatches ==
    ASSUME TypeInv
    PROVE  /\ Measurement \in AnyBatch
           /\ \A t \in Seconds : Measurement.win[t] # 0 => t = second
           /\ [Nothing EXCEPT !.dropped = 1] \in AnyBatch
           /\ \A t \in Seconds : [Nothing EXCEPT !.dropped = 1].win[t] = 0
<1> DEFINE none == [t \in Seconds |-> 0]
<1> DEFINE one  == [none EXCEPT ![second] = 1]
<1>1. none \in [Seconds -> Int] /\ second \in Seconds /\ \A t \in Seconds : none[t] = 0
  BY DEF TypeInv
<1>2. Nothing = [win |-> none, delta |-> 0, dropped |-> 0] /\ Nothing.win = none
  BY DEF Nothing
<1>3. Measurement = [Nothing EXCEPT !.win = one, !.delta = 1]
  BY <1>2 DEF Measurement
<1> HIDE DEF none
<1>4. one \in [Seconds -> Int] /\ \A t \in Seconds : one[t] # 0 => t = second
  BY <1>1
<1> HIDE DEF one
<1>5. [Nothing EXCEPT !.dropped = 1] = [win |-> none, delta |-> 0, dropped |-> 1]
  BY <1>2
<1>6. [Nothing EXCEPT !.win = one, !.delta = 1] = [win |-> one, delta |-> 1, dropped |-> 0]
  <2>1. [Nothing EXCEPT !.win = one] = [win |-> one, delta |-> 0, dropped |-> 0]
    BY <1>2
  <2>2. [[win |-> one, delta |-> 0, dropped |-> 0] EXCEPT !.delta = 1]
          = [win |-> one, delta |-> 1, dropped |-> 0]
    OBVIOUS
  <2>3. [Nothing EXCEPT !.win = one, !.delta = 1] = [[Nothing EXCEPT !.win = one] EXCEPT !.delta = 1]
    OBVIOUS
  <2> QED BY <2>1, <2>2, <2>3
<1>7. Measurement \in AnyBatch /\ [Nothing EXCEPT !.dropped = 1] \in AnyBatch
  BY <1>1, <1>3, <1>4, <1>5, <1>6 DEF AnyBatch
<1> QED BY <1>1, <1>3, <1>4, <1>5, <1>6, <1>7

LEMMA Undisturbed ==
    ASSUME TypeInv, Flow, Onward,
           UNCHANGED <<pending, recorded, hand, channel, carried, link, stored>>
    PROVE  Flow'
<1> SUFFICES ASSUME open', ~excused' PROVE Kept'
  BY DEF Flow
<1>1. Kept
  BY DEF Flow, Onward
<1>2. \A x \in Amounts : AmountKept(x)'
  BY <1>1 DEF Kept, AmountKept
<1>3. ASSUME NEW t \in Seconds PROVE WindowKept(t)'
  <2>1. PICK l \in Int, c \in Int :
          LiesIn(link, WinMsg(t), l) /\ LiesIn(channel, WinFlush(t), c) /\ OnePlace(t, l, c)
    BY <1>1 DEF Kept, WindowKept
  <2>2. t \in Int /\ second \in Int
    BY DEF TypeInv, Seconds
  <2>3. t >= second' => t >= second
    BY <2>2 DEF Onward
  <2>4. OnePlace(t, l, c)'
    BY <2>1, <2>3 DEF OnePlace, Onward
  <2> QED BY <2>1, <2>4 DEF WindowKept
<1> QED BY <1>2, <1>3 DEF Kept

LEMMA Measured ==
    ASSUME NEW b \in AnyBatch, TypeInv, Flow, Onward, Recorded(b),
           engine \in {"spawning", "running"},
           \A t \in Seconds : b.win[t] # 0 => t = second,
           UNCHANGED <<second, engine, hand, channel, carried, link, stored>>
    PROVE  Flow'
<1> SUFFICES ASSUME open', ~excused' PROVE Kept'
  BY DEF Flow
<1>1. Kept
  BY DEF Flow, Onward
<1>2. pending' = Plus(pending, b) /\ recorded' = Plus(recorded, b)
  BY DEF Recorded
<1>3. ASSUME NEW x \in Amounts PROVE AmountKept(x)'
  <2>1. PICK l \in Int, c \in Int :
          /\ IsSum(link, InMsg(x), l) /\ IsSum(channel, InFlush(x), c)
          /\ Of(recorded, x) = Of(stored, x) + l + Of(carried, x) + c
               + Of(hand["flusher"], x) + Of(hand["engine"], x) + Of(pending, x)
    BY <1>1, <1>3 DEF Kept, AmountKept
  <2>2. Of(pending', x) = Of(pending, x) + Of(b, x) /\ Of(recorded', x) = Of(recorded, x) + Of(b, x)
    BY <1>2, BatchesAdd, HandsAreBatches
  <2>3. {Of(b, x), Of(recorded, x), Of(stored, x), Of(carried, x), Of(pending, x),
         Of(hand["flusher"], x), Of(hand["engine"], x)} \subseteq Int
    BY BatchParts, HandsAreBatches
  <2>4. Of(recorded', x) = Of(stored', x) + l + Of(carried', x) + c
               + Of(hand'["flusher"], x) + Of(hand'["engine"], x) + Of(pending', x)
    BY <2>1, <2>2, <2>3
  <2> QED BY <2>1, <2>4 DEF AmountKept
<1>4. ASSUME NEW t \in Seconds PROVE WindowKept(t)'
  <2>1. PICK l \in Int, c \in Int :
          LiesIn(link, WinMsg(t), l) /\ LiesIn(channel, WinFlush(t), c) /\ OnePlace(t, l, c)
    BY <1>1 DEF Kept, WindowKept
  <2>2. /\ pending'.win[t] = pending.win[t] + b.win[t]
        /\ recorded'.win[t] = recorded.win[t] + b.win[t]
    BY <1>2, BatchesAdd, HandsAreBatches
  <2>3. {b.win[t], recorded.win[t], stored.win[t], carried.win[t], pending.win[t],
         hand["flusher"].win[t], hand["engine"].win[t]} \subseteq Int
    BY BatchParts, HandsAreBatches
  <2>4. t \in Int /\ second \in Int
    BY DEF TypeInv, Seconds
  <2>5. OnePlace(t, l, c)'
    <3>1. CASE b.win[t] = 0
      <4>1. pending'.win[t] = pending.win[t] /\ recorded'.win[t] = recorded.win[t]
        BY <2>2, <2>3, <3>1
      <4> QED BY <2>1, <4>1 DEF OnePlace
    <3>2. CASE b.win[t] # 0
      <4>1. /\ stored.win[t] = 0 /\ l = 0 /\ carried.win[t] = 0 /\ c = 0
            /\ hand["flusher"].win[t] = 0 /\ hand["engine"].win[t] = 0
            /\ recorded.win[t] = stored.win[t] + l + carried.win[t] + c
                 + hand["flusher"].win[t] + hand["engine"].win[t] + pending.win[t]
        BY <2>1, <2>4, <3>2 DEF OnePlace
      <4>2. recorded'.win[t] = pending'.win[t] /\ pending'.win[t] \in Int
        BY <2>2, <2>3, <4>1
      <4> QED BY <4>1, <4>2 DEF OnePlace, AtMostOne
    <3> QED BY <3>1, <3>2
  <2> QED BY <2>1, <2>5 DEF WindowKept
<1> QED BY <1>3, <1>4 DEF Kept

LEMMA SentOn ==
    ASSUME NEW s \in Senders, TypeInv, Flow, Onward,
           channel' = Append(channel, hand[s]), hand' = [hand EXCEPT ![s] = Nothing],
           UNCHANGED <<pending, recorded, carried, link, stored>>
    PROVE  Flow'
<1> SUFFICES ASSUME open', ~excused' PROVE Kept'
  BY DEF Flow
<1>1. Kept
  BY DEF Flow, Onward
<1>2. /\ s = "flusher" => hand'["flusher"] = Nothing /\ hand'["engine"] = hand["engine"]
      /\ s = "engine" => hand'["engine"] = Nothing /\ hand'["flusher"] = hand["flusher"]
      /\ s \in {"flusher", "engine"}
  BY DEF TypeInv, Senders
<1>3. hand[s] \in AnyBatch /\ channel \in Seq(AnyBatch)
  BY DEF TypeInv
<1>4. ASSUME NEW x \in Amounts PROVE AmountKept(x)'
  <2>1. PICK l \in Int, c \in Int :
          /\ IsSum(link, InMsg(x), l) /\ IsSum(channel, InFlush(x), c)
          /\ Of(recorded, x) = Of(stored, x) + l + Of(carried, x) + c
               + Of(hand["flusher"], x) + Of(hand["engine"], x) + Of(pending, x)
    BY <1>1, <1>4 DEF Kept, AmountKept
  <2>2. {Of(hand[s], x), Of(recorded, x), Of(stored, x), Of(carried, x), Of(pending, x),
         Of(hand["flusher"], x), Of(hand["engine"], x)} \subseteq Int
    BY <1>3, BatchParts, HandsAreBatches
  <2>3. IsSum(channel', InFlush(x), c + Of(hand[s], x))
    <3>1. InFlush(x) \in [AnyBatch -> Int] /\ InFlush(x)[hand[s]] = Of(hand[s], x)
      BY <1>3, CountsOfFlushes, BatchParts
    <3> QED BY <1>3, <2>1, <3>1, OneMore
  <2>4. Of(Nothing, x) = 0
    BY NothingIsABatch
  <2>5. Of(recorded', x) = Of(stored', x) + l + Of(carried', x) + (c + Of(hand[s], x))
               + Of(hand'["flusher"], x) + Of(hand'["engine"], x) + Of(pending', x)
    <3>1. CASE s = "flusher"
      BY <1>2, <2>1, <2>2, <2>4, <3>1, SMTT(30)
    <3>2. CASE s = "engine"
      BY <1>2, <2>1, <2>2, <2>4, <3>2, SMTT(30)
    <3> QED BY <1>2, <3>1, <3>2
  <2>6. c + Of(hand[s], x) \in Int
    BY <2>2
  <2> QED BY <2>1, <2>3, <2>5, <2>6 DEF AmountKept
<1>5. ASSUME NEW t \in Seconds PROVE WindowKept(t)'
  <2>1. PICK l \in Int, c \in Int :
          LiesIn(link, WinMsg(t), l) /\ LiesIn(channel, WinFlush(t), c) /\ OnePlace(t, l, c)
    BY <1>1 DEF Kept, WindowKept
  <2>2. {hand[s].win[t], recorded.win[t], stored.win[t], carried.win[t], pending.win[t],
         hand["flusher"].win[t], hand["engine"].win[t]} \subseteq Int
    BY <1>3, BatchParts, HandsAreBatches
  <2>3. c = 0 \/ hand[s].win[t] = 0
    BY <1>2, <2>1 DEF OnePlace, AtMostOne
  <2>4. LiesIn(channel', WinFlush(t), c + hand[s].win[t])
    <3>1. WinFlush(t) \in [AnyBatch -> Int] /\ WinFlush(t)[hand[s]] = hand[s].win[t]
      BY <1>3, CountsOfFlushes, BatchParts
    <3> QED BY <1>3, <2>1, <2>3, <3>1, OneMore
  <2>5. Nothing.win[t] = 0
    BY NothingIsABatch
  <2>6. t \in Int /\ second \in Int
    BY DEF TypeInv, Seconds
  <2>7. t >= second' => t >= second
    BY <2>6 DEF Onward
  <2>8. PICK cc \in Int : cc = c + hand[s].win[t]
    BY <2>2
  <2>9. OnePlace(t, l, cc)'
    <3>1. CASE hand[s].win[t] = 0
      <4>1. /\ cc = c /\ hand'["flusher"].win[t] = hand["flusher"].win[t]
            /\ hand'["engine"].win[t] = hand["engine"].win[t]
        BY <1>2, <2>5, <2>8, <3>1
      <4> QED BY <2>1, <2>7, <4>1 DEF OnePlace, Onward
    <3>2. CASE hand[s].win[t] # 0
      <4>1. /\ stored.win[t] = 0 /\ l = 0 /\ carried.win[t] = 0 /\ c = 0 /\ pending.win[t] = 0
            /\ s = "flusher" => hand["engine"].win[t] = 0
            /\ s = "engine" => hand["flusher"].win[t] = 0
        BY <1>2, <2>1, <3>2 DEF OnePlace, AtMostOne
      <4>2. hand'["flusher"].win[t] = 0 /\ hand'["engine"].win[t] = 0
        BY <1>2, <2>5, <4>1
      <4>3. recorded.win[t] = hand[s].win[t] /\ cc = hand[s].win[t]
        <5>1. recorded.win[t] = hand["flusher"].win[t] + hand["engine"].win[t]
          BY <2>1, <2>2, <4>1 DEF OnePlace
        <5>2. CASE s = "flusher"
          BY <2>2, <2>8, <4>1, <5>1, <5>2
        <5>3. CASE s = "engine"
          BY <2>2, <2>8, <4>1, <5>1, <5>3
        <5> QED BY <1>2, <5>2, <5>3
      <4>4. ~(engine' \in {"spawning", "running"} /\ t >= second')
        BY <1>2, <2>1, <2>7, <3>2 DEF OnePlace, Onward
      <4> QED BY <2>2, <4>1, <4>2, <4>3, <4>4 DEF OnePlace, AtMostOne
    <3> QED BY <3>1, <3>2
  <2> QED BY <2>1, <2>4, <2>8, <2>9 DEF WindowKept
<1> QED BY <1>4, <1>5 DEF Kept

LEMMA DrainedByTheFlusher ==
    ASSUME TypeInv, Places, Flow, Onward, FlusherDrain PROVE Flow'
<1> SUFFICES ASSUME open', ~excused' PROVE Kept'
  BY DEF Flow
<1>1. Kept
  BY DEF Flow, Onward
<1> DEFINE taken == Completed(pending, upTo)
<1>2. /\ pending' = Minus(pending, taken) /\ hand'["flusher"] = taken
      /\ hand'["engine"] = hand["engine"] /\ hand["flusher"] = Nothing
      /\ upTo <= second /\ second' = second /\ engine' = engine
      /\ UNCHANGED <<recorded, channel, carried, link, stored>>
  BY DEF FlusherDrain, TypeInv, Places, Senders, forwarderVars, linkVars, storeVars
<1>3. /\ taken \in AnyBatch
      /\ \A t \in Seconds : taken.win[t] = IF t < upTo THEN pending.win[t] ELSE 0
  BY Taken, HandsAreBatches
<1> HIDE DEF taken
<1>4. ASSUME NEW x \in Amounts PROVE AmountKept(x)'
  <2>1. PICK l \in Int, c \in Int :
          /\ IsSum(link, InMsg(x), l) /\ IsSum(channel, InFlush(x), c)
          /\ Of(recorded, x) = Of(stored, x) + l + Of(carried, x) + c
               + Of(hand["flusher"], x) + Of(hand["engine"], x) + Of(pending, x)
    BY <1>1, <1>4 DEF Kept, AmountKept
  <2>2. {Of(taken, x), Of(recorded, x), Of(stored, x), Of(carried, x), Of(pending, x),
         Of(hand["flusher"], x), Of(hand["engine"], x)} \subseteq Int
    BY <1>3, BatchParts, HandsAreBatches
  <2>3. Of(pending', x) = Of(pending, x) - Of(taken, x) /\ Of(hand["flusher"], x) = 0
    BY <1>2, <1>3, BatchesAdd, HandsAreBatches, NothingIsABatch
  <2>4. Of(recorded', x) = Of(stored', x) + l + Of(carried', x) + c
               + Of(hand'["flusher"], x) + Of(hand'["engine"], x) + Of(pending', x)
    BY <1>2, <2>1, <2>2, <2>3
  <2> QED BY <1>2, <2>1, <2>4 DEF AmountKept
<1>5. ASSUME NEW t \in Seconds PROVE WindowKept(t)'
  <2>1. PICK l \in Int, c \in Int :
          LiesIn(link, WinMsg(t), l) /\ LiesIn(channel, WinFlush(t), c) /\ OnePlace(t, l, c)
    BY <1>1 DEF Kept, WindowKept
  <2>2. {taken.win[t], recorded.win[t], stored.win[t], carried.win[t], pending.win[t],
         hand["flusher"].win[t], hand["engine"].win[t]} \subseteq Int
    BY <1>3, BatchParts, HandsAreBatches
  <2>3. /\ pending'.win[t] = pending.win[t] - taken.win[t] /\ hand["flusher"].win[t] = 0
        /\ taken.win[t] = IF t < upTo THEN pending.win[t] ELSE 0
    BY <1>2, <1>3, BatchesAdd, HandsAreBatches, NothingIsABatch
  <2>4. t \in Int /\ second \in Int /\ upTo \in Int
    BY DEF TypeInv, Seconds
  <2>5. OnePlace(t, l, c)'
    BY <1>2, <2>1, <2>2, <2>3, <2>4 DEF OnePlace, AtMostOne
  <2> QED BY <1>2, <2>1, <2>5 DEF WindowKept
<1> QED BY <1>4, <1>5 DEF Kept

LEMMA DrainedByTheEngine ==
    ASSUME TypeInv, Places, Flow, Onward, FinalDrain PROVE Flow'
<1> SUFFICES ASSUME open', ~excused' PROVE Kept'
  BY DEF Flow
<1>1. Kept
  BY DEF Flow, Onward
<1>2. /\ pending' = Nothing /\ hand'["engine"] = pending
      /\ hand'["flusher"] = hand["flusher"] /\ hand["engine"] = Nothing
      /\ engine' \notin {"spawning", "running"}
      /\ UNCHANGED <<recorded, channel, carried, link, stored>>
  BY DEF FinalDrain, TypeInv, Places, Senders, forwarderVars, linkVars, storeVars
<1>3. ASSUME NEW x \in Amounts PROVE AmountKept(x)'
  <2>1. PICK l \in Int, c \in Int :
          /\ IsSum(link, InMsg(x), l) /\ IsSum(channel, InFlush(x), c)
          /\ Of(recorded, x) = Of(stored, x) + l + Of(carried, x) + c
               + Of(hand["flusher"], x) + Of(hand["engine"], x) + Of(pending, x)
    BY <1>1, <1>3 DEF Kept, AmountKept
  <2>2. {Of(recorded, x), Of(stored, x), Of(carried, x), Of(pending, x),
         Of(hand["flusher"], x), Of(hand["engine"], x)} \subseteq Int
    BY BatchParts, HandsAreBatches
  <2>3. Of(pending', x) = 0 /\ Of(hand["engine"], x) = 0
    BY <1>2, NothingIsABatch
  <2>4. Of(recorded', x) = Of(stored', x) + l + Of(carried', x) + c
               + Of(hand'["flusher"], x) + Of(hand'["engine"], x) + Of(pending', x)
    BY <1>2, <2>1, <2>2, <2>3
  <2> QED BY <1>2, <2>1, <2>4 DEF AmountKept
<1>4. ASSUME NEW t \in Seconds PROVE WindowKept(t)'
  <2>1. PICK l \in Int, c \in Int :
          LiesIn(link, WinMsg(t), l) /\ LiesIn(channel, WinFlush(t), c) /\ OnePlace(t, l, c)
    BY <1>1 DEF Kept, WindowKept
  <2>2. {recorded.win[t], stored.win[t], carried.win[t], pending.win[t],
         hand["flusher"].win[t], hand["engine"].win[t]} \subseteq Int
    BY BatchParts, HandsAreBatches
  <2>3. pending'.win[t] = 0 /\ hand["engine"].win[t] = 0
    BY <1>2, NothingIsABatch
  <2>4. OnePlace(t, l, c)'
    BY <1>2, <2>1, <2>2, <2>3 DEF OnePlace, AtMostOne
  <2> QED BY <1>2, <2>1, <2>4 DEF WindowKept
<1> QED BY <1>3, <1>4 DEF Kept

LEMMA ReceivedByTheForwarder ==
    ASSUME TypeInv, Places, Flow, Onward, ForwarderRecv PROVE Flow'
<1> SUFFICES ASSUME open', ~excused' PROVE Kept'
  BY DEF Flow
<1>1. Kept
  BY DEF Flow, Onward
<1> DEFINE b == Head(channel)
<1>2. /\ channel # <<>> /\ channel \in Seq(AnyBatch) /\ b \in AnyBatch
      /\ channel' = Tail(channel)
      /\ UNCHANGED <<second, engine, pending, recorded, hand, link, stored>>
  BY HeadTailProperties DEF ForwarderRecv, TypeInv, engineVars, linkVars, storeVars
<1>3. /\ carried = Nothing
      /\ (b = Nothing /\ carried' = Nothing) \/ carried' = b
  BY DEF ForwarderRecv, Places, Skipped, forwarderVars
<1> HIDE DEF b
<1>4. ASSUME NEW x \in Amounts PROVE AmountKept(x)'
  <2>1. PICK l \in Int, c \in Int :
          /\ IsSum(link, InMsg(x), l) /\ IsSum(channel, InFlush(x), c)
          /\ Of(recorded, x) = Of(stored, x) + l + Of(carried, x) + c
               + Of(hand["flusher"], x) + Of(hand["engine"], x) + Of(pending, x)
    BY <1>1, <1>4 DEF Kept, AmountKept
  <2>2. {Of(b, x), Of(recorded, x), Of(stored, x), Of(carried, x), Of(pending, x),
         Of(hand["flusher"], x), Of(hand["engine"], x)} \subseteq Int
    BY <1>2, BatchParts, HandsAreBatches
  <2>3. IsSum(channel', InFlush(x), c - Of(b, x))
    <3>1. InFlush(x) \in [AnyBatch -> Int] /\ InFlush(x)[b] = Of(b, x)
      BY <1>2, CountsOfFlushes, BatchParts
    <3> QED BY <1>2, <2>1, <3>1, OneLess DEF b
  <2>4. Of(carried, x) = 0 /\ Of(carried', x) = Of(b, x)
    BY <1>3, NothingIsABatch
  <2>5. Of(recorded', x) = Of(stored', x) + l + Of(carried', x) + (c - Of(b, x))
               + Of(hand'["flusher"], x) + Of(hand'["engine"], x) + Of(pending', x)
    BY <1>2, <2>1, <2>2, <2>4
  <2>6. c - Of(b, x) \in Int
    BY <2>2
  <2> QED BY <1>2, <2>1, <2>3, <2>5, <2>6 DEF AmountKept
<1>5. ASSUME NEW t \in Seconds PROVE WindowKept(t)'
  <2>1. PICK l \in Int, c \in Int :
          LiesIn(link, WinMsg(t), l) /\ LiesIn(channel, WinFlush(t), c) /\ OnePlace(t, l, c)
    BY <1>1 DEF Kept, WindowKept
  <2>2. {b.win[t], recorded.win[t], stored.win[t], carried.win[t], pending.win[t],
         hand["flusher"].win[t], hand["engine"].win[t]} \subseteq Int
    BY <1>2, BatchParts, HandsAreBatches
  <2>3. LiesIn(channel', WinFlush(t), c - b.win[t]) /\ b.win[t] \in {0, c}
    <3>1. WinFlush(t) \in [AnyBatch -> Int] /\ WinFlush(t)[b] = b.win[t]
      BY <1>2, CountsOfFlushes, BatchParts
    <3> QED BY <1>2, <2>1, <3>1, OneLess DEF b
  <2>4. carried.win[t] = 0 /\ carried'.win[t] = b.win[t]
    BY <1>3, NothingIsABatch
  <2>5. PICK cc \in Int : cc = c - b.win[t]
    BY <2>2
  <2>6. OnePlace(t, l, cc)'
    <3>1. CASE b.win[t] = 0
      <4>1. cc = c /\ carried'.win[t] = carried.win[t]
        BY <2>4, <2>5, <3>1
      <4> QED BY <1>2, <2>1, <4>1 DEF OnePlace
    <3>2. CASE b.win[t] # 0
      <4>1. cc = 0 /\ c # 0 /\ carried'.win[t] = c
        BY <2>2, <2>3, <2>4, <2>5, <3>2
      <4>2. /\ stored.win[t] = 0 /\ l = 0 /\ hand["flusher"].win[t] = 0
            /\ hand["engine"].win[t] = 0 /\ pending.win[t] = 0
            /\ ~(engine \in {"spawning", "running"} /\ t >= second)
        BY <2>1, <4>1 DEF OnePlace, AtMostOne
      <4>3. recorded.win[t] = c
        BY <2>1, <2>2, <2>4, <4>2 DEF OnePlace
      <4> QED BY <1>2, <2>2, <4>1, <4>2, <4>3 DEF OnePlace, AtMostOne
    <3> QED BY <3>1, <3>2
  <2> QED BY <1>2, <2>1, <2>3, <2>5, <2>6 DEF WindowKept
<1> QED BY <1>4, <1>5 DEF Kept

LEMMA SentByTheForwarder ==
    ASSUME TypeInv, Places, Flow, Onward, ForwarderSend PROVE Flow'
<1> SUFFICES ASSUME open', ~excused' PROVE Kept'
  BY DEF Flow
<1>1. Kept
  BY DEF Flow, Onward
<1> DEFINE m == Metrics(carried)
<1>2. /\ link \in Seq(AnyMsgs) /\ m \in AnyMsgs
      /\ link' = Append(link, m) /\ carried' = Nothing
      /\ UNCHANGED <<second, engine, pending, recorded, hand, channel, stored>>
  BY HandsAreBatches, MessageParts
     DEF ForwarderSend, TypeInv, Onward, engineVars, sendVars, storeVars
<1>3. /\ \A x : InMsg(x)[m] = Of(carried, x)
      /\ \A t : WinMsg(t)[m] = carried.win[t]
  BY HandsAreBatches, MessageParts
<1> HIDE DEF m
<1>4. ASSUME NEW x \in Amounts PROVE AmountKept(x)'
  <2>1. PICK l \in Int, c \in Int :
          /\ IsSum(link, InMsg(x), l) /\ IsSum(channel, InFlush(x), c)
          /\ Of(recorded, x) = Of(stored, x) + l + Of(carried, x) + c
               + Of(hand["flusher"], x) + Of(hand["engine"], x) + Of(pending, x)
    BY <1>1, <1>4 DEF Kept, AmountKept
  <2>2. {Of(recorded, x), Of(stored, x), Of(carried, x), Of(pending, x),
         Of(hand["flusher"], x), Of(hand["engine"], x)} \subseteq Int
    BY BatchParts, HandsAreBatches
  <2>3. IsSum(link', InMsg(x), l + Of(carried, x))
    <3>1. InMsg(x) \in [AnyMsgs -> Int]
      BY CountsOfFlushes
    <3> QED BY <1>2, <1>3, <2>1, <3>1, OneMore
  <2>4. Of(carried', x) = 0
    BY <1>2, NothingIsABatch
  <2>5. Of(recorded', x) = Of(stored', x) + (l + Of(carried, x)) + Of(carried', x) + c
               + Of(hand'["flusher"], x) + Of(hand'["engine"], x) + Of(pending', x)
    BY <1>2, <2>1, <2>2, <2>4
  <2>6. l + Of(carried, x) \in Int
    BY <2>2
  <2> QED BY <1>2, <2>1, <2>3, <2>5, <2>6 DEF AmountKept
<1>5. ASSUME NEW t \in Seconds PROVE WindowKept(t)'
  <2>1. PICK l \in Int, c \in Int :
          LiesIn(link, WinMsg(t), l) /\ LiesIn(channel, WinFlush(t), c) /\ OnePlace(t, l, c)
    BY <1>1 DEF Kept, WindowKept
  <2>2. {recorded.win[t], stored.win[t], carried.win[t], pending.win[t],
         hand["flusher"].win[t], hand["engine"].win[t]} \subseteq Int
    BY BatchParts, HandsAreBatches
  <2>3. l = 0 \/ carried.win[t] = 0
    BY <2>1 DEF OnePlace, AtMostOne
  <2>4. LiesIn(link', WinMsg(t), l + carried.win[t])
    <3>1. WinMsg(t) \in [AnyMsgs -> Int]
      BY CountsOfFlushes
    <3> QED BY <1>2, <1>3, <2>1, <2>3, <3>1, OneMore
  <2>5. carried'.win[t] = 0
    BY <1>2, NothingIsABatch
  <2>6. PICK ll \in Int : ll = l + carried.win[t]
    BY <2>2
  <2>7. OnePlace(t, ll, c)'
    <3>1. CASE carried.win[t] = 0
      <4>1. ll = l /\ carried'.win[t] = carried.win[t]
        BY <2>5, <2>6, <3>1
      <4> QED BY <1>2, <2>1, <4>1 DEF OnePlace
    <3>2. CASE carried.win[t] # 0
      <4>1. /\ stored.win[t] = 0 /\ l = 0 /\ c = 0 /\ hand["flusher"].win[t] = 0
            /\ hand["engine"].win[t] = 0 /\ pending.win[t] = 0
            /\ ~(engine \in {"spawning", "running"} /\ t >= second)
        BY <2>1, <3>2 DEF OnePlace, AtMostOne
      <4>2. recorded.win[t] = carried.win[t] /\ ll = carried.win[t]
        BY <2>1, <2>2, <2>6, <4>1 DEF OnePlace
      <4> QED BY <1>2, <2>2, <2>5, <4>1, <4>2 DEF OnePlace, AtMostOne
    <3> QED BY <3>1, <3>2
  <2> QED BY <1>2, <2>1, <2>4, <2>6, <2>7 DEF WindowKept
<1> QED BY <1>4, <1>5 DEF Kept

LEMMA Stored ==
    ASSUME TypeInv, Places, Flow, Onward, HandleMetrics PROVE Flow'
<1> SUFFICES ASSUME open', ~excused' PROVE Kept'
  BY DEF Flow
<1>1. Kept
  BY DEF Flow, Onward
<1> DEFINE m == Head(link)
<1> DEFINE b == Head(link).batch
<1>2. /\ link # <<>> /\ link \in Seq(AnyMsgs) /\ m \in AnyMsgs /\ m.kind = "metrics"
      /\ link' = Tail(link)
      /\ UNCHANGED <<second, engine, pending, recorded, hand, channel, carried>>
  BY HeadTailProperties
     DEF HandleMetrics, TypeInv, engineVars, sendVars, forwarderVars
<1>3. b \in AnyBatch /\ stored' = AddDeltas(KeepFirst(stored, b), b)
  BY <1>2, MessageParts DEF HandleMetrics
<1>4. /\ \A x : InMsg(x)[m] = Of(b, x)
      /\ \A t : WinMsg(t)[m] = b.win[t]
  BY <1>2 DEF InMsg, WinMsg
<1>5. /\ \A x : Of(stored', x) = Of(stored, x) + Of(b, x)
      /\ \A t \in Seconds : stored'.win[t] = IF stored.win[t] = 0 THEN b.win[t] ELSE stored.win[t]
  <2>1. KeepFirst(stored, b) \in AnyBatch
    BY <1>3, HandsAreBatches, Inserted
  <2>2. /\ \A x : Of(stored', x) = Of(KeepFirst(stored, b), x) + Of(b, x)
        /\ stored'.win = KeepFirst(stored, b).win
    BY <1>3, <2>1, Inserted
  <2> QED BY <1>3, <2>2, HandsAreBatches, Inserted
<1> HIDE DEF b, m
<1>6. ASSUME NEW x \in Amounts PROVE AmountKept(x)'
  <2>1. PICK l \in Int, c \in Int :
          /\ IsSum(link, InMsg(x), l) /\ IsSum(channel, InFlush(x), c)
          /\ Of(recorded, x) = Of(stored, x) + l + Of(carried, x) + c
               + Of(hand["flusher"], x) + Of(hand["engine"], x) + Of(pending, x)
    BY <1>1, <1>6 DEF Kept, AmountKept
  <2>2. {Of(b, x), Of(recorded, x), Of(stored, x), Of(carried, x), Of(pending, x),
         Of(hand["flusher"], x), Of(hand["engine"], x)} \subseteq Int
    BY <1>3, BatchParts, HandsAreBatches
  <2>3. IsSum(link', InMsg(x), l - Of(b, x))
    <3>1. InMsg(x) \in [AnyMsgs -> Int]
      BY CountsOfFlushes
    <3> QED BY <1>2, <1>4, <2>1, <3>1, OneLess DEF m
  <2>4. Of(stored', x) = Of(stored, x) + Of(b, x)
    BY <1>5
  <2>5. Of(recorded', x) = Of(stored', x) + (l - Of(b, x)) + Of(carried', x) + c
               + Of(hand'["flusher"], x) + Of(hand'["engine"], x) + Of(pending', x)
    BY <1>2, <2>1, <2>2, <2>4
  <2>6. l - Of(b, x) \in Int
    BY <2>2
  <2> QED BY <1>2, <2>1, <2>3, <2>5, <2>6 DEF AmountKept
<1>7. ASSUME NEW t \in Seconds PROVE WindowKept(t)'
  <2>1. PICK l \in Int, c \in Int :
          LiesIn(link, WinMsg(t), l) /\ LiesIn(channel, WinFlush(t), c) /\ OnePlace(t, l, c)
    BY <1>1 DEF Kept, WindowKept
  <2>2. {b.win[t], recorded.win[t], stored.win[t], carried.win[t], pending.win[t],
         hand["flusher"].win[t], hand["engine"].win[t]} \subseteq Int
    BY <1>3, BatchParts, HandsAreBatches
  <2>3. LiesIn(link', WinMsg(t), l - b.win[t]) /\ b.win[t] \in {0, l}
    <3>1. WinMsg(t) \in [AnyMsgs -> Int]
      BY CountsOfFlushes
    <3> QED BY <1>2, <1>4, <2>1, <3>1, OneLess DEF m
  <2>4. stored'.win[t] = IF stored.win[t] = 0 THEN b.win[t] ELSE stored.win[t]
    BY <1>5
  <2>5. PICK ll \in Int : ll = l - b.win[t]
    BY <2>2
  <2>6. OnePlace(t, ll, c)'
    <3>1. CASE b.win[t] = 0
      <4>1. ll = l /\ stored'.win[t] = stored.win[t]
        BY <2>2, <2>4, <2>5, <3>1
      <4> QED BY <1>2, <2>1, <4>1 DEF OnePlace
    <3>2. CASE b.win[t] # 0
      <4>1. ll = 0 /\ l # 0 /\ b.win[t] = l
        BY <2>2, <2>3, <2>5, <3>2
      <4>2. /\ stored.win[t] = 0 /\ carried.win[t] = 0 /\ c = 0 /\ hand["flusher"].win[t] = 0
            /\ hand["engine"].win[t] = 0 /\ pending.win[t] = 0
            /\ ~(engine \in {"spawning", "running"} /\ t >= second)
        BY <2>1, <4>1 DEF OnePlace, AtMostOne
      <4>3. recorded.win[t] = l /\ stored'.win[t] = l
        BY <2>1, <2>2, <2>4, <4>1, <4>2 DEF OnePlace
      <4> QED BY <1>2, <2>2, <4>1, <4>2, <4>3 DEF OnePlace, AtMostOne
    <3> QED BY <3>1, <3>2
  <2> QED BY <1>2, <2>1, <2>3, <2>5, <2>6 DEF WindowKept
<1> QED BY <1>6, <1>7 DEF Kept

\* A status counts nothing, on its way into the stream or out of it.
LEMMA Reported ==
    ASSUME TypeInv, Flow, Onward,
           \/ \E p \in Phases : link' = Append(link, Status(p))
           \/ link # <<>> /\ Head(link).kind = "status" /\ link' = Tail(link),
           UNCHANGED <<second, pending, recorded, hand, channel, carried, stored>>
    PROVE  Flow'
<1> SUFFICES ASSUME open', ~excused' PROVE Kept'
  BY DEF Flow
<1>1. Kept
  BY DEF Flow, Onward
<1>2. link \in Seq(AnyMsgs) /\ \A x : InMsg(x) \in [AnyMsgs -> Int]
  BY CountsOfFlushes DEF TypeInv
<1>3. ASSUME NEW d \in [AnyMsgs -> Int],
             \A m \in AnyMsgs : m.kind = "status" => d[m] = 0,
             NEW v \in Int
      PROVE  /\ IsSum(link, d, v) => IsSum(link', d, v)
             /\ LiesIn(link, d, v) => LiesIn(link', d, v)
  <2>1. CASE \E p \in Phases : link' = Append(link, Status(p))
    <3>1. PICK p \in Phases : link' = Append(link, Status(p))
      BY <2>1
    <3>2. Status(p) \in AnyMsgs /\ d[Status(p)] = 0
      BY <1>3, MessageParts
    <3>3. v + d[Status(p)] = v
      BY <3>2
    <3> QED BY <1>2, <3>1, <3>2, <3>3, OneMore
  <2>2. CASE link # <<>> /\ Head(link).kind = "status" /\ link' = Tail(link)
    <3>1. Head(link) \in AnyMsgs
      BY <1>2, <2>2, HeadTailProperties
    <3>2. v - d[Head(link)] = v
      BY <1>3, <2>2, <3>1
    <3> QED BY <1>2, <2>2, <3>2, OneLess
  <2> QED BY <2>1, <2>2
<1>4. ASSUME NEW x \in Amounts PROVE AmountKept(x)'
  <2>1. \A m \in AnyMsgs : m.kind = "status" => InMsg(x)[m] = 0
    BY DEF InMsg
  <2>2. \A v \in Int : IsSum(link, InMsg(x), v) => IsSum(link', InMsg(x), v)
    BY <1>2, <1>3, <2>1
  <2> QED BY <1>1, <1>4, <2>2 DEF Kept, AmountKept
<1>5. ASSUME NEW t \in Seconds PROVE WindowKept(t)'
  <2>1. \A m \in AnyMsgs : m.kind = "status" => WinMsg(t)[m] = 0
    BY DEF WinMsg
  <2>2. WinMsg(t) \in [AnyMsgs -> Int]
    BY CountsOfFlushes
  <2>3. \A v \in Int : LiesIn(link, WinMsg(t), v) => LiesIn(link', WinMsg(t), v)
    BY <1>3, <2>1, <2>2
  <2>4. \A l, c \in Int : OnePlace(t, l, c) => OnePlace(t, l, c)'
    BY DEF OnePlace, Onward
  <2> QED BY <1>1, <2>3, <2>4 DEF Kept, WindowKept
<1> QED BY <1>4, <1>5 DEF Kept

\* When nothing is on its way, everything is stored.
LEMMA AllArrived ==
    ASSUME TypeInv, Kept, channel = <<>>, link # <<>>, Head(link).kind = "status",
           Tail(link) = <<>>, pending = Nothing, carried = Nothing,
           hand["flusher"] = Nothing, hand["engine"] = Nothing
    PROVE  stored = recorded
<1>1. link \in Seq(AnyMsgs) /\ Head(link) \in AnyMsgs
  BY HeadTailProperties DEF TypeInv
<1>2. ASSUME NEW x \in Amounts PROVE Of(stored, x) = Of(recorded, x)
  <2>1. PICK l \in Int, c \in Int :
          /\ IsSum(link, InMsg(x), l) /\ IsSum(channel, InFlush(x), c)
          /\ Of(recorded, x) = Of(stored, x) + l + Of(carried, x) + c
               + Of(hand["flusher"], x) + Of(hand["engine"], x) + Of(pending, x)
    BY <1>2 DEF Kept, AmountKept
  <2>2. InMsg(x)[Head(link)] = 0
    BY <1>1 DEF InMsg
  <2>3. l - 0 = 0
    <3>1. InMsg(x) \in [AnyMsgs -> Int]
      BY CountsOfFlushes
    <3>2. IsSum(Tail(link), InMsg(x), l - InMsg(x)[Head(link)])
      BY <1>1, <2>1, <3>1, OneLess
    <3> QED BY <2>2, <3>2, NoneIsNothing
  <2>4. c = 0
    BY <2>1, NoneIsNothing
  <2>5. Of(Nothing, x) = 0
    BY NothingIsABatch
  <2>6. Of(stored, x) \in Int /\ Of(recorded, x) \in Int
    BY HandsAreBatches, BatchParts
  <2> QED BY <2>1, <2>3, <2>4, <2>5, <2>6
<1>3. ASSUME NEW t \in Seconds PROVE stored.win[t] = recorded.win[t]
  <2>1. PICK l \in Int, c \in Int :
          LiesIn(link, WinMsg(t), l) /\ LiesIn(channel, WinFlush(t), c) /\ OnePlace(t, l, c)
    BY DEF Kept, WindowKept
  <2>2. WinMsg(t)[Head(link)] = 0
    BY <1>1 DEF WinMsg
  <2>3. l - 0 = 0
    <3>1. WinMsg(t) \in [AnyMsgs -> Int]
      BY CountsOfFlushes
    <3>2. LiesIn(Tail(link), WinMsg(t), l - WinMsg(t)[Head(link)])
      BY <1>1, <2>1, <3>1, OneLess
    <3> QED BY <2>2, <3>2, NoneIsNothing
  <2>4. c = 0
    BY <2>1, NoneIsNothing
  <2>5. Nothing.win[t] = 0
    BY NothingIsABatch
  <2>6. stored.win[t] \in Int /\ recorded.win[t] \in Int
    BY HandsAreBatches, BatchParts
  <2>7. recorded.win[t] = stored.win[t] + l + carried.win[t] + c
         + hand["flusher"].win[t] + hand["engine"].win[t] + pending.win[t]
    BY <2>1 DEF OnePlace
  <2> QED BY <2>3, <2>4, <2>5, <2>6, <2>7
<1>4. stored.delta = recorded.delta /\ stored.dropped = recorded.dropped
  BY <1>2 DEF Amounts, Of
<1>5. stored \in AnyBatch /\ recorded \in AnyBatch
  BY HandsAreBatches
<1>6. stored.win = recorded.win
  <2>1. stored.win \in [Seconds -> Int] /\ recorded.win \in [Seconds -> Int]
    BY <1>5 DEF AnyBatch
  <2> QED BY <1>3, <2>1
<1> QED BY <1>4, <1>5, <1>6 DEF AnyBatch

----------------------------------------------------------------------------
(***************************************************************************)
(* The steps.                                                              *)
(***************************************************************************)
LEMMA EveryStepGoesOn ==
    ASSUME Admissible, TypeInv, Next PROVE Onward
<1>1. second \in Int /\ second + 1 \in Int /\ second + 1 >= second
  BY DEF TypeInv, Seconds
<1> USE DEF Onward
<1>2. CASE Tick
  BY <1>1, <1>2 DEF Tick, engineVars, linkVars, storeVars
<1>3. CASE Break
  BY <1>1, <1>3 DEF Break, engineVars, storeVars
<1>4. CASE Record \/ DropArrival
  BY <1>1, <1>4 DEF Record, DropArrival, linkVars, storeVars
<1>5. CASE GrantPermit \/ FlusherTick \/ FlusherDrain
  BY <1>1, <1>5 DEF GrantPermit, FlusherTick, FlusherDrain, engineVars, linkVars, storeVars
<1>6. CASE FlusherMoves
  <2>1. CASE FlusherSend \/ FlusherDeliver
    BY <1>1, <2>1 DEF FlusherSend, FlusherDeliver, engineVars, linkVars, storeVars
  <2>2. CASE FlusherAborted
    <3>1. excused => excused'
      BY <2>2, Zenon DEF FlusherAborted
    <3>2. UNCHANGED <<second, engine, open>>
      BY <2>2 DEF FlusherAborted, engineVars, linkVars
    <3> QED BY <1>1, <3>1, <3>2
  <2> QED BY <1>6, <2>1, <2>2 DEF FlusherMoves
<1>7. CASE EngineMoves
  BY <1>1, <1>7
     DEF EngineMoves, SpawnFlusher, JoinAll, FinalDrain, FinalSend, Stop, Report, MayReport,
         linkVars, storeVars
<1>8. CASE ForwarderMoves
  BY <1>1, <1>8
     DEF ForwarderMoves, ForwarderRecv, ForwarderSend, ForwarderEnd, engineVars, linkVars, storeVars
<1>9. CASE HandlerMoves
  BY <1>1, <1>9
     DEF HandlerMoves, HandleMetrics, HandleStatus, HandleEof, engineVars, linkVars
<1> QED BY <1>2, <1>3, <1>4, <1>5, <1>6, <1>7, <1>8, <1>9 DEF Next

LEMMA TypesStay ==
    ASSUME Admissible, TypeInv, Next PROVE TypeInv'
<1>1. Nothing \in AnyBatch
  BY NothingIsABatch
<1>2. \A s \in Senders : hand[s] \in AnyBatch
  BY DEF TypeInv
<1>3. \A s \in Senders, b \in AnyBatch : [hand EXCEPT ![s] = b] \in [Senders -> AnyBatch]
  BY DEF TypeInv
<1>4. \A b \in AnyBatch : Append(channel, b) \in Seq(AnyBatch)
  BY DEF TypeInv
<1>5. 0 \in Seconds /\ (second < MaxSecond => second + 1 \in Seconds)
  BY DEF TypeInv, Seconds, Admissible
<1>6. \A s \in Senders :
        Sent(s) \/ Queued(s) \/ Delivered(s) \/ Withdrawn(s) \/ SendFails(s) =>
          hand' \in [Senders -> AnyBatch] /\ channel' \in Seq(AnyBatch)
  <2> TAKE s \in Senders
  <2>1. CASE Queued(s)
    BY <2>1 DEF TypeInv, Queued
  <2>2. CASE Sent(s) \/ Delivered(s) \/ Withdrawn(s) \/ SendFails(s)
    <3>1. /\ hand' = [hand EXCEPT ![s] = Nothing]
          /\ channel' = channel \/ channel' = Append(channel, hand[s])
      BY <2>2 DEF Sent, Delivered, Withdrawn, SendFails
    <3> QED BY <1>1, <1>2, <1>3, <1>4, <3>1 DEF TypeInv
  <2> QED BY <2>1, <2>2
<1>7. "flusher" \in Senders /\ "engine" \in Senders
  BY DEF Senders
<1>8. CASE Tick \/ Break
  <2>1. <<>> \in Seq(AnyMsgs)
    OBVIOUS
  <2> QED BY <1>5, <1>8, <2>1 DEF Tick, Break, TypeInv, engineVars, flusherVars, sendVars,
         forwarderVars, linkVars, storeVars
<1>9. CASE Record \/ DropArrival
  <2>2. pending' \in AnyBatch /\ recorded' \in AnyBatch
    BY <1>9, MeasuredBatches, BatchesAdd, HandsAreBatches DEF Record, DropArrival, Recorded
  <2> QED BY <1>9, <2>2 DEF Record, DropArrival, TypeInv, flusherVars, sendVars,
         forwarderVars, linkVars, storeVars
<1>10. CASE GrantPermit \/ FlusherTick
  BY <1>10 DEF GrantPermit, FlusherTick, TypeInv, engineVars, flusherVars, sendVars,
       forwarderVars, linkVars, storeVars
<1>11. CASE FlusherDrain
  <2>1. Completed(pending, upTo) \in AnyBatch
    BY HandsAreBatches, Taken
  <2>2. pending' \in AnyBatch
    BY <1>11, <2>1, HandsAreBatches, BatchesAdd DEF FlusherDrain
  <2>3. hand' \in [Senders -> AnyBatch]
    BY <1>3, <1>7, <1>11, <2>1 DEF FlusherDrain
  <2> QED BY <1>5, <1>11, <2>2, <2>3 DEF FlusherDrain, NextTick, TypeInv,
         forwarderVars, linkVars, storeVars
<1>12. CASE FlusherMoves
  <2>1. hand' \in [Senders -> AnyBatch] /\ channel' \in Seq(AnyBatch)
    BY <1>6, <1>7, <1>12 DEF FlusherMoves, FlusherSend, FlusherDeliver, FlusherAborted
  <2> QED BY <1>5, <1>12, <2>1
      DEF FlusherMoves, FlusherSend, FlusherDeliver, FlusherAborted, NextTick, TypeInv,
          engineVars, forwarderVars, linkVars, storeVars
<1>13. CASE EngineMoves
  <2>1. CASE SpawnFlusher \/ JoinAll \/ Stop
    BY <2>1 DEF SpawnFlusher, JoinAll, Stop, TypeInv, flusherVars, sendVars,
         forwarderVars, linkVars, storeVars
  <2>2. CASE FinalDrain
    BY <1>1, <1>3, <1>7, <2>2, HandsAreBatches DEF FinalDrain, TypeInv, flusherVars,
         forwarderVars, linkVars, storeVars
  <2>3. CASE FinalSend
    <3>1. hand' \in [Senders -> AnyBatch] /\ channel' \in Seq(AnyBatch)
      BY <1>6, <1>7, <2>3 DEF FinalSend
    <3> QED BY <2>3, <3>1 DEF FinalSend, TypeInv, flusherVars,
         forwarderVars, linkVars, storeVars
  <2>4. CASE Report
    <3>1. link' \in Seq(AnyMsgs)
      BY <2>4, MessageParts, SMTT(30) DEF Report, TypeInv
    <3> QED BY <2>4, <3>1 DEF Report, TypeInv, flusherVars, sendVars, forwarderVars, storeVars
  <2> QED BY <1>13, <2>1, <2>2, <2>3, <2>4 DEF EngineMoves
<1>14. CASE ForwarderMoves
  <2>1. CASE ForwarderRecv
    <3>1. Head(channel) \in AnyBatch /\ channel' \in Seq(AnyBatch)
      BY <2>1, HeadTailProperties DEF ForwarderRecv, TypeInv
    <3> QED BY <2>1, <3>1 DEF ForwarderRecv, TypeInv, engineVars, flusherVars,
         forwarderVars, linkVars, storeVars
  <2>2. CASE ForwarderSend
    <3>1. link' \in Seq(AnyMsgs)
      BY <2>2, MessageParts, HandsAreBatches, SMTT(30) DEF ForwarderSend, TypeInv
    <3> QED BY <1>1, <2>2, <3>1 DEF ForwarderSend, TypeInv, engineVars, flusherVars,
         sendVars, storeVars
  <2>3. CASE ForwarderEnd
    BY <2>3 DEF ForwarderEnd, TypeInv, engineVars, flusherVars, sendVars, linkVars, storeVars
  <2> QED BY <1>14, <2>1, <2>2, <2>3 DEF ForwarderMoves
<1>15. CASE HandlerMoves
  <2>1. CASE HandleMetrics
    <3>1. Head(link).batch \in AnyBatch /\ link' \in Seq(AnyMsgs)
      BY <2>1, HeadTailProperties, MessageParts DEF HandleMetrics, TypeInv
    <3>2. stored' \in AnyBatch
      BY <2>1, <3>1, HandsAreBatches, Inserted DEF HandleMetrics
    <3> QED BY <2>1, <3>1, <3>2 DEF HandleMetrics, TypeInv, engineVars, flusherVars,
         sendVars, forwarderVars
  <2>2. CASE HandleStatus
    <3>1. link' \in Seq(AnyMsgs)
      BY <2>2, HeadTailProperties DEF HandleStatus, TypeInv
    <3> QED BY <2>2, <3>1 DEF HandleStatus, TypeInv, engineVars, flusherVars,
         sendVars, forwarderVars
  <2>3. CASE HandleEof
    BY <2>3 DEF HandleEof, TypeInv, engineVars, flusherVars, sendVars, forwarderVars, linkVars
  <2> QED BY <1>15, <2>1, <2>2, <2>3 DEF HandlerMoves
<1> QED BY <1>8, <1>9, <1>10, <1>11, <1>12, <1>13, <1>14, <1>15 DEF Next

LEMMA PlacesStay ==
    ASSUME Admissible, TypeInv, Places, Next PROVE Places'
<1>1. second \in Int /\ upTo \in Int
  BY DEF TypeInv, Seconds
<1>2. CASE Tick
  <2>1. flusher = "lock" => upTo <= second + 1
    BY <1>1 DEF Places
  <2> QED BY <1>2, <2>1 DEF Tick, Places, engineVars, flusherVars, sendVars,
         forwarderVars, linkVars, storeVars
<1>3. CASE Break
  BY <1>3 DEF Break, Places, engineVars, flusherVars, sendVars, forwarderVars, storeVars
<1>4. CASE Record \/ DropArrival
  BY <1>4 DEF Record, DropArrival, Places, flusherVars, sendVars, forwarderVars,
       linkVars, storeVars
<1>5. CASE GrantPermit
  BY <1>5 DEF GrantPermit, Places, engineVars, flusherVars, forwarderVars, linkVars, storeVars
<1>6. CASE FlusherTick
  BY <1>1, <1>6 DEF FlusherTick, Places, engineVars, sendVars, forwarderVars, linkVars, storeVars
<1>7. CASE FlusherDrain
  <2>1. hand'["flusher"] = Completed(pending, upTo) /\ hand'["engine"] = hand["engine"]
    BY <1>7 DEF FlusherDrain, TypeInv, Senders
  <2>2. hand'["flusher"] # Nothing => flusher' \in {"send", "queued"}
    BY <1>7, <2>1 DEF FlusherDrain
  <2>3. pending' # Nothing => engine \in {"spawning", "running", "joined"}
    <3>1. CASE pending = Nothing
      <4>1. Completed(pending, upTo) \in AnyBatch /\ Nothing \in AnyBatch
        BY Taken, HandsAreBatches, NothingIsABatch
      <4> QED BY <1>7, <3>1, <4>1 DEF FlusherDrain, Completed, Nothing, Minus
    <3>2. CASE pending # Nothing
      BY <3>2 DEF Places
    <3> QED BY <3>1, <3>2
  <2>4. flusher' # "lock" /\ UNCHANGED <<engine, channel, forwarderVars, linkVars, storeVars>>
    BY <1>7 DEF FlusherDrain, NextTick
  <2>5. flusher \notin {"done", "off"}
    BY <1>7 DEF FlusherDrain
  <2> QED BY <2>1, <2>2, <2>3, <2>4, <2>5 DEF Places, forwarderVars, linkVars, storeVars
<1>8. CASE FlusherMoves
  <2>1. CASE FlusherSend \/ FlusherDeliver
    <3>1. /\ flusher \notin {"done", "off"}
          /\ UNCHANGED <<second, engineVars, upTo, forwarderVars, linkVars, storeVars>>
      BY <2>1 DEF FlusherSend, FlusherDeliver
    <3>2. \/ hand'["flusher"] = Nothing /\ flusher' # "lock"
          \/ hand' = hand /\ flusher' = "queued"
      BY <2>1 DEF FlusherSend, FlusherDeliver, Sent, Queued, Delivered, SendFails, Withdrawn,
           NextTick, TypeInv, Senders
    <3>3. hand'["engine"] = hand["engine"]
      BY <2>1 DEF FlusherSend, FlusherDeliver, Sent, Queued, Delivered, SendFails, Withdrawn,
           TypeInv, Senders
    <3>4. ~(open /\ forwarder = "done") /\ engine # "gone"
      BY <3>1 DEF Places
    <3> QED BY <3>1, <3>2, <3>3, <3>4 DEF Places, engineVars, forwarderVars, linkVars, storeVars
  <2>2. CASE FlusherAborted
    <3>1. /\ hand'["flusher"] = Nothing /\ hand'["engine"] = hand["engine"]
          /\ channel' = channel /\ flusher' = "done" /\ flusher \notin {"done", "off"}
          /\ UNCHANGED <<second, engineVars, forwarderVars, linkVars, verdict>>
      BY <2>2 DEF FlusherAborted, Withdrawn, TypeInv, Senders
    <3> QED BY <3>1 DEF Places, engineVars, forwarderVars, linkVars
  <2> QED BY <1>8, <2>1, <2>2 DEF FlusherMoves
<1>9. CASE EngineMoves
  <2>1. CASE SpawnFlusher
    BY <2>1 DEF SpawnFlusher, Places, sendVars, forwarderVars, linkVars, storeVars
  <2>2. CASE JoinAll \/ Stop
    BY <2>2 DEF JoinAll, Stop, Places, flusherVars, sendVars, forwarderVars, linkVars, storeVars
  <2>3. CASE FinalDrain
    <3>1. hand'["engine"] = pending /\ hand'["flusher"] = hand["flusher"] /\ pending' = Nothing
      BY <2>3 DEF FinalDrain, TypeInv, Senders
    <3>2. pending # Nothing => engine' = "sending"
      BY <2>3 DEF FinalDrain
    <3>3. /\ engine = "joined" /\ engine' \notin {"spawning", "gone"}
          /\ UNCHANGED <<second, flusherVars, channel, forwarderVars, linkVars, storeVars>>
      BY <2>3 DEF FinalDrain
    <3> QED BY <3>1, <3>2, <3>3 DEF Places, flusherVars, forwarderVars, linkVars, storeVars
  <2>4. CASE FinalSend
    <3>1. /\ engine = "sending" /\ engine' \in {"sending", "stopping"}
          /\ UNCHANGED <<second, pending, flusherVars, forwarderVars, linkVars, storeVars>>
      BY <2>4 DEF FinalSend
    <3>2. \/ hand'["engine"] = Nothing
          \/ hand' = hand /\ engine' = "sending"
      BY <2>4 DEF FinalSend, Sent, Queued, Delivered, SendFails, Withdrawn, TypeInv, Senders
    <3>3. hand'["flusher"] = hand["flusher"]
      BY <2>4 DEF FinalSend, Sent, Queued, Delivered, SendFails, Withdrawn, TypeInv, Senders
    <3>4. ~(open /\ forwarder = "done") /\ pending = Nothing
      BY <3>1 DEF Places
    <3> QED BY <3>1, <3>2, <3>3, <3>4 DEF Places, flusherVars, forwarderVars, linkVars, storeVars
  <2>5. CASE Report
    <3>1. /\ engine = "reporting" /\ engine' = "gone" /\ flusher = "done" /\ forwarder = "done"
          /\ UNCHANGED <<second, pending, flusherVars, sendVars, forwarderVars, open, storeVars>>
      BY <2>5 DEF Report, MayReport
    <3>2. \A i \in 1..Len(link) : link[i].kind # "status"
      BY <3>1 DEF Places
    <3>3. \A i \in 1..Len(link') : link'[i].kind = "status" => i = Len(link')
      <4>1. CASE link' = link
        BY <3>2, <4>1
      <4>2. CASE \E p \in Phases : link' = Append(link, Status(p))
        <5>1. PICK p \in Phases : link' = Append(link, Status(p))
          BY <4>2
        <5>2. /\ link \in Seq(AnyMsgs) /\ Status(p) \in AnyMsgs
              /\ Len(link') = Len(link) + 1 /\ Len(link) \in Nat
              /\ \A i \in 1..Len(link) : link'[i] = link[i]
          BY <5>1, MessageParts, AppendProperties DEF TypeInv
        <5> QED BY <3>2, <5>2
      <4> QED BY <2>5, <4>1, <4>2 DEF Report
    <3>4. ~open => link' = link
      BY <2>5 DEF Report
    <3>5. verdict \notin Phases
      BY <3>1 DEF Places
    <3> QED BY <3>1, <3>3, <3>4, <3>5 DEF Places, flusherVars, sendVars, forwarderVars, storeVars
  <2> QED BY <1>9, <2>1, <2>2, <2>3, <2>4, <2>5 DEF EngineMoves
<1>10. CASE ForwarderMoves
  <2>1. CASE ForwarderRecv
    <3>1. /\ forwarder = "recv" /\ forwarder' # "done" /\ (carried' # Nothing => forwarder' = "send")
          /\ UNCHANGED <<second, engineVars, flusherVars, hand, linkVars, storeVars>>
      BY <2>1 DEF ForwarderRecv, forwarderVars, Places
    <3> QED BY <3>1 DEF Places, engineVars, flusherVars, linkVars, storeVars
  <2>2. CASE ForwarderSend
    <3>1. /\ forwarder = "send" /\ carried' = Nothing /\ (open => forwarder' = "recv")
          /\ UNCHANGED <<second, engineVars, flusherVars, sendVars, open, storeVars>>
      BY <2>2 DEF ForwarderSend
    <3>2. engine # "gone" /\ verdict \notin Phases
      BY <3>1 DEF Places
    <3>3. \A i \in 1..Len(link) : link[i].kind # "status"
      BY <3>2 DEF Places
    <3>4. \A i \in 1..Len(link') : link'[i].kind # "status"
      <4>1. CASE link' = link
        BY <3>3, <4>1
      <4>2. CASE link' = Append(link, Metrics(carried))
        <5>1. /\ link \in Seq(AnyMsgs) /\ Metrics(carried) \in AnyMsgs
              /\ Metrics(carried).kind = "metrics"
          BY MessageParts, HandsAreBatches DEF TypeInv
        <5>2. /\ Len(link') = Len(link) + 1 /\ Len(link) \in Nat
              /\ \A i \in 1..Len(link) : link'[i] = link[i]
              /\ link'[Len(link) + 1] = Metrics(carried)
          BY <4>2, <5>1, AppendProperties
        <5> QED BY <3>3, <5>1, <5>2
      <4> QED BY <2>2, <4>1, <4>2 DEF ForwarderSend
    <3>5. ~open => link' = link
      BY <2>2 DEF ForwarderSend
    <3> QED BY <3>1, <3>2, <3>4, <3>5 DEF Places, engineVars, flusherVars, sendVars, storeVars
  <2>3. CASE ForwarderEnd
    BY <2>3 DEF ForwarderEnd, Places, engineVars, flusherVars, sendVars, linkVars, storeVars
  <2> QED BY <1>10, <2>1, <2>2, <2>3 DEF ForwarderMoves
<1>11. CASE HandleMetrics \/ HandleStatus
  <2>1. /\ link # <<>> /\ link' = Tail(link)
        /\ UNCHANGED <<second, engineVars, flusherVars, sendVars, forwarderVars, open>>
    BY <1>11 DEF HandleMetrics, HandleStatus
  <2>2. /\ link \in Seq(AnyMsgs) /\ link' \in Seq(AnyMsgs) /\ Len(link') = Len(link) - 1
        /\ Len(link) \in Nat \ {0} /\ Len(link') \in Nat
        /\ \A i \in 1..Len(link') : link'[i] = link[i + 1]
    BY <2>1, HeadTailProperties DEF TypeInv
  <2>3. \A i \in 1..Len(link') : link'[i].kind = "status" => i = Len(link') /\ engine = "gone"
    <3> TAKE i \in 1..Len(link')
    <3>1. i + 1 \in 1..Len(link) /\ link'[i] = link[i + 1]
      BY <2>2
    <3>2. link[i + 1].kind = "status" => i + 1 = Len(link) /\ engine = "gone"
      BY <3>1 DEF Places
    <3> QED BY <2>2, <3>1, <3>2
  <2>4. verdict' \in Phases => engine = "gone" /\ link' = <<>>
    <3>1. CASE HandleMetrics
      BY <2>1, <3>1 DEF HandleMetrics, Places
    <3>2. CASE HandleStatus
      <4>1. 1 \in 1..Len(link) /\ link[1].kind = "status"
        BY <2>2, <3>2 DEF HandleStatus
      <4>2. Len(link) = 1 /\ engine = "gone"
        BY <4>1 DEF Places
      <4> QED BY <2>2, <4>2, EmptySeq
    <3> QED BY <1>11, <3>1, <3>2
  <2>5. open
    BY <2>1 DEF Places
  <2> QED BY <2>1, <2>3, <2>4, <2>5 DEF Places, engineVars, flusherVars, sendVars, forwarderVars
<1>12. CASE HandleEof
  BY <1>12 DEF HandleEof, Places, Phases, engineVars, flusherVars, sendVars, forwarderVars, linkVars
<1> QED BY <1>2, <1>3, <1>4, <1>5, <1>6, <1>7, <1>8, <1>9, <1>10, <1>11, <1>12
        DEF Next, HandlerMoves

LEMMA FlowStays ==
    ASSUME Admissible, TypeInv, Places, Flow, Next PROVE Flow'
<1>1. Onward
  BY EveryStepGoesOn
<1>2. CASE Tick \/ GrantPermit \/ FlusherTick
  BY <1>1, <1>2, Undisturbed
     DEF Tick, GrantPermit, FlusherTick, engineVars, sendVars, forwarderVars, linkVars, storeVars
<1>3. CASE Break
  BY <1>3 DEF Break, Flow
<1>4. CASE Record \/ DropArrival
  <2>1. PICK b \in AnyBatch :
          Recorded(b) /\ \A t \in Seconds : b.win[t] # 0 => t = second
    BY <1>4, MeasuredBatches DEF Record, DropArrival
  <2>2. /\ engine \in {"spawning", "running"}
        /\ UNCHANGED <<second, engine, hand, channel, carried, link, stored>>
    BY <1>4 DEF Record, DropArrival, sendVars, forwarderVars, linkVars, storeVars
  <2> QED BY <1>1, <2>1, <2>2, Measured
<1>5. CASE FlusherDrain
  BY <1>1, <1>5, DrainedByTheFlusher
<1>6. ASSUME NEW s \in Senders, Sent(s) \/ Delivered(s),
             UNCHANGED <<pending, recorded, carried, link, stored>>
      PROVE  Flow'
  BY <1>1, <1>6, SentOn DEF Sent, Delivered
<1>7. "flusher" \in Senders /\ "engine" \in Senders
  BY DEF Senders
<1>8. CASE FlusherSend \/ FlusherDeliver
  <2>1. UNCHANGED <<pending, recorded, carried, link, stored>>
    BY <1>8 DEF FlusherSend, FlusherDeliver, engineVars, forwarderVars, linkVars, storeVars
  <2>2. CASE Sent("flusher") \/ Delivered("flusher")
    BY <1>6, <1>7, <2>1, <2>2
  <2>3. CASE Queued("flusher")
    BY <1>1, <2>1, <2>3, Undisturbed DEF Queued
  <2>4. CASE SendFails("flusher")
    <3>1. forwarder = "done" /\ flusher # "done"
      BY <1>8, <2>4 DEF SendFails, Listening, FlusherSend, FlusherDeliver
    <3> QED BY <1>1, <3>1 DEF Places, Onward, Flow
  <2> QED BY <1>8, <2>2, <2>3, <2>4 DEF FlusherSend, FlusherDeliver
<1>9. CASE FlusherAborted
  <2>1. CASE flusher = "queued"
    <3>1. excused'
      BY <1>9, <2>1, Zenon DEF FlusherAborted
    <3> QED BY <3>1 DEF Flow
  <2>2. CASE flusher # "queued"
    <3>1. hand["flusher"] = Nothing
      BY <1>9, <2>2 DEF FlusherAborted, Places
    <3>2. hand' = hand
      BY <1>9, <3>1 DEF FlusherAborted, Withdrawn, TypeInv
    <3>3. UNCHANGED <<pending, recorded, channel, carried, link, stored>>
      BY <1>9 DEF FlusherAborted, Withdrawn, engineVars, forwarderVars, linkVars
    <3> QED BY <1>1, <3>2, <3>3, Undisturbed
  <2> QED BY <2>1, <2>2
<1>10. CASE SpawnFlusher \/ JoinAll \/ Stop
  BY <1>1, <1>10, Undisturbed
     DEF SpawnFlusher, JoinAll, Stop, sendVars, forwarderVars, linkVars, storeVars
<1>11. CASE FinalDrain
  BY <1>1, <1>11, DrainedByTheEngine
<1>12. CASE FinalSend
  <2>1. UNCHANGED <<pending, recorded, carried, link, stored>>
    BY <1>12 DEF FinalSend, forwarderVars, linkVars, storeVars
  <2>2. CASE Sent("engine") \/ Delivered("engine")
    BY <1>6, <1>7, <2>1, <2>2
  <2>3. CASE Queued("engine")
    BY <1>1, <2>1, <2>3, Undisturbed DEF Queued
  <2>4. CASE SendFails("engine")
    <3>1. forwarder = "done" /\ engine = "sending"
      BY <1>12, <2>4 DEF SendFails, Listening, FinalSend
    <3> QED BY <1>1, <3>1 DEF Places, Onward, Flow
  <2> QED BY <1>12, <2>2, <2>3, <2>4 DEF FinalSend
<1>13. CASE Report
  <2>1. UNCHANGED <<second, pending, recorded, hand, channel, carried, stored>>
    BY <1>13 DEF Report, sendVars, forwarderVars, storeVars
  <2>2. CASE ~open
    BY <1>1, <2>2 DEF Flow, Onward
  <2>3. CASE open
    <3>1. \E p \in Phases : link' = Append(link, Status(p))
      BY <1>13, <2>3 DEF Report
    <3> QED BY <1>1, <2>1, <3>1, Reported
  <2> QED BY <2>2, <2>3
<1>14. CASE ForwarderRecv
  BY <1>1, <1>14, ReceivedByTheForwarder
<1>15. CASE ForwarderSend
  BY <1>1, <1>15, SentByTheForwarder
<1>16. CASE ForwarderEnd \/ HandleEof
  BY <1>1, <1>16, Undisturbed
     DEF ForwarderEnd, HandleEof, engineVars, sendVars, forwarderVars, linkVars, storeVars
<1>17. CASE HandleMetrics
  BY <1>1, <1>17, Stored
<1>18. CASE HandleStatus
  <2>1. /\ link # <<>> /\ Head(link).kind = "status" /\ link' = Tail(link)
        /\ UNCHANGED <<second, pending, recorded, hand, channel, carried, stored>>
    BY <1>18 DEF HandleStatus, engineVars, sendVars, forwarderVars
  <2> QED BY <1>1, <2>1, Reported
<1> QED BY <1>2, <1>3, <1>4, <1>5, <1>8, <1>9, <1>10, <1>11, <1>12, <1>13, <1>14, <1>15,
           <1>16, <1>17, <1>18
        DEF Next, FlusherMoves, EngineMoves, ForwarderMoves, HandlerMoves

LEMMA VerdictStays ==
    ASSUME Admissible, Inv, Next PROVE CompletedRunIsFullyStored'
<1> USE DEF Inv
<1>1. Onward
  BY EveryStepGoesOn
<1>2. CASE HandleStatus
  <2> SUFFICES ASSUME ~excused PROVE stored = recorded
    BY <1>2 DEF HandleStatus, CompletedRunIsFullyStored, engineVars
  <2>1. /\ link # <<>> /\ Head(link).kind = "status" /\ open
        /\ link \in Seq(AnyMsgs) /\ Len(link) \in Nat \ {0}
    BY <1>2 DEF HandleStatus, Places, TypeInv
  <2>2. 1 \in 1..Len(link) /\ link[1].kind = "status"
    BY <2>1
  <2>3. Len(link) = 1 /\ engine = "gone"
    BY <2>2 DEF Places
  <2>4. Tail(link) = <<>>
    <3>1. Tail(link) \in Seq(AnyMsgs) /\ Len(Tail(link)) = 0
      BY <2>1, <2>3, HeadTailProperties
    <3> QED BY <3>1, EmptySeq
  <2>5. /\ channel = <<>> /\ pending = Nothing /\ carried = Nothing
        /\ hand["flusher"] = Nothing /\ hand["engine"] = Nothing
    BY <2>1, <2>3 DEF Places
  <2>6. Kept
    BY <2>1 DEF Flow
  <2> QED BY <2>1, <2>4, <2>5, <2>6, AllArrived
<1>3. CASE HandleEof
  BY <1>3 DEF HandleEof, CompletedRunIsFullyStored
<1>4. CASE ~HandleStatus /\ ~HandleEof
  <2>1. verdict' = verdict
    BY <1>4 DEF Next, Tick, Break, Record, DropArrival, GrantPermit, FlusherTick, FlusherDrain,
         FlusherMoves, FlusherSend, FlusherDeliver, FlusherAborted, EngineMoves, SpawnFlusher,
         JoinAll, FinalDrain, FinalSend, Stop, Report, ForwarderMoves, ForwarderRecv,
         ForwarderSend, ForwarderEnd, HandlerMoves, HandleMetrics, storeVars
  <2> SUFFICES ASSUME verdict = "completed", ~excused' PROVE UNCHANGED <<stored, recorded>>
    BY <1>1, <2>1 DEF CompletedRunIsFullyStored, Onward
  <2>2. engine = "gone" /\ link = <<>>
    BY DEF Places, Phases
  <2> QED BY <1>4, <2>2
      DEF Next, Tick, Break, Record, DropArrival, GrantPermit, FlusherTick, FlusherDrain,
         FlusherMoves, FlusherSend, FlusherDeliver, FlusherAborted, EngineMoves, SpawnFlusher,
         JoinAll, FinalDrain, FinalSend, Stop, Report, ForwarderMoves, ForwarderRecv,
         ForwarderSend, ForwarderEnd, HandlerMoves, HandleMetrics, engineVars, storeVars
<1> QED BY <1>2, <1>3, <1>4

LEMMA InitHolds == ASSUME Admissible, Init PROVE Inv
<1>1. TypeInv
  BY NothingIsABatch DEF Init, TypeInv, Seconds, Admissible
<1>2. Places
  BY DEF Init, Places, Senders, Phases
<1>3. /\ link = <<>> /\ channel = <<>> /\ recorded = Nothing /\ stored = Nothing
      /\ carried = Nothing /\ pending = Nothing
      /\ hand["flusher"] = Nothing /\ hand["engine"] = Nothing
  BY DEF Init, Senders
<1>4. ASSUME NEW x \in Amounts PROVE AmountKept(x)
  <2>1. IsSum(link, InMsg(x), 0) /\ IsSum(channel, InFlush(x), 0)
    BY <1>3, NothingInNone
  <2>2. Of(Nothing, x) = 0
    BY NothingIsABatch
  <2> QED BY <1>3, <2>1, <2>2 DEF AmountKept
<1>5. ASSUME NEW t \in Seconds PROVE WindowKept(t)
  <2>1. LiesIn(link, WinMsg(t), 0) /\ LiesIn(channel, WinFlush(t), 0)
    BY <1>3, NothingInNone
  <2>2. Nothing.win[t] = 0
    BY NothingIsABatch
  <2>3. OnePlace(t, 0, 0)
    BY <1>3, <2>2 DEF OnePlace, AtMostOne
  <2> QED BY <2>1, <2>3 DEF WindowKept
<1>6. CompletedRunIsFullyStored
  BY DEF Init, CompletedRunIsFullyStored
<1> QED BY <1>1, <1>2, <1>4, <1>5, <1>6 DEF Inv, Flow, Kept

LEMMA NothingStays == ASSUME Inv, UNCHANGED vars PROVE Inv'
<1> USE DEF vars, engineVars, flusherVars, sendVars, forwarderVars, linkVars, storeVars
<1>1. TypeInv'
  BY DEF Inv, TypeInv
<1>2. Places'
  BY DEF Inv, Places
<1>3. Flow'
  <2>1. Kept => Kept'
    BY DEF Kept, AmountKept, WindowKept, OnePlace
  <2> QED BY <2>1 DEF Inv, Flow
<1>4. CompletedRunIsFullyStored'
  BY DEF Inv, CompletedRunIsFullyStored
<1> QED BY <1>1, <1>2, <1>3, <1>4 DEF Inv

(***************************************************************************)
(* A worker whose terminal RunStatus the controller has taken for          *)
(* completed has in the database exactly what its engine measured, unless  *)
(* the aborted flusher held a batch or an insert failed.  A measurement is *)
(* in one place at a time from the aggregator (aggregator.rs) through the  *)
(* flusher and the final flush (runner.rs), the channel and the forwarder  *)
(* (worker/lib.rs) to ingest_metrics (coordinator.rs), the window of a     *)
(* second never in two batches, and the status comes behind all of them.   *)
(***************************************************************************)
THEOREM NoMeasurementIsLost ==
    ASSUME Admissible PROVE Spec => []CompletedRunIsFullyStored
<1>1. Init => Inv
  BY InitHolds
<1>2. Inv /\ [Next]_vars => Inv'
  <2> SUFFICES ASSUME Inv, [Next]_vars PROVE Inv'
    OBVIOUS
  <2>1. CASE Next
    BY <2>1, TypesStay, PlacesStay, FlowStays, VerdictStays DEF Inv
  <2>2. CASE UNCHANGED vars
    BY <2>2, NothingStays
  <2> QED BY <2>1, <2>2
<1>3. Inv => CompletedRunIsFullyStored
  BY DEF Inv
<1> QED BY <1>1, <1>2, <1>3, PTL DEF Spec

----------------------------------------------------------------------------
(***************************************************************************)
(* The types.  The queue of the channel's permits is one half of them, the *)
(* counts the other: a count in a batch is bounded because it is part of   *)
(* what was recorded, as is each other place's, and all of them together.  *)
(***************************************************************************)

\* Of the types, those that are no measurements.
Flags ==
    /\ mode \in {"closed", "ramped", "open"}
    /\ {cancelled, open, excused} \subseteq BOOLEAN
    /\ Len(link) <= LinkCap
    /\ verdict \in {"none", "disconnected"} \cup Phases
    /\ breaks \in 0..MaxBreaks
    /\ dbErrors \in 0..MaxDbErrors

\* A sender waits for a place or has one: there is one for each permit.
Queue ==
    /\ waiting \in Seq(Senders) /\ IsInjective(waiting)
    /\ permits \subseteq Senders
    /\ \A s \in permits : ~Contains(waiting, s)
    /\ Len(channel) + Cardinality(permits) <= Capacity
    /\ Contains(waiting, "flusher") \/ "flusher" \in permits => flusher = "queued"

\* Every step keeps them.
LEMMA FlagsStay ==
    ASSUME Admissible, TypeInv, Flags, Next PROVE Flags'
<1>1. Len(link) \in Nat /\ LinkCap \in Nat \ {0} /\ MaxBreaks \in Nat /\ MaxDbErrors \in Nat
  BY DEF TypeInv, Admissible
<1>2. \A m : Len(link) < LinkCap => Len(Append(link, m)) <= LinkCap
  BY <1>1 DEF TypeInv
<1>3. link # <<>> => /\ Len(Tail(link)) <= LinkCap
                     /\ Head(link).kind = "status" => Head(link).phase \in Phases
  <2> SUFFICES ASSUME link # <<>>
               PROVE  /\ Len(Tail(link)) <= LinkCap
                      /\ Head(link).kind = "status" => Head(link).phase \in Phases
    OBVIOUS
  <2>1. Head(link) \in AnyMsgs /\ Len(Tail(link)) = Len(link) - 1
    BY HeadTailProperties DEF TypeInv
  <2> QED BY <1>1, <2>1, MessageParts DEF Flags
<1>4. CASE Tick \/ Record \/ DropArrival \/ GrantPermit \/ FlusherTick \/ FlusherDrain
  BY <1>4 DEF Tick, Record, DropArrival, GrantPermit, FlusherTick, FlusherDrain, Flags,
       engineVars, flusherVars, linkVars, storeVars
<1>5. CASE Break
  <2>1. Len(link') <= LinkCap /\ breaks' \in 0..MaxBreaks
    BY <1>1, <1>5 DEF Break, Flags
  <2> QED BY <1>5, <2>1 DEF Break, Flags, engineVars, flusherVars, storeVars
<1>6. CASE FlusherSend \/ FlusherDeliver
  BY <1>6 DEF FlusherSend, FlusherDeliver, Flags, engineVars, linkVars, storeVars
<1>7. CASE FlusherAborted
  <2>1. excused' \in BOOLEAN
    BY <1>7, Zenon DEF FlusherAborted, Flags
  <2>2. UNCHANGED <<mode, cancelled, open, link, verdict, breaks, dbErrors>>
    BY <1>7 DEF FlusherAborted, engineVars, linkVars
  <2> QED BY <2>1, <2>2 DEF Flags
<1>8. CASE SpawnFlusher \/ JoinAll \/ FinalDrain \/ FinalSend
  BY <1>8 DEF SpawnFlusher, JoinAll, FinalDrain, FinalSend, Flags, flusherVars, linkVars, storeVars
<1>9. CASE Stop
  BY <1>9 DEF Stop, Flags, linkVars, storeVars
<1>10. CASE Report
  BY <1>2, <1>10 DEF Report, Flags, flusherVars, storeVars
<1>11. CASE ForwarderMoves
  BY <1>2, <1>11
     DEF ForwarderMoves, ForwarderRecv, ForwarderSend, ForwarderEnd, Flags, engineVars,
         flusherVars, linkVars, storeVars
<1>12. CASE HandleMetrics
  <2>1. excused' \in BOOLEAN /\ dbErrors' \in 0..MaxDbErrors
    <3>1. \/ UNCHANGED <<excused, dbErrors>>
          \/ dbErrors < MaxDbErrors /\ excused' = TRUE /\ dbErrors' = dbErrors + 1
      BY <1>12 DEF HandleMetrics
    <3>2. excused \in BOOLEAN /\ dbErrors \in 0..MaxDbErrors
      BY DEF Flags
    <3>3. excused' \in BOOLEAN
      BY <3>1, <3>2, Zenon
    <3>4. dbErrors' \in 0..MaxDbErrors
      BY <1>1, <3>1, <3>2
    <3> QED BY <3>3, <3>4
  <2> QED BY <1>3, <1>12, <2>1 DEF HandleMetrics, Flags, engineVars, flusherVars
<1>13. CASE HandleStatus
  BY <1>3, <1>13 DEF HandleStatus, Flags, engineVars, flusherVars
<1>14. CASE HandleEof
  BY <1>14 DEF HandleEof, Flags, engineVars, flusherVars, linkVars
<1> QED BY <1>4, <1>5, <1>6, <1>7, <1>8, <1>9, <1>10, <1>11, <1>12, <1>13, <1>14
        DEF Next, FlusherMoves, EngineMoves, HandlerMoves

----------------------------------------------------------------------------
\* The queue of senders: one joins it, the first leaves it, or one of them does.
LEMMA JoinsQueue ==
    ASSUME NEW q \in Seq(Senders), IsInjective(q), NEW s \in Senders, ~Contains(q, s)
    PROVE  /\ Append(q, s) \in Seq(Senders) /\ IsInjective(Append(q, s))
           /\ \A r : Contains(Append(q, s), r) <=> Contains(q, r) \/ r = s
<1>1. /\ Append(q, s) \in Seq(Senders) /\ Len(q) \in Nat
      /\ Len(Append(q, s)) = Len(q) + 1
      /\ \A i \in 1..Len(q) : Append(q, s)[i] = q[i]
      /\ Append(q, s)[Len(q) + 1] = s
      /\ DOMAIN Append(q, s) = 1..(Len(q) + 1) /\ DOMAIN q = 1..Len(q)
  BY AppendProperties
<1>2. \A i \in 1..Len(q) : q[i] # s
  BY DEF Contains
<1>3. IsInjective(Append(q, s))
  BY <1>1, <1>2 DEF IsInjective
<1>4. ASSUME NEW r PROVE Contains(Append(q, s), r) <=> Contains(q, r) \/ r = s
  BY <1>1 DEF Contains
<1> QED BY <1>1, <1>3, <1>4

\* One that waits leaves the queue, wherever it stands.
LEMMA LeavesQueue ==
    ASSUME NEW q \in Seq(Senders), IsInjective(q), NEW i \in 1..Len(q)
    PROVE  /\ RemoveAt(q, i) \in Seq(Senders) /\ IsInjective(RemoveAt(q, i))
           /\ \A r : Contains(RemoveAt(q, i), r) <=> Contains(q, r) /\ r # q[i]
<1> DEFINE a == SubSeq(q, 1, i - 1)
           b == SubSeq(q, i + 1, Len(q))
           t == RemoveAt(q, i)
<1>1. Len(q) \in Nat /\ DOMAIN q = 1..Len(q) /\ \A j \in 1..Len(q) : q[j] \in Senders
  BY ElementOfSeq
<1>2. /\ a \in Seq(Senders) /\ Len(a) = i - 1
      /\ \A j \in 1..(i - 1) : a[j] = q[j]
  BY <1>1, SubSeqProperties
<1>3. /\ b \in Seq(Senders) /\ Len(b) = Len(q) - i
      /\ \A j \in 1..(Len(q) - i) : b[j] = q[i + j]
  <2>1. i + 1 \in 1..(Len(q) + 1) /\ Len(q) \in (i + 1) - 1..Len(q)
    BY <1>1
  <2>2. /\ b \in Seq(Senders)
        /\ Len(b) = IF i + 1 <= Len(q) THEN Len(q) - (i + 1) + 1 ELSE 0
        /\ \A j \in 1..(Len(q) - (i + 1) + 1) : b[j] = q[(i + 1) + j - 1]
    BY <1>1, <2>1, SubSeqProperties
  <2>3. \A j \in 1..(Len(q) - i) : (i + 1) + j - 1 = i + j
    BY <1>1
  <2>4. /\ Len(q) - (i + 1) + 1 = Len(q) - i
        /\ (IF i + 1 <= Len(q) THEN Len(q) - (i + 1) + 1 ELSE 0) = Len(q) - i
    <3>1. Len(q) - (i + 1) + 1 = Len(q) - i
      BY <1>1
    <3>2. CASE i = Len(q)
      <4>1. ~(i + 1 <= Len(q)) /\ Len(q) - i = 0
        BY <1>1, <3>2
      <4> QED BY <3>1, <4>1
    <3>3. CASE i < Len(q)
      <4>1. i + 1 <= Len(q)
        BY <1>1, <3>3
      <4> QED BY <3>1, <4>1
    <3>4. i = Len(q) \/ i < Len(q)
      <4>1. Len(q) \in Int /\ i \in Int /\ i <= Len(q)
        BY <1>1
      <4> QED BY <4>1
    <3> QED BY <3>2, <3>3, <3>4
  <2>5. \A j \in 1..(Len(q) - i) : b[j] = q[i + j]
    BY <2>2, <2>3, <2>4
  <2> HIDE DEF b
  <2> QED BY <2>2, <2>4, <2>5
<1> HIDE DEF a, b
<1>4. t = a \o b
  BY DEF RemoveAt, a, b
<1>5. /\ t \in Seq(Senders) /\ Len(t) = Len(q) - 1 /\ DOMAIN t = 1..(Len(q) - 1)
      /\ \A j \in 1..(Len(q) - 1) : t[j] = IF j < i THEN q[j] ELSE q[j + 1]
  <2>1. /\ a \o b \in Seq(Senders) /\ Len(a \o b) = (i - 1) + (Len(q) - i)
        /\ \A j \in 1..((i - 1) + (Len(q) - i)) :
             (a \o b)[j] = IF j <= i - 1 THEN a[j] ELSE b[j - (i - 1)]
    <3>1. /\ a \o b \in Seq(Senders) /\ Len(a \o b) = Len(a) + Len(b)
          /\ \A j \in 1..(Len(a) + Len(b)) :
               (a \o b)[j] = IF j <= Len(a) THEN a[j] ELSE b[j - Len(a)]
      BY <1>2, <1>3, ConcatProperties
    <3>2. Len(a) = i - 1 /\ Len(b) = Len(q) - i
      BY <1>2, <1>3
    <3> QED BY <3>1, <3>2
  <2>2. (i - 1) + (Len(q) - i) = Len(q) - 1
    BY <1>1
  <2>3. ASSUME NEW j \in 1..(Len(q) - 1)
        PROVE  (a \o b)[j] = IF j < i THEN q[j] ELSE q[j + 1]
    <3>1. CASE j < i
      <4>1. j \in 1..(i - 1)
        BY <3>1
      <4> QED BY <1>2, <2>1, <2>2, <3>1, <4>1
    <3>2. CASE ~(j < i)
      <4>1. j - (i - 1) \in 1..(Len(q) - i) /\ i + (j - (i - 1)) = j + 1 /\ ~(j <= i - 1)
        BY <1>1, <3>2
      <4>2. (a \o b)[j] = b[j - (i - 1)]
        BY <2>1, <2>2, <4>1
      <4>3. b[j - (i - 1)] = q[i + (j - (i - 1))]
        BY <1>3, <4>1
      <4> QED BY <3>2, <4>1, <4>2, <4>3
    <3> QED BY <3>1, <3>2
  <2>4. a \o b \in Seq(Senders) /\ Len(a \o b) = Len(q) - 1
    BY <2>1, <2>2
  <2>5. DOMAIN (a \o b) = 1..(Len(q) - 1)
    BY <2>4
  <2> HIDE DEF t
  <2> QED BY <1>4, <2>3, <2>4, <2>5
<1> HIDE DEF t
<1>6. \A j, k \in 1..Len(q) : q[j] = q[k] => j = k
  BY <1>1 DEF IsInjective
<1>7. IsInjective(t)
  <2> SUFFICES ASSUME NEW j \in 1..(Len(q) - 1), NEW k \in 1..(Len(q) - 1), t[j] = t[k]
               PROVE  j = k
    BY <1>5 DEF IsInjective
  <2> DEFINE at(m) == IF m < i THEN m ELSE m + 1
  <2>1. at(j) \in 1..Len(q) /\ at(k) \in 1..Len(q) /\ t[j] = q[at(j)] /\ t[k] = q[at(k)]
    BY <1>1, <1>5
  <2>2. at(j) = at(k)
    BY <1>6, <2>1
  <2> QED BY <2>2
<1>8. ASSUME NEW r PROVE Contains(t, r) <=> Contains(q, r) /\ r # q[i]
  <2>1. ASSUME Contains(t, r) PROVE Contains(q, r) /\ r # q[i]
    <3>1. PICK j \in 1..(Len(q) - 1) : t[j] = r
      BY <1>5, <2>1 DEF Contains
    <3>2. PICK k \in 1..Len(q) : k # i /\ q[k] = r
      <4>1. CASE j < i
        BY <1>1, <1>5, <3>1, <4>1
      <4>2. CASE ~(j < i)
        <5>1. j + 1 \in 1..Len(q) /\ j + 1 # i
          BY <1>1, <4>2
        <5> QED BY <1>5, <3>1, <4>2, <5>1
      <4> QED BY <4>1, <4>2
    <3> QED BY <1>6, <3>2 DEF Contains
  <2>2. ASSUME Contains(q, r), r # q[i] PROVE Contains(t, r)
    <3>1. PICK k \in 1..Len(q) : q[k] = r
      BY <2>2 DEF Contains
    <3>2. k # i
      BY <2>2, <3>1
    <3>3. CASE k < i
      <4>1. k \in 1..(Len(q) - 1)
        BY <1>1, <3>3
      <4> QED BY <1>5, <3>1, <3>3, <4>1 DEF Contains
    <3>4. CASE k > i
      <4>1. k - 1 \in 1..(Len(q) - 1) /\ ~(k - 1 < i) /\ (k - 1) + 1 = k
        BY <1>1, <3>4
      <4> QED BY <1>5, <3>1, <4>1 DEF Contains
    <3> QED BY <1>1, <3>2, <3>3, <3>4
  <2> QED BY <2>1, <2>2
<1> QED BY <1>5, <1>7, <1>8 DEF t

\* The first of the queue leaves it.
LEMMA FirstLeavesQueue ==
    ASSUME NEW q \in Seq(Senders), IsInjective(q), q # <<>>
    PROVE  /\ Tail(q) \in Seq(Senders) /\ IsInjective(Tail(q)) /\ Head(q) \in Senders
           /\ \A r : Contains(Tail(q), r) => Contains(q, r)
           /\ ~Contains(Tail(q), Head(q)) /\ Contains(q, Head(q))
<1>1. /\ Head(q) \in Senders /\ Tail(q) \in Seq(Senders) /\ Len(Tail(q)) = Len(q) - 1
      /\ \A i \in 1..Len(Tail(q)) : Tail(q)[i] = q[i + 1]
  BY HeadTailProperties
<1>2. Len(q) \in Nat \ {0} /\ Head(q) = q[1] /\ DOMAIN q = 1..Len(q)
      /\ DOMAIN Tail(q) = 1..(Len(q) - 1)
  BY <1>1
<1>3. \A i, j \in 1..Len(q) : q[i] = q[j] => i = j
  BY <1>2 DEF IsInjective
<1>4. IsInjective(Tail(q))
  <2> SUFFICES ASSUME NEW i \in 1..(Len(q) - 1), NEW j \in 1..(Len(q) - 1), Tail(q)[i] = Tail(q)[j]
               PROVE  i = j
    BY <1>2 DEF IsInjective
  <2>1. i + 1 \in 1..Len(q) /\ j + 1 \in 1..Len(q)
    BY <1>2
  <2>2. q[i + 1] = q[j + 1]
    BY <1>1
  <2>3. i + 1 = j + 1
    BY <1>3, <2>1, <2>2
  <2> QED BY <2>3
<1>5. \A r : Contains(Tail(q), r) => Contains(q, r)
  <2> SUFFICES ASSUME NEW r, Contains(Tail(q), r) PROVE Contains(q, r)
    OBVIOUS
  <2>1. PICK i \in 1..Len(Tail(q)) : Tail(q)[i] = r
    BY DEF Contains
  <2>2. i + 1 \in 1..Len(q) /\ q[i + 1] = r
    BY <1>1, <1>2, <2>1
  <2> QED BY <2>2 DEF Contains
<1>6. ~Contains(Tail(q), Head(q))
  <2> SUFFICES ASSUME NEW i \in 1..Len(Tail(q)) PROVE Tail(q)[i] # Head(q)
    BY DEF Contains
  <2>1. i + 1 \in 1..Len(q) /\ 1 \in 1..Len(q) /\ i + 1 # 1
    BY <1>1, <1>2
  <2>2. q[i + 1] # q[1]
    BY <1>3, <2>1
  <2> QED BY <1>1, <1>2, <2>2
<1>7. Contains(q, Head(q))
  <2>1. 1 \in 1..Len(q)
    BY <1>2
  <2> QED BY <1>2, <2>1 DEF Contains
<1> QED BY <1>1, <1>4, <1>5, <1>6, <1>7

InQueue(s) == Contains(waiting, s) \/ s \in permits

\* Queue, but for the flusher's position.
InTurn ==
    /\ waiting \in Seq(Senders) /\ IsInjective(waiting)
    /\ permits \subseteq Senders
    /\ \A s \in permits : ~Contains(waiting, s)
    /\ Len(channel) + Cardinality(permits) <= Capacity

\* The permits, one more or one less.
LEMMA PermitsCount ==
    ASSUME permits \subseteq Senders, NEW s \in Senders
    PROVE  /\ Cardinality(permits) \in Nat
           /\ s \notin permits => Cardinality(permits \cup {s}) = Cardinality(permits) + 1
           /\ Cardinality(permits \ {s}) \in Nat
           /\ Cardinality(permits \ {s}) <= Cardinality(permits)
           /\ s \in permits => Cardinality(permits \ {s}) = Cardinality(permits) - 1
<1>1. IsFiniteSet(permits)
  <2>1. IsFiniteSet({"flusher"} \cup {"engine"})
    BY FS_EmptySet, FS_AddElement, FS_Singleton, FS_Union
  <2>2. Senders = {"flusher"} \cup {"engine"}
    BY DEF Senders
  <2> QED BY <2>1, <2>2, FS_Subset
<1>2. Cardinality(permits) \in Nat /\ Cardinality(permits \ {s}) \in Nat
  BY <1>1, FS_Subset, FS_CardinalityType
<1>3. s \notin permits => Cardinality(permits \cup {s}) = Cardinality(permits) + 1
  BY <1>1, FS_AddElement
<1>4. s \in permits => Cardinality(permits \ {s}) = Cardinality(permits) - 1
  BY <1>1, FS_RemoveElement
<1>5. Cardinality(permits \ {s}) <= Cardinality(permits)
  <2>1. CASE s \in permits
    BY <1>2, <1>4, <2>1
  <2>2. CASE s \notin permits
    <3>1. permits \ {s} = permits
      BY <2>2
    <3> QED BY <1>2, <3>1
  <2> QED BY <2>1, <2>2
<1> QED BY <1>2, <1>3, <1>4, <1>5

\* A sender has its place no more.
LEMMA SenderLeaves ==
    ASSUME Admissible, TypeInv, InTurn, NEW s \in Senders, permits' = permits \ {s},
           \/ ~Contains(waiting, s) /\ UNCHANGED waiting
           \/ \E i \in DOMAIN waiting : waiting[i] = s /\ waiting' = RemoveAt(waiting, i),
           channel' = channel \/ (s \in permits /\ Len(channel') = Len(channel) + 1)
    PROVE  InTurn' /\ \A r : InQueue(r)' => InQueue(r) /\ r # s
<1>1. /\ waiting' \in Seq(Senders) /\ IsInjective(waiting')
      /\ \A r : Contains(waiting', r) => Contains(waiting, r) /\ r # s
  <2>1. CASE ~Contains(waiting, s) /\ UNCHANGED waiting
    BY <2>1 DEF InTurn
  <2>2. CASE \E i \in DOMAIN waiting : waiting[i] = s /\ waiting' = RemoveAt(waiting, i)
    <3>1. PICK i \in 1..Len(waiting) : waiting[i] = s /\ waiting' = RemoveAt(waiting, i)
      BY <2>2 DEF InTurn
    <3> QED BY <3>1, LeavesQueue DEF InTurn
  <2> QED BY <2>1, <2>2
<1>2. Len(channel') + Cardinality(permits') <= Capacity
  <2>1. Len(channel) \in Nat /\ Capacity \in Nat
    BY DEF TypeInv, Admissible
  <2>2. /\ Cardinality(permits) \in Nat /\ Cardinality(permits') \in Nat
        /\ Cardinality(permits') <= Cardinality(permits)
        /\ s \in permits => Cardinality(permits') = Cardinality(permits) - 1
    BY PermitsCount DEF InTurn
  <2>3. Len(channel) + Cardinality(permits) <= Capacity
    BY DEF InTurn
  <2>4. CASE channel' = channel
    BY <2>1, <2>2, <2>3, <2>4
  <2>5. CASE s \in permits /\ Len(channel') = Len(channel) + 1
    BY <2>1, <2>2, <2>3, <2>5
  <2> QED BY <2>4, <2>5
<1>3. permits' \subseteq Senders /\ \A r \in permits' : ~Contains(waiting', r)
  BY <1>1 DEF InTurn
<1>4. \A r : InQueue(r)' => InQueue(r) /\ r # s
  BY <1>1 DEF InQueue
<1> QED BY <1>1, <1>2, <1>3, <1>4 DEF InTurn

\* What a sender does to its own place.
LEMMA SenderMoves ==
    ASSUME Admissible, TypeInv, InTurn, NEW s \in Senders
    PROVE  /\ Sent(s) => InTurn' /\ \A r : InQueue(r)' => InQueue(r)
           /\ Queued(s) /\ ~InQueue(s) => InTurn' /\ \A r : InQueue(r)' => InQueue(r) \/ r = s
           /\ Delivered(s) \/ Withdrawn(s) \/ SendFails(s) =>
                InTurn' /\ \A r : InQueue(r)' => InQueue(r) /\ r # s
<1>1. Len(channel) \in Nat /\ Capacity \in Nat /\ Cardinality(permits) \in Nat
  <2>1. Cardinality(permits) \in Nat
    BY PermitsCount DEF InTurn
  <2> QED BY <2>1 DEF TypeInv, Admissible
<1>2. \A b : Len(Append(channel, b)) = Len(channel) + 1
  BY DEF TypeInv
<1>3. ASSUME Sent(s) PROVE InTurn' /\ \A r : InQueue(r)' => InQueue(r)
  <2>1. Len(channel') = Len(channel) + 1 /\ Room /\ UNCHANGED <<waiting, permits>>
    BY <1>2, <1>3 DEF Sent
  <2>2. Len(channel') + Cardinality(permits') <= Capacity
    BY <1>1, <2>1 DEF Room
  <2> QED BY <2>1, <2>2 DEF InTurn, InQueue
<1>4. ASSUME Queued(s), ~InQueue(s)
      PROVE  InTurn' /\ \A r : InQueue(r)' => InQueue(r) \/ r = s
  <2>1. waiting' = Append(waiting, s) /\ UNCHANGED <<channel, permits>>
    BY <1>4 DEF Queued
  <2>2. /\ waiting' \in Seq(Senders) /\ IsInjective(waiting')
        /\ \A r : Contains(waiting', r) <=> Contains(waiting, r) \/ r = s
    BY <1>4, <2>1, JoinsQueue DEF InTurn, InQueue
  <2>3. \A r \in permits' : ~Contains(waiting', r)
    BY <1>4, <2>1, <2>2 DEF InTurn, InQueue
  <2>4. \A r : InQueue(r)' => InQueue(r) \/ r = s
    BY <2>1, <2>2 DEF InQueue
  <2> QED BY <2>1, <2>2, <2>3, <2>4 DEF InTurn
<1>5. ASSUME Delivered(s) PROVE InTurn' /\ \A r : InQueue(r)' => InQueue(r) /\ r # s
  <2>1. /\ permits' = permits \ {s} /\ s \in permits /\ UNCHANGED waiting
        /\ Len(channel') = Len(channel) + 1
    BY <1>2, <1>5 DEF Delivered
  <2>2. ~Contains(waiting, s)
    BY <2>1 DEF InTurn
  <2> QED BY <2>1, <2>2, SenderLeaves
<1>6. ASSUME Withdrawn(s) \/ SendFails(s)
      PROVE  InTurn' /\ \A r : InQueue(r)' => InQueue(r) /\ r # s
  <2>1. Withdrawn(s)
    BY <1>6 DEF SendFails
  <2>2. permits' = permits \ {s} /\ channel' = channel
    BY <2>1 DEF Withdrawn
  <2>3. CASE ~Contains(waiting, s) /\ UNCHANGED waiting
    BY <2>2, <2>3, SenderLeaves
  <2>4. CASE \E i \in DOMAIN waiting : waiting[i] = s /\ waiting' = RemoveAt(waiting, i)
    BY <2>2, <2>4, SenderLeaves
  <2> QED BY <2>1, <2>3, <2>4 DEF Withdrawn
<1> QED BY <1>3, <1>4, <1>5, <1>6

\* The flusher's place goes with its position, in every step.
LEMMA QueueStays ==
    ASSUME Admissible, TypeInv, Places, Queue, Next PROVE Queue'
<1>1. InTurn /\ (InQueue("flusher") => flusher = "queued")
  BY DEF Queue, InTurn, InQueue
<1>2. SUFFICES InTurn' /\ (InQueue("flusher")' => flusher' = "queued")
  BY DEF Queue, InTurn, InQueue
<1>3. "flusher" \in Senders /\ "engine" \in Senders
  BY DEF Senders
<1>4. CASE UNCHANGED <<channel, waiting, permits>> /\ (flusher = "queued" => flusher' = "queued")
  BY <1>1, <1>4 DEF InTurn, InQueue
<1>5. CASE Tick \/ Break \/ Record \/ DropArrival
  BY <1>4, <1>5 DEF Tick, Break, Record, DropArrival, flusherVars, sendVars
<1>6. CASE GrantPermit
  <2>1. /\ waiting # <<>> /\ Room /\ permits' = permits \cup {Head(waiting)}
        /\ waiting' = Tail(waiting) /\ UNCHANGED <<channel, flusher>>
    BY <1>6 DEF GrantPermit, flusherVars
  <2>2. /\ Head(waiting) \in Senders /\ waiting' \in Seq(Senders) /\ IsInjective(waiting')
        /\ \A r : Contains(waiting', r) => Contains(waiting, r)
        /\ ~Contains(waiting', Head(waiting)) /\ Contains(waiting, Head(waiting))
    BY <1>1, <2>1, FirstLeavesQueue DEF InTurn
  <2>3. Head(waiting) \notin permits
    BY <1>1, <2>2 DEF InTurn
  <2>4. Len(channel') + Cardinality(permits') <= Capacity
    <3>1. Len(channel) \in Nat /\ Capacity \in Nat
      BY DEF TypeInv, Admissible
    <3> QED BY <1>1, <2>1, <2>2, <2>3, <3>1, PermitsCount DEF Room, InTurn
  <2>5. \A r : InQueue(r)' => InQueue(r)
    BY <2>1, <2>2 DEF InQueue
  <2> QED BY <1>1, <2>1, <2>2, <2>4, <2>5 DEF InTurn
<1>7. CASE FlusherTick \/ FlusherDrain \/ SpawnFlusher
  <2>1. flusher # "queued"
    BY <1>7 DEF FlusherTick, FlusherDrain, SpawnFlusher, Places
  <2> QED BY <1>4, <1>7, <2>1 DEF FlusherTick, FlusherDrain, SpawnFlusher, sendVars
<1>8. CASE FlusherSend
  <2>1. ~InQueue("flusher")
    BY <1>1, <1>8 DEF FlusherSend
  <2>2. CASE Queued("flusher") /\ flusher' = "queued"
    BY <1>1, <1>3, <2>1, <2>2, SenderMoves
  <2>3. CASE Sent("flusher") \/ SendFails("flusher")
    BY <1>1, <1>3, <2>1, <2>3, SenderMoves
  <2> QED BY <1>8, <2>2, <2>3 DEF FlusherSend
<1>9. CASE FlusherDeliver \/ FlusherAborted
  BY <1>1, <1>3, <1>9, SenderMoves DEF FlusherDeliver, FlusherAborted
<1>10. CASE JoinAll \/ FinalDrain \/ Stop \/ Report
  BY <1>4, <1>10 DEF JoinAll, FinalDrain, Stop, Report, flusherVars, sendVars
<1>11. CASE FinalSend
  <2>1. UNCHANGED flusher
    BY <1>11 DEF FinalSend, flusherVars
  <2>2. InTurn' /\ (InQueue("flusher")' => InQueue("flusher"))
    <3>1. CASE Sent("engine") \/ Delivered("engine") \/ SendFails("engine")
      BY <1>1, <1>3, <3>1, SenderMoves
    <3>2. CASE Queued("engine") /\ ~Contains(waiting, "engine") /\ "engine" \notin permits
      <4>1. ~InQueue("engine")
        BY <3>2 DEF InQueue
      <4>2. InTurn' /\ \A r : InQueue(r)' => InQueue(r) \/ r = "engine"
        BY <1>1, <1>3, <3>2, <4>1, SenderMoves
      <4> QED BY <4>2
    <3> QED BY <1>11, <3>1, <3>2 DEF FinalSend
  <2> QED BY <1>1, <2>1, <2>2
<1>12. CASE ForwarderRecv
  <2>1. Len(channel') = Len(channel) - 1 /\ UNCHANGED <<waiting, permits, flusher>>
    BY <1>12, HeadTailProperties DEF ForwarderRecv, TypeInv, flusherVars
  <2>2. Len(channel') + Cardinality(permits') <= Capacity
    <3>1. Len(channel) \in Nat /\ Capacity \in Nat /\ Cardinality(permits) \in Nat
      <4>1. Cardinality(permits) \in Nat
        BY <1>1, <1>3, PermitsCount DEF InTurn
      <4> QED BY <4>1 DEF TypeInv, Admissible
    <3> QED BY <1>1, <2>1, <3>1 DEF InTurn
  <2> QED BY <1>1, <2>1, <2>2 DEF InTurn, InQueue
<1>13. CASE ForwarderSend \/ ForwarderEnd \/ HandlerMoves
  BY <1>4, <1>13 DEF ForwarderSend, ForwarderEnd, HandlerMoves, HandleMetrics, HandleStatus,
                     HandleEof, flusherVars, sendVars
<1> QED BY <1>5, <1>6, <1>7, <1>8, <1>9, <1>10, <1>11, <1>12, <1>13
        DEF Next, FlusherMoves, EngineMoves, ForwarderMoves

\* A count over a sequence again, of numbers: the sums from its end, so that the
\* first of its elements is part of the sum.
Adds(s, d, v) ==
    \E p \in [0..Len(s) -> Nat] :
        /\ p[0] = v /\ p[Len(s)] = 0
        /\ \A i \in 1..Len(s) : p[i - 1] = d[s[i]] + p[i]

LEMMA NoneAdds == ASSUME NEW d PROVE Adds(<<>>, d, 0)
<1> DEFINE p == [i \in 0..Len(<<>>) |-> 0]
<1>1. p \in [0..Len(<<>>) -> Nat] /\ p[0] = 0 /\ p[Len(<<>>)] = 0
  OBVIOUS
<1>2. \A i \in 1..Len(<<>>) : p[i - 1] = d[<<>>[i]] + p[i]
  OBVIOUS
<1> QED BY <1>1, <1>2 DEF Adds

LEMMA OneMoreAdds ==
    ASSUME NEW S, NEW s \in Seq(S), NEW e \in S, NEW d \in [S -> Nat], NEW v, Adds(s, d, v)
    PROVE  v \in Nat /\ Adds(Append(s, e), d, v + d[e])
<1> DEFINE t == Append(s, e)
<1>1. /\ t \in Seq(S) /\ Len(t) = Len(s) + 1 /\ Len(s) \in Nat
      /\ \A i \in 1..Len(s) : t[i] = s[i] /\ s[i] \in S
      /\ t[Len(s) + 1] = e
  BY AppendProperties, ElementOfSeq
<1> HIDE DEF t
<1>2. PICK p \in [0..Len(s) -> Nat] :
        /\ p[0] = v /\ p[Len(s)] = 0
        /\ \A i \in 1..Len(s) : p[i - 1] = d[s[i]] + p[i]
  BY DEF Adds
<1>3. d[e] \in Nat /\ v \in Nat /\ \A i \in 0..Len(s) : p[i] \in Nat
  <2>1. 0 \in 0..Len(s)
    BY <1>1
  <2> QED BY <1>2, <2>1
<1> DEFINE q == [i \in 0..Len(t) |-> IF i = Len(t) THEN 0 ELSE p[i] + d[e]]
<1>4. q \in [0..Len(t) -> Nat]
  BY <1>1, <1>3
<1>5. q[0] = v + d[e] /\ q[Len(t)] = 0
  BY <1>1, <1>2
<1>6. ASSUME NEW i \in 1..Len(t) PROVE q[i - 1] = d[t[i]] + q[i]
  <2>1. CASE i \in 1..Len(s)
    <3>1. i \in 0..Len(t) /\ i - 1 \in 0..Len(t) /\ i # Len(t) /\ i - 1 # Len(t)
      BY <1>1, <2>1
    <3>2. q[i] = p[i] + d[e] /\ q[i - 1] = p[i - 1] + d[e]
      BY <3>1
    <3>3. i \in 0..Len(s) /\ i - 1 \in 0..Len(s)
      BY <1>1, <2>1
    <3>4. p[i] \in Nat /\ p[i - 1] \in Nat
      BY <1>3, <3>3
    <3>5. p[i - 1] = d[s[i]] + p[i] /\ t[i] = s[i] /\ d[s[i]] \in Nat
      BY <1>1, <1>2, <2>1
    <3> HIDE DEF q
    <3> QED BY <1>3, <3>2, <3>4, <3>5, SMTT(30)
  <2>2. CASE i = Len(s) + 1
    <3>1. i - 1 = Len(s) /\ i = Len(t) /\ t[i] = e
      BY <1>1, <2>2
    <3>2. q[i - 1] = p[Len(s)] + d[e] /\ q[i] = 0
      <4>0. Len(s) \in Nat /\ Len(t) = Len(s) + 1
        BY <1>1
      <4>1. i - 1 # Len(t) /\ i - 1 \in 0..Len(t) /\ i \in 0..Len(t)
        <5>1. \A n \in Nat : n # n + 1 /\ n \in 0..(n + 1) /\ n + 1 \in 0..(n + 1)
          OBVIOUS
        <5>2. Len(s) # Len(t) /\ Len(s) \in 0..Len(t) /\ Len(t) \in 0..Len(t)
          BY <4>0, <5>1
        <5> QED BY <3>1, <5>2
      <4>2. q[i - 1] = p[i - 1] + d[e] /\ q[i] = 0
        BY <3>1, <4>1
      <4> QED BY <3>1, <4>2
    <3> HIDE DEF q
    <3> QED BY <1>2, <1>3, <3>1, <3>2
  <2>3. i \in 1..Len(s) \/ i = Len(s) + 1
    BY <1>1
  <2> QED BY <2>1, <2>2, <2>3
<1> HIDE DEF q
<1> QED BY <1>3, <1>4, <1>5, <1>6 DEF Adds, t

LEMMA OneLessAdds ==
    ASSUME NEW S, NEW s \in Seq(S), s # <<>>, NEW d \in [S -> Nat], NEW v, Adds(s, d, v)
    PROVE  d[Head(s)] \in Nat /\ \E u \in Nat : v = d[Head(s)] + u /\ Adds(Tail(s), d, u)
<1> DEFINE t == Tail(s)
<1>1. /\ Head(s) \in S /\ t \in Seq(S) /\ Len(t) = Len(s) - 1
      /\ \A i \in 1..Len(t) : t[i] = s[i + 1]
  BY HeadTailProperties
<1>2. Len(s) \in Nat \ {0} /\ Head(s) = s[1] /\ Len(t) \in Nat
  BY <1>1
<1> HIDE DEF t
<1>3. PICK p \in [0..Len(s) -> Nat] :
        /\ p[0] = v /\ p[Len(s)] = 0
        /\ \A i \in 1..Len(s) : p[i - 1] = d[s[i]] + p[i]
  BY DEF Adds
<1>4. p[1] \in Nat /\ v = d[Head(s)] + p[1]
  <2>1. 1 \in 1..Len(s) /\ 1 \in 0..Len(s) /\ 1 - 1 = 0
    BY <1>2
  <2>2. p[1 - 1] = d[s[1]] + p[1] /\ p[1] \in Nat
    BY <1>3, <2>1
  <2> QED BY <1>2, <1>3, <2>1, <2>2
<1> DEFINE q == [i \in 0..Len(t) |-> p[i + 1]]
<1>5. \A i \in 0..Len(t) : i + 1 \in 0..Len(s)
  BY <1>1, <1>2
<1>6. q \in [0..Len(t) -> Nat]
  BY <1>3, <1>5
<1>7. q[0] = p[1] /\ q[Len(t)] = 0
  <2>1. 0 \in 0..Len(t) /\ Len(t) \in 0..Len(t) /\ Len(t) + 1 = Len(s) /\ 0 + 1 = 1
    BY <1>1, <1>2
  <2> QED BY <1>3, <2>1
<1>8. ASSUME NEW i \in 1..Len(t) PROVE q[i - 1] = d[t[i]] + q[i]
  <2>1. /\ i + 1 \in 1..Len(s) /\ (i + 1) - 1 = i /\ (i - 1) + 1 = i
        /\ i - 1 \in 0..Len(t) /\ i \in 0..Len(t)
    BY <1>1, <1>2
  <2>2. p[(i + 1) - 1] = d[s[i + 1]] + p[i + 1]
    BY <1>3, <2>1
  <2>3. q[i - 1] = p[i] /\ q[i] = p[i + 1] /\ t[i] = s[i + 1]
    BY <1>1, <2>1
  <2> HIDE DEF q
  <2> QED BY <2>1, <2>2, <2>3
<1> HIDE DEF q
<1>9. d[Head(s)] \in Nat
  BY <1>1
<1> QED BY <1>4, <1>6, <1>7, <1>8, <1>9 DEF Adds, t

----------------------------------------------------------------------------
\* The counts of a batch: of each second, of the deltas, of what was dropped.
Cells == {<<"win", t>> : t \in Seconds} \cup {<<"sum", x>> : x \in Amounts}

At(b, k) == IF k[1] = "win" THEN b.win[k[2]] ELSE Of(b, k[2])

FlushAt(k) == [b \in Batches |-> At(b, k)]
MsgAt(k)   == [m \in LinkMsgs |-> IF m.kind = "metrics" THEN At(m.batch, k) ELSE 0]

LEMMA CellIs ==
    /\ \A k \in Cells : \/ k[1] = "win" /\ k[2] \in Seconds
                        \/ k[1] = "sum" /\ k[1] # "win" /\ k[2] \in Amounts
    /\ \A b, t : At(b, <<"win", t>>) = b.win[t]
    /\ \A t \in Seconds : <<"win", t>> \in Cells
    /\ \A b : /\ At(b, <<"sum", "delta">>) = b.delta
              /\ At(b, <<"sum", "dropped">>) = b.dropped
    /\ \A x \in Amounts : <<"sum", x>> \in Cells
BY DEF Cells, At, Of, Amounts

LEMMA BatchIs ==
    ASSUME NEW b \in AnyBatch
    PROVE  b \in Batches <=> \A k \in Cells : At(b, k) \in Counts
<1>1. PICK w \in [Seconds -> Int], d \in Int, r \in Int :
        b = [win |-> w, delta |-> d, dropped |-> r]
  BY DEF AnyBatch
<1>2. b \in Batches <=> w \in [Seconds -> Counts] /\ d \in Counts /\ r \in Counts
  BY <1>1 DEF Batches
<1>3. w \in [Seconds -> Counts] <=> \A t \in Seconds : w[t] \in Counts
  BY <1>1
<1>4. (\A t \in Seconds : w[t] \in Counts) <=> \A t \in Seconds : At(b, <<"win", t>>) \in Counts
  <2>1. b.win = w
    BY <1>1
  <2>2. \A t \in Seconds : At(b, <<"win", t>>) = w[t]
    BY <2>1, CellIs
  <2> QED BY <2>2
<1>5. At(b, <<"sum", "delta">>) = d /\ At(b, <<"sum", "dropped">>) = r
  <2>1. b.delta = d /\ b.dropped = r
    BY <1>1
  <2> QED BY <2>1, CellIs
<1>6. /\ (\A k \in Cells : At(b, k) \in Counts) =>
            /\ \A t \in Seconds : At(b, <<"win", t>>) \in Counts
            /\ d \in Counts /\ r \in Counts
      /\ (\A t \in Seconds : At(b, <<"win", t>>) \in Counts) /\ d \in Counts /\ r \in Counts =>
            \A k \in Cells : At(b, k) \in Counts
  <2>1. "delta" \in Amounts /\ "dropped" \in Amounts
    BY DEF Amounts
  <2>2. \A k \in Cells : \/ \E t \in Seconds : k = <<"win", t>>
                         \/ k = <<"sum", "delta">> \/ k = <<"sum", "dropped">>
    BY DEF Cells, Amounts
  <2> QED BY <1>5, <2>1, <2>2, CellIs
<1> QED BY <1>2, <1>3, <1>4, <1>6

LEMMA BatchesAreSome == Batches \subseteq AnyBatch /\ LinkMsgs \subseteq AnyMsgs
<1>1. Counts \subseteq Int
  BY DEF Counts
<1>2. Batches \subseteq AnyBatch
  BY <1>1 DEF Batches, AnyBatch
<1> QED BY <1>2 DEF LinkMsgs, AnyMsgs

LEMMA NatCells ==
    ASSUME Admissible, NEW b \in Batches, NEW k \in Cells
    PROVE  At(b, k) \in 0..MaxRecords /\ At(b, k) \in Nat /\ FlushAt(k)[b] = At(b, k)
<1>1. At(b, k) \in Counts
  BY BatchIs, BatchesAreSome
<1> QED BY <1>1 DEF Counts, FlushAt, Admissible

LEMMA NatCounts ==
    ASSUME Admissible, NEW k \in Cells
    PROVE  /\ FlushAt(k) \in [Batches -> Nat] /\ MsgAt(k) \in [LinkMsgs -> Nat]
           /\ \A b \in Batches : /\ Metrics(b) \in LinkMsgs
                                 /\ MsgAt(k)[Metrics(b)] = At(b, k)
           /\ \A p \in Phases : /\ Status(p) \in LinkMsgs
                                /\ MsgAt(k)[Status(p)] = 0
           /\ \A m \in LinkMsgs : /\ m.kind = "metrics" => m.batch \in Batches
                                                          /\ MsgAt(k)[m] = At(m.batch, k)
                                  /\ m.kind = "status" => MsgAt(k)[m] = 0
<1>1. FlushAt(k) \in [Batches -> Nat]
  BY NatCells DEF FlushAt
<1>2. \A m \in LinkMsgs : m.kind = "metrics" => m.batch \in Batches
  BY DEF LinkMsgs
<1>3. MsgAt(k) \in [LinkMsgs -> Nat]
  BY <1>2, NatCells DEF MsgAt
<1>4. \A b \in Batches : Metrics(b) \in LinkMsgs /\ Metrics(b).kind = "metrics" /\ Metrics(b).batch = b
  BY DEF Metrics, LinkMsgs
<1>5. \A p \in Phases : Status(p) \in LinkMsgs /\ Status(p).kind = "status"
  BY DEF Status, LinkMsgs
<1> QED BY <1>1, <1>2, <1>3, <1>4, <1>5 DEF MsgAt

LEMMA CellsAdd ==
    ASSUME NEW a \in AnyBatch, NEW b \in AnyBatch, NEW k \in Cells
    PROVE  /\ At(Plus(a, b), k) = At(a, k) + At(b, k)
           /\ At(Minus(a, b), k) = At(a, k) - At(b, k)
           /\ At(Nothing, k) = 0 /\ At(a, k) \in Int
BY CellIs, BatchesAdd, NothingIsABatch, BatchParts DEF At

\* The flusher takes whole counts, or nothing of them.
LEMMA TakenCells ==
    ASSUME NEW b \in AnyBatch, NEW now, NEW k \in Cells
    PROVE  At(Completed(b, now), k) \in {0, At(b, k)}
<1> DEFINE w == [t \in Seconds |-> IF t < now THEN b.win[t] ELSE 0]
<1>1. PICK bw \in [Seconds -> Int], bd \in Int, br \in Int :
         b = [win |-> bw, delta |-> bd, dropped |-> br]
  BY DEF AnyBatch
<1>2. Completed(b, now) = [b EXCEPT !.win = w, !.dropped = 0]
  BY DEF Completed
<1> HIDE DEF w
<1>3. Completed(b, now) = [win |-> w, delta |-> bd, dropped |-> 0]
  BY <1>1, <1>2
<1>4. Completed(b, now).delta = b.delta /\ Completed(b, now).dropped = 0
  BY <1>1, <1>3
<1>5. \A t \in Seconds : Completed(b, now).win[t] \in {0, b.win[t]}
  BY Taken
<1> QED BY <1>4, <1>5, CellIs DEF At, Of

\* An insert adds no more than it is given.
LEMMA InsertedCells ==
    ASSUME NEW a \in AnyBatch, NEW b \in AnyBatch, NEW k \in Cells,
           At(a, k) \in Nat, At(b, k) \in Nat,
           NEW new \in {AddDeltas(a, b), KeepFirst(a, b), AddDeltas(KeepFirst(a, b), b)}
    PROVE  new \in AnyBatch /\ At(new, k) \in 0..(At(a, k) + At(b, k))
<1> DEFINE kept == KeepFirst(a, b)
<1>1. kept \in AnyBatch /\ At(kept, k) \in {At(a, k), At(b, k)}
      /\ (k[1] # "win" => At(kept, k) = At(a, k))
  BY Inserted, CellIs DEF At
<1>2. /\ AddDeltas(a, b) \in AnyBatch /\ AddDeltas(kept, b) \in AnyBatch
      /\ At(AddDeltas(a, b), k) = IF k[1] = "win" THEN At(a, k) ELSE At(a, k) + At(b, k)
      /\ At(AddDeltas(kept, b), k) = IF k[1] = "win" THEN At(kept, k) ELSE At(kept, k) + At(b, k)
  <2>1. /\ AddDeltas(a, b) \in AnyBatch /\ AddDeltas(kept, b) \in AnyBatch
        /\ AddDeltas(a, b).win = a.win /\ AddDeltas(kept, b).win = kept.win
        /\ \A x : Of(AddDeltas(a, b), x) = Of(a, x) + Of(b, x)
        /\ \A x : Of(AddDeltas(kept, b), x) = Of(kept, x) + Of(b, x)
    BY <1>1, Inserted
  <2> QED BY <2>1 DEF At
<1> HIDE DEF kept
<1>3. new \in {AddDeltas(a, b), kept, AddDeltas(kept, b)}
  BY DEF kept
<1>4. CASE k[1] = "win"
  BY <1>1, <1>2, <1>3, <1>4
<1>5. CASE k[1] # "win"
  BY <1>1, <1>2, <1>3, <1>5
<1> QED BY <1>4, <1>5

\* A measurement counts one in its second and one in the deltas, an arrival
\* without a slot one among the dropped.
LEMMA MeasuredCells ==
    ASSUME TypeInv
    PROVE  /\ \A k \in Cells : /\ At(Measurement, k) \in {0, 1}
                               /\ At([Nothing EXCEPT !.dropped = 1], k) \in {0, 1}
           /\ Measurement.delta = 1 /\ Measurement.dropped = 0
           /\ [Nothing EXCEPT !.dropped = 1].delta = 0
           /\ [Nothing EXCEPT !.dropped = 1].dropped = 1
           /\ \A t \in Seconds : /\ Measurement.win[t] \in {0, 1}
                                 /\ [Nothing EXCEPT !.dropped = 1].win[t] = 0
<1> DEFINE none == [t \in Seconds |-> 0]
           one  == [none EXCEPT ![second] = 1]
<1>1. /\ none \in [Seconds -> Int] /\ second \in Seconds
      /\ \A t \in Seconds : none[t] = 0 /\ one[t] \in {0, 1}
  BY DEF TypeInv
<1>2. Nothing = [win |-> none, delta |-> 0, dropped |-> 0] /\ Nothing.win = none
  BY DEF Nothing
<1>3. Measurement = [Nothing EXCEPT !.win = one, !.delta = 1]
  BY <1>2 DEF Measurement
<1> HIDE DEF none, one
<1>4. Measurement = [win |-> one, delta |-> 1, dropped |-> 0]
  <2>1. [Nothing EXCEPT !.win = one] = [win |-> one, delta |-> 0, dropped |-> 0]
    BY <1>2
  <2>2. [[win |-> one, delta |-> 0, dropped |-> 0] EXCEPT !.delta = 1]
          = [win |-> one, delta |-> 1, dropped |-> 0]
    OBVIOUS
  <2>3. [Nothing EXCEPT !.win = one, !.delta = 1] = [[Nothing EXCEPT !.win = one] EXCEPT !.delta = 1]
    OBVIOUS
  <2> QED BY <1>3, <2>1, <2>2, <2>3
<1>5. [Nothing EXCEPT !.dropped = 1] = [win |-> none, delta |-> 0, dropped |-> 1]
  BY <1>2
<1>6. /\ Measurement.delta = 1 /\ Measurement.dropped = 0
      /\ [Nothing EXCEPT !.dropped = 1].delta = 0
      /\ [Nothing EXCEPT !.dropped = 1].dropped = 1
      /\ \A t \in Seconds : /\ Measurement.win[t] \in {0, 1}
                            /\ [Nothing EXCEPT !.dropped = 1].win[t] = 0
  BY <1>1, <1>4, <1>5
<1> QED BY <1>6, CellIs DEF At, Of, Amounts

\* What is measured, sent, inserted are batches.
Held ==
    /\ pending \in Batches /\ recorded \in Batches
    /\ carried \in Batches /\ stored \in Batches
    /\ hand \in [Senders -> Batches]
    /\ channel \in Seq(Batches) /\ link \in Seq(LinkMsgs)

\* Of each count no more is stored and on its way than was recorded.
Total(k, l, c) ==
    At(stored, k) + l + At(carried, k) + c + At(hand["flusher"], k)
      + At(hand["engine"], k) + At(pending, k)
Level(k) ==
    \E l, c \in Nat :
        /\ Adds(link, MsgAt(k), l) /\ Adds(channel, FlushAt(k), c)
        /\ Total(k, l, c) <= At(recorded, k)

\* The run has its bound of measurements, each in one second or dropped.
Few ==
    /\ recorded.delta + recorded.dropped <= MaxRecords
    /\ \A t \in Seconds : recorded.win[t] <= recorded.delta

NoMore == Few /\ \A k \in Cells : Level(k)

LEMMA HeldCells ==
    ASSUME Admissible, Held, NEW k \in Cells
    PROVE  /\ At(stored, k) \in Nat /\ At(carried, k) \in Nat
           /\ At(hand["flusher"], k) \in Nat /\ At(hand["engine"], k) \in Nat
           /\ At(pending, k) \in Nat /\ At(recorded, k) \in Nat
           /\ At(Nothing, k) = 0
<1>1. hand["flusher"] \in Batches /\ hand["engine"] \in Batches
  BY DEF Held, Senders
<1>2. At(Nothing, k) = 0
  BY CellsAdd, NothingIsABatch
<1> QED BY <1>1, <1>2, NatCells DEF Held

LEMMA NothingIsEmpty == ASSUME Admissible PROVE Nothing \in Batches
<1>1. \A k \in Cells : At(Nothing, k) = 0 /\ 0 \in Counts
  BY CellsAdd, NothingIsABatch DEF Counts, Admissible
<1> QED BY <1>1, BatchIs, NothingIsABatch

\* A hand opens, into the channel or for nothing.
LEMMA HandOpens ==
    ASSUME Admissible, Held, NoMore, NEW s \in Senders, hand' = [hand EXCEPT ![s] = Nothing],
           channel' = channel \/ channel' = Append(channel, hand[s]),
           UNCHANGED <<pending, recorded, carried, link, stored>>
    PROVE  Held' /\ NoMore'
<1>1. Nothing \in Batches /\ hand[s] \in Batches
  BY NothingIsEmpty DEF Held
<1>2. Held'
  BY <1>1 DEF Held
<1>3. ASSUME NEW k \in Cells PROVE Level(k)'
  <2>1. PICK l \in Nat, c \in Nat :
          /\ Adds(link, MsgAt(k), l) /\ Adds(channel, FlushAt(k), c)
          /\ Total(k, l, c) <= At(recorded, k)
    BY DEF NoMore, Level
  <2>2. At(hand[s], k) \in Nat /\ FlushAt(k)[hand[s]] = At(hand[s], k)
    BY <1>1, NatCells
  <2>3. /\ s \in {"flusher", "engine"}
        /\ hand'["flusher"] = IF s = "flusher" THEN Nothing ELSE hand["flusher"]
        /\ hand'["engine"] = IF s = "engine" THEN Nothing ELSE hand["engine"]
    BY DEF Held, Senders
  <2>4. PICK e \in {0, At(hand[s], k)} : c + e \in Nat /\ Adds(channel', FlushAt(k), c + e)
    <3>1. CASE channel' = channel
      <4>1. c + 0 = c /\ Adds(channel', FlushAt(k), c)
        BY <2>1, <3>1
      <4> QED BY <4>1
    <3>2. CASE channel' = Append(channel, hand[s])
      <4>1. Adds(channel', FlushAt(k), c + FlushAt(k)[hand[s]])
        <5>1. FlushAt(k) \in [Batches -> Nat] /\ channel \in Seq(Batches)
          BY NatCounts DEF Held
        <5> QED BY <1>1, <2>1, <3>2, <5>1, OneMoreAdds
      <4> QED BY <2>2, <4>1
    <3> QED BY <3>1, <3>2
  <2>5. Total(k, l, c + e)' <= At(recorded', k)
    <3>1. CASE s = "flusher"
      <4>1. e <= At(hand["flusher"], k) /\ e \in Nat /\ At(hand'["flusher"], k) = 0
            /\ hand'["engine"] = hand["engine"]
        BY <2>2, <2>3, <2>4, <3>1, HeldCells
      <4>2. Total(k, l, c + e)' = At(stored, k) + l + At(carried, k) + (c + e) + 0
                                    + At(hand["engine"], k) + At(pending, k)
        BY <4>1 DEF Total
      <4>3. Total(k, l, c) = At(stored, k) + l + At(carried, k) + c + At(hand["flusher"], k)
                               + At(hand["engine"], k) + At(pending, k)
        BY DEF Total
      <4>4. /\ At(stored, k) \in Nat /\ At(carried, k) \in Nat /\ At(pending, k) \in Nat
            /\ At(hand["flusher"], k) \in Nat /\ At(hand["engine"], k) \in Nat
            /\ At(recorded, k) \in Nat /\ At(recorded', k) = At(recorded, k)
        BY HeldCells
      <4>5. At(stored, k) + l + At(carried, k) + c + At(hand["flusher"], k)
              + At(hand["engine"], k) + At(pending, k) <= At(recorded, k)
        BY <2>1, <4>3
      <4> HIDE DEF Total
      <4> QED BY ONLY <4>1, <4>2, <4>4, <4>5
    <3>2. CASE s = "engine"
      <4>1. e <= At(hand["engine"], k) /\ e \in Nat /\ At(hand'["engine"], k) = 0
            /\ hand'["flusher"] = hand["flusher"]
        BY <2>2, <2>3, <2>4, <3>2, HeldCells
      <4>2. Total(k, l, c + e)' = At(stored, k) + l + At(carried, k) + (c + e) + At(hand["flusher"], k)
                                    + 0 + At(pending, k)
        BY <4>1 DEF Total
      <4>3. Total(k, l, c) = At(stored, k) + l + At(carried, k) + c + At(hand["flusher"], k)
                               + At(hand["engine"], k) + At(pending, k)
        BY DEF Total
      <4>4. /\ At(stored, k) \in Nat /\ At(carried, k) \in Nat /\ At(pending, k) \in Nat
            /\ At(hand["flusher"], k) \in Nat /\ At(hand["engine"], k) \in Nat
            /\ At(recorded, k) \in Nat /\ At(recorded', k) = At(recorded, k)
        BY HeldCells
      <4>5. At(stored, k) + l + At(carried, k) + c + At(hand["flusher"], k)
              + At(hand["engine"], k) + At(pending, k) <= At(recorded, k)
        BY <2>1, <4>3
      <4> HIDE DEF Total
      <4> QED BY ONLY <4>1, <4>2, <4>4, <4>5
    <3> QED BY <2>3, <3>1, <3>2
  <2>6. Adds(link', MsgAt(k), l)
    BY <2>1
  <2> QED BY <2>4, <2>5, <2>6 DEF Level
<1>4. Few'
  BY DEF NoMore, Few
<1> QED BY <1>2, <1>3, <1>4 DEF NoMore

\* A hand takes what the aggregator had of some counts.
LEMMA HandTakes ==
    ASSUME Admissible, Held, NoMore, NEW s \in Senders, NEW taken \in AnyBatch,
           hand' = [hand EXCEPT ![s] = taken], pending' \in AnyBatch,
           \A k \in Cells : /\ At(taken, k) \in {0, At(pending, k)}
                            /\ At(pending', k) = At(pending, k) - At(taken, k),
           UNCHANGED <<channel, recorded, carried, link, stored>>
    PROVE  Held' /\ NoMore'
<1>1. \A k \in Cells : At(taken, k) \in Counts /\ At(pending', k) \in Counts
  <2> TAKE k \in Cells
  <2>1. At(pending, k) \in 0..MaxRecords
    BY NatCells DEF Held
  <2> QED BY <2>1 DEF Counts, Admissible
<1>2. taken \in Batches /\ pending' \in Batches
  BY <1>1, BatchIs
<1>3. Held'
  BY <1>2 DEF Held
<1>4. ASSUME NEW k \in Cells PROVE Level(k)'
  <2>1. PICK l \in Nat, c \in Nat :
          /\ Adds(link, MsgAt(k), l) /\ Adds(channel, FlushAt(k), c)
          /\ Total(k, l, c) <= At(recorded, k)
    BY DEF NoMore, Level
  <2>2. At(taken, k) \in Nat /\ At(pending', k) = At(pending, k) - At(taken, k)
    BY <1>2, NatCells
  <2>3. /\ s \in {"flusher", "engine"}
        /\ hand'["flusher"] = IF s = "flusher" THEN taken ELSE hand["flusher"]
        /\ hand'["engine"] = IF s = "engine" THEN taken ELSE hand["engine"]
    BY DEF Held, Senders
  <2>4. Total(k, l, c)' <= At(recorded', k)
    <3>1. CASE s = "flusher"
      BY <2>1, <2>2, <2>3, <3>1, HeldCells DEF Total
    <3>2. CASE s = "engine"
      BY <2>1, <2>2, <2>3, <3>2, HeldCells DEF Total
    <3> QED BY <2>3, <3>1, <3>2
  <2> QED BY <2>1, <2>4 DEF Level
<1>5. Few'
  BY DEF NoMore, Few
<1> QED BY <1>3, <1>4, <1>5 DEF NoMore

\* A measurement is made.
LEMMA MeasurementCounts ==
    ASSUME Admissible, TypeInv, Held, NoMore,
           NEW b \in {Measurement, [Nothing EXCEPT !.dropped = 1]}, Recorded(b),
           UNCHANGED <<hand, channel, carried, link, stored>>
    PROVE  Held' /\ NoMore'
<1>1. /\ b \in AnyBatch /\ \A k \in Cells : At(b, k) \in {0, 1}
      /\ b.delta \in {0, 1} /\ b.dropped = 1 - b.delta
      /\ \A t \in Seconds : b.win[t] \in {0, b.delta}
  <2>1. CASE b = Measurement
    BY <2>1, MeasuredBatches, MeasuredCells
  <2>2. CASE b = [Nothing EXCEPT !.dropped = 1]
    BY <2>2, MeasuredBatches, MeasuredCells
  <2> QED BY <2>1, <2>2
<1>2. pending \in AnyBatch /\ recorded \in AnyBatch
  BY DEF TypeInv
<1>3. /\ pending' = Plus(pending, b) /\ recorded' = Plus(recorded, b)
      /\ pending' \in AnyBatch /\ recorded' \in AnyBatch
      /\ recorded.delta + recorded.dropped < MaxRecords
  BY <1>1, <1>2, BatchesAdd DEF Recorded
<1>4. Few'
  <2>1. /\ recorded'.delta = recorded.delta + b.delta
        /\ recorded'.dropped = recorded.dropped + b.dropped
        /\ \A t \in Seconds : recorded'.win[t] = recorded.win[t] + b.win[t]
    BY <1>1, <1>2, <1>3, BatchesAdd DEF Of, Plus
  <2>2. /\ recorded.delta \in Int /\ recorded.dropped \in Int
        /\ \A t \in Seconds : recorded.win[t] \in Int
    BY <1>2 DEF AnyBatch
  <2>3. \A t \in Seconds : recorded.win[t] <= recorded.delta
    BY DEF NoMore, Few
  <2>4. MaxRecords \in Nat
    BY DEF Admissible
  <2>5. recorded'.delta + recorded'.dropped <= MaxRecords
    BY <1>1, <1>3, <2>1, <2>2, <2>4
  <2>6. ASSUME NEW t \in Seconds PROVE recorded'.win[t] <= recorded'.delta
    BY <1>1, <2>1, <2>2, <2>3
  <2> QED BY <2>5, <2>6 DEF Few
<1>5. \A k \in Cells : /\ At(pending', k) = At(pending, k) + At(b, k)
                       /\ At(recorded', k) = At(recorded, k) + At(b, k)
  BY <1>1, <1>2, <1>3, CellsAdd
<1>6. ASSUME NEW k \in Cells PROVE Level(k)' /\ At(pending', k) \in 0..At(recorded', k)
  <2>1. PICK l \in Nat, c \in Nat :
          /\ Adds(link, MsgAt(k), l) /\ Adds(channel, FlushAt(k), c)
          /\ Total(k, l, c) <= At(recorded, k)
    BY DEF NoMore, Level
  <2>2. At(b, k) \in Nat
    BY <1>1
  <2>3. Total(k, l, c)' <= At(recorded', k)
    BY <1>5, <2>1, <2>2, HeldCells DEF Total
  <2>4. At(pending', k) \in 0..At(recorded', k)
    BY <1>5, <2>1, <2>2, HeldCells DEF Total
  <2> QED BY <2>1, <2>3, <2>4 DEF Level
<1>7. ASSUME NEW k \in Cells PROVE At(recorded', k) \in 0..MaxRecords
  <2>1. At(recorded', k) \in Nat
    BY <1>1, <1>5, HeldCells
  <2>2. \A j \in Cells : At(recorded', j) \in Nat
    BY <1>1, <1>5, HeldCells
  <2>3. /\ recorded'.delta \in Nat /\ recorded'.dropped \in Nat
        /\ \A t \in Seconds : recorded'.win[t] \in Nat
    <3>1. "delta" \in Amounts /\ "dropped" \in Amounts
      BY DEF Amounts
    <3>2. At(recorded', <<"sum", "delta">>) \in Nat /\ At(recorded', <<"sum", "dropped">>) \in Nat
      BY <2>2, <3>1, CellIs
    <3>3. \A t \in Seconds : At(recorded', <<"win", t>>) \in Nat
      BY <2>2, CellIs
    <3>4. recorded'.delta \in Nat /\ recorded'.dropped \in Nat
      BY <3>2, CellIs
    <3>5. ASSUME NEW t \in Seconds PROVE recorded'.win[t] \in Nat
      <4>1. At(recorded', <<"win", t>>) = recorded'.win[t]
        BY CellIs
      <4> QED BY <3>3, <4>1
    <3> QED BY <3>4, <3>5
  <2>4. /\ recorded'.delta <= MaxRecords /\ recorded'.dropped <= MaxRecords
        /\ \A t \in Seconds : recorded'.win[t] <= recorded'.delta
    BY <1>4, <2>3 DEF Few, Admissible
  <2>5. MaxRecords \in Nat
    BY DEF Admissible
  <2>6. CASE k[1] = "win" /\ k[2] \in Seconds
    BY <2>1, <2>3, <2>4, <2>5, <2>6 DEF At
  <2>7. CASE k[1] # "win" /\ k[2] \in Amounts
    BY <2>1, <2>4, <2>5, <2>7 DEF At, Of
  <2> QED BY <2>6, <2>7, CellIs
<1>8. pending' \in Batches /\ recorded' \in Batches
  <2>1. \A k \in Cells : At(pending', k) \in Counts /\ At(recorded', k) \in Counts
    BY <1>6, <1>7 DEF Counts, Admissible
  <2> QED BY <1>3, <2>1, BatchIs
<1> QED BY <1>4, <1>6, <1>8 DEF Held, NoMore

\* The forwarder takes the first flush of the channel, and may drop an empty one.
LEMMA ForwarderTakes ==
    ASSUME Admissible, Held, NoMore, channel # <<>>, channel' = Tail(channel),
           carried' = Head(channel) \/ (Head(channel) = Nothing /\ carried' = carried),
           UNCHANGED <<pending, recorded, hand, link, stored>>
    PROVE  Held' /\ NoMore'
<1>1. Head(channel) \in Batches /\ channel' \in Seq(Batches)
  BY HeadTailProperties DEF Held
<1>2. Held'
  BY <1>1 DEF Held
<1>3. ASSUME NEW k \in Cells PROVE Level(k)'
  <2>1. PICK l \in Nat, c \in Nat :
          /\ Adds(link, MsgAt(k), l) /\ Adds(channel, FlushAt(k), c)
          /\ Total(k, l, c) <= At(recorded, k)
    BY DEF NoMore, Level
  <2>2. FlushAt(k)[Head(channel)] = At(Head(channel), k) /\ At(Head(channel), k) \in Nat
    BY <1>1, NatCells
  <2>3. PICK u \in Nat : c = At(Head(channel), k) + u /\ Adds(channel', FlushAt(k), u)
    <3>1. FlushAt(k) \in [Batches -> Nat] /\ channel \in Seq(Batches)
      BY NatCounts DEF Held
    <3>2. \E u \in Nat : c = FlushAt(k)[Head(channel)] + u /\ Adds(Tail(channel), FlushAt(k), u)
      BY <2>1, <3>1, OneLessAdds
    <3> QED BY <2>2, <3>2
  <2>4. At(carried', k) + u <= At(carried, k) + c /\ At(carried', k) \in Nat
    BY <2>2, <2>3, HeldCells
  <2>5. Total(k, l, u)' <= At(recorded', k)
    <3>2. At(stored, k) + l + At(carried, k) + c + At(hand["flusher"], k)
            + At(hand["engine"], k) + At(pending, k) <= At(recorded, k)
      BY <2>1 DEF Total
    <3>3. /\ At(stored, k) \in Nat /\ At(carried, k) \in Nat /\ At(pending, k) \in Nat
          /\ At(hand["flusher"], k) \in Nat /\ At(hand["engine"], k) \in Nat
          /\ At(recorded, k) \in Nat /\ At(recorded', k) = At(recorded, k)
      BY HeldCells
    <3>4. At(stored, k) + l + At(carried', k) + u + At(hand["flusher"], k)
            + At(hand["engine"], k) + At(pending, k) <= At(recorded, k)
      <4> DEFINE a == At(stored, k) b == At(carried, k) d == At(hand["flusher"], k)
                 e == At(hand["engine"], k) f == At(pending, k) m == At(recorded, k)
                 x == At(carried', k)
      <4>1. a \in Nat /\ b \in Nat /\ d \in Nat /\ e \in Nat /\ f \in Nat /\ m \in Nat /\ x \in Nat
        BY <2>4, <3>3
      <4>2. a + l + b + c + d + e + f <= m /\ x + u <= b + c
        BY <2>4, <3>2
      <4> HIDE DEF a, b, d, e, f, m, x
      <4>3. a + l + x + u + d + e + f <= m
        BY <4>1, <4>2
      <4> QED BY <4>3 DEF a, b, d, e, f, m, x
    <3> QED BY <3>4 DEF Total
  <2> QED BY <2>1, <2>3, <2>5 DEF Level
<1>4. Few'
  BY DEF NoMore, Few
<1> QED BY <1>2, <1>3, <1>4 DEF NoMore

\* A message joins the stream: what the forwarder carried, or a status.
LEMMA MessageLeaves ==
    ASSUME Admissible, Held, NoMore,
           \/ carried' = Nothing /\ (link' = Append(link, Metrics(carried)) \/ link' = link)
           \/ carried' = carried /\ \E p \in Phases : link' = Append(link, Status(p)),
           UNCHANGED <<pending, recorded, hand, channel, stored>>
    PROVE  Held' /\ NoMore'
<1>1. carried \in Batches /\ Nothing \in Batches /\ link \in Seq(LinkMsgs)
  BY NothingIsEmpty DEF Held
<1>2. Metrics(carried) \in LinkMsgs /\ \A p \in Phases : Status(p) \in LinkMsgs
  BY <1>1 DEF Metrics, Status, LinkMsgs
<1>3. Held'
  BY <1>1, <1>2, SMTT(30) DEF Held
<1>4. ASSUME NEW k \in Cells PROVE Level(k)'
  <2>1. PICK l \in Nat, c \in Nat :
          /\ Adds(link, MsgAt(k), l) /\ Adds(channel, FlushAt(k), c)
          /\ Total(k, l, c) <= At(recorded, k)
    BY DEF NoMore, Level
  <2>2. /\ MsgAt(k) \in [LinkMsgs -> Nat] /\ MsgAt(k)[Metrics(carried)] = At(carried, k)
        /\ \A p \in Phases : MsgAt(k)[Status(p)] = 0
    BY <1>1, NatCounts
  <2>3. /\ At(stored, k) \in Nat /\ At(carried, k) \in Nat /\ At(pending, k) \in Nat
        /\ At(hand["flusher"], k) \in Nat /\ At(hand["engine"], k) \in Nat
        /\ At(recorded, k) \in Nat /\ At(recorded', k) = At(recorded, k)
        /\ At(Nothing, k) = 0
    BY HeldCells
  <2>4. PICK v \in Nat : /\ Adds(link', MsgAt(k), v) /\ At(carried', k) \in Nat
                         /\ v + At(carried', k) <= l + At(carried, k)
    <3>1. CASE carried' = Nothing /\ link' = Append(link, Metrics(carried))
      <4>1. Adds(link', MsgAt(k), l + MsgAt(k)[Metrics(carried)])
        BY <1>1, <1>2, <2>1, <2>2, <3>1, OneMoreAdds
      <4>2. l + At(carried, k) \in Nat /\ At(carried', k) = 0
        BY <2>3, <3>1
      <4> QED BY <2>2, <2>3, <4>1, <4>2
    <3>2. CASE carried' = Nothing /\ link' = link
      <4>1. At(carried', k) = 0
        BY <2>3, <3>2
      <4> QED BY <2>1, <2>3, <3>2, <4>1
    <3>3. CASE carried' = carried /\ \E p \in Phases : link' = Append(link, Status(p))
      <4>1. PICK p \in Phases : link' = Append(link, Status(p))
        BY <3>3
      <4>2. Adds(link', MsgAt(k), l + MsgAt(k)[Status(p)])
        BY <1>1, <1>2, <2>1, <2>2, <4>1, OneMoreAdds
      <4>3. l + MsgAt(k)[Status(p)] = l
        BY <2>2
      <4> QED BY <2>3, <3>3, <4>2, <4>3
    <3> QED BY <3>1, <3>2, <3>3
  <2>5. Total(k, v, c)' <= At(recorded', k)
    <3>2. At(stored, k) + l + At(carried, k) + c + At(hand["flusher"], k)
            + At(hand["engine"], k) + At(pending, k) <= At(recorded, k)
      BY <2>1 DEF Total
    <3>3. At(stored, k) + v + At(carried', k) + c + At(hand["flusher"], k)
            + At(hand["engine"], k) + At(pending, k) <= At(recorded, k)
      <4> DEFINE a == At(stored, k) b == At(carried, k) d == At(hand["flusher"], k)
                 e == At(hand["engine"], k) f == At(pending, k) m == At(recorded, k)
                 x == At(carried', k)
      <4>1. a \in Nat /\ b \in Nat /\ d \in Nat /\ e \in Nat /\ f \in Nat /\ m \in Nat /\ x \in Nat
        BY <2>3, <2>4
      <4>2. a + l + b + c + d + e + f <= m /\ v + x <= l + b
        BY <2>4, <3>2
      <4> HIDE DEF a, b, d, e, f, m, x
      <4>3. a + v + x + c + d + e + f <= m
        BY <4>1, <4>2
      <4> QED BY <4>3 DEF a, b, d, e, f, m, x
    <3> QED BY <3>3 DEF Total
  <2> QED BY <2>1, <2>4, <2>5 DEF Level
<1>5. Few'
  BY DEF NoMore, Few
<1> QED BY <1>3, <1>4, <1>5 DEF NoMore

\* The controller takes the first message, inserts a batch or what it can of it,
\* or the stream breaks.
LEMMA MessageArrives ==
    ASSUME Admissible, Held, NoMore,
           \/ /\ link # <<>> /\ link' = Tail(link) /\ Head(link).kind = "metrics"
              /\ stored' \in {AddDeltas(stored, Head(link).batch), KeepFirst(stored, Head(link).batch),
                              AddDeltas(KeepFirst(stored, Head(link).batch), Head(link).batch)}
           \/ link # <<>> /\ link' = Tail(link) /\ stored' = stored
           \/ link' = <<>> /\ stored' = stored,
           UNCHANGED <<pending, recorded, hand, channel, carried>>
    PROVE  Held' /\ NoMore'
<1>1. link \in Seq(LinkMsgs) /\ stored \in Batches /\ stored \in AnyBatch
  BY BatchesAreSome DEF Held
<1>2. link # <<>> => Head(link) \in LinkMsgs /\ Tail(link) \in Seq(LinkMsgs)
  BY <1>1, HeadTailProperties
<1>3. stored' \in AnyBatch
  <2>1. CASE stored' = stored
    BY <1>1, <2>1
  <2>2. CASE /\ link # <<>> /\ Head(link).kind = "metrics"
             /\ stored' \in {AddDeltas(stored, Head(link).batch), KeepFirst(stored, Head(link).batch),
                             AddDeltas(KeepFirst(stored, Head(link).batch), Head(link).batch)}
    <3>1. Head(link).batch \in AnyBatch
      BY <1>2, <2>2, BatchesAreSome DEF LinkMsgs
    <3> QED BY <1>1, <2>2, <3>1, Inserted
  <2> QED BY <2>1, <2>2
<1>4. ASSUME NEW k \in Cells PROVE Level(k)' /\ At(stored', k) \in 0..At(recorded, k)
  <2>1. PICK l \in Nat, c \in Nat :
          /\ Adds(link, MsgAt(k), l) /\ Adds(channel, FlushAt(k), c)
          /\ Total(k, l, c) <= At(recorded, k)
    BY DEF NoMore, Level
  <2>2. MsgAt(k) \in [LinkMsgs -> Nat]
    BY NatCounts
  <2>3. /\ At(stored, k) \in Nat /\ At(carried, k) \in Nat /\ At(pending, k) \in Nat
        /\ At(hand["flusher"], k) \in Nat /\ At(hand["engine"], k) \in Nat
        /\ At(recorded, k) \in Nat /\ At(recorded', k) = At(recorded, k)
    BY HeldCells
  <2>4. PICK v \in Nat : /\ Adds(link', MsgAt(k), v) /\ At(stored', k) \in Nat
                         /\ v + At(stored', k) <= l + At(stored, k)
    <3>1. CASE link' = <<>> /\ stored' = stored
      <4>1. Adds(link', MsgAt(k), 0)
        BY <3>1, NoneAdds
      <4> QED BY <2>3, <3>1, <4>1
    <3>2. ASSUME link # <<>>, link' = Tail(link)
          PROVE  /\ MsgAt(k)[Head(link)] \in Nat
                 /\ \E u \in Nat : l = MsgAt(k)[Head(link)] + u /\ Adds(link', MsgAt(k), u)
      BY <1>1, <2>1, <2>2, <3>2, OneLessAdds
    <3>3. CASE link # <<>> /\ link' = Tail(link) /\ stored' = stored
      BY <2>3, <3>2, <3>3, SMTT(30)
    <3>4. CASE /\ link # <<>> /\ link' = Tail(link) /\ Head(link).kind = "metrics"
               /\ stored' \in {AddDeltas(stored, Head(link).batch), KeepFirst(stored, Head(link).batch),
                               AddDeltas(KeepFirst(stored, Head(link).batch), Head(link).batch)}
      <4>1. /\ Head(link).batch \in Batches /\ Head(link).batch \in AnyBatch
            /\ MsgAt(k)[Head(link)] = At(Head(link).batch, k)
        BY <1>2, <3>4, NatCounts, BatchesAreSome
      <4>2. At(Head(link).batch, k) \in Nat
        BY <4>1, NatCells
      <4>3. At(stored', k) \in 0..(At(stored, k) + At(Head(link).batch, k))
        BY <1>1, <2>3, <3>4, <4>1, <4>2, InsertedCells
      <4>4. PICK u \in Nat : l = MsgAt(k)[Head(link)] + u /\ Adds(link', MsgAt(k), u)
        BY <3>2, <3>4
      <4>5. At(stored', k) \in Nat /\ u + At(stored', k) <= l + At(stored, k)
        BY <2>3, <4>1, <4>2, <4>3, <4>4, SMTT(30)
      <4> QED BY <4>4, <4>5
    <3> QED BY <3>1, <3>3, <3>4
  <2>5. Total(k, v, c)' <= At(recorded', k) /\ At(stored', k) \in 0..At(recorded, k)
    <3>2. At(stored, k) + l + At(carried, k) + c + At(hand["flusher"], k)
            + At(hand["engine"], k) + At(pending, k) <= At(recorded, k)
      BY <2>1 DEF Total
    <3>3. At(stored', k) + v + At(carried, k) + c + At(hand["flusher"], k)
            + At(hand["engine"], k) + At(pending, k) <= At(recorded, k)
            /\ At(stored', k) <= At(recorded, k)
      <4> DEFINE a == At(stored, k) b == At(carried, k) d == At(hand["flusher"], k)
                 e == At(hand["engine"], k) f == At(pending, k) m == At(recorded, k)
                 x == At(stored', k)
      <4>1. a \in Nat /\ b \in Nat /\ d \in Nat /\ e \in Nat /\ f \in Nat /\ m \in Nat /\ x \in Nat
        BY <2>3, <2>4
      <4>2. a + l + b + c + d + e + f <= m /\ v + x <= l + a
        BY <2>4, <3>2
      <4> HIDE DEF a, b, d, e, f, m, x
      <4>3. x + v + b + c + d + e + f <= m /\ x <= m
        BY <4>1, <4>2
      <4> QED BY <4>3 DEF a, b, d, e, f, m, x
    <3> QED BY <2>3, <2>4, <3>3 DEF Total
  <2> QED BY <2>1, <2>4, <2>5 DEF Level
<1>5. stored' \in Batches
  <2>1. ASSUME NEW k \in Cells PROVE At(stored', k) \in Counts
    <3>1. At(recorded, k) \in 0..MaxRecords /\ At(stored', k) \in 0..At(recorded, k)
      BY <1>4, NatCells DEF Held
    <3> QED BY <3>1 DEF Counts, Admissible
  <2> QED BY <1>3, <2>1, BatchIs
<1>6. Held'
  <2>1. link' \in Seq(LinkMsgs)
    <3>1. <<>> \in Seq(LinkMsgs)
      OBVIOUS
    <3>2. link' = <<>> \/ (link # <<>> /\ link' = Tail(link))
      OBVIOUS
    <3> QED BY <1>2, <3>1, <3>2
  <2> QED BY <1>5, <2>1 DEF Held
<1>7. Few'
  BY DEF NoMore, Few
<1> QED BY <1>4, <1>6, <1>7 DEF NoMore

\* No step counts a measurement twice.
LEMMA CountsStay ==
    ASSUME Admissible, TypeInv, Held, NoMore, Next PROVE Held' /\ NoMore'
<1>1. CASE UNCHANGED <<pending, recorded, hand, channel, carried, link, stored>>
  BY <1>1 DEF Held, NoMore, Few, Level, Total
<1>2. ASSUME NEW s \in Senders, UNCHANGED <<pending, recorded, carried, link, stored>>,
             Sent(s) \/ Queued(s) \/ Delivered(s) \/ Withdrawn(s) \/ SendFails(s)
      PROVE  Held' /\ NoMore'
  <2>1. CASE Queued(s)
    BY <1>1, <1>2, <2>1 DEF Queued
  <2>2. CASE Sent(s) \/ Delivered(s) \/ Withdrawn(s) \/ SendFails(s)
    <3>1. /\ hand' = [hand EXCEPT ![s] = Nothing]
          /\ channel' = channel \/ channel' = Append(channel, hand[s])
      BY <2>2 DEF Sent, Delivered, Withdrawn, SendFails
    <3> QED BY <1>2, <3>1, HandOpens
  <2> QED BY <1>2, <2>1, <2>2
<1>3. "flusher" \in Senders /\ "engine" \in Senders
  BY DEF Senders
<1>4. CASE Tick \/ GrantPermit \/ FlusherTick \/ SpawnFlusher \/ JoinAll \/ Stop \/ ForwarderEnd
             \/ HandleEof
  BY <1>1, <1>4 DEF Tick, GrantPermit, FlusherTick, SpawnFlusher, JoinAll, Stop, ForwarderEnd,
       HandleEof, engineVars, flusherVars, sendVars, forwarderVars, linkVars, storeVars
<1>5. CASE Break
  <2>1. link' = <<>> /\ UNCHANGED <<pending, recorded, hand, channel, carried, stored>>
    BY <1>5 DEF Break, engineVars, sendVars, forwarderVars, storeVars
  <2> QED BY <2>1, MessageArrives
<1>6. CASE Record \/ DropArrival
  <2>1. UNCHANGED <<hand, channel, carried, link, stored>>
    BY <1>6 DEF Record, DropArrival, sendVars, forwarderVars, linkVars, storeVars
  <2> QED BY <1>6, <2>1, MeasurementCounts DEF Record, DropArrival
<1>7. CASE FlusherDrain
  <2> DEFINE taken == Completed(pending, upTo)
  <2>1. /\ hand' = [hand EXCEPT !["flusher"] = taken] /\ pending' = Minus(pending, taken)
        /\ UNCHANGED <<channel, recorded, carried, link, stored>>
    BY <1>7 DEF FlusherDrain, forwarderVars, linkVars, storeVars
  <2>2. pending \in AnyBatch /\ taken \in AnyBatch
    BY Taken DEF TypeInv
  <2>3. \A k \in Cells : At(taken, k) \in {0, At(pending, k)}
    BY <2>2, TakenCells
  <2> HIDE DEF taken
  <2>4. pending' \in AnyBatch /\ \A k \in Cells : At(pending', k) = At(pending, k) - At(taken, k)
    BY <2>1, <2>2, BatchesAdd, CellsAdd
  <2> QED BY <1>3, <2>1, <2>2, <2>3, <2>4, HandTakes
<1>8. CASE FinalDrain
  <2>1. /\ hand' = [hand EXCEPT !["engine"] = pending] /\ pending' = Nothing
        /\ UNCHANGED <<channel, recorded, carried, link, stored>>
    BY <1>8 DEF FinalDrain, forwarderVars, linkVars, storeVars
  <2>2. pending \in AnyBatch /\ pending' \in AnyBatch
    BY <2>1, NothingIsABatch DEF TypeInv
  <2>3. \A k \in Cells : At(pending, k) \in Int /\ At(pending', k) = 0
    BY <2>1, <2>2, CellsAdd
  <2>4. \A k \in Cells : At(pending', k) = At(pending, k) - At(pending, k)
    BY <2>3
  <2> QED BY <1>3, <2>1, <2>2, <2>4, HandTakes
<1>9. CASE FlusherMoves
  <2>1. UNCHANGED <<pending, recorded, carried, link, stored>>
    BY <1>9 DEF FlusherMoves, FlusherSend, FlusherDeliver, FlusherAborted, engineVars,
         forwarderVars, linkVars, storeVars
  <2>2. \/ Sent("flusher") \/ Queued("flusher") \/ Delivered("flusher")
        \/ Withdrawn("flusher") \/ SendFails("flusher")
    BY <1>9 DEF FlusherMoves, FlusherSend, FlusherDeliver, FlusherAborted
  <2> QED BY <1>2, <1>3, <2>1, <2>2
<1>10. CASE FinalSend
  <2>1. UNCHANGED <<pending, recorded, carried, link, stored>>
    BY <1>10 DEF FinalSend, forwarderVars, linkVars, storeVars
  <2>2. Sent("engine") \/ Queued("engine") \/ Delivered("engine") \/ SendFails("engine")
    BY <1>10 DEF FinalSend
  <2> QED BY <1>2, <1>3, <2>1, <2>2
<1>11. CASE Report
  <2>1. UNCHANGED <<pending, recorded, hand, channel, carried, stored>>
    BY <1>11 DEF Report, sendVars, forwarderVars, storeVars
  <2>2. CASE UNCHANGED link
    BY <1>1, <2>1, <2>2
  <2>3. CASE \E p \in Phases : link' = Append(link, Status(p))
    BY <2>1, <2>3, MessageLeaves
  <2> QED BY <1>11, <2>2, <2>3 DEF Report
<1>12. CASE ForwarderRecv
  <2>1. /\ channel # <<>> /\ channel' = Tail(channel)
        /\ UNCHANGED <<pending, recorded, hand, link, stored>>
    BY <1>12 DEF ForwarderRecv, engineVars, linkVars, storeVars
  <2>2. carried' = Head(channel) \/ (Head(channel) = Nothing /\ carried' = carried)
    <3>1. CASE Skipped(Head(channel))
      BY <1>12, <3>1 DEF ForwarderRecv, Skipped, forwarderVars
    <3>2. CASE ~Skipped(Head(channel))
      BY <1>12, <3>2, Zenon DEF ForwarderRecv
    <3> QED BY <3>1, <3>2
  <2> QED BY <2>1, <2>2, ForwarderTakes
<1>13. CASE ForwarderSend
  <2>1. /\ carried' = Nothing /\ (link' = Append(link, Metrics(carried)) \/ link' = link)
        /\ UNCHANGED <<pending, recorded, hand, channel, stored>>
    BY <1>13 DEF ForwarderSend, engineVars, sendVars, storeVars
  <2> QED BY <2>1, MessageLeaves
<1>14. CASE HandleMetrics
  <2>1. /\ link # <<>> /\ link' = Tail(link) /\ Head(link).kind = "metrics"
        /\ stored' \in {AddDeltas(stored, Head(link).batch), KeepFirst(stored, Head(link).batch),
                        AddDeltas(KeepFirst(stored, Head(link).batch), Head(link).batch)}
        /\ UNCHANGED <<pending, recorded, hand, channel, carried>>
    BY <1>14 DEF HandleMetrics, engineVars, sendVars, forwarderVars
  <2> QED BY <2>1, MessageArrives
<1>15. CASE HandleStatus
  <2>1. /\ link # <<>> /\ link' = Tail(link)
        /\ UNCHANGED <<pending, recorded, hand, channel, carried, stored>>
    BY <1>15 DEF HandleStatus, engineVars, sendVars, forwarderVars
  <2> QED BY <2>1, MessageArrives
<1> QED BY <1>4, <1>5, <1>6, <1>7, <1>8, <1>9, <1>10, <1>11, <1>12, <1>13, <1>14, <1>15
        DEF Next, FlusherMoves, EngineMoves, ForwarderMoves, HandlerMoves

----------------------------------------------------------------------------
Typed == TypeInv /\ Places /\ Flags /\ Queue /\ Held /\ NoMore

LEMMA TypedIsTypeOK == ASSUME Admissible, Typed PROVE TypeOK
<1>1. Len(channel) <= Capacity
  <2>1. Cardinality(permits) \in Nat /\ Len(channel) \in Nat
        /\ Len(channel) + Cardinality(permits) <= Capacity
    <3>1. permits \subseteq Senders /\ "flusher" \in Senders
      BY DEF Typed, Queue, Senders
    <3>2. Cardinality(permits) \in Nat
      BY <3>1, PermitsCount
    <3> QED BY <3>2 DEF Typed, Queue, TypeInv
  <2>2. Capacity \in Nat
    BY DEF Admissible
  <2> QED BY <2>1, <2>2
<1> QED BY <1>1 DEF Typed, TypeInv, Flags, Queue, Held, TypeOK

LEMMA TypedAtFirst == ASSUME Admissible, Init PROVE Typed
<1>1. TypeInv /\ Places
  BY InitHolds DEF Inv
<1>2. Flags
  <2>1. link = <<>> /\ Len(link) = 0 /\ 0 <= LinkCap
    BY DEF Init, Admissible
  <2>2. 0 \in 0..MaxBreaks /\ 0 \in 0..MaxDbErrors
    BY DEF Admissible
  <2> QED BY <2>1, <2>2 DEF Init, Flags
<1>3. Queue
  <2>1. permits = {} /\ Cardinality(permits) = 0
    BY FS_EmptySet DEF Init
  <2>2. waiting = <<>> /\ channel = <<>>
    BY DEF Init
  <2>3. IsInjective(waiting) /\ \A s : ~Contains(waiting, s)
    BY <2>2 DEF IsInjective, Contains
  <2> QED BY <2>1, <2>2, <2>3 DEF Queue, Admissible
<1>4. Held
  BY NothingIsEmpty DEF Init, Held
<1>5. Few
  BY NothingIsABatch DEF Init, Few, Nothing, Admissible
<1>6. ASSUME NEW k \in Cells PROVE Level(k)
  <2>1. Adds(link, MsgAt(k), 0) /\ Adds(channel, FlushAt(k), 0)
    BY NoneAdds DEF Init
  <2>2. At(Nothing, k) = 0
    BY CellsAdd, NothingIsABatch
  <2>3. Total(k, 0, 0) <= At(recorded, k)
    BY <2>2 DEF Init, Total, Senders
  <2> QED BY <2>1, <2>3 DEF Level
<1> QED BY <1>1, <1>2, <1>3, <1>4, <1>5, <1>6 DEF Typed, NoMore

LEMMA TypedStays == ASSUME Admissible, Typed, [Next]_vars PROVE Typed'
<1>1. CASE Next
  BY <1>1, TypesStay, PlacesStay, FlagsStay, QueueStays, CountsStay DEF Typed
<1>2. CASE UNCHANGED vars
  <2> USE DEF vars, engineVars, flusherVars, sendVars, forwarderVars, linkVars, storeVars
  <2>1. TypeInv' /\ Places' /\ Flags' /\ Queue'
    BY <1>2 DEF Typed, TypeInv, Places, Flags, Queue
  <2>2. Held' /\ NoMore'
    BY <1>2 DEF Typed, Held, NoMore, Few, Level, Total
  <2> QED BY <2>1, <2>2 DEF Typed
<1> QED BY <1>1, <1>2

\* Every measurement counts in its second and its deltas once at most, wherever
\* batches are lost, and no sender is given more room than the channel has.
THEOREM MeasurementsAreTyped ==
    ASSUME Admissible PROVE Spec => []TypeOK
<1>1. Init => Typed
  BY TypedAtFirst
<1>2. Typed /\ [Next]_vars => Typed'
  BY TypedStays
<1>3. Typed => TypeOK
  BY TypedIsTypeOK
<1> QED BY <1>1, <1>2, <1>3, PTL DEF Spec
=============================================================================
