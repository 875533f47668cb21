----------------------------- MODULE StepJudge -----------------------------
(***************************************************************************)
(* What a monitor board makes of a scenario's pass (monitor/step_judge.rs, *)
(* and judge of monitor/check.rs): the interpreter of the test run goes    *)
(* through the steps once, goes on after a request that failed, and all    *)
(* panels of a unit are judged from the rows it left.  A panel shows one   *)
(* step, or the whole flow.                                                *)
(*                                                                         *)
(* A unit is the sequence of its panels' steps.  Latencies, reasons and    *)
(* displayed values are left out, and so are conditions on a response.     *)
(***************************************************************************)
EXTENDS Iteration

----------------------------------------------------------------------------
(***************************************************************************)
(* Where a request is: the branches of ifs and parallels around it.        *)
(***************************************************************************)
Ids(steps) == {h.id : h \in Https(steps)}

Arms(s) ==
    CASE s.type = "http" -> <<>>
      [] s.type = "loop" -> <<[label |-> "", steps |-> s.body]>>
      [] s.type = "if"   -> <<[label |-> <<"then">>, steps |-> s.then]>> \o
                            [j \in DOMAIN s.elif |->
                               [label |-> <<"elif", j>>, steps |-> s.elif[j].then]] \o
                            <<[label |-> <<"else">>, steps |-> s.else]>>
      [] s.type = "parallel" -> [j \in DOMAIN s.branches |->
                                   [label |-> s.branches[j].name, steps |-> s.branches[j].steps]]

RECURSIVE ancestors(_, _)
ancestors(steps, id) ==
    LET s == CHOOSE s \in Range(steps) : id \in Ids(<<s>>)
        arms == Arms(s)
        i == SelectInSeq(arms, LAMBDA a : id \in Ids(a.steps))
    IN  IF i = 0 THEN <<>>
        ELSE <<[type |-> s.type, id |-> s.id, label |-> arms[i].label]>>
               \o ancestors(arms[i].steps, id)

\* Mutant of in_sibling_branch: the branches of a parallel are steps like others.
InNoSibling(id, other) == FALSE

\* Two requests in different branches of one parallel.
in_sibling_branch(id, other) ==
    \E a \in Range(ancestors(scn.steps, id)), b \in Range(ancestors(scn.steps, other)) :
        a.type = "parallel" /\ b.type = "parallel" /\ a.id = b.id /\ a.label # b.label

----------------------------------------------------------------------------
(***************************************************************************)
(* The judgement of a unit, from the rows of a pass.                       *)
(***************************************************************************)
FirstRow(trace, id) == SelectInSeq(trace, LAMBDA r : r.id = id)
LastRow(trace, id)  == SelectLastInSeq(trace, LAMBDA r : r.id = id)

\* The decision that left the request out: of the ifs around it, from the
\* outside, the first that last chose another branch; none if one of those
\* outside it has not been decided.
exclusion_row(trace, id) ==
    LET ifs == SelectSeq(ancestors(scn.steps, id), LAMBDA a : a.type = "if")
        other(a) == LastRow(trace, a.id) = 0 \/ trace[LastRow(trace, a.id)].label # a.label
        i == SelectInSeq(ifs, other)
    IN  IF i = 0 THEN 0 ELSE LastRow(trace, ifs[i].id)

Known(id) == id \in Ids(scn.steps)

\* The rows in front of a request end with its first, or with the decision
\* against it, or with the trace.
FrontEnd(trace, id) ==
    IF ~Known(id) THEN 0
    ELSE IF FirstRow(trace, id) > 0 THEN FirstRow(trace, id)
    ELSE IF exclusion_row(trace, id) > 0 THEN exclusion_row(trace, id)
    ELSE Len(trace) + 1

\* The first row in front that failed, outside the request's sibling branches.
Cause(trace, id) ==
    SelectInSeq(SubSeq(trace, 1, FrontEnd(trace, id) - 1),
                LAMBDA r : r.error /\ ~in_sibling_branch(id, r.id))

error_verdict(row) == IF Unbound(row) # {} THEN "config_error" ELSE "fail"

\* No failure in front: what the last row of the step says.
own_result(trace, id) ==
    LET k == LastRow(trace, id) IN
    IF k > 0 THEN IF trace[k].error THEN error_verdict(trace[k]) ELSE "ok"
    ELSE IF exclusion_row(trace, id) > 0 THEN "branch_skipped"
    ELSE "fail"

Red(v) == v \in {"fail", "config_error"}

\* The first look at a step of the board: where its front ends, what stopped it.
Pre(trace, id) ==
    LET k == IF Known(id) THEN Cause(trace, id) ELSE 0 IN
    [end |-> FrontEnd(trace, id), row |-> k, cause |-> IF k = 0 THEN "none" ELSE trace[k].id]

\* Mutant of Before: the panels are judged as they stand on the board.
BeforeOnBoard(pre, unit, j, i) == j < i

\* The order in which the panels are judged: by the end of their fronts.
Before(pre, unit, j, i) ==
    LET e(n) == pre[unit[n]].end
    IN  e(j) < e(i) \/ (e(j) = e(i) /\ j < i)

\* Mutant of StandIn: every panel stands in for a cause that no panel shows.
StandInEach(pre, unit, i) == TRUE

\* The first panel of those that one step stopped stands in for it.
StandIn(pre, unit, i) ==
    \A j \in 1..(i - 1) : pre[unit[j]].cause # pre[unit[i]].cause

\* The verdicts of a unit's panels.  A panel that a failure stopped is red in
\* its stead if no panel of the failed step is.
judge_unit(trace, pre, unit) ==
    LET verdict[i \in DOMAIN unit] ==
            LET p == pre[unit[i]] IN
            IF ~Known(unit[i]) THEN "config_error"
            ELSE IF p.row = 0 THEN own_result(trace, unit[i])
            ELSE IF /\ \A j \in DOMAIN unit :
                         unit[j] = p.cause /\ Before(pre, unit, j, i) => ~Red(verdict[j])
                    /\ StandIn(pre, unit, i)
                   THEN error_verdict(trace[p.row])
            ELSE "upstream_failed"
    IN  [i \in DOMAIN unit |-> verdict[i]]

\* judge: a panel of the whole flow, cut or not.
judge(trace, cut) ==
    LET k == SelectInSeq(trace, LAMBDA r : r.error) IN
    IF cut THEN "fail"
    ELSE IF k > 0 THEN error_verdict(trace[k])
    ELSE "ok"

----------------------------------------------------------------------------
\* A pass is over; the board judges it.
Checked == threads = Nothing /\ finals.preview # <<>> /\ rows.load = <<>>
LastPass == SelectSeq(rows.preview, LAMBDA r : r.pass = Len(finals.preview) - 1)

\* A failure is shown, and once: a panel that is stopped by a request that
\* failed leaves it to one red panel, of the request itself or in its stead,
\* and a second panel in its stead there is not.
FailureIsShownOnce(pre, unit, shown) ==
    \A i \in DOMAIN unit :
        LET c == pre[unit[i]].cause
            instead == {j \in DOMAIN unit : pre[unit[j]].cause = c /\ Red(shown[j])}
            own     == {j \in DOMAIN unit : unit[j] = c /\ Red(shown[j])}
        IN  c # "none" => Cardinality(instead) = IF own = {} THEN 1 ELSE 0

\* The panels of the steps and the panel of the flow agree: while the flow is
\* green none is red or stopped, but of a step that is gone; and when all
\* requests have a panel, each one that failed has a red panel or a stopped one
\* of its own, unless the panels' fronts were over by then (it was made again).
FlowAgrees(trace, pre, unit, shown) ==
    /\ judge(trace, Last(finals.preview).cut) = "ok" =>
         \A i \in DOMAIN unit : Known(unit[i]) => shown[i] \in {"ok", "branch_skipped"}
    /\ Ids(scn.steps) \subseteq Range(unit) =>
         \A k \in DOMAIN trace :
             \/ ~trace[k].error
             \/ \E i \in DOMAIN unit : Red(shown[i]) /\ trace[k].id \in {unit[i], pre[unit[i]].cause}
             \/ \E i \in DOMAIN unit : unit[i] = trace[k].id /\ shown[i] = "upstream_failed"
             \/ \A i \in DOMAIN unit : pre[unit[i]].end <= k

\* No panel is stopped by a request that ran beside its own, in another branch
\* of the parallel they were in.
NoSiblingIsBlamed(trace, pre) ==
    \A id \in DOMAIN pre :
        LET k == FirstRow(trace, id)
            Beside(j) == \E a \in Range(trace[k].path), b \in Range(trace[j].path) :
                             a[1] = b[1] /\ a[3] = b[3] /\ a[2] # b[2]
        IN  k > 0 /\ pre[id].row > 0 => ~Beside(pre[id].row)

\* Every order of every choice of panels, and one of a step that is gone.
Units == {Append(unit, "gone") : unit \in SetToAllKPermutations(Ids(scn.steps))}

\* The board of a pass tells its failures.
BoardTellsTheFailure ==
    Checked =>
        LET trace == LastPass
            pre   == [id \in Ids(scn.steps) \cup {"gone"} |-> Pre(trace, id)]
        IN  /\ NoSiblingIsBlamed(trace, pre)
            /\ \A unit \in Units :
                 LET shown == judge_unit(trace, pre, unit) IN
                 /\ FailureIsShownOnce(pre, unit, shown)
                 /\ FlowAgrees(trace, pre, unit, shown)
=============================================================================
