----------------------------- MODULE Iteration -----------------------------
(***************************************************************************)
(* The steps of a scenario and the two interpreters that execute them: the *)
(* editor's test run (engine/trace.rs), which previews a pass over the     *)
(* steps for each row of a dataset, and a virtual user of a load run       *)
(* (engine/runner.rs), whose passes are its iterations.  A user previews a *)
(* scenario and then loads with it: the model does the one, then the       *)
(* other, over the same rows and against a server that answers alike.      *)
(*                                                                         *)
(* A name is a sequence: a plain one, or a branch's name and its own.  A   *)
(* value is who wrote it and when; of a row's values some are not numbers, *)
(* nor fit for a header.  Texts, cookies, timings and the recording of     *)
(* requests in the aggregator are left out, and so are conditions that     *)
(* compare values.  No text is empty; a loop has steps, and has turns.      *)
(***************************************************************************)
EXTENDS Integers, SequencesExt

CONSTANTS
    Scenarios,  \* the scenarios executed
    Limits,     \* max_requests of the test runs
    Passes      \* rows of the dataset: passes of a preview, iterations of the VU

NoIndex == -1   \* outside a loop
Unset   == [from |-> "unset", nr |-> 0]
Nothing == [n \in {} |-> Unset]

VARIABLES
    scn,        \* the scenario
    answers,    \* of the server, to the requests of a step
    opts,       \* TraceOptions: the limit and apply_think_time
    phase,      \* "preview", then "load"
    pass,       \* the rows or iterations done, iter_id
    late,       \* the deadline has passed
    cancelled,  \* the run's token
    threads,    \* the interpreter's calls: one, and one for each branch
    requests,   \* TraceState.requests
    drawn,      \* how often the generators were evaluated
    rows,       \* StepTrace, and what a load run sent
    finals,     \* the variables at the end of a pass
    pages,      \* Aggregator.record_group
    vu          \* how the virtual user ended

inputVars == <<scn, answers, opts>>
vars == <<inputVars, phase, pass, late, cancelled, threads, requests, drawn, rows, finals,
          pages, vu>>

----------------------------------------------------------------------------
(***************************************************************************)
(* What the two interpreters share.                                        *)
(***************************************************************************)

seed_iter_vars(nr) ==
    [n \in DOMAIN scn.vars |->
        IF scn.vars[n] = "static" THEN [from |-> "static", nr |-> 0]
                                  ELSE [from |-> "gen", nr |-> nr]]

\* The row's values are laid over the declared ones.
Seeded(nr) == [n \in scn.row |-> [from |-> "row", nr |-> pass]] @@ seed_iter_vars(nr)

PerRequest == {n \in DOMAIN scn.vars : scn.vars[n] = "request"}

\* RequestGenPlan: what is evaluated anew for a step.
targets(step) == step.refs \cap PerRequest

Refreshed(step, th) ==
    [n \in targets(step) \ th.dead |-> [from |-> "gen", nr |-> drawn]] @@ th.vars

\* Mutant of mark_written: an extraction does not stop the generator.
MarkNothing(th, names)  == th.dead
mark_written(th, names) == th.dead \cup (names \cap PerRequest)

Forked(th) == th.dead

RECURSIVE eval_condition(_, _)
eval_condition(c, known) ==
    CASE c.op = "exists" -> c.var \in DOMAIN known
      [] c.op = "empty"  -> c.var \notin DOMAIN known
      [] c.op = "all"    -> \A i \in DOMAIN c.of : eval_condition(c.of[i], known)
      [] c.op = "any"    -> \E i \in DOMAIN c.of : eval_condition(c.of[i], known)

\* The branch an if takes, and its label.
select_branch(step, known) ==
    LET j == SelectInSeq(step.elif, LAMBDA e : eval_condition(e.cond, known)) IN
    IF eval_condition(step.cond, known) THEN [steps |-> step.then, label |-> <<"then">>]
    ELSE IF j > 0 THEN [steps |-> step.elif[j].then, label |-> <<"elif", j>>]
    ELSE [steps |-> step.else, label |-> IF step.else = <<>> THEN <<"none">> ELSE <<"else">>]

\* Branch::output_var_names: not into a nested parallel.
RECURSIVE output_var_names(_)
output_var_names(steps) ==
    UNION {LET s == steps[i] IN
           CASE s.type = "http" -> s.extract
             [] s.type = "loop" -> output_var_names(s.body)
             [] s.type = "if"   -> output_var_names(s.then) \cup output_var_names(s.else)
                                     \cup UNION {output_var_names(s.elif[j].then) :
                                                   j \in DOMAIN s.elif}
             [] s.type = "parallel" -> {} : i \in DOMAIN steps}

\* Some values do not parse as a number, nor make a header.
Odd(value) == value.from = "row"

\* A step puts its variables in plain text, in a cast or in a header.
Unfit(step, known) ==
    /\ step.use # "plain"
    /\ \E n \in step.refs \cap DOMAIN known : Odd(known[n])

\* The server and the step's assertions and extractions agree.
Succeeds(step, index) ==
    answers[step.id] = "yes" \/ (answers[step.id] = "first" /\ index <= 0)

Extracted(step, index) ==
    [n \in step.extract |-> [from |-> step.id, nr |-> index]]

----------------------------------------------------------------------------
(***************************************************************************)
(* A call of an interpreter: a stack of the lists of steps it is in.  The  *)
(* entry of a list: where in it, how often it is repeated and loop_index.  *)
(***************************************************************************)
Frame(steps, repeat, index) ==
    [steps |-> steps, at |-> 1, repeat |-> repeat, index |-> index]

Top(q)   == Last(threads[q].stack)
Step(q)  == Top(q).steps[Top(q).at]
Index(q) == Top(q).index
Is(q, type) == threads[q].at = "run" /\ Step(q).type = type
Ended(q) == threads[q].at \notin {"run", "wait", "pace", "join"}

\* Out of the lists that are over, and back to the head of a loop.
RECURSIVE Settled(_)
Settled(th) ==
    LET f == Last(th.stack)
        below == Front(th.stack)
    IN  IF f.at <= Len(f.steps) THEN [th EXCEPT !.at = "run"]
        ELSE IF f.repeat > f.index + 1
               THEN Settled([th EXCEPT !.stack =
                               Append(below, [f EXCEPT !.at = 1, !.index = @ + 1])])
        ELSE IF below = <<>> THEN [th EXCEPT !.at = "continue"]
        ELSE Settled([th EXCEPT !.stack = [below EXCEPT ![Len(below)].at = @ + 1]])

Advanced(th) == Settled([th EXCEPT !.stack[Len(th.stack)].at = @ + 1])

Entered(th, frame) == Settled([th EXCEPT !.stack = Append(@, frame)])

Call(steps, index, known, dead, think) ==
    Settled([stack |-> <<Frame(steps, 0, index)>>, vars |-> known, dead |-> dead,
             think |-> think, at |-> "run"])

Root == [q \in {<<>>} |->
    Call(scn.steps, NoIndex, Seeded(drawn), scn.row \cap PerRequest, scn.think)]

Child(q, branch) == Append(q, <<Step(q).id, branch.name, Index(q)>>)
Children(q) == {Child(q, Step(q).branches[i]) : i \in DOMAIN Step(q).branches}

\* Every branch starts from the variables at the entry, without the
\* scenario's default think time.
Branches(q, index) ==
    [c \in Children(q) |->
        LET b == CHOOSE b \in Range(Step(q).branches) : c = Child(q, b)
        IN  Call(b.steps, index, threads[q].vars, Forked(threads[q]), FALSE)]

\* What the branches that were run export, under their names.
Exported(q, branches) ==
    [n \in UNION {{<<b.name>> \o k :
                     k \in output_var_names(b.steps) \cap DOMAIN threads[Child(q, b)].vars} :
                   b \in branches} |->
        threads[Child(q, CHOOSE b \in branches : b.name = n[1])].vars[Tail(n)]]

Joined(q, branches) ==
    LET exported == Exported(q, branches) IN
    [threads[q] EXCEPT !.vars = exported @@ @,
                       !.dead = mark_written(threads[q], DOMAIN exported)]

\* http.think_time.or(default_think).
Thinks(q) == Step(q).think # "unset" \/ threads[q].think

Row(q, known, index, got, error) ==
    [pass |-> pass, path |-> q, id |-> Step(q).id, index |-> index, label |-> <<>>,
     inputs |-> [n \in Step(q).refs |-> IF n \in DOMAIN known THEN known[n] ELSE Unset],
     got |-> got, error |-> error, because |-> <<>>]

Decision(q, index, because) ==
    LET known == threads[q].vars IN
    [Row(q, known, index, {}, FALSE) EXCEPT
        !.label = select_branch(Step(q), known).label, !.because = because]

Become(q, th) == threads' = [threads EXCEPT ![q] = th]
Stop(q, how)  == Become(q, [threads[q] EXCEPT !.at = how])
Log(row)      == rows' = [rows EXCEPT ![phase] = Append(@, row)]
Draw(step)    == drawn' = IF targets(step) = {} THEN drawn ELSE drawn + 1

----------------------------------------------------------------------------
(***************************************************************************)
(* The test run: trace_scenario_rows, trace_once, trace_steps.             *)
(***************************************************************************)
Over == requests >= opts.limit \/ late

UnchangedInPreview == UNCHANGED <<inputVars, cancelled, pages, vu>>

ToLoad ==
    /\ phase' = "load" /\ pass' = 0 /\ late' = FALSE /\ drawn' = 0

\* The next row, while the budget lasts.
PreviewRow ==
    /\ phase = "preview" /\ threads = Nothing
    /\ IF pass = Passes \/ Over
         THEN ToLoad /\ UNCHANGED threads
         ELSE threads' = Root /\ drawn' = drawn + 1 /\ UNCHANGED <<phase, pass, late>>
    /\ UNCHANGED <<requests, rows, finals>> /\ UnchangedInPreview

PreviewedRow ==
    /\ phase = "preview" /\ threads # Nothing /\ Ended(<<>>)
    /\ finals' = [finals EXCEPT !.preview =
                    Append(@, [cut |-> threads[<<>>].at = "cut", vars |-> threads[<<>>].vars])]
    /\ threads' = Nothing
    /\ IF threads[<<>>].at = "cut" THEN ToLoad
                                   ELSE pass' = pass + 1 /\ UNCHANGED <<phase, late, drawn>>
    /\ UNCHANGED <<requests, rows>> /\ UnchangedInPreview

\* Branches are run one after the other.
Turn(q) ==
    q # <<>> =>
        LET p  == Front(q)
            bs == Step(p).branches
        IN  \A i \in DOMAIN bs : Child(p, bs[i]) = q =>
                \A j \in 1..(i - 1) : threads[Child(p, bs[j])].at = "continue"

Traces(q, type) ==
    /\ phase = "preview" /\ q \in DOMAIN threads /\ Turn(q)
    /\ Is(q, type)

UnchangedByTrace == UNCHANGED <<phase, pass, late, finals>> /\ UnchangedInPreview

TraceCut(q) ==
    /\ \E type \in {"http", "loop", "if", "parallel"} : Traces(q, type)
    /\ Over
    /\ Stop(q, "cut")
    /\ UNCHANGED <<requests, drawn, rows>> /\ UnchangedByTrace

\* Mutant of TraceIndex: the steps of an if see no loop.
TraceIndexLost(q) == NoIndex
TraceIndex(q)     == Index(q)

\* What does not render is sent as it is; an unfit header is left out, and
\* the row shows an error.
TraceHttp(q) ==
    LET step  == Step(q)
        known == Refreshed(step, threads[q])
        error == \/ step.use = "header" /\ Unfit(step, known)
                 \/ ~Succeeds(step, Index(q))
        got   == IF error THEN {} ELSE step.extract
        th    == [threads[q] EXCEPT
                    !.vars = [n \in got |-> Extracted(step, Index(q))[n]] @@ known,
                    !.dead = mark_written(threads[q], got)]
    IN
    /\ Traces(q, "http") /\ ~Over
    /\ requests' = requests + 1
    /\ Log(Row(q, known, Index(q), got, error))
    /\ Become(q, IF opts.think /\ Thinks(q) THEN [th EXCEPT !.at = "pace"] ELSE Advanced(th))
    /\ Draw(step)
    /\ UnchangedByTrace

\* A preview that thinks is cut when the deadline has passed by then.
TracePace(q) ==
    /\ phase = "preview" /\ q \in DOMAIN threads /\ threads[q].at = "pace"
    /\ Become(q, IF late THEN [threads[q] EXCEPT !.at = "cut"] ELSE Advanced(threads[q]))
    /\ UNCHANGED <<requests, drawn, rows>> /\ UnchangedByTrace

TraceLoop(q) ==
    /\ Traces(q, "loop") /\ ~Over
    /\ Become(q, Entered(threads[q], Frame(Step(q).body, Step(q).repeat, 0)))
    /\ UNCHANGED <<requests, drawn, rows>> /\ UnchangedByTrace

NoLeaf == [op |-> "none"]

\* The comparison that decides a condition, if it has any.
RECURSIVE deciding_leaf(_, _)
deciding_leaf(c, known) ==
    LET decisive(x) == eval_condition(x, known) <=> c.op = "any"
        i == SelectInSeq(c.of, decisive)
    IN  IF c.op \in {"exists", "empty"} THEN c
        ELSE IF c.of = <<>> THEN NoLeaf
        ELSE deciding_leaf(c.of[IF i = 0 THEN 1 ELSE i], known)

\* The conditions tried, up to the first that holds.
explain_branches(step, known) ==
    LET tried == <<[branch |-> <<"then">>, cond |-> step.cond]>> \o
                 [j \in DOMAIN step.elif |->
                    [branch |-> <<"elif", j>>, cond |-> step.elif[j].cond]]
        i == SelectInSeq(tried, LAMBDA t : eval_condition(t.cond, known))
    IN  [k \in 1..(IF i = 0 THEN Len(tried) ELSE i) |->
            [branch |-> tried[k].branch,
             passed |-> eval_condition(tried[k].cond, known),
             leaf   |-> deciding_leaf(tried[k].cond, known)]]

TraceIf(q) ==
    LET known == threads[q].vars IN
    /\ Traces(q, "if") /\ ~Over
    /\ Log(Decision(q, Index(q), explain_branches(Step(q), known)))
    /\ Become(q, Entered(threads[q],
                         Frame(select_branch(Step(q), known).steps, 0, TraceIndex(q))))
    /\ UNCHANGED <<requests, drawn>> /\ UnchangedByTrace

TraceFork(q) ==
    /\ Traces(q, "parallel") /\ ~Over
    /\ threads' = Branches(q, TraceIndex(q)) @@ [threads EXCEPT ![q].at = "join"]
    /\ UNCHANGED <<requests, drawn, rows>> /\ UnchangedByTrace

\* A branch that is cut exports what it has, those after it nothing.
TraceJoin(q) ==
    LET ends == {b \in Range(Step(q).branches) : Ended(Child(q, b))}
        cut  == \E b \in ends : threads[Child(q, b)].at = "cut"
        th   == Joined(q, ends)
    IN
    /\ phase = "preview" /\ q \in DOMAIN threads /\ threads[q].at = "join"
    /\ cut \/ ends = Range(Step(q).branches)
    /\ threads' = [p \in DOMAIN threads \ Children(q) |->
                     IF p # q THEN threads[p]
                     ELSE IF cut THEN [th EXCEPT !.at = "cut"] ELSE Advanced(th)]
    /\ UNCHANGED <<requests, drawn, rows>> /\ UnchangedByTrace

Trace(q) ==
    \/ TraceCut(q) \/ TraceHttp(q) \/ TracePace(q) \/ TraceLoop(q)
    \/ TraceIf(q) \/ TraceFork(q) \/ TraceJoin(q)

----------------------------------------------------------------------------
(***************************************************************************)
(* The virtual user: run_vu, execute_steps.                                *)
(***************************************************************************)
UnchangedInLoad == UNCHANGED <<inputVars, phase, late, cancelled, requests>>

\* The head of run_vu's loop; a unique dataset's rows may be used up.
Iterate ==
    /\ phase = "load" /\ vu = "running" /\ threads = Nothing
    /\ IF late \/ cancelled \/ pass = Passes
         THEN /\ vu' = IF ~late /\ cancelled THEN "aborted" ELSE "ok"
              /\ UNCHANGED <<threads, drawn>>
         ELSE /\ threads' = Root
              /\ drawn' = drawn + 1
              /\ UNCHANGED vu
    /\ UNCHANGED <<pass, rows, finals, pages>> /\ UnchangedInLoad

Iterated ==
    /\ phase = "load" /\ vu = "running" /\ threads # Nothing /\ Ended(<<>>)
    /\ LET how == threads[<<>>].at IN
       IF how = "continue"
         THEN /\ finals' = [finals EXCEPT !.load =
                              Append(@, [cut |-> FALSE, vars |-> threads[<<>>].vars])]
              /\ pass' = pass + 1
              /\ threads' = Nothing
              /\ UNCHANGED vu
         ELSE /\ vu' = IF how = "deadline" THEN "ok" ELSE how
              /\ UNCHANGED <<finals, pass, threads>>
    /\ UNCHANGED <<drawn, rows, pages>> /\ UnchangedInLoad

InTime == ~late /\ ~cancelled

Loads(q, type) ==
    /\ phase = "load" /\ vu = "running" /\ q \in DOMAIN threads
    /\ Is(q, type)

UnchangedByLoad == UNCHANGED <<pass, finals, vu>> /\ UnchangedInLoad

\* The deadline and the token are asked before every step, in this order.
LoadStop(q) ==
    /\ \E type \in {"http", "loop", "if", "parallel"} : Loads(q, type)
    /\ ~InTime
    /\ Stop(q, IF late THEN "deadline" ELSE "aborted")
    /\ UNCHANGED <<drawn, rows, pages>> /\ UnchangedByLoad

\* A request that cannot be built fails the virtual user.
LoadSend(q) ==
    LET step  == Step(q)
        known == Refreshed(step, threads[q])
        built == step.refs \subseteq DOMAIN known /\ ~Unfit(step, known)
    IN
    /\ Loads(q, "http") /\ InTime
    /\ Become(q, [threads[q] EXCEPT !.vars = known, !.at = IF built THEN "wait" ELSE "failed"])
    /\ Draw(step)
    /\ UNCHANGED <<rows, pages>> /\ UnchangedByLoad

LoadAnswer(q) ==
    LET step == Step(q)
        ok   == Succeeds(step, Index(q))
        got  == IF ok THEN step.extract ELSE {}
        th   == [threads[q] EXCEPT
                   !.vars = [n \in got |-> Extracted(step, Index(q))[n]] @@ @,
                   !.dead = mark_written(threads[q], got)]
    IN
    /\ phase = "load" /\ q \in DOMAIN threads /\ threads[q].at = "wait"
    /\ Log(Row(q, threads[q].vars, Index(q), got, ~ok))
    /\ Become(q, IF Thinks(q) THEN [th EXCEPT !.at = "pace"] ELSE Advanced(th))
    /\ UNCHANGED <<drawn, pages>> /\ UnchangedByLoad

\* pace: a sleep that ends with the deadline is one that is over; of no length
\* it does not wait for the token.
LoadPace(q) ==
    /\ phase = "load" /\ q \in DOMAIN threads /\ threads[q].at = "pace"
    /\ \/ Become(q, Advanced(threads[q]))
       \/ late /\ Stop(q, "deadline")
       \/ cancelled /\ Step(q).think # "zero" /\ Stop(q, "aborted")
    /\ UNCHANGED <<drawn, rows, pages>> /\ UnchangedByLoad

LoadLoop(q) ==
    /\ Loads(q, "loop") /\ InTime
    /\ Become(q, Entered(threads[q], Frame(Step(q).body, Step(q).repeat, 0)))
    /\ UNCHANGED <<drawn, rows, pages>> /\ UnchangedByLoad

LoadIf(q) ==
    /\ Loads(q, "if") /\ InTime
    /\ Log(Decision(q, Index(q), <<>>))
    /\ Become(q, Entered(threads[q],
                         Frame(select_branch(Step(q), threads[q].vars).steps, 0, Index(q))))
    /\ UNCHANGED <<drawn, pages>> /\ UnchangedByLoad

LoadFork(q) ==
    /\ Loads(q, "parallel") /\ InTime
    /\ threads' = Branches(q, Index(q)) @@ [threads EXCEPT ![q].at = "join"]
    /\ UNCHANGED <<drawn, rows, pages>> /\ UnchangedByLoad

\* Mutant of PageCounts: a page that was aborted counts.
PageCountsUncut(flows) == "deadline" \notin flows
PageCounts(flows)      == flows = {"continue"}

\* All branches are waited for.  The first failure is the node's, and else
\* the worst end of a branch.
LoadJoin(q) ==
    LET bs    == Step(q).branches
        flows == {threads[c].at : c \in Children(q)}
        th    == Joined(q, Range(bs))
    IN
    /\ phase = "load" /\ q \in DOMAIN threads /\ threads[q].at = "join"
    /\ \A c \in Children(q) : Ended(c)
    /\ IF "failed" \in flows
         THEN Stop(q, "failed") /\ UNCHANGED pages
         ELSE /\ threads' = [p \in DOMAIN threads \ Children(q) |->
                  IF p # q THEN threads[p]
                  ELSE IF "aborted" \in flows THEN [th EXCEPT !.at = "aborted"]
                  ELSE IF "deadline" \in flows THEN [th EXCEPT !.at = "deadline"]
                  ELSE Advanced(th)]
              /\ pages' = IF PageCounts(flows)
                            THEN pages \o <<<<Step(q).id, "">>>>
                                       \o [i \in DOMAIN bs |-> <<Step(q).id, bs[i].name>>]
                            ELSE pages
    /\ UNCHANGED <<drawn, rows>> /\ UnchangedByLoad

Load(q) ==
    \/ LoadStop(q) \/ LoadSend(q) \/ LoadAnswer(q) \/ LoadPace(q) \/ LoadLoop(q)
    \/ LoadIf(q) \/ LoadFork(q) \/ LoadJoin(q)

----------------------------------------------------------------------------
RECURSIVE Https(_)
Https(steps) ==
    UNION {LET s == steps[i] IN
           CASE s.type = "http" -> {s}
             [] s.type = "loop" -> Https(s.body)
             [] s.type = "if"   -> Https(s.then) \cup Https(s.else)
                                     \cup UNION {Https(s.elif[j].then) : j \in DOMAIN s.elif}
             [] s.type = "parallel" ->
                   UNION {Https(s.branches[j].steps) : j \in DOMAIN s.branches} :
           i \in DOMAIN steps}

Init ==
    /\ scn \in Scenarios
    /\ answers \in [{s.id : s \in Https(scn.steps)} -> {"yes", "first", "no"}]
    /\ opts \in [limit : Limits, think : BOOLEAN]
    /\ phase = "preview" /\ pass = 0 /\ late = FALSE /\ cancelled = FALSE
    /\ threads = Nothing /\ requests = 0 /\ drawn = 0
    /\ rows = [preview |-> <<>>, load |-> <<>>]
    /\ finals = [preview |-> <<>>, load |-> <<>>]
    /\ pages = <<>> /\ vu = "running"

Deadline ==
    /\ ~late /\ vu = "running"
    /\ late' = TRUE
    /\ UNCHANGED <<inputVars, phase, pass, cancelled, threads, requests, drawn, rows, finals,
                   pages, vu>>

Cancel ==
    /\ phase = "load" /\ ~cancelled /\ vu = "running"
    /\ cancelled' = TRUE
    /\ UNCHANGED <<inputVars, phase, pass, late, threads, requests, drawn, rows, finals,
                   pages, vu>>

Next ==
    \/ PreviewRow \/ PreviewedRow \/ Iterate \/ Iterated \/ Deadline \/ Cancel
    \/ \E q \in DOMAIN threads : Trace(q) \/ Load(q)

Spec == Init /\ [][Next]_vars

----------------------------------------------------------------------------
RowsOf(p, i, q) == SelectSeq(rows[p], LAMBDA r : r.pass = i /\ r.path = q)
Paths == {<<>>} \cup UNION {{rows[p][k].path : k \in DOMAIN rows[p]} : p \in {"preview", "load"}}

\* Two evaluations of a generator differ.
Same(f, g) ==
    /\ DOMAIN f = DOMAIN g
    /\ \A n \in DOMAIN f : f[n] = g[n] \/ {f[n].from, g[n].from} = {"gen"}

SameRow(r, s) ==
    /\ r.id = s.id /\ r.index = s.index /\ r.label = s.label
    /\ r.got = s.got /\ r.error = s.error
    /\ Same(r.inputs, s.inputs)

WasCut(i) == i > Len(finals.preview) \/ finals.preview[i].cut

Unbound(r) == {n \in DOMAIN r.inputs : r.inputs[n] = Unset}

\* The reasons given for a decision: they end with the branch taken, and each
\* names a comparison that came out as its condition did.
ReasonsAreTrue(r) ==
    LET known == [n \in DOMAIN r.inputs \ Unbound(r) |-> r.inputs[n]]
        taken == {b \in Range(r.because) : b.passed}
    IN
    /\ IF r.label \in {<<"else">>, <<"none">>}
         THEN taken = {}
         ELSE taken = {Last(r.because)} /\ Last(r.because).branch = r.label
    /\ \A b \in Range(r.because) :
         b.leaf # NoLeaf => eval_condition(b.leaf, known) = b.passed

\* "Mirrors execute_steps' control flow": given the same rows and answers, a
\* virtual user sends what the test run showed, branch by branch, with the
\* same variables, and ends a pass with the same; it goes further only where
\* the preview was cut, and fails only at a request whose row shows an error
\* or an unbound variable.  (A cast that fails is the exception: it fails the
\* virtual user, and the row shows none of it.)
PreviewIsTrue ==
    /\ \A i \in 0..(Passes - 1), q \in Paths :
         LET shown == RowsOf("preview", i, q)
             sent  == RowsOf("load", i, q)
         IN  /\ \A k \in DOMAIN shown \cap DOMAIN sent : SameRow(shown[k], sent[k])
             /\ Len(sent) > Len(shown) => WasCut(i + 1)
             /\ i < Len(finals.load) /\ ~WasCut(i + 1) =>
                  /\ Len(sent) = Len(shown)
                  /\ Same(finals.load[i + 1].vars, finals.preview[i + 1].vars)
    /\ \A q \in DOMAIN threads :
         threads[q].at = "failed" /\ Step(q).type = "http" =>
             LET shown == RowsOf("preview", pass, q)
                 k     == Len(RowsOf("load", pass, q)) + 1
             IN  IF k <= Len(shown)
                   THEN Unbound(shown[k]) # {} \/ shown[k].error \/ Step(q).use = "cast"
                   ELSE WasCut(pass + 1)
    /\ \A k \in DOMAIN rows.preview :
         rows.preview[k].label # <<>> => ReasonsAreTrue(rows.preview[k])

\* The last row before the k-th of a phase that wrote n where it could be seen.
WriteBefore(p, k, n) ==
    LET r == rows[p][k]
        writers == {j \in 1..(k - 1) :
                      /\ rows[p][j].pass = r.pass
                      /\ IsPrefix(rows[p][j].path, r.path)
                      /\ n \in rows[p][j].got}
    IN  IF writers = {} THEN 0 ELSE CHOOSE j \in writers : \A i \in writers : i <= j

\* A variable declared to be generated for each request is: a request that
\* uses it sends a value no other request sent, unless the row or an earlier
\* response has set it, in its own call or before the branches parted; then it
\* sends that, for the rest of the pass.
FreshUnlessWritten ==
    \A p \in {"preview", "load"} : \A k \in DOMAIN rows[p] :
        \A n \in DOMAIN rows[p][k].inputs \cap PerRequest :
            LET r == rows[p][k]
                j == WriteBefore(p, k, n)
            IN  r.label = <<>> =>
                  IF j > 0 THEN r.inputs[n] = [from |-> rows[p][j].id, nr |-> rows[p][j].index]
                  ELSE IF n \in scn.row THEN r.inputs[n] = [from |-> "row", nr |-> r.pass]
                  ELSE /\ r.inputs[n].from = "gen"
                       /\ \A i \in DOMAIN rows[p] \ {k} :
                            n \in DOMAIN rows[p][i].inputs /\ rows[p][i].label = <<>> =>
                                rows[p][i].inputs[n] # r.inputs[n]

PagesOf(id, name) == Cardinality({k \in DOMAIN pages : pages[k] = <<id, name>>})
SentBy(id) == Cardinality({k \in DOMAIN rows.load : rows.load[k].id = id})

\* Page times are of whole pages: each page counts once with all its branches,
\* never without the requests of one, and every pass that is over has its own.
PagesAreWhole ==
    \A s \in Range(scn.steps) : s.type = "parallel" =>
        /\ PagesOf(s.id, "") >= Len(finals.load)
        /\ \A b \in Range(s.branches) :
             /\ PagesOf(s.id, b.name) = PagesOf(s.id, "")
             /\ \A h \in Range(b.steps) :
                  h.type = "http" => SentBy(h.id) >= PagesOf(s.id, "")
=============================================================================
