----------------------------- MODULE DataRows -----------------------------
(***************************************************************************)
(* The rows of the datasets a run is bound to, from the launch to the      *)
(* engines: the launch reads the row counts (api/runs.rs), the handler of  *)
(* each worker's stream sends it its slice of every binding in batches     *)
(* (stream_dataset), the worker collects them before it starts its engine  *)
(* (load_datasets).  Meanwhile a dataset may be deleted (api/datasets.rs), *)
(* a user may abort, a read of the database may fail and a connection may  *)
(* break.                                                                  *)
(*                                                                         *)
(* Worker w is the w-th to register: its shard index is w - 1.  Binding b  *)
(* is bound to dataset b, of rows 1..Bindings[b].rows.                     *)
(***************************************************************************)
EXTENDS Integers, Sequences, FiniteSets, SequencesExt, FiniteSetsExt, Functions

CONSTANTS
    Workers,     \* 1..n, the workers of the run
    Bindings,    \* the bindings: sequence of [unique, rows, slots]
    Batch,       \* DATASET_BATCH_ROWS
    ChanCap,     \* messages between a handler and its worker
    MaxFaults    \* bound: reads that fail, streams that break, signals

\* What the proofs ask of the constants: the run has workers and bindings, and
\* a batch has a row.
Admissible ==
    /\ IsFiniteSet(Workers) /\ Workers # {} /\ Workers = 1..Cardinality(Workers)
    /\ Bindings # <<>>
    /\ Bindings \in Seq([unique : BOOLEAN, rows : Nat, slots : Nat])
    /\ Batch \in Nat \ {0} /\ ChanCap \in Nat /\ MaxFaults \in Nat

VARIABLES
    stored,      \* the datasets that exist
    deleter,     \* the DELETE handler of each dataset
    launch,      \* spawn_run's position
    runRow,      \* status in the runs table
    terminal,    \* RunWorkers.terminal
    user,        \* abort_run's position
    handler,     \* position of the stream handler of each worker
    at, sent,    \* stream_dataset: the binding, and the rows sent of it
    fetched,     \* the batch it is about to send
    owed,        \* the workers a fan_out_abort has yet to send to
    chan,        \* the messages on their way to each worker
    open,        \* the worker's connection
    worker,      \* position of each worker
    bucket,      \* load_datasets: the rows of each binding
    report,      \* the RunStatus on its way back
    faults

apiVars    == <<stored, deleter, launch, user>>
runVars    == <<runRow, terminal, owed>>
streamVars == <<handler, at, sent, fetched>>
wireVars   == <<chan, open, report>>
workerVars == <<worker, bucket>>
vars == <<apiVars, runVars, streamVars, wireVars, workerVars, faults>>

BindingIds == DOMAIN Bindings
AllRows    == UNION {1..Bindings[b].rows : b \in BindingIds}
Active     == {"pending", "running"}

Assignment == [kind |-> "assignment", binding |-> 0, rows |-> <<>>]
Abort      == [kind |-> "abort", binding |-> 0, rows |-> <<>>]
Rows(b, s) == [kind |-> "batch", binding |-> b, rows |-> s]

BatchesOf(n) == UNION {[1..k -> AllRows] : k \in 0..n}

TypeOK ==
    /\ stored \subseteq BindingIds
    /\ deleter \in [BindingIds -> {"idle", "checked"}]
    /\ launch \in {"validate", "insert", "enqueue", "launched", "refused"}
    /\ runRow \in {"none", "pending", "running", "aborted", "failed"}
    /\ terminal \in BOOLEAN
    /\ user \in {"idle", "sending", "done"}
    /\ handler \in [Workers -> {"none", "assign", "row", "stream", "send",
                                "abort", "read", "over"}]
    /\ at \in [Workers -> BindingIds] /\ sent \in [Workers -> Nat]
    /\ fetched \in [Workers -> BatchesOf(Batch)]
    /\ owed \subseteq Workers
    /\ \A w \in Workers :
        /\ Len(chan[w]) <= ChanCap
        /\ \A m \in ToSet(chan[w]) :
            \/ m \in {Assignment, Abort}
            \/ \E b \in BindingIds, s \in BatchesOf(Batch) : m = Rows(b, s)
        /\ \A b \in BindingIds : bucket[w][b] \in BatchesOf(Cardinality(AllRows))
    /\ open \in [Workers -> BOOLEAN]
    /\ worker \in [Workers -> {"waiting", "loading", "running", "ended", "gone"}]
    /\ report \in [Workers -> {"none", "aborted"}]
    /\ faults \in 0..MaxFaults

Init ==
    /\ stored = BindingIds
    /\ deleter = [b \in BindingIds |-> "idle"]
    /\ launch = "validate" /\ runRow = "none" /\ terminal = FALSE /\ user = "idle"
    /\ handler = [w \in Workers |-> "none"]
    /\ at = [w \in Workers |-> 1] /\ sent = [w \in Workers |-> 0]
    /\ fetched = [w \in Workers |-> <<>>]
    /\ owed = {}
    /\ chan = [w \in Workers |-> <<>>]
    /\ open = [w \in Workers |-> TRUE]
    /\ worker = [w \in Workers |-> "waiting"]
    /\ bucket = [w \in Workers |-> [b \in BindingIds |-> <<>>]]
    /\ report = [w \in Workers |-> "none"]
    /\ faults = 0

Fault == faults < MaxFaults /\ faults' = faults + 1

----------------------------------------------------------------------------
(***************************************************************************)
(* The slices.                                                             *)
(***************************************************************************)

\* spawn_run: the rows a binding promises the run; per_vu takes one per slot.
Promised(b) ==
    LET B == Bindings[b]
    IN  IF B.slots = 0 \/ B.rows < B.slots THEN B.rows ELSE B.slots

\* dataset_slice: unique rows are split (shard_split), others go to everyone.
SliceOf(w, b) ==
    LET n    == Cardinality(Workers)
        base == Promised(b) \div n
        rem  == Promised(b) % n
    IN  IF ~Bindings[b].unique THEN [offset |-> 0, count |-> Promised(b)]
        ELSE [offset |-> (w - 1) * base + Min({w - 1, rem}),
              count  |-> IF w - 1 < rem THEN base + 1 ELSE base]

\* Every row the worker was promised, in order.
FullBucket(w, b) ==
    [i \in 1..SliceOf(w, b).count |-> SliceOf(w, b).offset + i]

Total(count) == SumFunctionOnSet(count, BindingIds)

----------------------------------------------------------------------------
(***************************************************************************)
(* The REST handlers: the launch, the user's abort and the deletions.      *)
(***************************************************************************)

\* validate_run_config reads the meta of every dataset, or answers 400.
Validate ==
    /\ launch = "validate"
    /\ launch' = IF stored = BindingIds THEN "insert" ELSE "refused"
    /\ UNCHANGED <<stored, deleter, user, runVars, streamVars, wireVars,
                   workerVars, faults>>

InsertRow ==
    /\ launch = "insert"
    /\ launch' = "enqueue" /\ runRow' = "pending"
    /\ UNCHANGED <<stored, deleter, user, terminal, owed, streamVars, wireVars,
                   workerVars, faults>>

Enqueue ==
    /\ launch = "enqueue"
    /\ launch' = "launched"
    /\ UNCHANGED <<stored, deleter, user, runVars, streamVars, wireVars,
                   workerVars, faults>>

\* dataset_in_use is false: no active run refers to the dataset.
CheckUse(b) ==
    /\ b \in stored /\ deleter[b] = "idle"
    /\ runRow \notin Active
    /\ deleter' = [deleter EXCEPT ![b] = "checked"]
    /\ UNCHANGED <<stored, launch, user, runVars, streamVars, wireVars,
                   workerVars, faults>>

DeleteDataset(b) ==
    /\ deleter[b] = "checked"
    /\ deleter' = [deleter EXCEPT ![b] = "idle"]
    /\ stored' = stored \ {b}
    /\ UNCHANGED <<launch, user, runVars, streamVars, wireVars, workerVars,
                   faults>>

Registered == {w \in Workers : handler[w] # "none"}

\* abort_run sends to those registered, then marks the row.
UserAbort ==
    /\ user = "idle" /\ runRow \in Active
    /\ user' = "sending"
    /\ owed' = owed \cup (IF launch = "launched" THEN Registered ELSE {})
    /\ UNCHANGED <<stored, deleter, launch, runRow, terminal, streamVars,
                   wireVars, workerVars, faults>>

MarkAborted ==
    /\ user = "sending" /\ owed = {}
    /\ user' = "done" /\ runRow' = "aborted"
    /\ UNCHANGED <<stored, deleter, launch, terminal, owed, streamVars, wireVars,
                   workerVars, faults>>

----------------------------------------------------------------------------
(***************************************************************************)
(* The handler of a worker's stream.  A send waits for room in the         *)
(* channel; once the connection is gone it fails.                          *)
(***************************************************************************)

Sends(w, m) ==
    \/ /\ open[w] /\ Len(chan[w]) < ChanCap
       /\ chan' = [chan EXCEPT ![w] = Append(@, m)]
    \/ /\ ~open[w]
       /\ UNCHANGED chan

Goes(w, to) == handler' = [handler EXCEPT ![w] = to]

\* fan_out_abort, of abort_run or worker_disconnected.
FanOutAbort(w) ==
    /\ w \in owed
    /\ Sends(w, Abort)
    /\ owed' = owed \ {w}
    /\ UNCHANGED <<apiVars, runRow, terminal, streamVars, open, report,
                   workerVars, faults>>

Register(w) ==
    /\ launch = "launched" /\ ~terminal
    /\ Registered = 1..(w - 1)
    /\ Goes(w, "assign")
    /\ UNCHANGED <<apiVars, runVars, at, sent, fetched, wireVars, workerVars,
                   faults>>

SendAssignment(w) ==
    /\ handler[w] = "assign"
    /\ Sends(w, Assignment)
    /\ Goes(w, "row")
    /\ UNCHANGED <<apiVars, runVars, at, sent, fetched, open, report, workerVars,
                   faults>>

\* set_status(Running) of the first registrant.
SetRunning(w) ==
    /\ handler[w] = "row"
    /\ Goes(w, "stream")
    /\ runRow' = IF w = 1 /\ runRow # "aborted" THEN "running" ELSE runRow
    /\ UNCHANGED <<apiVars, terminal, owed, at, sent, fetched, wireVars,
                   workerVars, faults>>

\* A binding is streamed, or has no rows for this worker.
NextBinding(w) ==
    /\ handler[w] = "stream"
    /\ sent[w] >= SliceOf(w, at[w]).count
    /\ IF at[w] = Len(Bindings)
       THEN Goes(w, "read") /\ UNCHANGED at
       ELSE at' = [at EXCEPT ![w] = @ + 1] /\ UNCHANGED handler
    /\ sent' = [sent EXCEPT ![w] = 0]
    /\ UNCHANGED <<apiVars, runVars, fetched, wireVars, workerVars, faults>>

\* Mutant of Limit: every batch is asked for in full.
LimitUnclamped(w) == Batch

Limit(w) == Min({Batch, SliceOf(w, at[w]).count - sent[w]})

\* get_rows_range: the rows from offset + sent on, limit of them at most.
RowsRange(w) ==
    LET b     == at[w]
        first == SliceOf(w, b).offset + sent[w] + 1
        last  == Min({first + Limit(w) - 1, Bindings[b].rows})
    IN  IF b \in stored THEN [i \in 1..(last - first + 1) |-> first + i - 1]
        ELSE <<>>

\* Mutant of AfterIncomplete: the stream just stops.
AfterIncompleteSilently == "read"

\* An incomplete stream is followed by an AbortRun.
AfterIncomplete == "abort"

Fetch(w) ==
    /\ handler[w] = "stream" /\ sent[w] < SliceOf(w, at[w]).count
    /\ \/ /\ RowsRange(w) # <<>>
          /\ fetched' = [fetched EXCEPT ![w] = RowsRange(w)]
          /\ Goes(w, "send")
          /\ UNCHANGED faults
       \/ /\ (RowsRange(w) = <<>> /\ UNCHANGED faults) \/ Fault
          /\ Goes(w, AfterIncomplete)
          /\ UNCHANGED fetched
    /\ UNCHANGED <<apiVars, runVars, at, sent, wireVars, workerVars>>

SendBatch(w) ==
    /\ handler[w] = "send"
    /\ Sends(w, Rows(at[w], fetched[w]))
    /\ Goes(w, IF open[w] THEN "stream" ELSE AfterIncomplete)
    /\ sent' = IF open[w] THEN [sent EXCEPT ![w] = @ + Len(fetched[w])] ELSE sent
    /\ fetched' = [fetched EXCEPT ![w] = <<>>]
    /\ UNCHANGED <<apiVars, runVars, at, open, report, workerVars, faults>>

SendAbort(w) ==
    /\ handler[w] = "abort"
    /\ Sends(w, Abort)
    /\ Goes(w, "read")
    /\ UNCHANGED <<apiVars, runVars, at, sent, fetched, open, report, workerVars,
                   faults>>

\* record_phase(Aborted) ends the run, without a word to the siblings.
RecordAborted(w) ==
    /\ handler[w] = "read" /\ report[w] = "aborted"
    /\ terminal' = TRUE
    /\ runRow' = IF terminal THEN runRow ELSE "aborted"
    /\ Goes(w, "over")
    /\ UNCHANGED <<apiVars, owed, at, sent, fetched, wireVars, workerVars, faults>>

\* worker_disconnected fails the run and tells the siblings.
Disconnected(w) ==
    /\ handler[w] = "read" /\ report[w] = "none" /\ ~open[w]
    /\ Goes(w, "over")
    /\ terminal' = TRUE
    /\ IF terminal THEN UNCHANGED <<runRow, owed>>
       ELSE /\ runRow' = IF runRow \in Active THEN "failed" ELSE runRow
            /\ owed' = owed \cup (Registered \ {w})
    /\ UNCHANGED <<apiVars, at, sent, fetched, wireVars, workerVars, faults>>

----------------------------------------------------------------------------
(***************************************************************************)
(* The worker, which reads what its forwarder hands on.                    *)
(***************************************************************************)

Received(w, m) == chan[w] # <<>> /\ Head(chan[w]) = m
Taken(w) == chan' = [chan EXCEPT ![w] = Tail(@)]

\* Cancelled: the status goes out before the sender is dropped.
ReportsAborted(w) ==
    /\ worker' = [worker EXCEPT ![w] = "ended"]
    /\ report' = [report EXCEPT ![w] = IF open[w] THEN "aborted" ELSE "none"]

Collected(w, b) ==
    worker' = [worker EXCEPT ![w] =
        IF Total([c \in BindingIds |-> Len(b[c])])
             >= Total([c \in BindingIds |-> SliceOf(w, c).count])
        THEN "running" ELSE "loading"]

\* connect_and_register takes an assignment, and nothing else.
GetAssignment(w) ==
    /\ worker[w] = "waiting" /\ chan[w] # <<>>
    /\ Taken(w)
    /\ IF Received(w, Assignment) THEN Collected(w, bucket[w])
       ELSE worker' = [worker EXCEPT ![w] = "ended"]
    /\ UNCHANGED <<apiVars, runVars, streamVars, open, report, bucket, faults>>

\* load_datasets takes a batch; with the last row the engine starts.
LoadBatch(w) ==
    /\ worker[w] = "loading" /\ chan[w] # <<>>
    /\ LET m == Head(chan[w])
           b == IF m.kind = "batch" THEN [bucket[w] EXCEPT ![m.binding] = @ \o m.rows]
                ELSE bucket[w]
       IN  /\ m # Abort
           /\ bucket' = [bucket EXCEPT ![w] = b]
           /\ Collected(w, b)
    /\ Taken(w)
    /\ UNCHANGED <<apiVars, runVars, streamVars, open, report, faults>>

\* load_datasets or, once the engine runs, abort_listener_loop.
GetAbort(w) ==
    /\ worker[w] \in {"loading", "running"} /\ Received(w, Abort)
    /\ Taken(w)
    /\ ReportsAborted(w)
    /\ UNCHANGED <<apiVars, runVars, streamVars, open, bucket, faults>>

\* The listener passes over what came late.
PassOver(w) ==
    /\ worker[w] = "running" /\ chan[w] # <<>> /\ ~Received(w, Abort)
    /\ Taken(w)
    /\ UNCHANGED <<apiVars, runVars, streamVars, open, report, workerVars, faults>>

\* The end of the stream: NoAssignment, DatasetIncomplete, or a cancelled run.
StreamEnds(w) ==
    /\ worker[w] \in {"waiting", "loading", "running"}
    /\ ~open[w] /\ chan[w] = <<>>
    /\ worker' = [worker EXCEPT ![w] = "ended"]
    /\ UNCHANGED <<apiVars, runVars, streamVars, wireVars, bucket, faults>>

\* SIGTERM cancels the loading, or the run.
Sigterm(w) ==
    /\ worker[w] \in {"loading", "running"} /\ Fault
    /\ ReportsAborted(w)
    /\ UNCHANGED <<apiVars, runVars, streamVars, chan, open, bucket>>

\* At the latest two seconds after its report the worker hangs up.
HangUp(w) ==
    /\ worker[w] = "ended"
    /\ worker' = [worker EXCEPT ![w] = "gone"]
    /\ open' = [open EXCEPT ![w] = FALSE]
    /\ chan' = [chan EXCEPT ![w] = <<>>]
    /\ UNCHANGED <<apiVars, runVars, streamVars, report, bucket, faults>>

\* A connection breaks: a part of what is on the way still arrives.
Break(w) ==
    /\ open[w] /\ handler[w] # "none" /\ Fault
    /\ open' = [open EXCEPT ![w] = FALSE]
    /\ \E n \in 0..Len(chan[w]) :
        chan' = [chan EXCEPT ![w] = SubSeq(@, 1, n)]
    /\ report' = [report EXCEPT ![w] = "none"]
    /\ UNCHANGED <<apiVars, runVars, streamVars, workerVars>>

----------------------------------------------------------------------------
HandlerMoves(w) ==
    \/ SendAssignment(w) \/ SetRunning(w) \/ NextBinding(w) \/ Fetch(w)
    \/ SendBatch(w) \/ SendAbort(w) \/ RecordAborted(w) \/ Disconnected(w)

WorkerMoves(w) ==
    \/ GetAssignment(w) \/ LoadBatch(w) \/ GetAbort(w) \/ PassOver(w)
    \/ StreamEnds(w) \/ HangUp(w)

Next ==
    \/ Validate \/ InsertRow \/ Enqueue \/ UserAbort \/ MarkAborted
    \/ \E b \in BindingIds : CheckUse(b) \/ DeleteDataset(b)
    \/ \E w \in Workers :
        \/ Register(w) \/ FanOutAbort(w) \/ HandlerMoves(w) \/ WorkerMoves(w)
        \/ Sigterm(w) \/ Break(w)

Spec == Init /\ [][Next]_vars

\* Every task is polled; nobody has to launch, abort, delete or fail.
Fairness ==
    \A w \in Workers :
        /\ WF_vars(HandlerMoves(w))
        /\ WF_vars(WorkerMoves(w))
        /\ WF_vars(FanOutAbort(w))

FairSpec == Spec /\ Fairness

----------------------------------------------------------------------------
(***************************************************************************)
(* An engine runs on exactly the rows its worker was promised, whatever    *)
(* came in between: of every binding the whole slice, in order, no row of  *)
(* another worker's, although load_datasets counts rows over all bindings  *)
(* and never looks at a single bucket.                                     *)
(***************************************************************************)
NoEngineOnPartialData ==
    \A w \in Workers : worker[w] = "running" =>
        \A b \in BindingIds :
            /\ bucket[w][b] = FullBucket(w, b)
            /\ Bindings[b].unique =>
                \A v \in Workers \ {w} :
                    ToSet(bucket[w][b]) \cap ToSet(bucket[v][b]) = {}

(***************************************************************************)
(* A worker does not wait for ever for rows: when its dataset is deleted   *)
(* under it, a read fails, the stream breaks or the run is aborted, it is  *)
(* told, although a handler that only dropped its sender would leave the   *)
(* stream open (stream_dataset's comment).                                 *)
(***************************************************************************)
LoadingEnds == \A w \in Workers : worker[w] = "loading" ~> worker[w] # "loading"
=============================================================================
