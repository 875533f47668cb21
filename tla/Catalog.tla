------------------------------ MODULE Catalog ------------------------------
(***************************************************************************)
(* The requests that read and then write the catalogue of scenarios, with  *)
(* the runs, presets and schedules that refer to them, the environments    *)
(* and the monitor boards: an editor's GET and PUT of a scenario, its      *)
(* deletion with all that refers to it, launches and saves, changes of     *)
(* environments and boards, and the import of a file of boards.            *)
(*                                                                         *)
(* SQLite in WAL mode: a transaction that begins with a read sees the      *)
(* database of that moment and cannot write once another has committed, or *)
(* while another writes; one that begins with BEGIN IMMEDIATE waits, and   *)
(* then keeps all other writers out.  A single statement waits, too.  To   *)
(* wait too long is to fail: Drop.  Foreign keys are enforced.             *)
(*                                                                         *)
(* A text is whoever wrote it; a name is the sequence of the numbers put   *)
(* after it, <<2>> for "name (2)".  Cutting long names is left out, and so *)
(* are panels: each board of a file uses all its scenarios and environments.*)
(***************************************************************************)
EXTENDS Naturals, FiniteSets, SequencesExt

CONSTANTS
    Clients,   \* requests, one from each client
    Asks,      \* what each of them may ask for
    Worlds,    \* what the database may hold to begin with
    Files      \* what a client may import

Nobody == 0

NoRows == [id \in {} |-> Nobody]
NoPlan == [scenarios |-> {}, environments |-> NoRows, boards |-> NoRows]

VARIABLES
    db,        \* scenarios, environments and boards by id, and references
    commits,   \* how many changes there were
    lock,      \* who holds the write lock over several statements
    file,      \* the file at hand
    request    \* of each client: kind, position, locals

vars == <<db, commits, lock, file, request>>

Kinds == {"edit", "delete", "launch", "preset", "schedule", "import", "rename"}

\* A world's references are to scenarios it has, and were there before all
\* else.  The ids of a file are distinct: validation sees to it (board_file.rs).
Admissible ==
    /\ Nobody \notin Clients
    /\ \A c \in Clients : Asks[c] \subseteq Kinds
    /\ \A world \in Worlds :
         /\ DOMAIN world = {"scenarios", "environments", "boards", "refs"}
         /\ \A id \in DOMAIN world.scenarios :
              /\ DOMAIN world.scenarios[id] = {"version", "text"}
              /\ world.scenarios[id].version \in Nat
         /\ IsFiniteSet(DOMAIN world.environments) /\ IsFiniteSet(DOMAIN world.boards)
         /\ world.refs \subseteq [by : {Nobody}, scenario : DOMAIN world.scenarios,
                                 active : BOOLEAN, kind : {"run", "preset", "schedule"},
                                 since : {0}]
    /\ \A f \in Files : \A rows \in {f.environments, f.boards} :
         /\ Len(rows) \in Nat /\ DOMAIN rows = 1..Len(rows)
         /\ \A i \in DOMAIN rows : rows[i].name \in Seq(Nat)
         /\ \A i, j \in DOMAIN rows : rows[i].id = rows[j].id => i = j

Fresh == [kind |-> "none", at |-> "idle", id |-> Nobody, force |-> FALSE,
          base |-> 0,                             \* the commit a transaction reads
          seen |-> [version |-> 0, text |-> Nobody], \* of an edit
          counted |-> {}, since |-> 0, gone |-> {},  \* of a deletion
          plan |-> NoPlan]                           \* of an import

Is(c, kind, at) == request[c].kind = kind /\ request[c].at = at

Move(c, at) == request' = [request EXCEPT ![c].at = at]

Scenario(c) == request[c].id
Exists(c)   == Scenario(c) \in DOMAIN db.scenarios
RefsTo(base, id) == {ref \in base.refs : ref.scenario = id}

\* A single statement waits while another holds the lock.
Unlocked == lock = Nobody

\* Mutant of CanUpgrade: what was read was read before the transaction.
CanWrite(c)   == Unlocked
CanUpgrade(c) == Unlocked /\ request[c].base = commits

Commit(new) == db' = new /\ commits' = commits + 1

Unchanged == UNCHANGED <<db, commits, lock, file>>

\* Rows with more of them: what @@ of TLC is, which the provers cannot expand.
With(new, rows) ==
    [id \in DOMAIN new \cup DOMAIN rows |-> IF id \in DOMAIN new THEN new[id] ELSE rows[id]]
Row(id, value) == [x \in {id} |-> value]

----------------------------------------------------------------------------
(***************************************************************************)
(* What a client may ask for.                                              *)
(***************************************************************************)
Ids == UNION {DOMAIN world.scenarios : world \in Worlds}
         \cup UNION {DOMAIN f.scenarios : f \in Files}

Ask(c) ==
    /\ request[c] = Fresh
    /\ \E kind \in Asks[c], id \in Ids, force \in BOOLEAN :
         /\ force => kind = "delete"
         /\ request' = [request EXCEPT
              ![c] = [Fresh EXCEPT !.kind = kind, !.at = "begin", !.id = id, !.force = force]]
    /\ Unchanged

\* The client leaves or the database fails: what was not committed is rolled
\* back.
Drop(c) ==
    /\ request[c].at \in {"begin", "seen", "presets", "schedules", "exists", "write"}
    /\ Move(c, "dropped")
    /\ lock' = IF lock = c THEN Nobody ELSE lock
    /\ UNCHANGED <<db, commits, file>>

\* A transaction that has read a database that is no more fails.
Busy(c) ==
    /\ Is(c, "edit", "write") \/ Is(c, "delete", "write")
    /\ ~CanUpgrade(c)
    /\ Move(c, "busy")
    /\ Unchanged

----------------------------------------------------------------------------
(***************************************************************************)
(* scenarios::update, after a GET.                                         *)
(***************************************************************************)
Get(c) ==
    /\ Is(c, "edit", "begin")
    /\ IF Exists(c)
         THEN request' = [request EXCEPT ![c].seen = db.scenarios[Scenario(c)], ![c].at = "seen"]
         ELSE Move(c, "not found")
    /\ Unchanged

UpdateReads(c) ==
    /\ Is(c, "edit", "seen")
    /\ IF ~Exists(c) THEN Move(c, "not found")
       ELSE IF db.scenarios[Scenario(c)].version # request[c].seen.version THEN Move(c, "stale")
       ELSE request' = [request EXCEPT ![c].base = commits, ![c].at = "write"]
    /\ Unchanged

UpdateWrites(c) ==
    /\ Is(c, "edit", "write") /\ CanUpgrade(c)
    /\ Commit([db EXCEPT !.scenarios[Scenario(c)] =
                 [version |-> request[c].seen.version + 1, text |-> c]])
    /\ Move(c, "updated")
    /\ UNCHANGED <<lock, file>>

----------------------------------------------------------------------------
(***************************************************************************)
(* DELETE of a scenario and delete_cascade.                                *)
(***************************************************************************)
Active(refs) == {ref \in refs : ref.active}
OfKind(refs, kind) == {ref \in refs : ref.kind = kind}

Counts(c, kind, next) ==
    LET counted == request[c].counted \cup OfKind(RefsTo(db, Scenario(c)), kind)
    IN  request' = [request EXCEPT ![c].counted = counted, ![c].at = next]

CountRuns(c) ==
    /\ Is(c, "delete", "begin")
    /\ IF ~Exists(c) THEN Move(c, "not found")
       ELSE IF Active(RefsTo(db, Scenario(c))) # {} THEN Move(c, "active")
       ELSE request' = [request EXCEPT
              ![c].counted = OfKind(RefsTo(db, Scenario(c)), "run"),
              ![c].since = commits, ![c].at = "presets"]
    /\ Unchanged

CountPresets(c) == Is(c, "delete", "presets") /\ Counts(c, "preset", "schedules") /\ Unchanged
CountSchedules(c) == Is(c, "delete", "schedules") /\ Counts(c, "schedule", "exists") /\ Unchanged

Forced(c) == request[c].force \/ request[c].counted = {}

\* Mutant of NothingActive: the handler has looked, the transaction does not.
NothingActiveBefore(c) == TRUE
NothingActive(c)       == Active(RefsTo(db, Scenario(c))) = {}

DeleteReads(c) ==
    /\ Is(c, "delete", "exists")
    /\ IF ~Forced(c) THEN Move(c, "referenced")
       ELSE IF ~NothingActive(c) THEN Move(c, "active")
       ELSE request' = [request EXCEPT ![c].base = commits, ![c].at = "write"]
    /\ Unchanged

DeleteWrites(c) ==
    LET id == Scenario(c) IN
    /\ Is(c, "delete", "write") /\ CanUpgrade(c)
    /\ Commit([db EXCEPT !.scenarios = Restrict(@, DOMAIN @ \ {id}),
                         !.refs = @ \ RefsTo(db, id)])
    /\ request' = [request EXCEPT ![c].gone = RefsTo(db, id), ![c].at = "deleted"]
    /\ UNCHANGED <<lock, file>>

----------------------------------------------------------------------------
(***************************************************************************)
(* What refers to a scenario.                                              *)
(***************************************************************************)
Refers(c) == request[c].kind \in {"launch", "preset", "schedule"}

\* create of runs, presets and schedules: the scenario is read, ...
ReadScenario(c) ==
    /\ Refers(c) /\ request[c].at = "begin"
    /\ Move(c, IF Exists(c) THEN "write" ELSE "not found")
    /\ Unchanged

\* ... and the row inserted, if the scenario is still there.
InsertRow(c) ==
    LET row == [by |-> c, scenario |-> Scenario(c), active |-> request[c].kind = "launch",
                kind |-> IF request[c].kind = "launch" THEN "run" ELSE request[c].kind,
                since |-> commits + 1]
    IN
    /\ Refers(c) /\ request[c].at = "write" /\ Unlocked
    /\ IF Exists(c)
         THEN Commit([db EXCEPT !.refs = @ \cup {row}]) /\ Move(c, "inserted")
         ELSE UNCHANGED <<db, commits>> /\ Move(c, "foreign key")
    /\ UNCHANGED <<lock, file>>

\* A run ends: its row is of the past.
RunEnds ==
    /\ Unlocked
    /\ \E ref \in Active(db.refs) :
         Commit([db EXCEPT !.refs = (@ \ {ref}) \cup {[ref EXCEPT !.active = FALSE]}])
    /\ UNCHANGED <<lock, file, request>>

----------------------------------------------------------------------------
(***************************************************************************)
(* Environments and boards, and the import of a file.                      *)
(***************************************************************************)
NamesOf(rows) == {rows[id].name : id \in DOMAIN rows}

\* One name more for an environment or a board, unless it is taken.
Rename(c) ==
    /\ Is(c, "rename", "begin") /\ Unlocked
    /\ \E name \in {<<>>, <<2>>} :
         \/ /\ name \notin NamesOf(db.environments)
            /\ Commit([db EXCEPT !.environments = With(Row(c, [name |-> name, vars |-> c]), @)])
         \/ /\ name \notin NamesOf(db.boards)
            /\ Commit([db EXCEPT !.boards = With(Row(c, [name |-> name]), @)])
    /\ Move(c, "renamed")
    /\ UNCHANGED <<lock, file>>

IdsOf(rows) == {row.id : row \in Range(rows)}
RowOf(rows, id) == CHOOSE row \in Range(rows) : row.id = id

\* analyze: what this PC has under the same id and is not the same.
Conflicts ==
    \/ DOMAIN db.boards \cap IdsOf(file.boards) # {}
    \/ \E id \in DOMAIN db.scenarios \cap DOMAIN file.scenarios :
         db.scenarios[id].text # file.scenarios[id].text
    \/ \E row \in Range(file.environments) :
         row.id \in DOMAIN db.environments /\ db.environments[row.id].vars # row.vars

unique_name(name, taken) ==
    IF name \notin taken THEN name
    ELSE LET free == {n \in 2..(Cardinality(taken) + 2) : Append(name, n) \notin taken}
         IN  Append(name, CHOOSE n \in free : \A m \in free : n <= m)

\* Mutant of Named: the names given out are not taken.
NamedApart(rows, here) ==
    [id \in IdsOf(rows) \ DOMAIN here |-> unique_name(RowOf(rows, id).name, NamesOf(here))]

\* One more name, unless the row is here.
AddName(here, names, row) ==
    IF row.id \in DOMAIN here THEN names
    ELSE With(Row(row.id, unique_name(row.name, NamesOf(here) \cup Range(names))), names)

\* The names of the rows that are added, in the order of the file.
Named(rows, here) ==
    FoldLeft(LAMBDA names, row : AddName(here, names, row), NoRows, rows)

plan_add ==
    [scenarios    |-> DOMAIN file.scenarios \ DOMAIN db.scenarios,
     environments |-> Named(file.environments, db.environments),
     boards       |-> Named(file.boards, db.boards)]

\* Mutant of Locks: BEGIN IMMEDIATE comes after the analysis.
LocksLater(c) == UNCHANGED lock
Locks(c)      == lock' = c

ImportReads(c) ==
    /\ Is(c, "import", "begin") /\ Unlocked
    /\ IF Conflicts
         THEN Move(c, "conflicts") /\ UNCHANGED lock
         ELSE /\ request' = [request EXCEPT ![c].plan = plan_add, ![c].at = "write"]
              /\ Locks(c)
    /\ UNCHANGED <<db, commits, file>>

\* The ids and the names of rows are unique in their tables.
Clashes(plan) ==
    \/ plan.scenarios \cap DOMAIN db.scenarios # {}
    \/ \E table \in {"environments", "boards"} :
         \/ DOMAIN plan[table] \cap DOMAIN db[table] # {}
         \/ Range(plan[table]) \cap NamesOf(db[table]) # {}
         \/ Cardinality(Range(plan[table])) # Cardinality(DOMAIN plan[table])

ImportWrites(c) ==
    LET plan == request[c].plan
        new  ==
          [db EXCEPT
            !.scenarios = With([id \in plan.scenarios |->
                                  [version |-> 1, text |-> file.scenarios[id].text]], @),
            !.environments = With([id \in DOMAIN plan.environments |->
                                     [name |-> plan.environments[id],
                                      vars |-> RowOf(file.environments, id).vars]], @),
            !.boards = With([id \in DOMAIN plan.boards |-> [name |-> plan.boards[id]]], @)]
    IN
    /\ Is(c, "import", "write") /\ lock \in {c, Nobody}
    /\ IF Clashes(plan) THEN Move(c, "clash") /\ UNCHANGED <<db, commits>>
                        ELSE Move(c, "imported") /\ Commit(new)
    /\ lock' = Nobody
    /\ UNCHANGED file

----------------------------------------------------------------------------
Init ==
    /\ db \in Worlds /\ file \in Files
    /\ commits = 0 /\ lock = Nobody
    /\ request = [c \in Clients |-> Fresh]

Next ==
    \/ \E c \in Clients :
         \/ Ask(c) \/ Drop(c) \/ Busy(c) \/ Get(c) \/ UpdateReads(c) \/ UpdateWrites(c)
         \/ CountRuns(c) \/ CountPresets(c) \/ CountSchedules(c) \/ DeleteReads(c)
         \/ DeleteWrites(c) \/ ReadScenario(c) \/ InsertRow(c) \/ Rename(c)
         \/ ImportReads(c) \/ ImportWrites(c)
    \/ RunEnds

Spec == Init /\ [][Next]_vars

----------------------------------------------------------------------------
TypeOK ==
    /\ lock \in Clients \cup {Nobody}
    /\ commits \in Nat
    /\ \A ref \in db.refs : ref.scenario \in DOMAIN db.scenarios
    /\ \A c \in Clients : request[c].kind \in Kinds \cup {"none"}

Happens(c, how) == request[c].at # how /\ request'[c].at = how

\* A PUT that is accepted replaces the text its client was shown: between two
\* editors of one scenario nothing is lost.  (A scenario that was deleted and
\* imported again begins with version 1 again; its PUTs are the exception.)
EditsReplaceWhatWasSeen ==
    [][\A c \in Clients :
         Happens(c, "updated") =>
           \/ db.scenarios[Scenario(c)].text = request[c].seen.text
           \/ \E d \in Clients : request[d].at = "imported"]_vars

\* A deletion never takes a run that is under way, and one without force
\* nothing that was there when it began to count.  (What is saved after that,
\* a preset or a run that is already over, it does take, unannounced.)
DeletionsAreAnnounced ==
    \A c \in Clients : \A ref \in request[c].gone :
        /\ ~ref.active
        /\ ~request[c].force => ref.since > request[c].since

\* An import is all or nothing: it fails by no uniqueness, adds every board of
\* the file, leaves every row there was as it is, and what the boards use is
\* then what it is in the file.
ImportsAreWhole ==
    [][\A c \in Clients :
         /\ ~Happens(c, "clash")
         /\ Happens(c, "imported") =>
              /\ \A relation \in {"scenarios", "environments", "boards"} :
                   \A id \in DOMAIN db[relation] : db'[relation][id] = db[relation][id]
              /\ IdsOf(file.boards) \subseteq DOMAIN db'.boards \ DOMAIN db.boards
              /\ \A id \in DOMAIN file.scenarios :
                   db'.scenarios[id].text = file.scenarios[id].text
              /\ \A row \in Range(file.environments) :
                   db'.environments[row.id].vars = row.vars]_vars
=============================================================================
