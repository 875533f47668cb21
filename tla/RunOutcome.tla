---------------------------- MODULE RunOutcome ----------------------------
(***************************************************************************)
(* What the coordinator promises of one run, whatever the interleaving of  *)
(* its handlers: shards are handed out once each and only while the run    *)
(* has no outcome; the outcome is decided once; and it is "completed" only *)
(* when every shard was run to its end.  A run is "withdrawn" when its     *)
(* entry leaves memory undecided.                                          *)
(***************************************************************************)
CONSTANT Shards

VARIABLES
    outcome,   \* "none", "completed", "failed", "aborted" or "withdrawn"
    handed,    \* the shards handed to a worker
    finished   \* the shards whose worker ran to completion

vars == <<outcome, handed, finished>>

Init == outcome = "none" /\ handed = {} /\ finished = {}

HandOut(i) ==
    /\ outcome = "none"
    /\ i \notin handed
    /\ handed' = handed \cup {i}
    /\ UNCHANGED <<outcome, finished>>

Finish(i) ==
    /\ i \in handed \ finished
    /\ finished' = finished \cup {i}
    /\ UNCHANGED <<outcome, handed>>

Decide(result) ==
    /\ outcome = "none"
    /\ result = "completed" => finished = Shards
    /\ outcome' = result
    /\ UNCHANGED <<handed, finished>>

Next ==
    \/ \E i \in Shards : HandOut(i) \/ Finish(i)
    \/ \E result \in {"completed", "failed", "aborted", "withdrawn"} : Decide(result)

Spec == Init /\ [][Next]_vars
=============================================================================
