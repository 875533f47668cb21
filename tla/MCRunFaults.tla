--------------------------- MODULE MCRunFaults ---------------------------
(***************************************************************************)
(* Two families of faults in one exploration: workers whose connection     *)
(* breaks and who connect again, and a user's abort together with a worker *)
(* that dies.  The controller may restart in both.  A behaviour is         *)
(* followed while its faults are of one family.                            *)
(***************************************************************************)
EXTENDS MCRunCoordination

Reconnects == user = "idle" /\ crashes = 0
Aborts     == drops = 0 /\ \A w \in Workers : session[w] <= 1

OneFamilyOfFaults == Reconnects \/ Aborts
=============================================================================
