--------------------------- MODULE RouteRegistry ---------------------------
(***************************************************************************)
(* What the route table promises while registrations do not overlap: a map *)
(* that changes one entry at a time, a saved copy that is always a whole   *)
(* map that has been current, and a restart, which goes back to that copy  *)
(* and to nothing else.  RouteTable is shown to implement it.              *)
(***************************************************************************)
CONSTANTS Paths, Targets, NoTarget

VARIABLES
    current,  \* the routes in force
    saved     \* those a restart brings back

vars == <<current, saved>>

TypeOK ==
    /\ current \in [Paths -> Targets \cup {NoTarget}]
    /\ saved \in [Paths -> Targets \cup {NoTarget}]

Init ==
    /\ current = [p \in Paths |-> NoTarget]
    /\ saved = current

Put(p, x) ==
    /\ current' = [current EXCEPT ![p] = x]
    /\ UNCHANGED saved

Save ==
    /\ saved' = current
    /\ UNCHANGED current

Restart ==
    /\ current' = saved
    /\ UNCHANGED saved

Next == Save \/ Restart \/ \E p \in Paths, x \in Targets : Put(p, x)

Spec == Init /\ [][Next]_vars
=============================================================================
