------------------------------- MODULE FanOut -------------------------------
(***************************************************************************)
(* What GET /v1/gateway/lan-discovery and GET /v1/gateway/components have  *)
(* in common, seen from outside: a request starts one task for each of a   *)
(* set of items, the tasks end in any order, each with or without a        *)
(* result, and the answer comes when the last one has ended.  LanScan and  *)
(* Components are shown to implement it.                                   *)
(***************************************************************************)
CONSTANT Items

VARIABLES
    phase,    \* "idle", "asked", "answered"
    pending,  \* the items whose task has not ended
    results   \* the items that have a result

vars == <<phase, pending, results>>

TypeOK ==
    /\ phase \in {"idle", "asked", "answered"}
    /\ pending \in SUBSET Items
    /\ results \in SUBSET Items

Init ==
    /\ phase = "idle"
    /\ pending = {}
    /\ results = {}

Ask ==
    /\ phase = "idle"
    /\ phase' = "asked"
    /\ pending' \in SUBSET Items
    /\ results' = {}

Deliver(i) ==
    /\ phase = "asked"
    /\ i \in pending \ results
    /\ results' = results \cup {i}
    /\ UNCHANGED <<phase, pending>>

End(i) ==
    /\ phase = "asked"
    /\ i \in pending
    /\ pending' = pending \ {i}
    /\ UNCHANGED <<phase, results>>

Answer ==
    /\ phase = "asked"
    /\ pending = {}
    /\ phase' = "answered"
    /\ UNCHANGED <<pending, results>>

(* The answer has been sent, or the process stops. *)
Forget ==
    /\ phase # "idle"
    /\ phase' = "idle"
    /\ pending' = {}
    /\ results' = {}

Next == Ask \/ Answer \/ Forget \/ \E i \in Items : Deliver(i) \/ End(i)

Fairness == WF_vars(Answer \/ \E i \in Items : End(i))

Safety == Init /\ [][Next]_vars

Spec == Safety /\ Fairness
=============================================================================
