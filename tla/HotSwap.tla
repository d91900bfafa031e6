------------------------------ MODULE HotSwap ------------------------------
(***************************************************************************)
(* What the reload of the gateway promises of a listening server, seen     *)
(* from outside: make before break.  The server in use stops serving only  *)
(* when it is withdrawn, or once a successor serves that is published      *)
(* next; nothing but the whole process takes a successor away.  Any number *)
(* of swaps may be under way.  GatewayReload is shown to implement it, for *)
(* its HTTP server and for its HTTPS server.                               *)
(***************************************************************************)
CONSTANTS Servers, None

VARIABLES
    door,     \* the server in use
    serving,  \* the servers that accept requests and have not been retired
    ready     \* successors, in favour of which the server in use was retired

vars == <<door, serving, ready>>

TypeOK ==
    /\ door \in Servers \cup {None}
    /\ serving \in SUBSET Servers
    /\ ready \in SUBSET Servers

Init ==
    /\ door = None
    /\ serving = {}
    /\ ready = {}

Serve(s) ==
    /\ s \notin serving \cup {door}
    /\ serving' = serving \cup {s}
    /\ UNCHANGED <<door, ready>>

Succeed(s) ==
    /\ s \in serving \ ready
    /\ s # door
    /\ ready' = ready \cup {s}
    /\ serving' = serving \ {door}
    /\ UNCHANGED door

Publish(s) ==
    /\ s \in ready
    /\ door' = s
    /\ ready' = ready \ {s}
    /\ UNCHANGED serving

Withdraw ==
    /\ door' = None
    /\ serving' = serving \ {door}
    /\ UNCHANGED ready

Stop ==
    /\ door' = None
    /\ serving' = {}
    /\ ready' = {}

Next == Withdraw \/ Stop \/ \E s \in Servers : Serve(s) \/ Succeed(s) \/ Publish(s)

Spec == Init /\ [][Next]_vars

(* What a client sees: the server in use serves, or one that does is about *)
(* to replace it.                                                          *)
Served == door # None => door \in serving \/ ready \cap serving # {}
=============================================================================
