---------------------------- MODULE MCComponents ----------------------------
(* An instance of Components for TLC: one component with a route, one without. *)
EXTENDS MCRouteTable, Components

OneOfEach    == <<"route", "other">>
VersionPaths == [i \in 1 .. 2 |-> <<1, 2, 3>>]
=============================================================================
