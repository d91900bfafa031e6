---------------------------- MODULE MCLifecycle ----------------------------
(* Instances of Lifecycle for TLC: three own routes stand for the seven. *)
EXTENDS Lifecycle

ThreeRoutes == <<"port", "ssl", "ssl/ca">>
=============================================================================
