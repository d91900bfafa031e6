-------------------------- MODULE MCGatewayReload --------------------------
(* Instances of GatewayReload for TLC: the ports, the files a boot may     *)
(* find, and the requests that clients make.                               *)
EXTENDS GatewayReload, TLC

CONSTANTS h1, h2, main, p80, p81, p443, nil, noport

OneHandler  == {h1}
TwoHandlers == {h1, h2}
HandlerSymmetry == Permutations(TwoHandlers)

MCPorts     == {p80, p81, p443}
MCAutoPorts == <<p80, p81>>

File(port, enabled, sslPort, certType) ==
    [port |-> port, enabled |-> enabled, sslPort |-> sslPort, certType |-> certType]

(* A fresh installation, and one that has HTTPS on. *)
FreshFile == {DefaultSettings}
SSLFile   == {File(p80, TRUE, p443, "auto")}

NoInputs    == {}

OnePort     == {p81}
SwitchPorts == {p80, p81}
BlankOrMove == {p81, NoPort}

(* HTTPS off and on; on the port that HTTP may move to; with an uploaded   *)
(* pair.                                                                   *)
SSLOff      == File(NoPort, FALSE, p443, "auto")
SSLOn       == File(NoPort, TRUE, p443, "auto")
SSLOnHTTP   == File(NoPort, TRUE, p81, "auto")
SSLCustom   == File(NoPort, TRUE, p443, "custom")
OnlySSLOn   == {SSLOn}
ToggleSSL   == {SSLOff, SSLOn}
CustomSSL   == {SSLOn, SSLCustom}
MoveSSL     == {SSLOff, SSLCustom, SSLOnHTTP}
=============================================================================
