-------------------------- MODULE SwapReload_proofs --------------------------
(***************************************************************************)
(* Proofs that the reload of GatewayReload swaps its servers make before   *)
(* break, as HotSwap says: the HTTP server however requests, boot and      *)
(* crashes interleave; the HTTPS server whenever a server that does not    *)
(* load its pair cannot be published, above all if every pair loads        *)
(* (PairsLoad).                                                            *)
(***************************************************************************)
EXTENDS GatewayReload_proofs

-----------------------------------------------------------------------------
(* What the steps leave alone                                              *)

ReloadLabels == {"reload", "cert", "listenTLS"} \cup SwapLabels

LEMMA MainThread == Main \in Threads /\ \A h \in Handlers : h \in Threads /\ h # Main
BY ThreadAssumption DEF Threads

(* What a step of a reload changes besides the servers. *)
LEMMA ReloadMoves ==
    ASSUME TypeOK, NEW t \in Threads, ReloadHTTP(t) \/ ReloadHTTPS(t)
    PROVE  /\ up /\ UNCHANGED <<up, hooked>>
           /\ pc[t] \in ReloadLabels
           /\ UNCHANGED <<settingsVars, req, round, answer>>
           /\ \E label \in ReloadLabels \cup {"idle", "writeConfig", "failed", "panicked"} :
                 /\ pc' = [pc EXCEPT ![t] = label]
                 /\ label = "idle" => req[t].kind = "boot"
<1> USE DEF At, Goto, Reloaded, ReloadLabels, SwapLabels, HTTPLabels
<1>0. CASE StopHTTP(t) \/ KeepHTTP(t) \/ StartHTTP(t) \/ ListenFailsHTTP(t)
  BY <1>0 DEF StopHTTP, KeepHTTP, StartHTTP, ListenFailsHTTP
<1>1. CASE ProbeHTTP(t) \/ ProbePanics(t) \/ RetireHTTP(t) \/ PublishHTTP(t)
  BY <1>1 DEF ProbeHTTP, ProbePanics, RetireHTTP, PublishHTTP
<1>2. CASE StopHTTPS(t) \/ KeepHTTPS(t) \/ PublishHTTPS(t)
  BY <1>2 DEF StopHTTPS, KeepHTTPS, PublishHTTPS
<1>3. CASE EnsureCert(t) \/ EnsureCertFails(t) \/ StartHTTPS(t) \/ ListenFailsHTTPS(t)
  BY <1>3 DEF EnsureCert, EnsureCertFails, StartHTTPS, ListenFailsHTTPS
<1>4. CASE ProbeHTTPS(t) \/ RetireHTTPS(t)
  BY <1>4 DEF ProbeHTTPS, RetireHTTPS
<1>5. CASE ProbeRetryHTTPS(t)
  <2>1. pc' = [pc EXCEPT ![t] = "httpsProbe"]
    BY <1>5 DEF ProbeRetryHTTPS, TypeOK
  <2>2. QED
    BY <1>5, <2>1 DEF ProbeRetryHTTPS
<1>6. QED
  BY <1>0, <1>1, <1>2, <1>3, <1>4, <1>5 DEF ReloadHTTP, ReloadHTTPS

(* What a step of a server, or of the world, leaves alone. *)
LEMMA ServerMoves ==
    ASSUME NEW s \in Servers, ServerStep(s) \/ CollectListener(s)
    PROVE  UNCHANGED <<up, hooked, settingsVars, pair, threadVars, slotVars, worldVars, answer>>
BY DEF ServerStep, ServeHTTP, ServeTLS, Shutdown, CollectListener

LEMMA WorldMoves ==
    ASSUME NEW p \in Ports, Occupy(p) \/ Release(p)
    PROVE  UNCHANGED <<up, hooked, settingsVars, pair, threadVars, serverVars, slotVars, answer>>
BY DEF Occupy, Release

(* The cases of Next that the proofs below distinguish. *)
LEMMA NextCases ==
    ASSUME Next
    PROVE  \/ Halt
           \/ \E t \in Threads :
                 \/ SettingStep(t)
                 \/ t \in Handlers /\ (HandlerRequest(t) \/ HandlerStep(t))
                 \/ t = Main /\ (ChoosePort \/ UseConfiguredPort \/ HookReload \/ Boot)
           \/ \E t \in Threads : ReloadHTTP(t) \/ ReloadHTTPS(t)
           \/ \E s \in Servers : ServerStep(s) \/ CollectListener(s)
           \/ \E p \in Ports : Occupy(p) \/ Release(p)
BY MainThread DEF Next, Crash, BootFails, MainStep, ThreadStep

(* A stopped process has no threads. *)
StoppedIdle == \A t \in Threads : pc[t] # "idle" => up

(* What a step does to threads and servers, if it is none of those that    *)
(* change a server or a global.                                            *)
SwapStep(t) ==
    \/ StartHTTP(t) \/ ProbeHTTP(t) \/ ProbePanics(t) \/ RetireHTTP(t) \/ PublishHTTP(t)
    \/ StartHTTPS(t) \/ ProbeHTTPS(t) \/ RetireHTTPS(t) \/ PublishHTTPS(t)
    \/ StopHTTP(t) \/ StopHTTPS(t)

Moves(t) ==
    /\ pc[t] \notin SwapLabels
    /\ \E label \in Labels \ SwapLabels : pc' = [pc EXCEPT ![t] = label]
    /\ UNCHANGED <<fresh, serverVars, slotVars>>

LEMMA Shapes ==
    ASSUME TypeOK, StoppedIdle, Next
    PROVE  \/ Halt
           \/ up' /\ \E t \in Threads : Moves(t)
           \/ UNCHANGED <<up, pc, fresh, serverVars, slotVars>>
           \/ up' /\ \E t \in Threads : SwapStep(t)
           \/ up' = up /\ \E s \in Servers : ServerStep(s) \/ CollectListener(s)
<1> USE DEF At, Goto, Labels, SwapLabels, HTTPLabels, Moves
<1>1. ASSUME NEW t \in Threads, SettingStep(t) PROVE up' /\ Moves(t)
  BY <1>1 DEF SettingStep, PortWriter, SetSSL, ConfigWriter, Notify, WriteFails, Ends
<1>2. ASSUME NEW h \in Handlers, HandlerRequest(h) \/ HandlerStep(h)
      PROVE  h \in Threads /\ up' /\ Moves(h)
  <2>1. CASE HandlerRequest(h)
    BY <2>1, MainThread DEF HandlerRequest, PutPort, PutSSL, UploadCert, Receive, MayRequest
  <2>2. CASE HandlerStep(h)
    BY <2>2, MainThread DEF HandlerStep, UploadRejected, UploadAccepted, Refuse, Unwind, Ends
  <2>3. QED
    BY <1>2, <2>1, <2>2
<1>3. ASSUME ChoosePort \/ UseConfiguredPort \/ HookReload \/ Boot
      PROVE  Main \in Threads /\ up' /\ Moves(Main)
  BY <1>3, MainThread DEF ChoosePort, UseConfiguredPort, HookReload, Boot, StoppedIdle
<1>4. ASSUME NEW t \in Threads, ReloadHTTP(t) \/ ReloadHTTPS(t)
      PROVE  up' /\ (\/ Moves(t) \/ SwapStep(t)
                     \/ UNCHANGED <<up, pc, fresh, serverVars, slotVars>>)
  <2>1. up' /\ up
    BY <1>4, ReloadMoves
  <2>2. CASE \/ KeepHTTP(t) \/ ListenFailsHTTP(t) \/ EnsureCert(t) \/ EnsureCertFails(t)
             \/ KeepHTTPS(t) \/ ListenFailsHTTPS(t)
    BY <2>1, <2>2 DEF KeepHTTP, ListenFailsHTTP, EnsureCert, EnsureCertFails, KeepHTTPS,
                      ListenFailsHTTPS, Reloaded
  <2>3. CASE ProbeRetryHTTPS(t)
    BY <2>1, <2>3 DEF ProbeRetryHTTPS
  <2>4. QED
    BY <1>4, <2>1, <2>2, <2>3 DEF ReloadHTTP, ReloadHTTPS, SwapStep
<1>5. ASSUME NEW p \in Ports, Occupy(p) \/ Release(p)
      PROVE  UNCHANGED <<up, pc, fresh, serverVars, slotVars>>
  BY <1>5, WorldMoves DEF threadVars
<1>6. ASSUME NEW s \in Servers, ServerStep(s) \/ CollectListener(s) PROVE up' = up
  BY <1>6, ServerMoves
<1>7. QED
  BY <1>1, <1>2, <1>3, <1>4, <1>5, <1>6, NextCases

LEMMA StoppedInit == Init => StoppedIdle
BY DEF Init, StoppedIdle

LEMMA StoppedNext == TypeOK /\ StoppedIdle /\ [Next]_vars => StoppedIdle'
<1> SUFFICES ASSUME TypeOK, StoppedIdle, [Next]_vars PROVE StoppedIdle'
  OBVIOUS
<1>1. CASE up' \/ Halt \/ UNCHANGED <<up, pc>>
  BY <1>1 DEF StoppedIdle, Halt
<1>2. ASSUME NEW s \in Servers, ServerStep(s) \/ CollectListener(s) PROVE StoppedIdle'
  BY <1>2, ServerMoves DEF threadVars, StoppedIdle
<1>3. QED
  BY <1>1, <1>2, Shapes DEF vars, threadVars

-----------------------------------------------------------------------------
(* The swap                                                                *)

HTTPServing == ServingServers(FALSE)
TLSServing  == ServingServers(TRUE)
HTTPReady   == FreshAt("httpPublish")
TLSReady    == FreshAt("httpsPublish")

(* No server is published that has not loaded its pair: what an answer to  *)
(* the HTTPS probe does not imply by itself.                               *)
FreshServes ==
    \A t \in Threads :
        pc[t] \in {"httpsRetire", "httpsPublish"} => status[fresh[t]] = "serving"

(* Steps that no swap sees *)
LEMMA SwapUnseen ==
    ASSUME \A s \in Servers : /\ status'[s] = "serving" <=> status[s] = "serving"
                              /\ status[s] = "serving" => cert'[s] = cert[s],
           \A t \in Threads : \A label \in {"httpPublish", "httpsPublish"} :
              /\ pc'[t] = label <=> pc[t] = label
              /\ pc[t] = label => fresh'[t] = fresh[t]
    PROVE  UNCHANGED <<HTTPServing, TLSServing, HTTPReady, TLSReady>>
<1>1. \A secure \in BOOLEAN : ServingServers(secure)' = ServingServers(secure)
  BY DEF ServingServers
<1>2. \A label \in {"httpPublish", "httpsPublish"} : FreshAt(label)' = FreshAt(label)
  BY DEF FreshAt
<1>3. QED
  BY <1>1, <1>2 DEF HTTPServing, TLSServing, HTTPReady, TLSReady

(* A retired server leaves those that serve, and only it does. *)
LEMMA SwapRetired ==
    ASSUME HandoverInv, NEW g \in {gateway, sslGateway}, status' = Retired(g), cert' = cert
    PROVE  /\ g = gateway => HTTPServing' = HTTPServing \ {g} /\ TLSServing' = TLSServing
           /\ g = sslGateway => TLSServing' = TLSServing \ {g} /\ HTTPServing' = HTTPServing
<1>1. \A s \in Servers : s # g => status'[s] = status[s]
  BY RetiredSpares
<1>2. g \in Servers => status'[g] # "serving"
  BY ServerAssumption DEF Retired, Accepting, HandoverInv, TypeOK
<1>3. /\ gateway \in Servers => cert[gateway] = "plain"
      /\ sslGateway \in Servers => cert[sslGateway] # "plain"
  BY ServerAssumption DEF HandoverInv, SlotsApart
<1>4. QED
  BY <1>1, <1>2, <1>3 DEF HTTPServing, TLSServing, ServingServers

(* The steps of HotSwap, on the values before and after of the server in   *)
(* use, of those that serve, and of the successors that are ready.         *)
Swaps(d, e, S, S1, R, R1) ==
    \/ e = d /\ S1 = S /\ R1 = R
    \/ \E s \in Servers : s \notin S \cup {d} /\ S1 = S \cup {s} /\ e = d /\ R1 = R
    \/ \E s \in Servers : /\ s \in S \ R /\ s # d
                          /\ R1 = R \cup {s} /\ S1 = S \ {d} /\ e = d
    \/ \E s \in Servers : s \in R /\ e = s /\ R1 = R \ {s} /\ S1 = S
    \/ e = NoServer /\ S1 = S \ {d} /\ R1 = R
    \/ e = NoServer /\ S1 = {} /\ R1 = {}

HTTPSwaps == Swaps(gateway, gateway', HTTPServing, HTTPServing', HTTPReady, HTTPReady')
TLSSwaps  == Swaps(sslGateway, sslGateway', TLSServing, TLSServing', TLSReady, TLSReady')

LEMMA SwapForms ==
    /\ HTTPSwaps => [HTTPSwap!Next]_(HTTPSwap!vars)
    /\ TLSSwaps => [TLSSwap!Next]_(TLSSwap!vars)
<1>1. HTTPSwaps => [HTTPSwap!Next]_(HTTPSwap!vars)
  BY DEF HTTPSwaps, Swaps, HTTPServing, HTTPReady, HTTPSwap!Next, HTTPSwap!vars,
         HTTPSwap!Serve, HTTPSwap!Succeed, HTTPSwap!Publish, HTTPSwap!Withdraw, HTTPSwap!Stop
<1>2. TLSSwaps => [TLSSwap!Next]_(TLSSwap!vars)
  BY DEF TLSSwaps, Swaps, TLSServing, TLSReady, TLSSwap!Next, TLSSwap!vars,
         TLSSwap!Serve, TLSSwap!Succeed, TLSSwap!Publish, TLSSwap!Withdraw, TLSSwap!Stop
<1>3. QED
  BY <1>1, <1>2

(* The goroutine of a server makes it serve, or closes one that does not.  *)
LEMMA SwapServe ==
    ASSUME HandoverInv, NEW s \in Servers, ServerStep(s) \/ CollectListener(s)
    PROVE  HTTPSwaps /\ (SSLDoorOpen => TLSSwaps)
<1> USE DEF HandoverInv, TypeOK
<1>1. UNCHANGED <<pc, fresh, gateway, sslGateway>>
  BY ServerMoves DEF threadVars, slotVars
<1>2. UNCHANGED <<HTTPReady, TLSReady>>
  BY <1>1 DEF HTTPReady, TLSReady, FreshAt
<1>3. \A x \in Servers : x # s => status'[x] = status[x] /\ cert'[x] = cert[x]
  BY DEF ServerStep, ServeHTTP, ServeTLS, Shutdown, CollectListener
<1>4. CASE status'[s] # "serving" /\ status[s] # "serving"
  BY <1>1, <1>3, <1>4, SwapUnseen DEF HTTPSwaps, TLSSwaps, Swaps
<1>5. CASE ServeHTTP(s)
  <2>1. status[s] = "bound" /\ status'[s] = "serving" /\ cert'[s] = "plain"
    BY <1>5 DEF ServeHTTP
  <2>2. /\ HTTPServing' = HTTPServing \cup {s} /\ TLSServing' = TLSServing
        /\ s \notin HTTPServing \cup {gateway}
    BY <1>3, <2>1, ServerAssumption
       DEF HTTPServing, TLSServing, ServingServers, FrontDoorOpen, Retiring
  <2>3. QED
    BY <1>1, <1>2, <2>2 DEF HTTPSwaps, TLSSwaps, Swaps
<1>6. CASE ServeTLS(s) /\ status'[s] = "serving"
  <2>1. status[s] = "bound" /\ cert[s] = "none" /\ cert'[s] # "plain"
    BY <1>6 DEF ServeTLS
  <2>2. /\ TLSServing' = TLSServing \cup {s} /\ HTTPServing' = HTTPServing
        /\ SSLDoorOpen => s \notin TLSServing \cup {sslGateway}
    BY <1>3, <1>6, <2>1, ServerAssumption
       DEF HTTPServing, TLSServing, ServingServers, SSLDoorOpen, Retiring
  <2>3. QED
    BY <1>1, <1>2, <2>2 DEF HTTPSwaps, TLSSwaps, Swaps
<1>7. QED
  BY <1>4, <1>5, <1>6 DEF ServerStep, ServeTLS, Shutdown, CollectListener

(* The thread that swaps: it starts a server, retires the one in use when  *)
(* its own serves, and publishes its own.                                  *)
LEMMA SwapThreads ==
    ASSUME HandoverInv, NEW t \in Threads, SwapStep(t)
    PROVE  HTTPSwaps /\ (FreshServes => TLSSwaps)
<1> USE DEF HandoverInv, TypeOK, At, Goto, Reloaded, SwapLabels, HTTPLabels
<1>0. \A u, v \in Threads : fresh[u] = fresh[v] /\ fresh[u] # NoServer => u = v
  BY DEF FreshOwned
<1>1. CASE StartHTTP(t) \/ StartHTTPS(t)
  <2>1. PICK s \in Servers, p \in PortText, c \in {"plain", "none"} : Started(t, s, p, c)
    BY <1>1 DEF StartHTTP, StartHTTPS, Settings
  <2>2. /\ UNCHANGED <<gateway, sslGateway>>
        /\ pc[t] \in {"reload", "listenTLS"}
        /\ \E label \in {"httpProbe", "httpsProbe"} : pc' = [pc EXCEPT ![t] = label]
    BY <1>1 DEF StartHTTP, StartHTTPS, slotVars
  <2>3. /\ status[s] = "closed" /\ status' = [status EXCEPT ![s] = "bound"]
        /\ cert' = [cert EXCEPT ![s] = c] /\ fresh' = [fresh EXCEPT ![t] = s]
    BY <2>1 DEF Started, NextServer, FreeServers
  <2>4. QED
    BY <2>2, <2>3, SwapUnseen DEF HTTPSwaps, TLSSwaps, Swaps
<1>2. CASE ProbeHTTP(t) \/ ProbePanics(t) \/ ProbeHTTPS(t)
  <2>1. /\ UNCHANGED <<status, cert, gateway, sslGateway>>
        /\ pc[t] \in {"httpProbe", "httpsProbe"}
        /\ \E label \in {"httpRetire", "httpsRetire", "panicked"} : pc' = [pc EXCEPT ![t] = label]
        /\ \A u \in Threads : u # t => fresh'[u] = fresh[u]
    BY <1>2 DEF ProbeHTTP, ProbePanics, ProbeHTTPS, serverVars, slotVars
  <2>2. QED
    BY <2>1, SwapUnseen DEF HTTPSwaps, TLSSwaps, Swaps
<1>3. CASE RetireHTTP(t)
  <2>1. /\ pc[t] = "httpRetire" /\ pc' = [pc EXCEPT ![t] = "httpPublish"]
        /\ status' = Retired(gateway) /\ UNCHANGED <<cert, fresh, gateway, sslGateway>>
    BY <1>3 DEF RetireHTTP, slotVars
  <2>2. HTTPServing' = HTTPServing \ {gateway} /\ TLSServing' = TLSServing
    BY <2>1, SwapRetired
  <2>3. fresh[t] \in HTTPServing /\ fresh[t] # gateway
    BY <2>1, ServerAssumption DEF HTTPHandover, HTTPServing, ServingServers, FreshOwned
  <2>4. /\ HTTPReady' = HTTPReady \cup {fresh[t]} /\ TLSReady' = TLSReady
        /\ fresh[t] \notin HTTPReady
    <3>1. \A u \in Threads : pc[u] = "httpPublish" => fresh[u] # fresh[t]
      BY <1>0, <2>1, <2>3, ServerAssumption DEF HTTPServing, ServingServers
    <3>2. QED
      BY <2>1, <3>1 DEF HTTPReady, TLSReady, FreshAt
  <2>5. fresh[t] \in Servers
    BY <2>3 DEF HTTPServing, ServingServers
  <2>6. QED
    BY <2>1, <2>2, <2>3, <2>4, <2>5 DEF HTTPSwaps, TLSSwaps, Swaps
<1>4. CASE RetireHTTPS(t)
  <2>1. /\ pc[t] = "httpsRetire" /\ pc' = [pc EXCEPT ![t] = "httpsPublish"]
        /\ status' = Retired(sslGateway) /\ UNCHANGED <<cert, fresh, gateway, sslGateway>>
    BY <1>4 DEF RetireHTTPS, slotVars
  <2>2. TLSServing' = TLSServing \ {sslGateway} /\ HTTPServing' = HTTPServing
    BY <2>1, SwapRetired
  <2>3. /\ fresh[t] \in Servers /\ fresh[t] # sslGateway
        /\ FreshServes => fresh[t] \in TLSServing
    BY <2>1, ServerAssumption
       DEF HTTPSHandover, TLSServing, ServingServers, FreshOwned, FreshServes
  <2>4. /\ TLSReady' = TLSReady \cup {fresh[t]} /\ HTTPReady' = HTTPReady
        /\ fresh[t] \notin TLSReady
    <3>1. \A u \in Threads : pc[u] = "httpsPublish" => fresh[u] # fresh[t]
      BY <1>0, <2>1, <2>3, ServerAssumption
    <3>2. QED
      BY <2>1, <3>1 DEF HTTPReady, TLSReady, FreshAt
  <2>5. QED
    BY <2>1, <2>2, <2>3, <2>4 DEF HTTPSwaps, TLSSwaps, Swaps
<1>5. CASE PublishHTTP(t)
  <2>1. /\ pc[t] = "httpPublish" /\ pc' = [pc EXCEPT ![t] = "cert"]
        /\ gateway' = fresh[t] /\ fresh' = [fresh EXCEPT ![t] = NoServer]
        /\ UNCHANGED <<status, cert, sslGateway>>
    BY <1>5 DEF PublishHTTP, serverVars
  <2>2. fresh[t] \in HTTPReady /\ fresh[t] \in Servers /\ fresh[t] # NoServer
    BY <2>1, ServerAssumption DEF HTTPReady, FreshAt, HTTPHandover
  <2>3. HTTPReady' = HTTPReady \ {fresh[t]} /\ TLSReady' = TLSReady
    <3>1. \A u \in Threads : u # t => fresh[u] # fresh[t] /\ fresh'[u] = fresh[u]
      BY <1>0, <2>1, <2>2
    <3>2. QED
      BY <2>1, <3>1 DEF HTTPReady, TLSReady, FreshAt
  <2>4. UNCHANGED <<HTTPServing, TLSServing>>
    BY <2>1 DEF HTTPServing, TLSServing, ServingServers
  <2>5. QED
    BY <2>1, <2>2, <2>3, <2>4 DEF HTTPSwaps, TLSSwaps, Swaps
<1>6. CASE PublishHTTPS(t)
  <2>1. /\ pc[t] = "httpsPublish"
        /\ \E label \in {"idle", "writeConfig"} : pc' = [pc EXCEPT ![t] = label]
        /\ sslGateway' = fresh[t] /\ fresh' = [fresh EXCEPT ![t] = NoServer]
        /\ UNCHANGED <<status, cert, gateway>>
    BY <1>6 DEF PublishHTTPS, serverVars
  <2>2. fresh[t] \in TLSReady /\ fresh[t] \in Servers /\ fresh[t] # NoServer
    BY <2>1, ServerAssumption DEF TLSReady, FreshAt, HTTPSHandover
  <2>3. TLSReady' = TLSReady \ {fresh[t]} /\ HTTPReady' = HTTPReady
    <3>1. \A u \in Threads : u # t => fresh[u] # fresh[t] /\ fresh'[u] = fresh[u]
      BY <1>0, <2>1, <2>2
    <3>2. QED
      BY <2>1, <3>1 DEF HTTPReady, TLSReady, FreshAt
  <2>4. UNCHANGED <<HTTPServing, TLSServing>>
    BY <2>1 DEF HTTPServing, TLSServing, ServingServers
  <2>5. QED
    BY <2>1, <2>2, <2>3, <2>4 DEF HTTPSwaps, TLSSwaps, Swaps
<1>7. CASE StopHTTP(t) \/ StopHTTPS(t)
  <2>1. /\ pc[t] \in {"reload", "cert"}
        /\ \E label \in {"cert", "idle", "writeConfig"} : pc' = [pc EXCEPT ![t] = label]
        /\ UNCHANGED <<cert, fresh>>
    BY <1>7 DEF StopHTTP, StopHTTPS
  <2>2. UNCHANGED <<HTTPReady, TLSReady>>
    BY <2>1 DEF HTTPReady, TLSReady, FreshAt
  <2>3. CASE StopHTTP(t)
    <3>1. status' = Retired(gateway) /\ gateway' = NoServer /\ UNCHANGED sslGateway
      BY <2>3 DEF StopHTTP
    <3>2. HTTPServing' = HTTPServing \ {gateway} /\ TLSServing' = TLSServing
      BY <2>1, <3>1, SwapRetired
    <3>3. QED
      BY <2>2, <3>1, <3>2 DEF HTTPSwaps, TLSSwaps, Swaps
  <2>4. CASE StopHTTPS(t)
    <3>1. status' = Retired(sslGateway) /\ sslGateway' = NoServer /\ UNCHANGED gateway
      BY <2>4 DEF StopHTTPS
    <3>2. TLSServing' = TLSServing \ {sslGateway} /\ HTTPServing' = HTTPServing
      BY <2>1, <3>1, SwapRetired
    <3>3. QED
      BY <2>2, <3>1, <3>2 DEF HTTPSwaps, TLSSwaps, Swaps
  <2>5. QED
    BY <1>7, <2>3, <2>4
<1>8. QED
  BY <1>1, <1>2, <1>3, <1>4, <1>5, <1>6, <1>7 DEF SwapStep

LEMMA SwapNext ==
    ASSUME HandoverInv, StoppedIdle, [Next]_vars
    PROVE  HTTPSwaps /\ (SSLDoorOpen /\ FreshServes => TLSSwaps)
<1> USE DEF HandoverInv, TypeOK
<1>1. CASE Halt
  <2>1. gateway' = NoServer /\ sslGateway' = NoServer
    BY <1>1 DEF Halt
  <2>2. HTTPServing' = {} /\ TLSServing' = {}
    BY <1>1 DEF Halt, HTTPServing, TLSServing, ServingServers
  <2>3. HTTPReady' = {} /\ TLSReady' = {}
    BY <1>1 DEF Halt, HTTPReady, TLSReady, FreshAt
  <2>4. QED
    BY <2>1, <2>2, <2>3 DEF HTTPSwaps, TLSSwaps, Swaps
<1>2. CASE UNCHANGED <<pc, fresh, serverVars, slotVars>>
  BY <1>2, SwapUnseen DEF HTTPSwaps, TLSSwaps, Swaps, serverVars, slotVars
<1>3. ASSUME NEW t \in Threads, Moves(t) PROVE HTTPSwaps /\ TLSSwaps
  <2>1. \A u \in Threads : \A label \in {"httpPublish", "httpsPublish"} :
           pc'[u] = label <=> pc[u] = label
    BY <1>3 DEF Moves, SwapLabels, HTTPLabels
  <2>2. QED
    BY <1>3, <2>1, SwapUnseen DEF Moves, HTTPSwaps, TLSSwaps, Swaps, serverVars, slotVars
<1>4. QED
  BY <1>1, <1>2, <1>3, Shapes, SwapThreads, SwapServe DEF vars, threadVars

(* The HTTP server is swapped make before break: its successor serves when *)
(* it is retired, and is published, however requests, boot and crashes     *)
(* interleave (main.go:504-522).                                           *)
THEOREM HTTPHotSwap == Spec => HTTPSwap!Spec
<1>1. Init => HTTPSwap!Init
  BY DEF Init, HTTPSwap!Init, ServingServers, FreshAt
<1>2. HandoverInv /\ StoppedIdle /\ [Next]_vars => [HTTPSwap!Next]_(HTTPSwap!vars)
  BY SwapNext, SwapForms
<1>3. HandoverInv => TypeOK
  BY DEF HandoverInv
<1>4. QED
  BY <1>1, <1>2, <1>3, HandoverInit, HandoverNext, StoppedInit, StoppedNext, PTL
     DEF Spec, HTTPSwap!Spec

-----------------------------------------------------------------------------
(* The HTTPS server when requests overlap and every pair loads             *)

(* All settings ask for the generated pair, nothing is uploaded, and a     *)
(* generation does not fail.                                               *)
PairsLoad ==
    /\ Uploads = {}
    /\ "cert" \notin Faults
    /\ \A f \in InitialFiles \cup SSLRequests : f.certType = "auto"

AutoSettings ==
    /\ mem.certType = "auto" /\ cfg.certType = "auto" /\ file.certType = "auto"
    /\ \A t \in Threads : req[t].want.certType = "auto"

(* A server that is bound finds a pair, from the moment its thread has     *)
(* made sure of it.                                                        *)
PairThere ==
    /\ pair \in {"none", "auto"}
    /\ \A t \in Threads : pc[t] = "listenTLS" => pair = "auto"
    /\ \A s \in Servers : /\ status[s] # "dead"
                          /\ status[s] = "bound" /\ cert[s] = "none" => pair = "auto"

(* So the server of a thread that swaps serves when the probe is answered. *)
TLSHandover ==
    \A t \in Threads :
        pc[t] \in {"httpsProbe", "httpsRetire", "httpsPublish"} =>
            /\ status[fresh[t]] \in {"bound", "serving"}
            /\ pc[t] # "httpsProbe" => status[fresh[t]] = "serving"

SecureInv == AutoSettings /\ PairThere /\ TLSHandover /\ SSLDoorOpen

LEMMA SecureInit == PairsLoad /\ Init => SecureInv
BY DEF Init, PairsLoad, DefaultSettings, NoRequest, SecureInv, AutoSettings, PairThere,
       TLSHandover, SSLDoorOpen

(* The settings and the requests stay automatic. *)
LEMMA AutoNext ==
    ASSUME PairsLoad, TypeOK, AutoSettings, [Next]_vars
    PROVE  AutoSettings'
<1> USE DEF TypeOK, AutoSettings, Settings
<1> DefaultSettings.certType = "auto"
  BY DEF DefaultSettings
<1>1. CASE UNCHANGED vars
  BY <1>1 DEF vars, settingsVars, threadVars
<1>2. CASE Crash \/ BootFails
  <2>1. file' \in {file, DefaultSettings} /\ mem' = DefaultSettings /\ cfg' = DefaultSettings
    BY <1>2 DEF Crash, BootFails, Halt
  <2>2. \A t \in Threads : req'[t].want = DefaultSettings
    BY <1>2 DEF Crash, BootFails, Halt, NoRequest
  <2>3. QED
    BY <2>1, <2>2
<1>3. CASE Boot
  BY <1>3 DEF Boot
<1>4. CASE ChoosePort \/ UseConfiguredPort \/ HookReload
  <2>1. UNCHANGED settingsVars
    BY <1>4 DEF ChoosePort, UseConfiguredPort, HookReload
  <2>2. \A t \in Threads : req'[t].want.certType = "auto"
    BY <1>4, MainThread DEF ChoosePort, UseConfiguredPort, HookReload, DefaultSettings
  <2>3. QED
    BY <2>1, <2>2 DEF settingsVars
<1>5. ASSUME NEW h \in Handlers, HandlerRequest(h) PROVE AutoSettings'
  <2>1. UNCHANGED settingsVars /\ ~UploadCert(h)
    BY <1>5 DEF HandlerRequest, PutPort, PutSSL, UploadCert, PairsLoad
  <2>2. \E want \in SSLRequests \cup {[DefaultSettings EXCEPT !.port = p] : p \in PortRequests},
           kind \in {"port", "ssl"} : req' = [req EXCEPT ![h] = [kind |-> kind, want |-> want]]
    BY <1>5, <2>1 DEF HandlerRequest, PutPort, PutSSL, Receive
  <2>3. \A t \in Threads : req'[t].want.certType = "auto"
    BY <2>2, MainThread DEF PairsLoad, DefaultSettings
  <2>4. QED
    BY <2>1, <2>3 DEF settingsVars
<1>6. ASSUME NEW h \in Handlers, HandlerStep(h) PROVE AutoSettings'
  <2>1. Refuse(h) \/ Unwind(h)
    BY <1>6 DEF HandlerStep, UploadRejected, UploadAccepted, PairsLoad
  <2>2. req' = [req EXCEPT ![h] = NoRequest]
    BY <2>1 DEF Refuse, Unwind, Ends
  <2>3. mem'.certType = "auto" /\ UNCHANGED <<cfg, file>>
    BY <2>1 DEF Refuse, Unwind, settingsVars
  <2>4. QED
    BY <2>2, <2>3, MainThread DEF NoRequest
<1>7. ASSUME NEW t \in Threads, SettingStep(t) PROVE AutoSettings'
  <2>1. \A u \in Threads : req'[u].want.certType = "auto"
    BY <1>7 DEF SettingStep, PortWriter, SetSSL, ConfigWriter, Ends, NoRequest
  <2>2. mem'.certType = "auto"
    <3>1. CASE SetSSL(t)
      <4>1. round[t] \in {1, 2, 3, 4}
        OBVIOUS
      <4>2. QED
        BY <3>1, <4>1 DEF SetSSL
    <3>2. CASE PortWriter(t) \/ ConfigWriter(t)
      BY <3>2 DEF PortWriter, ConfigWriter
    <3>3. QED
      BY <1>7, <3>1, <3>2 DEF SettingStep
  <2>3. cfg'.certType = "auto"
    BY <1>7 DEF SettingStep, PortWriter, SetSSL, ConfigWriter
  <2>4. file'.certType = "auto"
    BY <1>7, <2>3 DEF SettingStep, PortWriter, SetSSL, ConfigWriter, WriteFails
  <2>5. QED
    BY <2>1, <2>2, <2>3, <2>4
<1>8. ASSUME NEW t \in Threads, ReloadHTTP(t) \/ ReloadHTTPS(t) PROVE AutoSettings'
  BY <1>8, ReloadMoves DEF settingsVars
<1>9. ASSUME NEW s \in Servers, ServerStep(s) \/ CollectListener(s) PROVE AutoSettings'
  BY <1>9, ServerMoves DEF settingsVars, threadVars
<1>10. ASSUME NEW p \in Ports, Occupy(p) \/ Release(p) PROVE AutoSettings'
  BY <1>10, WorldMoves DEF settingsVars, threadVars
<1>11. QED
  BY <1>1, <1>2, <1>3, <1>4, <1>5, <1>6, <1>7, <1>8, <1>9, <1>10
     DEF Next, MainStep, ThreadStep

(* The pair is made sure of and never spoiled. *)
LEMMA PairNext ==
    ASSUME PairsLoad, HandoverInv, StoppedIdle, AutoSettings, PairThere, [Next]_vars
    PROVE  PairThere'
<1> USE DEF HandoverInv, TypeOK
<1>1. /\ pair' \in {pair, "auto"}
      /\ \A t \in Threads : pc'[t] = "listenTLS" => pc[t] = "listenTLS" \/ pair' = "auto"
  <2>1. CASE UNCHANGED vars
    BY <2>1 DEF vars, threadVars
  <2>2. CASE Crash \/ BootFails
    BY <2>2 DEF Crash, BootFails, Halt
  <2>3. CASE Boot \/ ChoosePort \/ UseConfiguredPort \/ HookReload
    BY <2>3 DEF Boot, ChoosePort, UseConfiguredPort, HookReload, Goto
  <2>4. ASSUME NEW h \in Handlers, HandlerRequest(h) \/ HandlerStep(h)
        PROVE  UNCHANGED pair /\ \A t \in Threads : pc'[t] = "listenTLS" => pc[t] = "listenTLS"
    BY <2>4 DEF HandlerRequest, PutPort, PutSSL, UploadCert, HandlerStep, UploadRejected,
                UploadAccepted, Refuse, Unwind, Ends, Goto, PairsLoad
  <2>5. ASSUME NEW t \in Threads, SettingStep(t)
        PROVE  UNCHANGED pair /\ \A u \in Threads : pc'[u] = "listenTLS" => pc[u] = "listenTLS"
    BY <2>5 DEF SettingStep, PortWriter, SetSSL, ConfigWriter, Notify, WriteFails, Ends, Goto
  <2>6. ASSUME NEW t \in Threads, ReloadHTTP(t)
        PROVE  UNCHANGED pair /\ \A u \in Threads : pc'[u] = "listenTLS" => pc[u] = "listenTLS"
    BY <2>6 DEF ReloadHTTP, StopHTTP, KeepHTTP, StartHTTP, ListenFailsHTTP, ProbeHTTP,
                ProbePanics, RetireHTTP, PublishHTTP, Goto
  <2>7. ASSUME NEW t \in Threads, ReloadHTTPS(t), ~EnsureCert(t)
        PROVE  UNCHANGED pair /\ \A u \in Threads : pc'[u] = "listenTLS" => pc[u] = "listenTLS"
    BY <2>7 DEF ReloadHTTPS, StopHTTPS, EnsureCertFails, KeepHTTPS, StartHTTPS,
                ListenFailsHTTPS, ProbeHTTPS, ProbeRetryHTTPS, RetireHTTPS, PublishHTTPS,
                Reloaded, Goto, PairsLoad
  <2>8. ASSUME NEW t \in Threads, EnsureCert(t) PROVE pair' = "auto"
    BY <2>8 DEF EnsureCert, CheckedPairs, AutoSettings, PairThere
  <2>9. ASSUME NEW s \in Servers, ServerStep(s) \/ CollectListener(s) PROVE UNCHANGED <<pair, pc>>
    BY <2>9, ServerMoves DEF threadVars
  <2>10. ASSUME NEW p \in Ports, Occupy(p) \/ Release(p) PROVE UNCHANGED <<pair, pc>>
    BY <2>10, WorldMoves DEF threadVars
  <2>11. QED
    BY <2>1, <2>2, <2>3, <2>4, <2>5, <2>6, <2>7, <2>8, <2>9, <2>10
       DEF Next, MainStep, ThreadStep, PairThere
<1>2. \A s \in Servers :
         /\ status'[s] # "dead"
         /\ status'[s] = "bound" /\ cert'[s] = "none" =>
               \/ status[s] = "bound" /\ cert[s] = "none"
               \/ \E t \in Threads : pc[t] = "listenTLS"
  <2>1. CASE Halt
    BY <2>1 DEF Halt
  <2>2. CASE UNCHANGED <<status, cert>>
    BY <2>2 DEF PairThere
  <2>3. ASSUME NEW t \in Threads, StartHTTP(t) \/ StartHTTPS(t)
        PROVE  \A s \in Servers :
                 /\ status'[s] # "dead"
                 /\ status'[s] = "bound" /\ cert'[s] = "none" =>
                       \/ status[s] = "bound" /\ cert[s] = "none"
                       \/ \E u \in Threads : pc[u] = "listenTLS"
    BY <2>3 DEF StartHTTP, StartHTTPS, Started, At, PairThere
  <2>4. ASSUME NEW t \in Threads, SwapStep(t), ~StartHTTP(t), ~StartHTTPS(t)
        PROVE  cert' = cert /\ \A s \in Servers : status'[s] \in {status[s], "retiring"}
    BY <2>4 DEF SwapStep, ProbeHTTP, ProbePanics, RetireHTTP, PublishHTTP, ProbeHTTPS,
                RetireHTTPS, PublishHTTPS, StopHTTP, StopHTTPS, Retired, serverVars
  <2>5. ASSUME NEW s \in Servers, ServerStep(s) \/ CollectListener(s)
        PROVE  \A x \in Servers :
                 /\ status'[x] # "dead"
                 /\ status'[x] = "bound" => status[x] = "bound" /\ cert'[x] = cert[x]
    BY <2>5 DEF ServerStep, ServeHTTP, ServeTLS, Shutdown, CollectListener, PairThere
  <2>6. QED
    BY <2>1, <2>2, <2>3, <2>4, <2>5, Shapes
       DEF vars, serverVars, Moves, PairThere
<1>3. QED
  BY <1>1, <1>2 DEF PairThere

(* What a thread may do to the servers keeps the HTTPS door open: the probe *)
(* answers for the port, and the port is the new server's.                  *)
LEMMA SecureSwap ==
    ASSUME HandoverInv, SecureInv, NEW t \in Threads, SwapStep(t)
    PROVE  TLSHandover' /\ SSLDoorOpen'
<1> USE DEF HandoverInv, TypeOK, SecureInv, At, Goto, Reloaded, slotVars
<1>0. \A u \in Threads : pc[u] \in {"httpsProbe", "httpsRetire", "httpsPublish"} =>
         fresh[u] \in Servers /\ fresh[u] # NoServer
  BY ServerAssumption DEF HTTPSHandover
<1>1. CASE StartHTTP(t) \/ StartHTTPS(t)
  <2>1. PICK s \in Servers, p \in PortText, c \in {"plain", "none"} : Started(t, s, p, c)
    BY <1>1 DEF StartHTTP, StartHTTPS, Settings
  <2>2. /\ UNCHANGED sslGateway
        /\ pc[t] \in {"reload", "listenTLS"}
        /\ \E label \in {"httpProbe", "httpsProbe"} : pc' = [pc EXCEPT ![t] = label]
    BY <1>1 DEF StartHTTP, StartHTTPS
  <2>3. /\ s # sslGateway /\ \A u \in Threads : fresh[u] # s
        /\ status' = [status EXCEPT ![s] = "bound"]
        /\ fresh' = [fresh EXCEPT ![t] = s]
    BY <2>1 DEF Started, NextServer, FreeServers, Referenced
  <2>4. TLSHandover'
    BY <1>0, <2>2, <2>3 DEF TLSHandover
  <2>5. SSLDoorOpen'
    BY <2>2, <2>3, ServerAssumption DEF SSLDoorOpen, Retiring
  <2>6. QED
    BY <2>4, <2>5
<1>2. CASE ProbeHTTP(t) \/ ProbePanics(t) \/ PublishHTTP(t)
  <2>1. /\ UNCHANGED <<status, sslGateway>>
        /\ pc[t] \in {"httpProbe", "httpPublish"}
        /\ \E label \in {"httpRetire", "panicked", "cert"} : pc' = [pc EXCEPT ![t] = label]
        /\ \A u \in Threads : u # t => fresh'[u] = fresh[u]
    BY <1>2 DEF ProbeHTTP, ProbePanics, PublishHTTP, serverVars
  <2>2. QED
    BY <2>1 DEF TLSHandover, SSLDoorOpen, Retiring
<1>3. CASE ProbeHTTPS(t)
  <2>1. /\ pc[t] = "httpsProbe" /\ pc' = [pc EXCEPT ![t] = "httpsRetire"]
        /\ UNCHANGED <<status, sslGateway, fresh>>
    BY <1>3 DEF ProbeHTTPS, serverVars
  <2>2. PICK s \in Servers : Accepting(s) /\ addr[s] = addr[fresh[t]]
    BY <1>3 DEF ProbeHTTPS, PingAnswered
  <2>3. status[fresh[t]] \in {"bound", "serving"}
    BY <2>1 DEF TLSHandover
  <2>4. s = fresh[t]
    BY <1>0, <2>1, <2>2, <2>3 DEF PortExclusive, Listening, Accepting
  <2>5. status[fresh[t]] = "serving"
    BY <2>2, <2>3, <2>4 DEF Accepting
  <2>6. QED
    BY <2>1, <2>5 DEF TLSHandover, SSLDoorOpen, Retiring
<1>4. CASE RetireHTTP(t) \/ RetireHTTPS(t) \/ StopHTTP(t) \/ StopHTTPS(t)
  <2>1. PICK g \in {gateway, sslGateway} :
           /\ status' = Retired(g)
           /\ g = sslGateway => sslGateway' = NoServer \/ RetireHTTPS(t)
           /\ g = gateway \/ sslGateway' = NoServer \/ RetireHTTPS(t)
           /\ sslGateway' \in {sslGateway, NoServer}
    BY <1>4 DEF RetireHTTP, RetireHTTPS, StopHTTP, StopHTTPS, SlotsApart, Retired
  <2>2. /\ fresh' = fresh
        /\ pc[t] \in {"reload", "cert", "httpRetire", "httpsRetire"}
        /\ \E label \in {"cert", "idle", "writeConfig", "httpPublish", "httpsPublish"} :
              /\ pc' = [pc EXCEPT ![t] = label]
              /\ label = "httpsPublish" => pc[t] = "httpsRetire"
              /\ RetireHTTPS(t) => label = "httpsPublish"
    BY <1>4 DEF RetireHTTP, RetireHTTPS, StopHTTP, StopHTTPS
  <2>3. \A u \in Threads : fresh[u] \in Servers => status'[fresh[u]] = status[fresh[u]]
    BY <2>1, RetiredSpares
  <2>4. TLSHandover'
    BY <1>0, <2>2, <2>3 DEF TLSHandover
  <2>5. SSLDoorOpen'
    <3>1. \A s \in Servers : /\ s # g => status'[s] = status[s]
                             /\ status'[s] = status[s] \/ status'[s] = "retiring"
      BY <2>1, RetiredSpares
    <3>2. \A u \in Threads : pc[u] = "httpsPublish" => pc'[u] = "httpsPublish"
      BY <2>2
    <3>3. RetireHTTPS(t) => pc'[t] = "httpsPublish"
      BY <2>2
    <3>4. QED
      BY <2>1, <3>1, <3>2, <3>3, ServerAssumption DEF SSLDoorOpen, Retiring
  <2>6. QED
    BY <2>4, <2>5
<1>5. CASE PublishHTTPS(t)
  <2>1. /\ pc[t] = "httpsPublish" /\ sslGateway' = fresh[t] /\ UNCHANGED status
        /\ \E label \in {"idle", "writeConfig"} : pc' = [pc EXCEPT ![t] = label]
        /\ \A u \in Threads : u # t => fresh'[u] = fresh[u]
    BY <1>5 DEF PublishHTTPS, serverVars
  <2>2. status[fresh[t]] = "serving"
    BY <2>1 DEF TLSHandover
  <2>3. QED
    BY <2>1, <2>2 DEF TLSHandover, SSLDoorOpen
<1>6. QED
  BY <1>1, <1>2, <1>3, <1>4, <1>5 DEF SwapStep

(* So do the goroutines of the servers: ServeTLS finds a pair. *)
LEMMA SecureServer ==
    ASSUME HandoverInv, SecureInv, NEW s \in Servers, ServerStep(s) \/ CollectListener(s)
    PROVE  TLSHandover' /\ SSLDoorOpen'
<1> USE DEF HandoverInv, TypeOK, SecureInv
<1>1. UNCHANGED <<pc, fresh, sslGateway>>
  BY ServerMoves DEF threadVars, slotVars
<1>2. /\ \A x \in Servers \ {s} : status'[x] = status[x]
      /\ \/ status[s] = "bound" /\ status'[s] = "serving"
         \/ status[s] = "retiring" /\ s # sslGateway
  BY DEF ServerStep, ServeHTTP, ServeTLS, Shutdown, CollectListener, PairThere
<1>3. \A t \in Threads : pc[t] \in {"httpsProbe", "httpsRetire", "httpsPublish"} =>
         fresh[t] \in Servers
  BY DEF HTTPSHandover
<1>4. TLSHandover'
  BY <1>1, <1>2, <1>3 DEF TLSHandover
<1>5. SSLDoorOpen'
  BY <1>1, <1>2, ServerAssumption DEF SSLDoorOpen, Retiring
<1>6. QED
  BY <1>4, <1>5

LEMMA SecureNext ==
    ASSUME PairsLoad, HandoverInv, StoppedIdle, SecureInv, [Next]_vars
    PROVE  SecureInv'
<1>1. AutoSettings' /\ PairThere'
  BY AutoNext, PairNext DEF SecureInv, HandoverInv
<1>2. CASE Halt
  BY <1>1, <1>2 DEF Halt, SecureInv, TLSHandover, SSLDoorOpen
<1>3. CASE UNCHANGED <<pc, fresh, serverVars, slotVars>>
  BY <1>1, <1>3 DEF SecureInv, TLSHandover, SSLDoorOpen, Retiring, serverVars, slotVars
<1>4. ASSUME NEW t \in Threads, Moves(t) PROVE TLSHandover' /\ SSLDoorOpen'
  <2>1. \A u \in Threads : \A label \in SwapLabels : pc'[u] = label <=> pc[u] = label
    BY <1>4 DEF Moves, HandoverInv, TypeOK
  <2>2. QED
    BY <1>4, <2>1 DEF Moves, SecureInv, TLSHandover, SSLDoorOpen, Retiring, serverVars,
                      slotVars, SwapLabels, HTTPLabels
<1>5. QED
  BY <1>1, <1>2, <1>3, <1>4, Shapes, SecureSwap, SecureServer
     DEF vars, threadVars, HandoverInv, SecureInv

(* The HTTPS server accepts requests at every moment of every swap, however *)
(* requests, boot and crashes interleave, when every pair loads             *)
(* (main.go:559-577).                                                       *)
THEOREM SSLDoorStaysOpenOverlapping == ASSUME PairsLoad PROVE Spec => []SSLDoorOpen
<1>1. SecureInv => SSLDoorOpen
  BY DEF SecureInv
<1>2. HandoverInv /\ StoppedIdle /\ SecureInv /\ [Next]_vars => SecureInv'
  BY SecureNext
<1>3. HandoverInv => TypeOK
  BY DEF HandoverInv
<1>4. Init => SecureInv
  BY SecureInit
<1>5. QED
  BY <1>1, <1>2, <1>3, <1>4, HandoverInit, HandoverNext, StoppedInit, StoppedNext, PTL DEF Spec

(* Both servers are swapped make before break, however requests, boot and   *)
(* crashes interleave, when every pair loads (main.go:504-522, 559-577).    *)
THEOREM HotSwapImplemented == ASSUME PairsLoad PROVE Spec => ImplementsHotSwap
<1>1. Init => TLSSwap!Init
  BY DEF Init, TLSSwap!Init, ServingServers, FreshAt
<1>2. SecureInv => SSLDoorOpen /\ FreshServes
  BY DEF SecureInv, TLSHandover, FreshServes
<1>3. HandoverInv /\ StoppedIdle /\ SecureInv /\ [Next]_vars =>
         SecureInv' /\ [TLSSwap!Next]_(TLSSwap!vars)
  BY <1>2, SecureNext, SwapNext, SwapForms
<1>4. HandoverInv => TypeOK
  BY DEF HandoverInv
<1>5. Init => SecureInv
  BY SecureInit
<1>6. Spec => TLSSwap!Spec
  BY <1>1, <1>3, <1>4, <1>5, HandoverInit, HandoverNext, StoppedInit, StoppedNext, PTL
     DEF Spec, TLSSwap!Spec
<1>7. QED
  BY <1>6, HTTPHotSwap DEF ImplementsHotSwap

-----------------------------------------------------------------------------
(* What the abstraction promises                                           *)

(* Successors serve, and are not in use yet. *)
HTTPReadyServes ==
    /\ HTTPReady \subseteq HTTPServing \ {gateway}
    /\ HTTPSwap!Served

TLSReadyServes ==
    /\ TLSReady \subseteq TLSServing \ {sslGateway}
    /\ TLSSwap!Served

(* In any history of HotSwap a server in use serves, or one that does is    *)
(* about to replace it: so it is of the HTTP server, and of the HTTPS       *)
(* server when every pair loads (main.go:504-522, 559-577).                 *)
THEOREM SwapMeansServed ==
    /\ HTTPSwap!Spec => []HTTPSwap!Served
    /\ TLSSwap!Spec => []TLSSwap!Served
<1> USE DEF HTTPReady, TLSReady, HTTPServing, TLSServing
<1>0. \A secure \in BOOLEAN : NoServer \notin ServingServers(secure)
  BY ServerAssumption DEF ServingServers
<1>1. /\ HTTPSwap!Init => HTTPReadyServes
      /\ HTTPReadyServes /\ [HTTPSwap!Next]_(HTTPSwap!vars) => HTTPReadyServes'
  <2>1. HTTPSwap!Init => HTTPReadyServes
    BY DEF HTTPSwap!Init, HTTPReadyServes, HTTPSwap!Served
  <2>2. HTTPReadyServes /\ [HTTPSwap!Next]_(HTTPSwap!vars) => HTTPReadyServes'
    BY <1>0 DEF HTTPReadyServes, HTTPSwap!Served, HTTPSwap!Next, HTTPSwap!vars,
       HTTPSwap!Serve, HTTPSwap!Succeed, HTTPSwap!Publish, HTTPSwap!Withdraw, HTTPSwap!Stop
  <2>3. QED
    BY <2>1, <2>2
<1>2. /\ TLSSwap!Init => TLSReadyServes
      /\ TLSReadyServes /\ [TLSSwap!Next]_(TLSSwap!vars) => TLSReadyServes'
  <2>1. TLSSwap!Init => TLSReadyServes
    BY DEF TLSSwap!Init, TLSReadyServes, TLSSwap!Served
  <2>2. TLSReadyServes /\ [TLSSwap!Next]_(TLSSwap!vars) => TLSReadyServes'
    BY <1>0 DEF TLSReadyServes, TLSSwap!Served, TLSSwap!Next, TLSSwap!vars,
       TLSSwap!Serve, TLSSwap!Succeed, TLSSwap!Publish, TLSSwap!Withdraw, TLSSwap!Stop
  <2>3. QED
    BY <2>1, <2>2
<1>3. HTTPReadyServes => HTTPSwap!Served
  BY DEF HTTPReadyServes
<1>4. TLSReadyServes => TLSSwap!Served
  BY DEF TLSReadyServes
<1>5. HTTPSwap!Spec => []HTTPSwap!Served
  BY <1>1, <1>3, PTL DEF HTTPSwap!Spec
<1>6. TLSSwap!Spec => []TLSSwap!Served
  BY <1>2, <1>4, PTL DEF TLSSwap!Spec
<1>7. QED
  BY <1>5, <1>6
=============================================================================
