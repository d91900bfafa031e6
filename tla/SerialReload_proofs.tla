------------------------ MODULE SerialReload_proofs -------------------------
(***************************************************************************)
(* Proofs about GatewayReload when requests come one at a time and none    *)
(* during boot (Serialized).  Then at most one thread works (AloneInv), so *)
(* what it has read of the settings and of the servers stays true until it *)
(* acts on it (SwapInv, DescribeInv, AppliedInv).                          *)
(***************************************************************************)
EXTENDS SwapReload_proofs

(* One thread at a time: a handler works only once the start hook is done, *)
(* and no answer is given before.                                          *)
AloneInv ==
    /\ \A t \in Threads : pc[t] # "idle" => up
    /\ \A t, u \in Threads : pc[t] # "idle" /\ pc[u] # "idle" => t = u
    /\ \A h \in Handlers : pc[h] # "idle" => hooked
    /\ ~up \/ pc[Main] # "idle" => ~answer.ok
    /\ \A t \in Threads : pc[t] = "upload" => req[t].kind = "upload" /\ t # Main
    /\ req[Main].kind \in {"none", "boot", "choose"}
    /\ \A h \in Handlers : req[h].kind # "boot"

(* What the thread that swaps a server has made of the servers.            *)
SwapThread(t) ==
    /\ pc[t] \notin SwapLabels => fresh[t] = NoServer
    /\ pc[t] = "httpPublish" /\ gateway # NoServer => status[gateway] = "retiring"
    /\ pc[t] = "httpsPublish" /\ sslGateway # NoServer => status[sslGateway] = "retiring"
    /\ pc[t] = "httpsProbe" =>
         \A s \in Servers : Listening(s) /\ addr[s] = addr[fresh[t]] => s = fresh[t]
    /\ pc[t] \in {"httpsRetire", "httpsPublish"} => status[fresh[t]] = "serving"

SwapInv == SSLDoorOpen /\ \A t \in Threads : SwapThread(t)

-----------------------------------------------------------------------------
LEMMA AloneInit == Init => AloneInv
BY MainThread DEF Init, AloneInv, NoRequest, NoAnswer, Threads

LEMMA AloneHalt ==
    ASSUME Halt PROVE AloneInv'
BY MainThread DEF Halt, AloneInv, NoRequest, NoAnswer, Threads

LEMMA AloneFrame ==
    ASSUME AloneInv, UNCHANGED <<up, hooked, pc, req, answer>>
    PROVE  AloneInv'
BY DEF AloneInv

(* A step of the thread that works. *)
LEMMA AloneStep ==
    ASSUME TypeOK, AloneInv, NEW t \in Threads, pc[t] # "idle", up, UNCHANGED up,
           hooked => hooked',
           NEW label \in Labels \ {"upload"}, pc' = [pc EXCEPT ![t] = label],
           label = "idle" \/ answer' = answer,
           req'[Main].kind \in {"none", "boot", "choose"},
           \A h \in Handlers : req'[h].kind # "boot"
    PROVE  AloneInv'
<1>1. \A u \in Threads : u # t => pc[u] = "idle" /\ pc'[u] = "idle"
  BY DEF AloneInv, TypeOK
<1>2. pc'[t] = label
  BY DEF TypeOK
<1>3. pc'[Main] # "idle" => ~answer'.ok
  BY <1>1, <1>2, MainThread DEF AloneInv
<1>4. \A h \in Handlers : pc'[h] # "idle" => hooked'
  BY <1>1, MainThread DEF AloneInv
<1>5. QED
  BY <1>1, <1>2, <1>3, <1>4 DEF AloneInv

LEMMA AloneSetting ==
    ASSUME TypeOK, AloneInv, NEW t \in Threads, SettingStep(t)
    PROVE  AloneInv'
<1> USE DEF At, Goto, Labels
<1>1. /\ up /\ UNCHANGED <<up, hooked>>
      /\ pc[t] \in {"writePort", "setSSL", "writeConfig"}
  BY DEF SettingStep, PortWriter, SetSSL, ConfigWriter
<1>2. PICK label \in {"reload", "writeConfig", "failed", "hook", "setSSL", "idle"} :
         pc' = [pc EXCEPT ![t] = label]
  BY DEF SettingStep, PortWriter, SetSSL, ConfigWriter, Notify, WriteFails, Ends
<1>3. label = "idle" \/ answer' = answer
  BY <1>2 DEF SettingStep, PortWriter, SetSSL, ConfigWriter, Notify, WriteFails, Ends, TypeOK
<1>4. req' \in {req, [req EXCEPT ![t] = NoRequest]}
  BY DEF SettingStep, PortWriter, SetSSL, ConfigWriter, Ends
<1>5. /\ req'[Main].kind \in {"none", "boot", "choose"}
      /\ \A h \in Handlers : req'[h].kind # "boot"
  BY <1>4, MainThread DEF AloneInv, TypeOK, NoRequest
<1>6. QED
  BY <1>1, <1>2, <1>3, <1>5, AloneStep

LEMMA AloneNext == Serialized /\ TypeOK /\ AloneInv /\ [Next]_vars => AloneInv'
<1> SUFFICES ASSUME Serialized, TypeOK, AloneInv, [Next]_vars PROVE AloneInv'
  OBVIOUS
<1> USE DEF At, Goto, Labels
<1>1. CASE UNCHANGED vars
  BY <1>1, AloneFrame DEF vars, threadVars
<1>2. CASE Crash \/ BootFails
  BY <1>2, AloneHalt DEF Crash, BootFails
<1>3. CASE Boot
  BY <1>3, MainThread DEF Boot, AloneInv, TypeOK
<1>4. CASE ChoosePort \/ UseConfiguredPort \/ HookReload
  <2>1. /\ up /\ UNCHANGED <<up, answer>> /\ (hooked => hooked')
        /\ pc[Main] # "idle"
        /\ \E label \in {"writePort", "hook", "reload"} : pc' = [pc EXCEPT ![Main] = label]
    BY <1>4 DEF ChoosePort, UseConfiguredPort, HookReload
  <2>2. /\ req'[Main].kind \in {"none", "boot", "choose"}
        /\ \A h \in Handlers : req'[h].kind # "boot"
    BY <1>4, MainThread DEF ChoosePort, UseConfiguredPort, HookReload, AloneInv, TypeOK
  <2>3. QED
    BY <2>1, <2>2, MainThread, AloneStep
<1>5. ASSUME NEW h \in Handlers, HandlerRequest(h) PROVE AloneInv'
  <2>1. /\ up /\ hooked /\ UNCHANGED <<up, hooked, answer>>
        /\ \A t \in Threads : pc[t] = "idle"
    BY <1>5 DEF HandlerRequest, PutPort, PutSSL, UploadCert, Receive, MayRequest, Quiet,
                Ready, Threads
  <2>2. PICK label \in {"writePort", "setSSL", "upload"} : pc' = [pc EXCEPT ![h] = label]
    BY <1>5 DEF HandlerRequest, PutPort, PutSSL, UploadCert
  <2>3. /\ req'[Main] = req[Main]
        /\ label = "upload" => req'[h].kind = "upload"
        /\ \A g \in Handlers : req'[g].kind # "boot"
    <3>1. CASE PutPort(h)
      BY <2>2, <3>1, MainThread DEF PutPort, Receive, TypeOK, AloneInv
    <3>2. CASE PutSSL(h)
      BY <2>2, <3>2, MainThread DEF PutSSL, Receive, TypeOK, AloneInv
    <3>3. CASE UploadCert(h)
      BY <3>3, MainThread DEF UploadCert, Receive, TypeOK, AloneInv
    <3>4. QED
      BY <1>5, <3>1, <3>2, <3>3 DEF HandlerRequest
  <2>4. \A t \in Threads : t # h => pc'[t] = "idle"
    BY <2>1, <2>2, MainThread DEF TypeOK
  <2>5. pc'[h] = label
    BY <2>2, MainThread DEF TypeOK
  <2>6. QED
    BY <2>1, <2>3, <2>4, <2>5, MainThread DEF AloneInv
<1>6. ASSUME NEW h \in Handlers, HandlerStep(h) PROVE AloneInv'
  <2>1. up /\ UNCHANGED <<up, hooked>> /\ pc[h] # "idle"
    BY <1>6 DEF HandlerStep, UploadRejected, UploadAccepted, Refuse, Unwind
  <2>2. \E label \in {"idle", "setSSL"} :
           pc' = [pc EXCEPT ![h] = label] /\ (label = "idle" \/ answer' = answer)
    BY <1>6 DEF HandlerStep, UploadRejected, UploadAccepted, Refuse, Unwind, Ends
  <2>3. req'[Main] = req[Main]
    BY <1>6, MainThread
       DEF HandlerStep, UploadRejected, UploadAccepted, Refuse, Unwind, Ends, TypeOK
  <2>4. \A g \in Handlers : req'[g].kind # "boot"
    <3>1. \/ req' = [req EXCEPT ![h] = NoRequest]
          \/ \E want \in {[mem EXCEPT !.certType = "custom"]} : req' = [req EXCEPT ![h].want = want]
      BY <1>6 DEF HandlerStep, UploadRejected, UploadAccepted, Refuse, Unwind, Ends
    <3>2. req'[h].kind \in {"none", req[h].kind}
      BY <3>1, MainThread DEF TypeOK, Requests, NoRequest
    <3>3. \A g \in Handlers : g # h => req'[g] = req[g]
      BY <3>1, MainThread DEF TypeOK
    <3>4. QED
      BY <3>2, <3>3 DEF AloneInv
  <2>5. QED
    BY <2>1, <2>2, <2>3, <2>4, AloneStep, MainThread DEF AloneInv
<1>7. ASSUME NEW t \in Threads, ReloadHTTP(t) \/ ReloadHTTPS(t) PROVE AloneInv'
  <2>1. pc[t] # "idle"
    BY <1>7, ReloadMoves DEF ReloadLabels, SwapLabels, HTTPLabels
  <2>2. PICK label \in ReloadLabels \cup {"idle", "writeConfig", "failed", "panicked"} :
           pc' = [pc EXCEPT ![t] = label]
    BY <1>7, ReloadMoves
  <2>3. label \in Labels \ {"upload"}
    BY DEF ReloadLabels, SwapLabels, HTTPLabels
  <2>4. /\ req'[Main].kind \in {"none", "boot", "choose"}
        /\ \A h \in Handlers : req'[h].kind # "boot"
    BY <1>7, ReloadMoves DEF AloneInv
  <2>5. up /\ UNCHANGED <<up, hooked, answer>>
    BY <1>7, ReloadMoves
  <2>6. QED
    BY <2>1, <2>2, <2>3, <2>4, <2>5, AloneStep
<1>8. ASSUME NEW s \in Servers, ServerStep(s) \/ CollectListener(s) PROVE AloneInv'
  BY <1>8, ServerMoves, AloneFrame DEF threadVars
<1>9. ASSUME NEW p \in Ports, Occupy(p) \/ Release(p) PROVE AloneInv'
  BY <1>9, WorldMoves, AloneFrame DEF threadVars
<1>10. QED
  BY <1>1, <1>2, <1>3, <1>4, <1>5, <1>6, <1>7, <1>8, <1>9, AloneSetting
     DEF Next, MainStep, ThreadStep

LEMMA Others ==
    ASSUME TypeOK, AloneInv, NEW t \in Threads, pc[t] # "idle",
           NEW label \in Labels, pc' = [pc EXCEPT ![t] = label]
    PROVE  /\ pc'[t] = label
           /\ \A u \in Threads : u # t => pc[u] = "idle" /\ pc'[u] = "idle"
BY DEF AloneInv, TypeOK

-----------------------------------------------------------------------------
(* The HTTPS door                                                          *)

LEMMA SwapInit == Init => SwapInv
BY DEF Init, SwapInv, SwapThread, SSLDoorOpen, SwapLabels, HTTPLabels

LEMMA SwapHalt == ASSUME Halt PROVE SwapInv'
BY DEF Halt, SwapInv, SwapThread, SSLDoorOpen, SwapLabels, HTTPLabels

LEMMA SwapFrame ==
    ASSUME SwapInv, UNCHANGED <<pc, fresh, status, addr, slotVars>>
    PROVE  SwapInv'
BY DEF SwapInv, SwapThread, SSLDoorOpen, Retiring, Listening, slotVars

(* The only thread that may swap moves outside the swap. *)
LEMMA SwapMove ==
    ASSUME TypeOK, SwapInv, NEW t \in Threads, pc[t] \notin SwapLabels,
           \A u \in Threads : u # t => pc[u] = "idle",
           NEW label \in Labels \ SwapLabels, pc' = [pc EXCEPT ![t] = label],
           UNCHANGED <<fresh, status, addr, slotVars>>
    PROVE  SwapInv'
<1> USE DEF SwapLabels, HTTPLabels
<1>1. \A u \in Threads : pc[u] \notin SwapLabels /\ pc'[u] \notin SwapLabels
  BY DEF TypeOK
<1>2. \A u \in Threads : fresh'[u] = NoServer
  BY <1>1 DEF SwapInv, SwapThread
<1>3. SSLDoorOpen'
  BY <1>1 DEF SwapInv, SSLDoorOpen, Retiring, slotVars
<1>4. QED
  BY <1>1, <1>2, <1>3 DEF SwapInv, SwapThread

LEMMA SwapStart ==
    ASSUME HandoverInv, HandoverInv', AloneInv, SwapInv, NEW t \in Threads,
           StartHTTP(t) \/ StartHTTPS(t)
    PROVE  SwapInv'
<1> USE DEF HandoverInv, TypeOK
<1>1. PICK s \in Servers, p \in PortText, c \in {"plain", "none"},
           label \in {"httpProbe", "httpsProbe"} :
         /\ Started(t, s, p, c)
         /\ PortFree(p)
         /\ pc[t] \in {"reload", "listenTLS"}
         /\ pc' = [pc EXCEPT ![t] = label]
         /\ UNCHANGED slotVars
  <2>1. CASE StartHTTP(t)
    BY <2>1 DEF StartHTTP, Settings, At, Goto
  <2>2. CASE StartHTTPS(t)
    BY <2>2 DEF StartHTTPS, At, Goto
  <2>3. QED
    BY <2>1, <2>2
<1>2. /\ status[s] = "closed"
      /\ s # sslGateway /\ s # NoServer
      /\ status' = [status EXCEPT ![s] = "bound"]
      /\ addr' = [addr EXCEPT ![s] = p]
      /\ fresh' = [fresh EXCEPT ![t] = s]
  BY <1>1, ServerAssumption DEF Started, NextServer, FreeServers, Referenced
<1>3. pc'[t] = label /\ \A u \in Threads : u # t => pc[u] = "idle" /\ pc'[u] = "idle"
  BY <1>1, Others DEF Labels
<1>4. SSLDoorOpen'
  <2>1. sslGateway # NoServer => status[sslGateway] = "serving"
    BY <1>1, <1>3 DEF SwapInv, SSLDoorOpen, Retiring
  <2>2. QED
    BY <1>1, <1>2, <2>1 DEF SSLDoorOpen, slotVars
<1>5. \A x \in Servers : Listening(x)' /\ addr'[x] = addr'[fresh'[t]] => x = fresh'[t]
  BY <1>1, <1>2 DEF PortFree, Listening
<1>6. SwapThread(t)'
  BY <1>1, <1>3, <1>5 DEF SwapThread, SwapLabels, HTTPLabels
<1>7. \A u \in Threads : u # t => SwapThread(u)'
  BY <1>2, <1>3 DEF SwapInv, SwapThread, SwapLabels, HTTPLabels
<1>8. QED
  BY <1>4, <1>6, <1>7 DEF SwapInv

(* The HTTPS probe has been answered by the new server itself. *)
LEMMA SwapProbe ==
    ASSUME HandoverInv, AloneInv, SwapInv, NEW t \in Threads,
           ProbeHTTP(t) \/ ProbeHTTPS(t) \/ ProbePanics(t)
    PROVE  SwapInv'
<1> USE DEF HandoverInv
<1>1. PICK label \in {"httpRetire", "panicked", "httpsRetire"} :
         /\ pc[t] \in {"httpProbe", "httpsProbe"}
         /\ pc' = [pc EXCEPT ![t] = label]
         /\ UNCHANGED <<status, addr, slotVars>>
         /\ label # "panicked" => fresh' = fresh
         /\ label = "panicked" => fresh' = [fresh EXCEPT ![t] = NoServer]
         /\ label = "httpsRetire" => ProbeHTTPS(t)
  BY DEF ProbeHTTP, ProbeHTTPS, ProbePanics, At, Goto, serverVars
<1>2. pc'[t] = label /\ \A u \in Threads : u # t => pc[u] = "idle" /\ pc'[u] = "idle"
  BY <1>1, Others DEF Labels
<1>3. SSLDoorOpen'
  BY <1>1, <1>2 DEF SwapInv, SSLDoorOpen, Retiring, slotVars
<1>4. ASSUME label = "httpsRetire" PROVE status[fresh[t]] = "serving"
  <2>1. pc[t] = "httpsProbe" /\ PingAnswered(addr[fresh[t]], TRUE)
    BY <1>1, <1>4 DEF ProbeHTTPS, At
  <2>2. PICK s \in Servers : Accepting(s) /\ addr[s] = addr[fresh[t]]
    BY <2>1 DEF PingAnswered
  <2>3. s = fresh[t]
    BY <2>1, <2>2 DEF SwapInv, SwapThread, Listening, Accepting
  <2>4. QED
    BY <2>1, <2>2, <2>3 DEF HTTPSHandover, Accepting
<1>5. SwapThread(t)'
  BY <1>1, <1>2, <1>4 DEF SwapThread, SwapLabels, HTTPLabels, TypeOK
<1>6. \A u \in Threads : u # t => SwapThread(u)'
  BY <1>1, <1>2 DEF SwapInv, SwapThread, SwapLabels, HTTPLabels, TypeOK
<1>7. QED
  BY <1>3, <1>5, <1>6 DEF SwapInv

(* A server in use serves until it is retired: nobody else is retiring it. *)
LEMMA InUseServes ==
    ASSUME HandoverInv, AloneInv, SwapInv, NEW t \in Threads, pc[t] # "idle",
           pc[t] # "httpPublish", pc[t] # "httpsPublish"
    PROVE  /\ gateway # NoServer => status[gateway] = "serving"
           /\ sslGateway # NoServer => status[sslGateway] = "serving"
<1>1. \A u \in Threads : pc[u] # "httpPublish" /\ pc[u] # "httpsPublish"
  BY DEF AloneInv
<1>2. QED
  BY <1>1 DEF HandoverInv, FrontDoorOpen, SwapInv, SSLDoorOpen, Retiring

LEMMA SwapRetire ==
    ASSUME HandoverInv, AloneInv, SwapInv, NEW t \in Threads,
           StopHTTP(t) \/ RetireHTTP(t) \/ StopHTTPS(t) \/ RetireHTTPS(t)
    PROVE  SwapInv'
<1> USE DEF At, Goto, Reloaded, slotVars
<1>1. /\ pc[t] \in {"reload", "httpRetire", "cert", "httpsRetire"}
      /\ UNCHANGED <<addr, fresh>>
  BY DEF StopHTTP, RetireHTTP, StopHTTPS, RetireHTTPS
<1>2. /\ gateway # NoServer => status[gateway] = "serving"
      /\ sslGateway # NoServer => status[sslGateway] = "serving"
  BY <1>1, InUseServes
<1>3. /\ gateway # NoServer => gateway # sslGateway
      /\ gateway \in Servers \cup {NoServer} /\ sslGateway \in Servers \cup {NoServer}
      /\ status \in [Servers -> {"closed", "bound", "serving", "retiring", "dead"}]
  BY DEF HandoverInv, SlotsApart, TypeOK
<1>4. ASSUME NEW g \in {gateway, sslGateway}, status' = Retired(g)
      PROVE  /\ \A s \in Servers : s # g => status'[s] = status[s]
             /\ g # NoServer => status'[g] = "retiring"
  BY <1>2, <1>3, <1>4, RetiredSpares DEF Retired, Accepting
<1>5. CASE StopHTTP(t) \/ RetireHTTP(t)
  <2>1. PICK label \in {"cert", "httpPublish"} :
           /\ pc' = [pc EXCEPT ![t] = label]
           /\ status' = Retired(gateway) /\ UNCHANGED sslGateway
           /\ label = "httpPublish" => pc[t] = "httpRetire" /\ gateway' = gateway
           /\ label = "cert" => pc[t] = "reload"
    BY <1>5 DEF StopHTTP, RetireHTTP
  <2>2. pc'[t] = label /\ \A u \in Threads : u # t => pc[u] = "idle" /\ pc'[u] = "idle"
    BY <1>1, <2>1, Others DEF HandoverInv, Labels
  <2>3. SSLDoorOpen'
    BY <1>2, <1>3, <1>4, <2>1 DEF SSLDoorOpen
  <2>4. SwapThread(t)'
    BY <1>1, <1>4, <2>1, <2>2 DEF SwapInv, SwapThread, SwapLabels, HTTPLabels
  <2>5. \A u \in Threads : u # t => SwapThread(u)'
    BY <1>1, <2>2 DEF SwapInv, SwapThread, SwapLabels, HTTPLabels
  <2>6. QED
    BY <2>3, <2>4, <2>5 DEF SwapInv
<1>6. CASE StopHTTPS(t) \/ RetireHTTPS(t)
  <2>1. PICK label \in {"idle", "writeConfig", "httpsPublish"} :
           /\ pc' = [pc EXCEPT ![t] = label]
           /\ status' = Retired(sslGateway)
           /\ label = "httpsPublish" => pc[t] = "httpsRetire" /\ sslGateway' = sslGateway
           /\ label # "httpsPublish" => pc[t] = "cert" /\ sslGateway' = NoServer
    BY <1>6 DEF StopHTTPS, RetireHTTPS
  <2>2. pc'[t] = label /\ \A u \in Threads : u # t => pc[u] = "idle" /\ pc'[u] = "idle"
    BY <1>1, <2>1, Others DEF HandoverInv, Labels
  <2>3. SSLDoorOpen'
    BY <1>3, <1>4, <2>1, <2>2 DEF SSLDoorOpen, Retiring
  <2>4. label = "httpsPublish" => status'[fresh[t]] = "serving"
    <3>1. ASSUME label = "httpsPublish" PROVE status[fresh[t]] = "serving" /\ fresh[t] \in Servers
      BY <2>1, <3>1 DEF SwapInv, SwapThread, HandoverInv, HTTPSHandover
    <3>2. QED
      BY <2>1, <3>1, RetiredSpares
  <2>5. SwapThread(t)'
    BY <1>1, <1>4, <2>1, <2>2, <2>4 DEF SwapInv, SwapThread, SwapLabels, HTTPLabels
  <2>6. \A u \in Threads : u # t => SwapThread(u)'
    BY <1>1, <2>2 DEF SwapInv, SwapThread, SwapLabels, HTTPLabels
  <2>7. QED
    BY <2>3, <2>5, <2>6 DEF SwapInv
<1>7. QED
  BY <1>5, <1>6

LEMMA SwapPublish ==
    ASSUME HandoverInv, AloneInv, SwapInv, NEW t \in Threads,
           PublishHTTP(t) \/ PublishHTTPS(t)
    PROVE  SwapInv'
<1> USE DEF At, Goto, Reloaded
<1>1. PICK label \in {"cert", "idle", "writeConfig"} :
         /\ pc[t] \in {"httpPublish", "httpsPublish"}
         /\ pc' = [pc EXCEPT ![t] = label]
         /\ fresh' = [fresh EXCEPT ![t] = NoServer]
         /\ UNCHANGED <<status, addr>>
         /\ sslGateway' \in {sslGateway, fresh[t]}
         /\ pc[t] = "httpPublish" => UNCHANGED sslGateway
         /\ pc[t] = "httpsPublish" => sslGateway' = fresh[t]
  BY DEF PublishHTTP, PublishHTTPS, serverVars
<1>2. pc'[t] = label /\ \A u \in Threads : u # t => pc[u] = "idle" /\ pc'[u] = "idle"
  BY <1>1, Others DEF HandoverInv, Labels
<1>3. SSLDoorOpen'
  <2>1. CASE pc[t] = "httpPublish"
    BY <1>1, <1>2, <2>1 DEF SwapInv, SSLDoorOpen, Retiring
  <2>2. CASE pc[t] = "httpsPublish"
    BY <1>1, <2>2 DEF SwapInv, SwapThread, SSLDoorOpen
  <2>3. QED
    BY <1>1, <2>1, <2>2
<1>4. \A u \in Threads : SwapThread(u)'
  BY <1>1, <1>2 DEF SwapInv, SwapThread, SwapLabels, HTTPLabels, HandoverInv, TypeOK
<1>5. QED
  BY <1>3, <1>4 DEF SwapInv

LEMMA SwapServer ==
    ASSUME HandoverInv, SwapInv, NEW s \in Servers, ServerStep(s) \/ CollectListener(s)
    PROVE  SwapInv'
<1>1. UNCHANGED <<pc, fresh, gateway, sslGateway>>
  BY ServerMoves DEF threadVars, slotVars
<1>2. /\ \A x \in Servers : x # s => status'[x] = status[x] /\ addr'[x] = addr[x]
      /\ status[s] \in {"bound", "retiring", "dead"}
      /\ status[s] = "retiring" => s \notin {gateway, sslGateway}
      /\ status'[s] # "closed" => status[s] = "bound" /\ addr'[s] = addr[s]
      /\ status[s] # "retiring" => addr'[s] = addr[s]
      /\ status'[s] \in {"serving", "dead", "closed"}
  BY DEF ServerStep, ServeHTTP, ServeTLS, Shutdown, CollectListener, HandoverInv, TypeOK
<1>3. SSLDoorOpen'
  BY <1>1, <1>2 DEF SwapInv, SSLDoorOpen, Retiring, HandoverInv, TypeOK
<1>4. ASSUME NEW t \in Threads PROVE SwapThread(t)'
  <2>1. pc[t] = "httpPublish" /\ gateway # NoServer => status'[gateway] = "retiring"
    BY <1>2 DEF SwapInv, SwapThread, HandoverInv, TypeOK
  <2>2. pc[t] = "httpsPublish" /\ sslGateway # NoServer => status'[sslGateway] = "retiring"
    BY <1>2 DEF SwapInv, SwapThread, HandoverInv, TypeOK
  <2>3. pc[t] \in {"httpsRetire", "httpsPublish"} => status'[fresh[t]] = "serving"
    BY <1>2 DEF SwapInv, SwapThread, HandoverInv, HTTPSHandover
  <2>4. ASSUME pc[t] = "httpsProbe", NEW x \in Servers, Listening(x)',
               addr'[x] = addr'[fresh[t]]
        PROVE  x = fresh[t]
    <3>1. fresh[t] \in Servers /\ status[fresh[t]] # "retiring"
      BY <2>4 DEF HandoverInv, HTTPSHandover
    <3>2. addr'[fresh[t]] = addr[fresh[t]]
      BY <1>2, <3>1
    <3>3. Listening(x) /\ addr'[x] = addr[x]
      BY <1>2, <2>4 DEF Listening
    <3>4. QED
      BY <2>4, <3>2, <3>3 DEF SwapInv, SwapThread
  <2>5. QED
    BY <1>1, <1>4, <2>1, <2>2, <2>3, <2>4 DEF SwapInv, SwapThread
<1>5. QED
  BY <1>3, <1>4 DEF SwapInv
(* Steps outside a reload, by the thread that works or by the first that   *)
(* does, move between labels outside the swap and touch no server.         *)
LEMMA OutsideMoves ==
    ASSUME Serialized, TypeOK, AloneInv, NEW t \in Threads,
           \/ SettingStep(t)
           \/ t \in Handlers /\ (HandlerRequest(t) \/ HandlerStep(t))
           \/ t = Main /\ (ChoosePort \/ UseConfiguredPort \/ HookReload \/ Boot)
    PROVE  /\ \A u \in Threads : u # t => pc[u] = "idle"
           /\ pc[t] \notin SwapLabels \cup {"cert", "listenTLS", "reload"}
           /\ UNCHANGED <<fresh, serverVars, slotVars>>
           /\ \E label \in Labels \ SwapLabels : pc' = [pc EXCEPT ![t] = label]
<1> USE DEF At, Goto, Labels, SwapLabels, HTTPLabels
<1>1. CASE SettingStep(t)
  BY <1>1 DEF SettingStep, PortWriter, SetSSL, ConfigWriter, Notify, WriteFails, Ends, AloneInv
<1>2. CASE t \in Handlers /\ HandlerRequest(t)
  BY <1>2 DEF HandlerRequest, PutPort, PutSSL, UploadCert, Receive, MayRequest, Quiet,
              Ready, Threads
<1>3. CASE t \in Handlers /\ HandlerStep(t)
  BY <1>3 DEF HandlerStep, UploadRejected, UploadAccepted, Refuse, Unwind, Ends, AloneInv
<1>4. CASE t = Main /\ (ChoosePort \/ UseConfiguredPort \/ HookReload)
  BY <1>4 DEF ChoosePort, UseConfiguredPort, HookReload, AloneInv
<1>5. CASE t = Main /\ Boot
  BY <1>5 DEF Boot, AloneInv
<1>6. QED
  BY <1>1, <1>2, <1>3, <1>4, <1>5

LEMMA SwapReload ==
    ASSUME HandoverInv, HandoverInv', AloneInv, SwapInv, NEW t \in Threads,
           ReloadHTTP(t) \/ ReloadHTTPS(t)
    PROVE  SwapInv'
<1>1. CASE StopHTTP(t) \/ RetireHTTP(t) \/ StopHTTPS(t) \/ RetireHTTPS(t)
  BY <1>1, SwapRetire
<1>2. CASE StartHTTP(t) \/ StartHTTPS(t)
  BY <1>2, SwapStart
<1>3. CASE ProbeHTTP(t) \/ ProbePanics(t) \/ ProbeHTTPS(t)
  BY <1>3, SwapProbe
<1>4. CASE PublishHTTP(t) \/ PublishHTTPS(t)
  BY <1>4, SwapPublish
<1>5. CASE ProbeRetryHTTPS(t)
  BY <1>5, SwapFrame DEF ProbeRetryHTTPS, serverVars
<1>6. CASE \/ KeepHTTP(t) \/ ListenFailsHTTP(t) \/ EnsureCert(t) \/ EnsureCertFails(t)
           \/ KeepHTTPS(t) \/ ListenFailsHTTPS(t)
  <2>1. PICK label \in {"cert", "listenTLS", "failed", "idle", "writeConfig"} :
           /\ pc' = [pc EXCEPT ![t] = label]
           /\ pc[t] \in {"reload", "cert", "listenTLS"}
           /\ UNCHANGED <<fresh, serverVars, slotVars>>
    BY <1>6 DEF KeepHTTP, ListenFailsHTTP, EnsureCert, EnsureCertFails, KeepHTTPS,
                ListenFailsHTTPS, Reloaded, At, Goto
  <2>2. label \in Labels \ SwapLabels
    BY DEF Labels, SwapLabels, HTTPLabels
  <2>3. \A u \in Threads : u # t => pc[u] = "idle"
    BY <2>1 DEF AloneInv
  <2>4. QED
    BY <2>1, <2>2, <2>3, SwapMove DEF HandoverInv, SwapLabels, HTTPLabels, serverVars
<1>7. QED
  BY <1>1, <1>2, <1>3, <1>4, <1>5, <1>6 DEF ReloadHTTP, ReloadHTTPS

DoorsInv == HandoverInv /\ AloneInv /\ SwapInv

LEMMA DoorsInit == Init => DoorsInv
BY HandoverInit, AloneInit, SwapInit DEF DoorsInv

LEMMA DoorsNext == Serialized /\ DoorsInv /\ [Next]_vars => DoorsInv'
<1> SUFFICES ASSUME Serialized, DoorsInv, [Next]_vars PROVE DoorsInv'
  OBVIOUS
<1>1. HandoverInv' /\ AloneInv'
  BY HandoverNext, AloneNext DEF DoorsInv, HandoverInv
<1>2. CASE UNCHANGED vars
  BY <1>1, <1>2, SwapFrame DEF DoorsInv, vars, threadVars, serverVars
<1>3. CASE Halt
  BY <1>1, <1>3, SwapHalt DEF DoorsInv
<1>4. ASSUME NEW t \in Threads,
             \/ SettingStep(t)
             \/ t \in Handlers /\ (HandlerRequest(t) \/ HandlerStep(t))
             \/ t = Main /\ (ChoosePort \/ UseConfiguredPort \/ HookReload \/ Boot)
      PROVE  SwapInv'
  <2>1. /\ \A u \in Threads : u # t => pc[u] = "idle"
        /\ pc[t] \notin SwapLabels
        /\ UNCHANGED <<fresh, status, addr, slotVars>>
        /\ \E label \in Labels \ SwapLabels : pc' = [pc EXCEPT ![t] = label]
    BY <1>4, OutsideMoves DEF DoorsInv, HandoverInv, serverVars
  <2>2. QED
    BY <2>1, SwapMove DEF DoorsInv, HandoverInv
<1>5. ASSUME NEW t \in Threads, ReloadHTTP(t) \/ ReloadHTTPS(t) PROVE SwapInv'
  BY <1>1, <1>5, SwapReload DEF DoorsInv
<1>6. ASSUME NEW s \in Servers, ServerStep(s) \/ CollectListener(s) PROVE SwapInv'
  BY <1>6, SwapServer DEF DoorsInv
<1>7. ASSUME NEW p \in Ports, Occupy(p) \/ Release(p) PROVE SwapInv'
  BY <1>7, WorldMoves, SwapFrame DEF DoorsInv, threadVars, serverVars
<1>8. QED
  BY <1>1, <1>2, <1>3, <1>4, <1>5, <1>6, <1>7, NextCases DEF DoorsInv

(* With requests one at a time the HTTPS server in use accepts requests at *)
(* every moment of every change, also when a pair does not load: what is   *)
(* published is the server that has answered.                              *)
THEOREM SSLDoorStaysOpen == ASSUME Serialized PROVE Spec => []SSLDoorOpen
<1>1. DoorsInv => SSLDoorOpen
  BY DEF DoorsInv, SwapInv
<1>2. QED
  BY <1>1, DoorsInit, DoorsNext, PTL DEF Spec

(* With requests one at a time both servers are swapped make before break,  *)
(* also when a pair does not load (main.go:504-522, 559-577).               *)
THEOREM SerialHotSwap == ASSUME Serialized PROVE Spec => ImplementsHotSwap
<1>1. Init => TLSSwap!Init
  BY DEF Init, TLSSwap!Init, ServingServers, FreshAt
<1>2. DoorsInv => SSLDoorOpen /\ FreshServes /\ StoppedIdle
  BY DEF DoorsInv, SwapInv, SwapThread, FreshServes, AloneInv, StoppedIdle
<1>3. DoorsInv /\ [Next]_vars => [TLSSwap!Next]_(TLSSwap!vars)
  BY <1>2, SwapNext, SwapForms DEF DoorsInv
<1>4. Spec => TLSSwap!Spec
  BY <1>1, <1>3, DoorsInit, DoorsNext, PTL DEF Spec, TLSSwap!Spec
<1>5. QED
  BY <1>4, HTTPHotSwap DEF ImplementsHotSwap

-----------------------------------------------------------------------------
(* No stray server                                                         *)

(* A server that serves, or will when its goroutine runs, is referred to.  *)
StrayInv == \A s \in Servers : status[s] \in {"bound", "serving"} => Referenced(s)

LEMMA StrayHalt == ASSUME Halt PROVE StrayInv'
BY DEF Halt, StrayInv

LEMMA StrayFrame ==
    ASSUME StrayInv, UNCHANGED <<fresh, status, slotVars>>
    PROVE  StrayInv'
BY DEF StrayInv, Referenced, slotVars

LEMMA StrayReload ==
    ASSUME "probe" \notin Faults, DoorsInv, StrayInv, NEW t \in Threads,
           ReloadHTTP(t) \/ ReloadHTTPS(t)
    PROVE  StrayInv'
<1> USE DEF DoorsInv, HandoverInv, TypeOK, At, slotVars
<1>1. CASE StartHTTP(t) \/ StartHTTPS(t)
  <2>1. PICK s \in Servers : /\ status' = [status EXCEPT ![s] = "bound"]
                             /\ fresh' = [fresh EXCEPT ![t] = s]
    BY <1>1 DEF StartHTTP, StartHTTPS, Started
  <2>2. UNCHANGED <<gateway, sslGateway>> /\ fresh[t] = NoServer
    BY <1>1 DEF StartHTTP, StartHTTPS, SwapInv, SwapThread, SwapLabels, HTTPLabels
  <2>3. QED
    BY <2>1, <2>2, ServerAssumption DEF StrayInv, Referenced
<1>2. CASE StopHTTP(t) \/ StopHTTPS(t)
  <2>1. PICK g \in {gateway, sslGateway} :
           /\ status' = Retired(g) /\ UNCHANGED fresh
           /\ g = gateway => gateway' = NoServer /\ UNCHANGED sslGateway
           /\ g = sslGateway => UNCHANGED gateway /\ sslGateway' = NoServer
    <3>1. gateway = sslGateway => gateway = NoServer
      BY DEF SlotsApart
    <3>2. QED
      BY <1>2, <3>1 DEF StopHTTP, StopHTTPS
  <2>2. g # NoServer => status[g] = "serving"
    BY <1>2, InUseServes DEF StopHTTP, StopHTTPS
  <2>3. \A s \in Servers : s # g => status'[s] = status[s]
    BY <2>1, RetiredSpares
  <2>4. g # NoServer => status'[g] = "retiring"
    BY <2>1, <2>2 DEF Retired, Accepting
  <2>5. QED
    BY <2>1, <2>3, <2>4, ServerAssumption DEF StrayInv, Referenced
<1>3. CASE RetireHTTP(t) \/ RetireHTTPS(t)
  <2>1. PICK g \in {gateway, sslGateway} : status' = Retired(g)
    BY <1>3 DEF RetireHTTP, RetireHTTPS
  <2>2. UNCHANGED <<fresh, slotVars>>
    BY <1>3 DEF RetireHTTP, RetireHTTPS
  <2>3. \A s \in Servers : status'[s] = status[s] \/ status'[s] = "retiring"
    BY <2>1, RetiredSpares
  <2>4. QED
    BY <2>2, <2>3 DEF StrayInv, Referenced
<1>4. CASE PublishHTTP(t)
  <2>1. /\ pc[t] = "httpPublish"
        /\ gateway' = fresh[t] /\ fresh' = [fresh EXCEPT ![t] = NoServer]
        /\ UNCHANGED <<status, sslGateway>>
    BY <1>4 DEF PublishHTTP, serverVars
  <2>2. gateway # NoServer => status[gateway] = "retiring"
    BY <2>1 DEF SwapInv, SwapThread
  <2>3. QED
    BY <2>1, <2>2, ServerAssumption DEF StrayInv, Referenced
<1>5. CASE PublishHTTPS(t)
  <2>1. /\ pc[t] = "httpsPublish"
        /\ sslGateway' = fresh[t] /\ fresh' = [fresh EXCEPT ![t] = NoServer]
        /\ UNCHANGED <<status, gateway>>
    BY <1>5 DEF PublishHTTPS, serverVars
  <2>2. sslGateway # NoServer => status[sslGateway] = "retiring"
    BY <2>1 DEF SwapInv, SwapThread
  <2>3. QED
    BY <2>1, <2>2, ServerAssumption DEF StrayInv, Referenced
<1>6. CASE \/ KeepHTTP(t) \/ ListenFailsHTTP(t) \/ ProbeHTTP(t) \/ EnsureCert(t)
           \/ EnsureCertFails(t) \/ KeepHTTPS(t) \/ ListenFailsHTTPS(t) \/ ProbeHTTPS(t)
           \/ ProbeRetryHTTPS(t)
  BY <1>6, StrayFrame
     DEF KeepHTTP, ListenFailsHTTP, ProbeHTTP, EnsureCert, EnsureCertFails, KeepHTTPS,
         ListenFailsHTTPS, ProbeHTTPS, ProbeRetryHTTPS, serverVars
<1>7. ~ProbePanics(t)
  BY DEF ProbePanics
<1>8. QED
  BY <1>1, <1>2, <1>3, <1>4, <1>5, <1>6, <1>7 DEF ReloadHTTP, ReloadHTTPS

LEMMA StrayNext ==
    ASSUME Serialized, "probe" \notin Faults
    PROVE  DoorsInv /\ StrayInv /\ [Next]_vars => StrayInv'
<1> SUFFICES ASSUME DoorsInv, StrayInv, [Next]_vars PROVE StrayInv'
  OBVIOUS
<1>1. CASE UNCHANGED vars
  BY <1>1, StrayFrame DEF vars, threadVars, serverVars
<1>2. CASE Halt
  BY <1>2, StrayHalt
<1>3. ASSUME NEW t \in Threads,
             \/ SettingStep(t)
             \/ t \in Handlers /\ (HandlerRequest(t) \/ HandlerStep(t))
             \/ t = Main /\ (ChoosePort \/ UseConfiguredPort \/ HookReload \/ Boot)
      PROVE  StrayInv'
  BY <1>3, OutsideMoves, StrayFrame DEF DoorsInv, HandoverInv, serverVars
<1>4. ASSUME NEW t \in Threads, ReloadHTTP(t) \/ ReloadHTTPS(t) PROVE StrayInv'
  BY <1>4, StrayReload
<1>5. ASSUME NEW s \in Servers, ServerStep(s) \/ CollectListener(s) PROVE StrayInv'
  <2>1. UNCHANGED <<fresh, slotVars>>
    BY <1>5, ServerMoves DEF threadVars
  <2>2. /\ \A x \in Servers : x # s => status'[x] = status[x]
        /\ status'[s] \in {"bound", "serving"} => status[s] \in {"bound", "serving"}
    BY <1>5 DEF ServerStep, ServeHTTP, ServeTLS, Shutdown, CollectListener, DoorsInv,
                HandoverInv, TypeOK
  <2>3. QED
    BY <2>1, <2>2 DEF StrayInv, Referenced, slotVars
<1>6. ASSUME NEW p \in Ports, Occupy(p) \/ Release(p) PROVE StrayInv'
  BY <1>6, WorldMoves, StrayFrame DEF threadVars, serverVars
<1>7. QED
  BY <1>1, <1>2, <1>3, <1>4, <1>5, <1>6, NextCases

(* With requests one at a time, and probes that are answered, every server *)
(* that serves is one the process can still shut down.                     *)
THEOREM NoServerStrays ==
    ASSUME Serialized, "probe" \notin Faults
    PROVE  Spec => []NoStrayServer
<1>1. Init => DoorsInv /\ StrayInv
  BY DoorsInit DEF Init, StrayInv
<1>2. DoorsInv /\ StrayInv /\ [Next]_vars => DoorsInv' /\ StrayInv'
  BY DoorsNext, StrayNext
<1>3. StrayInv => NoStrayServer
  BY DEF StrayInv, NoStrayServer
<1>4. QED
  BY <1>1, <1>2, <1>3, PTL DEF Spec
-----------------------------------------------------------------------------
(* The file describes what runs                                            *)

TLSLabels == {"httpsProbe", "httpsRetire", "httpsPublish"}

(* How far a reload has brought what runs in line with the settings.       *)
DescribeThread(t) ==
    /\ pc[t] \in HTTPLabels => mem.port # NoPort /\ addr[fresh[t]] = mem.port
    /\ pc[t] \in {"cert", "listenTLS"} \cup TLSLabels => Running.port = mem.port
    /\ pc[t] \in {"listenTLS"} \cup TLSLabels => HTTPSWanted /\ target[t] = mem.sslPort
    /\ pc[t] \in TLSLabels => addr[fresh[t]] = mem.sslPort
    /\ pc[t] = "writeConfig" /\ t # Main => Running = Described(mem)

DescribeInv == FileDescribesRunning /\ \A t \in Threads : DescribeThread(t)

LEMMA DescribeInit == Init => DescribeInv
BY DEF Init, DescribeInv, DescribeThread, FileDescribesRunning, NoAnswer, HTTPLabels, TLSLabels

LEMMA DescribeHalt == ASSUME Halt PROVE DescribeInv'
BY DEF Halt, DescribeInv, DescribeThread, FileDescribesRunning, NoAnswer, HTTPLabels, TLSLabels

LEMMA DescribeFrame ==
    ASSUME DescribeInv,
           UNCHANGED <<up, hooked, pc, fresh, target, answer, mem, file, addr, slotVars>>
    PROVE  DescribeInv'
BY DEF DescribeInv, DescribeThread, FileDescribesRunning, Quiet, Ready, Running, Described,
       HTTPSWanted, slotVars

(* A thread that is not done: there is no answer to speak of yet. *)
LEMMA NotQuiet ==
    ASSUME NEW t \in Threads, pc'[t] # "idle"
    PROVE  FileDescribesRunning' /\ SSLSettingsApplied'
BY DEF FileDescribesRunning, SSLSettingsApplied, Quiet, Ready, Threads

(* A request that is answered 200 has written the settings in memory, and  *)
(* those describe what runs.                                               *)
LEMMA DescribeWrite ==
    ASSUME Serialized, DoorsInv, DescribeInv, NEW t \in Threads, ConfigWriter(t)
    PROVE  DescribeInv'
<1> USE DEF DoorsInv, HandoverInv, TypeOK, At, Goto
<1>1. PICK label \in {"hook", "idle", "setSSL", "failed"} : pc' = [pc EXCEPT ![t] = label]
  BY DEF ConfigWriter, WriteFails, Ends
<1>2. pc[t] = "writeConfig" /\ UNCHANGED <<addr, slotVars>>
  BY DEF ConfigWriter, serverVars
<1>3. pc'[t] = label /\ \A u \in Threads : u # t => pc[u] = "idle" /\ pc'[u] = "idle"
  BY <1>1, <1>2, Others DEF Labels
<1>4. \A u \in Threads : DescribeThread(u)'
  BY <1>3 DEF DescribeThread, HTTPLabels, TLSLabels
<1>5. CASE label # "idle"
  BY <1>3, <1>4, <1>5, NotQuiet DEF DescribeInv
<1>6. CASE label = "idle"
  <2>1. file' = mem /\ Ends(t, TRUE)
    BY <1>3, <1>6 DEF ConfigWriter, WriteFails
  <2>2. answer'.request = req[t]
    BY <2>1 DEF Ends
  <2>3. CASE t = Main
    <3>1. answer'.request.kind \notin {"port", "ssl"}
      BY <2>2, <2>3 DEF AloneInv
    <3>2. QED
      BY <1>4, <3>1 DEF DescribeInv, FileDescribesRunning
  <2>4. CASE t # Main
    <3>1. Running = Described(mem)
      BY <1>2, <2>4 DEF DescribeInv, DescribeThread
    <3>2. Running' = Described(file')
      BY <1>2, <2>1, <3>1 DEF Running, Described, slotVars
    <3>3. Described(file') = Described(file)'
      BY DEF Described
    <3>4. QED
      BY <1>4, <3>2, <3>3 DEF DescribeInv, FileDescribesRunning
  <2>5. QED
    BY <2>3, <2>4
<1>7. QED
  BY <1>5, <1>6

LEMMA DescribeOutside ==
    ASSUME Serialized, DoorsInv, DescribeInv, NEW t \in Threads,
           \/ SettingStep(t)
           \/ t \in Handlers /\ (HandlerRequest(t) \/ HandlerStep(t))
           \/ t = Main /\ (ChoosePort \/ UseConfiguredPort \/ HookReload \/ Boot)
    PROVE  DescribeInv'
<1> USE DEF DoorsInv, HandoverInv, TypeOK, At, Goto
<1>1. CASE ConfigWriter(t)
  BY <1>1, DescribeWrite
<1>2. CASE ~ConfigWriter(t)
  <2>1. PICK label \in Labels \ SwapLabels :
           /\ pc' = [pc EXCEPT ![t] = label]
           /\ \A u \in Threads : u # t => pc[u] = "idle"
           /\ UNCHANGED <<fresh, serverVars, slotVars>>
    BY OutsideMoves
  <2>2. /\ label \notin {"cert", "listenTLS"}
        /\ label = "writeConfig" => t = Main \/ ~hooked
        /\ pc[t] # "idle" => \/ t = Main \/ hooked
    <3>1. pc'[t] = label
      BY <2>1
    <3>2. pc'[t] \notin {"cert", "listenTLS"} /\ (pc'[t] = "writeConfig" => ~hooked)
      BY <1>2
         DEF SettingStep, PortWriter, SetSSL, Notify, WriteFails, HandlerRequest, PutPort,
             PutSSL, UploadCert, HandlerStep, UploadRejected, UploadAccepted, Refuse,
             Unwind, Ends, ChoosePort, UseConfiguredPort, HookReload, Boot
    <3>3. QED
      BY <3>1, <3>2 DEF AloneInv, Threads
  <2>3. label = "writeConfig" => t = Main
    <3>1. CASE SettingStep(t)
      BY <1>2, <2>2, <3>1 DEF SettingStep, PortWriter, SetSSL
    <3>2. CASE t \in Handlers /\ HandlerRequest(t)
      <4>1. pc' = [pc EXCEPT ![t] = "writePort"] \/ pc' = [pc EXCEPT ![t] = "setSSL"]
            \/ pc' = [pc EXCEPT ![t] = "upload"]
        BY <3>2 DEF HandlerRequest, PutPort, PutSSL, UploadCert
      <4>2. QED
        BY <2>1, <4>1
    <3>3. CASE t \in Handlers /\ HandlerStep(t)
      <4>1. pc' = [pc EXCEPT ![t] = "idle"] \/ pc' = [pc EXCEPT ![t] = "setSSL"]
        BY <3>3 DEF HandlerStep, UploadRejected, UploadAccepted, Refuse, Unwind, Ends
      <4>2. QED
        BY <2>1, <4>1
    <3>4. QED
      BY <3>1, <3>2, <3>3
  <2>4. \A u \in Threads : DescribeThread(u)'
    BY <2>1, <2>2, <2>3 DEF DescribeThread, SwapLabels, HTTPLabels, TLSLabels
  <2>5. CASE label # "idle"
    BY <2>1, <2>4, <2>5, NotQuiet DEF DescribeInv
  <2>6. CASE label = "idle"
    <3>1. t \in Handlers /\ HandlerStep(t)
      BY <1>2, <2>1, <2>6
         DEF SettingStep, PortWriter, SetSSL, Notify, WriteFails, HandlerRequest, PutPort,
             PutSSL, UploadCert, ChoosePort, UseConfiguredPort, HookReload, Boot
    <3>2. \/ Ends(t, FALSE)
          \/ Ends(t, TRUE) /\ pc[t] = "upload"
      BY <2>1, <2>6, <3>1 DEF HandlerStep, UploadRejected, UploadAccepted, Refuse, Unwind
    <3>3. ~answer'.ok \/ answer'.request.kind = "upload"
      BY <3>2 DEF Ends, AloneInv
    <3>4. QED
      BY <2>4, <3>3 DEF DescribeInv, FileDescribesRunning
  <2>7. QED
    BY <2>5, <2>6
<1>3. QED
  BY <1>1, <1>2

LEMMA DescribeHTTP ==
    ASSUME DoorsInv, DescribeInv, NEW t \in Threads, ReloadHTTP(t)
    PROVE  DescribeInv'
<1> USE DEF DoorsInv, HandoverInv, TypeOK, At, Goto
<1>1. PICK label \in {"cert", "httpProbe", "failed", "httpRetire", "panicked", "httpPublish"} :
         /\ pc' = [pc EXCEPT ![t] = label]
         /\ pc[t] \in {"reload"} \cup HTTPLabels
         /\ UNCHANGED mem
  BY DEF ReloadHTTP, StopHTTP, KeepHTTP, StartHTTP, ListenFailsHTTP, ProbeHTTP,
         ProbePanics, RetireHTTP, PublishHTTP, HTTPLabels, settingsVars
<1>2. pc'[t] = label /\ \A u \in Threads : u # t => pc[u] = "idle" /\ pc'[u] = "idle"
  BY <1>1, Others DEF Labels, HTTPLabels
<1>3. \A u \in Threads : u # t => DescribeThread(u)'
  BY <1>2 DEF DescribeThread, HTTPLabels, TLSLabels
<1>4. label \in HTTPLabels => mem.port # NoPort /\ addr'[fresh'[t]] = mem.port
  <2>1. CASE StartHTTP(t)
    BY <2>1 DEF StartHTTP, Started
  <2>2. CASE ProbeHTTP(t) \/ RetireHTTP(t)
    BY <2>2 DEF ProbeHTTP, RetireHTTP, DescribeInv, DescribeThread, HTTPLabels, serverVars
  <2>3. CASE StopHTTP(t) \/ KeepHTTP(t) \/ ListenFailsHTTP(t) \/ ProbePanics(t) \/ PublishHTTP(t)
    BY <1>2, <2>3
       DEF StopHTTP, KeepHTTP, ListenFailsHTTP, ProbePanics, PublishHTTP, HTTPLabels
  <2>4. QED
    BY <2>1, <2>2, <2>3 DEF ReloadHTTP
<1>5. label = "cert" => Running'.port = mem.port
  <2>1. CASE StopHTTP(t)
    BY <2>1 DEF StopHTTP, Running
  <2>2. CASE KeepHTTP(t)
    BY <2>2 DEF KeepHTTP, HTTPRuns, Running, serverVars, slotVars
  <2>3. CASE PublishHTTP(t)
    <3>1. /\ fresh[t] \in Servers /\ fresh[t] # NoServer
          /\ addr[fresh[t]] = mem.port
      BY <2>3, ServerAssumption
         DEF PublishHTTP, HTTPHandover, DescribeInv, DescribeThread, HTTPLabels
    <3>2. QED
      BY <2>3, <3>1 DEF PublishHTTP, Running, serverVars
  <2>4. CASE \/ StartHTTP(t) \/ ListenFailsHTTP(t) \/ ProbeHTTP(t) \/ ProbePanics(t)
             \/ RetireHTTP(t)
    BY <1>2, <2>4 DEF StartHTTP, ListenFailsHTTP, ProbeHTTP, ProbePanics, RetireHTTP
  <2>5. QED
    BY <2>1, <2>2, <2>3, <2>4 DEF ReloadHTTP
<1>6. DescribeThread(t)'
  BY <1>1, <1>2, <1>4, <1>5 DEF DescribeThread, HTTPLabels, TLSLabels
<1>7. QED
  BY <1>2, <1>3, <1>6, NotQuiet DEF DescribeInv

LEMMA DescribeHTTPS ==
    ASSUME DoorsInv, DescribeInv, NEW t \in Threads, ReloadHTTPS(t)
    PROVE  DescribeInv'
<1> USE DEF DoorsInv, HandoverInv, TypeOK, At, Goto, Reloaded
<1>1. PICK label \in {"idle", "writeConfig", "listenTLS", "failed"} \cup TLSLabels :
         /\ pc' = [pc EXCEPT ![t] = label]
         /\ pc[t] \in {"cert", "listenTLS"} \cup TLSLabels
         /\ UNCHANGED <<mem, gateway>>
         /\ label = "idle" => req[t].kind = "boot"
  <2>1. CASE StopHTTPS(t) \/ EnsureCert(t) \/ EnsureCertFails(t) \/ KeepHTTPS(t)
    BY <2>1 DEF StopHTTPS, EnsureCert, EnsureCertFails, KeepHTTPS, settingsVars, slotVars
  <2>2. CASE StartHTTPS(t) \/ ListenFailsHTTPS(t) \/ ProbeHTTPS(t) \/ RetireHTTPS(t)
    BY <2>2 DEF StartHTTPS, ListenFailsHTTPS, ProbeHTTPS, RetireHTTPS, TLSLabels,
                settingsVars, slotVars
  <2>3. CASE ProbeRetryHTTPS(t)
    <3>1. pc' = [pc EXCEPT ![t] = "httpsProbe"]
      BY <2>3 DEF ProbeRetryHTTPS
    <3>2. QED
      BY <2>3, <3>1 DEF ProbeRetryHTTPS, TLSLabels, settingsVars, slotVars
  <2>4. CASE PublishHTTPS(t)
    <3>1. UNCHANGED <<mem, gateway>> /\ pc[t] \in TLSLabels
      BY <2>4 DEF PublishHTTPS, TLSLabels, settingsVars
    <3>2. CASE req[t].kind = "boot"
      BY <2>4, <3>1, <3>2 DEF PublishHTTPS
    <3>3. CASE req[t].kind # "boot"
      <4>1. pc' = [pc EXCEPT ![t] = "writeConfig"]
        BY <2>4, <3>3 DEF PublishHTTPS
      <4>2. QED
        BY <3>1, <4>1 DEF TLSLabels
    <3>4. QED
      BY <3>2, <3>3
  <2>5. QED
    BY <2>1, <2>2, <2>3, <2>4 DEF ReloadHTTPS
<1>2. pc'[t] = label /\ \A u \in Threads : u # t => pc[u] = "idle" /\ pc'[u] = "idle"
  BY <1>1, Others DEF Labels, TLSLabels
<1>3. \A u \in Threads : u # t => DescribeThread(u)'
  BY <1>2 DEF DescribeThread, HTTPLabels, TLSLabels
<1>4. Running.port = mem.port /\ (pc[t] # "cert" => HTTPSWanted /\ target[t] = mem.sslPort)
  BY <1>1 DEF DescribeInv, DescribeThread
<1>5. Running'.port = mem.port
  <2>1. gateway # NoServer => addr'[gateway] = addr[gateway]
    <3>1. CASE StartHTTPS(t)
      BY <3>1 DEF StartHTTPS, Started, NextServer, FreeServers, Referenced
    <3>2. CASE ~StartHTTPS(t)
      BY <3>2 DEF ReloadHTTPS, StopHTTPS, EnsureCert, EnsureCertFails, KeepHTTPS,
                  ListenFailsHTTPS, ProbeHTTPS, ProbeRetryHTTPS, RetireHTTPS,
                  PublishHTTPS, serverVars
    <3>3. QED
      BY <3>1, <3>2
  <2>2. QED
    BY <1>1, <1>4, <2>1 DEF Running
<1>6. label \in {"listenTLS"} \cup TLSLabels => HTTPSWanted' /\ target'[t] = mem.sslPort
  <2>1. CASE EnsureCert(t)
    BY <1>1, <2>1 DEF EnsureCert, HTTPSWanted
  <2>2. CASE \/ StartHTTPS(t) \/ ProbeHTTPS(t) \/ ProbeRetryHTTPS(t) \/ RetireHTTPS(t)
    BY <1>1, <1>4, <2>2
       DEF StartHTTPS, ProbeHTTPS, ProbeRetryHTTPS, RetireHTTPS, HTTPSWanted
  <2>3. CASE \/ StopHTTPS(t) \/ EnsureCertFails(t) \/ KeepHTTPS(t) \/ ListenFailsHTTPS(t)
             \/ PublishHTTPS(t)
    BY <1>2, <2>3
       DEF StopHTTPS, EnsureCertFails, KeepHTTPS, ListenFailsHTTPS, PublishHTTPS, TLSLabels
  <2>4. QED
    BY <2>1, <2>2, <2>3 DEF ReloadHTTPS
<1>7. label \in TLSLabels => addr'[fresh'[t]] = mem.sslPort
  <2>1. CASE StartHTTPS(t)
    BY <1>4, <2>1 DEF StartHTTPS, Started
  <2>2. CASE ProbeHTTPS(t) \/ ProbeRetryHTTPS(t) \/ RetireHTTPS(t)
    BY <2>2 DEF ProbeHTTPS, ProbeRetryHTTPS, RetireHTTPS, DescribeInv, DescribeThread,
                TLSLabels, serverVars
  <2>3. CASE \/ StopHTTPS(t) \/ EnsureCert(t) \/ EnsureCertFails(t) \/ KeepHTTPS(t)
             \/ ListenFailsHTTPS(t) \/ PublishHTTPS(t)
    BY <1>2, <2>3
       DEF StopHTTPS, EnsureCert, EnsureCertFails, KeepHTTPS, ListenFailsHTTPS,
           PublishHTTPS, TLSLabels
  <2>4. QED
    BY <2>1, <2>2, <2>3 DEF ReloadHTTPS
<1>8. label = "writeConfig" => Running' = Described(mem)
  <2>1. Described(mem) = [port    |-> mem.port,
                          sslPort |-> IF mem.enabled THEN mem.sslPort ELSE NoPort]
    BY DEF Described
  <2>2. Running' = [port    |-> Running'.port,
                    sslPort |-> IF sslGateway' = NoServer THEN NoPort ELSE addr'[sslGateway']]
    BY DEF Running
  <2>3. CASE StopHTTPS(t)
    BY <1>5, <2>1, <2>2, <2>3 DEF StopHTTPS, HTTPSWanted
  <2>4. CASE KeepHTTPS(t)
    BY <1>4, <1>5, <2>1, <2>2, <2>4
       DEF KeepHTTPS, HTTPSRuns, HTTPSWanted, serverVars, slotVars
  <2>5. CASE PublishHTTPS(t)
    <3>1. fresh[t] # NoServer /\ addr[fresh[t]] = mem.sslPort
      BY <2>5, ServerAssumption
         DEF PublishHTTPS, HTTPSHandover, DescribeInv, DescribeThread, TLSLabels
    <3>2. sslGateway' # NoServer /\ addr'[sslGateway'] = mem.sslPort
      BY <2>5, <3>1 DEF PublishHTTPS, serverVars
    <3>3. mem.enabled
      BY <1>4, <2>5 DEF PublishHTTPS, HTTPSWanted
    <3>4. QED
      BY <1>5, <2>1, <2>2, <3>2, <3>3
  <2>6. CASE \/ EnsureCert(t) \/ EnsureCertFails(t) \/ StartHTTPS(t) \/ ListenFailsHTTPS(t)
             \/ ProbeHTTPS(t) \/ ProbeRetryHTTPS(t) \/ RetireHTTPS(t)
    BY <1>2, <2>6
       DEF EnsureCert, EnsureCertFails, StartHTTPS, ListenFailsHTTPS, ProbeHTTPS,
           ProbeRetryHTTPS, RetireHTTPS
  <2>7. QED
    BY <2>3, <2>4, <2>5, <2>6 DEF ReloadHTTPS
<1>9. DescribeThread(t)'
  <2>1. Described(mem)' = Described(mem)
    BY <1>1 DEF Described
  <2>2. QED
    BY <1>1, <1>2, <1>5, <1>6, <1>7, <1>8, <2>1 DEF DescribeThread, HTTPLabels, TLSLabels
<1>10. CASE label # "idle"
  BY <1>2, <1>3, <1>9, <1>10, NotQuiet DEF DescribeInv
<1>11. CASE label = "idle"
  <2>1. t = Main
    BY <1>1, <1>11 DEF AloneInv, Threads
  <2>2. pc[Main] # "idle" /\ answer' = answer
    BY <1>1, <2>1, ReloadMoves DEF TLSLabels
  <2>3. ~answer'.ok
    BY <2>2 DEF AloneInv
  <2>4. QED
    BY <1>3, <1>9, <2>3 DEF DescribeInv, FileDescribesRunning
<1>12. QED
  BY <1>10, <1>11

(* A server that stops is neither in use nor about to be. *)
LEMMA DescribeServer ==
    ASSUME DoorsInv, DescribeInv, NEW s \in Servers, ServerStep(s) \/ CollectListener(s)
    PROVE  DescribeInv'
<1> USE DEF DoorsInv, HandoverInv, TypeOK
<1>1. UNCHANGED <<up, hooked, pc, fresh, target, answer, mem, file, gateway, sslGateway>>
  BY ServerMoves DEF threadVars, settingsVars, slotVars
<1>2. \/ addr' = addr
      \/ /\ status[s] = "retiring"
         /\ s \notin {gateway, sslGateway}
         /\ \A x \in Servers : x # s => addr'[x] = addr[x]
  BY DEF ServerStep, ServeHTTP, ServeTLS, Shutdown, CollectListener
<1>3. UNCHANGED Running
  BY <1>1, <1>2 DEF Running
<1>4. ASSUME NEW t \in Threads, pc[t] \in HTTPLabels \cup TLSLabels
      PROVE  addr'[fresh[t]] = addr[fresh[t]]
  BY <1>2, <1>4 DEF HTTPHandover, HTTPSHandover, HTTPLabels, TLSLabels
<1>5. ASSUME NEW t \in Threads PROVE DescribeThread(t)'
  <2>1. HTTPSWanted' = HTTPSWanted /\ Described(mem)' = Described(mem)
    BY <1>1 DEF HTTPSWanted, Described
  <2>2. QED
    BY <1>1, <1>3, <1>4, <2>1 DEF DescribeInv, DescribeThread
<1>6. FileDescribesRunning'
  BY <1>1, <1>3 DEF DescribeInv, FileDescribesRunning, Quiet, Ready, Described
<1>7. QED
  BY <1>5, <1>6 DEF DescribeInv

LEMMA DescribeNext ==
    ASSUME Serialized PROVE DoorsInv /\ DescribeInv /\ [Next]_vars => DescribeInv'
<1> SUFFICES ASSUME DoorsInv, DescribeInv, [Next]_vars PROVE DescribeInv'
  OBVIOUS
<1>1. CASE UNCHANGED vars
  BY <1>1, DescribeFrame DEF vars, threadVars, serverVars, settingsVars
<1>2. CASE Halt
  BY <1>2, DescribeHalt
<1>3. ASSUME NEW t \in Threads,
             \/ SettingStep(t)
             \/ t \in Handlers /\ (HandlerRequest(t) \/ HandlerStep(t))
             \/ t = Main /\ (ChoosePort \/ UseConfiguredPort \/ HookReload \/ Boot)
      PROVE  DescribeInv'
  BY <1>3, DescribeOutside
<1>4. ASSUME NEW t \in Threads, ReloadHTTP(t) \/ ReloadHTTPS(t) PROVE DescribeInv'
  BY <1>4, DescribeHTTP, DescribeHTTPS
<1>5. ASSUME NEW s \in Servers, ServerStep(s) \/ CollectListener(s) PROVE DescribeInv'
  BY <1>5, DescribeServer
<1>6. ASSUME NEW p \in Ports, Occupy(p) \/ Release(p) PROVE DescribeInv'
  BY <1>6, WorldMoves, DescribeFrame DEF threadVars, serverVars, settingsVars
<1>7. QED
  BY <1>1, <1>2, <1>3, <1>4, <1>5, <1>6, NextCases

(* With requests one at a time, a change answered 200 leaves gateway.ini   *)
(* describing the servers that run.                                        *)
THEOREM FileStaysTrue == ASSUME Serialized PROVE Spec => []FileDescribesRunning
<1>1. Init => DoorsInv /\ DescribeInv
  BY DoorsInit, DescribeInit
<1>2. DoorsInv /\ DescribeInv /\ [Next]_vars => DoorsInv' /\ DescribeInv'
  BY DoorsNext, DescribeNext
<1>3. DescribeInv => FileDescribesRunning
  BY DEF DescribeInv
<1>4. QED
  BY <1>1, <1>2, <1>3, PTL DEF Spec

-----------------------------------------------------------------------------
(* The settings of an answered request hold                                *)

(* The first n setters of SetSSLConfig have assigned what was asked. *)
Assigned(want, n) ==
    /\ n >= 1 => mem.enabled = want.enabled
    /\ n >= 2 => mem.sslPort = want.sslPort
    /\ n >= 4 => mem.certType = want.certType

(* Nobody else assigns between two setters of a request. *)
AppliedThread(t) ==
    /\ t # Main /\ pc[t] = "idle" => round[t] = 1
    /\ pc[t] = "writePort" => req[t].kind # "ssl"
    /\ pc[t] = "setSSL" /\ req[t].kind = "ssl" => Assigned(req[t].want, round[t] - 1)
    /\ pc[t] \in ReloadLabels \cup {"writeConfig"} /\ req[t].kind = "ssl" =>
         Assigned(req[t].want, round[t])

AppliedInv == SSLSettingsApplied /\ \A t \in Threads : AppliedThread(t)

LEMMA AppliedInit == Init => AppliedInv
BY DEF Init, AppliedInv, AppliedThread, SSLSettingsApplied, NoAnswer, ReloadLabels,
       SwapLabels, HTTPLabels

LEMMA AppliedHalt == ASSUME Halt PROVE AppliedInv'
BY DEF Halt, AppliedInv, AppliedThread, SSLSettingsApplied, NoAnswer, ReloadLabels,
       SwapLabels, HTTPLabels

LEMMA AppliedFrame ==
    ASSUME AppliedInv, UNCHANGED <<up, hooked, pc, req, round, mem, file, answer>>
    PROVE  AppliedInv'
<1>1. SSLSettingsApplied'
  BY DEF AppliedInv, SSLSettingsApplied, Quiet, Ready
<1>2. \A t \in Threads : AppliedThread(t)'
  BY DEF AppliedInv, AppliedThread, Assigned
<1>3. QED
  BY <1>1, <1>2 DEF AppliedInv

(* The threads that do not work have nothing assigned. *)
LEMMA AppliedOthers ==
    ASSUME TypeOK, AloneInv, AppliedInv, NEW t \in Threads,
           \A u \in Threads : u # t => pc[u] = "idle",
           NEW label \in Labels, pc' = [pc EXCEPT ![t] = label],
           NEW n \in 1 .. 4, round' = [round EXCEPT ![t] = n]
    PROVE  \A u \in Threads : u # t => AppliedThread(u)'
BY DEF AppliedInv, AppliedThread, ReloadLabels, SwapLabels, HTTPLabels, TypeOK

LEMMA AppliedReload ==
    ASSUME TypeOK, AloneInv, AppliedInv, NEW t \in Threads, ReloadHTTP(t) \/ ReloadHTTPS(t)
    PROVE  AppliedInv'
<1> USE DEF TypeOK
<1>1. PICK label \in ReloadLabels \cup {"idle", "writeConfig", "failed", "panicked"} :
         /\ pc' = [pc EXCEPT ![t] = label]
         /\ label = "idle" => req[t].kind = "boot"
  BY ReloadMoves
<1>2. /\ pc[t] \in ReloadLabels /\ up
      /\ UNCHANGED <<mem, file, req, round, answer>>
  BY ReloadMoves DEF settingsVars
<1>3. label \in Labels /\ pc[t] # "idle"
  BY <1>2 DEF Labels, ReloadLabels, SwapLabels, HTTPLabels
<1>4. pc'[t] = label /\ \A u \in Threads : u # t => pc[u] = "idle" /\ pc'[u] = "idle"
  BY <1>1, <1>3, Others
<1>5. \A u \in Threads : u # t => AppliedThread(u)'
  BY <1>2, <1>4 DEF AppliedInv, AppliedThread, ReloadLabels, SwapLabels, HTTPLabels
<1>6. AppliedThread(t)'
  <2>1. label = "idle" => t = Main
    BY <1>1 DEF AloneInv, Threads
  <2>2. req[t].kind = "ssl" => Assigned(req[t].want, round[t])
    BY <1>2 DEF AppliedInv, AppliedThread
  <2>3. req[t].kind = "ssl" => Assigned(req[t].want, round[t])'
    BY <1>2, <2>2 DEF Assigned
  <2>4. label \notin {"writePort", "setSSL"}
    BY DEF ReloadLabels, SwapLabels, HTTPLabels
  <2>5. QED
    BY <1>2, <1>4, <2>1, <2>3, <2>4 DEF AppliedThread
<1>7. SSLSettingsApplied'
  <2>1. CASE label = "idle"
    <3>1. t = Main
      BY <1>1, <2>1 DEF AloneInv, Threads
    <3>2. QED
      BY <1>2, <1>3, <3>1 DEF AloneInv, SSLSettingsApplied
  <2>2. CASE label # "idle"
    BY <1>4, <2>2, NotQuiet
  <2>3. QED
    BY <2>1, <2>2
<1>8. QED
  BY <1>5, <1>6, <1>7 DEF AppliedInv

LEMMA AppliedWrite ==
    ASSUME Serialized, TypeOK, AloneInv, AppliedInv, NEW t \in Threads, ConfigWriter(t)
    PROVE  AppliedInv'
<1> USE DEF TypeOK, At, Goto
<1>1. PICK label \in {"hook", "idle", "setSSL", "failed"} : pc' = [pc EXCEPT ![t] = label]
  BY DEF ConfigWriter, WriteFails, Ends
<1>2. PICK n \in 1 .. 4 : round' = [round EXCEPT ![t] = n]
  <2>1. \/ round' = round
        \/ round' = [round EXCEPT ![t] = 1]
        \/ round[t] < 4 /\ round' = [round EXCEPT ![t] = round[t] + 1]
    BY DEF ConfigWriter, Ends, Setters
  <2>2. round = [round EXCEPT ![t] = round[t]]
    OBVIOUS
  <2>3. QED
    BY <2>1, <2>2
<1>3. pc[t] = "writeConfig"
  BY DEF ConfigWriter
<1>4. pc'[t] = label /\ \A u \in Threads : u # t => pc[u] = "idle"
  BY <1>1, <1>3, Others DEF Labels
<1>5. \A u \in Threads : u # t => AppliedThread(u)'
  BY <1>1, <1>2, <1>4, AppliedOthers DEF Labels
<1>6. req[t].kind = "ssl" => Assigned(req[t].want, round[t])
  BY <1>3 DEF AppliedInv, AppliedThread
<1>7. AppliedThread(t)'
  <2>1. CASE label = "setSSL"
    <3>1. round' = [round EXCEPT ![t] = round[t] + 1] /\ UNCHANGED <<mem, req>>
      BY <1>4, <2>1 DEF ConfigWriter, WriteFails, Ends
    <3>2. round'[t] - 1 = round[t]
      BY <3>1
    <3>3. QED
      BY <1>4, <1>6, <2>1, <3>1, <3>2
         DEF AppliedThread, Assigned, ReloadLabels, SwapLabels, HTTPLabels
  <2>2. CASE label = "idle"
    <3>1. round'[t] = 1
      BY <1>4, <2>2 DEF ConfigWriter, WriteFails, Ends
    <3>2. QED
      BY <1>4, <2>2, <3>1 DEF AppliedThread, ReloadLabels, SwapLabels, HTTPLabels
  <2>3. CASE label \in {"hook", "failed"}
    BY <1>4, <2>3 DEF AppliedThread, ReloadLabels, SwapLabels, HTTPLabels
  <2>4. QED
    BY <2>1, <2>2, <2>3
<1>8. SSLSettingsApplied'
  <2>1. CASE label # "idle"
    BY <1>4, <2>1, NotQuiet
  <2>2. CASE label = "idle"
    <3>1. file' = mem /\ Ends(t, TRUE)
      BY <1>4, <2>2 DEF ConfigWriter, WriteFails
    <3>2. answer'.request = req[t]
      BY <3>1 DEF Ends
    <3>3. CASE req[t].kind = "ssl"
      <4>1. mem' = mem /\ round[t] = 4
        BY <1>4, <2>2, <3>3 DEF ConfigWriter, WriteFails, Setters
      <4>2. QED
        BY <1>6, <3>1, <3>2, <3>3, <4>1 DEF SSLSettingsApplied, Assigned
    <3>4. CASE req[t].kind # "ssl"
      BY <3>2, <3>4 DEF SSLSettingsApplied
    <3>5. QED
      BY <3>3, <3>4
  <2>3. QED
    BY <2>1, <2>2
<1>9. QED
  BY <1>5, <1>7, <1>8 DEF AppliedInv

LEMMA AppliedOutside ==
    ASSUME Serialized, TypeOK, AloneInv, AppliedInv, NEW t \in Threads,
           \/ SettingStep(t)
           \/ t \in Handlers /\ (HandlerRequest(t) \/ HandlerStep(t))
           \/ t = Main /\ (ChoosePort \/ UseConfiguredPort \/ HookReload \/ Boot)
    PROVE  AppliedInv'
<1> USE DEF TypeOK, At, Goto, ReloadLabels, SwapLabels, HTTPLabels
<1>1. CASE ConfigWriter(t)
  BY <1>1, AppliedWrite
<1>2. CASE PortWriter(t) \/ SetSSL(t)
  <2>1. PICK label \in {"reload", "writeConfig", "failed"} : pc' = [pc EXCEPT ![t] = label]
    BY <1>2 DEF PortWriter, SetSSL, Notify, WriteFails
  <2>2. /\ \A u \in Threads : u # t => pc[u] = "idle"
        /\ pc'[t] = label /\ UNCHANGED <<req, round>>
    BY <1>2, <2>1 DEF PortWriter, SetSSL, AloneInv
  <2>3. \A u \in Threads : u # t => AppliedThread(u)'
    <3>1. \A u \in Threads : u # t => pc'[u] = "idle" /\ pc[u] = "idle"
      BY <2>1, <2>2
    <3>2. QED
      BY <2>2, <3>1 DEF AppliedInv, AppliedThread
  <2>4. req[t].kind = "ssl" => Assigned(req[t].want, round[t])'
    <3>1. CASE PortWriter(t)
      BY <3>1 DEF PortWriter, AppliedInv, AppliedThread
    <3>2. CASE SetSSL(t)
      <4>1. req[t].kind = "ssl" => Assigned(req[t].want, round[t] - 1)
        BY <3>2 DEF SetSSL, AppliedInv, AppliedThread
      <4>2. QED
        BY <2>2, <3>2, <4>1 DEF SetSSL, Assigned, Settings
    <3>3. QED
      BY <1>2, <3>1, <3>2
  <2>5. AppliedThread(t)'
    BY <2>2, <2>4 DEF AppliedThread
  <2>6. QED
    BY <2>2, <2>3, <2>5, NotQuiet DEF AppliedInv
<1>3. CASE t \in Handlers /\ HandlerRequest(t)
  <2>1. PICK label \in {"writePort", "setSSL", "upload"} :
           /\ pc' = [pc EXCEPT ![t] = label]
           /\ label = "writePort" => req'[t].kind = "port"
    BY <1>3 DEF HandlerRequest, PutPort, PutSSL, UploadCert, Receive
  <2>2. /\ \A u \in Threads : u # t => pc[u] = "idle"
        /\ pc[t] = "idle" /\ pc'[t] = label
        /\ t # Main
        /\ UNCHANGED round
    BY <1>3, <2>1, MainThread
       DEF HandlerRequest, PutPort, PutSSL, UploadCert, Receive, MayRequest, Quiet, Ready,
           Threads
  <2>3. \A u \in Threads : u # t => AppliedThread(u)'
    <3>1. \A u \in Threads : u # t => pc'[u] = "idle" /\ pc[u] = "idle"
      BY <2>1, <2>2
    <3>2. QED
      BY <2>2, <3>1 DEF AppliedInv, AppliedThread
  <2>4. round[t] = 1
    BY <2>2 DEF AppliedInv, AppliedThread
  <2>5. AppliedThread(t)'
    BY <2>1, <2>2, <2>4 DEF AppliedThread, Assigned
  <2>6. QED
    BY <2>2, <2>3, <2>5, NotQuiet DEF AppliedInv
<1>4. CASE t \in Handlers /\ HandlerStep(t)
  <2>1. PICK label \in {"idle", "setSSL"} :
           /\ pc' = [pc EXCEPT ![t] = label]
           /\ label = "setSSL" => UploadAccepted(t) /\ UNCHANGED round
           /\ label = "idle" => \/ Ends(t, FALSE)
                                \/ Ends(t, TRUE) /\ UploadAccepted(t)
    BY <1>4 DEF HandlerStep, UploadRejected, UploadAccepted, Refuse, Unwind, Ends
  <2>2. /\ \A u \in Threads : u # t => pc[u] = "idle"
        /\ pc'[t] = label
    BY <1>4, <2>1
       DEF HandlerStep, UploadRejected, UploadAccepted, Refuse, Unwind, AloneInv
  <2>3. \A u \in Threads : u # t => AppliedThread(u)'
    <3>1. \A u \in Threads : u # t => pc'[u] = "idle" /\ pc[u] = "idle" /\ round'[u] = round[u]
      BY <2>1, <2>2 DEF Ends
    <3>2. QED
      BY <3>1 DEF AppliedInv, AppliedThread
  <2>4. CASE label = "setSSL"
    <3>1. pc[t] = "upload" /\ req' = [req EXCEPT ![t].want = [mem EXCEPT !.certType = "custom"]]
      BY <2>1, <2>2, <2>4 DEF UploadAccepted, Ends
    <3>2. req'[t].kind = "upload"
      BY <3>1 DEF AloneInv, Requests
    <3>3. AppliedThread(t)'
      BY <2>2, <2>4, <3>2 DEF AppliedThread
    <3>4. QED
      BY <2>2, <2>3, <2>4, <3>3, NotQuiet DEF AppliedInv
  <2>5. CASE label = "idle"
    <3>1. AppliedThread(t)'
      BY <2>1, <2>2, <2>5 DEF AppliedThread, Ends
    <3>2. ~answer'.ok \/ answer'.request.kind = "upload"
      BY <2>1, <2>5 DEF Ends, UploadAccepted, AloneInv
    <3>3. QED
      BY <2>3, <3>1, <3>2 DEF AppliedInv, SSLSettingsApplied
  <2>6. QED
    BY <2>4, <2>5
<1>5. CASE t = Main /\ (ChoosePort \/ UseConfiguredPort \/ HookReload \/ Boot)
  <2>1. PICK label \in {"writePort", "hook", "reload", "boot"} :
           /\ pc' = [pc EXCEPT ![t] = label]
           /\ UNCHANGED round
    BY <1>5 DEF ChoosePort, UseConfiguredPort, HookReload, Boot
  <2>2. /\ \A u \in Threads : u # t => pc[u] = "idle"
        /\ pc'[t] = label
    BY <1>5, <2>1 DEF ChoosePort, UseConfiguredPort, HookReload, Boot, AloneInv
  <2>3. \A u \in Threads : u # t => AppliedThread(u)'
    <3>1. \A u \in Threads : u # t => pc'[u] = "idle" /\ pc[u] = "idle"
      BY <2>1, <2>2
    <3>2. QED
      BY <2>1, <3>1 DEF AppliedInv, AppliedThread
  <2>4. req'[t].kind # "ssl"
    BY <1>5 DEF ChoosePort, UseConfiguredPort, HookReload, Boot, AloneInv
  <2>5. AppliedThread(t)'
    BY <1>5, <2>2, <2>4 DEF AppliedThread
  <2>6. QED
    BY <2>2, <2>3, <2>5, NotQuiet DEF AppliedInv
<1>6. QED
  BY <1>1, <1>2, <1>3, <1>4, <1>5 DEF SettingStep

LEMMA AppliedNext ==
    ASSUME Serialized PROVE DoorsInv /\ AppliedInv /\ [Next]_vars => AppliedInv'
<1> SUFFICES ASSUME DoorsInv, AppliedInv, [Next]_vars PROVE AppliedInv'
  OBVIOUS
<1> USE DEF DoorsInv, HandoverInv
<1>1. CASE UNCHANGED vars
  BY <1>1, AppliedFrame DEF vars, threadVars, settingsVars
<1>2. CASE Halt
  BY <1>2, AppliedHalt
<1>3. ASSUME NEW t \in Threads,
             \/ SettingStep(t)
             \/ t \in Handlers /\ (HandlerRequest(t) \/ HandlerStep(t))
             \/ t = Main /\ (ChoosePort \/ UseConfiguredPort \/ HookReload \/ Boot)
      PROVE  AppliedInv'
  BY <1>3, AppliedOutside
<1>4. ASSUME NEW t \in Threads, ReloadHTTP(t) \/ ReloadHTTPS(t) PROVE AppliedInv'
  BY <1>4, AppliedReload
<1>5. ASSUME NEW s \in Servers, ServerStep(s) \/ CollectListener(s) PROVE AppliedInv'
  BY <1>5, ServerMoves, AppliedFrame DEF threadVars, settingsVars
<1>6. ASSUME NEW p \in Ports, Occupy(p) \/ Release(p) PROVE AppliedInv'
  BY <1>6, WorldMoves, AppliedFrame DEF threadVars, settingsVars
<1>7. QED
  BY <1>1, <1>2, <1>3, <1>4, <1>5, <1>6, NextCases

(* With requests one at a time, a PUT of the SSL settings answered 200 has *)
(* made every one of them hold, though SetSSLConfig runs every callback    *)
(* after each of its four assignments.                                     *)
THEOREM SSLSettingsHold == ASSUME Serialized PROVE Spec => []SSLSettingsApplied
<1>1. Init => DoorsInv /\ AppliedInv
  BY DoorsInit, AppliedInit
<1>2. DoorsInv /\ AppliedInv /\ [Next]_vars => DoorsInv' /\ AppliedInv'
  BY DoorsNext, AppliedNext
<1>3. AppliedInv => SSLSettingsApplied
  BY DEF AppliedInv
<1>4. QED
  BY <1>1, <1>2, <1>3, PTL DEF Spec
=============================================================================
