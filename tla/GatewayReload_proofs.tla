----------------------- MODULE GatewayReload_proofs ------------------------
(* Proofs about GatewayReload, for every value of its constants. *)
EXTENDS GatewayReload, TLAPS

(* The default settings are settings, so that a reset stays well typed. *)
LEMMA DefaultsTyped ==
    /\ DefaultSettings \in Settings
    /\ NoRequest \in Requests
    /\ NoAnswer \in Answers
    /\ RetryLimit \in 0 .. RetryWrap - 1
BY PortAssumption, BoundAssumption
   DEF DefaultSettings, Settings, PortText, NoRequest, Requests, NoAnswer, Answers

(* The end of the process leaves every variable it resets well typed. *)
LEMMA HaltTyped ==
    ASSUME TypeOK, Halt, file' \in Settings, pair' = pair,
           foreign' = foreign, crashes' \in 0 .. MaxCrashes
    PROVE  TypeOK'
<1> USE DEF Halt
<1>1. up' \in BOOLEAN /\ hooked' \in BOOLEAN
  OBVIOUS
<1>2. mem' \in Settings /\ cfg' \in Settings /\ answer' \in Answers
  BY DefaultsTyped
<1>3. pc' \in [Threads -> Labels] /\ round' \in [Threads -> 1 .. 4]
  BY DEF Labels
<1>4. req' \in [Threads -> Requests] /\ retries' \in [Threads -> 0 .. RetryWrap - 1]
  BY DefaultsTyped
<1>5. /\ target' \in [Threads -> PortText]
      /\ fresh' \in [Threads -> Servers \cup {NoServer}]
  BY DEF PortText
<1>6. /\ status' \in [Servers -> {"closed", "bound", "serving", "retiring", "dead"}]
      /\ addr' \in [Servers -> PortText]
      /\ cert' \in [Servers -> {"plain", "none", "auto", "custom"}]
  BY DEF PortText
<1>7. QED
  BY <1>1, <1>2, <1>3, <1>4, <1>5, <1>6 DEF TypeOK

LEMMA TypeInit == Init => TypeOK
<1> SUFFICES ASSUME Init PROVE TypeOK
  OBVIOUS
<1> USE DEF Init
<1>1. mem \in Settings /\ cfg \in Settings /\ file \in Settings /\ answer \in Answers
  BY DefaultsTyped, InputAssumption
<1>2. pc \in [Threads -> Labels] /\ round \in [Threads -> 1 .. 4]
  BY DEF Labels
<1>3. req \in [Threads -> Requests] /\ retries \in [Threads -> 0 .. RetryWrap - 1]
  BY DefaultsTyped
<1>4. /\ target \in [Threads -> PortText]
      /\ fresh \in [Threads -> Servers \cup {NoServer}]
  BY DEF PortText
<1>5. /\ status \in [Servers -> {"closed", "bound", "serving", "retiring", "dead"}]
      /\ addr \in [Servers -> PortText]
      /\ cert \in [Servers -> {"plain", "none", "auto", "custom"}]
  BY DEF PortText
<1>6. crashes \in 0 .. MaxCrashes
  BY BoundAssumption
<1>7. QED
  BY <1>1, <1>2, <1>3, <1>4, <1>5, <1>6 DEF TypeOK

(* Steps of the process as a whole, and of the world around it. *)
LEMMA TypeProcess ==
    ASSUME TypeOK, Boot \/ Crash \/ BootFails \/ \E p \in Ports : Occupy(p) \/ Release(p)
    PROVE  TypeOK'
<1>1. CASE Boot
  BY <1>1 DEF TypeOK, Boot, Goto, Labels, serverVars, slotVars, worldVars, Threads
<1>2. CASE Crash
  <2>1. file' \in Settings
    BY <1>2, DefaultsTyped DEF TypeOK, Crash
  <2>2. crashes' \in 0 .. MaxCrashes
    BY <1>2, BoundAssumption DEF TypeOK, Crash
  <2>3. QED
    BY <1>2, <2>1, <2>2, HaltTyped DEF Crash
<1>3. CASE BootFails
  BY <1>3, HaltTyped DEF TypeOK, BootFails, worldVars
<1>4. CASE \E p \in Ports : Occupy(p) \/ Release(p)
  BY <1>4 DEF TypeOK, Occupy, Release, settingsVars, threadVars, serverVars, slotVars
<1>5. QED
  BY <1>1, <1>2, <1>3, <1>4

LEMMA EndsTyped ==
    ASSUME TypeOK, NEW h \in Threads, NEW ok \in BOOLEAN, Ends(h, ok)
    PROVE  /\ pc' \in [Threads -> Labels]
           /\ req' \in [Threads -> Requests]
           /\ round' \in [Threads -> 1 .. 4]
           /\ target' \in [Threads -> PortText]
           /\ retries' \in [Threads -> 0 .. RetryWrap - 1]
           /\ answer' \in Answers
BY DefaultsTyped DEF TypeOK, Ends, Goto, Labels, Answers, PortText

(* Steps of a request handler outside the reload. *)
LEMMA TypeHandler ==
    ASSUME TypeOK, NEW h \in Handlers, HandlerRequest(h) \/ HandlerStep(h)
    PROVE  TypeOK'
<1> h \in Threads
  BY DEF Threads
<1> USE DEF TypeOK, settingsVars, serverVars, slotVars, worldVars
<1>1. CASE PutPort(h)
  <2>1. PICK p \in PortRequests :
            Receive(h, "port", [DefaultSettings EXCEPT !.port = p])
    BY <1>1 DEF PutPort
  <2>2. [DefaultSettings EXCEPT !.port = p] \in Settings
    BY DefaultsTyped, InputAssumption DEF Settings
  <2>3. req' \in [Threads -> Requests]
    BY <2>1, <2>2 DEF Receive, Requests
  <2>4. QED
    BY <1>1, <2>3 DEF PutPort, Goto, Labels
<1>2. CASE PutSSL(h)
  <2>1. PICK want \in SSLRequests : Receive(h, "ssl", want)
    BY <1>2 DEF PutSSL
  <2>2. req' \in [Threads -> Requests]
    BY <2>1, InputAssumption DEF Receive, Requests
  <2>3. QED
    BY <1>2, <2>2 DEF PutSSL, Goto, Labels
<1>3. CASE UploadCert(h)
  <2>1. req' \in [Threads -> Requests]
    BY <1>3, DefaultsTyped DEF UploadCert, Receive, Requests
  <2>2. QED
    BY <1>3, <2>1 DEF UploadCert, Goto, Labels
<1>4. CASE UploadRejected(h)
  BY <1>4, EndsTyped DEF UploadRejected
<1>5. CASE UploadAccepted(h)
  <2>1. CASE Ends(h, TRUE)
    BY <1>5, <2>1, EndsTyped DEF UploadAccepted
  <2>2. CASE /\ req' = [req EXCEPT ![h].want = [mem EXCEPT !.certType = "custom"]]
             /\ Goto(h, "setSSL")
             /\ UNCHANGED <<round, target, retries, answer>>
    <3>1. [mem EXCEPT !.certType = "custom"] \in Settings
      BY DEF Settings
    <3>2. req' \in [Threads -> Requests]
      BY <2>2, <3>1 DEF Requests
    <3>3. QED
      BY <1>5, <2>2, <3>2 DEF UploadAccepted, Goto, Labels
  <2>3. QED
    BY <1>5, <2>1, <2>2 DEF UploadAccepted
<1>6. CASE Refuse(h)
  BY <1>6, EndsTyped DEF Refuse
<1>7. CASE Unwind(h)
  <2>1. mem' \in Settings
    BY <1>7 DEF Unwind, Settings, Requests
  <2>2. QED
    BY <1>7, <2>1, EndsTyped DEF Unwind
<1>8. QED
  BY <1>1, <1>2, <1>3, <1>4, <1>5, <1>6, <1>7 DEF HandlerRequest, HandlerStep

(* Steps of the gateway start hook. *)
LEMMA TypeMain ==
    ASSUME TypeOK, MainStep
    PROVE  TypeOK'
<1> Main \in Threads
  BY DEF Threads
<1> USE DEF TypeOK, settingsVars, serverVars, slotVars, worldVars
<1>1. CASE ChoosePort
  <2>1. PICK p \in Ports :
            req' = [req EXCEPT ![Main] =
                      [kind |-> "choose", want |-> [DefaultSettings EXCEPT !.port = p]]]
    BY <1>1 DEF ChoosePort
  <2>2. [DefaultSettings EXCEPT !.port = p] \in Settings
    BY DefaultsTyped DEF Settings, PortText
  <2>3. req' \in [Threads -> Requests]
    BY <2>1, <2>2 DEF Requests
  <2>4. QED
    BY <1>1, <2>3 DEF ChoosePort, Goto, Labels
<1>2. CASE UseConfiguredPort
  BY <1>2 DEF UseConfiguredPort, Goto, Labels
<1>3. CASE HookReload
  <2>1. req' \in [Threads -> Requests]
    BY <1>3, DefaultsTyped DEF HookReload, Requests
  <2>2. QED
    BY <1>3, <2>1 DEF HookReload, Goto, Labels
<1>4. CASE BootFails
  BY <1>4, TypeProcess
<1>5. QED
  BY <1>1, <1>2, <1>3, <1>4 DEF MainStep

(* The setters and the callbacks. *)
LEMMA TypeSetting ==
    ASSUME TypeOK, NEW t \in Threads, SettingStep(t)
    PROVE  TypeOK'
<1> USE DEF TypeOK, settingsVars, serverVars, slotVars, worldVars
<1> req[t].want \in Settings
  BY DEF Requests
<1>1. CASE PortWriter(t)
  <2>1. cfg' \in Settings
    BY <1>1 DEF PortWriter, Settings
  <2>2. file' \in Settings
    BY <1>1, <2>1, DefaultsTyped DEF PortWriter, WriteFails
  <2>3. pc' \in [Threads -> Labels]
    BY <1>1 DEF PortWriter, WriteFails, Notify, Goto, Labels
  <2>4. QED
    BY <1>1, <2>1, <2>2, <2>3 DEF PortWriter
<1>2. CASE SetSSL(t)
  <2>1. round[t] \in {1, 2, 3, 4}
    OBVIOUS
  <2>2. mem' \in Settings
    BY <1>2, <2>1 DEF SetSSL, Settings
  <2>3. QED
    BY <1>2, <2>2 DEF SetSSL, Notify, Goto, Labels
<1>3. CASE ConfigWriter(t)
  <2>1. cfg' \in Settings /\ file' \in Settings
    BY <1>3, DefaultsTyped DEF ConfigWriter, WriteFails
  <2>2. mem' \in Settings
    BY <1>3 DEF ConfigWriter, Settings
  <2>3. CASE Ends(t, TRUE)
    BY <1>3, <2>1, <2>2, <2>3, EndsTyped DEF ConfigWriter
  <2>4. CASE ~Ends(t, TRUE)
    <3>1. pc' \in [Threads -> Labels]
      BY <1>3, <2>4 DEF ConfigWriter, WriteFails, Goto, Labels
    <3>2. round' \in [Threads -> 1 .. 4]
      <4>1. \/ round' = round
            \/ round[t] < 4 /\ round' = [round EXCEPT ![t] = round[t] + 1]
        BY <1>3, <2>4 DEF ConfigWriter, Setters
      <4>2. round[t] < 4 => round[t] + 1 \in 1 .. 4
        OBVIOUS
      <4>3. QED
        BY <4>1, <4>2
    <3>3. UNCHANGED <<req, target, retries, answer>>
      BY <1>3, <2>4 DEF ConfigWriter
    <3>4. QED
      BY <1>3, <2>1, <2>2, <3>1, <3>2, <3>3 DEF ConfigWriter
  <2>5. QED
    BY <2>3, <2>4
<1>4. QED
  BY <1>1, <1>2, <1>3 DEF SettingStep

LEMMA RetiredTyped ==
    ASSUME TypeOK, NEW s \in Servers \cup {NoServer}
    PROVE  Retired(s) \in [Servers -> {"closed", "bound", "serving", "retiring", "dead"}]
BY DEF TypeOK, Retired

(* The reload steps of a thread. *)
LEMMA TypeReload ==
    ASSUME TypeOK, NEW t \in Threads, ReloadHTTP(t) \/ ReloadHTTPS(t)
    PROVE  TypeOK'
<1> USE DEF TypeOK, settingsVars, serverVars, slotVars, worldVars
<1>1. CASE StopHTTP(t) \/ RetireHTTP(t) \/ StopHTTPS(t) \/ RetireHTTPS(t)
  <2>1. status' \in [Servers -> {"closed", "bound", "serving", "retiring", "dead"}]
    BY <1>1, RetiredTyped DEF StopHTTP, RetireHTTP, StopHTTPS, RetireHTTPS
  <2>2. pc' \in [Threads -> Labels]
    BY <1>1 DEF StopHTTP, RetireHTTP, StopHTTPS, RetireHTTPS, Reloaded, Goto, Labels
  <2>3. QED
    BY <1>1, <2>1, <2>2 DEF StopHTTP, RetireHTTP, StopHTTPS, RetireHTTPS
<1>2. CASE KeepHTTP(t) \/ ListenFailsHTTP(t) \/ ProbeHTTP(t) \/ ProbePanics(t)
  BY <1>2 DEF KeepHTTP, ListenFailsHTTP, ProbeHTTP, ProbePanics, Goto, Labels
<1>3. CASE StartHTTP(t)
  BY <1>3 DEF StartHTTP, Started, Goto, Labels, Settings
<1>4. CASE PublishHTTP(t) \/ PublishHTTPS(t)
  BY <1>4 DEF PublishHTTP, PublishHTTPS, Reloaded, Goto, Labels
<1>5. CASE EnsureCert(t)
  <2>1. pair' \in {"none", "mixed", "auto", "custom"}
    BY <1>5 DEF EnsureCert, CheckedPairs
  <2>2. target' \in [Threads -> PortText]
    BY <1>5 DEF EnsureCert, Settings
  <2>3. QED
    BY <1>5, <2>1, <2>2 DEF EnsureCert, Goto, Labels
<1>6. CASE EnsureCertFails(t)
  BY <1>6 DEF EnsureCertFails, Goto, Labels
<1>7. CASE KeepHTTPS(t) \/ ListenFailsHTTPS(t) \/ ProbeHTTPS(t)
  BY <1>7 DEF KeepHTTPS, ListenFailsHTTPS, ProbeHTTPS, Reloaded, Goto, Labels
<1>8. CASE StartHTTPS(t)
  BY <1>8, BoundAssumption DEF StartHTTPS, Started, Goto, Labels
<1>9. CASE ProbeRetryHTTPS(t)
  <2>1. (retries[t] + RetryWrap - 1) % RetryWrap \in 0 .. RetryWrap - 1
    BY BoundAssumption
  <2>2. retries' \in [Threads -> 0 .. RetryWrap - 1]
    BY <1>9, <2>1 DEF ProbeRetryHTTPS
  <2>3. QED
    BY <1>9, <2>2 DEF ProbeRetryHTTPS
<1>10. QED
  BY <1>1, <1>2, <1>3, <1>4, <1>5, <1>6, <1>7, <1>8, <1>9 DEF ReloadHTTP, ReloadHTTPS

(* The goroutines of the servers and the garbage collector. *)
LEMMA TypeServer ==
    ASSUME TypeOK, NEW s \in Servers, ServerStep(s) \/ CollectListener(s)
    PROVE  TypeOK'
<1> USE DEF TypeOK, settingsVars, threadVars, slotVars, worldVars
<1>1. CASE ServeHTTP(s) \/ CollectListener(s)
  BY <1>1 DEF ServeHTTP, CollectListener
<1>2. CASE ServeTLS(s)
  BY <1>2 DEF ServeTLS
<1>3. CASE Shutdown(s)
  BY <1>3 DEF Shutdown, PortText
<1>4. QED
  BY <1>1, <1>2, <1>3 DEF ServerStep

LEMMA TypeNext == TypeOK /\ [Next]_vars => TypeOK'
<1> SUFFICES ASSUME TypeOK, [Next]_vars PROVE TypeOK'
  OBVIOUS
<1>1. CASE UNCHANGED vars
  BY <1>1 DEF TypeOK, vars, settingsVars, threadVars, serverVars, slotVars, worldVars
<1>2. CASE Next
  BY <1>2, TypeProcess, TypeMain, TypeHandler, TypeSetting, TypeReload, TypeServer
     DEF Next, ThreadStep
<1>3. QED
  BY <1>1, <1>2

(* Every variable of the gateway keeps its type, in every execution. *)
THEOREM TypeCorrect == Spec => []TypeOK
BY TypeInit, TypeNext, PTL DEF Spec

-----------------------------------------------------------------------------
(* The front door *)

HTTPLabels == {"httpProbe", "httpRetire", "httpPublish"}
SwapLabels == HTTPLabels \cup {"httpsProbe", "httpsRetire", "httpsPublish"}

LEMMA HandoverInit == Init => HandoverInv
BY TypeInit, ServerAssumption
   DEF Init, HandoverInv, FrontDoorOpen, PortExclusive, Listening, HTTPHandover,
       HTTPSHandover, FreshOwned, SlotsApart

(* A thread that moves between labels outside the swap of a server, and    *)
(* touches no server, disturbs nothing.                                    *)
LEMMA HandoverFrame ==
    ASSUME HandoverInv, TypeOK', NEW t \in Threads, NEW label \in Labels,
           pc' = [pc EXCEPT ![t] = label], label \notin SwapLabels,
           pc[t] # "httpPublish", up => up',
           UNCHANGED <<serverVars, slotVars, fresh>>
    PROVE  HandoverInv'
<1> USE DEF HandoverInv, TypeOK, serverVars, slotVars, SwapLabels, HTTPLabels
<1>1. FrontDoorOpen'
  BY DEF FrontDoorOpen, Retiring
<1>2. PortExclusive'
  BY DEF PortExclusive, Listening
<1>3. HTTPHandover' /\ HTTPSHandover'
  BY DEF HTTPHandover, HTTPSHandover
<1>4. FreshOwned' /\ SlotsApart'
  BY DEF FreshOwned, SlotsApart
<1>5. QED
  BY <1>1, <1>2, <1>3, <1>4

(* So does a step in which no thread moves and no server changes. *)
LEMMA HandoverStutter ==
    ASSUME HandoverInv, TypeOK', UNCHANGED <<up, pc, fresh, serverVars, slotVars>>
    PROVE  HandoverInv'
BY DEF HandoverInv, serverVars, slotVars, FrontDoorOpen, Retiring, PortExclusive,
       Listening, HTTPHandover, HTTPSHandover, FreshOwned, SlotsApart

(* With the process its servers go. *)
LEMMA HandoverHalt ==
    ASSUME TypeOK', Halt
    PROVE  HandoverInv'
<1> USE DEF Halt, TypeOK
<1>1. FrontDoorOpen' /\ SlotsApart'
  BY DEF FrontDoorOpen, SlotsApart
<1>2. PortExclusive'
  BY DEF PortExclusive, Listening
<1>3. HTTPHandover' /\ HTTPSHandover' /\ FreshOwned'
  BY DEF HTTPHandover, HTTPSHandover, FreshOwned
<1>4. QED
  BY <1>1, <1>2, <1>3 DEF HandoverInv

(* Steps that only move a thread outside the swap. *)
LEMMA HandoverControl ==
    ASSUME HandoverInv, TypeOK', Next
    PROVE  \/ HandoverInv'
           \/ \E t \in Threads :
                 \/ StopHTTP(t) \/ StartHTTP(t) \/ ProbeHTTP(t) \/ ProbePanics(t)
                 \/ RetireHTTP(t) \/ PublishHTTP(t) \/ StopHTTPS(t) \/ StartHTTPS(t)
                 \/ ProbeHTTPS(t) \/ RetireHTTPS(t) \/ PublishHTTPS(t)
           \/ \E s \in Servers : ServerStep(s) \/ CollectListener(s)
<1> Main \in Threads /\ \A h \in Handlers : h \in Threads
  BY DEF Threads
<1> USE DEF At, Goto, Labels, SwapLabels, HTTPLabels
<1>1. CASE Boot
  <2>1. gateway = NoServer
    BY <1>1 DEF Boot, HandoverInv, SlotsApart
  <2>2. (FrontDoorOpen /\ PortExclusive)'
    BY <1>1, <2>1 DEF Boot, HandoverInv, FrontDoorOpen, PortExclusive, Listening,
                      serverVars, slotVars
  <2>3. (HTTPHandover /\ HTTPSHandover)'
    BY <1>1 DEF Boot, HandoverInv, HTTPHandover, HTTPSHandover, TypeOK, serverVars
  <2>4. (FreshOwned /\ SlotsApart)'
    BY <1>1 DEF Boot, HandoverInv, FreshOwned, SlotsApart, serverVars, slotVars
  <2>5. QED
    BY <2>2, <2>3, <2>4 DEF HandoverInv
<1>2. CASE Crash \/ BootFails
  BY <1>2, HandoverHalt DEF Crash, BootFails
<1>3. CASE ChoosePort \/ UseConfiguredPort \/ HookReload
  BY <1>3, HandoverFrame DEF ChoosePort, UseConfiguredPort, HookReload
<1>4. CASE \E p \in Ports : Occupy(p) \/ Release(p)
  BY <1>4, HandoverStutter DEF Occupy, Release, threadVars
<1>5. ASSUME NEW h \in Handlers, HandlerRequest(h) PROVE HandoverInv'
  BY <1>5, HandoverFrame DEF HandlerRequest, PutPort, PutSSL, UploadCert, Receive, MayRequest
<1>6. ASSUME NEW h \in Handlers, HandlerStep(h) PROVE HandoverInv'
  BY <1>6, HandoverFrame
     DEF HandlerStep, UploadRejected, UploadAccepted, Refuse, Unwind, Ends
<1>7. ASSUME NEW t \in Threads, SettingStep(t) PROVE HandoverInv'
  <2>1. UNCHANGED <<up, serverVars, slotVars, fresh>>
    BY <1>7 DEF SettingStep, PortWriter, SetSSL, ConfigWriter
  <2>2. pc[t] \in {"writePort", "setSSL", "writeConfig"}
    BY <1>7 DEF SettingStep, PortWriter, SetSSL, ConfigWriter
  <2>3. \E label \in {"reload", "writeConfig", "setSSL", "hook", "idle", "failed"} :
            pc' = [pc EXCEPT ![t] = label]
    BY <1>7 DEF SettingStep, PortWriter, SetSSL, ConfigWriter, Notify, WriteFails, Ends
  <2>4. QED
    BY <2>1, <2>2, <2>3, HandoverFrame
<1>8. ASSUME NEW t \in Threads,
             \/ KeepHTTP(t) \/ ListenFailsHTTP(t) \/ EnsureCert(t) \/ EnsureCertFails(t)
             \/ KeepHTTPS(t) \/ ListenFailsHTTPS(t)
      PROVE  HandoverInv'
  BY <1>8, HandoverFrame
     DEF KeepHTTP, ListenFailsHTTP, EnsureCert, EnsureCertFails, KeepHTTPS,
         ListenFailsHTTPS, Reloaded
<1>9. ASSUME NEW t \in Threads, ProbeRetryHTTPS(t) PROVE HandoverInv'
  BY <1>9, HandoverStutter DEF ProbeRetryHTTPS
<1>10. QED
  BY <1>1, <1>2, <1>3, <1>4, <1>5, <1>6, <1>7, <1>8, <1>9
     DEF Next, MainStep, ThreadStep, ReloadHTTP, ReloadHTTPS

(* A new server takes an identity nobody refers to and a port nobody has.  *)
LEMMA HandoverStart ==
    ASSUME HandoverInv, TypeOK', NEW t \in Threads, StartHTTP(t) \/ StartHTTPS(t)
    PROVE  HandoverInv'
<1> USE DEF HandoverInv, TypeOK
<1>1. PICK s \in Servers, p \in PortText, c \in {"plain", "none"} :
         /\ Started(t, s, p, c)
         /\ PortFree(p)
         /\ \/ pc[t] = "reload" /\ c = "plain" /\ pc' = [pc EXCEPT ![t] = "httpProbe"]
            \/ pc[t] = "listenTLS" /\ c = "none" /\ pc' = [pc EXCEPT ![t] = "httpsProbe"]
         /\ UNCHANGED <<up, gateway, sslGateway>>
  <2>1. CASE StartHTTP(t)
    BY <2>1 DEF StartHTTP, Settings, At, Goto, slotVars
  <2>2. CASE StartHTTPS(t)
    BY <2>2 DEF StartHTTPS, At, Goto, slotVars
  <2>3. QED
    BY <2>1, <2>2
<1>2. /\ status[s] = "closed"
      /\ s # gateway /\ s # sslGateway
      /\ \A u \in Threads : fresh[u] # s
      /\ s # NoServer
  BY <1>1, ServerAssumption DEF Started, NextServer, FreeServers, Referenced
<1>3. /\ status' = [status EXCEPT ![s] = "bound"]
      /\ addr' = [addr EXCEPT ![s] = p]
      /\ cert' = [cert EXCEPT ![s] = c]
      /\ fresh' = [fresh EXCEPT ![t] = s]
  BY <1>1 DEF Started
<1>4. FrontDoorOpen'
  BY <1>1, <1>2, <1>3 DEF FrontDoorOpen, Retiring
<1>5. PortExclusive'
  BY <1>1, <1>2, <1>3 DEF PortExclusive, PortFree, Listening
<1>6. HTTPHandover'
  BY <1>1, <1>2, <1>3 DEF HTTPHandover
<1>7. HTTPSHandover'
  BY <1>1, <1>2, <1>3 DEF HTTPSHandover
<1>8. FreshOwned'
  BY <1>1, <1>2, <1>3 DEF FreshOwned
<1>9. SlotsApart'
  BY <1>1, <1>2, <1>3 DEF SlotsApart
<1>10. QED
  BY <1>4, <1>5, <1>6, <1>7, <1>8, <1>9

(* The HTTP probe answers for the port, and the port is the new server's.  *)
LEMMA HandoverProbe ==
    ASSUME HandoverInv, TypeOK', NEW t \in Threads,
           ProbeHTTP(t) \/ ProbeHTTPS(t) \/ ProbePanics(t)
    PROVE  HandoverInv'
<1> USE DEF HandoverInv, TypeOK, At, Goto
<1>1. CASE ProbeHTTP(t)
  <2>1. pc[t] = "httpProbe" /\ pc' = [pc EXCEPT ![t] = "httpRetire"]
    BY <1>1 DEF ProbeHTTP
  <2>2. UNCHANGED <<up, fresh, status, addr, cert, gateway, sslGateway>>
    BY <1>1 DEF ProbeHTTP, serverVars, slotVars
  <2>3. /\ fresh[t] \in Servers
        /\ status[fresh[t]] \in {"bound", "serving"}
    BY <2>1 DEF HTTPHandover
  <2>4. PICK s \in Servers : Accepting(s) /\ addr[s] = addr[fresh[t]]
    BY <1>1 DEF ProbeHTTP, PingAnswered
  <2>5. s = fresh[t]
    BY <2>3, <2>4 DEF PortExclusive, Listening, Accepting
  <2>6. status[fresh[t]] = "serving"
    BY <2>3, <2>4, <2>5 DEF Accepting
  <2>7. HTTPHandover' /\ HTTPSHandover'
    BY <2>1, <2>2, <2>3, <2>6 DEF HTTPHandover, HTTPSHandover
  <2>8. FrontDoorOpen'
    BY <2>1, <2>2 DEF FrontDoorOpen, Retiring
  <2>9. PortExclusive' /\ FreshOwned' /\ SlotsApart'
    BY <2>2 DEF PortExclusive, Listening, FreshOwned, SlotsApart
  <2>10. QED
    BY <2>7, <2>8, <2>9
<1>2. CASE ProbeHTTPS(t)
  <2>1. pc[t] = "httpsProbe" /\ pc' = [pc EXCEPT ![t] = "httpsRetire"]
    BY <1>2 DEF ProbeHTTPS
  <2>2. UNCHANGED <<up, fresh, status, addr, cert, gateway, sslGateway>>
    BY <1>2 DEF ProbeHTTPS, serverVars, slotVars
  <2>3. HTTPHandover' /\ HTTPSHandover'
    BY <2>1, <2>2 DEF HTTPHandover, HTTPSHandover
  <2>4. FrontDoorOpen'
    BY <2>1, <2>2 DEF FrontDoorOpen, Retiring
  <2>5. PortExclusive' /\ FreshOwned' /\ SlotsApart'
    BY <2>2 DEF PortExclusive, Listening, FreshOwned, SlotsApart
  <2>6. QED
    BY <2>3, <2>4, <2>5
<1>3. CASE ProbePanics(t)
  <2>1. /\ pc[t] = "httpProbe"
        /\ pc' = [pc EXCEPT ![t] = "panicked"]
        /\ fresh' = [fresh EXCEPT ![t] = NoServer]
    BY <1>3 DEF ProbePanics
  <2>2. UNCHANGED <<up, status, addr, cert, gateway, sslGateway>>
    BY <1>3 DEF ProbePanics, serverVars, slotVars
  <2>3. HTTPHandover' /\ HTTPSHandover'
    BY <2>1, <2>2 DEF HTTPHandover, HTTPSHandover
  <2>4. FrontDoorOpen'
    BY <2>1, <2>2 DEF FrontDoorOpen, Retiring
  <2>5. PortExclusive' /\ SlotsApart'
    BY <2>2 DEF PortExclusive, Listening, SlotsApart
  <2>6. FreshOwned'
    BY <2>1, <2>2 DEF FreshOwned
  <2>7. QED
    BY <2>3, <2>4, <2>5, <2>6
<1>4. QED
  BY <1>1, <1>2, <1>3

(* Retiring a server touches no server that is about to be published.      *)
LEMMA RetiredSpares ==
    ASSUME HandoverInv, NEW g \in {gateway, sslGateway}, status' = Retired(g)
    PROVE  /\ \A s \in Servers : s # g => status'[s] = status[s]
           /\ \A s \in Servers : status'[s] = status[s]
                                 \/ (Accepting(s) /\ status'[s] = "retiring")
           /\ \A t \in Threads : fresh[t] \in Servers => status'[fresh[t]] = status[fresh[t]]
<1>1. /\ \A s \in Servers : s # g => status'[s] = status[s]
      /\ \A s \in Servers : status'[s] = status[s]
                            \/ (Accepting(s) /\ status'[s] = "retiring")
  <2>1. CASE g # NoServer /\ Accepting(g)
    <3>1. status' = [status EXCEPT ![g] = "retiring"]
      BY <2>1 DEF Retired
    <3>2. QED
      BY <2>1, <3>1 DEF HandoverInv, TypeOK
  <2>2. CASE ~(g # NoServer /\ Accepting(g))
    BY <2>2 DEF Retired
  <2>3. QED
    BY <2>1, <2>2
<1>2. \A t \in Threads : fresh[t] \in Servers => fresh[t] # g
  BY ServerAssumption DEF HandoverInv, FreshOwned
<1>3. QED
  BY <1>1, <1>2

LEMMA HandoverRetire ==
    ASSUME HandoverInv, TypeOK', NEW t \in Threads, NEW g \in {gateway, sslGateway},
           status' = Retired(g), UNCHANGED <<up, addr, cert, fresh>>,
           NEW label \in Labels, pc' = [pc EXCEPT ![t] = label],
           \/ /\ label = "httpPublish" /\ pc[t] = "httpRetire"
              /\ g = gateway /\ UNCHANGED slotVars
           \/ /\ label = "httpsPublish" /\ pc[t] = "httpsRetire"
              /\ g = sslGateway /\ UNCHANGED slotVars
           \/ /\ label \notin SwapLabels /\ pc[t] = "reload"
              /\ g = gateway /\ gateway' = NoServer /\ UNCHANGED sslGateway
           \/ /\ label \notin SwapLabels /\ pc[t] = "cert"
              /\ g = sslGateway /\ sslGateway' = NoServer /\ UNCHANGED gateway
    PROVE  HandoverInv'
<1> USE DEF slotVars, SwapLabels, HTTPLabels
<1>1. /\ \A s \in Servers : s # g => status'[s] = status[s]
      /\ \A s \in Servers : status'[s] = status[s]
                            \/ (Accepting(s) /\ status'[s] = "retiring")
      /\ \A u \in Threads : fresh[u] \in Servers => status'[fresh[u]] = status[fresh[u]]
  BY RetiredSpares
<1>2. PortExclusive'
  BY <1>1 DEF HandoverInv, PortExclusive, Listening, Accepting
<1>3. HTTPHandover'
  BY <1>1 DEF HandoverInv, TypeOK, HTTPHandover
<1>4. HTTPSHandover'
  BY <1>1 DEF HandoverInv, TypeOK, HTTPSHandover
<1>5. FreshOwned' /\ SlotsApart'
  BY ServerAssumption DEF HandoverInv, TypeOK, FreshOwned, SlotsApart
<1>6. FrontDoorOpen'
  <2>1. CASE gateway = NoServer \/ gateway' = NoServer
    BY <2>1 DEF FrontDoorOpen
  <2>2. CASE gateway # NoServer /\ gateway' = gateway /\ label = "httpPublish"
    <3>1. status'[gateway] = status[gateway] \/ status'[gateway] = "retiring"
      BY <1>1, <2>2 DEF HandoverInv, TypeOK
    <3>2. pc'[t] = "httpPublish"
      BY <2>2 DEF HandoverInv, TypeOK
    <3>3. QED
      BY <2>2, <3>1, <3>2 DEF HandoverInv, FrontDoorOpen, Retiring
  <2>3. CASE gateway # NoServer /\ gateway' = gateway /\ label # "httpPublish"
    <3>1. g = sslGateway /\ g # gateway
      BY <2>3 DEF HandoverInv, SlotsApart
    <3>2. status'[gateway] = status[gateway]
      BY <1>1, <2>3, <3>1 DEF HandoverInv, TypeOK
    <3>3. \A u \in Threads : pc[u] = "httpPublish" => pc'[u] = "httpPublish"
      BY <2>3 DEF HandoverInv, TypeOK
    <3>4. QED
      BY <2>3, <3>2, <3>3 DEF HandoverInv, FrontDoorOpen, Retiring
  <2>4. QED
    BY <2>1, <2>2, <2>3
<1>7. QED
  BY <1>2, <1>3, <1>4, <1>5, <1>6 DEF HandoverInv

(* The server that is published has answered the probe. *)
LEMMA HandoverPublish ==
    ASSUME HandoverInv, TypeOK', NEW t \in Threads, PublishHTTP(t) \/ PublishHTTPS(t)
    PROVE  HandoverInv'
<1> USE DEF HandoverInv, TypeOK, At, Goto
<1>1. CASE PublishHTTP(t)
  <2>1. /\ up /\ up'
        /\ pc[t] = "httpPublish"
        /\ pc' = [pc EXCEPT ![t] = "cert"]
        /\ gateway' = fresh[t]
        /\ fresh' = [fresh EXCEPT ![t] = NoServer]
        /\ UNCHANGED <<status, addr, cert, sslGateway>>
    BY <1>1 DEF PublishHTTP, serverVars
  <2>2. /\ fresh[t] \in Servers /\ fresh[t] # NoServer
        /\ cert[fresh[t]] = "plain"
        /\ status[fresh[t]] = "serving"
    BY <2>1, ServerAssumption DEF HTTPHandover
  <2>3. FrontDoorOpen' /\ SlotsApart'
    BY <2>1, <2>2 DEF FrontDoorOpen, SlotsApart
  <2>4. FreshOwned'
    BY <2>1, <2>2 DEF FreshOwned
  <2>5. HTTPHandover' /\ HTTPSHandover' /\ PortExclusive'
    BY <2>1 DEF HTTPHandover, HTTPSHandover, PortExclusive, Listening
  <2>6. QED
    BY <2>3, <2>4, <2>5
<1>2. CASE PublishHTTPS(t)
  <2>1. PICK label \in {"idle", "writeConfig"} :
        /\ UNCHANGED <<up, status, addr, cert, gateway>>
        /\ pc[t] = "httpsPublish"
        /\ pc' = [pc EXCEPT ![t] = label]
        /\ sslGateway' = fresh[t]
        /\ fresh' = [fresh EXCEPT ![t] = NoServer]
    BY <1>2 DEF PublishHTTPS, Reloaded, serverVars
  <2>2. /\ fresh[t] \in Servers /\ fresh[t] # NoServer
        /\ cert[fresh[t]] # "plain"
    BY <2>1, ServerAssumption DEF HTTPSHandover
  <2>3. FrontDoorOpen'
    BY <2>1 DEF FrontDoorOpen, Retiring
  <2>4. FreshOwned' /\ SlotsApart'
    BY <2>1, <2>2 DEF FreshOwned, SlotsApart
  <2>5. HTTPHandover' /\ HTTPSHandover' /\ PortExclusive'
    BY <2>1 DEF HTTPHandover, HTTPSHandover, PortExclusive, Listening
  <2>6. QED
    BY <2>3, <2>4, <2>5
<1>3. QED
  BY <1>1, <1>2

(* The goroutines of the servers close only what is no longer in use.      *)
LEMMA HandoverServer ==
    ASSUME HandoverInv, TypeOK', NEW s \in Servers, ServerStep(s) \/ CollectListener(s)
    PROVE  HandoverInv'
<1> USE DEF HandoverInv, TypeOK, threadVars, slotVars
<1>0. UNCHANGED <<up, pc, fresh, gateway, sslGateway>>
  BY DEF ServerStep, ServeHTTP, ServeTLS, Shutdown, CollectListener
<1>1. CASE ServeHTTP(s)
  BY <1>0, <1>1 DEF ServeHTTP, FrontDoorOpen, Retiring, PortExclusive, Listening,
                    HTTPHandover, HTTPSHandover, FreshOwned, SlotsApart
<1>2. CASE ServeTLS(s)
  <2>1. /\ status[s] = "bound" /\ cert[s] = "none"
        /\ status'[s] \in {"serving", "dead"} /\ cert'[s] # "plain"
        /\ \A x \in Servers \ {s} : status'[x] = status[x] /\ cert'[x] = cert[x]
        /\ addr' = addr
    BY <1>2 DEF ServeTLS
  <2>2. PortExclusive'
    BY <2>1 DEF PortExclusive, Listening
  <2>3. HTTPHandover'
    BY <1>0, <2>1 DEF HTTPHandover
  <2>4. HTTPSHandover'
    BY <1>0, <2>1 DEF HTTPSHandover
  <2>5. FrontDoorOpen' /\ FreshOwned' /\ SlotsApart'
    BY <1>0, <2>1 DEF FrontDoorOpen, Retiring, FreshOwned, SlotsApart
  <2>6. QED
    BY <2>2, <2>3, <2>4, <2>5
<1>3. CASE Shutdown(s)
  <2>1. /\ status[s] = "retiring" /\ s # gateway /\ s # sslGateway
        /\ status'[s] = "closed" /\ cert'[s] = "plain"
        /\ \A x \in Servers \ {s} :
              status'[x] = status[x] /\ cert'[x] = cert[x] /\ addr'[x] = addr[x]
    BY <1>3 DEF Shutdown
  <2>2. PortExclusive'
    BY <2>1 DEF PortExclusive, Listening
  <2>3. HTTPHandover'
    BY <1>0, <2>1 DEF HTTPHandover
  <2>4. HTTPSHandover'
    BY <1>0, <2>1 DEF HTTPSHandover
  <2>5. FrontDoorOpen' /\ FreshOwned' /\ SlotsApart'
    BY <1>0, <2>1 DEF FrontDoorOpen, Retiring, FreshOwned, SlotsApart
  <2>6. QED
    BY <2>2, <2>3, <2>4, <2>5
<1>4. CASE CollectListener(s)
  BY <1>0, <1>4 DEF CollectListener, FrontDoorOpen, Retiring, PortExclusive, Listening,
                    HTTPHandover, HTTPSHandover, FreshOwned, SlotsApart
<1>5. QED
  BY <1>1, <1>2, <1>3, <1>4 DEF ServerStep

LEMMA HandoverNext == HandoverInv /\ [Next]_vars => HandoverInv'
<1> SUFFICES ASSUME HandoverInv, [Next]_vars PROVE HandoverInv'
  OBVIOUS
<1>1. TypeOK'
  BY TypeNext DEF HandoverInv
<1>2. CASE UNCHANGED vars
  BY <1>1, <1>2, HandoverStutter DEF vars, threadVars
<1>3. CASE Next
  <2>1. ASSUME NEW t \in Threads,
               StopHTTP(t) \/ RetireHTTP(t) \/ StopHTTPS(t) \/ RetireHTTPS(t)
        PROVE  HandoverInv'
    <3>1. CASE StopHTTP(t)
      BY <1>1, <3>1, HandoverRetire
         DEF StopHTTP, At, Goto, Labels, SwapLabels, HTTPLabels
    <3>2. CASE RetireHTTP(t)
      BY <1>1, <3>2, HandoverRetire DEF RetireHTTP, At, Goto, Labels
    <3>3. CASE StopHTTPS(t)
      BY <1>1, <3>3, HandoverRetire
         DEF StopHTTPS, Reloaded, At, Goto, Labels, SwapLabels, HTTPLabels
    <3>4. CASE RetireHTTPS(t)
      BY <1>1, <3>4, HandoverRetire DEF RetireHTTPS, At, Goto, Labels
    <3>5. QED
      BY <2>1, <3>1, <3>2, <3>3, <3>4
  <2>2. QED
    BY <1>1, <1>3, <2>1, HandoverControl, HandoverStart, HandoverProbe,
       HandoverPublish, HandoverServer
<1>4. QED
  BY <1>2, <1>3

(* The conditions that keep both promises hold together, however handlers, *)
(* boot, crashes and the goroutines of the servers interleave.             *)
THEOREM HandoverHolds == Spec => []HandoverInv
BY HandoverInit, HandoverNext, PTL DEF Spec

(* The HTTP server the gateway holds accepts requests at every moment of   *)
(* every port switch, whatever handlers, boot and crashes do.              *)
THEOREM FrontDoorStaysOpen == Spec => []FrontDoorOpen
<1>1. HandoverInv => FrontDoorOpen
  BY DEF HandoverInv
<1>2. QED
  BY <1>1, HandoverInit, HandoverNext, PTL DEF Spec

(* No port is ever bound by two servers of the process. *)
THEOREM PortsStayExclusive == Spec => []PortExclusive
<1>1. HandoverInv => PortExclusive
  BY DEF HandoverInv
<1>2. QED
  BY <1>1, HandoverInit, HandoverNext, PTL DEF Spec
=============================================================================
