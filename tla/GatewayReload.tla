--------------------------- MODULE GatewayReload ---------------------------
(***************************************************************************)
(* The part of the gateway process that owns its listening sockets: the    *)
(* settings in memory (service.State), in viper and in gateway.ini; the    *)
(* callbacks a change runs; reloadGateways, which swaps the HTTP and HTTPS *)
(* servers; the certificate pair on disk; and the life of the process      *)
(* around them (boot, failure to boot, crash, restart by systemd).         *)
(*                                                                         *)
(* A thread is a goroutine: one per management request being handled, and  *)
(* Main, which runs the fx start hooks.  Nothing in the code locks, so a   *)
(* thread may stop between any two of its steps.  A step is one read or    *)
(* write of shared state with the computation around it.                   *)
(***************************************************************************)
EXTENDS Integers, FiniteSets, Sequences

CONSTANTS
    Handlers,       \* goroutines that may be handling a management request
    Main,           \* the goroutine that runs the fx start hooks
    Ports,          \* TCP ports
    NoPort,         \* the empty port string
    AutoPorts,      \* sequence of the ports probed when none is configured
    DefaultSSLPort, \* viper's default for gateway.sslport
    Servers,        \* identities for http.Server values
    NoServer,       \* the nil *http.Server
    InitialFiles,   \* contents gateway.ini may have before the first boot
    PortRequests,   \* ports that PUT /v1/gateway/port is called with
    SSLRequests,    \* settings that PUT /v1/gateway/ssl is called with
    Uploads,        \* kinds of pair that POST /v1/gateway/ssl/upload receives
    Contended,      \* ports that other processes bind and release
    Faults,         \* which of "disk", "probe", "cert" may fail
    RetryLimit,     \* the retry argument of checkHTTPSURLWithRetry
    RetryWrap,      \* one more than the largest value of its uint counter
    MaxCrashes,     \* bound on the number of crashes
    Serialized      \* TRUE: one request at a time, and none during boot

Threads  == Handlers \cup {Main}
PortText == Ports \cup {NoPort}

(* The fields of gateway.ini and of service.State that a reload acts on.   *)
(* The domain only decides whether a self-signed pair is regenerated; any  *)
(* certificate type other than "auto" behaves as "custom".                 *)
Settings == [port     : PortText,
             enabled  : BOOLEAN,
             sslPort  : PortText,
             certType : {"auto", "custom"}]

DefaultSettings == [port     |-> NoPort,
                    enabled  |-> FALSE,
                    sslPort  |-> DefaultSSLPort,
                    certType |-> "auto"]

ASSUME ThreadAssumption == Main \notin Handlers
ASSUME PortAssumption   == NoPort \notin Ports /\ DefaultSSLPort \in Ports
ASSUME ServerAssumption == Servers \subseteq Nat /\ NoServer \notin Servers
ASSUME AutoAssumption   == AutoPorts \in Seq(Ports) /\ AutoPorts # << >>
ASSUME InputAssumption  == /\ InitialFiles \subseteq Settings
                           /\ PortRequests \subseteq PortText
                           /\ SSLRequests  \subseteq Settings
                           /\ Uploads      \subseteq {"valid", "invalid"}
                           /\ Contended    \subseteq Ports
                           /\ Faults       \subseteq {"disk", "probe", "cert"}
ASSUME BoundAssumption  == /\ RetryWrap \in Nat \ {0}
                           /\ RetryLimit \in 0 .. RetryWrap - 1
                           /\ MaxCrashes \in Nat
                           /\ Serialized \in BOOLEAN

(* What a thread is doing for whom.  "boot" is the reload of the gateway   *)
(* start hook, "choose" its SetGatewayPort call with a probed port.        *)
Requests  == [kind : {"none", "boot", "choose", "port", "ssl", "upload"},
              want : Settings]
NoRequest == [kind |-> "none", want |-> DefaultSettings]

Answers  == [request : Requests, ok : BOOLEAN]
NoAnswer == [request |-> NoRequest, ok |-> FALSE]

Labels == {"idle", "boot", "hook", "writePort", "setSSL", "upload", "reload",
           "httpProbe", "httpRetire", "httpPublish", "cert", "listenTLS",
           "httpsProbe", "httpsRetire", "httpsPublish", "writeConfig",
           "failed", "panicked"}

-----------------------------------------------------------------------------
VARIABLES
    up,         \* the process runs
    hooked,     \* reloadGateways is registered as a callback
    mem,        \* service.State
    cfg,        \* viper's copy
    file,       \* gateway.ini
    pair,       \* gateway.crt and gateway.key: "none" (absent or unusable),
                \* "mixed" (halves of different pairs), "auto", "custom"
    pc,         \* where each thread is
    req,        \* what it works on
    round,      \* which setter of SetSSLConfig it is in, 1 to 4
    target,     \* the HTTPS port it has read
    fresh,      \* the server it has started and not yet published
    retries,    \* its countdown in checkHTTPSURLWithRetry
    status,     \* of each server: "closed", "bound" (Listen done), "serving",
                \* "retiring" (Shutdown due), "dead" (ServeTLS returned an
                \* error and its listener is still open)
    addr,       \* the port in each server's Addr
    cert,       \* what each serves: "plain" HTTP, "none" (not loaded yet), or
                \* the pair it loaded
    gateway,    \* _gateway
    sslGateway, \* _sslGateway
    foreign,    \* ports bound by other processes
    crashes,    \* crashes so far
    answer      \* history: the last management request that ended, and how

settingsVars == <<mem, cfg, file>>
threadVars   == <<pc, req, round, target, fresh, retries>>
serverVars   == <<status, addr, cert>>
slotVars     == <<gateway, sslGateway>>
worldVars    == <<foreign, crashes>>
vars == <<up, hooked, settingsVars, pair, threadVars, serverVars, slotVars,
          worldVars, answer>>

TypeOK ==
    /\ up \in BOOLEAN
    /\ hooked \in BOOLEAN
    /\ mem \in Settings
    /\ cfg \in Settings
    /\ file \in Settings
    /\ pair \in {"none", "mixed", "auto", "custom"}
    /\ pc \in [Threads -> Labels]
    /\ req \in [Threads -> Requests]
    /\ round \in [Threads -> 1 .. 4]
    /\ target \in [Threads -> PortText]
    /\ fresh \in [Threads -> Servers \cup {NoServer}]
    /\ retries \in [Threads -> 0 .. RetryWrap - 1]
    /\ status \in [Servers -> {"closed", "bound", "serving", "retiring", "dead"}]
    /\ addr \in [Servers -> PortText]
    /\ cert \in [Servers -> {"plain", "none", "auto", "custom"}]
    /\ gateway \in Servers \cup {NoServer}
    /\ sslGateway \in Servers \cup {NoServer}
    /\ foreign \in SUBSET Ports
    /\ crashes \in 0 .. MaxCrashes
    /\ answer \in Answers

-----------------------------------------------------------------------------
At(t, label)   == up /\ pc[t] = label
Goto(t, label) == pc' = [pc EXCEPT ![t] = label]

Listening(s) == status[s] \in {"bound", "serving", "retiring", "dead"}
Accepting(s) == status[s] \in {"serving", "retiring"}

(* Faulty variant: a server of this process does not keep its port. *)
PortFreeOfOthers(p) == p \notin foreign

(* net.Listen on the port succeeds. *)
PortFree(p)  == p \notin foreign /\ \A s \in Servers : Listening(s) => addr[s] # p

Referenced(s)  == s \in {gateway, sslGateway} \/ \E t \in Threads : fresh[t] = s
FreeServers    == {s \in Servers : status[s] = "closed" /\ ~Referenced(s)}
NextServer(s)  == s \in FreeServers /\ \A x \in FreeServers : s <= x

(* Faulty variants: the result of the probe is ignored; the HTTPS probe    *)
(* uses http; the HTTP probe uses https.                                   *)
PingIgnored(p, secure) == TRUE
PingPlain(p, secure) ==
    \E s \in Servers : Accepting(s) /\ addr[s] = p /\ cert[s] = "plain"
PingSecure(p, secure) ==
    \E s \in Servers : Accepting(s) /\ addr[s] = p /\ cert[s] # "plain"

(* A client asking port p of this host for /ping gets a reply: the probe   *)
(* names a port, not a server.                                             *)
PingAnswered(p, secure) ==
    \E s \in Servers : Accepting(s) /\ addr[s] = p /\ (cert[s] # "plain") = secure

(* Faulty variant: the old server is forgotten. *)
RetiredNever(s) == status

(* The goroutine that will shut a server down has been started; a server   *)
(* that is not serving has nothing to shut down.                           *)
Retired(s) == IF s # NoServer /\ Accepting(s)
              THEN [status EXCEPT ![s] = "retiring"] ELSE status

Ready == up /\ hooked /\ pc[Main] = "idle"
Quiet == Ready /\ \A h \in Handlers : pc[h] = "idle"

MayRequest(h) == up /\ pc[h] = "idle" /\ (Serialized => Quiet)

-----------------------------------------------------------------------------
(* The process *)

Init ==
    /\ up = FALSE
    /\ hooked = FALSE
    /\ file \in InitialFiles
    /\ mem = DefaultSettings
    /\ cfg = DefaultSettings
    /\ pair \in {"none", "auto"}
    /\ pc = [t \in Threads |-> "idle"]
    /\ req = [t \in Threads |-> NoRequest]
    /\ round = [t \in Threads |-> 1]
    /\ target = [t \in Threads |-> NoPort]
    /\ fresh = [t \in Threads |-> NoServer]
    /\ retries = [t \in Threads |-> RetryLimit]
    /\ status = [s \in Servers |-> "closed"]
    /\ addr = [s \in Servers |-> NoPort]
    /\ cert = [s \in Servers |-> "plain"]
    /\ gateway = NoServer
    /\ sslGateway = NoServer
    /\ foreign = {}
    /\ crashes = 0
    /\ answer = NoAnswer

(* systemd starts the process: LoadConfig, then the setters of init(),     *)
(* which run before any callback is registered.                            *)
Boot ==
    /\ ~up
    /\ up' = TRUE
    /\ cfg' = file
    /\ mem' = file
    /\ Goto(Main, "boot")
    /\ UNCHANGED <<hooked, file, pair, req, round, target, fresh, retries,
                   serverVars, slotVars, worldVars, answer>>

(* The process is gone, and with it its memory, its threads and sockets.   *)
Halt ==
    /\ up' = FALSE
    /\ hooked' = FALSE
    /\ mem' = DefaultSettings
    /\ cfg' = DefaultSettings
    /\ pc' = [t \in Threads |-> "idle"]
    /\ req' = [t \in Threads |-> NoRequest]
    /\ round' = [t \in Threads |-> 1]
    /\ target' = [t \in Threads |-> NoPort]
    /\ fresh' = [t \in Threads |-> NoServer]
    /\ retries' = [t \in Threads |-> RetryLimit]
    /\ status' = [s \in Servers |-> "closed"]
    /\ addr' = [s \in Servers |-> NoPort]
    /\ cert' = [s \in Servers |-> "plain"]
    /\ gateway' = NoServer
    /\ sslGateway' = NoServer
    /\ answer' = NoAnswer

(* WriteConfig truncates gateway.ini before it writes: a crash in a write  *)
(* may leave the empty file, which loads as the defaults.                  *)
Writing == \E t \in Threads : pc[t] \in {"writePort", "writeConfig"}

Crash ==
    /\ up
    /\ crashes < MaxCrashes
    /\ crashes' = crashes + 1
    /\ \/ file' = file
       \/ Writing /\ file' = DefaultSettings
    /\ Halt
    /\ UNCHANGED <<pair, foreign>>

(* Another process of the host binds or releases a port. *)
Occupy(p) ==
    /\ p \in Contended
    /\ PortFree(p)
    /\ foreign' = foreign \cup {p}
    /\ UNCHANGED <<up, hooked, settingsVars, pair, threadVars, serverVars,
                   slotVars, crashes, answer>>

Release(p) ==
    /\ p \in foreign
    /\ foreign' = foreign \ {p}
    /\ UNCHANGED <<up, hooked, settingsVars, pair, threadVars, serverVars,
                   slotVars, crashes, answer>>

-----------------------------------------------------------------------------
(* Requests to the management API *)

Receive(h, kind, want) ==
    /\ MayRequest(h)
    /\ req' = [req EXCEPT ![h] = [kind |-> kind, want |-> want]]

PutPort(h) ==
    /\ \E p \in PortRequests : Receive(h, "port", [DefaultSettings EXCEPT !.port = p])
    /\ Goto(h, "writePort")
    /\ UNCHANGED <<up, hooked, settingsVars, pair, round, target, fresh, retries,
                   serverVars, slotVars, worldVars, answer>>

PutSSL(h) ==
    /\ \E want \in SSLRequests : Receive(h, "ssl", want)
    /\ Goto(h, "setSSL")
    /\ UNCHANGED <<up, hooked, settingsVars, pair, round, target, fresh, retries,
                   serverVars, slotVars, worldVars, answer>>

(* The upload overwrites gateway.crt first ... *)
UploadCert(h) ==
    /\ Uploads # {}
    /\ Receive(h, "upload", DefaultSettings)
    /\ Goto(h, "upload")
    /\ pair' = "mixed"
    /\ UNCHANGED <<up, hooked, settingsVars, round, target, fresh, retries,
                   serverVars, slotVars, worldVars, answer>>

(* The goroutine answers its request and is gone.  Answers are remembered  *)
(* where requests do not overlap: only there a property asks for the last. *)
Ends(h, ok) ==
    /\ Goto(h, "idle")
    /\ answer' = IF Serialized THEN [request |-> req[h], ok |-> ok] ELSE NoAnswer
    /\ req' = [req EXCEPT ![h] = NoRequest]
    /\ round' = [round EXCEPT ![h] = 1]
    /\ target' = [target EXCEPT ![h] = NoPort]
    /\ retries' = [retries EXCEPT ![h] = RetryLimit]

(* ... then gateway.key, and loads the pair it has written.  A pair that   *)
(* does not load is removed.  One that loads is put in use by SetSSLConfig *)
(* when HTTPS is enabled.                                                  *)
UploadRejected(h) ==
    /\ At(h, "upload")
    /\ "invalid" \in Uploads
    /\ pair' = "none"
    /\ Ends(h, FALSE)
    /\ UNCHANGED <<up, hooked, settingsVars, fresh, serverVars, slotVars, worldVars>>

UploadAccepted(h) ==
    /\ At(h, "upload")
    /\ "valid" \in Uploads
    /\ pair' = "custom"
    /\ \/ /\ mem.enabled
          /\ req' = [req EXCEPT ![h].want = [mem EXCEPT !.certType = "custom"]]
          /\ Goto(h, "setSSL")
          /\ UNCHANGED <<round, target, retries, answer>>
       \/ /\ ~mem.enabled
          /\ Ends(h, TRUE)
    /\ UNCHANGED <<up, hooked, settingsVars, fresh, serverVars, slotVars, worldVars>>

(* An error reaches the handler, which answers 500. *)
Refuse(h) ==
    /\ At(h, "failed")
    /\ Ends(h, FALSE)
    /\ UNCHANGED <<up, hooked, settingsVars, pair, fresh, serverVars, slotVars,
                   worldVars>>

(* A panic unwinds the handler up to net/http, which recovers it.  The     *)
(* deferred function of SetGatewayPort runs on the way, with err == nil.   *)
Unwind(h) ==
    /\ At(h, "panicked")
    /\ mem' = IF req[h].kind = "port"
              THEN [mem EXCEPT !.port = req[h].want.port] ELSE mem
    /\ Ends(h, FALSE)
    /\ UNCHANGED <<up, hooked, cfg, file, pair, fresh, serverVars, slotVars,
                   worldVars>>

(* An error or a panic in a start hook ends the process. *)
BootFails ==
    /\ At(Main, "failed") \/ At(Main, "panicked")
    /\ Halt
    /\ UNCHANGED <<file, pair, worldVars>>

-----------------------------------------------------------------------------
(* The gateway start hook *)

(* The first port of the probed sequence that is free; when none is, the   *)
(* loop ends with the last one it tried.                                   *)
Probed(p) ==
    LET free == {i \in 1 .. Len(AutoPorts) : PortFree(AutoPorts[i])}
    IN  \/ free = {} /\ p = AutoPorts[Len(AutoPorts)]
        \/ \E i \in free : p = AutoPorts[i] /\ \A j \in free : i <= j

ChoosePort ==
    /\ At(Main, "boot")
    /\ mem.port = NoPort
    /\ \E p \in Ports :
         /\ Probed(p)
         /\ req' = [req EXCEPT ![Main] =
                     [kind |-> "choose", want |-> [DefaultSettings EXCEPT !.port = p]]]
    /\ Goto(Main, "writePort")
    /\ UNCHANGED <<up, hooked, settingsVars, pair, round, target, fresh, retries,
                   serverVars, slotVars, worldVars, answer>>

UseConfiguredPort ==
    /\ At(Main, "boot")
    /\ mem.port # NoPort
    /\ Goto(Main, "hook")
    /\ UNCHANGED <<up, hooked, settingsVars, pair, req, round, target, fresh,
                   retries, serverVars, slotVars, worldVars, answer>>

(* OnGatewayConfigChange(reload), then the first reload. *)
HookReload ==
    /\ At(Main, "hook")
    /\ hooked' = TRUE
    /\ req' = [req EXCEPT ![Main] = [kind |-> "boot", want |-> DefaultSettings]]
    /\ Goto(Main, "reload")
    /\ UNCHANGED <<up, settingsVars, pair, round, target, fresh, retries,
                   serverVars, slotVars, worldVars, answer>>

-----------------------------------------------------------------------------
(* State: the setters and the callbacks they run *)

(* Faulty variant: the reload callback is not run. *)
NotifyWriterOnly(t) == Goto(t, "writeConfig")

(* The callbacks of a change run in reverse order of registration: the     *)
(* reload, once it is registered, and then the writer.                     *)
Notify(t) == Goto(t, IF hooked THEN "reload" ELSE "writeConfig")

WriteFails(t) ==
    /\ "disk" \in Faults
    /\ file' \in {file, DefaultSettings}
    /\ Goto(t, "failed")

(* SetGatewayPort, first part: the port-change writer. *)
PortWriter(t) ==
    /\ At(t, "writePort")
    /\ cfg' = [cfg EXCEPT !.port = req[t].want.port]
    /\ \/ file' = cfg' /\ Notify(t)
       \/ WriteFails(t)
    /\ UNCHANGED <<up, hooked, mem, pair, req, round, target, fresh, retries,
                   serverVars, slotVars, worldVars, answer>>

(* SetSSLEnabled, SetSSLPort, SetSSLDomain, SetSSLCertType: assign, notify. *)
SetSSL(t) ==
    /\ At(t, "setSSL")
    /\ LET want == req[t].want
       IN  mem' = CASE round[t] = 1 -> [mem EXCEPT !.enabled = want.enabled]
                    [] round[t] = 2 -> [mem EXCEPT !.sslPort = want.sslPort]
                    [] round[t] = 3 -> mem
                    [] round[t] = 4 -> [mem EXCEPT !.certType = want.certType]
    /\ Notify(t)
    /\ UNCHANGED <<up, hooked, cfg, file, pair, req, round, target, fresh, retries,
                   serverVars, slotVars, worldVars, answer>>

(* Faulty variants: one call too many; a return after the first. *)
SettersTooMany == 5
SettersOne     == 1

(* SetSSLConfig calls four setters, whatever each leaves unchanged.        *)
Setters == 4

(* The config-change writer saves the settings in memory.  It is the last  *)
(* callback: SetGatewayPort assigns its port only now, and SetSSLConfig    *)
(* goes on to its next setter.                                             *)
ConfigWriter(t) ==
    /\ At(t, "writeConfig")
    /\ cfg' = mem
    /\ \/ /\ file' = mem
          /\ req[t].kind \in {"choose", "port"}
          /\ mem' = [mem EXCEPT !.port = req[t].want.port]
          /\ \/ /\ t = Main
                /\ Goto(t, "hook")
                /\ UNCHANGED <<req, round, target, retries, answer>>
             \/ /\ t # Main
                /\ Ends(t, TRUE)
       \/ /\ file' = mem
          /\ req[t].kind \in {"ssl", "upload"}
          /\ round[t] < Setters
          /\ round' = [round EXCEPT ![t] = @ + 1]
          /\ Goto(t, "setSSL")
          /\ UNCHANGED <<mem, req, target, retries, answer>>
       \/ /\ file' = mem
          /\ req[t].kind \in {"ssl", "upload"}
          /\ round[t] = Setters
          /\ Ends(t, TRUE)
          /\ UNCHANGED mem
       \/ /\ WriteFails(t)
          /\ UNCHANGED <<mem, req, round, target, retries, answer>>
    /\ UNCHANGED <<up, hooked, pair, fresh, serverVars, slotVars, worldVars>>

-----------------------------------------------------------------------------
(* reloadGateways: the HTTP half *)

HTTPRuns(p) == gateway # NoServer /\ addr[gateway] = p

(* No port is configured: the server is dropped and shut down. *)
StopHTTP(t) ==
    /\ At(t, "reload")
    /\ mem.port = NoPort
    /\ gateway' = NoServer
    /\ status' = Retired(gateway)
    /\ Goto(t, "cert")
    /\ UNCHANGED <<up, hooked, settingsVars, pair, req, round, target, fresh,
                   retries, addr, cert, sslGateway, worldVars, answer>>

KeepHTTP(t) ==
    /\ At(t, "reload")
    /\ mem.port # NoPort
    /\ HTTPRuns(mem.port)
    /\ Goto(t, "cert")
    /\ UNCHANGED <<up, hooked, settingsVars, pair, req, round, target, fresh,
                   retries, serverVars, slotVars, worldVars, answer>>

Started(t, s, p, c) ==
    /\ NextServer(s)
    /\ status' = [status EXCEPT ![s] = "bound"]
    /\ addr' = [addr EXCEPT ![s] = p]
    /\ cert' = [cert EXCEPT ![s] = c]
    /\ fresh' = [fresh EXCEPT ![t] = s]

StartHTTP(t) ==
    /\ At(t, "reload")
    /\ mem.port # NoPort
    /\ ~HTTPRuns(mem.port)
    /\ PortFree(mem.port)
    /\ \E s \in Servers : Started(t, s, mem.port, "plain")
    /\ Goto(t, "httpProbe")
    /\ UNCHANGED <<up, hooked, settingsVars, pair, req, round, target, retries,
                   slotVars, worldVars, answer>>

ListenFailsHTTP(t) ==
    /\ At(t, "reload")
    /\ mem.port # NoPort
    /\ ~HTTPRuns(mem.port)
    /\ ~PortFree(mem.port)
    /\ Goto(t, "failed")
    /\ UNCHANGED <<up, hooked, settingsVars, pair, req, round, target, fresh,
                   retries, serverVars, slotVars, worldVars, answer>>

ProbeHTTP(t) ==
    /\ At(t, "httpProbe")
    /\ PingAnswered(addr[fresh[t]], FALSE)
    /\ Goto(t, "httpRetire")
    /\ UNCHANGED <<up, hooked, settingsVars, pair, req, round, target, fresh,
                   retries, serverVars, slotVars, worldVars, answer>>

(* A probe that gets no reply makes checkURL use a nil response.  The new  *)
(* server is not published, and nothing shuts it down.                     *)
ProbePanics(t) ==
    /\ At(t, "httpProbe")
    /\ "probe" \in Faults
    /\ fresh' = [fresh EXCEPT ![t] = NoServer]
    /\ Goto(t, "panicked")
    /\ UNCHANGED <<up, hooked, settingsVars, pair, req, round, target, retries,
                   serverVars, slotVars, worldVars, answer>>

RetireHTTP(t) ==
    /\ At(t, "httpRetire")
    /\ status' = Retired(gateway)
    /\ Goto(t, "httpPublish")
    /\ UNCHANGED <<up, hooked, settingsVars, pair, req, round, target, fresh,
                   retries, addr, cert, slotVars, worldVars, answer>>

PublishHTTP(t) ==
    /\ At(t, "httpPublish")
    /\ gateway' = fresh[t]
    /\ fresh' = [fresh EXCEPT ![t] = NoServer]
    /\ Goto(t, "cert")
    /\ UNCHANGED <<up, hooked, settingsVars, pair, req, round, target, retries,
                   serverVars, sslGateway, worldVars, answer>>

-----------------------------------------------------------------------------
(* reloadGateways: the HTTPS half *)

HTTPSRuns(p) == sslGateway # NoServer /\ addr[sslGateway] = p

(* The reload returns: the start hook is done, any other caller goes on to *)
(* the next callback.                                                      *)
Reloaded(t) == Goto(t, IF req[t].kind = "boot" THEN "idle" ELSE "writeConfig")

HTTPSWanted == mem.enabled /\ mem.sslPort # NoPort

StopHTTPS(t) ==
    /\ At(t, "cert")
    /\ ~HTTPSWanted
    /\ sslGateway' = NoServer
    /\ status' = Retired(sslGateway)
    /\ Reloaded(t)
    /\ UNCHANGED <<up, hooked, settingsVars, pair, req, round, target, fresh,
                   retries, addr, cert, gateway, worldVars, answer>>

(* In auto mode a pair whose CommonName is not the domain is replaced: the *)
(* generated one never passes that test, an uploaded one may.              *)
CheckedPairs == IF mem.certType # "auto" THEN {pair}
                ELSE {"auto"} \cup (IF pair \in {"mixed", "custom"} THEN {pair} ELSE {})

EnsureCert(t) ==
    /\ At(t, "cert")
    /\ HTTPSWanted
    /\ pair' \in CheckedPairs
    /\ target' = [target EXCEPT ![t] = mem.sslPort]
    /\ Goto(t, "listenTLS")
    /\ UNCHANGED <<up, hooked, settingsVars, req, round, fresh, retries,
                   serverVars, slotVars, worldVars, answer>>

EnsureCertFails(t) ==
    /\ At(t, "cert")
    /\ HTTPSWanted
    /\ mem.certType = "auto"
    /\ "cert" \in Faults
    /\ pair' \in {pair, "none"}
    /\ Goto(t, "failed")
    /\ UNCHANGED <<up, hooked, settingsVars, req, round, target, fresh, retries,
                   serverVars, slotVars, worldVars, answer>>

KeepHTTPS(t) ==
    /\ At(t, "listenTLS")
    /\ HTTPSRuns(target[t])
    /\ Reloaded(t)
    /\ UNCHANGED <<up, hooked, settingsVars, pair, req, round, target, fresh,
                   retries, serverVars, slotVars, worldVars, answer>>

StartHTTPS(t) ==
    /\ At(t, "listenTLS")
    /\ ~HTTPSRuns(target[t])
    /\ PortFree(target[t])
    /\ \E s \in Servers : Started(t, s, target[t], "none")
    /\ retries' = [retries EXCEPT ![t] = RetryLimit]
    /\ Goto(t, "httpsProbe")
    /\ UNCHANGED <<up, hooked, settingsVars, pair, req, round, target,
                   slotVars, worldVars, answer>>

ListenFailsHTTPS(t) ==
    /\ At(t, "listenTLS")
    /\ ~HTTPSRuns(target[t])
    /\ ~PortFree(target[t])
    /\ Goto(t, "failed")
    /\ UNCHANGED <<up, hooked, settingsVars, pair, req, round, target, fresh,
                   retries, serverVars, slotVars, worldVars, answer>>

ProbeHTTPS(t) ==
    /\ At(t, "httpsProbe")
    /\ PingAnswered(addr[fresh[t]], TRUE)
    /\ Goto(t, "httpsRetire")
    /\ UNCHANGED <<up, hooked, settingsVars, pair, req, round, target, fresh,
                   retries, serverVars, slotVars, worldVars, answer>>

(* The counter is unsigned and the loop runs while it is >= 0: it wraps,   *)
(* and the loop has no other exit than a reply.                            *)
ProbeRetryHTTPS(t) ==
    /\ At(t, "httpsProbe")
    /\ ~PingAnswered(addr[fresh[t]], TRUE)
    /\ retries' = [retries EXCEPT ![t] = (@ + RetryWrap - 1) % RetryWrap]
    /\ UNCHANGED <<up, hooked, settingsVars, pair, pc, req, round, target, fresh,
                   serverVars, slotVars, worldVars, answer>>

RetireHTTPS(t) ==
    /\ At(t, "httpsRetire")
    /\ status' = Retired(sslGateway)
    /\ Goto(t, "httpsPublish")
    /\ UNCHANGED <<up, hooked, settingsVars, pair, req, round, target, fresh,
                   retries, addr, cert, slotVars, worldVars, answer>>

PublishHTTPS(t) ==
    /\ At(t, "httpsPublish")
    /\ sslGateway' = fresh[t]
    /\ fresh' = [fresh EXCEPT ![t] = NoServer]
    /\ Reloaded(t)
    /\ UNCHANGED <<up, hooked, settingsVars, pair, req, round, target, retries,
                   serverVars, gateway, worldVars, answer>>

-----------------------------------------------------------------------------
(* The goroutines of the servers *)

ServeHTTP(s) ==
    /\ status[s] = "bound"
    /\ cert[s] = "plain"
    /\ status' = [status EXCEPT ![s] = "serving"]
    /\ UNCHANGED <<up, hooked, settingsVars, pair, threadVars, addr, cert,
                   slotVars, worldVars, answer>>

(* ServeTLS loads the pair when it starts; if that fails it returns and    *)
(* does not close the listener it was given.                               *)
ServeTLS(s) ==
    /\ status[s] = "bound"
    /\ cert[s] = "none"
    /\ \/ /\ pair \in {"auto", "custom"}
          /\ status' = [status EXCEPT ![s] = "serving"]
          /\ cert' = [cert EXCEPT ![s] = pair]
       \/ /\ pair \notin {"auto", "custom"}
          /\ status' = [status EXCEPT ![s] = "dead"]
          /\ UNCHANGED cert
    /\ UNCHANGED <<up, hooked, settingsVars, pair, threadVars, addr,
                   slotVars, worldVars, answer>>

(* Faulty variant: the goroutine ends without the call. *)
ShutdownForgotten(s) == status[s] = "retiring" /\ UNCHANGED vars

(* Shutdown closes the listener.  A server being replaced is given a       *)
(* second first, in which its successor is published.                      *)
Shutdown(s) ==
    /\ status[s] = "retiring"
    /\ s \notin {gateway, sslGateway}
    /\ status' = [status EXCEPT ![s] = "closed"]
    /\ addr' = [addr EXCEPT ![s] = NoPort]
    /\ cert' = [cert EXCEPT ![s] = "plain"]
    /\ UNCHANGED <<up, hooked, settingsVars, pair, threadVars, slotVars,
                   worldVars, answer>>

(* The garbage collector finalises the socket of an abandoned listener. *)
CollectListener(s) ==
    /\ status[s] = "dead"
    /\ status' = [status EXCEPT ![s] = "closed"]
    /\ UNCHANGED <<up, hooked, settingsVars, pair, threadVars, addr, cert,
                   slotVars, worldVars, answer>>

-----------------------------------------------------------------------------
HandlerRequest(h) == PutPort(h) \/ PutSSL(h) \/ UploadCert(h)

HandlerStep(h) ==
    UploadRejected(h) \/ UploadAccepted(h) \/ Refuse(h) \/ Unwind(h)

MainStep == ChoosePort \/ UseConfiguredPort \/ HookReload \/ BootFails

SettingStep(t) == PortWriter(t) \/ SetSSL(t) \/ ConfigWriter(t)

ReloadHTTP(t) ==
    \/ StopHTTP(t) \/ KeepHTTP(t) \/ StartHTTP(t) \/ ListenFailsHTTP(t)
    \/ ProbeHTTP(t) \/ ProbePanics(t) \/ RetireHTTP(t) \/ PublishHTTP(t)

ReloadHTTPS(t) ==
    \/ StopHTTPS(t) \/ EnsureCert(t) \/ EnsureCertFails(t)
    \/ KeepHTTPS(t) \/ StartHTTPS(t) \/ ListenFailsHTTPS(t)
    \/ ProbeHTTPS(t) \/ ProbeRetryHTTPS(t) \/ RetireHTTPS(t) \/ PublishHTTPS(t)

ThreadStep(t) == SettingStep(t) \/ ReloadHTTP(t) \/ ReloadHTTPS(t)

ServerStep(s) == ServeHTTP(s) \/ ServeTLS(s) \/ Shutdown(s)

Next ==
    \/ Boot \/ Crash \/ MainStep
    \/ \E h \in Handlers : HandlerRequest(h) \/ HandlerStep(h)
    \/ \E t \in Threads : ThreadStep(t)
    \/ \E s \in Servers : ServerStep(s) \/ CollectListener(s)
    \/ \E p \in Ports : Occupy(p) \/ Release(p)

Spec == Init /\ [][Next]_vars

(* Goroutines are scheduled, and systemd restarts the process              *)
(* (Restart=always).  Clients, other processes, crashes and the garbage    *)
(* collector owe nothing.                                                  *)
Fairness ==
    /\ WF_vars(Boot)
    /\ WF_vars(MainStep)
    /\ \A h \in Handlers : WF_vars(HandlerStep(h))
    /\ \A t \in Threads : WF_vars(ThreadStep(t))
    /\ \A s \in Servers : WF_vars(ServerStep(s))

FairSpec == Spec /\ Fairness
-----------------------------------------------------------------------------
(* Properties *)

Retiring(s, label) == status[s] = "retiring" /\ \E t \in Threads : pc[t] = label

(* Zero-downtime: while the gateway holds an HTTP server, that server      *)
(* accepts requests; once it is being retired its successor is the next    *)
(* thing to be published (main.go:504-522).  Holds however handlers and    *)
(* the start hook interleave.                                              *)
FrontDoorOpen ==
    gateway # NoServer => status[gateway] = "serving" \/ Retiring(gateway, "httpPublish")

(* The same of the HTTPS server (main.go:559-577).                         *)
SSLDoorOpen ==
    sslGateway # NoServer =>
        status[sslGateway] = "serving" \/ Retiring(sslGateway, "httpsPublish")

(* No socket is bound twice, whatever two reloads and a dying ServeTLS do  *)
(* with the same port (main.go:480, 535).                                  *)
PortExclusive ==
    \A r, s \in Servers :
        Listening(r) /\ Listening(s) /\ addr[r] = addr[s] => r = s

(* Why the front door stays open: a thread between the probe and the       *)
(* publication of an HTTP server owns one that nobody else can retire.     *)
HTTPHandover ==
    \A t \in Threads :
        pc[t] \in {"httpProbe", "httpRetire", "httpPublish"} =>
            /\ fresh[t] \in Servers
            /\ cert[fresh[t]] = "plain"
            /\ status[fresh[t]] \in {"bound", "serving"}
            /\ pc[t] # "httpProbe" => status[fresh[t]] = "serving"

HTTPSHandover ==
    \A t \in Threads :
        pc[t] \in {"httpsProbe", "httpsRetire", "httpsPublish"} =>
            /\ fresh[t] \in Servers
            /\ cert[fresh[t]] # "plain"
            /\ status[fresh[t]] # "retiring"

FreshOwned ==
    \A t \in Threads : fresh[t] # NoServer =>
        /\ fresh[t] \notin {gateway, sslGateway}
        /\ \A u \in Threads : fresh[u] = fresh[t] => u = t

SlotsApart ==
    /\ gateway # NoServer => up /\ cert[gateway] = "plain"
    /\ sslGateway # NoServer => cert[sslGateway] # "plain"

(* The inductive invariant behind FrontDoorOpen and PortExclusive.         *)
HandoverInv == /\ TypeOK
               /\ FrontDoorOpen
               /\ PortExclusive
               /\ HTTPHandover
               /\ HTTPSHandover
               /\ FreshOwned
               /\ SlotsApart

(* Both servers are swapped make before break: what replaces them serves   *)
(* already when they are retired, and is published next (main.go:504-522,  *)
(* 559-577).                                                               *)
ServingServers(secure) ==
    {s \in Servers : status[s] = "serving" /\ (cert[s] # "plain") = secure}

FreshAt(label) == {fresh[t] : t \in {u \in Threads : pc[u] = label}}

HTTPSwap == INSTANCE HotSwap WITH
    None    <- NoServer,
    door    <- gateway,
    serving <- ServingServers(FALSE),
    ready   <- FreshAt("httpPublish")

TLSSwap == INSTANCE HotSwap WITH
    None    <- NoServer,
    door    <- sslGateway,
    serving <- ServingServers(TRUE),
    ready   <- FreshAt("httpsPublish")

ImplementsHotSwap == HTTPSwap!Spec /\ TLSSwap!Spec

(* Every server that serves is one the process can still shut down: the    *)
(* one in _gateway or _sslGateway, or one a reload is about to publish     *)
(* (main.go:511-522, 566-577).                                             *)
NoStrayServer == \A s \in Servers : status[s] = "serving" => Referenced(s)

Running == [port    |-> IF gateway = NoServer THEN NoPort ELSE addr[gateway],
            sslPort |-> IF sslGateway = NoServer THEN NoPort ELSE addr[sslGateway]]

Described(f) == [port    |-> f.port,
                 sslPort |-> IF f.enabled THEN f.sslPort ELSE NoPort]

(* When a PUT of the port or of the SSL settings has been answered 200,    *)
(* gateway.ini describes the servers that run: what a restart will bring   *)
(* back is what is there (main.go:133-145, state.go:42-116).               *)
FileDescribesRunning ==
    Quiet /\ answer.ok /\ answer.request.kind \in {"port", "ssl"}
        => Running = Described(file)

(* A PUT of the SSL settings answered 200 has made all of them hold, in    *)
(* memory and in the file (management.go:158-172).                         *)
SSLSettingsApplied ==
    Quiet /\ answer.ok /\ answer.request.kind = "ssl" =>
        \A f \in {"enabled", "sslPort", "certType"} :
            mem[f] = answer.request.want[f] /\ file[f] = answer.request.want[f]

(* What the repository says of a change, and the code does not do: the     *)
(* next two are refuted, each by a run of its own.                         *)

(* OVERVIEW.md:71, 104: a PUT of the port that is answered 200 has moved   *)
(* the gateway to that port (state.go:42-52, main.go:392-398).             *)
PortSwitchTakesEffect ==
    Quiet /\ answer.ok /\ answer.request.kind = "port"
        => Running.port = answer.request.want.port

(* main.go:560: the HTTPS probe is given ten retries; so it ends, whether  *)
(* or not the server answers (main.go:597-612).                            *)
ProbesEnd == \A t \in Threads : pc[t] = "httpsProbe" ~> pc[t] # "httpsProbe"

(* A server that is retired is shut down: nothing holds on to it.          *)
RetiredServersStop == \A s \in Servers : status[s] = "retiring" ~> status[s] = "closed"

(* Every management request is answered, whatever happens to the process.  *)
RequestsAnswered == \A h \in Handlers : pc[h] # "idle" ~> pc[h] = "idle"

(* A stopped process comes back and finishes its start hook.               *)
GatewayReturns == ~up ~> Ready
=============================================================================
