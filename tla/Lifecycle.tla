----------------------------- MODULE Lifecycle -----------------------------
(***************************************************************************)
(* The life of the gateway process, from one start to the next (main.go):  *)
(* init and main, the goroutine in which fx runs the three start hooks,    *)
(* the goroutine that tells systemd READY, the signals, the deferred       *)
(* clean-up, and what outlives a process: the pid file, the two URL files  *)
(* and routes.json.                                                        *)
(*                                                                         *)
(* The reload of the second hook is GatewayReload's and a registration is  *)
(* RouteTable's; here each is a step with its outcomes.  A target or an    *)
(* address is the number of the run whose server it names, 0 is none.      *)
(***************************************************************************)
EXTENDS Integers, Sequences

CONSTANTS
    OwnRoutes,  \* the paths the first hook registers, in their order
    Root,       \* "/", the path of the static server
    MaxRuns,    \* bound on the starts of the process
    Faults      \* "listen", "file", "save": that call of a hook may fail;
                \* "stall": the HTTPS check of the boot may never end; "serve":
                \* the static server may fail; "die": the process may be
                \* killed, panic, or end with os.Exit

ASSUME RouteAssumption == /\ OwnRoutes \in Seq(STRING) /\ OwnRoutes # << >>
                          /\ Root \notin {OwnRoutes[i] : i \in DOMAIN OwnRoutes}
ASSUME RunAssumption   == MaxRuns \in Nat
ASSUME FaultAssumption == Faults \subseteq {"listen", "file", "save", "stall", "serve", "die"}

Own   == {OwnRoutes[i] : i \in DOMAIN OwnRoutes}
Paths == Own \cup {Root}
Files == {"pid", "management", "static"}

VARIABLES
    run,        \* starts so far: the number of the process that runs, or ran last
    main,       \* where the goroutine of main is
    hook,       \* where the goroutine of the start hooks is
    registered, \* how many of its own routes the first hook has registered
    notifier,   \* where the goroutine that notifies systemd is
    cancelled,  \* the context of app.Start is cancelled
    serving,    \* the servers that accept requests
    published,  \* _gateway is set
    held,       \* the HTTP server is in the middle of a request
    ready,      \* systemd has been told READY by this process
    table,      \* pathTargetMap
    saved,      \* routes.json
    files,      \* for each of Files the run it names
    ended       \* history: how the run's app.Start ended: "no" not yet, "orderly"
                \* when its hook was at rest, "cut" when it was not; or "died"

disk   == <<saved, files>>
memory == <<registered, notifier, cancelled, serving, published, held, ready, table>>
vars   == <<run, main, hook, memory, disk, ended>>

(* Where main is once it removes files, with what it removes there and     *)
(* where it goes next.                                                     *)
Removed   == [cleanPid |-> "pid", cleanManagement |-> "management", cleanStatic |-> "static"]
Following == [cleanPid |-> "cleanManagement", cleanManagement |-> "cleanStatic"]

MainLabels == {"down", "pid", "new", "start", "shutdown", "drain"} \cup DOMAIN Removed
HookLabels == {"none", "listen", "url", "serve", "route", "managementReady",
               "http", "publish", "https", "gatewayReady",
               "staticListen", "staticUrl", "staticRoute", "staticServe", "serving",
               "stalled", "failed"}
AtRest     == {"serving", "stalled", "failed"}

TypeOK ==
    /\ run \in 0 .. MaxRuns
    /\ main \in MainLabels
    /\ hook \in HookLabels
    /\ registered \in 0 .. Len(OwnRoutes)
    /\ notifier \in {"management", "gateway", "notify", "done"}
    /\ cancelled \in BOOLEAN
    /\ serving \in SUBSET {"management", "gateway", "static"}
    /\ published \in BOOLEAN
    /\ held \in BOOLEAN
    /\ ready \in BOOLEAN
    /\ table \in [Paths -> 0 .. MaxRuns]
    /\ saved \in [Paths -> 0 .. MaxRuns]
    /\ files \in [Files -> 0 .. MaxRuns]
    /\ ended \in {"no", "orderly", "cut", "died"}
    /\ main = "drain" => published

NoRoutes == [p \in Paths |-> 0]

-----------------------------------------------------------------------------
Forgotten ==
    /\ main' = "down"
    /\ hook' = "none"
    /\ registered' = 0
    /\ notifier' = "management"
    /\ cancelled' = FALSE
    /\ serving' = {}
    /\ published' = FALSE
    /\ held' = FALSE
    /\ ready' = FALSE
    /\ table' = NoRoutes

Init ==
    /\ run = 0
    /\ main = "down"
    /\ hook = "none"
    /\ registered = 0
    /\ notifier = "management"
    /\ cancelled = FALSE
    /\ serving = {}
    /\ published = FALSE
    /\ held = FALSE
    /\ ready = FALSE
    /\ table = NoRoutes
    /\ saved = NoRoutes
    /\ files = [f \in Files |-> 0]
    /\ ended = "no"

(* systemd (Restart=always) starts the process, and init succeeds. *)
Boot ==
    /\ main = "down"
    /\ run < MaxRuns
    /\ run' = run + 1
    /\ main' = "pid"
    /\ ended' = "no"
    /\ UNCHANGED <<hook, memory, disk>>

(* Killed, a panic, os.Exit when the management server fails, or a signal  *)
(* before main listens for it: no deferred call runs.                      *)
Die ==
    /\ main # "down"
    /\ "die" \in Faults
    /\ Forgotten
    /\ ended' = "died"
    /\ UNCHANGED <<run, disk>>

WritePid ==
    /\ main = "pid"
    /\ main' = "new"
    /\ files' = [files EXCEPT !["pid"] = run]
    /\ UNCHANGED <<run, hook, memory, saved, ended>>

(* fx looks at the context before each hook. *)
NextHook(label) == hook' = IF cancelled THEN "failed" ELSE label

(* fx.New makes the route table from routes.json; app.Start starts the     *)
(* goroutine of the hooks.                                                 *)
StartApp ==
    /\ main = "new"
    /\ main' = "start"
    /\ NextHook("listen")
    /\ table' = saved
    /\ UNCHANGED <<run, registered, notifier, cancelled, serving, published, held, ready,
                   disk, ended>>

(* SIGTERM or SIGINT, by whose goroutine the context is cancelled *)
Signal ==
    /\ main \notin {"down", "pid"}
    /\ ~cancelled
    /\ cancelled' = TRUE
    /\ UNCHANGED <<run, main, hook, registered, notifier, serving, published, held, ready,
                   table, disk, ended>>

(* Faulty variant: main waits for the goroutine of the hooks. *)
StartJoined ==
    /\ main = "start"
    /\ hook = "failed"
    /\ main' = "shutdown"
    /\ ended' = "orderly"
    /\ UNCHANGED <<run, hook, memory, disk>>

(* app.Start returns when a hook has failed, and as soon as the context is *)
(* cancelled, whatever the hook that runs is doing.                        *)
StartReturns ==
    /\ main = "start"
    /\ cancelled \/ hook = "failed"
    /\ main' = "shutdown"
    /\ ended' = IF hook \in AtRest THEN "orderly" ELSE "cut"
    /\ UNCHANGED <<run, hook, memory, disk>>

(* Faulty variants: the server is closed and its requests with it; there   *)
(* being a server is not checked.                                          *)
ShutdownAbrupt ==
    /\ main = "shutdown"
    /\ main' = "cleanPid"
    /\ serving' = serving \ {"gateway"}
    /\ UNCHANGED <<run, hook, registered, notifier, cancelled, published, held, ready, table,
                   disk, ended>>

ShutdownUnchecked ==
    /\ main = "shutdown"
    /\ main' = "drain"
    /\ serving' = serving \ {"gateway"}
    /\ UNCHANGED <<run, hook, registered, notifier, cancelled, published, held, ready, table,
                   disk, ended>>

(* The deferred Shutdown of the HTTP server that _gateway names, when there *)
(* is one: it accepts nothing any more ...                                 *)
Shutdown ==
    /\ main = "shutdown"
    /\ main' = IF published THEN "drain" ELSE "cleanPid"
    /\ serving' = IF published THEN serving \ {"gateway"} ELSE serving
    /\ UNCHANGED <<run, hook, registered, notifier, cancelled, published, held, ready, table,
                   disk, ended>>

(* ... and what it has accepted is answered first. *)
Drained ==
    /\ main = "drain"
    /\ ~held
    /\ main' = "cleanPid"
    /\ UNCHANGED <<run, hook, memory, disk, ended>>

(* Faulty variant: the loop ends at the first file that is not there. *)
CleanupStopping(label) ==
    /\ main = label
    /\ files' = [files EXCEPT ![Removed[label]] = 0]
    /\ IF files[Removed[label]] # 0 /\ label \in DOMAIN Following
       THEN /\ main' = Following[label]
            /\ UNCHANGED <<hook, memory>>
       ELSE Forgotten
    /\ UNCHANGED <<run, saved, ended>>

(* cleanupFiles, a file at a time; one that is not there is only logged.   *)
(* The process ends after the last one.                                    *)
Cleanup(label) ==
    /\ main = label
    /\ files' = [files EXCEPT ![Removed[label]] = 0]
    /\ IF label \in DOMAIN Following
       THEN /\ main' = Following[label]
            /\ UNCHANGED <<hook, memory>>
       ELSE Forgotten
    /\ UNCHANGED <<run, saved, ended>>

-----------------------------------------------------------------------------
(* The start hooks.  They run on while main shuts down. *)

InHook(label) == main # "down" /\ hook = label

Listen(from, to) ==
    /\ InHook(from)
    /\ \/ hook' = to
       \/ "listen" \in Faults /\ hook' = "failed"
    /\ UNCHANGED <<run, main, memory, disk, ended>>

(* writeAddressFile; a write that fails may have truncated the file. *)
WriteAddress(from, to, f) ==
    /\ InHook(from)
    /\ \/ hook' = to /\ files' = [files EXCEPT ![f] = run]
       \/ /\ "file" \in Faults
          /\ hook' = "failed"
          /\ files' \in {files, [files EXCEPT ![f] = 0]}
    /\ UNCHANGED <<run, main, memory, saved, ended>>

(* Faulty variant: an entry that exists is kept. *)
CreateRouteOnce(p, to) ==
    /\ table' = [table EXCEPT ![p] = IF @ = 0 THEN run ELSE @]
    /\ \/ hook' = to /\ saved' = table'
       \/ "save" \in Faults /\ hook' = "failed" /\ saved' \in {saved, NoRoutes}

(* CreateRoute with a target of this run; a save that fails may have left  *)
(* an empty file.                                                          *)
CreateRoute(p, to) ==
    /\ table' = [table EXCEPT ![p] = run]
    /\ \/ hook' = to /\ saved' = table'
       \/ "save" \in Faults /\ hook' = "failed" /\ saved' \in {saved, NoRoutes}

ManagementServe ==
    /\ InHook("serve")
    /\ hook' = "route"
    /\ serving' = serving \cup {"management"}
    /\ UNCHANGED <<run, main, registered, notifier, cancelled, published, held, ready, table,
                   disk, ended>>

ManagementRoute ==
    /\ InHook("route")
    /\ registered' = registered + 1
    /\ CreateRoute(OwnRoutes[registered'],
                   IF registered' = Len(OwnRoutes) THEN "managementReady" ELSE "route")
    /\ UNCHANGED <<run, main, notifier, cancelled, serving, published, held, ready, files,
                   ended>>

(* Faulty variants: the notifier receives from this channel only; it       *)
(* receives from the other one first.                                      *)
ManagementReadyAlone ==
    /\ InHook("managementReady")
    /\ notifier = "management"
    /\ notifier' = "notify"
    /\ NextHook("http")
    /\ UNCHANGED <<run, main, registered, cancelled, serving, published, held, ready, table,
                   disk, ended>>

ManagementReadySecond ==
    /\ InHook("managementReady")
    /\ notifier = "gateway"
    /\ notifier' = "notify"
    /\ NextHook("http")
    /\ UNCHANGED <<run, main, registered, cancelled, serving, published, held, ready, table,
                   disk, ended>>

(* Both ends of an unbuffered channel: the hook waits for the notifier. *)
ManagementReady ==
    /\ InHook("managementReady")
    /\ notifier = "management"
    /\ notifier' = "gateway"
    /\ NextHook("http")
    /\ UNCHANGED <<run, main, registered, cancelled, serving, published, held, ready, table,
                   disk, ended>>

(* The boot reload: no port to listen on, or an HTTP server that accepts   *)
(* requests before _gateway names it ...                                   *)
GatewayServe ==
    /\ InHook("http")
    /\ \/ hook' = "publish" /\ serving' = serving \cup {"gateway"}
       \/ "listen" \in Faults /\ hook' = "failed" /\ UNCHANGED serving
    /\ UNCHANGED <<run, main, registered, notifier, cancelled, published, held, ready, table,
                   disk, ended>>

GatewayPublish ==
    /\ InHook("publish")
    /\ hook' = "https"
    /\ published' = TRUE
    /\ UNCHANGED <<run, main, registered, notifier, cancelled, serving, held, ready, table,
                   disk, ended>>

(* ... and then HTTPS, of which a failure fails the hook. *)
GatewaySecure ==
    /\ InHook("https")
    /\ \/ hook' = "gatewayReady"
       \/ "listen" \in Faults /\ hook' = "failed"
       \/ "stall" \in Faults /\ hook' = "stalled"
    /\ UNCHANGED <<run, main, memory, disk, ended>>

GatewayReady ==
    /\ InHook("gatewayReady")
    /\ notifier = "gateway"
    /\ notifier' = "notify"
    /\ NextHook("staticListen")
    /\ UNCHANGED <<run, main, registered, cancelled, serving, published, held, ready, table,
                   disk, ended>>

StaticRoute ==
    /\ InHook("staticRoute")
    /\ CreateRoute(Root, "staticServe")
    /\ UNCHANGED <<run, main, registered, notifier, cancelled, serving, published, held, ready,
                   files, ended>>

(* The third hook serves, and does not return while it does. *)
StaticServe ==
    /\ InHook("staticServe")
    /\ hook' = "serving"
    /\ serving' = serving \cup {"static"}
    /\ UNCHANGED <<run, main, registered, notifier, cancelled, published, held, ready, table,
                   disk, ended>>

StaticFails ==
    /\ InHook("serving")
    /\ "serve" \in Faults
    /\ hook' = "failed"
    /\ serving' = serving \ {"static"}
    /\ UNCHANGED <<run, main, registered, notifier, cancelled, published, held, ready, table,
                   disk, ended>>

Notify ==
    /\ main # "down"
    /\ notifier = "notify"
    /\ notifier' = "done"
    /\ ready' = TRUE
    /\ UNCHANGED <<run, main, hook, registered, cancelled, serving, published, held, table,
                   disk, ended>>

(* A request of the HTTP server *)
Accept ==
    /\ "gateway" \in serving
    /\ ~held
    /\ held' = TRUE
    /\ UNCHANGED <<run, main, hook, registered, notifier, cancelled, serving, published, ready,
                   table, disk, ended>>

Answer ==
    /\ held
    /\ held' = FALSE
    /\ UNCHANGED <<run, main, hook, registered, notifier, cancelled, serving, published, ready,
                   table, disk, ended>>

-----------------------------------------------------------------------------
Main == WritePid \/ StartApp \/ StartReturns \/ Shutdown \/ Drained
        \/ \E label \in DOMAIN Removed : Cleanup(label)

ManagementHook == \/ Listen("listen", "url") \/ WriteAddress("url", "serve", "management")
                  \/ ManagementServe \/ ManagementRoute \/ ManagementReady
GatewayHook    == GatewayServe \/ GatewayPublish \/ GatewaySecure \/ GatewayReady
StaticHook     == \/ Listen("staticListen", "staticUrl")
                  \/ WriteAddress("staticUrl", "staticRoute", "static")
                  \/ StaticRoute \/ StaticServe
Hook == ManagementHook \/ GatewayHook \/ StaticHook

Next == Boot \/ Die \/ Signal \/ Main \/ Hook \/ StaticFails \/ Notify \/ Accept \/ Answer

(* The goroutines are scheduled and requests end; nothing has to fail, and *)
(* nobody has to send a signal.                                            *)
Fairness == WF_vars(Main) /\ WF_vars(Hook) /\ WF_vars(Notify) /\ WF_vars(Answer)

Spec == Init /\ [][Next]_vars /\ Fairness

-----------------------------------------------------------------------------
(* Properties *)

(* When systemd has been told READY, this process's management and gateway *)
(* servers accept requests, and the gateway's own routes and the URL file  *)
(* name this run's management server (main.go:177-188, 216-295, 343-347).  *)
ReadyServes ==
    ready /\ main = "start" =>
        /\ {"management", "gateway"} \subseteq serving
        /\ published
        /\ files["management"] = run
        /\ \A p \in Own : table[p] = run

(* Once the static server serves nothing names a server of an earlier run: *)
(* neither the table, which was loaded from its file, nor routes.json, nor *)
(* a URL file, however the earlier runs ended (main.go:244-291, 373-378).  *)
NothingOfEarlierRuns ==
    hook = "serving" /\ main = "start" =>
        /\ table = [p \in Paths |-> run]
        /\ saved = table
        /\ files = [f \in Files |-> run]

(* A process whose hook was at rest when app.Start returned leaves no pid  *)
(* and no URL file, whatever a run that died before it had left            *)
(* (main.go:155-158, 661-668).                                             *)
OrderlyExitLeavesNoFile ==
    main = "down" /\ ended = "orderly" => files = [f \in Files |-> 0]

(* ... and it cuts off no HTTP request: the server that took it is the one *)
(* the deferred Shutdown waits for (main.go:160-166, 522).                 *)
OrderlyExitCutsNothing ==
    [][main # "down" /\ main' = "down" /\ ended' = "orderly" => ~held]_vars

(* A start goes on to READY and to the static server, unless it ends or    *)
(* the HTTPS check keeps it (main.go:177-188, 293, 347, 385).              *)
BootCompletes ==
    main = "start" ~> \/ ready /\ "static" \in serving
                      \/ main = "down"
                      \/ hook = "stalled"

(* A signal ends the process, also while a hook runs, waits or serves: the *)
(* third one never returns (main.go:172-175, 385).                         *)
SignalStops == cancelled ~> main = "down"
=============================================================================
