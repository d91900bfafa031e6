-------------------------- MODULE Lifecycle_proofs --------------------------
(* Proofs about Lifecycle, for every value of its constants. *)
EXTENDS Lifecycle, TLAPS

LEMMA CleanupOrder ==
    /\ DOMAIN Removed = {"cleanPid", "cleanManagement", "cleanStatic"}
    /\ Removed["cleanPid"] = "pid" /\ Removed["cleanManagement"] = "management"
    /\ Removed["cleanStatic"] = "static"
    /\ DOMAIN Following = {"cleanPid", "cleanManagement"}
    /\ Following["cleanPid"] = "cleanManagement"
    /\ Following["cleanManagement"] = "cleanStatic"
BY DEF Removed, Following

LEMMA MainLabelled ==
    MainLabels = {"down", "pid", "new", "start", "shutdown", "drain",
                  "cleanPid", "cleanManagement", "cleanStatic"}
BY CleanupOrder DEF MainLabels

LEMMA RoutesTyped ==
    /\ Len(OwnRoutes) \in Nat \ {0}
    /\ \A i \in 1 .. Len(OwnRoutes) : OwnRoutes[i] \in Own
    /\ \A p \in Own : \E i \in 1 .. Len(OwnRoutes) : p = OwnRoutes[i]
    /\ Own \subseteq Paths /\ Root \in Paths /\ Root \notin Own
    /\ \A p \in Paths : p = Root \/ p \in Own
    /\ NoRoutes \in [Paths -> 0 .. MaxRuns]
<1>1. OwnRoutes \in Seq(STRING) /\ OwnRoutes # << >>
  BY RouteAssumption
<1>2. Len(OwnRoutes) \in Nat \ {0} /\ DOMAIN OwnRoutes = 1 .. Len(OwnRoutes)
  BY <1>1
<1>3. Own = {OwnRoutes[i] : i \in 1 .. Len(OwnRoutes)}
  BY <1>2 DEF Own
<1>4. Root \notin Own
  BY RouteAssumption DEF Own
<1>5. NoRoutes \in [Paths -> 0 .. MaxRuns]
  BY RunAssumption DEF NoRoutes
<1>6. QED
  BY <1>2, <1>3, <1>4, <1>5 DEF Paths

-----------------------------------------------------------------------------
(* How far the start hooks and the notifier are. *)

Early == {"none", "listen", "url", "serve", "route", "managementReady"}
Late  == {"http", "publish", "https", "gatewayReady", "staticListen", "staticUrl",
          "staticRoute", "staticServe", "serving", "stalled"}

ProgressInv ==
    /\ main \in {"down", "pid", "new"} => hook = "none"
    /\ main = "down" => ~held /\ serving = {}
    /\ hook \in {"none", "listen", "url", "serve"} => registered = 0
    /\ hook = "route" => registered < Len(OwnRoutes)
    /\ hook \in Early => notifier = "management"
    /\ hook \in Late => notifier # "management"
    /\ ready => notifier = "done"

LEMMA ProgressInit == Init => TypeOK /\ ProgressInv
<1> SUFFICES ASSUME Init PROVE TypeOK /\ ProgressInv
  OBVIOUS
<1>1. Len(OwnRoutes) \in Nat \ {0} /\ NoRoutes \in [Paths -> 0 .. MaxRuns] /\ MaxRuns \in Nat
  BY RoutesTyped, RunAssumption
<1>2. /\ main \in MainLabels /\ hook \in HookLabels /\ {} \in SUBSET {"management", "gateway", "static"}
      /\ files \in [Files -> 0 .. MaxRuns]
  BY <1>1, MainLabelled DEF Init, HookLabels
<1>3. TypeOK
  <2>1. /\ cancelled \in BOOLEAN /\ published \in BOOLEAN /\ held \in BOOLEAN /\ ready \in BOOLEAN
        /\ main # "drain"
    BY DEF Init
  <2>2. /\ run \in 0 .. MaxRuns /\ registered \in 0 .. Len(OwnRoutes)
        /\ table \in [Paths -> 0 .. MaxRuns] /\ saved \in [Paths -> 0 .. MaxRuns]
    BY <1>1 DEF Init
  <2>3. /\ notifier \in {"management", "gateway", "notify", "done"}
        /\ serving \in SUBSET {"management", "gateway", "static"}
        /\ ended \in {"no", "orderly", "cut", "died"}
    BY DEF Init
  <2>4. QED
    BY <1>2, <2>1, <2>2, <2>3 DEF TypeOK
<1>4. ProgressInv
  BY <1>1 DEF Init, ProgressInv, Early, Late
<1>5. QED
  BY <1>3, <1>4

LEMMA ForgottenTyped ==
    ASSUME TypeOK, Forgotten, run' = run, saved' = saved,
           files' \in [Files -> 0 .. MaxRuns], ended' \in {"no", "orderly", "cut", "died"}
    PROVE  TypeOK' /\ ProgressInv'
<1>1. Len(OwnRoutes) \in Nat \ {0} /\ NoRoutes \in [Paths -> 0 .. MaxRuns]
  BY RoutesTyped
<1>2. main' \in MainLabels /\ hook' \in HookLabels /\ serving' = {} /\ table' = NoRoutes
  BY MainLabelled DEF Forgotten, HookLabels
<1>3. TypeOK'
  <2>1. /\ cancelled' \in BOOLEAN /\ published' \in BOOLEAN /\ held' \in BOOLEAN
        /\ ready' \in BOOLEAN /\ main' # "drain"
    BY DEF Forgotten
  <2>2. /\ run' \in 0 .. MaxRuns /\ registered' \in 0 .. Len(OwnRoutes)
        /\ table' \in [Paths -> 0 .. MaxRuns] /\ saved' \in [Paths -> 0 .. MaxRuns]
    BY <1>1, <1>2 DEF Forgotten, TypeOK
  <2>3. /\ notifier' \in {"management", "gateway", "notify", "done"}
        /\ serving' \in SUBSET {"management", "gateway", "static"}
    BY DEF Forgotten
  <2>4. QED
    BY <1>2, <2>1, <2>2, <2>3 DEF TypeOK
<1>4. ProgressInv'
  BY <1>1 DEF Forgotten, ProgressInv, Early, Late
<1>5. QED
  BY <1>3, <1>4

(* What a registration does to the two tables. *)
LEMMA CreateRouteTyped ==
    ASSUME TypeOK, NEW p \in Paths, NEW to, CreateRoute(p, to)
    PROVE  /\ table' \in [Paths -> 0 .. MaxRuns] /\ saved' \in [Paths -> 0 .. MaxRuns]
           /\ table'[p] = run /\ \A q \in Paths : q # p => table'[q] = table[q]
           /\ hook' \in {to, "failed"} /\ (hook' = to /\ to # "failed" => saved' = table')
<1>1. /\ table \in [Paths -> 0 .. MaxRuns] /\ saved \in [Paths -> 0 .. MaxRuns]
      /\ run \in 0 .. MaxRuns /\ NoRoutes \in [Paths -> 0 .. MaxRuns]
  BY RoutesTyped DEF TypeOK
<1>2. table' = [table EXCEPT ![p] = run]
  BY DEF CreateRoute
<1>3. /\ hook' \in {to, "failed"} /\ (hook' = to /\ to # "failed" => saved' = table')
      /\ saved' \in {table', saved, NoRoutes}
  BY DEF CreateRoute
<1>4. QED
  BY <1>1, <1>2, <1>3

LEMMA MainStep ==
    ASSUME TypeOK, ProgressInv, Main
    PROVE  TypeOK' /\ ProgressInv'
<1>1. CASE WritePid
  BY <1>1 DEF WritePid, TypeOK, ProgressInv, memory, MainLabels, HookLabels, Files
<1>2. CASE StartApp
  BY <1>2 DEF StartApp, NextHook, TypeOK, ProgressInv, disk, MainLabels, HookLabels, Early, Late
<1>3. CASE StartReturns
  BY <1>3 DEF StartReturns, TypeOK, ProgressInv, disk, memory, MainLabels
<1>4. CASE Shutdown
  <2>1. UNCHANGED <<run, hook, registered, notifier, cancelled, published, held, ready, table,
                    disk, ended>>
    BY <1>4 DEF Shutdown
  <2>2. main' \in MainLabels /\ (main' = "drain" => published) /\ main' \in {"drain", "cleanPid"}
    BY <1>4 DEF Shutdown, MainLabels, Removed
  <2>3. serving' \in SUBSET {"management", "gateway", "static"}
    BY <1>4 DEF Shutdown, TypeOK
  <2>4. QED
    BY <2>1, <2>2, <2>3 DEF TypeOK, ProgressInv, disk
<1>5. CASE Drained
  BY <1>5 DEF Drained, TypeOK, ProgressInv, disk, memory, MainLabels, Removed
<1>6. ASSUME NEW label \in DOMAIN Removed, Cleanup(label) PROVE TypeOK' /\ ProgressInv'
  <2>1. /\ files' \in [Files -> 0 .. MaxRuns] /\ UNCHANGED <<run, saved, ended>>
    <3>1. files \in [Files -> 0 .. MaxRuns] /\ 0 \in 0 .. MaxRuns
      BY RunAssumption DEF TypeOK
    <3>2. files' = [files EXCEPT ![Removed[label]] = 0]
      BY <1>6 DEF Cleanup
    <3>3. UNCHANGED <<run, saved, ended>>
      BY <1>6 DEF Cleanup
    <3>4. QED
      BY <3>1, <3>2, <3>3
  <2>2. CASE label \in DOMAIN Following
    <3>1. main' \in {"cleanManagement", "cleanStatic"} /\ UNCHANGED <<hook, memory>>
      BY <1>6, <2>2, CleanupOrder DEF Cleanup
    <3>2. main' \in MainLabels /\ main' \notin {"down", "pid", "new", "drain"}
      BY <3>1, MainLabelled
    <3>3. TypeOK'
      BY <2>1, <3>1, <3>2 DEF TypeOK, memory
    <3>4. ProgressInv'
      BY <3>1, <3>2 DEF ProgressInv, memory
    <3>5. QED
      BY <3>3, <3>4
  <2>3. CASE label \notin DOMAIN Following
    <3>1. Forgotten
      BY <1>6, <2>3 DEF Cleanup
    <3>2. QED
      BY <2>1, <3>1, ForgottenTyped DEF TypeOK
  <2>4. QED
    BY <2>2, <2>3
<1>7. QED
  BY <1>1, <1>2, <1>3, <1>4, <1>5, <1>6 DEF Main

LEMMA HookStep ==
    ASSUME TypeOK, ProgressInv, Hook
    PROVE  TypeOK' /\ ProgressInv'
<1> USE DEF TypeOK, ProgressInv, Early, Late, HookLabels
<1>1. CASE Listen("listen", "url") \/ Listen("staticListen", "staticUrl")
  <2>1. /\ UNCHANGED <<run, main, memory, disk, ended>> /\ main # "down"
        /\ \/ hook = "listen" /\ hook' \in {"url", "failed"}
           \/ hook = "staticListen" /\ hook' \in {"staticUrl", "failed"}
    BY <1>1 DEF Listen, InHook
  <2>2. TypeOK'
    BY <2>1 DEF disk, memory
  <2>3. ProgressInv'
    BY <2>1 DEF memory
  <2>4. QED
    BY <2>2, <2>3
<1>2. CASE WriteAddress("url", "serve", "management")
  BY <1>2, RunAssumption DEF WriteAddress, InHook, memory, Files
<1>3. CASE WriteAddress("staticUrl", "staticRoute", "static")
  BY <1>3, RunAssumption DEF WriteAddress, InHook, memory, Files
<1>4. CASE ManagementServe
  BY <1>4, RoutesTyped DEF ManagementServe, InHook, disk
<1>5. CASE ManagementRoute
  <2> DEFINE to == IF registered' = Len(OwnRoutes) THEN "managementReady" ELSE "route"
  <2>1. /\ registered' = registered + 1 /\ registered < Len(OwnRoutes)
        /\ Len(OwnRoutes) \in Nat
    BY <1>5, RoutesTyped DEF ManagementRoute, InHook
  <2>2. OwnRoutes[registered'] \in Paths
    BY <2>1, RoutesTyped
  <2>3. /\ table' \in [Paths -> 0 .. MaxRuns] /\ saved' \in [Paths -> 0 .. MaxRuns]
        /\ hook' \in {to, "failed"}
    BY <1>5, <2>2, CreateRouteTyped DEF ManagementRoute
  <2>4. /\ hook = "route"
        /\ UNCHANGED <<run, main, notifier, cancelled, serving, published, held, ready, files,
                       ended>>
    BY <1>5 DEF ManagementRoute, InHook
  <2>5. registered' \in 0 .. Len(OwnRoutes) /\ (hook' = "route" => registered' < Len(OwnRoutes))
    BY <2>1, <2>3
  <2>6. main # "down" /\ hook' \in {"managementReady", "route", "failed"}
    BY <1>5, <2>3 DEF ManagementRoute, InHook
  <2>7. QED
    BY <2>3, <2>4, <2>5, <2>6
<1>6. CASE ManagementReady
  BY <1>6 DEF ManagementReady, NextHook, InHook, disk
<1>7. CASE GatewayServe
  BY <1>7 DEF GatewayServe, InHook, disk
<1>8. CASE GatewayPublish
  BY <1>8 DEF GatewayPublish, InHook, disk
<1>9. CASE GatewaySecure
  BY <1>9 DEF GatewaySecure, InHook, disk, memory
<1>10. CASE GatewayReady
  BY <1>10 DEF GatewayReady, NextHook, InHook, disk
<1>11. CASE StaticRoute
  <2>1. /\ table' \in [Paths -> 0 .. MaxRuns] /\ saved' \in [Paths -> 0 .. MaxRuns]
        /\ hook' \in {"staticServe", "failed"}
    BY <1>11, RoutesTyped, CreateRouteTyped DEF StaticRoute
  <2>2. QED
    BY <1>11, <2>1 DEF StaticRoute, InHook
<1>12. CASE StaticServe
  BY <1>12 DEF StaticServe, InHook, disk
<1>13. QED
  BY <1>1, <1>2, <1>3, <1>4, <1>5, <1>6, <1>7, <1>8, <1>9, <1>10, <1>11, <1>12
     DEF Hook, ManagementHook, GatewayHook, StaticHook

LEMMA ProgressNext == TypeOK /\ ProgressInv /\ [Next]_vars => (TypeOK /\ ProgressInv)'
<1> SUFFICES ASSUME TypeOK, ProgressInv, [Next]_vars PROVE TypeOK' /\ ProgressInv'
  OBVIOUS
<1>1. CASE UNCHANGED vars
  BY <1>1 DEF vars, memory, disk, TypeOK, ProgressInv
<1>2. CASE Boot
  BY <1>2, RunAssumption DEF Boot, memory, disk, TypeOK, ProgressInv, MainLabels
<1>3. CASE Die
  BY <1>3, ForgottenTyped DEF Die, disk, TypeOK
<1>4. CASE Main
  BY <1>4, MainStep
<1>5. CASE Hook
  BY <1>5, HookStep
<1>6. CASE Signal
  BY <1>6 DEF Signal, disk, TypeOK, ProgressInv
<1>7. CASE StaticFails
  BY <1>7 DEF StaticFails, InHook, disk, TypeOK, ProgressInv, HookLabels, Early, Late
<1>8. CASE Notify
  BY <1>8 DEF Notify, disk, TypeOK, ProgressInv, Early, Late
<1>9. CASE Accept \/ Answer
  <2>1. /\ UNCHANGED <<run, main, hook, registered, notifier, cancelled, serving, published,
                       ready, table, disk, ended>>
        /\ held' \in BOOLEAN
    BY <1>9 DEF Accept, Answer
  <2>2. main # "down"
    BY <1>9 DEF Accept, Answer, ProgressInv
  <2>3. TypeOK'
    BY <2>1 DEF TypeOK, disk
  <2>4. ProgressInv'
    BY <2>1, <2>2 DEF ProgressInv
  <2>5. QED
    BY <2>3, <2>4
<1>10. QED
  BY <1>1, <1>2, <1>3, <1>4, <1>5, <1>6, <1>7, <1>8, <1>9 DEF Next

(* The variables keep their types, and main waits for the requests of a    *)
(* server only when there is one.                                          *)
THEOREM LifecycleTyped == Spec => []TypeOK
<1>1. TypeOK /\ ProgressInv => TypeOK
  OBVIOUS
<1>2. QED
  BY <1>1, ProgressInit, ProgressNext, PTL DEF Spec

-----------------------------------------------------------------------------
(* What the hooks have done by the time they are where they are, as long   *)
(* as main waits for them.                                                 *)

Told == {"notify", "done"}

(* The servers that accept, ... *)
ServedInv ==
    main = "start" =>
        /\ hook \in {"route", "managementReady"} \/ notifier # "management" =>
               "management" \in serving
        /\ hook \in {"publish", "https", "gatewayReady"} \/ notifier \in Told =>
               "gateway" \in serving
        /\ hook \in {"https", "gatewayReady"} \/ notifier \in Told => published

(* ... the files that are written, ... *)
FilesInv ==
    /\ main \in {"new", "start"} => files["pid"] = run
    /\ main = "start" =>
         /\ hook \in {"serve", "route", "managementReady"} \/ notifier # "management" =>
                files["management"] = run
         /\ hook \in {"staticRoute", "staticServe", "serving"} => files["static"] = run

(* ... and the routes that are registered.                                 *)
RoutesInv ==
    main = "start" =>
        /\ hook = "route" => \A i \in 1 .. registered : table[OwnRoutes[i]] = run
        /\ hook = "managementReady" \/ notifier # "management" => \A p \in Own : table[p] = run
        /\ hook \in {"staticServe", "serving"} => table[Root] = run /\ saved = table

BootInv == ServedInv /\ FilesInv /\ RoutesInv

LEMMA BootInit == Init => BootInv
BY DEF Init, BootInv, ServedInv, FilesInv, RoutesInv

(* Main is in app.Start only after it, or before and after it.             *)
LEMMA MainWaits ==
    ASSUME TypeOK, [Next]_vars, main' = "start"
    PROVE  \/ main = "start" /\ ~Boot /\ ~Die /\ ~WritePid /\ ~StartApp /\ ~StartReturns
              /\ ~Shutdown /\ ~Drained /\ \A label \in DOMAIN Removed : ~Cleanup(label)
           \/ StartApp
<1>1. CASE Boot
  BY <1>1 DEF Boot
<1>2. CASE Die
  BY <1>2 DEF Die, Forgotten
<1>3. CASE WritePid
  BY <1>3 DEF WritePid
<1>4. CASE StartReturns
  BY <1>4 DEF StartReturns
<1>5. CASE Shutdown
  BY <1>5 DEF Shutdown
<1>6. CASE Drained
  BY <1>6 DEF Drained
<1>7. ASSUME NEW label \in DOMAIN Removed, Cleanup(label) PROVE FALSE
  <2>1. CASE label \in DOMAIN Following
    BY <1>7, <2>1, CleanupOrder DEF Cleanup
  <2>2. CASE label \notin DOMAIN Following
    BY <1>7, <2>2 DEF Cleanup, Forgotten
  <2>3. QED
    BY <2>1, <2>2
<1>8. CASE Signal \/ Hook \/ StaticFails \/ Notify \/ Accept \/ Answer \/ UNCHANGED vars
  <2>1. main' = main
    BY <1>8 DEF Signal, Hook, ManagementHook, GatewayHook, StaticHook, Listen, WriteAddress,
                ManagementServe, ManagementRoute, ManagementReady, GatewayServe, GatewayPublish,
                GatewaySecure, GatewayReady, StaticRoute, StaticServe, StaticFails, Notify,
                Accept, Answer, vars
  <2>2. QED
    BY <1>1, <1>2, <1>3, <1>4, <1>5, <1>6, <1>7, <2>1
<1>9. CASE StartApp
  BY <1>9
<1>10. QED
  BY <1>1, <1>2, <1>3, <1>4, <1>5, <1>6, <1>7, <1>8, <1>9 DEF Next, Main

LEMMA NewHasPid ==
    ASSUME TypeOK, ProgressInv, FilesInv, [Next]_vars, main' = "new"
    PROVE  files'["pid"] = run'
<1>1. CASE WritePid
  BY <1>1 DEF WritePid, TypeOK, Files
<1>2. CASE Boot \/ Die \/ StartApp \/ StartReturns \/ Shutdown \/ Drained
  BY <1>2 DEF Boot, Die, Forgotten, StartApp, StartReturns, Shutdown, Drained
<1>3. ASSUME NEW label \in DOMAIN Removed, Cleanup(label) PROVE FALSE
  <2>1. CASE label \in DOMAIN Following
    BY <1>3, <2>1, CleanupOrder DEF Cleanup
  <2>2. CASE label \notin DOMAIN Following
    BY <1>3, <2>2 DEF Cleanup, Forgotten
  <2>3. QED
    BY <2>1, <2>2
<1>4. CASE Hook \/ StaticFails
  <2>1. main' = main /\ hook # "none"
    BY <1>4 DEF Hook, ManagementHook, GatewayHook, StaticHook, Listen, WriteAddress,
                ManagementServe, ManagementRoute, ManagementReady, GatewayServe, GatewayPublish,
                GatewaySecure, GatewayReady, StaticRoute, StaticServe, StaticFails, InHook
  <2>2. QED
    BY <2>1 DEF ProgressInv
<1>5. CASE Signal \/ Notify \/ Accept \/ Answer \/ UNCHANGED vars
  BY <1>5 DEF Signal, Notify, Accept, Answer, vars, disk, FilesInv
<1>6. QED
  BY <1>1, <1>2, <1>3, <1>4, <1>5 DEF Next, Main

LEMMA BootHook ==
    ASSUME TypeOK, ProgressInv, BootInv, main = "start", Hook
    PROVE  BootInv'
<1> USE DEF Early, Late, Told
<1>1. CASE Listen("listen", "url") \/ Listen("staticListen", "staticUrl")
  BY <1>1 DEF Listen, InHook, disk, memory, BootInv, ServedInv, FilesInv, RoutesInv, ProgressInv
<1>2. CASE WriteAddress("url", "serve", "management")
  <2>1. /\ hook = "url" /\ hook' \in {"serve", "failed"} /\ UNCHANGED <<run, main, memory, saved>>
        /\ hook' = "serve" => files'["management"] = run
        /\ files'["pid"] = files["pid"]
    BY <1>2 DEF WriteAddress, InHook, TypeOK, Files
  <2>2. notifier' = "management"
    BY <2>1 DEF ProgressInv, memory
  <2>3. QED
    BY <2>1, <2>2 DEF memory, BootInv, ServedInv, FilesInv, RoutesInv
<1>3. CASE WriteAddress("staticUrl", "staticRoute", "static")
  <2>1. /\ hook = "staticUrl" /\ hook' \in {"staticRoute", "failed"}
        /\ UNCHANGED <<run, main, memory, saved>>
        /\ hook' = "staticRoute" => files'["static"] = run
        /\ files'["pid"] = files["pid"] /\ files'["management"] = files["management"]
    BY <1>3 DEF WriteAddress, InHook, TypeOK, Files
  <2>2. QED
    BY <2>1 DEF memory, BootInv, ServedInv, FilesInv, RoutesInv
<1>4. CASE ManagementServe
  BY <1>4 DEF ManagementServe, InHook, disk, BootInv, ServedInv, FilesInv, RoutesInv, ProgressInv
<1>5. CASE ManagementRoute
  <2> DEFINE to == IF registered' = Len(OwnRoutes) THEN "managementReady" ELSE "route"
             p == OwnRoutes[registered']
  <2>1. /\ registered \in Nat /\ registered' = registered + 1 /\ registered < Len(OwnRoutes)
        /\ Len(OwnRoutes) \in Nat
    BY <1>5, RoutesTyped DEF ManagementRoute, InHook, ProgressInv, TypeOK
  <2>2. p \in Own /\ p \in Paths
    BY <2>1, RoutesTyped
  <2>3. /\ table'[p] = run /\ \A q \in Paths : q # p => table'[q] = table[q]
        /\ hook' \in {to, "failed"}
    BY <1>5, <2>2, CreateRouteTyped DEF ManagementRoute
  <2>4. /\ hook = "route" /\ UNCHANGED <<run, main, notifier, serving, published, files>>
    BY <1>5 DEF ManagementRoute, InHook
  <2>5. notifier' = "management"
    BY <2>4 DEF ProgressInv
  <2>6. \A i \in 1 .. registered' : table'[OwnRoutes[i]] = run
    <3> SUFFICES ASSUME NEW i \in 1 .. registered' PROVE table'[OwnRoutes[i]] = run
      OBVIOUS
    <3>1. CASE OwnRoutes[i] = p
      BY <2>3, <3>1
    <3>2. CASE OwnRoutes[i] # p
      <4>1. i \in 1 .. registered /\ i \in 1 .. Len(OwnRoutes)
        BY <2>1, <3>2
      <4>2. table[OwnRoutes[i]] = run /\ OwnRoutes[i] \in Paths
        BY <2>4, <4>1, RoutesTyped DEF BootInv, RoutesInv
      <4>3. QED
        BY <2>3, <3>2, <4>2
    <3>3. QED
      BY <3>1, <3>2
  <2>7. hook' = "managementReady" => \A q \in Own : table'[q] = run
    <3>1. hook' = "managementReady" => registered' = Len(OwnRoutes)
      BY <2>3
    <3>2. QED
      BY <2>6, <3>1, RoutesTyped
  <2>8. hook' \in {"managementReady", "route", "failed"}
    BY <2>3
  <2>9. QED
    BY <2>4, <2>5, <2>6, <2>7, <2>8 DEF BootInv, ServedInv, FilesInv, RoutesInv
<1>6. CASE ManagementReady
  BY <1>6 DEF ManagementReady, NextHook, InHook, disk, BootInv, ServedInv, FilesInv, RoutesInv
<1>7. CASE GatewayServe
  BY <1>7 DEF GatewayServe, InHook, disk, BootInv, ServedInv, FilesInv, RoutesInv, ProgressInv
<1>8. CASE GatewayPublish
  BY <1>8 DEF GatewayPublish, InHook, disk, BootInv, ServedInv, FilesInv, RoutesInv
<1>9. CASE GatewaySecure
  BY <1>9 DEF GatewaySecure, InHook, disk, memory, BootInv, ServedInv, FilesInv, RoutesInv
<1>10. CASE GatewayReady
  BY <1>10 DEF GatewayReady, NextHook, InHook, disk, BootInv, ServedInv, FilesInv, RoutesInv
<1>11. CASE StaticRoute
  <2>1. /\ table'[Root] = run /\ \A q \in Own : table'[q] = table[q]
        /\ hook' \in {"staticServe", "failed"} /\ (hook' = "staticServe" => saved' = table')
    BY <1>11, RoutesTyped, CreateRouteTyped DEF StaticRoute
  <2>2. /\ hook = "staticRoute"
        /\ UNCHANGED <<run, main, registered, notifier, serving, published, files>>
    BY <1>11 DEF StaticRoute, InHook
  <2>3. QED
    BY <2>1, <2>2 DEF BootInv, ServedInv, FilesInv, RoutesInv
<1>12. CASE StaticServe
  BY <1>12 DEF StaticServe, InHook, disk, BootInv, ServedInv, FilesInv, RoutesInv
<1>13. QED
  BY <1>1, <1>2, <1>3, <1>4, <1>5, <1>6, <1>7, <1>8, <1>9, <1>10, <1>11, <1>12
     DEF Hook, ManagementHook, GatewayHook, StaticHook

LEMMA BootNext == TypeOK /\ ProgressInv /\ BootInv /\ [Next]_vars => BootInv'
<1> SUFFICES ASSUME TypeOK, ProgressInv, BootInv, [Next]_vars PROVE BootInv'
  OBVIOUS
<1>1. CASE main' \notin {"new", "start"}
  BY <1>1 DEF BootInv, ServedInv, FilesInv, RoutesInv
<1>2. CASE main' = "new"
  <2>1. files'["pid"] = run'
    BY <1>2, NewHasPid DEF BootInv
  <2>2. QED
    BY <1>2, <2>1 DEF BootInv, ServedInv, FilesInv, RoutesInv
<1>3. CASE StartApp
  <2>1. /\ main = "new" /\ hook' \in {"listen", "failed"} /\ UNCHANGED <<run, files, notifier>>
        /\ notifier = "management"
    BY <1>3 DEF StartApp, NextHook, disk, ProgressInv, Early
  <2>2. QED
    BY <2>1 DEF BootInv, ServedInv, FilesInv, RoutesInv, Told
<1>4. CASE main' = "start" /\ ~StartApp
  <2>1. main = "start" /\ (Signal \/ Hook \/ StaticFails \/ Notify \/ Accept \/ Answer
                            \/ UNCHANGED vars)
    BY <1>4, MainWaits DEF Next, Main
  <2>2. CASE Hook
    BY <2>1, <2>2, BootHook
  <2>3. CASE Signal \/ Accept \/ Answer \/ UNCHANGED vars
    BY <2>3 DEF Signal, Accept, Answer, vars, memory, disk, BootInv, ServedInv, FilesInv, RoutesInv
  <2>4. CASE StaticFails
    BY <2>4 DEF StaticFails, InHook, disk, BootInv, ServedInv, FilesInv, RoutesInv
  <2>5. CASE Notify
    BY <2>5 DEF Notify, disk, BootInv, ServedInv, FilesInv, RoutesInv, Told
  <2>6. QED
    BY <2>1, <2>2, <2>3, <2>4, <2>5
<1>5. QED
  BY <1>1, <1>2, <1>3, <1>4

(* When systemd is told READY the servers accept and the gateway's own     *)
(* routes name this run's management server, for any number of routes and  *)
(* of earlier runs (main.go:177-188, 216-295, 343-347).                    *)
THEOREM ReadyMeansServing == Spec => []ReadyServes
<1>1. Init => TypeOK /\ ProgressInv /\ BootInv
  BY ProgressInit, BootInit
<1>2. TypeOK /\ ProgressInv /\ BootInv /\ [Next]_vars => (TypeOK /\ ProgressInv /\ BootInv)'
  BY ProgressNext, BootNext
<1>3. ProgressInv /\ BootInv => ReadyServes
  BY DEF ProgressInv, BootInv, ServedInv, FilesInv, RoutesInv, ReadyServes, Told
<1>4. QED
  BY <1>1, <1>2, <1>3, PTL DEF Spec

(* Once the static server serves nothing names a server of an earlier run, *)
(* however that one ended (main.go:244-291, 373-378).                      *)
THEOREM NothingStale == Spec => []NothingOfEarlierRuns
<1>1. Init => TypeOK /\ ProgressInv /\ BootInv
  BY ProgressInit, BootInit
<1>2. TypeOK /\ ProgressInv /\ BootInv /\ [Next]_vars => (TypeOK /\ ProgressInv /\ BootInv)'
  BY ProgressNext, BootNext
<1>3. TypeOK /\ ProgressInv /\ BootInv => NothingOfEarlierRuns
  <2> SUFFICES ASSUME TypeOK, ProgressInv, BootInv, hook = "serving", main = "start"
               PROVE  NothingOfEarlierRuns
    BY DEF NothingOfEarlierRuns
  <2>1. notifier # "management"
    BY DEF ProgressInv, Late
  <2>2. \A p \in Paths : table[p] = run
    BY <2>1, RoutesTyped DEF BootInv, RoutesInv
  <2>3. \A f \in Files : files[f] = run
    BY <2>1 DEF BootInv, FilesInv, Files
  <2>4. table = [p \in Paths |-> run] /\ files = [f \in Files |-> run]
    BY <2>2, <2>3 DEF TypeOK
  <2>5. saved = table
    BY DEF BootInv, RoutesInv
  <2>6. QED
    BY <2>4, <2>5 DEF NothingOfEarlierRuns
<1>4. QED
  BY <1>1, <1>2, <1>3, PTL DEF Spec

-----------------------------------------------------------------------------
(* How a process ends whose hook is at rest. *)

(* What main has removed is not written again, ... *)
RemovedInv ==
    /\ main \in {"pid", "new", "start"} => ended = "no"
    /\ ended = "orderly" =>
         /\ main # "down" => hook \in AtRest
         /\ main \in {"cleanManagement", "cleanStatic", "down"} => files["pid"] = 0
         /\ main \in {"cleanStatic", "down"} => files["management"] = 0
         /\ main = "down" => files["static"] = 0

(* ... and a request is held by the server that is shut down.              *)
DrainInv ==
    /\ "gateway" \in serving /\ ~published => hook = "publish"
    /\ ended # "cut" /\ held /\ "gateway" \notin serving => main = "drain"
    /\ ended = "orderly" /\ main \in {"drain"} \cup DOMAIN Removed => "gateway" \notin serving

ExitInv == RemovedInv /\ DrainInv

LEMMA ExitInit == Init => ExitInv
<1>1. Init => RemovedInv
  BY DEF Init, RemovedInv
<1>2. Init => DrainInv
  BY DEF Init, DrainInv
<1>3. QED
  BY <1>1, <1>2 DEF ExitInv

LEMMA ExitCleanup ==
    ASSUME TypeOK, ExitInv, NEW label \in DOMAIN Removed, Cleanup(label)
    PROVE  ExitInv'
<1>1. /\ main = label /\ UNCHANGED <<run, saved, ended>>
      /\ files' = [files EXCEPT ![Removed[label]] = 0]
  BY DEF Cleanup
<1>2. label \in {"cleanPid", "cleanManagement", "cleanStatic"}
  BY CleanupOrder
<1>3. /\ label = "cleanPid" => files'["pid"] = 0
      /\ label = "cleanManagement" => files'["management"] = 0 /\ files'["pid"] = files["pid"]
      /\ label = "cleanStatic" => /\ files'["static"] = 0
                                  /\ files'["pid"] = files["pid"]
                                  /\ files'["management"] = files["management"]
  BY <1>1, <1>2, CleanupOrder DEF TypeOK, Files
<1>4. CASE label \in DOMAIN Following
  <2>1. UNCHANGED <<hook, memory>> /\ main' = Following[label]
    BY <1>4 DEF Cleanup
  <2>2. \/ label = "cleanPid" /\ main' = "cleanManagement"
        \/ label = "cleanManagement" /\ main' = "cleanStatic"
    BY <1>4, <2>1, CleanupOrder
  <2>3. RemovedInv'
    BY <1>1, <1>3, <2>1, <2>2 DEF ExitInv, RemovedInv
  <2>4. main \in DOMAIN Removed /\ main' \in DOMAIN Removed /\ main # "drain"
    BY <1>1, <1>2, <2>2, CleanupOrder
  <2>5. DrainInv'
    BY <1>1, <2>1, <2>4 DEF memory, ExitInv, DrainInv
  <2>6. QED
    BY <2>3, <2>5 DEF ExitInv
<1>5. CASE label \notin DOMAIN Following
  <2>1. label = "cleanStatic" /\ Forgotten
    BY <1>2, <1>5, CleanupOrder DEF Cleanup
  <2>2. RemovedInv'
    BY <1>1, <1>3, <2>1 DEF Forgotten, ExitInv, RemovedInv
  <2>3. DrainInv'
    <3>1. main' = "down" /\ main' \notin {"drain"} \cup DOMAIN Removed /\ serving' = {} /\ ~held'
      BY <2>1, CleanupOrder DEF Forgotten
    <3>2. QED
      BY <3>1 DEF DrainInv
  <2>4. QED
    BY <2>2, <2>3 DEF ExitInv
<1>6. QED
  BY <1>4, <1>5

LEMMA ExitMain ==
    ASSUME TypeOK, ProgressInv, ExitInv, Main
    PROVE  ExitInv'
<1> USE DEF ExitInv
<1>1. CASE WritePid \/ StartApp
  <2>1. /\ main \in {"pid", "new"} /\ main' \in {"new", "start"}
        /\ ended' = ended /\ UNCHANGED <<held, serving, published>> /\ hook = "none"
    BY <1>1 DEF WritePid, StartApp, memory, disk, ProgressInv
  <2>2. main' \notin {"drain"} \cup DOMAIN Removed /\ ended' = "no"
    BY <2>1, CleanupOrder DEF RemovedInv
  <2>3. ("gateway" \notin serving \/ published) /\ (~held \/ "gateway" \in serving)
    BY <2>1, <2>2 DEF DrainInv
  <2>4. RemovedInv'
    BY <2>2 DEF RemovedInv
  <2>5. DrainInv'
    BY <2>1, <2>2, <2>3 DEF DrainInv
  <2>6. QED
    BY <2>4, <2>5
<1>2. CASE StartReturns
  <2>1. /\ main = "start" /\ main' = "shutdown" /\ UNCHANGED <<hook, memory, disk>>
        /\ ended' = "orderly" => hook \in AtRest
        /\ ended = "no"
    BY <1>2 DEF StartReturns, RemovedInv
  <2>2. RemovedInv'
    BY <2>1 DEF RemovedInv
  <2>3. main' \notin {"drain"} \cup DOMAIN Removed
    BY <2>1, CleanupOrder
  <2>4. DrainInv'
    BY <2>1, <2>3 DEF DrainInv, memory
  <2>5. QED
    BY <2>2, <2>4
<1>3. CASE Shutdown
  <2>1. /\ main = "shutdown" /\ UNCHANGED <<hook, published, held, files, ended>>
        /\ \/ published /\ main' = "drain" /\ serving' = serving \ {"gateway"}
           \/ ~published /\ main' = "cleanPid" /\ serving' = serving
    BY <1>3 DEF Shutdown, disk
  <2>2. RemovedInv'
    BY <2>1 DEF RemovedInv
  <2>3. main \notin {"drain"} \cup DOMAIN Removed
    BY <2>1, CleanupOrder
  <2>4. ended = "orderly" => hook # "publish"
    BY <2>1 DEF RemovedInv, AtRest
  <2>5. DrainInv'
    BY <2>1, <2>4 DEF DrainInv
  <2>6. QED
    BY <2>2, <2>5
<1>4. CASE Drained
  <2>1. /\ main = "drain" /\ main' = "cleanPid" /\ ~held /\ UNCHANGED <<hook, memory, disk, ended>>
    BY <1>4 DEF Drained
  <2>2. RemovedInv'
    BY <2>1 DEF RemovedInv, disk
  <2>3. DrainInv'
    BY <2>1 DEF DrainInv, memory
  <2>4. QED
    BY <2>2, <2>3
<1>5. ASSUME NEW label \in DOMAIN Removed, Cleanup(label) PROVE ExitInv'
  BY <1>5, ExitCleanup
<1>6. QED
  BY <1>1, <1>2, <1>3, <1>4, <1>5 DEF Main

(* A hook that still works is in a process that runs or is cut off.        *)
LEMMA ExitHook ==
    ASSUME TypeOK, ProgressInv, ExitInv, Hook \/ StaticFails
    PROVE  ExitInv'
<1> USE DEF ExitInv
<1>1. CASE Hook
  <2>1. main # "down" /\ hook \notin AtRest /\ UNCHANGED <<main, ended, held>>
    BY <1>1 DEF Hook, ManagementHook, GatewayHook, StaticHook, Listen, WriteAddress, InHook,
                ManagementServe, ManagementRoute, ManagementReady, GatewayServe, GatewayPublish,
                GatewaySecure, GatewayReady, StaticRoute, StaticServe, AtRest, memory
  <2>2. ended' # "orderly" /\ ended # "orderly"
    BY <2>1 DEF RemovedInv
  <2>3. RemovedInv'
    BY <2>1, <2>2 DEF RemovedInv
  <2>4. CASE GatewayServe
    <3>1. /\ hook = "http" /\ published' = published
          /\ \/ hook' = "publish" /\ "gateway" \in serving'
             \/ hook' = "failed" /\ serving' = serving
      BY <2>4 DEF GatewayServe, InHook
    <3>2. "gateway" \in serving' /\ ~published' => hook' = "publish"
      BY <3>1 DEF DrainInv
    <3>3. ended' # "cut" /\ held' /\ "gateway" \notin serving' => main' = "drain"
      BY <2>1, <3>1 DEF DrainInv
    <3>4. QED
      BY <2>2, <2>3, <3>2, <3>3 DEF DrainInv
  <2>5. CASE GatewayPublish
    <3>1. published' /\ serving' = serving
      BY <2>5 DEF GatewayPublish
    <3>2. ended' # "cut" /\ held' /\ "gateway" \notin serving' => main' = "drain"
      BY <2>1, <3>1 DEF DrainInv
    <3>3. QED
      BY <2>2, <2>3, <3>1, <3>2 DEF DrainInv
  <2>6. CASE ~GatewayServe /\ ~GatewayPublish
    <3>1. /\ published' = published /\ ("gateway" \in serving' <=> "gateway" \in serving)
          /\ hook # "publish"
      BY <1>1, <2>6
         DEF Hook, ManagementHook, GatewayHook, StaticHook, Listen, WriteAddress, InHook,
             ManagementServe, ManagementRoute, ManagementReady, GatewaySecure, GatewayReady,
             StaticRoute, StaticServe, memory
    <3>2. "gateway" \in serving' /\ ~published' => hook' = "publish"
      BY <3>1 DEF DrainInv
    <3>3. ended' # "cut" /\ held' /\ "gateway" \notin serving' => main' = "drain"
      BY <2>1, <3>1 DEF DrainInv
    <3>4. QED
      BY <2>2, <2>3, <3>2, <3>3 DEF DrainInv
  <2>7. QED
    BY <2>3, <2>4, <2>5, <2>6
<1>2. CASE StaticFails
  <2>1. /\ hook = "serving" /\ hook' = "failed" /\ UNCHANGED <<main, ended, held, published, files>>
        /\ "gateway" \in serving' <=> "gateway" \in serving
    BY <1>2 DEF StaticFails, InHook, disk
  <2>2. RemovedInv'
    BY <2>1 DEF RemovedInv, AtRest
  <2>3. DrainInv'
    BY <2>1 DEF DrainInv
  <2>4. QED
    BY <2>2, <2>3
<1>3. QED
  BY <1>1, <1>2

LEMMA ExitNext == TypeOK /\ ProgressInv /\ ExitInv /\ [Next]_vars => ExitInv'
<1> SUFFICES ASSUME TypeOK, ProgressInv, ExitInv, [Next]_vars PROVE ExitInv'
  OBVIOUS
<1> USE DEF ExitInv
<1>1. CASE UNCHANGED vars \/ Signal \/ Notify
  <2>1. UNCHANGED <<main, hook, files, ended, serving, published, held>>
    BY <1>1 DEF vars, memory, disk, Signal, Notify
  <2>2. RemovedInv'
    BY <2>1 DEF RemovedInv
  <2>3. DrainInv'
    BY <2>1 DEF DrainInv
  <2>4. QED
    BY <2>2, <2>3
<1>2. CASE Boot
  <2>1. /\ main' = "pid" /\ ended' = "no" /\ ~held' /\ serving' = {}
        /\ main' \notin {"drain"} \cup DOMAIN Removed
    BY <1>2, CleanupOrder DEF Boot, memory, ProgressInv
  <2>2. QED
    BY <2>1 DEF RemovedInv, DrainInv
<1>3. CASE Die
  <2>1. /\ main' = "down" /\ ended' = "died" /\ ~held' /\ serving' = {}
    BY <1>3 DEF Die, Forgotten
  <2>2. QED
    BY <2>1 DEF RemovedInv, DrainInv
<1>4. CASE Main
  BY <1>4, ExitMain
<1>5. CASE Hook \/ StaticFails
  BY <1>5, ExitHook
<1>6. CASE Accept \/ Answer
  <2>1. /\ UNCHANGED <<main, hook, files, ended, serving, published>>
        /\ held' => "gateway" \in serving
    BY <1>6 DEF Accept, Answer, disk
  <2>2. RemovedInv'
    BY <2>1 DEF RemovedInv
  <2>3. DrainInv'
    BY <2>1 DEF DrainInv
  <2>4. QED
    BY <2>2, <2>3
<1>7. QED
  BY <1>1, <1>2, <1>3, <1>4, <1>5, <1>6 DEF Next

LEMMA ExitFromStart == Spec => [](TypeOK /\ ProgressInv /\ ExitInv)
<1>1. Init => TypeOK /\ ProgressInv /\ ExitInv
  BY ProgressInit, ExitInit
<1>2. TypeOK /\ ProgressInv /\ ExitInv /\ [Next]_vars => (TypeOK /\ ProgressInv /\ ExitInv)'
  BY ProgressNext, ExitNext
<1>3. QED
  BY <1>1, <1>2, PTL DEF Spec

(* An orderly exit removes the pid file and both URL files, whatever the   *)
(* runs before had left (main.go:155-158, 661-668).                        *)
THEOREM OrderlyExitCleans == Spec => []OrderlyExitLeavesNoFile
<1>1. TypeOK /\ ExitInv => OrderlyExitLeavesNoFile
  <2> SUFFICES ASSUME TypeOK, ExitInv, main = "down", ended = "orderly"
               PROVE  files = [f \in Files |-> 0]
    BY DEF OrderlyExitLeavesNoFile
  <2>1. \A f \in Files : files[f] = 0
    BY DEF ExitInv, RemovedInv, Files
  <2>2. QED
    BY <2>1 DEF TypeOK
<1>2. QED
  BY <1>1, ExitFromStart, PTL

(* ... and cuts off no HTTP request: the server that holds one is the one  *)
(* the deferred Shutdown waits for (main.go:160-166).                      *)
THEOREM OrderlyExitWaits == Spec => OrderlyExitCutsNothing
<1>1. TypeOK /\ ProgressInv /\ ExitInv /\ [Next]_vars =>
          [main # "down" /\ main' = "down" /\ ended' = "orderly" => ~held]_vars
  <2> SUFFICES ASSUME TypeOK, ProgressInv, ExitInv, [Next]_vars, ~UNCHANGED vars,
                      main # "down", main' = "down", ended' = "orderly"
               PROVE  ~held
    OBVIOUS
  <2>1. ~Boot /\ ~Die
    BY DEF Boot, Die
  <2>2. CASE Main
    <3>1. ~WritePid /\ ~StartApp /\ ~StartReturns /\ ~Shutdown /\ ~Drained
      BY DEF WritePid, StartApp, StartReturns, Shutdown, Drained
    <3>2. PICK label \in DOMAIN Removed : Cleanup(label)
      BY <2>2, <3>1 DEF Main
    <3>3. main = label /\ ended = "orderly" /\ label # "drain"
      BY <3>2, CleanupOrder DEF Cleanup
    <3>4. QED
      BY <3>3 DEF ExitInv, DrainInv
  <2>3. CASE Hook \/ StaticFails \/ Signal \/ Notify \/ Accept \/ Answer
    <3>1. main' = main
      BY <2>3 DEF Hook, ManagementHook, GatewayHook, StaticHook, Listen, WriteAddress,
                  ManagementServe, ManagementRoute, ManagementReady, GatewayServe,
                  GatewayPublish, GatewaySecure, GatewayReady, StaticRoute, StaticServe,
                  StaticFails, Signal, Notify, Accept, Answer
    <3>2. QED
      BY <3>1
  <2>4. QED
    BY <2>1, <2>2, <2>3 DEF Next
<1>2. QED
  BY <1>1, ExitFromStart, PTL DEF Spec, OrderlyExitCutsNothing
=============================================================================
