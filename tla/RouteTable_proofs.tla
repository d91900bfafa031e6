------------------------- MODULE RouteTable_proofs -------------------------
(* Proofs about RouteTable, for every value of its constants. *)
EXTENDS RouteTable, FiniteSetTheorems, TLAPS

LEMMA FilesTyped ==
    /\ Empty \in Tables
    /\ EmptyFile \in Contents
    /\ Garbled \in Contents
    /\ \A table \in Tables : Encoded(table) \in Contents
BY DEF Empty, Tables, EmptyFile, Garbled, Encoded, Contents

RouteRecords == [path : Paths \cup {<< >>}, target : Targets \cup {BadTarget}]

(* What TypeOK says of the handlers of registrations. *)
RegistrarsTyped ==
    /\ pc \in [Actors -> RegistrarLabels \cup LookupLabels]
    /\ \A r \in Registrars : pc[r] \in RegistrarLabels
    /\ \A l \in Lookups : pc[l] \in LookupLabels
    /\ route \in [Registrars -> RouteRecords]
    /\ \A r \in Registrars :
         /\ pc[r] # "idle" => route[r].path \in Paths
         /\ pc[r] \notin {"idle", "parse"} => route[r].target \in Targets
    /\ content \in [Registrars -> Tables]

LEMMA IdleTyped ==
    ASSUME pc = [a \in Actors |-> "idle"],
           route = [r \in Registrars |-> NoRoute],
           content = [r \in Registrars |-> Empty]
    PROVE  RegistrarsTyped
<1>1. \A r \in Registrars \cup Lookups : r \in Actors
  BY DEF Actors
<1>2. NoRoute \in RouteRecords
  BY DEF NoRoute, RouteRecords
<1>3. QED
  BY <1>1, <1>2, FilesTyped DEF RegistrarsTyped, RegistrarLabels, LookupLabels

LEMMA DoneTyped ==
    ASSUME TypeOK, NEW r \in Registrars, Done(r)
    PROVE  RegistrarsTyped'
<1>1. r \in Actors /\ r \notin Lookups
  BY ActorAssumption DEF Actors
<1>2. \A a \in Registrars \cup Lookups : a \in Actors
  BY DEF Actors
<1>3. NoRoute \in RouteRecords
  BY DEF NoRoute, RouteRecords
<1>4. QED
  BY <1>1, <1>2, <1>3, FilesTyped
     DEF TypeOK, Done, Goto, RegistrarsTyped, RegistrarLabels, LookupLabels, RouteRecords

(* A registrar that goes on with the route it has. *)
LEMMA GotoTyped ==
    ASSUME TypeOK, NEW r \in Registrars, NEW label \in RegistrarLabels, Goto(r, label),
           UNCHANGED route, content' \in [Registrars -> Tables],
           pc[r] # "idle",
           pc[r] = "parse" /\ label # "idle" => route[r].target \in Targets
    PROVE  RegistrarsTyped'
<1>1. r \in Actors /\ r \notin Lookups
  BY ActorAssumption DEF Actors
<1>2. \A a \in Registrars \cup Lookups : a \in Actors
  BY DEF Actors
<1>3. QED
  BY <1>1, <1>2 DEF TypeOK, Goto, RegistrarsTyped, RegistrarLabels, LookupLabels, RouteRecords

LEMMA TypeInit == Init => TypeOK
<1> SUFFICES ASSUME Init PROVE TypeOK
  OBVIOUS
<1>1. RegistrarsTyped
  BY IdleTyped DEF Init
<1>2. targets \in Tables /\ proxies \in Tables /\ file \in Contents
  BY FilesTyped DEF Init
<1>3. /\ owed \in [Paths -> SUBSET (Targets \cup {NoTarget})]
      /\ asked \in [Lookups -> URLs \cup {<< >>}]
      /\ found \in [Lookups -> SUBSET Paths]
      /\ up \in BOOLEAN /\ routed \in SUBSET Paths
  BY DEF Init
<1>4. crashes \in 0 .. MaxCrashes
  BY LimitAssumption DEF Init
<1>5. QED
  BY <1>1, <1>2, <1>3, <1>4 DEF TypeOK, RegistrarsTyped, RouteRecords

LEMMA TypeHalt ==
    ASSUME TypeOK, Halt
    PROVE  TypeOK'
<1>1. RegistrarsTyped'
  <2>1. Halt => /\ pc' = [a \in Actors |-> "idle"]
                /\ route' = [r \in Registrars |-> NoRoute]
                /\ content' = [r \in Registrars |-> Empty]
    BY DEF Halt
  <2>2. \A r \in Registrars \cup Lookups : r \in Actors
    BY DEF Actors
  <2>3. NoRoute \in RouteRecords
    BY DEF NoRoute, RouteRecords
  <2>4. QED
    BY <2>1, <2>2, <2>3, FilesTyped DEF RegistrarsTyped, RegistrarLabels, LookupLabels
<1>2. targets' \in Tables /\ proxies' \in Tables
  BY FilesTyped DEF Halt
<1>3. /\ asked' \in [Lookups -> URLs \cup {<< >>}]
      /\ found' \in [Lookups -> SUBSET Paths]
      /\ up' \in BOOLEAN /\ routed' \in SUBSET Paths
  BY DEF Halt
<1>4. crashes' \in 0 .. MaxCrashes
  BY LimitAssumption DEF TypeOK, Halt
<1>5. UNCHANGED <<file, owed>>
  BY DEF Halt
<1>6. QED
  BY <1>1, <1>2, <1>3, <1>4, <1>5 DEF TypeOK, RegistrarsTyped, RouteRecords

LEMMA TypeRegistrar ==
    ASSUME TypeOK, NEW r \in Registrars, Post(r) \/ CreateRoute(r)
    PROVE  TypeOK'
<1>1. CASE Post(r)
  <2>1. PICK o \in [path : Paths, target : Targets \cup {BadTarget}] :
            route' = [route EXCEPT ![r] = o]
    BY <1>1, OfferAssumption DEF Post
  <2>2. /\ pc[r] = "idle"
        /\ pc' = [pc EXCEPT ![r] = "parse"]
        /\ content' = content
    BY <1>1 DEF Post, At, Goto
  <2>3. r \in Actors /\ r \notin Lookups /\ \A a \in Registrars \cup Lookups : a \in Actors
    BY ActorAssumption DEF Actors
  <2>4. RegistrarsTyped'
    BY <2>1, <2>2, <2>3
       DEF TypeOK, RegistrarsTyped, RegistrarLabels, LookupLabels, RouteRecords
  <2>5. QED
    BY <1>1, <2>4 DEF Post, TypeOK, RegistrarsTyped, RouteRecords, lookupVars
<1>2. CASE ParseTarget(r)
  <2>1. CASE Done(r)
    BY <1>2, <2>1, DoneTyped DEF ParseTarget, TypeOK, RegistrarsTyped, RouteRecords, lookupVars
  <2>2. CASE /\ route[r].target # BadTarget
             /\ Goto(r, "writeTarget")
             /\ UNCHANGED <<route, content>>
    <3>1. route[r].target \in Targets
      BY <2>2 DEF TypeOK
    <3>2. RegistrarsTyped'
      BY <1>2, <2>2, <3>1, GotoTyped DEF ParseTarget, At, TypeOK, RegistrarLabels
    <3>3. QED
      BY <1>2, <3>2 DEF ParseTarget, TypeOK, RegistrarsTyped, RouteRecords, lookupVars
  <2>3. QED
    BY <1>2, <2>1, <2>2 DEF ParseTarget
<1>3. CASE WriteTarget(r) \/ WriteProxy(r)
  <2>1. route[r].path \in Paths /\ route[r].target \in Targets
    BY <1>3 DEF WriteTarget, WriteProxy, Installed, At, TypeOK
  <2>2. RegistrarsTyped'
    BY <1>3, GotoTyped DEF WriteTarget, WriteProxy, Installed, At, TypeOK, RegistrarLabels
  <2>3. targets' \in Tables /\ proxies' \in Tables
    BY <1>3, <2>1 DEF WriteTarget, WriteProxy, Installed, TypeOK, Tables
  <2>4. owed' \in [Paths -> SUBSET (Targets \cup {NoTarget})]
    BY <1>3, <2>1 DEF WriteTarget, WriteProxy, Installed, TypeOK
  <2>5. QED
    BY <1>3, <2>2, <2>3, <2>4
       DEF WriteTarget, WriteProxy, Installed, TypeOK, RegistrarsTyped, RouteRecords, lookupVars
<1>4. CASE Marshal(r)
  <2>1. content' \in [Registrars -> Tables]
    BY <1>4 DEF Marshal, TypeOK
  <2>2. RegistrarsTyped'
    BY <1>4, <2>1, GotoTyped DEF Marshal, At, RegistrarLabels
  <2>3. QED
    BY <1>4, <2>2 DEF Marshal, TypeOK, RegistrarsTyped, RouteRecords, lookupVars
<1>5. CASE Truncate(r)
  <2>1. RegistrarsTyped'
    BY <1>5, GotoTyped DEF Truncate, At, TypeOK, RegistrarLabels
  <2>2. QED
    BY <1>5, <2>1, FilesTyped DEF Truncate, TypeOK, RegistrarsTyped, RouteRecords, lookupVars
<1>6. CASE WriteFile(r)
  <2>1. route[r].path \in Paths /\ route[r].target \in Targets
    BY <1>6 DEF WriteFile, At, TypeOK
  <2>2. file' \in Contents
    BY <1>6, FilesTyped DEF WriteFile, Written, TypeOK
  <2>3. owed' \in [Paths -> SUBSET (Targets \cup {NoTarget})] /\ routed' \in SUBSET Paths
    BY <1>6, <2>1 DEF WriteFile, TypeOK
  <2>4. RegistrarsTyped'
    BY <1>6, DoneTyped DEF WriteFile
  <2>5. QED
    BY <1>6, <2>2, <2>3, <2>4
       DEF WriteFile, TypeOK, RegistrarsTyped, RouteRecords, lookupVars
<1>7. CASE SaveFails(r)
  BY <1>7, DoneTyped DEF SaveFails, TypeOK, RegistrarsTyped, RouteRecords, lookupVars
<1>8. QED
  BY <1>1, <1>2, <1>3, <1>4, <1>5, <1>6, <1>7 DEF CreateRoute

LEMMA TypeLookup ==
    ASSUME TypeOK, NEW l \in Lookups, Request(l) \/ GetProxy(l)
    PROVE  TypeOK'
<1>1. l \in Actors /\ l \notin Registrars /\ \A a \in Registrars \cup Lookups : a \in Actors
  BY ActorAssumption DEF Actors
<1>2. RegistrarsTyped'
  BY <1>1 DEF TypeOK, RegistrarsTyped, RouteRecords, Request, GetProxy, Search, Forward,
              Goto, LookupLabels
<1>3. asked' \in [Lookups -> URLs \cup {<< >>}]
  BY DEF TypeOK, Request, GetProxy, Search, Forward
<1>4. found' \in [Lookups -> SUBSET Paths]
  <2>1. ASSUME NEW order \in SortedKeys(proxies) PROVE FirstMatch(order, asked[l]) \subseteq Paths
    BY <2>1 DEF SortedKeys, FirstMatch, Routes
  <2>2. QED
    BY <2>1 DEF TypeOK, Request, GetProxy, Search, Forward
<1>5. QED
  BY <1>2, <1>3, <1>4
     DEF TypeOK, RegistrarsTyped, RouteRecords, Request, GetProxy, Search, Forward

LEMMA TypeNext == TypeOK /\ [Next]_vars => TypeOK'
<1> SUFFICES ASSUME TypeOK, [Next]_vars PROVE TypeOK'
  OBVIOUS
<1>1. CASE UNCHANGED vars
  BY <1>1 DEF TypeOK, vars, handlerVars, lookupVars
<1>2. CASE Start
  <2>1. targets' \in Tables /\ proxies' \in Tables
    BY <1>2, FilesTyped DEF Start, Loaded, ProxiesFor, TypeOK, Contents
  <2>2. QED
    BY <1>2, <2>1 DEF Start, TypeOK, handlerVars, lookupVars
<1>3. CASE Crash \/ RuntimeThrow
  BY <1>3, TypeHalt DEF Crash, RuntimeThrow
<1>4. QED
  BY <1>1, <1>2, <1>3, TypeRegistrar, TypeLookup DEF Next

(* Every variable of the route table keeps its type. *)
THEOREM TypeCorrect == Spec => []TypeOK
BY TypeInit, TypeNext, PTL DEF Spec

-----------------------------------------------------------------------------
(* Routes in memory *)

LEMMA RoutedInit == Init => RoutedInv
BY TypeInit
   DEF Init, RoutedInv, RoutedStayRoutable, RegistrarRouted, StoppedEmpty, Actors

(* After Halt nothing is held, so nothing can be missing. *)
LEMMA RoutedHalt ==
    ASSUME TypeOK', Halt
    PROVE  RoutedInv'
<1>1. /\ routed' = {}
      /\ \A a \in Actors : pc'[a] = "idle"
      /\ \A l \in Lookups : found'[l] = {}
  BY DEF Halt
<1>2. \A r \in Registrars : r \in Actors
  BY DEF Actors
<1>3. QED
  BY <1>1, <1>2 DEF RoutedInv, RoutedStayRoutable, RegistrarRouted, StoppedEmpty

LEMMA RoutedNext == RoutedInv /\ [Next]_vars => RoutedInv'
<1> SUFFICES ASSUME RoutedInv, [Next]_vars PROVE RoutedInv'
  OBVIOUS
<1> USE DEF RoutedInv
<1>1. TypeOK'
  BY TypeNext
<1>2. \A a \in Registrars \cup Lookups : a \in Actors
  BY DEF Actors
<1>3. CASE UNCHANGED vars
  BY <1>1, <1>3
     DEF vars, handlerVars, lookupVars, RoutedStayRoutable, RegistrarRouted, StoppedEmpty
<1>4. CASE Start
  <2>1. routed = {} /\ \A a \in Actors : pc[a] = "idle"
    BY <1>4 DEF Start, StoppedEmpty
  <2>2. \A l \in Lookups : found[l] = {}
    BY <1>4 DEF Start, StoppedEmpty
  <2>3. UNCHANGED <<pc, route, found, routed>> /\ up'
    BY <1>4 DEF Start, handlerVars, lookupVars
  <2>4. QED
    BY <1>1, <1>2, <2>1, <2>2, <2>3 DEF RoutedStayRoutable, RegistrarRouted, StoppedEmpty
<1>5. CASE Crash \/ RuntimeThrow
  BY <1>1, <1>5, RoutedHalt DEF Crash, RuntimeThrow
<1>6. ASSUME NEW r \in Registrars, Post(r) \/ CreateRoute(r) PROVE RoutedInv'
  <2>1. up /\ up' /\ UNCHANGED <<found, asked>>
    BY <1>6 DEF Post, CreateRoute, ParseTarget, WriteTarget, WriteProxy, Installed, Marshal,
                Truncate, WriteFile, SaveFails, At, lookupVars
  <2>2. CASE Post(r) \/ ParseTarget(r) \/ Marshal(r) \/ Truncate(r) \/ SaveFails(r)
    <3>1. UNCHANGED <<targets, proxies, routed>>
      BY <2>2 DEF Post, ParseTarget, Marshal, Truncate, SaveFails
    <3>2. \A q \in Registrars : q # r => pc'[q] = pc[q] /\ route'[q] = route[q]
      BY <1>2, <2>2
         DEF Post, ParseTarget, Marshal, Truncate, SaveFails, Done, Goto, TypeOK
    <3>3. \/ pc'[r] \in {"idle", "parse", "writeTarget"}
          \/ route'[r] = route[r] /\ pc[r] \in {"marshal", "open", "write"}
      BY <1>2, <2>2
         DEF Post, ParseTarget, Marshal, Truncate, SaveFails, Done, Goto, At, TypeOK
    <3>4. QED
      BY <1>1, <2>1, <3>1, <3>2, <3>3 DEF RoutedStayRoutable, RegistrarRouted, StoppedEmpty
  <2>3. CASE WriteTarget(r) \/ WriteProxy(r)
    <3>1. route[r].path \in Paths /\ route[r].target \in Targets
      BY <2>3 DEF WriteTarget, WriteProxy, Installed, At, TypeOK
    <3>2. route[r].target # NoTarget
      BY <3>1, TargetAssumption
    <3>3. \A p \in Paths : /\ targets[p] # NoTarget => targets'[p] # NoTarget
                           /\ proxies[p] # NoTarget => proxies'[p] # NoTarget
      BY <2>3, <3>2 DEF WriteTarget, WriteProxy, Installed, TypeOK, Tables
    <3>4. UNCHANGED <<route, routed>>
      BY <2>3 DEF WriteTarget, WriteProxy, Installed
    <3>5. RoutedStayRoutable'
      BY <2>1, <3>3, <3>4 DEF RoutedStayRoutable, TypeOK
    <3>6. \A q \in Registrars : q # r => pc'[q] = pc[q]
      BY <1>2, <2>3 DEF WriteTarget, WriteProxy, Installed, Goto, TypeOK
    <3>7. /\ pc'[r] \in {"writeProxy", "marshal"}
          /\ targets'[route[r].path] # NoTarget
          /\ pc'[r] = "marshal" => proxies'[route[r].path] # NoTarget
      <4>1. CASE WriteTarget(r)
        BY <1>2, <3>1, <3>2, <4>1 DEF WriteTarget, Installed, Goto, TypeOK, Tables
      <4>2. CASE WriteProxy(r)
        BY <1>2, <3>1, <3>2, <3>3, <4>2
           DEF WriteProxy, Installed, At, Goto, TypeOK, Tables, RegistrarRouted
      <4>3. QED
        BY <2>3, <4>1, <4>2
    <3>8. \A q \in Registrars : pc[q] # "idle" => route[q].path \in Paths
      BY DEF TypeOK
    <3>9. RegistrarRouted'
      BY <3>3, <3>4, <3>6, <3>7, <3>8 DEF RegistrarRouted
    <3>10. QED
      BY <1>1, <2>1, <3>5, <3>9 DEF StoppedEmpty
  <2>4. CASE WriteFile(r)
    <3>1. UNCHANGED <<targets, proxies>>
      BY <2>4 DEF WriteFile
    <3>2. routed' = routed \cup {route[r].path} /\ pc[r] = "write"
      BY <2>4 DEF WriteFile, At
    <3>3. RoutedStayRoutable'
      BY <2>1, <3>1, <3>2 DEF RoutedStayRoutable, RegistrarRouted
    <3>4. \A q \in Registrars : q # r => pc'[q] = pc[q] /\ route'[q] = route[q]
      BY <1>2, <2>4 DEF WriteFile, Done, Goto, TypeOK
    <3>5. pc'[r] = "idle"
      BY <1>2, <2>4 DEF WriteFile, Done, Goto, TypeOK
    <3>6. RegistrarRouted'
      BY <3>1, <3>4, <3>5 DEF RegistrarRouted
    <3>7. QED
      BY <1>1, <2>1, <3>3, <3>6 DEF StoppedEmpty
  <2>5. QED
    BY <1>6, <2>2, <2>3, <2>4 DEF CreateRoute
<1>7. ASSUME NEW l \in Lookups, Request(l) \/ GetProxy(l) PROVE RoutedInv'
  <2>1. up /\ up' /\ UNCHANGED <<targets, proxies, route, routed>>
    BY <1>7 DEF Request, GetProxy, Search, Forward, At
  <2>2. \A r \in Registrars : pc'[r] = pc[r]
    BY <1>2, <1>7, ActorAssumption DEF Request, GetProxy, Search, Forward, Goto, TypeOK
  <2>3. \A k \in Lookups : \A p \in found'[k] : p \in found[k] \/ proxies[p] # NoTarget
    <3>1. ASSUME NEW order \in SortedKeys(proxies)
          PROVE  \A p \in FirstMatch(order, asked[l]) : proxies[p] # NoTarget
      BY <3>1 DEF SortedKeys, FirstMatch, Routes
    <3>2. QED
      BY <1>7, <3>1 DEF Request, GetProxy, Search, Forward, TypeOK
  <2>4. QED
    BY <1>1, <2>1, <2>2, <2>3 DEF RoutedStayRoutable, RegistrarRouted, StoppedEmpty
<1>8. QED
  BY <1>3, <1>4, <1>5, <1>6, <1>7 DEF Next

(* A path answered 201 stays in both maps while the process lives, however *)
(* registrations interleave and whichever of their saves fail.             *)
THEOREM RoutesStayRoutable == Spec => []RoutedStayRoutable
<1>1. RoutedInv => RoutedStayRoutable
  BY DEF RoutedInv
<1>2. QED
  BY <1>1, RoutedInit, RoutedNext, PTL DEF Spec

-----------------------------------------------------------------------------
(* Routes across restarts *)

(* Registrations do not overlap and a save is never torn: what routes.json *)
(* needs in order to be reliable.                                          *)
OrderlySaves == Serialized /\ "tear" \notin Faults /\ "write" \notin Faults

LEMMA DurableInit == Init => DurableInv
BY DEF Init, DurableInv, RegistrarCurrent, OneAtATime, MemoryOwed, FileOwed, Actors,
       Encoded, Empty

(* The process stops: unless a save was being written, the file is a table *)
(* whose entries are owed.                                                 *)
LEMMA DurableHalt ==
    ASSUME TypeOK, DurableInv, Halt, \A r \in Registrars : pc[r] # "write"
    PROVE  DurableInv'
<1>1. /\ up' = FALSE
      /\ \A a \in Actors : pc'[a] = "idle"
      /\ UNCHANGED <<file, owed>>
  BY DEF Halt
<1>2. \A r \in Registrars : r \in Actors
  BY DEF Actors
<1>3. QED
  BY <1>1, <1>2 DEF DurableInv, RegistrarCurrent, OneAtATime, MemoryOwed, FileOwed

(* A registrar that is not idle is the only one.                           *)
LEMMA OthersIdle ==
    ASSUME DurableInv, NEW r \in Registrars, pc[r] # "idle"
    PROVE  \A q \in Registrars : q # r => pc[q] = "idle"
BY DEF DurableInv, OneAtATime

(* The steps of a registration, one at a time.                             *)
LEMMA DurableRegistrar ==
    ASSUME TypeOK, DurableInv, OrderlySaves, NEW r \in Registrars, CreateRoute(r)
    PROVE  DurableInv'
<1>1. up /\ up' /\ r \in Actors /\ pc[r] # "idle"
  BY DEF CreateRoute, ParseTarget, WriteTarget, WriteProxy, Installed, Marshal, Truncate,
         WriteFile, SaveFails, At, Actors
<1>2. \A q \in Registrars : q \in Actors
  BY DEF Actors
<1>3. \A q \in Registrars : q # r => pc[q] = "idle" /\ pc'[q] = "idle"
  BY <1>2, OthersIdle, <1>1
     DEF CreateRoute, ParseTarget, WriteTarget, WriteProxy, Installed, Marshal, Truncate,
         WriteFile, SaveFails, Done, Goto, TypeOK
<1>4. OneAtATime'
  BY <1>3 DEF OneAtATime
<1>5. CASE ParseTarget(r)
  <2>1. /\ pc[r] = "parse" /\ pc'[r] \in {"idle", "writeTarget"}
        /\ UNCHANGED <<targets, file, owed>>
    BY <1>1, <1>5 DEF ParseTarget, At, Done, Goto, TypeOK
  <2>2. QED
    BY <1>1, <1>3, <1>4, <2>1 DEF DurableInv, RegistrarCurrent, MemoryOwed, FileOwed
<1>6. CASE WriteTarget(r)
  <2>1. /\ pc[r] = "writeTarget" /\ pc'[r] = "writeProxy"
        /\ UNCHANGED <<file, route, content>>
        /\ route[r].path \in Paths
        /\ targets' = [targets EXCEPT ![route[r].path] = route[r].target]
        /\ owed' = [owed EXCEPT ![route[r].path] =
                      owed[route[r].path] \cup {route[r].target}]
    BY <1>1, <1>6 DEF WriteTarget, Installed, At, Goto, TypeOK
  <2>2. targets'[route[r].path] = route[r].target
    BY <2>1 DEF TypeOK, Tables
  <2>3. \A p \in Paths : owed[p] \subseteq owed'[p]
    BY <2>1 DEF TypeOK
  <2>4. RegistrarCurrent'
    BY <1>3, <2>1, <2>2 DEF RegistrarCurrent
  <2>5. MemoryOwed'
    BY <1>1, <2>1, <2>2, <2>3 DEF DurableInv, MemoryOwed, TypeOK, Tables
  <2>6. FileOwed'
    BY <1>1, <1>3, <2>1, <2>3 DEF DurableInv, FileOwed
  <2>7. QED
    BY <1>4, <2>4, <2>5, <2>6 DEF DurableInv
<1>7. CASE WriteProxy(r) \/ Marshal(r)
  <2>1. /\ pc[r] \in {"writeProxy", "marshal"}
        /\ UNCHANGED <<file, route, targets, owed>>
        /\ \/ pc'[r] = "marshal"
           \/ pc'[r] = "open" /\ content'[r] = targets
    BY <1>1, <1>7 DEF WriteProxy, Marshal, At, Goto, TypeOK
  <2>2. RegistrarCurrent'
    BY <1>3, <2>1 DEF DurableInv, RegistrarCurrent
  <2>3. MemoryOwed' /\ FileOwed'
    BY <1>1, <1>3, <2>1 DEF DurableInv, MemoryOwed, FileOwed
  <2>4. QED
    BY <1>4, <2>2, <2>3 DEF DurableInv
<1>8. CASE Truncate(r)
  <2>1. /\ pc[r] = "open" /\ pc'[r] = "write" /\ file'.kind = "empty"
        /\ UNCHANGED <<route, content, targets, owed>>
    BY <1>1, <1>8 DEF Truncate, At, Goto, TypeOK, EmptyFile
  <2>2. QED
    BY <1>1, <1>3, <1>4, <2>1 DEF DurableInv, RegistrarCurrent, MemoryOwed, FileOwed
<1>9. CASE WriteFile(r)
  <2>1. /\ pc[r] = "write" /\ pc'[r] = "idle"
        /\ file' \in Written(content[r])
        /\ owed' = [owed EXCEPT ![route[r].path] = {route[r].target}]
        /\ targets' = targets
    BY <1>1, <1>9 DEF WriteFile, At, Done, Goto, TypeOK
  <2>2. file' = Encoded(targets)
    BY <1>1, <2>1 DEF DurableInv, FileOwed, RegistrarCurrent, Written
  <2>3. targets[route[r].path] = route[r].target
    BY <2>1 DEF DurableInv, RegistrarCurrent
  <2>4. \A p \in Paths : targets[p] \in owed'[p]
    BY <1>1, <2>1, <2>3 DEF DurableInv, MemoryOwed, TypeOK
  <2>5. RegistrarCurrent'
    BY <1>3, <2>1 DEF RegistrarCurrent
  <2>6. FileOwed' /\ MemoryOwed'
    BY <1>3, <2>1, <2>2, <2>4 DEF FileOwed, MemoryOwed, Encoded
  <2>7. QED
    BY <1>4, <2>5, <2>6 DEF DurableInv
<1>10. CASE SaveFails(r)
  <2>1. /\ pc[r] = "open" /\ pc'[r] = "idle"
        /\ UNCHANGED <<file, targets, owed>>
    BY <1>1, <1>10 DEF SaveFails, OrderlySaves, At, Done, Goto, TypeOK
  <2>2. QED
    BY <1>1, <1>3, <1>4, <2>1 DEF DurableInv, RegistrarCurrent, MemoryOwed, FileOwed
<1>11. QED
  BY <1>5, <1>6, <1>7, <1>8, <1>9, <1>10 DEF CreateRoute

LEMMA DurableNext ==
    ASSUME OrderlySaves
    PROVE  RoutedInv /\ DurableInv /\ [Next]_vars => DurableInv'
<1> SUFFICES ASSUME RoutedInv, DurableInv, [Next]_vars PROVE DurableInv'
  OBVIOUS
<1>1. TypeOK /\ StoppedEmpty /\ \A r \in Registrars : r \in Actors
  BY DEF RoutedInv, Actors
<1>2. CASE UNCHANGED vars
  BY <1>2 DEF vars, handlerVars, DurableInv, RegistrarCurrent, OneAtATime, MemoryOwed, FileOwed
<1>3. CASE Start
  <2>1. \A r \in Registrars : pc[r] = "idle"
    BY <1>1, <1>3 DEF Start, StoppedEmpty
  <2>2. file.kind = "table" /\ \A p \in Paths : file.table[p] \in owed[p]
    BY <1>3 DEF Start, DurableInv, FileOwed
  <2>3. targets' = file.table /\ UNCHANGED <<file, owed, pc>>
    BY <1>3, <2>2 DEF Start, Loaded, handlerVars
  <2>4. QED
    BY <2>1, <2>2, <2>3 DEF DurableInv, RegistrarCurrent, OneAtATime, MemoryOwed, FileOwed
<1>4. CASE Crash
  BY <1>1, <1>4, DurableHalt DEF Crash, OrderlySaves
<1>5. CASE RuntimeThrow
  <2>1. PICK a \in Actors : Writes(a) # {}
    BY <1>5 DEF RuntimeThrow
  <2>2. pc[a] \in {"writeTarget", "writeProxy"}
    BY <2>1 DEF Writes
  <2>3. a \in Registrars
    BY <1>1, <2>2 DEF TypeOK, LookupLabels, Actors
  <2>4. \A r \in Registrars : pc[r] # "write"
    BY <2>2, <2>3, OthersIdle
  <2>5. QED
    BY <1>1, <1>5, <2>4, DurableHalt DEF RuntimeThrow
<1>6. ASSUME NEW r \in Registrars, Post(r) PROVE DurableInv'
  <2>1. /\ up /\ up' /\ \A q \in Registrars : pc[q] = "idle"
        /\ UNCHANGED <<targets, file, owed>>
    BY <1>6 DEF Post, Quiet, At, OrderlySaves
  <2>2. pc' = [pc EXCEPT ![r] = "parse"]
    BY <1>6 DEF Post, Goto
  <2>3. \A q \in Registrars : pc'[q] = IF q = r THEN "parse" ELSE "idle"
    BY <1>1, <2>1, <2>2 DEF TypeOK
  <2>4. QED
    BY <2>1, <2>3 DEF DurableInv, RegistrarCurrent, OneAtATime, MemoryOwed, FileOwed
<1>7. ASSUME NEW r \in Registrars, CreateRoute(r) PROVE DurableInv'
  BY <1>1, <1>7, DurableRegistrar
<1>8. ASSUME NEW l \in Lookups, Request(l) \/ GetProxy(l) PROVE DurableInv'
  <2>1. UNCHANGED <<up, targets, file, owed, route, content>>
    BY <1>8 DEF Request, GetProxy, Search, Forward
  <2>2. \A r \in Registrars : pc'[r] = pc[r]
    BY <1>1, <1>8, ActorAssumption DEF Request, GetProxy, Search, Forward, Goto, TypeOK
  <2>3. QED
    BY <2>1, <2>2 DEF DurableInv, RegistrarCurrent, OneAtATime, MemoryOwed, FileOwed
<1>9. QED
  BY <1>2, <1>3, <1>4, <1>5, <1>6, <1>7, <1>8 DEF Next

(* With orderly saves the file and the memory both hold, at every moment   *)
(* of every registration, nothing but targets that are owed: whoever is    *)
(* past its map write has the last word (management.go:82-102, 184-211).   *)
THEOREM DurableHolds ==
    ASSUME OrderlySaves
    PROVE  Spec => []DurableInv
<1>1. Init => RoutedInv /\ DurableInv
  BY RoutedInit, DurableInit
<1>2. RoutedInv /\ DurableInv /\ [Next]_vars => (RoutedInv /\ DurableInv)'
  BY RoutedNext, DurableNext
<1>3. QED
  BY <1>1, <1>2, PTL DEF Spec

(* So what is in force for a path at rest is its last 201 or a later       *)
(* failed attempt, across any number of crashes and restarts.              *)
THEOREM RoutesAreDurable ==
    ASSUME OrderlySaves
    PROVE  Spec => []RoutesDurable
<1>1. DurableInv => RoutesDurable
  BY DEF DurableInv, MemoryOwed, RoutesDurable, Quiet
<1>2. QED
  BY <1>1, DurableHolds, PTL

-----------------------------------------------------------------------------
(* The two maps *)

(* A path the target map has and the proxy map lacks is one whose          *)
(* registrar is between its two writes.                                    *)
PathsAgree ==
    \A p \in Paths :
        /\ proxies[p] # NoTarget => targets[p] # NoTarget
        /\ targets[p] # NoTarget =>
              \/ proxies[p] # NoTarget
              \/ \E r \in Registrars : pc[r] = "writeProxy" /\ route[r].path = p

LEMMA PathsAgreeNext ==
    ASSUME RoutedInv, PathsAgree, [Next]_vars
    PROVE  PathsAgree'
<1>1. TypeOK /\ RegistrarRouted /\ StoppedEmpty /\ \A r \in Registrars : r \in Actors
  BY DEF RoutedInv, Actors
<1>2. CASE UNCHANGED vars
  BY <1>2 DEF vars, handlerVars, PathsAgree
<1>3. CASE Start
  BY <1>3 DEF Start, ProxiesFor, PathsAgree
<1>4. CASE Crash \/ RuntimeThrow
  BY <1>4 DEF Crash, RuntimeThrow, Halt, Empty, PathsAgree
<1>5. ASSUME NEW r \in Registrars, Post(r) \/ CreateRoute(r) PROVE PathsAgree'
  <2>1. \A q \in Registrars : q # r => pc'[q] = pc[q] /\ route'[q] = route[q]
    BY <1>1, <1>5
       DEF Post, CreateRoute, ParseTarget, WriteTarget, WriteProxy, Marshal, Truncate,
           WriteFile, SaveFails, Done, Goto, TypeOK
  <2>2. CASE WriteTarget(r)
    <3>1. /\ targets' = [targets EXCEPT ![route[r].path] = route[r].target]
          /\ pc'[r] = "writeProxy" /\ UNCHANGED <<route, proxies>>
          /\ pc[r] = "writeTarget"
      BY <1>1, <2>2 DEF WriteTarget, Installed, At, Goto, TypeOK
    <3>2. route[r].target \in Targets /\ route[r].target # NoTarget
      BY <1>1, <3>1, TargetAssumption DEF TypeOK
    <3>3. QED
      BY <1>1, <2>1, <3>1, <3>2 DEF PathsAgree, TypeOK, Tables
  <2>3. CASE WriteProxy(r)
    <3>1. /\ proxies' = [proxies EXCEPT ![route[r].path] = route[r].target]
          /\ pc[r] = "writeProxy" /\ UNCHANGED <<route, targets>>
      BY <1>1, <2>3 DEF WriteProxy, Installed, At, Goto, TypeOK
    <3>2. /\ route[r].target \in Targets /\ route[r].target # NoTarget
          /\ targets[route[r].path] # NoTarget
      BY <1>1, <3>1, TargetAssumption DEF TypeOK, RegistrarRouted
    <3>3. proxies'[route[r].path] # NoTarget
      BY <1>1, <3>1, <3>2 DEF TypeOK, Tables
    <3>4. \A p \in Paths : p # route[r].path => proxies'[p] = proxies[p]
      BY <1>1, <3>1 DEF TypeOK, Tables
    <3>5. \A q \in Registrars : pc[q] = "writeProxy" /\ route[q].path # route[r].path =>
              pc'[q] = "writeProxy" /\ route'[q] = route[q]
      BY <2>1
    <3>6. QED
      BY <3>1, <3>2, <3>3, <3>4, <3>5 DEF PathsAgree
  <2>4. CASE Post(r) \/ ParseTarget(r) \/ Marshal(r) \/ Truncate(r) \/ WriteFile(r)
             \/ SaveFails(r)
    <3>1. pc[r] # "writeProxy" /\ UNCHANGED <<targets, proxies>>
      BY <2>4 DEF Post, ParseTarget, Marshal, Truncate, WriteFile, SaveFails, At
    <3>2. QED
      BY <2>1, <3>1 DEF PathsAgree
  <2>5. QED
    BY <1>5, <2>2, <2>3, <2>4 DEF CreateRoute
<1>6. ASSUME NEW l \in Lookups, Request(l) \/ GetProxy(l) PROVE PathsAgree'
  <2>1. UNCHANGED <<targets, proxies, route>>
    BY <1>6 DEF Request, GetProxy, Search, Forward
  <2>2. \A r \in Registrars : pc'[r] = pc[r]
    BY <1>1, <1>6, ActorAssumption DEF Request, GetProxy, Search, Forward, Goto, TypeOK
  <2>3. QED
    BY <2>1, <2>2 DEF PathsAgree
<1>7. QED
  BY <1>2, <1>3, <1>4, <1>5, <1>6 DEF Next

(* With no registration under way the maps route the same paths, however   *)
(* registrations have overlapped before (management.go:88-92).             *)
THEOREM ListedPathsAreRouted == Spec => []ListedPathsRouted
<1>1. Init => RoutedInv /\ PathsAgree
  BY RoutedInit DEF Init, Empty, PathsAgree
<1>2. RoutedInv /\ PathsAgree /\ [Next]_vars => (RoutedInv /\ PathsAgree)'
  BY RoutedNext, PathsAgreeNext
<1>3. PathsAgree => ListedPathsRouted
  BY DEF PathsAgree, ListedPathsRouted, Quiet, Routes
<1>4. QED
  BY <1>1, <1>2, <1>3, PTL DEF Spec

(* When registrations do not overlap the maps differ only for the path     *)
(* whose registrar is between its two writes.                              *)
TargetsAgree ==
    /\ OneAtATime
    /\ \A r \in Registrars :
          pc[r] = "writeProxy" => targets[route[r].path] = route[r].target
    /\ \A p \in Paths :
          targets[p] # proxies[p] =>
              \E r \in Registrars : pc[r] = "writeProxy" /\ route[r].path = p

LEMMA TargetsAgreeNext ==
    ASSUME Serialized, RoutedInv, TargetsAgree, [Next]_vars
    PROVE  TargetsAgree'
<1>1. TypeOK /\ StoppedEmpty /\ \A r \in Registrars : r \in Actors
  BY DEF RoutedInv, Actors
<1>2. CASE UNCHANGED vars
  BY <1>2 DEF vars, handlerVars, TargetsAgree, OneAtATime
<1>3. CASE Start
  <2>1. \A r \in Registrars : pc[r] = "idle" /\ pc'[r] = "idle"
    BY <1>1, <1>3 DEF Start, StoppedEmpty, handlerVars
  <2>2. QED
    BY <1>3, <2>1 DEF Start, ProxiesFor, TargetsAgree, OneAtATime
<1>4. CASE Crash \/ RuntimeThrow
  BY <1>1, <1>4 DEF Crash, RuntimeThrow, Halt, TargetsAgree, OneAtATime
<1>5. ASSUME NEW r \in Registrars, Post(r) PROVE TargetsAgree'
  <2>1. /\ \A q \in Registrars : pc[q] = "idle"
        /\ pc' = [pc EXCEPT ![r] = "parse"] /\ UNCHANGED <<targets, proxies>>
    BY <1>5 DEF Post, Quiet, Goto
  <2>2. \A q \in Registrars : pc'[q] = IF q = r THEN "parse" ELSE "idle"
    BY <1>1, <2>1 DEF TypeOK
  <2>3. targets = proxies
    BY <1>1, <2>1 DEF TargetsAgree, TypeOK, Tables
  <2>4. QED
    BY <2>1, <2>2, <2>3 DEF TargetsAgree, OneAtATime
<1>6. ASSUME NEW r \in Registrars, CreateRoute(r) PROVE TargetsAgree'
  <2>1. pc[r] # "idle"
    BY <1>6 DEF CreateRoute, ParseTarget, WriteTarget, WriteProxy, Marshal, Truncate,
                WriteFile, SaveFails, At
  <2>2. \A q \in Registrars : q # r => pc[q] = "idle" /\ pc'[q] = "idle"
    BY <1>1, <1>6, <2>1
       DEF TargetsAgree, OneAtATime, CreateRoute, ParseTarget, WriteTarget, WriteProxy,
           Marshal, Truncate, WriteFile, SaveFails, Done, Goto, TypeOK
  <2>3. OneAtATime'
    BY <2>2 DEF OneAtATime
  <2>4. CASE WriteTarget(r)
    <3>1. /\ targets' = [targets EXCEPT ![route[r].path] = route[r].target]
          /\ pc[r] = "writeTarget" /\ pc'[r] = "writeProxy" /\ UNCHANGED <<route, proxies>>
          /\ route[r].path \in Paths
      BY <1>1, <2>4 DEF WriteTarget, Installed, At, Goto, TypeOK
    <3>2. targets'[route[r].path] = route[r].target
      BY <1>1, <3>1 DEF TypeOK, Tables
    <3>3. \A p \in Paths : p # route[r].path => targets'[p] = proxies'[p]
      BY <1>1, <2>2, <3>1 DEF TargetsAgree, TypeOK, Tables
    <3>4. QED
      BY <2>2, <2>3, <3>1, <3>2, <3>3 DEF TargetsAgree
  <2>5. CASE WriteProxy(r)
    <3>1. /\ proxies' = [proxies EXCEPT ![route[r].path] = route[r].target]
          /\ pc[r] = "writeProxy" /\ pc'[r] = "marshal" /\ UNCHANGED <<route, targets>>
          /\ route[r].path \in Paths
      BY <1>1, <2>5 DEF WriteProxy, Installed, At, Goto, TypeOK
    <3>2. targets[route[r].path] = route[r].target
      BY <3>1 DEF TargetsAgree
    <3>3. \A p \in Paths : targets'[p] = proxies'[p]
      BY <1>1, <2>2, <3>1, <3>2 DEF TargetsAgree, TypeOK, Tables
    <3>4. QED
      BY <2>2, <2>3, <3>1, <3>3 DEF TargetsAgree
  <2>6. CASE ParseTarget(r) \/ Marshal(r) \/ Truncate(r) \/ WriteFile(r) \/ SaveFails(r)
    <3>1. /\ pc[r] # "writeProxy" /\ pc'[r] # "writeProxy" /\ UNCHANGED <<targets, proxies>>
      BY <1>1, <2>6 DEF ParseTarget, Marshal, Truncate, WriteFile, SaveFails, Done, Goto, At,
                        TypeOK
    <3>2. QED
      BY <2>2, <2>3, <3>1 DEF TargetsAgree
  <2>7. QED
    BY <1>6, <2>4, <2>5, <2>6 DEF CreateRoute
<1>7. ASSUME NEW l \in Lookups, Request(l) \/ GetProxy(l) PROVE TargetsAgree'
  <2>1. UNCHANGED <<targets, proxies, route>>
    BY <1>7 DEF Request, GetProxy, Search, Forward
  <2>2. \A r \in Registrars : pc'[r] = pc[r]
    BY <1>1, <1>7, ActorAssumption DEF Request, GetProxy, Search, Forward, Goto, TypeOK
  <2>3. QED
    BY <2>1, <2>2 DEF TargetsAgree, OneAtATime
<1>8. QED
  BY <1>2, <1>3, <1>4, <1>5, <1>6, <1>7 DEF Next

(* When registrations do not overlap the maps also agree on the targets,   *)
(* whatever happens to the file (management.go:88-92).                     *)
THEOREM ListedTargetsAreRouted ==
    ASSUME Serialized
    PROVE  Spec => []ListedTargetsRouted
<1>1. Init => RoutedInv /\ TargetsAgree
  BY RoutedInit DEF Init, TargetsAgree, OneAtATime, Actors
<1>2. RoutedInv /\ TargetsAgree /\ [Next]_vars => (RoutedInv /\ TargetsAgree)'
  BY RoutedNext, TargetsAgreeNext
<1>3. RoutedInv /\ TargetsAgree => ListedTargetsRouted
  BY DEF RoutedInv, TypeOK, Tables, TargetsAgree, ListedTargetsRouted, Quiet
<1>4. QED
  BY <1>1, <1>2, <1>3, PTL DEF Spec

-----------------------------------------------------------------------------
(* The table implements the registry. *)

(* The values the refinement mapping gives to the registry's variables.    *)
Current == IF up THEN targets ELSE OnDisk
Saved   == IF \E r \in Registrars : At(r, "write") THEN targets ELSE OnDisk

RegistryStep ==
    \/ Saved' = Current /\ Current' = Current
    \/ Current' = Saved /\ Saved' = Saved
    \/ \E p \in Paths, x \in Targets :
          Current' = [Current EXCEPT ![p] = x] /\ Saved' = Saved
    \/ Current' = Current /\ Saved' = Saved

(* Memory follows the file when the process stops. *)
LEMMA RegistryHalt ==
    ASSUME Halt, \A r \in Registrars : pc[r] # "write"
    PROVE  RegistryStep
<1>1. /\ up' = FALSE /\ file' = file
      /\ \A r \in Registrars : ~At(r, "write") /\ ~At(r, "write")'
  BY DEF Halt, At
<1>2. OnDisk' = OnDisk
  BY <1>1 DEF OnDisk
<1>3. Current' = OnDisk /\ Saved = OnDisk /\ Saved' = OnDisk
  BY <1>1, <1>2 DEF Current, Saved
<1>4. QED
  BY <1>3 DEF RegistryStep

LEMMA RegistryRegistrar ==
    ASSUME TypeOK, DurableInv, OrderlySaves, NEW r \in Registrars, CreateRoute(r)
    PROVE  RegistryStep
<1>1. up /\ up' /\ r \in Actors /\ pc[r] # "idle"
  BY DEF CreateRoute, ParseTarget, WriteTarget, WriteProxy, Installed, Marshal, Truncate,
         WriteFile, SaveFails, At, Actors
<1>2. \A q \in Registrars : q # r => pc[q] = "idle" /\ pc'[q] = "idle"
  BY OthersIdle, <1>1
     DEF CreateRoute, ParseTarget, WriteTarget, WriteProxy, Installed, Marshal, Truncate,
         WriteFile, SaveFails, Done, Goto, TypeOK, Actors
<1>3. Current = targets /\ Current' = targets'
  BY <1>1 DEF Current
<1>4. /\ Saved = IF pc[r] = "write" THEN targets ELSE OnDisk
      /\ Saved' = IF pc'[r] = "write" THEN targets' ELSE OnDisk'
  BY <1>1, <1>2 DEF Saved, At
<1>5. CASE WriteTarget(r)
  <2>1. /\ pc[r] = "writeTarget" /\ pc'[r] = "writeProxy" /\ file' = file
        /\ route[r].path \in Paths /\ route[r].target \in Targets
        /\ targets' = [targets EXCEPT ![route[r].path] = route[r].target]
    BY <1>1, <1>5 DEF WriteTarget, Installed, At, Goto, TypeOK
  <2>2. Saved' = Saved
    BY <1>4, <2>1 DEF OnDisk
  <2>3. QED
    BY <1>3, <2>1, <2>2 DEF RegistryStep
<1>6. CASE ParseTarget(r) \/ WriteProxy(r) \/ Marshal(r) \/ SaveFails(r)
  <2>1. /\ pc[r] # "write" /\ pc'[r] # "write" /\ UNCHANGED <<file, targets>>
    BY <1>1, <1>6
       DEF ParseTarget, WriteProxy, Marshal, SaveFails, OrderlySaves, At, Done, Goto, TypeOK
  <2>2. Saved' = Saved
    BY <1>4, <2>1 DEF OnDisk
  <2>3. QED
    BY <1>3, <2>1, <2>2 DEF RegistryStep
<1>7. CASE Truncate(r)
  <2>1. pc'[r] = "write" /\ targets' = targets
    BY <1>1, <1>7 DEF Truncate, At, Goto, TypeOK
  <2>2. QED
    BY <1>3, <1>4, <2>1 DEF RegistryStep
<1>8. CASE WriteFile(r)
  <2>1. /\ pc[r] = "write" /\ pc'[r] = "idle" /\ targets' = targets
        /\ file' \in Written(content[r])
    BY <1>1, <1>8 DEF WriteFile, At, Done, Goto, TypeOK
  <2>2. file' = Encoded(targets)
    BY <1>1, <2>1 DEF DurableInv, FileOwed, RegistrarCurrent, Written
  <2>3. Saved = targets /\ Saved' = targets
    BY <1>4, <2>1, <2>2 DEF OnDisk, Encoded
  <2>4. QED
    BY <1>3, <2>1, <2>3 DEF RegistryStep
<1>9. QED
  BY <1>5, <1>6, <1>7, <1>8 DEF CreateRoute

LEMMA RegistryNext ==
    ASSUME RoutedInv, DurableInv, OrderlySaves, [Next]_vars
    PROVE  RegistryStep
<1>1. TypeOK /\ StoppedEmpty /\ \A r \in Registrars : r \in Actors
  BY DEF RoutedInv, Actors
<1>2. CASE UNCHANGED vars
  BY <1>2 DEF vars, handlerVars, RegistryStep, Current, Saved, OnDisk, At
<1>3. CASE Start
  <2>1. \A r \in Registrars : ~At(r, "write") /\ ~At(r, "write")'
    BY <1>1, <1>3 DEF Start, StoppedEmpty, At, handlerVars
  <2>2. targets' = OnDisk /\ OnDisk' = OnDisk
    BY <1>3 DEF Start, Loaded, OnDisk
  <2>3. Current = OnDisk /\ Current' = OnDisk /\ Saved = OnDisk /\ Saved' = OnDisk
    BY <1>3, <2>1, <2>2 DEF Start, Current, Saved
  <2>4. QED
    BY <2>3 DEF RegistryStep
<1>4. CASE Crash
  BY <1>4, RegistryHalt DEF Crash, OrderlySaves
<1>5. CASE RuntimeThrow
  <2>1. PICK a \in Actors : pc[a] \in {"writeTarget", "writeProxy"}
    BY <1>5 DEF RuntimeThrow, Writes
  <2>2. a \in Registrars
    BY <1>1, <2>1 DEF TypeOK, LookupLabels, Actors
  <2>3. \A r \in Registrars : pc[r] # "write"
    BY <2>1, <2>2, OthersIdle
  <2>4. QED
    BY <1>5, <2>3, RegistryHalt DEF RuntimeThrow
<1>6. ASSUME NEW r \in Registrars, Post(r) PROVE RegistryStep
  <2>1. /\ UNCHANGED <<up, targets, file>> /\ pc[r] = "idle"
        /\ pc' = [pc EXCEPT ![r] = "parse"]
    BY <1>6 DEF Post, At, Goto
  <2>2. \A q \in Registrars : At(q, "write")' <=> At(q, "write")
    BY <1>1, <2>1 DEF At, TypeOK
  <2>3. Current' = Current /\ Saved' = Saved
    BY <2>1, <2>2 DEF Current, Saved, OnDisk
  <2>4. QED
    BY <2>3 DEF RegistryStep
<1>7. ASSUME NEW r \in Registrars, CreateRoute(r) PROVE RegistryStep
  BY <1>1, <1>7, RegistryRegistrar
<1>8. ASSUME NEW l \in Lookups, Request(l) \/ GetProxy(l) PROVE RegistryStep
  <2>1. UNCHANGED <<up, targets, file>>
    BY <1>8 DEF Request, GetProxy, Search, Forward
  <2>2. \A r \in Registrars : pc'[r] = pc[r]
    BY <1>1, <1>8, ActorAssumption DEF Request, GetProxy, Search, Forward, Goto, TypeOK
  <2>3. Current' = Current /\ Saved' = Saved
    BY <2>1, <2>2 DEF Current, Saved, OnDisk, At
  <2>4. QED
    BY <2>3 DEF RegistryStep
<1>9. QED
  BY <1>2, <1>3, <1>4, <1>5, <1>6, <1>7, <1>8 DEF Next

(* With orderly saves every step is one of the registry's: a restart goes  *)
(* back to one whole table that was in force.                              *)
THEOREM TableImplementsRegistry ==
    ASSUME OrderlySaves
    PROVE  Spec => ImplementsRegistry
<1>1. Init => Registry!Init
  <2>1. Init => (up = FALSE /\ OnDisk = Empty /\ \A r \in Registrars : ~At(r, "write"))
    BY DEF Init, OnDisk, Encoded, At
  <2>2. QED
    BY <2>1 DEF Registry!Init, Empty
<1>2. RegistryStep => [Registry!Next]_(Registry!vars)
  BY DEF RegistryStep, Current, Saved, Registry!Next, Registry!Save, Registry!Restart,
         Registry!Put, Registry!vars
<1>3. RoutedInv /\ DurableInv /\ [Next]_vars => [Registry!Next]_(Registry!vars)
  BY <1>2, RegistryNext
<1>4. Init => RoutedInv /\ DurableInv
  BY RoutedInit, DurableInit
<1>5. RoutedInv /\ DurableInv /\ [Next]_vars => (RoutedInv /\ DurableInv)'
  BY RoutedNext, DurableNext
<1>6. QED
  BY <1>1, <1>3, <1>4, <1>5, PTL DEF Spec, ImplementsRegistry, Registry!Spec

-----------------------------------------------------------------------------
(* What a lookup finds                                                     *)

LEMMA LeastNatural ==
    ASSUME NEW S \in SUBSET Nat, S # {}
    PROVE  \E m \in S : \A n \in S : m <= n
<1> DEFINE less == OpToRel(<, Nat)
<1>1. \A m, n \in Nat : m < n => <<m, n>> \in less
  BY DEF OpToRel
<1>2. IsWellFoundedOn(less, Nat)
  BY NatLessThanWellFounded
<1> HIDE DEF less
<1>3. PICK m \in S : \A n \in S : <<n, m>> \notin less
  BY <1>2, WFMin
<1>4. \A n \in S : ~(n < m)
  BY <1>1, <1>3
<1>5. QED
  BY <1>4

(* An order of the keys has all of them: it is as long as their set, and   *)
(* has none twice.                                                         *)
LEMMA KeysComplete ==
    ASSUME IsFiniteSet(Paths), NEW table, NEW order \in SortedKeys(table),
           NEW p \in Routes(table)
    PROVE  \E k \in DOMAIN order : order[k] = p
<1> DEFINE keys == Routes(table)
<1>1. IsFiniteSet(keys)
  BY FS_Subset DEF Routes
<1>2. Cardinality(keys) \in Nat
  BY <1>1, FS_CardinalityType
<1> DEFINE places == 1 .. Cardinality(keys)
<1>3. IsFiniteSet(places) /\ Cardinality(places) = Cardinality(keys)
  BY <1>2, FS_Interval
<1>4. order \in Injection(places, keys)
  <2>1. order \in [places -> keys]
    BY DEF SortedKeys
  <2>2. \A i, j \in places : i < j => order[i] # order[j]
    BY <2>1 DEF SortedKeys
  <2>3. \A i, j \in places : order[i] = order[j] => i = j
    BY <1>2, <2>2
  <2>4. QED
    BY <2>1, <2>3 DEF Injection, IsInjective
<1>5. order \in Surjection(places, keys)
  BY <1>1, <1>3, <1>4, FS_Injection
<1>6. DOMAIN order = places
  BY DEF SortedKeys
<1>7. QED
  BY <1>5, <1>6 DEF Surjection

(* The first key that matches is no shorter than any other that does.      *)
LEMMA FirstMatchLongest ==
    ASSUME IsFiniteSet(Paths), NEW table, NEW order \in SortedKeys(table), NEW u,
           NEW p \in Routes(table), IsPrefix(p, u)
    PROVE  \E q \in FirstMatch(order, u) : IsPrefix(q, u) /\ Len(q) >= Len(p)
<1> DEFINE matches == {k \in DOMAIN order : IsPrefix(order[k], u)}
<1>1. DOMAIN order \subseteq Nat /\ DOMAIN order = 1 .. Cardinality(Routes(table))
  BY DEF SortedKeys
<1>2. PICK k \in DOMAIN order : order[k] = p
  BY KeysComplete
<1>3. PICK m \in matches : \A n \in matches : m <= n
  <2>1. matches \in SUBSET Nat /\ k \in matches
    BY <1>1, <1>2
  <2>2. QED
    BY <2>1, LeastNatural
<1>4. \A j \in 1 .. m - 1 : ~IsPrefix(order[j], u)
  <2>1. Cardinality(Routes(table)) \in Nat
    BY FS_Subset, FS_CardinalityType DEF Routes
  <2>2. \A j \in 1 .. m - 1 : j \in DOMAIN order /\ ~(m <= j)
    BY <1>1, <1>3, <2>1
  <2>3. QED
    BY <1>3, <2>2
<1>5. order[m] \in FirstMatch(order, u)
  BY <1>3, <1>4 DEF FirstMatch
<1>6. Len(order[m]) >= Len(p)
  <2>1. m <= k
    BY <1>2, <1>3
  <2>2. CASE m = k
    <3>1. p \in Seq(Nat)
      BY PathAssumption DEF Routes
    <3>2. QED
      BY <1>2, <2>2, <3>1
  <2>3. CASE m < k
    BY <1>2, <1>3, <2>3 DEF SortedKeys
  <2>4. QED
    BY <1>1, <1>2, <1>3, <2>1, <2>2, <2>3
<1>7. QED
  BY <1>3, <1>5, <1>6

(* A lookup is served by a path no shorter than any answered 201 below     *)
(* which it lies, whatever registrations, failures and restarts overlap.   *)
THEOREM LookupsSeeRouted ==
    ASSUME IsFiniteSet(Paths)
    PROVE  Spec => LookupSeesRouted
<1> DEFINE Sees == \A l \in Lookups : pc[l] = "search" /\ pc'[l] = "forward" =>
                      \A p \in routed : IsPrefix(p, asked[l]) =>
                          \E q \in found'[l] : IsPrefix(q, asked[l]) /\ Len(q) >= Len(p)
<1>1. RoutedInv /\ [Next]_vars => Sees
  <2> SUFFICES ASSUME RoutedInv, [Next]_vars, NEW l \in Lookups,
                      pc[l] = "search", pc'[l] = "forward"
               PROVE  \A p \in routed : IsPrefix(p, asked[l]) =>
                        \E q \in found'[l] : IsPrefix(q, asked[l]) /\ Len(q) >= Len(p)
    OBVIOUS
  <2> USE DEF RoutedInv, TypeOK, At, Goto
  <2>1. l \in Actors /\ l \notin Registrars /\ \A r \in Registrars : r \in Actors
    BY ActorAssumption DEF Actors
  <2>2. Search(l)
    <3>1. ~(UNCHANGED vars) /\ ~Start
      BY DEF vars, handlerVars, Start
    <3>2. ~Crash /\ ~RuntimeThrow
      BY <2>1 DEF Crash, RuntimeThrow, Halt
    <3>3. ASSUME NEW r \in Registrars, Post(r) \/ CreateRoute(r) PROVE FALSE
      BY <2>1, <3>3 DEF Post, CreateRoute, ParseTarget, WriteTarget, WriteProxy, Marshal,
                        Truncate, WriteFile, SaveFails, Done
    <3>4. ASSUME NEW k \in Lookups, Request(k) \/ Forward(k) \/ Search(k) PROVE k = l /\ Search(k)
      <4>1. k \in Actors
        BY DEF Actors
      <4>2. QED
        BY <2>1, <3>4, <4>1 DEF Request, Forward, Search
    <3>5. QED
      BY <3>1, <3>2, <3>3, <3>4 DEF Next, GetProxy
  <2>3. PICK order \in SortedKeys(proxies) : found'[l] = FirstMatch(order, asked[l])
    BY <2>2 DEF Search
  <2>4. \A p \in routed : p \in Routes(proxies)
    BY DEF RoutedStayRoutable, Routes
  <2>5. QED
    BY <2>3, <2>4, FirstMatchLongest
<1>2. Spec => [][Sees]_vars
  BY <1>1, RoutedInit, RoutedNext, PTL DEF Spec
<1>3. QED
  BY <1>2 DEF LookupSeesRouted
-----------------------------------------------------------------------------
(* The order of the keys does not matter                                   *)

(* The first match is the only one.                                        *)
LEMMA FirstMatchUnique ==
    ASSUME NEW table, NEW order \in SortedKeys(table), NEW u,
           NEW p \in FirstMatch(order, u), NEW q \in FirstMatch(order, u)
    PROVE  p = q
<1>1. \A i, j \in DOMAIN order : i < j \/ j < i \/ i = j
  BY DEF SortedKeys
<1>2. \A i, j \in DOMAIN order : i < j => i \in 1 .. j - 1
  BY DEF SortedKeys
<1>3. QED
  BY <1>1, <1>2 DEF FirstMatch

(* Two prefixes of one path that are equally long are the same.            *)
LEMMA PrefixesOfOneLength ==
    ASSUME NEW u, NEW p, NEW q, IsPrefix(p, u), IsPrefix(q, u), Len(p) = Len(q)
    PROVE  p = q
BY DEF IsPrefix

(* Whatever order sort.Slice, which is not stable, and the iteration of a  *)
(* map, which has none, leave the keys in, a path is served by the same    *)
(* key: the longest of its prefixes, and by none only if there is none     *)
(* (management.go:117-128, 174-184).                                       *)
THEOREM OrderDoesNotMatter ==
    ASSUME IsFiniteSet(Paths), NEW table,
           NEW order \in SortedKeys(table), NEW other \in SortedKeys(table), NEW u
    PROVE  /\ FirstMatch(order, u) = FirstMatch(other, u)
           /\ \A p \in Routes(table) : IsPrefix(p, u) =>
                 \E q \in FirstMatch(order, u) :
                    FirstMatch(order, u) = {q} /\ Len(q) >= Len(p)
<1>1. \A o \in SortedKeys(table) : \A q \in FirstMatch(o, u) :
         /\ q \in Routes(table) /\ IsPrefix(q, u)
         /\ FirstMatch(o, u) = {q}
         /\ Len(q) \in Nat
  <2> SUFFICES ASSUME NEW o \in SortedKeys(table), NEW q \in FirstMatch(o, u)
               PROVE  /\ q \in Routes(table) /\ IsPrefix(q, u)
                      /\ FirstMatch(o, u) = {q}
                      /\ Len(q) \in Nat
    OBVIOUS
  <2>1. q \in Routes(table) /\ IsPrefix(q, u)
    BY DEF FirstMatch, SortedKeys
  <2>2. Len(q) \in Nat
    BY <2>1, PathAssumption DEF Routes
  <2>3. FirstMatch(o, u) = {q}
    BY FirstMatchUnique
  <2>4. QED
    BY <2>1, <2>2, <2>3
<1>2. ASSUME NEW a \in SortedKeys(table), NEW b \in SortedKeys(table),
             NEW q \in FirstMatch(a, u)
      PROVE  q \in FirstMatch(b, u)
  <2>1. PICK f \in FirstMatch(b, u) : Len(f) >= Len(q)
    BY <1>1, FirstMatchLongest
  <2>2. PICK g \in FirstMatch(a, u) : Len(g) >= Len(f)
    BY <1>1, FirstMatchLongest
  <2>3. g = q /\ Len(f) = Len(q)
    BY <1>1, <2>1, <2>2
  <2>4. f = q
    BY <1>1, <2>3, PrefixesOfOneLength
  <2>5. QED
    BY <2>4
<1>3. FirstMatch(order, u) = FirstMatch(other, u)
  BY <1>2
<1>4. ASSUME NEW p \in Routes(table), IsPrefix(p, u)
      PROVE  \E q \in FirstMatch(order, u) :
                FirstMatch(order, u) = {q} /\ Len(q) >= Len(p)
  BY <1>1, <1>4, FirstMatchLongest
<1>5. QED
  BY <1>3, <1>4
=============================================================================
