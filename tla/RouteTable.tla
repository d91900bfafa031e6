----------------------------- MODULE RouteTable -----------------------------
(***************************************************************************)
(* The route table of the gateway (service.Management): the two maps that  *)
(* POST /v1/gateway/routes writes and every proxied request reads, their   *)
(* copy in routes.json, and a restart, which loads that copy.  Handlers    *)
(* run concurrently and nothing locks the maps or the file.                *)
(*                                                                         *)
(* A path is a sequence of symbols, so that "has prefix" means what        *)
(* strings.HasPrefix means; the empty sequence stands for "/".             *)
(***************************************************************************)
EXTENDS Integers, Sequences, FiniteSets

CONSTANTS
    Registrars,  \* handlers of POST /v1/gateway/routes
    Lookups,     \* handlers of proxied requests
    Paths,       \* paths that are registered
    URLs,        \* paths that are requested
    Targets,     \* targets url.Parse accepts
    BadTarget,   \* stands for the targets it refuses
    Offers,      \* the routes registrars post
    NoTarget,    \* an absent map entry
    Faults,      \* "open", "write": that call of a save may fail; "tear": the
                 \* process may stop between truncation and write of the file;
                 \* "race": the Go runtime may notice an unlocked map access
    MaxCrashes,  \* bound on the number of stops
    Serialized   \* TRUE: registrations do not overlap

ASSUME TargetAssumption == NoTarget \notin Targets /\ BadTarget \notin Targets
ASSUME PathAssumption   == \A p \in Paths \cup URLs : p \in Seq(Nat)
ASSUME OfferAssumption  ==
    Offers \subseteq [path : Paths, target : Targets \cup {BadTarget}]
ASSUME ActorAssumption  == Registrars \cap Lookups = {}
ASSUME LimitAssumption  == /\ Faults \subseteq {"open", "write", "tear", "race"}
                           /\ MaxCrashes \in Nat
                           /\ Serialized \in BOOLEAN

Tables == [Paths -> Targets \cup {NoTarget}]
Empty  == [p \in Paths |-> NoTarget]
Routes(table) == {p \in Paths : table[p] # NoTarget}

(* routes.json: the encoding of a table; an empty file; or the overlay of  *)
(* two encodings.  An absent file loads as the empty table does.           *)
Contents == [kind : {"table", "empty", "garbled"}, table : Tables]
Encoded(table) == [kind |-> "table", table |-> table]
EmptyFile      == [kind |-> "empty", table |-> Empty]
Garbled        == [kind |-> "garbled", table |-> Empty]

Actors  == Registrars \cup Lookups
NoRoute == [path |-> << >>, target |-> BadTarget]

VARIABLES
    up,       \* the management service exists
    targets,  \* pathTargetMap
    proxies,  \* pathReverseProxyMap, each proxy being the target it forwards to
    file,     \* routes.json
    pc,       \* where each handler is
    route,    \* what a registrar registers
    content,  \* what it has marshalled
    asked,    \* the path a lookup is for
    found,    \* the key it has chosen, as a set of at most one path
    owed,     \* history: for each path the target of its last 201 and those of
              \* the attempts made since, any of which may be in force
    routed,   \* history: the paths answered 201 since the process started
    crashes

lookupVars  == <<asked, found>>
handlerVars == <<pc, route, content, lookupVars>>
vars == <<up, targets, proxies, file, handlerVars, owed, routed, crashes>>

RegistrarLabels == {"idle", "parse", "writeTarget", "writeProxy", "marshal", "open", "write"}
LookupLabels    == {"idle", "search", "forward"}

TypeOK ==
    /\ up \in BOOLEAN
    /\ targets \in Tables
    /\ proxies \in Tables
    /\ file \in Contents
    /\ pc \in [Actors -> RegistrarLabels \cup LookupLabels]
    /\ \A r \in Registrars : pc[r] \in RegistrarLabels
    /\ \A l \in Lookups : pc[l] \in LookupLabels
    /\ route \in [Registrars -> [path : Paths \cup {<< >>}, target : Targets \cup {BadTarget}]]
    /\ \A r \in Registrars :
         /\ pc[r] # "idle" => route[r].path \in Paths
         /\ pc[r] \notin {"idle", "parse"} => route[r].target \in Targets
    /\ content \in [Registrars -> Tables]
    /\ asked \in [Lookups -> URLs \cup {<< >>}]
    /\ found \in [Lookups -> SUBSET Paths]
    /\ owed \in [Paths -> SUBSET (Targets \cup {NoTarget})]
    /\ routed \in SUBSET Paths
    /\ crashes \in 0 .. MaxCrashes

Goto(a, label) == pc' = [pc EXCEPT ![a] = label]
At(a, label)   == up /\ pc[a] = label
Quiet          == up /\ \A r \in Registrars : pc[r] = "idle"

IsPrefix(p, s) == Len(p) <= Len(s) /\ p = SubSeq(s, 1, Len(p))

-----------------------------------------------------------------------------
Init ==
    /\ up = FALSE
    /\ targets = Empty
    /\ proxies = Empty
    /\ file = Encoded(Empty)
    /\ pc = [a \in Actors |-> "idle"]
    /\ route = [r \in Registrars |-> NoRoute]
    /\ content = [r \in Registrars |-> Empty]
    /\ asked = [l \in Lookups |-> << >>]
    /\ found = [l \in Lookups |-> {}]
    /\ owed = [p \in Paths |-> {NoTarget}]
    /\ routed = {}
    /\ crashes = 0

(* Faulty variant: what was loaded is dropped. *)
LoadedDropped == Empty

(* loadPathTargetMapFrom: a file that cannot be read or decoded leaves an  *)
(* empty table.                                                            *)
Loaded == IF file.kind = "table" THEN file.table ELSE Empty

(* Faulty variant: the proxies are not rebuilt on load. *)
ProxiesForgotten(table) == Empty

(* ... every entry of which gets a proxy. *)
ProxiesFor(table) == table

(* NewManagementService *)
Start ==
    /\ ~up
    /\ up' = TRUE
    /\ targets' = Loaded
    /\ proxies' = ProxiesFor(Loaded)
    /\ UNCHANGED <<file, handlerVars, owed, routed, crashes>>

(* The process stops: its memory and its handlers are gone. *)
Halt ==
    /\ crashes < MaxCrashes
    /\ crashes' = crashes + 1
    /\ up' = FALSE
    /\ targets' = Empty
    /\ proxies' = Empty
    /\ pc' = [a \in Actors |-> "idle"]
    /\ route' = [r \in Registrars |-> NoRoute]
    /\ content' = [r \in Registrars |-> Empty]
    /\ asked' = [l \in Lookups |-> << >>]
    /\ found' = [l \in Lookups |-> {}]
    /\ routed' = {}
    /\ UNCHANGED <<file, owed>>

Crash ==
    /\ up
    /\ "tear" \notin Faults => \A r \in Registrars : pc[r] # "write"
    /\ Halt

(* A write of a map while another handler reads or writes it stops the     *)
(* process: "concurrent map writes", "concurrent map iteration and write". *)
Writes(a)  == IF pc[a] = "writeTarget" THEN {"targets"}
              ELSE IF pc[a] = "writeProxy" THEN {"proxies"} ELSE {}
Touches(a) == Writes(a) \cup (IF pc[a] = "marshal" THEN {"targets"} ELSE {})
                        \cup (IF pc[a] \in {"search", "forward"} THEN {"proxies"} ELSE {})

RuntimeThrow ==
    /\ up
    /\ "race" \in Faults
    /\ \E a, b \in Actors : a # b /\ Writes(a) \cap Touches(b) # {}
    /\ Halt

-----------------------------------------------------------------------------
(* CreateRoute, step by step *)

Post(r) ==
    /\ At(r, "idle")
    /\ Serialized => Quiet
    /\ \E o \in Offers : route' = [route EXCEPT ![r] = o]
    /\ Goto(r, "parse")
    /\ UNCHANGED <<up, targets, proxies, file, content, lookupVars, owed, routed, crashes>>

Done(r) ==
    /\ Goto(r, "idle")
    /\ route' = [route EXCEPT ![r] = NoRoute]
    /\ content' = [content EXCEPT ![r] = Empty]

(* Faulty variant: the error of url.Parse is ignored. *)
ParseIgnored(r) ==
    /\ At(r, "parse")
    /\ Goto(r, "writeTarget")
    /\ UNCHANGED <<up, targets, proxies, file, route, content, lookupVars, owed, routed,
                   crashes>>

(* A target that does not parse is refused before anything is written. *)
ParseTarget(r) ==
    /\ At(r, "parse")
    /\ \/ /\ route[r].target = BadTarget
          /\ Done(r)
       \/ /\ route[r].target # BadTarget
          /\ Goto(r, "writeTarget")
          /\ UNCHANGED <<route, content>>
    /\ UNCHANGED <<up, targets, proxies, file, lookupVars, owed, routed, crashes>>

(* Faulty variants: an entry that exists is kept; the map is made anew. *)
InstalledOnce(table, r)  == IF table[route[r].path] # NoTarget THEN table
                            ELSE [table EXCEPT ![route[r].path] = route[r].target]
InstalledAlone(table, r) == [Empty EXCEPT ![route[r].path] = route[r].target]

(* A map after the assignment CreateRoute makes to it. *)
Installed(table, r) == [table EXCEPT ![route[r].path] = route[r].target]

WriteTarget(r) ==
    /\ At(r, "writeTarget")
    /\ targets' = Installed(targets, r)
    /\ owed' = [owed EXCEPT ![route[r].path] = @ \cup {route[r].target}]
    /\ Goto(r, "writeProxy")
    /\ UNCHANGED <<up, proxies, file, route, content, lookupVars, routed, crashes>>

WriteProxy(r) ==
    /\ At(r, "writeProxy")
    /\ proxies' = Installed(proxies, r)
    /\ Goto(r, "marshal")
    /\ UNCHANGED <<up, targets, file, route, content, lookupVars, owed, routed, crashes>>

Marshal(r) ==
    /\ At(r, "marshal")
    /\ content' = [content EXCEPT ![r] = targets]
    /\ Goto(r, "open")
    /\ UNCHANGED <<up, targets, proxies, file, route, lookupVars, owed, routed, crashes>>

(* os.WriteFile opens with O_TRUNC ... *)
Truncate(r) ==
    /\ At(r, "open")
    /\ file' = EmptyFile
    /\ Goto(r, "write")
    /\ UNCHANGED <<up, targets, proxies, route, content, lookupVars, owed, routed, crashes>>

(* ... and writes from offset 0: over what another handler has written     *)
(* since, of which a longer tail remains.                                  *)
Written(table) ==
    IF file.kind = "empty" \/ file = Encoded(table) THEN {Encoded(table)}
    ELSE {Encoded(table), Garbled}

WriteFile(r) ==
    /\ At(r, "write")
    /\ file' \in Written(content[r])
    /\ owed' = [owed EXCEPT ![route[r].path] = {route[r].target}]
    /\ routed' = routed \cup {route[r].path}
    /\ Done(r)
    /\ UNCHANGED <<up, targets, proxies, lookupVars, crashes>>

(* A save that fails is answered 500; the maps keep the new route. *)
SaveFails(r) ==
    /\ \/ At(r, "open") /\ "open" \in Faults
       \/ At(r, "write") /\ "write" \in Faults
    /\ Done(r)
    /\ UNCHANGED <<up, targets, proxies, file, lookupVars, owed, routed, crashes>>

-----------------------------------------------------------------------------
(* GetProxy: the keys, longest first; the first that is a prefix; its entry *)

(* Faulty variant: the keys in ascending order of length. *)
AscendingKeys(table) ==
    LET keys == Routes(table)
    IN  {order \in [1 .. Cardinality(keys) -> keys] :
           \A i, j \in DOMAIN order : i < j =>
               order[i] # order[j] /\ Len(order[i]) <= Len(order[j])}

(* getSortedKeys: sort.Slice is not stable and a map has no order, so keys *)
(* of one length come in any order.                                        *)
SortedKeys(table) ==
    LET keys == Routes(table)
    IN  {order \in [1 .. Cardinality(keys) -> keys] :
           \A i, j \in DOMAIN order : i < j =>
               order[i] # order[j] /\ Len(order[i]) >= Len(order[j])}

FirstMatch(order, u) ==
    {order[i] : i \in {k \in DOMAIN order :
         IsPrefix(order[k], u) /\ \A j \in 1 .. k - 1 : ~IsPrefix(order[j], u)}}

Request(l) ==
    /\ At(l, "idle")
    /\ \E u \in URLs : asked' = [asked EXCEPT ![l] = u]
    /\ Goto(l, "search")
    /\ UNCHANGED <<up, targets, proxies, file, route, content, found, owed, routed,
                   crashes>>

Search(l) ==
    /\ At(l, "search")
    /\ \E order \in SortedKeys(proxies) :
         found' = [found EXCEPT ![l] = FirstMatch(order, asked[l])]
    /\ Goto(l, "forward")
    /\ UNCHANGED <<up, targets, proxies, file, route, content, asked, owed, routed,
                   crashes>>

(* The proxy of the chosen key serves the request, or none does: 404. *)
Forward(l) ==
    /\ At(l, "forward")
    /\ asked' = [asked EXCEPT ![l] = << >>]
    /\ found' = [found EXCEPT ![l] = {}]
    /\ Goto(l, "idle")
    /\ UNCHANGED <<up, targets, proxies, file, route, content, owed, routed,
                   crashes>>

-----------------------------------------------------------------------------
CreateRoute(r) == \/ ParseTarget(r) \/ WriteTarget(r) \/ WriteProxy(r) \/ Marshal(r)
                  \/ Truncate(r) \/ WriteFile(r) \/ SaveFails(r)

GetProxy(l) == Search(l) \/ Forward(l)

Next == \/ Start \/ Crash \/ RuntimeThrow
        \/ \E r \in Registrars : Post(r) \/ CreateRoute(r)
        \/ \E l \in Lookups : Request(l) \/ GetProxy(l)

Spec == Init /\ [][Next]_vars

-----------------------------------------------------------------------------
(* Properties *)

(* A path answered 201 stays routable while the process lives: both maps   *)
(* keep an entry for it, whatever other registrations do meanwhile.  A     *)
(* lookup never finds a key without a proxy (management.go:88-92, 117-128).*)
RoutedStayRoutable ==
    /\ \A p \in routed : targets[p] # NoTarget /\ proxies[p] # NoTarget
    /\ \A l \in Lookups : \A p \in found[l] : proxies[p] # NoTarget

(* Its inductive strengthening: a registrar past a map write has left an   *)
(* entry that nothing removes, and a stopped process holds nothing.        *)
RegistrarRouted ==
    \A r \in Registrars :
        /\ pc[r] \in {"writeProxy", "marshal", "open", "write"} =>
              targets[route[r].path] # NoTarget
        /\ pc[r] \in {"marshal", "open", "write"} => proxies[route[r].path] # NoTarget

StoppedEmpty ==
    ~up => /\ routed = {}
           /\ \A a \in Actors : pc[a] = "idle"
           /\ \A l \in Lookups : found[l] = {}

RoutedInv == TypeOK /\ RoutedStayRoutable /\ RegistrarRouted /\ StoppedEmpty

(* A lookup that begins after a path below which it lies was answered 201  *)
(* is served by that path or a longer one (management.go:117-128).         *)
LookupSeesRouted ==
    [][\A l \in Lookups : pc[l] = "search" /\ pc'[l] = "forward" =>
          \A p \in routed : IsPrefix(p, asked[l]) =>
              \E q \in found'[l] : IsPrefix(q, asked[l]) /\ Len(q) >= Len(p)]_vars

(* With no registration under way the two maps route the same paths: what  *)
(* GET /v1/gateway/routes lists is reachable and the reverse.              *)
ListedPathsRouted == Quiet => Routes(targets) = Routes(proxies)

(* ... and to the same targets (management.go:88-92), as long as           *)
(* registrations of one path do not overlap.                               *)
ListedTargetsRouted == Quiet => targets = proxies

(* What is in force for a path is what its last 201 said, or what a failed *)
(* attempt since then said; across restarts too (management.go:82-102,     *)
(* 51-80).                                                                 *)
RoutesDurable == Quiet => \A p \in Paths : targets[p] \in owed[p]

(* Why the table is durable when registrations do not overlap: whoever is  *)
(* past its map write has the last word on its path, what it has           *)
(* marshalled is the table in memory, and the file is only empty while it  *)
(* writes.  Inductive together with RoutedInv.                             *)
RegistrarCurrent ==
    \A r \in Registrars :
        /\ pc[r] \in {"writeProxy", "marshal", "open", "write"} =>
              targets[route[r].path] = route[r].target
        /\ pc[r] \in {"open", "write"} => content[r] = targets

OneAtATime ==
    \A q, r \in Registrars : pc[q] # "idle" /\ pc[r] # "idle" => q = r

MemoryOwed == up => \A p \in Paths : targets[p] \in owed[p]

FileOwed ==
    IF up /\ \E r \in Registrars : pc[r] = "write"
    THEN file.kind = "empty"
    ELSE file.kind = "table" /\ \A p \in Paths : file.table[p] \in owed[p]

DurableInv == RegistrarCurrent /\ OneAtATime /\ MemoryOwed /\ FileOwed

(* While the service is down its table is what a restart would load, and   *)
(* a save has taken place when the file is truncated: what is written next *)
(* is what is in memory.  Whatever happens between, a restart brings back  *)
(* one whole table that was in force (management.go:51-102, 184-211).      *)
OnDisk == IF file.kind = "table" THEN file.table ELSE Empty

Registry == INSTANCE RouteRegistry WITH
    current <- IF up THEN targets ELSE OnDisk,
    saved   <- IF \E r \in Registrars : At(r, "write") THEN targets ELSE OnDisk

ImplementsRegistry == Registry!Spec

(* OVERVIEW.md:60: routes are saved and restored automatically on restart. *)
(* A path that was ever answered 201 is routed whenever the service is up  *)
(* and at rest.                                                            *)
AckedRoutesSurvive ==
    Quiet => \A p \in Paths : NoTarget \notin owed[p] => targets[p] # NoTarget
=============================================================================
