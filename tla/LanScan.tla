------------------------------ MODULE LanScan ------------------------------
(***************************************************************************)
(* GET /v1/gateway/lan-discovery (service/lan_discovery.go): the list of   *)
(* addresses to scan, made from the addresses of this machine's interfaces *)
(* up to a cap; a goroutine for each, of which a limited number probes at  *)
(* a time, under a deadline for the whole scan; and the sorted answer.     *)
(*                                                                         *)
(* A host is a number.  What a peer tells about itself beyond being a      *)
(* NimoOS gateway is left out: whatever it answers, it is listed.          *)
(***************************************************************************)
EXTENDS Integers, Sequences, FiniteSets

CONSTANTS
    Machines,     \* sequences of interface addresses, in the system's order;
                  \* << >> also stands for an error of net.Interfaces
    Bits,         \* length of an address: 32
    Narrowest,    \* how many of its bits name the widest part that is scanned: 24
    Size,         \* how many addresses agree on their first n bits
    LinkLocal,    \* the link-local addresses
    NoAddress,    \* an interface address that is not IPv4
    Cap,          \* scanAddressCap
    Concurrency   \* scanConcurrency

ASSUME WidthAssumption ==
    /\ Bits \in Nat
    /\ Narrowest \in 0 .. Bits
    /\ Size \in [0 .. Bits -> Nat \ {0}]
    /\ Size[Bits] = 1
    /\ \A n \in 0 .. Bits - 1 : Size[n] = 2 * Size[n + 1]

Addresses == 0 .. Size[0] - 1
Faces     == {"lan", "loopback", "virtual", "down", "unreadable"}
Interfaces == [face : Faces, ip : Addresses \cup {NoAddress}, ones : 0 .. Bits]

ASSUME MachineAssumption == NoAddress \notin Addresses /\ Machines \subseteq Seq(Interfaces)
ASSUME LimitAssumption   == Cap \in Nat /\ Concurrency \in Nat \ {0}

Probes == 1 .. Cap

VARIABLES
    phase,      \* "idle", "collect", "probe", "done"
    machine,    \* the addresses of the machine that answers
    todo,       \* those enumerateScanTargets has not looked at
    batch,      \* the hosts of the present one it has not looked at
    hosts,      \* the hosts to probe
    selfIPs,    \* this machine's own addresses
    truncated,  \* the list was capped
    expired,    \* the deadline of the scan has passed
    pc,         \* where the goroutine of each of the hosts is
    slots,      \* how many of them hold a slot of the semaphore
    reply,      \* history: what each probe of /ping gave: "none", "yes", "no"
    listed,     \* the probes whose device has been appended
    answer      \* the devices of the response

targetVars == <<machine, todo, batch, hosts, selfIPs, truncated>>
probeVars  == <<pc, slots, reply, listed>>
vars == <<phase, targetVars, expired, probeVars, answer>>

Labels == {"idle", "wait", "check", "ping", "info", "append", "leave", "done"}
Devices == [ip : Int, self : BOOLEAN]

TypeOK ==
    /\ phase \in {"idle", "collect", "probe", "done"}
    /\ machine \in Seq(Interfaces)
    /\ todo \in Seq(Interfaces)
    /\ batch \in Seq(Int)
    /\ hosts \in Seq(Int)
    /\ Len(hosts) <= Cap
    /\ selfIPs \in SUBSET Addresses
    /\ truncated \in BOOLEAN
    /\ expired \in BOOLEAN
    /\ pc \in [Probes -> Labels]
    /\ slots \in 0 .. Concurrency
    /\ reply \in [Probes -> {"none", "yes", "no"}]
    /\ listed \in SUBSET (1 .. Len(hosts))
    /\ answer \in Seq(Devices)

RangeOf(s) == {s[i] : i \in DOMAIN s}

-----------------------------------------------------------------------------
(* subnetHosts: the hosts of the subnet of an address, narrowed to the     *)
(* part that is scanned, without its first and its last address.           *)
SubnetHosts(a) ==
    LET ones == IF a.ones < Narrowest THEN Narrowest ELSE a.ones
        size == Size[ones]
        base == a.ip - (a.ip % size)
    IN  IF ones >= Bits - 1 THEN << >> ELSE [i \in 1 .. size - 2 |-> base + i]

(* What enumerateScanTargets takes of the interfaces. *)
Visible(a) == a.face = "lan" /\ a.ip \notin LinkLocal \cup {NoAddress}

Init ==
    /\ phase = "idle"
    /\ machine = << >>
    /\ todo = << >>
    /\ batch = << >>
    /\ hosts = << >>
    /\ selfIPs = {}
    /\ truncated = FALSE
    /\ expired = FALSE
    /\ pc = [i \in Probes |-> "idle"]
    /\ slots = 0
    /\ reply = [i \in Probes |-> "none"]
    /\ listed = {}
    /\ answer = << >>

Ask ==
    /\ phase = "idle"
    /\ phase' = "collect"
    /\ machine' \in Machines
    /\ todo' = machine'
    /\ UNCHANGED <<batch, hosts, selfIPs, truncated, expired, probeVars, answer>>

Collecting == phase = "collect" /\ ~truncated

(* Faulty variant: the address of this machine is noted after its hosts    *)
(* have been, when there are any.                                          *)
VisitAddressLate ==
    /\ Collecting
    /\ batch = << >> /\ todo # << >>
    /\ todo' = Tail(todo)
    /\ IF Visible(Head(todo))
       THEN /\ batch' = SubnetHosts(Head(todo))
            /\ selfIPs' = IF batch' = << >> THEN selfIPs ELSE selfIPs \cup {Head(todo).ip}
       ELSE UNCHANGED <<selfIPs, batch>>
    /\ UNCHANGED <<phase, machine, hosts, truncated, expired, probeVars, answer>>

VisitAddress ==
    /\ Collecting
    /\ batch = << >> /\ todo # << >>
    /\ todo' = Tail(todo)
    /\ IF Visible(Head(todo))
       THEN /\ selfIPs' = selfIPs \cup {Head(todo).ip}
            /\ batch' = SubnetHosts(Head(todo))
       ELSE UNCHANGED <<selfIPs, batch>>
    /\ UNCHANGED <<phase, machine, hosts, truncated, expired, probeVars, answer>>

(* Faulty variant: the cap is looked at before the duplicates. *)
FullFirst(h) == Len(hosts) >= Cap

(* The cap matters to a host that is new. *)
Full(h) == h \notin RangeOf(hosts) /\ Len(hosts) >= Cap

VisitHost ==
    /\ Collecting
    /\ batch # << >>
    /\ LET h == Head(batch)
       IN  IF Full(h)
           THEN truncated' = TRUE /\ UNCHANGED <<batch, hosts>>
           ELSE /\ batch' = Tail(batch)
                /\ hosts' = IF h \in RangeOf(hosts) THEN hosts ELSE Append(hosts, h)
                /\ UNCHANGED truncated
    /\ UNCHANGED <<phase, machine, todo, selfIPs, expired, probeVars, answer>>

(* scanHosts starts a goroutine for every host of the list. *)
StartProbes ==
    /\ phase = "collect"
    /\ truncated \/ (batch = << >> /\ todo = << >>)
    /\ phase' = "probe"
    /\ pc' = [i \in Probes |-> IF i <= Len(hosts) THEN "wait" ELSE "idle"]
    /\ UNCHANGED <<targetVars, expired, slots, reply, listed, answer>>

-----------------------------------------------------------------------------
(* One of the goroutines *)

At(i, label)   == phase = "probe" /\ pc[i] = label
Goto(i, label) == pc' = [pc EXCEPT ![i] = label]

(* Faulty variant: the semaphore has room for every host. *)
AcquireAlways(i) ==
    /\ At(i, "wait")
    /\ slots' = slots + 1
    /\ Goto(i, "check")
    /\ UNCHANGED <<phase, targetVars, expired, reply, listed, answer>>

Acquire(i) ==
    /\ At(i, "wait")
    /\ slots < Concurrency
    /\ slots' = slots + 1
    /\ Goto(i, "check")
    /\ UNCHANGED <<phase, targetVars, expired, reply, listed, answer>>

(* Faulty variant: it returns before the slot's release is deferred. *)
CheckLeaking(i) ==
    /\ At(i, "check")
    /\ Goto(i, IF expired THEN "done" ELSE "ping")
    /\ UNCHANGED <<phase, targetVars, expired, slots, reply, listed, answer>>

Check(i) ==
    /\ At(i, "check")
    /\ Goto(i, IF expired THEN "leave" ELSE "ping")
    /\ UNCHANGED <<phase, targetVars, expired, slots, reply, listed, answer>>

(* probePeer: GET /ping has to answer with the fingerprint in time. *)
Ping(i) ==
    /\ At(i, "ping")
    /\ \/ reply' = [reply EXCEPT ![i] = "yes"] /\ Goto(i, "info")
       \/ reply' = [reply EXCEPT ![i] = "no"]  /\ Goto(i, "leave")
    /\ UNCHANGED <<phase, targetVars, expired, slots, listed, answer>>

(* Faulty variant: a peer that has no device-info is not listed. *)
InfoRequired(i) ==
    /\ At(i, "info")
    /\ \E label \in {"append", "leave"} : Goto(i, label)
    /\ UNCHANGED <<phase, targetVars, expired, slots, reply, listed, answer>>

(* Whatever GET /v1/gateway/device-info gives, and if the deadline cuts it *)
(* off, the peer is listed.                                                *)
Info(i) ==
    /\ At(i, "info")
    /\ Goto(i, "append")
    /\ UNCHANGED <<phase, targetVars, expired, slots, reply, listed, answer>>

AppendDevice(i) ==
    /\ At(i, "append")
    /\ listed' = listed \cup {i}
    /\ Goto(i, "leave")
    /\ UNCHANGED <<phase, targetVars, expired, slots, reply, answer>>

Leave(i) ==
    /\ At(i, "leave")
    /\ slots' = slots - 1
    /\ Goto(i, "done")
    /\ UNCHANGED <<phase, targetVars, expired, reply, listed, answer>>

(* The budget of ScanLAN runs from its start. *)
Expire ==
    /\ phase \in {"collect", "probe"}
    /\ ~expired
    /\ expired' = TRUE
    /\ UNCHANGED <<phase, targetVars, probeVars, answer>>

Orders == {order \in [1 .. Cardinality(listed) -> listed] :
             /\ RangeOf(order) = listed
             /\ \A i, j \in DOMAIN order : i < j =>
                  order[i] # order[j] /\ hosts[order[i]] <= hosts[order[j]]}

Device(i) == [ip |-> hosts[i], self |-> hosts[i] \in selfIPs]

(* Faulty variant: a goroutine that waits for a slot is not counted yet. *)
AllDoneUncounted == \A i \in Probes : pc[i] \in {"idle", "wait", "done"}

(* wg.Wait *)
AllDone == \A i \in Probes : pc[i] \in {"idle", "done"}

Answer ==
    /\ phase = "probe"
    /\ AllDone
    /\ phase' = "done"
    /\ \E order \in Orders : answer' = [k \in DOMAIN order |-> Device(order[k])]
    /\ UNCHANGED <<targetVars, expired, probeVars>>

Forget ==
    /\ phase = "done"
    /\ phase' = "idle"
    /\ machine' = << >>
    /\ todo' = << >>
    /\ batch' = << >>
    /\ hosts' = << >>
    /\ selfIPs' = {}
    /\ truncated' = FALSE
    /\ expired' = FALSE
    /\ pc' = [i \in Probes |-> "idle"]
    /\ slots' = 0
    /\ reply' = [i \in Probes |-> "none"]
    /\ listed' = {}
    /\ answer' = << >>

-----------------------------------------------------------------------------
Collect  == VisitAddress \/ VisitHost \/ StartProbes
Probe(i) == \/ Acquire(i) \/ Check(i) \/ Ping(i) \/ Info(i) \/ AppendDevice(i) \/ Leave(i)

Next == Ask \/ Collect \/ Expire \/ Answer \/ Forget \/ \E i \in Probes : Probe(i)

(* Goroutines are scheduled and every HTTP call has a timeout; a slot that *)
(* is free goes to one of those that wait.                                 *)
Fairness == WF_vars(Collect \/ Answer \/ \E i \in Probes : Probe(i))

Spec == Init /\ [][Next]_vars /\ Fairness

-----------------------------------------------------------------------------
(* Properties *)

(* The hosts below the visible addresses of a sequence *)
HostsOf(s) == UNION {RangeOf(SubnetHosts(s[i])) : i \in {k \in DOMAIN s : Visible(s[k])}}

(* The addresses of this machine among them *)
OwnOf(s) == {s[i].ip : i \in {k \in DOMAIN s : Visible(s[k])}}

(* The list to scan has no host twice, keeps to the cap, and lacks a host  *)
(* of the local subnets exactly if the answer says it is truncated         *)
(* (lan_discovery.go:84-126).                                              *)
HostsExact ==
    phase \in {"probe", "done"} =>
        /\ \A i, j \in DOMAIN hosts : hosts[i] = hosts[j] => i = j
        /\ Len(hosts) <= Cap
        /\ RangeOf(hosts) \subseteq HostsOf(machine)
        /\ truncated <=> RangeOf(hosts) # HostsOf(machine)

(* The answer lists every peer that showed the fingerprint, once, and no   *)
(* other, in the order of the addresses; and if the deadline has not       *)
(* passed every host was asked (lan_discovery.go:132-204).                 *)
AnswerExact ==
    phase = "done" =>
        /\ {answer[k].ip : k \in DOMAIN answer} =
               {hosts[i] : i \in {k \in DOMAIN hosts : reply[k] = "yes"}}
        /\ \A k, l \in DOMAIN answer : k < l => answer[k].ip < answer[l].ip
        /\ ~expired => \A i \in DOMAIN hosts : reply[i] # "none"

(* Unless the list was capped, this machine is marked as such, under each  *)
(* of its addresses, and nothing else is (lan_discovery.go:84-87, 195).    *)
SelfMarked ==
    phase = "done" /\ ~truncated =>
        \A k \in DOMAIN answer : answer[k].self <=> answer[k].ip \in OwnOf(machine)

(* The slots taken are those of the goroutines between the two ends of the *)
(* semaphore, so no more than scanConcurrency probe at once.               *)
SlotsHeld ==
    slots = Cardinality({i \in Probes : pc[i] \in {"check", "ping", "info", "append", "leave"}})

(* A scan ends, with as many hosts as there may be, whatever the deadline  *)
(* does (lan_discovery.go:177-204).                                        *)
ScanEnds == phase = "collect" ~> phase = "done"

(* It is a fan-out: the answer waits for every goroutine.                  *)
Fan == INSTANCE FanOut WITH
    Items   <- Probes,
    phase   <- CASE phase = "probe" -> "asked"
                 [] phase = "done"  -> "answered"
                 [] OTHER           -> "idle",
    pending <- {i \in Probes : pc[i] \notin {"idle", "done"}},
    results <- listed

ImplementsFanOut == Fan!Spec
=============================================================================
