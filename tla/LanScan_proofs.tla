--------------------------- MODULE LanScan_proofs ---------------------------
(* Proofs about LanScan, for every value of its constants. *)
EXTENDS LanScan, FiniteSetTheorems, TLAPS

-----------------------------------------------------------------------------
(* Sequences: what the helpers give. *)

LEMMA RangeEmpty == RangeOf(<< >>) = {}
BY DEF RangeOf

LEMMA RangeOfTail ==
    ASSUME NEW S, NEW s \in Seq(S), s # << >>
    PROVE  /\ RangeOf(s) = {Head(s)} \cup RangeOf(Tail(s))
           /\ Head(s) \in S /\ Tail(s) \in Seq(S)
<1>1. Len(s) \in Nat \ {0} /\ DOMAIN s = 1 .. Len(s)
  OBVIOUS
<1>2. /\ Head(s) = s[1] /\ Tail(s) \in Seq(S) /\ Len(Tail(s)) = Len(s) - 1
      /\ \A i \in 1 .. Len(s) - 1 : Tail(s)[i] = s[i + 1]
  BY <1>1
<1>3. DOMAIN Tail(s) = 1 .. Len(s) - 1
  BY <1>2
<1>4. ASSUME NEW x \in RangeOf(s) PROVE x \in {Head(s)} \cup RangeOf(Tail(s))
  <2>1. PICK i \in 1 .. Len(s) : x = s[i]
    BY <1>1, <1>4 DEF RangeOf
  <2>2. CASE i = 1
    BY <1>2, <2>1, <2>2
  <2>3. CASE i # 1
    <3>1. i - 1 \in 1 .. Len(s) - 1 /\ Tail(s)[i - 1] = x
      BY <1>1, <1>2, <2>1, <2>3
    <3>2. QED
      BY <1>3, <3>1 DEF RangeOf
  <2>4. QED
    BY <2>2, <2>3
<1>5. ASSUME NEW x \in {Head(s)} \cup RangeOf(Tail(s)) PROVE x \in RangeOf(s)
  <2>1. CASE x = Head(s)
    BY <1>1, <1>2, <2>1 DEF RangeOf
  <2>2. CASE x \in RangeOf(Tail(s))
    <3>1. PICK i \in 1 .. Len(s) - 1 : x = Tail(s)[i]
      BY <1>3, <2>2 DEF RangeOf
    <3>2. i + 1 \in 1 .. Len(s) /\ x = s[i + 1]
      BY <1>1, <1>2, <3>1
    <3>3. QED
      BY <1>1, <3>2 DEF RangeOf
  <2>3. QED
    BY <1>5, <2>1, <2>2
<1>6. QED
  BY <1>1, <1>2, <1>4, <1>5

LEMMA RangeOfAppend ==
    ASSUME NEW S, NEW s \in Seq(S), NEW e \in S
    PROVE  RangeOf(Append(s, e)) = RangeOf(s) \cup {e}
<1>1. /\ Len(s) \in Nat /\ DOMAIN s = 1 .. Len(s)
      /\ DOMAIN Append(s, e) = 1 .. Len(s) + 1
      /\ Append(s, e)[Len(s) + 1] = e
      /\ \A i \in 1 .. Len(s) : Append(s, e)[i] = s[i]
  OBVIOUS
<1>2. ASSUME NEW x \in RangeOf(Append(s, e)) PROVE x \in RangeOf(s) \cup {e}
  <2>1. PICK i \in 1 .. Len(s) + 1 : x = Append(s, e)[i]
    BY <1>1, <1>2 DEF RangeOf
  <2>2. CASE i = Len(s) + 1
    BY <1>1, <2>1, <2>2
  <2>3. CASE i # Len(s) + 1
    <3>1. i \in 1 .. Len(s)
      BY <1>1, <2>3
    <3>2. QED
      BY <1>1, <2>1, <3>1 DEF RangeOf
  <2>4. QED
    BY <2>2, <2>3
<1>3. ASSUME NEW x \in RangeOf(s) \cup {e} PROVE x \in RangeOf(Append(s, e))
  <2>1. CASE x = e
    <3>1. Len(s) + 1 \in DOMAIN Append(s, e)
      BY <1>1
    <3>2. QED
      BY <1>1, <2>1, <3>1 DEF RangeOf
  <2>2. CASE x \in RangeOf(s)
    <3>1. PICK i \in 1 .. Len(s) : x = s[i]
      BY <1>1, <2>2 DEF RangeOf
    <3>2. i \in DOMAIN Append(s, e) /\ x = Append(s, e)[i]
      BY <1>1, <3>1
    <3>3. QED
      BY <3>2 DEF RangeOf
  <2>3. QED
    BY <1>3, <2>1, <2>2
<1>4. QED
  BY <1>2, <1>3

LEMMA SubnetTyped ==
    ASSUME NEW a \in Interfaces, Visible(a)
    PROVE  a.ip \in Addresses /\ SubnetHosts(a) \in Seq(Int)
<1> DEFINE ones == IF a.ones < Narrowest THEN Narrowest ELSE a.ones
           size == Size[ones]
           base == a.ip - (a.ip % size)
<1>1. a.ip \in Addresses /\ a.ones \in 0 .. Bits
  BY DEF Visible, Interfaces
<1>2. ones \in 0 .. Bits /\ size \in Nat \ {0}
  BY <1>1, WidthAssumption
<1>3. a.ip \in Int
  BY <1>1, WidthAssumption DEF Addresses
<1>4. base \in Int
  <2> HIDE DEF size
  <2>1. a.ip % size \in Int
    BY <1>2, <1>3
  <2>2. QED
    BY <1>3, <2>1
<1>5. CASE ones >= Bits - 1
  BY <1>1, <1>5 DEF SubnetHosts
<1>6. CASE ~(ones >= Bits - 1)
  <2> HIDE DEF ones, base
  <2>1. ones \in 0 .. Bits - 1 /\ ones + 1 \in 0 .. Bits
    BY <1>2, <1>6, WidthAssumption
  <2>2. Size[ones + 1] \in Nat \ {0} /\ size = 2 * Size[ones + 1]
    BY <2>1, WidthAssumption
  <2>3. size - 2 \in Nat
    BY <1>2, <2>2
  <2> HIDE DEF size
  <2>4. [i \in 1 .. size - 2 |-> base + i] \in Seq(Int)
    BY <1>4, <2>3
  <2>5. SubnetHosts(a) = [i \in 1 .. size - 2 |-> base + i]
    BY <1>6 DEF SubnetHosts, ones, size, base
  <2>6. QED
    BY <1>1, <2>4, <2>5
<1>7. QED
  BY <1>5, <1>6

(* What one address adds to the hosts, and to the own addresses. *)
LEMMA HostsOfTail ==
    ASSUME NEW s \in Seq(Interfaces), s # << >>
    PROVE  HostsOf(s) = HostsOf(Tail(s)) \cup
               IF Visible(Head(s)) THEN RangeOf(SubnetHosts(Head(s))) ELSE {}
<1>1. /\ Len(s) \in Nat \ {0} /\ DOMAIN s = 1 .. Len(s) /\ Head(s) = s[1]
      /\ DOMAIN Tail(s) = 1 .. Len(s) - 1
      /\ \A i \in 1 .. Len(s) - 1 : Tail(s)[i] = s[i + 1]
  OBVIOUS
<1>2. \A h : h \in HostsOf(s) <=>
          \E i \in 1 .. Len(s) : Visible(s[i]) /\ h \in RangeOf(SubnetHosts(s[i]))
  BY <1>1 DEF HostsOf
<1>3. \A h : h \in HostsOf(Tail(s)) <=>
          \E i \in 1 .. Len(s) - 1 : /\ Visible(s[i + 1])
                                     /\ h \in RangeOf(SubnetHosts(s[i + 1]))
  BY <1>1 DEF HostsOf
<1>4. \A i \in 1 .. Len(s) : i = 1 \/ (i - 1 \in 1 .. Len(s) - 1 /\ (i - 1) + 1 = i)
  BY <1>1
<1>5. \A i \in 1 .. Len(s) - 1 : i + 1 \in 1 .. Len(s)
  BY <1>1
<1>6. ASSUME NEW h \in HostsOf(s)
      PROVE  h \in HostsOf(Tail(s)) \/ (Visible(Head(s)) /\ h \in RangeOf(SubnetHosts(Head(s))))
  <2>1. PICK i \in 1 .. Len(s) : Visible(s[i]) /\ h \in RangeOf(SubnetHosts(s[i]))
    BY <1>2, <1>6
  <2>2. CASE i = 1
    BY <1>1, <2>1, <2>2
  <2>3. CASE i # 1
    BY <1>3, <1>4, <2>1, <2>3
  <2>4. QED
    BY <2>2, <2>3
<1>7. \A h : h \in HostsOf(Tail(s)) => h \in HostsOf(s)
  BY <1>2, <1>3, <1>5
<1>8. \A h : Visible(Head(s)) /\ h \in RangeOf(SubnetHosts(Head(s))) => h \in HostsOf(s)
  BY <1>1, <1>2
<1>9. QED
  BY <1>6, <1>7, <1>8

LEMMA OwnOfTail ==
    ASSUME NEW s \in Seq(Interfaces), s # << >>
    PROVE  OwnOf(s) = OwnOf(Tail(s)) \cup IF Visible(Head(s)) THEN {Head(s).ip} ELSE {}
<1>1. /\ Len(s) \in Nat \ {0} /\ DOMAIN s = 1 .. Len(s) /\ Head(s) = s[1]
      /\ DOMAIN Tail(s) = 1 .. Len(s) - 1
      /\ \A i \in 1 .. Len(s) - 1 : Tail(s)[i] = s[i + 1]
  OBVIOUS
<1>2. \A h : h \in OwnOf(s) <=> \E i \in 1 .. Len(s) : Visible(s[i]) /\ h = s[i].ip
  BY <1>1 DEF OwnOf
<1>3. \A h : h \in OwnOf(Tail(s)) <=>
          \E i \in 1 .. Len(s) - 1 : Visible(s[i + 1]) /\ h = s[i + 1].ip
  <2>1. \A h : h \in OwnOf(Tail(s)) <=>
            \E i \in DOMAIN Tail(s) : Visible(Tail(s)[i]) /\ h = Tail(s)[i].ip
    BY DEF OwnOf
  <2>2. ASSUME NEW i \in DOMAIN Tail(s), Visible(Tail(s)[i])
        PROVE  \E j \in 1 .. Len(s) - 1 : Visible(s[j + 1]) /\ Tail(s)[i].ip = s[j + 1].ip
    <3>1. i \in 1 .. Len(s) - 1 /\ Tail(s)[i] = s[i + 1]
      BY <1>1
    <3>2. QED
      BY <2>2, <3>1
  <2>3. ASSUME NEW j \in 1 .. Len(s) - 1, Visible(s[j + 1])
        PROVE  \E i \in DOMAIN Tail(s) : Visible(Tail(s)[i]) /\ s[j + 1].ip = Tail(s)[i].ip
    <3>1. j \in DOMAIN Tail(s) /\ Tail(s)[j] = s[j + 1]
      BY <1>1
    <3>2. QED
      BY <2>3, <3>1
  <2>4. QED
    BY <2>1, <2>2, <2>3
<1>4. \A i \in 1 .. Len(s) : i = 1 \/ (i - 1 \in 1 .. Len(s) - 1 /\ (i - 1) + 1 = i)
  BY <1>1
<1>5. \A i \in 1 .. Len(s) - 1 : i + 1 \in 1 .. Len(s)
  BY <1>1
<1>6. ASSUME NEW h \in OwnOf(s)
      PROVE  h \in OwnOf(Tail(s)) \/ (Visible(Head(s)) /\ h = Head(s).ip)
  <2>1. PICK i \in 1 .. Len(s) : Visible(s[i]) /\ h = s[i].ip
    BY <1>2, <1>6
  <2>2. CASE i = 1
    BY <1>1, <2>1, <2>2
  <2>3. CASE i # 1
    BY <1>3, <1>4, <2>1, <2>3
  <2>4. QED
    BY <2>2, <2>3
<1>7. \A h : h \in OwnOf(Tail(s)) => h \in OwnOf(s)
  BY <1>2, <1>3, <1>5
<1>8. Visible(Head(s)) => Head(s).ip \in OwnOf(s)
  BY <1>1, <1>2
<1>9. QED
  BY <1>6, <1>7, <1>8

LEMMA NoneBelow == HostsOf(<< >>) = {} /\ OwnOf(<< >>) = {}
BY DEF HostsOf, OwnOf

-----------------------------------------------------------------------------
(* The slots of the semaphore *)

Holding == {"check", "ping", "info", "append", "leave"}
Holders == {i \in Probes : pc[i] \in Holding}

LEMMA HoldersFinite == IsFiniteSet(Holders) /\ Cardinality(Holders) \in Nat
<1>1. IsFiniteSet(Probes)
  BY FS_Interval, LimitAssumption DEF Probes
<1>2. Holders \in SUBSET Probes
  BY DEF Holders
<1>3. QED
  BY <1>1, <1>2, FS_Subset, FS_CardinalityType

(* The goroutines that do not probe yet, or any more, hold nothing.        *)
SlotInv ==
    /\ SlotsHeld
    /\ phase \in {"idle", "collect"} =>
         listed = {} /\ \A i \in Probes : pc[i] = "idle" /\ reply[i] = "none"
    /\ phase = "done" => AllDone
    /\ \A i \in Probes : pc[i] # "idle" => i \in 1 .. Len(hosts)
    /\ \A i \in Probes : phase \in {"probe", "done"} /\ i <= Len(hosts) => pc[i] # "idle"

LEMMA HeldIsHolders == SlotsHeld <=> slots = Cardinality(Holders)
BY DEF SlotsHeld, Holders, Holding

LEMMA NoHolders ==
    ASSUME \A i \in Probes : pc[i] \notin Holding
    PROVE  Holders = {} /\ Cardinality(Holders) = 0
BY FS_EmptySet DEF Holders

(* A goroutine goes on. *)
LEMMA ProbeSlots ==
    ASSUME TypeOK, SlotsHeld, NEW i \in Probes, Probe(i)
    PROVE  /\ SlotsHeld'
           /\ slots' \in 0 .. Concurrency
           /\ pc' \in [Probes -> Labels]
           /\ pc[i] \notin {"idle", "done"} /\ pc'[i] # "idle"
           /\ \A j \in Probes : j # i => pc'[j] = pc[j]
<1>1. PICK label \in Labels \ {"idle"} : Goto(i, label)
  BY DEF Probe, Acquire, Check, Ping, Info, AppendDevice, Leave, Labels
<1>2. /\ pc \in [Probes -> Labels] /\ pc' \in [Probes -> Labels] /\ pc'[i] = label
      /\ \A j \in Probes : j # i => pc'[j] = pc[j]
  BY <1>1 DEF TypeOK, Goto
<1>3. slots = Cardinality(Holders) /\ slots \in 0 .. Concurrency /\ Concurrency \in Nat
  BY HeldIsHolders, LimitAssumption DEF TypeOK
<1>4. CASE Acquire(i)
  <2>1. /\ pc[i] = "wait" /\ pc'[i] = "check" /\ slots' = slots + 1 /\ slots < Concurrency
    BY <1>2, <1>4 DEF Acquire, At, Goto
  <2>2. i \notin Holders /\ Holders' = Holders \cup {i}
    BY <1>2, <2>1 DEF Holders, Holding
  <2>3. Cardinality(Holders') = Cardinality(Holders) + 1
    BY <2>2, HoldersFinite, FS_AddElement
  <2>4. slots' = Cardinality(Holders')
    BY <1>3, <2>1, <2>3
  <2>5. QED
    BY <1>2, <1>3, <2>1, <2>4 DEF SlotsHeld, Holders, Holding
<1>5. CASE Leave(i)
  <2>1. pc[i] = "leave" /\ pc'[i] = "done" /\ slots' = slots - 1
    BY <1>2, <1>5 DEF Leave, At, Goto
  <2>2. i \in Holders /\ Holders' = Holders \ {i}
    BY <1>2, <2>1 DEF Holders, Holding
  <2>3. Cardinality(Holders') = Cardinality(Holders) - 1 /\ Cardinality(Holders) # 0
    BY <2>2, HoldersFinite, FS_RemoveElement, FS_EmptySet
  <2>4. slots' = Cardinality(Holders') /\ slots # 0
    BY <1>3, <2>1, <2>3
  <2>5. QED
    BY <1>2, <1>3, <2>1, <2>4 DEF SlotsHeld, Holders, Holding
<1>6. CASE Check(i) \/ Ping(i) \/ Info(i) \/ AppendDevice(i)
  <2>1. pc[i] \in Holding /\ pc'[i] \in Holding /\ slots' = slots
    BY <1>2, <1>6 DEF Check, Ping, Info, AppendDevice, At, Goto, Holding
  <2>2. Holders' = Holders
    BY <1>2, <2>1 DEF Holders
  <2>3. QED
    BY <1>2, <1>3, <2>1, <2>2 DEF SlotsHeld, Holders, Holding
<1>7. QED
  BY <1>4, <1>5, <1>6 DEF Probe

-----------------------------------------------------------------------------
(* Types, and the slots *)

LEMMA OrderTyped ==
    ASSUME TypeOK, NEW order \in Orders
    PROVE  /\ DOMAIN order = 1 .. Cardinality(listed)
           /\ Cardinality(listed) \in Nat
           /\ \A k \in DOMAIN order : order[k] \in listed /\ order[k] \in DOMAIN hosts
           /\ [k \in DOMAIN order |-> Device(order[k])] \in Seq(Devices)
<1>1. /\ listed \in SUBSET (1 .. Len(hosts)) /\ hosts \in Seq(Int) /\ Len(hosts) \in Nat
      /\ DOMAIN hosts = 1 .. Len(hosts)
  BY DEF TypeOK
<1>2. Cardinality(listed) \in Nat
  <2>1. IsFiniteSet(1 .. Len(hosts))
    BY <1>1, FS_Interval
  <2>2. IsFiniteSet(listed)
    BY <1>1, <2>1, FS_Subset
  <2>3. QED
    BY <2>2, FS_CardinalityType
<1>3. order \in [1 .. Cardinality(listed) -> listed]
  BY DEF Orders
<1>4. \A i \in listed : Device(i) \in Devices
  BY <1>1 DEF Device, Devices
<1>5. \A k \in 1 .. Cardinality(listed) : Device(order[k]) \in Devices
  BY <1>3, <1>4
<1>6. [k \in 1 .. Cardinality(listed) |-> Device(order[k])] \in Seq(Devices)
  BY <1>2, <1>5
<1>7. QED
  BY <1>1, <1>2, <1>3, <1>6

LEMMA TypeInit == Init => TypeOK /\ SlotInv
<1> SUFFICES ASSUME Init PROVE TypeOK /\ SlotInv
  OBVIOUS
<1>2. TypeOK
  <2>1. pc \in [Probes -> Labels] /\ reply \in [Probes -> {"none", "yes", "no"}]
    BY DEF Init, Labels
  <2>2. Len(<< >>) = 0 /\ 0 \in 0 .. Concurrency /\ 0 <= Cap
    BY LimitAssumption
  <2>3. /\ << >> \in Seq(Int) /\ << >> \in Seq(Interfaces) /\ << >> \in Seq(Devices)
        /\ {} \in SUBSET Addresses /\ {} \in SUBSET (1 .. Len(<< >>))
    OBVIOUS
  <2>4. QED
    BY <2>1, <2>2, <2>3 DEF Init, TypeOK
<1>3. Cardinality(Holders) = 0
  BY NoHolders DEF Init, Holding
<1>4. SlotsHeld
  BY <1>3, HeldIsHolders DEF Init
<1>5. QED
  BY <1>2, <1>4 DEF Init, SlotInv

(* The steps that leave the goroutines alone *)
LEMMA QuietSlots ==
    ASSUME SlotInv, UNCHANGED <<pc, slots>>,
           \/ UNCHANGED <<reply, listed>> /\ phase' = phase
           \/ phase = "idle" /\ phase' = "collect" /\ UNCHANGED <<reply, listed>>
           \/ phase = "probe" /\ phase' = "done" /\ AllDone,
           \A i \in 1 .. Len(hosts) : i \in 1 .. Len(hosts'),
           phase \in {"probe", "done"} => hosts' = hosts
    PROVE  SlotInv'
<1>1. Holders' = Holders
  BY DEF Holders
<1>2. SlotsHeld'
  BY <1>1 DEF SlotInv, SlotsHeld, Holders, Holding
<1>3. QED
  BY <1>2 DEF SlotInv, AllDone

LEMMA TypeNext == TypeOK /\ SlotInv /\ [Next]_vars => (TypeOK /\ SlotInv)'
<1> SUFFICES ASSUME TypeOK, SlotInv, [Next]_vars PROVE TypeOK' /\ SlotInv'
  OBVIOUS
<1>1. CASE UNCHANGED vars
  <2>1. SlotInv'
    BY <1>1, QuietSlots DEF vars, targetVars, probeVars
  <2>2. QED
    BY <1>1, <2>1 DEF vars, targetVars, probeVars, TypeOK
<1>2. CASE Ask
  <2>1. TypeOK'
    BY <1>2, MachineAssumption DEF Ask, TypeOK, probeVars
  <2>2. SlotInv'
    BY <1>2, QuietSlots DEF Ask, probeVars
  <2>3. QED
    BY <2>1, <2>2
<1>3. CASE VisitAddress
  <2>1. /\ todo \in Seq(Interfaces) /\ todo # << >>
        /\ Head(todo) \in Interfaces /\ Tail(todo) \in Seq(Interfaces)
    BY <1>3, RangeOfTail DEF VisitAddress, TypeOK
  <2>2. TypeOK'
    <3>1. batch' \in Seq(Int) /\ selfIPs' \in SUBSET Addresses
      <4>1. CASE Visible(Head(todo))
        <5>1. Head(todo).ip \in Addresses /\ SubnetHosts(Head(todo)) \in Seq(Int)
          BY <2>1, <4>1, SubnetTyped
        <5>2. selfIPs' = selfIPs \cup {Head(todo).ip} /\ batch' = SubnetHosts(Head(todo))
          BY <1>3, <4>1 DEF VisitAddress
        <5>3. QED
          BY <5>1, <5>2 DEF TypeOK
      <4>2. CASE ~Visible(Head(todo))
        BY <1>3, <4>2 DEF VisitAddress, TypeOK
      <4>3. QED
        BY <4>1, <4>2
    <3>2. todo' \in Seq(Interfaces)
      BY <1>3, <2>1 DEF VisitAddress
    <3>3. UNCHANGED <<phase, machine, hosts, truncated, expired, probeVars, answer>>
      BY <1>3 DEF VisitAddress
    <3>4. QED
      BY <3>1, <3>2, <3>3 DEF TypeOK, probeVars
  <2>3. SlotInv'
    BY <1>3, QuietSlots DEF VisitAddress, probeVars
  <2>4. QED
    BY <2>2, <2>3
<1>4. CASE VisitHost
  <2>1. Head(batch) \in Int /\ Tail(batch) \in Seq(Int) /\ Len(hosts) \in Nat /\ Cap \in Nat
    BY <1>4, RangeOfTail, LimitAssumption DEF VisitHost, TypeOK
  <2>2. hosts' = hosts \/ (hosts' = Append(hosts, Head(batch)) /\ Len(hosts) < Cap)
    BY <1>4, <2>1 DEF VisitHost, Full
  <2>3. hosts' \in Seq(Int) /\ Len(hosts') \in Nat /\ Len(hosts) <= Len(hosts') /\ Len(hosts') <= Cap
    <3>1. hosts \in Seq(Int) /\ Len(hosts) <= Cap
      BY DEF TypeOK
    <3>2. /\ Append(hosts, Head(batch)) \in Seq(Int)
          /\ Len(Append(hosts, Head(batch))) = Len(hosts) + 1
      BY <2>1, <3>1
    <3>3. CASE hosts' = hosts
      BY <2>1, <3>1, <3>3
    <3>4. CASE hosts' = Append(hosts, Head(batch)) /\ Len(hosts) < Cap
      <4>1. Len(hosts') = Len(hosts) + 1 /\ hosts' \in Seq(Int)
        BY <3>2, <3>4
      <4>2. QED
        BY <2>1, <3>4, <4>1
    <3>5. QED
      BY <2>2, <3>3, <3>4
  <2>4. listed = {}
    BY <1>4 DEF VisitHost, Collecting, SlotInv
  <2>5. TypeOK'
    BY <1>4, <2>1, <2>3, <2>4 DEF VisitHost, TypeOK, probeVars
  <2>6. phase = "collect" /\ UNCHANGED <<phase, pc, slots, reply, listed>>
    BY <1>4 DEF VisitHost, Collecting, probeVars
  <2>7. \A i \in 1 .. Len(hosts) : i \in 1 .. Len(hosts')
    BY <2>1, <2>3
  <2>8. SlotInv'
    BY <2>6, <2>7, QuietSlots
  <2>9. QED
    BY <2>5, <2>8
<1>5. CASE StartProbes
  <2>1. pc' \in [Probes -> Labels]
    BY <1>5 DEF StartProbes, Labels
  <2>2. TypeOK'
    BY <1>5, <2>1 DEF StartProbes, TypeOK, targetVars
  <2>3. Holders = {} /\ Holders' = {}
    BY <1>5 DEF StartProbes, SlotInv, Holders, Holding
  <2>4. SlotsHeld'
    BY <1>5, <2>3 DEF StartProbes, SlotInv, SlotsHeld, Holders, Holding
  <2>5. \A i \in Probes : pc'[i] = IF i <= Len(hosts) THEN "wait" ELSE "idle"
    BY <1>5 DEF StartProbes
  <2>6. hosts' = hosts /\ Len(hosts) \in Nat /\ \A i \in Probes : i \in Nat \ {0}
    BY <1>5, LimitAssumption DEF StartProbes, targetVars, TypeOK, Probes
  <2>7. phase' = "probe"
    BY <1>5 DEF StartProbes
  <2>8. \A i \in Probes : pc'[i] # "idle" => i \in 1 .. Len(hosts)
    BY <2>5, <2>6
  <2>9. QED
    BY <2>2, <2>4, <2>5, <2>6, <2>7, <2>8 DEF SlotInv
<1>6. CASE Expire
  <2>1. TypeOK'
    BY <1>6 DEF Expire, TypeOK, probeVars, targetVars
  <2>2. SlotInv'
    BY <1>6, QuietSlots DEF Expire, probeVars, targetVars
  <2>3. QED
    BY <2>1, <2>2
<1>7. CASE Answer
  <2>1. answer' \in Seq(Devices)
    BY <1>7, OrderTyped DEF Answer
  <2>2. TypeOK'
    BY <1>7, <2>1 DEF Answer, TypeOK, probeVars, targetVars
  <2>3. SlotInv'
    BY <1>7, QuietSlots DEF Answer, probeVars, targetVars
  <2>4. QED
    BY <2>2, <2>3
<1>8. CASE Forget
  <2>2. TypeOK'
    <3>1. pc' \in [Probes -> Labels] /\ reply' \in [Probes -> {"none", "yes", "no"}]
      BY <1>8 DEF Forget, Labels
    <3>2. Len(<< >>) = 0 /\ 0 \in 0 .. Concurrency /\ 0 <= Cap
      BY LimitAssumption
    <3>3. /\ << >> \in Seq(Int) /\ << >> \in Seq(Interfaces) /\ << >> \in Seq(Devices)
          /\ {} \in SUBSET Addresses /\ {} \in SUBSET (1 .. Len(<< >>))
      OBVIOUS
    <3>4. QED
      BY <1>8, <3>1, <3>2, <3>3 DEF Forget, TypeOK
  <2>3. Holders' = {} /\ slots' = 0
    BY <1>8 DEF Forget, Holders, Holding
  <2>4. SlotsHeld'
    BY <2>3, FS_EmptySet DEF SlotsHeld, Holders, Holding
  <2>5. QED
    BY <1>8, <2>2, <2>4 DEF Forget, SlotInv
<1>9. ASSUME NEW i \in Probes, Probe(i) PROVE TypeOK' /\ SlotInv'
  <2>1. /\ SlotsHeld' /\ slots' \in 0 .. Concurrency /\ pc' \in [Probes -> Labels]
        /\ pc[i] # "idle" /\ pc'[i] # "idle" /\ \A j \in Probes : j # i => pc'[j] = pc[j]
    BY <1>9, ProbeSlots DEF SlotInv
  <2>2. phase = "probe" /\ UNCHANGED <<phase, targetVars, expired, answer>>
    BY <1>9 DEF Probe, Acquire, Check, Ping, Info, AppendDevice, Leave, At
  <2>3. i \in 1 .. Len(hosts)
    BY <2>1 DEF SlotInv
  <2>4. /\ reply' \in [Probes -> {"none", "yes", "no"}]
        /\ listed' \in SUBSET (1 .. Len(hosts))
    BY <1>9, <2>3 DEF TypeOK, Probe, Acquire, Check, Ping, Info, AppendDevice, Leave
  <2>5. TypeOK'
    BY <2>1, <2>2, <2>4 DEF TypeOK, targetVars
  <2>6. SlotInv'
    BY <2>1, <2>2 DEF SlotInv, targetVars
  <2>7. QED
    BY <2>5, <2>6
<1>10. QED
  BY <1>1, <1>2, <1>3, <1>4, <1>5, <1>6, <1>7, <1>8, <1>9 DEF Next, Collect

(* The variables keep their types. *)
THEOREM ScanTyped == Spec => []TypeOK
<1>1. TypeOK /\ SlotInv => TypeOK
  OBVIOUS
<1>2. QED
  BY <1>1, TypeInit, TypeNext, PTL DEF Spec

(* A slot is given back on every path, so the semaphore and the goroutines *)
(* agree at all times (lan_discovery.go:184-199).                          *)
THEOREM SlotsAreHeld == Spec => []SlotsHeld
<1>1. TypeOK /\ SlotInv => SlotsHeld
  BY DEF SlotInv
<1>2. QED
  BY <1>1, TypeInit, TypeNext, PTL DEF Spec

(* The goroutines cannot all wait for one another: as long as one has not  *)
(* ended, one of them holds a slot, which it gives back whatever it is     *)
(* told, or there is a slot for one that waits (lan_discovery.go:184-189). *)
NeverStuck ==
    phase = "probe" =>
        \/ AllDone
        \/ \E i \in Probes : pc[i] \in Holding
        \/ \E i \in Probes : pc[i] = "wait" /\ slots < Concurrency

THEOREM ScanNeverStuck == Spec => []NeverStuck
<1>1. TypeOK /\ SlotInv => NeverStuck
  <2> SUFFICES ASSUME TypeOK, SlotInv, phase = "probe", ~AllDone,
                      \A i \in Probes : pc[i] \notin Holding
               PROVE  \E i \in Probes : pc[i] = "wait" /\ slots < Concurrency
    BY DEF NeverStuck
  <2>1. slots = 0
    BY HeldIsHolders, NoHolders DEF SlotInv
  <2>2. PICK i \in Probes : pc[i] \notin {"idle", "done"}
    BY DEF AllDone
  <2>3. pc[i] = "wait"
    BY <2>2 DEF TypeOK, Labels, Holding
  <2>4. QED
    BY <2>1, <2>3, LimitAssumption
<1>2. QED
  BY <1>1, TypeInit, TypeNext, PTL DEF Spec

-----------------------------------------------------------------------------
(* The list of hosts *)

Collected == RangeOf(hosts) \cup RangeOf(batch) \cup HostsOf(todo)

(* What is collected and what is still to be looked at is together what is *)
(* to be scanned, until the list is capped; then a host is missing.        *)
CollectInv ==
    /\ \A i, j \in DOMAIN hosts : hosts[i] = hosts[j] => i = j
    /\ Collected \subseteq HostsOf(machine)
    /\ ~truncated => Collected = HostsOf(machine)
    /\ truncated => RangeOf(hosts) # HostsOf(machine)
    /\ phase \in {"probe", "done"} => truncated \/ (batch = << >> /\ todo = << >>)
    /\ phase = "idle" => ~truncated /\ machine = << >> /\ todo = << >>

(* ... and likewise for this machine's own addresses.                      *)
SelfInv ==
    /\ selfIPs \cup OwnOf(todo) \subseteq OwnOf(machine)
    /\ ~truncated => selfIPs \cup OwnOf(todo) = OwnOf(machine)

LEMMA CollectInit == Init => CollectInv /\ SelfInv
BY RangeEmpty, NoneBelow DEF Init, CollectInv, SelfInv, Collected

LEMMA CollectStep ==
    ASSUME TypeOK, CollectInv, SelfInv, VisitAddress \/ VisitHost
    PROVE  CollectInv' /\ SelfInv'
<1>1. CASE VisitAddress
  <2>1. /\ todo \in Seq(Interfaces) /\ todo # << >> /\ batch = << >> /\ ~truncated
        /\ phase = "collect" /\ todo' = Tail(todo)
        /\ UNCHANGED <<phase, machine, hosts, truncated>>
    BY <1>1 DEF VisitAddress, Collecting, TypeOK
  <2>2. /\ RangeOf(batch') = IF Visible(Head(todo)) THEN RangeOf(SubnetHosts(Head(todo))) ELSE {}
        /\ selfIPs' = selfIPs \cup IF Visible(Head(todo)) THEN {Head(todo).ip} ELSE {}
    BY <1>1, <2>1, RangeEmpty DEF VisitAddress
  <2>3. RangeOf(batch') \cup HostsOf(todo') = HostsOf(todo)
    BY <2>1, <2>2, HostsOfTail
  <2>4. selfIPs' \cup OwnOf(todo') = selfIPs \cup OwnOf(todo)
    BY <2>1, <2>2, OwnOfTail
  <2>5. Collected' = Collected
    BY <2>1, <2>3, RangeEmpty DEF Collected
  <2>6. QED
    BY <2>1, <2>4, <2>5 DEF CollectInv, SelfInv
<1>2. CASE VisitHost
  <2> DEFINE h == Head(batch)
  <2>1. /\ batch \in Seq(Int) /\ batch # << >> /\ ~truncated /\ phase = "collect"
        /\ UNCHANGED <<phase, machine, todo, selfIPs>>
    BY <1>2 DEF VisitHost, Collecting, TypeOK
  <2>2. RangeOf(batch) = {h} \cup RangeOf(Tail(batch)) /\ h \in Int
    BY <2>1, RangeOfTail
  <2>3. hosts \in Seq(Int) /\ DOMAIN hosts = 1 .. Len(hosts) /\ Len(hosts) \in Nat
    BY DEF TypeOK
  <2>4. CASE Full(h)
    <3>1. truncated' /\ UNCHANGED <<batch, hosts>>
      BY <1>2, <2>4 DEF VisitHost
    <3>2. h \in HostsOf(machine) /\ h \notin RangeOf(hosts)
      BY <2>2, <2>4 DEF Full, CollectInv, Collected
    <3>3. QED
      BY <2>1, <3>1, <3>2 DEF CollectInv, SelfInv, Collected
  <2>5. CASE ~Full(h) /\ h \in RangeOf(hosts)
    <3>1. batch' = Tail(batch) /\ hosts' = hosts /\ truncated' = truncated
      BY <1>2, <2>5 DEF VisitHost
    <3>2. Collected' = Collected
      BY <2>1, <2>2, <2>5, <3>1 DEF Collected
    <3>3. QED
      BY <2>1, <3>1, <3>2 DEF CollectInv, SelfInv
  <2>6. CASE ~Full(h) /\ h \notin RangeOf(hosts)
    <3>1. batch' = Tail(batch) /\ hosts' = Append(hosts, h) /\ truncated' = truncated
      BY <1>2, <2>6 DEF VisitHost
    <3>2. RangeOf(hosts') = RangeOf(hosts) \cup {h}
      BY <2>2, <2>3, <3>1, RangeOfAppend
    <3>3. Collected' = Collected
      BY <2>1, <2>2, <3>1, <3>2 DEF Collected
    <3>4. /\ DOMAIN hosts' = 1 .. Len(hosts) + 1 /\ hosts'[Len(hosts) + 1] = h
          /\ \A i \in 1 .. Len(hosts) : hosts'[i] = hosts[i] /\ hosts[i] # h
      <4>1. \A i \in 1 .. Len(hosts) : hosts[i] # h
        BY <2>3, <2>6 DEF RangeOf
      <4>2. QED
        BY <2>2, <2>3, <3>1, <4>1
    <3>5. ASSUME NEW i \in DOMAIN hosts', NEW j \in DOMAIN hosts', hosts'[i] = hosts'[j]
          PROVE  i = j
      <4>1. \A k \in DOMAIN hosts' : k = Len(hosts) + 1 \/ k \in DOMAIN hosts
        BY <2>3, <3>4
      <4>2. QED
        BY <2>3, <3>4, <3>5, <4>1 DEF CollectInv
    <3>6. QED
      BY <2>1, <3>1, <3>3, <3>5 DEF CollectInv, SelfInv
  <2>7. QED
    BY <2>4, <2>5, <2>6
<1>3. QED
  BY <1>1, <1>2

LEMMA CollectNext ==
    TypeOK /\ CollectInv /\ SelfInv /\ [Next]_vars => (CollectInv /\ SelfInv)'
<1> SUFFICES ASSUME TypeOK, CollectInv, SelfInv, [Next]_vars PROVE CollectInv' /\ SelfInv'
  OBVIOUS
<1>1. ASSUME UNCHANGED targetVars, phase' = phase PROVE CollectInv' /\ SelfInv'
  BY <1>1 DEF targetVars, CollectInv, SelfInv, Collected
<1>2. CASE Ask
  <2>1. /\ phase' = "collect" /\ todo' = machine' /\ UNCHANGED <<batch, hosts, selfIPs, truncated>>
        /\ phase = "idle"
    BY <1>2 DEF Ask
  <2>2. ~truncated /\ machine = << >> /\ todo = << >>
    BY <2>1 DEF CollectInv
  <2>3. RangeOf(hosts) = {} /\ RangeOf(batch) = {} /\ selfIPs = {}
    BY <2>2, NoneBelow DEF CollectInv, SelfInv, Collected
  <2>4. QED
    BY <2>1, <2>2, <2>3 DEF CollectInv, SelfInv, Collected
<1>3. CASE VisitAddress \/ VisitHost
  BY <1>3, CollectStep
<1>4. CASE StartProbes
  BY <1>4 DEF StartProbes, targetVars, CollectInv, SelfInv, Collected
<1>5. CASE Answer
  BY <1>5 DEF Answer, targetVars, CollectInv, SelfInv, Collected
<1>6. CASE Forget
  BY <1>6, RangeEmpty, NoneBelow DEF Forget, CollectInv, SelfInv, Collected
<1>7. CASE Expire \/ UNCHANGED vars
  BY <1>1, <1>7 DEF Expire, vars
<1>8. ASSUME NEW i \in Probes, Probe(i) PROVE CollectInv' /\ SelfInv'
  BY <1>1, <1>8 DEF Probe, Acquire, Check, Ping, Info, AppendDevice, Leave
<1>9. QED
  BY <1>2, <1>3, <1>4, <1>5, <1>6, <1>7, <1>8 DEF Next, Collect

(* The list is without duplicates and within the cap, and lacks a host     *)
(* exactly if the answer says so: for every set of interfaces, every cap   *)
(* and every width (lan_discovery.go:84-126).                              *)
THEOREM HostsAreExact == Spec => []HostsExact
<1>1. TypeOK /\ CollectInv => HostsExact
  BY RangeEmpty, NoneBelow DEF TypeOK, CollectInv, Collected, HostsExact
<1>2. TypeOK /\ SlotInv /\ CollectInv /\ SelfInv /\ [Next]_vars =>
          (TypeOK /\ SlotInv /\ CollectInv /\ SelfInv)'
  BY TypeNext, CollectNext
<1>3. QED
  BY <1>1, <1>2, TypeInit, CollectInit, PTL DEF Spec

-----------------------------------------------------------------------------
(* The answer *)

(* Who has been appended, and who has been asked. *)
ReplyInv ==
    \A i \in Probes :
        /\ pc[i] \in {"info", "append"} => reply[i] = "yes" /\ i \notin listed
        /\ i \in listed => reply[i] = "yes" /\ pc[i] \in {"leave", "done"}
        /\ reply[i] = "yes" => pc[i] \in {"info", "append"} \/ i \in listed
        /\ pc[i] \in {"leave", "done"} => reply[i] # "none" \/ expired

(* What the answer was made of. *)
AnswerInv ==
    phase = "done" =>
        /\ {answer[k].ip : k \in DOMAIN answer} = {hosts[i] : i \in listed}
        /\ \A k, l \in DOMAIN answer : k < l => answer[k].ip < answer[l].ip
        /\ \A k \in DOMAIN answer : answer[k].self <=> answer[k].ip \in selfIPs

LEMMA ReplyInit == Init => ReplyInv /\ AnswerInv
BY DEF Init, ReplyInv, AnswerInv

LEMMA AnswerStep ==
    ASSUME TypeOK, CollectInv, Answer
    PROVE  AnswerInv'
<1>1. PICK order \in Orders : answer' = [k \in DOMAIN order |-> Device(order[k])]
  BY DEF Answer
<1>2. /\ DOMAIN order \subseteq Int
      /\ \A k \in DOMAIN order : order[k] \in listed /\ order[k] \in DOMAIN hosts
  BY <1>1, OrderTyped
<1>3. DOMAIN answer' = DOMAIN order /\ UNCHANGED <<hosts, selfIPs, listed>>
  BY <1>1 DEF Answer, targetVars, probeVars
<1>4. \A k \in DOMAIN order : /\ answer'[k].ip = hosts[order[k]]
                              /\ answer'[k].self <=> hosts[order[k]] \in selfIPs
  BY <1>1 DEF Device
<1>5. {answer'[k].ip : k \in DOMAIN answer'} = {hosts[i] : i \in listed}
  <2>1. \A i : i \in listed <=> \E k \in DOMAIN order : order[k] = i
    BY DEF Orders, RangeOf
  <2>2. ASSUME NEW k \in DOMAIN answer' PROVE answer'[k].ip \in {hosts[i] : i \in listed}
    BY <1>2, <1>3, <1>4
  <2>3. ASSUME NEW i \in listed PROVE hosts[i] \in {answer'[k].ip : k \in DOMAIN answer'}
    BY <1>3, <1>4, <2>1
  <2>4. QED
    BY <2>2, <2>3
<1>6. ASSUME NEW k \in DOMAIN answer', NEW l \in DOMAIN answer', k < l
      PROVE  answer'[k].ip < answer'[l].ip
  <2>1. order[k] # order[l] /\ hosts[order[k]] <= hosts[order[l]]
    BY <1>3, <1>6 DEF Orders
  <2>2. hosts[order[k]] # hosts[order[l]]
    BY <1>2, <1>3, <2>1 DEF CollectInv
  <2>3. hosts[order[k]] \in Int /\ hosts[order[l]] \in Int
    BY <1>2, <1>3 DEF TypeOK
  <2>4. QED
    BY <1>3, <1>4, <2>1, <2>2, <2>3
<1>7. QED
  BY <1>3, <1>4, <1>5, <1>6 DEF AnswerInv

LEMMA ReplyProbe ==
    ASSUME TypeOK, SlotInv, ReplyInv, NEW i \in Probes, Probe(i)
    PROVE  ReplyInv' /\ AnswerInv'
<1>1. phase # "done" /\ phase' = phase /\ expired' = expired
  BY DEF Probe, Acquire, Check, Ping, Info, AppendDevice, Leave, At
<1>2. \A j \in Probes : j # i => /\ pc'[j] = pc[j] /\ reply'[j] = reply[j]
                                 /\ j \in listed' <=> j \in listed
  BY DEF Probe, Acquire, Check, Ping, Info, AppendDevice, Leave, Goto, TypeOK
<1>3. /\ pc'[i] \in {"info", "append"} => reply'[i] = "yes" /\ i \notin listed'
      /\ i \in listed' => reply'[i] = "yes" /\ pc'[i] \in {"leave", "done"}
      /\ reply'[i] = "yes" => pc'[i] \in {"info", "append"} \/ i \in listed'
      /\ pc'[i] \in {"leave", "done"} => reply'[i] # "none" \/ expired'
  <2>1. CASE Acquire(i)
    BY <1>1, <2>1 DEF Acquire, At, Goto, TypeOK, ReplyInv
  <2>2. CASE Check(i)
    <3>1. /\ pc[i] = "check" /\ UNCHANGED <<reply, listed>>
          /\ pc'[i] = "ping" \/ (pc'[i] = "leave" /\ expired)
      BY <2>2 DEF Check, At, Goto, TypeOK
    <3>2. i \notin listed /\ reply[i] # "yes" /\ (expired => expired')
      BY <1>1, <3>1 DEF ReplyInv
    <3>3. QED
      BY <3>1, <3>2
  <2>3. CASE Ping(i)
    BY <1>1, <2>3 DEF Ping, At, Goto, TypeOK, ReplyInv
  <2>4. CASE Info(i)
    BY <1>1, <2>4 DEF Info, At, Goto, TypeOK, ReplyInv
  <2>5. CASE AppendDevice(i)
    BY <1>1, <2>5 DEF AppendDevice, At, Goto, TypeOK, ReplyInv
  <2>6. CASE Leave(i)
    BY <1>1, <2>6 DEF Leave, At, Goto, TypeOK, ReplyInv
  <2>7. QED
    BY <2>1, <2>2, <2>3, <2>4, <2>5, <2>6 DEF Probe
<1>4. QED
  BY <1>1, <1>2, <1>3 DEF ReplyInv, AnswerInv

LEMMA ReplyNext ==
    TypeOK /\ SlotInv /\ CollectInv /\ ReplyInv /\ AnswerInv /\ [Next]_vars
        => (ReplyInv /\ AnswerInv)'
<1> SUFFICES ASSUME TypeOK, SlotInv, CollectInv, ReplyInv, AnswerInv, [Next]_vars
             PROVE  ReplyInv' /\ AnswerInv'
  OBVIOUS
<1>1. CASE UNCHANGED vars
  <2>1. UNCHANGED <<pc, reply, listed>> /\ (expired => expired')
    BY <1>1 DEF vars, probeVars
  <2>2. ReplyInv'
    BY <2>1 DEF ReplyInv
  <2>3. AnswerInv'
    BY <1>1 DEF vars, targetVars, probeVars, AnswerInv
  <2>4. QED
    BY <2>2, <2>3
<1>2. CASE Ask \/ VisitAddress \/ VisitHost \/ Expire
  <2>1. /\ UNCHANGED probeVars /\ phase' # "done"
        /\ expired => expired'
    BY <1>2 DEF Ask, VisitAddress, VisitHost, Expire, Collecting
  <2>2. QED
    BY <2>1 DEF probeVars, ReplyInv, AnswerInv
<1>3. CASE StartProbes
  <2>1. /\ phase' = "probe" /\ UNCHANGED <<reply, listed>>
        /\ \A i \in Probes : pc'[i] \in {"wait", "idle"} /\ reply[i] = "none" /\ i \notin listed
    BY <1>3 DEF StartProbes, SlotInv
  <2>2. QED
    BY <2>1 DEF ReplyInv, AnswerInv
<1>4. CASE Answer
  <2>1. ReplyInv'
    BY <1>4 DEF Answer, probeVars, ReplyInv
  <2>2. QED
    BY <1>4, <2>1, AnswerStep
<1>5. CASE Forget
  BY <1>5 DEF Forget, ReplyInv, AnswerInv
<1>6. ASSUME NEW i \in Probes, Probe(i) PROVE ReplyInv' /\ AnswerInv'
  BY <1>6, ReplyProbe
<1>7. QED
  BY <1>1, <1>2, <1>3, <1>4, <1>5, <1>6 DEF Next, Collect

ScanInv == TypeOK /\ SlotInv /\ CollectInv /\ SelfInv /\ ReplyInv /\ AnswerInv

LEMMA ScanInit == Init => ScanInv
BY TypeInit, CollectInit, ReplyInit DEF ScanInv

LEMMA ScanNext == ScanInv /\ [Next]_vars => ScanInv'
BY TypeNext, CollectNext, ReplyNext DEF ScanInv

(* The answer lists exactly the peers that showed the fingerprint, each    *)
(* once and in order, and before the deadline every host was asked         *)
(* (lan_discovery.go:132-204).                                             *)
THEOREM AnswerIsExact == Spec => []AnswerExact
<1>1. ScanInv => AnswerExact
  <2> SUFFICES ASSUME ScanInv, phase = "done" PROVE AnswerExact
    BY DEF AnswerExact
  <2>1. /\ hosts \in Seq(Int) /\ Len(hosts) \in Nat /\ Len(hosts) <= Cap
        /\ listed \subseteq DOMAIN hosts /\ DOMAIN hosts \subseteq Probes
        /\ DOMAIN hosts = 1 .. Len(hosts)
    BY LimitAssumption DEF ScanInv, TypeOK, Probes
  <2>2. \A i \in DOMAIN hosts : pc[i] = "done"
    BY <2>1 DEF ScanInv, SlotInv, AllDone
  <2>3. \A i \in DOMAIN hosts : (reply[i] = "yes" <=> i \in listed) /\ (~expired => reply[i] # "none")
    BY <2>1, <2>2 DEF ScanInv, ReplyInv
  <2>4. {hosts[i] : i \in listed} = {hosts[i] : i \in {k \in DOMAIN hosts : reply[k] = "yes"}}
    <3>1. listed = {k \in DOMAIN hosts : reply[k] = "yes"}
      BY <2>1, <2>3
    <3>2. QED
      BY <3>1
  <2>5. QED
    BY <2>3, <2>4 DEF ScanInv, AnswerInv, AnswerExact
<1>2. QED
  BY <1>1, ScanInit, ScanNext, PTL DEF Spec

(* This machine is marked under each of its addresses, and nothing else is, *)
(* unless the list was capped (lan_discovery.go:84-87, 195).               *)
THEOREM SelfIsMarked == Spec => []SelfMarked
<1>1. ScanInv => SelfMarked
  <2> SUFFICES ASSUME ScanInv, phase = "done", ~truncated PROVE SelfMarked
    BY DEF SelfMarked
  <2>1. todo = << >>
    BY DEF ScanInv, CollectInv
  <2>2. selfIPs = OwnOf(machine)
    BY <2>1, NoneBelow DEF ScanInv, SelfInv
  <2>3. \A k \in DOMAIN answer : answer[k].self <=> answer[k].ip \in OwnOf(machine)
    BY <2>2 DEF ScanInv, AnswerInv
  <2>4. QED
    BY <2>3 DEF SelfMarked
<1>2. QED
  BY <1>1, ScanInit, ScanNext, PTL DEF Spec

-----------------------------------------------------------------------------
(* The scan implements the fan-out. *)

(* The values the refinement mapping gives to the fan-out's variables.     *)
FanPhase   == CASE phase = "probe" -> "asked"
                [] phase = "done"  -> "answered"
                [] OTHER           -> "idle"
FanPending == {i \in Probes : pc[i] \notin {"idle", "done"}}

FanStep ==
    \/ FanPhase = "idle" /\ FanPhase' = "asked" /\ FanPending' \in SUBSET Probes /\ listed' = {}
    \/ \E i \in Probes : /\ FanPhase = "asked" /\ i \in FanPending \ listed
                         /\ listed' = listed \cup {i} /\ UNCHANGED <<FanPhase, FanPending>>
    \/ \E i \in Probes : /\ FanPhase = "asked" /\ i \in FanPending
                         /\ FanPending' = FanPending \ {i} /\ UNCHANGED <<FanPhase, listed>>
    \/ /\ FanPhase = "asked" /\ FanPending = {} /\ FanPhase' = "answered"
       /\ UNCHANGED <<FanPending, listed>>
    \/ FanPhase # "idle" /\ FanPhase' = "idle" /\ FanPending' = {} /\ listed' = {}
    \/ UNCHANGED <<FanPhase, FanPending, listed>>

LEMMA FanProbe ==
    ASSUME ScanInv, NEW i \in Probes, Probe(i)
    PROVE  FanStep
<1>1. phase = "probe" /\ phase' = phase /\ FanPhase = "asked" /\ FanPhase' = "asked"
  BY DEF Probe, Acquire, Check, Ping, Info, AppendDevice, Leave, At, FanPhase
<1>2. /\ pc[i] \notin {"idle", "done"} /\ pc'[i] # "idle"
      /\ \A j \in Probes : j # i => pc'[j] = pc[j]
  BY ProbeSlots DEF ScanInv, SlotInv
<1>3. CASE Leave(i)
  <2>1. pc'[i] = "done" /\ listed' = listed
    BY <1>3 DEF Leave, Goto, ScanInv, TypeOK
  <2>2. i \in FanPending /\ FanPending' = FanPending \ {i}
    BY <1>2, <2>1 DEF FanPending
  <2>3. QED
    BY <1>1, <2>1, <2>2 DEF FanStep
<1>4. CASE ~Leave(i)
  <2>1. pc'[i] # "done"
    BY <1>4 DEF Probe, Acquire, Check, Ping, Info, AppendDevice, Goto, ScanInv, TypeOK
  <2>2. i \in FanPending /\ FanPending' = FanPending
    BY <1>2, <2>1 DEF FanPending
  <2>3. CASE AppendDevice(i)
    <3>1. listed' = listed \cup {i} /\ i \notin listed
      BY <2>3 DEF AppendDevice, At, ScanInv, ReplyInv
    <3>2. QED
      BY <1>1, <2>2, <3>1 DEF FanStep
  <2>4. CASE ~AppendDevice(i)
    <3>1. listed' = listed
      BY <1>4, <2>4 DEF Probe, Acquire, Check, Ping, Info
    <3>2. QED
      BY <1>1, <2>2, <3>1 DEF FanStep
  <2>5. QED
    BY <2>3, <2>4
<1>5. QED
  BY <1>3, <1>4

LEMMA FanNext == ASSUME ScanInv, [Next]_vars PROVE FanStep
<1>1. CASE UNCHANGED vars
  BY <1>1 DEF vars, probeVars, FanStep, FanPhase, FanPending
<1>2. CASE Ask \/ VisitAddress \/ VisitHost \/ Expire
  BY <1>2 DEF Ask, VisitAddress, VisitHost, Expire, Collecting, probeVars,
              FanStep, FanPhase, FanPending
<1>3. CASE StartProbes
  <2>1. FanPhase = "idle" /\ FanPhase' = "asked" /\ listed' = {}
    BY <1>3 DEF StartProbes, FanPhase, ScanInv, SlotInv
  <2>2. FanPending' \in SUBSET Probes
    BY DEF FanPending
  <2>3. QED
    BY <2>1, <2>2 DEF FanStep
<1>4. CASE Answer
  BY <1>4 DEF Answer, AllDone, probeVars, FanStep, FanPhase, FanPending
<1>5. CASE Forget
  BY <1>5 DEF Forget, FanStep, FanPhase, FanPending
<1>6. ASSUME NEW i \in Probes, Probe(i) PROVE FanStep
  BY <1>6, FanProbe
<1>7. QED
  BY <1>1, <1>2, <1>3, <1>4, <1>5, <1>6 DEF Next, Collect

(* Every step of a scan is one of the fan-out, or none: a device is listed *)
(* once, by a goroutine that has not ended, and the answer comes after the *)
(* last of them (lan_discovery.go:182-203).                                *)
THEOREM ScanIsFanOut == Spec => Fan!Safety
<1>1. Init => Fan!Init
  BY DEF Init, Fan!Init
<1>2. FanStep => [Fan!Next]_(Fan!vars)
  BY DEF FanStep, FanPhase, FanPending, Fan!Next, Fan!vars, Fan!Ask, Fan!Deliver, Fan!End,
         Fan!Answer, Fan!Forget
<1>3. ScanInv /\ [Next]_vars => [Fan!Next]_(Fan!vars)
  BY <1>2, FanNext
<1>4. QED
  BY <1>1, <1>3, ScanInit, ScanNext, PTL DEF Spec, Fan!Safety
=============================================================================
