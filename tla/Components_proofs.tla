------------------------- MODULE Components_proofs -------------------------
(* Proofs about Components beside RouteTable, for any manifest. *)
EXTENDS Components, RouteTable_proofs

(* What the request knows of the table.  A registrar only adds to it, so   *)
(* what was answered before the request stays; and while it is calm no     *)
(* registration is under way, so that the table does not move.             *)
TableSeen ==
    phase # "idle" => /\ up
                      /\ known \subseteq routed
                      /\ calm => Quiet

(* The keys of V that no other key of V is longer than *)
Longest(table, u) ==
    {q \in Routes(table) :
         IsPrefix(q, u) /\ \A o \in Routes(table) : IsPrefix(o, u) => Len(o) <= Len(q)}

KeysLongest ==
    \A i \in Items :
        task[i] = "entry" /\ calm => key[i] \subseteq Longest(targets, VersionPath[i])

(* A row is filled by the goroutine that then signals, and only by it. *)
RowsFilled ==
    /\ phase = "idle" => \A i \in Items : task[i] = "idle" /\ rows[i] = "blank"
    /\ phase # "idle" => \A i \in Items : task[i] # "idle"
    /\ \A i \in Items : rows[i] # "blank" => task[i] \in {"signal", "done"}

RequestInv == ComponentsTypeOK /\ RowsFilled /\ TableSeen
TargetInv  == KeysLongest /\ ComponentsResolved

-----------------------------------------------------------------------------
(* Typing                                                                  *)

LEMMA ForgottenTyped == Forgotten => ComponentsTypeOK' /\ RowsFilled' /\ TableSeen'
<1> SUFFICES ASSUME Forgotten PROVE ComponentsTypeOK' /\ RowsFilled' /\ TableSeen'
  OBVIOUS
<1>1. ComponentsTypeOK'
  BY DEF Forgotten, ComponentsTypeOK, TaskLabels, Rows
<1>2. RowsFilled' /\ TableSeen'
  BY DEF Forgotten, RowsFilled, TableSeen
<1>3. QED
  BY <1>1, <1>2

LEMMA RequestInit == Init /\ NoRequest => RequestInv /\ TargetInv
<1> SUFFICES ASSUME Init, NoRequest PROVE RequestInv /\ TargetInv
  OBVIOUS
<1>1. ComponentsTypeOK
  BY DEF NoRequest, ComponentsTypeOK, TaskLabels, Rows
<1>2. RowsFilled /\ TableSeen /\ KeysLongest /\ ComponentsResolved
  BY DEF NoRequest, RowsFilled, TableSeen, KeysLongest, ComponentsResolved
<1>3. QED
  BY <1>1, <1>2 DEF RequestInv, TargetInv

(* What a step of one goroutine leaves alone *)
LEMMA TaskFrame ==
    ASSUME TypeOK, RequestInv, NEW i \in Items, Task(i)
    PROVE  /\ phase = "asked" /\ UNCHANGED <<vars, phase, known, calm>>
           /\ task[i] \notin {"idle", "done"} /\ task'[i] # "idle"
           /\ \A j \in Items : j # i => task'[j] = task[j] /\ key'[j] = key[j] /\ base'[j] = base[j]
           /\ ComponentsTypeOK' /\ RowsFilled'
<1>1. /\ phase = "asked" /\ UNCHANGED <<vars, phase, known, calm>>
      /\ task[i] \notin {"idle", "done"}
  BY DEF Task, TaskAt, Begin, Resolve, Entry, ProbeVersion, FillRow, Signal
<1>2. PICK label \in TaskLabels \ {"idle"} : task' = [task EXCEPT ![i] = label]
  BY DEF Task, TaskTo, TaskLabels, Begin, Resolve, Entry, ProbeVersion, FillRow, Signal
<1>3. /\ task'[i] # "idle" /\ task' \in [Items -> TaskLabels]
      /\ \A j \in Items : j # i => task'[j] = task[j]
  BY <1>2 DEF RequestInv, ComponentsTypeOK
<1>4. PICK chosen \in SUBSET Paths : key' = [key EXCEPT ![i] = chosen]
  <2>1. CASE Resolve(i)
    <3>1. PICK order \in SortedKeys(targets) :
              key' = [key EXCEPT ![i] = FirstMatch(order, VersionPath[i])]
      BY <2>1 DEF Resolve
    <3>2. FirstMatch(order, VersionPath[i]) \in SUBSET Paths
      BY DEF FirstMatch, SortedKeys, Routes
    <3>3. QED
      BY <3>1, <3>2
  <2>2. CASE Entry(i)
    BY <2>2 DEF Entry
  <2>3. CASE ~Resolve(i) /\ ~Entry(i)
    <3>1. key' = key /\ key[i] \in SUBSET Paths /\ key \in [Items -> SUBSET Paths]
      BY <2>3 DEF Task, Begin, ProbeVersion, FillRow, Signal, RequestInv, ComponentsTypeOK
    <3>2. key' = [key EXCEPT ![i] = key[i]]
      BY <3>1
    <3>3. QED
      BY <3>1, <3>2
  <2>4. QED
    BY <2>1, <2>2, <2>3
<1>5. PICK target \in Targets \cup {NoTarget} : base' = [base EXCEPT ![i] = target]
  <2>1. CASE Entry(i)
    <3>1. PICK p \in key[i] : base' = [base EXCEPT ![i] = targets[p]]
      BY <2>1 DEF Entry
    <3>2. targets[p] \in Targets \cup {NoTarget}
      BY DEF RequestInv, ComponentsTypeOK, TypeOK, Tables
    <3>3. QED
      BY <3>1, <3>2
  <2>2. CASE ProbeVersion(i)
    BY <2>2 DEF ProbeVersion
  <2>3. CASE ~ProbeVersion(i) /\ ~Entry(i)
    <3>1. /\ base' = base /\ base[i] \in Targets \cup {NoTarget}
          /\ base \in [Items -> Targets \cup {NoTarget}]
      BY <2>3 DEF Task, Begin, Resolve, FillRow, Signal, RequestInv, ComponentsTypeOK
    <3>2. base' = [base EXCEPT ![i] = base[i]]
      BY <3>1
    <3>3. QED
      BY <3>1, <3>2
  <2>4. QED
    BY <2>1, <2>2, <2>3
<1>6. /\ key' \in [Items -> SUBSET Paths]
      /\ \A j \in Items : j # i => key'[j] = key[j] /\ base'[j] = base[j]
      /\ base' \in [Items -> Targets \cup {NoTarget}]
  BY <1>4, <1>5 DEF RequestInv, ComponentsTypeOK
<1>7. task'[i] = "entry" => key'[i] # {}
  <2>1. CASE Resolve(i)
    BY <2>1 DEF Resolve, TaskTo, RequestInv, ComponentsTypeOK
  <2>2. CASE ~Resolve(i)
    BY <2>2 DEF Task, TaskTo, Begin, Entry, ProbeVersion, FillRow, Signal, RequestInv,
                ComponentsTypeOK
  <2>3. QED
    BY <2>1, <2>2
<1>8. /\ rows' \in [Items -> Rows]
      /\ \A j \in Items : rows'[j] # "blank" => task'[j] \in {"signal", "done"}
  <2>1. CASE FillRow(i)
    BY <2>1 DEF FillRow, TaskTo, RequestInv, ComponentsTypeOK, RowsFilled, Rows
  <2>2. CASE ~FillRow(i)
    <3>1. rows' = rows /\ (task[i] = "signal" => task'[i] = "done")
      BY <2>2 DEF Task, TaskAt, TaskTo, Begin, Resolve, Entry, ProbeVersion, Signal,
                  RequestInv, ComponentsTypeOK
    <3>2. QED
      BY <1>1, <1>3, <3>1 DEF RequestInv, ComponentsTypeOK, RowsFilled
  <2>3. QED
    BY <2>1, <2>2
<1>9. ComponentsTypeOK'
  BY <1>1, <1>3, <1>6, <1>7, <1>8 DEF RequestInv, ComponentsTypeOK
<1>10. RowsFilled'
  BY <1>1, <1>3, <1>8 DEF RequestInv, RowsFilled
<1>11. QED
  BY <1>1, <1>3, <1>6, <1>9, <1>10

(* A step of the table that does not stop the process *)
LEMMA TableFrame ==
    ASSUME RoutedInv, Next, phase # "idle", up, ~(up /\ ~up')
    PROVE  routed \subseteq routed' /\ up'
<1>1. ~Start /\ ~Crash /\ ~RuntimeThrow
  BY DEF Start, Crash, RuntimeThrow, Halt
<1>2. ASSUME NEW r \in Registrars, Post(r) \/ CreateRoute(r) PROVE routed \subseteq routed' /\ up'
  BY <1>2 DEF Post, CreateRoute, ParseTarget, WriteTarget, WriteProxy, Marshal, Truncate,
              WriteFile, SaveFails, At
<1>3. ASSUME NEW l \in Lookups, Request(l) \/ GetProxy(l) PROVE routed \subseteq routed' /\ up'
  BY <1>3 DEF Request, GetProxy, Search, Forward, At
<1>4. QED
  BY <1>1, <1>2, <1>3 DEF Next

(* While no registration is under way, and none begins, the table does not *)
(* move.                                                                   *)
LEMMA QuietFrame ==
    ASSUME RoutedInv, Next, up', Quiet, Quiet'
    PROVE  UNCHANGED <<targets, proxies>>
<1>1. ~Start /\ ~Crash /\ ~RuntimeThrow
  BY DEF Start, Crash, RuntimeThrow, Halt, Quiet
<1>2. ASSUME NEW r \in Registrars PROVE ~Post(r) /\ ~CreateRoute(r)
  <2>1. pc[r] = "idle" /\ pc'[r] = "idle" /\ r \in DOMAIN pc
    BY DEF Quiet, RoutedInv, TypeOK, Actors
  <2>2. ~Post(r)
    BY <2>1 DEF Post, Goto
  <2>3. ~CreateRoute(r)
    BY <2>1 DEF CreateRoute, ParseTarget, WriteTarget, WriteProxy, Marshal, Truncate,
                WriteFile, SaveFails, At
  <2>4. QED
    BY <2>2, <2>3
<1>3. ASSUME NEW l \in Lookups, Request(l) \/ GetProxy(l) PROVE UNCHANGED <<targets, proxies>>
  BY <1>3 DEF Request, GetProxy, Search, Forward
<1>4. QED
  BY <1>1, <1>2, <1>3 DEF Next

-----------------------------------------------------------------------------
(* The request beside the table                                            *)

(* What holds of the table alone holds of it here: a component's throw is  *)
(* one more way to stop.                                                   *)
LEMMA TableHere ==
    ASSUME RoutedInv, [ComponentsNext]_allVars
    PROVE  RoutedInv'
<1>1. CASE [Next]_vars
  BY <1>1, RoutedNext
<1>2. CASE ComponentThrow
  BY <1>2, TypeHalt, RoutedHalt DEF ComponentThrow, RoutedInv
<1>3. ASSUME NEW i \in Items, Task(i) PROVE UNCHANGED vars
  BY <1>3 DEF Task, Begin, Resolve, Entry, ProbeVersion, FillRow, Signal
<1>4. CASE Ask \/ Answer \/ Sent
  BY <1>1, <1>4 DEF Ask, Answer, Sent
<1>5. QED
  BY <1>1, <1>2, <1>3, <1>4 DEF ComponentsNext, TableStep, allVars

LEMMA TargetsAgreeHere ==
    ASSUME Serialized, RoutedInv, TargetsAgree, [ComponentsNext]_allVars
    PROVE  TargetsAgree'
<1>1. CASE [Next]_vars
  BY <1>1, TargetsAgreeNext
<1>2. CASE ComponentThrow
  BY <1>2 DEF ComponentThrow, Halt, TargetsAgree, OneAtATime, Actors
<1>3. ASSUME NEW i \in Items, Task(i) PROVE UNCHANGED vars
  BY <1>3 DEF Task, Begin, Resolve, Entry, ProbeVersion, FillRow, Signal
<1>4. CASE Ask \/ Answer \/ Sent
  BY <1>1, <1>4 DEF Ask, Answer, Sent
<1>5. QED
  BY <1>1, <1>2, <1>3, <1>4 DEF ComponentsNext, TableStep, allVars

(* Every step of the composition is a step of the table alone, or leaves   *)
(* it alone: the throw that a component's read of the map provokes is one  *)
(* of the table's crashes, as long as a save that is being written may be  *)
(* torn, or there is none to tear.                                         *)
LEMMA TableStepHere ==
    ASSUME Serialized => TargetsAgree, Serialized \/ "tear" \in Faults,
           [ComponentsNext]_allVars
    PROVE  [Next]_vars
<1>1. CASE ComponentThrow
  <2>1. up /\ Halt /\ \E r \in Registrars : pc[r] = "writeTarget"
    BY <1>1 DEF ComponentThrow, Writes
  <2>2. "tear" \notin Faults => \A r \in Registrars : pc[r] # "write"
    BY <2>1 DEF TargetsAgree, OneAtATime
  <2>3. Crash
    BY <2>1, <2>2 DEF Crash
  <2>4. QED
    BY <2>3 DEF Next
<1>2. ASSUME NEW i \in Items, Task(i) PROVE UNCHANGED vars
  BY <1>2 DEF Task, Begin, Resolve, Entry, ProbeVersion, FillRow, Signal
<1>3. CASE Ask \/ Answer \/ Sent
  BY <1>3 DEF Ask, Answer, Sent
<1>4. QED
  BY <1>1, <1>2, <1>3 DEF ComponentsNext, TableStep, allVars

(* The composition is a route table: what RouteTable promises, it keeps    *)
(* beside the requests for component status, which only read it            *)
(* (components.go:53-118).                                                 *)
THEOREM CompositionIsTable ==
    ASSUME Serialized \/ "tear" \in Faults
    PROVE  ComponentsSpec => Spec
<1>1. Init => RoutedInv /\ TargetsAgree
  BY RoutedInit DEF Init, TargetsAgree, OneAtATime, Actors
<1>2. CASE Serialized
  <2>1. RoutedInv /\ TargetsAgree /\ [ComponentsNext]_allVars => [Next]_vars
    BY <1>2, TableStepHere
  <2>2. RoutedInv /\ TargetsAgree /\ [ComponentsNext]_allVars => (RoutedInv /\ TargetsAgree)'
    BY <1>2, TableHere, TargetsAgreeHere
  <2>3. QED
    BY <1>1, <2>1, <2>2, PTL DEF ComponentsSpec, Spec
<1>3. CASE ~Serialized
  <2>1. [ComponentsNext]_allVars => [Next]_vars
    BY <1>3, TableStepHere
  <2>2. QED
    BY <2>1, PTL DEF ComponentsSpec, Spec
<1>4. QED
  BY <1>2, <1>3

(* So with orderly saves the composition implements the registry, and its  *)
(* routes are durable (management.go:82-102).                              *)
COROLLARY CompositionImplementsRegistry ==
    ASSUME OrderlySaves
    PROVE  ComponentsSpec => ImplementsRegistry /\ []RoutesDurable
BY CompositionIsTable, TableImplementsRegistry, RoutesAreDurable, PTL DEF OrderlySaves

LEMMA RequestNext ==
    ASSUME RoutedInv, RequestInv, [ComponentsNext]_allVars
    PROVE  RequestInv'
<1> USE DEF RequestInv
<1>1. CASE UNCHANGED allVars
  BY <1>1 DEF allVars, componentVars, vars, handlerVars, ComponentsTypeOK, RowsFilled, TableSeen,
              Quiet
<1>2. CASE TableStep
  <2>1. CASE up /\ ~up'
    BY <1>2, <2>1, ForgottenTyped DEF TableStep
  <2>2. CASE ~(up /\ ~up')
    <3>1. Next /\ calm' = (calm /\ Quiet') /\ UNCHANGED <<phase, task, key, base, rows, known>>
      BY <1>2, <2>2 DEF TableStep
    <3>2. ComponentsTypeOK' /\ RowsFilled'
      BY <3>1 DEF ComponentsTypeOK, RowsFilled
    <3>3. TableSeen'
      BY <2>2, <3>1, TableFrame DEF TableSeen
    <3>4. QED
      BY <3>2, <3>3
  <2>3. QED
    BY <2>1, <2>2
<1>3. CASE ComponentThrow
  BY <1>3, ForgottenTyped DEF ComponentThrow
<1>4. CASE Ask
  <2>1. ComponentsTypeOK'
    <3>1. task' \in [Items -> TaskLabels] /\ \A i \in Items : task'[i] = "begin"
      BY <1>4 DEF Ask, TaskLabels
    <3>2. known' \in SUBSET Paths /\ calm' \in BOOLEAN
      BY <1>4 DEF Ask, RoutedInv, TypeOK, Quiet
    <3>3. QED
      BY <1>4, <3>1, <3>2 DEF Ask, ComponentsTypeOK
  <2>2. RowsFilled' /\ TableSeen'
    BY <1>4 DEF Ask, RowsFilled, TableSeen, Quiet, vars, handlerVars
  <2>3. QED
    BY <2>1, <2>2
<1>5. CASE Answer
  BY <1>5 DEF Answer, ComponentsTypeOK, RowsFilled, TableSeen, Quiet, vars, handlerVars
<1>6. CASE Sent
  BY <1>6, ForgottenTyped DEF Sent
<1>7. ASSUME NEW i \in Items, Task(i) PROVE RequestInv'
  <2>1. TypeOK
    BY DEF RoutedInv
  <2>2. UNCHANGED <<vars, phase, known, calm>> /\ ComponentsTypeOK' /\ RowsFilled'
    BY <1>7, <2>1, TaskFrame
  <2>3. TableSeen'
    BY <2>2 DEF TableSeen, Quiet, vars, handlerVars
  <2>4. QED
    BY <2>2, <2>3
<1>8. QED
  BY <1>1, <1>2, <1>3, <1>4, <1>5, <1>6, <1>7 DEF ComponentsNext

(* The request and its goroutines keep their types, through registrations, *)
(* failures and stops of the process (components.go:74-118).               *)
THEOREM ComponentsTyped == ComponentsSpec => []ComponentsTypeOK
<1>1. RequestInv => ComponentsTypeOK
  BY DEF RequestInv
<1>2. QED
  BY <1>1, RoutedInit, RequestInit, TableHere, RequestNext, PTL DEF ComponentsSpec

-----------------------------------------------------------------------------
(* What a component is asked at                                            *)

LEMMA LongestForwarded ==
    ASSUME NEW u
    PROVE  Forwarded(u) = {proxies[p] : p \in Longest(proxies, u)}
BY DEF Forwarded, Longest

(* The first match is one that no other is longer than.                    *)
LEMMA FirstMatchInLongest ==
    ASSUME IsFiniteSet(Paths), NEW table, NEW order \in SortedKeys(table), NEW u
    PROVE  FirstMatch(order, u) \subseteq Longest(table, u)
<1> SUFFICES ASSUME NEW q \in FirstMatch(order, u) PROVE q \in Longest(table, u)
  OBVIOUS
<1>1. q \in Routes(table) /\ IsPrefix(q, u)
  BY DEF FirstMatch, SortedKeys
<1>2. ASSUME NEW o \in Routes(table), IsPrefix(o, u) PROVE Len(o) <= Len(q)
  <2>1. PICK f \in FirstMatch(order, u) : IsPrefix(f, u) /\ Len(f) >= Len(o)
    BY <1>2, FirstMatchLongest
  <2>2. f = q
    BY <2>1, FirstMatchUnique
  <2>3. Len(f) \in Nat /\ Len(o) \in Nat
    <3>1. f \in Paths /\ o \in Paths
      BY DEF FirstMatch, SortedKeys, Routes
    <3>2. QED
      BY <3>1, PathAssumption
  <2>4. QED
    BY <2>1, <2>2, <2>3
<1>3. QED
  BY <1>1, <1>2 DEF Longest

LEMMA ForgottenResolved == Forgotten => TargetInv'
BY DEF Forgotten, TargetInv, KeysLongest, ComponentsResolved

(* While the request is calm both maps route alike.                        *)
LEMMA CalmAgrees ==
    ASSUME RoutedInv, TargetsAgree, TableSeen, phase # "idle", calm
    PROVE  targets = proxies
<1>1. Quiet /\ \A p \in Paths : targets[p] = proxies[p]
  BY DEF TableSeen, Quiet, TargetsAgree
<1>2. QED
  BY <1>1 DEF RoutedInv, TypeOK, Tables

LEMMA ResolveResolved ==
    ASSUME IsFiniteSet(Paths), RoutedInv, TargetsAgree, RequestInv, NEW i \in Items, Resolve(i)
    PROVE  /\ key'[i] \subseteq Longest(targets, VersionPath[i])
           /\ key'[i] = {} => /\ \A p \in known : ~IsPrefix(p, VersionPath[i])
                              /\ calm => Forwarded(VersionPath[i]) = {}
<1> DEFINE u == VersionPath[i]
<1>1. PICK order \in SortedKeys(targets) : key' = [key EXCEPT ![i] = FirstMatch(order, u)]
  BY DEF Resolve
<1>2. key'[i] = FirstMatch(order, u) /\ phase = "asked"
  BY <1>1 DEF Resolve, TaskAt, RequestInv, ComponentsTypeOK
<1>3. key'[i] \subseteq Longest(targets, u)
  BY <1>2, FirstMatchInLongest
<1>4. ASSUME key'[i] = {}, NEW p \in Routes(targets) PROVE ~IsPrefix(p, u)
  BY <1>2, <1>4, FirstMatchLongest
<1>5. \A p \in known : p \in Routes(targets)
  BY <1>2 DEF RequestInv, TableSeen, RoutedInv, RoutedStayRoutable, TypeOK, Routes
<1>6. ASSUME key'[i] = {}, calm PROVE Forwarded(u) = {}
  <2>1. targets = proxies
    BY <1>2, <1>6, CalmAgrees DEF RequestInv
  <2>2. Longest(proxies, u) = {}
    BY <1>4, <1>6, <2>1 DEF Longest
  <2>3. QED
    BY <2>2, LongestForwarded
<1>7. QED
  BY <1>3, <1>4, <1>5, <1>6

LEMMA EntryResolved ==
    ASSUME RoutedInv, TargetsAgree, RequestInv, KeysLongest, NEW i \in Items, Entry(i), calm
    PROVE  base'[i] \in Forwarded(VersionPath[i])
<1>1. PICK p \in key[i] : base' = [base EXCEPT ![i] = targets[p]]
  BY DEF Entry
<1>2. base'[i] = targets[p]
  BY <1>1 DEF RequestInv, ComponentsTypeOK
<1>3. targets = proxies
  BY CalmAgrees DEF Entry, TaskAt, RequestInv
<1>4. p \in Longest(proxies, VersionPath[i])
  BY <1>1, <1>3 DEF KeysLongest, Entry, TaskAt
<1>5. QED
  BY <1>2, <1>3, <1>4, LongestForwarded

LEMMA TargetTask ==
    ASSUME IsFiniteSet(Paths), RoutedInv, TargetsAgree, RequestInv, TargetInv,
           NEW i \in Items, Task(i)
    PROVE  TargetInv'
<1>1. /\ UNCHANGED <<targets, proxies, known, calm>>
      /\ \A j \in Items : j # i => task'[j] = task[j] /\ key'[j] = key[j] /\ base'[j] = base[j]
  BY TaskFrame DEF RoutedInv, vars
<1>2. \A u : Forwarded(u)' = Forwarded(u) /\ Longest(targets, u)' = Longest(targets, u)
  BY <1>1 DEF Forwarded, Longest
<1>3. task'[i] = "entry" => Resolve(i)
  BY DEF Task, TaskTo, Begin, Entry, ProbeVersion, FillRow, Signal, RequestInv,
         ComponentsTypeOK
<1>4. task'[i] = "unregistered" => Resolve(i) /\ key'[i] = {}
  BY DEF Task, TaskTo, Begin, Resolve, Entry, ProbeVersion, FillRow, Signal, RequestInv,
         ComponentsTypeOK
<1>5. task'[i] = "probe" /\ Kind[i] = "route" => Entry(i)
  BY DEF Task, TaskTo, Begin, Resolve, Entry, ProbeVersion, FillRow, Signal, RequestInv,
         ComponentsTypeOK
<1>6. KeysLongest'
  BY <1>1, <1>2, <1>3, ResolveResolved DEF TargetInv, KeysLongest
<1>7. ComponentsResolved'
  BY <1>1, <1>2, <1>4, <1>5, ResolveResolved, EntryResolved DEF TargetInv, ComponentsResolved
<1>8. QED
  BY <1>6, <1>7 DEF TargetInv

LEMMA TargetNext ==
    ASSUME IsFiniteSet(Paths), RoutedInv, TargetsAgree, RequestInv, TargetInv,
           [ComponentsNext]_allVars
    PROVE  TargetInv'
<1>1. CASE UNCHANGED <<targets, proxies, task, key, base, known, calm>>
  BY <1>1 DEF TargetInv, KeysLongest, ComponentsResolved, Longest, Forwarded
<1>2. CASE TableStep
  <2>1. CASE (up /\ ~up') \/ phase = "idle"
    <3>1. \A i \in Items : task'[i] = "idle"
      BY <1>2, <2>1 DEF TableStep, Forgotten, RequestInv, RowsFilled
    <3>2. QED
      BY <3>1 DEF TargetInv, KeysLongest, ComponentsResolved
  <2>2. CASE ~(up /\ ~up') /\ phase # "idle"
    <3>1. Next /\ calm' = (calm /\ Quiet') /\ UNCHANGED <<phase, task, key, base, rows, known>>
      BY <1>2, <2>2 DEF TableStep
    <3>2. calm' => calm /\ UNCHANGED <<targets, proxies>>
      BY <2>2, <3>1, QuietFrame DEF RequestInv, TableSeen, Quiet
    <3>3. \A u : calm' => Forwarded(u)' = Forwarded(u) /\ Longest(targets, u)' = Longest(targets, u)
      BY <3>2 DEF Forwarded, Longest
    <3>4. QED
      BY <3>1, <3>2, <3>3 DEF TargetInv, KeysLongest, ComponentsResolved
  <2>3. QED
    BY <2>1, <2>2
<1>3. CASE ComponentThrow \/ Sent
  BY <1>3, ForgottenResolved DEF ComponentThrow, Sent
<1>4. CASE Ask
  BY <1>4 DEF Ask, TargetInv, KeysLongest, ComponentsResolved
<1>5. CASE Answer
  BY <1>1, <1>5 DEF Answer, vars
<1>6. ASSUME NEW i \in Items, Task(i) PROVE TargetInv'
  BY <1>6, TargetTask
<1>7. QED
  BY <1>1, <1>2, <1>3, <1>4, <1>5, <1>6 DEF ComponentsNext, allVars, componentVars, vars

(* A component below a registered path is not called unregistered, and     *)
(* while no registration comes each is asked where the gateway forwards    *)
(* its path (components.go:53-70), for any manifest and any finite set of  *)
(* paths, as long as registrations do not overlap.                         *)
THEOREM ComponentsAreResolved ==
    ASSUME Serialized, IsFiniteSet(Paths)
    PROVE  ComponentsSpec => []ComponentsResolved
<1>1. Init => TargetsAgree
  BY DEF Init, TargetsAgree, OneAtATime, Actors
<1>2. TargetInv => ComponentsResolved
  BY DEF TargetInv
<1>3. QED
  BY <1>1, <1>2, RoutedInit, RequestInit, TableHere, TargetsAgreeHere, RequestNext, TargetNext,
     PTL DEF ComponentsSpec

-----------------------------------------------------------------------------
(* The fan-out                                                             *)

FanPending == IF phase = "asked" THEN {i \in Items : task[i] # "done"} ELSE {}
FanResults == {i \in Items : rows[i] # "blank"}

FanStep ==
    \/ phase = "idle" /\ phase' = "asked" /\ FanPending' \in SUBSET Items /\ FanResults' = {}
    \/ \E i \in Items : /\ phase = "asked" /\ i \in FanPending \ FanResults
                        /\ FanResults' = FanResults \cup {i} /\ UNCHANGED <<phase, FanPending>>
    \/ \E i \in Items : /\ phase = "asked" /\ i \in FanPending
                        /\ FanPending' = FanPending \ {i} /\ UNCHANGED <<phase, FanResults>>
    \/ /\ phase = "asked" /\ FanPending = {} /\ phase' = "answered"
       /\ UNCHANGED <<FanPending, FanResults>>
    \/ phase # "idle" /\ phase' = "idle" /\ FanPending' = {} /\ FanResults' = {}
    \/ UNCHANGED <<phase, FanPending, FanResults>>

LEMMA FanForgotten == ASSUME RequestInv, Forgotten PROVE FanStep
<1>1. phase' = "idle" /\ FanPending' = {} /\ FanResults' = {}
  BY DEF Forgotten, FanPending, FanResults
<1>2. phase = "idle" => FanPending = {} /\ FanResults = {}
  BY DEF RequestInv, RowsFilled, FanPending, FanResults
<1>3. QED
  BY <1>1, <1>2 DEF FanStep

LEMMA FanTask ==
    ASSUME TypeOK, RequestInv, NEW i \in Items, Task(i)
    PROVE  FanStep
<1>1. /\ phase = "asked" /\ phase' = "asked" /\ i \in FanPending
      /\ \A j \in Items : j # i => task'[j] = task[j]
  BY TaskFrame DEF FanPending
<1>2. CASE Signal(i)
  <2>1. task'[i] = "done" /\ rows' = rows
    BY <1>2 DEF Signal, TaskTo, RequestInv, ComponentsTypeOK
  <2>2. FanPending' = FanPending \ {i} /\ FanResults' = FanResults
    BY <1>1, <2>1 DEF FanPending, FanResults
  <2>3. QED
    BY <1>1, <2>2 DEF FanStep
<1>3. CASE FillRow(i)
  <2>1. /\ task[i] \in {"online", "offline", "unregistered"} /\ task'[i] = "signal"
        /\ rows'[i] # "blank" /\ \A j \in Items : j # i => rows'[j] = rows[j]
    BY <1>3 DEF FillRow, TaskAt, TaskTo, RequestInv, ComponentsTypeOK
  <2>2. i \notin FanResults
    BY <2>1 DEF RequestInv, RowsFilled, FanResults
  <2>3. FanPending' = FanPending /\ FanResults' = FanResults \cup {i}
    BY <1>1, <2>1 DEF FanPending, FanResults
  <2>4. QED
    BY <1>1, <2>2, <2>3 DEF FanStep
<1>4. CASE ~Signal(i) /\ ~FillRow(i)
  <2>1. task'[i] # "done" /\ rows' = rows
    BY <1>4 DEF Task, TaskTo, Begin, Resolve, Entry, ProbeVersion, RequestInv,
                ComponentsTypeOK
  <2>2. FanPending' = FanPending /\ FanResults' = FanResults
    BY <1>1, <2>1 DEF FanPending, FanResults
  <2>3. QED
    BY <1>1, <2>2 DEF FanStep
<1>5. QED
  BY <1>2, <1>3, <1>4

LEMMA FanNext ==
    ASSUME RoutedInv, RequestInv, [ComponentsNext]_allVars
    PROVE  FanStep
<1>1. CASE UNCHANGED <<phase, task, rows>>
  BY <1>1 DEF FanStep, FanPending, FanResults
<1>2. CASE TableStep
  BY <1>1, <1>2, FanForgotten DEF TableStep
<1>3. CASE ComponentThrow \/ Sent
  BY <1>3, FanForgotten DEF ComponentThrow, Sent
<1>4. CASE Ask
  <2>1. phase = "idle" /\ phase' = "asked" /\ rows' = rows
    BY <1>4 DEF Ask
  <2>2. FanPending' \in SUBSET Items /\ FanResults' = {}
    BY <2>1 DEF FanPending, FanResults, RequestInv, RowsFilled
  <2>3. QED
    BY <2>1, <2>2 DEF FanStep
<1>5. CASE Answer
  <2>1. phase = "asked" /\ phase' = "answered" /\ UNCHANGED <<task, rows>>
    BY <1>5 DEF Answer
  <2>2. FanPending = {} /\ FanPending' = {} /\ FanResults' = FanResults
    BY <1>5, <2>1 DEF Answer, AllTasksDone, FanPending, FanResults
  <2>3. QED
    BY <2>1, <2>2 DEF FanStep
<1>6. ASSUME NEW i \in Items, Task(i) PROVE FanStep
  BY <1>6, FanTask DEF RoutedInv
<1>7. QED
  BY <1>1, <1>2, <1>3, <1>4, <1>5, <1>6 DEF ComponentsNext, allVars, componentVars

(* Every step of a request is one of the fan-out, or none: a goroutine     *)
(* fills its row once, before it signals, and the answer comes after the   *)
(* last of them, whatever the table does meanwhile (components.go:74-89).  *)
THEOREM ComponentsAreFanOut == ComponentsSpec => Fan!Safety
<1>1. NoRequest => Fan!Init
  BY DEF NoRequest, Fan!Init
<1>2. FanStep => [Fan!Next]_(Fan!vars)
  BY DEF FanStep, FanPending, FanResults, Fan!Next, Fan!vars, Fan!Ask, Fan!Deliver, Fan!End,
         Fan!Answer, Fan!Forget
<1>3. RoutedInv /\ RequestInv /\ [ComponentsNext]_allVars => [Fan!Next]_(Fan!vars)
  BY <1>2, FanNext
<1>4. QED
  BY <1>1, <1>3, RoutedInit, RequestInit, TableHere, RequestNext, PTL
     DEF ComponentsSpec, Fan!Safety
=============================================================================
