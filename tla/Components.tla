----------------------------- MODULE Components -----------------------------
(***************************************************************************)
(* GET /v1/gateway/components (service/components.go) beside the route     *)
(* table it reads: a goroutine for every component of the manifest, which  *)
(* finds the component's address (resolveTarget ranges over pathTargetMap  *)
(* with no lock), asks it for its version, and fills its row of the        *)
(* answer, which waits for all of them.  One such request at a time; they  *)
(* share nothing but the table, which they do not change.                  *)
(***************************************************************************)
EXTENDS RouteTable

CONSTANTS
    Manifest,    \* how many components there are
    Kind,        \* how each is found: by its "route", or "other"
    VersionPath  \* the path each answers with its version

ASSUME ManifestAssumption ==
    /\ Manifest \in Nat
    /\ Kind \in [1 .. Manifest -> {"route", "other"}]
    /\ VersionPath \in [1 .. Manifest -> Seq(Nat)]

Items == 1 .. Manifest

VARIABLES
    phase,   \* of the request: "idle", "asked", "answered"
    task,    \* where the goroutine of each component is
    key,     \* the route resolveTarget has chosen, as a set of at most one path
    base,    \* the target it has returned, until it is probed
    rows,    \* the rows of the answer
    known,   \* history: the paths answered 201 before the request
    calm     \* history: no registration since the request

componentVars == <<phase, task, key, base, rows, known, calm>>
allVars == <<vars, componentVars>>

TaskLabels == {"idle", "begin", "resolve", "entry", "unregistered", "probe", "online",
               "offline", "signal", "done"}
Rows       == {"blank", "online", "offline"}

ComponentsTypeOK ==
    /\ phase \in {"idle", "asked", "answered"}
    /\ task \in [Items -> TaskLabels]
    /\ key \in [Items -> SUBSET Paths]
    /\ base \in [Items -> Targets \cup {NoTarget}]
    /\ \A i \in Items : task[i] = "entry" => key[i] # {}
    /\ rows \in [Items -> Rows]
    /\ known \in SUBSET Paths
    /\ calm \in BOOLEAN

NoRequest ==
    /\ phase = "idle"
    /\ task = [i \in Items |-> "idle"]
    /\ key = [i \in Items |-> {}]
    /\ base = [i \in Items |-> NoTarget]
    /\ rows = [i \in Items |-> "blank"]
    /\ known = {}
    /\ calm = TRUE

Forgotten ==
    /\ phase' = "idle"
    /\ task' = [i \in Items |-> "idle"]
    /\ key' = [i \in Items |-> {}]
    /\ base' = [i \in Items |-> NoTarget]
    /\ rows' = [i \in Items |-> "blank"]
    /\ known' = {}
    /\ calm' = TRUE

-----------------------------------------------------------------------------
(* A step of the route table; the request goes with the process. *)
TableStep ==
    /\ Next
    /\ IF up /\ ~up' THEN Forgotten
       ELSE /\ calm' = (calm /\ Quiet')
            /\ UNCHANGED <<phase, task, key, base, rows, known>>

(* The range over the map, or the read of its entry, meets a write. *)
ComponentThrow ==
    /\ up
    /\ "race" \in Faults
    /\ \E i \in Items : task[i] \in {"resolve", "entry"}
    /\ \E r \in Registrars : "targets" \in Writes(r)
    /\ Halt
    /\ Forgotten

Ask ==
    /\ up
    /\ phase = "idle"
    /\ phase' = "asked"
    /\ task' = [i \in Items |-> "begin"]
    /\ known' = routed
    /\ calm' = Quiet
    /\ UNCHANGED <<vars, key, base, rows>>

TaskAt(i, label) == phase = "asked" /\ task[i] = label
TaskTo(i, label) == task' = [task EXCEPT ![i] = label]

(* probeComponent: the gateway itself is online without a probe, and a     *)
(* component with a discovery file offline if there is none ("other"); the *)
(* rest are looked up.                                                     *)
Begin(i) ==
    /\ TaskAt(i, "begin")
    /\ \/ Kind[i] = "other" /\ \E label \in {"online", "offline", "probe"} : TaskTo(i, label)
       \/ Kind[i] = "route" /\ TaskTo(i, "resolve")
    /\ UNCHANGED <<vars, phase, key, base, rows, known, calm>>

(* Faulty variant: that there is a key is taken for granted. *)
ResolveUnchecked(i) ==
    /\ TaskAt(i, "resolve")
    /\ \E order \in SortedKeys(targets) :
         key' = [key EXCEPT ![i] = FirstMatch(order, VersionPath[i])]
    /\ TaskTo(i, "entry")
    /\ UNCHANGED <<vars, phase, base, rows, known, calm>>

(* resolveTarget: the keys, longest first, of which it takes the first     *)
(* that is a prefix ...                                                    *)
Resolve(i) ==
    /\ TaskAt(i, "resolve")
    /\ \E order \in SortedKeys(targets) :
         key' = [key EXCEPT ![i] = FirstMatch(order, VersionPath[i])]
    /\ TaskTo(i, IF key'[i] = {} THEN "unregistered" ELSE "entry")
    /\ UNCHANGED <<vars, phase, base, rows, known, calm>>

(* ... and what the map has for it. *)
Entry(i) ==
    /\ TaskAt(i, "entry")
    /\ \E p \in key[i] : base' = [base EXCEPT ![i] = targets[p]]
    /\ key' = [key EXCEPT ![i] = {}]
    /\ TaskTo(i, "probe")
    /\ UNCHANGED <<vars, phase, rows, known, calm>>

(* probeVersion, within its timeout *)
ProbeVersion(i) ==
    /\ TaskAt(i, "probe")
    /\ base' = [base EXCEPT ![i] = NoTarget]
    /\ \E label \in {"online", "offline"} : TaskTo(i, label)
    /\ UNCHANGED <<vars, phase, key, rows, known, calm>>

(* The row is filled ... *)
FillRow(i) ==
    /\ \/ TaskAt(i, "online") /\ rows' = [rows EXCEPT ![i] = "online"]
       \/ /\ TaskAt(i, "offline") \/ TaskAt(i, "unregistered")
          /\ rows' = [rows EXCEPT ![i] = "offline"]
    /\ TaskTo(i, "signal")
    /\ UNCHANGED <<vars, phase, key, base, known, calm>>

(* ... before the deferred send. *)
Signal(i) ==
    /\ TaskAt(i, "signal")
    /\ TaskTo(i, "done")
    /\ UNCHANGED <<vars, phase, key, base, rows, known, calm>>

(* Faulty variant: one receive too few. *)
AllButOneDone == Cardinality({i \in Items : task[i] # "done"}) <= 1

(* A receive for every component *)
AllTasksDone == \A i \in Items : task[i] = "done"

(* The rows of the UI and of the external components are appended, which   *)
(* depend on nothing here.                                                 *)
Answer ==
    /\ phase = "asked"
    /\ AllTasksDone
    /\ phase' = "answered"
    /\ UNCHANGED <<vars, task, key, base, rows, known, calm>>

Sent ==
    /\ phase = "answered"
    /\ Forgotten
    /\ UNCHANGED vars

-----------------------------------------------------------------------------
Task(i) == \/ Begin(i) \/ Resolve(i) \/ Entry(i) \/ ProbeVersion(i)
           \/ FillRow(i) \/ Signal(i)

ComponentsNext == \/ TableStep \/ ComponentThrow \/ Ask \/ Answer \/ Sent
                  \/ \E i \in Items : Task(i)

ComponentsFairness == WF_allVars(Answer \/ \E i \in Items : Task(i))

ComponentsSpec == Init /\ NoRequest /\ [][ComponentsNext]_allVars /\ ComponentsFairness

-----------------------------------------------------------------------------
(* Properties *)

(* The proxies GetProxy may choose for a path, as the targets they have *)
Forwarded(u) ==
    {proxies[p] : p \in {q \in Routes(proxies) :
         IsPrefix(q, u) /\ \A o \in Routes(proxies) : IsPrefix(o, u) => Len(o) <= Len(q)}}

(* A component below a path answered 201 before the request is not called  *)
(* unregistered; and if no registration has come since, it is asked at the *)
(* target to which the gateway itself forwards the path, and unregistered  *)
(* only if there is none, as long as registrations of one path do not      *)
(* overlap (components.go:53-70, management.go:117-128).                   *)
ComponentsResolved ==
    \A i \in {k \in Items : Kind[k] = "route"} :
        /\ task[i] = "unregistered" =>
             /\ \A p \in known : ~IsPrefix(p, VersionPath[i])
             /\ calm => Forwarded(VersionPath[i]) = {}
        /\ task[i] = "probe" /\ calm => base[i] \in Forwarded(VersionPath[i])

(* It is a fan-out: no row is missing from an answer, and an answer comes. *)
Fan == INSTANCE FanOut WITH
    pending <- IF phase = "asked" THEN {i \in Items : task[i] # "done"} ELSE {},
    results <- {i \in Items : rows[i] # "blank"}

ImplementsFanOut == Fan!Spec
=============================================================================
