----------------------------- MODULE CertStore -----------------------------
(***************************************************************************)
(* The four files below /etc/nimoos/certs: the root CA the gateway makes   *)
(* for itself, and the pair its HTTPS server loads.  A reload in auto mode *)
(* generates (main.go, GenerateSelfSignedCert), an upload overwrites,      *)
(* ServeTLS and GET /v1/gateway/ssl/ca read.  Each file is truncated and   *)
(* then written, and the process may stop or the disk fail in between.     *)
(*                                                                         *)
(* GatewayReload sees these files as its variable "pair".                  *)
(***************************************************************************)
EXTENDS Integers, Sequences, FiniteSets, Functions

CONSTANTS
    Writers,    \* goroutines that may reload in auto mode or handle an upload
    CAs,        \* key pairs drawn for the root CA
    Keys,       \* key pairs drawn for a server certificate, or uploaded
    Absent,     \* no such file
    Empty,      \* a file that does not decode
    None,       \* no root CA; no certificate
    Uploads,    \* kinds of upload: "kept" and "other" load, "broken" does not
    Faults,     \* "disk": a create or a write of a file may fail
    MaxCrashes  \* bound on the number of crashes

ASSUME KeyAssumption  == CAs \subseteq Nat /\ Keys \subseteq Nat
ASSUME MarkAssumption == /\ {Absent, Empty, None} \cap (CAs \cup Keys) = {}
                         /\ Cardinality({Absent, Empty, None}) = 3
ASSUME InputAssumption == /\ Uploads \subseteq {"kept", "other", "broken"}
                          /\ Faults \subseteq {"disk"}
                          /\ MaxCrashes \in Nat

(* A server certificate.  Auto mode keeps one that is in date and whose    *)
(* CommonName is the domain; a generated one is named "NimoOS Local".      *)
Certs == [key : Keys, issuer : CAs \cup {None}, kept : BOOLEAN]

Marks == {Absent, Empty}

ASSUME CertAssumption == (Marks \cup {None}) \cap Certs = {}

Disks == [caCrt : CAs \cup Marks, caKey : CAs \cup Marks,
          crt : Certs \cup Marks, key : Keys \cup Marks]

(* What a writer has still to put on disk, in order. *)
Writes == [file : {"caCrt"}, content : CAs] \cup [file : {"caKey"}, content : CAs]
          \cup [file : {"crt"}, content : Certs]
          \cup [file : {"key"}, content : Keys \cup {Empty}]

Labels   == {"idle", "check", "ca", "files", "verify", "removeCrt", "removeKey"}
Outcomes == {"none", "generated", "unchanged", "uploaded", "failed"}

VARIABLES
    disk,        \* the four files
    pc,          \* where each writer is
    job,         \* what it does: "none", "auto" or "upload"
    todo,        \* its remaining writes
    opened,      \* whether the file of the first has been truncated
    outcome,     \* how the last reload or upload to end has ended
    read,        \* the certificate ServeTLS has read and not yet its key
    served,      \* the certificate the HTTPS server presents
    downloaded,  \* root CAs clients have downloaded, to trust them
    crashes

writerVars == <<pc, job, todo, opened, outcome>>
vars == <<disk, writerVars, read, served, downloaded, crashes>>

TypeOK ==
    /\ disk \in Disks
    /\ pc \in [Writers -> Labels]
    /\ job \in [Writers -> {"none", "auto", "upload"}]
    /\ todo \in [Writers -> Seq(Writes)]
    /\ opened \in [Writers -> BOOLEAN]
    /\ outcome \in Outcomes
    /\ read \in Certs \cup {None}
    /\ served \in Certs \cup {None}
    /\ downloaded \subseteq CAs
    /\ crashes \in 0 .. MaxCrashes

At(w, label)   == pc[w] = label
Goto(w, label) == pc' = [pc EXCEPT ![w] = label]
Quiet          == \A w \in Writers : pc[w] = "idle"

Ends(w, result) ==
    /\ Goto(w, "idle")
    /\ job' = [job EXCEPT ![w] = "none"]
    /\ todo' = [todo EXCEPT ![w] = << >>]
    /\ opened' = [opened EXCEPT ![w] = FALSE]
    /\ outcome' = result

Loads(crt, key) == crt \in Certs /\ key = crt.key

(* Faulty variant: what is in ca.crt is not looked at. *)
CALoadsUnchecked == disk.caCrt # Absent

CALoads == disk.caCrt \in CAs /\ disk.caKey = disk.caCrt

(* Faulty variants: the root CA is made anew each time; or whenever the    *)
(* one on disk cannot be used.                                             *)
CAIgnored  == TRUE
CAUnusable == ~CALoads

(* os.Stat finds no ca.crt. *)
CAMissing == disk.caCrt = Absent

(* A key pair drawn at random is in no file and in no one's hands. *)
Pending(file) == {x.content : x \in {y \in UNION {Range(todo[w]) : w \in Writers} :
                                        y.file = file}}
UsedCAs  == {disk.caCrt, disk.caKey} \cup Pending("caKey") \cup downloaded
            \cup {c.issuer : c \in {disk.crt, read, served} \cap Certs}
UsedKeys == {disk.key} \cup Pending("key")
            \cup {c.key : c \in {disk.crt, read, served} \cap Certs}

NextKey(k)     == k \in Keys /\ k \notin UsedKeys /\ \A x \in Keys \ UsedKeys : k <= x
NextCA(c)      == c \in CAs /\ c \notin UsedCAs /\ \A x \in CAs \ UsedCAs : c <= x

-----------------------------------------------------------------------------
Init ==
    /\ disk = [caCrt |-> Absent, caKey |-> Absent, crt |-> Absent, key |-> Absent]
    /\ pc = [w \in Writers |-> "idle"]
    /\ job = [w \in Writers |-> "none"]
    /\ todo = [w \in Writers |-> << >>]
    /\ opened = [w \in Writers |-> FALSE]
    /\ outcome = "none"
    /\ read = None
    /\ served = None
    /\ downloaded = {}
    /\ crashes = 0

(* The process stops and is started again. *)
Crash ==
    /\ crashes < MaxCrashes
    /\ crashes' = crashes + 1
    /\ pc' = [w \in Writers |-> "idle"]
    /\ job' = [w \in Writers |-> "none"]
    /\ todo' = [w \in Writers |-> << >>]
    /\ opened' = [w \in Writers |-> FALSE]
    /\ outcome' = "none"
    /\ read' = None
    /\ served' = None
    /\ UNCHANGED <<disk, downloaded>>

Begins(w, kind, label) ==
    /\ At(w, "idle")
    /\ job' = [job EXCEPT ![w] = kind]
    /\ outcome' = "none"
    /\ Goto(w, label)

-----------------------------------------------------------------------------
(* The reload in auto mode *)

Reload(w) ==
    /\ Begins(w, "auto", "check")
    /\ UNCHANGED <<disk, todo, opened, read, served, downloaded, crashes>>

Keep(w) ==
    /\ At(w, "check")
    /\ ~CAMissing
    /\ disk.crt \in Certs /\ disk.crt.kept
    /\ Ends(w, "unchanged")
    /\ UNCHANGED <<disk, read, served, downloaded, crashes>>

Regenerate(w) ==
    /\ At(w, "check")
    /\ CAMissing \/ ~(disk.crt \in Certs /\ disk.crt.kept)
    /\ Goto(w, "ca")
    /\ UNCHANGED <<disk, job, todo, opened, outcome, read, served, downloaded, crashes>>

(* Faulty variant: the key of the root CA is not saved. *)
CAKeyNotSaved(c) == << [file |-> "caCrt", content |-> c] >>

CAFiles(c) == << [file |-> "caCrt", content |-> c], [file |-> "caKey", content |-> c] >>

ServerFiles(k, c) ==
    << [file |-> "crt", content |-> [key |-> k, issuer |-> c, kept |-> FALSE]],
       [file |-> "key", content |-> k] >>

Writing(w, writes) ==
    /\ todo' = [todo EXCEPT ![w] = writes]
    /\ Goto(w, "files")

MakeCA(w) ==
    /\ At(w, "ca")
    /\ CAMissing
    /\ \E c \in CAs, k \in Keys :
         NextCA(c) /\ NextKey(k) /\ Writing(w, CAFiles(c) \o ServerFiles(k, c))
    /\ UNCHANGED <<disk, job, opened, outcome, read, served, downloaded, crashes>>

LoadCA(w) ==
    /\ At(w, "ca")
    /\ ~CAMissing
    /\ CALoads
    /\ \E k \in Keys : NextKey(k) /\ Writing(w, ServerFiles(k, disk.caCrt))
    /\ UNCHANGED <<disk, job, opened, outcome, read, served, downloaded, crashes>>

(* ca.crt is there, but it or its key does not decode, or they are not of  *)
(* one pair: an error, now and at every later reload.                      *)
LoadCAFails(w) ==
    /\ At(w, "ca")
    /\ ~CAMissing
    /\ ~CALoads
    /\ Ends(w, "failed")
    /\ UNCHANGED <<disk, read, served, downloaded, crashes>>

-----------------------------------------------------------------------------
(* POST /v1/gateway/ssl/upload *)

Uploaded(k, kind) ==
    << [file |-> "crt", content |-> [key |-> k, issuer |-> None, kept |-> kind = "kept"]],
       [file |-> "key", content |-> IF kind = "broken" THEN Empty ELSE k] >>

Upload(w) ==
    /\ Begins(w, "upload", "files")
    /\ \E k \in Keys, kind \in Uploads :
         NextKey(k) /\ todo' = [todo EXCEPT ![w] = Uploaded(k, kind)]
    /\ UNCHANGED <<disk, opened, read, served, downloaded, crashes>>

(* With HTTPS on, SetSSLConfig follows; while the type is still "auto" its *)
(* first setter reloads in auto mode.                                      *)
Accept(w) ==
    /\ At(w, "verify")
    /\ Loads(disk.crt, disk.key)
    /\ \/ Ends(w, "uploaded")
       \/ /\ job' = [job EXCEPT ![w] = "auto"]
          /\ Goto(w, "check")
          /\ UNCHANGED <<todo, opened, outcome>>
    /\ UNCHANGED <<disk, read, served, downloaded, crashes>>

Reject(w) ==
    /\ At(w, "verify")
    /\ ~Loads(disk.crt, disk.key)
    /\ Goto(w, "removeCrt")
    /\ UNCHANGED <<disk, job, todo, opened, outcome, read, served, downloaded, crashes>>

RemoveCrt(w) ==
    /\ At(w, "removeCrt")
    /\ disk' = [disk EXCEPT !.crt = Absent]
    /\ Goto(w, "removeKey")
    /\ UNCHANGED <<job, todo, opened, outcome, read, served, downloaded, crashes>>

RemoveKey(w) ==
    /\ At(w, "removeKey")
    /\ disk' = [disk EXCEPT !.key = Absent]
    /\ Ends(w, "failed")
    /\ UNCHANGED <<read, served, downloaded, crashes>>

-----------------------------------------------------------------------------
(* Writing files: each is created or truncated, then written.              *)

Truncate(w) ==
    /\ At(w, "files")
    /\ ~opened[w]
    /\ disk' = [disk EXCEPT ![Head(todo[w]).file] = Empty]
    /\ opened' = [opened EXCEPT ![w] = TRUE]
    /\ UNCHANGED <<pc, job, todo, outcome, read, served, downloaded, crashes>>

(* Over what another writer has written since, a longer tail remains. *)
Written(old, new) == IF old = Empty THEN {new} ELSE {new, Empty}

WriteFile(w) ==
    /\ At(w, "files")
    /\ opened[w]
    /\ LET next == Head(todo[w])
           rest == Tail(todo[w])
       IN  /\ \E content \in Written(disk[next.file], next.content) :
                disk' = [disk EXCEPT ![next.file] = content]
           /\ \/ /\ rest = << >> /\ job[w] = "auto"
                 /\ Ends(w, "generated")
              \/ /\ rest # << >> \/ job[w] = "upload"
                 /\ todo' = [todo EXCEPT ![w] = rest]
                 /\ opened' = [opened EXCEPT ![w] = FALSE]
                 /\ Goto(w, IF rest = << >> THEN "verify" ELSE "files")
                 /\ UNCHANGED <<job, outcome>>
    /\ UNCHANGED <<read, served, downloaded, crashes>>

WriteFails(w) ==
    /\ At(w, "files")
    /\ "disk" \in Faults
    /\ Ends(w, "failed")
    /\ UNCHANGED <<disk, read, served, downloaded, crashes>>

-----------------------------------------------------------------------------
(* Readers *)

(* ServeTLS of a new HTTPS server: LoadX509KeyPair reads the certificate ... *)
ReadCrt ==
    /\ read = None
    /\ disk.crt \in Certs
    /\ read' = disk.crt
    /\ UNCHANGED <<disk, writerVars, served, downloaded, crashes>>

(* ... then the key.  Unless they match there is no server. *)
ReadKey ==
    /\ read # None
    /\ served' = IF Loads(read, disk.key) THEN read ELSE served
    /\ read' = None
    /\ UNCHANGED <<disk, writerVars, downloaded, crashes>>

(* GET /v1/gateway/ssl/ca *)
DownloadCA ==
    /\ disk.caCrt \in CAs
    /\ downloaded' = downloaded \cup {disk.caCrt}
    /\ UNCHANGED <<disk, writerVars, read, served, crashes>>

-----------------------------------------------------------------------------
Generate(w) == Keep(w) \/ Regenerate(w) \/ MakeCA(w) \/ LoadCA(w) \/ LoadCAFails(w)
Receive(w)  == Accept(w) \/ Reject(w) \/ RemoveCrt(w) \/ RemoveKey(w)
Put(w)      == Truncate(w) \/ WriteFile(w) \/ WriteFails(w)

Next ==
    \/ \E w \in Writers : Reload(w) \/ Upload(w) \/ Generate(w) \/ Receive(w) \/ Put(w)
    \/ ReadCrt \/ ReadKey \/ DownloadCA
    \/ Crash

Spec == Init /\ [][Next]_vars

-----------------------------------------------------------------------------
(* Properties, for reloads and uploads that do not overlap *)

(* A root CA that is complete is never rewritten, halved or removed, by    *)
(* later reloads, uploads, failures or crashes (management.go:235-328).    *)
CAKept == [][CALoads => CALoads' /\ disk'.caCrt = disk.caCrt]_vars

(* A client that has once downloaded the root CA can verify every          *)
(* generated certificate the gateway presents from then on, whenever it    *)
(* downloaded it: also from a half-made CA (management_route.go:272-281,   *)
(* management.go:389).                                                     *)
DownloadedTrusted ==
    served # None /\ served.issuer # None => \A c \in downloaded : c = served.issuer

(* A reload that has generated leaves a pair that loads, issued by the     *)
(* root CA on disk, whose key is there to issue the next                   *)
(* (management.go:226-417).                                                *)
GeneratedSound ==
    outcome = "generated" =>
        Loads(disk.crt, disk.key) /\ CALoads /\ disk.crt.issuer = disk.caCrt

(* OVERVIEW.md:85: in auto mode the certificate is regenerated if missing. *)
(* With the writers at rest the root CA is absent or can be used: a reload *)
(* can generate.  Refuted by a run of its own (management.go:275-319).     *)
CanGenerate == Quiet => CAMissing \/ CALoads
=============================================================================
