-------------------------- MODULE CertStore_proofs --------------------------
(***************************************************************************)
(* Proofs about CertStore.  Types hold however many goroutines write, and  *)
(* so does what the end of the module shows: a root CA that is complete on *)
(* disk while nobody makes another stays.  The rest is for writers that do *)
(* not overlap (OneWriter), as the properties say: then what a writer has  *)
(* still to put on disk (todo) tells what is there already (FilesInv), and *)
(* no certificate or download knows any other root CA than the one on disk *)
(* (TrustInv).                                                             *)
(***************************************************************************)
EXTENDS CertStore, SequenceTheorems, TLAPS

OneWriter == \A v, w \in Writers : v = w

CACrt(c)  == [file |-> "caCrt", content |-> c]
CAKey(c)  == [file |-> "caKey", content |-> c]
Crt(k, c) == [file |-> "crt", content |-> [key |-> k, issuer |-> c, kept |-> FALSE]]
Key(k)    == [file |-> "key", content |-> k]

(* What is left of a generation, and of an upload. *)
Generation(k, c) ==
    { << CACrt(c), CAKey(c), Crt(k, c), Key(k) >>,
      << CAKey(c), Crt(k, c), Key(k) >>,
      << Crt(k, c), Key(k) >>,
      << Key(k) >> }

CrtWrites == [file : {"crt"}, content : Certs]
KeyWrites == [file : {"key"}, content : Keys \cup {Empty}]

Transfer(k, kind) == { Uploaded(k, kind), << Uploaded(k, kind)[2] >> }

PlanInv ==
    \A w \in Writers :
        /\ pc[w] \in {"check", "ca"} => job[w] = "auto"
        /\ pc[w] = "files" =>
             \/ /\ job[w] = "auto"
                /\ \E k \in Keys, c \in CAs : todo[w] \in Generation(k, c)
             \/ /\ job[w] = "upload"
                /\ \E k \in Keys, kind \in Uploads : todo[w] \in Transfer(k, kind)

-----------------------------------------------------------------------------
(* What is left of a plan after its next write.                            *)

LEMMA TwoAndTwo ==
    ASSUME NEW a, NEW b, NEW c, NEW d
    PROVE  << a, b >> \o << c, d >> = << a, b, c, d >>
<1> DEFINE S == {a, b, c, d}
           s == << a, b >> \o << c, d >>
           t == << a, b, c, d >>
<1>1. << a, b >> \in Seq(S) /\ << c, d >> \in Seq(S) /\ t \in Seq(S)
  OBVIOUS
<1>2. s \in Seq(S) /\ Len(s) = 4 /\ Len(t) = 4
  BY <1>1, ConcatProperties
<1>3. s[1] = a /\ s[2] = b /\ s[3] = c /\ s[4] = d
  BY <1>1, ConcatProperties
<1>4. t[1] = a /\ t[2] = b /\ t[3] = c /\ t[4] = d
  OBVIOUS
<1> HIDE DEF s, t
<1>5. \A i \in 1 .. Len(s) : s[i] = t[i]
  BY <1>2, <1>3, <1>4
<1>6. QED
  BY <1>1, <1>2, <1>5, SeqEqual DEF s, t

LEMMA GenerationNext ==
    ASSUME NEW k \in Keys, NEW c \in CAs, NEW s \in Generation(k, c)
    PROVE  /\ s \in Seq(Writes)
           /\ Head(s) \in Writes
           /\ Tail(s) # << >> => Tail(s) \in Generation(k, c)
           /\ \/ Head(s) = CACrt(c) /\ Tail(s) # << >> /\ Head(Tail(s)) = CAKey(c)
              \/ Head(s) = CAKey(c) /\ Tail(s) # << >> /\ Head(Tail(s)) = Crt(k, c)
              \/ Head(s) = Crt(k, c) /\ Tail(s) # << >> /\ Head(Tail(s)) = Key(k)
              \/ Head(s) = Key(k) /\ Tail(s) = << >>
<1> DEFINE x1 == CACrt(c)
           x2 == CAKey(c)
           x3 == Crt(k, c)
           x4 == Key(k)
<1>1. x1 \in Writes /\ x2 \in Writes /\ x3 \in Writes /\ x4 \in Writes
  BY DEF CACrt, CAKey, Crt, Key, Writes, Certs
<1>2. Generation(k, c) = { <<x1, x2, x3, x4>>, <<x2, x3, x4>>, <<x3, x4>>, <<x4>> }
  BY DEF Generation
<1> HIDE DEF x1, x2, x3, x4
<1>3. CASE s = <<x1, x2, x3, x4>>
  <2>1. Tail(s) = <<x2, x3, x4>> /\ Head(s) = x1 /\ Head(Tail(s)) = x2
    BY <1>3
  <2>2. QED
    BY <1>1, <1>2, <1>3, <2>1 DEF x1, x2
<1>4. CASE s = <<x2, x3, x4>>
  <2>1. Tail(s) = <<x3, x4>> /\ Head(s) = x2 /\ Head(Tail(s)) = x3
    BY <1>4
  <2>2. QED
    BY <1>1, <1>2, <1>4, <2>1 DEF x2, x3
<1>5. CASE s = <<x3, x4>>
  <2>1. Tail(s) = <<x4>> /\ Head(s) = x3 /\ Head(Tail(s)) = x4
    BY <1>5
  <2>2. QED
    BY <1>1, <1>2, <1>5, <2>1 DEF x3, x4
<1>6. CASE s = <<x4>>
  <2>1. Tail(s) = << >> /\ Head(s) = x4
    BY <1>6
  <2>2. QED
    BY <1>1, <1>2, <1>6, <2>1 DEF x4
<1>7. QED
  BY <1>2, <1>3, <1>4, <1>5, <1>6

LEMMA TransferNext ==
    ASSUME NEW k \in Keys, NEW kind \in Uploads, NEW s \in Transfer(k, kind)
    PROVE  /\ s \in Seq(Writes)
           /\ Head(s) \in Writes
           /\ Tail(s) # << >> => Tail(s) \in Transfer(k, kind)
           /\ \/ /\ Head(s) \in CrtWrites
                 /\ Head(s).content.issuer = None
                 /\ Tail(s) # << >>
                 /\ Head(Tail(s)).file = "key"
              \/ /\ Head(s) \in KeyWrites
                 /\ Tail(s) = << >>
<1> DEFINE y1 == [file |-> "crt", content |-> [key |-> k, issuer |-> None,
                                               kept |-> kind = "kept"]]
           y2 == [file |-> "key", content |-> IF kind = "broken" THEN Empty ELSE k]
<1>1. (kind = "kept") \in BOOLEAN
  OBVIOUS
<1>2. y1 \in CrtWrites /\ y1.content.issuer = None
  BY <1>1 DEF Certs, CrtWrites
<1>3. y2 \in KeyWrites /\ y2.file = "key"
  BY DEF KeyWrites
<1>4. y2 \in Writes
  BY <1>3 DEF Writes, KeyWrites
<1>5. Uploaded(k, kind) = <<y1, y2>>
  BY DEF Uploaded
<1>6. y1 \in Writes
  BY <1>2 DEF Writes, CrtWrites
<1> HIDE DEF y1, y2
<1>7. Transfer(k, kind) = {<<y1, y2>>, <<y2>>}
  BY <1>5 DEF Transfer
<1>8. CASE s = <<y1, y2>>
  <2>1. Tail(s) = <<y2>> /\ Head(s) = y1 /\ Head(Tail(s)) = y2
    BY <1>8
  <2>2. QED
    BY <1>2, <1>3, <1>4, <1>6, <1>7, <1>8, <2>1
<1>9. CASE s = <<y2>>
  <2>1. Tail(s) = << >> /\ Head(s) = y2
    BY <1>9
  <2>2. QED
    BY <1>3, <1>4, <1>7, <1>9, <2>1
<1>10. QED
  BY <1>7, <1>8, <1>9
-----------------------------------------------------------------------------
(* Types, for any number of writers                                        *)

TypeInv == TypeOK /\ PlanInv

LEMMA TypeInit == Init => TypeInv
BY InputAssumption DEF Init, TypeInv, TypeOK, PlanInv, Disks, Marks, Labels, Outcomes

(* A writer begins or ends, or moves without touching what it is to write. *)
LEMMA TypeControl ==
    ASSUME TypeInv, NEW w \in Writers,
           \/ Reload(w) \/ Keep(w) \/ Regenerate(w) \/ LoadCAFails(w)
           \/ Accept(w) \/ Reject(w) \/ RemoveCrt(w) \/ RemoveKey(w) \/ WriteFails(w)
    PROVE  TypeInv'
<1>1. CASE Reload(w)
  BY <1>1 DEF Reload, Begins, At, Goto, TypeInv, TypeOK, PlanInv, Labels, Outcomes
<1>2. ASSUME NEW result \in Outcomes, Ends(w, result),
             UNCHANGED <<read, served, downloaded, crashes>>, disk' \in Disks
      PROVE  TypeInv'
  <2>1. << >> \in Seq(Writes)
    OBVIOUS
  <2>2. QED
    BY <1>2, <2>1 DEF Ends, Goto, TypeInv, TypeOK, PlanInv, Labels
<1>3. CASE Keep(w) \/ LoadCAFails(w) \/ WriteFails(w)
  BY <1>2, <1>3 DEF Keep, LoadCAFails, WriteFails, TypeInv, TypeOK, Outcomes
<1>4. CASE Regenerate(w)
  BY <1>4 DEF Regenerate, At, Goto, TypeInv, TypeOK, PlanInv, Labels
<1>5. CASE Accept(w)
  <2>1. CASE Ends(w, "uploaded")
    BY <1>2, <1>5, <2>1 DEF Accept, TypeInv, TypeOK, Outcomes
  <2>2. CASE ~Ends(w, "uploaded")
    BY <1>5, <2>2 DEF Accept, At, Goto, TypeInv, TypeOK, PlanInv, Labels
  <2>3. QED
    BY <2>1, <2>2
<1>6. CASE Reject(w)
  BY <1>6 DEF Reject, At, Goto, TypeInv, TypeOK, PlanInv, Labels
<1>7. CASE RemoveCrt(w)
  BY <1>7 DEF RemoveCrt, At, Goto, TypeInv, TypeOK, PlanInv, Labels, Disks, Marks
<1>8. CASE RemoveKey(w)
  <2>1. disk' \in Disks
    BY <1>8 DEF RemoveKey, TypeInv, TypeOK, Disks, Marks
  <2>2. QED
    BY <1>2, <1>8, <2>1 DEF RemoveKey, Outcomes
<1>9. QED
  BY <1>1, <1>3, <1>4, <1>5, <1>6, <1>7, <1>8

(* A writer settles what it will write. *)
LEMMA TypePlan ==
    ASSUME TypeInv, NEW w \in Writers, MakeCA(w) \/ LoadCA(w) \/ Upload(w)
    PROVE  TypeInv'
<1>1. CASE MakeCA(w)
  <2>1. PICK c \in CAs, k \in Keys : Writing(w, CAFiles(c) \o ServerFiles(k, c))
    BY <1>1 DEF MakeCA
  <2>2. CAFiles(c) \o ServerFiles(k, c) = << CACrt(c), CAKey(c), Crt(k, c), Key(k) >>
    <3>1. /\ CAFiles(c) = << CACrt(c), CAKey(c) >>
          /\ ServerFiles(k, c) = << Crt(k, c), Key(k) >>
      BY DEF CAFiles, ServerFiles, CACrt, CAKey, Crt, Key
    <3>2. QED
      BY <3>1, TwoAndTwo
  <2>3. CAFiles(c) \o ServerFiles(k, c) \in Generation(k, c)
    BY <2>2 DEF Generation
  <2>4. CAFiles(c) \o ServerFiles(k, c) \in Seq(Writes)
    BY <2>3, GenerationNext
  <2>5. todo' = [todo EXCEPT ![w] = CAFiles(c) \o ServerFiles(k, c)]
        /\ pc' = [pc EXCEPT ![w] = "files"] /\ job[w] = "auto"
    BY <1>1, <2>1 DEF MakeCA, Writing, Goto, At, TypeInv, PlanInv
  <2>6. PlanInv'
    BY <1>1, <2>3, <2>5 DEF MakeCA, TypeInv, TypeOK, PlanInv
  <2>7. TypeOK'
    BY <1>1, <2>4, <2>5 DEF MakeCA, TypeInv, TypeOK, Labels
  <2>8. QED
    BY <2>6, <2>7 DEF TypeInv
<1>2. CASE LoadCA(w)
  <2>1. disk.caCrt \in CAs
    BY <1>2 DEF LoadCA, CALoads
  <2>2. PICK k \in Keys : Writing(w, ServerFiles(k, disk.caCrt))
    BY <1>2 DEF LoadCA
  <2>3. ServerFiles(k, disk.caCrt) \in Generation(k, disk.caCrt)
    BY DEF Generation, ServerFiles, Crt, Key
  <2>4. ServerFiles(k, disk.caCrt) \in Seq(Writes)
    BY <2>1, <2>3, GenerationNext
  <2>5. todo' = [todo EXCEPT ![w] = ServerFiles(k, disk.caCrt)]
        /\ pc' = [pc EXCEPT ![w] = "files"] /\ job[w] = "auto"
    BY <1>2, <2>2 DEF LoadCA, Writing, Goto, At, TypeInv, PlanInv
  <2>6. PlanInv'
    BY <1>2, <2>1, <2>3, <2>5 DEF LoadCA, TypeInv, TypeOK, PlanInv
  <2>7. TypeOK'
    BY <1>2, <2>4, <2>5 DEF LoadCA, TypeInv, TypeOK, Labels
  <2>8. QED
    BY <2>6, <2>7 DEF TypeInv
<1>3. CASE Upload(w)
  <2>1. PICK k \in Keys, kind \in Uploads : todo' = [todo EXCEPT ![w] = Uploaded(k, kind)]
    BY <1>3 DEF Upload
  <2>2. Uploaded(k, kind) \in Transfer(k, kind)
    BY DEF Transfer
  <2>3. Uploaded(k, kind) \in Seq(Writes)
    BY <2>2, TransferNext
  <2>4. PlanInv'
    BY <1>3, <2>1, <2>2 DEF Upload, Begins, At, Goto, TypeInv, TypeOK, PlanInv
  <2>5. TypeOK'
    BY <1>3, <2>1, <2>3 DEF Upload, Begins, At, Goto, TypeInv, TypeOK, Labels, Outcomes
  <2>6. QED
    BY <2>4, <2>5 DEF TypeInv
<1>4. QED
  BY <1>1, <1>2, <1>3

(* What a writer in "files" writes next, and what remains then. *)
LEMMA NextWrite ==
    ASSUME TypeInv, NEW w \in Writers, pc[w] = "files"
    PROVE  /\ Head(todo[w]) \in Writes
           /\ Tail(todo[w]) \in Seq(Writes)
           /\ Tail(todo[w]) # << >> =>
                \/ /\ job[w] = "auto"
                   /\ \E k \in Keys, c \in CAs : Tail(todo[w]) \in Generation(k, c)
                \/ /\ job[w] = "upload"
                   /\ \E k \in Keys, kind \in Uploads : Tail(todo[w]) \in Transfer(k, kind)
<1>1. CASE job[w] = "auto" /\ \E k \in Keys, c \in CAs : todo[w] \in Generation(k, c)
  <2>1. PICK k \in Keys, c \in CAs : todo[w] \in Generation(k, c)
    BY <1>1
  <2>2. Head(todo[w]) \in {CACrt(c), CAKey(c), Crt(k, c), Key(k)}
        /\ (Tail(todo[w]) # << >> => Tail(todo[w]) \in Generation(k, c))
    BY <2>1, GenerationNext
  <2>3. Head(todo[w]) \in Writes
    BY <2>1, GenerationNext
  <2>4. << >> \in Seq(Writes)
    OBVIOUS
  <2>5. Tail(todo[w]) \in Seq(Writes)
    BY <2>2, <2>4, GenerationNext
  <2>6. QED
    BY <1>1, <2>2, <2>3, <2>5
<1>2. CASE job[w] = "upload"
           /\ \E k \in Keys, kind \in Uploads : todo[w] \in Transfer(k, kind)
  <2>1. PICK k \in Keys, kind \in Uploads : todo[w] \in Transfer(k, kind)
    BY <1>2
  <2>4. Head(todo[w]) \in Writes
    BY <2>1, TransferNext
  <2>5. Tail(todo[w]) # << >> => Tail(todo[w]) \in Transfer(k, kind)
    BY <2>1, TransferNext
  <2>6. << >> \in Seq(Writes)
    OBVIOUS
  <2>7. Tail(todo[w]) \in Seq(Writes)
    BY <2>5, <2>6, TransferNext
  <2>8. QED
    BY <1>2, <2>4, <2>5, <2>7
<1>3. QED
  BY <1>1, <1>2 DEF TypeInv, PlanInv

(* A write of the right content, or of none, keeps the type of the files.  *)
LEMMA DiskTyped ==
    ASSUME TypeInv, NEW next \in Writes, NEW content \in {next.content, Empty}
    PROVE  [disk EXCEPT ![next.file] = content] \in Disks
<1>1. disk \in Disks
  BY DEF TypeInv, TypeOK
<1>2. CASE next \in [file : {"caCrt"}, content : CAs]
  BY <1>1, <1>2 DEF Disks, Marks
<1>3. CASE next \in [file : {"caKey"}, content : CAs]
  BY <1>1, <1>3 DEF Disks, Marks
<1>4. CASE next \in CrtWrites
  BY <1>1, <1>4 DEF Disks, Marks, CrtWrites
<1>5. CASE next \in KeyWrites
  BY <1>1, <1>5 DEF Disks, Marks, KeyWrites
<1>6. QED
  BY <1>2, <1>3, <1>4, <1>5 DEF Writes, CrtWrites, KeyWrites

LEMMA TypePut ==
    ASSUME TypeInv, NEW w \in Writers, Truncate(w) \/ WriteFile(w)
    PROVE  TypeInv'
<1> DEFINE next == Head(todo[w])
           rest == Tail(todo[w])
<1>0. pc[w] = "files"
  BY DEF Truncate, WriteFile, At
<1>1. CASE Truncate(w)
  <2>1. disk' \in Disks
    BY <1>0, <1>1, NextWrite, DiskTyped DEF Truncate
  <2>2. QED
    BY <1>1, <2>1 DEF Truncate, TypeInv, TypeOK, PlanInv
<1>2. CASE WriteFile(w)
  <2>1. PICK content \in Written(disk[next.file], next.content) :
             disk' = [disk EXCEPT ![next.file] = content]
    BY <1>2 DEF WriteFile
  <2>2. content \in {next.content, Empty}
    BY DEF Written
  <2>3. next \in Writes
    BY <1>0, NextWrite
  <2>4. disk' \in Disks
    BY <2>1, <2>2, <2>3, DiskTyped
  <2>5. CASE Ends(w, "generated")
    <3>1. << >> \in Seq(Writes)
      OBVIOUS
    <3>2. QED
      BY <1>2, <2>4, <2>5, <3>1
         DEF WriteFile, Ends, Goto, TypeInv, TypeOK, PlanInv, Labels, Outcomes
  <2>6. CASE ~Ends(w, "generated")
    <3>1. /\ todo' = [todo EXCEPT ![w] = rest]
          /\ opened' = [opened EXCEPT ![w] = FALSE]
          /\ pc' = [pc EXCEPT ![w] = IF rest = << >> THEN "verify" ELSE "files"]
          /\ UNCHANGED <<job, outcome, read, served, downloaded, crashes>>
      BY <1>2, <2>6 DEF WriteFile, Goto
    <3> HIDE DEF rest
    <3>2. rest \in Seq(Writes)
      BY <1>0, NextWrite DEF rest
    <3>3. TypeOK'
      BY <2>4, <3>1, <3>2 DEF TypeInv, TypeOK, Labels
    <3>4. rest # << >> =>
             \/ /\ job[w] = "auto"
                /\ \E k \in Keys, c \in CAs : rest \in Generation(k, c)
             \/ /\ job[w] = "upload"
                /\ \E k \in Keys, kind \in Uploads : rest \in Transfer(k, kind)
      BY <1>0, NextWrite DEF rest
    <3>5. PlanInv'
      BY <3>1, <3>4 DEF TypeInv, TypeOK, PlanInv
    <3>6. QED
      BY <3>3, <3>5 DEF TypeInv
  <2>7. QED
    BY <2>5, <2>6
<1>3. QED
  BY <1>1, <1>2

LEMMA TypeNext == TypeInv /\ [Next]_vars => TypeInv'
<1> SUFFICES ASSUME TypeInv, [Next]_vars PROVE TypeInv'
  OBVIOUS
<1>1. CASE UNCHANGED vars
  BY <1>1 DEF vars, writerVars, TypeInv, TypeOK, PlanInv
<1>2. ASSUME NEW w \in Writers,
             Reload(w) \/ Upload(w) \/ Generate(w) \/ Receive(w) \/ Put(w)
      PROVE  TypeInv'
  BY <1>2, TypeControl, TypePlan, TypePut DEF Generate, Receive, Put
<1>3. CASE ReadCrt \/ ReadKey \/ DownloadCA
  BY <1>3 DEF ReadCrt, ReadKey, DownloadCA, writerVars, TypeInv, TypeOK, PlanInv
<1>4. CASE Crash
  <2>1. << >> \in Seq(Writes)
    OBVIOUS
  <2>2. QED
    BY <1>4, <2>1, InputAssumption
       DEF Crash, TypeInv, TypeOK, PlanInv, Labels, Outcomes
<1>5. QED
  BY <1>1, <1>2, <1>3, <1>4 DEF Next

(* The variables stay in their types, and a writer never runs out of what  *)
(* it is to write, with any number of overlapping writers.                 *)
THEOREM StoreTyped == Spec => []TypeOK
<1>1. TypeInv => TypeOK
  BY DEF TypeInv
<1>2. QED
  BY <1>1, TypeInit, TypeNext, PTL DEF Spec
-----------------------------------------------------------------------------
(* What is on disk, for writers that do not overlap                        *)

(* What a writer is about to write tells what is there.  It rewrites a     *)
(* root CA only while that cannot be loaded, and generates only from one   *)
(* that can.                                                               *)
FilesInv ==
    \A w \in Writers :
        LET next == Head(todo[w])
        IN  /\ pc[w] # "files" => ~opened[w]
            /\ pc[w] = "files" =>
                 /\ opened[w] => disk[next.file] = Empty
                 /\ next.file = "caCrt" =>
                      disk.caCrt \in Marks /\ disk.caKey # next.content
                 /\ next.file = "caKey" =>
                      disk.caCrt = next.content /\ disk.caKey # next.content
                 /\ next.file = "crt" /\ job[w] = "auto" =>
                      CALoads /\ next.content.issuer = disk.caCrt
                 /\ next.file = "key" /\ job[w] = "auto" =>
                      /\ CALoads
                      /\ disk.crt \in Certs
                      /\ disk.crt.key = next.content
                      /\ disk.crt.issuer = disk.caCrt

(* Nothing knows another root CA than ca.crt: neither the certificates nor *)
(* the clients.                                                            *)
TrustInv ==
    /\ downloaded \subseteq {disk.caCrt}
    /\ \A cert \in {disk.crt, read, served} :
         cert \in Certs => cert.issuer \in {None, disk.caCrt}

OutcomeInv == outcome = "generated" => Quiet /\ GeneratedSound

CertInv == TypeInv /\ FilesInv /\ TrustInv /\ OutcomeInv

LEMMA CertInit == Init => CertInv
<1> SUFFICES ASSUME Init PROVE CertInv
  OBVIOUS
<1>1. FilesInv /\ OutcomeInv
  BY DEF Init, FilesInv, OutcomeInv
<1>2. Absent \notin Certs /\ None \notin Certs
  BY CertAssumption DEF Marks
<1>3. TrustInv
  BY <1>2 DEF Init, TrustInv
<1>4. QED
  BY <1>1, <1>3, TypeInit DEF CertInv

(* Steps that leave the files alone and settle no plan.                    *)
LEMMA CertControl ==
    ASSUME OneWriter, CertInv, TypeInv', NEW w \in Writers,
           \/ Reload(w) \/ Keep(w) \/ Regenerate(w) \/ LoadCAFails(w)
           \/ Accept(w) \/ Reject(w) \/ WriteFails(w)
    PROVE  CertInv'
<1>1. UNCHANGED <<disk, read, served, downloaded>>
  BY DEF Reload, Keep, Regenerate, LoadCAFails, Accept, Reject, WriteFails
<1>2. TrustInv'
  BY <1>1 DEF CertInv, TrustInv
<1>3. \A v \in Writers : v = w
  BY DEF OneWriter
<1>4. FilesInv'
  <2>1. pc'[w] # "files" /\ ~opened'[w]
    BY DEF Reload, Keep, Regenerate, LoadCAFails, Accept, Reject, WriteFails, Begins,
           Ends, Goto, At, CertInv, FilesInv, TypeInv, TypeOK
  <2>2. QED
    BY <1>3, <2>1 DEF FilesInv
<1>5. outcome' # "generated"
  BY DEF Reload, Keep, Regenerate, LoadCAFails, Accept, Reject, WriteFails, Begins,
         Ends, Goto, At, CertInv, OutcomeInv, Quiet
<1>6. QED
  BY <1>2, <1>4, <1>5 DEF CertInv, OutcomeInv

LEMMA CertPlan ==
    ASSUME OneWriter, CertInv, TypeInv', NEW w \in Writers,
           MakeCA(w) \/ LoadCA(w) \/ Upload(w)
    PROVE  CertInv'
<1>1. UNCHANGED <<disk, read, served, downloaded>>
  BY DEF MakeCA, LoadCA, Upload
<1>2. TrustInv'
  BY <1>1 DEF CertInv, TrustInv
<1>3. \A v \in Writers : v = w
  BY DEF OneWriter
<1>4. outcome' # "generated"
  BY DEF MakeCA, LoadCA, Upload, Begins, Writing, Goto, At, CertInv, OutcomeInv, Quiet
<1>5. ~opened'[w]
  BY DEF MakeCA, LoadCA, Upload, Begins, Writing, Goto, At, CertInv, FilesInv
<1>6. pc[w] = "ca" => job[w] = "auto"
  BY DEF CertInv, TypeInv, PlanInv
<1>7. FilesInv'
  <2>1. CASE MakeCA(w)
    <3>1. PICK c \in CAs, k \in Keys :
               NextCA(c) /\ Writing(w, CAFiles(c) \o ServerFiles(k, c))
      BY <2>1 DEF MakeCA
    <3>2. CAFiles(c) \o ServerFiles(k, c) = << CACrt(c), CAKey(c), Crt(k, c), Key(k) >>
      BY TwoAndTwo DEF CAFiles, ServerFiles, CACrt, CAKey, Crt, Key
    <3>3. todo'[w] = << CACrt(c), CAKey(c), Crt(k, c), Key(k) >>
      BY <3>1, <3>2 DEF Writing, CertInv, TypeInv, TypeOK
    <3>4. Head(todo'[w]) = CACrt(c)
      BY <3>3
    <3>5. disk.caKey # c /\ disk.caCrt \in Marks
      BY <2>1, <3>1 DEF MakeCA, CAMissing, Marks, NextCA, UsedCAs
    <3>6. QED
      BY <1>1, <1>3, <1>5, <3>4, <3>5 DEF FilesInv, CACrt
  <2>2. CASE LoadCA(w)
    <3>1. PICK k \in Keys : Writing(w, ServerFiles(k, disk.caCrt))
      BY <2>2 DEF LoadCA
    <3>2. Head(todo'[w]) = Crt(k, disk.caCrt)
      BY <3>1 DEF Writing, ServerFiles, Crt, CertInv, TypeInv, TypeOK
    <3>3. CALoads'
      BY <1>1, <2>2 DEF LoadCA, CALoads
    <3>4. QED
      BY <1>1, <1>3, <1>5, <3>2, <3>3 DEF FilesInv, Crt
  <2>3. CASE Upload(w)
    <3>1. PICK k \in Keys, kind \in Uploads : todo' = [todo EXCEPT ![w] = Uploaded(k, kind)]
      BY <2>3 DEF Upload
    <3>2. Head(todo'[w]).file = "crt"
      BY <3>1 DEF Uploaded, CertInv, TypeInv, TypeOK
    <3>3. job'[w] = "upload"
      BY <2>3 DEF Upload, Begins, CertInv, TypeInv, TypeOK
    <3>4. QED
      BY <1>3, <1>5, <3>2, <3>3 DEF FilesInv
  <2>4. QED
    BY <2>1, <2>2, <2>3
<1>8. QED
  BY <1>2, <1>4, <1>7 DEF CertInv, OutcomeInv

LEMMA CertRemove ==
    ASSUME OneWriter, CertInv, TypeInv', NEW w \in Writers, RemoveCrt(w) \/ RemoveKey(w)
    PROVE  CertInv' /\ UNCHANGED <<disk.caCrt, disk.caKey>>
<1>1. \A v \in Writers : v = w
  BY DEF OneWriter
<1>2. UNCHANGED <<disk.caCrt, disk.caKey, read, served, downloaded>>
  BY DEF RemoveCrt, RemoveKey, CertInv, TypeInv, TypeOK, Disks
<1>3. disk'.crt \in {disk.crt, Absent} /\ Absent \notin Certs
  BY CertAssumption DEF RemoveCrt, RemoveKey, CertInv, TypeInv, TypeOK, Disks, Marks
<1>4. TrustInv'
  BY <1>2, <1>3 DEF CertInv, TrustInv
<1>5. outcome' # "generated" /\ pc'[w] # "files" /\ ~opened'[w]
  BY DEF RemoveCrt, RemoveKey, Ends, Goto, At, CertInv, FilesInv, OutcomeInv, Quiet,
         TypeInv, TypeOK
<1>6. QED
  BY <1>1, <1>2, <1>4, <1>5 DEF CertInv, FilesInv, OutcomeInv
-----------------------------------------------------------------------------
(* The writes                                                              *)

CANoted == CALoads => CALoads' /\ disk'.caCrt = disk.caCrt

(* What the next write of a writer is. *)
LEMMA WriteCases ==
    ASSUME TypeInv, NEW w \in Writers, pc[w] = "files"
    PROVE  \/ /\ job[w] = "auto"
              /\ \E k \in Keys, c \in CAs :
                   LET next == Head(todo[w])
                       rest == Tail(todo[w])
                   IN  \/ next = CACrt(c) /\ rest # << >> /\ Head(rest) = CAKey(c)
                       \/ next = CAKey(c) /\ rest # << >> /\ Head(rest) = Crt(k, c)
                       \/ next = Crt(k, c) /\ rest # << >> /\ Head(rest) = Key(k)
                       \/ next = Key(k) /\ rest = << >>
           \/ /\ job[w] = "upload"
              /\ LET next == Head(todo[w])
                     rest == Tail(todo[w])
                 IN  \/ /\ next \in CrtWrites
                        /\ next.content.issuer = None
                        /\ rest # << >>
                        /\ Head(rest).file = "key"
                     \/ /\ next \in KeyWrites
                        /\ rest = << >>
<1>1. CASE job[w] = "auto" /\ \E k \in Keys, c \in CAs : todo[w] \in Generation(k, c)
  <2>1. PICK k \in Keys, c \in CAs : todo[w] \in Generation(k, c)
    BY <1>1
  <2>2. QED
    BY <1>1, <2>1, GenerationNext
<1>2. CASE job[w] = "upload"
           /\ \E k \in Keys, kind \in Uploads : todo[w] \in Transfer(k, kind)
  <2>1. PICK k \in Keys, kind \in Uploads : todo[w] \in Transfer(k, kind)
    BY <1>2
  <2>2. \/ /\ Head(todo[w]) \in CrtWrites
           /\ Head(todo[w]).content.issuer = None
           /\ Tail(todo[w]) # << >>
           /\ Head(Tail(todo[w])).file = "key"
        \/ /\ Head(todo[w]) \in KeyWrites
           /\ Tail(todo[w]) = << >>
    BY <2>1, TransferNext
  <2>3. QED
    BY <1>2, <2>2, Zenon
<1>3. QED
  BY <1>1, <1>2 DEF TypeInv, PlanInv

(* Before ca.crt is there nothing trusts or is signed by a root CA. *)
LEMMA NoRootYet ==
    ASSUME CertInv, disk.caCrt \in Marks
    PROVE  /\ downloaded = {}
           /\ \A cert \in {disk.crt, read, served} :
                cert \in Certs => cert.issuer = None
<1>1. disk.caCrt \notin CAs
  BY MarkAssumption DEF Marks
<1>2. QED
  BY <1>1 DEF CertInv, TrustInv, TypeInv, TypeOK, Certs
LEMMA CertTruncate ==
    ASSUME OneWriter, CertInv, TypeInv', NEW w \in Writers, Truncate(w)
    PROVE  CertInv' /\ CANoted
<1> DEFINE next == Head(todo[w])
<1>1. \A v \in Writers : v = w
  BY DEF OneWriter
<1>2. /\ pc[w] = "files" /\ opened' = [opened EXCEPT ![w] = TRUE]
      /\ disk' = [disk EXCEPT ![next.file] = Empty]
      /\ UNCHANGED <<pc, job, todo, outcome, read, served, downloaded>>
  BY DEF Truncate, At
<1>3. opened'[w] /\ disk \in Disks /\ Empty \notin CAs /\ Empty \notin Certs
  BY <1>2, MarkAssumption, CertAssumption DEF CertInv, TypeInv, TypeOK, Marks
<1>4. outcome' # "generated"
  BY <1>2 DEF CertInv, OutcomeInv, Quiet
<1>5. CASE next.file = "caCrt"
  <2>1. disk.caCrt \in Marks /\ disk.caKey # next.content
    BY <1>2, <1>5 DEF CertInv, FilesInv
  <2>2. /\ disk'.caCrt = Empty /\ disk'["caCrt"] = Empty
        /\ UNCHANGED <<disk.caKey, disk.crt, disk.key>>
    BY <1>2, <1>3, <1>5 DEF Disks
  <2>3. TrustInv'
    BY <1>2, <2>1, <2>2, NoRootYet DEF TrustInv
  <2>4. FilesInv'
    BY <1>1, <1>2, <1>5, <2>1, <2>2 DEF FilesInv, Marks
  <2>5. CANoted
    BY <2>1, <1>3, MarkAssumption DEF CANoted, CALoads, Marks
  <2>6. QED
    BY <1>4, <2>3, <2>4, <2>5 DEF CertInv, OutcomeInv
<1>6. CASE next.file = "caKey"
  <2>1. disk.caCrt = next.content /\ disk.caKey # next.content
    BY <1>2, <1>6 DEF CertInv, FilesInv
  <2>2. /\ disk'.caKey = Empty /\ disk'["caKey"] = Empty
        /\ UNCHANGED <<disk.caCrt, disk.crt, disk.key>>
    BY <1>2, <1>3, <1>6 DEF Disks
  <2>3. next.content \in CAs
    BY <1>2, <1>6, NextWrite DEF CertInv, Writes
  <2>4. TrustInv'
    BY <1>2, <2>2 DEF CertInv, TrustInv
  <2>5. FilesInv'
    BY <1>1, <1>2, <1>3, <1>6, <2>1, <2>2, <2>3 DEF FilesInv
  <2>6. CANoted
    BY <2>1 DEF CANoted, CALoads
  <2>7. QED
    BY <1>4, <2>4, <2>5, <2>6 DEF CertInv, OutcomeInv
<1>7. CASE next.file = "crt"
  <2>1. /\ disk'.crt = Empty /\ disk'["crt"] = Empty
        /\ UNCHANGED <<disk.caCrt, disk.caKey, disk.key>>
    BY <1>2, <1>3, <1>7 DEF Disks
  <2>2. CALoads' = CALoads
    BY <2>1 DEF CALoads
  <2>3. TrustInv'
    BY <1>2, <1>3, <2>1 DEF CertInv, TrustInv
  <2>4. FilesInv'
    BY <1>1, <1>2, <1>7, <2>1, <2>2 DEF CertInv, FilesInv
  <2>5. QED
    BY <1>4, <2>1, <2>2, <2>3, <2>4 DEF CertInv, OutcomeInv, CANoted
<1>8. CASE next.file = "key"
  <2>1. /\ disk'.key = Empty /\ disk'["key"] = Empty
        /\ UNCHANGED <<disk.caCrt, disk.caKey, disk.crt>>
    BY <1>2, <1>3, <1>8 DEF Disks
  <2>2. CALoads' = CALoads
    BY <2>1 DEF CALoads
  <2>3. TrustInv'
    BY <1>2, <2>1 DEF CertInv, TrustInv
  <2>4. FilesInv'
    BY <1>1, <1>2, <1>8, <2>1, <2>2 DEF CertInv, FilesInv
  <2>5. QED
    BY <1>4, <2>1, <2>2, <2>3, <2>4 DEF CertInv, OutcomeInv, CANoted
<1>9. next.file \in {"caCrt", "caKey", "crt", "key"}
  BY <1>2, NextWrite DEF CertInv, Writes
<1>10. QED
  BY <1>5, <1>6, <1>7, <1>8, <1>9

LEMMA CertWrite ==
    ASSUME OneWriter, CertInv, TypeInv', NEW w \in Writers, WriteFile(w)
    PROVE  CertInv' /\ CANoted
<1> DEFINE next == Head(todo[w])
           rest == Tail(todo[w])
<1>1. \A v \in Writers : v = w
  BY DEF OneWriter
<1>2. pc[w] = "files" /\ opened[w] /\ UNCHANGED <<read, served, downloaded>>
  BY DEF WriteFile, At
<1>3. disk' = [disk EXCEPT ![next.file] = next.content]
  <2>1. disk[next.file] = Empty
    BY <1>2 DEF CertInv, FilesInv
  <2>2. QED
    BY <2>1 DEF WriteFile, Written
<1>4. disk \in Disks
  BY DEF CertInv, TypeInv, TypeOK
<1>5. outcome # "generated"
  BY <1>2 DEF CertInv, OutcomeInv, Quiet
(* There is more to write, or an upload to verify ... *)
<1>6. ASSUME rest # << >> \/ job[w] = "upload"
      PROVE  /\ outcome' # "generated"
             /\ ~opened'[w]
             /\ job'[w] = job[w]
             /\ pc'[w] = IF rest = << >> THEN "verify" ELSE "files"
             /\ todo'[w] = rest
  BY <1>5, <1>6 DEF WriteFile, Goto, CertInv, TypeInv, TypeOK
(* ... or a generation is complete. *)
<1>7. ASSUME rest = << >>, job[w] = "auto"
      PROVE  outcome' = "generated" /\ pc'[w] = "idle" /\ ~opened'[w]
  BY <1>7 DEF WriteFile, Ends, Goto, CertInv, TypeInv, TypeOK
<1>8. ASSUME NEW k \in Keys, NEW c \in CAs, job[w] = "auto",
             next = CACrt(c), rest # << >>, Head(rest) = CAKey(c)
      PROVE  CertInv' /\ CANoted
  <2>1. disk.caCrt \in Marks /\ disk.caKey # c
    BY <1>2, <1>8 DEF CertInv, FilesInv, CACrt
  <2>2. disk'.caCrt = c /\ UNCHANGED <<disk.caKey, disk.crt, disk.key>>
    BY <1>3, <1>4, <1>8 DEF Disks, CACrt
  <2>3. TrustInv'
    BY <1>2, <2>1, <2>2, NoRootYet DEF TrustInv
  <2>4. FilesInv'
    <3>1. Head(todo'[w]) = CAKey(c) /\ ~opened'[w]
      BY <1>6, <1>8
    <3>2. Head(todo'[w]).file = "caKey" /\ Head(todo'[w]).content = c
      BY <3>1 DEF CAKey
    <3>3. QED
      BY <1>1, <2>1, <2>2, <3>1, <3>2 DEF FilesInv
  <2>5. CANoted
    BY <2>1, MarkAssumption DEF CANoted, CALoads, Marks
  <2>6. QED
    BY <1>6, <1>8, <2>3, <2>4, <2>5 DEF CertInv, OutcomeInv
<1>9. ASSUME NEW k \in Keys, NEW c \in CAs, job[w] = "auto",
             next = CAKey(c), rest # << >>, Head(rest) = Crt(k, c)
      PROVE  CertInv' /\ CANoted
  <2>1. disk.caCrt = c /\ disk.caKey # c
    BY <1>2, <1>9 DEF CertInv, FilesInv, CAKey
  <2>2. disk'.caKey = c /\ UNCHANGED <<disk.caCrt, disk.crt, disk.key>>
    BY <1>3, <1>4, <1>9 DEF Disks, CAKey
  <2>3. TrustInv'
    BY <1>2, <2>2 DEF CertInv, TrustInv
  <2>4. CALoads'
    BY <2>1, <2>2 DEF CALoads
  <2>5. FilesInv'
    <3>1. Head(todo'[w]) = Crt(k, c) /\ ~opened'[w]
      BY <1>6, <1>9
    <3>2. Head(todo'[w]).file = "crt" /\ Head(todo'[w]).content.issuer = c
      BY <3>1 DEF Crt
    <3>3. QED
      BY <1>1, <2>1, <2>2, <2>4, <3>1, <3>2 DEF FilesInv
  <2>6. QED
    BY <1>6, <1>9, <2>1, <2>2, <2>3, <2>4, <2>5 DEF CertInv, OutcomeInv, CANoted
<1>10. ASSUME NEW k \in Keys, NEW c \in CAs, job[w] = "auto",
              next = Crt(k, c), rest # << >>, Head(rest) = Key(k)
       PROVE  CertInv' /\ CANoted
  <2>0. /\ next.file = "crt"
        /\ next.content = [key |-> k, issuer |-> c, kept |-> FALSE]
    <3>1. /\ Crt(k, c).file = "crt"
          /\ Crt(k, c).content = [key |-> k, issuer |-> c, kept |-> FALSE]
      BY DEF Crt
    <3>2. QED
      BY <1>10, <3>1, Zenon
  <2>1. CALoads /\ c = disk.caCrt
    BY <1>2, <1>10, <2>0 DEF CertInv, FilesInv
  <2>2. disk'.crt = [key |-> k, issuer |-> c, kept |-> FALSE]
        /\ UNCHANGED <<disk.caCrt, disk.caKey, disk.key>>
    <3> HIDE DEF next
    <3>1. QED
      BY <1>3, <1>4, <2>0 DEF Disks
  <2>3. TrustInv'
    BY <1>2, <2>1, <2>2 DEF CertInv, TrustInv
  <2>4. CALoads'
    BY <2>1, <2>2 DEF CALoads
  <2>5. disk'.crt \in Certs
    BY <2>2 DEF Certs
  <2>6. FilesInv'
    <3>1. Head(todo'[w]) = Key(k) /\ ~opened'[w]
      BY <1>6, <1>10
    <3>2. Head(todo'[w]).file = "key" /\ Head(todo'[w]).content = k
      BY <3>1 DEF Key
    <3>3. disk'.crt.key = k /\ disk'.crt.issuer = disk'.caCrt
      BY <2>1, <2>2
    <3>4. QED
      BY <1>1, <2>4, <2>5, <3>1, <3>2, <3>3 DEF FilesInv
  <2>7. QED
    BY <1>6, <1>10, <2>2, <2>3, <2>4, <2>6 DEF CertInv, OutcomeInv, CANoted
<1>11. ASSUME NEW k \in Keys, job[w] = "auto", next = Key(k), rest = << >>
       PROVE  CertInv' /\ CANoted
  <2>1. /\ CALoads /\ disk.crt \in Certs
        /\ disk.crt.key = k /\ disk.crt.issuer = disk.caCrt
    BY <1>2, <1>11 DEF CertInv, FilesInv, Key
  <2>2. disk'.key = k /\ UNCHANGED <<disk.caCrt, disk.caKey, disk.crt>>
    BY <1>3, <1>4, <1>11 DEF Disks, Key
  <2>3. TrustInv'
    BY <1>2, <2>2 DEF CertInv, TrustInv
  <2>4. CALoads'
    BY <2>1, <2>2 DEF CALoads
  <2>5. FilesInv'
    BY <1>1, <1>7, <1>11 DEF FilesInv
  <2>6. OutcomeInv'
    BY <1>1, <1>7, <1>11, <2>1, <2>2, <2>4 DEF OutcomeInv, Quiet, GeneratedSound, Loads
  <2>7. QED
    BY <2>2, <2>3, <2>4, <2>5, <2>6 DEF CertInv, CANoted
<1>12. ASSUME job[w] = "upload", next \in CrtWrites,
              next.content.issuer = None, rest # << >>, Head(rest).file = "key"
       PROVE  CertInv' /\ CANoted
  <2>1. disk'.crt = next.content /\ UNCHANGED <<disk.caCrt, disk.caKey, disk.key>>
    BY <1>3, <1>4, <1>12 DEF Disks, CrtWrites
  <2>2. TrustInv'
    BY <1>2, <1>12, <2>1 DEF CertInv, TrustInv
  <2>3. FilesInv'
    BY <1>1, <1>6, <1>12 DEF FilesInv
  <2>4. QED
    BY <1>6, <1>12, <2>1, <2>2, <2>3 DEF CertInv, OutcomeInv, CANoted, CALoads
<1>13. ASSUME job[w] = "upload", rest = << >>,
              next \in KeyWrites
       PROVE  CertInv' /\ CANoted
  <2>1. UNCHANGED <<disk.caCrt, disk.caKey, disk.crt>>
    BY <1>3, <1>4, <1>13 DEF Disks, KeyWrites
  <2>2. TrustInv'
    BY <1>2, <2>1 DEF CertInv, TrustInv
  <2>3. FilesInv'
    BY <1>1, <1>6, <1>13 DEF FilesInv
  <2>4. QED
    BY <1>6, <1>13, <2>1, <2>2, <2>3 DEF CertInv, OutcomeInv, CANoted, CALoads
<1>14. QED
  <2> HIDE DEF next, rest
  <2>1. TypeInv
    BY DEF CertInv
  <2>2. QED
    BY <1>2, <1>8, <1>9, <1>10, <1>11, <1>12, <1>13, <2>1, WriteCases DEF next, rest

LEMMA CertNext == OneWriter /\ CertInv /\ [Next]_vars => CertInv' /\ CANoted
<1> SUFFICES ASSUME OneWriter, CertInv, [Next]_vars PROVE CertInv' /\ CANoted
  OBVIOUS
<1>1. TypeInv'
  BY TypeNext DEF CertInv
<1>2. ASSUME UNCHANGED disk PROVE CANoted
  BY <1>2 DEF CANoted, CALoads
<1>3. CASE UNCHANGED vars
  BY <1>1, <1>2, <1>3 DEF vars, writerVars, CertInv, FilesInv, TrustInv, OutcomeInv,
                          CALoads, Quiet, GeneratedSound, Loads
<1>4. ASSUME NEW w \in Writers,
             Reload(w) \/ Upload(w) \/ Generate(w) \/ Receive(w) \/ Put(w)
      PROVE  CertInv' /\ CANoted
  <2>1. CASE RemoveCrt(w) \/ RemoveKey(w)
    BY <1>1, <2>1, CertRemove DEF CANoted, CALoads
  <2>2. CASE MakeCA(w) \/ LoadCA(w) \/ Upload(w)
    BY <1>1, <1>2, <2>2, CertPlan DEF MakeCA, LoadCA, Upload
  <2>3. CASE Truncate(w) \/ WriteFile(w)
    BY <1>1, <2>3, CertTruncate, CertWrite
  <2>4. CASE \/ Reload(w) \/ Keep(w) \/ Regenerate(w) \/ LoadCAFails(w)
             \/ Accept(w) \/ Reject(w) \/ WriteFails(w)
    <3>1. UNCHANGED disk
      BY <2>4 DEF Reload, Keep, Regenerate, LoadCAFails, Accept, Reject, WriteFails
    <3>2. QED
      BY <1>1, <1>2, <2>4, <3>1, CertControl
  <2>5. QED
    BY <1>4, <2>1, <2>2, <2>3, <2>4 DEF Generate, Receive, Put
<1>5. CASE ReadCrt \/ ReadKey
  <2>1. UNCHANGED <<disk, pc, job, todo, opened, outcome, downloaded>>
    BY <1>5 DEF ReadCrt, ReadKey, writerVars
  <2>2. read' \in {read, None, disk.crt} /\ served' \in {read, served}
    BY <1>5 DEF ReadCrt, ReadKey
  <2>3. None \notin Certs
    BY CertAssumption
  <2>4. TrustInv'
    BY <2>1, <2>2, <2>3 DEF CertInv, TrustInv
  <2>5. FilesInv' /\ OutcomeInv'
    BY <2>1 DEF CertInv, FilesInv, OutcomeInv, CALoads, Quiet, GeneratedSound, Loads
  <2>6. QED
    BY <1>1, <1>2, <2>1, <2>4, <2>5 DEF CertInv
<1>6. CASE DownloadCA
  <2>1. UNCHANGED <<disk, pc, job, todo, opened, outcome, read, served>>
        /\ downloaded' = downloaded \cup {disk.caCrt}
    BY <1>6 DEF DownloadCA, writerVars
  <2>2. TrustInv'
    BY <2>1 DEF CertInv, TrustInv
  <2>3. FilesInv' /\ OutcomeInv'
    BY <2>1 DEF CertInv, FilesInv, OutcomeInv, CALoads, Quiet, GeneratedSound, Loads
  <2>4. QED
    BY <1>1, <1>2, <2>1, <2>2, <2>3 DEF CertInv
<1>7. CASE Crash
  <2>1. None \notin Certs
    BY CertAssumption
  <2>2. TrustInv'
    BY <1>7, <2>1 DEF Crash, CertInv, TrustInv
  <2>3. FilesInv' /\ OutcomeInv'
    BY <1>7 DEF Crash, FilesInv, OutcomeInv
  <2>4. QED
    BY <1>1, <1>2, <1>7, <2>2, <2>3 DEF Crash, CertInv
<1>8. QED
  BY <1>3, <1>4, <1>5, <1>6, <1>7 DEF Next

-----------------------------------------------------------------------------
(* Theorems                                                                *)

(* A complete root CA is never rewritten, halved or removed by reloads,    *)
(* uploads, failing writes or crashes: a writer that has yet to write      *)
(* ca.crt or ca.key found none that could be loaded.                       *)
THEOREM RootCAKept == ASSUME OneWriter PROVE Spec => CAKept
<1>1. CertInv /\ [Next]_vars => [CANoted]_vars
  BY CertNext
<1>2. CertInv /\ [Next]_vars => CertInv'
  BY CertNext
<1>3. CAKept <=> [][CANoted]_vars
  BY DEF CAKept, CANoted
<1>4. QED
  BY <1>1, <1>2, <1>3, CertInit, PTL DEF Spec

(* Whoever has downloaded the root CA can verify whatever generated        *)
(* certificate is presented, before or after.                              *)
THEOREM DownloadsStayTrusted == ASSUME OneWriter PROVE Spec => []DownloadedTrusted
<1>1. CertInv => DownloadedTrusted
  BY DEF CertInv, TypeInv, TypeOK, TrustInv, DownloadedTrusted
<1>2. QED
  BY <1>1, CertInit, CertNext, PTL DEF Spec

(* What a completed generation leaves on disk loads, and is issued by the  *)
(* root CA that is there.                                                  *)
THEOREM GenerationsAreSound == ASSUME OneWriter PROVE Spec => []GeneratedSound
<1>1. CertInv => GeneratedSound
  BY DEF CertInv, OutcomeInv, GeneratedSound
<1>2. QED
  BY <1>1, CertInit, CertNext, PTL DEF Spec

-----------------------------------------------------------------------------
(* A settled root CA, for any number of writers                            *)

(* The root CA is complete, no writer is still making one, and whatever is *)
(* being generated is issued by it.                                        *)
RootSettled ==
    /\ CALoads
    /\ \A w \in Writers : pc[w] = "files" =>
         /\ Head(todo[w]).file \in {"crt", "key"}
         /\ Head(todo[w]).file = "crt" => Head(todo[w]).content.issuer \in {None, disk.caCrt}

(* It stays so, and a certificate that is written is an uploaded one or is *)
(* issued by this root CA.                                                 *)
RootStays ==
    RootSettled =>
        /\ RootSettled'
        /\ disk'.caCrt = disk.caCrt
        /\ disk'.crt # disk.crt /\ disk'.crt \in Certs =>
              disk'.crt.issuer \in {None, disk.caCrt}

(* A writer that moves, and writes neither root CA nor certificate. *)
LEMMA RootMove ==
    ASSUME TypeInv, RootSettled, NEW w \in Writers,
           \A v \in Writers : v # w => pc'[v] = pc[v] /\ todo'[v] = todo[v],
           UNCHANGED <<disk.caCrt, disk.caKey>>, disk'.crt \in {disk.crt, Absent, Empty},
           pc'[w] = "files" =>
              /\ Head(todo'[w]).file \in {"crt", "key"}
              /\ Head(todo'[w]).file = "crt" =>
                   Head(todo'[w]).content.issuer \in {None, disk.caCrt}
    PROVE  RootStays
<1>1. Absent \notin Certs /\ Empty \notin Certs
  BY CertAssumption DEF Marks
<1>2. QED
  BY <1>1 DEF RootStays, RootSettled, CALoads

LEMMA RootControl ==
    ASSUME TypeInv, RootSettled, NEW w \in Writers,
           \/ Reload(w) \/ Keep(w) \/ Regenerate(w) \/ LoadCAFails(w)
           \/ Accept(w) \/ Reject(w) \/ RemoveCrt(w) \/ RemoveKey(w) \/ WriteFails(w)
    PROVE  RootStays
<1> USE DEF TypeInv, TypeOK, Goto, Ends
<1>1. CASE Reload(w) \/ Keep(w) \/ Regenerate(w) \/ LoadCAFails(w)
  BY <1>1, RootMove DEF Reload, Begins, Keep, Regenerate, LoadCAFails
<1>2. CASE Accept(w) \/ Reject(w) \/ WriteFails(w)
  BY <1>2, RootMove DEF Accept, Reject, WriteFails
<1>3. CASE RemoveCrt(w) \/ RemoveKey(w)
  <2>1. UNCHANGED <<disk.caCrt, disk.caKey>> /\ disk'.crt \in {disk.crt, Absent}
    BY <1>3 DEF RemoveCrt, RemoveKey, Disks
  <2>2. QED
    BY <1>3, <2>1, RootMove DEF RemoveCrt, RemoveKey
<1>4. QED
  BY <1>1, <1>2, <1>3

(* A reload that starts now finds ca.crt, and issues from it. *)
LEMMA RootPlan ==
    ASSUME TypeInv, RootSettled, NEW w \in Writers, MakeCA(w) \/ LoadCA(w) \/ Upload(w)
    PROVE  RootStays
<1> USE DEF TypeInv, TypeOK, Goto
<1>1. ~MakeCA(w)
  BY MarkAssumption DEF MakeCA, CAMissing, RootSettled, CALoads
<1>2. CASE LoadCA(w)
  <2>1. PICK k \in Keys : todo' = [todo EXCEPT ![w] = ServerFiles(k, disk.caCrt)]
    BY <1>2 DEF LoadCA, Writing
  <2>2. Head(todo'[w]) = Crt(k, disk.caCrt)
    BY <2>1 DEF ServerFiles, Crt
  <2>3. Head(todo'[w]).file = "crt" /\ Head(todo'[w]).content.issuer = disk.caCrt
    BY <2>2 DEF Crt
  <2>4. UNCHANGED disk /\ \A v \in Writers : v # w => pc'[v] = pc[v] /\ todo'[v] = todo[v]
    BY <1>2, <2>1 DEF LoadCA, Writing
  <2>5. QED
    BY <2>3, <2>4, RootMove
<1>3. CASE Upload(w)
  <2>1. PICK k \in Keys, kind \in Uploads : todo' = [todo EXCEPT ![w] = Uploaded(k, kind)]
    BY <1>3 DEF Upload
  <2>2. Head(todo'[w]).file = "crt" /\ Head(todo'[w]).content.issuer = None
    BY <2>1 DEF Uploaded
  <2>3. QED
    BY <1>3, <2>1, <2>2, RootMove DEF Upload, Begins
<1>4. QED
  BY <1>1, <1>2, <1>3

(* The writes themselves are of the pair below the root CA. *)
LEMMA RootWrite ==
    ASSUME TypeInv, RootSettled, NEW w \in Writers, Truncate(w) \/ WriteFile(w)
    PROVE  RootStays
<1> DEFINE next == Head(todo[w])
           rest == Tail(todo[w])
<1> USE DEF TypeInv, TypeOK
<1>1. pc[w] = "files" /\ next.file \in {"crt", "key"}
  BY DEF Truncate, WriteFile, At, RootSettled
<1>2. CASE Truncate(w)
  <2>1. UNCHANGED <<disk.caCrt, disk.caKey>> /\ disk'.crt \in {disk.crt, Empty}
    BY <1>1, <1>2 DEF Truncate, Disks
  <2>2. next.file = "crt" => next.content.issuer \in {None, disk.caCrt}
    BY <1>1 DEF RootSettled
  <2>3. QED
    BY <1>1, <1>2, <2>1, <2>2, RootMove DEF Truncate
<1>3. CASE WriteFile(w)
  <2>1. PICK content \in {next.content, Empty} : disk' = [disk EXCEPT ![next.file] = content]
    BY <1>3 DEF WriteFile, Written
  <2>2. /\ UNCHANGED <<disk.caCrt, disk.caKey>>
        /\ next.file = "crt" => disk'.crt = content
        /\ next.file = "key" => disk'.crt = disk.crt
    BY <1>1, <2>1 DEF Disks
  <2>3. /\ \A v \in Writers : v # w => pc'[v] = pc[v] /\ todo'[v] = todo[v]
        /\ pc'[w] = "files" => rest # << >> /\ todo'[w] = rest
    BY <1>3 DEF WriteFile, Ends, Goto
  <2>4. rest # << >> => Head(rest).file = "key"
    <3>1. \A c \in CAs : CACrt(c).file = "caCrt"
      BY DEF CACrt
    <3>2. \A c \in CAs : CAKey(c).file = "caKey"
      BY DEF CAKey
    <3>3. \A k \in Keys : Key(k).file = "key"
      BY DEF Key
    <3> HIDE DEF next, rest, TypeInv, TypeOK
    <3>4. QED
      BY <1>1, <3>1, <3>2, <3>3, WriteCases DEF next, rest
  <2>5. RootSettled'
    BY <2>2, <2>3, <2>4 DEF RootSettled, CALoads
  <2>6. disk'.crt # disk.crt /\ disk'.crt \in Certs =>
            disk'.crt.issuer \in {None, disk.caCrt}
    BY <1>1, <2>1, <2>2, CertAssumption DEF RootSettled, Marks
  <2>7. QED
    BY <2>2, <2>5, <2>6 DEF RootStays
<1>4. QED
  BY <1>2, <1>3

LEMMA RootNext == TypeInv /\ [Next]_vars => [RootStays]_vars
<1> SUFFICES ASSUME TypeInv, Next, RootSettled PROVE RootStays
  BY DEF RootStays
<1>1. ASSUME NEW w \in Writers,
             Reload(w) \/ Upload(w) \/ Generate(w) \/ Receive(w) \/ Put(w)
      PROVE  RootStays
  BY <1>1, RootControl, RootPlan, RootWrite DEF Generate, Receive, Put
<1>2. CASE ReadCrt \/ ReadKey \/ DownloadCA
  BY <1>2 DEF ReadCrt, ReadKey, DownloadCA, writerVars, RootStays, RootSettled, CALoads
<1>3. CASE Crash
  BY <1>3 DEF Crash, RootStays, RootSettled, CALoads
<1>4. QED
  BY <1>1, <1>2, <1>3 DEF Next

(* Once a root CA is complete and nobody is making another, no overlap of  *)
(* reloads and uploads, failed write or crash ever touches it, and every   *)
(* certificate generated from then on is issued by it                      *)
(* (management.go:235-328, 389).                                           *)
THEOREM SettledRootStays == Spec => [][RootStays]_vars
BY TypeInit, TypeNext, RootNext, PTL DEF Spec

(* So it is settled for good. *)
COROLLARY RootSettledForGood == Spec => [](RootSettled => []RootSettled)
<1>1. [RootStays]_vars => (RootSettled => RootSettled')
  BY DEF RootStays, RootSettled, CALoads, vars, writerVars
<1>2. QED
  BY <1>1, SettledRootStays, PTL
=============================================================================
