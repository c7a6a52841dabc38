------------------------- MODULE CertificateProofs -------------------------
(* What holds of the certificate for any number of clients, of starts that *)
(* are cut off and of files that are deleted.                              *)
EXTENDS Certificate, FiniteSetTheorems, TLAPS

\* TypeOK but for the bound on the pairs made.
Typed ==
    /\ made \in Nat
    /\ disk \in [Files -> Contents] /\ held \in [Files -> Contents]
    /\ pc \in {"down", "up"} \cup Starting
    /\ printed \subseteq 1..made
    /\ pin \in [Clients -> {Absent} \cup printed]
    /\ conn \subseteq Clients
    /\ kept \in BOOLEAN
    /\ crashes \in 0..MaxCrashes /\ deletes \in 0..MaxDeletes

Making  == {"openCert", "fillCert", "openKey", "fillKey"}
Resting == {"down", "read", "print", "listen", "up"}

\* What a start knows of the pair it holds, and of what it wrote if nobody
\* deleted it.
Written ==
    /\ pc \in Making => held["key"] \in 1..made
    /\ pc \in Making \cup {"print"} => held["cert"] \in 1..made
    /\ pc = "fillCert" => disk["cert"] \in {Absent, Torn}
    /\ pc \in {"openKey", "fillKey"} => disk["cert"] \in {Absent, held["cert"]}
    /\ pc = "fillKey" => disk["key"] \in {Absent, Torn}

Kept ==
    kept => /\ pc = "fillCert" => disk["cert"] = Torn
            /\ pc \in {"openKey", "fillKey"} => disk["cert"] = held["cert"]
            /\ pc = "fillKey" => disk["key"] = Torn
            /\ pc \in {"print", "listen", "up"} => disk = held

\* A file that should be there is not: the next start makes a pair.
Missing ==
    \/ pc \in Resting /\ ~BothExist
    \/ pc \in {"fillCert", "openKey", "fillKey"} /\ disk["cert"] = Absent
    \/ pc = "fillKey" /\ disk["key"] = Absent

\* The next start reads a fingerprint that this one will not have printed.
Unread ==
    /\ pc \in Resting
    /\ disk["cert"] \notin printed \cup {Absent, Torn}
    /\ pc = "print" => disk["cert"] # held["cert"]

\* This start may print a new fingerprint.
Printing == pc \in Making \cup {"make"} \/ (pc = "print" /\ held["cert"] \notin printed)

One(condition) == IF condition THEN 1 ELSE 0

\* Pairs made, and the one that is to come unless a start is cut off or a file
\* is deleted once more.
MadeBound == made + One(pc = "make" \/ Missing) <= 1 + crashes + deletes

\* Fingerprints printed, and those that are to come unless a file is deleted.
Budget == Cardinality(printed) + One(Printing) + One(Missing \/ Unread) <= 1 + deletes

IInv == Typed /\ Written /\ Kept /\ MadeBound /\ Budget

-----------------------------------------------------------------------------
(* The invariant holds at first.                                           *)

LEMMA InitInv == Init => IInv
<1> SUFFICES ASSUME Init PROVE IInv
  OBVIOUS
<1>1. Typed
  BY CertificateAssumption
  DEF Init, Typed, Contents, NoPair, Files, Starting
<1>2. Written /\ Kept
  BY DEF Init, Written, Kept, Making
<1>3. MadeBound
  BY CertificateAssumption DEF Init, MadeBound, One
<1>4. Budget
  <2>1. Cardinality(printed) = 0
    BY FS_EmptySet DEF Init
  <2>2. ~Printing
    BY DEF Init, Printing, Making
  <2> QED
    BY <2>1, <2>2 DEF Init, Budget, One
<1> QED
  BY <1>1, <1>2, <1>3, <1>4 DEF IInv

-----------------------------------------------------------------------------
(* Every step keeps it.                                                    *)

LEMMA TypedStep == Typed /\ Written /\ [Next]_vars => Typed'
<1> SUFFICES ASSUME Typed, Written, [Next]_vars PROVE Typed'
  OBVIOUS
<1> USE DEF Typed, Contents, Files, Starting
<1>1. CASE Start
  BY <1>1 DEF Start, outside
<1>2. CASE Read
  BY <1>2 DEF Read, outside
<1>3. CASE Make
  BY <1>3 DEF Make, outside
<1>4. ASSUME NEW f \in Files, NEW a, NEW b \in Starting, Open(f, a, b) PROVE Typed'
  BY <1>4 DEF Open, outside
<1>5. ASSUME NEW f \in Files, NEW a, NEW b \in Starting, Fill(f, a, b) PROVE Typed'
  BY <1>5 DEF Fill, outside
<1>6. CASE Publish
  <2>1. held["cert"] \in 1..made
    BY <1>6 DEF Publish, Written
  <2> QED
    BY <1>6, <2>1 DEF Publish, outside
<1>7. CASE Listen
  BY <1>7 DEF Listen, outside
<1>8. CASE Crash
  BY <1>8, CertificateAssumption DEF Crash
<1>9. ASSUME NEW f \in Files, Delete(f) PROVE Typed'
  <2>1. disk' \in [Files -> Contents'] /\ held' \in [Files -> Contents']
    BY <1>9 DEF Delete
  <2>2. deletes' \in 0..MaxDeletes
    BY <1>9, CertificateAssumption DEF Delete
  <2> QED
    BY <1>9, <2>1, <2>2 DEF Delete
<1>10. ASSUME NEW c \in Clients, Pin(c) PROVE Typed'
  BY <1>10 DEF Pin
<1>11. ASSUME NEW c \in Clients, Connect(c) PROVE Typed'
  BY <1>11 DEF Connect
<1>12. CASE UNCHANGED vars
  BY <1>12 DEF vars
<1> QED
  BY <1>1, <1>2, <1>3, <1>4, <1>5, <1>6, <1>7, <1>8, <1>9, <1>10, <1>11, <1>12
  DEF Next, Serve, WriteCert, WriteKey

\* The writes, with what is in memory and on the disk.
LEMMA WrittenStep == Typed /\ Written /\ Kept /\ [Next]_vars => Written' /\ Kept'
<1> SUFFICES ASSUME Typed, Written, Kept, [Next]_vars PROVE Written' /\ Kept'
  OBVIOUS
<1> USE DEF Written, Kept, Making
<1>0. /\ DOMAIN disk = Files /\ DOMAIN held = Files
      /\ made \in Nat
  BY DEF Typed
<1>1. CASE Start
  BY <1>1 DEF Start, outside
<1>2. CASE Read
  <2>1. CASE pc' = "down"
    BY <1>2, <2>1 DEF Read
  <2>2. CASE pc' = "print"
    <3>1. held' = disk /\ disk' = disk /\ made' = made /\ disk["cert"] \notin {Absent, Torn}
      BY <1>2, <2>2 DEF Read, Parses
    <3>2. disk["cert"] \in 1..made
      BY <3>1 DEF Typed, Contents, Files
    <3> QED
      BY <2>2, <3>1, <3>2
  <2> QED
    BY <1>2, <2>1, <2>2 DEF Read
<1>3. CASE Make
  BY <1>3, <1>0 DEF Make, outside, Files
<1>4. CASE WriteCert
  <2>1. CASE Open("cert", "openCert", "fillCert")
    BY <2>1, <1>0 DEF Open, Files
  <2>2. CASE Fill("cert", "fillCert", "openKey")
    BY <2>2, <1>0, CertificateAssumption DEF Fill, Files
  <2> QED
    BY <1>4, <2>1, <2>2 DEF WriteCert
<1>5. CASE WriteKey
  <2>1. CASE Open("key", "openKey", "fillKey")
    BY <2>1, <1>0 DEF Open, Files
  <2>2. CASE Fill("key", "fillKey", "print")
    <3>1. kept => disk'["key"] = held["key"] /\ disk'["cert"] = held["cert"]
      BY <2>2, <1>0, CertificateAssumption DEF Fill, Files
    <3>2. disk' \in [Files -> Contents] /\ held \in [Files -> Contents]
      BY <2>2 DEF Fill, Typed
    <3>3. kept => disk' = held
      BY <3>1, <3>2 DEF Files
    <3> QED
      BY <2>2, <3>3 DEF Fill
  <2> QED
    BY <1>5, <2>1, <2>2 DEF WriteKey
<1>6. CASE Publish
  BY <1>6 DEF Publish, outside
<1>7. CASE Listen
  BY <1>7 DEF Listen, outside
<1>8. CASE Crash
  BY <1>8 DEF Crash
<1>9. ASSUME NEW f \in Files, Delete(f) PROVE Written' /\ Kept'
  BY <1>9, <1>0 DEF Delete, Files
<1>10. ASSUME NEW c \in Clients, Pin(c) \/ Connect(c) PROVE Written' /\ Kept'
  BY <1>10 DEF Pin, Connect
<1>11. CASE UNCHANGED vars
  BY <1>11 DEF vars
<1> QED
  BY <1>1, <1>2, <1>3, <1>4, <1>5, <1>6, <1>7, <1>8, <1>9, <1>10, <1>11 DEF Next, Serve

\* A pair is made when a file is missing, and leaves both in place.
LEMMA MadeStep == Typed /\ Written /\ MadeBound /\ [Next]_vars => MadeBound'
<1> SUFFICES ASSUME Typed, Written, MadeBound, [Next]_vars PROVE MadeBound'
  OBVIOUS
<1> USE DEF MadeBound, One, Missing, Resting
<1>0. /\ DOMAIN disk = Files /\ DOMAIN held = Files
      /\ made \in Nat /\ crashes \in Nat /\ deletes \in Nat
      /\ pc \in {"down", "up"} \cup Starting
  BY CertificateAssumption DEF Typed
<1>1. CASE Start
  BY <1>0, <1>1 DEF Start, outside, BothExist
<1>2. CASE Read
  BY <1>0, <1>2 DEF Read, outside, BothExist
<1>3. CASE Make
  BY <1>0, <1>3 DEF Make, outside
<1>4. CASE WriteCert
  <2>1. CASE Open("cert", "openCert", "fillCert")
    BY <2>1, <1>0, CertificateAssumption DEF Open, outside, Files
  <2>2. CASE Fill("cert", "fillCert", "openKey")
    <3>1. held["cert"] # Absent
      BY <2>2, <1>0, CertificateAssumption DEF Fill, Written, Making
    <3>2. disk["cert"] # Absent => disk'["cert"] # Absent
      BY <2>2, <1>0, <3>1 DEF Fill, Files
    <3> QED
      BY <2>2, <3>2, <1>0 DEF Fill, outside
  <2> QED
    BY <1>4, <2>1, <2>2 DEF WriteCert
<1>5. CASE WriteKey
  <2>1. CASE Open("key", "openKey", "fillKey")
    BY <2>1, <1>0, CertificateAssumption DEF Open, outside, Files
  <2>2. CASE Fill("key", "fillKey", "print")
    <3>1. held["key"] # Absent
      BY <2>2, <1>0, CertificateAssumption DEF Fill, Written, Making
    <3>2. \A f \in Files : disk[f] # Absent => disk'[f] # Absent
      BY <2>2, <1>0, <3>1 DEF Fill, Files
    <3> QED
      BY <2>2, <3>2, <1>0 DEF Fill, outside, BothExist, Files
  <2> QED
    BY <1>5, <2>1, <2>2 DEF WriteKey
<1>6. CASE Publish
  BY <1>0, <1>6 DEF Publish, outside, BothExist
<1>7. CASE Listen
  BY <1>0, <1>7 DEF Listen, outside, BothExist
<1>8. CASE Crash
  BY <1>0, <1>8 DEF Crash, BothExist
<1>9. ASSUME NEW f \in Files, Delete(f) PROVE MadeBound'
  BY <1>0, <1>9 DEF Delete, BothExist
<1>10. ASSUME NEW c \in Clients, Pin(c) \/ Connect(c) PROVE MadeBound'
  BY <1>0, <1>10 DEF Pin, Connect, BothExist
<1>11. CASE UNCHANGED vars
  BY <1>0, <1>11 DEF vars, BothExist
<1> QED
  BY <1>1, <1>2, <1>3, <1>4, <1>5, <1>6, <1>7, <1>8, <1>9, <1>10, <1>11 DEF Next, Serve

LEMMA PrintedIsFinite == Typed => IsFiniteSet(printed) /\ Cardinality(printed) \in Nat
<1> SUFFICES ASSUME Typed PROVE IsFiniteSet(printed) /\ Cardinality(printed) \in Nat
  OBVIOUS
<1>1. IsFiniteSet(1..made)
  BY FS_Interval, made \in Int, 1 \in Int DEF Typed
<1>2. IsFiniteSet(printed)
  BY <1>1, FS_Subset, printed \in SUBSET (1..made) DEF Typed
<1> QED
  BY <1>2, FS_CardinalityType

\* Only a deletion makes room for one more fingerprint.
LEMMA BudgetStep == Typed /\ Written /\ Budget /\ [Next]_vars => Budget'
<1> SUFFICES ASSUME Typed, Written, Budget, [Next]_vars PROVE Budget'
  OBVIOUS
<1> USE DEF One, Missing, Unread, Printing, Resting, Making
<1>0. /\ DOMAIN disk = Files /\ DOMAIN held = Files
      /\ deletes \in Nat
      /\ pc \in {"down", "up"} \cup Starting
  BY CertificateAssumption DEF Typed
<1>a. IsFiniteSet(printed) /\ Cardinality(printed) \in Nat
  BY PrintedIsFinite
<1>b. ASSUME printed' = printed, deletes' = deletes,
             One(Printing)' + One(Missing \/ Unread)' <= One(Printing) + One(Missing \/ Unread)
      PROVE  Budget'
  BY <1>0, <1>a, <1>b DEF Budget
<1>1. CASE Start
  BY <1>0, <1>b, <1>1 DEF Start, outside, BothExist
<1>2. CASE Read
  BY <1>0, <1>b, <1>2 DEF Read, Parses, outside, BothExist, Files
<1>3. CASE Make
  BY <1>0, <1>b, <1>3 DEF Make, outside
<1>4. CASE WriteCert
  <2>1. CASE Open("cert", "openCert", "fillCert")
    BY <2>1, <1>0, <1>b, CertificateAssumption DEF Open, outside, Files
  <2>2. CASE Fill("cert", "fillCert", "openKey")
    <3>1. disk["cert"] # Absent => disk'["cert"] # Absent
      BY <2>2, <1>0, CertificateAssumption DEF Fill, Written, Files, Typed
    <3> QED
      BY <2>2, <3>1, <1>0, <1>b DEF Fill, outside
  <2> QED
    BY <1>4, <2>1, <2>2 DEF WriteCert
<1>5. CASE WriteKey
  <2>1. CASE Open("key", "openKey", "fillKey")
    BY <2>1, <1>0, <1>b, CertificateAssumption DEF Open, outside, Files
  <2>2. CASE Fill("key", "fillKey", "print")
    <3>1. disk["key"] # Absent => disk'["key"] # Absent
      BY <2>2, <1>0, CertificateAssumption DEF Fill, Written, Files, Typed
    <3>2. disk'["cert"] = disk["cert"] /\ disk["cert"] \in {Absent, held["cert"]}
      BY <2>2, <1>0 DEF Fill, Written, Files
    <3> QED
      BY <2>2, <3>1, <3>2, <1>0, <1>b DEF Fill, outside, BothExist, Files
  <2> QED
    BY <1>5, <2>1, <2>2 DEF WriteKey
<1>6. CASE Publish
  <2>1. Cardinality(printed') = Cardinality(printed) + One(Printing)
    BY <1>6, <1>a, FS_AddElement DEF Publish
  <2>2. ~Printing'
    BY <1>6 DEF Publish
  <2>3. (Missing \/ Unread)' => Missing \/ Unread
    BY <1>6 DEF Publish, BothExist
  <2> QED
    BY <1>0, <1>a, <1>6, <2>1, <2>2, <2>3 DEF Publish, outside, Budget
<1>7. CASE Listen
  BY <1>0, <1>b, <1>7 DEF Listen, outside, BothExist
<1>8. CASE Crash
  <2>1. printed' = printed /\ deletes' = deletes /\ disk' = disk /\ held' = held /\ pc' = "down"
    BY <1>8 DEF Crash
  <2>2. (Missing \/ Unread)' => Printing \/ Missing \/ Unread
    BY <2>1, <1>0, <1>8 DEF Crash, BothExist, Starting
  <2> QED
    BY <2>1, <2>2, <1>b
<1>9. ASSUME NEW f \in Files, Delete(f) PROVE Budget'
  <2>1. printed' = printed /\ deletes' = deletes + 1 /\ held' = held /\ pc' = pc
    BY <1>9 DEF Delete
  <2>2. Printing' <=> Printing
    BY <2>1
  <2> QED
    BY <1>0, <1>a, <2>1, <2>2 DEF Budget
<1>10. ASSUME NEW c \in Clients, Pin(c) \/ Connect(c) PROVE Budget'
  BY <1>0, <1>b, <1>10 DEF Pin, Connect, BothExist
<1>11. CASE UNCHANGED vars
  BY <1>0, <1>b, <1>11 DEF vars, BothExist
<1> QED
  BY <1>1, <1>2, <1>3, <1>4, <1>5, <1>6, <1>7, <1>8, <1>9, <1>10, <1>11 DEF Next, Serve

-----------------------------------------------------------------------------
(* The theorems.                                                           *)

LEMMA CertificateInvariant == Spec => []IInv
<1>1. IInv /\ [Next]_vars => IInv'
  BY TypedStep, WrittenStep, MadeStep, BudgetStep DEF IInv
<1> QED
  BY InitInv, <1>1, PTL DEF Spec

\* Types, and no more pairs are made than there are starts cut off and files
\* deleted, and one (tls.rs:18-37).
THEOREM CertificateTypeTheorem == Spec => []TypeOK
<1>1. IInv => TypeOK
  <2> SUFFICES ASSUME IInv PROVE TypeOK
    OBVIOUS
  <2>1. made \in 0..(1 + MaxCrashes + MaxDeletes)
    BY CertificateAssumption DEF IInv, Typed, MadeBound, One
  <2> QED
    BY <2>1 DEF IInv, Typed, TypeOK
<1> QED
  BY CertificateInvariant, <1>1, PTL

\* However often and wherever starts are cut off, the logs show one fingerprint
\* and at most one more for each file that was deleted (tls.rs:17-42,
\* main.rs:266-269).
THEOREM StableFingerprintTheorem == Spec => []FingerprintIsStable
<1>1. IInv => FingerprintIsStable
  <2> SUFFICES ASSUME IInv PROVE FingerprintIsStable
    OBVIOUS
  <2>1. Cardinality(printed) \in Nat /\ deletes \in Nat
    BY PrintedIsFinite, CertificateAssumption DEF IInv, Typed
  <2> QED
    BY <2>1 DEF IInv, Budget, One, FingerprintIsStable
<1> QED
  BY CertificateInvariant, <1>1, PTL

\* As long as nobody deletes a file, the server serves the pair that is on the
\* disk, and the next start will serve it too (tls.rs:38-41).
THEOREM ServedIsKeptTheorem == Spec => []ServedIsKept
<1>1. IInv => ServedIsKept
  BY DEF IInv, Kept, ServedIsKept
<1> QED
  BY CertificateInvariant, <1>1, PTL

=============================================================================
