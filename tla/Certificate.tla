---------------------------- MODULE Certificate ----------------------------
\* The self-signed certificate of the signaling server (server/init/src/tls.rs
\* and the end of its main): made on the first start, kept in two files, read
\* on every later one, and pinned by the clients by its printed fingerprint.
\* A start may be cut off anywhere, in the middle of a file too, the
\* supervisor starts the server again, and the operator may delete a file.
\* A pair of certificate and key is the number of its making, and a
\* certificate's fingerprint is that number as well.
EXTENDS Naturals, FiniteSets

CONSTANTS
    Clients,
    Absent,         \* of a file; and no pin
    Torn,           \* of a file opened for writing and not wholly written
    MaxCrashes, MaxDeletes

ASSUME CertificateAssumption ==
    /\ MaxCrashes \in Nat /\ MaxDeletes \in Nat
    /\ Absent \notin Nat /\ Torn \notin Nat /\ Absent # Torn

VARIABLES
    disk,       \* the two files: absent, torn, or of a pair
    pc,         \* where the server's start is; "up": it accepts connections
    held,       \* the Tls value: certificate and key in memory
    made,       \* pairs made so far
    printed,    \* the fingerprints the logs show
    pin,        \* CERT_SHA256 of each client
    conn,       \* the clients with a connection
    kept,       \* history: no file was deleted since this start began
    crashes, deletes

vars == <<disk, pc, held, made, printed, pin, conn, kept, crashes, deletes>>

Files == {"cert", "key"}
Starting == {"read", "make", "openCert", "fillCert", "openKey", "fillKey",
             "print", "listen"}
Contents == {Absent, Torn} \cup 1..made
NoPair == [f \in Files |-> Absent]

TypeOK ==
    /\ made \in 0..(1 + MaxCrashes + MaxDeletes)
    /\ disk \in [Files -> Contents] /\ held \in [Files -> Contents]
    /\ pc \in {"down", "up"} \cup Starting
    /\ printed \subseteq 1..made
    /\ pin \in [Clients -> {Absent} \cup printed]
    /\ conn \subseteq Clients
    /\ kept \in BOOLEAN
    /\ crashes \in 0..MaxCrashes /\ deletes \in 0..MaxDeletes

Init ==
    /\ disk = NoPair /\ held = NoPair
    /\ pc = "down" /\ made = 0 /\ printed = {}
    /\ pin = [c \in Clients |-> Absent] /\ conn = {}
    /\ kept = TRUE /\ crashes = 0 /\ deletes = 0

outside == <<pin, conn, crashes, deletes>>

\* Mutant: the certificate alone decides.
CertExists == disk["cert"] # Absent

\* The files are taken as they are only if both exist.
BothExist == \A f \in Files : disk[f] # Absent

\* The supervisor starts the server; ensure looks at the two paths.
Start ==
    /\ pc = "down"
    /\ pc' = IF BothExist THEN "read" ELSE "make"
    /\ kept' = TRUE
    /\ UNCHANGED <<disk, held, made, printed, outside>>

\* Mutant: what is read is not parsed.
ReadUnparsed ==
    /\ pc = "read"
    /\ held' = disk /\ pc' = "print"
    /\ UNCHANGED <<disk, made, printed, kept, outside>>

\* fingerprint_of finds a certificate in the text.
Parses(cert) == cert \notin {Absent, Torn}

\* Both files are read, a missing one or a torn certificate is an error that
\* ends the process; a torn key is not looked at here.
Read ==
    /\ pc = "read"
    /\ IF BothExist /\ Parses(disk["cert"])
       THEN held' = disk /\ pc' = "print"
       ELSE pc' = "down" /\ UNCHANGED held
    /\ UNCHANGED <<disk, made, printed, kept, outside>>

\* Mutant: the fingerprint is printed as soon as it is known.
MakeAndPublish ==
    /\ pc = "make"
    /\ made' = made + 1
    /\ held' = [f \in Files |-> made + 1]
    /\ printed' = printed \cup {made + 1}
    /\ pc' = "openCert"
    /\ UNCHANGED <<disk, kept, outside>>

Make ==
    /\ pc = "make"
    /\ made' = made + 1
    /\ held' = [f \in Files |-> made + 1]
    /\ pc' = "openCert"
    /\ UNCHANGED <<disk, printed, kept, outside>>

\* Mutant: a key that exists is left alone.
OpenOnce(file, from, to) ==
    /\ pc = from
    /\ IF file = "key" /\ disk["key"] # Absent
       THEN pc' = "print" /\ UNCHANGED disk
       ELSE pc' = to /\ disk' = [disk EXCEPT ![file] = Torn]
    /\ UNCHANGED <<held, made, printed, kept, outside>>

\* fs::write creates or empties the file, and then writes into what it opened,
\* wherever its name has gone since.
Open(file, from, to) ==
    /\ pc = from /\ pc' = to
    /\ disk' = [disk EXCEPT ![file] = Torn]
    /\ UNCHANGED <<held, made, printed, kept, outside>>

Fill(file, from, to) ==
    /\ pc = from /\ pc' = to
    /\ disk' = [disk EXCEPT ![file] = IF @ = Absent THEN @ ELSE held[file]]
    /\ UNCHANGED <<held, made, printed, kept, outside>>

\* The certificate is written first, then the key.
WriteCert == Open("cert", "openCert", "fillCert") \/ Fill("cert", "fillCert", "openKey")
WriteKey == Open("key", "openKey", "fillKey") \/ Fill("key", "fillKey", "print")

\* The fingerprint is printed before anything has looked at the key.
Publish ==
    /\ pc = "print"
    /\ printed' = printed \cup {held["cert"]}
    /\ pc' = "listen"
    /\ UNCHANGED <<disk, held, made, kept, outside>>

\* RustlsConfig::from_pem: a key that cannot be parsed, or is not the
\* certificate's, is an error.
Usable(pair) == pair["key"] # Torn /\ pair["key"] = pair["cert"]

Listen ==
    /\ pc = "listen"
    /\ pc' = IF Usable(held) THEN "up" ELSE "down"
    /\ UNCHANGED <<disk, held, made, printed, kept, outside>>

\* The process is killed, or a write fails (the disk is full) and main
\* returns its error; its connections go with it.
Crash ==
    /\ pc # "down" /\ crashes < MaxCrashes
    /\ crashes' = crashes + 1
    /\ pc' = "down" /\ conn' = {}
    /\ UNCHANGED <<disk, held, made, printed, pin, kept, deletes>>

Delete(f) ==
    /\ disk[f] # Absent /\ deletes < MaxDeletes
    /\ deletes' = deletes + 1
    /\ disk' = [disk EXCEPT ![f] = Absent]
    /\ kept' = FALSE
    /\ UNCHANGED <<pc, held, made, printed, pin, conn, crashes>>

\* The user of a client enters a fingerprint from the server's log.
Pin(c) ==
    /\ c \notin conn
    /\ \E f \in printed : pin' = [pin EXCEPT ![c] = f]
    /\ UNCHANGED <<disk, pc, held, made, printed, conn, kept, crashes, deletes>>

\* PinnedCert: the certificate the server shows has the pinned fingerprint.
Trusts(c, cert) == pin[c] = cert

\* A client's attempt to connect: without a pin the certificate has no CA to
\* vouch for it, with one it has to be the pinned certificate.
Connect(c) ==
    /\ pc = "up" /\ c \notin conn
    /\ Trusts(c, held["cert"])
    /\ conn' = conn \cup {c}
    /\ UNCHANGED <<disk, pc, held, made, printed, pin, kept, crashes, deletes>>

Serve == Start \/ Read \/ Make \/ WriteCert \/ WriteKey \/ Publish \/ Listen

Next ==
    \/ Serve
    \/ Crash
    \/ \E f \in Files : Delete(f)
    \/ \E c \in Clients : Pin(c) \/ Connect(c)

Spec == Init /\ [][Next]_vars

\* The container is restarted whenever it ends (restart: unless-stopped), and
\* the engine of a client tries again for as long as it runs.
FairSpec == Spec /\ WF_vars(Serve) /\ \A c \in Clients : WF_vars(Connect(c))

----------------------------------------------------------------------------
\* Files no start can use, and that no start replaces.
Spoilt == Absent \notin {disk[f] : f \in Files} /\ ~Usable(disk)

\* The fingerprint is stable across restarts: however often a start is cut
\* off, and wherever, the logs never show a second one unless a file was
\* deleted, and no more new ones than files were deleted.
FingerprintIsStable == Cardinality(printed) <= 1 + deletes

\* What the server serves is what its next start will serve: as long as nobody
\* deletes a file, the pair in use is the pair on the disk, whatever files
\* were there when it was made.
ServedIsKept == pc = "up" /\ kept => disk = held

\* A client that pinned a printed fingerprint is connected again after every
\* crash, unless the files are spoilt or its certificate was deleted.
PinnedGetsBack ==
    \A c \in Clients :
        []<>(\/ c \in conn \/ pin[c] = Absent
             \/ Spoilt
             \/ deletes > 0 /\ pin[c] # disk["cert"])

\* Refuted: every start ends in a server that accepts connections. A start
\* cut off while the key is written leaves files that stop all later ones,
\* after they have printed a fingerprint.
ComesUp == []<>(pc = "up")

\* Refuted: files nobody deleted anything of belong together.
NeverSpoilt == deletes = 0 => ~Spoilt \/ pc \in Starting

============================================================================
