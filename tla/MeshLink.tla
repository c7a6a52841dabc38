------------------------------ MODULE MeshLink ------------------------------
(***************************************************************************)
(* One end of a link of the mesh: the entry that apps/companion-core/src/  *)
(* mesh.rs keeps in Mesh.peers for a remote user, and what its handlers    *)
(* make of it.  An operator here is a handler: it returns the end the      *)
(* handler leaves and the signaling messages it sends.                     *)
(*                                                                         *)
(* PeerConnections are numbered, per end, in the order they are built: a   *)
(* PeerConnection is what one number stands for, with keys of its own.     *)
(* Candidates and the chat channel are Trickle's; audio is left out.       *)
(***************************************************************************)
EXTENDS Naturals, Sequences

\* An end: its PeerConnection, whether a local offer is unanswered, the
\* remote PeerConnection its keys were agreed with (0: none; the flag
\* remote_set says which), and whether it was built with a TURN server.
Ends == [pc : Nat \ {0}, offered : BOOLEAN, remote : Nat, turn : BOOLEAN]

\* No entry in peers.
Absent == [pc |-> 0, offered |-> FALSE, remote |-> 0, turn |-> FALSE]

RemoteSet(e) == e.remote # 0

OfferOf(e)  == [type |-> "offer",  pc |-> e.pc]
AnswerOf(e) == [type |-> "answer", pc |-> e.pc]

-----------------------------------------------------------------------------
(* The PeerConnection of the webrtc library, as mesh.rs relies on it.      *)

\* create_offer and set_local_description(offer).  Whether a second local offer
\* is taken while one is unanswered is left open (`again`).
TakesLocalOffer(e, again) == e.offered => again
WithLocalOffer(e) == [e EXCEPT !.offered = TRUE]

\* A remote offer is refused while a local one is unanswered, an answer
\* while none is.
TakesOffer(e)  == ~ e.offered
TakesAnswer(e) == e.offered

\* set_remote_description.  The DTLS handshake is made once: a PeerConnection
\* that has keys keeps them whatever descriptions it is given later.
WithRemote(e, pc) == [e EXCEPT !.offered = FALSE, !.remote = IF @ = 0 THEN pc ELSE @]

-----------------------------------------------------------------------------
(* mesh.rs.  In `n` the number the next PeerConnection of this end would   *)
(* get, and in `turn` whether add_turn has been called.                    *)

\* ensure
Ensured(e, n, turn) ==
    IF e # Absent THEN e
    ELSE [pc |-> n, offered |-> FALSE, remote |-> 0, turn |-> turn]

\* on_peer: a roster or a peer-joined names the peer.
OnPeer(smaller, e, n, turn, again) ==
    LET f == Ensured(e, n, turn)
    IN  IF smaller /\ TakesLocalOffer(f, again)
        THEN [end |-> WithLocalOffer(f), sent |-> <<OfferOf(f)>>]
        ELSE [end |-> f, sent |-> <<>>]

\* Seeded fault: a fresh offer is taken by the PeerConnection that has keys.
OnOfferKeepingPc(e, n, turn, pc) ==
    LET f == Ensured(e, n, turn)
    IN  IF TakesOffer(f) THEN [end |-> WithRemote(f, pc), sent |-> <<AnswerOf(f)>>]
        ELSE [end |-> f, sent |-> <<>>]

\* on_offer: an end that has keys gives way to a new one.
OnOffer(e, n, turn, pc) ==
    LET f == Ensured(IF RemoteSet(e) THEN Absent ELSE e, n, turn)
    IN  IF TakesOffer(f) THEN [end |-> WithRemote(f, pc), sent |-> <<AnswerOf(f)>>]
        ELSE [end |-> f, sent |-> <<>>]

\* Seeded fault: the answer is not applied.
OnAnswerIgnored(e, pc) == e

\* on_answer
OnAnswer(e, pc) == IF e # Absent /\ TakesAnswer(e) THEN WithRemote(e, pc) ELSE e

\* on_left: the peer is gone, and its entry goes.
OnLeft(e) == Absent

\* Seeded fault: both ends are torn down, and offered anew.
OnRekeyBothSides(smaller, e, n, turn) ==
    IF e = Absent THEN [end |-> e, sent |-> <<>>]
    ELSE OnPeer(TRUE, Absent, n, turn, FALSE)

\* rekey: the smaller side tears down and offers, the other one waits.
OnRekey(smaller, e, n, turn) ==
    IF e = Absent \/ ~ smaller THEN [end |-> e, sent |-> <<>>]
    ELSE OnPeer(smaller, Absent, n, turn, FALSE)

=============================================================================
