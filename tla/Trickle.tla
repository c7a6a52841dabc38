------------------------------ MODULE Trickle ------------------------------
(***************************************************************************)
(* The ICE candidates and the chat of one link of the mesh                 *)
(* (apps/companion-core/src/mesh.rs) between two members who stay: user 1  *)
(* offers, user 2 answers, and each PeerConnection reports its candidates  *)
(* one at a time, from a task of its own, once it has a local description. *)
(* They share the queue with offers and answers, and so may be ahead of    *)
(* the one they belong to.  A chat line goes over the data channel of the  *)
(* PeerConnection of the moment, and is shown to who said it in any case.  *)
(*                                                                         *)
(* The ends and their handlers are MeshLink's; here they take two steps,   *)
(* up to set_local_description and then the send, and what the candidates  *)
(* do to them is added.  What is between the engines is one queue each     *)
(* way, in order (up_rx, the sockets and the server of Squad).             *)
(***************************************************************************)
EXTENDS MeshLink, FiniteSets

CONSTANT
    Plans         \* what may happen on the link

\* Candidates of a PeerConnection, rekeys the offering end handles, and lines
\* each user says.
ASSUME TrickleAssumption ==
    \A p \in Plans : p \in [candidates : SUBSET Nat, rekeys : Nat, lines : Nat]

VARIABLES
    plan,       \* one of them, for good
    end,        \* user -> its end of the link (MeshLink)
    pending,    \* user -> PeerConn.pending_ice
    known,      \* user -> the candidates its PeerConnection was given
    made,       \* user -> PeerConnections it built
    due,        \* user -> what its handler has still to send
    reported,   \* user -> candidates its PeerConnections reported
    queue,      \* user -> messages on their way to it
    seen,       \* user -> whether a roster or peer-joined named the other one
    rekeys,
    opened,     \* user -> its latest PeerConnection whose chat channel is open
    slot,       \* user -> PeerConn.chat: the PeerConnection whose channel is there
    said,       \* user -> lines it said
    path,       \* user -> lines on their way to it
    heard,      \* user -> the lines its engine got (MeshEvent::Chat)
    sure,       \* history: user -> lines it said on an open link there is still
    early,      \* history: candidates of 1 reported before their offer was sent,
    ready       \* and whether user 2 had seen user 1 before any message came

chatVars == <<opened, slot, said, path, heard, sure>>
vars == <<plan, end, pending, known, made, due, reported, queue, seen, rekeys, chatVars, early,
          ready>>

Users == {1, 2}
Other(u) == 3 - u

\* A candidate is of a PeerConnection; c is its place among them.
CandidatesOf(pc) == {pc} \X plan.candidates
IceOf(c) == [type |-> "ice", cand |-> c]

Init ==
    /\ plan \in Plans
    /\ end = [u \in Users |-> Absent]
    /\ pending = [u \in Users |-> {}] /\ known = [u \in Users |-> {}]
    /\ made = [u \in Users |-> 0]
    /\ due = [u \in Users |-> <<>>]
    /\ reported = [u \in Users |-> {}]
    /\ queue = [u \in Users |-> <<>>]
    /\ seen = [u \in Users |-> FALSE]
    /\ opened = [u \in Users |-> 0] /\ slot = [u \in Users |-> 0]
    /\ said = [u \in Users |-> 0]
    /\ path = [u \in Users |-> <<>>] /\ heard = [u \in Users |-> <<>>]
    /\ sure = [u \in Users |-> {}]
    /\ rekeys = 0 /\ early = {} /\ ready = FALSE

-----------------------------------------------------------------------------
\* Mutant: the flag is set, and what waited for it is not looked at.
UnflushedIce(f, new, waiting, given) ==
    [pending |-> IF new THEN {} ELSE waiting, known |-> IF new THEN {} ELSE given]

\* flush_ice, once there is a remote description; a new PeerConnection knows
\* nothing, and nothing waits for it.
FlushedIce(f, new, waiting, given) ==
    CASE new -> [pending |-> {}, known |-> {}]
      [] ~new /\ RemoteSet(f) -> [pending |-> {}, known |-> given \cup waiting]
      [] OTHER -> [pending |-> waiting, known |-> given]

\* Mutant: the slot is of the peer, and the channel that is there stays.
OldSlot(u, e) ==
    slot' = [slot EXCEPT ![u] = IF @ = 0 /\ e.offered THEN e.pc ELSE @]

\* A new PeerConnection comes with a slot of its own: in it the channel that
\* offer makes, or none until the other end's channel is announced.
NewSlot(u, e) ==
    slot' = [slot EXCEPT ![u] = IF e.offered THEN e.pc ELSE 0]

\* With the PeerConnection before it go the lines on their way to u, and of
\* those on their way from u as many as had not got through.
Replaced(u, e) ==
    /\ NewSlot(u, e)
    /\ \E n \in 0 .. Len(path[Other(u)]) :
          path' = [v \in Users |-> IF v = u THEN <<>> ELSE SubSeq(path[v], 1, n)]
    /\ sure' = [v \in Users |-> {}]
    /\ UNCHANGED <<opened, said, heard>>

\* The handler of u leaves the end and the message it is about to send.
Handled(u, r) ==
    LET new == r.end.pc # end[u].pc
        ice == FlushedIce(r.end, new, pending[u], known[u])
    IN  /\ IF new THEN Replaced(u, r.end) ELSE UNCHANGED chatVars
        /\ end' = [end EXCEPT ![u] = r.end]
        /\ pending' = [pending EXCEPT ![u] = ice.pending]
        /\ known' = [known EXCEPT ![u] = ice.known]
        /\ made' = [made EXCEPT ![u] = IF r.end.pc > @ THEN r.end.pc ELSE @]
        /\ due' = [due EXCEPT ![u] = r.sent]
        /\ UNCHANGED <<plan, reported>>

\* The engine of u is in no handler, and takes this message.
Takes(u, type) ==
    /\ due[u] = <<>>
    /\ queue[u] # <<>> /\ Head(queue[u]).type = type
    /\ queue' = [queue EXCEPT ![u] = Tail(@)]
    /\ UNCHANGED <<seen, rekeys, early, ready>>

\* User 2 has handled no message yet.
NothingTaken == made[2] = 0 /\ \A c \in reported[1] : \E i \in DOMAIN queue[2] : queue[2][i] = IceOf(c)

\* A roster or peer-joined names the other one.  User 2 may have heard from
\* user 1 before: the server tells those in the room first.
See(u) ==
    /\ due[u] = <<>> /\ ~seen[u]
    /\ seen' = [seen EXCEPT ![u] = TRUE]
    /\ ready' = IF u = 2 THEN NothingTaken ELSE ready
    /\ Handled(u, OnPeer(u = 1, end[u], made[u] + 1, FALSE, FALSE))
    /\ UNCHANGED <<queue, rekeys, early>>

TakeOffer(u) ==
    /\ Takes(u, "offer")
    /\ Handled(u, OnOffer(end[u], made[u] + 1, FALSE, Head(queue[u]).pc))

TakeAnswer(u) ==
    /\ Takes(u, "answer")
    /\ Handled(u, [end |-> OnAnswer(end[u], Head(queue[u]).pc), sent |-> <<>>])

\* Mutant: a candidate without a remote description is an error, and gone.
AddIceNow(u, c) ==
    /\ known' = [known EXCEPT ![u] = IF RemoteSet(end[u]) THEN @ \cup {c} ELSE @]
    /\ UNCHANGED pending

\* add_or_queue_ice
AddOrQueueIce(u, c) ==
    IF RemoteSet(end[u])
    THEN known' = [known EXCEPT ![u] = @ \cup {c}] /\ UNCHANGED pending
    ELSE pending' = [pending EXCEPT ![u] = @ \cup {c}] /\ UNCHANGED known

\* on_ice: whatever PeerConnection the candidate is of, it goes to the one
\* there is, and nowhere if there is none.
TakeIce(u) ==
    /\ Takes(u, "ice")
    /\ IF end[u] = Absent THEN UNCHANGED <<pending, known>>
       ELSE AddOrQueueIce(u, Head(queue[u]).cand)
    /\ UNCHANGED <<plan, end, made, due, reported, chatVars>>

\* rekey reaches the offering end; the other one does nothing.
Rekey ==
    /\ due[1] = <<>> /\ end[1] # Absent /\ rekeys < plan.rekeys
    /\ rekeys' = rekeys + 1
    /\ Handled(1, OnRekey(TRUE, end[1], made[1] + 1, FALSE))
    /\ UNCHANGED <<queue, seen, early, ready>>

\* The handler has set the local description and sends it.
SendDue(u) ==
    /\ due[u] # <<>>
    /\ queue' = [queue EXCEPT ![Other(u)] = @ \o due[u]]
    /\ due' = [due EXCEPT ![u] = <<>>]
    /\ UNCHANGED <<plan, end, pending, known, made, reported, seen, rekeys, chatVars, early, ready>>

\* It has a local description: its own offer, or the answer to the other's.
\* An end that was replaced had one too.
Gathers(u, pc) == pc \in 1 .. made[u] /\ (pc = end[u].pc => end[u].offered \/ RemoteSet(end[u]))

\* on_ice_candidate, in a task of the PeerConnection.  One that was closed may
\* still report what it had found.
Report(u) ==
    /\ \E c \in {d \in (1 .. made[u]) \X plan.candidates : Gathers(u, d[1])} \ reported[u] :
          /\ reported' = [reported EXCEPT ![u] = @ \cup {c}]
          /\ queue' = [queue EXCEPT ![Other(u)] = Append(@, IceOf(c))]
          /\ early' = IF u = 1 /\ due[1] # <<>> /\ c[1] = end[1].pc THEN early \cup {c} ELSE early
    /\ UNCHANGED <<plan, end, pending, known, made, due, seen, rekeys, chatVars, ready>>

iceVars == <<plan, end, pending, known, made, due, reported, queue, seen, rekeys, early, ready>>

Linked == /\ end[1].remote = end[2].pc /\ end[2].remote = end[1].pc
          /\ end[1].pc # 0

\* The data channel of the offering end opens, once the link is made.
OpenChat ==
    /\ Linked /\ opened[1] # end[1].pc
    /\ opened' = [opened EXCEPT ![1] = end[1].pc]
    /\ UNCHANGED <<iceVars, slot, said, path, heard, sure>>

\* on_data_channel, at the other end of a channel that is open.
AcceptChat ==
    /\ end[2].remote # 0 /\ opened[1] = end[2].remote /\ opened[2] # end[2].pc
    /\ opened' = [opened EXCEPT ![2] = end[2].pc]
    /\ slot' = [slot EXCEPT ![2] = end[2].pc]
    /\ UNCHANGED <<iceVars, said, path, heard, sure>>

\* The channel of its PeerConnection is open at u.
IsOpen(u) == end[u].pc # 0 /\ opened[u] = end[u].pc

\* broadcast_chat: to the channel in the slot, which takes the line if it is
\* open; on a link that is gone it is lost.
Say(u) ==
    /\ due[u] = <<>> /\ said[u] < plan.lines
    /\ said' = [said EXCEPT ![u] = @ + 1]
    /\ path' = IF Linked /\ IsOpen(u) /\ slot[u] = end[u].pc
               THEN [path EXCEPT ![Other(u)] = Append(@, said'[u])] ELSE path
    /\ sure' = IF Linked /\ IsOpen(1) /\ IsOpen(2)
               THEN [sure EXCEPT ![u] = @ \cup {said'[u]}] ELSE sure
    /\ UNCHANGED <<iceVars, opened, slot, heard>>

\* on_message
Hear(u) ==
    /\ IsOpen(u) /\ path[u] # <<>>
    /\ heard' = [heard EXCEPT ![u] = Append(@, Head(path[u]))]
    /\ path' = [path EXCEPT ![u] = Tail(@)]
    /\ UNCHANGED <<iceVars, opened, slot, said, sure>>

Next == \/ Rekey \/ OpenChat \/ AcceptChat
        \/ \E u \in Users : \/ See(u) \/ TakeOffer(u) \/ TakeAnswer(u) \/ TakeIce(u)
                            \/ SendDue(u) \/ Report(u) \/ Say(u) \/ Hear(u)

Spec == Init /\ [][Next]_vars

-----------------------------------------------------------------------------
(* Properties.                                                             *)

AnyPc == 1 .. (plan.rekeys + 1)
AnyCandidate == AnyPc \X plan.candidates
Messages == [type : {"offer", "answer"}, pc : AnyPc]
            \cup [type : {"ice"}, cand : AnyCandidate]

\* Every variable has its type, and candidates wait at ends without keys only:
\* a PeerConnection is never given one it would refuse, nor left without one it
\* would take (mesh.rs:40-57).
TypeOK ==
    /\ end \in [Users -> Ends \cup {Absent}]
    /\ pending \in [Users -> SUBSET AnyCandidate] /\ known \in [Users -> SUBSET AnyCandidate]
    /\ \A u \in Users : IF RemoteSet(end[u]) THEN pending[u] = {} ELSE known[u] = {}
    /\ made \in [Users -> AnyPc \cup {0}]
    /\ due \in [Users -> Seq(Messages)]
    /\ reported \in [Users -> SUBSET AnyCandidate]
    /\ queue \in [Users -> Seq(Messages)]
    /\ seen \in [Users -> BOOLEAN]
    /\ plan \in Plans /\ rekeys \in 0 .. plan.rekeys
    /\ opened \in [Users -> AnyPc \cup {0}] /\ slot \in [Users -> AnyPc \cup {0}]
    /\ said \in [Users -> 0 .. plan.lines] /\ sure \in [Users -> SUBSET (1 .. plan.lines)]
    /\ path \in [Users -> Seq(1 .. plan.lines)] /\ heard \in [Users -> Seq(1 .. plan.lines)]
    /\ early \subseteq AnyCandidate /\ ready \in BOOLEAN

\* The link is made, and all its candidates were reported and have arrived.
Complete == /\ Linked
            /\ \A u \in Users : /\ due[u] = <<>> /\ queue[u] = <<>>
                                /\ CandidatesOf(end[u].pc) \subseteq reported[u]

Missed(u) == CandidatesOf(end[Other(u)].pc) \ known[u]

\* The offering end comes to know every candidate of the PeerConnection it is
\* linked to, those ahead of the answer too, after any rekey; the answering end
\* all but those that were ahead of their offer, and on the first link not even
\* those are lost, if it had an entry for the peer to keep them at
\* (mesh.rs:40-57, 196-202, 216-248).
CandidatesGetThere ==
    Complete => /\ Missed(1) = {}
                /\ Missed(2) \subseteq IF rekeys = 0 /\ ready THEN {} ELSE early

\* Every line said on a link that was made and open at both ends has been heard
\* when none is on its way, as long as no end was replaced since: whatever
\* PeerConnections went before, the slots hold the channels of those that are
\* there (mesh.rs:60-74, 168-180, 204-208, 297-310).
LinesAreHeard ==
    \A u \in Users : path[Other(u)] = <<>>
        => \A i \in sure[u] : \E j \in DOMAIN heard[Other(u)] : heard[Other(u)][j] = i

\* Refuted: a line that is shown to who said it on a complete link is heard.  The
\* channel may not be open yet, or the other end is being replaced.
SaidIsHeard ==
    Complete /\ IsOpen(1) /\ IsOpen(2) /\ (\A u \in Users : path[u] = <<>>)
        => \A u \in Users : Len(heard[Other(u)]) = said[u]

\* Refuted: no candidate is lost.  One ahead of its offer goes to the
\* PeerConnection the offer is about to replace, or to none.
NothingIsLost == Complete => Missed(2) = {}

\* Refuted: a PeerConnection is given the candidates of its own link only.
OwnCandidatesOnly == Complete => \A u \in Users : known[u] \subseteq CandidatesOf(end[Other(u)].pc)
=============================================================================
