----------------------------- MODULE InitRelay -----------------------------
(***************************************************************************)
(* The signaling relay of server/init/src/main.rs: the WebSocket handlers  *)
(* (handle_socket), the shared map `rooms`, and the bounded outbound queue *)
(* with its writer task that every socket owns.                            *)
(*                                                                         *)
(* One element of Conns is one call of handle_socket: a socket is accepted *)
(* once, joins at most one room and is never reused; a client that comes   *)
(* back does so on another socket.  Each block the code runs under the     *)
(* `rooms` lock is one action.  The block that inserts a newcomer and the  *)
(* Roster sent to it are separate actions, because the code releases the   *)
(* lock between them.                                                      *)
(*                                                                         *)
(* A message's payload, a peer's display name and the TURN credentials are *)
(* left out.  The client at the far end of a socket is the Engine of       *)
(* companion-core; only its `members` map is kept (view), so that what the *)
(* relay promises about rosters can be stated.                             *)
(***************************************************************************)
EXTENDS Naturals, Sequences, FiniteSets

CONSTANTS
    Conns,        \* sockets
    Users,        \* user_ids that pass len_ok
    Rooms,        \* room names whose token the client knows
    Kinds,        \* relayed kinds: a subset of {"offer", "answer", "ice"}
    Claims,       \* socket -> the user_ids its client may join under
    NoConn,       \* no handle
    WarnCap,      \* WARN_CAP
    HardCap,      \* HARD_CAP
    PeerChan,     \* PEER_CHAN, the capacity of an outbound queue
    TurnEnabled,  \* AppState.turn is Some
    Fragile,      \* bound: the sockets whose transport may fail while open
    MaxRequests   \* bound: frames handled that are neither a Join nor a Leave

ASSUME NoConnAssumption == NoConn \notin Conns
ASSUME ClaimsAssumption == Claims \in [Conns -> SUBSET Users]
ASSUME CapAssumption == HardCap \in Nat \ {0} /\ WarnCap \in Nat
ASSUME ChanAssumption == PeerChan \in Nat \ {0}

VARIABLES
    \* the shared state
    rooms,    \* AppState.rooms: room -> user_id -> the socket owning the handle
    queue,    \* socket -> its mpsc channel of ServerMsg
    writer,   \* socket -> "running" | "stopped", the writer task
    \* the locals of handle_socket
    phase,    \* socket -> where its handler is
    id,       \* socket -> (room, user_id) it inserted itself under
    roster,   \* socket -> the roster snapshot taken under the lock
    requests, \* how many frames were handled by Complain, Relay, Ptt, Rekey
    \* the client of the socket
    view,     \* socket -> Engine's members, as a set of user_ids
    seen,     \* socket -> which of the messages in Noted the client has handled
    \* history, read by properties only
    dropped,  \* sockets that lost a message to a full or closed queue
    raced,    \* sockets sent a membership event between insertion and Roster
    refused   \* sockets whose Join met a full room

server  == <<rooms, queue, writer>>
handler == <<phase, id, roster, requests>>
client  == <<view, seen>>
history == <<dropped, raced, refused>>
vars    == <<server, handler, client, history>>

Phases == {"new", "open", "inserted", "rostered", "joined", "closing", "closed"}
NoId   == [room |-> "none", user |-> "none"]
Ids    == [room : Rooms, user : Users]

ASSUME IdAssumption == "none" \notin Rooms /\ "none" \notin Users

-----------------------------------------------------------------------------
(* ServerMsg.  via is history: the socket whose handler built the message. *)

Message ==
         [t : {"roster"}, peers : SUBSET Users, via : Conns]
    \cup [t : {"joined", "left", "ptt"}, user : Users, via : Conns]
    \cup [t : {"relay"}, kind : Kinds, from : Users, via : Conns]
    \cup [t : {"turn", "rekey", "warn", "full", "error"}, via : Conns]

\* The messages whose arrival a property asks about.
Noted == {"roster", "full"}

Plain(type, c)      == [t |-> type, via |-> c]
About(type, u, c)   == [t |-> type, user |-> u, via |-> c]
RosterOf(S, c)      == [t |-> "roster", peers |-> S, via |-> c]
Relayed(k, u, c)    == [t |-> "relay", kind |-> k, from |-> u, via |-> c]

-----------------------------------------------------------------------------
(* Rooms.  A room that is absent from the map is one without members.      *)

Members(r)    == {u \in Users : rooms[r][u] # NoConn}
\* Seeded fault: the user is looked up in every room.
HandlesAnywhere(r, S) == UNION {{rooms[q][u] : u \in S} : q \in Rooms} \ {NoConn}
Handles(r, S) == {rooms[r][u] : u \in S} \ {NoConn}
Listed(c)     == /\ id[c] # NoId
                 /\ rooms[id[c].room][id[c].user] = c

\* me: set at the end of the Join arm, from the room and user of the Join.
HasJoined(c) == phase[c] = "joined"

\* Seeded fault: the cap is checked after one more member.
FullLate(r, u) == Cardinality(Members(r)) > HardCap /\ u \notin Members(r)
Full(r, u) == Cardinality(Members(r)) >= HardCap /\ u \notin Members(r)

-----------------------------------------------------------------------------
(* mpsc::Sender::try_send: a message to a full queue, or to one whose      *)
(* writer has gone, is silently discarded.                                 *)

\* Seeded fault: an unbounded channel.
FitAnything(s) == s
Fit(s) == IF Len(s) <= PeerChan THEN s ELSE SubSeq(s, 1, PeerChan)

\* The queues after out[d] was sent to every socket d, and who lost some of it.
Sent(out) == [d \in Conns |-> IF writer[d] = "running"
                              THEN Fit(queue[d] \o out[d])
                              ELSE queue[d]]
Lost(out) == {d \in Conns : /\ out[d] # << >>
                            /\ \/ writer[d] = "stopped"
                               \/ Len(queue[d]) + Len(out[d]) > PeerChan}

TrySend(out) == queue' = Sent(out) /\ dropped' = dropped \cup Lost(out)

To(S, m) == [d \in Conns |-> IF d \in S THEN <<m>> ELSE << >>]

\* Membership events in out that reach a socket still waiting for its Roster.
Race(out) ==
    raced' = raced \cup {d \in Conns : /\ phase[d] = "inserted"
                                       /\ \E i \in DOMAIN out[d] :
                                            out[d][i].t \in {"joined", "left"}}

-----------------------------------------------------------------------------
Init ==
    /\ rooms    = [r \in Rooms |-> [u \in Users |-> NoConn]]
    /\ queue    = [c \in Conns |-> << >>]
    /\ writer   = [c \in Conns |-> "running"]
    /\ phase    = [c \in Conns |-> "new"]
    /\ id       = [c \in Conns |-> NoId]
    /\ roster   = [c \in Conns |-> {}]
    /\ requests = 0
    /\ view     = [c \in Conns |-> {}]
    /\ seen     = [c \in Conns |-> {}]
    /\ dropped  = {}
    /\ raced    = {}
    /\ refused  = {}

Goto(c, p) == phase' = [phase EXCEPT ![c] = p]

\* The upgrade: handle_socket starts, its queue is empty, its writer runs.
Accept(c) ==
    /\ phase[c] = "new"
    /\ Goto(c, "open")
    /\ UNCHANGED <<server, id, roster, requests, client, history>>

-----------------------------------------------------------------------------
(* The Join arm.                                                           *)

\* Fields out of bounds or a wrong token: an Error, and the loop ends.
JoinRejected(c) ==
    /\ phase[c] = "open"
    /\ Goto(c, "closing")
    /\ TrySend(To({c}, Plain("error", c)))
    /\ UNCHANGED <<rooms, writer, id, roster, requests, client, raced, refused>>

\* The room is at its cap and u is not a member coming back.
JoinRefused(c, r, u) ==
    /\ phase[c] = "open"
    /\ Full(r, u)
    /\ Goto(c, "closing")
    /\ TrySend(To({c}, Plain("full", c)))
    /\ refused' = refused \cup {c}
    /\ UNCHANGED <<rooms, writer, id, roster, requests, client, raced>>

\* Who is warned of the size of a room that now has the members S.
Warned(S) == IF Cardinality(S) >= WarnCap THEN S ELSE {}

\* What the locked block of the Join arm sends: an Error to a superseded
\* socket, PeerJoined to the others, Warn to all from WARN_CAP members on.
JoinOut(c, r, u) ==
    LET others == Handles(r, Members(r) \ {u})
        warned == Warned(Members(r) \cup {u})
        warn   == Handles(r, warned \ {u}) \cup {d \in {c} : u \in warned}
    IN  [d \in Conns |->
            (IF d = rooms[r][u] THEN <<Plain("error", c)>> ELSE << >>)
         \o (IF d \in others THEN <<About("joined", u, c)>> ELSE << >>)
         \o (IF d \in warn   THEN <<Plain("warn", c)>>      ELSE << >>)]

Join(c, r, u) ==
    /\ phase[c] = "open"
    /\ ~ Full(r, u)
    /\ Goto(c, "inserted")
    /\ id'     = [id EXCEPT ![c] = [room |-> r, user |-> u]]
    /\ roster' = [roster EXCEPT ![c] = Members(r) \ {u}]
    /\ rooms'  = [rooms EXCEPT ![r][u] = c]
    /\ TrySend(JoinOut(c, r, u))
    /\ Race(JoinOut(c, r, u))
    /\ UNCHANGED <<writer, requests, client, refused>>

\* Seeded fault: the newcomer is not told who is there.
SendNoRoster(c) ==
    /\ phase[c] = "inserted"
    /\ Goto(c, "rostered")
    /\ UNCHANGED <<server, id, roster, requests, client, history>>

\* After the unlock: the Roster, from the snapshot.
SendRoster(c) ==
    /\ phase[c] = "inserted"
    /\ Goto(c, "rostered")
    /\ TrySend(To({c}, RosterOf(roster[c], c)))
    /\ UNCHANGED <<rooms, writer, id, roster, requests, client, raced, refused>>

\* TURN credentials when configured; then me = Some((room, user_id)).
SendTurn(c) ==
    /\ phase[c] = "rostered"
    /\ Goto(c, "joined")
    /\ TrySend(To({d \in {c} : TurnEnabled}, Plain("turn", c)))
    /\ UNCHANGED <<rooms, writer, id, roster, requests, client, raced, refused>>

-----------------------------------------------------------------------------
(* The other arms.  The room is looked up under the name in `me`; nothing  *)
(* checks that this socket still holds its own handle there.               *)

Request ==
    /\ requests < MaxRequests
    /\ requests' = requests + 1
    /\ UNCHANGED <<rooms, writer, phase, id, roster, client, raced, refused>>

\* A frame that does not parse, or a second Join: an Error, the loop goes on.
Complain(c) ==
    /\ phase[c] \in {"open", "joined"}
    /\ Request
    /\ TrySend(To({c}, Plain("error", c)))

\* Offer, Answer, Ice: to one member of the sender's room.
Relay(c, to, k) ==
    /\ HasJoined(c)
    /\ Request
    /\ TrySend(To(Handles(id[c].room, {to}), Relayed(k, id[c].user, c)))

\* Ptt: to every handle in the room but the one under the sender's user_id.
Ptt(c) ==
    /\ HasJoined(c)
    /\ Request
    /\ TrySend(To(Handles(id[c].room, Users \ {id[c].user}),
                  About("ptt", id[c].user, c)))

\* Rekey: to every handle in the room.
Rekey(c) ==
    /\ HasJoined(c)
    /\ Request
    /\ TrySend(To(Handles(id[c].room, Users), Plain("rekey", c)))

\* Leave, a Close frame, or the end of the stream: the loop ends.
Hangup(c) ==
    /\ phase[c] \in {"open", "joined"}
    /\ Goto(c, "closing")
    /\ UNCHANGED <<server, id, roster, requests, client, history>>

\* Seeded fault: the handle stays behind.
UnlistNothing(c) == rooms

\* Whoever is listed under the closing socket's user_id leaves the room.
Unlist(c) == IF id[c] = NoId THEN rooms
             ELSE [rooms EXCEPT ![id[c].room][id[c].user] = NoConn]

\* Seeded fault: only a handle that is still this socket's own is announced,
\* while whatever handle is there is removed.
CleanupOutIfListed(c) ==
    IF ~ Listed(c)
    THEN [d \in Conns |-> << >>]
    ELSE To(Handles(id[c].room, Users \ {id[c].user}), About("left", id[c].user, c))

\* PeerLeft to whoever remains in the room.
CleanupOut(c) ==
    IF id[c] = NoId
    THEN [d \in Conns |-> << >>]
    ELSE To(Handles(id[c].room, Users \ {id[c].user}), About("left", id[c].user, c))

\* The cleanup: remove the handle, tell the rest, abort the writer.
Cleanup(c) ==
    /\ phase[c] = "closing"
    /\ Goto(c, "closed")
    /\ queue'   = [Sent(CleanupOut(c)) EXCEPT ![c] = << >>]
    /\ dropped' = dropped \cup Lost(CleanupOut(c))
    /\ Race(CleanupOut(c))
    /\ rooms'   = Unlist(c)
    /\ writer'  = [writer EXCEPT ![c] = "stopped"]
    /\ UNCHANGED <<id, roster, requests, client, refused>>

-----------------------------------------------------------------------------
(* The writer task, and the client that handles what it sends.             *)

\* Engine's members after a message.
Apply(S, m) ==
    CASE m.t = "roster" -> m.peers
      [] m.t = "joined" -> S \cup {m.user}
      [] m.t = "left"   -> S \ {m.user}
      [] OTHER          -> S

Deliver(c) ==
    /\ writer[c] = "running"
    /\ queue[c] # << >>
    /\ queue' = [queue EXCEPT ![c] = Tail(@)]
    /\ view'  = [view EXCEPT ![c] = Apply(@, Head(queue[c]))]
    /\ seen'  = [seen EXCEPT ![c] = @ \cup ({Head(queue[c]).t} \cap Noted)]
    /\ UNCHANGED <<rooms, writer, handler, history>>

\* The transport is gone: the writer ends, what is queued is lost.
WriterFails(c) ==
    /\ c \in Fragile
    /\ writer[c] = "running"
    /\ phase[c] \notin {"new", "closed"}
    /\ writer'  = [writer EXCEPT ![c] = "stopped"]
    /\ queue'   = [queue EXCEPT ![c] = << >>]
    /\ dropped' = dropped \cup {c}
    /\ UNCHANGED <<rooms, handler, client, raced, refused>>

-----------------------------------------------------------------------------
Handler(c) ==
    \/ Accept(c)
    \/ JoinRejected(c)
    \/ \E r \in Rooms, u \in Claims[c] : JoinRefused(c, r, u) \/ Join(c, r, u)
    \/ SendRoster(c)
    \/ SendTurn(c)
    \/ Complain(c)
    \/ \E to \in Users, k \in Kinds : Relay(c, to, k)
    \/ Ptt(c)
    \/ Rekey(c)
    \/ Hangup(c)
    \/ Cleanup(c)

Next == \E c \in Conns : Handler(c) \/ Deliver(c) \/ WriterFails(c)

Spec == Init /\ [][Next]_vars

\* A handler never waits once it has begun to answer, and a writer whose
\* transport works keeps draining.  Clients need not send anything.
Fairness ==
    \A c \in Conns : /\ WF_vars(SendRoster(c))
                     /\ WF_vars(SendTurn(c))
                     /\ WF_vars(Cleanup(c))
                     /\ WF_vars(Deliver(c))

FairSpec == Spec /\ Fairness

-----------------------------------------------------------------------------
(* Properties.                                                             *)

\* Every variable has its type; a queue never outgrows its channel
\* (mpsc::channel(PEER_CHAN), main.rs:441).
TypeOK ==
    /\ rooms \in [Rooms -> [Users -> Conns \cup {NoConn}]]
    /\ queue \in [Conns -> Seq(Message)]
    /\ \A c \in Conns : Len(queue[c]) <= PeerChan
    /\ writer \in [Conns -> {"running", "stopped"}]
    /\ phase \in [Conns -> Phases]
    /\ id \in [Conns -> Ids \cup {NoId}]
    /\ roster \in [Conns -> SUBSET Users]
    /\ requests \in Nat
    /\ view \in [Conns -> SUBSET Users]
    /\ seen \in [Conns -> SUBSET Noted]
    /\ dropped \subseteq Conns
    /\ raced \subseteq Conns
    /\ refused \subseteq Conns

\* No room ever holds more than HARD_CAP members, though a returning user_id
\* is let in at the cap (main.rs:503).
RoomWithinCap == \A r \in Rooms : Cardinality(Members(r)) <= HardCap

\* A handle in a room belongs to a socket whose handler has inserted itself
\* under exactly that room and user_id and has not finished its cleanup: no
\* path out of the loop leaves a handle to a dead queue behind
\* (main.rs:598-612).
HandlesAreLive ==
    \A r \in Rooms, u \in Users :
        rooms[r][u] # NoConn =>
            LET c == rooms[r][u]
            IN  /\ id[c] = [room |-> r, user |-> u]
                /\ phase[c] \in {"inserted", "rostered", "joined", "closing"}

\* Under the given ids, m, in the queue of c, comes from the handler of c or from that of a socket
\* which joined the room c joined, under the user_id m names.
Authentic(ids, m, c) ==
    /\ m.via # c => /\ ids[c] # NoId
                    /\ ids[m.via] # NoId
                    /\ ids[m.via].room = ids[c].room
    /\ m.t = "relay" => ids[m.via].user = m.from
    /\ m.t \in {"joined", "left", "ptt"} => ids[m.via].user = m.user

\* Whatever was superseded or left since, a queue holds only messages of the
\* socket's own room, stamped with the user_id their sender joined under
\* (relay_to, main.rs:617-630).
MessagesStayInRoom ==
    \A c \in Conns : \A i \in DOMAIN queue[c] : Authentic(id, queue[c][i], c)

\* Nothing is on its way to the client of c and nothing was lost.
Settled(c) == /\ Listed(c)
              /\ phase[c] = "joined"
              /\ queue[c] = << >>
              /\ c \notin dropped

\* Once its queue has drained, a listed client that lost no message and was
\* sent no membership event ahead of its Roster shows exactly the other
\* members of its room, through supersession, late cleanups and rejoins
\* (main.rs:508-529, 598-609; companion-core lib.rs:394-408).
SettledViewIsRoom ==
    \A c \in Conns : Settled(c) /\ c \notin raced =>
        view[c] = Members(id[c].room) \ {id[c].user}

\* An accepted Join is answered: the client sees its Roster, unless the
\* message was lost or the socket ends (main.rs:539).
JoinIsAnswered ==
    \A c \in Conns :
        phase[c] = "inserted" ~> \/ "roster" \in seen[c]
                                \/ c \in dropped
                                \/ phase[c] = "closed"

\* A client that shows a user who is no longer in its room eventually stops
\* doing so, or the user comes back, unless the client is itself cut off,
\* lost a message or was overtaken while waiting for its Roster
\* (main.rs:599-609).
DepartureIsSeen ==
    \A c \in Conns, u \in Users :
        (Listed(c) /\ u \in view[c] /\ u \notin Members(id[c].room))
            ~> \/ u \notin view[c]
               \/ ~ Listed(c)
               \/ u \in Members(id[c].room)
               \/ c \in dropped \cup raced

(* Claims of the documentation that the code does not keep.                *)

\* "Keine versteckten Teilnehmer" (docs/ARCHITECTURE.md:263): a settled
\* client shows every member of its room.
NoHiddenParticipant ==
    \A c \in Conns : Settled(c) =>
        Members(id[c].room) \ {id[c].user} \subseteq view[c]

\* "wer im Room ist, ist fuer alle sichtbar" (docs/ARCHITECTURE.md:266): a
\* listed socket loses its place only to its own end or to a newer Join
\* under its user_id.
OnlyOwnEndUnlists ==
    [][\A c \in Conns : Listed(c) /\ ~ Listed(c)' =>
          \/ phase'[c] = "closed"
          \/ \E d \in Conns : id[d] = NoId /\ id'[d] = id[c]]_vars

\* "Join refused - room at hard cap" (crates/protocol/src/lib.rs:75) is told
\* to the client before its socket is gone.
RefusalIsDelivered ==
    \A c \in refused : phase[c] = "closed" /\ c \notin dropped => "full" \in seen[c]

=============================================================================
