------------------------------- MODULE Squad -------------------------------
(***************************************************************************)
(* A squad: the engines of its members (apps/companion-core/src/lib.rs)    *)
(* with their meshes (MeshLink), their signaling sockets (signaling.rs),   *)
(* and the room they share on the server (server/init/src/main.rs).        *)
(*                                                                         *)
(* The server is InitRelay's without what that module is about: one room,  *)
(* below its cap, one user_id per client, queues that do not overflow.     *)
(* What a socket carries is in order; a socket that breaks loses what it   *)
(* still carried, and each side notices when it does.                      *)
(***************************************************************************)
EXTENDS MeshLink, FiniteSets, SequencesExt

CONSTANTS
    Users,        \* user_ids; their order is that of the numbers
    MaxSockets,   \* bound: sockets a user opens
    Environments  \* the surroundings a behaviour may have

\* Who starts, whose sockets may break, who may leave, bounds on the sockets of
\* a user and on the rekey and push-to-talk commands, which of "rekey", "break"
\* and "leave" come only when all is settled, and whether the server notices a
\* break before the user is back.
Surroundings == [members : SUBSET Users, droppers : SUBSET Users, quitters : SUBSET Users,
                 sockets : 1 .. MaxSockets, rekeys : Nat, talks : Nat,
                 patient : SUBSET {"rekey", "break", "leave"}, prompt : BOOLEAN]

ASSUME SquadAssumption == /\ Users \subseteq Nat /\ IsFiniteSet(Users) /\ MaxSockets \in Nat \ {0}
                          /\ \A e \in Environments : e \in Surroundings

VARIABLES
    env,        \* one of the environments, for good
    engine,     \* user -> "off", "up" (cur_in is Some), "down" or "gone"
    sock,       \* user -> the number of its latest socket, 0 before the first
    peers,      \* user -> user -> the end of their link (Mesh.peers)
    made,       \* user -> user -> PeerConnections built for that end
    turn,       \* user -> whether add_turn was called
    speaking,   \* user -> members whose entry says they are speaking
    transmit,   \* user -> whether it transmits
    uplink,     \* user -> up_rx: messages of the mesh on their way to cur_out
    wire,       \* user -> socket -> client messages the server has not handled
    inbox,      \* user -> server messages on the latest socket, not handled
    broken,     \* sockets that carry nothing any more
    handler,    \* user -> socket -> handle_socket: its phase and, once it has
                \* joined, the roster it owes
    room,       \* user -> the socket listed in the room, 0 if none
    rekeys,     \* rekey commands given
    talks,      \* changes of transmit commanded
    calm,       \* history: a rekey was commanded when all was quiet, and no socket
                \* broke, nobody came, came back or left, and none was since
    aired       \* history: users who last changed transmit when they were in the
                \* room and everybody knew everybody, with nothing of this since

vars == <<env, engine, sock, peers, made, turn, uplink, wire, inbox, broken, handler,
          room, speaking, transmit, rekeys, talks, calm, aired>>

engineVars == <<engine, sock, peers, made, turn, uplink, speaking, transmit>>
serverVars == <<handler, room>>
commandVars == <<rekeys, talks, calm, aired>>

Sockets == 1 .. MaxSockets
Closed  == [phase |-> "closed", roster |-> {}]
Opened  == [phase |-> "open",   roster |-> {}]
JoinMsg  == [type |-> "join"]
RekeyMsg == [type |-> "rekey"]
PttMsg(active) == [type |-> "ptt", active |-> active]

Init ==
    /\ env \in Environments
    /\ engine = [u \in Users |-> "off"]
    /\ sock = [u \in Users |-> 0]
    /\ peers = [u \in Users |-> [v \in Users |-> Absent]]
    /\ made = [u \in Users |-> [v \in Users |-> 0]]
    /\ turn = [u \in Users |-> FALSE]
    /\ uplink = [u \in Users |-> <<>>]
    /\ wire = [u \in Users |-> [s \in Sockets |-> <<>>]]
    /\ inbox = [u \in Users |-> <<>>]
    /\ broken = {}
    /\ handler = [u \in Users |-> [s \in Sockets |-> Closed]]
    /\ room = [u \in Users |-> 0]
    /\ speaking = [u \in Users |-> {}]
    /\ transmit = [u \in Users |-> FALSE]
    /\ rekeys = 0 /\ talks = 0
    /\ calm = FALSE /\ aired = {}

-----------------------------------------------------------------------------
\* The latest socket of u carries messages.
Carries(u) == engine[u] = "up" /\ <<u, sock[u]>> \notin broken

\* Nothing of u is in flight or half done (the server may be unaware of broken
\* sockets); u is in the room, on the socket it listens to.
IsIdle(u) ==
    /\ inbox[u] = <<>> /\ uplink[u] = <<>>
    /\ \A s \in Sockets : handler[u][s].phase \in {"closed", "serving"} /\ wire[u][s] = <<>>
IsPresent(u) == Carries(u) /\ room[u] = sock[u]
Quiet == \A u \in Users : IsIdle(u)

\* Nobody is being welcomed, and whoever was has the roster.
Introduced ==
    \A u \in Users : /\ \A s \in Sockets : handler[u][s].phase \in {"closed", "serving"}
                    /\ \A i \in DOMAIN inbox[u] : inbox[u][i].type # "roster"

Settled == Quiet /\ \A u \in env.members : IsPresent(u) \/ engine[u] = "gone"

-----------------------------------------------------------------------------
(* Sockets.                                                                *)

\* inbox after `out[u]` was sent to socket to[u] of each user.
Delivered(out, to) ==
    [u \in Users |-> IF Carries(u) /\ to[u] = sock[u] THEN inbox[u] \o out[u] ELSE inbox[u]]

\* The reader of a client that is gone fails on the first message it gets, and
\* only then is the socket closed.
Failed(out, to) == {<<u, to[u]>> : u \in {v \in Users : /\ engine[v] = "gone"
                                                        /\ to[v] = sock[v] /\ to[v] # 0
                                                        /\ out[v] # <<>>}}

Send(out, to) == /\ inbox' = Delivered(out, to)
                 /\ broken' = broken \cup Failed(out, to)

\* The members of the room, and a message to a set of them.
Listed == {u \in Users : room[u] # 0}
ToAll(members, msgs) == [u \in Users |-> IF u \in members THEN msgs ELSE <<>>]

Connected(u) ==
    /\ sock[u] < env.sockets
    /\ sock' = [sock EXCEPT ![u] = @ + 1]
    /\ engine' = [engine EXCEPT ![u] = "up"]
    /\ wire' = [wire EXCEPT ![u][sock[u] + 1] = <<JoinMsg>>]
    /\ handler' = [handler EXCEPT ![u][sock[u] + 1] = Opened]

\* Somebody comes, comes back or leaves, or a socket breaks.
Disturbs == calm' = FALSE /\ aired' = {} /\ UNCHANGED <<rekeys, talks>>

\* start: the first socket, and Join.
Start(u) ==
    /\ u \in env.members /\ engine[u] = "off"
    /\ Connected(u)
    /\ Disturbs
    /\ UNCHANGED <<peers, made, turn, uplink, speaking, transmit, inbox, broken, room>>

\* A socket breaks, before the last one the bound allows.
Break(u) ==
    /\ u \in env.droppers
    /\ "break" \in env.patient => Settled
    /\ Carries(u)
    /\ sock[u] < env.sockets
    /\ broken' = broken \cup {<<u, sock[u]>>}
    /\ Disturbs
    /\ UNCHANGED <<engineVars, wire, inbox, serverVars>>

\* Seeded fault: what was not received yet is handled later.
SignalingLostKeepsInbox(u) ==
    /\ engine[u] = "up"
    /\ <<u, sock[u]>> \in broken
    /\ engine' = [engine EXCEPT ![u] = "down"]
    /\ UNCHANGED <<sock, peers, made, turn, uplink, speaking, transmit, wire, inbox, broken, serverVars,
                   commandVars>>

\* The engine's receive yields None: what was not received yet is lost.
SignalingLost(u) ==
    /\ engine[u] = "up"
    /\ <<u, sock[u]>> \in broken
    /\ engine' = [engine EXCEPT ![u] = "down"]
    /\ inbox' = [inbox EXCEPT ![u] = <<>>]
    /\ UNCHANGED <<sock, peers, made, turn, uplink, speaking, transmit, wire, broken, serverVars,
                   commandVars>>

\* Automatically or on command, the engine connects and joins again; the mesh
\* is what it was.
Reconnect(u) ==
    /\ engine[u] = "down"
    /\ env.prompt => handler[u][sock[u]] = Closed
    /\ Connected(u)
    /\ Disturbs
    /\ UNCHANGED <<peers, made, turn, uplink, speaking, transmit, inbox, broken, room>>

\* disconnect drops the engine: its loop ends, and with it the writer of its
\* socket.  The reader, and so the socket, stays until a message comes.
Disconnect(u) ==
    /\ u \in env.quitters
    /\ "leave" \in env.patient => Settled
    /\ engine[u] \in {"up", "down"}
    /\ engine' = [engine EXCEPT ![u] = "gone"]
    /\ peers' = [peers EXCEPT ![u] = [v \in Users |-> Absent]]
    /\ uplink' = [uplink EXCEPT ![u] = <<>>]
    /\ inbox' = [inbox EXCEPT ![u] = <<>>]
    /\ \/ broken' = broken
       \/ inbox[u] # <<>> /\ broken' = broken \cup {<<u, sock[u]>>}
    /\ Disturbs
    /\ UNCHANGED <<sock, made, turn, speaking, transmit, wire, serverVars>>

-----------------------------------------------------------------------------
(* The engine's loop.                                                      *)

\* The engine of u sends a message to the current connection, if there is one.
Sent(u, msg) ==
    IF Carries(u) THEN [wire EXCEPT ![u][sock[u]] = Append(@, msg)] ELSE wire

\* The next message of up_rx goes to the current connection, if there is one.
Forward(u) ==
    /\ uplink[u] # <<>>
    /\ uplink' = [uplink EXCEPT ![u] = Tail(@)]
    /\ wire' = Sent(u, Head(uplink[u]))
    /\ UNCHANGED <<engine, sock, peers, made, turn, speaking, transmit, inbox, broken, serverVars,
                   commandVars>>

Addressed(msg, v) == [type |-> msg.type, pc |-> msg.pc, to |-> v]

\* u handles a message of this type: at its end to each of the users in vs the
\* handler leaves the end h[v].end and sends what h[v].sent has, if anything.
Handles(u, type, vs, h) ==
    LET to == SetToSeq({v \in vs : h[v].sent # <<>>})
    IN  /\ engine[u] = "up"
        /\ inbox[u] # <<>>
        /\ Head(inbox[u]).type = type
        /\ inbox' = [inbox EXCEPT ![u] = Tail(@)]
        /\ peers' = [peers EXCEPT ![u] = [v \in Users |-> IF v \in vs THEN h[v].end ELSE @[v]]]
        /\ made' = [made EXCEPT ![u] =
                       [v \in Users |-> IF v \in vs /\ h[v].end.pc > @[v]
                                        THEN h[v].end.pc ELSE @[v]]]
        /\ uplink' = [uplink EXCEPT ![u] =
                         @ \o [i \in DOMAIN to |-> Addressed(Head(h[to[i]].sent), to[i])]]
        /\ UNCHANGED <<engine, sock, transmit, wire, broken, serverVars, commandVars>>

Got(u) == Head(inbox[u])
Silent(e) == [end |-> e, sent |-> <<>>]

\* members, as far as emit_roster shows who is speaking: an entry comes with
\* the flag down, and whether there is one for a user is InitRelay's subject.
Unflag(u, vs) == speaking' = [speaking EXCEPT ![u] = @ \ vs]

\* emit_roster: who is shown to u as speaking, itself included.
Speakers(u) == speaking[u] \cup {v \in {u} : transmit[u]}

GetRoster(u) ==
    \E again \in BOOLEAN :
        LET h == [v \in Users |-> OnPeer(u < v, peers[u][v], made[u][v] + 1, turn[u], again)]
        IN  /\ Handles(u, "roster", Got(u).users, h)
            /\ Unflag(u, Users)
            /\ UNCHANGED turn

GetPeerJoined(u) ==
    \E again \in BOOLEAN :
        LET h == [v \in Users |-> OnPeer(u < v, peers[u][v], made[u][v] + 1, turn[u], again)]
        IN  /\ Handles(u, "joined", {Got(u).user}, h)
            /\ Unflag(u, {Got(u).user})
            /\ UNCHANGED turn

\* Seeded fault: the PeerConnection is kept.
GetPeerLeftInRosterOnly(u) ==
    LET h == [v \in Users |-> Silent(peers[u][v])]
    IN  /\ Handles(u, "left", {Got(u).user}, h)
        /\ Unflag(u, {Got(u).user})
        /\ UNCHANGED turn

GetPeerLeft(u) ==
    LET h == [v \in Users |-> Silent(OnLeft(peers[u][v]))]
    IN  /\ Handles(u, "left", {Got(u).user}, h)
        /\ Unflag(u, {Got(u).user})
        /\ UNCHANGED turn

GetOffer(u) ==
    LET h == [v \in Users |-> OnOffer(peers[u][v], made[u][v] + 1, turn[u], Got(u).pc)]
    IN  Handles(u, "offer", {Got(u).user}, h) /\ UNCHANGED <<turn, speaking>>

GetAnswer(u) ==
    LET h == [v \in Users |-> Silent(OnAnswer(peers[u][v], Got(u).pc))]
    IN  Handles(u, "answer", {Got(u).user}, h) /\ UNCHANGED <<turn, speaking>>

GetRekey(u) ==
    LET h == [v \in Users |-> OnRekey(u < v, peers[u][v], made[u][v] + 1, turn[u])]
    IN  Handles(u, "rekey", {v \in Users : peers[u][v] # Absent}, h) /\ UNCHANGED <<turn, speaking>>

GetTurn(u) ==
    LET h == [v \in Users |-> Silent(peers[u][v])]
    IN  /\ Handles(u, "turn", {}, h)
        /\ turn' = [turn EXCEPT ![u] = TRUE]
        /\ UNCHANGED speaking

\* Seeded fault: whoever changes is shown as what it was not.
GetPttChange(u) ==
    LET h == [v \in Users |-> Silent(peers[u][v])]
    IN  /\ Handles(u, "ptt", {}, h)
        /\ speaking' = [speaking EXCEPT ![u] = SymDiff(@, {Got(u).user})]
        /\ UNCHANGED turn

\* The entry is told what the message says.  Where there is none the code drops
\* it, which is the same: the flag is down when the entry comes.
GetPtt(u) ==
    LET h == [v \in Users |-> Silent(peers[u][v])]
        who == {Got(u).user}
    IN  /\ Handles(u, "ptt", {}, h)
        /\ speaking' = [speaking EXCEPT ![u] = IF Got(u).active THEN @ \cup who ELSE @ \ who]
        /\ UNCHANGED turn

\* Rekey is commanded; while signaling is down the command is lost.
CommandRekey(u) ==
    /\ engine[u] \in {"up", "down"}
    /\ rekeys < env.rekeys
    /\ "rekey" \in env.patient => Settled
    /\ rekeys' = rekeys + 1
    /\ calm' = (Quiet /\ IsPresent(u))
    /\ wire' = Sent(u, RekeyMsg)
    /\ UNCHANGED <<engineVars, inbox, broken, serverVars, talks, aired>>

\* ToggleTx, or a SetTx that changes something: to the others it is told once,
\* over the connection there is.
CommandTalk(u) ==
    /\ engine[u] \in {"up", "down"}
    /\ talks < env.talks
    /\ talks' = talks + 1
    /\ transmit' = [transmit EXCEPT ![u] = ~ @]
    /\ aired' = IF IsPresent(u) /\ Introduced THEN aired \cup {u} ELSE aired \ {u}
    /\ wire' = Sent(u, PttMsg(~ transmit[u]))
    /\ UNCHANGED <<engine, sock, peers, made, turn, uplink, speaking, inbox, broken, serverVars,
                   rekeys, calm>>

-----------------------------------------------------------------------------
(* The server: the handler of socket s of u.                               *)

\* The handler is in this phase and takes a message of one of these types.
Takes(u, s, phase, types) ==
    /\ handler[u][s].phase = phase
    /\ wire[u][s] # <<>>
    /\ Head(wire[u][s]).type \in types
    /\ wire' = [wire EXCEPT ![u][s] = Tail(@)]

\* Join: u is listed, and the others are told; a socket listed before under
\* this user_id is forgotten without a word to them.
ServeJoin(u, s) ==
    LET others == Listed \ {u}
    IN  /\ Takes(u, s, "open", {"join"})
        /\ room' = [room EXCEPT ![u] = s]
        /\ handler' = [handler EXCEPT ![u][s] = [phase |-> "joined", roster |-> others]]
        /\ Send(ToAll(others, <<[type |-> "joined", user |-> u]>>), room)
        /\ UNCHANGED <<engineVars, commandVars>>

\* After the lock is released: the roster ...
SendRoster(u, s) ==
    /\ handler[u][s].phase = "joined"
    /\ handler' = [handler EXCEPT ![u][s] = [phase |-> "welcomed", roster |-> {}]]
    /\ Send(ToAll({u}, <<[type |-> "roster", users |-> handler[u][s].roster]>>),
            [room EXCEPT ![u] = s])
    /\ UNCHANGED <<engineVars, wire, room, commandVars>>

\* ... and then the TURN credentials.
SendTurn(u, s) ==
    /\ handler[u][s].phase = "welcomed"
    /\ handler' = [handler EXCEPT ![u][s].phase = "serving"]
    /\ Send(ToAll({u}, <<[type |-> "turn"]>>), [room EXCEPT ![u] = s])
    /\ UNCHANGED <<engineVars, wire, room, commandVars>>

ServeRelay(u, s) ==
    LET m == Head(wire[u][s])
    IN  /\ Takes(u, s, "serving", {"offer", "answer"})
        /\ Send(ToAll({m.to} \cap Listed, <<[type |-> m.type, user |-> u, pc |-> m.pc]>>), room)
        /\ UNCHANGED <<engineVars, serverVars, commandVars>>

ServeRekey(u, s) ==
    /\ Takes(u, s, "serving", {"rekey"})
    /\ Send(ToAll(Listed, <<RekeyMsg>>), room)
    /\ UNCHANGED <<engineVars, serverVars, commandVars>>

\* Push-to-talk goes to everybody else in the room.
ServePtt(u, s) ==
    /\ Takes(u, s, "serving", {"ptt"})
    /\ Send(ToAll(Listed \ {u},
                  <<[type |-> "ptt", user |-> u, active |-> Head(wire[u][s]).active]>>), room)
    /\ UNCHANGED <<engineVars, serverVars, commandVars>>

\* The end of the stream, and the cleanup: whatever socket is listed under the
\* user_id goes, and the others are told.
Cleanup(u, s) ==
    LET joined == handler[u][s].phase = "serving"
    IN  /\ <<u, s>> \in broken
        /\ handler[u][s].phase \in {"open", "serving"}
        /\ handler' = [handler EXCEPT ![u][s] = Closed]
        /\ wire' = [wire EXCEPT ![u][s] = <<>>]
        /\ room' = IF joined THEN [room EXCEPT ![u] = 0] ELSE room
        /\ IF joined
           THEN Send(ToAll(Listed \ {u}, <<[type |-> "left", user |-> u]>>), room)
           ELSE UNCHANGED <<inbox, broken>>
        /\ UNCHANGED <<engineVars, commandVars>>

-----------------------------------------------------------------------------
Engine(u) == /\ \/ SignalingLost(u) \/ Reconnect(u) \/ Forward(u)
                \/ GetRoster(u) \/ GetPeerJoined(u) \/ GetPeerLeft(u)
                \/ GetOffer(u) \/ GetAnswer(u) \/ GetRekey(u) \/ GetTurn(u) \/ GetPtt(u)
             /\ UNCHANGED env

Handler(u) == /\ \E s \in Sockets : \/ ServeJoin(u, s) \/ SendRoster(u, s) \/ SendTurn(u, s)
                                   \/ ServeRelay(u, s) \/ ServeRekey(u, s) \/ ServePtt(u, s)
                                   \/ Cleanup(u, s)
              /\ UNCHANGED env

Command(u) == /\ Start(u) \/ Break(u) \/ Disconnect(u) \/ CommandRekey(u) \/ CommandTalk(u)
              /\ UNCHANGED env

Next == \E u \in Users : Command(u) \/ Engine(u) \/ Handler(u)

Spec == Init /\ [][Next]_vars

\* Engines and handlers run, and a broken socket is noticed.
FairSpec == Spec /\ \A u \in Users : WF_vars(Engine(u)) /\ WF_vars(Handler(u))

-----------------------------------------------------------------------------
(* Properties.                                                             *)

ClientMsgs == {JoinMsg, RekeyMsg} \cup [type : {"offer", "answer"}, pc : Nat \ {0}, to : Users]
              \cup [type : {"ptt"}, active : BOOLEAN]
ServerMsgs == [type : {"roster"}, users : SUBSET Users]
              \cup [type : {"joined", "left"}, user : Users]
              \cup [type : {"offer", "answer"}, user : Users, pc : Nat \ {0}]
              \cup [type : {"turn", "rekey"}]
              \cup [type : {"ptt"}, user : Users, active : BOOLEAN]

\* Every variable has its type, and nothing is in flight on the socket of an
\* engine that lost it.
TypeOK ==
    /\ env \in Environments
    /\ engine \in [Users -> {"off", "up", "down", "gone"}]
    /\ sock \in [Users -> 0 .. MaxSockets]
    /\ peers \in [Users -> [Users -> Ends \cup {Absent}]]
    /\ made \in [Users -> [Users -> Nat]]
    /\ turn \in [Users -> BOOLEAN]
    /\ uplink \in [Users -> Seq(ClientMsgs)]
    /\ wire \in [Users -> [Sockets -> Seq(ClientMsgs)]]
    /\ inbox \in [Users -> Seq(ServerMsgs)]
    /\ \A u \in Users : inbox[u] # <<>> => engine[u] = "up"
    /\ broken \subseteq Users \X Sockets
    /\ handler \in [Users -> [Sockets -> [phase : {"closed", "open", "joined", "welcomed", "serving"},
                                          roster : SUBSET Users]]]
    /\ room \in [Users -> 0 .. MaxSockets]
    /\ speaking \in [Users -> SUBSET Users]
    /\ transmit \in [Users -> BOOLEAN]
    /\ rekeys \in 0 .. env.rekeys /\ talks \in 0 .. env.talks
    /\ calm \in BOOLEAN /\ aired \subseteq Users

\* The two PeerConnections have keys they agreed with one another.
Linked(u, v) == /\ peers[u][v] # Absent /\ peers[v][u] # Absent
                /\ peers[u][v].remote = peers[v][u].pc
                /\ peers[v][u].remote = peers[u][v].pc

\* Once nothing is in flight, every two users who are in the room are linked:
\* each saw the other, one offered, one answered, and nothing that was sent
\* before or in between was mistaken for the answer (mesh.rs:196-273).
PresentAreLinked == \A u, v \in Users : IsPresent(u) /\ IsPresent(v) /\ u # v => Linked(u, v)
SettledIsLinked == Quiet => PresentAreLinked

\* Once nothing is in flight, a user who is in the room has no PeerConnection
\* to one who is not ("peer-left -> alle schliessen ihre PeerConnection zu dem
\* Peer", docs/ARCHITECTURE.md:148; mesh.rs:250-254).  It is so as long as
\* sockets hold; a user who was away misses who left (Squad_orphan.cfg).
NoEndToAbsentEver ==
    Quiet => \A u, v \in Users : IsPresent(u) /\ peers[u][v] # Absent => room[v] # 0
NoEndToAbsent == env.droppers = {} => NoEndToAbsentEver

\* Whatever happened before, a rekey commanded when nothing is in flight links
\* every two users in the room again (mesh.rs:256-273).
RekeyRepairs == calm /\ Quiet => PresentAreLinked

\* Whatever was shown before, once nothing is in flight those in the room are
\* shown as speaking if they last pressed and as silent if they last released,
\* when everybody had been welcomed by then (lib.rs:412-415, 449-463, server
\* main.rs:565-579).  That they are shown is not said: a roster queued late
\* hides who came meanwhile (InitRelay_hidden.cfg).
SpeakingIsShown ==
    Quiet => \A u \in Users, v \in aired : IsPresent(u) => (v \in Speakers(u) <=> transmit[v])

\* When the last socket has broken and the last rekey was commanded, those in
\* the room come to be linked and stay so (mesh.rs:196-273, lib.rs:394-420).
EventuallyLinked == <>[]PresentAreLinked

(* Claims of the documents and comments that the code does not keep.       *)

\* "P2P audio keeps running", "Re-join keeps the mesh" (CHANGELOG.md:82-83),
\* "P2P audio is independent and keeps running while down" (lib.rs:55-56): as
\* long as nobody rekeys or leaves, a link stays.
LinksOutliveSignaling ==
    [][\A u, v \in Users : Linked(u, v) => \/ Linked(u, v)'
                                          \/ rekeys > 0
                                          \/ "gone" \in {engine'[u], engine'[v]}]_vars

\* "Encryption keys rotated: fresh DTLS-SRTP keys negotiated across the mesh"
\* (lib.rs:52-53): when an engine reports this, no link of its user still has
\* the keys it had.
RekeyedIsRekeyed ==
    [][\A u, v \in Users : GetRekey(u) /\ Linked(u, v) => ~ Linked(u, v)']_vars

\* TURN is "fuer jeden User verfuegbar (Creds beim Join)" (ARCHITECTURE.md:191):
\* a link whose users both got credentials has an end that can use them.
SomeEndHasTurn ==
    Quiet => \A u, v \in Users :
               Linked(u, v) /\ turn[u] /\ turn[v] => peers[u][v].turn \/ peers[v][u].turn

\* The push-to-talk state is broadcast and shown in the list (ARCHITECTURE.md:86,
\* 167).  A change while signaling is down is told to nobody, a roster shows
\* everybody as silent, and a change during a welcome is overtaken by it.
SpeakingIsAlwaysShown ==
    Quiet => \A u, v \in Users : IsPresent(u) /\ IsPresent(v) => (v \in Speakers(u) <=> transmit[v])

\* Leaving is announced: "Init broadcastet peer-left" (ARCHITECTURE.md:147-150).
LeaverIsUnlisted == \A u \in Users : engine[u] = "gone" ~> room[u] = 0

=============================================================================
