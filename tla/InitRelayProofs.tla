-------------------------- MODULE InitRelayProofs --------------------------
(* What holds of the relay for any sockets, users, rooms and capacities.   *)
EXTENDS InitRelay, FiniteSetTheorems, SequenceTheorems, TLAPS

-----------------------------------------------------------------------------
(* The hard cap.                                                           *)

\* The inductive form of RoomWithinCap: the cardinality of a set says nothing
\* unless the set is known to be finite.
CapInv ==
    /\ rooms \in [Rooms -> [Users -> Conns \cup {NoConn}]]
    /\ \A r \in Rooms : /\ IsFiniteSet(Members(r))
                        /\ Cardinality(Members(r)) <= HardCap

LEMMA CapInit == Init => CapInv
<1> SUFFICES ASSUME Init PROVE CapInv
  OBVIOUS
<1>1. rooms \in [Rooms -> [Users -> Conns \cup {NoConn}]]
  BY DEF Init
<1>2. ASSUME NEW r \in Rooms PROVE Members(r) = {}
  BY DEF Init, Members
<1>3. IsFiniteSet({}) /\ Cardinality({}) = 0
  BY FS_EmptySet
<1>4. ASSUME NEW r \in Rooms
      PROVE  IsFiniteSet(Members(r)) /\ Cardinality(Members(r)) <= HardCap
  <2>1. IsFiniteSet(Members(r)) /\ Cardinality(Members(r)) = 0
    BY <1>2, <1>3, Zenon
  <2> QED
    BY <2>1, CapAssumption
<1> QED
  BY <1>1, <1>4 DEF CapInv

\* A newcomer enters below the cap, a returning user_id does not grow the room.
LEMMA CapJoin ==
  ASSUME CapInv, NEW c \in Conns, NEW r \in Rooms, NEW u \in Users, Join(c, r, u)
  PROVE  CapInv'
<1>1. rooms' = [rooms EXCEPT ![r][u] = c]
  BY DEF Join
<1>2. rooms' \in [Rooms -> [Users -> Conns \cup {NoConn}]]
  BY <1>1 DEF CapInv
<1>3. ASSUME NEW q \in Rooms
      PROVE  IsFiniteSet(Members(q)') /\ Cardinality(Members(q)') <= HardCap
  <2>1. CASE q # r
    <3>1. Members(q)' = Members(q)
      BY <1>1, <2>1 DEF Members, CapInv
    <3> QED
      BY <3>1 DEF CapInv
  <2>2. CASE q = r
    <3>1. Members(r)' = Members(r) \cup {u}
      BY <1>1, NoConnAssumption DEF Members, CapInv
    <3>2. IsFiniteSet(Members(r)) /\ Cardinality(Members(r)) \in Nat
      BY FS_CardinalityType DEF CapInv
    <3>3. CASE u \in Members(r)
      <4>1. Members(r)' = Members(r)
        BY <3>1, <3>3
      <4> QED
        BY <4>1, <2>2 DEF CapInv
    <3>4. CASE u \notin Members(r)
      <4>1. ~ (Cardinality(Members(r)) >= HardCap)
        BY <3>4 DEF Join, Full
      <4>2. /\ IsFiniteSet(Members(r) \cup {u})
            /\ Cardinality(Members(r) \cup {u}) = Cardinality(Members(r)) + 1
        BY <3>2, <3>4, FS_AddElement
      <4> QED
        BY <2>2, <3>1, <3>2, <4>1, <4>2, CapAssumption
    <3> QED
      BY <3>3, <3>4
  <2> QED
    BY <2>1, <2>2
<1> QED
  BY <1>2, <1>3 DEF CapInv

LEMMA CapCleanup ==
  ASSUME CapInv, NEW c \in Conns, Cleanup(c)
  PROVE  CapInv'
<1>1. rooms' = Unlist(c)
  BY DEF Cleanup
<1>2. rooms' \in [Rooms -> [Users -> Conns \cup {NoConn}]]
  BY <1>1 DEF Unlist, CapInv
<1>3. ASSUME NEW q \in Rooms
      PROVE  IsFiniteSet(Members(q)') /\ Cardinality(Members(q)') <= HardCap
  <2>1. Members(q)' \subseteq Members(q)
    BY <1>1 DEF Unlist, Members, CapInv
  <2>2. IsFiniteSet(Members(q)) /\ Cardinality(Members(q)) \in Nat
    BY FS_CardinalityType DEF CapInv
  <2>3. /\ IsFiniteSet(Members(q)')
        /\ Cardinality(Members(q)') \in Nat
        /\ Cardinality(Members(q)') <= Cardinality(Members(q))
    BY <2>1, <2>2, FS_Subset, FS_CardinalityType
  <2> QED
    BY <2>2, <2>3, CapAssumption DEF CapInv
<1> QED
  BY <1>2, <1>3 DEF CapInv

LEMMA CapStep == CapInv /\ [Next]_vars => CapInv'
<1> SUFFICES ASSUME CapInv, [Next]_vars PROVE CapInv'
  OBVIOUS
<1>1. ASSUME UNCHANGED rooms PROVE CapInv'
  BY <1>1 DEF CapInv, Members
<1>2. ASSUME NEW c \in Conns, NEW r \in Rooms, NEW u \in Claims[c], Join(c, r, u)
      PROVE  CapInv'
  <2>1. u \in Users
    BY ClaimsAssumption
  <2> QED
    BY <1>2, <2>1, CapJoin
<1>3. ASSUME NEW c \in Conns, Cleanup(c) PROVE CapInv'
  BY <1>3, CapCleanup
<1>4. ASSUME NEW c \in Conns,
             \/ Accept(c) \/ JoinRejected(c) \/ SendRoster(c) \/ SendTurn(c)
             \/ \E r \in Rooms, u \in Claims[c] : JoinRefused(c, r, u)
             \/ Complain(c) \/ Ptt(c) \/ Rekey(c) \/ Hangup(c)
             \/ \E to \in Users, k \in Kinds : Relay(c, to, k)
             \/ Deliver(c) \/ WriterFails(c)
      PROVE  UNCHANGED rooms
  BY <1>4 DEF Accept, JoinRejected, SendRoster, SendTurn, JoinRefused, Complain,
              Ptt, Rekey, Hangup, Relay, Deliver, WriterFails, Request, server
<1> QED
  BY <1>1, <1>2, <1>3, <1>4 DEF Next, Handler, vars, server

\* No room ever holds more than HARD_CAP members, for any cap and any number
\* of sockets (main.rs:503).
THEOREM RoomCapTheorem == Spec => []RoomWithinCap
<1>1. CapInv => RoomWithinCap
  BY DEF CapInv, RoomWithinCap
<1> QED
  BY <1>1, CapInit, CapStep, PTL DEF Spec

-----------------------------------------------------------------------------
(* Sending.                                                                *)

\* What TrySend leaves in the queues is well-typed and within capacity.
LEMMA SentType ==
  ASSUME TypeOK, NEW out \in [Conns -> Seq(Message)]
  PROVE  /\ Sent(out) \in [Conns -> Seq(Message)]
         /\ \A c \in Conns : Len(Sent(out)[c]) <= PeerChan
<1> SUFFICES ASSUME NEW c \in Conns
             PROVE  Sent(out)[c] \in Seq(Message) /\ Len(Sent(out)[c]) <= PeerChan
  BY DEF Sent
<1>1. /\ queue[c] \in Seq(Message)
      /\ Len(queue[c]) <= PeerChan
      /\ out[c] \in Seq(Message)
      /\ PeerChan \in Nat
  BY ChanAssumption DEF TypeOK
<1>2. queue[c] \o out[c] \in Seq(Message)
  BY <1>1, ConcatProperties
<1>3. Fit(queue[c] \o out[c]) \in Seq(Message) /\ Len(Fit(queue[c] \o out[c])) <= PeerChan
  <2> DEFINE s == queue[c] \o out[c]
  <2>1. CASE Len(s) <= PeerChan
    BY <1>2, <2>1 DEF Fit
  <2>2. CASE ~ (Len(s) <= PeerChan)
    <3>1. Len(s) \in Nat /\ PeerChan <= Len(s)
      BY <1>1, <1>2, <2>2, LenProperties
    <3>2. SubSeq(s, 1, PeerChan) \in Seq(Message) /\ Len(SubSeq(s, 1, PeerChan)) = PeerChan
      BY <1>1, <1>2, <3>1, SubSeqProperties
    <3> QED
      BY <1>1, <2>2, <3>2 DEF Fit
  <2> QED
    BY <2>1, <2>2
<1> QED
  BY <1>1, <1>3 DEF Sent

\* One message to some sockets is a well-typed list of messages to each.
LEMMA ToType ==
  ASSUME NEW S, NEW m \in Message
  PROVE  To(S, m) \in [Conns -> Seq(Message)]
BY DEF To

\* The messages that the actions build are messages.
LEMMA Built ==
  /\ \A c \in Conns, type \in {"turn", "rekey", "warn", "full", "error"} :
        Plain(type, c) \in Message
  /\ \A c \in Conns, type \in {"joined", "left", "ptt"}, u \in Users :
        About(type, u, c) \in Message
  /\ \A c \in Conns, S \in SUBSET Users : RosterOf(S, c) \in Message
  /\ \A c \in Conns, k \in Kinds, u \in Users : Relayed(k, u, c) \in Message
BY DEF Plain, About, RosterOf, Relayed, Message

LEMMA JoinOutType ==
  ASSUME NEW c \in Conns, NEW r \in Rooms, NEW u \in Users
  PROVE  JoinOut(c, r, u) \in [Conns -> Seq(Message)]
<1>1. /\ Plain("error", c) \in Message
      /\ Plain("warn", c) \in Message
      /\ About("joined", u, c) \in Message
  BY Built
<1>2. ASSUME NEW p, NEW q, NEW t, NEW a \in Message, NEW b \in Message, NEW d \in Message
      PROVE     (IF p THEN <<a>> ELSE << >>) \o (IF q THEN <<b>> ELSE << >>)
             \o (IF t THEN <<d>> ELSE << >>) \in Seq(Message)
  OBVIOUS
<1> QED
  BY <1>1, <1>2 DEF JoinOut

\* The cleanup of a socket addresses nobody when it never joined.
LEMMA CleanupOutType ==
  ASSUME TypeOK, NEW c \in Conns
  PROVE  CleanupOut(c) \in [Conns -> Seq(Message)]
<1>1. CASE id[c] = NoId
  BY <1>1 DEF CleanupOut
<1>2. CASE id[c] # NoId
  <2>1. id[c].user \in Users
    BY <1>2 DEF TypeOK, Ids
  <2> QED
    BY <1>2, <2>1, Built, ToType DEF CleanupOut
<1> QED
  BY <1>1, <1>2

-----------------------------------------------------------------------------
(* Types.                                                                  *)

\* A socket has a room and a user_id exactly from its Join on; a socket that
\* is closing may have failed to get that far.
PhaseInv ==
    \A c \in Conns : /\ phase[c] \in {"new", "open"} => id[c] = NoId
                     /\ phase[c] \in {"inserted", "rostered", "joined"} => id[c] # NoId

LEMMA TypeInit == Init => TypeOK
BY ChanAssumption DEF Init, TypeOK, Phases

\* Every action leaves every variable in its type; only what it sends and the
\* head it takes off a queue need more than the definitions.
LEMMA TypeStep == TypeOK /\ PhaseInv /\ [Next]_vars => TypeOK'
<1> SUFFICES ASSUME TypeOK, PhaseInv, [Next]_vars PROVE TypeOK'
  OBVIOUS
<1>1. ASSUME NEW c \in Conns, Accept(c) PROVE TypeOK'
  BY <1>1 DEF TypeOK, Accept, Goto, Phases, server, client, history
<1>2. ASSUME NEW out \in [Conns -> Seq(Message)], TrySend(out)
      PROVE  /\ (queue \in [Conns -> Seq(Message)])'
             /\ (\A c \in Conns : Len(queue[c]) <= PeerChan)'
             /\ (dropped \subseteq Conns)'
  <2>1. /\ Sent(out) \in [Conns -> Seq(Message)]
        /\ \A c \in Conns : Len(Sent(out)[c]) <= PeerChan
    BY SentType
  <2>2. queue' = Sent(out) /\ dropped' = dropped \cup Lost(out)
    BY <1>2 DEF TrySend
  <2>3. Lost(out) \subseteq Conns
    BY DEF Lost
  <2>4. dropped \subseteq Conns
    BY DEF TypeOK
  <2> QED
    BY <2>1, <2>2, <2>3, <2>4
<1>3. ASSUME NEW c \in Conns, JoinRejected(c) PROVE TypeOK'
  <2>1. To({c}, Plain("error", c)) \in [Conns -> Seq(Message)]
    BY Built, ToType
  <2> QED
    BY <1>2, <1>3, <2>1 DEF TypeOK, JoinRejected, Goto, Phases, client
<1>4. ASSUME NEW c \in Conns, NEW r \in Rooms, NEW u \in Claims[c], JoinRefused(c, r, u)
      PROVE  TypeOK'
  <2>1. To({c}, Plain("full", c)) \in [Conns -> Seq(Message)]
    BY Built, ToType
  <2> QED
    BY <1>2, <1>4, <2>1 DEF TypeOK, JoinRefused, Goto, Phases, client
<1>5. ASSUME NEW c \in Conns, NEW r \in Rooms, NEW u \in Claims[c], Join(c, r, u)
      PROVE  TypeOK'
  <2>1. u \in Users
    BY ClaimsAssumption
  <2>2. JoinOut(c, r, u) \in [Conns -> Seq(Message)]
    BY <2>1, JoinOutType
  <2>3. [room |-> r, user |-> u] \in Ids
    BY <2>1 DEF Ids
  <2>4. raced' \subseteq Conns /\ Members(r) \ {u} \in SUBSET Users
    BY <1>5 DEF Join, Race, Members, TypeOK
  <2>5. /\ rooms' \in [Rooms -> [Users -> Conns \cup {NoConn}]]
        /\ id' \in [Conns -> Ids \cup {NoId}]
        /\ roster' \in [Conns -> SUBSET Users]
        /\ phase' \in [Conns -> Phases]
    BY <1>5, <2>1, <2>3, <2>4 DEF Join, TypeOK, Goto, Phases
  <2>6. TrySend(JoinOut(c, r, u)) /\ UNCHANGED <<writer, requests, view, seen, refused>>
    BY <1>5 DEF Join, client
  <2> QED
    BY <1>2, <2>2, <2>4, <2>5, <2>6 DEF TypeOK
<1>6. ASSUME NEW c \in Conns, SendRoster(c) PROVE TypeOK'
  <2>1. roster[c] \in SUBSET Users
    BY DEF TypeOK
  <2>2. To({c}, RosterOf(roster[c], c)) \in [Conns -> Seq(Message)]
    BY <2>1, Built, ToType
  <2> QED
    BY <1>2, <1>6, <2>2 DEF TypeOK, SendRoster, Goto, Phases, client
<1>7. ASSUME NEW c \in Conns, SendTurn(c) PROVE TypeOK'
  <2>1. To({d \in {c} : TurnEnabled}, Plain("turn", c)) \in [Conns -> Seq(Message)]
    BY Built, ToType
  <2> QED
    BY <1>2, <1>7, <2>1 DEF TypeOK, SendTurn, Goto, Phases, client
<1>8. ASSUME NEW out \in [Conns -> Seq(Message)], TrySend(out), Request
      PROVE  TypeOK'
  BY <1>2, <1>8 DEF TypeOK, Request, client
<1>9. ASSUME NEW c \in Conns, Complain(c) PROVE TypeOK'
  <2>1. To({c}, Plain("error", c)) \in [Conns -> Seq(Message)]
    BY Built, ToType
  <2> QED
    BY <1>8, <1>9, <2>1 DEF Complain
<1>10. ASSUME NEW c \in Conns, HasJoined(c) PROVE id[c].user \in Users
  BY <1>10 DEF TypeOK, Ids, PhaseInv, HasJoined
<1>11. ASSUME NEW c \in Conns, NEW to \in Users, NEW k \in Kinds, Relay(c, to, k)
       PROVE  TypeOK'
  <2>1. HasJoined(c) /\ Request
    BY <1>11 DEF Relay
  <2>2. To(Handles(id[c].room, {to}), Relayed(k, id[c].user, c)) \in [Conns -> Seq(Message)]
    BY <1>10, <2>1, Built, ToType
  <2> QED
    BY <1>8, <1>11, <2>1, <2>2 DEF Relay
<1>12. ASSUME NEW c \in Conns, Ptt(c) PROVE TypeOK'
  <2>1. HasJoined(c) /\ Request
    BY <1>12 DEF Ptt
  <2>2. To(Handles(id[c].room, Users \ {id[c].user}), About("ptt", id[c].user, c))
          \in [Conns -> Seq(Message)]
    BY <1>10, <2>1, Built, ToType
  <2> QED
    BY <1>8, <1>12, <2>1, <2>2 DEF Ptt
<1>13. ASSUME NEW c \in Conns, Rekey(c) PROVE TypeOK'
  <2>1. To(Handles(id[c].room, Users), Plain("rekey", c)) \in [Conns -> Seq(Message)]
    BY Built, ToType
  <2> QED
    BY <1>8, <1>13, <2>1 DEF Rekey
<1>14. ASSUME NEW c \in Conns, Hangup(c) PROVE TypeOK'
  BY <1>14 DEF TypeOK, Hangup, Goto, Phases, server, client, history
<1>15. ASSUME NEW c \in Conns, Cleanup(c) PROVE TypeOK'
  <2>1. CleanupOut(c) \in [Conns -> Seq(Message)]
    BY CleanupOutType
  <2>2. /\ Sent(CleanupOut(c)) \in [Conns -> Seq(Message)]
        /\ \A d \in Conns : Len(Sent(CleanupOut(c))[d]) <= PeerChan
    BY <2>1, SentType
  <2>3. /\ queue' \in [Conns -> Seq(Message)]
        /\ \A d \in Conns : Len(queue'[d]) <= PeerChan
    BY <1>15, <2>2, ChanAssumption DEF Cleanup
  <2>4. dropped' \subseteq Conns /\ raced' \subseteq Conns
    BY <1>15 DEF Cleanup, Race, Lost, TypeOK
  <2>5. rooms' \in [Rooms -> [Users -> Conns \cup {NoConn}]]
    BY <1>15 DEF Cleanup, Unlist, TypeOK
  <2> QED
    BY <1>15, <2>3, <2>4, <2>5 DEF Cleanup, TypeOK, Goto, Phases, client
<1>16. ASSUME NEW c \in Conns, Deliver(c) PROVE TypeOK'
  <2>1. queue[c] \in Seq(Message) /\ queue[c] # << >> /\ Len(queue[c]) <= PeerChan
    BY <1>16 DEF Deliver, TypeOK
  <2>2. /\ Head(queue[c]) \in Message
        /\ Tail(queue[c]) \in Seq(Message)
        /\ Len(Tail(queue[c])) = Len(queue[c]) - 1
    BY <2>1, HeadTailProperties
  <2>3. Len(Tail(queue[c])) <= PeerChan
    BY <2>1, <2>2, LenProperties, ChanAssumption
  <2>4. Apply(view[c], Head(queue[c])) \in SUBSET Users
    <3>1. view[c] \in SUBSET Users
      BY DEF TypeOK
    <3> QED
      BY <2>2, <3>1 DEF Apply, Message
  <2>5. /\ queue' \in [Conns -> Seq(Message)]
        /\ \A d \in Conns : Len(queue'[d]) <= PeerChan
    BY <1>16, <2>2, <2>3 DEF Deliver, TypeOK
  <2>6. view' \in [Conns -> SUBSET Users] /\ seen' \in [Conns -> SUBSET Noted]
    BY <1>16, <2>4 DEF Deliver, TypeOK
  <2> QED
    BY <1>16, <2>5, <2>6 DEF Deliver, TypeOK, handler, history
<1>17. ASSUME NEW c \in Conns, WriterFails(c) PROVE TypeOK'
  BY <1>17, ChanAssumption DEF TypeOK, WriterFails, handler, client
<1>18. ASSUME UNCHANGED vars PROVE TypeOK'
  BY <1>18 DEF TypeOK, vars, server, handler, client, history
<1> QED
  BY <1>1, <1>3, <1>4, <1>5, <1>6, <1>7, <1>9, <1>11, <1>12, <1>13, <1>14, <1>15,
     <1>16, <1>17, <1>18 DEF Next, Handler

-----------------------------------------------------------------------------
(* Handlers and handles.                                                   *)

\* The actions that neither list nor unlist anyone, nor give out an id: each
\* moves one handler along its loop or leaves all handlers where they are.
Moves(c) ==
    \/ /\ phase[c] = "new" /\ phase' = [phase EXCEPT ![c] = "open"]
    \/ /\ phase[c] = "inserted" /\ phase' = [phase EXCEPT ![c] = "rostered"]
    \/ /\ phase[c] = "rostered" /\ phase' = [phase EXCEPT ![c] = "joined"]
    \/ /\ phase[c] \in {"open", "joined"} /\ phase' = [phase EXCEPT ![c] = "closing"]
    \/ UNCHANGED phase

LEMMA Steps ==
  ASSUME [Next]_vars
  PROVE  \/ \E c \in Conns, r \in Rooms, u \in Users : Join(c, r, u)
         \/ \E c \in Conns : Cleanup(c)
         \/ \E c \in Conns : Moves(c) /\ UNCHANGED <<rooms, id>>
         \/ UNCHANGED <<rooms, id, phase>>
<1>1. ASSUME NEW c \in Conns,
             \/ Accept(c) \/ JoinRejected(c) \/ SendRoster(c) \/ SendTurn(c)
             \/ \E r \in Rooms, u \in Claims[c] : JoinRefused(c, r, u)
             \/ Complain(c) \/ Ptt(c) \/ Rekey(c) \/ Hangup(c)
             \/ \E to \in Users, k \in Kinds : Relay(c, to, k)
             \/ Deliver(c) \/ WriterFails(c)
      PROVE  Moves(c) /\ UNCHANGED <<rooms, id>>
  BY <1>1 DEF Moves, Accept, JoinRejected, SendRoster, SendTurn, JoinRefused, Complain,
              Ptt, Rekey, Hangup, Relay, Deliver, WriterFails, Request, server,
              handler, Goto
<1>2. ASSUME NEW c \in Conns, NEW r \in Rooms, NEW u \in Claims[c], Join(c, r, u)
      PROVE  \E v \in Users : Join(c, r, v)
  BY <1>2, ClaimsAssumption
<1> QED
  BY <1>1, <1>2 DEF Next, Handler, vars, server, handler

LEMMA PhaseStep == TypeOK /\ PhaseInv /\ [Next]_vars => PhaseInv'
<1> SUFFICES ASSUME TypeOK, PhaseInv, [Next]_vars PROVE PhaseInv'
  OBVIOUS
<1>1. ASSUME NEW c \in Conns, NEW r \in Rooms, NEW u \in Users, Join(c, r, u)
      PROVE  PhaseInv'
  BY <1>1, IdAssumption DEF TypeOK, PhaseInv, Join, Goto, NoId
<1>2. ASSUME NEW c \in Conns, Cleanup(c) PROVE PhaseInv'
  BY <1>2 DEF TypeOK, PhaseInv, Cleanup, Goto
<1>3. ASSUME NEW c \in Conns, Moves(c), UNCHANGED id PROVE PhaseInv'
  BY <1>3 DEF TypeOK, PhaseInv, Moves
<1>4. ASSUME UNCHANGED <<id, phase>> PROVE PhaseInv'
  BY <1>4 DEF PhaseInv
<1> QED
  BY <1>1, <1>2, <1>3, <1>4, Steps

\* A Join lists a socket that no room held; a cleanup removes the one handle
\* its own id names, which is the only place the socket itself can be.
LEMMA LiveStep == TypeOK /\ PhaseInv /\ HandlesAreLive /\ [Next]_vars => HandlesAreLive'
<1> SUFFICES ASSUME TypeOK, PhaseInv, HandlesAreLive, [Next]_vars
             PROVE  HandlesAreLive'
  OBVIOUS
<1>1. ASSUME NEW c \in Conns, NEW r \in Rooms, NEW u \in Users, Join(c, r, u)
      PROVE  HandlesAreLive'
  <2> SUFFICES ASSUME NEW q \in Rooms, NEW v \in Users, rooms'[q][v] # NoConn
               PROVE  /\ id'[rooms'[q][v]] = [room |-> q, user |-> v]
                      /\ phase'[rooms'[q][v]] \in {"inserted", "rostered", "joined", "closing"}
    BY DEF HandlesAreLive
  <2>1. CASE q = r /\ v = u
    <3>1. rooms'[q][v] = c
      BY <1>1, <2>1 DEF Join, TypeOK
    <3>2. id'[c] = [room |-> r, user |-> u] /\ phase'[c] = "inserted"
      BY <1>1 DEF Join, Goto, TypeOK
    <3> QED
      BY <2>1, <3>1, <3>2
  <2>2. CASE ~ (q = r /\ v = u)
    <3>1. rooms'[q][v] = rooms[q][v] /\ rooms[q][v] \in Conns
      BY <1>1, <2>2 DEF Join, TypeOK
    <3>2. /\ id[rooms[q][v]] = [room |-> q, user |-> v]
          /\ phase[rooms[q][v]] \in {"inserted", "rostered", "joined", "closing"}
      BY <3>1 DEF HandlesAreLive
    <3>3. rooms[q][v] # c
      BY <1>1, <3>2 DEF Join
    <3> QED
      BY <1>1, <3>1, <3>2, <3>3 DEF Join, Goto, TypeOK
  <2> QED
    BY <2>1, <2>2
<1>2. ASSUME NEW c \in Conns, Cleanup(c) PROVE HandlesAreLive'
  <2> SUFFICES ASSUME NEW q \in Rooms, NEW v \in Users, rooms'[q][v] # NoConn
               PROVE  /\ id'[rooms'[q][v]] = [room |-> q, user |-> v]
                      /\ phase'[rooms'[q][v]] \in {"inserted", "rostered", "joined", "closing"}
    BY DEF HandlesAreLive
  <2>1. rooms'[q][v] = rooms[q][v] /\ rooms[q][v] \in Conns
    BY <1>2 DEF Cleanup, Unlist, TypeOK, Ids
  <2>2. /\ id[rooms[q][v]] = [room |-> q, user |-> v]
        /\ phase[rooms[q][v]] \in {"inserted", "rostered", "joined", "closing"}
    BY <2>1 DEF HandlesAreLive
  <2>3. rooms[q][v] # c
    <3>1. SUFFICES ASSUME rooms[q][v] = c PROVE FALSE
      OBVIOUS
    <3>2. id[c] = [room |-> q, user |-> v] /\ id[c] # NoId
      BY <2>2, <3>1, IdAssumption DEF NoId
    <3>3. rooms'[q][v] = NoConn
      BY <1>2, <3>2 DEF Cleanup, Unlist, TypeOK
    <3> QED
      BY <3>3
  <2> QED
    BY <1>2, <2>1, <2>2, <2>3 DEF Cleanup, Goto, TypeOK
<1>3. ASSUME NEW c \in Conns, Moves(c), UNCHANGED <<rooms, id>> PROVE HandlesAreLive'
  <2> SUFFICES ASSUME NEW q \in Rooms, NEW v \in Users, rooms[q][v] # NoConn
               PROVE  /\ id[rooms[q][v]] = [room |-> q, user |-> v]
                      /\ phase'[rooms[q][v]] \in {"inserted", "rostered", "joined", "closing"}
    BY <1>3 DEF HandlesAreLive
  <2>1. rooms[q][v] \in Conns
    BY DEF TypeOK
  <2>2. /\ id[rooms[q][v]] = [room |-> q, user |-> v]
        /\ phase[rooms[q][v]] \in {"inserted", "rostered", "joined", "closing"}
    BY <2>1 DEF HandlesAreLive
  <2> QED
    BY <1>3, <2>1, <2>2 DEF Moves, TypeOK
<1>4. ASSUME UNCHANGED <<rooms, id, phase>> PROVE HandlesAreLive'
  BY <1>4 DEF HandlesAreLive
<1> QED
  BY <1>1, <1>2, <1>3, <1>4, Steps

-----------------------------------------------------------------------------
(* Whose messages wait in a queue.                                         *)

\* Ids are given once and kept.
IdsKept == \A d \in Conns : id[d] = NoId \/ id'[d] = id[d]

LEMMA IdsKeptStep == TypeOK /\ PhaseInv /\ [Next]_vars => IdsKept
<1> SUFFICES ASSUME TypeOK, PhaseInv, [Next]_vars PROVE IdsKept
  OBVIOUS
<1>1. ASSUME NEW c \in Conns, NEW r \in Rooms, NEW u \in Users, Join(c, r, u)
      PROVE  IdsKept
  BY <1>1 DEF IdsKept, Join, TypeOK, PhaseInv
<1> QED
  BY <1>1, Steps DEF IdsKept, Cleanup

\* A message that is authentic stays so: the ids it was judged by are kept.
LEMMA AuthenticKept ==
  ASSUME IdsKept, NEW c \in Conns, NEW m \in Message, Authentic(id, m, c)
  PROVE  Authentic(id', m, c)
<1>1. m.via \in Conns
  BY DEF Message
<1>2. ASSUME m.via # c
      PROVE  id'[c] # NoId /\ id'[m.via] # NoId /\ id'[m.via].room = id'[c].room
  BY <1>1, <1>2 DEF Authentic, IdsKept
<1>3. ASSUME m.t = "relay" PROVE id'[m.via].user = m.from
  <2>1. id[m.via].user = m.from /\ m.from \in Users
    BY <1>3 DEF Authentic, Message
  <2>2. id[m.via] # NoId
    BY <2>1, IdAssumption DEF NoId
  <2> QED
    BY <1>1, <2>1, <2>2 DEF IdsKept
<1>4. ASSUME m.t \in {"joined", "left", "ptt"} PROVE id'[m.via].user = m.user
  <2>1. id[m.via].user = m.user /\ m.user \in Users
    BY <1>4 DEF Authentic, Message
  <2>2. id[m.via] # NoId
    BY <2>1, IdAssumption DEF NoId
  <2> QED
    BY <1>1, <2>1, <2>2 DEF IdsKept
<1> QED
  BY <1>2, <1>3, <1>4 DEF Authentic

\* Every message sent to d in this step is authentic afterwards.
Proper(out) == \A d \in Conns : \A i \in DOMAIN out[d] : Authentic(id', out[d][i], d)

\* Fit keeps a prefix.
LEMMA FitElement ==
  ASSUME NEW s \in Seq(Message), NEW i \in DOMAIN Fit(s)
  PROVE  i \in 1 .. Len(s) /\ Fit(s)[i] = s[i]
<1>1. /\ PeerChan \in Nat /\ 1 <= PeerChan
      /\ Len(s) \in Nat /\ DOMAIN s = 1 .. Len(s)
      /\ s \in [1 .. Len(s) -> Message]
  BY ChanAssumption, LenProperties
<1>2. CASE Len(s) <= PeerChan
  BY <1>1, <1>2 DEF Fit
<1>3. CASE ~ (Len(s) <= PeerChan)
  <2>1. Fit(s) = SubSeq(s, 1, PeerChan)
    BY <1>3 DEF Fit
  <2>2. \A k \in 1 .. PeerChan : s[k] \in Message
    BY <1>1, <1>3
  <2>3. /\ Fit(s) \in Seq(Message)
        /\ Len(Fit(s)) = PeerChan
        /\ \A k \in 1 .. PeerChan : Fit(s)[k] = s[1 + k - 1]
    BY <1>1, <2>1, <2>2, SubSeqProperties
  <2>4. i \in 1 .. PeerChan
    BY <2>3, LenProperties
  <2> QED
    BY <1>1, <1>3, <2>3, <2>4
<1> QED
  BY <1>2, <1>3

\* What is in a queue after sending was there before or was just sent.
LEMMA SentElement ==
  ASSUME TypeOK, NEW out \in [Conns -> Seq(Message)], NEW d \in Conns,
         NEW i \in DOMAIN Sent(out)[d]
  PROVE  \/ \E j \in DOMAIN queue[d] : Sent(out)[d][i] = queue[d][j]
         \/ \E j \in DOMAIN out[d] : Sent(out)[d][i] = out[d][j]
<1>1. /\ queue[d] \in Seq(Message) /\ out[d] \in Seq(Message)
      /\ PeerChan \in Nat
  BY ChanAssumption DEF TypeOK
<1>2. CASE writer[d] # "running"
  BY <1>2 DEF Sent
<1>3. CASE writer[d] = "running"
  <2> DEFINE s == queue[d] \o out[d]
  <2>1. s \in Seq(Message) /\ Len(s) \in Nat
    BY <1>1, ConcatProperties, LenProperties
  <2>2. i \in DOMAIN Fit(s) /\ Sent(out)[d] = Fit(s)
    BY <1>3 DEF Sent
  <2>3. i \in 1 .. Len(s) /\ Fit(s)[i] = s[i]
    BY <2>1, <2>2, FitElement
  <2>4. \A k \in 1 .. Len(s) : s[k] = IF k <= Len(queue[d]) THEN queue[d][k]
                                      ELSE out[d][k - Len(queue[d])]
    BY <1>1, ConcatProperties
  <2>5. /\ Len(s) = Len(queue[d]) + Len(out[d])
        /\ Len(queue[d]) \in Nat /\ DOMAIN queue[d] = 1 .. Len(queue[d])
        /\ Len(out[d]) \in Nat /\ DOMAIN out[d] = 1 .. Len(out[d])
    BY <1>1, ConcatProperties, LenProperties
  <2>6. CASE i <= Len(queue[d])
    BY <2>2, <2>3, <2>4, <2>5, <2>6
  <2>7. CASE ~ (i <= Len(queue[d]))
    <3>1. i - Len(queue[d]) \in DOMAIN out[d]
      BY <2>3, <2>5, <2>7
    <3>2. Sent(out)[d][i] = out[d][i - Len(queue[d])]
      BY <2>2, <2>3, <2>4, <2>7
    <3> QED
      BY <3>1, <3>2
  <2> QED
    BY <2>6, <2>7
<1> QED
  BY <1>2, <1>3

\* Sending proper messages keeps every queue authentic.
LEMMA SentAuthentic ==
  ASSUME TypeOK, MessagesStayInRoom, IdsKept,
         NEW out \in [Conns -> Seq(Message)], Proper(out),
         NEW d \in Conns, NEW i \in DOMAIN Sent(out)[d]
  PROVE  Authentic(id', Sent(out)[d][i], d)
<1>1. CASE \E j \in DOMAIN queue[d] : Sent(out)[d][i] = queue[d][j]
  <2>1. PICK j \in DOMAIN queue[d] : Sent(out)[d][i] = queue[d][j]
    BY <1>1
  <2>2. queue[d][j] \in Message /\ Authentic(id, queue[d][j], d)
    <3>1. queue[d] \in Seq(Message)
      BY DEF TypeOK
    <3> QED
      BY <3>1, LenProperties DEF MessagesStayInRoom
  <2>3. Authentic(id', queue[d][j], d)
    BY <2>2, AuthenticKept
  <2> QED
    BY <2>1, <2>3 DEF Authentic
<1>2. CASE \E j \in DOMAIN out[d] : Sent(out)[d][i] = out[d][j]
  BY <1>2 DEF Proper, Authentic
<1> QED
  BY <1>1, <1>2, SentElement

\* A socket reached through a room is one that joined that room.
LEMMA HandleIds ==
  ASSUME TypeOK, HandlesAreLive, NEW r \in Rooms, NEW S \in SUBSET Users,
         NEW d \in Handles(r, S)
  PROVE  d \in Conns /\ id[d] # NoId /\ id[d].room = r
<1>1. PICK u \in S : d = rooms[r][u] /\ rooms[r][u] # NoConn
  BY DEF Handles
<1>2. rooms[r][u] \in Conns /\ id[rooms[r][u]] = [room |-> r, user |-> u]
  BY <1>1 DEF TypeOK, HandlesAreLive
<1> QED
  BY <1>1, <1>2, IdAssumption DEF NoId

\* One message m to the sockets in S, each of which may properly receive it.
LEMMA ToProper ==
  ASSUME NEW S, NEW m \in Message, \A d \in S \cap Conns : Authentic(id', m, d)
  PROVE  To(S, m) \in [Conns -> Seq(Message)] /\ Proper(To(S, m))
BY ToType DEF To, Proper

\* A message about the sender, to members of the sender's room.
LEMMA BroadcastProper ==
  ASSUME TypeOK, HandlesAreLive, IdsKept, NEW c \in Conns, id[c] # NoId,
         NEW S \in SUBSET Users, NEW m \in Message, m.via = c,
         m.t = "relay" => m.from = id[c].user,
         m.t \in {"joined", "left", "ptt"} => m.user = id[c].user
  PROVE  /\ To(Handles(id[c].room, S), m) \in [Conns -> Seq(Message)]
         /\ Proper(To(Handles(id[c].room, S), m))
<1>1. id[c].room \in Rooms
  BY DEF TypeOK, Ids
<1>2. ASSUME NEW d \in Handles(id[c].room, S) PROVE Authentic(id', m, d)
  <2>1. d \in Conns /\ id[d] # NoId /\ id[d].room = id[c].room
    BY <1>1, HandleIds
  <2>2. id'[d] = id[d] /\ id'[c] = id[c]
    BY <2>1 DEF IdsKept
  <2> QED
    BY <2>1, <2>2 DEF Authentic
<1> QED
  BY <1>2, ToProper

\* An answer to the sender itself.
LEMMA ReplyProper ==
  ASSUME NEW c \in Conns, NEW S \in SUBSET {c}, NEW m \in Message, m.via = c,
         m.t \notin {"relay", "joined", "left", "ptt"}
  PROVE  To(S, m) \in [Conns -> Seq(Message)] /\ Proper(To(S, m))
<1>1. \A d \in S \cap Conns : Authentic(id', m, d)
  BY DEF Authentic
<1> QED
  BY <1>1, ToProper

\* The newcomer's messages: an Error to the superseded socket, PeerJoined and
\* Warn to the room, all of them built by a socket that has just joined it.
LEMMA JoinOutProper ==
  ASSUME TypeOK, HandlesAreLive, IdsKept,
         NEW c \in Conns, NEW r \in Rooms, NEW u \in Users, Join(c, r, u)
  PROVE  JoinOut(c, r, u) \in [Conns -> Seq(Message)] /\ Proper(JoinOut(c, r, u))
<1> DEFINE error  == Plain("error", c)
           joined == About("joined", u, c)
           warn   == Plain("warn", c)
<1>1. /\ error \in Message /\ error.via = c /\ error.t = "error"
      /\ joined \in Message /\ joined.via = c /\ joined.t = "joined" /\ joined.user = u
      /\ warn \in Message /\ warn.via = c /\ warn.t = "warn"
  BY Built DEF Plain, About
<1>2. id'[c] = [room |-> r, user |-> u] /\ id'[c] # NoId
  BY IdAssumption DEF Join, TypeOK, NoId
<1>3. ASSUME NEW v \in Users, NEW d \in Conns, rooms[r][v] = d
      PROVE  id'[d] # NoId /\ id'[d].room = r
  <2>1. id[d] = [room |-> r, user |-> v]
    BY <1>3, NoConnAssumption DEF HandlesAreLive
  <2>2. id[d] # NoId
    BY <2>1, IdAssumption DEF NoId
  <2> QED
    BY <2>1, <2>2 DEF IdsKept
<1>4. ASSUME NEW d \in Conns, d = c \/ \E v \in Users : rooms[r][v] = d,
             NEW m \in {error, joined, warn}
      PROVE  Authentic(id', m, d)
  <2>1. id'[d] # NoId /\ id'[d].room = r
    BY <1>2, <1>3, <1>4
  <2> QED
    BY <1>1, <1>2, <2>1 DEF Authentic
<1>5. ASSUME NEW d \in Conns, NEW i \in DOMAIN JoinOut(c, r, u)[d]
      PROVE  Authentic(id', JoinOut(c, r, u)[d][i], d)
  <2>1. CASE d = c \/ \E v \in Users : rooms[r][v] = d
    <3>1. JoinOut(c, r, u)[d][i] \in {error, joined, warn}
      BY DEF JoinOut, Plain, About
    <3> QED
      BY <1>4, <2>1, <3>1
  <2>2. CASE ~ (d = c \/ \E v \in Users : rooms[r][v] = d)
    <3>1. JoinOut(c, r, u)[d] = << >>
      <4>1. \A S \in SUBSET Users : d \notin Handles(r, S)
        BY <2>2 DEF Handles
      <4>2. Members(r) \ {u} \in SUBSET Users /\ Warned(Members(r) \cup {u}) \ {u} \in SUBSET Users
        BY DEF Members, Warned
      <4> QED
        BY <2>2, <4>1, <4>2 DEF JoinOut
    <3> QED
      BY <3>1
  <2> QED
    BY <2>1, <2>2
<1> QED
  BY <1>5, JoinOutType DEF Proper

HandlerInv == TypeOK /\ PhaseInv /\ HandlesAreLive /\ MessagesStayInRoom

LEMMA HandlerInit == Init => HandlerInv
<1> SUFFICES ASSUME Init PROVE HandlerInv
  OBVIOUS
<1>1. PhaseInv
  BY DEF Init, PhaseInv
<1>2. HandlesAreLive
  BY DEF Init, HandlesAreLive
<1>3. MessagesStayInRoom
  BY DEF Init, MessagesStayInRoom
<1> QED
  BY <1>1, <1>2, <1>3, TypeInit DEF HandlerInv

LEMMA MessageStep == HandlerInv /\ [Next]_vars => MessagesStayInRoom'
<1> SUFFICES ASSUME TypeOK, PhaseInv, HandlesAreLive, MessagesStayInRoom, [Next]_vars
             PROVE  MessagesStayInRoom'
  BY DEF HandlerInv
<1>0. IdsKept
  BY IdsKeptStep
<1>1. ASSUME NEW out \in [Conns -> Seq(Message)], Proper(out), queue' = Sent(out)
      PROVE  MessagesStayInRoom'
  BY <1>0, <1>1, SentAuthentic DEF MessagesStayInRoom
<1>2. ASSUME NEW c \in Conns, HasJoined(c)
      PROVE  id[c] # NoId /\ id[c].user \in Users
  BY <1>2 DEF HasJoined, PhaseInv, TypeOK, Ids
<1>3. ASSUME UNCHANGED queue PROVE MessagesStayInRoom'
  <2> SUFFICES ASSUME NEW c \in Conns, NEW i \in DOMAIN queue[c]
               PROVE  Authentic(id', queue[c][i], c)
    BY <1>3 DEF MessagesStayInRoom
  <2>1. queue[c][i] \in Message
    BY LenProperties DEF TypeOK
  <2> QED
    BY <1>0, <2>1, AuthenticKept DEF MessagesStayInRoom
<1>4. ASSUME NEW c \in Conns,
             Accept(c) \/ Hangup(c)
      PROVE  MessagesStayInRoom'
  BY <1>3, <1>4 DEF Accept, Hangup, server
<1>5. ASSUME NEW c \in Conns,
             \/ JoinRejected(c) \/ SendRoster(c) \/ SendTurn(c) \/ Complain(c)
             \/ \E r \in Rooms, u \in Claims[c] : JoinRefused(c, r, u)
      PROVE  MessagesStayInRoom'
  <2>1. PICK S \in SUBSET {c},
             m \in {Plain("error", c), Plain("full", c), Plain("turn", c),
                   RosterOf(roster[c], c)} :
                TrySend(To(S, m))
    BY <1>5 DEF JoinRejected, SendRoster, SendTurn, Complain, JoinRefused
  <2>2. roster[c] \in SUBSET Users
    BY DEF TypeOK
  <2>3. m \in Message /\ m.via = c /\ m.t \notin {"relay", "joined", "left", "ptt"}
    <3>1. CASE m = RosterOf(roster[c], c)
      BY <2>2, <3>1, Built DEF RosterOf
    <3>2. CASE m \in {Plain("error", c), Plain("full", c), Plain("turn", c)}
      <4>1. PICK type \in {"error", "full", "turn"} : m = Plain(type, c)
        BY <3>2
      <4>2. Plain(type, c) \in Message
        BY Built
      <4> QED
        BY <4>1, <4>2 DEF Plain
    <3> QED
      BY <3>1, <3>2
  <2>4. To(S, m) \in [Conns -> Seq(Message)] /\ Proper(To(S, m))
    BY <2>3, ReplyProper
  <2> QED
    BY <1>1, <2>1, <2>4 DEF TrySend
<1>6. ASSUME NEW c \in Conns, NEW r \in Rooms, NEW u \in Users, Join(c, r, u)
      PROVE  MessagesStayInRoom'
  <2>1. JoinOut(c, r, u) \in [Conns -> Seq(Message)] /\ Proper(JoinOut(c, r, u))
    BY <1>0, <1>6, JoinOutProper
  <2> QED
    BY <1>1, <1>6, <2>1 DEF Join, TrySend
<1>7. ASSUME NEW c \in Conns,
             \/ \E to \in Users, k \in Kinds : Relay(c, to, k)
             \/ Ptt(c) \/ Rekey(c)
      PROVE  MessagesStayInRoom'
  <2>1. HasJoined(c)
    BY <1>7 DEF Relay, Ptt, Rekey
  <2>2. id[c] # NoId /\ id[c].user \in Users
    BY <1>2, <2>1
  <2>3. PICK S \in SUBSET Users,
             m \in {Relayed(k, id[c].user, c) : k \in Kinds}
                  \cup {About("ptt", id[c].user, c), Plain("rekey", c)} :
               TrySend(To(Handles(id[c].room, S), m))
    BY <1>7 DEF Relay, Ptt, Rekey
  <2>4. /\ m \in Message /\ m.via = c
        /\ m.t = "relay" => m.from = id[c].user
        /\ m.t \in {"joined", "left", "ptt"} => m.user = id[c].user
    <3>1. CASE m \in {Relayed(k, id[c].user, c) : k \in Kinds}
      BY <2>2, <3>1, Built DEF Relayed
    <3>2. CASE m = About("ptt", id[c].user, c)
      BY <2>2, <3>2, Built DEF About
    <3>3. CASE m = Plain("rekey", c)
      BY <3>3, Built DEF Plain
    <3> QED
      BY <2>3, <3>1, <3>2, <3>3
  <2>5. /\ To(Handles(id[c].room, S), m) \in [Conns -> Seq(Message)]
        /\ Proper(To(Handles(id[c].room, S), m))
    BY <1>0, <2>2, <2>4, BroadcastProper
  <2> QED
    BY <1>1, <2>3, <2>5 DEF TrySend
<1>8. ASSUME NEW c \in Conns, Cleanup(c) PROVE MessagesStayInRoom'
  <2>1. CleanupOut(c) \in [Conns -> Seq(Message)] /\ Proper(CleanupOut(c))
    <3>1. CASE id[c] = NoId
      BY <3>1, CleanupOutType DEF CleanupOut, Proper
    <3>2. CASE id[c] # NoId
      <4>1. id[c].user \in Users
        BY <3>2 DEF TypeOK, Ids
      <4>2. /\ About("left", id[c].user, c) \in Message
            /\ About("left", id[c].user, c).via = c
            /\ About("left", id[c].user, c).t = "left"
            /\ About("left", id[c].user, c).user = id[c].user
        BY <4>1, Built DEF About
      <4>3. Proper(To(Handles(id[c].room, Users \ {id[c].user}),
                      About("left", id[c].user, c)))
        BY <1>0, <3>2, <4>2, BroadcastProper
      <4> QED
        BY <3>2, <4>3, CleanupOutType DEF CleanupOut
    <3> QED
      BY <3>1, <3>2
  <2>2. queue' = [Sent(CleanupOut(c)) EXCEPT ![c] = << >>]
    BY <1>8 DEF Cleanup
  <2>3. Sent(CleanupOut(c)) \in [Conns -> Seq(Message)]
    BY <2>1, SentType
  <2>4. ASSUME NEW d \in Conns, NEW i \in DOMAIN queue'[d]
        PROVE  Authentic(id', queue'[d][i], d)
    <3>1. d # c /\ queue'[d] = Sent(CleanupOut(c))[d]
      BY <2>2, <2>3, <2>4
    <3>2. \A j \in DOMAIN Sent(CleanupOut(c))[d] :
             Authentic(id', Sent(CleanupOut(c))[d][j], d)
      BY <1>0, <2>1, SentAuthentic
    <3> QED
      BY <2>4, <3>1, <3>2
  <2> QED
    BY <2>4 DEF MessagesStayInRoom
<1>9. ASSUME NEW c \in Conns, Deliver(c) \/ WriterFails(c) PROVE MessagesStayInRoom'
  <2> SUFFICES ASSUME NEW d \in Conns, NEW i \in DOMAIN queue'[d]
               PROVE  Authentic(id', queue'[d][i], d)
    BY DEF MessagesStayInRoom
  <2>1. \E j \in DOMAIN queue[d] : queue'[d][i] = queue[d][j]
    <3>1. queue[d] \in Seq(Message)
      BY DEF TypeOK
    <3>2. CASE d # c
      <4>1. queue'[d] = queue[d]
        BY <1>9, <3>2 DEF Deliver, WriterFails, TypeOK
      <4> QED
        BY <4>1
    <3>3. CASE d = c /\ Deliver(c)
      <4>1. queue[d] # << >> /\ queue'[d] = Tail(queue[d])
        BY <3>3 DEF Deliver, TypeOK
      <4>2. /\ Tail(queue[d]) \in Seq(Message)
            /\ Len(Tail(queue[d])) = Len(queue[d]) - 1
            /\ \A k \in 1 .. Len(Tail(queue[d])) : Tail(queue[d])[k] = queue[d][k + 1]
        BY <3>1, <4>1, HeadTailProperties
      <4>3. i \in 1 .. Len(queue[d]) - 1 /\ Len(queue[d]) \in Nat
        BY <3>1, <4>1, <4>2, LenProperties
      <4>4. i + 1 \in DOMAIN queue[d]
        BY <3>1, <4>3, LenProperties
      <4> QED
        BY <4>1, <4>2, <4>3, <4>4
    <3>4. CASE d = c /\ WriterFails(c)
      BY <3>4 DEF WriterFails, TypeOK
    <3> QED
      BY <1>9, <3>2, <3>3, <3>4
  <2>2. PICK j \in DOMAIN queue[d] : queue'[d][i] = queue[d][j]
    BY <2>1
  <2>3. queue[d][j] \in Message
    BY LenProperties DEF TypeOK
  <2>4. Authentic(id', queue[d][j], d)
    BY <1>0, <2>3, AuthenticKept DEF MessagesStayInRoom
  <2> QED
    BY <2>2, <2>4
<1>10. ASSUME UNCHANGED vars PROVE MessagesStayInRoom'
  BY <1>3, <1>10 DEF vars, server
<1>11. ASSUME NEW c \in Conns, NEW r \in Rooms, NEW u \in Claims[c], Join(c, r, u)
       PROVE  MessagesStayInRoom'
  BY <1>6, <1>11, ClaimsAssumption
<1> QED
  BY <1>4, <1>5, <1>7, <1>8, <1>9, <1>10, <1>11 DEF Next, Handler

LEMMA HandlerStep == HandlerInv /\ [Next]_vars => HandlerInv'
BY TypeStep, PhaseStep, LiveStep, MessageStep DEF HandlerInv

\* The variables keep their types and no queue outgrows its channel, for any
\* capacity (main.rs:441).
THEOREM TypeTheorem == Spec => []TypeOK
<1>1. HandlerInv => TypeOK
  BY DEF HandlerInv
<1> QED
  BY <1>1, HandlerInit, HandlerStep, PTL DEF Spec

\* A handle in a room is always that of a live handler listed under its own
\* user_id, whichever sockets supersede each other and however late they clean
\* up (main.rs:508-520, 598-612).
THEOREM HandlesTheorem == Spec => []HandlesAreLive
<1>1. HandlerInv => HandlesAreLive
  BY DEF HandlerInv
<1> QED
  BY <1>1, HandlerInit, HandlerStep, PTL DEF Spec

\* Rooms are isolated and senders cannot be mistaken: a queue holds only what
\* sockets that joined the same room sent, under the user_id each joined with
\* (main.rs:547-593, 617-630).
THEOREM IsolationTheorem == Spec => []MessagesStayInRoom
<1>1. HandlerInv => MessagesStayInRoom
  BY DEF HandlerInv
<1> QED
  BY <1>1, HandlerInit, HandlerStep, PTL DEF Spec

-----------------------------------------------------------------------------
(* What a client will show of a user when it has handled its queue.         *)

\* A roster speaks of every user, a membership event of one.
Mentions(m, u) == m.t = "roster" \/ (m.t \in {"joined", "left"} /\ m.user = u)
Lists(m, u)    == (m.t = "roster" /\ u \in m.peers) \/ m.t = "joined"

Silent(q, u)  == \A j \in DOMAIN q : ~ Mentions(q[j], u)
Last(q, i, u) == Mentions(q[i], u) /\ \A j \in DOMAIN q : j > i => ~ Mentions(q[j], u)

\* A client that shows S and has q before it ends up showing u exactly if u is
\* in R: the last message about u says so, or S does if there is none.
Tells(q, S, u, R) ==
    /\ \A i \in DOMAIN q : Last(q, i, u) => (Lists(q[i], u) <=> u \in R)
    /\ Silent(q, u) => (u \in S <=> u \in R)

LEMMA TellsSilence ==
  ASSUME NEW q \in Seq(Message), NEW s \in Seq(Message),
         NEW u, NEW S, NEW R, Silent(s, u), Tells(q, S, u, R)
  PROVE  Tells(q \o s, S, u, R)
<1> DEFINE z == q \o s
<1>1. /\ z \in Seq(Message) /\ Len(z) = Len(q) + Len(s)
      /\ DOMAIN z = 1 .. Len(q) + Len(s)
      /\ DOMAIN q = 1 .. Len(q) /\ DOMAIN s = 1 .. Len(s)
      /\ Len(q) \in Nat /\ Len(s) \in Nat
  BY ConcatProperties, LenProperties
<1>2. /\ \A i \in DOMAIN q : i \in DOMAIN z /\ z[i] = q[i]
      /\ \A i \in DOMAIN z : i \notin DOMAIN q => i - Len(q) \in DOMAIN s /\ z[i] = s[i - Len(q)]
  BY <1>1, ConcatProperties
<1> HIDE DEF z
<1>3. \A i \in DOMAIN z : Mentions(z[i], u) => i \in DOMAIN q
  BY <1>2 DEF Silent
<1>4. ASSUME NEW i \in DOMAIN z, Last(z, i, u)
      PROVE  Lists(z[i], u) <=> u \in R
  <2>1. i \in DOMAIN q /\ z[i] = q[i]
    BY <1>2, <1>3, <1>4 DEF Last
  <2>2. Last(q, i, u)
    BY <1>2, <1>4, <2>1 DEF Last
  <2> QED
    BY <2>1, <2>2 DEF Tells
<1>5. Silent(z, u) => Silent(q, u)
  BY <1>2 DEF Silent
<1> QED
  BY <1>4, <1>5 DEF Tells, z

LEMMA TellsLast ==
  ASSUME NEW q \in Seq(Message), NEW s \in Seq(Message),
         NEW u, NEW S, NEW R, NEW k \in DOMAIN s,
         Mentions(s[k], u), Lists(s[k], u) <=> u \in R,
         \A j \in DOMAIN s : j # k => ~ Mentions(s[j], u)
  PROVE  Tells(q \o s, S, u, R)
<1> DEFINE z == q \o s
           n == Len(q) + k
<1>1. /\ z \in Seq(Message) /\ Len(z) = Len(q) + Len(s)
      /\ DOMAIN z = 1 .. Len(q) + Len(s)
      /\ DOMAIN q = 1 .. Len(q) /\ DOMAIN s = 1 .. Len(s)
      /\ Len(q) \in Nat /\ Len(s) \in Nat
  BY ConcatProperties, LenProperties
<1>2. /\ n \in DOMAIN z /\ z[n] = s[k]
      /\ \A i \in DOMAIN z : i > n => i - Len(q) \in DOMAIN s /\ i - Len(q) # k
                                      /\ z[i] = s[i - Len(q)]
      /\ \A i \in DOMAIN z : i > Len(q) /\ i # n => i - Len(q) \in DOMAIN s /\ i - Len(q) # k
                                      /\ z[i] = s[i - Len(q)]
      /\ n > Len(q)
  BY <1>1, ConcatProperties
<1>3. DOMAIN z \subseteq Nat /\ n \in Nat /\ Len(q) \in Nat
  BY <1>1
<1> HIDE DEF z, n
<1>4. ASSUME NEW i \in DOMAIN z, Last(z, i, u)
      PROVE  i = n
  <2>1. ~ (n > i)
    BY <1>2, <1>4 DEF Last
  <2>2. i > n => FALSE
    BY <1>2, <1>4 DEF Last
  <2> QED
    BY <1>3, <2>1, <2>2
<1>5. ~ Silent(z, u)
  BY <1>2 DEF Silent
<1> QED
  BY <1>2, <1>4, <1>5 DEF Tells, z

\* Handling the head of the queue changes nothing of what will be shown.
LEMMA TellsHandled ==
  ASSUME NEW q \in Seq(Message), q # << >>, NEW u \in Users, NEW S \in SUBSET Users, NEW R,
         Tells(q, S, u, R)
  PROVE  Tells(Tail(q), Apply(S, Head(q)), u, R)
<1> DEFINE z == Tail(q)
           m == Head(q)
<1>1. /\ z \in Seq(Message) /\ m \in Message /\ m = q[1]
      /\ DOMAIN q = 1 .. Len(q) /\ DOMAIN z = 1 .. Len(q) - 1
      /\ Len(q) \in Nat /\ 1 \in DOMAIN q
      /\ \A i \in 1 .. Len(q) - 1 : z[i] = q[i + 1]
  BY HeadTailProperties, LenProperties
<1>2. /\ \A i \in DOMAIN z : i + 1 \in DOMAIN q /\ z[i] = q[i + 1] /\ i \in Nat
      /\ \A j \in DOMAIN q : j # 1 => j - 1 \in DOMAIN z /\ q[j] = z[j - 1]
      /\ DOMAIN q \subseteq Nat
  BY <1>1
<1>3. /\ Mentions(m, u) => (u \in Apply(S, m) <=> Lists(m, u))
      /\ ~ Mentions(m, u) => (u \in Apply(S, m) <=> u \in S)
  BY <1>1 DEF Mentions, Lists, Apply, Message
<1> HIDE DEF z, m
<1>4. ASSUME NEW i \in DOMAIN z, Last(z, i, u)
      PROVE  Lists(z[i], u) <=> u \in R
  <2>1. ASSUME NEW j \in DOMAIN q, j > i + 1 PROVE ~ Mentions(q[j], u)
    <3>1. j - 1 \in DOMAIN z /\ q[j] = z[j - 1] /\ j - 1 > i
      BY <1>2, <2>1
    <3> QED
      BY <1>4, <3>1 DEF Last
  <2>2. Last(q, i + 1, u)
    BY <1>2, <1>4, <2>1 DEF Last
  <2> QED
    BY <1>2, <2>2 DEF Tells
<1>5. ASSUME Silent(z, u)
      PROVE  u \in Apply(S, m) <=> u \in R
  <2>1. \A j \in DOMAIN q : j # 1 => ~ Mentions(q[j], u)
    BY <1>2, <1>5 DEF Silent
  <2>2. CASE Mentions(m, u)
    <3>1. Last(q, 1, u)
      BY <1>1, <1>2, <2>1, <2>2 DEF Last
    <3> QED
      BY <1>1, <1>3, <2>2, <3>1 DEF Tells
  <2>3. CASE ~ Mentions(m, u)
    <3>1. Silent(q, u)
      BY <1>1, <2>1, <2>3 DEF Silent
    <3> QED
      BY <1>3, <2>3, <3>1 DEF Tells
  <2> QED
    BY <2>2, <2>3
<1> QED
  BY <1>4, <1>5 DEF Tells, z, m

-----------------------------------------------------------------------------
(* The invariant.                                                           *)

\* The other members of the room of c.
Others(c) == Members(id[c].room) \ {id[c].user}

\* Whoever lost nothing and was not overtaken while waiting for its Roster.
Followed(c) == Listed(c) /\ c \notin dropped /\ c \notin raced

\* Until its Roster is sent, the snapshot is the room; from then on what is
\* queued leads the client to show it.
Shown(c) ==
    IF phase[c] = "inserted"
    THEN roster[c] = Others(c)
    ELSE \A u \in Users : Tells(queue[c], view[c], u, Others(c))

ViewInv == \A c \in Conns : Followed(c) => Shown(c)

LEMMA FollowedFacts ==
  ASSUME HandlerInv, NEW c \in Conns, Listed(c)
  PROVE  /\ id[c].room \in Rooms /\ id[c].user \in Users /\ id[c] # NoId
         /\ rooms[id[c].room][id[c].user] = c
         /\ phase[c] \in {"inserted", "rostered", "joined", "closing"}
         /\ queue[c] \in Seq(Message) /\ Len(queue[c]) <= PeerChan
         /\ view[c] \in SUBSET Users /\ Others(c) \in SUBSET Users
<1>1. id[c].room \in Rooms /\ id[c].user \in Users /\ id[c] # NoId
  BY DEF HandlerInv, TypeOK, Ids, Listed
<1>2. rooms[id[c].room][id[c].user] = c /\ c # NoConn
  BY NoConnAssumption DEF Listed
<1>3. phase[c] \in {"inserted", "rostered", "joined", "closing"}
  BY <1>1, <1>2 DEF HandlerInv, HandlesAreLive
<1> QED
  BY <1>1, <1>2, <1>3 DEF HandlerInv, TypeOK, Others, Members

\* To a socket that loses nothing, sending is appending.
LEMMA Appended ==
  ASSUME TypeOK, NEW out \in [Conns -> Seq(Message)], NEW c \in Conns, c \notin Lost(out)
  PROVE  Sent(out)[c] = queue[c] \o out[c]
<1>1. /\ queue[c] \in Seq(Message) /\ out[c] \in Seq(Message)
      /\ Len(queue[c]) \in Nat /\ Len(out[c]) \in Nat
      /\ Len(queue[c]) <= PeerChan /\ PeerChan \in Nat
  BY ChanAssumption, LenProperties DEF TypeOK
<1>2. Len(queue[c] \o out[c]) = Len(queue[c]) + Len(out[c])
  BY <1>1, ConcatProperties
<1>3. CASE out[c] = << >>
  <2>1. queue[c] \o out[c] = queue[c]
    BY <1>1, <1>3, ConcatEmptySeq
  <2> QED
    BY <1>1, <2>1 DEF Sent, Fit
<1>4. CASE out[c] # << >>
  <2>1. writer[c] = "running" /\ Len(queue[c]) + Len(out[c]) <= PeerChan
    BY <1>1, <1>4 DEF Lost, TypeOK
  <2> QED
    BY <1>2, <2>1 DEF Sent, Fit
<1> QED
  BY <1>3, <1>4

\* Messages that are not about members change nothing of what is shown.
LEMMA ShownKept ==
  ASSUME HandlerInv, NEW c \in Conns, Listed(c), Shown(c),
         NEW s \in Seq(Message), \A u \in Users : Silent(s, u),
         queue'[c] = queue[c] \o s, view'[c] = view[c],
         roster'[c] = roster[c], Others(c)' = Others(c),
         phase'[c] = "inserted" <=> phase[c] = "inserted"
  PROVE  Shown(c)'
<1>1. CASE phase[c] = "inserted"
  BY <1>1 DEF Shown
<1>2. CASE phase[c] # "inserted"
  <2>1. queue[c] \in Seq(Message)
    BY FollowedFacts
  <2>2. \A u \in Users : Tells(queue[c] \o s, view[c], u, Others(c))
    BY <1>2, <2>1, TellsSilence DEF Shown
  <2> QED
    BY <1>2, <2>2 DEF Shown
<1> QED
  BY <1>1, <1>2

\* A membership event that comes first, and alone, makes up for its change.
LEMMA ShownChanged ==
  ASSUME HandlerInv, NEW c \in Conns, Listed(c), Shown(c), phase[c] # "inserted",
         NEW s \in Seq(Message), NEW v \in Users, 1 \in DOMAIN s,
         s[1].t \in {"joined", "left"}, s[1].user = v,
         \A j \in DOMAIN s : j # 1 => s[j].t \notin {"roster", "joined", "left"},
         queue'[c] = queue[c] \o s, view'[c] = view[c], phase'[c] = phase[c],
         Others(c)' = IF s[1].t = "joined" THEN Others(c) \cup {v} ELSE Others(c) \ {v}
  PROVE  Shown(c)'
<1> SUFFICES ASSUME NEW u \in Users
             PROVE  Tells(queue[c] \o s, view[c], u, Others(c)')
  BY DEF Shown
<1>1. queue[c] \in Seq(Message)
  BY FollowedFacts
<1>2. CASE u = v
  <2>1. Mentions(s[1], u) /\ (Lists(s[1], u) <=> u \in Others(c)')
    BY <1>2 DEF Mentions, Lists
  <2>2. \A j \in DOMAIN s : j # 1 => ~ Mentions(s[j], u)
    BY DEF Mentions
  <2> QED
    BY <1>1, <2>1, <2>2, TellsLast
<1>3. CASE u # v
  <2>1. Silent(s, u)
    BY <1>3 DEF Silent, Mentions
  <2>2. Tells(queue[c], view[c], u, Others(c))
    BY DEF Shown
  <2>3. u \in Others(c)' <=> u \in Others(c)
    BY <1>3
  <2>4. Tells(queue[c], view[c], u, Others(c)')
    BY <2>2, <2>3 DEF Tells
  <2> QED
    BY <1>1, <2>1, <2>4, TellsSilence
<1> QED
  BY <1>2, <1>3

-----------------------------------------------------------------------------
(* The steps.                                                               *)

\* A Join: the newcomer's snapshot is the room, the others are told of it.
LEMMA ShownJoin ==
  ASSUME HandlerInv, ViewInv, NEW d \in Conns, NEW r \in Rooms, NEW v \in Users,
         Join(d, r, v), NEW c \in Conns, Followed(c)'
  PROVE  Shown(c)'
<1> DEFINE out == JoinOut(d, r, v)
<1>0. /\ rooms \in [Rooms -> [Users -> Conns \cup {NoConn}]]
      /\ id \in [Conns -> Ids \cup {NoId}]
      /\ rooms' = [rooms EXCEPT ![r][v] = d]
      /\ id' = [id EXCEPT ![d] = [room |-> r, user |-> v]]
      /\ phase' = [phase EXCEPT ![d] = "inserted"]
      /\ roster' = [roster EXCEPT ![d] = Members(r) \ {v}]
      /\ queue' = Sent(out) /\ dropped' = dropped \cup Lost(out)
      /\ view' = view /\ Race(out)
  BY DEF HandlerInv, TypeOK, Join, Goto, TrySend, client
<1>1. out \in [Conns -> Seq(Message)]
  BY JoinOutType
<1>2. d # NoConn /\ rooms'[r][v] = d /\ Members(r)' = Members(r) \cup {v}
  BY <1>0, NoConnAssumption DEF Members
<1>3. CASE c = d
  <2>1. /\ id'[c] = [room |-> r, user |-> v] /\ phase'[c] = "inserted"
        /\ roster'[c] = Members(r) \ {v}
    BY <1>0, <1>3 DEF HandlerInv, TypeOK
  <2>2. Others(c)' = Members(r)' \ {v}
    BY <2>1 DEF Others
  <2> QED
    BY <1>2, <2>1, <2>2 DEF Shown
<1>4. CASE c # d
  <2> DEFINE q == id[c].room
             w == id[c].user
  <2>1. id'[c] = id[c] /\ phase'[c] = phase[c] /\ roster'[c] = roster[c] /\ view'[c] = view[c]
    BY <1>0, <1>4 DEF HandlerInv, TypeOK
  <2>2. id[c] # NoId /\ rooms'[q][w] = c /\ q \in Rooms /\ w \in Users
    BY <1>0, <2>1 DEF Followed, Listed, Ids
  <2>3. ~ (q = r /\ w = v) /\ rooms[q][w] = c
    BY <1>0, <1>2, <1>4, <2>2
  <2>4. Listed(c) /\ c \notin Lost(out) /\ c \notin raced'
    BY <1>0, <2>2, <2>3 DEF Listed, Followed
  <2>5. Shown(c)
    BY <1>0, <2>4 DEF ViewInv, Followed, Race
  <2>6. queue'[c] = queue[c] \o out[c]
    BY <1>0, <1>1, <2>4, Appended DEF HandlerInv
  <2>7. rooms[r][v] # c
    <3>1. SUFFICES ASSUME rooms[r][v] = c PROVE FALSE
      OBVIOUS
    <3>2. id[c] = [room |-> r, user |-> v]
      BY <3>1, NoConnAssumption DEF HandlerInv, HandlesAreLive
    <3> QED
      BY <2>3, <3>2
  <2>8. CASE q = r
    <3>1. w # v /\ w \in Members(r) \ {v} /\ c \in Handles(r, Members(r) \ {v})
      BY <2>2, <2>3, <2>8, NoConnAssumption DEF Members, Handles
    <3> DEFINE J == About("joined", v, d)
               W == Plain("warn", d)
    <3>2. out[c] = <<J>> \/ out[c] = <<J, W>>
      <4>1. out[c] = << >> \o <<J>> \o << >> \/ out[c] = << >> \o <<J>> \o <<W>>
        BY <2>7, <3>1 DEF JoinOut
      <4> QED
        BY <4>1
    <3>3. /\ J.t = "joined" /\ J.user = v /\ W.t = "warn"
      BY DEF About, Plain
    <3> HIDE DEF J, W, out
    <3>4. /\ out[c] \in Seq(Message) /\ 1 \in DOMAIN out[c] /\ out[c][1] = J
          /\ \A j \in DOMAIN out[c] : j # 1 => out[c][j] = W
      BY <1>1, <3>2
    <3>5. phase[c] # "inserted"
      BY <1>0, <2>4, <3>3, <3>4 DEF Race
    <3>6. Others(c)' = Others(c) \cup {v}
      BY <1>2, <2>1, <2>8, <3>1 DEF Others
    <3> QED
      BY <2>1, <2>4, <2>5, <2>6, <3>3, <3>4, <3>5, <3>6, ShownChanged
  <2>9. CASE q # r
    <3>1. \A S \in SUBSET Users : c \notin Handles(r, S)
      BY <2>9, HandleIds DEF HandlerInv
    <3>2. /\ c \notin Handles(r, Members(r) \ {v})
          /\ c \notin Handles(r, Warned(Members(r) \cup {v}) \ {v})
      BY <3>1 DEF Members, Warned
    <3>3. out[c] = << >>
      <4>1. out[c] = << >> \o << >> \o << >>
        BY <1>4, <2>7, <3>2 DEF JoinOut
      <4> QED
        BY <4>1
    <3>4. Others(c)' = Others(c)
      BY <1>0, <2>1, <2>2, <2>9 DEF Others, Members
    <3>5. \A u \in Users : Silent(out[c], u)
      BY <3>3 DEF Silent
    <3>6. out[c] \in Seq(Message)
      BY <1>1
    <3> HIDE DEF out
    <3> QED
      BY <2>1, <2>4, <2>5, <2>6, <3>4, <3>5, <3>6, ShownKept
  <2> QED
    BY <2>8, <2>9
<1> QED
  BY <1>3, <1>4

\* A cleanup: the others of the room are told.
LEMMA ShownCleanup ==
  ASSUME HandlerInv, ViewInv, NEW d \in Conns, Cleanup(d), NEW c \in Conns, Followed(c)'
  PROVE  Shown(c)'
<1> DEFINE out == CleanupOut(d)
           q == id[c].room
           w == id[c].user
<1>0. /\ rooms \in [Rooms -> [Users -> Conns \cup {NoConn}]]
      /\ id \in [Conns -> Ids \cup {NoId}]
      /\ rooms' = Unlist(d) /\ id' = id /\ roster' = roster /\ view' = view
      /\ phase' = [phase EXCEPT ![d] = "closed"]
      /\ queue' = [Sent(out) EXCEPT ![d] = << >>] /\ dropped' = dropped \cup Lost(out)
      /\ Race(out)
  BY DEF HandlerInv, TypeOK, Cleanup, Goto, client
<1>1. out \in [Conns -> Seq(Message)]
  BY CleanupOutType DEF HandlerInv
<1>2. id[c] # NoId /\ rooms'[q][w] = c /\ q \in Rooms /\ w \in Users /\ c # NoConn
  BY <1>0, NoConnAssumption DEF Followed, Listed, Ids
<1>3. /\ rooms[q][w] = c
      /\ id[d] # NoId => ~ (q = id[d].room /\ w = id[d].user)
      /\ c # d
  BY <1>0, <1>2 DEF Unlist, Ids
<1>4. Listed(c) /\ c \notin Lost(out) /\ c \notin raced'
  BY <1>0, <1>2, <1>3 DEF Listed, Followed
<1>5. Shown(c)
  BY <1>0, <1>4 DEF ViewInv, Followed, Race
<1>6. queue'[c] = queue[c] \o out[c] /\ phase'[c] = phase[c]
  <2>1. Sent(out)[c] = queue[c] \o out[c]
    BY <1>1, <1>4, Appended DEF HandlerInv
  <2> QED
    BY <1>0, <1>3, <2>1 DEF HandlerInv, TypeOK, Sent
<1>7. CASE id[d] # NoId /\ q = id[d].room
  <2> DEFINE v == id[d].user
             L == About("left", v, d)
  <2>1. v \in Users /\ v # w
    BY <1>0, <1>3, <1>7 DEF Ids
  <2>2. c \in Handles(q, Users \ {v})
    BY <1>2, <1>3, <2>1 DEF Handles
  <2>3. out[c] = <<L>>
    BY <1>7, <2>2 DEF CleanupOut, To
  <2>4. L.t = "left" /\ L.user = v
    BY DEF About
  <2>5. Others(c)' = Others(c) \ {v}
    <3>1. rooms' = [rooms EXCEPT ![q][v] = NoConn]
      BY <1>0, <1>7 DEF Unlist
    <3>2. Members(q)' = Members(q) \ {v}
      BY <1>0, <1>2, <2>1, <3>1 DEF Members
    <3> QED
      BY <1>0, <3>2 DEF Others
  <2> HIDE DEF L, out
  <2>6. /\ out[c] \in Seq(Message) /\ 1 \in DOMAIN out[c] /\ out[c][1] = L
        /\ \A j \in DOMAIN out[c] : j = 1
    <3>1. out[c] \in Seq(Message)
      BY <1>1
    <3>2. Len(out[c]) = 1 /\ out[c][1] = L
      BY <2>3
    <3>3. DOMAIN out[c] = 1 .. 1
      BY <3>1, <3>2
    <3> QED
      BY <3>1, <3>2, <3>3
  <2>7. phase[c] # "inserted"
    BY <1>0, <1>4, <2>4, <2>6 DEF Race
  <2> HIDE DEF v
  <2> QED
    BY <1>0, <1>4, <1>5, <1>6, <2>1, <2>4, <2>5, <2>6, <2>7, ShownChanged
<1>8. CASE id[d] = NoId \/ q # id[d].room
  <2>1. out[c] = << >>
    <3>1. CASE id[d] = NoId
      BY <3>1 DEF CleanupOut
    <3>2. CASE id[d] # NoId /\ q # id[d].room
      <4>1. id[d].room \in Rooms
        BY <1>0, <3>2 DEF Ids
      <4>2. c \notin Handles(id[d].room, Users \ {id[d].user})
        BY <3>2, <4>1, HandleIds DEF HandlerInv
      <4> QED
        BY <3>2, <4>2 DEF CleanupOut, To
    <3> QED
      BY <1>8, <3>1, <3>2
  <2>2. rooms'[q] = rooms[q]
    BY <1>0, <1>2, <1>8 DEF Unlist
  <2>3. Others(c)' = Others(c)
    BY <1>0, <2>2 DEF Others, Members
  <2>4. \A u \in Users : Silent(out[c], u)
    BY <2>1 DEF Silent
  <2>5. out[c] \in Seq(Message)
    BY <1>1
  <2> HIDE DEF out
  <2> QED
    BY <1>0, <1>4, <1>5, <1>6, <2>3, <2>4, <2>5, ShownKept
<1> QED
  BY <1>7, <1>8

\* A message that is not about members, to anybody.
LEMMA ShownOther ==
  ASSUME HandlerInv, ViewInv, NEW S, NEW m \in Message,
         m.t \notin {"roster", "joined", "left"},
         TrySend(To(S, m)), UNCHANGED <<rooms, id, roster, view, raced>>,
         NEW c \in Conns, Followed(c)',
         phase'[c] = "inserted" <=> phase[c] = "inserted"
  PROVE  Shown(c)'
<1> DEFINE out == To(S, m)
<1>1. out \in [Conns -> Seq(Message)]
  BY ToType
<1>2. \A u \in Users : Silent(out[c], u)
  BY DEF To, Silent, Mentions
<1>3. Listed(c) /\ c \notin Lost(out) /\ Shown(c)
  BY DEF TrySend, Followed, Listed, ViewInv
<1>4. queue'[c] = queue[c] \o out[c]
  BY <1>1, <1>3, Appended DEF TrySend, HandlerInv
<1>5. Others(c)' = Others(c)
  BY DEF Others, Members
<1>6. out[c] \in Seq(Message)
  BY <1>1
<1> HIDE DEF out
<1> QED
  BY <1>2, <1>3, <1>4, <1>5, <1>6, ShownKept

\* The Roster: whatever is queued before it, it speaks last and of everybody.
LEMMA ShownRoster ==
  ASSUME HandlerInv, ViewInv, NEW d \in Conns, SendRoster(d), NEW c \in Conns, Followed(c)'
  PROVE  Shown(c)'
<1> DEFINE m == RosterOf(roster[d], d)
           out == To({d}, m)
<1>0. /\ UNCHANGED <<rooms, id, roster, view, raced>>
      /\ queue' = Sent(out) /\ dropped' = dropped \cup Lost(out)
      /\ phase[d] = "inserted" /\ phase' = [phase EXCEPT ![d] = "rostered"]
      /\ phase \in [Conns -> Phases]
  BY DEF SendRoster, Goto, TrySend, client, HandlerInv, TypeOK
<1>1. m \in Message /\ m.t = "roster" /\ m.peers = roster[d]
  BY Built DEF RosterOf, HandlerInv, TypeOK
<1>2. out \in [Conns -> Seq(Message)]
  BY <1>1, ToType
<1>3. Listed(c) /\ c \notin Lost(out) /\ Shown(c)
  BY <1>0 DEF Followed, Listed, ViewInv
<1>4. queue'[c] = queue[c] \o out[c]
  BY <1>0, <1>2, <1>3, Appended DEF HandlerInv
<1>5. Others(c)' = Others(c)
  BY <1>0 DEF Others, Members
<1>6. out[c] \in Seq(Message) /\ queue[c] \in Seq(Message)
  BY <1>2, <1>3, FollowedFacts
<1>7. CASE c = d
  <2>1. out[c] = <<m>>
    BY <1>7 DEF To
  <2>2. m.peers = Others(c)
    BY <1>0, <1>1, <1>3, <1>7 DEF Shown
  <2> HIDE DEF m, out
  <2>3. 1 \in DOMAIN out[c] /\ out[c][1] = m /\ \A j \in DOMAIN out[c] : j = 1
    BY <1>6, <2>1
  <2>4. ASSUME NEW u \in Users PROVE Tells(queue[c] \o out[c], view[c], u, Others(c))
    <3>1. Mentions(out[c][1], u) /\ (Lists(out[c][1], u) <=> u \in Others(c))
      BY <1>1, <2>2, <2>3 DEF Mentions, Lists
    <3> QED
      BY <1>6, <2>3, <3>1, TellsLast
  <2>5. phase'[c] # "inserted"
    BY <1>0, <1>7
  <2> QED
    BY <1>0, <1>4, <1>5, <2>4, <2>5 DEF Shown
<1>8. CASE c # d
  <2>1. out[c] = << >>
    BY <1>8 DEF To
  <2>2. \A u \in Users : Silent(out[c], u)
    BY <2>1 DEF Silent
  <2>3. phase'[c] = phase[c]
    BY <1>0, <1>8
  <2> HIDE DEF out
  <2> QED
    BY <1>0, <1>3, <1>4, <1>5, <1>6, <2>2, <2>3, ShownKept
<1> QED
  BY <1>7, <1>8

\* A client that handles a message.
LEMMA ShownDeliver ==
  ASSUME HandlerInv, ViewInv, NEW d \in Conns, Deliver(d), NEW c \in Conns, Followed(c)'
  PROVE  Shown(c)'
<1>0. /\ UNCHANGED <<rooms, id, roster, phase, raced, dropped>>
      /\ queue[d] # << >>
      /\ queue' = [queue EXCEPT ![d] = Tail(@)]
      /\ view'  = [view EXCEPT ![d] = Apply(@, Head(queue[d]))]
      /\ queue \in [Conns -> Seq(Message)] /\ view \in [Conns -> SUBSET Users]
  BY DEF Deliver, handler, history, HandlerInv, TypeOK
<1>1. Listed(c) /\ Shown(c)
  BY <1>0 DEF Followed, Listed, ViewInv
<1>2. Others(c)' = Others(c)
  BY <1>0 DEF Others, Members
<1>3. CASE c = d /\ phase[c] # "inserted"
  <2>1. \A u \in Users : Tells(Tail(queue[c]), Apply(view[c], Head(queue[c])), u, Others(c))
    BY <1>0, <1>1, <1>3, TellsHandled DEF Shown
  <2>2. queue'[c] = Tail(queue[c]) /\ view'[c] = Apply(view[c], Head(queue[c]))
    BY <1>0, <1>3
  <2> QED
    BY <1>0, <1>2, <1>3, <2>1, <2>2 DEF Shown
<1>4. CASE c # d \/ phase[c] = "inserted"
  BY <1>0, <1>1, <1>2, <1>4 DEF Shown
<1> QED
  BY <1>3, <1>4

LEMMA ViewStep == HandlerInv /\ ViewInv /\ [Next]_vars => ViewInv'
<1> SUFFICES ASSUME HandlerInv, ViewInv, [Next]_vars, NEW c \in Conns, Followed(c)'
             PROVE  Shown(c)'
  BY DEF ViewInv
<1>0. phase \in [Conns -> Phases] /\ TypeOK
  BY DEF HandlerInv, TypeOK
<1>1. ASSUME NEW d \in Conns, NEW r \in Rooms, NEW u \in Claims[d], Join(d, r, u)
      PROVE  Shown(c)'
  BY <1>1, ShownJoin, ClaimsAssumption
<1>2. ASSUME NEW d \in Conns, Cleanup(d) PROVE Shown(c)'
  BY <1>2, ShownCleanup
<1>3. ASSUME NEW d \in Conns, SendRoster(d) PROVE Shown(c)'
  BY <1>3, ShownRoster
<1>4. ASSUME NEW d \in Conns,
             \/ JoinRejected(d) \/ SendTurn(d) \/ Complain(d) \/ Ptt(d) \/ Rekey(d)
             \/ \E r \in Rooms, u \in Claims[d] : JoinRefused(d, r, u)
             \/ \E to \in Users, k \in Kinds : Relay(d, to, k)
      PROVE  Shown(c)'
  <2>1. /\ UNCHANGED <<rooms, id, roster, view, raced>>
        /\ phase'[c] = "inserted" <=> phase[c] = "inserted"
    BY <1>0, <1>4 DEF JoinRejected, SendTurn, Complain, Ptt, Rekey, JoinRefused, Relay,
                     Request, Goto, client
  <2>2. CASE \/ JoinRejected(d) \/ SendTurn(d) \/ Complain(d) \/ Rekey(d)
             \/ \E r \in Rooms, u \in Claims[d] : JoinRefused(d, r, u)
    <3>1. \/ TrySend(To({d}, Plain("error", d)))
          \/ TrySend(To({d}, Plain("full", d)))
          \/ TrySend(To({x \in {d} : TurnEnabled}, Plain("turn", d)))
          \/ TrySend(To(Handles(id[d].room, Users), Plain("rekey", d)))
      BY <2>2 DEF JoinRejected, SendTurn, Complain, Rekey, JoinRefused
    <3>2. \A t \in {"turn", "rekey", "full", "error"} :
             Plain(t, d) \in Message /\ Plain(t, d).t = t
      BY Built DEF Plain
    <3> QED
      BY <2>1, <3>1, <3>2, ShownOther
  <2>3. CASE Ptt(d) \/ \E to \in Users, k \in Kinds : Relay(d, to, k)
    <3>1. id[d].user \in Users
      BY <2>3 DEF Ptt, Relay, HasJoined, HandlerInv, PhaseInv, TypeOK, Ids
    <3>2. CASE Ptt(d)
      <4>1. About("ptt", id[d].user, d) \in Message /\ About("ptt", id[d].user, d).t = "ptt"
        BY <3>1, Built DEF About
      <4> QED
        BY <2>1, <3>2, <4>1, ShownOther DEF Ptt
    <3>3. ASSUME NEW to \in Users, NEW k \in Kinds, Relay(d, to, k) PROVE Shown(c)'
      <4>1. /\ Relayed(k, id[d].user, d) \in Message
            /\ Relayed(k, id[d].user, d).t = "relay"
        BY <3>1, Built DEF Relayed
      <4> QED
        BY <2>1, <3>3, <4>1, ShownOther DEF Relay
    <3> QED
      BY <2>3, <3>2, <3>3
  <2> QED
    BY <1>4, <2>2, <2>3
<1>5. ASSUME NEW d \in Conns, Deliver(d) PROVE Shown(c)'
  BY <1>5, ShownDeliver
<1>6. ASSUME NEW d \in Conns, WriterFails(d) PROVE Shown(c)'
  <2>1. c # d /\ Followed(c)
    BY <1>6 DEF WriterFails, handler, client, Followed, Listed
  <2> QED
    BY <1>0, <1>6, <2>1 DEF WriterFails, handler, client, ViewInv, Shown, Others, Members, TypeOK
<1>7. ASSUME \/ UNCHANGED vars
             \/ \E d \in Conns : Accept(d) \/ Hangup(d)
      PROVE  Shown(c)'
  <2>1. /\ UNCHANGED <<rooms, id, roster, view, queue, dropped, raced>>
        /\ phase'[c] = "inserted" <=> phase[c] = "inserted"
    BY <1>0, <1>7 DEF Accept, Hangup, Goto, vars, server, handler, client, history
  <2> QED
    BY <2>1 DEF ViewInv, Followed, Listed, Shown, Others, Members
<1> QED
  BY <1>1, <1>2, <1>3, <1>4, <1>5, <1>6, <1>7 DEF Next, Handler

\* Whatever supersedes what, however late sockets are cleaned up and however
\* small the queues are: once its queue has drained, a listed client that lost
\* no message and was sent no membership event ahead of its Roster shows
\* exactly the other members of its room (main.rs:508-529, 598-609).
THEOREM SettledViewTheorem == Spec => []SettledViewIsRoom
<1>1. Init => ViewInv
  BY DEF Init, ViewInv, Followed, Listed
<1>2. HandlerInv /\ ViewInv => SettledViewIsRoom
  <2> SUFFICES ASSUME HandlerInv, ViewInv, NEW c \in Conns, Settled(c), c \notin raced
               PROVE  view[c] = Others(c)
    BY DEF SettledViewIsRoom, Others
  <2>1. Listed(c) /\ phase[c] = "joined" /\ queue[c] = << >> /\ Shown(c)
    BY DEF Settled, ViewInv, Followed
  <2>2. view[c] \in SUBSET Users /\ Others(c) \in SUBSET Users
    BY <2>1, FollowedFacts
  <2>3. \A u \in Users : u \in view[c] <=> u \in Others(c)
    BY <2>1 DEF Shown, Tells, Silent
  <2> QED
    BY <2>2, <2>3
<1> QED
  BY <1>1, <1>2, HandlerInit, HandlerStep, ViewStep, PTL DEF Spec

=============================================================================
