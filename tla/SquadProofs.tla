----------------------------- MODULE SquadProofs -----------------------------
(***************************************************************************)
(* Theorems about a squad, for any users, sockets and surroundings: types, *)
(* what a rekey repairs, who is shown as speaking, and, where no socket    *)
(* breaks, that nobody keeps a link to one who left and that all who are   *)
(* in the room are linked.                                                 *)
(***************************************************************************)
EXTENDS Squad, FiniteSetTheorems, SequenceTheorems, TLAPS

-----------------------------------------------------------------------------
(* The inductive invariants.                                               *)

\* What the handlers of mesh.rs leave and send.
Messages == [type : {"offer", "answer"}, pc : Nat \ {0}]
Results  == [end : Ends \cup {Absent}, sent : {<<>>} \cup {<<m>> : m \in Messages}]

LinkMsgs == [type : {"offer", "answer"}, pc : Nat \ {0}, to : Users]

\* An engine that has started has a socket.
StartedInv == \A u \in Users : engine[u] = "off" <=> sock[u] = 0

\* Sockets of users are numbered in the order they are opened, and a handler that
\* has ended or has not begun has nothing to read.
SocketInv ==
    \A u \in Users :
        /\ room[u] <= sock[u]
        /\ \A s \in Sockets :
              /\ s > sock[u] => handler[u][s].phase = "closed" /\ <<u, s>> \notin broken
              /\ handler[u][s].phase = "closed" => s > sock[u] \/ <<u, s>> \in broken
              /\ handler[u][s].phase = "closed" => wire[u][s] = <<>>
              /\ handler[u][s].phase = "open" => room[u] # s

\* The mesh sends offers and answers only.
UplinkInv == \A u \in Users : uplink[u] \in Seq(LinkMsgs)

BaseInv == TypeOK /\ StartedInv /\ UplinkInv

\* The larger end of a link never offers.
SidesInv == \A u, v \in Users : ~ (u < v) => ~ peers[u][v].offered

Leaves(m, v) == m.type = "left" /\ m.user = v
Names(m, v)  == (m.type = "joined" /\ m.user = v) \/ (m.type = "roster" /\ v \in m.users)

\* A user in the room knows who else is, or is about to hear of it.
Told(q, v) ==
    \E i \in DOMAIN q : Names(q[i], v) /\ \A j \in DOMAIN q : j > i => ~ Leaves(q[j], v)
NoLeave(q, v) == \A i \in DOMAIN q : ~ Leaves(q[i], v)
Hears(u, v) ==
    \/ handler[u][sock[u]].phase = "joined" /\ v \in handler[u][sock[u]].roster
    \/ Told(inbox[u], v)
    \/ peers[u][v] # Absent /\ NoLeave(inbox[u], v)
HearsayInv == \A u, v \in Users : IsPresent(u) /\ room[v] # 0 /\ u # v => Hears(u, v)

\* A sequence has nothing of S, or one element of S, which is m.
None(q, S)    == \A i \in DOMAIN q : q[i] \notin S
One(q, S, m)  == \E i \in DOMAIN q : q[i] = m /\ \A j \in DOMAIN q : q[j] \in S => j = i

To(v)   == [type : {"offer", "answer"}, pc : Nat \ {0}, to : {v}]
From(u) == [type : {"offer", "answer"}, pc : Nat \ {0}, user : {u}]

\* Of what u sends to v nothing is under way, or one message of type t with pc p.
NoneUnderWay(u, v) ==
    None(uplink[u], To(v)) /\ None(wire[u][sock[u]], To(v)) /\ None(inbox[v], From(u))
OneUnderWay(u, v, t, p) ==
    LET c == [type |-> t, pc |-> p, to |-> v]
        d == [type |-> t, pc |-> p, user |-> u]
    IN  \/ One(uplink[u], To(v), c) /\ None(wire[u][sock[u]], To(v)) /\ None(inbox[v], From(u))
        \/ None(uplink[u], To(v)) /\ One(wire[u][sock[u]], To(v), c) /\ None(inbox[v], From(u))
        \/ None(uplink[u], To(v)) /\ None(wire[u][sock[u]], To(v)) /\ One(inbox[v], From(u), d)

\* The rekey command is on a socket that holds, or every user still has it in
\* the inbox once at most.
CommandWaits ==
    \E c \in Users : /\ Carries(c) /\ handler[c][sock[c]].phase = "serving"
                     /\ One(wire[c][sock[c]], {RekeyMsg}, RekeyMsg)
                     /\ \A w \in Users, s \in Sockets :
                           w # c \/ s # sock[c] => None(wire[w][s], {RekeyMsg})
                     /\ \A w \in Users : None(inbox[w], {RekeyMsg})
CommandServed ==
    \A w \in Users : /\ \A s \in Sockets : None(wire[w][s], {RekeyMsg})
                     /\ None(inbox[w], {RekeyMsg}) \/ One(inbox[w], {RekeyMsg}, RekeyMsg)
CommandDue(u) == CommandWaits \/ (CommandServed /\ One(inbox[u], {RekeyMsg}, RekeyMsg))
CommandPassed(u) == CommandServed /\ None(inbox[u], {RekeyMsg})

\* The four states of a link after the command: the smaller end u has not had it,
\* the offer is under way, the answer is, and the two are linked.
Untouched(u, v) == CommandDue(u) /\ NoneUnderWay(u, v) /\ NoneUnderWay(v, u)
Offered(u, v)   == /\ CommandPassed(u) /\ peers[u][v].offered /\ peers[u][v].remote = 0
                   /\ OneUnderWay(u, v, "offer", peers[u][v].pc) /\ NoneUnderWay(v, u)
Answered(u, v)  == /\ CommandPassed(u) /\ peers[u][v].offered /\ peers[u][v].remote = 0
                   /\ NoneUnderWay(u, v) /\ OneUnderWay(v, u, "answer", peers[v][u].pc)
                   /\ peers[v][u].remote = peers[u][v].pc
Done(u, v)      == /\ CommandPassed(u) /\ NoneUnderWay(u, v) /\ NoneUnderWay(v, u)
                   /\ Linked(u, v)
LinkState(u, v) == Untouched(u, v) \/ Offered(u, v) \/ Answered(u, v) \/ Done(u, v)

\* Since the command nobody is being welcomed; who leaves stays out of the room.
News == {m \in ServerMsgs : \/ m.type \in {"roster", "joined"}
                            \/ m.type = "left" /\ room[m.user] # 0}
NoWelcome ==
    \A u \in Users : /\ None(inbox[u], News)
                     /\ \A s \in Sockets : /\ handler[u][s].phase \in {"closed", "serving"}
                                           /\ s # sock[u] => wire[u][s] = <<>>
Pairs ==
    \A u, v \in Users :
        IsPresent(u) /\ IsPresent(v) => /\ u # v => peers[u][v] # Absent
                                        /\ u < v => LinkState(u, v)
CalmInv == calm => NoWelcome /\ (CommandWaits \/ CommandServed) /\ Pairs

-----------------------------------------------------------------------------
(* Sequences.                                                              *)

LEMMA AppendFacts ==
    ASSUME NEW S, NEW q \in Seq(S), NEW m \in S
    PROVE  /\ Append(q, m) \in Seq(S) /\ q \o <<m>> = Append(q, m)
           /\ Len(q) \in Nat /\ DOMAIN q = 1 .. Len(q)
           /\ DOMAIN Append(q, m) = 1 .. Len(q) + 1
           /\ Append(q, m)[Len(q) + 1] = m
           /\ \A i \in DOMAIN q : Append(q, m)[i] = q[i]
OBVIOUS

LEMMA TailFacts ==
    ASSUME NEW S, NEW q \in Seq(S), q # <<>>
    PROVE  /\ Tail(q) \in Seq(S) /\ Head(q) \in S /\ Head(q) = q[1] /\ 1 \in DOMAIN q
           /\ Len(q) \in Nat /\ DOMAIN q = 1 .. Len(q) /\ DOMAIN Tail(q) = 1 .. Len(q) - 1
           /\ \A i \in DOMAIN Tail(q) : Tail(q)[i] = q[i + 1]
OBVIOUS

LEMMA ConcatFacts ==
    ASSUME NEW S, NEW q \in Seq(S), NEW r \in Seq(S)
    PROVE  /\ q \o r \in Seq(S)
           /\ Len(q) \in Nat /\ DOMAIN q = 1 .. Len(q)
           /\ Len(r) \in Nat /\ DOMAIN r = 1 .. Len(r)
           /\ DOMAIN (q \o r) = 1 .. Len(q) + Len(r)
           /\ \A i \in DOMAIN q : (q \o r)[i] = q[i]
           /\ \A i \in DOMAIN r : (q \o r)[Len(q) + i] = r[i]
OBVIOUS

LEMMA NoneAppended ==
    ASSUME NEW M, NEW q \in Seq(M), NEW m \in M, NEW S
    PROVE  None(Append(q, m), S) <=> None(q, S) /\ m \notin S
<1> DEFINE n == Len(q)
           z == Append(q, m)
<1>1. /\ n \in Nat /\ DOMAIN q = 1 .. n /\ DOMAIN z = 1 .. n + 1 /\ z[n + 1] = m
      /\ \A i \in DOMAIN q : z[i] = q[i]
  BY AppendFacts
<1> HIDE DEF n, z
<1>2. None(z, S) <=> None(q, S) /\ m \notin S
  BY <1>1 DEF None
<1> QED
  BY <1>2 DEF z

LEMMA NoneShifted ==
    ASSUME NEW M, NEW q \in Seq(M), q # <<>>, NEW S
    PROVE  None(q, S) <=> None(Tail(q), S) /\ Head(q) \notin S
<1> DEFINE n == Len(q)
           z == Tail(q)
<1>1. /\ n \in Nat /\ DOMAIN q = 1 .. n /\ 1 \in DOMAIN q /\ DOMAIN z = 1 .. n - 1 /\ q[1] = Head(q)
      /\ \A i \in DOMAIN z : z[i] = q[i + 1]
  BY TailFacts
<1> HIDE DEF n, z
<1>2. \A i \in DOMAIN q : i = 1 \/ (i - 1 \in DOMAIN z /\ z[i - 1] = q[i])
  BY <1>1
<1>3. \A i \in DOMAIN z : i + 1 \in DOMAIN q
  BY <1>1
<1>4. None(z, S) /\ Head(q) \notin S => None(q, S)
  BY <1>1, <1>2 DEF None
<1>5. None(q, S) => None(z, S) /\ Head(q) \notin S
  BY <1>1, <1>3 DEF None
<1> QED
  BY <1>4, <1>5 DEF z

LEMMA NoneJoined ==
    ASSUME NEW M, NEW q \in Seq(M), NEW r \in Seq(M), NEW S
    PROVE  None(q \o r, S) <=> None(q, S) /\ None(r, S)
<1> DEFINE n == Len(q)
           k == Len(r)
           z == q \o r
<1>1. /\ n \in Nat /\ DOMAIN q = 1 .. n /\ k \in Nat /\ DOMAIN r = 1 .. k /\ DOMAIN z = 1 .. n + k
      /\ \A i \in DOMAIN q : z[i] = q[i]
      /\ \A i \in DOMAIN r : z[n + i] = r[i]
  BY ConcatFacts
<1> HIDE DEF n, k, z
<1>2. \A i \in DOMAIN z : i \in DOMAIN q \/ (i - n \in DOMAIN r /\ z[i] = r[i - n])
  BY <1>1
<1>3. \A i \in DOMAIN r : n + i \in DOMAIN z
  BY <1>1
<1>4. None(q, S) /\ None(r, S) => None(z, S)
  BY <1>1, <1>2 DEF None
<1>5. None(z, S) => None(q, S) /\ None(r, S)
  BY <1>1, <1>3 DEF None
<1> QED
  BY <1>4, <1>5 DEF z

LEMMA OneAppended ==
    ASSUME NEW M, NEW q \in Seq(M), NEW m \in M, NEW S, NEW x
    PROVE  /\ m \notin S /\ One(q, S, x) => One(Append(q, m), S, x)
           /\ None(q, S) => One(Append(q, m), S, m)
<1> DEFINE n == Len(q)
           z == Append(q, m)
<1>1. /\ n \in Nat /\ DOMAIN q = 1 .. n /\ DOMAIN z = 1 .. n + 1 /\ z[n + 1] = m
      /\ \A i \in DOMAIN q : z[i] = q[i]
  BY AppendFacts
<1> HIDE DEF n, z
<1>2. /\ n + 1 \in DOMAIN z /\ \A i \in DOMAIN q : i \in DOMAIN z
      /\ \A i \in DOMAIN z : i \in DOMAIN q \/ i = n + 1
  BY <1>1
<1>3. m \notin S /\ One(q, S, x) => One(z, S, x)
  BY <1>1, <1>2 DEF One
<1>4. None(q, S) => One(z, S, m)
  BY <1>1, <1>2 DEF One, None
<1> QED
  BY <1>3, <1>4 DEF z

LEMMA OneShifted ==
    ASSUME NEW M, NEW q \in Seq(M), q # <<>>, NEW S, NEW x, One(q, S, x)
    PROVE  /\ Head(q) \notin S => One(Tail(q), S, x) \/ Head(q) = x
           /\ Head(q) \in S => Head(q) = x /\ None(Tail(q), S)
<1> DEFINE n == Len(q)
           z == Tail(q)
<1>1. /\ n \in Nat /\ DOMAIN q = 1 .. n /\ 1 \in DOMAIN q /\ DOMAIN z = 1 .. n - 1 /\ q[1] = Head(q)
      /\ \A i \in DOMAIN z : z[i] = q[i + 1]
  BY TailFacts
<1> HIDE DEF n, z
<1>2. /\ \A i \in DOMAIN q : i \in Nat /\ (i = 1 \/ (i - 1 \in DOMAIN z /\ z[i - 1] = q[i]))
      /\ \A i \in DOMAIN z : i + 1 \in DOMAIN q /\ i + 1 # 1 /\ i \in Nat
  BY <1>1
<1>3. PICK k \in DOMAIN q : q[k] = x /\ \A j \in DOMAIN q : q[j] \in S => j = k
  BY DEF One
<1>4. CASE k = 1
  <2>1. None(z, S) /\ Head(q) = x
    BY <1>1, <1>2, <1>3, <1>4 DEF None
  <2> QED
    BY <2>1 DEF z
<1>5. CASE k # 1
  <2>1. k - 1 \in DOMAIN z /\ z[k - 1] = x /\ Head(q) \notin S
    BY <1>1, <1>2, <1>3, <1>5
  <2>2. \A j \in DOMAIN z : z[j] \in S => j = k - 1
    <3>1. ASSUME NEW j \in DOMAIN z, z[j] \in S PROVE j = k - 1
      <4>1. j + 1 = k /\ j \in Nat
        BY <1>1, <1>2, <1>3, <3>1
      <4> QED
        BY <4>1
    <3> QED
      BY <3>1
  <2>3. One(z, S, x)
    BY <2>1, <2>2 DEF One
  <2> QED
    BY <2>1, <2>3 DEF z
<1> QED
  BY <1>4, <1>5

LEMMA OneJoined ==
    ASSUME NEW M, NEW q \in Seq(M), NEW r \in Seq(M), NEW S, NEW x
    PROVE  /\ None(q, S) /\ One(r, S, x) => One(q \o r, S, x)
           /\ One(q, S, x) /\ None(r, S) => One(q \o r, S, x)
<1> DEFINE n == Len(q)
           k == Len(r)
           z == q \o r
<1>1. /\ n \in Nat /\ DOMAIN q = 1 .. n /\ k \in Nat /\ DOMAIN r = 1 .. k /\ DOMAIN z = 1 .. n + k
      /\ \A i \in DOMAIN q : z[i] = q[i]
      /\ \A i \in DOMAIN r : z[n + i] = r[i]
  BY ConcatFacts
<1> HIDE DEF n, k, z
<1>2. /\ \A i \in DOMAIN z : i \in DOMAIN q \/ (i - n \in DOMAIN r /\ z[i] = r[i - n] /\ i \in Nat)
      /\ \A i \in DOMAIN q : i \in DOMAIN z
      /\ \A i \in DOMAIN r : n + i \in DOMAIN z /\ i \in Nat
  BY <1>1
<1>3. ASSUME None(q, S), One(r, S, x) PROVE One(z, S, x)
  <2>1. PICK i \in DOMAIN r : r[i] = x /\ \A j \in DOMAIN r : r[j] \in S => j = i
    BY <1>3 DEF One
  <2>2. n + i \in DOMAIN z /\ z[n + i] = x
    BY <1>1, <1>2, <2>1
  <2>3. ASSUME NEW j \in DOMAIN z, z[j] \in S PROVE j = n + i
    <3>1. j - n \in DOMAIN r /\ z[j] = r[j - n] /\ j \in Nat
      BY <1>1, <1>2, <1>3, <2>3 DEF None
    <3>2. j - n = i
      BY <2>1, <2>3, <3>1
    <3> QED
      BY <1>1, <1>2, <3>1, <3>2
  <2> QED
    BY <2>2, <2>3 DEF One
<1>4. ASSUME One(q, S, x), None(r, S) PROVE One(z, S, x)
  <2>1. PICK i \in DOMAIN q : q[i] = x /\ \A j \in DOMAIN q : q[j] \in S => j = i
    BY <1>4 DEF One
  <2>2. i \in DOMAIN z /\ z[i] = x
    BY <1>1, <1>2, <2>1
  <2>3. \A j \in DOMAIN z : z[j] \in S => j = i
    BY <1>1, <1>2, <1>4, <2>1 DEF None
  <2> QED
    BY <2>2, <2>3 DEF One
<1> QED
  BY <1>3, <1>4 DEF z

\* A set of users in some order, each of them once.
LEMMA OrderFacts ==
    ASSUME NEW S \in SUBSET Users
    PROVE  /\ SetToSeq(S) \in Seq(S)
           /\ \A v \in S : \E i \in DOMAIN SetToSeq(S) : SetToSeq(S)[i] = v
           /\ \A i, j \in DOMAIN SetToSeq(S) : SetToSeq(S)[i] = SetToSeq(S)[j] => i = j
<1> DEFINE n == Cardinality(S)
           q == SetToSeq(S)
<1>1. IsFiniteSet(S)
  BY SquadAssumption, FS_Subset
<1>2. n \in Nat /\ ExistsBijection(1 .. n, S)
  BY <1>1, FS_CardinalityType
<1>3. PICK f \in Bijection(1 .. n, S) : TRUE
  BY <1>2 DEF ExistsBijection
<1>4. f \in [1 .. n -> S] /\ IsInjective(f)
  BY <1>3 DEF Bijection, Injection, IsInjective
<1>5. q \in [1 .. n -> S] /\ IsInjective(q)
  BY <1>4 DEF SetToSeq
<1> HIDE DEF q
<1>6. q \in Injection(1 .. n, S)
  BY <1>5 DEF Injection, IsInjective
<1>7. q \in Surjection(1 .. n, S)
  <2>1. IsFiniteSet(1 .. n) /\ Cardinality(1 .. n) = n
    BY <1>2, FS_Interval
  <2> QED
    BY <1>1, <1>6, <2>1, FS_Injection
<1>8. q \in Seq(S) /\ DOMAIN q = 1 .. n
  BY <1>2, <1>5
<1> QED
  BY <1>5, <1>7, <1>8 DEF q, Surjection, IsInjective

-----------------------------------------------------------------------------
(* Messages, ends and handlers.                                            *)

AnEnd == Ends \cup {Absent}

LEMMA ClientFacts ==
    /\ JoinMsg \in ClientMsgs /\ RekeyMsg \in ClientMsgs
    /\ \A b \in BOOLEAN : PttMsg(b) \in ClientMsgs
    /\ \A m \in LinkMsgs : m \in ClientMsgs
    /\ \A m \in ClientMsgs : /\ m.type \in {"offer", "answer"} => m \in LinkMsgs
                             /\ m.type = "ptt" => m.active \in BOOLEAN /\ m = PttMsg(m.active)
                             /\ m.type = "rekey" => m = RekeyMsg
                             /\ m.type = "join" => m = JoinMsg
    /\ \A m \in LinkMsgs : m.type \in {"offer", "answer"} /\ m.pc \in Nat \ {0} /\ m.to \in Users
BY DEF ClientMsgs, LinkMsgs, JoinMsg, RekeyMsg, PttMsg

LEMMA ServerFacts ==
    /\ \A m \in ServerMsgs :
          /\ m.type \in {"roster", "joined", "left", "offer", "answer", "turn", "rekey", "ptt"}
          /\ m.type = "roster" => m.users \in SUBSET Users
          /\ m.type \in {"joined", "left", "offer", "answer", "ptt"} => m.user \in Users
          /\ m.type \in {"offer", "answer"} =>
                m.pc \in Nat \ {0} /\ m = [type |-> m.type, user |-> m.user, pc |-> m.pc]
          /\ m.type = "ptt" => m.active \in BOOLEAN
          /\ m.type = "rekey" => m = RekeyMsg
    /\ RekeyMsg \in ServerMsgs /\ [type |-> "turn"] \in ServerMsgs
    /\ \A S \in SUBSET Users : [type |-> "roster", users |-> S] \in ServerMsgs
    /\ \A u \in Users : /\ [type |-> "joined", user |-> u] \in ServerMsgs
                        /\ [type |-> "left", user |-> u] \in ServerMsgs
                        /\ \A b \in BOOLEAN : [type |-> "ptt", user |-> u, active |-> b] \in ServerMsgs
                        /\ \A t \in {"offer", "answer"}, p \in Nat \ {0} :
                              [type |-> t, user |-> u, pc |-> p] \in ServerMsgs
<1>1. \A m \in ServerMsgs :
          /\ m.type \in {"roster", "joined", "left", "offer", "answer", "turn", "rekey", "ptt"}
          /\ m.type = "roster" => m.users \in SUBSET Users
          /\ m.type \in {"joined", "left", "offer", "answer", "ptt"} => m.user \in Users
          /\ m.type = "ptt" => m.active \in BOOLEAN
  BY DEF ServerMsgs
<1>2. \A m \in ServerMsgs : m.type \in {"offer", "answer"} =>
          m.pc \in Nat \ {0} /\ m = [type |-> m.type, user |-> m.user, pc |-> m.pc]
  BY DEF ServerMsgs
<1>3. \A m \in ServerMsgs : m.type = "rekey" => m = RekeyMsg
  BY DEF ServerMsgs, RekeyMsg
<1>4. RekeyMsg \in ServerMsgs /\ [type |-> "turn"] \in ServerMsgs
  BY DEF ServerMsgs, RekeyMsg
<1>5. \A S \in SUBSET Users : [type |-> "roster", users |-> S] \in ServerMsgs
  BY DEF ServerMsgs
<1>6. \A u \in Users : /\ [type |-> "joined", user |-> u] \in ServerMsgs
                       /\ [type |-> "left", user |-> u] \in ServerMsgs
                       /\ \A b \in BOOLEAN : [type |-> "ptt", user |-> u, active |-> b] \in ServerMsgs
  BY DEF ServerMsgs
<1>7. \A u \in Users : \A t \in {"offer", "answer"}, p \in Nat \ {0} :
          [type |-> t, user |-> u, pc |-> p] \in ServerMsgs
  BY DEF ServerMsgs
<1> QED
  BY <1>1, <1>2, <1>3, <1>4, <1>5, <1>6, <1>7

LEMMA EndFacts ==
    /\ Absent \in AnEnd /\ Absent.pc = 0 /\ ~ Absent.offered /\ Absent.remote = 0 /\ Absent \notin Ends
    /\ \A e \in AnEnd : /\ e.pc \in Nat /\ e.offered \in BOOLEAN /\ e.remote \in Nat /\ e.turn \in BOOLEAN
                        /\ e # Absent <=> e \in Ends
                        /\ e # Absent => e.pc # 0
<1>1. Absent.pc = 0 /\ ~ Absent.offered /\ Absent.remote = 0 /\ Absent.turn \in BOOLEAN
      /\ Absent.offered \in BOOLEAN
  BY DEF Absent
<1>2. \A e \in Ends : /\ e.pc \in Nat /\ e.offered \in BOOLEAN /\ e.remote \in Nat /\ e.turn \in BOOLEAN
                      /\ e.pc # 0
  BY DEF Ends
<1>3. Absent \notin Ends
  BY <1>1, <1>2
<1> QED
  BY <1>1, <1>2, <1>3 DEF AnEnd

\* ensure makes a PeerConnection where there is none.
LEMMA EnsuredFacts ==
    ASSUME NEW e \in AnEnd, NEW n \in Nat \ {0}, NEW t \in BOOLEAN
    PROVE  /\ Ensured(e, n, t) \in Ends /\ Ensured(e, n, t) # Absent
           /\ e # Absent => Ensured(e, n, t) = e
           /\ e = Absent => /\ Ensured(e, n, t).pc = n /\ ~ Ensured(e, n, t).offered
                            /\ Ensured(e, n, t).remote = 0
<1>1. CASE e = Absent
  BY <1>1 DEF Ensured, Ends, Absent
<1>2. CASE e # Absent
  BY <1>2, EndFacts DEF Ensured
<1> QED
  BY <1>1, <1>2

LEMMA DescribedFacts ==
    ASSUME NEW e \in Ends, NEW p \in Nat \ {0}
    PROVE  /\ WithRemote(e, p) \in Ends /\ ~ WithRemote(e, p).offered /\ WithRemote(e, p).pc = e.pc
           /\ WithRemote(e, p).remote = IF e.remote = 0 THEN p ELSE e.remote
           /\ WithLocalOffer(e) \in Ends /\ WithLocalOffer(e).offered
           /\ WithLocalOffer(e).pc = e.pc /\ WithLocalOffer(e).remote = e.remote
           /\ OfferOf(e) \in Messages /\ AnswerOf(e) \in Messages
BY DEF WithRemote, WithLocalOffer, OfferOf, AnswerOf, Messages, Ends

LEMMA ResultFacts ==
    /\ \A e \in AnEnd : [end |-> e, sent |-> <<>>] \in Results
    /\ \A e \in AnEnd, m \in Messages : [end |-> e, sent |-> <<m>>] \in Results
    /\ \A r \in Results : /\ r.end \in AnEnd
                          /\ r.sent # <<>> => Head(r.sent) \in Messages
BY DEF Results, AnEnd

\* on_peer leaves a PeerConnection, and only the smaller end offers: at once, if it
\* had none.
LEMMA OnPeerFacts ==
    ASSUME NEW u \in Users, NEW v \in Users, NEW e \in AnEnd, NEW n \in Nat \ {0},
           NEW t \in BOOLEAN, NEW again \in BOOLEAN
    PROVE  LET r == OnPeer(u < v, e, n, t, again)
           IN  /\ r \in Results /\ r.end \in Ends
               /\ ~ (u < v) /\ ~ e.offered => ~ r.end.offered
               /\ ~ (u < v) => r.sent = <<>> /\ (e # Absent => r.end = e)
               /\ u < v /\ e = Absent => /\ r.end.offered /\ r.end.remote = 0
                                        /\ r.sent = <<[type |-> "offer", pc |-> r.end.pc]>>
<1> DEFINE f == Ensured(e, n, t)
           r == OnPeer(u < v, e, n, t, again)
<1>1. /\ f \in Ends /\ f \in AnEnd /\ (~ e.offered => ~ f.offered)
      /\ WithLocalOffer(f) \in Ends /\ OfferOf(f) \in Messages
  <2>1. f \in Ends /\ (~ e.offered => ~ f.offered)
    BY EnsuredFacts, EndFacts
  <2> QED
    BY <2>1, DescribedFacts DEF AnEnd
<1>2. \/ (u < v) /\ r = [end |-> WithLocalOffer(f), sent |-> <<OfferOf(f)>>]
      \/ r = [end |-> f, sent |-> <<>>]
  BY DEF OnPeer
<1>5. ~ (u < v) => r = [end |-> f, sent |-> <<>>] /\ (e # Absent => f = e)
  BY EnsuredFacts DEF OnPeer
<1>6. u < v /\ e = Absent => r = [end |-> WithLocalOffer(f), sent |-> <<OfferOf(f)>>]
  BY EnsuredFacts DEF OnPeer, TakesLocalOffer
<1>7. e = Absent => /\ WithLocalOffer(f).offered /\ WithLocalOffer(f).remote = 0
                    /\ OfferOf(f) = [type |-> "offer", pc |-> WithLocalOffer(f).pc]
  BY <1>1, EnsuredFacts, DescribedFacts DEF OfferOf
<1> HIDE DEF f, r
<1>3. r \in Results /\ r.end \in Ends
  BY <1>1, <1>2, ResultFacts DEF AnEnd
<1>4. ~ (u < v) /\ ~ e.offered => ~ r.end.offered
  BY <1>1, <1>2
<1>8. u < v /\ e = Absent => /\ r.end.offered /\ r.end.remote = 0
                            /\ r.sent = <<[type |-> "offer", pc |-> r.end.pc]>>
  BY <1>6, <1>7
<1>9. ~ (u < v) => r.sent = <<>> /\ (e # Absent => r.end = e)
  BY <1>5
<1> QED
  BY <1>3, <1>4, <1>8, <1>9 DEF r

\* on_offer leaves a PeerConnection.  One that was free takes the offer and
\* is answered for.
LEMMA OnOfferFacts ==
    ASSUME NEW e \in AnEnd, NEW n \in Nat \ {0}, NEW t \in BOOLEAN, NEW p \in Nat \ {0}
    PROVE  LET r == OnOffer(e, n, t, p)
           IN  /\ r \in Results /\ r.end \in Ends
               /\ ~ e.offered => /\ ~ r.end.offered /\ r.end.remote = p
                                 /\ r.sent = <<[type |-> "answer", pc |-> r.end.pc]>>
<1> DEFINE d == IF RemoteSet(e) THEN Absent ELSE e
           f == Ensured(d, n, t)
           r == OnOffer(e, n, t, p)
<1>1. d \in AnEnd /\ d.remote = 0 /\ (~ e.offered => ~ d.offered)
  BY EndFacts DEF RemoteSet
<1> HIDE DEF d
<1>2. f \in Ends /\ f \in AnEnd /\ f.remote = 0 /\ (~ e.offered => ~ f.offered)
  BY <1>1, EnsuredFacts, EndFacts DEF AnEnd
<1>3. r = IF ~ f.offered THEN [end |-> WithRemote(f, p), sent |-> <<AnswerOf(f)>>]
                         ELSE [end |-> f, sent |-> <<>>]
  BY DEF OnOffer, TakesOffer, d
<1> HIDE DEF f, r
<1>4. /\ WithRemote(f, p) \in Ends /\ WithRemote(f, p) \in AnEnd /\ WithRemote(f, p).pc = f.pc
      /\ ~ WithRemote(f, p).offered /\ WithRemote(f, p).remote = p
      /\ AnswerOf(f) \in Messages /\ AnswerOf(f) = [type |-> "answer", pc |-> f.pc]
  BY <1>2, DescribedFacts DEF AnEnd, AnswerOf
<1>5. r \in Results /\ r.end \in Ends
  BY <1>2, <1>3, <1>4, ResultFacts
<1>6. ~ e.offered => /\ ~ r.end.offered /\ r.end.remote = p
                     /\ r.sent = <<[type |-> "answer", pc |-> r.end.pc]>>
  BY <1>2, <1>3, <1>4
<1> QED
  BY <1>5, <1>6 DEF r

\* on_answer: an end that offered takes it, whichever offer it answers.
LEMMA OnAnswerFacts ==
    ASSUME NEW e \in AnEnd, NEW p \in Nat \ {0}
    PROVE  /\ OnAnswer(e, p) \in AnEnd /\ (e # Absent => OnAnswer(e, p) # Absent)
           /\ ~ e.offered => OnAnswer(e, p) = e
           /\ e.offered /\ e.remote = 0 => /\ OnAnswer(e, p).pc = e.pc /\ OnAnswer(e, p).remote = p
                                          /\ OnAnswer(e, p) # Absent
<1>1. CASE e.offered
  <2>1. e \in Ends
    BY <1>1, EndFacts
  <2>2. OnAnswer(e, p) = WithRemote(e, p)
    BY <1>1, <2>1, EndFacts DEF OnAnswer, TakesAnswer
  <2> QED
    BY <1>1, <2>1, <2>2, DescribedFacts, EndFacts DEF AnEnd
<1>2. CASE ~ e.offered
  BY <1>2 DEF OnAnswer, TakesAnswer
<1> QED
  BY <1>1, <1>2

\* rekey: the smaller end of a link offers anew, the other one waits.
LEMMA OnRekeyFacts ==
    ASSUME NEW u \in Users, NEW v \in Users, NEW e \in AnEnd, NEW n \in Nat \ {0}, NEW t \in BOOLEAN
    PROVE  LET r == OnRekey(u < v, e, n, t)
           IN  /\ r \in Results
               /\ e = Absent \/ ~ (u < v) => r.end = e /\ r.sent = <<>>
               /\ e # Absent /\ u < v => /\ r.end \in Ends /\ r.end.offered /\ r.end.remote = 0
                                         /\ r.sent = <<[type |-> "offer", pc |-> r.end.pc]>>
<1> DEFINE f == Ensured(Absent, n, t)
           r == OnRekey(u < v, e, n, t)
<1>1. CASE e = Absent \/ ~ (u < v)
  BY <1>1, ResultFacts DEF OnRekey
<1>2. CASE e # Absent /\ u < v
  <2>1. f \in Ends /\ ~ f.offered /\ f.remote = 0
    BY EnsuredFacts, EndFacts
  <2>2. r = [end |-> WithLocalOffer(f), sent |-> <<OfferOf(f)>>]
    BY <1>2, <2>1 DEF OnRekey, OnPeer, TakesLocalOffer
  <2> HIDE DEF f, r
  <2>3. /\ WithLocalOffer(f) \in Ends /\ WithLocalOffer(f) \in AnEnd /\ WithLocalOffer(f).offered
        /\ WithLocalOffer(f).remote = 0 /\ WithLocalOffer(f).pc = f.pc
        /\ OfferOf(f) \in Messages /\ OfferOf(f) = [type |-> "offer", pc |-> f.pc]
    BY <2>1, DescribedFacts DEF AnEnd, OfferOf
  <2>4. /\ r \in Results /\ r.end \in Ends /\ r.end.offered /\ r.end.remote = 0
        /\ r.sent = <<[type |-> "offer", pc |-> r.end.pc]>>
    BY <2>2, <2>3, ResultFacts
  <2> QED
    BY <1>2, <2>4 DEF r
<1> QED
  BY <1>1, <1>2

-----------------------------------------------------------------------------
(* Handling a message, and sending one.                                    *)

LEMMA TypeFacts ==
    ASSUME TypeOK
    PROVE  /\ env \in Surroundings /\ env.sockets \in 1 .. MaxSockets /\ MaxSockets \in Nat
           /\ \A u \in Users : /\ sock[u] \in 0 .. MaxSockets /\ sock[u] \in Nat
                               /\ room[u] \in 0 .. MaxSockets /\ room[u] \in Nat
                               /\ uplink[u] \in Seq(ClientMsgs) /\ inbox[u] \in Seq(ServerMsgs)
                               /\ \A s \in Sockets : wire[u][s] \in Seq(ClientMsgs) /\ s \in Nat /\ s # 0
                               /\ \A v \in Users : peers[u][v] \in AnEnd /\ made[u][v] \in Nat
           /\ \A u \in Users : sock[u] # 0 => sock[u] \in Sockets
<1>1. env \in Surroundings /\ MaxSockets \in Nat
  BY SquadAssumption DEF TypeOK
<1>2. env.sockets \in 1 .. MaxSockets
  BY <1>1 DEF Surroundings
<1>3. \A u \in Users : sock[u] \in 0 .. MaxSockets /\ room[u] \in 0 .. MaxSockets
  BY DEF TypeOK
<1>4. \A n \in 0 .. MaxSockets : n \in Nat /\ (n # 0 => n \in Sockets)
  BY <1>1 DEF Sockets
<1>5. \A s \in Sockets : s \in Nat /\ s # 0
  BY <1>1 DEF Sockets
<1>6. \A u \in Users : /\ uplink[u] \in Seq(ClientMsgs) /\ inbox[u] \in Seq(ServerMsgs)
                       /\ \A s \in Sockets : wire[u][s] \in Seq(ClientMsgs)
                       /\ \A v \in Users : peers[u][v] \in AnEnd /\ made[u][v] \in Nat
  BY DEF TypeOK, AnEnd
<1> QED
  BY <1>1, <1>2, <1>3, <1>4, <1>5, <1>6

LEMMA AddressedFacts ==
    ASSUME NEW m \in Messages, NEW v \in Users
    PROVE  /\ Addressed(m, v) \in LinkMsgs
           /\ \A w : Addressed(m, v) \in To(w) <=> w = v
           /\ Addressed(m, v) = [type |-> m.type, pc |-> m.pc, to |-> v]
BY DEF Addressed, Messages, LinkMsgs, To

\* What the mesh queues: to each of those who are sent something one message.
LEMMA QueuedFacts ==
    ASSUME NEW vs \in SUBSET Users, NEW h \in [Users -> Results]
    PROVE  LET to == SetToSeq({v \in vs : h[v].sent # <<>>})
               q  == [i \in DOMAIN to |-> Addressed(Head(h[to[i]].sent), to[i])]
           IN  /\ q \in Seq(LinkMsgs)
               /\ \A v \in Users : IF v \in vs /\ h[v].sent # <<>>
                                   THEN One(q, To(v), Addressed(Head(h[v].sent), v))
                                   ELSE None(q, To(v))
<1> DEFINE S  == {v \in vs : h[v].sent # <<>>}
           to == SetToSeq(S)
           q  == [i \in DOMAIN to |-> Addressed(Head(h[to[i]].sent), to[i])]
<1>1. /\ to \in Seq(S) /\ \A v \in S : \E i \in DOMAIN to : to[i] = v
      /\ \A i, j \in DOMAIN to : to[i] = to[j] => i = j
  <2>1. S \in SUBSET Users
    OBVIOUS
  <2> HIDE DEF S
  <2> QED
    BY <2>1, OrderFacts
<1>2. \A v \in S : v \in Users /\ Head(h[v].sent) \in Messages
  BY ResultFacts
<1>3. \A v \in Users : v \in S <=> v \in vs /\ h[v].sent # <<>>
  OBVIOUS
<1> HIDE DEF S, to
<1>4. \A i \in DOMAIN to : to[i] \in S
  BY <1>1
<1>5. \A i \in DOMAIN to : /\ q[i] = Addressed(Head(h[to[i]].sent), to[i])
                          /\ q[i] \in LinkMsgs
                          /\ \A w : q[i] \in To(w) <=> w = to[i]
  BY <1>2, <1>4, AddressedFacts
<1>6. Len(to) \in Nat /\ DOMAIN to = 1 .. Len(to) /\ DOMAIN q = DOMAIN to
  BY <1>1
<1> HIDE DEF q
<1>7. q \in Seq(LinkMsgs)
  <2>1. q \in [1 .. Len(to) -> LinkMsgs]
    <3>1. q = [i \in 1 .. Len(to) |-> q[i]]
      BY <1>6 DEF q
    <3> QED
      BY <1>5, <1>6, <3>1
  <2> QED
    BY <1>6, <2>1
<1>8. ASSUME NEW v \in S PROVE One(q, To(v), Addressed(Head(h[v].sent), v))
  <2>1. PICK i \in DOMAIN to : to[i] = v
    BY <1>1
  <2>2. \A j \in DOMAIN q : q[j] \in To(v) => j = i
    BY <1>1, <1>5, <1>6, <2>1
  <2> QED
    BY <1>5, <1>6, <2>1, <2>2 DEF One
<1>9. ASSUME NEW v \in Users, v \notin S PROVE None(q, To(v))
  BY <1>4, <1>5, <1>6, <1>9 DEF None
<1> QED
  BY <1>3, <1>7, <1>8, <1>9 DEF q, to, S

\* What is queued for each user.
Queued(vs, h, q) ==
    \A v \in Users : IF v \in vs /\ h[v].sent # <<>>
                     THEN One(q, To(v), Addressed(Head(h[v].sent), v))
                     ELSE None(q, To(v))

\* What is so when u has handled a message.
Handled(u, type, vs, h) ==
    /\ engine[u] = "up" /\ inbox[u] # <<>> /\ Got(u) \in ServerMsgs /\ Got(u).type = type
    /\ UNCHANGED <<engine, sock, transmit, wire, broken, handler, room, rekeys, talks, calm, aired>>
    /\ inbox' = [inbox EXCEPT ![u] = Tail(inbox[u])] /\ inbox' \in [Users -> Seq(ServerMsgs)]
    /\ peers' \in [Users -> [Users -> AnEnd]] /\ made' \in [Users -> [Users -> Nat]]
    /\ \A w, v \in Users : peers'[w][v] = IF w = u /\ v \in vs THEN h[v].end ELSE peers[w][v]
    /\ uplink' \in [Users -> Seq(LinkMsgs)]
    /\ \E q \in Seq(LinkMsgs) : uplink' = [uplink EXCEPT ![u] = uplink[u] \o q] /\ Queued(vs, h, q)

LEMMA HandledFacts ==
    ASSUME NEW u \in Users, NEW type, NEW vs \in SUBSET Users, NEW h \in [Users -> Results],
           TypeOK, UplinkInv, Handles(u, type, vs, h)
    PROVE  Handled(u, type, vs, h)
<1> DEFINE to == SetToSeq({v \in vs : h[v].sent # <<>>})
           q  == [i \in DOMAIN to |-> Addressed(Head(h[to[i]].sent), to[i])]
<1>1. /\ q \in Seq(LinkMsgs)
      /\ Queued(vs, h, q)
  BY QueuedFacts DEF Queued
<1>2. uplink' = [uplink EXCEPT ![u] = uplink[u] \o q]
  BY DEF Handles
<1> HIDE DEF q, to
<1>3. /\ engine[u] = "up" /\ inbox[u] # <<>> /\ Got(u).type = type
      /\ UNCHANGED <<engine, sock, transmit, wire, broken, handler, room, rekeys, talks, calm, aired>>
      /\ inbox' = [inbox EXCEPT ![u] = Tail(inbox[u])]
  BY DEF Handles, Got, serverVars, commandVars
<1>4. Got(u) \in ServerMsgs /\ inbox' \in [Users -> Seq(ServerMsgs)]
  <2>1. inbox \in [Users -> Seq(ServerMsgs)] /\ inbox[u] \in Seq(ServerMsgs)
    BY DEF TypeOK
  <2>2. Head(inbox[u]) \in ServerMsgs /\ Tail(inbox[u]) \in Seq(ServerMsgs)
    BY <1>3, <2>1, TailFacts
  <2> QED
    BY <1>3, <2>1, <2>2 DEF Got
<1>5. /\ peers' \in [Users -> [Users -> AnEnd]]
      /\ \A w, v \in Users : peers'[w][v] = IF w = u /\ v \in vs THEN h[v].end ELSE peers[w][v]
  <2>1. peers' = [peers EXCEPT ![u] = [v \in Users |-> IF v \in vs THEN h[v].end ELSE peers[u][v]]]
    BY DEF Handles
  <2>2. peers \in [Users -> [Users -> AnEnd]]
    BY DEF TypeOK, AnEnd
  <2>3. \A v \in Users : h[v].end \in AnEnd
    BY ResultFacts
  <2> QED
    BY <2>1, <2>2, <2>3
<1>6. made' \in [Users -> [Users -> Nat]]
  <2> DEFINE f == [v \in Users |-> IF v \in vs /\ h[v].end.pc > made[u][v]
                                   THEN h[v].end.pc ELSE made[u][v]]
  <2>1. made' = [made EXCEPT ![u] = f]
    BY DEF Handles
  <2>2. made \in [Users -> [Users -> Nat]]
    BY DEF TypeOK
  <2>3. \A v \in Users : h[v].end.pc \in Nat
    BY ResultFacts, EndFacts
  <2>4. f \in [Users -> Nat]
    BY <2>2, <2>3
  <2> HIDE DEF f
  <2> QED
    BY <2>1, <2>2, <2>4
<1>7. uplink' \in [Users -> Seq(LinkMsgs)]
  <2>1. uplink \in [Users -> Seq(LinkMsgs)]
    BY DEF UplinkInv, TypeOK
  <2>2. uplink[u] \o q \in Seq(LinkMsgs)
    BY <1>1, <2>1, ConcatFacts
  <2> QED
    BY <1>2, <2>1, <2>2
<1> QED
  BY <1>1, <1>2, <1>3, <1>4, <1>5, <1>6, <1>7 DEF Handled

\* The server sends a message to some of the users: those whose engine reads the
\* socket it is sent to get it.
LEMMA SentOne ==
    ASSUME NEW members, NEW m \in ServerMsgs, NEW to \in [Users -> 0 .. MaxSockets],
           TypeOK, Send(ToAll(members, <<m>>), to)
    PROVE  /\ inbox' \in [Users -> Seq(ServerMsgs)] /\ broken' \subseteq Users \X Sockets
           /\ \A u \in Users : inbox'[u] = IF u \in members /\ Carries(u) /\ to[u] = sock[u]
                                           THEN Append(inbox[u], m) ELSE inbox[u]
           /\ broken \subseteq broken'
           /\ \A u \in Users : \A s : <<u, s>> \in broken' =>
                 <<u, s>> \in broken \/ (engine[u] = "gone" /\ s = sock[u])
<1> DEFINE out == ToAll(members, <<m>>)
<1>0. \A u \in Users : out[u] = IF u \in members THEN <<m>> ELSE <<>>
  BY DEF ToAll
<1>1. inbox' = Delivered(out, to) /\ broken' = broken \cup Failed(out, to)
  BY DEF Send
<1> HIDE DEF out
<1>2. \A u \in Users : inbox[u] \in Seq(ServerMsgs)
  BY DEF TypeOK
<1>3. \A q \in Seq(ServerMsgs) : /\ q \o <<m>> = Append(q, m) /\ q \o <<>> = q
                                 /\ Append(q, m) \in Seq(ServerMsgs)
  <2>1. ASSUME NEW q \in Seq(ServerMsgs)
        PROVE  q \o <<m>> = Append(q, m) /\ Append(q, m) \in Seq(ServerMsgs)
    BY AppendFacts
  <2>2. \A q \in Seq(ServerMsgs) : q \o <<>> = q
    OBVIOUS
  <2> QED
    BY <2>1, <2>2
<1>4. \A u \in Users : inbox'[u] = IF Carries(u) /\ to[u] = sock[u] THEN inbox[u] \o out[u] ELSE inbox[u]
  BY <1>1 DEF Delivered
<1>5. \A u \in Users : inbox'[u] = IF u \in members /\ Carries(u) /\ to[u] = sock[u]
                                   THEN Append(inbox[u], m) ELSE inbox[u]
  <2>1. ASSUME NEW u \in Users
        PROVE  inbox'[u] = IF u \in members /\ Carries(u) /\ to[u] = sock[u]
                           THEN Append(inbox[u], m) ELSE inbox[u]
    <3>1. CASE u \in members
      BY <1>0, <1>2, <1>3, <1>4, <3>1
    <3>2. CASE u \notin members
      BY <1>0, <1>2, <1>3, <1>4, <3>2
    <3> QED
      BY <3>1, <3>2
  <2> QED
    BY <2>1
<1>6. inbox' \in [Users -> Seq(ServerMsgs)]
  <2>1. inbox' = [u \in Users |-> inbox'[u]]
    BY <1>1 DEF Delivered
  <2>2. \A u \in Users : inbox'[u] \in Seq(ServerMsgs)
    BY <1>2, <1>3, <1>5
  <2> QED
    BY <2>1, <2>2
<1>7. \A x \in Failed(out, to) : \E v \in Users : /\ x = <<v, to[v]>> /\ engine[v] = "gone"
                                                 /\ to[v] = sock[v] /\ to[v] # 0
  BY DEF Failed
<1>8. \A v \in Users : to[v] # 0 => to[v] \in Sockets
  BY SquadAssumption DEF Sockets
<1>9. broken' \subseteq Users \X Sockets
  BY <1>1, <1>7, <1>8 DEF TypeOK
<1>10. \A u \in Users : \A s : <<u, s>> \in broken' =>
          <<u, s>> \in broken \/ (engine[u] = "gone" /\ s = sock[u])
  BY <1>1, <1>7
<1> QED
  BY <1>1, <1>5, <1>6, <1>9, <1>10

\* What every handling of a message has in common.
Gets(u) == \/ GetRoster(u) \/ GetPeerJoined(u) \/ GetPeerLeft(u) \/ GetOffer(u)
           \/ GetAnswer(u) \/ GetRekey(u) \/ GetTurn(u) \/ GetPtt(u)
Handling(u) ==
    /\ engine[u] = "up" /\ inbox[u] # <<>> /\ Got(u) \in ServerMsgs
    /\ UNCHANGED <<engine, sock, transmit, wire, broken, handler, room, rekeys, talks, calm, aired>>
    /\ inbox' = [inbox EXCEPT ![u] = Tail(inbox[u])] /\ inbox' \in [Users -> Seq(ServerMsgs)]
    /\ peers' \in [Users -> [Users -> AnEnd]] /\ made' \in [Users -> [Users -> Nat]]
    /\ uplink' \in [Users -> Seq(LinkMsgs)]
    /\ \A w \in Users \ {u} : uplink'[w] = uplink[w] /\ \A v \in Users : peers'[w][v] = peers[w][v]

\* What it makes of the end to v, ...
Keeps(u, v) ==
    /\ peers[u][v] # Absent /\ ~ Leaves(Got(u), v) => peers'[u][v] # Absent
    /\ Names(Got(u), v) => peers'[u][v] # Absent
    /\ Leaves(Got(u), v) => peers'[u][v] = Absent
    /\ ~ (u < v) /\ ~ peers[u][v].offered => ~ peers'[u][v].offered

\* ... and what it queues for v, in q.
Welcomes(m) == m.type \in {"roster", "joined"}
Answers(u, v, q) ==
    Got(u).type = "offer" /\ Got(u).user = v /\ ~ peers[u][v].offered =>
        /\ ~ peers'[u][v].offered /\ peers'[u][v].remote = Got(u).pc
        /\ One(q, To(v), [type |-> "answer", pc |-> peers'[u][v].pc, to |-> v])
Agrees(u, v, q) ==
    Got(u).type = "answer" /\ Got(u).user = v =>
        /\ None(q, To(v))
        /\ ~ peers[u][v].offered => peers'[u][v] = peers[u][v]
        /\ peers[u][v].offered /\ peers[u][v].remote = 0 =>
              peers'[u][v].pc = peers[u][v].pc /\ peers'[u][v].remote = Got(u).pc
Rekeys(u, v, q) ==
    Got(u).type = "rekey" /\ u < v /\ peers[u][v] # Absent =>
        /\ peers'[u][v].offered /\ peers'[u][v].remote = 0
        /\ One(q, To(v), [type |-> "offer", pc |-> peers'[u][v].pc, to |-> v])
Greets(u, v, q) ==
    Welcomes(Got(u)) =>
        /\ ~ Names(Got(u), v) => peers'[u][v] = peers[u][v] /\ None(q, To(v))
        /\ Names(Got(u), v) /\ ~ (u < v) =>
              None(q, To(v)) /\ (peers[u][v] # Absent => peers'[u][v] = peers[u][v])
        /\ Names(Got(u), v) /\ u < v /\ peers[u][v] = Absent =>
              /\ peers'[u][v].offered /\ peers'[u][v].remote = 0
              /\ One(q, To(v), [type |-> "offer", pc |-> peers'[u][v].pc, to |-> v])
Concerns(u, v) ==
    \/ Welcomes(Got(u))
    \/ Got(u).type \in {"left", "offer", "answer"} /\ Got(u).user = v
    \/ Got(u).type = "rekey" /\ u < v /\ peers[u][v] # Absent
Passes(u, v, q) == ~ Concerns(u, v) => peers'[u][v] = peers[u][v] /\ None(q, To(v))

Queues(u, q) ==
    /\ uplink' = [uplink EXCEPT ![u] = uplink[u] \o q]
    /\ \A v \in Users : /\ Answers(u, v, q) /\ Agrees(u, v, q) /\ Rekeys(u, v, q)
                        /\ Greets(u, v, q) /\ Passes(u, v, q)

\* What it makes of the list.
Flags(u) ==
    LET m == Got(u)
    IN  speaking' = [speaking EXCEPT ![u] =
            IF m.type = "roster" THEN {}
            ELSE IF m.type \in {"joined", "left"} THEN speaking[u] \ {m.user}
            ELSE IF m.type = "ptt" THEN IF m.active THEN speaking[u] \cup {m.user}
                                                    ELSE speaking[u] \ {m.user}
            ELSE speaking[u]]

LEMMA SilentFacts ==
    ASSUME NEW u \in Users, TypeOK
    PROVE  [v \in Users |-> Silent(peers[u][v])] \in [Users -> Results]
BY TypeFacts, ResultFacts DEF Silent

LEMMA WelcomeFacts ==
    ASSUME NEW u \in Users, NEW again \in BOOLEAN, TypeOK, NEW h,
           h = [v \in Users |-> OnPeer(u < v, peers[u][v], made[u][v] + 1, turn[u], again)]
    PROVE  /\ h \in [Users -> Results]
           /\ \A v \in Users :
                 /\ h[v].end \in Ends
                 /\ ~ (u < v) /\ ~ peers[u][v].offered => ~ h[v].end.offered
                 /\ ~ (u < v) => h[v].sent = <<>> /\ (peers[u][v] # Absent => h[v].end = peers[u][v])
                 /\ u < v /\ peers[u][v] = Absent =>
                       /\ h[v].end.offered /\ h[v].end.remote = 0
                       /\ h[v].sent = <<[type |-> "offer", pc |-> h[v].end.pc]>>
<1>1. ASSUME NEW v \in Users
      PROVE  LET r == OnPeer(u < v, peers[u][v], made[u][v] + 1, turn[u], again)
             IN  /\ r \in Results /\ r.end \in Ends
                 /\ ~ (u < v) /\ ~ peers[u][v].offered => ~ r.end.offered
                 /\ ~ (u < v) => r.sent = <<>> /\ (peers[u][v] # Absent => r.end = peers[u][v])
                 /\ u < v /\ peers[u][v] = Absent =>
                       /\ r.end.offered /\ r.end.remote = 0
                       /\ r.sent = <<[type |-> "offer", pc |-> r.end.pc]>>
  <2>1. peers[u][v] \in AnEnd /\ made[u][v] + 1 \in Nat \ {0} /\ turn[u] \in BOOLEAN
    <3>1. peers[u][v] \in AnEnd /\ made[u][v] \in Nat /\ turn[u] \in BOOLEAN
      BY TypeFacts DEF TypeOK
    <3> QED
      BY <3>1
  <2> QED
    BY <2>1, OnPeerFacts
<1>2. \A v \in Users : h[v] = OnPeer(u < v, peers[u][v], made[u][v] + 1, turn[u], again)
  OBVIOUS
<1>3. h = [v \in Users |-> h[v]]
  OBVIOUS
<1>4. \A v \in Users : h[v] \in Results
  BY <1>1, <1>2
<1>5. h \in [Users -> Results]
  BY <1>3, <1>4
<1>6. ASSUME NEW v \in Users
      PROVE  /\ h[v].end \in Ends
             /\ ~ (u < v) /\ ~ peers[u][v].offered => ~ h[v].end.offered
             /\ ~ (u < v) => h[v].sent = <<>> /\ (peers[u][v] # Absent => h[v].end = peers[u][v])
             /\ u < v /\ peers[u][v] = Absent =>
                   /\ h[v].end.offered /\ h[v].end.remote = 0
                   /\ h[v].sent = <<[type |-> "offer", pc |-> h[v].end.pc]>>
  BY <1>1, <1>2
<1> QED
  BY <1>5, <1>6

\* Whoever is named to the smaller end of what would be a link is offered it.
LEMMA GreetFacts ==
    ASSUME NEW u \in Users, NEW vs, NEW h, NEW q, Queued(vs, h, q),
           \A v \in Users : Names(Got(u), v) <=> v \in vs,
           \A v \in Users : peers'[u][v] = IF v \in vs THEN h[v].end ELSE peers[u][v],
           \A v \in Users :
               /\ ~ (u < v) => h[v].sent = <<>> /\ (peers[u][v] # Absent => h[v].end = peers[u][v])
               /\ u < v /\ peers[u][v] = Absent =>
                     /\ h[v].end.offered /\ h[v].end.remote = 0
                     /\ h[v].sent = <<[type |-> "offer", pc |-> h[v].end.pc]>>
    PROVE  \A v \in Users : Greets(u, v, q)
<1>1. SUFFICES ASSUME NEW v \in Users PROVE Greets(u, v, q)
  OBVIOUS
<1>2. IF v \in vs /\ h[v].sent # <<>> THEN One(q, To(v), Addressed(Head(h[v].sent), v))
                                      ELSE None(q, To(v))
  BY DEF Queued
<1>3. CASE v \notin vs
  BY <1>2, <1>3 DEF Greets
<1>4. CASE v \in vs /\ ~ (u < v)
  BY <1>2, <1>4 DEF Greets
<1>5. CASE v \in vs /\ u < v
  <2>1. ASSUME peers[u][v] = Absent
        PROVE  /\ peers'[u][v].offered /\ peers'[u][v].remote = 0
               /\ One(q, To(v), [type |-> "offer", pc |-> peers'[u][v].pc, to |-> v])
    <3>1. /\ peers'[u][v] = h[v].end /\ h[v].end.offered /\ h[v].end.remote = 0
          /\ h[v].sent = <<[type |-> "offer", pc |-> h[v].end.pc]>>
      BY <1>5, <2>1
    <3>2. h[v].sent # <<>> /\ Head(h[v].sent) = [type |-> "offer", pc |-> h[v].end.pc]
      BY <3>1
    <3>3. Addressed(Head(h[v].sent), v) = [type |-> "offer", pc |-> peers'[u][v].pc, to |-> v]
      BY <3>1, <3>2 DEF Addressed
    <3>4. One(q, To(v), Addressed(Head(h[v].sent), v))
      BY <1>2, <1>5, <3>2
    <3> QED
      BY <3>1, <3>3, <3>4
  <2> QED
    BY <1>5, <2>1 DEF Greets
<1> QED
  BY <1>3, <1>4, <1>5

LEMMA GetFacts ==
    ASSUME NEW u \in Users, TypeOK, UplinkInv, Gets(u)
    PROVE  /\ Handling(u) /\ turn' \in [Users -> BOOLEAN] /\ Flags(u)
           /\ \A v \in Users : Keeps(u, v)
           /\ \E q \in Seq(LinkMsgs) : Queues(u, q)
<1> DEFINE Goal == /\ Handling(u) /\ turn' \in [Users -> BOOLEAN] /\ Flags(u)
                   /\ \A v \in Users : Keeps(u, v)
                   /\ \E q \in Seq(LinkMsgs) : Queues(u, q)
<1>0. /\ speaking \in [Users -> SUBSET Users] /\ turn \in [Users -> BOOLEAN]
      /\ \A v \in Users : /\ peers[u][v] \in AnEnd /\ made[u][v] + 1 \in Nat \ {0}
                          /\ turn[u] \in BOOLEAN
  <2>1. /\ speaking \in [Users -> SUBSET Users] /\ turn \in [Users -> BOOLEAN]
        /\ turn[u] \in BOOLEAN
    BY DEF TypeOK
  <2>2. \A v \in Users : peers[u][v] \in AnEnd /\ made[u][v] \in Nat
    BY TypeFacts
  <2> QED
    BY <2>1, <2>2
<1>1. CASE GetRoster(u)
  <2>1. PICK again \in BOOLEAN :
            /\ Handles(u, "roster", Got(u).users,
                       [v \in Users |-> OnPeer(u < v, peers[u][v], made[u][v] + 1, turn[u], again)])
            /\ Unflag(u, Users) /\ turn' = turn
    BY <1>1 DEF GetRoster
  <2> DEFINE h == [v \in Users |-> OnPeer(u < v, peers[u][v], made[u][v] + 1, turn[u], again)]
             vs == Got(u).users
  <2>0. h = [v \in Users |-> OnPeer(u < v, peers[u][v], made[u][v] + 1, turn[u], again)]
    OBVIOUS
  <2> HIDE DEF h
  <2>2. /\ h \in [Users -> Results]
        /\ \A v \in Users :
              /\ h[v].end \in Ends
              /\ ~ (u < v) /\ ~ peers[u][v].offered => ~ h[v].end.offered
              /\ ~ (u < v) => h[v].sent = <<>> /\ (peers[u][v] # Absent => h[v].end = peers[u][v])
              /\ u < v /\ peers[u][v] = Absent =>
                    /\ h[v].end.offered /\ h[v].end.remote = 0
                    /\ h[v].sent = <<[type |-> "offer", pc |-> h[v].end.pc]>>
    BY <2>0, WelcomeFacts
  <2>3. vs \in SUBSET Users
    <3>1. Got(u) \in ServerMsgs /\ Got(u).type = "roster"
      BY <2>1, TypeFacts, TailFacts DEF Handles, Got
    <3> QED
      BY <3>1, ServerFacts
  <2>4. Handles(u, "roster", vs, h)
    BY <2>1 DEF h
  <2> HIDE DEF vs
  <2>a. Handled(u, "roster", vs, h)
    BY <2>2, <2>3, <2>4, HandledFacts
  <2>5. PICK q \in Seq(LinkMsgs) : uplink' = [uplink EXCEPT ![u] = uplink[u] \o q] /\ Queued(vs, h, q)
    BY <2>a DEF Handled
  <2>6. /\ Handling(u) /\ Got(u).type = "roster"
        /\ \A v \in Users : peers'[u][v] = IF v \in vs THEN h[v].end ELSE peers[u][v]
    BY <2>a DEF Handled, Handling
  <2>b. \A v \in Users : Names(Got(u), v) <=> v \in vs
    BY <2>6, ServerFacts DEF Names, vs, Handling
  <2>c. \A v \in Users : Greets(u, v, q)
    BY <2>2, <2>5, <2>6, <2>b, GreetFacts
  <2>7. Queues(u, q)
    BY <2>5, <2>6, <2>c DEF Queues, Answers, Agrees, Rekeys, Passes, Concerns, Welcomes
  <2>8. \A v \in Users : Keeps(u, v)
    BY <2>2, <2>6, EndFacts DEF Keeps, Names, Leaves, vs
  <2>9. Flags(u)
    BY <1>0, <2>1, <2>6 DEF Flags, Unflag
  <2> QED
    BY <1>0, <2>1, <2>6, <2>7, <2>8, <2>9
<1>2. CASE GetPeerJoined(u)
  <2>1. PICK again \in BOOLEAN :
            /\ Handles(u, "joined", {Got(u).user},
                       [v \in Users |-> OnPeer(u < v, peers[u][v], made[u][v] + 1, turn[u], again)])
            /\ Unflag(u, {Got(u).user}) /\ turn' = turn
    BY <1>2 DEF GetPeerJoined
  <2> DEFINE h == [v \in Users |-> OnPeer(u < v, peers[u][v], made[u][v] + 1, turn[u], again)]
             vs == {Got(u).user}
  <2>0. h = [v \in Users |-> OnPeer(u < v, peers[u][v], made[u][v] + 1, turn[u], again)]
    OBVIOUS
  <2> HIDE DEF h
  <2>2. /\ h \in [Users -> Results]
        /\ \A v \in Users :
              /\ h[v].end \in Ends
              /\ ~ (u < v) /\ ~ peers[u][v].offered => ~ h[v].end.offered
              /\ ~ (u < v) => h[v].sent = <<>> /\ (peers[u][v] # Absent => h[v].end = peers[u][v])
              /\ u < v /\ peers[u][v] = Absent =>
                    /\ h[v].end.offered /\ h[v].end.remote = 0
                    /\ h[v].sent = <<[type |-> "offer", pc |-> h[v].end.pc]>>
    BY <2>0, WelcomeFacts
  <2>3. vs \in SUBSET Users
    <3>1. Got(u) \in ServerMsgs /\ Got(u).type = "joined"
      BY <2>1, TypeFacts, TailFacts DEF Handles, Got
    <3> QED
      BY <3>1, ServerFacts
  <2>4. Handles(u, "joined", vs, h)
    BY <2>1 DEF h
  <2> HIDE DEF vs
  <2>a. Handled(u, "joined", vs, h)
    BY <2>2, <2>3, <2>4, HandledFacts
  <2>5. PICK q \in Seq(LinkMsgs) : uplink' = [uplink EXCEPT ![u] = uplink[u] \o q] /\ Queued(vs, h, q)
    BY <2>a DEF Handled
  <2>6. /\ Handling(u) /\ Got(u).type = "joined"
        /\ \A v \in Users : peers'[u][v] = IF v \in vs THEN h[v].end ELSE peers[u][v]
    BY <2>a DEF Handled, Handling
  <2>b. \A v \in Users : Names(Got(u), v) <=> v \in vs
    BY <2>6, ServerFacts DEF Names, vs, Handling
  <2>c. \A v \in Users : Greets(u, v, q)
    BY <2>2, <2>5, <2>6, <2>b, GreetFacts
  <2>7. Queues(u, q)
    BY <2>5, <2>6, <2>c DEF Queues, Answers, Agrees, Rekeys, Passes, Concerns, Welcomes
  <2>8. \A v \in Users : Keeps(u, v)
    BY <2>2, <2>6, EndFacts DEF Keeps, Names, Leaves, vs
  <2>9. Flags(u)
    BY <1>0, <2>1, <2>6 DEF Flags, Unflag
  <2> QED
    BY <1>0, <2>1, <2>6, <2>7, <2>8, <2>9
<1>3. CASE GetPeerLeft(u)
  <2> DEFINE h == [v \in Users |-> Silent(OnLeft(peers[u][v]))]
             vs == {Got(u).user}
  <2>1. Handles(u, "left", vs, h) /\ Unflag(u, {Got(u).user}) /\ turn' = turn
    BY <1>3 DEF GetPeerLeft
  <2>2. h \in [Users -> Results] /\ \A v \in Users : h[v].end = Absent /\ h[v].sent = <<>>
    BY EndFacts, ResultFacts DEF Silent, OnLeft
  <2>3. vs \in SUBSET Users
    <3>1. Got(u) \in ServerMsgs /\ Got(u).type = "left"
      BY <2>1, TypeFacts, TailFacts DEF Handles, Got
    <3> QED
      BY <3>1, ServerFacts
  <2> HIDE DEF h
  <2>a. Handled(u, "left", vs, h)
    BY <2>1, <2>2, <2>3, HandledFacts
  <2>5. PICK q \in Seq(LinkMsgs) : /\ uplink' = [uplink EXCEPT ![u] = uplink[u] \o q]
                                   /\ \A v \in Users : None(q, To(v))
    BY <2>2, <2>a DEF Handled, Queued
  <2>6. /\ Handling(u) /\ Got(u).type = "left"
        /\ \A v \in Users : peers'[u][v] = IF v \in vs THEN Absent ELSE peers[u][v]
    BY <2>2, <2>a DEF Handled, Handling
  <2>7. Queues(u, q)
    BY <2>5, <2>6 DEF Queues, Answers, Agrees, Rekeys, Greets, Passes, Concerns, Welcomes
  <2>8. \A v \in Users : Keeps(u, v)
    BY <2>6, EndFacts DEF Keeps, Names, Leaves
  <2>9. Flags(u)
    BY <1>0, <2>1, <2>6 DEF Flags, Unflag
  <2> QED
    BY <1>0, <2>1, <2>6, <2>7, <2>8, <2>9
<1>4. CASE GetOffer(u)
  <2> DEFINE h == [v \in Users |-> OnOffer(peers[u][v], made[u][v] + 1, turn[u], Got(u).pc)]
             vs == {Got(u).user}
  <2>1. Handles(u, "offer", vs, h) /\ turn' = turn /\ speaking' = speaking
    BY <1>4 DEF GetOffer
  <2>2. Got(u).user \in Users /\ Got(u).pc \in Nat \ {0}
    <3>1. Got(u) \in ServerMsgs /\ Got(u).type = "offer"
      BY <2>1, TypeFacts, TailFacts DEF Handles, Got
    <3> QED
      BY <3>1, ServerFacts
  <2>3. /\ h \in [Users -> Results]
        /\ \A v \in Users :
              /\ h[v].end \in Ends
              /\ ~ peers[u][v].offered => /\ ~ h[v].end.offered /\ h[v].end.remote = Got(u).pc
                                          /\ h[v].sent = <<[type |-> "answer", pc |-> h[v].end.pc]>>
    <3>1. ASSUME NEW v \in Users
          PROVE  LET r == OnOffer(peers[u][v], made[u][v] + 1, turn[u], Got(u).pc)
                 IN  /\ r \in Results /\ r.end \in Ends
                     /\ ~ peers[u][v].offered => /\ ~ r.end.offered /\ r.end.remote = Got(u).pc
                                                 /\ r.sent = <<[type |-> "answer", pc |-> r.end.pc]>>
      <4>1. peers[u][v] \in AnEnd /\ made[u][v] + 1 \in Nat \ {0} /\ turn[u] \in BOOLEAN
        BY <1>0
      <4> QED
        BY <2>2, <4>1, OnOfferFacts
    <3>2. \A v \in Users : h[v] = OnOffer(peers[u][v], made[u][v] + 1, turn[u], Got(u).pc)
      OBVIOUS
    <3>3. h = [v \in Users |-> h[v]]
      OBVIOUS
    <3> HIDE DEF h
    <3> QED
      BY <3>1, <3>2, <3>3
  <2> HIDE DEF h
  <2>a. Handled(u, "offer", vs, h)
    <3>1. vs \in SUBSET Users
      BY <2>2
    <3> QED
      BY <2>1, <2>3, <3>1, HandledFacts
  <2>4. /\ Handling(u) /\ Got(u).type = "offer"
        /\ \A v \in Users : peers'[u][v] = IF v \in vs THEN h[v].end ELSE peers[u][v]
    BY <2>3, <2>a DEF Handled, Handling
  <2>5. PICK q \in Seq(LinkMsgs) :
            /\ uplink' = [uplink EXCEPT ![u] = uplink[u] \o q]
            /\ \A v \in Users : IF v \in vs /\ h[v].sent # <<>>
                                THEN One(q, To(v), Addressed(Head(h[v].sent), v))
                                ELSE None(q, To(v))
    BY <2>3, <2>a DEF Handled, Queued
  <2>6. ASSUME NEW v \in Users, v \in vs, ~ peers[u][v].offered
        PROVE  One(q, To(v), [type |-> "answer", pc |-> peers'[u][v].pc, to |-> v])
    <3>1. h[v].sent # <<>> /\ Head(h[v].sent) = [type |-> "answer", pc |-> peers'[u][v].pc]
      BY <2>3, <2>4, <2>6
    <3>2. Addressed(Head(h[v].sent), v) = [type |-> "answer", pc |-> peers'[u][v].pc, to |-> v]
      BY <3>1 DEF Addressed
    <3> QED
      BY <2>5, <2>6, <3>1, <3>2
  <2>7. Queues(u, q)
    BY <2>3, <2>4, <2>5, <2>6 DEF Queues, Answers, Agrees, Rekeys, Greets, Passes, Concerns, Welcomes
  <2>8. \A v \in Users : Keeps(u, v)
    BY <2>3, <2>4, EndFacts DEF Keeps, Names, Leaves
  <2>9. Flags(u)
    BY <1>0, <2>1, <2>4 DEF Flags
  <2> QED
    BY <1>0, <2>1, <2>4, <2>7, <2>8, <2>9
<1>5. CASE GetAnswer(u)
  <2> DEFINE h == [v \in Users |-> Silent(OnAnswer(peers[u][v], Got(u).pc))]
             vs == {Got(u).user}
  <2>1. Handles(u, "answer", vs, h) /\ turn' = turn /\ speaking' = speaking
    BY <1>5 DEF GetAnswer
  <2>2. Got(u).user \in Users /\ Got(u).pc \in Nat \ {0}
    <3>1. Got(u) \in ServerMsgs /\ Got(u).type = "answer"
      BY <2>1, TypeFacts, TailFacts DEF Handles, Got
    <3> QED
      BY <3>1, ServerFacts
  <2>3. /\ h \in [Users -> Results]
        /\ \A v \in Users : h[v].end = OnAnswer(peers[u][v], Got(u).pc) /\ h[v].sent = <<>>
    BY <1>0, <2>2, OnAnswerFacts, ResultFacts DEF Silent
  <2> HIDE DEF h
  <2>a. Handled(u, "answer", vs, h)
    <3>1. vs \in SUBSET Users
      BY <2>2
    <3> QED
      BY <2>1, <2>3, <3>1, HandledFacts
  <2>4. /\ Handling(u) /\ Got(u).type = "answer"
        /\ \A v \in Users : peers'[u][v] = IF v \in vs THEN OnAnswer(peers[u][v], Got(u).pc)
                                                       ELSE peers[u][v]
    BY <2>3, <2>a DEF Handled, Handling
  <2>5. PICK q \in Seq(LinkMsgs) : /\ uplink' = [uplink EXCEPT ![u] = uplink[u] \o q]
                                   /\ \A v \in Users : None(q, To(v))
    BY <2>3, <2>a DEF Handled, Queued
  <2>6. \A v \in Users : LET e == peers[u][v]
                             f == OnAnswer(e, Got(u).pc)
                         IN  /\ e # Absent => f # Absent
                             /\ ~ e.offered => f = e
                             /\ e.offered /\ e.remote = 0 => f.pc = e.pc /\ f.remote = Got(u).pc
    BY <1>0, <2>2, OnAnswerFacts
  <2>7. Queues(u, q)
    BY <2>4, <2>5, <2>6 DEF Queues, Answers, Agrees, Rekeys, Greets, Passes, Concerns, Welcomes
  <2>8. \A v \in Users : Keeps(u, v)
    BY <2>4, <2>6 DEF Keeps, Names, Leaves
  <2>9. Flags(u)
    BY <1>0, <2>1, <2>4 DEF Flags
  <2> QED
    BY <1>0, <2>1, <2>4, <2>7, <2>8, <2>9
<1>6. CASE GetRekey(u)
  <2> DEFINE h == [v \in Users |-> OnRekey(u < v, peers[u][v], made[u][v] + 1, turn[u])]
             vs == {v \in Users : peers[u][v] # Absent}
  <2>1. Handles(u, "rekey", vs, h) /\ turn' = turn /\ speaking' = speaking
    BY <1>6 DEF GetRekey
  <2>2. /\ h \in [Users -> Results]
        /\ \A v \in Users :
              LET e == peers[u][v]
              IN  /\ e = Absent \/ ~ (u < v) => h[v].end = e /\ h[v].sent = <<>>
                  /\ e # Absent /\ u < v =>
                        /\ h[v].end \in Ends /\ h[v].end.offered /\ h[v].end.remote = 0
                        /\ h[v].sent = <<[type |-> "offer", pc |-> h[v].end.pc]>>
    <3>1. ASSUME NEW v \in Users
          PROVE  LET r == OnRekey(u < v, peers[u][v], made[u][v] + 1, turn[u])
                 IN  /\ r \in Results
                     /\ peers[u][v] = Absent \/ ~ (u < v) => r.end = peers[u][v] /\ r.sent = <<>>
                     /\ peers[u][v] # Absent /\ u < v =>
                           /\ r.end \in Ends /\ r.end.offered /\ r.end.remote = 0
                           /\ r.sent = <<[type |-> "offer", pc |-> r.end.pc]>>
      <4>1. peers[u][v] \in AnEnd /\ made[u][v] + 1 \in Nat \ {0} /\ turn[u] \in BOOLEAN
        BY <1>0
      <4> QED
        BY <4>1, OnRekeyFacts
    <3>2. \A v \in Users : h[v] = OnRekey(u < v, peers[u][v], made[u][v] + 1, turn[u])
      OBVIOUS
    <3>3. h = [v \in Users |-> h[v]]
      OBVIOUS
    <3> HIDE DEF h
    <3>4. h \in [Users -> Results]
      BY <3>1, <3>2, <3>3
    <3>5. ASSUME NEW v \in Users
          PROVE  /\ peers[u][v] = Absent \/ ~ (u < v) => h[v].end = peers[u][v] /\ h[v].sent = <<>>
                 /\ peers[u][v] # Absent /\ u < v =>
                       /\ h[v].end \in Ends /\ h[v].end.offered /\ h[v].end.remote = 0
                       /\ h[v].sent = <<[type |-> "offer", pc |-> h[v].end.pc]>>
      BY <3>1, <3>2
    <3> QED
      BY <3>4, <3>5
  <2> HIDE DEF h
  <2>3. vs \in SUBSET Users /\ \A v \in Users : v \in vs <=> peers[u][v] # Absent
    OBVIOUS
  <2> HIDE DEF vs
  <2>a. Handled(u, "rekey", vs, h)
    BY <2>1, <2>2, <2>3, HandledFacts
  <2>4. /\ Handling(u) /\ Got(u).type = "rekey"
        /\ \A v \in Users : peers'[u][v] = IF v \in vs THEN h[v].end ELSE peers[u][v]
    BY <2>a DEF Handled, Handling
  <2>5. PICK q \in Seq(LinkMsgs) :
            /\ uplink' = [uplink EXCEPT ![u] = uplink[u] \o q]
            /\ \A v \in Users : IF v \in vs /\ h[v].sent # <<>>
                                THEN One(q, To(v), Addressed(Head(h[v].sent), v))
                                ELSE None(q, To(v))
    BY <2>a DEF Handled, Queued
  <2>6. ASSUME NEW v \in Users, v \in vs, u < v
        PROVE  /\ peers'[u][v] # Absent /\ peers'[u][v].offered /\ peers'[u][v].remote = 0
               /\ One(q, To(v), [type |-> "offer", pc |-> peers'[u][v].pc, to |-> v])
    <3>0. /\ peers[u][v] # Absent /\ peers'[u][v] = h[v].end
      BY <2>3, <2>4, <2>6
    <3>a. /\ h[v].end \in Ends /\ h[v].end.offered /\ h[v].end.remote = 0
          /\ h[v].sent = <<[type |-> "offer", pc |-> h[v].end.pc]>>
      BY <2>2, <2>6, <3>0
    <3>1. /\ h[v].sent # <<>> /\ Head(h[v].sent) = [type |-> "offer", pc |-> peers'[u][v].pc]
          /\ peers'[u][v] \in Ends /\ peers'[u][v].offered /\ peers'[u][v].remote = 0
      BY <3>0, <3>a
    <3>2. Addressed(Head(h[v].sent), v) = [type |-> "offer", pc |-> peers'[u][v].pc, to |-> v]
      BY <3>1 DEF Addressed
    <3> QED
      BY <2>5, <2>6, <3>1, <3>2, EndFacts
  <2>7. \A v \in Users : ~ (v \in vs /\ u < v) => peers'[u][v] = peers[u][v] /\ None(q, To(v))
    BY <2>2, <2>3, <2>4, <2>5
  <2>8. Queues(u, q)
    BY <2>3, <2>4, <2>5, <2>6, <2>7 DEF Queues, Answers, Agrees, Rekeys, Greets, Passes, Concerns, Welcomes
  <2>9. \A v \in Users : Keeps(u, v)
    BY <2>3, <2>4, <2>6, <2>7 DEF Keeps, Names, Leaves
  <2>10. Flags(u)
    BY <1>0, <2>1, <2>4 DEF Flags
  <2> QED
    BY <1>0, <2>1, <2>4, <2>8, <2>9, <2>10
<1>7. CASE GetTurn(u) \/ GetPtt(u)
  <2> DEFINE h == [v \in Users |-> Silent(peers[u][v])]
  <2>1. PICK t \in {"turn", "ptt"} : Handles(u, t, {}, h)
    BY <1>7 DEF GetTurn, GetPtt
  <2>2. h \in [Users -> Results] /\ {} \in SUBSET Users
    BY SilentFacts
  <2> HIDE DEF h
  <2>a. Handled(u, t, {}, h)
    BY <2>1, <2>2, HandledFacts
  <2>3. /\ Handling(u) /\ Got(u).type = t
        /\ \A v \in Users : peers'[u][v] = peers[u][v]
    BY <2>a DEF Handled, Handling
  <2>4. PICK q \in Seq(LinkMsgs) : /\ uplink' = [uplink EXCEPT ![u] = uplink[u] \o q]
                                   /\ \A v \in Users : None(q, To(v))
    BY <2>a DEF Handled, Queued
  <2>5. Queues(u, q)
    BY <2>3, <2>4 DEF Queues, Answers, Agrees, Rekeys, Greets, Passes, Concerns, Welcomes
  <2>6. \A v \in Users : Keeps(u, v)
    BY <2>3 DEF Keeps, Names, Leaves
  <2>7. turn' \in [Users -> BOOLEAN] /\ Flags(u)
    <3>1. CASE GetTurn(u)
      <4>1. turn' = [turn EXCEPT ![u] = TRUE] /\ speaking' = speaking /\ Got(u).type = "turn"
        BY <3>1 DEF GetTurn, Handles, Got
      <4> QED
        BY <1>0, <4>1 DEF Flags
    <3>2. CASE GetPtt(u)
      <4>1. /\ turn' = turn /\ Got(u).type = "ptt"
            /\ speaking' = [speaking EXCEPT ![u] = IF Got(u).active THEN @ \cup {Got(u).user}
                                                                    ELSE @ \ {Got(u).user}]
        BY <3>2 DEF GetPtt, Handles, Got
      <4> QED
        BY <1>0, <4>1 DEF Flags
    <3> QED
      BY <1>7, <3>1, <3>2
  <2> QED
    BY <2>3, <2>5, <2>6, <2>7
<1> QED
  BY <1>1, <1>2, <1>3, <1>4, <1>5, <1>6, <1>7 DEF Gets


\* A socket is opened, and the client joins over it.
LEMMA ConnectedFacts ==
    ASSUME NEW u \in Users, TypeOK, Connected(u)
    PROVE  /\ sock[u] + 1 \in Sockets /\ sock' = [sock EXCEPT ![u] = sock[u] + 1]
           /\ engine' = [engine EXCEPT ![u] = "up"]
           /\ sock' \in [Users -> 0 .. MaxSockets]
           /\ wire' \in [Users -> [Sockets -> Seq(ClientMsgs)]]
           /\ \A w \in Users : \A s \in Sockets :
                 wire'[w][s] = IF w = u /\ s = sock[u] + 1 THEN <<JoinMsg>> ELSE wire[w][s]
           /\ handler' \in [Users -> [Sockets -> [phase : {"closed", "open", "joined", "welcomed", "serving"},
                                                  roster : SUBSET Users]]]
           /\ \A w \in Users : \A s \in Sockets :
                 handler'[w][s] = IF w = u /\ s = sock[u] + 1 THEN Opened ELSE handler[w][s]
<1> DEFINE n == sock[u] + 1
<1>1. n \in Sockets /\ n \in 0 .. MaxSockets
  BY TypeFacts DEF Connected, Sockets
<1>2. /\ sock' = [sock EXCEPT ![u] = n] /\ engine' = [engine EXCEPT ![u] = "up"]
      /\ wire' = [wire EXCEPT ![u][n] = <<JoinMsg>>]
      /\ handler' = [handler EXCEPT ![u][n] = Opened]
  BY DEF Connected
<1> HIDE DEF n
<1>3. <<JoinMsg>> \in Seq(ClientMsgs)
  BY ClientFacts
<1>4. wire \in [Users -> [Sockets -> Seq(ClientMsgs)]] /\ sock \in [Users -> 0 .. MaxSockets]
  BY DEF TypeOK
<1>5. handler \in [Users -> [Sockets -> [phase : {"closed", "open", "joined", "welcomed", "serving"},
                                         roster : SUBSET Users]]]
  BY DEF TypeOK
<1>6. Opened \in [phase : {"closed", "open", "joined", "welcomed", "serving"}, roster : SUBSET Users]
  BY DEF Opened
<1>7. sock' \in [Users -> 0 .. MaxSockets]
  BY <1>1, <1>2, <1>4
<1>8. /\ wire' \in [Users -> [Sockets -> Seq(ClientMsgs)]]
      /\ \A w \in Users : \A s \in Sockets :
            wire'[w][s] = IF w = u /\ s = n THEN <<JoinMsg>> ELSE wire[w][s]
  BY <1>1, <1>2, <1>3, <1>4
<1> HIDE DEF Opened
<1>9. /\ handler' \in [Users -> [Sockets -> [phase : {"closed", "open", "joined", "welcomed", "serving"},
                                             roster : SUBSET Users]]]
      /\ \A w \in Users : \A s \in Sockets :
            handler'[w][s] = IF w = u /\ s = n THEN Opened ELSE handler[w][s]
  BY <1>1, <1>2, <1>5, <1>6
<1> QED
  BY <1>1, <1>2, <1>7, <1>8, <1>9 DEF n

\* The engine writes to its socket.
Writes(u, m) ==
    /\ wire' \in [Users -> [Sockets -> Seq(ClientMsgs)]]
    /\ \A w \in Users : \A s \in Sockets :
          wire'[w][s] = IF w = u /\ s = sock[u] /\ Carries(u) THEN Append(wire[w][s], m) ELSE wire[w][s]

LEMMA WritesFacts ==
    ASSUME NEW u \in Users, NEW m \in ClientMsgs, TypeOK, wire' = Sent(u, m)
    PROVE  Writes(u, m)
<1>1. wire \in [Users -> [Sockets -> Seq(ClientMsgs)]]
  BY DEF TypeOK
<1>2. \A q \in Seq(ClientMsgs) : Append(q, m) \in Seq(ClientMsgs)
  OBVIOUS
<1>3. CASE Carries(u)
  <2>1. wire' = [wire EXCEPT ![u][sock[u]] = Append(wire[u][sock[u]], m)]
    BY <1>3 DEF Sent
  <2>2. \A w \in Users : \A s \in Sockets :
            wire'[w][s] = IF w = u /\ s = sock[u] THEN Append(wire[w][s], m) ELSE wire[w][s]
    BY <1>1, <2>1
  <2>3. wire' = [w \in Users |-> [s \in Sockets |-> wire'[w][s]]]
    BY <1>1, <2>1
  <2>4. \A w \in Users : \A s \in Sockets : wire'[w][s] \in Seq(ClientMsgs)
    BY <1>1, <1>2, <2>2
  <2>5. wire' \in [Users -> [Sockets -> Seq(ClientMsgs)]]
    BY <2>3, <2>4
  <2> QED
    BY <1>3, <2>2, <2>5 DEF Writes
<1>4. CASE ~ Carries(u)
  BY <1>1, <1>4 DEF Sent, Writes
<1> QED
  BY <1>3, <1>4

\* The handler of a socket reads from it.
Reads(u, s, types) ==
    /\ wire[u][s] # <<>> /\ Head(wire[u][s]) \in ClientMsgs /\ Head(wire[u][s]).type \in types
    /\ wire' \in [Users -> [Sockets -> Seq(ClientMsgs)]]
    /\ \A w \in Users : \A t \in Sockets :
          wire'[w][t] = IF w = u /\ t = s THEN Tail(wire[u][s]) ELSE wire[w][t]

LEMMA ReadsFacts ==
    ASSUME NEW u \in Users, NEW s \in Sockets, NEW phase, NEW types, TypeOK, Takes(u, s, phase, types)
    PROVE  handler[u][s].phase = phase /\ Reads(u, s, types)
<1>1. wire \in [Users -> [Sockets -> Seq(ClientMsgs)]] /\ wire[u][s] \in Seq(ClientMsgs)
  BY DEF TypeOK
<1>2. wire[u][s] # <<>> /\ wire' = [wire EXCEPT ![u][s] = Tail(wire[u][s])]
  BY DEF Takes
<1>3. Head(wire[u][s]) \in ClientMsgs /\ Tail(wire[u][s]) \in Seq(ClientMsgs)
  BY <1>1, <1>2, TailFacts
<1> QED
  BY <1>1, <1>2, <1>3 DEF Takes, Reads

\* The server sends.
Sends(members, m, to) ==
    /\ inbox' \in [Users -> Seq(ServerMsgs)] /\ broken' \subseteq Users \X Sockets
    /\ \A u \in Users : inbox'[u] = IF u \in members /\ Carries(u) /\ to[u] = sock[u]
                                    THEN Append(inbox[u], m) ELSE inbox[u]
    /\ broken \subseteq broken'
    /\ \A u \in Users : \A s : <<u, s>> \in broken' =>
          <<u, s>> \in broken \/ (engine[u] = "gone" /\ s = sock[u])

LEMMA SendsFacts ==
    ASSUME NEW members, NEW m \in ServerMsgs, NEW to \in [Users -> 0 .. MaxSockets],
           TypeOK, Send(ToAll(members, <<m>>), to)
    PROVE  Sends(members, m, to)
BY SentOne DEF Sends

\* What each step of a handler sends, and how the others change.
JoinStep(u, s) ==
    /\ handler[u][s].phase = "open" /\ Reads(u, s, {"join"})
    /\ room' = [room EXCEPT ![u] = s]
    /\ handler' = [handler EXCEPT ![u][s] = [phase |-> "joined", roster |-> Listed \ {u}]]
    /\ Sends(Listed \ {u}, [type |-> "joined", user |-> u], room)
RosterStep(u, s) ==
    /\ handler[u][s].phase = "joined"
    /\ handler' = [handler EXCEPT ![u][s] = [phase |-> "welcomed", roster |-> {}]]
    /\ Sends({u}, [type |-> "roster", users |-> handler[u][s].roster], [room EXCEPT ![u] = s])
    /\ UNCHANGED <<wire, room>>
TurnStep(u, s) ==
    /\ handler[u][s].phase = "welcomed"
    /\ handler' = [handler EXCEPT ![u][s].phase = "serving"]
    /\ Sends({u}, [type |-> "turn"], [room EXCEPT ![u] = s])
    /\ UNCHANGED <<wire, room>>
RelayStep(u, s) ==
    /\ handler[u][s].phase = "serving" /\ Reads(u, s, {"offer", "answer"})
    /\ LET m == Head(wire[u][s])
       IN  /\ m \in LinkMsgs
           /\ Sends({m.to} \cap Listed, [type |-> m.type, user |-> u, pc |-> m.pc], room)
    /\ UNCHANGED <<handler, room>>
RekeyStep(u, s) ==
    /\ handler[u][s].phase = "serving" /\ Reads(u, s, {"rekey"})
    /\ Sends(Listed, RekeyMsg, room)
    /\ UNCHANGED <<handler, room>>
PttStep(u, s) ==
    /\ handler[u][s].phase = "serving" /\ Reads(u, s, {"ptt"})
    /\ Sends(Listed \ {u}, [type |-> "ptt", user |-> u, active |-> Head(wire[u][s]).active], room)
    /\ UNCHANGED <<handler, room>>
CleanupStep(u, s) ==
    /\ <<u, s>> \in broken /\ handler' = [handler EXCEPT ![u][s] = Closed]
    /\ wire' = [wire EXCEPT ![u][s] = <<>>]
    /\ \/ /\ handler[u][s].phase = "open"
          /\ UNCHANGED <<room, inbox, broken>>
       \/ /\ handler[u][s].phase = "serving"
          /\ room' = [room EXCEPT ![u] = 0]
          /\ Sends(Listed \ {u}, [type |-> "left", user |-> u], room)
HandlerStep(u, s) ==
    /\ UNCHANGED <<env, engine, sock, peers, made, turn, uplink, speaking, transmit,
                   rekeys, talks, calm, aired>>
    /\ \/ JoinStep(u, s) \/ RosterStep(u, s) \/ TurnStep(u, s)
       \/ RelayStep(u, s) \/ RekeyStep(u, s) \/ PttStep(u, s)
       \/ CleanupStep(u, s)

LEMMA HandlerFacts ==
    ASSUME NEW u \in Users, TypeOK, Handler(u)
    PROVE  \E s \in Sockets : HandlerStep(u, s)
<1>1. PICK s \in Sockets : \/ ServeJoin(u, s) \/ SendRoster(u, s) \/ SendTurn(u, s)
                           \/ ServeRelay(u, s) \/ ServeRekey(u, s) \/ ServePtt(u, s)
                           \/ Cleanup(u, s)
  BY DEF Handler
<1> DEFINE Same == UNCHANGED <<env, engine, sock, peers, made, turn, uplink, speaking, transmit,
                               rekeys, talks, calm, aired>>
<1>0. env' = env
  BY DEF Handler
<1>a. /\ room \in [Users -> 0 .. MaxSockets] /\ [room EXCEPT ![u] = s] \in [Users -> 0 .. MaxSockets]
      /\ Listed \in SUBSET Users
  <2>1. s \in 0 .. MaxSockets
    BY SquadAssumption DEF Sockets
  <2> QED
    BY <2>1 DEF TypeOK, Listed
<1>2. CASE ServeJoin(u, s)
  <2>1. Same
    BY <1>0, <1>2 DEF ServeJoin, engineVars, commandVars
  <2>2. handler[u][s].phase = "open" /\ Reads(u, s, {"join"})
    BY <1>2, ReadsFacts DEF ServeJoin
  <2>3. Sends(Listed \ {u}, [type |-> "joined", user |-> u], room)
    BY <1>2, <1>a, ServerFacts, SendsFacts DEF ServeJoin
  <2> QED
    BY <1>2, <2>1, <2>2, <2>3 DEF ServeJoin, JoinStep, HandlerStep
<1>3. CASE SendRoster(u, s)
  <2>1. Same
    BY <1>0, <1>3 DEF SendRoster, engineVars, commandVars
  <2>2. handler[u][s].roster \in SUBSET Users
    BY DEF TypeOK
  <2>3. Sends({u}, [type |-> "roster", users |-> handler[u][s].roster], [room EXCEPT ![u] = s])
    BY <1>3, <1>a, <2>2, ServerFacts, SendsFacts DEF SendRoster
  <2> QED
    BY <1>3, <2>1, <2>3 DEF SendRoster, RosterStep, HandlerStep
<1>4. CASE SendTurn(u, s)
  <2>1. Same
    BY <1>0, <1>4 DEF SendTurn, engineVars, commandVars
  <2>3. Sends({u}, [type |-> "turn"], [room EXCEPT ![u] = s])
    BY <1>4, <1>a, ServerFacts, SendsFacts DEF SendTurn
  <2> QED
    BY <1>4, <2>1, <2>3 DEF SendTurn, TurnStep, HandlerStep
<1>5. CASE ServeRelay(u, s)
  <2> DEFINE m == Head(wire[u][s])
  <2>1. Same /\ UNCHANGED <<handler, room>>
    BY <1>0, <1>5 DEF ServeRelay, engineVars, serverVars, commandVars
  <2>2. handler[u][s].phase = "serving" /\ Reads(u, s, {"offer", "answer"})
    BY <1>5, ReadsFacts DEF ServeRelay
  <2>3. /\ m \in LinkMsgs /\ m.type \in {"offer", "answer"} /\ m.pc \in Nat \ {0}
    BY <2>2, ClientFacts DEF Reads
  <2>4. Send(ToAll({m.to} \cap Listed, <<[type |-> m.type, user |-> u, pc |-> m.pc]>>), room)
    BY <1>5 DEF ServeRelay
  <2> HIDE DEF m
  <2>5. [type |-> m.type, user |-> u, pc |-> m.pc] \in ServerMsgs
    BY <2>3, ServerFacts
  <2>6. Sends({m.to} \cap Listed, [type |-> m.type, user |-> u, pc |-> m.pc], room)
    BY <1>a, <2>4, <2>5, SendsFacts
  <2> QED
    BY <2>1, <2>2, <2>3, <2>6 DEF RelayStep, HandlerStep, m
<1>6. CASE ServeRekey(u, s)
  <2>1. Same /\ UNCHANGED <<handler, room>>
    BY <1>0, <1>6 DEF ServeRekey, engineVars, serverVars, commandVars
  <2>2. handler[u][s].phase = "serving" /\ Reads(u, s, {"rekey"})
    BY <1>6, ReadsFacts DEF ServeRekey
  <2>3. Sends(Listed, RekeyMsg, room)
    BY <1>6, <1>a, ServerFacts, SendsFacts DEF ServeRekey
  <2> QED
    BY <2>1, <2>2, <2>3 DEF RekeyStep, HandlerStep
<1>7. CASE ServePtt(u, s)
  <2> DEFINE a == Head(wire[u][s]).active
  <2>1. Same /\ UNCHANGED <<handler, room>>
    BY <1>0, <1>7 DEF ServePtt, engineVars, serverVars, commandVars
  <2>2. handler[u][s].phase = "serving" /\ Reads(u, s, {"ptt"})
    BY <1>7, ReadsFacts DEF ServePtt
  <2>3. a \in BOOLEAN
    BY <2>2, ClientFacts DEF Reads
  <2>4. Send(ToAll(Listed \ {u}, <<[type |-> "ptt", user |-> u, active |-> a]>>), room)
    BY <1>7 DEF ServePtt
  <2> HIDE DEF a
  <2>5. [type |-> "ptt", user |-> u, active |-> a] \in ServerMsgs
    BY <2>3, ServerFacts
  <2>6. Sends(Listed \ {u}, [type |-> "ptt", user |-> u, active |-> a], room)
    BY <1>a, <2>4, <2>5, SendsFacts
  <2> QED
    BY <2>1, <2>2, <2>6 DEF PttStep, HandlerStep, a
<1>8. CASE Cleanup(u, s)
  <2>1. Same
    BY <1>0, <1>8 DEF Cleanup, engineVars, commandVars
  <2>2. /\ <<u, s>> \in broken /\ handler' = [handler EXCEPT ![u][s] = Closed]
        /\ wire' = [wire EXCEPT ![u][s] = <<>>]
    BY <1>8 DEF Cleanup
  <2>3. CASE handler[u][s].phase = "open"
    BY <1>8, <2>1, <2>2, <2>3 DEF Cleanup, CleanupStep, HandlerStep
  <2>4. CASE handler[u][s].phase = "serving"
    <3>1. room' = [room EXCEPT ![u] = 0] /\ Send(ToAll(Listed \ {u}, <<[type |-> "left", user |-> u]>>), room)
      BY <1>8, <2>4 DEF Cleanup
    <3>2. Sends(Listed \ {u}, [type |-> "left", user |-> u], room)
      BY <1>a, <3>1, ServerFacts, SendsFacts
    <3> QED
      BY <2>1, <2>2, <2>4, <3>1, <3>2 DEF CleanupStep, HandlerStep
  <2> QED
    BY <1>8, <2>3, <2>4 DEF Cleanup
<1> QED
  BY <1>1, <1>2, <1>3, <1>4, <1>5, <1>6, <1>7, <1>8

-----------------------------------------------------------------------------
(* Types.                                                                  *)

Phases == {"closed", "open", "joined", "welcomed", "serving"}
HandlerType == [Users -> [Sockets -> [phase : Phases, roster : SUBSET Users]]]

LEMMA TypeInit == ASSUME Init PROVE BaseInv
<1>1. Absent \in Ends \cup {Absent} /\ Closed \in [phase : Phases, roster : SUBSET Users]
  BY DEF Closed, Phases
<1>2. env \in Surroundings
  BY SquadAssumption DEF Init
<1>3. env.rekeys \in Nat /\ env.talks \in Nat
  BY <1>2 DEF Surroundings
<1> HIDE DEF Phases
<1>4. handler \in HandlerType
  BY <1>1 DEF Init, HandlerType
<1>5. peers \in [Users -> [Users -> Ends \cup {Absent}]]
  BY <1>1 DEF Init
<1>6. UplinkInv /\ uplink \in [Users -> Seq(ClientMsgs)] /\ wire \in [Users -> [Sockets -> Seq(ClientMsgs)]]
      /\ inbox \in [Users -> Seq(ServerMsgs)] /\ \A u \in Users : inbox[u] # <<>> => engine[u] = "up"
  BY DEF Init, UplinkInv
<1>7. sock \in [Users -> 0 .. MaxSockets] /\ room \in [Users -> 0 .. MaxSockets]
  BY SquadAssumption DEF Init
<1>8. StartedInv
  BY DEF Init, StartedInv
<1>9. /\ env \in Environments /\ engine \in [Users -> {"off", "up", "down", "gone"}]
      /\ made \in [Users -> [Users -> Nat]] /\ turn \in [Users -> BOOLEAN]
      /\ broken \subseteq Users \X Sockets /\ speaking \in [Users -> SUBSET Users]
      /\ transmit \in [Users -> BOOLEAN] /\ calm \in BOOLEAN /\ aired \subseteq Users
  BY DEF Init
<1>10. rekeys \in 0 .. env.rekeys /\ talks \in 0 .. env.talks
  BY <1>3 DEF Init
<1> QED
  BY <1>4, <1>5, <1>6, <1>7, <1>8, <1>9, <1>10 DEF TypeOK, HandlerType, Phases, BaseInv

LEMMA HandlerTypes ==
    ASSUME NEW u \in Users, NEW s \in Sockets, TypeOK, HandlerStep(u, s)
    PROVE  /\ handler' \in HandlerType /\ room' \in [Users -> 0 .. MaxSockets]
           /\ wire' \in [Users -> [Sockets -> Seq(ClientMsgs)]]
           /\ inbox' \in [Users -> Seq(ServerMsgs)] /\ broken' \subseteq Users \X Sockets
           /\ \A v \in Users : inbox'[v] # <<>> => engine[v] = "up"
<1>1. /\ handler \in HandlerType /\ room \in [Users -> 0 .. MaxSockets]
      /\ wire \in [Users -> [Sockets -> Seq(ClientMsgs)]] /\ inbox \in [Users -> Seq(ServerMsgs)]
      /\ broken \subseteq Users \X Sockets /\ \A v \in Users : inbox[v] # <<>> => engine[v] = "up"
      /\ s \in 0 .. MaxSockets
  <2>1. s \in 0 .. MaxSockets
    BY SquadAssumption DEF Sockets
  <2>2. handler \in HandlerType
    BY DEF TypeOK, HandlerType, Phases
  <2> QED
    BY <2>1, <2>2 DEF TypeOK
<1>2. \A members, m, to : Sends(members, m, to) =>
          /\ inbox' \in [Users -> Seq(ServerMsgs)] /\ broken' \subseteq Users \X Sockets
          /\ \A v \in Users : inbox'[v] # <<>> => engine[v] = "up"
  BY <1>1 DEF Sends, Carries
<1>3. \A types : Reads(u, s, types) => wire' \in [Users -> [Sockets -> Seq(ClientMsgs)]]
  BY DEF Reads
<1>4. CASE JoinStep(u, s)
  <2>1. [phase |-> "joined", roster |-> Listed \ {u}] \in [phase : Phases, roster : SUBSET Users]
    BY DEF Phases, Listed
  <2>2. handler' \in HandlerType /\ room' \in [Users -> 0 .. MaxSockets]
    BY <1>1, <1>4, <2>1 DEF JoinStep, HandlerType
  <2> QED
    BY <1>2, <1>3, <1>4, <2>2 DEF JoinStep
<1>5. CASE RosterStep(u, s)
  <2>1. [phase |-> "welcomed", roster |-> {}] \in [phase : Phases, roster : SUBSET Users]
    BY DEF Phases
  <2>2. handler' \in HandlerType /\ room' \in [Users -> 0 .. MaxSockets]
    BY <1>1, <1>5, <2>1 DEF RosterStep, HandlerType
  <2> QED
    BY <1>1, <1>2, <1>5, <2>2 DEF RosterStep
<1>6. CASE TurnStep(u, s)
  <2>1. [handler[u][s] EXCEPT !.phase = "serving"] \in [phase : Phases, roster : SUBSET Users]
    <3>1. handler[u][s] \in [phase : Phases, roster : SUBSET Users] /\ "serving" \in Phases
      BY <1>1 DEF Phases, HandlerType
    <3> QED
      BY <3>1
  <2>0. handler' = [handler EXCEPT ![u][s] = [handler[u][s] EXCEPT !.phase = "serving"]]
    BY <1>6 DEF TurnStep
  <2> DEFINE z == [handler[u][s] EXCEPT !.phase = "serving"]
  <2>3. z \in [phase : Phases, roster : SUBSET Users] /\ handler' = [handler EXCEPT ![u][s] = z]
    BY <2>0, <2>1
  <2> HIDE DEF z
  <2>2. handler' \in HandlerType /\ room' \in [Users -> 0 .. MaxSockets]
    <3>1. room' = room
      BY <1>6 DEF TurnStep
    <3> QED
      BY <1>1, <2>3, <3>1 DEF HandlerType
  <2> QED
    BY <1>1, <1>2, <1>6, <2>2 DEF TurnStep
<1>7. CASE RelayStep(u, s) \/ RekeyStep(u, s) \/ PttStep(u, s)
  BY <1>1, <1>2, <1>3, <1>7 DEF RelayStep, RekeyStep, PttStep
<1>8. CASE CleanupStep(u, s)
  <2>1. Closed \in [phase : Phases, roster : SUBSET Users] /\ <<>> \in Seq(ClientMsgs)
    BY DEF Phases, Closed
  <2>2. handler' \in HandlerType /\ wire' \in [Users -> [Sockets -> Seq(ClientMsgs)]]
    BY <1>1, <1>8, <2>1 DEF CleanupStep, HandlerType
  <2>3. /\ inbox' \in [Users -> Seq(ServerMsgs)] /\ broken' \subseteq Users \X Sockets
        /\ \A v \in Users : inbox'[v] # <<>> => engine[v] = "up"
        /\ room' \in [Users -> 0 .. MaxSockets]
    <3>1. CASE UNCHANGED <<room, inbox, broken>>
      BY <1>1, <3>1
    <3>2. CASE /\ room' = [room EXCEPT ![u] = 0]
               /\ Sends(Listed \ {u}, [type |-> "left", user |-> u], room)
      <4>1. 0 \in 0 .. MaxSockets
        BY SquadAssumption
      <4>2. room' \in [Users -> 0 .. MaxSockets]
        BY <1>1, <3>2, <4>1
      <4> QED
        BY <1>2, <3>2, <4>2
    <3> QED
      BY <1>8, <3>1, <3>2 DEF CleanupStep
  <2> QED
    BY <2>2, <2>3
<1> QED
  BY <1>4, <1>5, <1>6, <1>7, <1>8 DEF HandlerStep

LEMMA TypeStep ==
    ASSUME BaseInv, [Next]_vars
    PROVE  BaseInv'
<1> USE DEF BaseInv
<1>0. /\ env.rekeys \in Nat /\ env.talks \in Nat
      /\ uplink \in [Users -> Seq(LinkMsgs)]
      /\ \A q \in Seq(LinkMsgs) : q \in Seq(ClientMsgs)
  <2>1. env \in Surroundings
    BY TypeFacts
  <2>2. \A m \in LinkMsgs : m \in ClientMsgs
    BY ClientFacts
  <2>3. \A q \in Seq(LinkMsgs) : q \in Seq(ClientMsgs)
    BY <2>2
  <2> QED
    BY <2>1, <2>3 DEF Surroundings, UplinkInv, TypeOK
<1>a. uplink' \in [Users -> Seq(LinkMsgs)] => UplinkInv' /\ uplink' \in [Users -> Seq(ClientMsgs)]
  BY <1>0 DEF UplinkInv
<1>1. SUFFICES ASSUME NEW u \in Users, Command(u) \/ Engine(u) \/ Handler(u)
               PROVE  TypeOK' /\ StartedInv' /\ UplinkInv'
  BY DEF Next, vars, TypeOK, StartedInv, UplinkInv
<1>b. env' = env
  BY <1>1 DEF Command, Engine, Handler
<1>c. engine[u] # "off" => sock[u] \in Sockets
  BY TypeFacts DEF StartedInv
<1>d. engine \in [Users -> {"off", "up", "down", "gone"}] /\ sock \in [Users -> 0 .. MaxSockets]
      /\ \A v \in Users : inbox[v] # <<>> => engine[v] = "up"
      /\ MaxSockets \in Nat /\ \A n \in Sockets : n # 0
  BY TypeFacts, SquadAssumption DEF TypeOK, Sockets
<1>e. sock' = sock /\ (engine' = engine \/ \E e \in {"down", "gone"} :
                                              engine[u] # "off" /\ engine' = [engine EXCEPT ![u] = e])
        => StartedInv'
  BY <1>d DEF StartedInv
<1>f. Connected(u) => StartedInv' /\ engine' \in [Users -> {"off", "up", "down", "gone"}]
                      /\ \A v \in Users : inbox[v] # <<>> => engine'[v] = "up"
  <2>1. SUFFICES ASSUME Connected(u)
                 PROVE  StartedInv' /\ engine' \in [Users -> {"off", "up", "down", "gone"}]
                        /\ \A v \in Users : inbox[v] # <<>> => engine'[v] = "up"
    OBVIOUS
  <2>2. /\ sock[u] + 1 \in Sockets /\ sock' = [sock EXCEPT ![u] = sock[u] + 1]
        /\ engine' = [engine EXCEPT ![u] = "up"]
    BY <2>1, ConnectedFacts
  <2> QED
    BY <1>d, <2>2 DEF StartedInv
<1>2. CASE Start(u)
  <2>1. UNCHANGED <<peers, made, turn, uplink, speaking, transmit, inbox, broken, room, rekeys, talks>>
        /\ calm' = FALSE /\ aired' = {} /\ Connected(u)
    BY <1>2 DEF Start, Disturbs
  <2> QED
    BY <1>b, <1>f, <2>1, ConnectedFacts DEF TypeOK, UplinkInv
<1>3. CASE Reconnect(u)
  <2>1. UNCHANGED <<peers, made, turn, uplink, speaking, transmit, inbox, broken, room, rekeys, talks>>
        /\ calm' = FALSE /\ aired' = {} /\ Connected(u)
    BY <1>3 DEF Reconnect, Disturbs
  <2> QED
    BY <1>b, <1>f, <2>1, ConnectedFacts DEF TypeOK, UplinkInv
<1>4. CASE Break(u)
  <2>1. broken' \subseteq Users \X Sockets
    BY <1>c, <1>4 DEF Break, Carries, TypeOK
  <2>2. StartedInv'
    BY <1>e, <1>4 DEF Break, engineVars
  <2> QED
    BY <1>b, <1>4, <2>1, <2>2 DEF Break, Disturbs, engineVars, serverVars, TypeOK, UplinkInv
<1>5. CASE SignalingLost(u)
  <2>1. inbox' \in [Users -> Seq(ServerMsgs)] /\ engine' \in [Users -> {"off", "up", "down", "gone"}]
        /\ \A v \in Users : inbox'[v] # <<>> => engine'[v] = "up"
    BY <1>5 DEF SignalingLost, TypeOK
  <2> QED
    BY <1>b, <1>e, <1>5, <2>1 DEF SignalingLost, serverVars, commandVars, TypeOK, UplinkInv
<1>6. CASE Disconnect(u)
  <2>1. /\ inbox' \in [Users -> Seq(ServerMsgs)] /\ engine' \in [Users -> {"off", "up", "down", "gone"}]
        /\ \A v \in Users : inbox'[v] # <<>> => engine'[v] = "up"
    BY <1>6 DEF Disconnect, TypeOK
  <2>2. uplink' \in [Users -> Seq(LinkMsgs)]
    BY <1>0, <1>6 DEF Disconnect
  <2>3. peers' \in [Users -> [Users -> Ends \cup {Absent}]]
    BY <1>6 DEF Disconnect, TypeOK
  <2>4. broken' \subseteq Users \X Sockets
    <3>1. sock[u] \in Sockets
      BY <1>c, <1>6 DEF Disconnect
    <3> QED
      BY <1>6, <3>1 DEF Disconnect, TypeOK
  <2> QED
    BY <1>a, <1>b, <1>e, <1>6, <2>1, <2>2, <2>3, <2>4 DEF Disconnect, Disturbs, serverVars, TypeOK
<1>7. CASE Forward(u)
  <2>1. /\ uplink[u] \in Seq(LinkMsgs) /\ uplink[u] # <<>> /\ uplink' = [uplink EXCEPT ![u] = Tail(uplink[u])]
        /\ wire' = Sent(u, Head(uplink[u]))
    BY <1>0, <1>7 DEF Forward
  <2>2. Head(uplink[u]) \in LinkMsgs /\ Tail(uplink[u]) \in Seq(LinkMsgs)
    BY <2>1, TailFacts
  <2>3. uplink' \in [Users -> Seq(LinkMsgs)]
    BY <1>0, <2>1, <2>2
  <2>4. wire' \in [Users -> [Sockets -> Seq(ClientMsgs)]]
    BY <2>1, <2>2, ClientFacts, WritesFacts DEF Writes
  <2> QED
    BY <1>a, <1>b, <1>e, <1>7, <2>3, <2>4 DEF Forward, serverVars, commandVars, TypeOK
<1>8. CASE CommandRekey(u)
  <2>1. wire' \in [Users -> [Sockets -> Seq(ClientMsgs)]]
    BY <1>8, ClientFacts, WritesFacts DEF CommandRekey, Writes
  <2>2. rekeys' \in 0 .. env'.rekeys /\ calm' \in BOOLEAN
    <3>1. rekeys \in 0 .. env.rekeys
      BY DEF TypeOK
    <3>2. rekeys' = rekeys + 1 /\ rekeys < env.rekeys
      BY <1>8 DEF CommandRekey
    <3>3. calm' \in BOOLEAN
      BY <1>8 DEF CommandRekey, Quiet, IsPresent
    <3> QED
      BY <1>0, <1>b, <3>1, <3>2, <3>3
  <2> QED
    BY <1>b, <1>e, <1>8, <2>1, <2>2 DEF CommandRekey, engineVars, serverVars, TypeOK, UplinkInv
<1>9. CASE CommandTalk(u)
  <2>0. PttMsg(~ transmit[u]) \in ClientMsgs /\ transmit' \in [Users -> BOOLEAN]
    BY <1>9, ClientFacts DEF CommandTalk, TypeOK
  <2>1. wire' \in [Users -> [Sockets -> Seq(ClientMsgs)]]
    BY <1>9, <2>0, WritesFacts DEF CommandTalk, Writes
  <2>2. talks' \in 0 .. env'.talks
    <3>1. talks \in 0 .. env.talks
      BY DEF TypeOK
    <3>2. talks' = talks + 1 /\ talks < env.talks
      BY <1>9 DEF CommandTalk
    <3> QED
      BY <1>0, <1>b, <3>1, <3>2
  <2>3. aired' \subseteq Users
    BY <1>9 DEF CommandTalk, TypeOK
  <2> QED
    BY <1>b, <1>e, <1>9, <2>0, <2>1, <2>2, <2>3 DEF CommandTalk, serverVars, TypeOK, UplinkInv
<1>10. CASE Gets(u)
  <2>1. Handling(u) /\ turn' \in [Users -> BOOLEAN] /\ Flags(u)
    BY <1>10, GetFacts
  <2>2. speaking' \in [Users -> SUBSET Users]
    <3>1. speaking \in [Users -> SUBSET Users] /\ Got(u) \in ServerMsgs
      BY <2>1 DEF TypeOK, Handling
    <3>2. Got(u).type = "ptt" => Got(u).user \in Users
      BY <3>1, ServerFacts
    <3> QED
      BY <2>1, <3>1, <3>2 DEF Flags
  <2>3. \A v \in Users : inbox'[v] # <<>> => engine'[v] = "up"
    BY <2>1 DEF Handling, TypeOK
  <2> QED
    BY <1>a, <1>b, <1>e, <2>1, <2>2, <2>3 DEF Handling, AnEnd, TypeOK
<1>11. CASE Handler(u)
  <2>1. PICK s \in Sockets : HandlerStep(u, s)
    BY <1>11, HandlerFacts
  <2>2. /\ handler' \in HandlerType /\ room' \in [Users -> 0 .. MaxSockets]
        /\ wire' \in [Users -> [Sockets -> Seq(ClientMsgs)]]
        /\ inbox' \in [Users -> Seq(ServerMsgs)] /\ broken' \subseteq Users \X Sockets
        /\ \A v \in Users : inbox'[v] # <<>> => engine[v] = "up"
    BY <2>1, HandlerTypes
  <2>3. UNCHANGED <<env, engine, sock, peers, made, turn, uplink, speaking, transmit,
                    rekeys, talks, calm, aired>>
    BY <2>1 DEF HandlerStep
  <2> QED
    BY <1>e, <2>2, <2>3 DEF TypeOK, UplinkInv, HandlerType, Phases
<1> QED
  BY <1>1, <1>2, <1>3, <1>4, <1>5, <1>6, <1>7, <1>8, <1>9, <1>10, <1>11 DEF Command, Engine, Gets

\* Every variable has its type, in every state of a squad in any surroundings,
\* and nothing is received on a socket that the engine lost (lib.rs:354-420,
\* main.rs:470-640).
THEOREM SquadTypes == Spec => []TypeOK
<1>1. Init => BaseInv
  BY TypeInit
<1>2. BaseInv /\ [Next]_vars => BaseInv'
  BY TypeStep
<1>3. BaseInv => TypeOK
  BY DEF BaseInv
<1> QED
  BY <1>1, <1>2, <1>3, PTL DEF Spec

-----------------------------------------------------------------------------
(* Sockets, sides and hearsay.                                             *)

LEMMA UpFacts ==
    ASSUME BaseInv, NEW u \in Users
    PROVE  /\ engine[u] # "off" => sock[u] \in Sockets
           /\ Carries(u) => sock[u] \in Sockets /\ sock[u] # 0
BY TypeFacts DEF BaseInv, StartedInv, Carries, Sockets

\* The steps of an engine and its user other than the handling of a message.
EngineStep(u) ==
    \/ /\ engine[u] \in {"off", "down"} /\ Connected(u)
       /\ UNCHANGED <<peers, uplink, speaking, transmit, inbox, broken, room>>
       /\ env.prompt /\ engine[u] = "down" => handler[u][sock[u]] = Closed
       /\ ~ calm' /\ aired' = {}
    \/ /\ Carries(u) /\ broken' = broken \cup {<<u, sock[u]>>}
       /\ UNCHANGED <<engine, sock, peers, uplink, speaking, transmit, wire, inbox, handler, room>>
       /\ ~ calm' /\ aired' = {}
    \/ /\ engine[u] = "up" /\ <<u, sock[u]>> \in broken
       /\ engine' = [engine EXCEPT ![u] = "down"] /\ inbox' = [inbox EXCEPT ![u] = <<>>]
       /\ UNCHANGED <<sock, peers, uplink, speaking, transmit, wire, broken, handler, room, calm, aired>>
    \/ /\ engine[u] \in {"up", "down"}
       /\ engine' = [engine EXCEPT ![u] = "gone"] /\ inbox' = [inbox EXCEPT ![u] = <<>>]
       /\ peers' = [peers EXCEPT ![u] = [v \in Users |-> Absent]]
       /\ uplink' = [uplink EXCEPT ![u] = <<>>]
       /\ broken' = broken \/ broken' = broken \cup {<<u, sock[u]>>}
       /\ UNCHANGED <<sock, speaking, transmit, wire, handler, room>>
       /\ ~ calm' /\ aired' = {}
    \/ /\ uplink[u] # <<>> /\ Head(uplink[u]) \in LinkMsgs
       /\ uplink' = [uplink EXCEPT ![u] = Tail(uplink[u])]
       /\ Writes(u, Head(uplink[u]))
       /\ UNCHANGED <<engine, sock, peers, speaking, transmit, inbox, broken, handler, room, calm, aired>>
    \/ /\ Writes(u, RekeyMsg) /\ calm' = (Quiet /\ IsPresent(u))
       /\ UNCHANGED <<engine, sock, peers, uplink, speaking, transmit, inbox, broken, handler, room, aired>>
    \/ /\ Writes(u, PttMsg(~ transmit[u])) /\ transmit' = [transmit EXCEPT ![u] = ~ transmit[u]]
       /\ aired' = IF IsPresent(u) /\ Introduced THEN aired \cup {u} ELSE aired \ {u}
       /\ UNCHANGED <<engine, sock, peers, uplink, speaking, inbox, broken, handler, room, calm>>

LEMMA EngineFacts ==
    ASSUME BaseInv, NEW u \in Users, Command(u) \/ Engine(u), ~ Gets(u)
    PROVE  EngineStep(u) /\ env' = env
<1>1. env' = env
  BY DEF Command, Engine
<1>2. CASE Start(u) \/ Reconnect(u)
  BY <1>1, <1>2 DEF EngineStep, Start, Reconnect, Disturbs
<1>3. CASE Break(u)
  BY <1>1, <1>3 DEF EngineStep, Break, Disturbs, engineVars, serverVars
<1>4. CASE SignalingLost(u)
  BY <1>1, <1>4 DEF EngineStep, SignalingLost, serverVars, commandVars
<1>5. CASE Disconnect(u)
  BY <1>1, <1>5 DEF EngineStep, Disconnect, Disturbs, serverVars
<1>6. CASE Forward(u)
  <2>1. uplink[u] # <<>> /\ Head(uplink[u]) \in LinkMsgs
    BY <1>6, TailFacts DEF Forward, BaseInv, UplinkInv
  <2>2. Writes(u, Head(uplink[u]))
    BY <1>6, <2>1, ClientFacts, WritesFacts DEF Forward, BaseInv
  <2> QED
    BY <1>1, <1>6, <2>1, <2>2 DEF EngineStep, Forward, serverVars, commandVars
<1>7. CASE CommandRekey(u)
  <2>1. Writes(u, RekeyMsg)
    BY <1>7, ClientFacts, WritesFacts DEF CommandRekey, BaseInv
  <2> QED
    BY <1>1, <1>7, <2>1 DEF EngineStep, CommandRekey, engineVars, serverVars
<1>8. CASE CommandTalk(u)
  <2>1. PttMsg(~ transmit[u]) \in ClientMsgs
    BY ClientFacts DEF BaseInv, TypeOK
  <2>2. Writes(u, PttMsg(~ transmit[u]))
    BY <1>8, <2>1, WritesFacts DEF CommandTalk, BaseInv
  <2> QED
    BY <1>1, <1>8, <2>2 DEF EngineStep, CommandTalk, serverVars
<1> QED
  BY <1>2, <1>3, <1>4, <1>5, <1>6, <1>7, <1>8 DEF Command, Engine, Gets

\* Every step is one of the engine or user, the handling of a message, or one
\* of a handler.
LEMMA StepFacts ==
    ASSUME BaseInv, [Next]_vars
    PROVE  \/ UNCHANGED vars
           \/ /\ env' = env
              /\ \E u \in Users : \/ EngineStep(u)
                                  \/ Gets(u) /\ Handling(u)
                                  \/ \E s \in Sockets : HandlerStep(u, s)
<1>1. CASE UNCHANGED vars
  BY <1>1
<1>2. CASE Next
  <2>1. PICK u \in Users : Command(u) \/ Engine(u) \/ Handler(u)
    BY <1>2 DEF Next
  <2>2. env' = env
    BY <2>1 DEF Command, Engine, Handler
  <2>3. CASE Gets(u)
    BY <2>2, <2>3, GetFacts DEF BaseInv
  <2>4. CASE (Command(u) \/ Engine(u)) /\ ~ Gets(u)
    BY <2>2, <2>4, EngineFacts
  <2>5. CASE Handler(u)
    BY <2>2, <2>5, HandlerFacts DEF BaseInv
  <2> QED
    BY <2>1, <2>3, <2>4, <2>5
<1> QED
  BY <1>1, <1>2

LEMMA SidesStep ==
    ASSUME BaseInv, SidesInv, [Next]_vars
    PROVE  SidesInv'
<1>1. CASE UNCHANGED vars
  BY <1>1 DEF vars, SidesInv
<1>2. ASSUME NEW u \in Users, EngineStep(u) PROVE SidesInv'
  <2>1. peers' = peers \/ peers' = [peers EXCEPT ![u] = [v \in Users |-> Absent]]
    BY <1>2 DEF EngineStep
  <2>2. peers \in [Users -> [Users -> Ends \cup {Absent}]]
    BY DEF BaseInv, TypeOK
  <2>3. \A x, y \in Users : peers'[x][y] = peers[x][y] \/ peers'[x][y] = Absent
    BY <2>1, <2>2
  <2>4. ~ Absent.offered
    BY EndFacts
  <2> QED
    BY <2>3, <2>4 DEF SidesInv
<1>3. ASSUME NEW u \in Users, Gets(u) PROVE SidesInv'
  <2>1. Handling(u) /\ \A v \in Users : Keeps(u, v)
    BY <1>3, GetFacts DEF BaseInv
  <2>2. \A v \in Users : ~ (u < v) /\ ~ peers[u][v].offered => ~ peers'[u][v].offered
    BY <2>1 DEF Keeps
  <2>3. \A w \in Users \ {u} : \A v \in Users : peers'[w][v] = peers[w][v]
    BY <2>1 DEF Handling
  <2> QED
    BY <2>2, <2>3 DEF SidesInv
<1>4. ASSUME NEW u \in Users, NEW s \in Sockets, HandlerStep(u, s) PROVE SidesInv'
  BY <1>4 DEF HandlerStep, SidesInv
<1> QED
  BY <1>1, <1>2, <1>3, <1>4, StepFacts

LEMMA SocketStep ==
    ASSUME BaseInv, SocketInv, [Next]_vars
    PROVE  SocketInv'
<1> DEFINE A(w) == room[w] <= sock[w]
           B(w, s) == /\ s > sock[w] => handler[w][s].phase = "closed" /\ <<w, s>> \notin broken
                      /\ handler[w][s].phase = "closed" => s > sock[w] \/ <<w, s>> \in broken
                      /\ handler[w][s].phase = "closed" => wire[w][s] = <<>>
                      /\ handler[w][s].phase = "open" => room[w] # s
<1>0. \A w \in Users : A(w) /\ \A s \in Sockets : B(w, s)
  BY DEF SocketInv
<1>a. SUFFICES ASSUME NEW w \in Users, NEW t \in Sockets PROVE A(w)' /\ B(w, t)'
  <2>1. 1 \in Sockets
    BY SquadAssumption DEF Sockets
  <2> QED
    BY <2>1 DEF SocketInv
<1>b. /\ sock[w] \in Nat /\ room[w] \in Nat /\ t \in Nat /\ t # 0
      /\ sock \in [Users -> 0 .. MaxSockets] /\ room \in [Users -> 0 .. MaxSockets]
      /\ handler \in HandlerType
  BY TypeFacts DEF BaseInv, TypeOK, HandlerType, Phases
<1>1. CASE UNCHANGED vars
  BY <1>0, <1>1 DEF vars
<1>2. ASSUME NEW u \in Users, EngineStep(u) PROVE A(w)' /\ B(w, t)'
  <2>1. CASE Connected(u) /\ UNCHANGED <<broken, room>>
    <3>1. /\ sock' = [sock EXCEPT ![u] = sock[u] + 1]
          /\ wire'[w][t] = IF w = u /\ t = sock[u] + 1 THEN <<JoinMsg>> ELSE wire[w][t]
          /\ handler'[w][t] = IF w = u /\ t = sock[u] + 1 THEN Opened ELSE handler[w][t]
      BY <2>1, ConnectedFacts DEF BaseInv
    <3>2. Opened.phase = "open"
      BY DEF Opened
    <3> QED
      BY <1>0, <1>b, <2>1, <3>1, <3>2
  <2>2. CASE /\ UNCHANGED <<sock, wire, handler, room>>
             /\ broken' = broken \/ broken' = broken \cup {<<u, sock[u]>>}
    BY <1>0, <1>b, <2>2
  <2>3. CASE UNCHANGED <<sock, broken, handler, room>> /\ \E m : Writes(u, m)
    <3>1. PICK m : Writes(u, m)
      BY <2>3
    <3>2. wire'[w][t] = wire[w][t] \/ (w = u /\ t = sock[u] /\ Carries(u))
      BY <3>1 DEF Writes
    <3> QED
      BY <1>0, <1>b, <2>3, <3>2 DEF Carries
  <2> QED
    BY <1>2, <2>1, <2>2, <2>3 DEF EngineStep
<1>3. ASSUME NEW u \in Users, Handling(u) PROVE A(w)' /\ B(w, t)'
  BY <1>0, <1>3 DEF Handling
<1>4. ASSUME NEW u \in Users, NEW s \in Sockets, HandlerStep(u, s) PROVE A(w)' /\ B(w, t)'
  <2>0. \A members, m, to : Sends(members, m, to) =>
            /\ broken \subseteq broken'
            /\ t > sock[w] /\ <<w, t>> \notin broken => <<w, t>> \notin broken'
    BY <1>b DEF Sends
  <2>1. sock' = sock
    BY <1>4 DEF HandlerStep
  <2>2. CASE JoinStep(u, s)
    <3>1. /\ room' = [room EXCEPT ![u] = s]
          /\ handler'[w][t].phase = IF w = u /\ t = s THEN "joined" ELSE handler[w][t].phase
          /\ handler[u][s].phase = "open"
          /\ w # u \/ t # s => wire'[w][t] = wire[w][t]
          /\ broken \subseteq broken'
          /\ t > sock[w] /\ <<w, t>> \notin broken => <<w, t>> \notin broken'
      BY <1>b, <2>0, <2>2 DEF JoinStep, Reads, HandlerType
    <3>2. s <= sock[u]
      <4>1. ~ (s > sock[u]) /\ s \in Nat /\ sock[u] \in Nat
        BY <1>0, <3>1, TypeFacts DEF BaseInv
      <4> QED
        BY <4>1
    <3>3. A(w)'
      BY <1>0, <1>b, <2>1, <3>1, <3>2
    <3>4. B(w, t)'
      BY <1>0, <1>b, <2>1, <3>1, <3>2
    <3> QED
      BY <3>3, <3>4
  <2>3. CASE RosterStep(u, s) \/ TurnStep(u, s)
    <3>0. /\ handler[u][s].phase \notin {"closed", "open"} /\ handler'[u][s].phase \notin {"closed", "open"}
          /\ w # u \/ t # s => handler'[w][t].phase = handler[w][t].phase
      <4>1. CASE RosterStep(u, s)
        BY <1>b, <4>1 DEF RosterStep, HandlerType
      <4>2. CASE TurnStep(u, s)
        BY <1>b, <4>2 DEF TurnStep, HandlerType
      <4> QED
        BY <2>3, <4>1, <4>2
    <3>1. /\ room' = room /\ wire' = wire
          /\ w # u \/ t # s => handler'[w][t].phase = handler[w][t].phase
          /\ handler[u][s].phase \notin {"closed", "open"} /\ handler'[u][s].phase \notin {"closed", "open"}
          /\ broken \subseteq broken'
          /\ t > sock[w] /\ <<w, t>> \notin broken => <<w, t>> \notin broken'
      BY <2>0, <2>3, <3>0 DEF RosterStep, TurnStep
    <3> QED
      BY <1>0, <1>b, <2>1, <3>1
  <2>4. CASE RelayStep(u, s) \/ RekeyStep(u, s) \/ PttStep(u, s)
    <3>1. /\ room' = room /\ handler' = handler
          /\ w # u \/ t # s => wire'[w][t] = wire[w][t]
          /\ handler[u][s].phase = "serving"
          /\ broken \subseteq broken'
          /\ t > sock[w] /\ <<w, t>> \notin broken => <<w, t>> \notin broken'
      BY <2>0, <2>4 DEF RelayStep, RekeyStep, PttStep, Reads
    <3> QED
      BY <1>0, <1>b, <2>1, <3>1
  <2>5. CASE CleanupStep(u, s)
    <3>1. /\ <<u, s>> \in broken /\ (handler[u][s].phase = "open" \/ handler[u][s].phase = "serving")
          /\ room' = room \/ room' = [room EXCEPT ![u] = 0]
          /\ broken \subseteq broken'
          /\ t > sock[w] /\ <<w, t>> \notin broken => <<w, t>> \notin broken'
      BY <2>0, <2>5 DEF CleanupStep
    <3>2. /\ w # u \/ t # s => handler'[w][t].phase = handler[w][t].phase /\ wire'[w][t] = wire[w][t]
          /\ w = u /\ t = s => handler'[w][t].phase = "closed" /\ wire'[w][t] = <<>>
      <4>1. wire \in [Users -> [Sockets -> Seq(ClientMsgs)]]
        BY DEF BaseInv, TypeOK
      <4> QED
        BY <1>b, <2>5, <4>1 DEF CleanupStep, HandlerType, Closed
    <3>3. A(w)'
      BY <1>0, <1>b, <2>1, <3>1
    <3>4. CASE w = u /\ t = s
      BY <1>0, <1>b, <2>1, <3>1, <3>2, <3>4
    <3>5. CASE w # u \/ t # s
      BY <1>0, <1>b, <2>1, <3>1, <3>2, <3>5
    <3> QED
      BY <3>3, <3>4, <3>5
  <2> QED
    BY <1>4, <2>2, <2>3, <2>4, <2>5 DEF HandlerStep
<1> QED
  BY <1>1, <1>2, <1>3, <1>4, StepFacts

\* What the server sends is appended, and closes the sockets of those who are gone.
LEMMA SentFacts ==
    ASSUME BaseInv, NEW members, NEW m \in ServerMsgs, NEW to, Sends(members, m, to), engine' = engine, sock' = sock
    PROVE  \A w \in Users : /\ Carries(w)' <=> Carries(w)
                            /\ inbox'[w] = inbox[w] \/ inbox'[w] = Append(inbox[w], m)
                            /\ w \notin members => inbox'[w] = inbox[w]
                            /\ inbox[w] \in Seq(ServerMsgs)
<1>1. \A w \in Users : inbox[w] \in Seq(ServerMsgs)
  BY DEF BaseInv, TypeOK
<1> QED
  BY <1>1 DEF Sends, Carries

LEMMA ToldFacts ==
    ASSUME NEW q \in Seq(ServerMsgs), NEW v
    PROVE  /\ q # <<>> /\ Told(q, v) => Told(Tail(q), v) \/ (Names(Head(q), v) /\ NoLeave(Tail(q), v))
           /\ q # <<>> /\ NoLeave(q, v) => NoLeave(Tail(q), v) /\ ~ Leaves(Head(q), v)
           /\ \A m \in ServerMsgs : /\ Names(m, v) => Told(Append(q, m), v)
                                    /\ Told(q, v) /\ ~ Leaves(m, v) => Told(Append(q, m), v)
                                    /\ NoLeave(q, v) /\ ~ Leaves(m, v) => NoLeave(Append(q, m), v)
<1>1. ASSUME q # <<>>
      PROVE  /\ Told(q, v) => Told(Tail(q), v) \/ (Names(Head(q), v) /\ NoLeave(Tail(q), v))
             /\ NoLeave(q, v) => NoLeave(Tail(q), v) /\ ~ Leaves(Head(q), v)
  <2> DEFINE n == Len(q)
             z == Tail(q)
  <2>1. /\ n \in Nat /\ DOMAIN q = 1 .. n /\ 1 \in DOMAIN q /\ DOMAIN z = 1 .. n - 1 /\ q[1] = Head(q)
        /\ \A i \in DOMAIN z : z[i] = q[i + 1]
    BY <1>1, TailFacts
  <2> HIDE DEF n, z
  <2>2. /\ \A i \in DOMAIN q : i \in Nat /\ (i = 1 \/ (i - 1 \in DOMAIN z /\ z[i - 1] = q[i]))
        /\ \A i \in DOMAIN z : i + 1 \in DOMAIN q /\ i + 1 > 1 /\ i \in Nat
    BY <2>1
  <2>3. NoLeave(q, v) => NoLeave(z, v) /\ ~ Leaves(Head(q), v)
    BY <2>1, <2>2 DEF NoLeave
  <2>4. ASSUME Told(q, v) PROVE Told(z, v) \/ (Names(Head(q), v) /\ NoLeave(z, v))
    <3>1. PICK i \in DOMAIN q : Names(q[i], v) /\ \A j \in DOMAIN q : j > i => ~ Leaves(q[j], v)
      BY <2>4 DEF Told
    <3>2. CASE i = 1
      BY <2>1, <2>2, <3>1, <3>2 DEF NoLeave
    <3>3. CASE i # 1
      <4>1. i - 1 \in DOMAIN z /\ Names(z[i - 1], v)
        BY <2>2, <3>1, <3>3
      <4>2. \A j \in DOMAIN z : j > i - 1 => ~ Leaves(z[j], v)
        BY <2>1, <2>2, <3>1
      <4> QED
        BY <4>1, <4>2 DEF Told
    <3> QED
      BY <3>2, <3>3
  <2> QED
    BY <2>3, <2>4 DEF z
<1>2. ASSUME NEW m \in ServerMsgs
      PROVE  /\ Names(m, v) => Told(Append(q, m), v)
             /\ Told(q, v) /\ ~ Leaves(m, v) => Told(Append(q, m), v)
             /\ NoLeave(q, v) /\ ~ Leaves(m, v) => NoLeave(Append(q, m), v)
  <2> DEFINE n == Len(q)
             z == Append(q, m)
  <2>1. /\ n \in Nat /\ DOMAIN q = 1 .. n /\ DOMAIN z = 1 .. n + 1 /\ z[n + 1] = m
        /\ \A i \in DOMAIN q : z[i] = q[i]
    BY AppendFacts
  <2> HIDE DEF n, z
  <2>2. /\ n + 1 \in DOMAIN z /\ \A i \in DOMAIN q : i \in DOMAIN z
        /\ \A i \in DOMAIN z : (i \in DOMAIN q \/ i = n + 1) /\ ~ (i > n + 1)
    BY <2>1
  <2>3. Names(m, v) => Told(z, v)
    BY <2>1, <2>2 DEF Told
  <2>4. Told(q, v) /\ ~ Leaves(m, v) => Told(z, v)
    BY <2>1, <2>2 DEF Told
  <2>5. NoLeave(q, v) /\ ~ Leaves(m, v) => NoLeave(z, v)
    BY <2>1, <2>2 DEF NoLeave
  <2> QED
    BY <2>3, <2>4, <2>5 DEF z
<1> QED
  BY <1>1, <1>2

\* Nobody comes into the room but by the join of its handler.
LEMMA PresentFacts ==
    ASSUME BaseInv, SocketInv, NEW w \in Users
    PROVE  /\ \A u \in Users : EngineStep(u) =>
                 /\ IsPresent(w)' => IsPresent(w) /\ UNCHANGED <<inbox[w], sock[w], peers[w], handler[w][sock[w]]>>
                 /\ room' = room
           /\ \A u \in Users : Handling(u) => (IsPresent(w)' <=> IsPresent(w))
           /\ \A u \in Users, s \in Sockets : HandlerStep(u, s) =>
                 /\ Carries(w)' => Carries(w)
                 /\ IsPresent(w)' => IsPresent(w) \/ (JoinStep(u, s) /\ w = u /\ s = sock[u] /\ Carries(w))
<1>0. /\ room[w] \in Nat /\ room[w] <= sock[w] /\ sock[w] \in Nat
      /\ sock \in [Users -> 0 .. MaxSockets] /\ engine \in [Users -> {"off", "up", "down", "gone"}]
      /\ peers \in [Users -> [Users -> Ends \cup {Absent}]] /\ inbox \in [Users -> Seq(ServerMsgs)]
      /\ room \in [Users -> 0 .. MaxSockets]
  BY TypeFacts DEF SocketInv, BaseInv, TypeOK
<1>1. ASSUME NEW u \in Users, EngineStep(u)
      PROVE  /\ IsPresent(w)' => IsPresent(w) /\ UNCHANGED <<inbox[w], sock[w], peers[w], handler[w][sock[w]]>>
             /\ room' = room
  <2>1. CASE Connected(u) /\ UNCHANGED <<peers, inbox, broken, room>>
    <3>1. /\ sock' = [sock EXCEPT ![u] = sock[u] + 1] /\ engine' = [engine EXCEPT ![u] = "up"]
          /\ \A s \in Sockets : w # u => handler'[w][s] = handler[w][s]
      BY <2>1, ConnectedFacts DEF BaseInv
    <3>2. w # u => (Carries(w) => sock[w] \in Sockets)
      BY UpFacts
    <3>3. CASE w = u
      <4>1. room'[w] = room[w] /\ sock'[w] = sock[w] + 1
        BY <1>0, <2>1, <3>1, <3>3
      <4>2. ~ IsPresent(w)'
        BY <1>0, <4>1 DEF IsPresent
      <4> QED
        BY <2>1, <4>2
    <3>4. CASE w # u
      <4>1. /\ sock'[w] = sock[w] /\ engine'[w] = engine[w] /\ room' = room /\ broken' = broken
            /\ inbox'[w] = inbox[w] /\ peers'[w] = peers[w]
        BY <1>0, <2>1, <3>1, <3>4
      <4>2. IsPresent(w)' => IsPresent(w)
        BY <4>1 DEF IsPresent, Carries
      <4>3. IsPresent(w) => handler'[w][sock[w]] = handler[w][sock[w]]
        BY <3>1, <3>2, <3>4 DEF IsPresent
      <4> QED
        BY <2>1, <4>1, <4>2, <4>3
    <3> QED
      BY <3>3, <3>4
  <2>2. CASE UNCHANGED <<engine, sock, peers, inbox, handler, room>> /\ broken \subseteq broken'
    BY <2>2 DEF IsPresent, Carries
  <2>3. CASE /\ \E e \in {"down", "gone"} : engine' = [engine EXCEPT ![u] = e]
             /\ inbox' = [inbox EXCEPT ![u] = <<>>] /\ UNCHANGED <<sock, handler, room>>
             /\ \A v \in Users \ {u} : peers'[v] = peers[v]
             /\ broken \subseteq broken'
    BY <1>0, <2>3 DEF IsPresent, Carries
  <2>4. \A v \in Users \ {u} : [peers EXCEPT ![u] = [x \in Users |-> Absent]][v] = peers[v]
    BY <1>0
  <2> QED
    BY <1>1, <2>1, <2>2, <2>3, <2>4 DEF EngineStep
<1>2. ASSUME NEW u \in Users, Handling(u) PROVE IsPresent(w)' <=> IsPresent(w)
  BY <1>2 DEF Handling, IsPresent, Carries
<1>3. ASSUME NEW u \in Users, NEW s \in Sockets, HandlerStep(u, s)
      PROVE  /\ Carries(w)' => Carries(w)
             /\ IsPresent(w)' => IsPresent(w) \/ (JoinStep(u, s) /\ w = u /\ s = sock[u] /\ Carries(w))
  <2>1. engine' = engine /\ sock' = sock /\ broken \subseteq broken'
    BY <1>3 DEF HandlerStep, JoinStep, RosterStep, TurnStep, RelayStep, RekeyStep, PttStep, CleanupStep, Sends
  <2>2. Carries(w)' => Carries(w)
    BY <2>1 DEF Carries
  <2>3. CASE room' = room
    BY <2>1, <2>3 DEF IsPresent, Carries
  <2>4. CASE JoinStep(u, s)
    <3>1. room' = [room EXCEPT ![u] = s]
      BY <2>4 DEF JoinStep
    <3> QED
      BY <1>0, <2>1, <2>2, <2>4, <3>1 DEF IsPresent
  <2>5. CASE room' = [room EXCEPT ![u] = 0]
    <3>1. Carries(w) => sock[w] # 0
      BY UpFacts
    <3> QED
      BY <1>0, <2>1, <2>2, <2>5, <3>1 DEF IsPresent
  <2> QED
    BY <1>3, <2>2, <2>3, <2>4, <2>5 DEF HandlerStep, RosterStep, TurnStep, RelayStep, RekeyStep, PttStep, CleanupStep
<1> QED
  BY <1>1, <1>2, <1>3

LEMMA HearsayStep ==
    ASSUME BaseInv, SocketInv, HearsayInv, [Next]_vars
    PROVE  HearsayInv'
<1>1. CASE UNCHANGED vars
  BY <1>1 DEF vars, HearsayInv, Hears, IsPresent, Carries
<1>2. SUFFICES ASSUME NEW w \in Users, NEW v \in Users, IsPresent(w)', room'[v] # 0, w # v,
                      ~ UNCHANGED vars
               PROVE  Hears(w, v)'
  BY <1>1 DEF HearsayInv
<1>0. /\ inbox[w] \in Seq(ServerMsgs) /\ inbox \in [Users -> Seq(ServerMsgs)]
      /\ room \in [Users -> 0 .. MaxSockets] /\ handler \in HandlerType
  BY DEF BaseInv, TypeOK, HandlerType, Phases
<1>3. ASSUME NEW u \in Users, EngineStep(u) PROVE Hears(w, v)'
  <2>1. IsPresent(w) /\ UNCHANGED <<inbox[w], sock[w], peers[w], handler[w][sock[w]]>> /\ room' = room
    BY <1>2, <1>3, PresentFacts
  <2>2. Hears(w, v)
    BY <1>2, <2>1 DEF HearsayInv
  <2> QED
    BY <2>1, <2>2 DEF Hears
<1>4. ASSUME NEW u \in Users, Gets(u), Handling(u) PROVE Hears(w, v)'
  <2>1. /\ IsPresent(w) /\ room' = room /\ sock' = sock /\ handler' = handler
    BY <1>2, <1>4, PresentFacts DEF Handling
  <2>2. Hears(w, v)
    BY <1>2, <2>1 DEF HearsayInv
  <2>3. CASE w # u
    <3>1. inbox'[w] = inbox[w] /\ peers'[w][v] = peers[w][v]
      BY <1>0, <1>4, <2>3 DEF Handling
    <3> QED
      BY <2>1, <2>2, <3>1 DEF Hears
  <2>4. CASE w = u
    <3>1. inbox[w] # <<>> /\ inbox'[w] = Tail(inbox[w]) /\ Got(w) = Head(inbox[w]) /\ Keeps(w, v)
      BY <1>0, <1>4, <2>4, GetFacts DEF Handling, Got, BaseInv
    <3>2. CASE Told(inbox[w], v)
      <4>1. Told(inbox'[w], v) \/ (Names(Got(w), v) /\ NoLeave(inbox'[w], v))
        BY <1>0, <3>1, <3>2, ToldFacts
      <4> QED
        BY <3>1, <4>1 DEF Hears, Keeps
    <3>3. CASE peers[w][v] # Absent /\ NoLeave(inbox[w], v)
      <4>1. NoLeave(inbox'[w], v) /\ ~ Leaves(Got(w), v)
        BY <1>0, <3>1, <3>3, ToldFacts
      <4> QED
        BY <3>1, <3>3, <4>1 DEF Hears, Keeps
    <3> QED
      BY <2>1, <2>2, <3>2, <3>3 DEF Hears
  <2> QED
    BY <2>3, <2>4
<1>5. ASSUME NEW u \in Users, NEW s \in Sockets, HandlerStep(u, s) PROVE Hears(w, v)'
  <2>0. /\ engine' = engine /\ sock' = sock /\ peers' = peers
        /\ IsPresent(w) \/ (JoinStep(u, s) /\ w = u /\ s = sock[u] /\ Carries(w))
        /\ Carries(w) /\ sock[w] \in Sockets
    <3>1. engine' = engine /\ sock' = sock /\ peers' = peers
      BY <1>5 DEF HandlerStep
    <3>2. IsPresent(w) \/ (JoinStep(u, s) /\ w = u /\ s = sock[u] /\ Carries(w))
      BY <1>2, <1>5, PresentFacts
    <3> QED
      BY <3>1, <3>2, UpFacts DEF IsPresent
  <2>a. \A members, m, to : Sends(members, m, to) /\ m \in ServerMsgs =>
            /\ ~ Leaves(m, v) /\ Told(inbox[w], v) => Told(inbox'[w], v)
            /\ ~ Leaves(m, v) /\ NoLeave(inbox[w], v) => NoLeave(inbox'[w], v)
            /\ w \in members /\ to[w] = sock[w] /\ Names(m, v) => Told(inbox'[w], v)
    <3>1. ASSUME NEW members, NEW m \in ServerMsgs, NEW to, Sends(members, m, to)
          PROVE  /\ ~ Leaves(m, v) /\ Told(inbox[w], v) => Told(inbox'[w], v)
                 /\ ~ Leaves(m, v) /\ NoLeave(inbox[w], v) => NoLeave(inbox'[w], v)
                 /\ w \in members /\ to[w] = sock[w] /\ Names(m, v) => Told(inbox'[w], v)
      <4>1. /\ inbox'[w] = inbox[w] \/ inbox'[w] = Append(inbox[w], m)
            /\ w \in members /\ to[w] = sock[w] => inbox'[w] = Append(inbox[w], m)
        BY <2>0, <3>1 DEF Sends
      <4>2. CASE inbox'[w] = inbox[w]
        <5>1. ~ (w \in members /\ to[w] = sock[w])
          BY <1>0, <4>1, <4>2, AppendFacts
        <5> QED
          BY <4>2, <5>1
      <4>3. CASE inbox'[w] = Append(inbox[w], m)
        <5>1. /\ Names(m, v) => Told(Append(inbox[w], m), v)
              /\ Told(inbox[w], v) /\ ~ Leaves(m, v) => Told(Append(inbox[w], m), v)
              /\ NoLeave(inbox[w], v) /\ ~ Leaves(m, v) => NoLeave(Append(inbox[w], m), v)
          BY <1>0, <3>1, ToldFacts
        <5> QED
          BY <4>3, <5>1
      <4> QED
        BY <4>1, <4>2, <4>3
    <3> QED
      BY <3>1
  <2>1. CASE JoinStep(u, s)
    <3> DEFINE m == [type |-> "joined", user |-> u]
    <3>1. /\ room' = [room EXCEPT ![u] = s]
          /\ handler' = [handler EXCEPT ![u][s] = [phase |-> "joined", roster |-> Listed \ {u}]]
          /\ Sends(Listed \ {u}, m, room)
      BY <2>1 DEF JoinStep
    <3>2. m \in ServerMsgs /\ ~ Leaves(m, v) /\ (v = u => Names(m, v))
      BY ServerFacts DEF Leaves, Names
    <3> HIDE DEF m
    <3>3. CASE w = u
      <4>1. s = sock[w]
        <5>1. room'[u] = s
          BY <1>0, <3>1
        <5> QED
          BY <1>2, <2>0, <3>3, <5>1 DEF IsPresent
      <4>2. v \in Listed \ {u}
        BY <1>0, <1>2, <3>1, <3>3 DEF Listed
      <4>3. handler'[w][sock[w]] = [phase |-> "joined", roster |-> Listed \ {u}]
        BY <1>0, <2>0, <3>1, <3>3, <4>1 DEF HandlerType
      <4> QED
        BY <2>0, <4>2, <4>3 DEF Hears
    <3>4. CASE w # u
      <4>1. IsPresent(w) /\ handler'[w][sock[w]] = handler[w][sock[w]] /\ w \in Listed /\ room[w] = sock[w]
        <5>1. IsPresent(w) /\ sock[w] # 0
          BY <2>0, <3>4, UpFacts
        <5>2. handler'[w][sock[w]] = handler[w][sock[w]]
          BY <1>0, <2>0, <3>1, <3>4 DEF HandlerType
        <5> QED
          BY <5>1, <5>2 DEF IsPresent, Listed
      <4>2. CASE v = u
        BY <2>a, <3>1, <3>2, <3>4, <4>1, <4>2 DEF Hears
      <4>3. CASE v # u
        <5>1. Hears(w, v)
          BY <1>0, <1>2, <3>1, <4>1, <4>3 DEF HearsayInv
        <5> QED
          BY <2>0, <2>a, <3>1, <3>2, <4>1, <5>1 DEF Hears
      <4> QED
        BY <4>2, <4>3
    <3> QED
      BY <3>3, <3>4
  <2>2. CASE RosterStep(u, s)
    <3> DEFINE m == [type |-> "roster", users |-> handler[u][s].roster]
    <3>1. /\ room' = room /\ handler' = [handler EXCEPT ![u][s] = [phase |-> "welcomed", roster |-> {}]]
          /\ Sends({u}, m, [room EXCEPT ![u] = s])
      BY <2>2 DEF RosterStep
    <3>2. m \in ServerMsgs /\ ~ Leaves(m, v) /\ (v \in handler[u][s].roster => Names(m, v))
      <4>1. handler[u][s].roster \in SUBSET Users
        BY <1>0 DEF HandlerType
      <4> QED
        BY <4>1, ServerFacts DEF Leaves, Names
    <3> HIDE DEF m
    <3>3. Hears(w, v) /\ IsPresent(w)
      <4>1. IsPresent(w)
        BY <1>2, <2>0, <3>1 DEF IsPresent
      <4> QED
        BY <1>2, <3>1, <4>1 DEF HearsayInv
    <3>4. CASE w = u /\ s = sock[w]
      <4>1. [room EXCEPT ![u] = s][w] = sock[w]
        BY <1>0, <3>4
      <4> QED
        BY <2>0, <2>a, <3>1, <3>2, <3>3, <3>4, <4>1 DEF Hears
    <3>5. CASE w # u \/ s # sock[w]
      <4>1. handler'[w][sock[w]] = handler[w][sock[w]]
        BY <1>0, <2>0, <3>1, <3>5 DEF HandlerType
      <4> QED
        BY <2>0, <2>a, <3>1, <3>2, <3>3, <4>1 DEF Hears
    <3> QED
      BY <3>4, <3>5
  <2>3. CASE TurnStep(u, s) \/ RelayStep(u, s) \/ RekeyStep(u, s) \/ PttStep(u, s)
    <3>1. room' = room
      BY <2>3 DEF TurnStep, RelayStep, RekeyStep, PttStep
    <3>2. IsPresent(w) /\ Hears(w, v)
      <4>1. IsPresent(w)
        BY <1>2, <2>0, <3>1 DEF IsPresent
      <4> QED
        BY <1>2, <3>1, <4>1 DEF HearsayInv
    <3>3. handler[w][sock[w]].phase = "joined" => handler'[w][sock[w]] = handler[w][sock[w]]
      <4>1. CASE TurnStep(u, s)
        <5>1. handler' = [handler EXCEPT ![u][s].phase = "serving"] /\ handler[u][s].phase = "welcomed"
          BY <4>1 DEF TurnStep
        <5>2. w # u \/ s # sock[w] => handler'[w][sock[w]] = handler[w][sock[w]]
          BY <1>0, <2>0, <5>1 DEF HandlerType
        <5> QED
          BY <5>1, <5>2
      <4>2. CASE handler' = handler
        BY <4>2
      <4> QED
        BY <2>3, <4>1, <4>2 DEF RelayStep, RekeyStep, PttStep
    <3>4. \E members, m, to : Sends(members, m, to) /\ m \in ServerMsgs /\ ~ Leaves(m, v)
      <4>1. CASE TurnStep(u, s)
        BY <4>1, ServerFacts DEF TurnStep, Leaves
      <4>2. CASE RelayStep(u, s)
        <5> DEFINE m == Head(wire[u][s])
                   d == [type |-> m.type, user |-> u, pc |-> m.pc]
        <5>1. m \in LinkMsgs /\ Sends({m.to} \cap Listed, d, room)
          BY <4>2 DEF RelayStep
        <5>2. m.type \in {"offer", "answer"} /\ m.pc \in Nat \ {0}
          BY <5>1, ClientFacts
        <5> HIDE DEF m
        <5>3. d \in ServerMsgs
          BY <5>2, ServerFacts
        <5>4. ~ Leaves(d, v)
          BY <5>2 DEF Leaves
        <5> QED
          BY <5>1, <5>3, <5>4
      <4>3. CASE RekeyStep(u, s)
        BY <4>3, ServerFacts DEF RekeyStep, Leaves, RekeyMsg
      <4>4. CASE PttStep(u, s)
        <5> DEFINE a == Head(wire[u][s]).active
                   d == [type |-> "ptt", user |-> u, active |-> a]
        <5>1. a \in BOOLEAN /\ Sends(Listed \ {u}, d, room)
          BY <4>4, ClientFacts DEF PttStep, Reads
        <5> HIDE DEF a
        <5>2. d \in ServerMsgs /\ ~ Leaves(d, v)
          BY <5>1, ServerFacts DEF Leaves
        <5> QED
          BY <5>1, <5>2
      <4> QED
        BY <2>3, <4>1, <4>2, <4>3, <4>4
    <3> QED
      BY <2>0, <2>a, <3>2, <3>3, <3>4 DEF Hears
  <2>4. CASE CleanupStep(u, s)
    <3>1. handler[w][sock[w]].phase = "joined" => handler'[w][sock[w]] = handler[w][sock[w]]
      <4>1. handler' = [handler EXCEPT ![u][s] = Closed] /\ handler[u][s].phase \in {"open", "serving"}
        BY <2>4 DEF CleanupStep
      <4>2. w # u \/ s # sock[w] => handler'[w][sock[w]] = handler[w][sock[w]]
        BY <1>0, <2>0, <4>1 DEF HandlerType
      <4> QED
        BY <4>1, <4>2
    <3>2. CASE UNCHANGED <<room, inbox, broken>>
      <4>1. Hears(w, v)
        BY <1>2, <2>0, <3>2 DEF HearsayInv, IsPresent
      <4> QED
        BY <2>0, <3>1, <3>2, <4>1 DEF Hears
    <3>3. CASE /\ room' = [room EXCEPT ![u] = 0]
               /\ Sends(Listed \ {u}, [type |-> "left", user |-> u], room)
      <4> DEFINE m == [type |-> "left", user |-> u]
      <4>1. w # u /\ v # u /\ room'[w] = room[w] /\ room'[v] = room[v]
        <5>1. sock[w] # 0 /\ room'[w] = sock[w]
          BY <1>2, <2>0, UpFacts DEF IsPresent
        <5> QED
          BY <1>0, <1>2, <3>3, <5>1
      <4>2. m \in ServerMsgs /\ ~ Leaves(m, v)
        BY <4>1, ServerFacts DEF Leaves
      <4>3. Hears(w, v)
        BY <1>2, <2>0, <4>1 DEF HearsayInv, IsPresent
      <4>4. Sends(Listed \ {u}, m, room)
        BY <3>3
      <4> HIDE DEF m
      <4> QED
        BY <2>0, <2>a, <3>1, <4>2, <4>3, <4>4 DEF Hears
    <3> QED
      BY <2>4, <3>2, <3>3 DEF CleanupStep
  <2> QED
    BY <1>5, <2>1, <2>2, <2>3, <2>4 DEF HandlerStep
<1> QED
  BY <1>2, <1>3, <1>4, <1>5, StepFacts

-----------------------------------------------------------------------------
(* After a rekey in the quiet: what is under way.                          *)

Rekey == {RekeyMsg}

\* r has of S what q has.
Like(q, r, S) == /\ None(q, S) => None(r, S)
                 /\ \A m \in S : One(q, S, m) => One(r, S, m)

LEMMA LikeFacts ==
    ASSUME NEW M, NEW q \in Seq(M), NEW S
    PROVE  /\ Like(q, q, S)
           /\ \A m \in M : m \notin S => Like(q, Append(q, m), S)
           /\ q # <<>> /\ Head(q) \notin S => Like(q, Tail(q), S)
           /\ \A r \in Seq(M) : None(r, S) => Like(q, q \o r, S)
<1>1. Like(q, q, S)
  BY DEF Like
<1>2. ASSUME NEW m \in M, m \notin S PROVE Like(q, Append(q, m), S)
  BY <1>2, NoneAppended, OneAppended DEF Like
<1>3. ASSUME q # <<>>, Head(q) \notin S PROVE Like(q, Tail(q), S)
  <2>1. None(q, S) => None(Tail(q), S)
    BY <1>3, NoneShifted
  <2>2. ASSUME NEW m \in S, One(q, S, m) PROVE One(Tail(q), S, m)
    BY <1>3, <2>2, OneShifted
  <2> QED
    BY <2>1, <2>2 DEF Like
<1>4. ASSUME NEW r \in Seq(M), None(r, S) PROVE Like(q, q \o r, S)
  BY <1>4, NoneJoined, OneJoined DEF Like
<1> QED
  BY <1>1, <1>2, <1>3, <1>4

LEMMA EmptyFacts ==
    ASSUME NEW S
    PROVE  None(<<>>, S)
BY DEF None

\* Which messages are of which kind.
LEMMA KindFacts ==
    ASSUME NEW u \in Users
    PROVE  /\ \A m \in LinkMsgs : m \notin Rekey /\ (m \in To(u) <=> m.to = u)
           /\ \A b \in BOOLEAN : PttMsg(b) \notin Rekey /\ PttMsg(b) \notin To(u)
           /\ RekeyMsg \notin To(u) /\ RekeyMsg \notin From(u)
           /\ \A m \in To(u) : m.type \in {"offer", "answer"}
           /\ \A m \in ServerMsgs : /\ m.type # "rekey" => m \notin Rekey
                                    /\ m \in From(u) <=> m.type \in {"offer", "answer"} /\ m.user = u
                                    /\ m.type \notin {"roster", "joined", "left"} => m \notin News
           /\ \A m \in ClientMsgs : m.type # "rekey" => m \notin Rekey
           /\ \A t \in {"offer", "answer"}, p \in Nat \ {0} :
                 /\ [type |-> t, pc |-> p, to |-> u] \in To(u)
                 /\ [type |-> t, user |-> u, pc |-> p] \in From(u)
<1>1. \A m \in LinkMsgs : m \notin Rekey /\ (m \in To(u) <=> m.to = u)
  BY DEF LinkMsgs, Rekey, RekeyMsg, To
<1>2. /\ \A b \in BOOLEAN : PttMsg(b) \notin Rekey /\ PttMsg(b) \notin To(u)
      /\ RekeyMsg \notin To(u) /\ RekeyMsg \notin From(u)
      /\ \A m \in To(u) : m.type \in {"offer", "answer"}
  BY DEF PttMsg, Rekey, RekeyMsg, To, From
<1>3. \A m : m.type # "rekey" => m \notin Rekey
  BY DEF Rekey, RekeyMsg
<1>4. \A m \in ServerMsgs : m \in From(u) <=> m.type \in {"offer", "answer"} /\ m.user = u
  <2>1. ASSUME NEW m \in ServerMsgs, m.type \in {"offer", "answer"}, m.user = u PROVE m \in From(u)
    <3>1. m.pc \in Nat \ {0} /\ m = [type |-> m.type, user |-> m.user, pc |-> m.pc]
      BY <2>1, ServerFacts
    <3> QED
      BY <2>1, <3>1 DEF From
  <2> QED
    BY <2>1 DEF From
<1>5. \A m \in ServerMsgs : m.type \notin {"roster", "joined", "left"} => m \notin News
  BY DEF News
<1>6. \A t \in {"offer", "answer"}, p \in Nat \ {0} : /\ [type |-> t, pc |-> p, to |-> u] \in To(u)
                                                      /\ [type |-> t, user |-> u, pc |-> p] \in From(u)
  BY DEF To, From
<1> QED
  BY <1>1, <1>2, <1>3, <1>4, <1>5, <1>6

\* What is under way from u to v is so after a step that is not about it.
Under(u, v) ==
    /\ NoneUnderWay(u, v) => NoneUnderWay(u, v)'
    /\ \A t \in {"offer", "answer"}, p \in Nat \ {0} : OneUnderWay(u, v, t, p) => OneUnderWay(u, v, t, p)'

LEMMA UnderFacts ==
    ASSUME NEW u \in Users, NEW v \in Users,
           Like(uplink[u], uplink'[u], To(v)),
           Like(wire[u][sock[u]], wire'[u][sock'[u]], To(v)),
           Like(inbox[v], inbox'[v], From(u))
    PROVE  Under(u, v)
<1>1. NoneUnderWay(u, v) => NoneUnderWay(u, v)'
  BY DEF NoneUnderWay, Like
<1>2. ASSUME NEW t \in {"offer", "answer"}, NEW p \in Nat \ {0}, OneUnderWay(u, v, t, p)
      PROVE  OneUnderWay(u, v, t, p)'
  <2> DEFINE c == [type |-> t, pc |-> p, to |-> v]
             d == [type |-> t, pc |-> p, user |-> u]
  <2>1. c \in To(v) /\ d \in From(u)
    BY DEF To, From
  <2> HIDE DEF c, d
  <2>2. \/ One(uplink[u], To(v), c) /\ None(wire[u][sock[u]], To(v)) /\ None(inbox[v], From(u))
        \/ None(uplink[u], To(v)) /\ One(wire[u][sock[u]], To(v), c) /\ None(inbox[v], From(u))
        \/ None(uplink[u], To(v)) /\ None(wire[u][sock[u]], To(v)) /\ One(inbox[v], From(u), d)
    BY <1>2 DEF OneUnderWay, c, d
  <2>3. \/ One(uplink'[u], To(v), c) /\ None(wire'[u][sock'[u]], To(v)) /\ None(inbox'[v], From(u))
        \/ None(uplink'[u], To(v)) /\ One(wire'[u][sock'[u]], To(v), c) /\ None(inbox'[v], From(u))
        \/ None(uplink'[u], To(v)) /\ None(wire'[u][sock'[u]], To(v)) /\ One(inbox'[v], From(u), d)
    BY <2>1, <2>2 DEF Like
  <2> QED
    BY <2>3 DEF OneUnderWay, c, d
<1> QED
  BY <1>1, <1>2 DEF Under

\* The command is due to whom it was, and done with where it was.
Due(u) == /\ CommandDue(u) => CommandDue(u)'
          /\ CommandPassed(u) => CommandPassed(u)'

\* A step that keeps the command, if need be for others than those who lose
\* their inbox.
LEMMA CommandFacts ==
    ASSUME sock' = sock,
           \A w \in Users, s \in Sockets : None(wire[w][s], Rekey) => None(wire'[w][s], Rekey),
           \A w \in Users : Like(inbox[w], inbox'[w], Rekey) \/ None(inbox'[w], Rekey),
           \A c \in Users : Carries(c) /\ handler[c][sock[c]].phase = "serving" =>
               /\ Carries(c)' /\ handler'[c][sock[c]].phase = "serving"
               /\ Like(wire[c][sock[c]], wire'[c][sock[c]], Rekey)
    PROVE  /\ CommandWaits => CommandWaits'
           /\ CommandServed => CommandServed'
           /\ \A u \in Users : Like(inbox[u], inbox'[u], Rekey) => Due(u)
<1>0. RekeyMsg \in Rekey
  BY DEF Rekey
<1>1. ASSUME CommandWaits PROVE CommandWaits'
  <2>1. PICK c \in Users : /\ Carries(c) /\ handler[c][sock[c]].phase = "serving"
                           /\ One(wire[c][sock[c]], Rekey, RekeyMsg)
                           /\ \A w \in Users, s \in Sockets : w # c \/ s # sock[c] => None(wire[w][s], Rekey)
                           /\ \A w \in Users : None(inbox[w], Rekey)
    BY <1>1 DEF CommandWaits, Rekey
  <2>2. /\ Carries(c)' /\ handler'[c][sock[c]].phase = "serving"
        /\ One(wire'[c][sock[c]], Rekey, RekeyMsg)
    BY <1>0, <2>1 DEF Like
  <2>3. \A w \in Users, s \in Sockets : w # c \/ s # sock[c] => None(wire'[w][s], Rekey)
    BY <2>1
  <2>4. \A w \in Users : None(inbox'[w], Rekey)
    BY <2>1 DEF Like
  <2> QED
    BY <2>2, <2>3, <2>4 DEF CommandWaits, Rekey
<1>2. ASSUME CommandServed PROVE CommandServed'
  <2>1. \A w \in Users : /\ \A s \in Sockets : None(wire[w][s], Rekey)
                         /\ None(inbox[w], Rekey) \/ One(inbox[w], Rekey, RekeyMsg)
    BY <1>2 DEF CommandServed, Rekey
  <2>2. \A w \in Users : /\ \A s \in Sockets : None(wire'[w][s], Rekey)
                         /\ None(inbox'[w], Rekey) \/ One(inbox'[w], Rekey, RekeyMsg)
    BY <1>0, <2>1 DEF Like
  <2> QED
    BY <2>2 DEF CommandServed, Rekey
<1>3. ASSUME NEW u \in Users, Like(inbox[u], inbox'[u], Rekey) PROVE Due(u)
  <2>1. /\ None(inbox[u], Rekey) => None(inbox'[u], Rekey)
        /\ One(inbox[u], Rekey, RekeyMsg) => One(inbox'[u], Rekey, RekeyMsg)
    BY <1>0, <1>3 DEF Like
  <2> QED
    BY <1>1, <1>2, <2>1 DEF Due, CommandDue, CommandPassed, Rekey
<1> QED
  BY <1>1, <1>2, <1>3

\* A link stays in its state in a step that is not about it.
LEMMA LinkFacts ==
    ASSUME BaseInv, NEW u \in Users, NEW v \in Users, Due(u), Under(u, v), Under(v, u),
           peers[u][v] # Absent, peers[v][u] # Absent,
           peers'[u][v] = peers[u][v], peers'[v][u] = peers[v][u], LinkState(u, v)
    PROVE  LinkState(u, v)'
<1>0. peers[u][v].pc \in Nat \ {0} /\ peers[v][u].pc \in Nat \ {0}
  BY TypeFacts, EndFacts DEF BaseInv
<1>1. Untouched(u, v) => Untouched(u, v)'
  BY DEF Untouched, Due, Under
<1>2. Offered(u, v) => Offered(u, v)'
  BY <1>0 DEF Offered, Due, Under
<1>3. Answered(u, v) => Answered(u, v)'
  BY <1>0 DEF Answered, Due, Under
<1>4. Done(u, v) => Done(u, v)'
  BY DEF Done, Due, Under, Linked
<1> QED
  BY <1>1, <1>2, <1>3, <1>4 DEF LinkState

\* Nobody is welcomed for a rekey, nor anybody listed anew.
LEMMA CalmHandlerFacts ==
    ASSUME BaseInv, SocketInv, NoWelcome, NEW u \in Users, NEW s \in Sockets, HandlerStep(u, s)
    PROVE  /\ handler[u][s].phase = "serving"
           /\ \/ s = sock[u] /\ (RelayStep(u, s) \/ RekeyStep(u, s) \/ PttStep(u, s))
              \/ /\ CleanupStep(u, s) /\ room' = [room EXCEPT ![u] = 0]
                 /\ Sends(Listed \ {u}, [type |-> "left", user |-> u], room)
<1>1. /\ handler[u][s].phase \in {"closed", "serving"}
      /\ s # sock[u] => wire[u][s] = <<>>
  <2>1. \A t \in Sockets : /\ handler[u][t].phase \in {"closed", "serving"}
                           /\ t # sock[u] => wire[u][t] = <<>>
    BY DEF NoWelcome
  <2> QED
    BY <2>1
<1>2. ~ (JoinStep(u, s) \/ RosterStep(u, s) \/ TurnStep(u, s))
  BY <1>1 DEF JoinStep, RosterStep, TurnStep
<1>3. CASE RelayStep(u, s) \/ RekeyStep(u, s) \/ PttStep(u, s)
  BY <1>1, <1>3 DEF RelayStep, RekeyStep, PttStep, Reads
<1>4. CASE CleanupStep(u, s)
  <2>1. handler[u][s].phase = "serving"
    BY <1>1, <1>4 DEF CleanupStep
  <2> QED
    BY <1>4, <2>1 DEF CleanupStep
<1> QED
  BY <1>2, <1>3, <1>4 DEF HandlerStep

\* What a step writes, reads or sends leaves other sequences as they are.
LEMMA WritesLike ==
    ASSUME BaseInv, NEW u \in Users, NEW m \in ClientMsgs, Writes(u, m), NEW S, m \notin S
    PROVE  \A w \in Users, t \in Sockets : Like(wire[w][t], wire'[w][t], S)
<1>1. SUFFICES ASSUME NEW w \in Users, NEW t \in Sockets PROVE Like(wire[w][t], wire'[w][t], S)
  OBVIOUS
<1>2. wire[w][t] \in Seq(ClientMsgs)
  BY TypeFacts DEF BaseInv
<1>3. wire'[w][t] = wire[w][t] \/ wire'[w][t] = Append(wire[w][t], m)
  BY DEF Writes
<1> QED
  BY <1>2, <1>3, LikeFacts

LEMMA ReadsLike ==
    ASSUME BaseInv, NEW u \in Users, NEW s \in Sockets, NEW types, Reads(u, s, types),
           NEW S, Head(wire[u][s]) \notin S
    PROVE  \A w \in Users, t \in Sockets : Like(wire[w][t], wire'[w][t], S)
<1>1. SUFFICES ASSUME NEW w \in Users, NEW t \in Sockets PROVE Like(wire[w][t], wire'[w][t], S)
  OBVIOUS
<1>2. wire[w][t] \in Seq(ClientMsgs) /\ wire[u][s] # <<>>
  BY TypeFacts DEF BaseInv, Reads
<1>3. wire'[w][t] = wire[w][t] \/ (w = u /\ t = s /\ wire'[w][t] = Tail(wire[w][t]))
  BY DEF Reads
<1>4. Like(wire[w][t], wire[w][t], S)
  BY <1>2, LikeFacts
<1>5. CASE w = u /\ t = s /\ wire'[w][t] = Tail(wire[w][t])
  BY <1>2, <1>5, LikeFacts
<1> QED
  BY <1>3, <1>4, <1>5

LEMMA SendsLike ==
    ASSUME BaseInv, NEW members, NEW m \in ServerMsgs, NEW to, Sends(members, m, to), NEW S, m \notin S
    PROVE  \A w \in Users : Like(inbox[w], inbox'[w], S)
<1>1. SUFFICES ASSUME NEW w \in Users PROVE Like(inbox[w], inbox'[w], S)
  OBVIOUS
<1>2. inbox[w] \in Seq(ServerMsgs)
  BY TypeFacts DEF BaseInv
<1>3. inbox'[w] = inbox[w] \/ inbox'[w] = Append(inbox[w], m)
  BY DEF Sends
<1> QED
  BY <1>2, <1>3, LikeFacts

\* The mesh's messages on their way: to the socket, ...
LEMMA ForwardUnder ==
    ASSUME BaseInv, NEW u \in Users, uplink[u] # <<>>, Head(uplink[u]) \in LinkMsgs,
           uplink' = [uplink EXCEPT ![u] = Tail(uplink[u])], Writes(u, Head(uplink[u])),
           inbox' = inbox, sock' = sock,
           NEW x \in Users, NEW y \in Users, Carries(x)
    PROVE  Under(x, y)
<1> DEFINE m == Head(uplink[u])
           S == To(y)
<1>0. /\ uplink \in [Users -> Seq(ClientMsgs)] /\ uplink[x] \in Seq(LinkMsgs)
      /\ sock[x] \in Sockets /\ wire[x][sock[x]] \in Seq(ClientMsgs) /\ inbox[y] \in Seq(ServerMsgs)
      /\ m \in LinkMsgs /\ m \in ClientMsgs
  <2>1. sock[x] \in Sockets
    BY UpFacts
  <2>2. uplink \in [Users -> Seq(ClientMsgs)] /\ uplink[x] \in Seq(LinkMsgs)
    BY DEF BaseInv, TypeOK, UplinkInv
  <2>3. wire[x][sock[x]] \in Seq(ClientMsgs) /\ inbox[y] \in Seq(ServerMsgs)
    BY <2>1, TypeFacts DEF BaseInv
  <2> QED
    BY <2>1, <2>2, <2>3, ClientFacts
<1>1. Like(inbox[y], inbox'[y], From(x))
  BY <1>0, LikeFacts
<1>2. uplink'[x] = IF x = u THEN Tail(uplink[u]) ELSE uplink[x]
  BY <1>0
<1>3. wire'[x][sock'[x]] = IF x = u THEN Append(wire[x][sock[x]], m) ELSE wire[x][sock[x]]
  BY <1>0 DEF Writes
<1> HIDE DEF m, S
<1>4. CASE x # u
  BY <1>0, <1>1, <1>2, <1>3, <1>4, LikeFacts, UnderFacts
<1>5. CASE x = u /\ m \notin S
  <2>1. Like(uplink[x], uplink'[x], S)
    BY <1>0, <1>2, <1>5, LikeFacts DEF m
  <2>2. Like(wire[x][sock[x]], wire'[x][sock'[x]], S)
    BY <1>0, <1>3, <1>5, LikeFacts
  <2> QED
    BY <1>1, <2>1, <2>2, UnderFacts DEF S
<1>6. CASE x = u /\ m \in S
  <2>1. ~ None(uplink[x], S)
    BY <1>0, <1>6, NoneShifted DEF m
  <2>2. ASSUME NEW t \in {"offer", "answer"}, NEW p \in Nat \ {0}, OneUnderWay(x, y, t, p)
        PROVE  OneUnderWay(x, y, t, p)'
    <3> DEFINE c == [type |-> t, pc |-> p, to |-> y]
    <3>1. /\ One(uplink[x], S, c) /\ None(wire[x][sock[x]], S) /\ None(inbox[y], From(x))
      BY <2>1, <2>2 DEF OneUnderWay, S
    <3> HIDE DEF c
    <3>2. m = c /\ None(uplink'[x], S)
      BY <1>0, <1>2, <1>6, <3>1, OneShifted DEF m
    <3>3. One(wire'[x][sock'[x]], S, c)
      BY <1>0, <1>3, <1>6, <3>1, <3>2, OneAppended
    <3>4. None(uplink'[x], To(y)) /\ One(wire'[x][sock'[x]], To(y), c) /\ None(inbox'[y], From(x))
      BY <3>1, <3>2, <3>3 DEF S
    <3> QED
      BY <3>4 DEF OneUnderWay, c
  <2>3. ~ NoneUnderWay(x, y)
    BY <2>1 DEF NoneUnderWay, S
  <2> QED
    BY <2>2, <2>3 DEF Under
<1> QED
  BY <1>4, <1>5, <1>6

\* ... through the server, ...
LEMMA RelayUnder ==
    ASSUME BaseInv, NEW u \in Users, RelayStep(u, sock[u]), sock[u] \in Sockets, uplink' = uplink, sock' = sock,
           NEW x \in Users, NEW y \in Users, Carries(x), IsPresent(y), x # y
    PROVE  Under(x, y)
<1> DEFINE m == Head(wire[u][sock[u]])
           d == [type |-> m.type, user |-> u, pc |-> m.pc]
           S == To(y)
<1>0. /\ uplink[x] \in Seq(LinkMsgs) /\ sock[x] \in Sockets
      /\ wire[x][sock[x]] \in Seq(ClientMsgs) /\ inbox[y] \in Seq(ServerMsgs)
  <2>1. sock[x] \in Sockets
    BY UpFacts
  <2>2. uplink[x] \in Seq(LinkMsgs)
    BY DEF BaseInv, UplinkInv
  <2> QED
    BY <2>1, <2>2, TypeFacts DEF BaseInv
<1>1. /\ m \in LinkMsgs /\ Sends({m.to} \cap Listed, d, room) /\ Reads(u, sock[u], {"offer", "answer"})
  BY DEF RelayStep
<1>2. m.type \in {"offer", "answer"} /\ m.pc \in Nat \ {0}
  BY <1>1, ClientFacts
<1>3. /\ d.type \in {"offer", "answer"} /\ d.user = u
  BY <1>2
<1>4. /\ d \in ServerMsgs /\ (d \in From(x) <=> u = x)
  <2>1. d \in ServerMsgs
    <3> HIDE DEF m
    <3> QED
      BY <1>2, ServerFacts
  <2> HIDE DEF d
  <2> QED
    BY <1>3, <2>1, KindFacts
<1>5. inbox'[y] = IF m.to = y THEN Append(inbox[y], d) ELSE inbox[y]
  <2>1. Carries(y) /\ room[y] = sock[y] /\ room[y] # 0
    BY UpFacts DEF IsPresent
  <2> HIDE DEF d, m
  <2> QED
    BY <1>1, <2>1 DEF Sends, Listed
<1>6. m \in S <=> m.to = y
  BY <1>1, KindFacts
<1>7. wire[u][sock[u]] # <<>> /\ wire'[x][sock'[x]] = IF x = u THEN Tail(wire[x][sock[x]]) ELSE wire[x][sock[x]]
  BY <1>0, <1>1 DEF Reads
<1>8. Like(uplink[x], uplink'[x], S)
  BY <1>0, LikeFacts
<1>9. x = u => m = Head(wire[x][sock[x]])
  OBVIOUS
<1>10. d = [type |-> m.type, user |-> u, pc |-> m.pc]
  OBVIOUS
<1> HIDE DEF m, d, S
<1>11. CASE x = u /\ m \in S
  <2>1. ~ None(wire[x][sock[x]], S)
    BY <1>0, <1>7, <1>9, <1>11, NoneShifted
  <2>2. ASSUME NEW t \in {"offer", "answer"}, NEW p \in Nat \ {0}, OneUnderWay(x, y, t, p)
        PROVE  OneUnderWay(x, y, t, p)'
    <3> DEFINE c == [type |-> t, pc |-> p, to |-> y]
               e == [type |-> t, pc |-> p, user |-> x]
    <3>1. /\ None(uplink[x], S) /\ One(wire[x][sock[x]], S, c) /\ None(inbox[y], From(x))
      BY <2>1, <2>2 DEF OneUnderWay, S
    <3>2. c.type = t /\ c.pc = p /\ e = [type |-> t, user |-> x, pc |-> p]
      OBVIOUS
    <3> HIDE DEF c, e
    <3>3. m = c /\ None(wire'[x][sock'[x]], S)
      BY <1>0, <1>7, <1>9, <1>11, <3>1, OneShifted
    <3>4. d = e
      BY <1>10, <1>11, <3>2, <3>3
    <3>5. One(inbox'[y], From(x), e)
      <4>1. inbox'[y] = Append(inbox[y], d)
        BY <1>5, <1>6, <1>11
      <4> QED
        BY <1>0, <1>4, <1>11, <3>1, <3>4, <4>1, OneAppended
    <3>6. None(uplink'[x], To(y)) /\ None(wire'[x][sock'[x]], To(y)) /\ One(inbox'[y], From(x), e)
      BY <3>1, <3>3, <3>5 DEF S
    <3> QED
      BY <3>6 DEF OneUnderWay, e
  <2>3. ~ NoneUnderWay(x, y)
    BY <2>1 DEF NoneUnderWay, S
  <2> QED
    BY <2>2, <2>3 DEF Under
<1>12. CASE ~ (x = u /\ m \in S)
  <2>1. Like(wire[x][sock[x]], wire'[x][sock'[x]], S)
    BY <1>0, <1>7, <1>9, <1>12, LikeFacts
  <2>2. Like(inbox[y], inbox'[y], From(x))
    <3>1. CASE inbox'[y] = inbox[y]
      BY <1>0, <3>1, LikeFacts
    <3>2. CASE x # u
      BY <1>0, <1>4, <1>5, <3>2, LikeFacts
    <3> QED
      BY <1>5, <1>6, <1>12, <3>1, <3>2
  <2> QED
    BY <1>8, <2>1, <2>2, UnderFacts DEF S
<1> QED
  BY <1>11, <1>12

\* ... and to the engine that handles it.
LEMMA GetUnder ==
    ASSUME BaseInv, NEW u \in Users, Handling(u), NEW q \in Seq(LinkMsgs), Queues(u, q),
           NEW x \in Users, NEW y \in Users, x # y, Carries(x),
           x = u => None(q, To(y)), y = u => Got(u) \notin From(x)
    PROVE  Under(x, y)
<1>0. /\ uplink \in [Users -> Seq(ClientMsgs)] /\ uplink[x] \in Seq(LinkMsgs)
      /\ sock[x] \in Sockets /\ wire[x][sock[x]] \in Seq(ClientMsgs)
      /\ inbox \in [Users -> Seq(ServerMsgs)] /\ inbox[y] \in Seq(ServerMsgs)
  <2>1. sock[x] \in Sockets
    BY UpFacts
  <2>2. uplink \in [Users -> Seq(ClientMsgs)] /\ uplink[x] \in Seq(LinkMsgs) /\ inbox \in [Users -> Seq(ServerMsgs)]
    BY DEF BaseInv, TypeOK, UplinkInv
  <2> QED
    BY <2>1, <2>2, TypeFacts DEF BaseInv
<1>1. /\ inbox[u] # <<>> /\ wire' = wire /\ sock' = sock
      /\ inbox' = [inbox EXCEPT ![u] = Tail(inbox[u])]
      /\ uplink' = [uplink EXCEPT ![u] = uplink[u] \o q]
  BY DEF Handling, Queues
<1>2. uplink'[x] = IF x = u THEN uplink[x] \o q ELSE uplink[x]
  BY <1>0, <1>1
<1>3. inbox'[y] = IF y = u THEN Tail(inbox[y]) ELSE inbox[y]
  BY <1>0, <1>1
<1>4. Like(uplink[x], uplink'[x], To(y))
  BY <1>0, <1>2, LikeFacts
<1>5. Like(wire[x][sock[x]], wire'[x][sock'[x]], To(y))
  BY <1>0, <1>1, LikeFacts
<1>6. Like(inbox[y], inbox'[y], From(x))
  BY <1>0, <1>1, <1>3, LikeFacts DEF Got
<1> QED
  BY <1>4, <1>5, <1>6, UnderFacts

-----------------------------------------------------------------------------
(* After a rekey in the quiet: the steps.                                  *)

\* When the command is given, nothing is under way and everybody knows everybody.
LEMMA CalmBegins ==
    ASSUME BaseInv, SocketInv, HearsayInv, Quiet, NEW u \in Users, IsPresent(u), Writes(u, RekeyMsg),
           UNCHANGED <<engine, sock, peers, uplink, inbox, broken, handler, room>>
    PROVE  NoWelcome' /\ CommandWaits' /\ Pairs'
<1>0. \A w \in Users : /\ inbox[w] = <<>> /\ uplink[w] = <<>>
                       /\ \A s \in Sockets : handler[w][s].phase \in {"closed", "serving"} /\ wire[w][s] = <<>>
  BY DEF Quiet, IsIdle
<1>1. Carries(u) /\ sock[u] \in Sockets /\ sock[u] # 0
  BY UpFacts DEF IsPresent
<1>2. /\ handler[u][sock[u]].phase = "serving"
  <2>1. handler[u][sock[u]].phase = "closed" => sock[u] > sock[u] \/ <<u, sock[u]>> \in broken
    BY <1>1 DEF SocketInv
  <2>2. ~ (sock[u] > sock[u])
    BY TypeFacts DEF BaseInv
  <2> QED
    BY <1>0, <1>1, <2>1, <2>2 DEF Carries
<1>3. \A w \in Users, s \in Sockets : wire'[w][s] = IF w = u /\ s = sock[u] THEN Append(<<>>, RekeyMsg) ELSE <<>>
  <2>1. ASSUME NEW w \in Users, NEW s \in Sockets
        PROVE  wire'[w][s] = IF w = u /\ s = sock[u] THEN Append(<<>>, RekeyMsg) ELSE <<>>
    <3>1. wire[w][s] = <<>>
      BY <1>0
    <3>2. wire'[w][s] = IF w = u /\ s = sock[u] THEN Append(wire[w][s], RekeyMsg) ELSE wire[w][s]
      BY <1>1 DEF Writes
    <3> QED
      BY <3>1, <3>2
  <2> QED
    BY <2>1
<1>4. \A S : None(<<>>, S)
  BY EmptyFacts
<1>5. /\ One(Append(<<>>, RekeyMsg), Rekey, RekeyMsg)
      /\ \A v \in Users : None(Append(<<>>, RekeyMsg), To(v))
  <2>1. <<>> \in Seq(ClientMsgs) /\ RekeyMsg \in ClientMsgs
    BY ClientFacts
  <2>2. RekeyMsg \in Rekey
    BY DEF Rekey
  <2>3. One(Append(<<>>, RekeyMsg), Rekey, RekeyMsg)
    BY <1>4, <2>1, <2>2, OneAppended
  <2>4. \A v \in Users : RekeyMsg \notin To(v)
    BY KindFacts
  <2> QED
    BY <1>4, <2>1, <2>3, <2>4, NoneAppended
<1>6. NoWelcome'
  BY <1>0, <1>3, <1>4 DEF NoWelcome
<1>7. CommandWaits'
  <2>1. Carries(u)' /\ handler'[u][sock'[u]].phase = "serving" /\ One(wire'[u][sock'[u]], Rekey, RekeyMsg)
    BY <1>1, <1>2, <1>3, <1>5 DEF Carries
  <2>2. \A w \in Users, s \in Sockets : w # u \/ s # sock'[u] => None(wire'[w][s], Rekey)
    BY <1>3, <1>4
  <2>3. \A w \in Users : None(inbox'[w], Rekey)
    BY <1>0, <1>4
  <2> QED
    BY <2>1, <2>2, <2>3 DEF CommandWaits, Rekey
<1>8. ASSUME NEW x \in Users, NEW y \in Users, Carries(x) PROVE NoneUnderWay(x, y)'
  <2>1. sock[x] \in Sockets
    BY <1>8, UpFacts
  <2>2. None(wire'[x][sock'[x]], To(y))
    BY <1>3, <1>4, <1>5, <2>1
  <2>3. None(uplink'[x], To(y)) /\ None(inbox'[y], From(x))
    BY <1>0, <1>4
  <2> QED
    BY <2>2, <2>3 DEF NoneUnderWay
<1>9. ASSUME NEW x \in Users, NEW y \in Users, IsPresent(x)', IsPresent(y)'
      PROVE  (x # y => peers'[x][y] # Absent) /\ (x < y => LinkState(x, y)')
  <2>1. IsPresent(x) /\ IsPresent(y)
    BY <1>9 DEF IsPresent, Carries
  <2>2. x # y => peers'[x][y] # Absent
    <3>1. room[y] # 0 /\ sock[x] \in Sockets
      BY <2>1, UpFacts DEF IsPresent
    <3>2. ~ Told(inbox[x], y) /\ handler[x][sock[x]].phase # "joined"
      BY <1>0, <3>1 DEF Told
    <3> QED
      BY <2>1, <3>1, <3>2 DEF HearsayInv, Hears
  <2>3. LinkState(x, y)'
    BY <1>7, <1>8, <2>1 DEF LinkState, Untouched, CommandDue, IsPresent
  <2> QED
    BY <2>2, <2>3
<1>10. Pairs'
  BY <1>9 DEF Pairs
<1> QED
  BY <1>6, <1>7, <1>10

\* All that a step not about them leaves the links of those present in.
LEMMA PairsFacts ==
    ASSUME BaseInv, Pairs,
           \A x \in Users : IsPresent(x)' => IsPresent(x) /\ Due(x),
           \A x, y \in Users : IsPresent(x)' /\ IsPresent(y)' /\ x # y =>
               Under(x, y) /\ peers'[x][y] = peers[x][y]
    PROVE  Pairs'
<1>1. ASSUME NEW x \in Users, NEW y \in Users, IsPresent(x)', IsPresent(y)'
      PROVE  (x # y => peers'[x][y] # Absent) /\ (x < y => LinkState(x, y)')
  <2>1. x < y => x # y
    <3>1. x \in Nat /\ y \in Nat
      BY SquadAssumption
    <3> QED
      BY <3>1
  <2>2. IsPresent(x) /\ IsPresent(y) /\ Due(x)
    BY <1>1
  <2>3. x # y => /\ peers[x][y] # Absent /\ peers[y][x] # Absent /\ Under(x, y) /\ Under(y, x)
                 /\ peers'[x][y] = peers[x][y] /\ peers'[y][x] = peers[y][x]
    BY <1>1, <2>2 DEF Pairs
  <2>4. x < y => LinkState(x, y)
    BY <2>2 DEF Pairs
  <2>5. x < y => LinkState(x, y)'
    BY <2>1, <2>2, <2>3, <2>4, LinkFacts
  <2> QED
    BY <2>3, <2>5
<1> QED
  BY <1>1 DEF Pairs

CalmState == NoWelcome /\ (CommandWaits \/ CommandServed) /\ Pairs

\* A socket is found broken, and its inbox is lost.
LEMMA CalmLost ==
    ASSUME BaseInv, CalmState, NEW u \in Users, engine[u] = "up", <<u, sock[u]>> \in broken,
           engine' = [engine EXCEPT ![u] = "down"], inbox' = [inbox EXCEPT ![u] = <<>>],
           UNCHANGED <<sock, peers, uplink, wire, broken, handler, room>>
    PROVE  CalmState'
<1>0. /\ engine \in [Users -> {"off", "up", "down", "gone"}] /\ inbox \in [Users -> Seq(ServerMsgs)]
      /\ \A w \in Users : uplink[w] \in Seq(LinkMsgs) /\ inbox[w] \in Seq(ServerMsgs)
      /\ \A w \in Users, s \in Sockets : wire[w][s] \in Seq(ClientMsgs)
  BY DEF BaseInv, TypeOK, UplinkInv
<1>1. \A w \in Users : /\ Carries(w)' <=> Carries(w)
                       /\ IsPresent(w)' <=> IsPresent(w)
                       /\ IsPresent(w) => w # u
                       /\ inbox'[w] = IF w = u THEN <<>> ELSE inbox[w]
  BY <1>0 DEF Carries, IsPresent
<1>2. \A S : None(<<>>, S)
  BY EmptyFacts
<1>3. NoWelcome'
  <2>1. News' = News
    BY DEF News
  <2> QED
    BY <1>1, <1>2, <2>1 DEF CalmState, NoWelcome
<1>4. /\ \A w \in Users, s \in Sockets : \A S : Like(wire[w][s], wire'[w][s], S)
      /\ \A w \in Users : \A S : /\ w # u => Like(inbox[w], inbox'[w], S)
                                 /\ Like(uplink[w], uplink'[w], S)
      /\ None(inbox'[u], Rekey)
  BY <1>0, <1>1, <1>2, LikeFacts
<1>5. /\ CommandWaits => CommandWaits'
      /\ CommandServed => CommandServed'
      /\ \A w \in Users : w # u => Due(w)
  <2>1. \A w \in Users, s \in Sockets : None(wire[w][s], Rekey) => None(wire'[w][s], Rekey)
    OBVIOUS
  <2>2. \A w \in Users : Like(inbox[w], inbox'[w], Rekey) \/ None(inbox'[w], Rekey)
    BY <1>4
  <2>3. \A c \in Users : Carries(c) => sock[c] \in Sockets
    BY UpFacts
  <2>4. \A c \in Users : Carries(c) /\ handler[c][sock[c]].phase = "serving" =>
            /\ Carries(c)' /\ handler'[c][sock[c]].phase = "serving"
            /\ Like(wire[c][sock[c]], wire'[c][sock[c]], Rekey)
    BY <1>1, <1>4, <2>3
  <2> QED
    BY <1>4, <2>1, <2>2, <2>4, CommandFacts
<1>6. ASSUME NEW x \in Users, NEW y \in Users, IsPresent(x)', IsPresent(y)'
      PROVE  Under(x, y) /\ peers'[x][y] = peers[x][y]
  <2>1. x # u /\ y # u /\ sock[x] \in Sockets
    BY <1>1, <1>6, UpFacts DEF IsPresent
  <2> QED
    BY <1>4, <2>1, UnderFacts
<1>7. Pairs'
  BY <1>1, <1>5, <1>6, PairsFacts DEF CalmState
<1> QED
  BY <1>3, <1>5, <1>7 DEF CalmState

\* The mesh's next message, or a change of transmit, is written.
LEMMA CalmWrites ==
    ASSUME BaseInv, CalmState, NEW u \in Users, NEW m \in ClientMsgs, Writes(u, m), m \notin Rekey,
           UNCHANGED <<engine, sock, peers, inbox, broken, handler, room>>,
           \A x, y \in Users : Carries(x) => Under(x, y)
    PROVE  CalmState'
<1>0. \A w \in Users : inbox[w] \in Seq(ServerMsgs)
  BY DEF BaseInv, TypeOK
<1>1. \A w \in Users : (Carries(w)' <=> Carries(w)) /\ (IsPresent(w)' <=> IsPresent(w))
  BY DEF Carries, IsPresent
<1>2. \A w \in Users, s \in Sockets : Like(wire[w][s], wire'[w][s], Rekey)
  BY WritesLike
<1>3. NoWelcome'
  <2>1. News' = News
    BY DEF News
  <2>2. \A w \in Users, s \in Sockets : s # sock[w] => wire'[w][s] = wire[w][s]
    BY DEF Writes
  <2> QED
    BY <2>1, <2>2 DEF CalmState, NoWelcome
<1>4. \A w \in Users : \A S : Like(inbox[w], inbox'[w], S)
  BY <1>0, LikeFacts
<1>5. /\ CommandWaits => CommandWaits'
      /\ CommandServed => CommandServed'
      /\ \A w \in Users : Due(w)
  <2>1. \A w \in Users, s \in Sockets : None(wire[w][s], Rekey) => None(wire'[w][s], Rekey)
    BY <1>2 DEF Like
  <2>3. \A c \in Users : Carries(c) => sock[c] \in Sockets
    BY UpFacts
  <2>4. \A c \in Users : Carries(c) /\ handler[c][sock[c]].phase = "serving" =>
            /\ Carries(c)' /\ handler'[c][sock[c]].phase = "serving"
            /\ Like(wire[c][sock[c]], wire'[c][sock[c]], Rekey)
    BY <1>1, <1>2, <2>3
  <2> QED
    BY <1>4, <2>1, <2>4, CommandFacts
<1>6. \A x, y \in Users : IsPresent(x)' => Under(x, y) /\ peers'[x][y] = peers[x][y]
  BY <1>1 DEF IsPresent
<1>7. Pairs'
  BY <1>1, <1>5, <1>6, PairsFacts DEF CalmState
<1> QED
  BY <1>3, <1>5, <1>7 DEF CalmState

\* A message is handled: the command by the smaller end of a link, the offer by
\* the larger one, the answer, or one that is none of these to the link.
LEMMA CalmGets ==
    ASSUME BaseInv, SidesInv, CalmState, NEW u \in Users, Gets(u)
    PROVE  CalmState'
<1> DEFINE g == Got(u)
<1>1. Handling(u) /\ \A v \in Users : Keeps(u, v)
  BY GetFacts DEF BaseInv
<1>2. PICK q \in Seq(LinkMsgs) : Queues(u, q)
  BY GetFacts DEF BaseInv
<1>0. /\ inbox \in [Users -> Seq(ServerMsgs)] /\ \A w \in Users : inbox[w] \in Seq(ServerMsgs)
      /\ \A w \in Users : uplink[w] \in Seq(LinkMsgs)
      /\ \A w \in Users, s \in Sockets : wire[w][s] \in Seq(ClientMsgs)
  BY DEF BaseInv, TypeOK, UplinkInv
<1>3. /\ engine' = engine /\ sock' = sock /\ wire' = wire /\ broken' = broken
      /\ handler' = handler /\ room' = room
      /\ inbox[u] # <<>> /\ g \in ServerMsgs /\ g = Head(inbox[u])
      /\ \A w \in Users : inbox'[w] = IF w = u THEN Tail(inbox[u]) ELSE inbox[w]
      /\ \A w \in Users \ {u} : uplink'[w] = uplink[w] /\ \A v \in Users : peers'[w][v] = peers[w][v]
      /\ uplink'[u] = uplink[u] \o q
  <2>1. uplink \in [Users -> Seq(ClientMsgs)]
    BY DEF BaseInv, TypeOK
  <2>2. uplink' = [uplink EXCEPT ![u] = uplink[u] \o q]
    BY <1>2 DEF Queues
  <2>3. uplink'[u] = uplink[u] \o q
    BY <2>1, <2>2
  <2> QED
    BY <1>0, <1>1, <2>3 DEF Handling, Got
<1>4. \A w \in Users : /\ Carries(w)' <=> Carries(w)
                       /\ IsPresent(w)' <=> IsPresent(w)
                       /\ IsPresent(w) => Carries(w) /\ sock[w] \in Sockets /\ room[w] # 0
  BY <1>3, UpFacts DEF Carries, IsPresent
<1>5. /\ g.type \notin {"roster", "joined"} /\ (g.type = "left" => room[g.user] = 0)
      /\ None(inbox'[u], News)
  <2>1. None(inbox[u], News)
    BY DEF CalmState, NoWelcome
  <2>2. g \notin News /\ None(inbox'[u], News)
    BY <1>0, <1>3, <2>1, NoneShifted
  <2> QED
    BY <1>3, <2>2 DEF News
<1>6. NoWelcome'
  <2>1. News' = News
    BY <1>3 DEF News
  <2>2. ASSUME NEW w \in Users
        PROVE  /\ None(inbox'[w], News)
               /\ \A s \in Sockets : /\ handler[w][s].phase \in {"closed", "serving"}
                                     /\ s # sock[w] => wire[w][s] = <<>>
    <3>1. /\ None(inbox[w], News)
          /\ \A s \in Sockets : /\ handler[w][s].phase \in {"closed", "serving"}
                                /\ s # sock[w] => wire[w][s] = <<>>
      BY DEF CalmState, NoWelcome
    <3> QED
      BY <1>3, <1>5, <3>1
  <2> QED
    BY <1>3, <2>1, <2>2 DEF NoWelcome
<1> HIDE DEF g
<1>7. /\ g \in Rekey => /\ CommandServed /\ One(inbox[u], Rekey, RekeyMsg) /\ None(inbox'[u], Rekey)
                        /\ ~ CommandPassed(u)
      /\ g \notin Rekey => Like(inbox[u], inbox'[u], Rekey)
  <2>1. RekeyMsg \in Rekey
    BY DEF Rekey
  <2>2. g \in Rekey => ~ None(inbox[u], Rekey)
    BY <1>0, <1>3, NoneShifted
  <2>3. g \in Rekey => CommandServed /\ One(inbox[u], Rekey, RekeyMsg) /\ ~ CommandPassed(u)
    BY <2>2 DEF CalmState, CommandWaits, CommandServed, CommandPassed, Rekey
  <2>4. g \in Rekey => None(inbox'[u], Rekey)
    BY <1>0, <1>3, <2>3, OneShifted
  <2>5. g \notin Rekey => Like(inbox[u], inbox'[u], Rekey)
    BY <1>0, <1>3, LikeFacts
  <2> QED
    BY <2>3, <2>4, <2>5
<1>8. /\ CommandWaits => CommandWaits'
      /\ CommandServed => CommandServed'
      /\ \A w \in Users : w # u \/ g \notin Rekey => Due(w)
  <2>1. \A w \in Users, s \in Sockets : \A S : Like(wire[w][s], wire'[w][s], S)
    BY <1>0, <1>3, LikeFacts
  <2>2. \A w \in Users : w # u => Like(inbox[w], inbox'[w], Rekey)
    BY <1>0, <1>3, LikeFacts
  <2>3. \A w \in Users : Like(inbox[w], inbox'[w], Rekey) \/ None(inbox'[w], Rekey)
    BY <1>7, <2>2
  <2>4. \A w \in Users, s \in Sockets : None(wire[w][s], Rekey) => None(wire'[w][s], Rekey)
    BY <1>3
  <2>5. \A c \in Users : Carries(c) /\ handler[c][sock[c]].phase = "serving" =>
            /\ Carries(c)' /\ handler'[c][sock[c]].phase = "serving"
            /\ Like(wire[c][sock[c]], wire'[c][sock[c]], Rekey)
    BY <1>3, <1>4, <2>1, UpFacts
  <2>6. /\ CommandWaits => CommandWaits'
        /\ CommandServed => CommandServed'
        /\ \A w \in Users : Like(inbox[w], inbox'[w], Rekey) => Due(w)
    BY <1>3, <2>3, <2>4, <2>5, CommandFacts
  <2> QED
    BY <1>7, <2>2, <2>6
<1>9. ASSUME NEW y \in Users, IsPresent(y), y # u, g \notin From(y), g \notin Rekey \/ ~ (u < y)
      PROVE  peers'[u][y] = peers[u][y] /\ None(q, To(y))
  <2>1. g.type \in {"offer", "answer"} => g.user # y
    BY <1>3, <1>9, KindFacts
  <2>2. ~ Welcomes(g) /\ ~ (g.type = "left" /\ g.user = y)
    BY <1>4, <1>5, <1>9 DEF Welcomes
  <2>3. g.type = "rekey" => g \in Rekey
    BY <1>3, ServerFacts DEF Rekey
  <2>4. ~ Concerns(u, y)
    BY <1>9, <2>1, <2>2, <2>3 DEF Concerns, g
  <2> QED
    BY <1>2, <2>4 DEF Queues, Passes
<1>10. ASSUME NEW x \in Users, NEW y \in Users, IsPresent(x), x # y,
              x = u => None(q, To(y)), y = u => g \notin From(x)
       PROVE  Under(x, y)
  BY <1>1, <1>2, <1>4, <1>10, GetUnder DEF g
<1>11. ASSUME NEW y \in Users, NoneUnderWay(y, u) PROVE g \notin From(y)
  <2>1. None(inbox[u], From(y))
    BY <1>11 DEF NoneUnderWay
  <2> QED
    BY <1>0, <1>3, <2>1, NoneShifted
<1>12. ASSUME NEW x \in Users, NEW y \in Users, IsPresent(x), IsPresent(y), x # y
       PROVE  /\ peers[x][y] # Absent /\ peers'[x][y] # Absent
  <2>1. peers[x][y] # Absent
    BY <1>12 DEF CalmState, Pairs
  <2>2. CASE x # u
    BY <1>3, <2>1, <2>2
  <2>3. CASE x = u
    <3>1. ~ Leaves(g, y)
      BY <1>4, <1>5, <1>12 DEF Leaves
    <3> QED
      BY <1>1, <2>1, <2>3, <3>1 DEF Keeps, g
  <2> QED
    BY <2>1, <2>2, <2>3
<1>13. ASSUME NEW x \in Users, NEW y \in Users, IsPresent(x), IsPresent(y), x < y
       PROVE  LinkState(x, y)'
  <2>0. /\ LinkState(x, y) /\ x # y /\ ~ (y < x)
        /\ peers[x][y] # Absent /\ peers[y][x] # Absent /\ peers'[x][y] # Absent /\ peers'[y][x] # Absent
    <3>1. LinkState(x, y)
      BY <1>13 DEF CalmState, Pairs
    <3>2. x # y /\ ~ (y < x)
      <4>1. x \in Nat /\ y \in Nat
        BY SquadAssumption
      <4> QED
        BY <1>13, <4>1
    <3> QED
      BY <1>12, <1>13, <3>1, <3>2
  <2>a. ASSUME Due(x), x = u => g \notin From(y) /\ g \notin Rekey, y = u => g \notin From(x)
        PROVE  LinkState(x, y)'
    <3>1. /\ x = u => peers'[u][y] = peers[u][y] /\ None(q, To(y))
          /\ y = u => peers'[u][x] = peers[u][x] /\ None(q, To(x))
      BY <1>9, <1>13, <2>0, <2>a
    <3>2. peers'[x][y] = peers[x][y] /\ peers'[y][x] = peers[y][x]
      BY <1>3, <3>1
    <3>3. Under(x, y) /\ Under(y, x)
      BY <1>10, <1>13, <2>0, <2>a, <3>1
    <3> QED
      BY <2>0, <2>a, <3>2, <3>3, LinkFacts
  <2>1. CASE x # u /\ y # u
    BY <1>8, <2>1, <2>a
  <2>2. CASE x = u /\ g \in Rekey
    <3>1. Untouched(u, y)
      BY <1>7, <2>0, <2>2 DEF LinkState, Offered, Answered, Done
    <3>2. NoneUnderWay(u, y) /\ NoneUnderWay(y, u)
      BY <3>1 DEF Untouched
    <3>3. g \notin From(y)
      BY <1>11, <3>2
    <3>4. Under(y, u)
      BY <1>10, <1>13, <2>0, <2>2, <3>3
    <3>5. CommandPassed(u)'
      BY <1>7, <1>8, <2>2 DEF CommandPassed, Rekey
    <3>6. /\ peers'[u][y].offered /\ peers'[u][y].remote = 0
          /\ One(q, To(y), [type |-> "offer", pc |-> peers'[u][y].pc, to |-> y])
      <4>1. g.type = "rekey"
        BY <2>2 DEF Rekey, RekeyMsg
      <4> QED
        BY <1>2, <1>13, <2>0, <2>2, <4>1 DEF Queues, Rekeys, g
    <3>7. /\ One(uplink'[u], To(y), [type |-> "offer", pc |-> peers'[u][y].pc, to |-> y])
          /\ None(wire'[u][sock'[u]], To(y)) /\ None(inbox'[y], From(u))
      <4>1. One(uplink[u] \o q, To(y), [type |-> "offer", pc |-> peers'[u][y].pc, to |-> y])
        BY <1>0, <3>2, <3>6, OneJoined DEF NoneUnderWay
      <4> QED
        BY <1>3, <2>0, <2>2, <3>2, <4>1 DEF NoneUnderWay
    <3>8. Offered(u, y)'
      BY <3>2, <3>4, <3>5, <3>6, <3>7 DEF Offered, OneUnderWay, Under
    <3> QED
      BY <2>2, <3>8 DEF LinkState
  <2>3. CASE x = u /\ g \notin Rekey /\ g \in From(y)
    <3>0. ~ NoneUnderWay(y, u)
      BY <1>11, <2>3
    <3>1. Answered(u, y)
      BY <2>0, <2>3, <3>0 DEF LinkState, Untouched, Offered, Done
    <3> DEFINE p == peers[y][u].pc
               c == [type |-> "answer", pc |-> p, to |-> u]
               d == [type |-> "answer", pc |-> p, user |-> y]
    <3>2. OneUnderWay(y, u, "answer", p)
      BY <3>1 DEF Answered
    <3>3. ~ None(inbox[u], From(y))
      BY <1>0, <1>3, <2>3, NoneShifted
    <3>4. None(uplink[y], To(u)) /\ None(wire[y][sock[y]], To(u)) /\ One(inbox[u], From(y), d)
      BY <3>2, <3>3 DEF OneUnderWay
    <3>5. d.type = "answer" /\ d.user = y /\ d.pc = p
      OBVIOUS
    <3>p. p = peers[y][u].pc
      OBVIOUS
    <3> HIDE DEF p, d
    <3>6. g = d /\ None(inbox'[u], From(y))
      BY <1>0, <1>3, <2>3, <3>4, OneShifted
    <3>7. /\ None(q, To(y))
          /\ peers'[u][y].pc = peers[u][y].pc /\ peers'[u][y].remote = p
      <4>1. g.type = "answer" /\ g.user = y /\ g.pc = p
        BY <3>5, <3>6
      <4>2. peers[u][y].offered /\ peers[u][y].remote = 0
        BY <3>1 DEF Answered
      <4> QED
        BY <1>2, <4>1, <4>2 DEF Queues, Agrees, g
    <3>8. NoneUnderWay(u, y)'
      <4>1. Under(u, y)
        BY <1>10, <1>13, <2>0, <2>3, <3>7
      <4> QED
        BY <3>1, <4>1 DEF Answered, Under
    <3>9. NoneUnderWay(y, u)'
      BY <1>3, <2>0, <2>3, <3>4, <3>6 DEF NoneUnderWay
    <3>10. CommandPassed(u)'
      BY <1>8, <2>3, <3>1 DEF Answered, Due
    <3>11. Linked(u, y)'
      <4>1. peers'[y][u] = peers[y][u]
        BY <1>3, <2>0, <2>3
      <4>2. peers[y][u].remote = peers[u][y].pc
        BY <3>1 DEF Answered
      <4> QED
        BY <2>0, <2>3, <3>7, <3>p, <4>1, <4>2 DEF Linked
    <3> QED
      BY <2>3, <3>8, <3>9, <3>10, <3>11 DEF LinkState, Done
  <2>4. CASE y = u /\ g \in From(x)
    <3>0. ~ NoneUnderWay(x, u)
      BY <1>11, <2>4
    <3>1. Offered(x, u)
      BY <2>0, <2>4, <3>0 DEF LinkState, Untouched, Answered, Done
    <3> DEFINE p == peers[x][u].pc
               d == [type |-> "offer", pc |-> p, user |-> x]
    <3>2. OneUnderWay(x, u, "offer", p)
      BY <3>1 DEF Offered
    <3>3. ~ None(inbox[u], From(x))
      BY <1>0, <1>3, <2>4, NoneShifted
    <3>4. None(uplink[x], To(u)) /\ None(wire[x][sock[x]], To(u)) /\ One(inbox[u], From(x), d)
      BY <3>2, <3>3 DEF OneUnderWay
    <3>5. d.type = "offer" /\ d.user = x /\ d.pc = p
      OBVIOUS
    <3>p. p = peers[x][u].pc
      OBVIOUS
    <3> HIDE DEF p, d
    <3>6. g = d /\ None(inbox'[u], From(x))
      BY <1>0, <1>3, <2>4, <3>4, OneShifted
    <3>7. /\ peers'[u][x].remote = p
          /\ One(q, To(x), [type |-> "answer", pc |-> peers'[u][x].pc, to |-> x])
      <4>1. g.type = "offer" /\ g.user = x /\ g.pc = p
        BY <3>5, <3>6
      <4>2. ~ peers[u][x].offered
        BY <2>0, <2>4 DEF SidesInv
      <4> QED
        BY <1>2, <4>1, <4>2 DEF Queues, Answers, g
    <3>8. NoneUnderWay(x, u)'
      BY <1>3, <2>0, <2>4, <3>4, <3>6 DEF NoneUnderWay
    <3>9. OneUnderWay(u, x, "answer", peers[u][x].pc)'
      <4>1. NoneUnderWay(u, x)
        BY <3>1 DEF Offered
      <4>2. One(uplink[u] \o q, To(x), [type |-> "answer", pc |-> peers'[u][x].pc, to |-> x])
        BY <1>0, <3>7, <4>1, OneJoined DEF NoneUnderWay
      <4>3. /\ One(uplink'[u], To(x), [type |-> "answer", pc |-> peers'[u][x].pc, to |-> x])
            /\ None(wire'[u][sock'[u]], To(x)) /\ None(inbox'[x], From(u))
        BY <1>3, <2>0, <2>4, <4>1, <4>2 DEF NoneUnderWay
      <4> QED
        BY <4>3 DEF OneUnderWay
    <3>10. CommandPassed(x)'
      BY <1>8, <2>0, <2>4, <3>1 DEF Offered, Due
    <3>11. peers'[x][u] = peers[x][u]
      BY <1>3, <2>0, <2>4
    <3>12. Answered(x, u)'
      BY <3>1, <3>7, <3>8, <3>9, <3>10, <3>11, <3>p DEF Offered, Answered
    <3> QED
      BY <2>4, <3>12 DEF LinkState
  <2>5. CASE x = u /\ g \notin Rekey /\ g \notin From(y)
    BY <1>8, <2>0, <2>5, <2>a
  <2>6. CASE y = u /\ g \notin From(x)
    BY <1>8, <2>0, <2>6, <2>a
  <2> QED
    BY <2>1, <2>2, <2>3, <2>4, <2>5, <2>6
<1>14. Pairs'
  BY <1>4, <1>12, <1>13 DEF Pairs
<1> QED
  BY <1>6, <1>8, <1>14 DEF CalmState

\* A handler passes on a message it reads, or ends.
LEMMA CalmServes ==
    ASSUME BaseInv, SocketInv, CalmState, NEW u \in Users, NEW s \in Sockets, HandlerStep(u, s)
    PROVE  CalmState'
<1>0. /\ \A w \in Users : /\ inbox[w] \in Seq(ServerMsgs) /\ uplink[w] \in Seq(LinkMsgs)
                          /\ \A t \in Sockets : wire[w][t] \in Seq(ClientMsgs)
      /\ room \in [Users -> 0 .. MaxSockets] /\ handler \in HandlerType
      /\ wire \in [Users -> [Sockets -> Seq(ClientMsgs)]]
  BY DEF BaseInv, TypeOK, UplinkInv, HandlerType, Phases
<1>1. engine' = engine /\ sock' = sock /\ peers' = peers /\ uplink' = uplink
  BY DEF HandlerStep
<1>2. /\ handler[u][s].phase = "serving"
      /\ \/ s = sock[u] /\ (RelayStep(u, s) \/ RekeyStep(u, s) \/ PttStep(u, s))
         \/ /\ CleanupStep(u, s) /\ room' = [room EXCEPT ![u] = 0]
            /\ Sends(Listed \ {u}, [type |-> "left", user |-> u], room)
  BY CalmHandlerFacts DEF CalmState
<1>3. \A w \in Users : IsPresent(w) => Carries(w) /\ sock[w] \in Sockets /\ room[w] # 0
  BY UpFacts DEF IsPresent
<1>4. \A w \in Users : /\ None(inbox[w], News)
                       /\ \A t \in Sockets : /\ handler[w][t].phase \in {"closed", "serving"}
                                             /\ t # sock[w] => wire[w][t] = <<>>
  BY DEF CalmState, NoWelcome
<1>5. \A w \in Users : \A S : Like(uplink[w], uplink'[w], S)
  BY <1>0, <1>1, LikeFacts
<1>6. CASE s = sock[u] /\ (RelayStep(u, s) \/ RekeyStep(u, s) \/ PttStep(u, s))
  <2> DEFINE m == Head(wire[u][s])
  <2>1. room' = room /\ handler' = handler /\ \E types : Reads(u, s, types)
    BY <1>6 DEF RelayStep, RekeyStep, PttStep
  <2>2. /\ m \in ClientMsgs /\ m = Head(wire[u][s]) /\ wire[u][s] # <<>>
        /\ \A w \in Users, t \in Sockets : wire'[w][t] = IF w = u /\ t = s THEN Tail(wire[u][s]) ELSE wire[w][t]
        /\ \A S : m \notin S => \A w \in Users, t \in Sockets : Like(wire[w][t], wire'[w][t], S)
    BY <2>1, ReadsLike DEF Reads
  <2>3. PICK members \in SUBSET Users, d \in ServerMsgs :
            /\ Sends(members, d, room)
            /\ \/ RekeyStep(u, s) /\ d = RekeyMsg /\ m.type = "rekey" /\ members = Listed
               \/ RelayStep(u, s) /\ d.type \in {"offer", "answer"} /\ m \in LinkMsgs
               \/ PttStep(u, s) /\ d.type = "ptt" /\ m.type = "ptt"
    <3>0. Listed \in SUBSET Users
      BY DEF Listed
    <3>1. CASE RekeyStep(u, s)
      <4>1. m.type = "rekey" /\ Sends(Listed, RekeyMsg, room)
        BY <2>2, <3>1 DEF RekeyStep, Reads
      <4>2. RekeyMsg \in ServerMsgs
        BY ServerFacts
      <4> HIDE DEF m
      <4> QED
        BY <3>0, <3>1, <4>1, <4>2
    <3>2. CASE RelayStep(u, s)
      <4> DEFINE e == [type |-> m.type, user |-> u, pc |-> m.pc]
                 those == {m.to} \cap Listed
      <4>1. m \in LinkMsgs /\ Sends(those, e, room)
        BY <3>2 DEF RelayStep
      <4>2. m.type \in {"offer", "answer"} /\ m.pc \in Nat \ {0}
        BY <4>1, ClientFacts
      <4> HIDE DEF m
      <4>3. e \in ServerMsgs /\ e.type \in {"offer", "answer"}
        BY <4>2, ServerFacts
      <4>4. those \in SUBSET Users
        BY <3>0
      <4> HIDE DEF e, those
      <4> QED
        BY <3>2, <4>1, <4>3, <4>4
    <3>3. CASE PttStep(u, s)
      <4> DEFINE e == [type |-> "ptt", user |-> u, active |-> m.active]
                 those == Listed \ {u}
      <4>1. m.active \in BOOLEAN /\ m.type = "ptt" /\ Sends(those, e, room)
        BY <3>3, ClientFacts DEF PttStep, Reads
      <4> HIDE DEF m
      <4>2. e \in ServerMsgs /\ e.type = "ptt"
        BY <4>1, ServerFacts
      <4>3. those \in SUBSET Users
        BY <3>0
      <4> HIDE DEF e, those
      <4> QED
        BY <3>3, <4>1, <4>2, <4>3
    <3> QED
      BY <1>6, <3>1, <3>2, <3>3
  <2> HIDE DEF m
  <2>4. \A w \in Users : /\ Carries(w)' <=> Carries(w)
                         /\ IsPresent(w)' <=> IsPresent(w)
                         /\ inbox'[w] = IF w \in members /\ Carries(w) /\ room[w] = sock[w]
                                        THEN Append(inbox[w], d) ELSE inbox[w]
    <3>1. \A w \in Users : Carries(w)' <=> Carries(w)
      BY <1>1, <2>3, SentFacts
    <3>2. \A w \in Users : inbox'[w] = IF w \in members /\ Carries(w) /\ room[w] = sock[w]
                                       THEN Append(inbox[w], d) ELSE inbox[w]
      BY <2>3 DEF Sends, Carries
    <3> QED
      BY <1>1, <2>1, <3>1, <3>2 DEF IsPresent
  <2>5. \A S : d \notin S => \A w \in Users : Like(inbox[w], inbox'[w], S)
    BY <2>3, SendsLike
  <2>6. NoWelcome'
    <3>1. News' = News
      BY <2>1 DEF News
    <3>2. d \notin News
      <4>1. d.type \in {"offer", "answer", "ptt", "rekey"}
        BY <2>3 DEF RekeyMsg
      <4> QED
        BY <4>1, KindFacts
    <3>3. \A w \in Users : None(inbox'[w], News)
      BY <1>4, <2>5, <3>2 DEF Like
    <3>4. \A w \in Users, t \in Sockets : t # sock[w] => wire'[w][t] = wire[w][t]
      BY <1>6, <2>2
    <3> QED
      BY <1>1, <1>4, <2>1, <3>1, <3>3, <3>4 DEF NoWelcome
  <2>7. CASE ~ RekeyStep(u, s)
    <3>1. m \notin Rekey /\ d \notin Rekey
      <4>1. m.type # "rekey"
        BY <2>3, <2>7, ClientFacts
      <4>2. d.type # "rekey"
        BY <2>3, <2>7
      <4> QED
        BY <2>2, <4>1, <4>2, KindFacts
    <3>2. /\ CommandWaits => CommandWaits'
          /\ CommandServed => CommandServed'
          /\ \A w \in Users : Due(w)
      <4>1. \A w \in Users, t \in Sockets : Like(wire[w][t], wire'[w][t], Rekey)
        BY <2>2, <3>1
      <4>2. \A w \in Users : Like(inbox[w], inbox'[w], Rekey)
        BY <2>5, <3>1
      <4>3. \A w \in Users, t \in Sockets : None(wire[w][t], Rekey) => None(wire'[w][t], Rekey)
        BY <4>1 DEF Like
      <4>4. \A c \in Users : Carries(c) /\ handler[c][sock[c]].phase = "serving" =>
                /\ Carries(c)' /\ handler'[c][sock[c]].phase = "serving"
                /\ Like(wire[c][sock[c]], wire'[c][sock[c]], Rekey)
        BY <2>1, <2>4, <4>1, UpFacts
      <4> QED
        BY <1>1, <4>2, <4>3, <4>4, CommandFacts
    <3>3. ASSUME NEW x \in Users, NEW y \in Users, IsPresent(x), IsPresent(y), x # y PROVE Under(x, y)
      <4>1. CASE RelayStep(u, s)
        BY <1>1, <1>3, <1>6, <3>3, <4>1, RelayUnder
      <4>2. CASE PttStep(u, s)
        <5>1. m.type = "ptt" /\ d.type = "ptt"
          BY <2>3, <2>7, <4>2 DEF RelayStep, PttStep, Reads
        <5>2. m \notin To(y) /\ d \notin From(x)
          BY <2>2, <5>1, KindFacts
        <5> QED
          BY <1>1, <1>3, <1>5, <2>2, <2>5, <3>3, <5>2, UnderFacts
      <4> QED
        BY <1>6, <2>7, <4>1, <4>2
    <3>4. Pairs'
      BY <1>1, <2>4, <3>2, <3>3, PairsFacts DEF CalmState
    <3> QED
      BY <2>6, <3>2, <3>4 DEF CalmState
  <2>8. CASE RekeyStep(u, s)
    <3>1. m = RekeyMsg /\ m \in Rekey /\ d = RekeyMsg /\ members = Listed
      <4>1. m.type = "rekey"
        BY <2>2, <2>8 DEF RekeyStep, Reads
      <4>2. d = RekeyMsg /\ members = Listed
        BY <2>3, <4>1 DEF LinkMsgs
      <4> QED
        BY <2>2, <4>1, <4>2, ClientFacts DEF Rekey
    <3>2. ~ None(wire[u][s], Rekey)
      BY <1>0, <2>2, <3>1, NoneShifted
    <3>3. ~ CommandServed /\ CommandWaits
      BY <3>2 DEF CommandServed, CalmState, Rekey
    <3>4. /\ One(wire[u][s], Rekey, RekeyMsg)
          /\ \A w \in Users, t \in Sockets : w # u \/ t # s => None(wire[w][t], Rekey)
          /\ \A w \in Users : None(inbox[w], Rekey)
      BY <3>2, <3>3 DEF CommandWaits, Rekey
    <3>5. None(Tail(wire[u][s]), Rekey)
      BY <1>0, <2>2, <3>1, <3>4, OneShifted
    <3>6. \A w \in Users, t \in Sockets : None(wire'[w][t], Rekey)
      BY <2>2, <3>4, <3>5
    <3>7. \A w \in Users : One(Append(inbox[w], d), Rekey, RekeyMsg)
      BY <1>0, <3>1, <3>4, OneAppended
    <3>8. CommandServed'
      BY <2>4, <3>4, <3>6, <3>7 DEF CommandServed, Rekey
    <3>9. \A x \in Users : IsPresent(x) => Due(x)
      <4>1. ASSUME NEW x \in Users, IsPresent(x) PROVE Due(x)
        <5>1. ~ CommandPassed(x)
          BY <3>3 DEF CommandPassed
        <5>2. x \in Listed /\ Carries(x) /\ room[x] = sock[x]
          BY <1>3, <4>1 DEF Listed, IsPresent
        <5>3. One(inbox'[x], Rekey, RekeyMsg)
          BY <2>4, <3>1, <3>7, <5>2
        <5> QED
          BY <3>8, <5>1, <5>3 DEF Due, CommandDue, Rekey
      <4> QED
        BY <4>1
    <3>10. ASSUME NEW x \in Users, NEW y \in Users, IsPresent(x) PROVE Under(x, y)
      <4>1. m \notin To(y) /\ d \notin From(x)
        BY <3>1, KindFacts
      <4> QED
        BY <1>1, <1>3, <1>5, <2>2, <2>5, <3>10, <4>1, UnderFacts
    <3>11. Pairs'
      BY <1>1, <2>4, <3>9, <3>10, PairsFacts DEF CalmState
    <3> QED
      BY <2>6, <3>8, <3>11 DEF CalmState
  <2> QED
    BY <2>7, <2>8
<1>7. CASE /\ CleanupStep(u, s) /\ room' = [room EXCEPT ![u] = 0]
           /\ Sends(Listed \ {u}, [type |-> "left", user |-> u], room)
  <2> DEFINE d == [type |-> "left", user |-> u]
  <2>1. d \in ServerMsgs /\ d.type = "left" /\ d.user = u /\ Sends(Listed \ {u}, d, room)
    BY <1>7, ServerFacts
  <2> HIDE DEF d
  <2>2. /\ <<u, s>> \in broken
        /\ \A w \in Users, t \in Sockets :
              /\ w # u \/ t # s => handler'[w][t] = handler[w][t] /\ wire'[w][t] = wire[w][t]
              /\ w = u /\ t = s => handler'[w][t].phase = "closed" /\ wire'[w][t] = <<>>
    BY <1>0, <1>7 DEF CleanupStep, HandlerType, Closed
  <2>3. \A w \in Users : /\ Carries(w)' <=> Carries(w)
                         /\ Carries(w) => w # u \/ sock[w] # s
                         /\ room'[w] = IF w = u THEN 0 ELSE room[w]
    BY <1>0, <1>1, <1>7, <2>1, <2>2, SentFacts DEF Carries
  <2>4. \A w \in Users : IsPresent(w)' => IsPresent(w) /\ w # u
    BY <1>1, <2>3, UpFacts DEF IsPresent
  <2>5. \A S : d \notin S => \A w \in Users : Like(inbox[w], inbox'[w], S)
    BY <2>1, SendsLike
  <2>6. NoWelcome'
    <3>1. d \notin News' /\ News' \subseteq News
      <4>1. \A m \in ServerMsgs : m.type = "left" => m.user \in Users
        BY ServerFacts
      <4> QED
        BY <2>1, <2>3, <4>1 DEF News
    <3>2. \A w \in Users : None(inbox[w], News')
      BY <1>4, <3>1 DEF None
    <3>3. \A w \in Users : None(inbox'[w], News')
      BY <2>5, <3>1, <3>2 DEF Like
    <3>4. \A w \in Users, t \in Sockets : /\ handler'[w][t].phase \in {"closed", "serving"}
                                          /\ t # sock[w] => wire'[w][t] = <<>>
      BY <1>4, <2>2
    <3> QED
      BY <1>1, <3>3, <3>4 DEF NoWelcome
  <2>7. /\ CommandWaits => CommandWaits'
        /\ CommandServed => CommandServed'
        /\ \A w \in Users : Due(w)
    <3>1. \A w \in Users : Like(inbox[w], inbox'[w], Rekey)
      <4>1. d \notin Rekey
        BY <2>1, KindFacts
      <4> QED
        BY <2>5, <4>1
    <3>2. \A w \in Users, t \in Sockets : None(wire[w][t], Rekey) => None(wire'[w][t], Rekey)
      BY <2>2, EmptyFacts
    <3>3. ASSUME NEW c \in Users, Carries(c), handler[c][sock[c]].phase = "serving"
          PROVE  /\ Carries(c)' /\ handler'[c][sock[c]].phase = "serving"
                 /\ Like(wire[c][sock[c]], wire'[c][sock[c]], Rekey)
      <4>1. sock[c] \in Sockets /\ (c # u \/ sock[c] # s)
        BY <2>3, <3>3, UpFacts
      <4>2. handler'[c][sock[c]] = handler[c][sock[c]] /\ wire'[c][sock[c]] = wire[c][sock[c]]
        BY <2>2, <4>1
      <4> QED
        BY <1>0, <2>3, <3>3, <4>1, <4>2, LikeFacts
    <3> QED
      BY <1>1, <3>1, <3>2, <3>3, CommandFacts
  <2>8. ASSUME NEW x \in Users, NEW y \in Users, IsPresent(x)' PROVE Under(x, y)
    <3>1. IsPresent(x) /\ x # u /\ sock[x] \in Sockets
      BY <1>3, <2>4, <2>8
    <3>2. Like(wire[x][sock[x]], wire'[x][sock'[x]], To(y))
      BY <1>0, <1>1, <2>2, <3>1, LikeFacts
    <3>3. d \notin From(x)
      BY <2>1, KindFacts
    <3>4. Like(inbox[y], inbox'[y], From(x))
      BY <2>5, <3>3
    <3> QED
      BY <1>5, <3>2, <3>4, UnderFacts
  <2>9. Pairs'
    BY <1>1, <2>4, <2>7, <2>8, PairsFacts DEF CalmState
  <2> QED
    BY <2>6, <2>7, <2>9 DEF CalmState
<1> QED
  BY <1>2, <1>6, <1>7

\* The step of an engine or its user that the command survives, or is.
LEMMA CalmEngine ==
    ASSUME BaseInv, SocketInv, HearsayInv, CalmInv, NEW u \in Users, EngineStep(u), calm'
    PROVE  CalmState'
<1>1. CASE /\ engine[u] = "up" /\ <<u, sock[u]>> \in broken
           /\ engine' = [engine EXCEPT ![u] = "down"] /\ inbox' = [inbox EXCEPT ![u] = <<>>]
           /\ UNCHANGED <<sock, peers, speaking, transmit, uplink, wire, broken, handler, room, calm, aired>>
  <2>1. CalmState
    BY <1>1 DEF CalmInv, CalmState
  <2> QED
    BY <1>1, <2>1, CalmLost
<1>2. CASE /\ uplink[u] # <<>> /\ Head(uplink[u]) \in LinkMsgs
           /\ uplink' = [uplink EXCEPT ![u] = Tail(uplink[u])]
           /\ Writes(u, Head(uplink[u]))
           /\ UNCHANGED <<engine, sock, peers, speaking, transmit, inbox, broken, handler, room, calm, aired>>
  <2>1. CalmState
    BY <1>2 DEF CalmInv, CalmState
  <2>2. \A x, y \in Users : Carries(x) => Under(x, y)
    BY <1>2, ForwardUnder
  <2>3. Head(uplink[u]) \in ClientMsgs /\ Head(uplink[u]) \notin Rekey
    BY <1>2, ClientFacts, KindFacts
  <2> QED
    BY <1>2, <2>1, <2>2, <2>3, CalmWrites
<1>3. CASE /\ Writes(u, RekeyMsg) /\ calm' = (Quiet /\ IsPresent(u))
           /\ UNCHANGED <<engine, sock, peers, uplink, speaking, transmit, inbox, broken, handler, room, aired>>
  BY <1>3, CalmBegins DEF CalmState
<1>4. CASE /\ Writes(u, PttMsg(~ transmit[u]))
           /\ UNCHANGED <<engine, sock, peers, uplink, speaking, inbox, broken, handler, room, calm>>
  <2>1. CalmState
    BY <1>4 DEF CalmInv, CalmState
  <2>2. (~ transmit[u]) \in BOOLEAN
    OBVIOUS
  <2>3. /\ PttMsg(~ transmit[u]) \in ClientMsgs /\ PttMsg(~ transmit[u]) \notin Rekey
        /\ \A v \in Users : PttMsg(~ transmit[u]) \notin To(v)
    BY <2>2, ClientFacts, KindFacts
  <2>4. ASSUME NEW x \in Users, NEW y \in Users, Carries(x) PROVE Under(x, y)
    <3>1. /\ sock[x] \in Sockets /\ uplink[x] \in Seq(LinkMsgs) /\ inbox[y] \in Seq(ServerMsgs)
      BY <2>4, UpFacts, TypeFacts DEF BaseInv, UplinkInv
    <3>2. Like(wire[x][sock[x]], wire'[x][sock'[x]], To(y))
      BY <1>4, <2>3, <3>1, WritesLike
    <3> QED
      BY <1>4, <3>1, <3>2, LikeFacts, UnderFacts
  <2> QED
    BY <1>4, <2>1, <2>3, <2>4, CalmWrites
<1> QED
  BY <1>1, <1>2, <1>3, <1>4 DEF EngineStep

LEMMA CalmStep ==
    ASSUME BaseInv, SocketInv, SidesInv, HearsayInv, CalmInv, [Next]_vars
    PROVE  CalmInv'
<1>1. CASE UNCHANGED vars
  <2>1. UNCHANGED <<engine, sock, peers, uplink, wire, inbox, broken, handler, room, calm>>
    BY <1>1 DEF vars
  <2>2. /\ NoWelcome' = NoWelcome /\ CommandServed' = CommandServed
        /\ CommandWaits' = CommandWaits /\ Pairs' = Pairs
    BY <2>1 DEF NoWelcome, News, CommandServed, CommandWaits, Carries, Pairs, IsPresent, LinkState, Untouched, Offered,
                Answered, Done, Linked, CommandDue, CommandPassed, NoneUnderWay, OneUnderWay
  <2> QED
    BY <2>1, <2>2 DEF CalmInv
<1>2. ASSUME NEW u \in Users, EngineStep(u) PROVE CalmInv'
  BY <1>2, CalmEngine DEF CalmInv, CalmState
<1>3. ASSUME NEW u \in Users, Gets(u), Handling(u) PROVE CalmInv'
  <2>1. calm' = calm
    BY <1>3 DEF Handling
  <2> QED
    BY <1>3, <2>1, CalmGets DEF CalmInv, CalmState
<1>4. ASSUME NEW u \in Users, NEW s \in Sockets, HandlerStep(u, s) PROVE CalmInv'
  <2>1. calm' = calm
    BY <1>4 DEF HandlerStep
  <2> QED
    BY <1>4, <2>1, CalmServes DEF CalmInv, CalmState
<1> QED
  BY <1>1, <1>2, <1>3, <1>4, StepFacts

LinkInv == BaseInv /\ SocketInv /\ SidesInv /\ HearsayInv /\ CalmInv

LEMMA LinkInit == ASSUME Init PROVE LinkInv
<1>1. BaseInv
  BY TypeInit
<1>2. SocketInv
  <2>1. MaxSockets \in Nat /\ \A s \in Sockets : s \in Nat /\ s > 0
    BY SquadAssumption DEF Sockets
  <2> QED
    BY <2>1 DEF Init, SocketInv, Closed
<1>3. SidesInv
  BY DEF Init, SidesInv, Absent
<1>4. HearsayInv
  BY DEF Init, HearsayInv, IsPresent, Carries
<1>5. CalmInv
  BY DEF Init, CalmInv
<1> QED
  BY <1>1, <1>2, <1>3, <1>4, <1>5 DEF LinkInv

LEMMA LinkStep == ASSUME LinkInv, [Next]_vars PROVE LinkInv'
<1>1. BaseInv /\ SocketInv /\ SidesInv /\ HearsayInv /\ CalmInv
  BY DEF LinkInv
<1>2. BaseInv'
  BY <1>1, TypeStep
<1>3. SocketInv' /\ SidesInv'
  BY <1>1, SocketStep, SidesStep
<1>4. HearsayInv'
  BY <1>1, HearsayStep
<1>5. CalmInv'
  BY <1>1, CalmStep
<1> QED
  BY <1>2, <1>3, <1>4, <1>5 DEF LinkInv

\* Where nothing is in flight any more, a link cannot be on its way to done.
LEMMA LinkedWhenQuiet == ASSUME LinkInv PROVE RekeyRepairs
<1>1. SUFFICES ASSUME calm, Quiet, NEW u \in Users, NEW v \in Users, IsPresent(u), IsPresent(v), u # v
               PROVE  Linked(u, v)
  BY DEF RekeyRepairs, PresentAreLinked
<1>0. BaseInv /\ Pairs
  BY <1>1 DEF LinkInv, CalmInv
<1>2. \A w \in Users : /\ inbox[w] = <<>> /\ uplink[w] = <<>>
                       /\ \A s \in Sockets : wire[w][s] = <<>>
  BY <1>1 DEF Quiet, IsIdle
<1>3. \A S : None(<<>>, S) /\ \A m : ~ One(<<>>, S, m)
  <2>1. DOMAIN <<>> = {}
    OBVIOUS
  <2> QED
    BY <2>1 DEF None, One
<1>4. ASSUME NEW x \in Users, NEW y \in Users, IsPresent(x), IsPresent(y), x < y
      PROVE  Linked(x, y)
  <2>1. LinkState(x, y)
    BY <1>0, <1>4 DEF Pairs
  <2>2. sock[x] \in Sockets /\ sock[y] \in Sockets
    BY <1>0, <1>4, UpFacts DEF IsPresent
  <2>3. ~ CommandDue(x)
    <3>1. ~ One(inbox[x], {RekeyMsg}, RekeyMsg)
      BY <1>2, <1>3
    <3>2. ~ CommandWaits
      BY <1>0, <1>2, <1>3, UpFacts DEF CommandWaits
    <3> QED
      BY <3>1, <3>2 DEF CommandDue
  <2>4. \A t, p : ~ OneUnderWay(x, y, t, p) /\ ~ OneUnderWay(y, x, t, p)
    BY <1>2, <1>3, <2>2 DEF OneUnderWay
  <2> QED
    BY <2>1, <2>3, <2>4 DEF LinkState, Untouched, Offered, Answered, Done
<1>5. u < v \/ v < u
  <2>1. u \in Nat /\ v \in Nat
    BY SquadAssumption
  <2> QED
    BY <1>1, <2>1
<1>6. Linked(v, u) => Linked(u, v)
  BY DEF Linked
<1> QED
  BY <1>1, <1>4, <1>5, <1>6

\* However many users there are and whatever happened to their sockets before, a
\* rekey commanded by a user in the room when nothing is in flight links every two
\* who stay in it, once nothing is in flight again (mesh.rs:256-273, lib.rs:394-420).
THEOREM RekeyLinksAgain == Spec => []RekeyRepairs
<1>1. Init => LinkInv
  BY LinkInit
<1>2. LinkInv /\ [Next]_vars => LinkInv'
  BY LinkStep
<1>3. LinkInv => RekeyRepairs
  BY LinkedWhenQuiet
<1> QED
  BY <1>1, <1>2, <1>3, PTL DEF Spec

-----------------------------------------------------------------------------
(* Who is shown as speaking.                                               *)

\* Messages that change what is shown of v, or tell it to the server; a user's
\* own, which it never gets.
About(v)  == [type : {"ptt"}, user : {v}, active : BOOLEAN] \cup [type : {"joined", "left"}, user : {v}]
OwnPtt(v) == [type : {"ptt"}, user : {v}, active : BOOLEAN]
PttMsgs   == [type : {"ptt"}, active : BOOLEAN]
Rosters   == {m \in ServerMsgs : m.type = "roster"}

\* The last element of q in S, if there is one, is m.
EndsWith(q, S, m) ==
    \A i \in DOMAIN q : q[i] \in S /\ (\A j \in DOMAIN q : j > i => q[j] \notin S) => q[i] = m

\* Nobody is told of its own push-to-talk.
SelfInv == \A u \in Users : u \notin speaking[u] /\ None(inbox[u], OwnPtt(u))

\* Where the server notices a loss in time, a user has no second socket there.
AloneInv == \A u \in Users : \A s \in Sockets : s # sock[u] => handler[u][s].phase = "closed"

\* The last word about v on its way to u, or the flag at u if there is none, says
\* whether v transmits.
Tells(u, v) ==
    /\ EndsWith(wire[v][sock[v]], PttMsgs, PttMsg(transmit[v]))
    /\ None(wire[v][sock[v]], PttMsgs) =>
          /\ EndsWith(inbox[u], About(v), [type |-> "ptt", user |-> v, active |-> transmit[v]])
          /\ None(inbox[u], About(v)) => (v \in speaking[u] <=> transmit[v])
Everyone == \A u \in Users : /\ \A s \in Sockets : handler[u][s].phase \in {"closed", "serving"}
                             /\ None(inbox[u], Rosters)
AiredInv ==
    aired # {} => /\ Everyone
                  /\ \A v \in aired : IsPresent(v)
                  /\ \A u \in Users, v \in aired : IsPresent(u) /\ u # v => Tells(u, v)

LEMMA EndAppended ==
    ASSUME NEW M, NEW q \in Seq(M), NEW m \in M, NEW S
    PROVE  /\ m \notin S => \A x : EndsWith(q, S, x) => EndsWith(Append(q, m), S, x)
           /\ m \in S => EndsWith(Append(q, m), S, m)
<1> DEFINE n == Len(q)
           z == Append(q, m)
<1>1. /\ n \in Nat /\ DOMAIN q = 1 .. n /\ DOMAIN z = 1 .. n + 1 /\ z[n + 1] = m
      /\ \A i \in DOMAIN q : z[i] = q[i]
  BY AppendFacts
<1> HIDE DEF n, z
<1>2. /\ n + 1 \in DOMAIN z /\ \A i \in DOMAIN q : i \in DOMAIN z /\ n + 1 > i
      /\ \A i \in DOMAIN z : i \in DOMAIN q \/ i = n + 1
  BY <1>1
<1>3. ASSUME m \notin S, NEW x, EndsWith(q, S, x) PROVE EndsWith(z, S, x)
  <2>1. ASSUME NEW i \in DOMAIN z, z[i] \in S, \A j \in DOMAIN z : j > i => z[j] \notin S
        PROVE  z[i] = x
    <3>1. i \in DOMAIN q
      BY <1>1, <1>2, <1>3, <2>1
    <3>2. \A j \in DOMAIN q : j > i => q[j] \notin S
      BY <1>1, <1>2, <2>1
    <3> QED
      BY <1>1, <1>3, <2>1, <3>1, <3>2 DEF EndsWith
  <2> QED
    BY <2>1 DEF EndsWith
<1>4. m \in S => EndsWith(z, S, m)
  BY <1>1, <1>2 DEF EndsWith
<1> QED
  BY <1>3, <1>4 DEF z

LEMMA EndShifted ==
    ASSUME NEW M, NEW q \in Seq(M), q # <<>>, NEW S, NEW x, EndsWith(q, S, x)
    PROVE  /\ EndsWith(Tail(q), S, x)
           /\ None(Tail(q), S) /\ Head(q) \in S => Head(q) = x
<1> DEFINE n == Len(q)
           z == Tail(q)
<1>1. /\ n \in Nat /\ DOMAIN q = 1 .. n /\ 1 \in DOMAIN q /\ DOMAIN z = 1 .. n - 1 /\ q[1] = Head(q)
      /\ \A i \in DOMAIN z : z[i] = q[i + 1]
  BY TailFacts
<1> HIDE DEF n, z
<1>2. /\ \A j \in DOMAIN q : j \in Nat /\ (j = 1 \/ (j - 1 \in DOMAIN z /\ z[j - 1] = q[j]))
      /\ \A i \in DOMAIN z : i + 1 \in DOMAIN q /\ i \in Nat
  BY <1>1
<1>3. ASSUME NEW i \in DOMAIN z, z[i] \in S, \A j \in DOMAIN z : j > i => z[j] \notin S
      PROVE  z[i] = x
  <2>1. i + 1 \in DOMAIN q /\ q[i + 1] \in S /\ q[i + 1] = z[i]
    BY <1>1, <1>2, <1>3
  <2>2. ASSUME NEW j \in DOMAIN q, j > i + 1 PROVE q[j] \notin S
    <3>1. j - 1 \in DOMAIN z /\ z[j - 1] = q[j] /\ j - 1 > i
      BY <1>2, <2>2
    <3> QED
      BY <1>3, <3>1
  <2> QED
    BY <2>1, <2>2 DEF EndsWith
<1>4. ASSUME None(z, S), Head(q) \in S PROVE Head(q) = x
  <2>1. ASSUME NEW j \in DOMAIN q, j > 1 PROVE q[j] \notin S
    <3>1. j - 1 \in DOMAIN z /\ z[j - 1] = q[j]
      BY <1>2, <2>1
    <3> QED
      BY <1>4, <3>1 DEF None
  <2> QED
    BY <1>1, <1>4, <2>1 DEF EndsWith
<1> QED
  BY <1>3, <1>4 DEF EndsWith, z

\* r says of S what q does.
Same(q, r, S) == /\ None(q, S) <=> None(r, S)
                 /\ \A x : EndsWith(q, S, x) => EndsWith(r, S, x)

LEMMA SameFacts ==
    ASSUME NEW M, NEW q \in Seq(M), NEW S
    PROVE  /\ Same(q, q, S)
           /\ \A m \in M : m \notin S => Same(q, Append(q, m), S)
           /\ q # <<>> /\ Head(q) \notin S => Same(q, Tail(q), S)
<1>1. Same(q, q, S)
  BY DEF Same
<1>2. ASSUME NEW m \in M, m \notin S PROVE Same(q, Append(q, m), S)
  BY <1>2, NoneAppended, EndAppended DEF Same
<1>3. ASSUME q # <<>>, Head(q) \notin S PROVE Same(q, Tail(q), S)
  BY <1>3, NoneShifted, EndShifted DEF Same
<1> QED
  BY <1>1, <1>2, <1>3

LEMMA VoiceFacts ==
    ASSUME NEW u \in Users
    PROVE  /\ \A m \in ServerMsgs :
                 /\ m \in About(u) <=> m.type \in {"ptt", "joined", "left"} /\ m.user = u
                 /\ m \in OwnPtt(u) <=> m.type = "ptt" /\ m.user = u
                 /\ m \in Rosters <=> m.type = "roster"
                 /\ m.type = "ptt" => m = [type |-> "ptt", user |-> m.user, active |-> m.active]
           /\ \A m \in ClientMsgs : m \in PttMsgs <=> m.type = "ptt"
           /\ \A m \in LinkMsgs : m \notin PttMsgs
           /\ JoinMsg \notin PttMsgs /\ RekeyMsg \notin PttMsgs
           /\ \A b \in BOOLEAN : PttMsg(b) \in PttMsgs
<1>1. ASSUME NEW m \in ServerMsgs
      PROVE  /\ m.type = "ptt" => m = [type |-> "ptt", user |-> m.user, active |-> m.active]
             /\ m.type \in {"joined", "left"} => m = [type |-> m.type, user |-> m.user]
             /\ m.type = "ptt" => m.active \in BOOLEAN
  BY DEF ServerMsgs
<1>2. \A m \in ServerMsgs : m \in OwnPtt(u) <=> m.type = "ptt" /\ m.user = u
  BY <1>1 DEF OwnPtt
<1>3. \A m \in ServerMsgs : m \in About(u) <=> m.type \in {"ptt", "joined", "left"} /\ m.user = u
  BY <1>1 DEF About
<1>4. \A m \in ServerMsgs : m \in Rosters <=> m.type = "roster"
  BY DEF Rosters
<1>5. \A m \in ClientMsgs : m \in PttMsgs <=> m.type = "ptt"
  BY ClientFacts DEF PttMsgs, PttMsg
<1>6. /\ \A m \in LinkMsgs : m \notin PttMsgs
      /\ JoinMsg \notin PttMsgs /\ RekeyMsg \notin PttMsgs
      /\ \A b \in BOOLEAN : PttMsg(b) \in PttMsgs
  BY DEF LinkMsgs, JoinMsg, RekeyMsg, PttMsg, PttMsgs
<1> QED
  BY <1>1, <1>2, <1>3, <1>4, <1>5, <1>6

LEMMA SelfStep ==
    ASSUME BaseInv, SelfInv, [Next]_vars
    PROVE  SelfInv'
<1>0. SUFFICES ASSUME NEW w \in Users PROVE w \notin speaking'[w] /\ None(inbox'[w], OwnPtt(w))
  BY DEF SelfInv, OwnPtt
<1>1. /\ w \notin speaking[w] /\ None(inbox[w], OwnPtt(w)) /\ inbox[w] \in Seq(ServerMsgs)
      /\ speaking \in [Users -> SUBSET Users] /\ inbox \in [Users -> Seq(ServerMsgs)]
  BY DEF SelfInv, BaseInv, TypeOK
<1>2. CASE UNCHANGED vars
  BY <1>1, <1>2 DEF vars
<1>3. ASSUME NEW u \in Users, EngineStep(u) PROVE w \notin speaking'[w] /\ None(inbox'[w], OwnPtt(w))
  <2>1. speaking' = speaking /\ (inbox' = inbox \/ inbox' = [inbox EXCEPT ![u] = <<>>])
    BY <1>3 DEF EngineStep
  <2>2. inbox'[w] = inbox[w] \/ inbox'[w] = <<>>
    BY <1>1, <2>1
  <2> QED
    BY <1>1, <2>1, <2>2, EmptyFacts
<1>4. ASSUME NEW u \in Users, Handling(u), Flags(u)
      PROVE  w \notin speaking'[w] /\ None(inbox'[w], OwnPtt(w))
  <2>1. CASE w # u
    BY <1>1, <1>4, <2>1 DEF Handling, Flags
  <2>2. CASE w = u
    <3>1. /\ Got(u) \in ServerMsgs /\ inbox[u] # <<>> /\ inbox'[u] = Tail(inbox[u]) /\ Got(u) = Head(inbox[u])
      BY <1>1, <1>4 DEF Handling, Got
    <3>2. None(inbox'[u], OwnPtt(u)) /\ Got(u) \notin OwnPtt(u)
      BY <1>1, <2>2, <3>1, NoneShifted
    <3>3. ~ (Got(u).type = "ptt" /\ Got(u).user = u)
      BY <3>1, <3>2, VoiceFacts
    <3>4. u \notin speaking'[u]
      BY <1>1, <1>4, <2>2, <3>3 DEF Flags
    <3> QED
      BY <2>2, <3>2, <3>4
  <2> QED
    BY <2>1, <2>2
<1>5. ASSUME NEW u \in Users, NEW s \in Sockets, HandlerStep(u, s)
      PROVE  w \notin speaking'[w] /\ None(inbox'[w], OwnPtt(w))
  <2>1. speaking' = speaking
    BY <1>5 DEF HandlerStep
  <2>2. ASSUME NEW m \in ServerMsgs, NEW members, NEW to, Sends(members, m, to), m.type # "ptt"
        PROVE  None(inbox'[w], OwnPtt(w))
    <3>1. m \notin OwnPtt(w)
      BY <2>2, VoiceFacts
    <3> QED
      BY <1>1, <2>2, <3>1, SendsLike DEF Like
  <2>3. CASE JoinStep(u, s)
    <3>1. [type |-> "joined", user |-> u] \in ServerMsgs
      BY ServerFacts
    <3> QED
      BY <1>1, <2>1, <2>2, <2>3, <3>1 DEF JoinStep
  <2>4. CASE RosterStep(u, s)
    <3>1. handler[u][s].roster \in SUBSET Users
      BY DEF BaseInv, TypeOK
    <3>2. [type |-> "roster", users |-> handler[u][s].roster] \in ServerMsgs
      BY <3>1, ServerFacts
    <3> QED
      BY <1>1, <2>1, <2>2, <2>4, <3>2 DEF RosterStep
  <2>5. CASE TurnStep(u, s)
    <3>1. [type |-> "turn"] \in ServerMsgs
      BY ServerFacts
    <3> QED
      BY <1>1, <2>1, <2>2, <2>5, <3>1 DEF TurnStep
  <2>6. CASE RelayStep(u, s)
    <3> DEFINE m == Head(wire[u][s])
               e == [type |-> m.type, user |-> u, pc |-> m.pc]
    <3>1. m.type \in {"offer", "answer"} /\ m.pc \in Nat \ {0} /\ Sends({m.to} \cap Listed, e, room)
      BY <2>6, ClientFacts DEF RelayStep
    <3>2. e \in ServerMsgs /\ e.type # "ptt"
      BY <3>1, ServerFacts
    <3> QED
      BY <1>1, <2>1, <2>2, <3>1, <3>2
  <2>7. CASE RekeyStep(u, s)
    <3>1. RekeyMsg \in ServerMsgs /\ RekeyMsg.type # "ptt"
      BY ServerFacts DEF RekeyMsg
    <3> QED
      BY <1>1, <2>1, <2>2, <2>7, <3>1 DEF RekeyStep
  <2>8. CASE PttStep(u, s)
    <3> DEFINE b == Head(wire[u][s]).active
               e == [type |-> "ptt", user |-> u, active |-> b]
    <3>1. b \in BOOLEAN /\ Sends(Listed \ {u}, e, room)
      BY <2>8, ClientFacts DEF PttStep, Reads
    <3> HIDE DEF b
    <3>2. e \in ServerMsgs /\ e.type = "ptt" /\ e.user = u
      BY <3>1, ServerFacts
    <3> HIDE DEF e
    <3>3. CASE w = u
      BY <1>1, <2>1, <3>1, <3>3 DEF Sends
    <3>4. CASE w # u
      <4>1. e \notin OwnPtt(w)
        BY <3>2, <3>4, VoiceFacts
      <4> QED
        BY <1>1, <2>1, <3>1, <3>2, <4>1, SendsLike DEF Like
    <3> QED
      BY <3>3, <3>4
  <2>9. CASE CleanupStep(u, s)
    <3>1. [type |-> "left", user |-> u] \in ServerMsgs
      BY ServerFacts
    <3> QED
      BY <1>1, <2>1, <2>2, <2>9, <3>1 DEF CleanupStep
  <2> QED
    BY <1>5, <2>3, <2>4, <2>5, <2>6, <2>7, <2>8, <2>9 DEF HandlerStep
<1>6. ASSUME NEW u \in Users, Gets(u), Handling(u) PROVE w \notin speaking'[w] /\ None(inbox'[w], OwnPtt(w))
  BY <1>4, <1>6, GetFacts DEF BaseInv
<1> QED
  BY <1>2, <1>3, <1>5, <1>6, StepFacts

LEMMA AloneStep ==
    ASSUME BaseInv, SocketInv, env.prompt, AloneInv, [Next]_vars
    PROVE  AloneInv'
<1>0. SUFFICES ASSUME NEW w \in Users, NEW t \in Sockets, t # sock'[w] PROVE handler'[w][t].phase = "closed"
  <2>1. 1 \in Sockets
    BY SquadAssumption DEF Sockets
  <2> QED
    BY <2>1 DEF AloneInv
<1>1. /\ \A s \in Sockets : s # sock[w] => handler[w][s].phase = "closed"
      /\ sock \in [Users -> 0 .. MaxSockets] /\ handler \in HandlerType
  BY DEF AloneInv, BaseInv, TypeOK, HandlerType, Phases
<1>2. CASE UNCHANGED vars
  BY <1>0, <1>1, <1>2 DEF vars
<1>3. ASSUME NEW u \in Users, EngineStep(u) PROVE handler'[w][t].phase = "closed"
  <2>1. CASE /\ engine[u] \in {"off", "down"} /\ Connected(u)
             /\ engine[u] = "down" => handler[u][sock[u]] = Closed
    <3>1. /\ sock' = [sock EXCEPT ![u] = sock[u] + 1]
          /\ handler'[w][t] = IF w = u /\ t = sock[u] + 1 THEN Opened ELSE handler[w][t]
      BY <2>1, ConnectedFacts DEF BaseInv
    <3>2. handler'[w][t] = handler[w][t]
      BY <1>0, <1>1, <3>1
    <3>3. CASE t # sock[w]
      BY <1>1, <3>2, <3>3
    <3>4. CASE t = sock[w]
      <4>1. w = u /\ t # 0
        BY <1>0, <1>1, <3>1, <3>4, TypeFacts DEF BaseInv
      <4>2. engine[u] = "down"
        BY <2>1, <3>4, <4>1 DEF BaseInv, StartedInv
      <4> QED
        BY <2>1, <3>2, <3>4, <4>1, <4>2 DEF Closed
    <3> QED
      BY <3>3, <3>4
  <2>2. CASE UNCHANGED <<sock, handler>>
    BY <1>0, <1>1, <2>2
  <2> QED
    BY <1>3, <2>1, <2>2 DEF EngineStep
<1>4. ASSUME NEW u \in Users, Handling(u) PROVE handler'[w][t].phase = "closed"
  BY <1>0, <1>1, <1>4 DEF Handling
<1>5. ASSUME NEW u \in Users, NEW s \in Sockets, HandlerStep(u, s) PROVE handler'[w][t].phase = "closed"
  <2>1. sock' = sock
    BY <1>5 DEF HandlerStep
  <2>2. handler[u][s].phase # "closed" /\ (w # u \/ t # s => handler'[w][t].phase = handler[w][t].phase)
    BY <1>1, <1>5 DEF HandlerStep, JoinStep, RosterStep, TurnStep, RelayStep, RekeyStep, PttStep, CleanupStep, HandlerType
  <2> QED
    BY <1>0, <1>1, <2>1, <2>2
<1> QED
  BY <1>2, <1>3, <1>4, <1>5, StepFacts

\* What is told stays told by a step that is not about it.
LEMMA TellsKept ==
    ASSUME NEW u \in Users, NEW v \in Users, Tells(u, v),
           Same(wire[v][sock[v]], wire'[v][sock'[v]], PttMsgs),
           Same(inbox[u], inbox'[u], About(v)),
           transmit'[v] = transmit[v], v \in speaking'[u] <=> v \in speaking[u]
    PROVE  Tells(u, v)'
<1>1. EndsWith(wire'[v][sock'[v]], PttMsgs, PttMsg(transmit'[v]))
  BY DEF Tells, Same
<1>2. ASSUME None(wire'[v][sock'[v]], PttMsgs)
      PROVE  /\ EndsWith(inbox'[u], About(v), [type |-> "ptt", user |-> v, active |-> transmit'[v]])
             /\ None(inbox'[u], About(v)) => (v \in speaking'[u] <=> transmit'[v])
  <2>1. None(wire[v][sock[v]], PttMsgs)
    BY <1>2 DEF Same
  <2>2. /\ EndsWith(inbox[u], About(v), [type |-> "ptt", user |-> v, active |-> transmit[v]])
        /\ None(inbox[u], About(v)) => (v \in speaking[u] <=> transmit[v])
    BY <2>1 DEF Tells
  <2>3. EndsWith(inbox'[u], About(v), [type |-> "ptt", user |-> v, active |-> transmit[v]])
    BY <2>2 DEF Same
  <2>4. None(inbox'[u], About(v)) => (v \in speaking'[u] <=> transmit'[v])
    BY <2>2 DEF Same
  <2> QED
    BY <2>3, <2>4
<1> QED
  BY <1>1, <1>2 DEF Tells, EndsWith, About, PttMsgs, None

\* What an engine or its user does.
LEMMA AiredEngine ==
    ASSUME BaseInv, AiredInv, NEW u \in Users, EngineStep(u)
    PROVE  AiredInv'
<1>0. SUFFICES ASSUME aired' # {} PROVE AiredInv'
  BY DEF AiredInv
<1>1. /\ \A w \in Users : inbox[w] \in Seq(ServerMsgs) /\ \A t \in Sockets : wire[w][t] \in Seq(ClientMsgs)
      /\ inbox \in [Users -> Seq(ServerMsgs)] /\ engine \in [Users -> {"off", "up", "down", "gone"}]
      /\ transmit \in [Users -> BOOLEAN] /\ aired \subseteq Users
  BY DEF BaseInv, TypeOK
<1>2. /\ \A w \in Users : IsPresent(w) => sock[w] \in Sockets
      /\ speaking' = speaking /\ room' = room
  BY <1>0, UpFacts DEF EngineStep, IsPresent
<1>3. CASE /\ engine[u] = "up" /\ <<u, sock[u]>> \in broken
           /\ engine' = [engine EXCEPT ![u] = "down"] /\ inbox' = [inbox EXCEPT ![u] = <<>>]
           /\ UNCHANGED <<sock, peers, uplink, speaking, transmit, wire, broken, handler, room, calm, aired>>
  <2>1. \A w \in Users : /\ IsPresent(w)' <=> IsPresent(w)
                         /\ IsPresent(w) => w # u
                         /\ inbox'[w] = IF w = u THEN <<>> ELSE inbox[w]
    BY <1>1, <1>3 DEF IsPresent, Carries
  <2>2. Everyone /\ \A v \in aired : IsPresent(v)
    BY <1>0, <1>3 DEF AiredInv
  <2>3. Everyone'
    BY <1>3, <2>1, <2>2, EmptyFacts DEF Everyone, Rosters, ServerMsgs, RekeyMsg
  <2>4. ASSUME NEW w \in Users, NEW v \in aired, IsPresent(w)', w # v PROVE Tells(w, v)'
    <3>1. Tells(w, v)
      BY <1>0, <1>3, <2>1, <2>4 DEF AiredInv
    <3>2. v \in Users /\ inbox'[w] = inbox[w] /\ sock[v] \in Sockets
      BY <1>1, <1>2, <2>1, <2>2, <2>4
    <3>3. Same(wire[v][sock[v]], wire'[v][sock'[v]], PttMsgs) /\ Same(inbox[w], inbox'[w], About(v))
      BY <1>3, <3>2 DEF Same
    <3> QED
      BY <1>3, <3>1, <3>2, <3>3, TellsKept
  <2>5. aired' = aired /\ aired \subseteq Users
    BY <1>1, <1>3
  <2> QED
    BY <2>1, <2>2, <2>3, <2>4, <2>5 DEF AiredInv
<1>4. ASSUME NEW m \in ClientMsgs, Writes(u, m),
             UNCHANGED <<engine, sock, speaking, inbox, broken, handler, room>>,
             \A v \in aired' : IsPresent(v), aired # {} => Everyone, Everyone,
             \A v \in aired' : (v \in aired /\ transmit'[v] = transmit[v] /\ (v # u \/ m \notin PttMsgs))
                               \/ (v = u /\ m = PttMsg(transmit'[v]) /\ m \in PttMsgs)
      PROVE  AiredInv'
  <2>1. Everyone' /\ \A w \in Users : IsPresent(w)' <=> IsPresent(w)
    BY <1>4 DEF Everyone, Rosters, ServerMsgs, IsPresent, Carries
  <2>2. aired' \subseteq Users
    BY <1>1, <1>4
  <2>3. ASSUME NEW w \in Users, NEW v \in aired', IsPresent(w), w # v PROVE Tells(w, v)'
    <3>1. v \in Users /\ Carries(v) /\ sock[v] \in Sockets /\ sock' = sock
      BY <1>2, <1>4, <2>2, <2>3 DEF IsPresent
    <3>2. wire'[v][sock[v]] = IF v = u THEN Append(wire[v][sock[v]], m) ELSE wire[v][sock[v]]
      BY <1>4, <3>1 DEF Writes
    <3>3. CASE v \in aired /\ transmit'[v] = transmit[v] /\ (v # u \/ m \notin PttMsgs)
      <4>1. Tells(w, v)
        BY <2>3, <3>3 DEF AiredInv
      <4>2. Same(wire[v][sock[v]], wire'[v][sock'[v]], PttMsgs)
        <5>1. wire[v][sock[v]] \in Seq(ClientMsgs)
          BY <1>1, <3>1
        <5>2. CASE v = u
          <6>1. m \notin PttMsgs /\ wire'[v][sock'[v]] = Append(wire[v][sock[v]], m)
            BY <3>1, <3>2, <3>3, <5>2
          <6> QED
            BY <5>1, <6>1, SameFacts
        <5>3. CASE v # u
          BY <3>1, <3>2, <5>3 DEF Same
        <5> QED
          BY <5>2, <5>3
      <4>3. Same(inbox[w], inbox'[w], About(v))
        BY <1>1, <1>4, SameFacts
      <4> QED
        BY <1>4, <3>1, <3>3, <4>1, <4>2, <4>3, TellsKept
    <3>4. CASE v = u /\ m = PttMsg(transmit'[v]) /\ m \in PttMsgs
      <4>1. wire[v][sock[v]] \in Seq(ClientMsgs) /\ wire'[v][sock'[v]] = Append(wire[v][sock[v]], m)
        BY <1>1, <3>1, <3>2, <3>4
      <4>2. ~ None(wire'[v][sock'[v]], PttMsgs) /\ EndsWith(wire'[v][sock'[v]], PttMsgs, m)
        BY <1>4, <3>4, <4>1, NoneAppended, EndAppended
      <4> QED
        BY <3>4, <4>2 DEF Tells, EndsWith, None, PttMsgs
    <3> QED
      BY <1>4, <3>3, <3>4
  <2> QED
    BY <1>4, <2>1, <2>2, <2>3 DEF AiredInv
<1>5. CASE /\ uplink[u] # <<>> /\ Head(uplink[u]) \in LinkMsgs
           /\ uplink' = [uplink EXCEPT ![u] = Tail(uplink[u])]
           /\ Writes(u, Head(uplink[u]))
           /\ UNCHANGED <<engine, sock, peers, speaking, transmit, inbox, broken, handler, room, calm, aired>>
  <2>1. Head(uplink[u]) \in ClientMsgs /\ Head(uplink[u]) \notin PttMsgs
    BY <1>5, ClientFacts, VoiceFacts
  <2>2. Everyone /\ \A v \in aired : IsPresent(v)
    BY <1>0, <1>5 DEF AiredInv
  <2> QED
    BY <1>4, <1>5, <2>1, <2>2
<1>6. CASE /\ Writes(u, RekeyMsg)
           /\ UNCHANGED <<engine, sock, peers, uplink, speaking, transmit, inbox, broken, handler, room, aired>>
  <2>1. RekeyMsg \in ClientMsgs /\ RekeyMsg \notin PttMsgs
    BY ClientFacts, VoiceFacts
  <2>2. Everyone /\ \A v \in aired : IsPresent(v)
    BY <1>0, <1>6 DEF AiredInv
  <2> QED
    BY <1>4, <1>6, <2>1, <2>2
<1>7. CASE /\ Writes(u, PttMsg(~ transmit[u])) /\ transmit' = [transmit EXCEPT ![u] = ~ transmit[u]]
           /\ aired' = IF IsPresent(u) /\ Introduced THEN aired \cup {u} ELSE aired \ {u}
           /\ UNCHANGED <<engine, sock, peers, uplink, speaking, inbox, broken, handler, room, calm>>
  <2> DEFINE b == ~ transmit[u]
  <2>1. b \in BOOLEAN /\ \A v \in Users : transmit'[v] = IF v = u THEN b ELSE transmit[v]
    BY <1>1, <1>7
  <2>2. PttMsg(b) \in ClientMsgs /\ PttMsg(b) \in PttMsgs
    BY <2>1, ClientFacts, VoiceFacts
  <2>3. Everyone
    <3>1. Introduced => Everyone
      BY DEF Introduced, Everyone, None, Rosters
    <3>2. aired # {} => Everyone
      BY DEF AiredInv
    <3> QED
      BY <1>0, <1>7, <3>1, <3>2
  <2>4. \A v \in aired' : IsPresent(v)
    <3>1. \A v \in aired : IsPresent(v)
      BY DEF AiredInv
    <3> QED
      BY <1>7, <3>1
  <2>5. Writes(u, PttMsg(b))
    BY <1>7
  <2> HIDE DEF b
  <2>6. \A v \in aired' : (v \in aired /\ transmit'[v] = transmit[v] /\ (v # u \/ PttMsg(b) \notin PttMsgs))
                          \/ (v = u /\ PttMsg(b) = PttMsg(transmit'[v]) /\ PttMsg(b) \in PttMsgs)
    BY <1>1, <1>7, <2>1, <2>2
  <2> QED
    BY <1>4, <1>7, <2>2, <2>3, <2>4, <2>5, <2>6
<1> QED
  BY <1>0, <1>3, <1>5, <1>6, <1>7 DEF EngineStep

\* The handling of a message.
LEMMA AiredGets ==
    ASSUME BaseInv, AiredInv, NEW u \in Users, Handling(u), Flags(u)
    PROVE  AiredInv'
<1>0. /\ \A w \in Users : inbox[w] \in Seq(ServerMsgs) /\ \A t \in Sockets : wire[w][t] \in Seq(ClientMsgs)
      /\ inbox \in [Users -> Seq(ServerMsgs)] /\ speaking \in [Users -> SUBSET Users]
      /\ transmit \in [Users -> BOOLEAN] /\ aired \subseteq Users
  BY DEF BaseInv, TypeOK
<1>1. SUFFICES ASSUME aired # {} PROVE AiredInv'
  BY DEF AiredInv, Handling
<1>2. /\ UNCHANGED <<engine, sock, transmit, wire, broken, handler, room, aired>>
      /\ Got(u) \in ServerMsgs /\ inbox[u] # <<>> /\ Got(u) = Head(inbox[u])
      /\ \A w \in Users : inbox'[w] = IF w = u THEN Tail(inbox[u]) ELSE inbox[w]
  BY <1>0 DEF Handling, Got
<1>3. Everyone /\ \A v \in aired : IsPresent(v)
  BY <1>1 DEF AiredInv
<1>4. None(inbox'[u], Rosters) /\ Got(u) \notin Rosters
  BY <1>0, <1>2, <1>3, NoneShifted DEF Everyone
<1>5. Got(u).type # "roster"
  BY <1>2, <1>4, VoiceFacts
<1>6. Everyone'
  BY <1>2, <1>3, <1>4 DEF Everyone, Rosters, ServerMsgs
<1>7. \A w \in Users : IsPresent(w)' <=> IsPresent(w)
  BY <1>2 DEF IsPresent, Carries
<1>8. ASSUME NEW w \in Users, NEW v \in aired, IsPresent(w), w # v PROVE Tells(w, v)'
  <2>1. Tells(w, v) /\ v \in Users /\ sock[v] \in Sockets
    BY <1>0, <1>3, <1>8, UpFacts DEF AiredInv, IsPresent
  <2>2. Same(wire[v][sock[v]], wire'[v][sock'[v]], PttMsgs) /\ transmit'[v] = transmit[v]
    BY <1>0, <1>2, <2>1, SameFacts
  <2>3. CASE w # u
    <3>1. inbox'[w] = inbox[w] /\ speaking'[w] = speaking[w]
      BY <1>0, <1>2, <2>3 DEF Flags
    <3>2. Same(inbox[w], inbox'[w], About(v))
      BY <1>0, <3>1, SameFacts
    <3> QED
      BY <2>1, <2>2, <3>1, <3>2, TellsKept
  <2>4. CASE w = u /\ Got(u) \notin About(v)
    <3>1. Same(inbox[w], inbox'[w], About(v))
      BY <1>0, <1>2, <2>4, SameFacts
    <3>2. v \in speaking'[w] <=> v \in speaking[w]
      <4>1. ~ (Got(u).type \in {"ptt", "joined", "left"} /\ Got(u).user = v)
        BY <1>2, <2>1, <2>4, VoiceFacts
      <4> QED
        BY <1>0, <1>5, <2>4, <4>1 DEF Flags
    <3> QED
      BY <2>1, <2>2, <3>1, <3>2, TellsKept
  <2>5. CASE w = u /\ Got(u) \in About(v)
    <3> DEFINE x == [type |-> "ptt", user |-> v, active |-> transmit[v]]
    <3>1. EndsWith(wire[v][sock[v]], PttMsgs, PttMsg(transmit[v]))
      BY <2>1 DEF Tells
    <3>2. ASSUME None(wire[v][sock[v]], PttMsgs)
          PROVE  /\ EndsWith(inbox'[w], About(v), x)
                 /\ None(inbox'[w], About(v)) => (v \in speaking'[w] <=> transmit[v])
      <4>1. EndsWith(inbox[w], About(v), x)
        BY <2>1, <3>2 DEF Tells
      <4> HIDE DEF x
      <4>2. /\ EndsWith(inbox'[w], About(v), x)
            /\ None(inbox'[w], About(v)) => Got(u) = x
        BY <1>0, <1>2, <2>5, <4>1, EndShifted
      <4>3. ASSUME Got(u) = x PROVE v \in speaking'[w] <=> transmit[v]
        <5>1. Got(u).type = "ptt" /\ Got(u).user = v /\ Got(u).active = transmit[v]
          BY <4>3 DEF x
        <5>2. speaking'[u] = IF Got(u).active THEN speaking[u] \cup {Got(u).user} ELSE speaking[u] \ {Got(u).user}
          BY <1>0, <5>1 DEF Flags
        <5> QED
          BY <2>5, <5>1, <5>2
      <4> QED
        BY <4>2, <4>3
    <3> HIDE DEF x
    <3>3. /\ EndsWith(wire'[v][sock'[v]], PttMsgs, PttMsg(transmit'[v]))
          /\ None(wire'[v][sock'[v]], PttMsgs) =>
                /\ EndsWith(inbox'[w], About(v), x)
                /\ None(inbox'[w], About(v)) => (v \in speaking'[w] <=> transmit'[v])
      BY <1>2, <3>1, <3>2 DEF EndsWith, None
    <3> QED
      BY <1>2, <3>3 DEF Tells, x, EndsWith, None, About, PttMsgs
  <2> QED
    BY <2>3, <2>4, <2>5
<1> QED
  BY <1>0, <1>2, <1>3, <1>6, <1>7, <1>8 DEF AiredInv

\* What a handler passes on, or ends.
LEMMA AiredServes ==
    ASSUME BaseInv, SocketInv, AloneInv, AiredInv, NEW u \in Users, NEW s \in Sockets, HandlerStep(u, s)
    PROVE  AiredInv'
<1>0. /\ \A w \in Users : inbox[w] \in Seq(ServerMsgs) /\ \A t \in Sockets : wire[w][t] \in Seq(ClientMsgs)
      /\ wire \in [Users -> [Sockets -> Seq(ClientMsgs)]] /\ room \in [Users -> 0 .. MaxSockets]
      /\ handler \in HandlerType /\ transmit \in [Users -> BOOLEAN] /\ aired \subseteq Users
  BY DEF BaseInv, TypeOK, HandlerType, Phases
<1>1. /\ UNCHANGED <<engine, sock, speaking, transmit, aired>>
      /\ \/ JoinStep(u, s) \/ RosterStep(u, s) \/ TurnStep(u, s)
         \/ RelayStep(u, s) \/ RekeyStep(u, s) \/ PttStep(u, s)
         \/ CleanupStep(u, s)
  BY DEF HandlerStep
<1>2. SUFFICES ASSUME aired # {} PROVE AiredInv'
  BY <1>1 DEF AiredInv
<1>3. Everyone /\ \A v \in aired : IsPresent(v)
  BY <1>2 DEF AiredInv
<1>4. \A w \in Users : /\ None(inbox[w], Rosters)
                       /\ \A t \in Sockets : handler[w][t].phase \in {"closed", "serving"}
  BY <1>3 DEF Everyone
<1>5. /\ RelayStep(u, s) \/ RekeyStep(u, s) \/ PttStep(u, s) \/ CleanupStep(u, s)
      /\ handler[u][s].phase = "serving" /\ s = sock[u]
  <2>1. handler[u][s].phase \in {"closed", "serving"}
    BY <1>4
  <2>2. handler[u][s].phase # "closed"
    BY <1>1 DEF JoinStep, RosterStep, TurnStep, RelayStep, RekeyStep, PttStep, CleanupStep
  <2>3. s = sock[u]
    BY <2>2 DEF AloneInv
  <2> QED
    BY <1>1, <2>1, <2>2, <2>3 DEF JoinStep, RosterStep, TurnStep
<1>6. \A v \in aired : v \in Users /\ Carries(v) /\ sock[v] \in Sockets /\ room[v] = sock[v]
  BY <1>0, <1>3, UpFacts DEF IsPresent
<1>7. ASSUME NEW members, NEW d \in ServerMsgs, Sends(members, d, room), d.type # "roster"
      PROVE  \A w \in Users : /\ Carries(w)' <=> Carries(w)
                              /\ inbox'[w] = IF w \in members /\ Carries(w) /\ room[w] = sock[w]
                                             THEN Append(inbox[w], d) ELSE inbox[w]
                              /\ None(inbox'[w], Rosters)
                              /\ \A S : d \notin S => Same(inbox[w], inbox'[w], S)
  <2>1. \A w \in Users : Carries(w)' <=> Carries(w)
    BY <1>1, <1>7, SentFacts
  <2>2. \A w \in Users : inbox'[w] = IF w \in members /\ Carries(w) /\ room[w] = sock[w]
                                     THEN Append(inbox[w], d) ELSE inbox[w]
    BY <1>7 DEF Sends
  <2>3. \A w \in Users : inbox'[w] = inbox[w] \/ inbox'[w] = Append(inbox[w], d)
    BY <2>2
  <2>4. \A w \in Users : \A S : d \notin S => Same(inbox[w], inbox'[w], S)
    BY <1>0, <1>7, <2>3, SameFacts
  <2>5. \A w \in Users : None(inbox'[w], Rosters)
    <3>1. d \notin Rosters
      BY <1>7 DEF Rosters
    <3> QED
      BY <1>4, <2>4, <3>1 DEF Same
  <2> QED
    BY <2>1, <2>2, <2>4, <2>5
<1>8. ASSUME Reads(u, s, {"offer", "answer", "rekey", "ptt"}), room' = room, handler' = handler,
             NEW members, NEW d \in ServerMsgs, Sends(members, d, room), d.type # "roster",
             \A w \in Users, v \in aired : IsPresent(w) /\ w # v /\ Tells(w, v) => Tells(w, v)'
      PROVE  AiredInv'
  <2>1. \A w \in Users : IsPresent(w)' <=> IsPresent(w)
    BY <1>1, <1>7, <1>8 DEF IsPresent
  <2>2. Everyone'
    BY <1>4, <1>7, <1>8 DEF Everyone, Rosters, ServerMsgs
  <2>3. \A w \in Users, v \in aired : IsPresent(w) /\ w # v => Tells(w, v)
    BY <1>2 DEF AiredInv
  <2> QED
    BY <1>0, <1>1, <1>3, <1>8, <2>1, <2>2, <2>3 DEF AiredInv
<1>9. CASE RelayStep(u, s) \/ RekeyStep(u, s)
  <2> DEFINE m == Head(wire[u][s])
  <2>1. PICK members \in SUBSET Users, d \in ServerMsgs : Sends(members, d, room) /\ d.type \in {"offer", "answer", "rekey"}
    <3>0. Listed \in SUBSET Users
      BY DEF Listed
    <3>1. CASE RekeyStep(u, s)
      <4>1. RekeyMsg \in ServerMsgs /\ RekeyMsg.type = "rekey" /\ Sends(Listed, RekeyMsg, room)
        BY <3>1, ServerFacts DEF RekeyStep, RekeyMsg
      <4> QED
        BY <3>0, <4>1
    <3>2. CASE RelayStep(u, s)
      <4> DEFINE e == [type |-> m.type, user |-> u, pc |-> m.pc]
                 those == {m.to} \cap Listed
      <4>1. m.type \in {"offer", "answer"} /\ m.pc \in Nat \ {0} /\ Sends(those, e, room)
        BY <3>2, ClientFacts DEF RelayStep
      <4> HIDE DEF m
      <4>2. e \in ServerMsgs /\ e.type \in {"offer", "answer"}
        BY <4>1, ServerFacts
      <4>3. those \in SUBSET Users
        BY <3>0
      <4> HIDE DEF e, those
      <4> QED
        BY <4>1, <4>2, <4>3
    <3> QED
      BY <1>9, <3>1, <3>2
  <2>2. /\ Reads(u, s, {"offer", "answer", "rekey", "ptt"}) /\ room' = room /\ handler' = handler
        /\ m \notin PttMsgs
    <3>1. m \in ClientMsgs /\ m.type \in {"offer", "answer", "rekey"}
      BY <1>9 DEF RelayStep, RekeyStep, Reads
    <3> QED
      BY <1>9, <3>1, VoiceFacts DEF RelayStep, RekeyStep, Reads
  <2>3. ASSUME NEW w \in Users, NEW v \in aired, Tells(w, v) PROVE Tells(w, v)'
    <3>1. v \in Users /\ sock[v] \in Sockets /\ wire[v][sock[v]] \in Seq(ClientMsgs)
      BY <1>0, <1>6
    <3>2. wire'[v][sock[v]] = wire[v][sock[v]]
          \/ (wire[v][sock[v]] # <<>> /\ m = Head(wire[v][sock[v]]) /\ wire'[v][sock[v]] = Tail(wire[v][sock[v]]))
      BY <2>2, <3>1 DEF Reads
    <3> HIDE DEF m
    <3>3. Same(wire[v][sock[v]], wire'[v][sock'[v]], PttMsgs)
      BY <1>1, <2>2, <3>1, <3>2, SameFacts
    <3>4. d \notin About(v)
      BY <2>1, <3>1, VoiceFacts
    <3>5. Same(inbox[w], inbox'[w], About(v))
      BY <1>7, <2>1, <3>4
    <3> QED
      BY <1>1, <2>3, <3>1, <3>3, <3>5, TellsKept
  <2> QED
    BY <1>8, <2>1, <2>2, <2>3
<1>10. CASE PttStep(u, s)
  <2> DEFINE m == Head(wire[u][s])
             d == [type |-> "ptt", user |-> u, active |-> m.active]
             those == Listed \ {u}
  <2>1. /\ Reads(u, s, {"offer", "answer", "rekey", "ptt"}) /\ room' = room /\ handler' = handler
        /\ m \in ClientMsgs /\ m.type = "ptt" /\ Sends(those, d, room)
        /\ wire[u][s] # <<>> /\ m = Head(wire[u][s])
        /\ \A w \in Users : \A t \in Sockets : wire'[w][t] = IF w = u /\ t = s THEN Tail(wire[u][s]) ELSE wire[w][t]
    BY <1>10 DEF PttStep, Reads
  <2> HIDE DEF m
  <2>2. m.active \in BOOLEAN /\ m = PttMsg(m.active) /\ m \in PttMsgs
    BY <2>1, ClientFacts, VoiceFacts
  <2>3. d \in ServerMsgs /\ d.type = "ptt" /\ d.user = u /\ d.active = m.active
    BY <2>2, ServerFacts
  <2>4. \A w \in Users : w \in those <=> w # u /\ room[w] # 0
    BY DEF Listed
  <2>5. d = [type |-> "ptt", user |-> u, active |-> m.active]
    OBVIOUS
  <2> HIDE DEF d, those
  <2>6. ASSUME NEW w \in Users, NEW v \in aired, IsPresent(w), w # v, Tells(w, v) PROVE Tells(w, v)'
    <3>1. v \in Users /\ sock[v] \in Sockets /\ wire[v][sock[v]] \in Seq(ClientMsgs)
      BY <1>0, <1>6
    <3>2. CASE v # u
      <4>1. Same(wire[v][sock[v]], wire'[v][sock'[v]], PttMsgs)
        BY <1>1, <2>1, <3>1, <3>2, SameFacts
      <4>2. d \notin About(v)
        BY <2>3, <3>1, <3>2, VoiceFacts
      <4>3. Same(inbox[w], inbox'[w], About(v))
        BY <1>7, <2>1, <2>3, <4>2
      <4> QED
        BY <1>1, <2>6, <3>1, <4>1, <4>3, TellsKept
    <3>3. CASE v = u
      <4>1. /\ wire'[v][sock'[v]] = Tail(wire[v][sock[v]]) /\ wire[v][sock[v]] # <<>>
            /\ m = Head(wire[v][sock[v]])
        BY <1>1, <1>5, <2>1, <3>1, <3>3
      <4>2. EndsWith(wire[v][sock[v]], PttMsgs, PttMsg(transmit[v]))
        BY <2>6 DEF Tells
      <4>3. /\ EndsWith(wire'[v][sock'[v]], PttMsgs, PttMsg(transmit[v]))
            /\ None(wire'[v][sock'[v]], PttMsgs) => m = PttMsg(transmit[v])
        BY <2>2, <3>1, <4>1, <4>2, EndShifted
      <4>4. m = PttMsg(transmit[v]) => m.active = transmit[v]
        BY DEF PttMsg
      <4>5. inbox'[w] = Append(inbox[w], d) /\ d \in About(v) /\ inbox[w] \in Seq(ServerMsgs)
        <5>1. Carries(w) /\ room[w] = sock[w] /\ room[w] # 0
          BY <2>6, UpFacts DEF IsPresent
        <5>2. d \in About(v)
          BY <2>3, <3>3, VoiceFacts
        <5>3. w \in those
          BY <2>4, <2>6, <3>3, <5>1
        <5>4. inbox'[w] = Append(inbox[w], d)
          BY <2>1, <5>1, <5>3 DEF Sends
        <5> QED
          BY <1>0, <5>2, <5>4
      <4>6. EndsWith(inbox'[w], About(v), d) /\ ~ None(inbox'[w], About(v))
        BY <2>3, <4>5, NoneAppended, EndAppended
      <4>7. transmit'[v] = transmit[v]
        BY <1>1
      <4>8. None(wire'[v][sock'[v]], PttMsgs) => d = [type |-> "ptt", user |-> v, active |-> transmit[v]]
        BY <2>5, <3>3, <4>3, <4>4
      <4> QED
        BY <4>3, <4>6, <4>7, <4>8 DEF Tells, EndsWith, None, About, PttMsgs
    <3> QED
      BY <3>2, <3>3
  <2> QED
    BY <1>8, <2>1, <2>3, <2>6
<1>11. CASE CleanupStep(u, s)
  <2> DEFINE d == [type |-> "left", user |-> u]
             those == Listed \ {u}
  <2>1. /\ <<u, s>> \in broken /\ room' = [room EXCEPT ![u] = 0] /\ Sends(those, d, room)
        /\ \A w \in Users, t \in Sockets :
              /\ w # u \/ t # s => handler'[w][t] = handler[w][t] /\ wire'[w][t] = wire[w][t]
              /\ w = u /\ t = s => handler'[w][t].phase = "closed"
    BY <1>0, <1>5, <1>11 DEF CleanupStep, HandlerType, Closed
  <2>2. d \in ServerMsgs /\ d.type = "left" /\ d.user = u
    BY ServerFacts
  <2> HIDE DEF d, those
  <2>3. ~ Carries(u)
    BY <1>5, <2>1 DEF Carries
  <2>4. u \notin aired
    BY <1>6, <2>3
  <2>5. \A w \in Users : IsPresent(w)' <=> IsPresent(w)
    <3>1. \A w \in Users : Carries(w)' <=> Carries(w)
      BY <1>7, <2>1, <2>2
    <3>2. \A w \in Users : w # u => room'[w] = room[w]
      BY <1>0, <2>1
    <3> QED
      BY <1>1, <2>3, <3>1, <3>2 DEF IsPresent
  <2>6. Everyone'
    BY <1>4, <1>7, <2>1, <2>2 DEF Everyone, Rosters, ServerMsgs
  <2>7. ASSUME NEW w \in Users, NEW v \in aired, IsPresent(w), w # v PROVE Tells(w, v)'
    <3>1. /\ v \in Users /\ sock[v] \in Sockets /\ v # u /\ Tells(w, v)
          /\ wire[v][sock[v]] \in Seq(ClientMsgs)
      BY <1>0, <1>6, <2>4, <2>7 DEF AiredInv
    <3>2. Same(wire[v][sock[v]], wire'[v][sock'[v]], PttMsgs)
      BY <1>1, <2>1, <3>1, SameFacts
    <3>3. d \notin About(v)
      BY <2>2, <3>1, VoiceFacts
    <3>4. Same(inbox[w], inbox'[w], About(v))
      BY <1>7, <2>1, <2>2, <3>3
    <3> QED
      BY <1>1, <3>1, <3>2, <3>4, TellsKept
  <2> QED
    BY <1>0, <1>1, <1>3, <2>5, <2>6, <2>7 DEF AiredInv
<1> QED
  BY <1>5, <1>9, <1>10, <1>11

\* Who is shown as speaking, where the server notices a loss in time.
ShownInv == SelfInv /\ (env.prompt => AloneInv /\ AiredInv)
VoiceInv == BaseInv /\ SocketInv /\ ShownInv

LEMMA VoiceInit == ASSUME Init PROVE VoiceInv
<1>1. BaseInv /\ SocketInv
  BY LinkInit DEF LinkInv
<1>2. SelfInv
  BY EmptyFacts DEF Init, SelfInv
<1>3. AloneInv
  BY DEF Init, AloneInv, Closed
<1>4. AiredInv
  BY DEF Init, AiredInv
<1> QED
  BY <1>1, <1>2, <1>3, <1>4 DEF VoiceInv, ShownInv

LEMMA VoiceStep == ASSUME VoiceInv, [Next]_vars PROVE VoiceInv'
<1>1. BaseInv /\ SocketInv /\ SelfInv /\ (env.prompt => AloneInv /\ AiredInv)
  BY DEF VoiceInv, ShownInv
<1>2. BaseInv' /\ SocketInv' /\ SelfInv'
  BY <1>1, TypeStep, SocketStep, SelfStep
<1>3. env' = env
  BY <1>1, StepFacts DEF vars
<1>4. ASSUME env.prompt PROVE AiredInv'
  <2>1. AloneInv /\ AiredInv
    BY <1>1, <1>4
  <2>2. CASE UNCHANGED vars
    BY <2>1, <2>2 DEF vars, AiredInv, Everyone, Rosters, ServerMsgs, IsPresent, Carries, Tells, EndsWith, None, About, PttMsgs
  <2>3. ASSUME NEW u \in Users, EngineStep(u) PROVE AiredInv'
    BY <1>1, <2>1, <2>3, AiredEngine
  <2>4. ASSUME NEW u \in Users, Gets(u) PROVE AiredInv'
    BY <1>1, <2>1, <2>4, AiredGets, GetFacts DEF BaseInv
  <2>5. ASSUME NEW u \in Users, NEW s \in Sockets, HandlerStep(u, s) PROVE AiredInv'
    BY <1>1, <2>1, <2>5, AiredServes
  <2> QED
    BY <1>1, <2>2, <2>3, <2>4, <2>5, StepFacts
<1>5. env.prompt => AloneInv'
  BY <1>1, AloneStep
<1> QED
  BY <1>2, <1>3, <1>4, <1>5 DEF VoiceInv, ShownInv

LEMMA ShownWhenQuiet == ASSUME VoiceInv, env.prompt PROVE SpeakingIsShown
<1>1. SUFFICES ASSUME Quiet, NEW u \in Users, NEW v \in aired, IsPresent(u)
               PROVE  v \in Speakers(u) <=> transmit[v]
  BY DEF SpeakingIsShown
<1>2. /\ SelfInv /\ AiredInv /\ BaseInv /\ v \in Users /\ transmit \in [Users -> BOOLEAN]
  BY DEF VoiceInv, ShownInv, BaseInv, TypeOK
<1>3. CASE u = v
  BY <1>2, <1>3 DEF SelfInv, Speakers
<1>4. CASE u # v
  <2>1. Tells(u, v) /\ IsPresent(v)
    BY <1>1, <1>2, <1>4 DEF AiredInv
  <2>2. sock[v] \in Sockets
    BY <1>2, <2>1, UpFacts DEF IsPresent
  <2>3. wire[v][sock[v]] = <<>> /\ inbox[u] = <<>>
    BY <1>1, <1>2, <2>2 DEF Quiet, IsIdle
  <2>4. v \in speaking[u] <=> transmit[v]
    BY <2>1, <2>3, EmptyFacts DEF Tells
  <2> QED
    BY <1>4, <2>4 DEF Speakers
<1> QED
  BY <1>3, <1>4

\* However many users there are, whoever comes, leaves, breaks or rekeys: where the
\* server notices a lost socket before its user is back, a push-to-talk made when
\* everybody was introduced is shown right to everyone in the room, once nothing is
\* in flight (lib.rs:412-415, 447-463, server main.rs:565-579).
THEOREM SpeakersAreShown == Spec => [](env.prompt => SpeakingIsShown)
<1>1. Init => VoiceInv
  BY VoiceInit
<1>2. VoiceInv /\ [Next]_vars => VoiceInv'
  BY VoiceStep
<1>3. VoiceInv => (env.prompt => SpeakingIsShown)
  BY ShownWhenQuiet
<1> QED
  BY <1>1, <1>2, <1>3, PTL DEF Spec

-----------------------------------------------------------------------------
(* Where no socket breaks: what a step is.                                 *)

\* A user has one socket, and loses it only by leaving.  Until the handler has
\* read its Join nothing is sent to it, and from then on it is listed.
Holds(u) ==
    /\ engine[u] # "down" /\ sock[u] <= 1
    /\ engine[u] # "off" => u \in env.members
    /\ \A s \in Sockets : <<u, s>> \in broken => engine[u] = "gone"
    /\ engine[u] # "up" => \A v \in Users : peers[u][v] = Absent
    /\ engine[u] = "up" /\ room[u] = 0 => /\ handler[u][1].phase = "open" /\ inbox[u] = <<>>
                                          /\ \A v \in Users : peers[u][v] = Absent
    /\ handler[u][1].phase \in {"joined", "welcomed", "serving"} => room[u] # 0
HoldInv == \A u \in Users : Holds(u)
HeldInv == BaseInv /\ SocketInv /\ HoldInv

LEMMA HeldFacts ==
    ASSUME HeldInv
    PROVE  /\ 1 \in Sockets
           /\ \A w \in Users :
                 /\ sock[w] = IF engine[w] = "off" THEN 0 ELSE 1
                 /\ engine[w] \in {"off", "up", "gone"}
                 /\ room[w] \in {0, 1} /\ (room[w] # 0 => engine[w] # "off")
                 /\ Carries(w) <=> engine[w] = "up"
                 /\ IsPresent(w) <=> engine[w] = "up" /\ room[w] # 0
                 /\ engine[w] # "up" => inbox[w] = <<>>
                 /\ \A s \in Sockets : s # 1 => handler[w][s].phase = "closed" /\ wire[w][s] = <<>>
                 /\ engine[w] = "off" => handler[w][1].phase = "closed" /\ wire[w][1] = <<>>
                 /\ engine[w] = "up" => handler[w][1].phase # "closed"
<1>1. 1 \in Sockets
  BY SquadAssumption DEF Sockets
<1>2. ASSUME NEW w \in Users
      PROVE  /\ sock[w] = IF engine[w] = "off" THEN 0 ELSE 1
             /\ engine[w] \in {"off", "up", "gone"}
             /\ room[w] \in {0, 1} /\ (room[w] # 0 => engine[w] # "off")
             /\ Carries(w) <=> engine[w] = "up"
             /\ IsPresent(w) <=> engine[w] = "up" /\ room[w] # 0
             /\ engine[w] # "up" => inbox[w] = <<>>
             /\ \A s \in Sockets : s # 1 => handler[w][s].phase = "closed" /\ wire[w][s] = <<>>
             /\ engine[w] = "off" => handler[w][1].phase = "closed" /\ wire[w][1] = <<>>
             /\ engine[w] = "up" => handler[w][1].phase # "closed"
  <2>1. /\ sock[w] \in Nat /\ room[w] \in Nat /\ (engine[w] # "off" => sock[w] \in Sockets)
        /\ engine[w] \in {"off", "up", "down", "gone"} /\ (engine[w] # "up" => inbox[w] = <<>>)
        /\ \A s \in Sockets : s \in Nat /\ s # 0
    BY TypeFacts, UpFacts DEF HeldInv, BaseInv, TypeOK
  <2>2. /\ engine[w] = "off" <=> sock[w] = 0
        /\ engine[w] # "down" /\ sock[w] <= 1
        /\ \A s \in Sockets : <<w, s>> \in broken => engine[w] = "gone"
        /\ room[w] <= sock[w]
    BY DEF HeldInv, BaseInv, StartedInv, SocketInv, HoldInv, Holds
  <2>3. sock[w] \in {0, 1} /\ room[w] \in {0, 1} /\ (sock[w] = 0 => room[w] = 0)
    BY <2>1, <2>2
  <2>4. Carries(w) <=> engine[w] = "up"
    BY <2>1, <2>2 DEF Carries
  <2>5. \A s \in Sockets : s > sock[w] => handler[w][s].phase = "closed" /\ wire[w][s] = <<>>
    BY DEF HeldInv, SocketInv
  <2>6. \A s \in Sockets : s # 1 \/ sock[w] = 0 => s > sock[w]
    BY <2>1, <2>3
  <2>7. \A s \in Sockets : s # 1 \/ sock[w] = 0 => handler[w][s].phase = "closed" /\ wire[w][s] = <<>>
    BY <2>5, <2>6
  <2>8. handler[w][1].phase = "closed" => 1 > sock[w] \/ <<w, 1>> \in broken
    BY <1>1 DEF HeldInv, SocketInv
  <2>9. engine[w] = "up" => handler[w][1].phase # "closed"
    BY <1>1, <2>1, <2>2, <2>3, <2>8
  <2> QED
    BY <1>1, <2>1, <2>2, <2>3, <2>4, <2>7, <2>9 DEF IsPresent
<1> QED
  BY <1>1, <1>2

\* The steps of an engine and its user.
StartStep(u) ==
    /\ engine[u] = "off" /\ u \in env.members
    /\ engine' = [engine EXCEPT ![u] = "up"] /\ sock' = [sock EXCEPT ![u] = 1]
    /\ \A w \in Users : \A s \in Sockets :
          /\ wire'[w][s] = IF w = u /\ s = 1 THEN <<JoinMsg>> ELSE wire[w][s]
          /\ handler'[w][s] = IF w = u /\ s = 1 THEN Opened ELSE handler[w][s]
    /\ UNCHANGED <<peers, uplink, inbox, broken, room>>
LeaveStep(u) ==
    /\ engine[u] = "up" /\ ("leave" \in env.patient => Settled)
    /\ engine' = [engine EXCEPT ![u] = "gone"] /\ inbox' = [inbox EXCEPT ![u] = <<>>]
    /\ peers' = [peers EXCEPT ![u] = [v \in Users |-> Absent]]
    /\ uplink' = [uplink EXCEPT ![u] = <<>>]
    /\ broken' \subseteq broken \cup {<<u, 1>>}
    /\ UNCHANGED <<sock, wire, handler, room>>
ForwardStep(u) ==
    /\ uplink[u] # <<>> /\ Head(uplink[u]) \in LinkMsgs
    /\ uplink' = [uplink EXCEPT ![u] = Tail(uplink[u])]
    /\ Writes(u, Head(uplink[u]))
    /\ UNCHANGED <<engine, sock, peers, inbox, broken, handler, room>>
CommandStep(u) ==
    /\ engine[u] = "up" /\ ("rekey" \in env.patient => Settled)
    /\ Writes(u, RekeyMsg)
    /\ UNCHANGED <<engine, sock, peers, uplink, inbox, broken, handler, room>>
TalkStep(u) ==
    /\ \E b \in BOOLEAN : Writes(u, PttMsg(b))
    /\ UNCHANGED <<engine, sock, peers, uplink, inbox, broken, handler, room>>
HeldStep(u) == StartStep(u) \/ LeaveStep(u) \/ ForwardStep(u) \/ CommandStep(u) \/ TalkStep(u)

LEMMA HeldEngine ==
    ASSUME HeldInv, env.droppers = {}, NEW u \in Users, Command(u) \/ Engine(u), ~ Gets(u)
    PROVE  HeldStep(u)
<1>0. /\ BaseInv /\ engine[u] # "down" /\ 1 \in Sockets
      /\ sock[u] = IF engine[u] = "off" THEN 0 ELSE 1
      /\ \A s \in Sockets : <<u, s>> \in broken => engine[u] = "gone"
  BY HeldFacts DEF HeldInv, HoldInv, Holds
<1>1. CASE Start(u)
  <2>1. /\ u \in env.members /\ engine[u] = "off" /\ Connected(u)
        /\ UNCHANGED <<peers, uplink, inbox, broken, room>>
    BY <1>1 DEF Start
  <2>2. sock[u] + 1 = 1
    BY <1>0, <2>1
  <2> QED
    BY <1>0, <2>1, <2>2, ConnectedFacts DEF BaseInv, StartStep, HeldStep
<1>2. CASE Break(u) \/ SignalingLost(u) \/ Reconnect(u)
  BY <1>0, <1>2 DEF Break, SignalingLost, Reconnect
<1>3. CASE Disconnect(u)
  BY <1>0, <1>3 DEF Disconnect, serverVars, LeaveStep, HeldStep
<1>4. CASE Forward(u)
  <2>1. uplink[u] # <<>> /\ Head(uplink[u]) \in LinkMsgs
    BY <1>0, <1>4, TailFacts DEF Forward, BaseInv, UplinkInv
  <2>2. Writes(u, Head(uplink[u]))
    BY <1>0, <1>4, <2>1, ClientFacts, WritesFacts DEF Forward, BaseInv
  <2> QED
    BY <1>4, <2>1, <2>2 DEF Forward, serverVars, ForwardStep, HeldStep
<1>5. CASE CommandRekey(u)
  <2>1. Writes(u, RekeyMsg)
    BY <1>0, <1>5, ClientFacts, WritesFacts DEF CommandRekey, BaseInv
  <2> QED
    BY <1>0, <1>5, <2>1 DEF CommandRekey, engineVars, serverVars, CommandStep, HeldStep
<1>6. CASE CommandTalk(u)
  <2>1. PttMsg(~ transmit[u]) \in ClientMsgs /\ (~ transmit[u]) \in BOOLEAN
    BY <1>0, ClientFacts DEF BaseInv, TypeOK
  <2>2. Writes(u, PttMsg(~ transmit[u]))
    BY <1>0, <1>6, <2>1, WritesFacts DEF CommandTalk, BaseInv
  <2> QED
    BY <1>6, <2>1, <2>2 DEF CommandTalk, serverVars, TalkStep, HeldStep
<1> QED
  BY <1>1, <1>2, <1>3, <1>4, <1>5, <1>6 DEF Command, Engine, Gets

\* The steps of a handler.  What the server sends reaches those who are up.
Reaches(members, m) ==
    /\ m \in ServerMsgs
    /\ \A w \in Users : inbox'[w] = IF w \in members /\ engine[w] = "up" THEN Append(inbox[w], m)
                                                                       ELSE inbox[w]
Becomes(u, h) == \A w \in Users : \A s \in Sockets :
                     handler'[w][s] = IF w = u /\ s = 1 THEN h ELSE handler[w][s]
GreetStep(u) ==
    /\ handler[u][1].phase = "open" /\ Reads(u, 1, {"join"})
    /\ room[u] = 0 /\ room' = [room EXCEPT ![u] = 1]
    /\ Becomes(u, [phase |-> "joined", roster |-> Listed \ {u}])
    /\ Reaches(Listed \ {u}, [type |-> "joined", user |-> u])
ListStep(u) ==
    /\ handler[u][1].phase = "joined"
    /\ Becomes(u, [phase |-> "welcomed", roster |-> {}])
    /\ Reaches({u}, [type |-> "roster", users |-> handler[u][1].roster])
    /\ UNCHANGED <<wire, room>>
ServingStep(u) ==
    /\ handler[u][1].phase = "welcomed"
    /\ Becomes(u, [phase |-> "serving", roster |-> handler[u][1].roster])
    /\ Reaches({u}, [type |-> "turn"])
    /\ UNCHANGED <<wire, room>>
PassStep(u) ==
    /\ RelayStep(u, 1)
    /\ LET m == Head(wire[u][1])
       IN  Reaches({m.to} \cap Listed, [type |-> m.type, user |-> u, pc |-> m.pc])
AllStep(u) ==
    /\ handler[u][1].phase = "serving" /\ Reads(u, 1, {"rekey"})
    /\ Reaches(Listed, RekeyMsg)
    /\ UNCHANGED <<handler, room>>
VoiceStepOf(u) ==
    /\ handler[u][1].phase = "serving" /\ Reads(u, 1, {"ptt"})
    /\ \E b \in BOOLEAN : Reaches(Listed \ {u}, [type |-> "ptt", user |-> u, active |-> b])
    /\ UNCHANGED <<handler, room>>
EndStep(u) ==
    /\ engine[u] = "gone" /\ Becomes(u, Closed)
    /\ \A w \in Users : \A s \in Sockets :
          wire'[w][s] = IF w = u /\ s = 1 THEN <<>> ELSE wire[w][s]
    /\ \/ UNCHANGED <<room, inbox>>
       \/ /\ room' = [room EXCEPT ![u] = 0]
          /\ Reaches(Listed \ {u}, [type |-> "left", user |-> u])
ServeStep(u) ==
    /\ UNCHANGED <<engine, sock, peers, uplink>>
    /\ \A w \in Users : \A s : <<w, s>> \in broken' => <<w, s>> \in broken \/ engine[w] = "gone"
    /\ \/ GreetStep(u) \/ ListStep(u) \/ ServingStep(u) \/ PassStep(u) \/ AllStep(u)
       \/ VoiceStepOf(u) \/ EndStep(u)

LEMMA ReachesFacts ==
    ASSUME HeldInv, NEW members, NEW m \in ServerMsgs, NEW to, Sends(members, m, to),
           \A w \in members \cap Users : to[w] = 1
    PROVE  Reaches(members, m)
<1>1. SUFFICES ASSUME NEW w \in Users
               PROVE  inbox'[w] = IF w \in members /\ engine[w] = "up" THEN Append(inbox[w], m) ELSE inbox[w]
  BY DEF Reaches
<1>2. (Carries(w) <=> engine[w] = "up") /\ (engine[w] = "up" => sock[w] = 1)
  BY HeldFacts
<1>3. inbox'[w] = IF w \in members /\ Carries(w) /\ to[w] = sock[w] THEN Append(inbox[w], m) ELSE inbox[w]
  BY DEF Sends
<1> QED
  BY <1>2, <1>3

LEMMA HeldHandler ==
    ASSUME HeldInv, NEW u \in Users, NEW s \in Sockets, HandlerStep(u, s)
    PROVE  ServeStep(u)
<1>0. /\ 1 \in Sockets /\ handler \in HandlerType /\ room \in [Users -> 0 .. MaxSockets]
      /\ wire \in [Users -> [Sockets -> Seq(ClientMsgs)]] /\ BaseInv /\ SocketInv
  BY HeldFacts DEF HeldInv, BaseInv, TypeOK, HandlerType, Phases
<1>1. /\ UNCHANGED <<engine, sock, peers, uplink>>
      /\ \/ JoinStep(u, s) \/ RosterStep(u, s) \/ TurnStep(u, s)
         \/ RelayStep(u, s) \/ RekeyStep(u, s) \/ PttStep(u, s)
         \/ CleanupStep(u, s)
  BY DEF HandlerStep
<1>2. handler[u][s].phase # "closed"
  BY <1>1 DEF JoinStep, RosterStep, TurnStep, RelayStep, RekeyStep, PttStep, CleanupStep
<1>3. s = 1 /\ room[u] \in {0, 1} /\ engine[u] # "off"
  BY <1>2, HeldFacts
<1>4. \A w \in Users : room[w] # 0 => room[w] = 1
  BY HeldFacts
<1>5. \A w \in Users : \A t : <<w, t>> \in broken' => <<w, t>> \in broken \/ engine[w] = "gone"
  BY <1>1 DEF JoinStep, RosterStep, TurnStep, RelayStep, RekeyStep, PttStep, CleanupStep, Sends
<1>6. \A h : handler' = [handler EXCEPT ![u][s] = h] => Becomes(u, h)
  BY <1>0, <1>3 DEF Becomes, HandlerType
<1>7. \A members \in SUBSET Listed : \A m \in ServerMsgs : Sends(members, m, room) => Reaches(members, m)
  <2>1. ASSUME NEW members \in SUBSET Listed, NEW m \in ServerMsgs, Sends(members, m, room)
        PROVE  Reaches(members, m)
    <3>1. \A w \in members \cap Users : room[w] = 1
      BY <1>4, <2>1 DEF Listed
    <3> QED
      BY <2>1, <3>1, ReachesFacts
  <2> QED
    BY <2>1
<1>8. \A m \in ServerMsgs : Sends({u}, m, [room EXCEPT ![u] = s]) => Reaches({u}, m)
  <2>1. ASSUME NEW m \in ServerMsgs, Sends({u}, m, [room EXCEPT ![u] = s])
        PROVE  Reaches({u}, m)
    <3>1. \A w \in {u} \cap Users : [room EXCEPT ![u] = s][w] = 1
      BY <1>0, <1>3
    <3> QED
      BY <2>1, <3>1, ReachesFacts
  <2> QED
    BY <2>1
<1>9. CASE JoinStep(u, s)
  <2>1. /\ handler[u][1].phase = "open" /\ Reads(u, 1, {"join"})
        /\ room' = [room EXCEPT ![u] = 1] /\ Becomes(u, [phase |-> "joined", roster |-> Listed \ {u}])
    BY <1>3, <1>6, <1>9 DEF JoinStep
  <2>2. room[u] = 0
    <3>1. room[u] # 1
      BY <1>0, <2>1 DEF SocketInv
    <3> QED
      BY <1>3, <3>1
  <2>3. Reaches(Listed \ {u}, [type |-> "joined", user |-> u])
    BY <1>7, <1>9, ServerFacts DEF JoinStep
  <2> QED
    BY <1>1, <1>5, <2>1, <2>2, <2>3 DEF GreetStep, ServeStep
<1>10. CASE RosterStep(u, s)
  <2>1. handler[u][s].roster \in SUBSET Users
    BY <1>0 DEF HandlerType
  <2>2. Reaches({u}, [type |-> "roster", users |-> handler[u][1].roster])
    BY <1>3, <1>8, <1>10, <2>1, ServerFacts DEF RosterStep
  <2> QED
    BY <1>1, <1>3, <1>5, <1>6, <1>10, <2>2 DEF RosterStep, ListStep, ServeStep
<1>11. CASE TurnStep(u, s)
  <2>1. Becomes(u, [phase |-> "serving", roster |-> handler[u][1].roster])
    <3>1. handler[u][1] \in [phase : Phases, roster : SUBSET Users]
      BY <1>0 DEF HandlerType
    <3>2. [handler[u][1] EXCEPT !.phase = "serving"] = [phase |-> "serving", roster |-> handler[u][1].roster]
      BY <3>1
    <3>3. \A w \in Users : \A t \in Sockets :
              handler'[w][t] = IF w = u /\ t = 1 THEN [handler[u][1] EXCEPT !.phase = "serving"]
                                                ELSE handler[w][t]
      BY <1>0, <1>3, <1>11 DEF TurnStep, HandlerType
    <3> QED
      BY <3>2, <3>3 DEF Becomes
  <2>2. Reaches({u}, [type |-> "turn"])
    BY <1>8, <1>11, ServerFacts DEF TurnStep
  <2> QED
    BY <1>1, <1>3, <1>5, <1>11, <2>1, <2>2 DEF TurnStep, ServingStep, ServeStep
<1>12. CASE RelayStep(u, s)
  <2> DEFINE m == Head(wire[u][1])
             e == [type |-> m.type, user |-> u, pc |-> m.pc]
  <2>1. RelayStep(u, 1) /\ Sends({m.to} \cap Listed, e, room)
    BY <1>3, <1>12 DEF RelayStep
  <2>2. m.type \in {"offer", "answer"} /\ m.pc \in Nat \ {0}
    BY <2>1, ClientFacts DEF RelayStep
  <2> HIDE DEF m
  <2>3. e \in ServerMsgs
    BY <2>2, ServerFacts
  <2>4. Reaches({m.to} \cap Listed, e)
    BY <1>7, <2>1, <2>3
  <2> QED
    BY <1>1, <1>5, <2>1, <2>4 DEF PassStep, ServeStep, m
<1>13. CASE RekeyStep(u, s)
  <2>1. Reaches(Listed, RekeyMsg)
    BY <1>7, <1>13, ServerFacts DEF RekeyStep
  <2> QED
    BY <1>1, <1>3, <1>5, <1>13, <2>1 DEF RekeyStep, AllStep, ServeStep
<1>14. CASE PttStep(u, s)
  <2> DEFINE b == Head(wire[u][s]).active
  <2>1. b \in BOOLEAN /\ Sends(Listed \ {u}, [type |-> "ptt", user |-> u, active |-> b], room)
    BY <1>14, ClientFacts DEF PttStep, Reads
  <2> HIDE DEF b
  <2>2. Reaches(Listed \ {u}, [type |-> "ptt", user |-> u, active |-> b])
    BY <1>7, <2>1, ServerFacts
  <2> QED
    BY <1>1, <1>3, <1>5, <1>14, <2>1, <2>2 DEF PttStep, VoiceStepOf, ServeStep
<1>15. CASE CleanupStep(u, s)
  <2>1. engine[u] = "gone" /\ Becomes(u, Closed)
    BY <1>3, <1>6, <1>15 DEF CleanupStep, HeldInv, HoldInv, Holds
  <2>2. \A w \in Users : \A t \in Sockets : wire'[w][t] = IF w = u /\ t = 1 THEN <<>> ELSE wire[w][t]
    BY <1>0, <1>3, <1>15 DEF CleanupStep
  <2>3. \/ UNCHANGED <<room, inbox>>
        \/ /\ room' = [room EXCEPT ![u] = 0]
           /\ Reaches(Listed \ {u}, [type |-> "left", user |-> u])
    BY <1>7, <1>15, ServerFacts DEF CleanupStep
  <2> QED
    BY <1>1, <1>5, <2>1, <2>2, <2>3 DEF EndStep, ServeStep
<1> QED
  BY <1>1, <1>9, <1>10, <1>11, <1>12, <1>13, <1>14, <1>15

\* Every step, where no socket breaks.
LEMMA HeldSteps ==
    ASSUME HeldInv, env.droppers = {}, [Next]_vars
    PROVE  /\ env' = env
           /\ \/ UNCHANGED vars
              \/ \E u \in Users : HeldStep(u) \/ Gets(u) \/ ServeStep(u)
<1>0. BaseInv
  BY DEF HeldInv
<1>1. CASE UNCHANGED vars
  BY <1>1 DEF vars
<1>2. CASE Next
  <2>1. PICK u \in Users : Command(u) \/ Engine(u) \/ Handler(u)
    BY <1>2 DEF Next
  <2>2. env' = env
    BY <2>1 DEF Command, Engine, Handler
  <2>3. CASE (Command(u) \/ Engine(u)) /\ ~ Gets(u)
    BY <2>2, <2>3, HeldEngine
  <2>4. CASE Handler(u)
    BY <1>0, <2>2, <2>4, HandlerFacts, HeldHandler DEF BaseInv
  <2> QED
    BY <2>1, <2>2, <2>3, <2>4
<1> QED
  BY <1>1, <1>2

LEMMA HoldStep ==
    ASSUME HeldInv, env.droppers = {}, [Next]_vars
    PROVE  HoldInv'
<1>0. /\ env' = env /\ 1 \in Sockets
      /\ \/ UNCHANGED vars
         \/ \E u \in Users : HeldStep(u) \/ Gets(u) \/ ServeStep(u)
  BY HeldSteps, HeldFacts
<1>1. SUFFICES ASSUME NEW w \in Users PROVE Holds(w)'
  BY DEF HoldInv
<1>2. /\ Holds(w) /\ BaseInv
      /\ sock[w] = IF engine[w] = "off" THEN 0 ELSE 1
      /\ engine[w] \in {"off", "up", "gone"} /\ room[w] \in {0, 1}
      /\ (room[w] # 0 => engine[w] # "off") /\ (engine[w] # "up" => inbox[w] = <<>>)
      /\ \A s \in Sockets : s # 1 => handler[w][s].phase = "closed"
      /\ engine[w] = "off" => handler[w][1].phase = "closed"
  BY HeldFacts DEF HeldInv, HoldInv
<1>3. /\ engine \in [Users -> {"off", "up", "down", "gone"}] /\ sock \in [Users -> 0 .. MaxSockets]
      /\ inbox \in [Users -> Seq(ServerMsgs)] /\ room \in [Users -> 0 .. MaxSockets]
      /\ peers \in [Users -> [Users -> Ends \cup {Absent}]]
  BY <1>2 DEF BaseInv, TypeOK
<1>4. CASE UNCHANGED vars
  BY <1>2, <1>4 DEF vars, Holds
<1>5. ASSUME NEW u \in Users, HeldStep(u) PROVE Holds(w)'
  <2>1. CASE StartStep(u)
    <3>1. /\ u \in env.members
          /\ engine'[w] = IF w = u THEN "up" ELSE engine[w]
          /\ sock'[w] = IF w = u THEN 1 ELSE sock[w]
          /\ handler'[w][1] = IF w = u THEN Opened ELSE handler[w][1]
          /\ UNCHANGED <<peers, inbox, broken, room>>
      BY <1>0, <1>3, <2>1 DEF StartStep
    <3>2. CASE w # u
      BY <1>0, <1>2, <3>1, <3>2 DEF Holds
    <3>3. CASE w = u
      <4>1. engine[u] = "off" /\ \A v \in Users : peers[u][v] = Absent
        BY <1>2, <2>1, <3>3 DEF StartStep, Holds
      <4>2. \A s \in Sockets : <<w, s>> \notin broken
        BY <1>2, <3>3, <4>1 DEF Holds
      <4> QED
        BY <1>0, <1>2, <3>1, <3>3, <4>1, <4>2 DEF Holds, Opened
    <3> QED
      BY <3>2, <3>3
  <2>2. CASE LeaveStep(u)
    <3>1. /\ engine'[w] = IF w = u THEN "gone" ELSE engine[w]
          /\ inbox'[w] = IF w = u THEN <<>> ELSE inbox[w]
          /\ \A v \in Users : peers'[w][v] = IF w = u THEN Absent ELSE peers[w][v]
          /\ \A s : <<w, s>> \in broken' => <<w, s>> \in broken \/ w = u
          /\ UNCHANGED <<sock, handler, room>> /\ engine[u] = "up"
      BY <1>3, <2>2 DEF LeaveStep
    <3> QED
      BY <1>0, <1>2, <3>1 DEF Holds
  <2>3. CASE ForwardStep(u) \/ CommandStep(u) \/ TalkStep(u)
    <3>1. UNCHANGED <<engine, sock, peers, inbox, broken, handler, room>>
      BY <2>3 DEF ForwardStep, CommandStep, TalkStep
    <3> QED
      BY <1>0, <1>2, <3>1 DEF Holds
  <2> QED
    BY <1>5, <2>1, <2>2, <2>3 DEF HeldStep
<1>6. ASSUME NEW u \in Users, Gets(u) PROVE Holds(w)'
  <2>1. Handling(u)
    BY <1>2, <1>6, GetFacts DEF BaseInv
  <2>2. /\ UNCHANGED <<engine, sock, broken, handler, room>> /\ engine[u] = "up" /\ inbox[u] # <<>>
        /\ w # u => inbox'[w] = inbox[w] /\ \A v \in Users : peers'[w][v] = peers[w][v]
    BY <1>3, <2>1 DEF Handling
  <2> QED
    BY <1>0, <1>2, <2>2 DEF Holds
<1>7. ASSUME NEW u \in Users, ServeStep(u) PROVE Holds(w)'
  <2>1. /\ UNCHANGED <<engine, sock, peers>>
        /\ \A s : <<w, s>> \in broken' => <<w, s>> \in broken \/ engine[w] = "gone"
    BY <1>7 DEF ServeStep
  <2>2. SUFFICES /\ engine'[w] = "up" /\ room'[w] = 0 => handler'[w][1].phase = "open" /\ inbox'[w] = <<>> /\ room[w] = 0
                 /\ handler'[w][1].phase \in {"joined", "welcomed", "serving"} => room'[w] # 0
    BY <1>0, <1>2, <2>1 DEF Holds
  <2>3. /\ engine[w] = "up" /\ room[w] = 0 => handler[w][1].phase = "open" /\ inbox[w] = <<>>
        /\ handler[w][1].phase \in {"joined", "welcomed", "serving"} => room[w] # 0
    BY <1>2 DEF Holds
  <2>4. CASE GreetStep(u)
    <3>1. /\ room'[w] = IF w = u THEN 1 ELSE room[w]
          /\ w # u => handler'[w][1] = handler[w][1]
          /\ room[w] = 0 => inbox'[w] = inbox[w]
      BY <1>0, <1>3, <2>4 DEF GreetStep, Becomes, Reaches, Listed
    <3> QED
      BY <2>1, <2>3, <3>1
  <2>5. CASE ListStep(u) \/ ServingStep(u)
    <3>1. /\ room' = room /\ (w # u => handler'[w][1] = handler[w][1] /\ inbox'[w] = inbox[w])
          /\ handler[u][1].phase \in {"joined", "welcomed"}
      BY <1>0, <2>5 DEF ListStep, ServingStep, Becomes, Reaches
    <3> QED
      BY <2>1, <2>3, <3>1
  <2>6. CASE PassStep(u) \/ AllStep(u) \/ VoiceStepOf(u)
    <3>1. room' = room /\ handler' = handler /\ (room[w] = 0 => inbox'[w] = inbox[w])
      BY <2>6 DEF PassStep, RelayStep, AllStep, VoiceStepOf, Reaches, Listed
    <3> QED
      BY <2>1, <2>3, <3>1
  <2>7. CASE EndStep(u)
    <3>1. /\ w # u => handler'[w][1] = handler[w][1] /\ room'[w] = room[w]
          /\ w = u => handler'[w][1].phase = "closed"
          /\ room[w] = 0 => inbox'[w] = inbox[w]
          /\ engine[u] = "gone"
      BY <1>0, <1>3, <2>7 DEF EndStep, Becomes, Reaches, Listed, Closed
    <3> QED
      BY <2>1, <2>3, <3>1
  <2> QED
    BY <1>7, <2>4, <2>5, <2>6, <2>7 DEF ServeStep
<1> QED
  BY <1>0, <1>4, <1>5, <1>6, <1>7

-----------------------------------------------------------------------------
(* Where no socket breaks, and users leave when all is settled.            *)

\* Messages that name v, tell that it left, or come from it.
Naming(v)   == {m \in ServerMsgs : Names(m, v)}
Leaving(v)  == {m \in ServerMsgs : Leaves(m, v)}
Mentions(v) == Naming(v) \cup Leaving(v) \cup From(v)
LeftMsg(v)  == [type |-> "left", user |-> v]

\* Of a user who is not listed the last that u hears is that it left, or u has no
\* end to it.
Hushed(u, v) ==
    /\ \A s \in Sockets : handler[u][s].phase = "joined" => v \notin handler[u][s].roster
    /\ EndsWith(inbox[u], Mentions(v), LeftMsg(v))
    /\ None(inbox[u], Mentions(v)) => peers[u][v] = Absent
GoneInv == \A u, v \in Users : u # v /\ room[v] = 0 => Hushed(u, v)

\* Nobody is on the way into the room, and whoever could come has come.
Inside == \A u \in Users : /\ u \in env.members => engine[u] # "off"
                           /\ \A s \in Sockets : handler[u][s].phase \in {"closed", "serving"}
LeaveInv == (\E u \in Users : engine[u] = "gone") => Inside

LEMMA MentionFacts ==
    ASSUME NEW v \in Users
    PROVE  /\ \A m \in ServerMsgs : /\ m \in Naming(v) <=> Names(m, v)
                                    /\ m \in Leaving(v) <=> Leaves(m, v)
                                    /\ m \in Mentions(v) <=> \/ Names(m, v) \/ Leaves(m, v)
                                                             \/ m.type \in {"offer", "answer"} /\ m.user = v
           /\ LeftMsg(v) \in ServerMsgs /\ Leaves(LeftMsg(v), v)
           /\ \A m : m \in Mentions(v) <=> m \in Naming(v) \/ m \in Leaving(v) \/ m \in From(v)
           /\ \A m \in {RekeyMsg, [type |-> "turn"]} : m \notin Mentions(v)
           /\ \A w \in Users : \A b \in BOOLEAN : [type |-> "ptt", user |-> w, active |-> b] \notin Mentions(v)
           /\ \A w \in Users : w # v => /\ [type |-> "joined", user |-> w] \notin Mentions(v)
                                        /\ LeftMsg(w) \notin Mentions(v)
           /\ \A S \in SUBSET Users : v \notin S => [type |-> "roster", users |-> S] \notin Mentions(v)
<1>1. \A m \in ServerMsgs : m \in Mentions(v) <=> \/ Names(m, v) \/ Leaves(m, v)
                                                  \/ m.type \in {"offer", "answer"} /\ m.user = v
  BY KindFacts DEF Mentions, Naming, Leaving
<1>2. LeftMsg(v) \in ServerMsgs /\ Leaves(LeftMsg(v), v)
  BY ServerFacts DEF LeftMsg, Leaves
<1>3. \A m \in {RekeyMsg, [type |-> "turn"]} : m \notin Mentions(v)
  BY DEF Mentions, Naming, Leaving, Names, Leaves, From, RekeyMsg
<1>4. \A w \in Users : \A b \in BOOLEAN : [type |-> "ptt", user |-> w, active |-> b] \notin Mentions(v)
  BY DEF Mentions, Naming, Leaving, Names, Leaves, From
<1>5. \A w \in Users : w # v => /\ [type |-> "joined", user |-> w] \notin Mentions(v)
                                /\ LeftMsg(w) \notin Mentions(v)
  BY DEF Mentions, Naming, Leaving, Names, Leaves, From, LeftMsg
<1>6. \A S \in SUBSET Users : v \notin S => [type |-> "roster", users |-> S] \notin Mentions(v)
  BY DEF Mentions, Naming, Leaving, Names, Leaves, From
<1> QED
  BY <1>1, <1>2, <1>3, <1>4, <1>5, <1>6 DEF Mentions, Naming, Leaving

LEMMA SettledFacts ==
    ASSUME HeldInv, Settled
    PROVE  /\ Inside
           /\ \A u \in Users : /\ inbox[u] = <<>> /\ uplink[u] = <<>>
                               /\ \A s \in Sockets : wire[u][s] = <<>>
                               /\ engine[u] = "up" => room[u] # 0
<1>1. \A u \in Users : /\ inbox[u] = <<>> /\ uplink[u] = <<>>
                       /\ \A s \in Sockets : /\ wire[u][s] = <<>>
                                             /\ handler[u][s].phase \in {"closed", "serving"}
  BY DEF Settled, Quiet, IsIdle
<1>2. ASSUME NEW u \in Users
      PROVE  (u \in env.members => engine[u] # "off") /\ (engine[u] = "up" => room[u] # 0)
  <2>1. /\ IsPresent(u) => engine[u] = "up" /\ room[u] # 0
        /\ engine[u] # "off" => u \in env.members
    BY HeldFacts DEF HeldInv, HoldInv, Holds
  <2> QED
    BY <2>1 DEF Settled
<1> QED
  BY <1>1, <1>2 DEF Inside

LEMMA InsideStep ==
    ASSUME HeldInv, env.droppers = {}, [Next]_vars, Inside
    PROVE  Inside'
<1>0. /\ env' = env /\ 1 \in Sockets /\ BaseInv
      /\ \/ UNCHANGED vars
         \/ \E u \in Users : HeldStep(u) \/ Gets(u) \/ ServeStep(u)
      /\ engine \in [Users -> {"off", "up", "down", "gone"}]
  BY HeldSteps, HeldFacts DEF HeldInv, BaseInv, TypeOK
<1>1. \A w \in Users : /\ w \in env.members => engine[w] # "off"
                       /\ \A s \in Sockets : handler[w][s].phase \in {"closed", "serving"}
  BY DEF Inside
<1>2. CASE UNCHANGED vars
  BY <1>1, <1>2 DEF vars, Inside
<1>3. ASSUME NEW u \in Users, HeldStep(u) PROVE Inside'
  <2>1. ~ StartStep(u)
    BY <1>1 DEF StartStep
  <2>2. handler' = handler /\ (engine' = engine \/ engine' = [engine EXCEPT ![u] = "gone"])
    BY <1>3, <2>1 DEF HeldStep, LeaveStep, ForwardStep, CommandStep, TalkStep
  <2> QED
    BY <1>0, <1>1, <2>2 DEF Inside
<1>4. ASSUME NEW u \in Users, Gets(u) PROVE Inside'
  BY <1>0, <1>1, <1>4, GetFacts DEF Handling, Inside, BaseInv
<1>5. ASSUME NEW u \in Users, ServeStep(u) PROVE Inside'
  <2>1. handler[u][1].phase \in {"closed", "serving"}
    BY <1>0, <1>1
  <2>2. handler' = handler \/ Becomes(u, Closed)
    BY <1>5, <2>1 DEF ServeStep, GreetStep, ListStep, ServingStep, PassStep, RelayStep, AllStep, VoiceStepOf, EndStep
  <2>3. engine' = engine /\ Closed.phase = "closed"
    BY <1>5 DEF ServeStep, Closed
  <2> QED
    BY <1>0, <1>1, <2>2, <2>3 DEF Inside, Becomes
<1> QED
  BY <1>0, <1>2, <1>3, <1>4, <1>5

LEMMA LeaveInvStep ==
    ASSUME HeldInv, env.droppers = {}, "leave" \in env.patient, LeaveInv, [Next]_vars
    PROVE  LeaveInv'
<1>0. /\ BaseInv /\ engine \in [Users -> {"off", "up", "down", "gone"}]
      /\ \/ UNCHANGED vars
         \/ \E u \in Users : HeldStep(u) \/ Gets(u) \/ ServeStep(u)
  BY HeldSteps DEF HeldInv, BaseInv, TypeOK
<1>1. SUFFICES ASSUME NEW w \in Users, engine'[w] = "gone" PROVE Inside
  BY InsideStep DEF LeaveInv
<1>2. CASE engine[w] = "gone"
  BY <1>2 DEF LeaveInv
<1>3. CASE engine[w] # "gone"
  <2>1. ~ UNCHANGED vars
    BY <1>1, <1>3 DEF vars
  <2>2. \A u \in Users : ~ ServeStep(u) /\ ~ Gets(u)
    BY <1>0, <1>1, <1>3, GetFacts DEF ServeStep, Handling, BaseInv
  <2>3. PICK u \in Users : HeldStep(u)
    BY <1>0, <2>1, <2>2
  <2>4. LeaveStep(u)
    BY <1>0, <1>1, <1>3, <2>3 DEF HeldStep, StartStep, ForwardStep, CommandStep, TalkStep
  <2> QED
    BY <2>4, SettledFacts DEF LeaveStep
<1> QED
  BY <1>2, <1>3

LEMMA GoneStep ==
    ASSUME HeldInv, env.droppers = {}, LeaveInv, GoneInv, [Next]_vars
    PROVE  GoneInv'
<1>0. /\ 1 \in Sockets /\ BaseInv
      /\ \/ UNCHANGED vars
         \/ \E w \in Users : HeldStep(w) \/ Gets(w) \/ ServeStep(w)
  BY HeldSteps, HeldFacts DEF HeldInv
<1>1. SUFFICES ASSUME NEW u \in Users, NEW v \in Users, u # v, room'[v] = 0 PROVE Hushed(u, v)'
  BY DEF GoneInv
<1>2. /\ engine \in [Users -> {"off", "up", "down", "gone"}] /\ room \in [Users -> 0 .. MaxSockets]
      /\ inbox \in [Users -> Seq(ServerMsgs)] /\ inbox[u] \in Seq(ServerMsgs)
      /\ peers \in [Users -> [Users -> Ends \cup {Absent}]]
  BY <1>0 DEF BaseInv, TypeOK
<1>3. /\ room[v] = 0 => Hushed(u, v)
      /\ \A w \in Users : handler[w][1].phase \in {"joined", "welcomed", "serving"} => room[w] # 0
      /\ \A s \in Sockets : s # 1 => handler[u][s].phase = "closed"
  BY <1>1, HeldFacts DEF GoneInv, HeldInv, HoldInv, Holds
<1> DEFINE M == Mentions(v)
<1> HIDE DEF M
\* What changes nothing that v is mentioned in.
<1>4. ASSUME room[v] = 0, peers'[u][v] = peers[u][v],
             inbox'[u] = inbox[u] \/ \E m \in ServerMsgs : m \notin M /\ inbox'[u] = Append(inbox[u], m),
             \A s \in Sockets : handler'[u][s].phase = "joined" =>
                 \/ handler[u][s].phase = "joined" /\ handler'[u][s].roster = handler[u][s].roster
                 \/ v \notin handler'[u][s].roster
      PROVE  Hushed(u, v)'
  <2>1. Hushed(u, v)
    BY <1>3, <1>4
  <2>2. Same(inbox[u], inbox'[u], M)
    <3>1. CASE inbox'[u] = inbox[u]
      BY <1>2, <3>1, SameFacts
    <3>2. CASE \E m \in ServerMsgs : m \notin M /\ inbox'[u] = Append(inbox[u], m)
      <4>1. PICK m \in ServerMsgs : m \notin M /\ inbox'[u] = Append(inbox[u], m)
        BY <3>2
      <4>2. Same(inbox[u], Append(inbox[u], m), M)
        BY <1>2, <4>1, SameFacts
      <4> QED
        BY <4>1, <4>2
    <3> QED
      BY <1>4, <3>1, <3>2
  <2>3. /\ EndsWith(inbox'[u], M, LeftMsg(v))
        /\ None(inbox'[u], M) => peers'[u][v] = Absent
    BY <1>4, <2>1, <2>2 DEF Same, Hushed, M
  <2>4. \A s \in Sockets : handler'[u][s].phase = "joined" => v \notin handler'[u][s].roster
    BY <1>4, <2>1 DEF Hushed
  <2> QED
    BY <2>3, <2>4 DEF Hushed, M, Mentions, Naming, Leaving, LeftMsg, From, ServerMsgs, EndsWith, None
<1>5. CASE UNCHANGED vars
  BY <1>1, <1>4, <1>5 DEF vars
<1>6. ASSUME NEW w \in Users, HeldStep(w) PROVE Hushed(u, v)'
  <2>1. room[v] = 0
    BY <1>1, <1>6 DEF HeldStep, StartStep, LeaveStep, ForwardStep, CommandStep, TalkStep
  <2>2. CASE LeaveStep(w) /\ w = u
    <3>1. inbox'[u] = <<>> /\ peers'[u][v] = Absent /\ handler' = handler
      BY <1>2, <2>2 DEF LeaveStep
    <3>2. Hushed(u, v)
      BY <1>3, <2>1
    <3> QED
      BY <3>1, <3>2 DEF Hushed, EndsWith
  <2>3. CASE LeaveStep(w) /\ w # u
    <3>1. inbox'[u] = inbox[u] /\ peers'[u] = peers[u] /\ handler' = handler
      BY <1>2, <2>3 DEF LeaveStep
    <3> QED
      BY <1>4, <2>1, <3>1
  <2>4. CASE StartStep(w)
    <3>1. /\ inbox'[u] = inbox[u] /\ peers'[u] = peers[u]
          /\ \A s \in Sockets : handler'[u][s] = handler[u][s] \/ handler'[u][s].phase = "open"
      BY <2>4 DEF StartStep, Opened
    <3> QED
      BY <1>4, <2>1, <3>1
  <2>5. CASE ForwardStep(w) \/ CommandStep(w) \/ TalkStep(w)
    <3>1. inbox' = inbox /\ peers' = peers /\ handler' = handler
      BY <2>5 DEF ForwardStep, CommandStep, TalkStep
    <3> QED
      BY <1>4, <2>1, <3>1
  <2> QED
    BY <1>6, <2>2, <2>3, <2>4, <2>5 DEF HeldStep
<1>7. ASSUME NEW w \in Users, Gets(w) PROVE Hushed(u, v)'
  <2>1. Handling(w) /\ Keeps(w, v) /\ \E q \in Seq(LinkMsgs) : Queues(w, q)
    BY <1>0, <1>7, GetFacts DEF BaseInv
  <2>2. /\ room[v] = 0 /\ handler' = handler /\ inbox[w] # <<>>
        /\ inbox'[u] = IF w = u THEN Tail(inbox[u]) ELSE inbox[u]
        /\ w # u => peers'[u][v] = peers[u][v]
    BY <1>1, <1>2, <2>1 DEF Handling
  <2>3. Hushed(u, v)
    BY <1>3, <2>2
  <2>4. CASE w # u
    BY <1>4, <2>2, <2>4
  <2>5. CASE w = u
    <3>1. inbox'[u] = Tail(inbox[u]) /\ inbox[u] # <<>> /\ Got(u) = Head(inbox[u]) /\ Got(u) \in ServerMsgs
      BY <2>1, <2>2, <2>5 DEF Handling, Got
    <3>2. EndsWith(inbox[u], M, LeftMsg(v)) /\ (None(inbox[u], M) => peers[u][v] = Absent)
      BY <2>3 DEF Hushed, M
    <3>3. /\ EndsWith(inbox'[u], M, LeftMsg(v))
          /\ None(inbox'[u], M) /\ Got(u) \in M => Got(u) = LeftMsg(v)
          /\ None(inbox'[u], M) /\ Got(u) \notin M => None(inbox[u], M)
      BY <1>2, <3>1, <3>2, EndShifted, NoneShifted
    <3>4. ASSUME None(inbox'[u], M) PROVE peers'[u][v] = Absent
      <4>1. CASE Got(u) = LeftMsg(v)
        BY <2>1, <2>5, <4>1, MentionFacts DEF Keeps
      <4>2. CASE Got(u) \notin M
        <5>1. peers[u][v] = Absent
          BY <3>2, <3>3, <3>4, <4>2
        <5>2. ~ (Names(Got(u), v) \/ Leaves(Got(u), v) \/ (Got(u).type \in {"offer", "answer"} /\ Got(u).user = v))
          BY <3>1, <4>2, MentionFacts DEF M
        <5>3. PICK q \in Seq(LinkMsgs) : Greets(u, v, q) /\ Passes(u, v, q)
          BY <2>1, <2>5 DEF Queues
        <5>4. CASE Welcomes(Got(u))
          BY <5>1, <5>2, <5>3, <5>4 DEF Greets
        <5>5. CASE ~ Welcomes(Got(u))
          BY <5>1, <5>2, <5>3, <5>5 DEF Passes, Concerns, Leaves
        <5> QED
          BY <5>4, <5>5
      <4> QED
        BY <3>3, <3>4, <4>1, <4>2
    <3>5. \A s \in Sockets : handler'[u][s].phase = "joined" => v \notin handler'[u][s].roster
      BY <2>2, <2>3 DEF Hushed
    <3> QED
      BY <3>3, <3>4, <3>5 DEF Hushed, M, Mentions, Naming, Leaving, LeftMsg, From, ServerMsgs, EndsWith, None
  <2> QED
    BY <2>4, <2>5
<1>8. ASSUME NEW w \in Users, ServeStep(w) PROVE Hushed(u, v)'
  <2>1. peers' = peers /\ engine' = engine
    BY <1>8 DEF ServeStep
  <2>2. \A members, m : Reaches(members, m) =>
            /\ m \in ServerMsgs
            /\ inbox'[u] = IF u \in members /\ engine[u] = "up" THEN Append(inbox[u], m) ELSE inbox[u]
    BY DEF Reaches
  <2>3. \A h : Becomes(w, h) => \A s \in Sockets : handler'[u][s] = IF u = w /\ s = 1 THEN h ELSE handler[u][s]
    BY DEF Becomes
  <2>4. CASE GreetStep(w)
    <3>1. w # v /\ room[v] = 0
      BY <1>1, <1>2, <2>4 DEF GreetStep
    <3>2. [type |-> "joined", user |-> w] \notin M
      BY <3>1, MentionFacts DEF M
    <3>3. inbox'[u] = inbox[u] \/ \E m \in ServerMsgs : m \notin M /\ inbox'[u] = Append(inbox[u], m)
      BY <2>2, <2>4, <3>2 DEF GreetStep
    <3>4. \A s \in Sockets : handler'[u][s] = handler[u][s] \/ v \notin handler'[u][s].roster
      <4>1. v \notin Listed
        BY <3>1 DEF Listed
      <4> QED
        BY <2>3, <2>4, <4>1 DEF GreetStep
    <3> QED
      BY <1>4, <2>1, <3>1, <3>3, <3>4
  <2>5. CASE ListStep(w)
    <3>1. room[v] = 0 /\ handler[w][1].phase = "joined"
      BY <1>1, <2>5 DEF ListStep
    <3>2. ASSUME w = u PROVE [type |-> "roster", users |-> handler[w][1].roster] \notin M
      <4>1. v \notin handler[w][1].roster
        <5>1. Hushed(u, v) /\ 1 \in Sockets
          BY <1>0, <1>3, <3>1
        <5> QED
          BY <3>1, <3>2, <5>1 DEF Hushed
      <4>2. handler[w][1].roster \in SUBSET Users
        <5>1. 1 \in Sockets /\ handler \in HandlerType
          BY <1>0 DEF BaseInv, TypeOK, HandlerType, Phases
        <5> QED
          BY <5>1 DEF HandlerType
      <4>3. \A S \in SUBSET Users : v \notin S => [type |-> "roster", users |-> S] \notin M
        BY MentionFacts DEF M
      <4> QED
        BY <4>1, <4>2, <4>3
    <3>3. inbox'[u] = inbox[u] \/ \E m \in ServerMsgs : m \notin M /\ inbox'[u] = Append(inbox[u], m)
      <4> DEFINE m == [type |-> "roster", users |-> handler[w][1].roster]
      <4>1. Reaches({w}, m) /\ (w = u => m \notin M)
        BY <2>5, <3>2 DEF ListStep
      <4> HIDE DEF m
      <4> QED
        BY <2>2, <4>1
    <3>4. \A s \in Sockets : handler'[u][s] = handler[u][s] \/ handler'[u][s].phase = "welcomed"
      BY <2>3, <2>5 DEF ListStep
    <3> QED
      BY <1>4, <2>1, <3>1, <3>3, <3>4
  <2>6. CASE ServingStep(w)
    <3>1. room[v] = 0 /\ [type |-> "turn"] \notin M
      BY <1>1, <2>6, MentionFacts DEF ServingStep, M
    <3>2. inbox'[u] = inbox[u] \/ \E m \in ServerMsgs : m \notin M /\ inbox'[u] = Append(inbox[u], m)
      BY <2>2, <2>6, <3>1 DEF ServingStep
    <3>3. \A s \in Sockets : handler'[u][s] = handler[u][s] \/ handler'[u][s].phase = "serving"
      BY <2>3, <2>6 DEF ServingStep
    <3> QED
      BY <1>4, <2>1, <3>1, <3>2, <3>3
  <2>7. CASE PassStep(w)
    <3>1. room[v] = 0 /\ handler' = handler /\ handler[w][1].phase = "serving"
      BY <1>1, <2>7 DEF PassStep, RelayStep
    <3>2. w # v
      BY <1>3, <3>1
    <3>3. PICK t, p : Reaches({Head(wire[w][1]).to} \cap Listed, [type |-> t, user |-> w, pc |-> p])
      BY <2>7 DEF PassStep
    <3>4. [type |-> t, user |-> w, pc |-> p] \notin M
      BY <3>2 DEF M, Mentions, Naming, Leaving, Names, Leaves, From, ServerMsgs
    <3>5. inbox'[u] = inbox[u] \/ \E m \in ServerMsgs : m \notin M /\ inbox'[u] = Append(inbox[u], m)
      BY <2>2, <3>3, <3>4
    <3> QED
      BY <1>4, <2>1, <3>1, <3>5
  <2>8. CASE AllStep(w) \/ VoiceStepOf(w)
    <3>1. room[v] = 0 /\ handler' = handler
      BY <1>1, <2>8 DEF AllStep, VoiceStepOf
    <3>2. PICK members, m : Reaches(members, m) /\ m \notin M
      BY <2>8, MentionFacts DEF AllStep, VoiceStepOf, M
    <3>3. inbox'[u] = inbox[u] \/ \E x \in ServerMsgs : x \notin M /\ inbox'[u] = Append(inbox[u], x)
      BY <2>2, <3>2
    <3> QED
      BY <1>4, <2>1, <3>1, <3>3
  <2>9. CASE EndStep(w)
    <3>1. \A s \in Sockets : handler'[u][s] = handler[u][s] \/ handler'[u][s].phase = "closed"
      BY <2>3, <2>9 DEF EndStep, Closed
    <3>2. CASE UNCHANGED <<room, inbox>>
      BY <1>1, <1>4, <2>1, <3>1, <3>2
    <3>3. CASE room' = [room EXCEPT ![w] = 0] /\ Reaches(Listed \ {w}, LeftMsg(w))
      <4>1. CASE w # v
        <5>1. room[v] = 0 /\ LeftMsg(w) \notin M
          BY <1>1, <1>2, <3>3, <4>1, MentionFacts DEF M
        <5>2. inbox'[u] = inbox[u] \/ \E x \in ServerMsgs : x \notin M /\ inbox'[u] = Append(inbox[u], x)
          BY <2>2, <3>3, <5>1
        <5> QED
          BY <1>4, <2>1, <3>1, <5>1, <5>2
      <4>2. CASE w = v
        <5>1. Inside
          BY <2>9 DEF EndStep, LeaveInv
        <5>2. \A s \in Sockets : handler'[u][s].phase # "joined"
          BY <3>1, <5>1 DEF Inside
        <5>3. CASE engine[u] = "up" /\ room[u] # 0
          <6>1. inbox'[u] = Append(inbox[u], LeftMsg(v)) /\ LeftMsg(v) \in M /\ LeftMsg(v) \in ServerMsgs
            <7>1. u \in Listed \ {w}
              BY <1>1, <4>2, <5>3 DEF Listed
            <7>2. inbox'[u] = Append(inbox[u], LeftMsg(w))
              BY <2>2, <3>3, <5>3, <7>1
            <7> QED
              BY <4>2, <7>2, MentionFacts DEF M
          <6>2. EndsWith(inbox'[u], M, LeftMsg(v)) /\ ~ None(inbox'[u], M)
            BY <1>2, <6>1, EndAppended, NoneAppended
          <6> QED
            BY <5>2, <6>2 DEF Hushed, M, Mentions, Naming, Leaving, LeftMsg, From, ServerMsgs, EndsWith, None
        <5>4. CASE engine[u] # "up" \/ room[u] = 0
          <6>1. inbox[u] = <<>> /\ peers[u][v] = Absent
            BY <5>4, HeldFacts DEF HeldInv, HoldInv, Holds
          <6>2. inbox'[u] = inbox[u]
            BY <2>2, <3>3, <5>4 DEF Listed
          <6> QED
            BY <2>1, <5>2, <6>1, <6>2 DEF Hushed, EndsWith
        <5> QED
          BY <5>3, <5>4
      <4> QED
        BY <4>1, <4>2
    <3> QED
      BY <2>9, <3>2, <3>3 DEF EndStep, LeftMsg
  <2> QED
    BY <1>8, <2>4, <2>5, <2>6, <2>7, <2>8, <2>9 DEF ServeStep
<1> QED
  BY <1>0, <1>5, <1>6, <1>7, <1>8

\* Without a user who may lose a socket: nobody loses one, and where users leave
\* only when all is settled, the last word about those who left is that.
AbsentInv == /\ BaseInv /\ SocketInv
             /\ env.droppers = {} => HoldInv /\ ("leave" \in env.patient => LeaveInv /\ GoneInv)

LEMMA AbsentInit == ASSUME Init PROVE AbsentInv
<1>1. BaseInv /\ SocketInv
  BY LinkInit DEF LinkInv
<1>2. 1 \in Sockets
  BY SquadAssumption DEF Sockets
<1>3. HoldInv
  BY <1>2 DEF Init, HoldInv, Holds, Closed
<1>4. LeaveInv /\ GoneInv
  BY DEF Init, LeaveInv, GoneInv, Hushed, EndsWith, Closed
<1> QED
  BY <1>1, <1>3, <1>4 DEF AbsentInv

LEMMA AbsentStep == ASSUME AbsentInv, [Next]_vars PROVE AbsentInv'
<1>1. BaseInv /\ SocketInv
  BY DEF AbsentInv
<1>2. BaseInv' /\ SocketInv' /\ env' = env
  BY <1>1, TypeStep, SocketStep, StepFacts DEF vars
<1>3. ASSUME env.droppers = {} PROVE HoldInv' /\ ("leave" \in env.patient => LeaveInv' /\ GoneInv')
  <2>1. HeldInv /\ ("leave" \in env.patient => LeaveInv /\ GoneInv)
    BY <1>3 DEF AbsentInv, HeldInv
  <2> QED
    BY <1>3, <2>1, HoldStep, LeaveInvStep, GoneStep
<1> QED
  BY <1>2, <1>3 DEF AbsentInv

\* However many users there are and however they talk, rekey and leave: as long as
\* sockets hold and users leave when all is settled, a user in the room has, once
\* nothing is in flight, no PeerConnection to one who is not (mesh.rs:250-254,
\* server main.rs:598-613).  A user who leaves while another is being welcomed can be
\* told of as gone before it is told of as there.
THEOREM NoEndOutlives == Spec => []("leave" \in env.patient => NoEndToAbsent)
<1>1. Init => AbsentInv
  BY AbsentInit
<1>2. AbsentInv /\ [Next]_vars => AbsentInv'
  BY AbsentStep
<1>3. AbsentInv => ("leave" \in env.patient => NoEndToAbsent)
  <2>1. SUFFICES ASSUME AbsentInv, "leave" \in env.patient, env.droppers = {}, Quiet,
                        NEW u \in Users, NEW v \in Users, IsPresent(u), room[v] = 0
                 PROVE  peers[u][v] = Absent
    BY DEF NoEndToAbsent, NoEndToAbsentEver
  <2>2. HeldInv /\ GoneInv
    BY <2>1 DEF AbsentInv, HeldInv
  <2>3. u # v
    BY <2>1, <2>2, HeldFacts
  <2>4. Hushed(u, v) /\ inbox[u] = <<>>
    BY <2>1, <2>2, <2>3 DEF GoneInv, Quiet, IsIdle
  <2> QED
    BY <2>4, EmptyFacts DEF Hushed
<1> QED
  BY <1>1, <1>2, <1>3, PTL DEF Spec

-----------------------------------------------------------------------------
(* Where no socket breaks, and a rekey is commanded when all is settled.   *)

\* Nobody is told of the leaving of one who has not left.
LeftInv == \A u, v \in Users : engine[v] # "gone" => None(inbox[u], Leaving(v))

\* There is one rekey command at a time: one message on one socket, or one at
\* most in every inbox.  While there is, nobody is on the way into the room.
OnWire(c) == /\ None(wire[c][1], Rekey) \/ One(wire[c][1], Rekey, RekeyMsg)
             /\ \A w \in Users : None(inbox[w], Rekey) /\ (w # c => None(wire[w][1], Rekey))
InInboxes == \A w \in Users : /\ None(wire[w][1], Rekey)
                              /\ None(inbox[w], Rekey) \/ One(inbox[w], Rekey, RekeyMsg)
Pending(u) == (\E w \in Users : ~ None(wire[w][1], Rekey)) \/ ~ None(inbox[u], Rekey)
OneCommand == (\E c \in Users : OnWire(c)) \/ InInboxes
CommandInv == OneCommand /\ ((\E u \in Users : Pending(u)) => Inside)

\* r has of the command what q has, or has it no more.
Fades(q, r) == /\ None(q, Rekey) => None(r, Rekey)
               /\ One(q, Rekey, RekeyMsg) => None(r, Rekey) \/ One(r, Rekey, RekeyMsg)
Faded == \A w \in Users : Fades(wire[w][1], wire'[w][1]) /\ Fades(inbox[w], inbox'[w])

LEMMA FadesFacts ==
    ASSUME NEW M, NEW q \in Seq(M)
    PROVE  /\ Fades(q, q) /\ \A r : Like(q, r, Rekey) \/ None(r, Rekey) => Fades(q, r)
           /\ \A m \in M : m \notin Rekey => Fades(q, Append(q, m))
           /\ q # <<>> => Fades(q, Tail(q))
<1>1. RekeyMsg \in Rekey
  BY DEF Rekey
<1>2. \A r : Like(q, r, Rekey) \/ None(r, Rekey) => Fades(q, r)
  BY <1>1 DEF Fades, Like
<1>3. \A m \in M : m \notin Rekey => Fades(q, Append(q, m))
  BY <1>2, LikeFacts
<1>4. ASSUME q # <<>> PROVE Fades(q, Tail(q))
  <2>1. None(q, Rekey) => None(Tail(q), Rekey)
    BY <1>4, NoneShifted
  <2>2. ASSUME One(q, Rekey, RekeyMsg) PROVE None(Tail(q), Rekey) \/ One(Tail(q), Rekey, RekeyMsg)
    BY <1>1, <1>4, <2>2, OneShifted
  <2> QED
    BY <2>1, <2>2 DEF Fades
<1> QED
  BY <1>2, <1>3, <1>4 DEF Fades

LEMMA FadedFacts ==
    ASSUME Faded
    PROVE  /\ OneCommand => OneCommand'
           /\ \A u \in Users : Pending(u)' => Pending(u)
<1>1. ASSUME NEW c \in Users, OnWire(c) PROVE OnWire(c)'
  BY <1>1 DEF Faded, Fades, OnWire
<1>2. InInboxes => InInboxes'
  BY DEF Faded, Fades, InInboxes
<1>3. \A u \in Users : Pending(u)' => Pending(u)
  BY DEF Faded, Fades, Pending
<1> QED
  BY <1>1, <1>2, <1>3 DEF OneCommand

\* What is written to a socket or read from it, sent to an inbox or taken from it.
LEMMA HeldLike ==
    ASSUME HeldInv, NEW u \in Users, NEW S
    PROVE  /\ \A m \in ClientMsgs : Writes(u, m) /\ m \notin S =>
                 \A x \in Users : Like(wire[x][1], wire'[x][1], S)
           /\ \A types : Reads(u, 1, types) /\ Head(wire[u][1]) \notin S =>
                 \A x \in Users : Like(wire[x][1], wire'[x][1], S)
           /\ \A members, m : Reaches(members, m) /\ m \notin S =>
                 \A x \in Users : Like(inbox[x], inbox'[x], S)
<1>0. BaseInv /\ 1 \in Sockets /\ \A x \in Users : inbox[x] \in Seq(ServerMsgs)
  BY HeldFacts, TypeFacts DEF HeldInv, BaseInv
<1>1. \A m \in ClientMsgs : Writes(u, m) /\ m \notin S =>
          \A x \in Users : Like(wire[x][1], wire'[x][1], S)
  BY <1>0, WritesLike
<1>2. \A types : Reads(u, 1, types) /\ Head(wire[u][1]) \notin S =>
          \A x \in Users : Like(wire[x][1], wire'[x][1], S)
  BY <1>0, ReadsLike
<1>3. ASSUME NEW members, NEW m, Reaches(members, m), m \notin S, NEW x \in Users
      PROVE  Like(inbox[x], inbox'[x], S)
  <2>1. m \in ServerMsgs /\ (inbox'[x] = inbox[x] \/ inbox'[x] = Append(inbox[x], m))
    BY <1>3 DEF Reaches
  <2> QED
    BY <1>0, <1>3, <2>1, LikeFacts
<1> QED
  BY <1>1, <1>2, <1>3

\* No step but one makes a command.
LEMMA StepFades ==
    ASSUME HeldInv, NEW u \in Users,
           \/ StartStep(u) \/ LeaveStep(u) \/ ForwardStep(u) \/ TalkStep(u)
           \/ Gets(u) \/ (ServeStep(u) /\ ~ AllStep(u))
    PROVE  Faded
<1>0. /\ BaseInv /\ 1 \in Sockets
      /\ \A w \in Users : inbox[w] \in Seq(ServerMsgs) /\ wire[w][1] \in Seq(ClientMsgs)
  BY HeldFacts, TypeFacts DEF HeldInv, BaseInv
<1>1. /\ \A w \in Users : Fades(inbox[w], inbox[w]) /\ Fades(wire[w][1], wire[w][1])
      /\ \A w \in Users : \A r : /\ Like(inbox[w], r, Rekey) => Fades(inbox[w], r)
                                 /\ Like(wire[w][1], r, Rekey) => Fades(wire[w][1], r)
                                 /\ None(r, Rekey) => Fades(inbox[w], r) /\ Fades(wire[w][1], r)
      /\ \A w \in Users : inbox[w] # <<>> => Fades(inbox[w], Tail(inbox[w]))
  BY <1>0, FadesFacts
<1>2. None(<<>>, Rekey) /\ None(<<JoinMsg>>, Rekey)
  BY DEF None, Rekey, RekeyMsg, JoinMsg
<1>3. CASE StartStep(u)
  BY <1>0, <1>1, <1>2, <1>3 DEF StartStep, Faded
<1>4. CASE LeaveStep(u)
  <2>1. wire' = wire /\ \A w \in Users : inbox'[w] = IF w = u THEN <<>> ELSE inbox[w]
    BY <1>0, <1>4 DEF LeaveStep, BaseInv, TypeOK
  <2> QED
    BY <1>1, <1>2, <2>1 DEF Faded
<1>5. CASE ForwardStep(u) \/ TalkStep(u)
  <2>1. PICK m \in ClientMsgs : Writes(u, m) /\ m \notin Rekey
    BY <1>5, ClientFacts, KindFacts DEF ForwardStep, TalkStep
  <2>2. \A w \in Users : Like(wire[w][1], wire'[w][1], Rekey)
    BY <2>1, HeldLike
  <2>3. inbox' = inbox
    BY <1>5 DEF ForwardStep, TalkStep
  <2> QED
    BY <1>1, <2>2, <2>3 DEF Faded
<1>6. CASE Gets(u)
  <2>1. wire' = wire /\ inbox[u] # <<>> /\ \A w \in Users : inbox'[w] = IF w = u THEN Tail(inbox[u]) ELSE inbox[w]
    <3>1. Handling(u) /\ inbox \in [Users -> Seq(ServerMsgs)]
      BY <1>0, <1>6, GetFacts DEF BaseInv, TypeOK
    <3> QED
      BY <3>1 DEF Handling
  <2> QED
    BY <1>1, <2>1 DEF Faded
<1>7. CASE ServeStep(u) /\ ~ AllStep(u)
  <2>1. \A w \in Users : Fades(wire[w][1], wire'[w][1])
    <3>1. CASE ListStep(u) \/ ServingStep(u)
      BY <1>1, <3>1 DEF ListStep, ServingStep
    <3>2. CASE EndStep(u)
      BY <1>0, <1>1, <1>2, <3>2 DEF EndStep
    <3>3. CASE GreetStep(u) \/ PassStep(u) \/ VoiceStepOf(u)
      <4>1. PICK types \in {{"join"}, {"offer", "answer"}, {"ptt"}} : Reads(u, 1, types)
        BY <3>3 DEF GreetStep, PassStep, RelayStep, VoiceStepOf
      <4>2. Head(wire[u][1]) \notin Rekey
        BY <4>1, KindFacts DEF Reads
      <4> QED
        BY <1>1, <4>1, <4>2, HeldLike
    <3> QED
      BY <1>7, <3>1, <3>2, <3>3 DEF ServeStep
  <2>2. inbox' = inbox \/ \E members, m : Reaches(members, m) /\ m.type # "rekey"
    <3>1. CASE PassStep(u)
      <4>1. PICK t \in {"offer", "answer"}, p \in Nat, members \in SUBSET Users : Reaches(members, [type |-> t, user |-> u, pc |-> p])
        BY <3>1, ClientFacts DEF PassStep, RelayStep, Listed
      <4> QED
        BY <4>1
    <3>2. CASE VoiceStepOf(u)
      <4>1. PICK b \in BOOLEAN : Reaches(Listed \ {u}, [type |-> "ptt", user |-> u, active |-> b])
        BY <3>2 DEF VoiceStepOf
      <4> QED
        BY <4>1
    <3>3. CASE GreetStep(u)
      BY <3>3 DEF GreetStep
    <3>4. CASE ListStep(u)
      BY <3>4 DEF ListStep
    <3>5. CASE ServingStep(u)
      BY <3>5 DEF ServingStep
    <3>6. CASE EndStep(u)
      BY <3>6 DEF EndStep
    <3> QED
      BY <1>7, <3>1, <3>2, <3>3, <3>4, <3>5, <3>6 DEF ServeStep
  <2>3. \A w \in Users : Fades(inbox[w], inbox'[w])
    <3>1. CASE inbox' = inbox
      BY <1>1, <3>1
    <3>2. ASSUME NEW members, NEW m, Reaches(members, m), m.type # "rekey"
          PROVE  \A w \in Users : Fades(inbox[w], inbox'[w])
      <4>1. m \notin Rekey
        BY <3>2, KindFacts DEF Reaches
      <4> QED
        BY <1>1, <3>2, <4>1, HeldLike
    <3> QED
      BY <2>2, <3>1, <3>2
  <2> QED
    BY <2>1, <2>3 DEF Faded
<1> QED
  BY <1>3, <1>4, <1>5, <1>6, <1>7

LEMMA CommandInvStep ==
    ASSUME HeldInv, env.droppers = {}, "rekey" \in env.patient, CommandInv, [Next]_vars
    PROVE  CommandInv'
<1>0. /\ BaseInv /\ 1 \in Sockets /\ RekeyMsg \in Rekey /\ Rekey = {RekeyMsg}
      /\ \A w \in Users : inbox[w] \in Seq(ServerMsgs) /\ wire[w][1] \in Seq(ClientMsgs)
      /\ \/ UNCHANGED vars
         \/ \E u \in Users : HeldStep(u) \/ Gets(u) \/ ServeStep(u)
  BY HeldFacts, TypeFacts, HeldSteps DEF HeldInv, BaseInv, Rekey
<1>1. ASSUME Faded PROVE CommandInv'
  BY <1>1, FadedFacts, InsideStep DEF CommandInv
<1>2. CASE UNCHANGED vars
  <2>1. Faded
    BY <1>0, <1>2, FadesFacts DEF vars, Faded
  <2> QED
    BY <1>1, <2>1
<1>3. ASSUME NEW u \in Users, CommandStep(u) PROVE CommandInv'
  <2>1. Settled /\ Writes(u, RekeyMsg) /\ inbox' = inbox /\ sock[u] = 1
    BY <1>3, HeldFacts DEF CommandStep
  <2>2. Inside' /\ \A w \in Users : wire[w][1] = <<>> /\ inbox'[w] = <<>>
    <3>1. Inside /\ \A w \in Users : wire[w][1] = <<>> /\ inbox[w] = <<>>
      BY <1>0, <2>1, SettledFacts
    <3> QED
      BY <2>1, <3>1, InsideStep
  <2>3. \A w \in Users : wire'[w][1] = <<>> \/ (w = u /\ wire'[w][1] = Append(<<>>, RekeyMsg))
    <3>1. \A w \in Users : \/ wire'[w][1] = wire[w][1]
                           \/ w = u /\ wire'[w][1] = Append(wire[w][1], RekeyMsg)
      <4>1. \A w \in Users : \A s \in Sockets :
                wire'[w][s] = IF w = u /\ s = sock[u] /\ Carries(u) THEN Append(wire[w][s], RekeyMsg)
                                                                   ELSE wire[w][s]
        BY <2>1 DEF Writes
      <4> QED
        BY <1>0, <4>1
    <3> QED
      BY <2>2, <3>1
  <2>4. None(<<>>, Rekey) /\ One(Append(<<>>, RekeyMsg), Rekey, RekeyMsg)
    BY DEF None, One
  <2>5. OnWire(u)'
    BY <2>2, <2>3, <2>4 DEF OnWire
  <2> QED
    BY <2>2, <2>5 DEF CommandInv, OneCommand
<1>4. ASSUME NEW u \in Users, AllStep(u) PROVE CommandInv'
  <2>1. /\ wire[u][1] # <<>> /\ Head(wire[u][1]) \in Rekey
        /\ \A w \in Users : wire'[w][1] = IF w = u THEN Tail(wire[u][1]) ELSE wire[w][1]
        /\ \A w \in Users : inbox'[w] = inbox[w] \/ inbox'[w] = Append(inbox[w], RekeyMsg)
    BY <1>0, <1>4, ClientFacts DEF AllStep, Reads, Reaches
  <2>2. ~ None(wire[u][1], Rekey)
    BY <1>0, <2>1, NoneShifted
  <2>3. OnWire(u)
    BY <2>2 DEF CommandInv, OneCommand, InInboxes, OnWire
  <2>4. None(Tail(wire[u][1]), Rekey)
    BY <1>0, <2>1, <2>2, <2>3, OneShifted DEF OnWire
  <2>5. \A w \in Users : None(wire'[w][1], Rekey)
    BY <2>1, <2>3, <2>4 DEF OnWire
  <2>6. \A w \in Users : None(inbox'[w], Rekey) \/ One(inbox'[w], Rekey, RekeyMsg)
    <3>1. ASSUME NEW w \in Users PROVE None(inbox'[w], Rekey) \/ One(inbox'[w], Rekey, RekeyMsg)
      <4>1. None(inbox[w], Rekey)
        BY <2>3 DEF OnWire
      <4>2. One(Append(inbox[w], RekeyMsg), Rekey, RekeyMsg)
        BY <1>0, <4>1, OneAppended, ServerFacts
      <4> QED
        BY <2>1, <4>1, <4>2
    <3> QED
      BY <3>1
  <2>7. Inside'
    <3>1. Pending(u)
      BY <2>2 DEF Pending
    <3> QED
      BY <3>1, InsideStep DEF CommandInv
  <2> QED
    BY <2>5, <2>6, <2>7 DEF CommandInv, OneCommand, InInboxes
<1> QED
  BY <1>0, <1>1, <1>2, <1>3, <1>4, StepFades DEF HeldStep

\* The command a user handles is the last one.
LEMMA CommandTaken ==
    ASSUME HeldInv, CommandInv, NEW u \in Users, Handling(u), Got(u) \in Rekey
    PROVE  ~ Pending(u)'
<1>0. inbox[u] \in Seq(ServerMsgs) /\ inbox[u] # <<>> /\ Head(inbox[u]) \in Rekey
      /\ wire' = wire /\ inbox'[u] = Tail(inbox[u])
  BY TypeFacts DEF HeldInv, BaseInv, TypeOK, Handling, Got
<1>1. ~ None(inbox[u], Rekey)
  BY <1>0, NoneShifted
<1>2. InInboxes
  BY <1>1 DEF CommandInv, OneCommand, OnWire
<1>3. None(Tail(inbox[u]), Rekey)
  BY <1>0, <1>1, <1>2, OneShifted DEF InInboxes
<1> QED
  BY <1>0, <1>2, <1>3 DEF Pending, InInboxes

LEMMA LeftInvStep ==
    ASSUME HeldInv, env.droppers = {}, LeftInv, [Next]_vars
    PROVE  LeftInv'
<1>0. /\ BaseInv /\ 1 \in Sockets
      /\ \A w \in Users : inbox[w] \in Seq(ServerMsgs)
      /\ \/ UNCHANGED vars
         \/ \E u \in Users : HeldStep(u) \/ Gets(u) \/ ServeStep(u)
      /\ engine \in [Users -> {"off", "up", "down", "gone"}]
  BY HeldFacts, TypeFacts, HeldSteps DEF HeldInv, BaseInv, TypeOK
<1>1. SUFFICES ASSUME NEW u \in Users, NEW v \in Users, engine'[v] # "gone"
               PROVE  None(inbox'[u], Leaving(v))
  BY DEF LeftInv
<1>2. CASE UNCHANGED vars
  BY <1>1, <1>2 DEF vars, LeftInv
<1>3. ASSUME NEW w \in Users, HeldStep(w) PROVE None(inbox'[u], Leaving(v))
  <2>1. engine[v] # "gone" /\ (inbox'[u] = inbox[u] \/ inbox'[u] = <<>>)
    BY <1>0, <1>1, <1>3 DEF HeldStep, StartStep, LeaveStep, ForwardStep, CommandStep, TalkStep, BaseInv, TypeOK
  <2> QED
    BY <2>1, EmptyFacts DEF LeftInv
<1>4. ASSUME NEW w \in Users, Gets(w) PROVE None(inbox'[u], Leaving(v))
  <2>1. engine' = engine /\ (inbox'[u] = inbox[u] \/ (inbox[u] # <<>> /\ inbox'[u] = Tail(inbox[u])))
    <3>1. Handling(w) /\ inbox \in [Users -> Seq(ServerMsgs)]
      BY <1>0, <1>4, GetFacts DEF BaseInv, TypeOK
    <3> QED
      BY <3>1 DEF Handling
  <2>2. None(inbox[u], Leaving(v))
    BY <1>1, <2>1 DEF LeftInv
  <2> QED
    BY <1>0, <2>1, <2>2, NoneShifted
<1>5. ASSUME NEW w \in Users, ServeStep(w) PROVE None(inbox'[u], Leaving(v))
  <2>1. engine' = engine /\ None(inbox[u], Leaving(v))
    BY <1>1, <1>5 DEF ServeStep, LeftInv
  <2>2. inbox'[u] = inbox[u] \/ \E m \in ServerMsgs : ~ Leaves(m, v) /\ inbox'[u] = Append(inbox[u], m)
    <3>1. CASE EndStep(w)
      <4>1. w # v
        BY <1>1, <2>1, <3>1 DEF EndStep
      <4> QED
        BY <3>1, <4>1 DEF EndStep, Reaches, Leaves
    <3>2. CASE PassStep(w)
      <4>1. PICK t \in {"offer", "answer"}, p \in Nat, members \in SUBSET Users : Reaches(members, [type |-> t, user |-> w, pc |-> p])
        BY <3>2, ClientFacts DEF PassStep, RelayStep, Listed
      <4> QED
        BY <4>1 DEF Reaches, Leaves
    <3>3. CASE GreetStep(w)
      BY <3>3 DEF GreetStep, Reaches, Leaves
    <3>4. CASE ListStep(w)
      BY <3>4 DEF ListStep, Reaches, Leaves
    <3>5. CASE ServingStep(w) \/ AllStep(w)
      BY <3>5 DEF ServingStep, AllStep, Reaches, Leaves, RekeyMsg
    <3>6. CASE VoiceStepOf(w)
      BY <3>6 DEF VoiceStepOf, Reaches, Leaves
    <3> QED
      BY <1>5, <3>1, <3>2, <3>3, <3>4, <3>5, <3>6 DEF ServeStep
  <2>3. CASE inbox'[u] = inbox[u]
    BY <2>1, <2>3
  <2>4. CASE \E m \in ServerMsgs : ~ Leaves(m, v) /\ inbox'[u] = Append(inbox[u], m)
    <3>1. PICK m \in ServerMsgs : m \notin Leaving(v) /\ inbox'[u] = Append(inbox[u], m)
      BY <2>4 DEF Leaving
    <3> QED
      BY <1>0, <2>1, <3>1, NoneAppended
  <2> QED
    BY <2>2, <2>3, <2>4
<1> QED
  BY <1>0, <1>2, <1>3, <1>4, <1>5

\* The smaller end u of a link has not been told of v, or is about to be, once.
Owed(u, v)     == handler[u][1].phase = "joined" /\ v \in handler[u][1].roster
Untold(u, v)   == ~ Owed(u, v) /\ None(inbox[u], Naming(v))
ToldOnce(u, v) == \/ Owed(u, v) /\ None(inbox[u], Naming(v))
                  \/ ~ Owed(u, v) /\ \E m \in Naming(v) : One(inbox[u], Naming(v), m)

\* Nothing from u to v is on its way.
Unsent(u, v) == None(uplink[u], To(v)) /\ None(wire[u][1], To(v)) /\ None(inbox[v], From(u))

\* The states of a link between two who have not left: one of them is not in the
\* room yet, the smaller end is to hear of the other, its offer is on the way, the
\* answer is, and the two are linked, where a rekey begins anew.
Apart(u, v)     == /\ room[u] = 0 \/ room[v] = 0
                   /\ peers[u][v] = Absent /\ Untold(u, v) /\ Unsent(u, v) /\ Unsent(v, u)
Together(u, v)  == room[u] # 0 /\ room[v] # 0
Unmet(u, v)     == /\ Together(u, v) /\ peers[u][v] = Absent /\ ToldOnce(u, v) /\ ~ Pending(u)
                   /\ NoneUnderWay(u, v) /\ NoneUnderWay(v, u)
Offering(u, v)  == /\ Together(u, v) /\ Untold(u, v) /\ ~ Pending(u)
                   /\ peers[u][v].offered /\ peers[u][v].remote = 0
                   /\ OneUnderWay(u, v, "offer", peers[u][v].pc) /\ NoneUnderWay(v, u)
Answering(u, v) == /\ Together(u, v) /\ Untold(u, v) /\ ~ Pending(u)
                   /\ peers[u][v].offered /\ peers[u][v].remote = 0
                   /\ NoneUnderWay(u, v) /\ OneUnderWay(v, u, "answer", peers[v][u].pc)
                   /\ peers[v][u].remote = peers[u][v].pc
Settling(u, v)  == /\ Together(u, v) /\ Untold(u, v)
                   /\ NoneUnderWay(u, v) /\ NoneUnderWay(v, u) /\ Linked(u, v)
Stage(u, v) == Apart(u, v) \/ Unmet(u, v) \/ Offering(u, v) \/ Answering(u, v) \/ Settling(u, v)
Stays(u)    == engine[u] # "gone"
StageInv    == \A u, v \in Users : u < v /\ Stays(u) /\ Stays(v) => Stage(u, v)

\* What a step leaves as it is that is not about the link of u and v.
Moves(u, v) == /\ Unsent(u, v) => Unsent(u, v)'
               /\ IsPresent(u) /\ IsPresent(v) => Under(u, v)
Heard(u, v) == (Untold(u, v) => Untold(u, v)') /\ (ToldOnce(u, v) => ToldOnce(u, v)')
Frame(u, v) ==
    /\ (room'[u] = 0 <=> room[u] = 0) /\ (room'[v] = 0 <=> room[v] = 0)
    /\ Heard(u, v) /\ Moves(u, v) /\ Moves(v, u)
    /\ Pending(u)' => Pending(u)
    /\ peers'[u][v] = peers[u][v]
    /\ peers[v][u] # Absent => peers'[v][u] = peers[v][u]

LEMMA FrameFacts ==
    ASSUME HeldInv, NEW u \in Users, NEW v \in Users, Stays(u), Stays(v), Stage(u, v), Frame(u, v)
    PROVE  Stage(u, v)'
<1>0. /\ peers[u][v] \in AnEnd /\ peers[v][u] \in AnEnd
      /\ Together(u, v) => IsPresent(u) /\ IsPresent(v)
  BY HeldFacts, TypeFacts DEF HeldInv, BaseInv, Stays, Together
<1>1. /\ Together(u, v) => Together(u, v)'
      /\ room[u] = 0 \/ room[v] = 0 => room'[u] = 0 \/ room'[v] = 0
      /\ Untold(u, v) => Untold(u, v)'
      /\ ToldOnce(u, v) => ToldOnce(u, v)'
      /\ Unsent(u, v) => Unsent(u, v)'
      /\ Unsent(v, u) => Unsent(v, u)'
      /\ Pending(u)' => Pending(u)
      /\ peers'[u][v] = peers[u][v]
      /\ peers[v][u] # Absent => peers'[v][u] = peers[v][u]
  BY DEF Frame, Heard, Moves, Together
<1>2. ASSUME Together(u, v) PROVE Under(u, v) /\ Under(v, u)
  BY <1>0, <1>2 DEF Frame, Moves
<1>3. CASE Apart(u, v)
  BY <1>1, <1>3 DEF Apart, Stage
<1>4. CASE Unmet(u, v)
  BY <1>1, <1>2, <1>4 DEF Unmet, Stage, Under
<1>5. CASE Offering(u, v)
  <2>1. peers[u][v].pc \in Nat \ {0}
    BY <1>0, <1>5, EndFacts DEF Offering
  <2>2. OneUnderWay(u, v, "offer", peers[u][v].pc)' /\ NoneUnderWay(v, u)'
    BY <1>1, <1>2, <1>5, <2>1 DEF Offering, Under
  <2> QED
    BY <1>1, <1>5, <2>2 DEF Offering, Stage
<1>6. CASE Answering(u, v)
  <2>1. peers[u][v].pc \in Nat \ {0} /\ peers[v][u] # Absent /\ peers[v][u].pc \in Nat \ {0}
    BY <1>0, <1>6, EndFacts DEF Answering
  <2>2. NoneUnderWay(u, v)' /\ OneUnderWay(v, u, "answer", peers[v][u].pc)'
    BY <1>1, <1>2, <1>6, <2>1 DEF Answering, Under
  <2> QED
    BY <1>1, <1>6, <2>1, <2>2 DEF Answering, Stage
<1>7. CASE Settling(u, v)
  BY <1>1, <1>2, <1>7 DEF Settling, Stage, Under, Linked
<1> QED
  BY <1>3, <1>4, <1>5, <1>6, <1>7 DEF Stage

LEMMA FlowFacts ==
    ASSUME HeldInv, NEW x \in Users, NEW y \in Users, IsPresent(x) => sock'[x] = sock[x],
           Like(uplink[x], uplink'[x], To(y)),
           Like(wire[x][1], wire'[x][1], To(y)),
           Like(inbox[y], inbox'[y], From(x))
    PROVE  Moves(x, y)
<1>1. Unsent(x, y) => Unsent(x, y)'
  BY DEF Unsent, Like
<1>2. ASSUME IsPresent(x) PROVE Under(x, y)
  <2>1. sock[x] = 1
    BY <1>2, HeldFacts
  <2> QED
    BY <1>2, <2>1, UnderFacts
<1> QED
  BY <1>1, <1>2 DEF Moves

LEMMA HeardFacts ==
    ASSUME NEW u \in Users, NEW v \in Users, Owed(u, v)' <=> Owed(u, v),
           Like(inbox[u], inbox'[u], Naming(v))
    PROVE  Heard(u, v)
BY DEF Heard, Untold, ToldOnce, Like

LEMMA SameLike == \A q, S : Like(q, q, S)
BY DEF Like

\* The steps of an engine and its user leave every link as it is.
LEMMA StageHeld ==
    ASSUME HeldInv, NEW w \in Users, HeldStep(w), ~ CommandStep(w),
           NEW u \in Users, NEW v \in Users, u # v, Stays(u)', Stays(v)', Stage(u, v)
    PROVE  Stage(u, v)'
<1>0. /\ BaseInv /\ 1 \in Sockets /\ engine \in [Users -> {"off", "up", "down", "gone"}]
      /\ inbox \in [Users -> Seq(ServerMsgs)] /\ peers \in [Users -> [Users -> Ends \cup {Absent}]]
      /\ sock \in [Users -> 0 .. MaxSockets] /\ uplink \in [Users -> Seq(ClientMsgs)]
      /\ \A x \in Users : uplink[x] \in Seq(LinkMsgs)
  BY HeldFacts DEF HeldInv, BaseInv, TypeOK, UplinkInv
<1>1. Faded
  BY StepFades DEF HeldStep
<1>2. Pending(u)' => Pending(u)
  BY <1>1, FadedFacts
<1>3. Stays(u) /\ Stays(v)
  BY <1>0 DEF Stays, HeldStep, StartStep, LeaveStep, ForwardStep, CommandStep, TalkStep
<1>4. room' = room
  BY DEF HeldStep, StartStep, LeaveStep, ForwardStep, CommandStep, TalkStep
<1>5. CASE StartStep(w)
  <2>1. /\ UNCHANGED <<peers, uplink, inbox>> /\ engine[w] = "off"
        /\ \A x \in Users : /\ wire'[x][1] = IF x = w THEN <<JoinMsg>> ELSE wire[x][1]
                            /\ handler'[x][1] = IF x = w THEN Opened ELSE handler[x][1]
                            /\ x # w => sock'[x] = sock[x]
    BY <1>0, <1>5 DEF StartStep
  <2>2. handler[w][1].phase = "closed" /\ ~ IsPresent(w)
    BY <2>1, HeldFacts
  <2>3. \A x, y \in Users : Like(wire[x][1], wire'[x][1], To(y))
    <3>1. \A y : None(<<JoinMsg>>, To(y))
      BY DEF None, JoinMsg, To
    <3>2. ASSUME NEW x \in Users, NEW y \in Users PROVE Like(wire[x][1], wire'[x][1], To(y))
      <4>1. CASE x = w
        <5>1. wire[x][1] = <<>>
          BY <2>1, <4>1, HeldFacts
        <5> QED
          BY <2>1, <3>1, <4>1, <5>1 DEF Like, One
      <4> QED
        BY <2>1, <4>1, SameLike
    <3> QED
      BY <3>2
  <2>4. Moves(u, v) /\ Moves(v, u)
    BY <2>1, <2>2, <2>3, SameLike, FlowFacts
  <2>5. Heard(u, v)
    BY <2>1, <2>2, SameLike, HeardFacts DEF Owed, Opened
  <2> QED
    BY <1>2, <1>3, <1>4, <2>1, <2>4, <2>5, FrameFacts DEF Frame
<1>6. CASE LeaveStep(w)
  <2>1. u # w /\ v # w
    BY <1>0, <1>6 DEF LeaveStep, Stays
  <2>2. /\ UNCHANGED <<sock, wire, handler>>
        /\ \A x \in {u, v} : inbox'[x] = inbox[x] /\ peers'[x] = peers[x] /\ uplink'[x] = uplink[x]
    BY <1>0, <1>6, <2>1 DEF LeaveStep
  <2>3. Moves(u, v) /\ Moves(v, u)
    BY <2>2, SameLike, FlowFacts
  <2>4. Heard(u, v)
    BY <2>2, SameLike, HeardFacts DEF Owed
  <2> QED
    BY <1>2, <1>3, <1>4, <2>2, <2>3, <2>4, FrameFacts DEF Frame
<1>7. CASE ForwardStep(w)
  <2>1. /\ UNCHANGED <<engine, sock, peers, inbox, broken, handler, room>>
        /\ uplink[w] # <<>> /\ Head(uplink[w]) \in LinkMsgs /\ Head(uplink[w]) \in ClientMsgs
        /\ uplink' = [uplink EXCEPT ![w] = Tail(uplink[w])] /\ Writes(w, Head(uplink[w]))
    BY <1>7, ClientFacts DEF ForwardStep
  <2>2. ASSUME NEW x \in Users, NEW y \in Users PROVE Moves(x, y)
    <3>1. IsPresent(x) => Under(x, y)
      BY <1>0, <2>1, ForwardUnder DEF IsPresent
    <3>2. ASSUME Unsent(x, y) PROVE Unsent(x, y)'
      <4>1. CASE x # w
        <5>1. uplink'[x] = uplink[x] /\ wire'[x][1] = wire[x][1] /\ inbox'[y] = inbox[y]
          BY <1>0, <2>1, <4>1 DEF Writes
        <5> QED
          BY <3>2, <5>1 DEF Unsent
      <4>2. CASE x = w
        <5>1. uplink[x] \in Seq(LinkMsgs) /\ uplink[x] # <<>> /\ uplink'[x] = Tail(uplink[x])
          BY <1>0, <2>1, <4>2
        <5>2. Head(uplink[x]) \notin To(y) /\ None(uplink'[x], To(y))
          BY <3>2, <5>1, NoneShifted DEF Unsent
        <5>3. Like(wire[x][1], wire'[x][1], To(y))
          BY <2>1, <4>2, <5>2, HeldLike
        <5> QED
          BY <2>1, <3>2, <5>2, <5>3 DEF Unsent, Like
      <4> QED
        BY <4>1, <4>2
    <3> QED
      BY <3>1, <3>2 DEF Moves
  <2>3. Heard(u, v)
    BY <2>1, SameLike, HeardFacts DEF Owed
  <2> QED
    BY <1>2, <1>3, <1>4, <2>1, <2>2, <2>3, FrameFacts DEF Frame
<1>8. CASE TalkStep(w)
  <2>1. UNCHANGED <<engine, sock, peers, uplink, inbox, broken, handler, room>>
    BY <1>8 DEF TalkStep
  <2>2. ASSUME NEW x \in Users, NEW y \in Users PROVE Moves(x, y)
    <3>1. PICK b \in BOOLEAN : Writes(w, PttMsg(b))
      BY <1>8 DEF TalkStep
    <3>2. PttMsg(b) \in ClientMsgs /\ PttMsg(b) \notin To(y)
      BY ClientFacts, KindFacts
    <3>3. Like(wire[x][1], wire'[x][1], To(y))
      BY <3>1, <3>2, HeldLike
    <3> QED
      BY <2>1, <3>3, SameLike, FlowFacts
  <2>3. Heard(u, v)
    BY <2>1, SameLike, HeardFacts DEF Owed
  <2> QED
    BY <1>2, <1>3, <1>4, <2>1, <2>2, <2>3, FrameFacts DEF Frame
<1> QED
  BY <1>5, <1>6, <1>7, <1>8 DEF HeldStep

\* Where all is settled, so is every link, and the command is but written.
LEMMA StageCommand ==
    ASSUME HeldInv, CommandInv, "rekey" \in env.patient, NEW w \in Users, CommandStep(w),
           NEW u \in Users, NEW v \in Users, u # v, Stays(u)', Stays(v)', Stage(u, v)
    PROVE  Stage(u, v)'
<1>0. /\ Settled /\ Writes(w, RekeyMsg) /\ RekeyMsg \in ClientMsgs
      /\ UNCHANGED <<engine, sock, peers, uplink, inbox, broken, handler, room>>
  BY ClientFacts DEF CommandStep
<1>1. /\ \A x \in Users : /\ inbox[x] = <<>> /\ uplink[x] = <<>> /\ wire[x][1] = <<>>
                          /\ handler[x][1].phase \in {"closed", "serving"}
      /\ Stays(u) /\ Stays(v)
  BY <1>0, SettledFacts, HeldFacts DEF Inside, Stays
<1>2. \A x, y \in Users : Like(wire[x][1], wire'[x][1], To(y))
  BY <1>0, HeldLike, KindFacts
<1>3. Moves(u, v) /\ Moves(v, u)
  BY <1>0, <1>2, SameLike, FlowFacts
<1>4. Heard(u, v)
  BY <1>0, SameLike, HeardFacts DEF Owed
<1>5. ~ Unmet(u, v)
  BY <1>1 DEF Unmet, ToldOnce, Owed, One
<1>6. ASSUME Together(u, v) PROVE sock[u] = 1 /\ sock[v] = 1 /\ Under(u, v) /\ Under(v, u)
  BY <1>1, <1>3, <1>6, HeldFacts DEF Together, Stays, Moves
<1>7. ~ Offering(u, v) /\ ~ Answering(u, v)
  BY <1>1, <1>6 DEF Offering, Answering, OneUnderWay, One
<1>8. CASE Apart(u, v)
  BY <1>0, <1>3, <1>4, <1>8 DEF Apart, Moves, Heard, Stage
<1>9. CASE Settling(u, v)
  BY <1>0, <1>4, <1>6, <1>9 DEF Settling, Together, Heard, Under, Linked, Stage
<1> QED
  BY <1>5, <1>7, <1>8, <1>9 DEF Stage

\* A message is handled that brings the link no further.
LEMMA GetFrame ==
    ASSUME HeldInv, NEW w \in Users, Handling(w), NEW u \in Users, NEW v \in Users, u # v,
           Heard(u, v), Moves(u, v), Moves(v, u), Pending(u)' => Pending(u),
           w = u => peers'[u][v] = peers[u][v],
           w = v /\ peers[v][u] # Absent => peers'[v][u] = peers[v][u]
    PROVE  Frame(u, v)
BY DEF Frame, Handling

\* It takes no offer or answer of the one, and makes none for the other.
LEMMA GetMoves ==
    ASSUME HeldInv, NEW w \in Users, Handling(w), NEW q \in Seq(LinkMsgs), Queues(w, q),
           NEW x \in Users, NEW y \in Users, x # y,
           w = x => None(q, To(y)), w = y => Got(y) \notin From(x)
    PROVE  Moves(x, y)
<1>0. /\ BaseInv /\ uplink \in [Users -> Seq(ClientMsgs)] /\ inbox \in [Users -> Seq(ServerMsgs)]
      /\ uplink[x] \in Seq(LinkMsgs) /\ inbox[y] \in Seq(ServerMsgs)
  BY DEF HeldInv, BaseInv, TypeOK, UplinkInv
<1>1. /\ UNCHANGED <<sock, wire>> /\ inbox[w] # <<>> /\ Got(w) = Head(inbox[w])
      /\ inbox'[y] = IF y = w THEN Tail(inbox[y]) ELSE inbox[y]
      /\ uplink'[x] = IF x = w THEN uplink[x] \o q ELSE uplink[x]
  BY <1>0 DEF Handling, Queues, Got
<1>2. Like(uplink[x], uplink'[x], To(y))
  BY <1>0, <1>1, LikeFacts
<1>3. Like(inbox[y], inbox'[y], From(x))
  BY <1>0, <1>1, LikeFacts
<1> QED
  BY <1>1, <1>2, <1>3, SameLike, FlowFacts

\* A message is handled: the news of the larger end by the smaller one, the offer
\* by the larger one, the answer and the command by the smaller one, or one that
\* is none of these to the link.
LEMMA StageGets ==
    ASSUME HeldInv, SidesInv, CommandInv, LeftInv, NEW w \in Users, Gets(w),
           NEW u \in Users, NEW v \in Users, u < v, Stays(u)', Stays(v)', Stage(u, v)
    PROVE  Stage(u, v)'
<1>0. /\ BaseInv /\ 1 \in Sockets /\ u # v /\ ~ (v < u)
      /\ inbox \in [Users -> Seq(ServerMsgs)] /\ uplink \in [Users -> Seq(ClientMsgs)]
      /\ \A x \in Users : inbox[x] \in Seq(ServerMsgs) /\ uplink[x] \in Seq(LinkMsgs)
      /\ \A x, y \in Users : peers[x][y] \in AnEnd
  <2>1. BaseInv /\ TypeOK /\ UplinkInv /\ 1 \in Sockets
    BY HeldFacts DEF HeldInv, BaseInv
  <2>2. u \in Nat /\ v \in Nat
    BY SquadAssumption
  <2>3. u # v /\ ~ (v < u)
    BY <2>2
  <2>4. inbox \in [Users -> Seq(ServerMsgs)] /\ uplink \in [Users -> Seq(ClientMsgs)]
    BY <2>1 DEF TypeOK
  <2>5. /\ \A x \in Users : inbox[x] \in Seq(ServerMsgs) /\ uplink[x] \in Seq(LinkMsgs)
        /\ \A x, y \in Users : peers[x][y] \in AnEnd
    BY <2>1, TypeFacts DEF UplinkInv
  <2> QED
    BY <2>1, <2>3, <2>4, <2>5
<1>1. /\ Handling(w) /\ Keeps(w, u) /\ Keeps(w, v) /\ \E q \in Seq(LinkMsgs) : Queues(w, q)
  BY <1>0, GetFacts DEF BaseInv
<1>2. PICK q \in Seq(LinkMsgs) : Queues(w, q)
  BY <1>1
<1>3. /\ UNCHANGED <<engine, sock, wire, handler, room>> /\ engine[w] = "up"
      /\ inbox[w] # <<>> /\ Got(w) = Head(inbox[w]) /\ Got(w) \in ServerMsgs
      /\ \A x \in Users : inbox'[x] = IF x = w THEN Tail(inbox[x]) ELSE inbox[x]
      /\ uplink' = [uplink EXCEPT ![w] = uplink[w] \o q]
      /\ \A x, y \in Users : x # w => peers'[x][y] = peers[x][y]
      /\ peers' \in [Users -> [Users -> AnEnd]]
  BY <1>0, <1>1, <1>2 DEF Handling, Got, Queues
<1>4. Stays(u) /\ Stays(v)
  BY <1>3 DEF Stays
<1>5. (Pending(u)' => Pending(u)) /\ (Pending(u)' => w # u \/ Got(u) \notin Rekey)
  <2>1. Faded
    BY StepFades
  <2> QED
    BY <1>1, <2>1, FadedFacts, CommandTaken
<1>6. \A x, y \in Users : Stays(y) /\ x = w => ~ Leaves(Got(x), y)
  <2>1. ASSUME NEW x \in Users, NEW y \in Users, Stays(y), x = w PROVE ~ Leaves(Got(x), y)
    <3>1. None(inbox[x], Leaving(y))
      BY <2>1 DEF LeftInv, Stays
    <3>2. Got(x) \notin Leaving(y)
      BY <1>0, <1>3, <2>1, <3>1, NoneShifted
    <3> QED
      BY <1>3, <2>1, <3>2 DEF Leaving
  <2> QED
    BY <2>1
<1>7. /\ Greets(w, u, q) /\ Passes(w, u, q) /\ Answers(w, u, q)
      /\ Greets(w, v, q) /\ Passes(w, v, q) /\ Agrees(w, v, q) /\ Rekeys(w, v, q)
  BY <1>2 DEF Queues
<1>8. Together(u, v) => sock[u] = 1 /\ sock[v] = 1 /\ sock'[u] = 1 /\ sock'[v] = 1 /\ Together(u, v)'
  BY <1>3, <1>4, HeldFacts DEF Together, Stays
<1>9. CASE w # u /\ w # v
  <2>1. Heard(u, v)
    BY <1>3, <1>9, SameLike, HeardFacts DEF Owed
  <2>2. Moves(u, v) /\ Moves(v, u)
    BY <1>0, <1>1, <1>2, <1>9, GetMoves
  <2> QED
    BY <1>1, <1>2, <1>4, <1>5, <1>9, <1>0, <2>1, <2>2, GetFrame, FrameFacts
<1>10. CASE w = v
  <2>1. Heard(u, v)
    BY <1>0, <1>3, <1>10, SameLike, HeardFacts DEF Owed
  <2>2. CASE Got(v) \notin From(u)
    <3>1. None(q, To(u)) /\ (peers[v][u] # Absent => peers'[v][u] = peers[v][u])
      <4>1. CASE Welcomes(Got(v))
        BY <1>0, <1>7, <1>10, <4>1 DEF Greets
      <4>2. CASE ~ Welcomes(Got(v))
        <5>1. ~ (Got(v).type \in {"offer", "answer"} /\ Got(v).user = u)
          BY <1>3, <1>10, <2>2, KindFacts
        <5>2. ~ Concerns(v, u)
          BY <1>0, <1>4, <1>6, <1>10, <4>2, <5>1 DEF Concerns, Leaves
        <5> QED
          BY <1>7, <1>10, <5>2 DEF Passes
      <4> QED
        BY <4>1, <4>2
    <3>2. Moves(u, v) /\ Moves(v, u)
      BY <1>0, <1>1, <1>2, <1>10, <2>2, <3>1, GetMoves
    <3> QED
      BY <1>0, <1>1, <1>2, <1>4, <1>5, <1>10, <2>1, <2>2, <3>1, <3>2, GetFrame, FrameFacts
  <2>3. CASE Got(v) \in From(u)
    <3>1. ~ None(inbox[v], From(u))
      BY <1>0, <1>3, <1>10, <2>3, NoneShifted
    <3>2. Offering(u, v)
      BY <3>1 DEF Stage, Apart, Unsent, Unmet, Answering, Settling, NoneUnderWay
    <3>3. /\ peers[u][v].pc \in Nat \ {0} /\ ~ peers[v][u].offered
          /\ peers[u][v].offered /\ peers[u][v].remote = 0 /\ Untold(u, v) /\ ~ Pending(u)
          /\ Together(u, v) /\ NoneUnderWay(v, u)
      BY <1>0, <3>2, EndFacts DEF Offering, SidesInv
    <3> DEFINE d == [type |-> "offer", pc |-> peers[u][v].pc, user |-> u]
    <3>4. /\ None(uplink[u], To(v)) /\ None(wire[u][sock[u]], To(v))
          /\ One(inbox[v], From(u), d)
      BY <3>1, <3>2 DEF Offering, OneUnderWay
    <3> HIDE DEF d
    <3>5. Got(v) = d /\ None(inbox'[v], From(u))
      BY <1>0, <1>3, <1>10, <2>3, <3>4, OneShifted
    <3>6. Got(v).type = "offer" /\ Got(v).user = u /\ Got(v).pc = peers[u][v].pc
      BY <3>5 DEF d
    <3>7. /\ peers'[v][u].remote = peers[u][v].pc
          /\ One(q, To(u), [type |-> "answer", pc |-> peers'[v][u].pc, to |-> u])
      BY <1>7, <1>10, <3>3, <3>6 DEF Answers
    <3>8. NoneUnderWay(u, v)'
      BY <1>0, <1>3, <1>10, <3>4, <3>5 DEF NoneUnderWay
    <3>9. OneUnderWay(v, u, "answer", peers[v][u].pc)'
      <4> DEFINE c == [type |-> "answer", pc |-> peers'[v][u].pc, to |-> u]
      <4>1. One(q, To(u), c)
        BY <3>7
      <4> HIDE DEF c
      <4>2. One(uplink[v] \o q, To(u), c)
        BY <1>0, <3>3, <4>1, OneJoined DEF NoneUnderWay
      <4>3. /\ uplink'[v] = uplink[v] \o q /\ wire'[v][sock'[v]] = wire[v][sock[v]]
            /\ inbox'[u] = inbox[u]
        BY <1>0, <1>3, <1>10
      <4>4. One(uplink'[v], To(u), c) /\ None(wire'[v][sock'[v]], To(u)) /\ None(inbox'[u], From(v))
        BY <3>3, <4>2, <4>3 DEF NoneUnderWay
      <4> QED
        BY <4>4 DEF OneUnderWay, c
    <3>10. peers'[u][v] = peers[u][v]
      BY <1>0, <1>3, <1>10
    <3>11. Answering(u, v)'
      BY <1>5, <1>8, <2>1, <3>3, <3>7, <3>8, <3>9, <3>10 DEF Answering, Heard
    <3> QED
      BY <3>11 DEF Stage
  <2> QED
    BY <2>2, <2>3
<1>11. CASE w = u
  <2>0. /\ inbox[u] \in Seq(ServerMsgs) /\ inbox[u] # <<>> /\ Got(u) = Head(inbox[u])
        /\ inbox'[u] = Tail(inbox[u]) /\ inbox'[v] = inbox[v] /\ peers'[v][u] = peers[v][u]
        /\ uplink'[u] = uplink[u] \o q /\ uplink'[v] = uplink[v] /\ handler' = handler
        /\ peers'[u][v] \in AnEnd /\ uplink[u] \in Seq(LinkMsgs)
        /\ wire' = wire /\ sock' = sock /\ room' = room
    BY <1>0, <1>3, <1>11
  \* The news of v: it is offered a link.
  <2>1. CASE Got(u) \in Naming(v)
    <3>1. ~ None(inbox[u], Naming(v))
      BY <2>0, <2>1, NoneShifted
    <3>2. Unmet(u, v)
      BY <3>1 DEF Stage, Apart, Untold, Offering, Answering, Settling
    <3>3. /\ Together(u, v) /\ peers[u][v] = Absent /\ ~ Pending(u)
          /\ NoneUnderWay(u, v) /\ NoneUnderWay(v, u)
          /\ ~ Owed(u, v) /\ \E m \in Naming(v) : One(inbox[u], Naming(v), m)
      BY <3>1, <3>2 DEF Unmet, ToldOnce
    <3>4. None(inbox'[u], Naming(v))
      BY <2>0, <2>1, <3>3, OneShifted
    <3>5. Untold(u, v)'
      BY <2>0, <3>3, <3>4 DEF Untold, Owed
    <3>6. Names(Got(u), v) /\ Welcomes(Got(u))
      BY <2>1 DEF Naming, Names, Welcomes
    <3>7. /\ peers'[u][v].offered /\ peers'[u][v].remote = 0
          /\ One(q, To(v), [type |-> "offer", pc |-> peers'[u][v].pc, to |-> v])
      BY <1>7, <1>11, <3>3, <3>6 DEF Greets
    <3>8. OneUnderWay(u, v, "offer", peers[u][v].pc)'
      <4> DEFINE c == [type |-> "offer", pc |-> peers'[u][v].pc, to |-> v]
      <4>1. One(q, To(v), c)
        BY <3>7
      <4> HIDE DEF c
      <4>2. One(uplink[u] \o q, To(v), c)
        BY <2>0, <3>3, <4>1, OneJoined DEF NoneUnderWay
      <4>3. One(uplink'[u], To(v), c) /\ None(wire'[u][sock'[u]], To(v)) /\ None(inbox'[v], From(u))
        BY <2>0, <3>3, <4>2 DEF NoneUnderWay
      <4> QED
        BY <4>3 DEF OneUnderWay, c
    <3>9. NoneUnderWay(v, u)'
      BY <2>0, <3>3, NoneShifted DEF NoneUnderWay
    <3>10. Offering(u, v)'
      BY <1>5, <1>8, <3>3, <3>5, <3>7, <3>8, <3>9 DEF Offering
    <3> QED
      BY <3>10 DEF Stage
  \* The answer of v: the two are linked.
  <2>2. CASE Got(u) \in From(v)
    <3>1. ~ None(inbox[u], From(v))
      BY <2>0, <2>2, NoneShifted
    <3>2. Answering(u, v)
      BY <3>1 DEF Stage, Apart, Unsent, Unmet, Offering, Settling, NoneUnderWay
    <3>3. /\ peers[u][v].pc \in Nat \ {0} /\ peers[u][v] # Absent
          /\ peers[v][u].pc \in Nat \ {0} /\ peers[v][u] # Absent /\ peers[v][u].remote = peers[u][v].pc
          /\ peers[u][v].offered /\ peers[u][v].remote = 0 /\ Untold(u, v)
          /\ Together(u, v) /\ NoneUnderWay(u, v)
      BY <1>0, <3>2, EndFacts DEF Answering
    <3> DEFINE d == [type |-> "answer", pc |-> peers[v][u].pc, user |-> v]
    <3>4. /\ None(uplink[v], To(u)) /\ None(wire[v][sock[v]], To(u))
          /\ One(inbox[u], From(v), d)
      BY <3>1, <3>2 DEF Answering, OneUnderWay
    <3> HIDE DEF d
    <3>5. Got(u) = d /\ None(inbox'[u], From(v))
      BY <2>0, <2>2, <3>4, OneShifted
    <3>6. Got(u).type = "answer" /\ Got(u).user = v /\ Got(u).pc = peers[v][u].pc
      BY <3>5 DEF d
    <3>7. None(q, To(v)) /\ peers'[u][v].pc = peers[u][v].pc /\ peers'[u][v].remote = peers[v][u].pc
      BY <1>7, <1>11, <3>3, <3>6 DEF Agrees
    <3>8. peers'[u][v] # Absent
      BY <2>0, <3>3, <3>7, EndFacts
    <3>9. Linked(u, v)'
      BY <2>0, <3>3, <3>7, <3>8 DEF Linked
    <3>10. NoneUnderWay(v, u)'
      BY <2>0, <3>4, <3>5 DEF NoneUnderWay
    <3>11. NoneUnderWay(u, v)'
      BY <2>0, <3>3, <3>7, NoneJoined DEF NoneUnderWay
    <3>12. Untold(u, v)'
      BY <2>0, <3>3, NoneShifted DEF Untold, Owed
    <3>13. Settling(u, v)'
      BY <1>8, <3>3, <3>9, <3>10, <3>11, <3>12 DEF Settling
    <3> QED
      BY <3>13 DEF Stage
  <2>3. CASE Got(u) \notin Naming(v) /\ Got(u) \notin From(v)
    <3>1. Heard(u, v)
      BY <2>0, <2>3, LikeFacts, HeardFacts DEF Owed
    <3>2. ASSUME None(q, To(v)), peers'[u][v] = peers[u][v] PROVE Stage(u, v)'
      <4>1. Moves(u, v) /\ Moves(v, u)
        BY <1>0, <1>1, <1>2, <1>11, <2>3, <3>2, GetMoves
      <4> QED
        BY <1>0, <1>1, <1>2, <1>4, <1>5, <1>11, <2>3, <3>1, <3>2, <4>1, GetFrame, FrameFacts
    <3>3. CASE Concerns(u, v)
      <4>1. CASE Welcomes(Got(u))
        <5>1. ~ Names(Got(u), v)
          BY <1>3, <1>11, <2>3 DEF Naming
        <5> QED
          BY <1>7, <1>11, <3>2, <4>1, <5>1 DEF Greets
      <4>2. CASE ~ Welcomes(Got(u))
        <5>1. ~ (Got(u).type \in {"offer", "answer"} /\ Got(u).user = v)
          BY <1>3, <1>11, <2>3, KindFacts
        <5>2. ~ (Got(u).type = "left" /\ Got(u).user = v)
          BY <1>4, <1>6, <1>11 DEF Leaves
        <5>3. Got(u).type = "rekey" /\ peers[u][v] # Absent
          BY <3>3, <4>2, <5>1, <5>2 DEF Concerns
        <5>4. Got(u) \in Rekey
          BY <1>3, <1>11, <5>3, ServerFacts DEF Rekey
        <5>5. Pending(u) /\ ~ Pending(u)'
          BY <1>5, <1>11, <2>0, <5>4, NoneShifted DEF Pending
        \* The command: the smaller end begins anew.
        <5>6. Settling(u, v)
          BY <5>3, <5>5 DEF Stage, Apart, Unmet, Offering, Answering
        <5>7. /\ peers'[u][v].offered /\ peers'[u][v].remote = 0
              /\ One(q, To(v), [type |-> "offer", pc |-> peers'[u][v].pc, to |-> v])
          BY <1>7, <1>11, <5>3 DEF Rekeys
        <5>8. Together(u, v) /\ Untold(u, v)' /\ NoneUnderWay(u, v) /\ NoneUnderWay(v, u)
          BY <3>1, <5>6 DEF Settling, Heard
        <5>9. OneUnderWay(u, v, "offer", peers[u][v].pc)'
          <6> DEFINE c == [type |-> "offer", pc |-> peers'[u][v].pc, to |-> v]
          <6>1. One(q, To(v), c)
            BY <5>7
          <6> HIDE DEF c
          <6>2. One(uplink[u] \o q, To(v), c)
            BY <2>0, <5>8, <6>1, OneJoined DEF NoneUnderWay
          <6>3. One(uplink'[u], To(v), c) /\ None(wire'[u][sock'[u]], To(v)) /\ None(inbox'[v], From(u))
            BY <2>0, <5>8, <6>2 DEF NoneUnderWay
          <6> QED
            BY <6>3 DEF OneUnderWay, c
        <5>10. NoneUnderWay(v, u)'
          BY <2>0, <5>8, NoneShifted DEF NoneUnderWay
        <5>11. Offering(u, v)'
          BY <1>8, <5>5, <5>7, <5>8, <5>9, <5>10 DEF Offering
        <5> QED
          BY <5>11 DEF Stage
      <4> QED
        BY <4>1, <4>2
    <3>4. CASE ~ Concerns(u, v)
      BY <1>7, <1>11, <3>2, <3>4 DEF Passes
    <3> QED
      BY <3>3, <3>4
  <2> QED
    BY <2>1, <2>2, <2>3
<1> QED
  BY <1>9, <1>10, <1>11

\* What a handler sends is neither news of v nor from u or v: the link stays as it is.
LEMMA ServeFrame ==
    ASSUME HeldInv, NEW u \in Users, NEW v \in Users, u # v, Stays(u), Stays(v), Stage(u, v),
           UNCHANGED <<engine, sock, peers, uplink>>,
           room'[u] = 0 <=> room[u] = 0, room'[v] = 0 <=> room[v] = 0,
           Owed(u, v)' <=> Owed(u, v), Pending(u)' => Pending(u),
           Like(inbox[u], inbox'[u], Naming(v)),
           Like(inbox[v], inbox'[v], From(u)), Like(inbox[u], inbox'[u], From(v)),
           Like(wire[u][1], wire'[u][1], To(v)), Like(wire[v][1], wire'[v][1], To(u))
    PROVE  Stage(u, v)'
<1>1. Moves(u, v) /\ Moves(v, u)
  BY SameLike, FlowFacts
<1>2. Heard(u, v)
  BY HeardFacts
<1> QED
  BY <1>1, <1>2, FrameFacts DEF Frame

\* What the server makes itself is from nobody, and news of one or of those in a roster.
LEMMA ServedFacts ==
    ASSUME NEW u \in Users, NEW v \in Users, NEW w \in Users
    PROVE  /\ \A m \in ServerMsgs : m.type \notin {"offer", "answer"} => m \notin From(u)
           /\ \A m \in ServerMsgs : m.type \notin {"joined", "roster"} => m \notin Naming(v)
           /\ w # v => [type |-> "joined", user |-> w] \notin Naming(v)
           /\ \A S \in SUBSET Users : [type |-> "roster", users |-> S] \in Naming(v) <=> v \in S
           /\ \A m \in ClientMsgs : m.type \notin {"offer", "answer"} => m \notin To(v)
<1>1. \A m \in ServerMsgs : m.type \notin {"offer", "answer"} => m \notin From(u)
  BY KindFacts
<1>2. \A m \in ServerMsgs : m.type \notin {"joined", "roster"} => m \notin Naming(v)
  BY DEF Naming, Names
<1>3. w # v => [type |-> "joined", user |-> w] \notin Naming(v)
  BY DEF Naming, Names
<1>4. ASSUME NEW S \in SUBSET Users PROVE [type |-> "roster", users |-> S] \in Naming(v) <=> v \in S
  <2> DEFINE m == [type |-> "roster", users |-> S]
  <2>1. m \in ServerMsgs /\ m.type = "roster" /\ m.users = S
    BY ServerFacts
  <2> HIDE DEF m
  <2>2. m \in Naming(v) <=> v \in S
    BY <2>1 DEF Naming, Names
  <2> QED
    BY <2>2 DEF m
<1>5. \A m \in ClientMsgs : m.type \notin {"offer", "answer"} => m \notin To(v)
  BY KindFacts
<1> QED
  BY <1>1, <1>2, <1>3, <1>4, <1>5

\* Who joins is apart from the others, and hears of those in the room as they of it.
LEMMA StageGreet ==
    ASSUME HeldInv, CommandInv, NEW w \in Users, ServeStep(w), GreetStep(w),
           NEW u \in Users, NEW v \in Users, u # v, Stays(u), Stays(v), Stage(u, v)
    PROVE  Stage(u, v)'
<1>0. /\ UNCHANGED <<engine, sock, peers, uplink>> /\ 1 \in Sockets
      /\ room[w] = 0 /\ \A x \in Users : room'[x] = IF x = w THEN 1 ELSE room[x]
      /\ handler[w][1].phase = "open"
      /\ handler'[w][1].phase = "joined" /\ handler'[w][1].roster = Listed \ {w}
      /\ \A x \in Users : x # w => handler'[x][1] = handler[x][1]
      /\ Reads(w, 1, {"join"}) /\ Reaches(Listed \ {w}, [type |-> "joined", user |-> w])
      /\ inbox[u] \in Seq(ServerMsgs)
  <2>1. 1 \in Sockets /\ room \in [Users -> 0 .. MaxSockets] /\ inbox[u] \in Seq(ServerMsgs)
    BY HeldFacts, TypeFacts DEF HeldInv, BaseInv, TypeOK
  <2>2. /\ handler'[w][1] = [phase |-> "joined", roster |-> Listed \ {w}]
        /\ \A x \in Users : x # w => handler'[x][1] = handler[x][1]
    BY <2>1 DEF GreetStep, Becomes
  <2> QED
    BY <2>1, <2>2 DEF ServeStep, GreetStep
<1> DEFINE m == [type |-> "joined", user |-> w]
<1>1. m \in ServerMsgs /\ (\A x \in Users : m \notin From(x)) /\ (w # v => m \notin Naming(v)) /\ (w = v => m \in Naming(v))
  <2>1. m \in ServerMsgs /\ m.type = "joined" /\ m.user = w
    BY ServerFacts
  <2> HIDE DEF m
  <2>2. m \in Naming(v) <=> w = v
    BY <2>1 DEF Naming, Names
  <2> QED
    BY <2>1, <2>2, ServedFacts
<1>2. Reaches(Listed \ {w}, m)
  BY <1>0
<1> HIDE DEF m
<1>3. /\ \A x \in Users : inbox'[x] = IF x \in Listed \ {w} /\ engine[x] = "up" THEN Append(inbox[x], m) ELSE inbox[x]
      /\ Like(inbox[v], inbox'[v], From(u)) /\ Like(inbox[u], inbox'[u], From(v))
      /\ w # v => Like(inbox[u], inbox'[u], Naming(v))
  <2>1. \A x \in Users : inbox'[x] = IF x \in Listed \ {w} /\ engine[x] = "up" THEN Append(inbox[x], m) ELSE inbox[x]
    BY <1>2 DEF Reaches
  <2> QED
    BY <1>1, <1>2, <2>1, HeldLike
<1>4. Like(wire[u][1], wire'[u][1], To(v)) /\ Like(wire[v][1], wire'[v][1], To(u))
  <2>1. Head(wire[w][1]) \notin To(v) /\ Head(wire[w][1]) \notin To(u)
    <3> DEFINE c == Head(wire[w][1])
    <3>1. c \in ClientMsgs /\ c.type = "join"
      BY <1>0 DEF Reads
    <3> HIDE DEF c
    <3>2. c \notin To(v) /\ c \notin To(u)
      BY <3>1, ServedFacts
    <3> QED
      BY <3>2 DEF c
  <2> QED
    BY <1>0, <2>1, HeldLike
<1>5. Pending(u)' => Pending(u)
  <2>1. ~ AllStep(w)
    BY <1>0 DEF AllStep
  <2> QED
    BY <2>1, StepFades, FadedFacts
<1>6. CASE w # u /\ w # v
  BY <1>0, <1>3, <1>4, <1>5, <1>6, ServeFrame DEF Owed
<1>7. CASE w = u \/ w = v
  <2>1. Apart(u, v)
    BY <1>0, <1>7 DEF Stage, Unmet, Offering, Answering, Settling, Together
  <2>2. Moves(u, v) /\ Moves(v, u)
    BY <1>0, <1>3, <1>4, SameLike, FlowFacts
  <2>3. Unsent(u, v)' /\ Unsent(v, u)' /\ peers'[u][v] = Absent /\ None(inbox[u], Naming(v)) /\ ~ Owed(u, v)
    BY <1>0, <2>1, <2>2 DEF Apart, Moves, Untold
  <2>4. ~ Pending(u)'
    <3>1. ~ Inside
      BY <1>0 DEF Inside
    <3> QED
      BY <1>5, <3>1 DEF CommandInv
  <2>5. Together(u, v)' => NoneUnderWay(u, v)' /\ NoneUnderWay(v, u)'
    <3>1. ASSUME Together(u, v)' PROVE sock'[u] = 1 /\ sock'[v] = 1
      <4>1. engine[u] # "off" /\ engine[v] # "off"
        BY <1>0, <1>7, <3>1, HeldFacts DEF Together
      <4> QED
        BY <1>0, <4>1, HeldFacts
    <3> QED
      BY <2>3, <3>1 DEF Unsent, NoneUnderWay
  <2>6. CASE w = u
    <3>1. inbox'[u] = inbox[u]
      BY <1>3, <2>6
    <3>2. Owed(u, v)' <=> room[v] # 0
      <4>1. v \in Listed \ {w} <=> room[v] # 0
        BY <2>6 DEF Listed
      <4> QED
        BY <1>0, <2>6, <4>1 DEF Owed
    <3>3. CASE room[v] = 0
      <4>1. Apart(u, v)'
        BY <1>0, <2>3, <2>6, <3>1, <3>2, <3>3 DEF Apart, Untold
      <4> QED
        BY <4>1 DEF Stage
    <3>4. CASE room[v] # 0
      <4>1. Together(u, v)' /\ ToldOnce(u, v)'
        BY <1>0, <2>3, <2>6, <3>1, <3>2, <3>4 DEF Together, ToldOnce
      <4>2. Unmet(u, v)'
        BY <2>3, <2>4, <2>5, <4>1 DEF Unmet
      <4> QED
        BY <4>2 DEF Stage
    <3> QED
      BY <3>3, <3>4
  <2>7. CASE w = v
    <3>1. ~ Owed(u, v)'
      BY <1>0, <2>3, <2>7 DEF Owed
    <3>2. CASE room[u] = 0
      <4>1. inbox'[u] = inbox[u] /\ room'[u] = 0
        BY <1>0, <1>3, <2>7, <3>2 DEF Listed
      <4>2. Apart(u, v)'
        BY <2>3, <3>1, <4>1 DEF Apart, Untold
      <4> QED
        BY <4>2 DEF Stage
    <3>3. CASE room[u] # 0
      <4>1. engine[u] = "up"
        BY <3>3, HeldFacts DEF Stays
      <4>2. inbox'[u] = Append(inbox[u], m)
        BY <1>3, <2>7, <3>3, <4>1 DEF Listed
      <4>3. One(inbox'[u], Naming(v), m) /\ m \in Naming(v)
        BY <1>0, <1>1, <2>3, <2>7, <4>2, OneAppended
      <4>4. Together(u, v)' /\ ToldOnce(u, v)'
        BY <1>0, <2>7, <3>1, <3>3, <4>3 DEF Together, ToldOnce
      <4>5. Unmet(u, v)'
        BY <2>3, <2>4, <2>5, <4>4 DEF Unmet
      <4> QED
        BY <4>5 DEF Stage
    <3> QED
      BY <3>2, <3>3
  <2> QED
    BY <1>7, <2>6, <2>7
<1> QED
  BY <1>6, <1>7

\* The roster a handler owes goes on the way.
LEMMA StageList ==
    ASSUME HeldInv, NEW w \in Users, ServeStep(w), ListStep(w),
           NEW u \in Users, NEW v \in Users, u # v, Stays(u), Stays(v), Stage(u, v)
    PROVE  Stage(u, v)'
<1>0. /\ UNCHANGED <<engine, sock, peers, uplink, wire, room>> /\ 1 \in Sockets
      /\ handler[w][1].phase = "joined"
      /\ handler'[w][1].phase = "welcomed" /\ \A x \in Users : x # w => handler'[x][1] = handler[x][1]
      /\ inbox[u] \in Seq(ServerMsgs)
  <2>1. 1 \in Sockets /\ inbox[u] \in Seq(ServerMsgs)
    BY HeldFacts, TypeFacts DEF HeldInv, BaseInv
  <2>2. /\ handler'[w][1] = [phase |-> "welcomed", roster |-> {}]
        /\ \A x \in Users : x # w => handler'[x][1] = handler[x][1]
    BY <2>1 DEF ListStep, Becomes
  <2> QED
    BY <2>1, <2>2 DEF ServeStep, ListStep
<1> DEFINE m == [type |-> "roster", users |-> handler[w][1].roster]
<1>1. handler[w][1].roster \in SUBSET Users
  <2>1. handler \in HandlerType
    BY DEF HeldInv, BaseInv, TypeOK, HandlerType, Phases
  <2> QED
    BY <1>0, <2>1 DEF HandlerType
<1>2. Reaches({w}, m) /\ m \in ServerMsgs /\ m.type = "roster" /\ (m \in Naming(v) <=> v \in handler[w][1].roster)
  <2> DEFINE S == handler[w][1].roster
  <2>1. Reaches({w}, m)
    BY DEF ListStep
  <2>2. m = [type |-> "roster", users |-> S]
    OBVIOUS
  <2> HIDE DEF S
  <2>3. S \in SUBSET Users
    BY <1>1 DEF S
  <2>4. m \in ServerMsgs /\ m.type = "roster" /\ (m \in Naming(v) <=> v \in S)
    BY <2>2, <2>3, ServedFacts, ServerFacts
  <2> QED
    BY <2>1, <2>4 DEF S
<1> HIDE DEF m
<1>3. \A x \in Users : inbox'[x] = IF x = w /\ engine[x] = "up" THEN Append(inbox[x], m) ELSE inbox[x]
  BY <1>2 DEF Reaches
<1>4. Like(inbox[v], inbox'[v], From(u)) /\ Like(inbox[u], inbox'[u], From(v))
  BY <1>2, HeldLike, ServedFacts
<1>5. Pending(u)' => Pending(u)
  <2>1. ~ AllStep(w)
    BY <1>0 DEF AllStep
  <2> QED
    BY <2>1, StepFades, FadedFacts
<1>6. CASE w # u
  BY <1>0, <1>3, <1>4, <1>5, <1>6, SameLike, ServeFrame DEF Owed
<1>7. CASE w = u
  <2>1. engine[u] = "up"
    BY <1>0, <1>7, HeldFacts DEF Stays
  <2>2. inbox'[u] = Append(inbox[u], m) /\ ~ Owed(u, v)' /\ (m \in Naming(v) <=> Owed(u, v))
    <3>1. inbox'[u] = Append(inbox[u], m)
      BY <1>3, <1>7, <2>1
    <3>2. ~ Owed(u, v)'
      BY <1>0, <1>7 DEF Owed
    <3>3. m \in Naming(v) <=> Owed(u, v)
      BY <1>0, <1>2, <1>7 DEF Owed
    <3> QED
      BY <3>1, <3>2, <3>3
  <2>3. CASE ~ Owed(u, v)
    <3>1. Like(inbox[u], inbox'[u], Naming(v))
      BY <1>0, <1>2, <2>2, <2>3, LikeFacts
    <3> QED
      BY <1>0, <1>4, <1>5, <2>2, <2>3, <3>1, SameLike, ServeFrame
  <2>4. CASE Owed(u, v)
    <3>1. None(inbox[u], Naming(v)) => One(inbox'[u], Naming(v), m)
      BY <1>0, <1>2, <2>2, OneAppended
    <3>2. Heard(u, v)
      BY <2>2, <2>4, <3>1 DEF Heard, Untold, ToldOnce
    <3>3. Moves(u, v) /\ Moves(v, u)
      BY <1>0, <1>4, SameLike, FlowFacts
    <3> QED
      BY <1>0, <1>5, <3>2, <3>3, FrameFacts DEF Frame
  <2> QED
    BY <2>3, <2>4
<1> QED
  BY <1>6, <1>7

\* An offer or an answer is passed on to whom it is for.
LEMMA StagePass ==
    ASSUME HeldInv, NEW w \in Users, ServeStep(w), PassStep(w),
           NEW u \in Users, NEW v \in Users, u # v, Stays(u), Stays(v), Stage(u, v)
    PROVE  Stage(u, v)'
<1>0. /\ UNCHANGED <<engine, sock, peers, uplink, handler, room>> /\ 1 \in Sockets /\ BaseInv
      /\ handler[w][1].phase = "serving" /\ RelayStep(w, 1) /\ Reads(w, 1, {"offer", "answer"})
      /\ \A x \in Users : inbox[x] \in Seq(ServerMsgs) /\ wire[x][1] \in Seq(ClientMsgs)
  BY HeldFacts, TypeFacts DEF ServeStep, PassStep, RelayStep, HeldInv, BaseInv
<1> DEFINE m == Head(wire[w][1])
           e == [type |-> m.type, user |-> w, pc |-> m.pc]
<1>1. /\ m \in LinkMsgs /\ Reaches({m.to} \cap Listed, e) /\ wire[w][1] # <<>>
      /\ \A x \in Users : wire'[x][1] = IF x = w THEN Tail(wire[w][1]) ELSE wire[x][1]
  BY <1>0 DEF PassStep, RelayStep, Reads
<1>2. m.type \in {"offer", "answer"}
  BY <1>1, ClientFacts
<1>3. /\ e \in ServerMsgs /\ e.type = m.type /\ e.user = w
      /\ \A x \in Users : inbox'[x] = IF x = m.to /\ x \in Listed /\ engine[x] = "up"
                                      THEN Append(inbox[x], e) ELSE inbox[x]
  BY <1>1 DEF Reaches
<1>4. wire[w][1] # <<>> /\ Head(wire[w][1]) = m
  BY <1>1
<1> HIDE DEF e, m
<1>5. ASSUME NEW x \in Users, NEW y \in Users, x # y, Stays(x), Stays(y) PROVE Moves(x, y)
  <2>1. ASSUME IsPresent(x), IsPresent(y) PROVE Under(x, y)
    <3>1. engine[w] # "off" /\ sock[w] = 1
      BY <1>0, HeldFacts
    <3> QED
      BY <1>0, <1>5, <2>1, <3>1, RelayUnder DEF IsPresent
  <2>2. ASSUME Unsent(x, y) PROVE Unsent(x, y)'
    <3>1. CASE w # x
      <4>1. e \notin From(x)
        BY <1>3, <3>1, KindFacts
      <4>2. Like(inbox[y], inbox'[y], From(x))
        BY <1>1, <4>1, HeldLike
      <4> QED
        BY <1>0, <1>1, <2>2, <3>1, <4>2 DEF Unsent, Like
    <3>2. CASE w = x
      <4>1. m \notin To(y) /\ None(Tail(wire[w][1]), To(y))
        BY <1>0, <1>4, <2>2, <3>2, NoneShifted DEF Unsent
      <4>2. m.to # y
        BY <1>1, <4>1, KindFacts
      <4>3. inbox'[y] = inbox[y] /\ wire'[x][1] = Tail(wire[w][1])
        BY <1>1, <1>3, <3>2, <4>2
      <4> QED
        BY <1>0, <2>2, <4>1, <4>3 DEF Unsent
    <3> QED
      BY <3>1, <3>2
  <2> QED
    BY <2>1, <2>2 DEF Moves
<1>6. Heard(u, v)
  <2>1. e \notin Naming(v)
    BY <1>2, <1>3, ServedFacts
  <2>2. Like(inbox[u], inbox'[u], Naming(v))
    BY <1>1, <2>1, HeldLike
  <2> QED
    BY <1>0, <2>2, HeardFacts DEF Owed
<1>7. Pending(u)' => Pending(u)
  <2>1. ~ AllStep(w)
    BY <1>2, <1>4 DEF AllStep, Reads
  <2> QED
    BY <2>1, StepFades, FadedFacts
<1> QED
  BY <1>0, <1>5, <1>6, <1>7, FrameFacts DEF Frame

\* What is left of a handler's steps is not about the link at all, but for the
\* command, which may reach whoever it may reach.
LEMMA StageRest ==
    ASSUME HeldInv, NEW w \in Users, ServeStep(w), ServingStep(w) \/ AllStep(w) \/ VoiceStepOf(w) \/ EndStep(w),
           NEW u \in Users, NEW v \in Users, u # v, Stays(u), Stays(v), Stage(u, v)
    PROVE  Stage(u, v)'
<1>0. /\ UNCHANGED <<engine, sock, peers, uplink>> /\ 1 \in Sockets
      /\ room \in [Users -> 0 .. MaxSockets]
  BY HeldFacts DEF ServeStep, HeldInv, BaseInv, TypeOK
<1>1. (room'[u] = 0 <=> room[u] = 0) /\ (room'[v] = 0 <=> room[v] = 0)
  BY <1>0 DEF ServingStep, AllStep, VoiceStepOf, EndStep, Stays
<1>2. Owed(u, v)' <=> Owed(u, v)
  <2>1. handler'[u][1] = handler[u][1] \/ (handler[u][1].phase = "welcomed" /\ handler'[u][1].phase = "serving")
    <3>1. CASE ServingStep(w)
      <4>1. /\ handler[w][1].phase = "welcomed"
            /\ \A x \in Users : handler'[x][1] = IF x = w THEN [phase |-> "serving", roster |-> handler[w][1].roster]
                                                          ELSE handler[x][1]
        BY <1>0, <3>1 DEF ServingStep, Becomes
      <4> QED
        BY <4>1
    <3>2. CASE EndStep(w)
      <4>1. u # w
        BY <3>2 DEF EndStep, Stays
      <4> QED
        BY <1>0, <3>2, <4>1 DEF EndStep, Becomes
    <3>3. CASE AllStep(w) \/ VoiceStepOf(w)
      BY <3>3 DEF AllStep, VoiceStepOf
    <3> QED
      BY <3>1, <3>2, <3>3
  <2> QED
    BY <2>1 DEF Owed
<1>3. Pending(u)' => Pending(u)
  <2>1. CASE AllStep(w)
    <3> DEFINE c == Head(wire[w][1])
    <3>1. c \in ClientMsgs /\ c.type = "rekey" /\ wire[w][1] # <<>> /\ wire[w][1] \in Seq(ClientMsgs)
      BY <1>0, <2>1, TypeFacts DEF AllStep, Reads, HeldInv, BaseInv
    <3>2. c \in Rekey
      BY <3>1, ClientFacts DEF Rekey
    <3>3. ~ None(wire[w][1], Rekey)
      BY <3>1, <3>2, NoneShifted
    <3> QED
      BY <3>3 DEF Pending
  <2>2. CASE ~ AllStep(w)
    BY <2>2, StepFades, FadedFacts
  <2> QED
    BY <2>1, <2>2
<1>4. Like(wire[u][1], wire'[u][1], To(v)) /\ Like(wire[v][1], wire'[v][1], To(u))
  <2>1. CASE ServingStep(w)
    BY <2>1, SameLike DEF ServingStep
  <2>2. CASE EndStep(w)
    <3>1. u # w /\ v # w
      BY <2>2 DEF EndStep, Stays
    <3>2. wire'[u][1] = wire[u][1] /\ wire'[v][1] = wire[v][1]
      BY <1>0, <2>2, <3>1 DEF EndStep
    <3> QED
      BY <3>2, SameLike
  <2>3. CASE AllStep(w) \/ VoiceStepOf(w)
    <3> DEFINE c == Head(wire[w][1])
    <3>1. PICK types \in {{"rekey"}, {"ptt"}} : Reads(w, 1, types)
      BY <2>3 DEF AllStep, VoiceStepOf
    <3>2. c \in ClientMsgs /\ c.type \in {"rekey", "ptt"}
      BY <3>1 DEF Reads
    <3> HIDE DEF c
    <3>3. c \notin To(u) /\ c \notin To(v)
      BY <3>2, ServedFacts
    <3> QED
      BY <3>1, <3>3, HeldLike DEF c
  <2> QED
    BY <2>1, <2>2, <2>3
<1>5. inbox' = inbox \/ \E members : \E m \in ServerMsgs :
          Reaches(members, m) /\ m.type \notin {"offer", "answer", "joined", "roster"}
  <2>1. CASE ServingStep(w)
    BY <2>1 DEF ServingStep, Reaches
  <2>2. CASE EndStep(w)
    <3>1. inbox' = inbox \/ Reaches(Listed \ {w}, LeftMsg(w))
      BY <2>2 DEF EndStep, LeftMsg
    <3>2. LeftMsg(w) \in ServerMsgs /\ LeftMsg(w).type = "left"
      BY ServerFacts DEF LeftMsg
    <3> QED
      BY <3>1, <3>2
  <2>3. CASE AllStep(w)
    BY <2>3 DEF AllStep, Reaches, RekeyMsg
  <2>4. CASE VoiceStepOf(w)
    BY <2>4 DEF VoiceStepOf, Reaches
  <2> QED
    BY <2>1, <2>2, <2>3, <2>4
<1>6. /\ Like(inbox[u], inbox'[u], Naming(v))
      /\ Like(inbox[v], inbox'[v], From(u)) /\ Like(inbox[u], inbox'[u], From(v))
  <2>1. CASE inbox' = inbox
    BY <2>1, SameLike
  <2>2. ASSUME NEW members, NEW m \in ServerMsgs, Reaches(members, m),
               m.type \notin {"offer", "answer", "joined", "roster"}
        PROVE  /\ Like(inbox[u], inbox'[u], Naming(v))
               /\ Like(inbox[v], inbox'[v], From(u)) /\ Like(inbox[u], inbox'[u], From(v))
    <3>1. m \notin Naming(v) /\ m \notin From(u) /\ m \notin From(v)
      BY <2>2, ServedFacts
    <3> QED
      BY <2>2, <3>1, HeldLike
  <2> QED
    BY <1>5, <2>1, <2>2
<1> QED
  BY <1>0, <1>1, <1>2, <1>3, <1>4, <1>6, ServeFrame

LEMMA StageStep ==
    ASSUME HeldInv, env.droppers = {}, "rekey" \in env.patient, SidesInv, CommandInv, LeftInv, StageInv, [Next]_vars
    PROVE  StageInv'
<1>0. /\ BaseInv /\ Users \subseteq Nat
      /\ \/ UNCHANGED vars
         \/ \E w \in Users : HeldStep(w) \/ Gets(w) \/ ServeStep(w)
  BY HeldSteps, SquadAssumption DEF HeldInv
<1>1. SUFFICES ASSUME NEW u \in Users, NEW v \in Users, u < v, Stays(u)', Stays(v)' PROVE Stage(u, v)'
  BY DEF StageInv
<1>2. u # v
  BY <1>0, <1>1
<1>3. Stays(u) /\ Stays(v)
  <2>1. engine \in [Users -> {"off", "up", "down", "gone"}]
    BY <1>0 DEF BaseInv, TypeOK
  <2>2. CASE UNCHANGED vars
    BY <1>1, <2>2 DEF vars, Stays
  <2>3. ASSUME NEW w \in Users, HeldStep(w) PROVE Stays(u) /\ Stays(v)
    BY <1>1, <2>1, <2>3 DEF Stays, HeldStep, StartStep, LeaveStep, ForwardStep, CommandStep, TalkStep
  <2>4. ASSUME NEW w \in Users, Gets(w) \/ ServeStep(w) PROVE Stays(u) /\ Stays(v)
    BY <1>0, <1>1, <2>4, GetFacts DEF Stays, Handling, ServeStep, BaseInv
  <2> QED
    BY <1>0, <2>2, <2>3, <2>4
<1>4. Stage(u, v)
  BY <1>1, <1>3 DEF StageInv
<1>5. CASE UNCHANGED vars
  <2>1. /\ UNCHANGED <<engine, sock, peers, uplink, wire, inbox, handler, room>>
    BY <1>5 DEF vars
  <2>2. Moves(u, v) /\ Moves(v, u)
    BY <2>1, SameLike, FlowFacts
  <2>3. Heard(u, v) /\ (Pending(u)' => Pending(u))
    BY <2>1, SameLike, HeardFacts DEF Owed, Pending
  <2> QED
    BY <1>3, <1>4, <2>1, <2>2, <2>3, FrameFacts DEF Frame
<1>6. ASSUME NEW w \in Users, HeldStep(w) PROVE Stage(u, v)'
  BY <1>1, <1>2, <1>4, <1>6, StageCommand, StageHeld
<1>7. ASSUME NEW w \in Users, Gets(w) PROVE Stage(u, v)'
  BY <1>1, <1>4, <1>7, StageGets
<1>8. ASSUME NEW w \in Users, ServeStep(w) PROVE Stage(u, v)'
  BY <1>2, <1>3, <1>4, <1>8, StageGreet, StageList, StagePass, StageRest DEF ServeStep
<1> QED
  BY <1>0, <1>5, <1>6, <1>7, <1>8

\* Where sockets hold and rekeys are patient.
SettleInv == /\ BaseInv /\ SocketInv /\ SidesInv
             /\ env.droppers = {} => HoldInv /\ ("rekey" \in env.patient => CommandInv /\ LeftInv /\ StageInv)

LEMMA SettleInit == ASSUME Init PROVE SettleInv
<1>1. BaseInv /\ SocketInv /\ SidesInv
  BY LinkInit DEF LinkInv
<1>2. /\ 1 \in Sockets /\ HoldInv
      /\ \A u \in Users : /\ inbox[u] = <<>> /\ uplink[u] = <<>> /\ wire[u][1] = <<>> /\ room[u] = 0
                          /\ handler[u][1] = Closed /\ \A v \in Users : peers[u][v] = Absent
  <2>1. 1 \in Sockets
    BY SquadAssumption DEF Sockets
  <2>2. HoldInv
    BY <2>1 DEF Init, HoldInv, Holds, Closed
  <2> QED
    BY <2>1, <2>2 DEF Init
<1>3. CommandInv
  <2>1. InInboxes /\ \A u \in Users : ~ Pending(u)
    BY <1>2, EmptyFacts DEF InInboxes, Pending
  <2> QED
    BY <2>1 DEF CommandInv, OneCommand
<1>4. LeftInv
  BY <1>2, EmptyFacts DEF LeftInv
<1>5. StageInv
  <2>1. \A u, v \in Users : Apart(u, v)
    BY <1>2, EmptyFacts DEF Apart, Untold, Owed, Unsent, Closed
  <2> QED
    BY <2>1 DEF StageInv, Stage
<1> QED
  BY <1>1, <1>2, <1>3, <1>4, <1>5 DEF SettleInv

LEMMA SettleStep == ASSUME SettleInv, [Next]_vars PROVE SettleInv'
<1>1. BaseInv /\ SocketInv /\ SidesInv
  BY DEF SettleInv
<1>2. BaseInv' /\ SocketInv' /\ SidesInv' /\ env' = env
  BY <1>1, TypeStep, SocketStep, SidesStep, StepFacts DEF vars
<1>3. ASSUME env.droppers = {} PROVE HoldInv' /\ ("rekey" \in env.patient => CommandInv' /\ LeftInv' /\ StageInv')
  <2>1. HeldInv /\ ("rekey" \in env.patient => CommandInv /\ LeftInv /\ StageInv)
    BY <1>1, <1>3 DEF SettleInv, HeldInv
  <2> QED
    BY <1>1, <1>3, <2>1, HoldStep, CommandInvStep, LeftInvStep, StageStep
<1> QED
  BY <1>2, <1>3 DEF SettleInv

\* However many users there are, in whatever order they come, talk and leave: as long
\* as sockets hold and a rekey is commanded when all is settled, every two users in
\* the room are linked once nothing is in flight.  Each saw the other once, the smaller
\* one offered and the larger one answered, and no answer was taken for another's
\* (mesh.rs:196-273, server main.rs:499-558).
THEOREM SettledLinks == Spec => [](env.droppers = {} /\ "rekey" \in env.patient => SettledIsLinked)
<1>1. Init => SettleInv
  BY SettleInit
<1>2. SettleInv /\ [Next]_vars => SettleInv'
  BY SettleStep
<1>3. SettleInv => (env.droppers = {} /\ "rekey" \in env.patient => SettledIsLinked)
  <2>1. SUFFICES ASSUME SettleInv, env.droppers = {}, "rekey" \in env.patient, Quiet
                 PROVE  PresentAreLinked
    BY DEF SettledIsLinked
  <2>2. HeldInv /\ StageInv /\ Users \subseteq Nat /\ 1 \in Sockets
    BY <2>1, HeldFacts, SquadAssumption DEF SettleInv, HeldInv
  <2>3. ASSUME NEW u \in Users, NEW v \in Users, IsPresent(u), IsPresent(v), u < v
        PROVE  Linked(u, v)
    <3>1. /\ Stays(u) /\ Stays(v) /\ Together(u, v) /\ sock[u] = 1 /\ sock[v] = 1
      BY <2>2, <2>3, HeldFacts DEF Stays, Together
    <3>2. Stage(u, v)
      BY <2>2, <2>3, <3>1 DEF StageInv
    <3>3. /\ \A x \in Users : /\ inbox[x] = <<>> /\ uplink[x] = <<>> /\ wire[x][1] = <<>>
                              /\ handler[x][1].phase \in {"closed", "serving"}
      BY <2>1, <2>2 DEF Quiet, IsIdle
    <3>4. ~ Apart(u, v)
      BY <3>1 DEF Apart, Together
    <3>5. ~ Unmet(u, v)
      BY <3>3 DEF Unmet, ToldOnce, Owed, One
    <3>6. ~ Offering(u, v) /\ ~ Answering(u, v)
      BY <3>1, <3>3 DEF Offering, Answering, OneUnderWay, One
    <3> QED
      BY <3>2, <3>4, <3>5, <3>6 DEF Stage, Settling
  <2>4. ASSUME NEW u \in Users, NEW v \in Users, IsPresent(u), IsPresent(v), u # v
        PROVE  Linked(u, v)
    <3>1. u < v \/ v < u
      BY <2>2, <2>4
    <3>2. Linked(u, v) \/ Linked(v, u)
      BY <2>3, <2>4, <3>1
    <3> QED
      BY <3>2 DEF Linked
  <2> QED
    BY <2>4 DEF PresentAreLinked
<1> QED
  BY <1>1, <1>2, <1>3, PTL DEF Spec

=============================================================================
