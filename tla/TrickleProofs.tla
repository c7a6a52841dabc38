--------------------------- MODULE TrickleProofs ---------------------------
(***************************************************************************)
(* Theorems about Trickle, for any plans: any candidates, any number of    *)
(* rekeys and of lines.                                                    *)
(***************************************************************************)
EXTENDS Trickle, SequenceTheorems, TLAPS

-----------------------------------------------------------------------------
(* The invariant.                                                          *)

Has(q, m) == \E i \in DOMAIN q : q[i] = m

\* User 1 offers at once and under a new number each time; user 2 never offers,
\* and builds at most one PeerConnection for each offer it takes.
EndInv ==
    /\ made[1] = end[1].pc /\ made[2] = end[2].pc
    /\ made[1] = IF seen[1] THEN rekeys + 1 ELSE 0
    /\ ~ seen[1] => rekeys = 0
    /\ ~ end[2].offered
    /\ seen[2] => made[2] # 0
    /\ IF RemoteSet(end[2]) THEN made[2] <= end[2].remote /\ end[2].remote <= made[1]
                            ELSE made[2] <= 1

\* The i-th message to user 2 is an offer.
IsOffer(i) == queue[2][i].type = "offer"

\* Offers come in the order of their numbers, each once, and the last one is not
\* lost.
QueueInv ==
    /\ due[1] \in {<<>>, <<OfferOf(end[1])>>} /\ due[2] \in {<<>>, <<AnswerOf(end[2])>>}
    /\ \A i \in DOMAIN queue[1] : queue[1][i].type # "offer"
    /\ \A i \in DOMAIN queue[2] : queue[2][i].type # "answer"
    /\ \A i \in DOMAIN queue[2] : IsOffer(i) =>
          /\ end[2].remote < queue[2][i].pc /\ queue[2][i].pc <= made[1]
          /\ due[1] # <<>> => queue[2][i].pc < made[1]
    /\ due[1] # <<>> => end[2].remote < made[1]
    /\ \A i, j \in DOMAIN queue[2] :
          IsOffer(i) /\ IsOffer(j) /\ i < j => queue[2][i].pc < queue[2][j].pc
    /\ \/ made[1] = end[2].remote \/ due[1] # <<>>
       \/ \E i \in DOMAIN queue[2] : IsOffer(i) /\ queue[2][i].pc = made[1]

\* What was reported is of a PeerConnection that was built, and at the answering
\* end of one that has taken its offer.
ReportInv ==
    /\ \A u \in Users : \A c \in reported[u] : c[1] \in 1 .. made[u]
    /\ ~ RemoteSet(end[2]) => \A c \in reported[2] : c[1] # made[2]

\* A candidate has reached u, or is on its way.
Reaches(c, u) == c \in known[u] \cup pending[u] \/ Has(queue[u], IceOf(c))

\* It comes after the offer it belongs to.
Behind(c) == \E i, j \in DOMAIN queue[2] :
                i < j /\ IsOffer(i) /\ queue[2][i].pc = c[1] /\ queue[2][j] = IceOf(c)

AnsweringInv == end[2].remote = made[1] =>
                    \A c \in reported[2] : c[1] = made[2] => Reaches(c, 1)
OfferingInv  == \A c \in reported[1] \ early : c[1] = made[1] =>
                    Behind(c) \/ (end[2].remote = made[1] /\ Reaches(c, 2))
ReadyInv     == rekeys = 0 /\ ready => /\ made[2] # 0
                                       /\ \A c \in reported[1] : Reaches(c, 2)

\* The slot holds the channel of the PeerConnection there is, once it is open.
ChatInv ==
    /\ slot[1] = made[1] /\ (opened[2] = made[2] => slot[2] = made[2])
    /\ \A u \in Users : opened[u] <= made[u]
    /\ \A u \in Users : \A i \in sure[u] : Has(path[Other(u)], i) \/ Has(heard[Other(u)], i)

TrickleInv == /\ TypeOK /\ EndInv /\ QueueInv /\ ReportInv
              /\ AnsweringInv /\ OfferingInv /\ ReadyInv /\ ChatInv

-----------------------------------------------------------------------------
(* Users, messages, ends and queues.                                       *)

LEMMA UserFacts ==
    /\ 1 \in Users /\ 2 \in Users /\ \A u \in Users : u = 1 \/ u = 2
    /\ Other(1) = 2 /\ Other(2) = 1
    /\ \A u \in Users : Other(u) \in Users /\ Other(u) # u /\ Other(Other(u)) = u
BY DEF Users, Other

LEMMA PlanFacts ==
    ASSUME plan \in Plans
    PROVE  /\ plan.rekeys \in Nat /\ plan.lines \in Nat
           /\ \A n : n \in AnyPc <=> n \in Nat /\ 0 < n /\ n <= plan.rekeys + 1
BY TrickleAssumption DEF AnyPc

LEMMA MessageFacts ==
    /\ \A m \in Messages : /\ m.type \in {"offer", "answer", "ice"}
                           /\ m.type = "ice" => m.cand \in AnyCandidate /\ m = IceOf(m.cand)
                           /\ m.type # "ice" => m.pc \in AnyPc
    /\ \A c \in AnyCandidate : IceOf(c) \in Messages
    /\ \A c : IceOf(c).type = "ice" /\ IceOf(c).cand = c
    /\ \A e : e.pc \in AnyPc => OfferOf(e) \in Messages /\ AnswerOf(e) \in Messages
    /\ \A e : OfferOf(e).type = "offer" /\ AnswerOf(e).type = "answer"
              /\ OfferOf(e).pc = e.pc /\ AnswerOf(e).pc = e.pc
BY DEF Messages, IceOf, OfferOf, AnswerOf

LEMMA EndFacts ==
    ASSUME NEW e \in Ends \cup {Absent}
    PROVE  /\ e.pc \in Nat /\ e.remote \in Nat /\ e.offered \in BOOLEAN /\ e.turn \in BOOLEAN
           /\ e.pc = 0 <=> e = Absent
           /\ RemoteSet(e) <=> e.remote # 0
           /\ e = Absent => ~ RemoteSet(e) /\ ~ e.offered
<1>1. CASE e \in Ends
  BY <1>1 DEF Ends, Absent, RemoteSet
<1>2. CASE e = Absent
  BY <1>2 DEF Absent, RemoteSet
<1> QED
  BY <1>1, <1>2

LEMMA AppendFacts ==
    ASSUME NEW S, NEW q \in Seq(S), NEW m \in S
    PROVE  /\ Append(q, m) \in Seq(S) /\ q \o <<m>> = Append(q, m)
           /\ Len(q) \in Nat /\ DOMAIN q = 1 .. Len(q)
           /\ DOMAIN Append(q, m) = 1 .. Len(q) + 1
           /\ Append(q, m)[Len(q) + 1] = m
           /\ \A i \in DOMAIN q : Append(q, m)[i] = q[i]
OBVIOUS

LEMMA TailFacts ==
    ASSUME NEW S, NEW q \in Seq(S), q # <<>>
    PROVE  /\ Tail(q) \in Seq(S) /\ Head(q) \in S /\ Head(q) = q[1]
           /\ Len(q) \in Nat /\ Len(q) > 0 /\ DOMAIN q = 1 .. Len(q)
           /\ DOMAIN Tail(q) = 1 .. Len(q) - 1
           /\ \A i \in DOMAIN Tail(q) : Tail(q)[i] = q[i + 1]
OBVIOUS

LEMMA HasAppended ==
    ASSUME NEW S, NEW q \in Seq(S), NEW m \in S
    PROVE  /\ Has(Append(q, m), m)
           /\ \A x : Has(q, x) => Has(Append(q, m), x)
<1> DEFINE z == Append(q, m)
           n == Len(q)
<1>1. /\ n \in Nat /\ DOMAIN q = 1 .. n /\ DOMAIN z = 1 .. n + 1 /\ z[n + 1] = m
      /\ \A i \in DOMAIN q : z[i] = q[i]
  BY AppendFacts
<1> HIDE DEF z, n
<1>2. Has(z, m) /\ \A x : Has(q, x) => Has(z, x)
  BY <1>1 DEF Has
<1> QED
  BY <1>2 DEF z

LEMMA HasTail ==
    ASSUME NEW S, NEW q \in Seq(S), q # <<>>
    PROVE  \A x : Has(q, x) => x = Head(q) \/ Has(Tail(q), x)
<1> DEFINE z == Tail(q)
           n == Len(q)
<1>1. /\ n \in Nat /\ DOMAIN q = 1 .. n /\ DOMAIN z = 1 .. n - 1 /\ Head(q) = q[1]
      /\ \A i \in DOMAIN z : z[i] = q[i + 1]
  BY TailFacts
<1> HIDE DEF z, n
<1>2. \A i \in DOMAIN q : i = 1 \/ (i - 1 \in DOMAIN z /\ z[i - 1] = q[i])
  BY <1>1
<1>3. \A x : Has(q, x) => x = Head(q) \/ Has(z, x)
  BY <1>1, <1>2 DEF Has
<1> QED
  BY <1>3 DEF z

-----------------------------------------------------------------------------
(* What the handlers do.                                                   *)

\* u builds the PeerConnection of the end f.
Builds(u, f) ==
    /\ f.pc = made[u] + 1
    /\ end' = [end EXCEPT ![u] = f] /\ made' = [made EXCEPT ![u] = f.pc]
    /\ pending' = [pending EXCEPT ![u] = {}] /\ known' = [known EXCEPT ![u] = {}]
    /\ Replaced(u, f)
    /\ UNCHANGED <<plan, reported>>

\* u keeps the PeerConnection it has; the end becomes f.
Keeps(u, f) ==
    /\ f.pc = made[u]
    /\ end' = [end EXCEPT ![u] = f]
    /\ IF RemoteSet(f) THEN /\ known' = [known EXCEPT ![u] = @ \cup pending[u]]
                            /\ pending' = [pending EXCEPT ![u] = {}]
                       ELSE UNCHANGED <<pending, known>>
    /\ UNCHANGED <<made, chatVars, plan, reported>>

LEMMA HandledFacts ==
    ASSUME TypeOK, NEW u \in Users, made[u] = end[u].pc,
           NEW f, NEW s, Handled(u, [end |-> f, sent |-> s])
    PROVE  /\ due' = [due EXCEPT ![u] = s]
           /\ f.pc = made[u] + 1 => Builds(u, f)
           /\ f.pc = made[u] => Keeps(u, f)
<1>1. made \in [Users -> Nat] /\ pending[u] = pending[u] /\ known \in [Users -> SUBSET AnyCandidate]
      /\ pending \in [Users -> SUBSET AnyCandidate]
  <2>1. plan \in Plans
    BY DEF TypeOK
  <2> QED
    BY <2>1, PlanFacts DEF TypeOK
<1>2. /\ end' = [end EXCEPT ![u] = f] /\ due' = [due EXCEPT ![u] = s]
      /\ made' = [made EXCEPT ![u] = IF f.pc > @ THEN f.pc ELSE @]
      /\ UNCHANGED <<plan, reported>>
      /\ IF f.pc # end[u].pc THEN Replaced(u, f) ELSE UNCHANGED chatVars
      /\ pending' = [pending EXCEPT ![u] =
                        FlushedIce(f, f.pc # end[u].pc, pending[u], known[u]).pending]
      /\ known' = [known EXCEPT ![u] =
                        FlushedIce(f, f.pc # end[u].pc, pending[u], known[u]).known]
  BY DEF Handled
<1> DEFINE new == f.pc # end[u].pc
           ice == FlushedIce(f, new, pending[u], known[u])
<1>a. /\ pending' = [pending EXCEPT ![u] = ice.pending] /\ known' = [known EXCEPT ![u] = ice.known]
      /\ new => ice.pending = {} /\ ice.known = {}
      /\ ~ new /\ RemoteSet(f) => ice.pending = {} /\ ice.known = known[u] \cup pending[u]
      /\ ~ new /\ ~ RemoteSet(f) => ice.pending = pending[u] /\ ice.known = known[u]
  BY <1>2 DEF FlushedIce
<1> HIDE DEF ice
<1>3. ASSUME f.pc = made[u] + 1 PROVE Builds(u, f)
  <2>1. made[u] \in Nat /\ f.pc > made[u] /\ new
    BY <1>1, <1>3
  <2>2. /\ pending' = [pending EXCEPT ![u] = {}] /\ known' = [known EXCEPT ![u] = {}]
        /\ made' = [made EXCEPT ![u] = f.pc]
    BY <1>2, <1>a, <2>1
  <2> QED
    BY <1>2, <1>3, <2>1, <2>2 DEF Builds
<1>4. ASSUME f.pc = made[u] PROVE Keeps(u, f)
  <2>1. made[u] \in Nat /\ ~ (f.pc > made[u]) /\ ~ new
    BY <1>1, <1>4
  <2>2. made' = made
    BY <1>1, <1>2, <2>1
  <2>3. CASE RemoteSet(f)
    <3>1. /\ known' = [known EXCEPT ![u] = @ \cup pending[u]]
          /\ pending' = [pending EXCEPT ![u] = {}]
      BY <1>a, <2>1, <2>3
    <3> QED
      BY <1>2, <1>4, <2>1, <2>2, <2>3, <3>1 DEF Keeps
  <2>4. CASE ~ RemoteSet(f)
    <3>1. pending' = pending /\ known' = known
      BY <1>1, <1>a, <2>1, <2>4
    <3> QED
      BY <1>2, <1>4, <2>1, <2>2, <2>4, <3>1 DEF Keeps
  <2> QED
    BY <2>3, <2>4
<1> QED
  BY <1>2, <1>3, <1>4

LEMMA InvFacts ==
    ASSUME TypeOK, EndInv
    PROVE  /\ plan.rekeys \in Nat /\ plan.lines \in Nat /\ rekeys \in Nat /\ rekeys <= plan.rekeys
           /\ \A u \in Users : /\ made[u] \in Nat /\ made[u] = end[u].pc
                               /\ made[u] <= made[1] + 1 /\ made[u] <= plan.rekeys + 1
                               /\ end[u].remote \in Nat
                               /\ RemoteSet(end[u]) <=> end[u].remote # 0
                               /\ end[u] = Absent <=> made[u] = 0
                               /\ made[u] = 0 => end[u].remote = 0
           /\ end[2].remote <= made[1]
           /\ \A n \in Nat : n # 0 /\ n <= plan.rekeys + 1 => n \in AnyPc
<1>1. plan \in Plans /\ rekeys \in 0 .. plan.rekeys
  BY DEF TypeOK
<1>2. /\ plan.rekeys \in Nat /\ plan.lines \in Nat /\ rekeys \in Nat /\ rekeys <= plan.rekeys
      /\ \A n : n \in AnyPc <=> n \in Nat /\ 0 < n /\ n <= plan.rekeys + 1
  BY <1>1, PlanFacts
<1>3. \A u \in Users : end[u] \in Ends \cup {Absent} /\ made[u] \in AnyPc \cup {0}
  BY DEF TypeOK
<1>4. \A u \in Users : made[u] \in Nat /\ made[u] <= plan.rekeys + 1
  BY <1>2, <1>3
<1>5. \A u \in Users : /\ end[u].remote \in Nat
                       /\ RemoteSet(end[u]) <=> end[u].remote # 0
                       /\ end[u].pc = 0 <=> end[u] = Absent
                       /\ end[u] = Absent => ~ RemoteSet(end[u])
  BY <1>3, EndFacts
<1>6. \A u \in Users : made[u] = end[u].pc
  BY UserFacts DEF EndInv
<1>7. end[2].remote <= made[1] /\ made[2] <= made[1] + 1
  BY <1>4, <1>5, UserFacts DEF EndInv
<1> QED
  BY <1>2, <1>4, <1>5, <1>6, <1>7, UserFacts

\* The end that sees the other one, and the end that has made an offer.
Fresh(n) == [pc |-> n, offered |-> FALSE, remote |-> 0, turn |-> FALSE]
Offered(n) == WithLocalOffer(Fresh(n))

\* See(1) and Rekey.
Offers ==
    /\ due[1] = <<>>
    /\ Builds(1, Offered(made[1] + 1))
    /\ due' = [due EXCEPT ![1] = <<OfferOf(Offered(made[1] + 1))>>]
    /\ \/ ~ seen[1] /\ seen' = [seen EXCEPT ![1] = TRUE] /\ UNCHANGED rekeys
       \/ seen[1] /\ rekeys < plan.rekeys /\ rekeys' = rekeys + 1 /\ UNCHANGED seen
    /\ UNCHANGED <<queue, early, ready>>

LEMMA FreshFacts ==
    ASSUME NEW n \in Nat \ {0}
    PROVE  /\ Fresh(n) \in Ends /\ ~ RemoteSet(Fresh(n)) /\ Fresh(n).pc = n /\ Fresh(n).remote = 0
           /\ ~ Fresh(n).offered
           /\ Offered(n) \in Ends /\ ~ RemoteSet(Offered(n)) /\ Offered(n).pc = n
           /\ Offered(n).offered /\ Offered(n).remote = 0
<1>1. /\ Fresh(n) \in Ends /\ ~ RemoteSet(Fresh(n)) /\ Fresh(n).pc = n /\ Fresh(n).remote = 0
      /\ ~ Fresh(n).offered
  BY DEF Fresh, Ends, RemoteSet
<1>2. /\ Offered(n) \in Ends /\ Offered(n).pc = n
      /\ Offered(n).offered /\ Offered(n).remote = 0
  BY <1>1 DEF Offered, WithLocalOffer, Ends
<1> QED
  BY <1>1, <1>2 DEF RemoteSet

LEMMA OnPeerFacts ==
    ASSUME NEW n \in Nat \ {0}
    PROVE  /\ OnPeer(TRUE, Absent, n, FALSE, FALSE)
                = [end |-> Offered(n), sent |-> <<OfferOf(Offered(n))>>]
           /\ OnPeer(2 = 1, Absent, n, FALSE, FALSE) = [end |-> Fresh(n), sent |-> <<>>]
           /\ \A e : e # Absent => OnPeer(2 = 1, e, n, FALSE, FALSE) = [end |-> e, sent |-> <<>>]
<1>1. Ensured(Absent, n, FALSE) = Fresh(n)
  BY DEF Ensured, Fresh
<1>2. TakesLocalOffer(Fresh(n), FALSE)
  BY DEF TakesLocalOffer, Fresh
<1>3. \A e : e # Absent => Ensured(e, n, FALSE) = e
  BY DEF Ensured
<1>8. 2 # 1
  OBVIOUS
<1>5. OnPeer(TRUE, Absent, n, FALSE, FALSE)
        = [end |-> Offered(n), sent |-> <<OfferOf(Offered(n))>>]
  <2>1. TRUE /\ TakesLocalOffer(Ensured(Absent, n, FALSE), FALSE)
    BY <1>1, <1>2
  <2>2. OnPeer(TRUE, Absent, n, FALSE, FALSE)
            = [end |-> WithLocalOffer(Ensured(Absent, n, FALSE)),
               sent |-> <<OfferOf(Ensured(Absent, n, FALSE))>>]
    BY <2>1, Zenon DEF OnPeer
  <2>3. OfferOf(Offered(n)) = OfferOf(Fresh(n))
    BY FreshFacts DEF OfferOf
  <2> QED
    BY <1>1, <2>2, <2>3 DEF Offered
<1>6. OnPeer(2 = 1, Absent, n, FALSE, FALSE) = [end |-> Fresh(n), sent |-> <<>>]
  BY <1>1, <1>8, Zenon DEF OnPeer
<1>7. \A e : e # Absent => OnPeer(2 = 1, e, n, FALSE, FALSE) = [end |-> e, sent |-> <<>>]
  BY <1>3, <1>8, Zenon DEF OnPeer
<1> QED
  BY <1>5, <1>6, <1>7

LEMMA OffersFacts ==
    ASSUME TypeOK, EndInv, See(1) \/ Rekey
    PROVE  Offers
<1> DEFINE n == made[1] + 1
<1>0. /\ n \in Nat \ {0} /\ 1 \in Users /\ made[1] = end[1].pc
      /\ end[1] = Absent <=> made[1] = 0
      /\ rekeys \in Nat
  BY InvFacts, UserFacts
<1>1. CASE See(1)
  <2>1. ~ seen[1] /\ made[1] = 0 /\ end[1] = Absent
    BY <1>0, <1>1 DEF See, EndInv
  <2>2. OnPeer(1 = 1, end[1], made[1] + 1, FALSE, FALSE)
            = [end |-> Offered(n), sent |-> <<OfferOf(Offered(n))>>]
    BY <1>0, <2>1, OnPeerFacts
  <2>3. Handled(1, [end |-> Offered(n), sent |-> <<OfferOf(Offered(n))>>])
    BY <1>1, <2>2 DEF See
  <2>4. /\ due' = [due EXCEPT ![1] = <<OfferOf(Offered(n))>>]
        /\ Builds(1, Offered(n))
    BY <1>0, <2>3, HandledFacts, FreshFacts
  <2> QED
    BY <1>1, <2>1, <2>4 DEF See, Offers
<1>2. CASE Rekey
  <2>1. end[1] # Absent /\ seen[1]
    BY <1>0, <1>2 DEF Rekey, EndInv
  <2>2. OnRekey(TRUE, end[1], made[1] + 1, FALSE)
            = [end |-> Offered(n), sent |-> <<OfferOf(Offered(n))>>]
    BY <1>0, <2>1, OnPeerFacts DEF OnRekey
  <2>3. Handled(1, [end |-> Offered(n), sent |-> <<OfferOf(Offered(n))>>])
    BY <1>2, <2>2 DEF Rekey
  <2>4. /\ due' = [due EXCEPT ![1] = <<OfferOf(Offered(n))>>]
        /\ Builds(1, Offered(n))
    BY <1>0, <2>3, HandledFacts, FreshFacts
  <2> QED
    BY <1>2, <2>1, <2>4 DEF Rekey, Offers
<1> QED
  BY <1>1, <1>2

\* See(2).
Meets ==
    /\ due[2] = <<>> /\ UNCHANGED due
    /\ ~ seen[2] /\ seen' = [seen EXCEPT ![2] = TRUE]
    /\ ready' = NothingTaken
    /\ \/ made[2] = 0 /\ Builds(2, Fresh(1))
       \/ made[2] # 0 /\ UNCHANGED <<end, made, pending, known, chatVars, plan, reported>>
    /\ UNCHANGED <<queue, rekeys, early>>

LEMMA MeetsFacts ==
    ASSUME TypeOK, EndInv, See(2)
    PROVE  Meets
<1>0. /\ made[2] \in Nat /\ 2 \in Users /\ made[2] = end[2].pc
      /\ end[2] = Absent <=> made[2] = 0
      /\ made[2] + 1 \in Nat \ {0}
  BY InvFacts, UserFacts
<1>1. /\ due[2] = <<>> /\ ~ seen[2] /\ seen' = [seen EXCEPT ![2] = TRUE]
      /\ ready' = NothingTaken /\ UNCHANGED <<queue, rekeys, early>>
      /\ Handled(2, OnPeer(2 = 1, end[2], made[2] + 1, FALSE, FALSE))
  BY DEF See
<1>2. due \in [Users -> Seq(Messages)] /\ end \in [Users -> Ends \cup {Absent}]
      /\ pending \in [Users -> SUBSET AnyCandidate] /\ known \in [Users -> SUBSET AnyCandidate]
  BY DEF TypeOK
<1>3. CASE made[2] = 0
  <2>1. OnPeer(2 = 1, end[2], made[2] + 1, FALSE, FALSE) = [end |-> Fresh(1), sent |-> <<>>]
    <3>1. made[2] + 1 = 1 /\ end[2] = Absent
      BY <1>0, <1>3
    <3> QED
      BY <1>0, <3>1, OnPeerFacts
  <2>2. Handled(2, [end |-> Fresh(1), sent |-> <<>>])
    BY <1>1, <2>1
  <2>a. Fresh(1).pc = made[2] + 1
    BY <1>3, FreshFacts
  <2>3. due' = [due EXCEPT ![2] = <<>>] /\ Builds(2, Fresh(1))
    BY <1>0, <1>3, <2>2, <2>a, HandledFacts
  <2>4. due' = due
    BY <1>1, <1>2, <2>3
  <2> QED
    BY <1>1, <1>3, <2>3, <2>4 DEF Meets
<1>4. CASE made[2] # 0
  <2>1. OnPeer(2 = 1, end[2], made[2] + 1, FALSE, FALSE) = [end |-> end[2], sent |-> <<>>]
    BY <1>0, <1>4, OnPeerFacts
  <2>2. Handled(2, [end |-> end[2], sent |-> <<>>])
    BY <1>1, <2>1
  <2>3. due' = [due EXCEPT ![2] = <<>>] /\ Keeps(2, end[2])
    BY <1>0, <2>2, HandledFacts
  <2>4. due' = due
    BY <1>1, <1>2, <2>3
  <2>5. end' = end /\ UNCHANGED <<made, chatVars, plan, reported>>
    BY <1>2, <2>3 DEF Keeps
  <2>6. pending' = pending /\ known' = known
    <3>1. ASSUME RemoteSet(end[2]) PROVE pending[2] = {}
      BY <1>0, <3>1 DEF TypeOK
    <3>2. CASE RemoteSet(end[2])
      <4>1. /\ known' = [known EXCEPT ![2] = @ \cup pending[2]]
            /\ pending' = [pending EXCEPT ![2] = {}]
        BY <2>3, <3>2 DEF Keeps
      <4> QED
        BY <1>0, <1>2, <4>1, <3>1, <3>2
    <3>3. CASE ~ RemoteSet(end[2])
      BY <2>3, <3>3 DEF Keeps
    <3> QED
      BY <3>2, <3>3
  <2> QED
    BY <1>1, <1>4, <2>4, <2>5, <2>6 DEF Meets
<1> QED
  BY <1>3, <1>4

\* TakeOffer(2), of offer p, leaves the end f.
Answers(p, f) ==
    /\ due[2] = <<>> /\ queue[2] # <<>> /\ Head(queue[2]).type = "offer"
    /\ p = Head(queue[2]).pc /\ f.remote = p /\ ~ f.offered /\ f \in Ends
    /\ \/ (RemoteSet(end[2]) \/ made[2] = 0) /\ Builds(2, f)
       \/ ~ RemoteSet(end[2]) /\ made[2] # 0 /\ Keeps(2, f)
    /\ queue' = [queue EXCEPT ![2] = Tail(@)]
    /\ due' = [due EXCEPT ![2] = <<AnswerOf(f)>>]
    /\ UNCHANGED <<seen, rekeys, early, ready>>

Taken(e, n, p) == OnOffer(e, n, FALSE, p)

LEMMA TakenFacts ==
    ASSUME NEW e \in Ends \cup {Absent}, NEW n \in Nat \ {0}, NEW p \in Nat \ {0},
           ~ e.offered
    PROVE  LET o == Taken(e, n, p)
           IN  /\ o.end \in Ends /\ o.end.remote = p /\ ~ o.end.offered
               /\ RemoteSet(e) \/ e = Absent => o.end.pc = n
               /\ ~ (RemoteSet(e) \/ e = Absent) => o.end.pc = e.pc
               /\ o = [end |-> o.end, sent |-> <<AnswerOf(o.end)>>]
<1> DEFINE g == Ensured(IF RemoteSet(e) THEN Absent ELSE e, n, FALSE)
           f == WithRemote(g, p)
<1>1. g \in Ends /\ ~ g.offered /\ g.remote = 0
      /\ g.pc = IF RemoteSet(e) \/ e = Absent THEN n ELSE e.pc
  <2>1. CASE RemoteSet(e) \/ e = Absent
    <3>1. g = Fresh(n)
      BY <2>1, Zenon DEF Ensured, Fresh
    <3> QED
      BY <2>1, <3>1, FreshFacts
  <2>2. CASE ~ RemoteSet(e) /\ e # Absent
    <3>1. g = e
      BY <2>2 DEF Ensured
    <3> QED
      BY <2>2, <3>1, EndFacts
  <2> QED
    BY <2>1, <2>2
<1> HIDE DEF g
<1>2. /\ f \in Ends /\ f.remote = p /\ ~ f.offered /\ f.pc = g.pc
  BY <1>1 DEF WithRemote, Ends
<1>3. OnOffer(e, n, FALSE, p) = [end |-> f, sent |-> <<AnswerOf(g)>>]
  BY <1>1 DEF OnOffer, TakesOffer, g
<1>4. AnswerOf(g) = AnswerOf(f)
  BY <1>2 DEF AnswerOf
<1> HIDE DEF f
<1>5. Taken(e, n, p) = [end |-> f, sent |-> <<AnswerOf(f)>>]
  BY <1>3, <1>4, Zenon DEF Taken
<1> DEFINE o == Taken(e, n, p)
<1>6. o = [end |-> f, sent |-> <<AnswerOf(f)>>]
  BY <1>5
<1> HIDE DEF o
<1>8. o.end = f
  BY <1>6
<1>7. /\ o.end \in Ends /\ o.end.remote = p /\ ~ o.end.offered
      /\ RemoteSet(e) \/ e = Absent => o.end.pc = n
      /\ ~ (RemoteSet(e) \/ e = Absent) => o.end.pc = e.pc
      /\ o = [end |-> o.end, sent |-> <<AnswerOf(o.end)>>]
  BY <1>1, <1>2, <1>6, <1>8
<1> QED
  BY <1>7 DEF o

\* An offer on its way to user 2 is newer than the one it took last.
LEMMA HeadOffer ==
    ASSUME TypeOK, EndInv, QueueInv, queue[2] # <<>>, Head(queue[2]).type = "offer"
    PROVE  /\ Head(queue[2]).pc \in Nat \ {0}
           /\ end[2].remote < Head(queue[2]).pc /\ Head(queue[2]).pc <= made[1]
           /\ due[1] # <<>> => Head(queue[2]).pc < made[1]
<1>1. queue[2] \in Seq(Messages)
  BY UserFacts DEF TypeOK
<1>2. Head(queue[2]) = queue[2][1] /\ 1 \in DOMAIN queue[2] /\ Head(queue[2]) \in Messages
  BY <1>1, TailFacts
<1>3. Head(queue[2]).pc \in AnyPc /\ plan \in Plans
  BY <1>2, MessageFacts DEF TypeOK
<1>4. Head(queue[2]).pc \in Nat \ {0}
  BY <1>3, PlanFacts
<1>5. IsOffer(1)
  BY <1>2 DEF IsOffer
<1> QED
  BY <1>2, <1>4, <1>5 DEF QueueInv

LEMMA AnswersFacts ==
    ASSUME TypeOK, EndInv, QueueInv, TakeOffer(2)
    PROVE  \E p, f : Answers(p, f)
<1> DEFINE p == Head(queue[2]).pc
<1>1. /\ made[2] \in Nat /\ 2 \in Users /\ made[2] = end[2].pc /\ made[2] + 1 \in Nat \ {0}
      /\ end[2] = Absent <=> made[2] = 0
  BY InvFacts, UserFacts
<1>2. end[2] \in Ends \cup {Absent} /\ ~ end[2].offered
  BY <1>1 DEF TypeOK, EndInv
<1>3. /\ due[2] = <<>> /\ queue[2] # <<>> /\ Head(queue[2]).type = "offer"
      /\ queue' = [queue EXCEPT ![2] = Tail(@)]
      /\ UNCHANGED <<seen, rekeys, early, ready>>
      /\ Handled(2, Taken(end[2], made[2] + 1, p))
  BY DEF TakeOffer, Takes, Taken
<1>4. p \in Nat \ {0}
  BY <1>3, HeadOffer
<1> HIDE DEF p
<1> DEFINE o == Taken(end[2], made[2] + 1, p)
           f == o.end
<1>5. /\ f \in Ends /\ f.remote = p /\ ~ f.offered
      /\ RemoteSet(end[2]) \/ made[2] = 0 => f.pc = made[2] + 1
      /\ ~ (RemoteSet(end[2]) \/ made[2] = 0) => f.pc = made[2]
      /\ o = [end |-> f, sent |-> <<AnswerOf(f)>>]
  BY <1>1, <1>2, <1>4, TakenFacts
<1> HIDE DEF f
<1>6. Handled(2, [end |-> f, sent |-> <<AnswerOf(f)>>])
  BY <1>3, <1>5
<1> HIDE DEF o
<1>7. /\ due' = [due EXCEPT ![2] = <<AnswerOf(f)>>]
      /\ f.pc = made[2] + 1 => Builds(2, f)
      /\ f.pc = made[2] => Keeps(2, f)
  BY <1>1, <1>6, HandledFacts
<1>8. \/ (RemoteSet(end[2]) \/ made[2] = 0) /\ Builds(2, f)
      \/ ~ RemoteSet(end[2]) /\ made[2] # 0 /\ Keeps(2, f)
  BY <1>1, <1>5, <1>7
<1>9. Answers(p, f)
  BY <1>3, <1>5, <1>7, <1>8 DEF Answers, p
<1> QED
  BY <1>9

LEMMA NoOtherTakes ==
    ASSUME TypeOK, QueueInv
    PROVE  ~ TakeOffer(1) /\ ~ TakeAnswer(2)
<1>1. \A u \in Users : queue[u] \in Seq(Messages)
  BY DEF TypeOK
<1>2. \A u \in Users : queue[u] # <<>> => Head(queue[u]) = queue[u][1] /\ 1 \in DOMAIN queue[u]
  BY <1>1, TailFacts
<1> QED
  BY <1>2, UserFacts DEF QueueInv, TakeOffer, TakeAnswer, Takes

\* TakeAnswer(1) leaves the end f.
Answered(f) ==
    /\ due[1] = <<>> /\ UNCHANGED due
    /\ queue[1] # <<>> /\ Head(queue[1]).type = "answer"
    /\ queue' = [queue EXCEPT ![1] = Tail(@)]
    /\ f \in Ends \cup {Absent} /\ (RemoteSet(end[1]) => RemoteSet(f))
    /\ Keeps(1, f)
    /\ UNCHANGED <<seen, rekeys, early, ready>>

LEMMA AnsweredFacts ==
    ASSUME TypeOK, EndInv, TakeAnswer(1)
    PROVE  \E f : Answered(f)
<1> DEFINE p == Head(queue[1]).pc
           f == OnAnswer(end[1], p)
<1>1. /\ made[1] = end[1].pc /\ 1 \in Users
      /\ end[1] \in Ends \cup {Absent} /\ queue[1] \in Seq(Messages)
      /\ due \in [Users -> Seq(Messages)]
  BY InvFacts, UserFacts DEF TypeOK
<1>2. /\ due[1] = <<>> /\ queue[1] # <<>> /\ Head(queue[1]).type = "answer"
      /\ queue' = [queue EXCEPT ![1] = Tail(@)]
      /\ UNCHANGED <<seen, rekeys, early, ready>>
      /\ Handled(1, [end |-> f, sent |-> <<>>])
  BY DEF TakeAnswer, Takes
<1>3. p \in Nat \ {0}
  <2>1. Head(queue[1]) \in Messages
    BY <1>1, <1>2, TailFacts
  <2>2. p \in AnyPc /\ plan \in Plans
    BY <1>2, <2>1, MessageFacts DEF TypeOK
  <2> QED
    BY <2>2, PlanFacts
<1> HIDE DEF p
<1>4. f \in Ends \cup {Absent} /\ f.pc = made[1] /\ (RemoteSet(end[1]) => RemoteSet(f))
  <2>1. CASE end[1] # Absent /\ TakesAnswer(end[1])
    <3>1. f = WithRemote(end[1], p) /\ end[1] \in Ends
      BY <1>1, <2>1 DEF OnAnswer
    <3> HIDE DEF f
    <3>2. f \in Ends /\ f.pc = end[1].pc /\ f.remote = IF end[1].remote = 0 THEN p ELSE end[1].remote
      BY <1>3, <3>1 DEF WithRemote, Ends
    <3> QED
      BY <1>1, <1>3, <3>2 DEF RemoteSet
  <2>2. CASE ~ (end[1] # Absent /\ TakesAnswer(end[1]))
    <3>1. f = end[1]
      BY <2>2, Zenon DEF OnAnswer
    <3> QED
      BY <1>1, <3>1
  <2> QED
    BY <2>1, <2>2
<1> HIDE DEF f
<1>5. due' = [due EXCEPT ![1] = <<>>] /\ Keeps(1, f)
  BY <1>1, <1>2, <1>4, HandledFacts
<1>6. due' = due
  BY <1>1, <1>2, <1>5
<1>7. Answered(f)
  BY <1>2, <1>4, <1>5, <1>6 DEF Answered
<1> QED
  BY <1>7

-----------------------------------------------------------------------------
(* Types.                                                                  *)

EndTypes ==
    /\ end \in [Users -> Ends \cup {Absent}]
    /\ pending \in [Users -> SUBSET AnyCandidate] /\ known \in [Users -> SUBSET AnyCandidate]
    /\ \A u \in Users : IF RemoteSet(end[u]) THEN pending[u] = {} ELSE known[u] = {}
    /\ made \in [Users -> AnyPc \cup {0}]
    /\ reported \in [Users -> SUBSET AnyCandidate] /\ plan \in Plans

ChatTypes ==
    /\ opened \in [Users -> AnyPc \cup {0}] /\ slot \in [Users -> AnyPc \cup {0}]
    /\ said \in [Users -> 0 .. plan.lines] /\ sure \in [Users -> SUBSET (1 .. plan.lines)]
    /\ path \in [Users -> Seq(1 .. plan.lines)] /\ heard \in [Users -> Seq(1 .. plan.lines)]

LoopTypes ==
    /\ due \in [Users -> Seq(Messages)] /\ queue \in [Users -> Seq(Messages)]
    /\ seen \in [Users -> BOOLEAN] /\ rekeys \in 0 .. plan.rekeys
    /\ early \subseteq AnyCandidate /\ ready \in BOOLEAN

LEMMA TypeParts == TypeOK <=> EndTypes /\ ChatTypes /\ LoopTypes
BY DEF TypeOK, EndTypes, ChatTypes, LoopTypes

LEMMA SamePlan ==
    ASSUME plan' = plan
    PROVE  AnyPc' = AnyPc /\ AnyCandidate' = AnyCandidate /\ Messages' = Messages
BY DEF AnyPc, AnyCandidate, Messages

LEMMA SameEnds ==
    ASSUME EndTypes, UNCHANGED <<plan, end, made, pending, known, reported>>
    PROVE  EndTypes'
BY SamePlan DEF EndTypes

LEMMA SameChat ==
    ASSUME ChatTypes, UNCHANGED <<plan, chatVars>>
    PROVE  ChatTypes'
BY SamePlan DEF ChatTypes, chatVars

LEMMA BuildsTypes ==
    ASSUME TypeOK, NEW u \in Users, NEW f \in Ends, Builds(u, f), f.pc \in AnyPc
    PROVE  EndTypes' /\ ChatTypes'
<1>0. /\ plan' = plan /\ AnyPc' = AnyPc /\ AnyCandidate' = AnyCandidate
      /\ EndTypes /\ ChatTypes /\ Replaced(u, f)
  BY SamePlan, TypeParts DEF Builds
<1>1. EndTypes'
  <2>1. end' = [end EXCEPT ![u] = f] /\ made' = [made EXCEPT ![u] = f.pc]
        /\ pending' = [pending EXCEPT ![u] = {}] /\ known' = [known EXCEPT ![u] = {}]
        /\ reported' = reported
    BY DEF Builds
  <2>2. end' \in [Users -> Ends \cup {Absent}] /\ made' \in [Users -> AnyPc \cup {0}]
    BY <1>0, <2>1 DEF EndTypes
  <2>3. pending' \in [Users -> SUBSET AnyCandidate] /\ known' \in [Users -> SUBSET AnyCandidate]
    BY <1>0, <2>1 DEF EndTypes
  <2>4. ASSUME NEW v \in Users
        PROVE  IF RemoteSet(end'[v]) THEN pending'[v] = {} ELSE known'[v] = {}
    <3>1. CASE v = u
      BY <1>0, <2>1, <3>1 DEF EndTypes
    <3>2. CASE v # u
      <4>1. end'[v] = end[v] /\ pending'[v] = pending[v] /\ known'[v] = known[v]
        BY <1>0, <2>1, <3>2 DEF EndTypes
      <4> QED
        BY <1>0, <4>1 DEF EndTypes
    <3> QED
      BY <3>1, <3>2
  <2> QED
    BY <1>0, <2>1, <2>2, <2>3, <2>4 DEF EndTypes
<1>2. ChatTypes'
  <2>1. slot' \in [Users -> AnyPc \cup {0}]
    BY <1>0 DEF Replaced, NewSlot, ChatTypes
  <2>2. path' \in [Users -> Seq(1 .. plan.lines)]
    <3>1. PICK n \in 0 .. Len(path[Other(u)]) :
            path' = [v \in Users |-> IF v = u THEN <<>> ELSE SubSeq(path[v], 1, n)]
      BY <1>0 DEF Replaced
    <3>2. path[Other(u)] \in Seq(1 .. plan.lines) /\ \A v \in Users : v # u => v = Other(u)
      BY <1>0, UserFacts DEF ChatTypes
    <3>3. SubSeq(path[Other(u)], 1, n) \in Seq(1 .. plan.lines)
      <4> DEFINE q == path[Other(u)]
                 S == 1 .. plan.lines
      <4>1. q \in Seq(S) /\ Len(q) \in Nat /\ n \in 0 .. Len(q)
        BY <3>1, <3>2
      <4> HIDE DEF q, S
      <4>2. \A i \in 1 .. Len(q) : q[i] \in S
        BY <4>1
      <4>3. n \in Int /\ 1 \in Int /\ \A i \in 1 .. n : q[i] \in S
        BY <4>1, <4>2
      <4>4. SubSeq(q, 1, n) \in Seq(S)
        BY <4>3, SubSeqProperties
      <4> QED
        BY <4>4 DEF q, S
    <3>4. \A v \in Users : (IF v = u THEN <<>> ELSE SubSeq(path[v], 1, n)) \in Seq(1 .. plan.lines)
      <4> TAKE v \in Users
      <4>1. CASE v = u
        BY <4>1
      <4>2. CASE v # u
        BY <3>2, <3>3, <4>2
      <4> QED
        BY <4>1, <4>2
    <3> QED
      BY <3>1, <3>4
  <2>3. sure' \in [Users -> SUBSET (1 .. plan.lines)] /\ UNCHANGED <<opened, said, heard>>
    BY <1>0 DEF Replaced
  <2> QED
    BY <1>0, <2>1, <2>2, <2>3 DEF ChatTypes
<1> QED
  BY <1>1, <1>2

LEMMA KeepsTypes ==
    ASSUME TypeOK, NEW u \in Users, NEW f \in Ends \cup {Absent}, Keeps(u, f),
           RemoteSet(end[u]) => RemoteSet(f)
    PROVE  EndTypes' /\ ChatTypes'
<1>0. /\ plan' = plan /\ AnyPc' = AnyPc /\ AnyCandidate' = AnyCandidate
      /\ EndTypes /\ ChatTypes /\ UNCHANGED <<made, chatVars, plan, reported>>
  BY SamePlan, TypeParts DEF Keeps
<1>1. end' = [end EXCEPT ![u] = f] /\ end' \in [Users -> Ends \cup {Absent}]
  BY <1>0 DEF Keeps, EndTypes
<1>2. pending' \in [Users -> SUBSET AnyCandidate] /\ known' \in [Users -> SUBSET AnyCandidate]
      /\ \A v \in Users : IF RemoteSet(end'[v]) THEN pending'[v] = {} ELSE known'[v] = {}
  <2>0. /\ end'[u] = f /\ \A v \in Users : v # u => end'[v] = end[v]
        /\ pending \in [Users -> SUBSET AnyCandidate] /\ known \in [Users -> SUBSET AnyCandidate]
        /\ \A v \in Users : IF RemoteSet(end[v]) THEN pending[v] = {} ELSE known[v] = {}
    BY <1>0, <1>1 DEF EndTypes
  <2>1. CASE RemoteSet(f)
    <3>1. /\ known' = [known EXCEPT ![u] = @ \cup pending[u]]
          /\ pending' = [pending EXCEPT ![u] = {}]
      BY <2>1 DEF Keeps
    <3>2. pending' \in [Users -> SUBSET AnyCandidate] /\ known' \in [Users -> SUBSET AnyCandidate]
      BY <2>0, <3>1
    <3>3. pending'[u] = {} /\ \A v \in Users : v # u => pending'[v] = pending[v] /\ known'[v] = known[v]
      BY <2>0, <3>1
    <3> QED
      BY <2>0, <2>1, <3>2, <3>3
  <2>2. CASE ~ RemoteSet(f)
    <3>1. pending' = pending /\ known' = known
      BY <2>2 DEF Keeps
    <3> QED
      BY <2>0, <2>2, <3>1
  <2> QED
    BY <2>1, <2>2
<1>3. EndTypes'
  BY <1>0, <1>1, <1>2 DEF EndTypes
<1> QED
  BY <1>0, <1>3, SameChat

-----------------------------------------------------------------------------
(* Every step keeps the invariant.                                         *)

\* The handler built a PeerConnection: what is no longer there is forgotten.
LEMMA BuildsValues ==
    ASSUME TypeOK, EndInv, NEW u \in Users, NEW f \in Ends, Builds(u, f)
    PROVE  LET w == Other(u) IN
           /\ end'[u] = f /\ end'[w] = end[w]
           /\ made'[u] = f.pc /\ f.pc = made[u] + 1 /\ made'[w] = made[w]
           /\ known'[w] = known[w] /\ pending'[w] = pending[w]
           /\ slot'[u] = (IF f.offered THEN f.pc ELSE 0) /\ slot'[w] = slot[w]
           /\ \A v \in Users : sure'[v] = {}
           /\ reported' = reported /\ opened' = opened /\ plan' = plan
<1>1. /\ end \in [Users -> Ends \cup {Absent}] /\ made \in [Users -> AnyPc \cup {0}]
      /\ known \in [Users -> SUBSET AnyCandidate] /\ pending \in [Users -> SUBSET AnyCandidate]
      /\ slot \in [Users -> AnyPc \cup {0}]
  BY DEF TypeOK
<1>2. Other(u) \in Users /\ Other(u) # u
  BY UserFacts
<1>3. /\ end'[u] = f /\ end'[Other(u)] = end[Other(u)]
      /\ made'[u] = f.pc /\ f.pc = made[u] + 1 /\ made'[Other(u)] = made[Other(u)]
      /\ known'[Other(u)] = known[Other(u)] /\ pending'[Other(u)] = pending[Other(u)]
      /\ reported' = reported /\ plan' = plan
  BY <1>1, <1>2 DEF Builds
<1>4. /\ slot' = [slot EXCEPT ![u] = IF f.offered THEN f.pc ELSE 0]
      /\ sure' = [v \in Users |-> {}] /\ opened' = opened
  BY DEF Builds, Replaced, NewSlot
<1>5. slot'[u] = (IF f.offered THEN f.pc ELSE 0) /\ slot'[Other(u)] = slot[Other(u)]
  BY <1>1, <1>2, <1>4
<1>6. \A v \in Users : sure'[v] = {}
  BY <1>4
<1> QED
  BY <1>3, <1>4, <1>5, <1>6

LEMMA ReportedFacts ==
    ASSUME TypeOK, EndInv, ReportInv
    PROVE  /\ \A u \in Users : \A c \in reported[u] : c[1] \in Nat \ {0} /\ c[1] <= made[u]
           /\ \A u \in Users : made[u] = 0 => reported[u] = {}
BY InvFacts DEF ReportInv

LEMMA OfferNumbers ==
    ASSUME TypeOK, NEW i \in DOMAIN queue[2], IsOffer(i)
    PROVE  queue[2][i].pc \in Nat
<1>1. queue[2] \in Seq(Messages) /\ plan \in Plans
  BY UserFacts DEF TypeOK
<1>2. queue[2][i] \in Messages
  BY <1>1
<1>3. queue[2][i].pc \in AnyPc
  BY <1>2, MessageFacts DEF IsOffer
<1> QED
  BY <1>1, <1>3, PlanFacts

LEMMA OffersKeep ==
    ASSUME TrickleInv, Offers
    PROVE  TrickleInv'
<1> DEFINE n == made[1] + 1
           f == Offered(n)
<1>0. /\ TypeOK /\ EndInv /\ QueueInv /\ ReportInv /\ ReadyInv /\ ChatInv
  BY DEF TrickleInv
<1>1. /\ made[1] \in Nat /\ made[2] \in Nat /\ end[2].remote \in Nat /\ end[2].remote <= made[1]
      /\ rekeys \in Nat /\ rekeys <= plan.rekeys /\ plan.rekeys \in Nat
      /\ 1 \in Users /\ 2 \in Users /\ n \in Nat \ {0} /\ n > made[1]
  BY <1>0, InvFacts, UserFacts
<1>2. f \in Ends /\ ~ RemoteSet(f) /\ f.pc = n /\ f.offered /\ f.remote = 0
  BY <1>1, FreshFacts
<1> HIDE DEF f
<1>3. /\ due[1] = <<>> /\ Builds(1, f) /\ due' = [due EXCEPT ![1] = <<OfferOf(f)>>]
      /\ \/ ~ seen[1] /\ seen' = [seen EXCEPT ![1] = TRUE] /\ rekeys' = rekeys
         \/ seen[1] /\ rekeys < plan.rekeys /\ rekeys' = rekeys + 1 /\ seen' = seen
      /\ queue' = queue /\ early' = early /\ ready' = ready
  BY DEF Offers, f
<1>4. /\ end'[1] = f /\ end'[2] = end[2] /\ made'[1] = n /\ made'[2] = made[2]
      /\ known'[2] = known[2] /\ pending'[2] = pending[2]
      /\ slot'[1] = n /\ slot'[2] = slot[2] /\ \A v \in Users : sure'[v] = {}
      /\ reported' = reported /\ opened' = opened /\ plan' = plan
  BY <1>0, <1>1, <1>2, <1>3, BuildsValues, UserFacts
<1>5. seen'[1] /\ seen'[2] = seen[2] /\ n = rekeys' + 1 /\ rekeys' \in 0 .. plan.rekeys
      /\ seen' \in [Users -> BOOLEAN]
  <2>1. seen \in [Users -> BOOLEAN]
    BY <1>0 DEF TypeOK
  <2>2. seen[1] => made[1] = rekeys + 1
    BY <1>0 DEF EndInv
  <2>3. ~ seen[1] => made[1] = 0 /\ rekeys = 0
    BY <1>0 DEF EndInv
  <2>4. CASE seen[1]
    BY <1>1, <1>3, <2>1, <2>2, <2>4
  <2>5. CASE ~ seen[1]
    <3>1. seen' = [seen EXCEPT ![1] = TRUE] /\ rekeys' = rekeys
      BY <1>3, <2>5
    <3>2. seen'[1] /\ seen'[2] = seen[2] /\ seen' \in [Users -> BOOLEAN]
      BY <1>1, <2>1, <3>1
    <3>3. n = rekeys' + 1 /\ rekeys' \in 0 .. plan.rekeys
      BY <1>1, <2>3, <2>5, <3>1
    <3> QED
      BY <3>2, <3>3
  <2> QED
    BY <2>4, <2>5
<1>6. due \in [Users -> Seq(Messages)] /\ due'[1] = <<OfferOf(f)>> /\ due'[2] = due[2]
  <2>1. due \in [Users -> Seq(Messages)]
    BY <1>0 DEF TypeOK
  <2> QED
    BY <1>1, <1>3, <2>1
<1>7. f.pc \in AnyPc
  BY <1>0, <1>1, <1>2, <1>5, InvFacts
<1>a. TypeOK'
  <2>1. EndTypes' /\ ChatTypes'
    BY <1>0, <1>1, <1>2, <1>3, <1>7, BuildsTypes
  <2>2. OfferOf(f) \in Messages
    BY <1>7, MessageFacts
  <2>3. due' \in [Users -> Seq(Messages)]
    <3>1. <<OfferOf(f)>> \in Seq(Messages)
      BY <2>2
    <3> QED
      BY <1>3, <1>6, <3>1
  <2>4. LoopTypes /\ AnyCandidate' = AnyCandidate /\ Messages' = Messages
    BY <1>0, <1>4, TypeParts, SamePlan
  <2>5. LoopTypes'
    BY <1>3, <1>4, <1>5, <2>3, <2>4 DEF LoopTypes
  <2> QED
    BY <2>1, <2>5, TypeParts, PTL
<1>b. EndInv'
  <2>1. /\ made[2] = end[2].pc /\ ~ end[2].offered /\ (seen[2] => made[2] # 0)
    BY <1>0 DEF EndInv
  <2>2. IF RemoteSet(end[2]) THEN made[2] <= end[2].remote /\ end[2].remote <= n
                             ELSE made[2] <= 1
    BY <1>0, <1>1 DEF EndInv
  <2>3. IF RemoteSet(end'[2]) THEN made'[2] <= end'[2].remote /\ end'[2].remote <= made'[1]
                              ELSE made'[2] <= 1
    BY <1>4, <2>2
  <2>4. /\ made'[1] = end'[1].pc /\ made'[2] = end'[2].pc
        /\ made'[1] = IF seen'[1] THEN rekeys' + 1 ELSE 0
        /\ ~ seen'[1] => rekeys' = 0
    BY <1>2, <1>4, <1>5, <2>1
  <2>5. ~ end'[2].offered
    BY <1>4, <2>1
  <2>6. seen'[2] => made'[2] # 0
    BY <1>4, <1>5, <2>1
  <2> QED
    BY <2>3, <2>4, <2>5, <2>6 DEF EndInv
<1>c. QueueInv'
  <2>1. /\ due'[1] = <<OfferOf(end'[1])>> /\ due'[2] \in {<<>>, <<AnswerOf(end'[2])>>}
    BY <1>0, <1>4, <1>6 DEF QueueInv
  <2>2. \A i \in DOMAIN queue'[2] : IsOffer(i)' =>
            end'[2].remote < queue'[2][i].pc /\ queue'[2][i].pc < made'[1]
    <3>1. ASSUME NEW i \in DOMAIN queue[2], IsOffer(i)
          PROVE  end[2].remote < queue[2][i].pc /\ queue[2][i].pc < n
      <4>1. end[2].remote < queue[2][i].pc /\ queue[2][i].pc <= made[1]
        BY <1>0, <3>1 DEF QueueInv
      <4>2. queue[2][i].pc \in Nat
        BY <1>0, <1>1, <3>1, OfferNumbers
      <4> QED
        BY <1>1, <4>1, <4>2
    <3> QED
      BY <1>3, <1>4, <3>1 DEF IsOffer
  <2>3. end'[2].remote < made'[1]
    BY <1>1, <1>4
  <2>4. \A i \in DOMAIN queue'[2] : IsOffer(i)' => queue'[2][i].pc <= made'[1]
    <3>1. ASSUME NEW i \in DOMAIN queue[2], IsOffer(i) PROVE queue[2][i].pc <= n
      <4>1. queue[2][i].pc \in Nat /\ queue[2][i].pc <= made[1]
        BY <1>0, <1>1, <3>1, OfferNumbers DEF QueueInv
      <4> QED
        BY <1>1, <4>1
    <3> QED
      BY <1>3, <1>4, <3>1 DEF IsOffer
  <2>5. /\ \A i \in DOMAIN queue'[1] : queue'[1][i].type # "offer"
        /\ \A i \in DOMAIN queue'[2] : queue'[2][i].type # "answer"
        /\ \A i, j \in DOMAIN queue'[2] :
              IsOffer(i)' /\ IsOffer(j)' /\ i < j => queue'[2][i].pc < queue'[2][j].pc
    BY <1>0, <1>3 DEF QueueInv, IsOffer
  <2>6. due'[1] # <<>>
    BY <2>1
  <2> QED
    BY <2>1, <2>2, <2>3, <2>4, <2>5, <2>6 DEF QueueInv
<1>d. ReportInv'
  <2>1. \A u \in Users : \A c \in reported[u] : c[1] \in Nat \ {0} /\ c[1] <= made[u]
    BY <1>0, ReportedFacts
  <2>2. \A u \in Users : made'[u] \in Nat /\ made[u] <= made'[u] /\ made[u] \in Nat
    BY <1>1, <1>4, UserFacts
  <2>3. \A u \in Users : \A c \in reported'[u] : c[1] \in 1 .. made'[u]
    BY <1>4, <2>1, <2>2
  <2>4. ~ RemoteSet(end[2]) => \A c \in reported[2] : c[1] # made[2]
    BY <1>0 DEF ReportInv
  <2> QED
    BY <1>4, <2>3, <2>4 DEF ReportInv
<1>e. AnsweringInv'
  BY <1>1, <1>4 DEF AnsweringInv
<1>f. OfferingInv'
  <2>1. \A c \in reported[1] : c[1] \in Nat /\ c[1] <= made[1]
    BY <1>0, <1>1, ReportedFacts
  <2>2. \A c \in reported'[1] : c[1] # made'[1]
    BY <1>1, <1>4, <2>1
  <2> QED
    BY <2>2 DEF OfferingInv
<1>g. ReadyInv'
  <2>1. ASSUME rekeys' = 0, ready PROVE made[2] # 0 /\ reported[1] = {}
    <3>1. made[1] = 0
      BY <1>1, <1>5, <2>1
    <3>2. ~ seen[1]
      BY <1>0, <1>1, <3>1 DEF EndInv
    <3>3. rekeys = 0 /\ reported[1] = {}
      BY <1>0, <1>1, <3>1, <3>2, ReportedFacts DEF EndInv
    <3> QED
      BY <1>0, <2>1, <3>3 DEF ReadyInv
  <2> QED
    BY <1>3, <1>4, <2>1 DEF ReadyInv
<1>h. ChatInv'
  <2>1. (opened[2] = made[2] => slot[2] = made[2]) /\ opened[1] <= made[1] /\ opened[2] <= made[2]
    BY <1>0, <1>1 DEF ChatInv
  <2>2. opened[1] \in Nat
    <3>1. opened[1] \in AnyPc \cup {0} /\ plan \in Plans
      BY <1>0, <1>1 DEF TypeOK
    <3> QED
      BY <3>1, PlanFacts
  <2>3. \A u \in Users : opened'[u] <= made'[u]
    BY <1>1, <1>4, <2>1, <2>2, UserFacts
  <2> QED
    BY <1>4, <2>1, <2>3 DEF ChatInv
<1> QED
  BY <1>a, <1>b, <1>c, <1>d, <1>e, <1>f, <1>g, <1>h DEF TrickleInv

LEMMA MeetsKeep ==
    ASSUME TrickleInv, Meets
    PROVE  TrickleInv'
<1>0. /\ TypeOK /\ EndInv /\ QueueInv /\ ReportInv /\ AnsweringInv /\ OfferingInv
      /\ ReadyInv /\ ChatInv
      /\ EndTypes /\ ChatTypes /\ LoopTypes
  BY TypeParts DEF TrickleInv
<1>1. /\ made[1] \in Nat /\ made[2] \in Nat /\ made[1] = end[1].pc
      /\ 1 \in Users /\ 2 \in Users /\ plan.rekeys \in Nat
      /\ made[2] = 0 => end[2].remote = 0
      /\ RemoteSet(end[2]) <=> end[2].remote # 0
      /\ seen \in [Users -> BOOLEAN]
  BY <1>0, InvFacts, UserFacts DEF TypeOK
<1>2. /\ due' = due /\ queue' = queue /\ rekeys' = rekeys /\ early' = early
      /\ ~ seen[2] /\ seen' = [seen EXCEPT ![2] = TRUE] /\ ready' = NothingTaken
      /\ due[2] = <<>>
  BY DEF Meets
<1>3. seen'[1] = seen[1] /\ seen'[2] /\ seen' \in [Users -> BOOLEAN] /\ ready' \in BOOLEAN
  <2>1. ready' \in BOOLEAN
    BY <1>2 DEF NothingTaken
  <2> QED
    BY <1>1, <1>2, <2>1
<1>4. ASSUME plan' = plan PROVE LoopTypes'
  BY <1>0, <1>2, <1>3, <1>4, SamePlan DEF LoopTypes
<1>5. CASE made[2] # 0 /\ UNCHANGED <<end, made, pending, known, chatVars, plan, reported>>
  <2>0. /\ end' = end /\ made' = made /\ pending' = pending /\ known' = known
        /\ UNCHANGED chatVars /\ plan' = plan /\ reported' = reported
    BY <1>5
  <2>1. TypeOK'
    <3>1. EndTypes' /\ ChatTypes' /\ LoopTypes'
      BY <1>0, <1>4, <2>0, SameEnds, SameChat
    <3> QED
      BY <3>1, TypeParts, PTL
  <2>2. EndInv'
    BY <1>0, <1>2, <1>3, <1>5, <2>0 DEF EndInv
  <2>3. QueueInv' /\ ReportInv'
    BY <1>0, <1>2, <2>0 DEF QueueInv, IsOffer, ReportInv
  <2>4. AnsweringInv' /\ OfferingInv'
    BY <1>0, <1>2, <2>0 DEF AnsweringInv, OfferingInv, Reaches, Behind, IsOffer, Has
  <2>5. ~ ready'
    BY <1>2, <1>5 DEF NothingTaken
  <2>6. ReadyInv'
    BY <2>5 DEF ReadyInv
  <2>7. ChatInv'
    BY <1>0, <2>0 DEF ChatInv, chatVars, Has
  <2> QED
    BY <2>1, <2>2, <2>3, <2>4, <2>6, <2>7 DEF TrickleInv
<1>6. CASE made[2] = 0 /\ Builds(2, Fresh(1))
  <2> DEFINE f == Fresh(1)
  <2>0. f \in Ends /\ ~ RemoteSet(f) /\ f.pc = 1 /\ ~ f.offered /\ f.remote = 0 /\ Builds(2, f)
    BY <1>6, FreshFacts
  <2> HIDE DEF f
  <2>1. /\ end'[2] = f /\ end'[1] = end[1] /\ made'[2] = 1 /\ made'[1] = made[1]
        /\ slot'[1] = slot[1] /\ \A v \in Users : sure'[v] = {}
        /\ reported' = reported /\ opened' = opened /\ plan' = plan
    BY <1>0, <1>1, <2>0, BuildsValues, UserFacts
  <2>2. reported[2] = {} /\ \A c \in reported[1] : c[1] \in Nat \ {0} /\ c[1] <= made[1]
    BY <1>0, <1>1, <1>6, ReportedFacts
  <2>a. TypeOK'
    <3>1. 1 \in AnyPc
      BY <1>0, <1>1, InvFacts
    <3>2. EndTypes' /\ ChatTypes' /\ LoopTypes'
      BY <1>0, <1>1, <1>4, <2>0, <2>1, <3>1, BuildsTypes
    <3> QED
      BY <3>2, TypeParts, PTL
  <2>b. EndInv'
    <3>1. /\ made'[1] = end'[1].pc /\ made'[2] = end'[2].pc
          /\ ~ RemoteSet(end'[2]) /\ made'[2] <= 1 /\ made'[2] # 0 /\ ~ end'[2].offered
      BY <1>1, <2>0, <2>1
    <3>2. /\ made'[1] = IF seen'[1] THEN rekeys' + 1 ELSE 0
          /\ ~ seen'[1] => rekeys' = 0
      BY <1>0, <1>2, <1>3, <2>1 DEF EndInv
    <3> QED
      BY <3>1, <3>2 DEF EndInv
  <2>c. QueueInv'
    <3>1. end'[2].remote = end[2].remote
      BY <1>1, <1>6, <2>0, <2>1
    <3>2. /\ due'[1] \in {<<>>, <<OfferOf(end'[1])>>} /\ due'[2] \in {<<>>, <<AnswerOf(end'[2])>>}
      BY <1>0, <1>2, <2>1 DEF QueueInv
    <3>3. /\ \A i \in DOMAIN queue'[1] : queue'[1][i].type # "offer"
          /\ \A i \in DOMAIN queue'[2] : queue'[2][i].type # "answer"
          /\ \A i \in DOMAIN queue'[2] : IsOffer(i)' =>
                /\ end'[2].remote < queue'[2][i].pc /\ queue'[2][i].pc <= made'[1]
                /\ due'[1] # <<>> => queue'[2][i].pc < made'[1]
          /\ due'[1] # <<>> => end'[2].remote < made'[1]
      BY <1>0, <1>2, <2>1, <3>1 DEF QueueInv, IsOffer
    <3>4. /\ \A i, j \in DOMAIN queue'[2] :
                IsOffer(i)' /\ IsOffer(j)' /\ i < j => queue'[2][i].pc < queue'[2][j].pc
          /\ \/ made'[1] = end'[2].remote \/ due'[1] # <<>>
             \/ \E i \in DOMAIN queue'[2] : IsOffer(i)' /\ queue'[2][i].pc = made'[1]
      BY <1>0, <1>2, <2>1, <3>1 DEF QueueInv, IsOffer
    <3> QED
      BY <3>2, <3>3, <3>4 DEF QueueInv
  <2>d. ReportInv'
    <3>1. \A c \in reported'[1] : c[1] \in 1 .. made'[1]
      BY <1>1, <2>1, <2>2
    <3>2. reported'[2] = {}
      BY <2>1, <2>2
    <3> QED
      BY <3>1, <3>2, UserFacts DEF ReportInv
  <2>e. AnsweringInv'
    BY <2>1, <2>2 DEF AnsweringInv
  <2>f. OfferingInv'
    <3>1. ASSUME NEW c \in reported[1] \ early, c[1] = made[1] PROVE Behind(c)
      <4>1. made[1] # 0 /\ end[2].remote = 0
        BY <1>1, <1>6, <2>2, <3>1
      <4> QED
        BY <1>0, <3>1, <4>1 DEF OfferingInv
    <3>2. \A c : Behind(c)' <=> Behind(c)
      BY <1>2 DEF Behind, IsOffer
    <3> QED
      BY <1>2, <2>1, <3>1, <3>2 DEF OfferingInv
  <2>g. ReadyInv'
    <3>1. ASSUME ready', NEW c \in reported'[1] PROVE Reaches(c, 2)'
      <4>1. Has(queue[2], IceOf(c))
        BY <1>2, <2>1, <3>1 DEF NothingTaken, Has
      <4> QED
        BY <1>2, <4>1 DEF Reaches
    <3> QED
      BY <2>1, <3>1 DEF ReadyInv
  <2>h. ChatInv'
    <3>1. slot[1] = made[1] /\ opened[1] <= made[1] /\ opened[2] <= made[2]
      BY <1>0, <1>1 DEF ChatInv
    <3>2. opened[2] \in Nat
      <4>1. opened[2] \in AnyPc \cup {0} /\ plan \in Plans
        BY <1>0, <1>1 DEF TypeOK
      <4> QED
        BY <4>1, PlanFacts
    <3>3. opened'[2] # made'[2] /\ opened'[2] <= made'[2] /\ opened'[1] <= made'[1]
      BY <1>6, <2>1, <3>1, <3>2
    <3>4. \A u \in Users : opened'[u] <= made'[u]
      BY <3>3, UserFacts
    <3> QED
      BY <2>1, <3>1, <3>3, <3>4 DEF ChatInv
  <2> QED
    BY <2>a, <2>b, <2>c, <2>d, <2>e, <2>f, <2>g, <2>h DEF TrickleInv
<1> QED
  BY <1>5, <1>6 DEF Meets

\* What is behind the head of the queue to user 2 moves up by one.
LEMMA Shift ==
    ASSUME TypeOK, queue[2] # <<>>, queue'[2] = Tail(queue[2])
    PROVE  /\ 1 \in DOMAIN queue[2] /\ Head(queue[2]) = queue[2][1]
           /\ \A i \in DOMAIN queue[2] : /\ i \in Nat /\ i > 0
                                         /\ i = 1 \/ (i - 1 \in DOMAIN queue'[2]
                                                      /\ queue'[2][i - 1] = queue[2][i])
           /\ \A i \in DOMAIN queue'[2] : /\ i \in Nat /\ i > 0 /\ i + 1 \in DOMAIN queue[2]
                                          /\ queue'[2][i] = queue[2][i + 1]
<1> DEFINE q == queue[2]
           z == queue'[2]
           n == Len(q)
<1>1. q \in Seq(Messages) /\ q # <<>>
  BY UserFacts DEF TypeOK
<1>2. /\ n \in Nat /\ n > 0 /\ DOMAIN q = 1 .. n /\ DOMAIN z = 1 .. n - 1 /\ Head(q) = q[1]
      /\ \A i \in DOMAIN z : z[i] = q[i + 1]
  BY <1>1, TailFacts
<1> HIDE DEF q, z, n
<1>3. /\ 1 \in DOMAIN q /\ Head(q) = q[1]
      /\ \A i \in DOMAIN q : /\ i \in Nat /\ i > 0
                             /\ i = 1 \/ (i - 1 \in DOMAIN z /\ z[i - 1] = q[i])
      /\ \A i \in DOMAIN z : /\ i \in Nat /\ i > 0 /\ i + 1 \in DOMAIN q
                             /\ z[i] = q[i + 1]
  BY <1>2
<1> QED
  BY <1>3 DEF q, z

\* The order of the offers and what is no answer or offer outlive a taken message.
LEMMA ShiftedQueue ==
    ASSUME TypeOK, QueueInv, queue[2] # <<>>, queue'[2] = Tail(queue[2])
    PROVE  /\ \A i \in DOMAIN queue'[2] : queue'[2][i].type # "answer"
           /\ \A i, j \in DOMAIN queue'[2] :
                 IsOffer(i)' /\ IsOffer(j)' /\ i < j => queue'[2][i].pc < queue'[2][j].pc
           /\ \A i \in DOMAIN queue'[2] : IsOffer(i)' =>
                 /\ IsOffer(1) => queue[2][1].pc < queue'[2][i].pc
                 /\ end[2].remote < queue'[2][i].pc /\ queue'[2][i].pc <= made[1]
                 /\ due[1] # <<>> => queue'[2][i].pc < made[1]
           /\ \A i \in DOMAIN queue[2] : IsOffer(i) =>
                 i = 1 \/ \E j \in DOMAIN queue'[2] : IsOffer(j)' /\ queue'[2][j] = queue[2][i]
<1>1. /\ 1 \in DOMAIN queue[2]
      /\ \A i \in DOMAIN queue[2] : /\ i \in Nat /\ i > 0
                                    /\ i = 1 \/ (i - 1 \in DOMAIN queue'[2]
                                                 /\ queue'[2][i - 1] = queue[2][i])
      /\ \A i \in DOMAIN queue'[2] : /\ i \in Nat /\ i > 0 /\ i + 1 \in DOMAIN queue[2]
                                     /\ queue'[2][i] = queue[2][i + 1]
  BY Shift
<1>2. \A i \in DOMAIN queue'[2] : IsOffer(i)' <=> IsOffer(i + 1)
  BY <1>1 DEF IsOffer
<1>3. \A i \in DOMAIN queue'[2] : queue'[2][i].type # "answer"
  BY <1>1 DEF QueueInv
<1>4. ASSUME NEW i \in DOMAIN queue'[2], NEW j \in DOMAIN queue'[2], IsOffer(i)', IsOffer(j)', i < j
      PROVE  queue'[2][i].pc < queue'[2][j].pc
  <2>1. i + 1 \in DOMAIN queue[2] /\ j + 1 \in DOMAIN queue[2] /\ i + 1 < j + 1
        /\ IsOffer(i + 1) /\ IsOffer(j + 1)
    BY <1>1, <1>2, <1>4
  <2>2. queue[2][i + 1].pc < queue[2][j + 1].pc
    BY <2>1 DEF QueueInv
  <2> QED
    BY <1>1, <2>2
<1>5. ASSUME NEW i \in DOMAIN queue'[2], IsOffer(i)'
      PROVE  /\ IsOffer(1) => queue[2][1].pc < queue'[2][i].pc
             /\ end[2].remote < queue'[2][i].pc /\ queue'[2][i].pc <= made[1]
             /\ due[1] # <<>> => queue'[2][i].pc < made[1]
  <2>1. i + 1 \in DOMAIN queue[2] /\ 1 < i + 1 /\ IsOffer(i + 1) /\ queue'[2][i] = queue[2][i + 1]
    BY <1>1, <1>2, <1>5
  <2>2. IsOffer(1) => queue[2][1].pc < queue[2][i + 1].pc
    BY <1>1, <2>1 DEF QueueInv
  <2>3. end[2].remote < queue[2][i + 1].pc /\ queue[2][i + 1].pc <= made[1]
        /\ (due[1] # <<>> => queue[2][i + 1].pc < made[1])
    BY <2>1 DEF QueueInv
  <2> QED
    BY <2>1, <2>2, <2>3
<1>6. ASSUME NEW i \in DOMAIN queue[2], IsOffer(i), i # 1
      PROVE  \E j \in DOMAIN queue'[2] : IsOffer(j)' /\ queue'[2][j] = queue[2][i]
  <2>1. i - 1 \in DOMAIN queue'[2] /\ queue'[2][i - 1] = queue[2][i]
    BY <1>1, <1>6
  <2> QED
    BY <1>6, <2>1 DEF IsOffer
<1> QED
  BY <1>3, <1>4, <1>5, <1>6

LEMMA ShiftedBehind ==
    ASSUME TypeOK, queue[2] # <<>>, queue'[2] = Tail(queue[2]), NEW c, Behind(c)
    PROVE  \/ Behind(c)'
           \/ IsOffer(1) /\ queue[2][1].pc = c[1] /\ Has(queue'[2], IceOf(c))
<1>1. PICK i \in DOMAIN queue[2], j \in DOMAIN queue[2] :
          i < j /\ IsOffer(i) /\ queue[2][i].pc = c[1] /\ queue[2][j] = IceOf(c)
  BY DEF Behind
<1>2. \A k \in DOMAIN queue[2] : /\ k \in Nat /\ k > 0
                                 /\ k = 1 \/ (k - 1 \in DOMAIN queue'[2]
                                              /\ queue'[2][k - 1] = queue[2][k])
  BY Shift
<1>3. j - 1 \in DOMAIN queue'[2] /\ queue'[2][j - 1] = IceOf(c)
  <2>1. i \in Nat /\ i > 0 /\ j \in Nat
    BY <1>2
  <2>2. j # 1
    BY <1>1, <2>1
  <2> QED
    BY <1>1, <1>2, <2>2
<1>4. CASE i = 1
  <2>1. Has(queue'[2], IceOf(c))
    BY <1>3 DEF Has
  <2> QED
    BY <1>1, <1>4, <2>1
<1>5. CASE i # 1
  <2>1. i - 1 \in DOMAIN queue'[2] /\ queue'[2][i - 1] = queue[2][i] /\ i - 1 < j - 1
    BY <1>1, <1>2, <1>5
  <2>2. Behind(c)'
    BY <1>1, <1>3, <2>1 DEF Behind, IsOffer
  <2> QED
    BY <2>2
<1> QED
  BY <1>4, <1>5

LEMMA AnswersKeep ==
    ASSUME TrickleInv, NEW p, NEW f, Answers(p, f)
    PROVE  TrickleInv'
<1>0. /\ TypeOK /\ EndInv /\ QueueInv /\ ReportInv /\ AnsweringInv /\ OfferingInv
      /\ ReadyInv /\ ChatInv
      /\ EndTypes /\ ChatTypes /\ LoopTypes
  BY TypeParts DEF TrickleInv
<1>1. /\ made[1] \in Nat /\ made[2] \in Nat /\ made[1] = end[1].pc /\ made[2] = end[2].pc
      /\ made[1] <= plan.rekeys + 1
      /\ 1 \in Users /\ 2 \in Users /\ plan.rekeys \in Nat
      /\ end[2].remote \in Nat /\ rekeys \in Nat
      /\ RemoteSet(end[2]) <=> end[2].remote # 0
      /\ queue \in [Users -> Seq(Messages)] /\ due \in [Users -> Seq(Messages)]
  BY <1>0, InvFacts, UserFacts DEF TypeOK
<1>2. /\ queue[2] # <<>> /\ Head(queue[2]).type = "offer" /\ p = Head(queue[2]).pc
      /\ f.remote = p /\ ~ f.offered /\ f \in Ends
      /\ \/ (RemoteSet(end[2]) \/ made[2] = 0) /\ Builds(2, f)
         \/ ~ RemoteSet(end[2]) /\ made[2] # 0 /\ Keeps(2, f)
      /\ queue' = [queue EXCEPT ![2] = Tail(@)] /\ due' = [due EXCEPT ![2] = <<AnswerOf(f)>>]
      /\ seen' = seen /\ rekeys' = rekeys /\ early' = early /\ ready' = ready
  BY DEF Answers
<1>3. /\ p \in Nat \ {0} /\ end[2].remote < p /\ p <= made[1] /\ (due[1] # <<>> => p < made[1])
  BY <1>0, <1>2, HeadOffer
<1>4. /\ queue'[2] = Tail(queue[2]) /\ queue'[1] = queue[1]
      /\ due'[2] = <<AnswerOf(f)>> /\ due'[1] = due[1]
      /\ f.pc \in Nat
  BY <1>1, <1>2, EndFacts
<1>5. RemoteSet(f) /\ Head(queue[2]) = queue[2][1] /\ IsOffer(1) /\ queue[2][1].pc = p
  BY <1>0, <1>2, <1>3, <1>4, Shift, EndFacts DEF IsOffer
\* The PeerConnection that takes the offer.
<1>6. /\ end'[2] = f /\ end'[1] = end[1] /\ made'[2] = f.pc /\ made'[1] = made[1]
      /\ reported' = reported /\ plan' = plan
      /\ f.pc # 0 /\ f.pc <= p /\ made[2] <= f.pc
      /\ slot'[1] = slot[1]
      /\ EndTypes' /\ ChatTypes'
  <2>1. CASE (RemoteSet(end[2]) \/ made[2] = 0) /\ Builds(2, f)
    <3>1. /\ end'[2] = f /\ end'[1] = end[1] /\ made'[2] = f.pc /\ made'[1] = made[1]
          /\ f.pc = made[2] + 1
          /\ reported' = reported /\ plan' = plan /\ slot'[1] = slot[1]
      BY <1>0, <1>1, <1>2, <2>1, BuildsValues, UserFacts
    <3>2. made[2] + 1 <= p
      <4>1. RemoteSet(end[2]) => made[2] <= end[2].remote
        BY <1>0 DEF EndInv
      <4> QED
        BY <1>1, <1>3, <2>1, <4>1
    <3>3. f.pc \in AnyPc
      <4>2. made[2] + 1 \in Nat /\ made[2] + 1 # 0 /\ made[2] + 1 <= plan.rekeys + 1
        <5> DEFINE m == made[2]
                   o == made[1]
                   r == plan.rekeys
        <5>1. m \in Nat /\ o \in Nat /\ r \in Nat /\ p \in Nat
              /\ m + 1 <= p /\ p <= o /\ o <= r + 1
          BY <1>1, <1>3, <3>2
        <5> HIDE DEF m, o, r
        <5>2. m + 1 \in Nat /\ m + 1 # 0 /\ m + 1 <= r + 1
          BY <5>1
        <5> QED
          BY <5>2 DEF m, r
      <4>1. f.pc \in Nat /\ f.pc # 0 /\ f.pc <= plan.rekeys + 1
        BY <3>1, <4>2
      <4> QED
        BY <1>0, <4>1, InvFacts
    <3>4. EndTypes' /\ ChatTypes'
      BY <1>0, <1>1, <1>2, <2>1, <3>3, BuildsTypes
    <3> QED
      BY <1>1, <3>1, <3>2, <3>4
  <2>2. CASE ~ RemoteSet(end[2]) /\ made[2] # 0 /\ Keeps(2, f)
    <3>1. /\ f.pc = made[2] /\ end' = [end EXCEPT ![2] = f]
          /\ UNCHANGED <<made, chatVars, plan, reported>>
      BY <2>2 DEF Keeps
    <3>2. made[2] <= 1
      BY <1>0, <2>2 DEF EndInv
    <3>3. end'[2] = f /\ end'[1] = end[1]
      BY <1>0, <1>1, <3>1 DEF EndTypes
    <3>4. EndTypes' /\ ChatTypes'
      BY <1>0, <1>1, <1>2, <2>2, KeepsTypes
    <3> QED
      BY <1>1, <1>3, <2>2, <3>1, <3>2, <3>3, <3>4 DEF chatVars
  <2> QED
    BY <1>2, <2>1, <2>2
<1>a. TypeOK'
  <2>1. f.pc \in AnyPc
    <3>1. f.pc \in Nat /\ f.pc # 0 /\ f.pc <= plan.rekeys + 1
      BY <1>1, <1>3, <1>4, <1>6
    <3> QED
      BY <1>0, <3>1, InvFacts
  <2>2. <<AnswerOf(f)>> \in Seq(Messages)
    <3>1. AnswerOf(f) \in Messages
      BY <2>1, MessageFacts
    <3> QED
      BY <3>1
  <2>3. Tail(queue[2]) \in Seq(Messages)
    BY <1>1, <1>2, TailFacts
  <2>4. queue' \in [Users -> Seq(Messages)] /\ due' \in [Users -> Seq(Messages)]
    BY <1>1, <1>2, <2>2, <2>3
  <2>5. AnyCandidate' = AnyCandidate /\ Messages' = Messages
    BY <1>6, SamePlan
  <2>6. LoopTypes'
    BY <1>0, <1>2, <1>6, <2>4, <2>5 DEF LoopTypes
  <2> QED
    BY <1>6, <2>6, TypeParts, PTL
<1>b. EndInv'
  <2>1. /\ made'[1] = end'[1].pc /\ made'[2] = end'[2].pc /\ ~ end'[2].offered
        /\ made'[2] # 0 /\ RemoteSet(end'[2])
        /\ made'[2] <= end'[2].remote /\ end'[2].remote <= made'[1]
    BY <1>1, <1>2, <1>3, <1>5, <1>6
  <2>2. /\ made'[1] = IF seen'[1] THEN rekeys' + 1 ELSE 0
        /\ ~ seen'[1] => rekeys' = 0
    BY <1>0, <1>2, <1>6 DEF EndInv
  <2> QED
    BY <2>1, <2>2 DEF EndInv
<1>c. QueueInv'
  <2>1. /\ due'[1] \in {<<>>, <<OfferOf(end'[1])>>} /\ due'[2] = <<AnswerOf(end'[2])>>
        /\ \A i \in DOMAIN queue'[1] : queue'[1][i].type # "offer"
    BY <1>0, <1>4, <1>6 DEF QueueInv
  <2>2. /\ \A i \in DOMAIN queue'[2] : queue'[2][i].type # "answer"
        /\ \A i, j \in DOMAIN queue'[2] :
              IsOffer(i)' /\ IsOffer(j)' /\ i < j => queue'[2][i].pc < queue'[2][j].pc
        /\ \A i \in DOMAIN queue'[2] : IsOffer(i)' =>
              /\ p < queue'[2][i].pc /\ queue'[2][i].pc <= made[1]
              /\ due[1] # <<>> => queue'[2][i].pc < made[1]
        /\ \A i \in DOMAIN queue[2] : IsOffer(i) =>
              i = 1 \/ \E j \in DOMAIN queue'[2] : IsOffer(j)' /\ queue'[2][j] = queue[2][i]
    BY <1>0, <1>2, <1>4, <1>5, ShiftedQueue
  <2>3. \A i \in DOMAIN queue'[2] : IsOffer(i)' =>
              /\ end'[2].remote < queue'[2][i].pc /\ queue'[2][i].pc <= made'[1]
              /\ due'[1] # <<>> => queue'[2][i].pc < made'[1]
    BY <1>2, <1>4, <1>6, <2>2
  <2>4. due'[1] # <<>> => end'[2].remote < made'[1]
    BY <1>2, <1>3, <1>4, <1>6
  <2>5. \/ made'[1] = end'[2].remote \/ due'[1] # <<>>
        \/ \E i \in DOMAIN queue'[2] : IsOffer(i)' /\ queue'[2][i].pc = made'[1]
    <3>1. CASE due[1] # <<>>
      BY <1>4, <3>1
    <3>2. CASE \E i \in DOMAIN queue[2] : IsOffer(i) /\ queue[2][i].pc = made[1]
      <4>1. PICK i \in DOMAIN queue[2] : IsOffer(i) /\ queue[2][i].pc = made[1]
        BY <3>2
      <4>2. CASE i = 1
        BY <1>2, <1>5, <1>6, <4>1, <4>2
      <4>3. CASE i # 1
        BY <1>6, <2>2, <4>1, <4>3
      <4> QED
        BY <4>2, <4>3
    <3>3. made[1] # end[2].remote
      BY <1>1, <1>3
    <3> QED
      BY <1>0, <3>1, <3>2, <3>3 DEF QueueInv
  <2> QED
    BY <2>1, <2>2, <2>3, <2>4, <2>5 DEF QueueInv
<1>d. ReportInv'
  <2>1. \A u \in Users : \A c \in reported[u] : c[1] \in Nat \ {0} /\ c[1] <= made[u]
    BY <1>0, ReportedFacts
  <2>2. \A u \in Users : \A c \in reported'[u] : c[1] \in 1 .. made'[u]
    <3>1. \A c \in reported'[1] : c[1] \in 1 .. made'[1]
      <4>1. reported'[1] = reported[1] /\ made'[1] = made[1] /\ made[1] \in Nat /\ 1 \in Users
        BY <1>1, <1>6, UserFacts
      <4> QED
        BY <2>1, <4>1
    <3>2. \A c \in reported'[2] : c[1] \in 1 .. made'[2]
      <4>1. made'[2] \in Nat /\ made[2] \in Nat /\ made[2] <= made'[2]
        BY <1>1, <1>4, <1>6
      <4>2. reported'[2] = reported[2] /\ 2 \in Users
        BY <1>6, UserFacts
      <4> QED
        BY <2>1, <4>1, <4>2
    <3> QED
      BY <3>1, <3>2, UserFacts
  <2> QED
    BY <1>5, <1>6, <2>2 DEF ReportInv
<1>e. AnsweringInv'
  <2>1. \A c \in reported[2] : c[1] # f.pc
    <3>1. \A c \in reported[2] : c[1] \in Nat \ {0} /\ c[1] <= made[2]
      BY <1>0, <1>1, ReportedFacts
    <3>2. CASE Builds(2, f)
      <4>1. f.pc = made[2] + 1
        BY <3>2 DEF Builds
      <4> QED
        BY <1>1, <3>1, <4>1
    <3>3. CASE ~ RemoteSet(end[2]) /\ Keeps(2, f)
      <4>1. f.pc = made[2]
        BY <3>3 DEF Keeps
      <4> QED
        BY <1>0, <3>3, <4>1 DEF ReportInv
    <3> QED
      BY <1>2, <3>2, <3>3
  <2> QED
    BY <1>6, <2>1 DEF AnsweringInv
<1>f. OfferingInv'
  <2>1. ASSUME NEW c \in reported[1] \ early, c[1] = made[1]
        PROVE  Behind(c)' \/ (p = made[1] /\ Has(queue'[2], IceOf(c)))
    <3>1. Behind(c)
      BY <1>0, <1>1, <1>3, <2>1 DEF OfferingInv
    <3> QED
      BY <1>0, <1>2, <1>4, <1>5, <2>1, <3>1, ShiftedBehind
  <2> QED
    BY <1>2, <1>6, <2>1 DEF OfferingInv, Reaches
<1>g. ReadyInv'
  <2>1. ASSUME rekeys = 0, ready, NEW c \in reported[1] PROVE Reaches(c, 2)'
    <3>1. made[2] # 0 /\ Reaches(c, 2)
      BY <1>0, <2>1 DEF ReadyInv
    <3>2. ~ RemoteSet(end[2])
      <4>1. made[1] <= 1
        BY <1>0, <1>1, <2>1 DEF EndInv
      <4> QED
        BY <1>1, <1>3, <4>1
    <3>3. Keeps(2, f)
      BY <1>2, <3>1, <3>2
    <3>4. known'[2] = known[2] \cup pending[2]
      <4>1. known' = [known EXCEPT ![2] = @ \cup pending[2]]
        BY <1>5, <3>3 DEF Keeps
      <4> QED
        BY <1>0, <1>1, <4>1 DEF EndTypes
    <3>5. CASE c \in known[2] \cup pending[2]
      BY <3>4, <3>5 DEF Reaches
    <3>6. CASE Has(queue[2], IceOf(c))
      <4>1. IceOf(c) # Head(queue[2])
        BY <1>2, MessageFacts
      <4>2. Has(queue'[2], IceOf(c))
        BY <1>1, <1>2, <1>4, <3>6, <4>1, HasTail
      <4> QED
        BY <4>2 DEF Reaches
    <3> QED
      BY <3>1, <3>5, <3>6 DEF Reaches
  <2> QED
    BY <1>2, <1>6, <2>1 DEF ReadyInv
<1>h. ChatInv'
  <2>1. slot[1] = made[1] /\ (opened[2] = made[2] => slot[2] = made[2])
        /\ \A u \in Users : opened[u] <= made[u]
    BY <1>0 DEF ChatInv
  <2>2. CASE Builds(2, f)
    <3>1. /\ \A v \in Users : sure'[v] = {}
          /\ opened' = opened /\ f.pc = made[2] + 1
      BY <1>0, <1>1, <1>2, <2>2, BuildsValues
    <3>2. opened[2] \in Nat
      <4>1. opened[2] \in AnyPc \cup {0} /\ plan \in Plans
        BY <1>0, <1>1 DEF TypeOK
      <4> QED
        BY <4>1, PlanFacts
    <3>3. opened'[2] # made'[2] /\ \A u \in Users : opened'[u] <= made'[u]
      <4>1. opened[2] <= made[2] /\ opened[1] <= made[1]
        BY <1>1, <2>1
      <4>2. opened'[2] # made'[2] /\ opened'[2] <= made'[2] /\ opened'[1] <= made'[1]
        BY <1>1, <1>6, <3>1, <3>2, <4>1
      <4> QED
        BY <4>2, UserFacts
    <3> QED
      BY <1>6, <2>1, <3>1, <3>3 DEF ChatInv
  <2>3. CASE Keeps(2, f)
    <3>1. UNCHANGED chatVars /\ made' = made
      BY <2>3 DEF Keeps
    <3> QED
      BY <1>0, <3>1 DEF ChatInv, chatVars, Has
  <2> QED
    BY <1>2, <2>2, <2>3
<1> QED
  BY <1>a, <1>b, <1>c, <1>d, <1>e, <1>f, <1>g, <1>h DEF TrickleInv

\* What user 1 takes does not touch the queue to user 2 or the other end.
LEMMA AnsweredKeep ==
    ASSUME TrickleInv, NEW f, Answered(f)
    PROVE  TrickleInv'
<1>0. /\ TypeOK /\ EndInv /\ QueueInv /\ ReportInv /\ AnsweringInv /\ OfferingInv
      /\ ReadyInv /\ ChatInv
      /\ EndTypes /\ ChatTypes /\ LoopTypes
  BY TypeParts DEF TrickleInv
<1>1. /\ 1 \in Users /\ 2 \in Users /\ end[1].pc = made[1]
      /\ queue \in [Users -> Seq(Messages)] /\ due \in [Users -> Seq(Messages)]
      /\ end \in [Users -> Ends \cup {Absent}]
      /\ known \in [Users -> SUBSET AnyCandidate] /\ pending \in [Users -> SUBSET AnyCandidate]
  BY <1>0, InvFacts, UserFacts DEF TypeOK
<1>2. /\ queue[1] # <<>> /\ Head(queue[1]).type = "answer" /\ due[1] = <<>> /\ due' = due
      /\ queue' = [queue EXCEPT ![1] = Tail(@)]
      /\ f \in Ends \cup {Absent} /\ (RemoteSet(end[1]) => RemoteSet(f)) /\ Keeps(1, f)
      /\ seen' = seen /\ rekeys' = rekeys /\ early' = early /\ ready' = ready
  BY DEF Answered
<1>3. /\ f.pc = made[1] /\ end' = [end EXCEPT ![1] = f]
      /\ made' = made /\ UNCHANGED chatVars /\ plan' = plan /\ reported' = reported
  BY <1>2 DEF Keeps
<1>4. /\ queue'[1] = Tail(queue[1]) /\ queue'[2] = queue[2] /\ end'[1] = f /\ end'[2] = end[2]
      /\ Tail(queue[1]) \in Seq(Messages)
  BY <1>1, <1>2, <1>3, TailFacts
<1>5. known'[2] = known[2] /\ pending'[2] = pending[2]
      /\ known[1] \cup pending[1] = known'[1] \cup pending'[1]
  <2>1. CASE RemoteSet(f)
    <3>1. /\ known' = [known EXCEPT ![1] = @ \cup pending[1]]
          /\ pending' = [pending EXCEPT ![1] = {}]
      BY <1>2, <2>1 DEF Keeps
    <3> QED
      BY <1>1, <3>1
  <2>2. CASE ~ RemoteSet(f)
    BY <1>2, <2>2 DEF Keeps
  <2> QED
    BY <2>1, <2>2
<1>a. TypeOK'
  <2>1. EndTypes' /\ ChatTypes'
    BY <1>0, <1>1, <1>2, KeepsTypes
  <2>2. queue' \in [Users -> Seq(Messages)]
    BY <1>1, <1>2, <1>4
  <2>3. LoopTypes'
    BY <1>0, <1>2, <1>3, <2>2, SamePlan DEF LoopTypes
  <2> QED
    BY <2>1, <2>3, TypeParts, PTL
<1>b. EndInv'
  BY <1>0, <1>2, <1>3, <1>4 DEF EndInv
<1>c. QueueInv'
  <2>1. \A i \in DOMAIN queue'[1] : queue'[1][i].type # "offer"
    <3> DEFINE q == queue[1]
               z == Tail(q)
               n == Len(q)
    <3>1. q \in Seq(Messages) /\ q # <<>> /\ \A i \in DOMAIN q : q[i].type # "offer"
      BY <1>0, <1>1, <1>2 DEF QueueInv
    <3>2. /\ n \in Nat /\ DOMAIN q = 1 .. n /\ DOMAIN z = 1 .. n - 1
          /\ \A i \in DOMAIN z : z[i] = q[i + 1]
      BY <3>1, TailFacts
    <3> HIDE DEF q, z, n
    <3>3. \A i \in DOMAIN z : z[i].type # "offer"
      BY <3>1, <3>2
    <3> QED
      BY <1>4, <3>3 DEF q, z
  <2>2. due'[1] = <<>> /\ due'[2] \in {<<>>, <<AnswerOf(end'[2])>>}
    BY <1>0, <1>2, <1>4 DEF QueueInv
  <2>3. /\ \A i \in DOMAIN queue'[2] : queue'[2][i].type # "answer"
        /\ \A i \in DOMAIN queue'[2] : IsOffer(i)' =>
              /\ end'[2].remote < queue'[2][i].pc /\ queue'[2][i].pc <= made'[1]
              /\ due'[1] # <<>> => queue'[2][i].pc < made'[1]
        /\ due'[1] # <<>> => end'[2].remote < made'[1]
    BY <1>0, <1>2, <1>3, <1>4 DEF QueueInv, IsOffer
  <2>4. /\ \A i, j \in DOMAIN queue'[2] :
              IsOffer(i)' /\ IsOffer(j)' /\ i < j => queue'[2][i].pc < queue'[2][j].pc
        /\ \/ made'[1] = end'[2].remote \/ due'[1] # <<>>
           \/ \E i \in DOMAIN queue'[2] : IsOffer(i)' /\ queue'[2][i].pc = made'[1]
    BY <1>0, <1>2, <1>3, <1>4 DEF QueueInv, IsOffer
  <2> QED
    BY <2>1, <2>2, <2>3, <2>4 DEF QueueInv
<1>d. ReportInv'
  BY <1>0, <1>3, <1>4 DEF ReportInv
<1>e. AnsweringInv'
  <2>1. ASSUME NEW c, Reaches(c, 1) PROVE Reaches(c, 1)'
    <3>1. CASE c \in known[1] \cup pending[1]
      BY <1>5, <3>1 DEF Reaches
    <3>2. CASE Has(queue[1], IceOf(c))
      <4>1. IceOf(c) # Head(queue[1])
        BY <1>2, MessageFacts
      <4>2. Has(Tail(queue[1]), IceOf(c))
        BY <1>1, <1>2, <3>2, <4>1, HasTail
      <4> QED
        BY <1>4, <4>2 DEF Reaches
    <3> QED
      BY <2>1, <3>1, <3>2 DEF Reaches
  <2> QED
    BY <1>0, <1>3, <1>4, <2>1 DEF AnsweringInv
<1>f. OfferingInv' /\ ReadyInv'
  <2>1. \A c : (Reaches(c, 2)' <=> Reaches(c, 2)) /\ (Behind(c)' <=> Behind(c))
    BY <1>4, <1>5 DEF Reaches, Behind, IsOffer
  <2> QED
    BY <1>0, <1>2, <1>3, <1>4, <2>1 DEF OfferingInv, ReadyInv
<1>g. ChatInv'
  BY <1>0, <1>3 DEF ChatInv, chatVars, Has
<1> QED
  BY <1>a, <1>b, <1>c, <1>d, <1>e, <1>f, <1>g DEF TrickleInv

\* TakeIce changes what u was given and the queue to u.
LEMMA TakeIceFacts ==
    ASSUME TypeOK, NEW u \in Users, TakeIce(u)
    PROVE  /\ queue[u] # <<>> /\ Head(queue[u]).type = "ice"
           /\ queue' = [queue EXCEPT ![u] = Tail(@)]
           /\ queue'[u] = Tail(queue[u]) /\ queue'[Other(u)] = queue[Other(u)]
           /\ EndTypes'
           /\ known'[Other(u)] = known[Other(u)] /\ pending'[Other(u)] = pending[Other(u)]
           /\ end[u] # Absent => \A c : Reaches(c, u) => Reaches(c, u)'
           /\ UNCHANGED <<plan, end, made, due, reported, chatVars, seen, rekeys, early, ready>>
<1> DEFINE h == Head(queue[u])
           c == h.cand
           e == end[u]
<1>1. /\ queue[u] # <<>> /\ h.type = "ice" /\ queue' = [queue EXCEPT ![u] = Tail(@)]
      /\ UNCHANGED <<seen, rekeys, early, ready>>
      /\ UNCHANGED <<plan, end, made, due, reported, chatVars>>
      /\ IF e = Absent THEN UNCHANGED <<pending, known>> ELSE AddOrQueueIce(u, c)
  BY DEF TakeIce, Takes
<1>2. /\ queue \in [Users -> Seq(Messages)] /\ Other(u) \in Users /\ Other(u) # u
      /\ known \in [Users -> SUBSET AnyCandidate] /\ pending \in [Users -> SUBSET AnyCandidate]
      /\ EndTypes
  BY UserFacts, TypeParts DEF TypeOK
<1>3. queue'[u] = Tail(queue[u]) /\ queue'[Other(u)] = queue[Other(u)]
  BY <1>1, <1>2
<1>4. h \in Messages /\ c \in AnyCandidate /\ h = IceOf(c)
  <2>1. h \in Messages
    BY <1>1, <1>2, TailFacts
  <2> QED
    BY <1>1, <2>1, MessageFacts
<1>9. AnyPc' = AnyPc /\ AnyCandidate' = AnyCandidate
  BY <1>1, SamePlan
<1> HIDE DEF h, c, e
<1>5. CASE e = Absent
  <2>1. UNCHANGED <<pending, known>>
    BY <1>1, <1>5
  <2>2. EndTypes'
    BY <1>1, <1>2, <2>1, SameEnds
  <2> QED
    BY <1>1, <1>3, <1>5, <2>1, <2>2 DEF h, e
<1>6. CASE e # Absent /\ RemoteSet(e)
  <2>1. known' = [known EXCEPT ![u] = @ \cup {c}] /\ pending' = pending
    BY <1>1, <1>6 DEF AddOrQueueIce, e
  <2>2. known' \in [Users -> SUBSET AnyCandidate]
        /\ known'[u] = known[u] \cup {c} /\ known'[Other(u)] = known[Other(u)]
        /\ \A v \in Users : v # u => known'[v] = known[v]
    BY <1>2, <1>4, <2>1
  <2>3. \A v \in Users : IF RemoteSet(end'[v]) THEN pending'[v] = {} ELSE known'[v] = {}
    BY <1>1, <1>2, <1>6, <2>1, <2>2 DEF EndTypes, e
  <2>4. EndTypes'
    BY <1>1, <1>2, <1>9, <2>1, <2>2, <2>3 DEF EndTypes
  <2>5. ASSUME NEW d, Reaches(d, u) PROVE Reaches(d, u)'
    <3>1. CASE d \in known[u] \cup pending[u]
      BY <2>1, <2>2, <3>1 DEF Reaches
    <3>2. CASE Has(queue[u], IceOf(d))
      <4>1. IceOf(d) = h \/ Has(queue'[u], IceOf(d))
        BY <1>1, <1>2, <1>3, <3>2, HasTail DEF h
      <4>2. IceOf(d) = h => d = c
        BY <1>4, MessageFacts
      <4> QED
        BY <2>2, <4>1, <4>2 DEF Reaches
    <3> QED
      BY <2>5, <3>1, <3>2 DEF Reaches
  <2> QED
    BY <1>1, <1>3, <2>1, <2>2, <2>4, <2>5 DEF h
<1>7. CASE e # Absent /\ ~ RemoteSet(e)
  <2>1. pending' = [pending EXCEPT ![u] = @ \cup {c}] /\ known' = known
    BY <1>1, <1>7 DEF AddOrQueueIce, e
  <2>2. pending' \in [Users -> SUBSET AnyCandidate]
        /\ pending'[u] = pending[u] \cup {c} /\ pending'[Other(u)] = pending[Other(u)]
        /\ \A v \in Users : v # u => pending'[v] = pending[v]
    BY <1>2, <1>4, <2>1
  <2>3. \A v \in Users : IF RemoteSet(end'[v]) THEN pending'[v] = {} ELSE known'[v] = {}
    BY <1>1, <1>2, <1>7, <2>1, <2>2 DEF EndTypes, e
  <2>4. EndTypes'
    BY <1>1, <1>2, <1>9, <2>1, <2>2, <2>3 DEF EndTypes
  <2>5. ASSUME NEW d, Reaches(d, u) PROVE Reaches(d, u)'
    <3>1. CASE d \in known[u] \cup pending[u]
      BY <2>1, <2>2, <3>1 DEF Reaches
    <3>2. CASE Has(queue[u], IceOf(d))
      <4>1. IceOf(d) = h \/ Has(queue'[u], IceOf(d))
        BY <1>1, <1>2, <1>3, <3>2, HasTail DEF h
      <4>2. IceOf(d) = h => d = c
        BY <1>4, MessageFacts
      <4> QED
        BY <2>2, <4>1, <4>2 DEF Reaches
    <3> QED
      BY <2>5, <3>1, <3>2 DEF Reaches
  <2> QED
    BY <1>1, <1>3, <2>1, <2>2, <2>4, <2>5 DEF h
<1> QED
  BY <1>5, <1>6, <1>7

LEMMA TakeIceKeeps ==
    ASSUME TrickleInv, NEW u \in Users, TakeIce(u)
    PROVE  TrickleInv'
<1>0. /\ TypeOK /\ EndInv /\ QueueInv /\ ReportInv /\ AnsweringInv /\ OfferingInv
      /\ ReadyInv /\ ChatInv
      /\ EndTypes /\ ChatTypes /\ LoopTypes
  BY TypeParts DEF TrickleInv
<1>1. /\ 1 \in Users /\ 2 \in Users /\ queue \in [Users -> Seq(Messages)]
      /\ \A v \in Users : end[v] = Absent <=> made[v] = 0
      /\ end[2].remote \in Nat
      /\ made[1] \in Nat /\ made[2] \in Nat
  BY <1>0, InvFacts, UserFacts DEF TypeOK
<1>2. /\ queue[u] # <<>> /\ Head(queue[u]).type = "ice"
      /\ queue' = [queue EXCEPT ![u] = Tail(@)]
      /\ queue'[u] = Tail(queue[u]) /\ queue'[Other(u)] = queue[Other(u)]
      /\ EndTypes'
      /\ known'[Other(u)] = known[Other(u)] /\ pending'[Other(u)] = pending[Other(u)]
      /\ end[u] # Absent => \A c : Reaches(c, u) => Reaches(c, u)'
      /\ UNCHANGED <<plan, end, made, due, reported, chatVars, seen, rekeys, early, ready>>
  BY <1>0, TakeIceFacts
<1>3. \A c : Reaches(c, Other(u)) => Reaches(c, Other(u))'
  BY <1>2 DEF Reaches
<1>4. \A v \in Users : made[v] # 0 => \A c : Reaches(c, v) => Reaches(c, v)'
  <2>1. made[u] # 0 => \A c : Reaches(c, u) => Reaches(c, u)'
    BY <1>1, <1>2
  <2> QED
    BY <1>3, <2>1, UserFacts
<1>a. TypeOK'
  <2>1. ChatTypes'
    BY <1>0, <1>2, SameChat
  <2>2. queue' \in [Users -> Seq(Messages)]
    <3>1. Tail(queue[u]) \in Seq(Messages)
      BY <1>1, <1>2, TailFacts
    <3> QED
      BY <1>1, <1>2, <3>1
  <2>3. LoopTypes'
    BY <1>0, <1>2, <2>2, SamePlan DEF LoopTypes
  <2> QED
    BY <1>2, <2>1, <2>3, TypeParts, PTL
<1>b. EndInv' /\ ReportInv' /\ ChatInv'
  BY <1>0, <1>2 DEF EndInv, ReportInv, ChatInv, chatVars, Has
<1>c. QueueInv'
  <2>1. /\ due'[1] \in {<<>>, <<OfferOf(end'[1])>>} /\ due'[2] \in {<<>>, <<AnswerOf(end'[2])>>}
        /\ due'[1] # <<>> => end'[2].remote < made'[1]
    BY <1>0, <1>2 DEF QueueInv
  <2>2. CASE u = 1
    <3>0. queue'[2] = queue[2] /\ queue'[1] = Tail(queue[1]) /\ queue[1] # <<>>
      BY <1>2, <2>2, UserFacts
    <3>1. \A i \in DOMAIN queue'[1] : queue'[1][i].type # "offer"
      <4> DEFINE q == queue[1]
                 z == Tail(q)
                 n == Len(q)
      <4>1. q \in Seq(Messages) /\ q # <<>> /\ \A i \in DOMAIN q : q[i].type # "offer"
        BY <1>0, <1>1, <3>0 DEF QueueInv
      <4>2. /\ n \in Nat /\ DOMAIN q = 1 .. n /\ DOMAIN z = 1 .. n - 1
            /\ \A i \in DOMAIN z : z[i] = q[i + 1]
        BY <4>1, TailFacts
      <4> HIDE DEF q, z, n
      <4>3. \A i \in DOMAIN z : z[i].type # "offer"
        BY <4>1, <4>2
      <4> QED
        BY <3>0, <4>3 DEF q, z
    <3> HIDE DEF QueueInv
    <3>2. \A i : IsOffer(i)' <=> IsOffer(i)
      BY <3>0 DEF IsOffer
    <3> QED
      BY <1>0, <1>2, <2>1, <3>0, <3>1, <3>2 DEF QueueInv
  <2>3. CASE u = 2
    <3>0. queue'[1] = queue[1] /\ queue'[2] = Tail(queue[2]) /\ queue[2] # <<>>
      BY <1>2, <2>3, UserFacts
    <3>1. /\ \A i \in DOMAIN queue'[2] : queue'[2][i].type # "answer"
          /\ \A i, j \in DOMAIN queue'[2] :
                IsOffer(i)' /\ IsOffer(j)' /\ i < j => queue'[2][i].pc < queue'[2][j].pc
          /\ \A i \in DOMAIN queue'[2] : IsOffer(i)' =>
                /\ end[2].remote < queue'[2][i].pc /\ queue'[2][i].pc <= made[1]
                /\ due[1] # <<>> => queue'[2][i].pc < made[1]
          /\ \A i \in DOMAIN queue[2] : IsOffer(i) =>
                i = 1 \/ \E j \in DOMAIN queue'[2] : IsOffer(j)' /\ queue'[2][j] = queue[2][i]
      BY <1>0, <3>0, ShiftedQueue
    <3>2. ~ IsOffer(1)
      BY <1>0, <1>2, <2>3, <3>0, Shift DEF IsOffer
    <3>3. \/ made'[1] = end'[2].remote \/ due'[1] # <<>>
          \/ \E i \in DOMAIN queue'[2] : IsOffer(i)' /\ queue'[2][i].pc = made'[1]
      <4>1. CASE made[1] = end[2].remote \/ due[1] # <<>>
        BY <1>2, <4>1
      <4>2. CASE \E i \in DOMAIN queue[2] : IsOffer(i) /\ queue[2][i].pc = made[1]
        BY <1>2, <3>1, <3>2, <4>2
      <4> QED
        BY <1>0, <4>1, <4>2 DEF QueueInv
    <3>4. \A i \in DOMAIN queue'[1] : queue'[1][i].type # "offer"
      BY <1>0, <3>0 DEF QueueInv
    <3>5. \A i \in DOMAIN queue'[2] : IsOffer(i)' =>
                /\ end'[2].remote < queue'[2][i].pc /\ queue'[2][i].pc <= made'[1]
                /\ due'[1] # <<>> => queue'[2][i].pc < made'[1]
      BY <1>2, <3>1
    <3> QED
      BY <2>1, <3>1, <3>3, <3>4, <3>5 DEF QueueInv
  <2> QED
    BY <2>2, <2>3, UserFacts
<1>d. AnsweringInv'
  <2>1. ASSUME end[2].remote = made[1], NEW c \in reported[2], c[1] = made[2]
        PROVE  Reaches(c, 1)'
    <3>1. made[1] # 0
      <4>1. RemoteSet(end[2])
        BY <1>0, <2>1 DEF ReportInv
      <4> QED
        BY <1>0, <2>1, <4>1 DEF RemoteSet
    <3> QED
      BY <1>0, <1>1, <1>4, <2>1, <3>1 DEF AnsweringInv
  <2> QED
    BY <1>2, <2>1 DEF AnsweringInv
<1>e. OfferingInv'
  <2>1. \A c : Behind(c) => Behind(c)'
    <3>1. CASE u = 1
      BY <1>2, <3>1, UserFacts DEF Behind, IsOffer
    <3>2. CASE u = 2
      <4>1. queue'[2] = Tail(queue[2]) /\ queue[2] # <<>>
        BY <1>2, <3>2
      <4>2. ~ IsOffer(1)
        BY <1>0, <1>2, <3>2, <4>1, Shift DEF IsOffer
      <4> QED
        BY <1>0, <4>1, <4>2, ShiftedBehind
    <3> QED
      BY <3>1, <3>2, UserFacts
  <2>2. ASSUME NEW c \in reported[1] \ early, c[1] = made[1]
        PROVE  Behind(c)' \/ (end[2].remote = made[1] /\ Reaches(c, 2)')
    <3>1. made[1] # 0 /\ made[2] = 0 => end[2].remote = 0
      BY <1>0, <1>1, <2>2, InvFacts
    <3>2. made[1] # 0
      BY <1>0, <1>1, <2>2, ReportedFacts
    <3>3. CASE Behind(c)
      BY <2>1, <3>3
    <3>4. CASE end[2].remote = made[1] /\ Reaches(c, 2)
      BY <1>1, <1>4, <3>1, <3>2, <3>4
    <3> QED
      BY <1>0, <2>2, <3>3, <3>4 DEF OfferingInv
  <2> QED
    BY <1>2, <2>2 DEF OfferingInv
<1>f. ReadyInv'
  BY <1>0, <1>1, <1>2, <1>4 DEF ReadyInv
<1> QED
  BY <1>a, <1>b, <1>c, <1>d, <1>e, <1>f DEF TrickleInv

\* A message joins the queue to u.
LEMMA Joins ==
    ASSUME TypeOK, NEW u \in Users, NEW m \in Messages,
           queue' = [queue EXCEPT ![u] = Append(@, m)], plan' = plan
    PROVE  /\ queue'[Other(u)] = queue[Other(u)]
           /\ queue' \in [Users -> Seq(Messages')]
           /\ \A x : Has(queue[u], x) => Has(queue'[u], x)
           /\ Has(queue'[u], m)
           /\ \E n \in Nat : /\ n \in DOMAIN queue'[u] /\ queue'[u][n] = m
                             /\ \A i \in DOMAIN queue[u] : i \in Nat /\ i < n
                             /\ \A i \in DOMAIN queue'[u] : i = n \/ i \in DOMAIN queue[u]
           /\ \A i \in DOMAIN queue[u] : i \in DOMAIN queue'[u] /\ queue'[u][i] = queue[u][i]
<1>1. /\ queue \in [Users -> Seq(Messages)] /\ Other(u) \in Users /\ Other(u) # u
      /\ Messages' = Messages
  BY UserFacts, SamePlan DEF TypeOK
<1> DEFINE q == queue[u]
           z == Append(q, m)
           k == Len(q)
<1>2. queue'[u] = z /\ queue'[Other(u)] = queue[Other(u)] /\ q \in Seq(Messages)
  BY <1>1
<1> HIDE DEF q
<1>3. /\ k \in Nat /\ DOMAIN q = 1 .. k /\ DOMAIN z = 1 .. k + 1 /\ z[k + 1] = m
      /\ z \in Seq(Messages) /\ \A i \in DOMAIN q : z[i] = q[i]
  BY <1>2, AppendFacts
<1>4. Has(z, m) /\ \A x : Has(q, x) => Has(z, x)
  BY <1>2, HasAppended
<1>5. queue' \in [Users -> Seq(Messages')]
  BY <1>1, <1>2, <1>3 DEF q
<1> HIDE DEF z, k
<1>6. /\ k + 1 \in DOMAIN z /\ z[k + 1] = m /\ k + 1 \in Nat
      /\ \A i \in DOMAIN q : i \in Nat /\ i < k + 1
      /\ \A i \in DOMAIN z : i = k + 1 \/ i \in DOMAIN q
      /\ \A i \in DOMAIN q : i \in DOMAIN z /\ z[i] = q[i]
  BY <1>3
<1>7. \E n \in Nat : /\ n \in DOMAIN z /\ z[n] = m
                     /\ \A i \in DOMAIN q : i \in Nat /\ i < n
                     /\ \A i \in DOMAIN z : i = n \/ i \in DOMAIN q
  BY <1>6
<1> QED
  BY <1>2, <1>4, <1>5, <1>6, <1>7 DEF q

\* A candidate or an offer newer than all others joins the queue to user 2.
LEMMA JoinedQueue ==
    ASSUME TypeOK, EndInv, QueueInv, NEW m \in Messages, plan' = plan,
           queue' = [queue EXCEPT ![2] = Append(@, m)],
           m.type = "ice" \/ (m.type = "offer" /\ due[1] # <<>> /\ m.pc = made[1])
    PROVE  /\ \A i \in DOMAIN queue'[2] : queue'[2][i].type # "answer"
           /\ \A i, j \in DOMAIN queue'[2] :
                 IsOffer(i)' /\ IsOffer(j)' /\ i < j => queue'[2][i].pc < queue'[2][j].pc
           /\ \A i \in DOMAIN queue'[2] : IsOffer(i)' =>
                 end[2].remote < queue'[2][i].pc /\ queue'[2][i].pc <= made[1]
           /\ m.type = "ice" => \A i \in DOMAIN queue'[2] : IsOffer(i)' =>
                 (due[1] # <<>> => queue'[2][i].pc < made[1])
           /\ \A i \in DOMAIN queue[2] : IsOffer(i) => IsOffer(i)'
           /\ \A c : Behind(c) => Behind(c)'
<1>1. /\ 2 \in Users /\ made[1] \in Nat /\ end[2].remote \in Nat
  BY InvFacts, UserFacts
<1>2. \A i \in DOMAIN queue[2] : i \in DOMAIN queue'[2] /\ queue'[2][i] = queue[2][i]
  BY <1>1, Joins
<1>3. PICK n \in Nat : /\ n \in DOMAIN queue'[2] /\ queue'[2][n] = m
                       /\ \A i \in DOMAIN queue[2] : i \in Nat /\ i < n
                       /\ \A i \in DOMAIN queue'[2] : i = n \/ i \in DOMAIN queue[2]
  BY <1>1, Joins
<1>4. /\ \A i \in DOMAIN queue[2] : IsOffer(i)' <=> IsOffer(i)
      /\ IsOffer(n)' <=> m.type = "offer"
  BY <1>2, <1>3 DEF IsOffer
<1>5. \A i \in DOMAIN queue'[2] : queue'[2][i].type # "answer"
  BY <1>2, <1>3 DEF QueueInv
<1>6. m.type = "offer" => /\ end[2].remote < m.pc /\ m.pc = made[1]
                          /\ \A i \in DOMAIN queue[2] : IsOffer(i) => queue[2][i].pc < m.pc
  BY DEF QueueInv
<1>7. ASSUME NEW i \in DOMAIN queue'[2], IsOffer(i)'
      PROVE  /\ end[2].remote < queue'[2][i].pc /\ queue'[2][i].pc <= made[1]
             /\ m.type = "ice" => (due[1] # <<>> => queue'[2][i].pc < made[1])
  <2>1. CASE i = n
    <3>1. m.type = "offer"
      BY <1>4, <1>7, <2>1
    <3>2. queue'[2][i].pc = made[1]
      BY <1>3, <1>6, <2>1, <3>1
    <3>3. made[1] <= made[1]
      BY <1>1
    <3> QED
      BY <1>6, <3>1, <3>2, <3>3
  <2>2. CASE i # n
    <3>1. i \in DOMAIN queue[2] /\ queue'[2][i] = queue[2][i] /\ IsOffer(i)
      BY <1>2, <1>3, <1>4, <1>7, <2>2
    <3> QED
      BY <3>1 DEF QueueInv
  <2> QED
    BY <2>1, <2>2
<1>8. ASSUME NEW i \in DOMAIN queue'[2], NEW j \in DOMAIN queue'[2], IsOffer(i)', IsOffer(j)', i < j
      PROVE  queue'[2][i].pc < queue'[2][j].pc
  <2>1. i \in DOMAIN queue[2]
    <3>1. j \in Nat /\ i \in Nat /\ j <= n
      BY <1>3
    <3>2. i # n
      BY <1>8, <3>1
    <3> QED
      BY <1>3, <3>2
  <2>2. IsOffer(i) /\ queue'[2][i] = queue[2][i]
    BY <1>2, <1>4, <1>8, <2>1
  <2>3. CASE j = n
    BY <1>3, <1>4, <1>6, <1>8, <2>1, <2>2, <2>3
  <2>4. CASE j \in DOMAIN queue[2]
    <3>1. IsOffer(j) /\ queue'[2][j] = queue[2][j]
      BY <1>2, <1>4, <1>8, <2>4
    <3>2. queue[2][i].pc < queue[2][j].pc
      BY <1>8, <2>1, <2>2, <2>4, <3>1 DEF QueueInv
    <3> QED
      BY <2>2, <3>1, <3>2
  <2> QED
    BY <1>3, <2>3, <2>4
<1>9. ASSUME NEW c, Behind(c) PROVE Behind(c)'
  <2>1. PICK i \in DOMAIN queue[2], j \in DOMAIN queue[2] :
            i < j /\ IsOffer(i) /\ queue[2][i].pc = c[1] /\ queue[2][j] = IceOf(c)
    BY <1>9 DEF Behind
  <2>2. /\ i \in DOMAIN queue'[2] /\ j \in DOMAIN queue'[2] /\ i < j
        /\ IsOffer(i)' /\ queue'[2][i].pc = c[1] /\ queue'[2][j] = IceOf(c)
    BY <1>2, <1>4, <2>1
  <2>3. Behind(c)'
    BY <2>2 DEF Behind
  <2> QED
    BY <2>3
<1> QED
  BY <1>4, <1>5, <1>7, <1>8, <1>9

LEMMA SendDueKeeps ==
    ASSUME TrickleInv, NEW u \in Users, SendDue(u)
    PROVE  TrickleInv'
<1>0. /\ TypeOK /\ EndInv /\ QueueInv /\ ReportInv /\ AnsweringInv /\ OfferingInv
      /\ ReadyInv /\ ChatInv
      /\ EndTypes /\ ChatTypes /\ LoopTypes
  BY TypeParts DEF TrickleInv
<1>1. /\ 1 \in Users /\ 2 \in Users /\ Other(1) = 2 /\ Other(2) = 1
      /\ \A v \in Users : made[v] = end[v].pc
      /\ queue \in [Users -> Seq(Messages)] /\ due \in [Users -> Seq(Messages)]
      /\ made \in [Users -> AnyPc \cup {0}]
  BY <1>0, InvFacts, UserFacts DEF TypeOK
<1>2. /\ due[u] # <<>> /\ queue' = [queue EXCEPT ![Other(u)] = @ \o due[u]]
      /\ due' = [due EXCEPT ![u] = <<>>]
      /\ plan' = plan /\ end' = end /\ pending' = pending /\ known' = known /\ made' = made
      /\ reported' = reported /\ seen' = seen /\ rekeys' = rekeys /\ UNCHANGED chatVars
      /\ early' = early /\ ready' = ready
  BY DEF SendDue
<1>3. due'[u] = <<>> /\ due'[Other(u)] = due[Other(u)] /\ due' \in [Users -> Seq(Messages)]
  BY <1>1, <1>2, UserFacts
<1> DEFINE m == Head(due[u])
<1>4. /\ due[u] = <<m>> /\ m \in Messages
      /\ u = 1 => m.type = "offer" /\ m.pc = made[1]
      /\ u = 2 => m.type = "answer"
  <2>0. m \in Messages
    BY <1>1, <1>2, TailFacts
  <2>1. CASE u = 1
    <3>1. due[1] = <<OfferOf(end[1])>>
      BY <1>0, <1>2, <2>1 DEF QueueInv
    <3>2. m = OfferOf(end[1]) /\ due[u] = <<m>>
      BY <2>1, <3>1
    <3> QED
      BY <1>1, <2>0, <2>1, <3>2, MessageFacts
  <2>2. CASE u = 2
    <3>1. due[2] = <<AnswerOf(end[2])>>
      BY <1>0, <1>2, <2>2 DEF QueueInv
    <3>2. m = AnswerOf(end[2]) /\ due[u] = <<m>>
      BY <2>2, <3>1
    <3> QED
      BY <2>0, <2>2, <3>2, MessageFacts
  <2> QED
    BY <2>1, <2>2, UserFacts
<1> HIDE DEF m
<1>5. queue' = [queue EXCEPT ![Other(u)] = Append(@, m)]
  <2>1. queue[Other(u)] \o <<m>> = Append(queue[Other(u)], m)
    BY <1>1, <1>4, UserFacts, AppendFacts
  <2> QED
    BY <1>2, <1>4, <2>1
<1>6. /\ queue' \in [Users -> Seq(Messages')]
      /\ queue'[u] = queue[u]
      /\ \A x : Has(queue[Other(u)], x) => Has(queue'[Other(u)], x)
  BY <1>0, <1>2, <1>4, <1>5, Joins, UserFacts
<1>7. \A v \in Users : \A c : Reaches(c, v) => Reaches(c, v)'
  <2>1. \A v \in Users : \A x : Has(queue[v], x) => Has(queue'[v], x)
    BY <1>6, UserFacts
  <2> QED
    BY <1>2, <2>1 DEF Reaches
<1>a. TypeOK'
  <2>1. EndTypes' /\ ChatTypes'
    BY <1>0, <1>2, SameEnds, SameChat
  <2>2. LoopTypes'
    BY <1>0, <1>2, <1>3, <1>6, SamePlan DEF LoopTypes
  <2> QED
    BY <2>1, <2>2, TypeParts, PTL
<1>8. /\ made' = made /\ end' = end /\ seen' = seen /\ rekeys' = rekeys /\ reported' = reported
      /\ UNCHANGED chatVars
  BY <1>2
<1>b. EndInv' /\ ReportInv' /\ ChatInv'
  <2>1. EndInv'
    BY <1>0, <1>8 DEF EndInv
  <2>2. ReportInv'
    BY <1>0, <1>8 DEF ReportInv
  <2>3. ChatInv'
    BY <1>0, <1>8 DEF ChatInv, chatVars, Has
  <2> QED
    BY <2>1, <2>2, <2>3
<1>c. QueueInv' /\ OfferingInv'
  <2>1. CASE u = 1
    <3>0. /\ queue' = [queue EXCEPT ![2] = Append(@, m)] /\ queue'[1] = queue[1]
          /\ due'[1] = <<>> /\ due'[2] = due[2] /\ due[1] # <<>>
          /\ m.type = "offer" /\ m.pc = made[1]
      BY <1>1, <1>2, <1>3, <1>4, <1>5, <1>6, <2>1
    <3>1. /\ \A i \in DOMAIN queue'[2] : queue'[2][i].type # "answer"
          /\ \A i, j \in DOMAIN queue'[2] :
                IsOffer(i)' /\ IsOffer(j)' /\ i < j => queue'[2][i].pc < queue'[2][j].pc
          /\ \A i \in DOMAIN queue'[2] : IsOffer(i)' =>
                end[2].remote < queue'[2][i].pc /\ queue'[2][i].pc <= made[1]
          /\ \A c : Behind(c) => Behind(c)'
      BY <1>0, <1>2, <1>4, <3>0, JoinedQueue
    <3>2. \E i \in DOMAIN queue'[2] : IsOffer(i)' /\ queue'[2][i].pc = made'[1]
      <4>1. Has(queue'[2], m)
        BY <1>0, <1>1, <1>2, <1>4, <3>0, Joins
      <4> QED
        BY <1>2, <3>0, <4>1 DEF Has, IsOffer
    <3>3. /\ due'[1] \in {<<>>, <<OfferOf(end'[1])>>} /\ due'[2] \in {<<>>, <<AnswerOf(end'[2])>>}
          /\ \A i \in DOMAIN queue'[1] : queue'[1][i].type # "offer"
      BY <1>0, <1>2, <3>0 DEF QueueInv
    <3>4. \A i \in DOMAIN queue'[2] : IsOffer(i)' =>
                end'[2].remote < queue'[2][i].pc /\ queue'[2][i].pc <= made'[1]
      BY <1>2, <3>1
    <3>5. QueueInv'
      BY <3>0, <3>1, <3>2, <3>3, <3>4 DEF QueueInv
    <3>6. OfferingInv'
      BY <1>0, <1>1, <1>2, <1>7, <3>1 DEF OfferingInv
    <3> QED
      BY <3>5, <3>6
  <2>2. CASE u = 2
    <3>0. /\ queue' = [queue EXCEPT ![1] = Append(@, m)] /\ queue'[2] = queue[2]
          /\ due'[2] = <<>> /\ due'[1] = due[1]
          /\ m.type = "answer"
      BY <1>1, <1>2, <1>3, <1>4, <1>5, <1>6, <2>2
    <3>1. \A i \in DOMAIN queue'[1] : queue'[1][i].type # "offer"
      <4>0. /\ TypeOK /\ 1 \in Users /\ m \in Messages /\ plan' = plan
            /\ queue' = [queue EXCEPT ![1] = Append(@, m)]
        BY <1>0, <1>1, <1>2, <1>4, <3>0
      <4>3. \A i \in DOMAIN queue[1] : i \in DOMAIN queue'[1] /\ queue'[1][i] = queue[1][i]
        BY <4>0, Joins
      <4>1. \A i \in DOMAIN queue[1] : queue[1][i].type # "offer" /\ queue'[1][i] = queue[1][i]
        BY <1>0, <4>3 DEF QueueInv
      <4>2. PICK n \in Nat : /\ n \in DOMAIN queue'[1] /\ queue'[1][n] = m
                             /\ \A i \in DOMAIN queue[1] : i \in Nat /\ i < n
                             /\ \A i \in DOMAIN queue'[1] : i = n \/ i \in DOMAIN queue[1]
        BY <4>0, Joins
      <4> QED
        BY <3>0, <4>1, <4>2
    <3>2. QueueInv'
      BY <1>0, <1>2, <3>0, <3>1 DEF QueueInv, IsOffer
    <3>3. \A c : Behind(c)' <=> Behind(c)
      BY <3>0 DEF Behind, IsOffer
    <3>4. OfferingInv'
      BY <1>0, <1>1, <1>2, <1>7, <3>3 DEF OfferingInv
    <3> QED
      BY <3>2, <3>4
  <2> QED
    BY <2>1, <2>2, UserFacts
<1>d. AnsweringInv' /\ ReadyInv'
  BY <1>0, <1>1, <1>2, <1>7 DEF AnsweringInv, ReadyInv
<1> QED
  BY <1>a, <1>b, <1>c, <1>d DEF TrickleInv

LEMMA ReportKeeps ==
    ASSUME TrickleInv, NEW u \in Users, Report(u)
    PROVE  TrickleInv'
<1>0. /\ TypeOK /\ EndInv /\ QueueInv /\ ReportInv /\ AnsweringInv /\ OfferingInv
      /\ ReadyInv /\ ChatInv
      /\ EndTypes /\ ChatTypes /\ LoopTypes
  BY TypeParts DEF TrickleInv
<1>1. /\ 1 \in Users /\ 2 \in Users /\ Other(1) = 2 /\ Other(2) = 1
      /\ Other(u) \in Users /\ Other(u) # u
      /\ \A v \in Users : made[v] = end[v].pc /\ made[v] \in Nat /\ made[v] <= plan.rekeys + 1
      /\ plan.rekeys \in Nat
      /\ reported \in [Users -> SUBSET AnyCandidate]
  BY <1>0, InvFacts, UserFacts DEF TypeOK
<1>2. PICK c \in {d \in (1 .. made[u]) \X plan.candidates : Gathers(u, d[1])} \ reported[u] :
          /\ reported' = [reported EXCEPT ![u] = @ \cup {c}]
          /\ queue' = [queue EXCEPT ![Other(u)] = Append(@, IceOf(c))]
          /\ early' = IF u = 1 /\ due[1] # <<>> /\ c[1] = end[1].pc THEN early \cup {c} ELSE early
  BY DEF Report
<1>3. /\ plan' = plan /\ end' = end /\ pending' = pending /\ known' = known /\ made' = made
      /\ due' = due /\ seen' = seen /\ rekeys' = rekeys /\ UNCHANGED chatVars
      /\ ready' = ready
  BY DEF Report
<1>4. c \in AnyCandidate /\ c[1] \in 1 .. made[u] /\ Gathers(u, c[1])
  <2>1. c \in (1 .. made[u]) \X plan.candidates /\ Gathers(u, c[1])
    BY <1>2
  <2>2. \A n \in 1 .. made[u] : n \in AnyPc
    BY <1>0, <1>1, InvFacts
  <2> QED
    BY <2>1, <2>2 DEF AnyCandidate
<1> DEFINE m == IceOf(c)
<1>5. m \in Messages /\ m.type = "ice"
  BY <1>4, MessageFacts
<1> HIDE DEF m
<1>6. /\ queue' = [queue EXCEPT ![Other(u)] = Append(@, m)]
      /\ reported'[u] = reported[u] \cup {c} /\ reported'[Other(u)] = reported[Other(u)]
      /\ reported' \in [Users -> SUBSET AnyCandidate]
      /\ early \subseteq early' /\ early' \subseteq AnyCandidate
  <2>1. early \subseteq AnyCandidate
    BY <1>0 DEF TypeOK
  <2> QED
    BY <1>1, <1>2, <1>4, <2>1 DEF m
<1>7. /\ queue' \in [Users -> Seq(Messages')]
      /\ queue'[u] = queue[u] /\ Has(queue'[Other(u)], m)
      /\ \A x : Has(queue[Other(u)], x) => Has(queue'[Other(u)], x)
  <2>1. Other(Other(u)) = u
    BY UserFacts
  <2> QED
    BY <1>0, <1>1, <1>3, <1>5, <1>6, <2>1, Joins
<1>8. /\ \A v \in Users : \A d : Reaches(d, v) => Reaches(d, v)'
      /\ Reaches(c, Other(u))'
  <2>1. \A v \in Users : \A x : Has(queue[v], x) => Has(queue'[v], x)
    BY <1>7, UserFacts
  <2>2. Has(queue'[Other(u)], IceOf(c))
    BY <1>7 DEF m
  <2> QED
    BY <1>3, <2>1, <2>2 DEF Reaches
<1>a. TypeOK'
  <2>1. ChatTypes'
    BY <1>0, <1>3, SameChat
  <2>2. EndTypes'
    BY <1>0, <1>3, <1>6, SamePlan DEF EndTypes
  <2>3. LoopTypes'
    BY <1>0, <1>3, <1>6, <1>7, SamePlan DEF LoopTypes
  <2> QED
    BY <2>1, <2>2, <2>3, TypeParts, PTL
<1>b. EndInv' /\ ChatInv'
  <2>1. EndInv'
    BY <1>0, <1>3 DEF EndInv
  <2>2. ChatInv'
    BY <1>0, <1>3 DEF ChatInv, chatVars, Has
  <2> QED
    BY <2>1, <2>2
<1>c. ReportInv'
  <2>1. \A v \in Users : \A d \in reported'[v] : d[1] \in 1 .. made[v]
    <3>1. \A d \in reported'[u] : d[1] \in 1 .. made[u]
      BY <1>0, <1>4, <1>6 DEF ReportInv
    <3>2. \A d \in reported'[Other(u)] : d[1] \in 1 .. made[Other(u)]
      BY <1>0, <1>1, <1>6 DEF ReportInv
    <3> QED
      BY <3>1, <3>2, UserFacts
  <2>2. ASSUME ~ RemoteSet(end[2]), NEW d \in reported'[2] PROVE d[1] # made[2]
    <3>1. CASE d \in reported[2]
      BY <1>0, <2>2, <3>1 DEF ReportInv
    <3>2. CASE u = 2 /\ d = c
      <4>1. ~ end[2].offered
        BY <1>0 DEF EndInv
      <4> QED
        BY <1>1, <1>4, <2>2, <3>2, <4>1 DEF Gathers
    <3> QED
      BY <1>1, <1>6, <2>2, <3>1, <3>2, UserFacts
  <2> QED
    BY <1>3, <2>1, <2>2 DEF ReportInv
<1>d. CASE u = 1
  <2>0. /\ queue' = [queue EXCEPT ![2] = Append(@, m)] /\ queue'[1] = queue[1]
        /\ reported'[2] = reported[2] /\ reported'[1] = reported[1] \cup {c}
        /\ Reaches(c, 2)'
    BY <1>1, <1>6, <1>7, <1>8, <1>d
  <2>1. /\ \A i \in DOMAIN queue'[2] : queue'[2][i].type # "answer"
        /\ \A i, j \in DOMAIN queue'[2] :
              IsOffer(i)' /\ IsOffer(j)' /\ i < j => queue'[2][i].pc < queue'[2][j].pc
        /\ \A i \in DOMAIN queue'[2] : IsOffer(i)' =>
              end[2].remote < queue'[2][i].pc /\ queue'[2][i].pc <= made[1]
        /\ \A i \in DOMAIN queue'[2] : IsOffer(i)' => (due[1] # <<>> => queue'[2][i].pc < made[1])
        /\ \A i \in DOMAIN queue[2] : IsOffer(i) => IsOffer(i)'
        /\ \A d : Behind(d) => Behind(d)'
    BY <1>0, <1>3, <1>5, <2>0, JoinedQueue
  <2>2. \A i \in DOMAIN queue[2] : i \in DOMAIN queue'[2] /\ queue'[2][i] = queue[2][i]
    BY <1>0, <1>1, <1>3, <1>5, <2>0, Joins
  <2>3. QueueInv'
    <3>1. /\ due'[1] \in {<<>>, <<OfferOf(end'[1])>>} /\ due'[2] \in {<<>>, <<AnswerOf(end'[2])>>}
          /\ \A i \in DOMAIN queue'[1] : queue'[1][i].type # "offer"
          /\ due'[1] # <<>> => end'[2].remote < made'[1]
      BY <1>0, <1>3, <2>0 DEF QueueInv
    <3>2. \/ made'[1] = end'[2].remote \/ due'[1] # <<>>
          \/ \E i \in DOMAIN queue'[2] : IsOffer(i)' /\ queue'[2][i].pc = made'[1]
      <4>1. CASE made[1] = end[2].remote \/ due[1] # <<>>
        BY <1>3, <4>1
      <4>2. CASE \E i \in DOMAIN queue[2] : IsOffer(i) /\ queue[2][i].pc = made[1]
        BY <1>3, <2>1, <2>2, <4>2
      <4> QED
        BY <1>0, <4>1, <4>2 DEF QueueInv
    <3>3. \A i \in DOMAIN queue'[2] : IsOffer(i)' =>
              /\ end'[2].remote < queue'[2][i].pc /\ queue'[2][i].pc <= made'[1]
              /\ due'[1] # <<>> => queue'[2][i].pc < made'[1]
      BY <1>3, <2>1
    <3> QED
      BY <2>1, <3>1, <3>2, <3>3 DEF QueueInv
  <2>4. OfferingInv'
    <3>1. ASSUME NEW d \in reported'[1] \ early', d[1] = made[1]
          PROVE  Behind(d)' \/ (end[2].remote = made[1] /\ Reaches(d, 2)')
      <4>1. CASE d \in reported[1]
        <5>1. d \in reported[1] \ early
          BY <1>6, <3>1, <4>1
        <5> QED
          BY <1>0, <1>1, <1>8, <2>1, <3>1, <5>1 DEF OfferingInv
      <4>2. CASE d = c
        <5>1. due[1] = <<>>
          BY <1>1, <1>2, <1>d, <3>1, <4>2
        <5>2. CASE made[1] = end[2].remote
          BY <2>0, <4>2, <5>2
        <5>3. CASE \E i \in DOMAIN queue[2] : IsOffer(i) /\ queue[2][i].pc = made[1]
          <6>1. PICK i \in DOMAIN queue[2] : IsOffer(i) /\ queue[2][i].pc = made[1]
            BY <5>3
          <6>2. PICK n \in Nat : /\ n \in DOMAIN queue'[2] /\ queue'[2][n] = m
                                 /\ \A k \in DOMAIN queue[2] : k \in Nat /\ k < n
                                 /\ \A k \in DOMAIN queue'[2] : k = n \/ k \in DOMAIN queue[2]
            BY <1>0, <1>1, <1>3, <1>5, <2>0, Joins
          <6>3. /\ i \in DOMAIN queue'[2] /\ i < n /\ IsOffer(i)' /\ queue'[2][i].pc = c[1]
                /\ n \in DOMAIN queue'[2] /\ queue'[2][n] = IceOf(c)
            BY <2>1, <2>2, <3>1, <4>2, <6>1, <6>2 DEF m
          <6>4. Behind(c)'
            BY <6>3 DEF Behind
          <6> QED
            BY <4>2, <6>4
        <5> QED
          BY <1>0, <5>1, <5>2, <5>3 DEF QueueInv
      <4> QED
        BY <2>0, <3>1, <4>1, <4>2
    <3> QED
      BY <1>3, <3>1 DEF OfferingInv
  <2>5. AnsweringInv'
    BY <1>0, <1>1, <1>3, <1>8, <2>0 DEF AnsweringInv
  <2>6. ReadyInv'
    BY <1>0, <1>1, <1>3, <1>8, <2>0 DEF ReadyInv
  <2> QED
    BY <1>a, <1>b, <1>c, <2>3, <2>4, <2>5, <2>6 DEF TrickleInv
<1>e. CASE u = 2
  <2>0. /\ queue' = [queue EXCEPT ![1] = Append(@, m)] /\ queue'[2] = queue[2]
        /\ reported'[1] = reported[1] /\ reported'[2] = reported[2] \cup {c}
        /\ Reaches(c, 1)' /\ early' = early
    BY <1>1, <1>2, <1>6, <1>7, <1>8, <1>e
  <2>1. \A i \in DOMAIN queue'[1] : queue'[1][i].type # "offer"
    <3>1. /\ TypeOK /\ 1 \in Users /\ m \in Messages /\ plan' = plan
          /\ queue' = [queue EXCEPT ![1] = Append(@, m)]
      BY <1>0, <1>1, <1>3, <1>5, <2>0
    <3>2. \A i \in DOMAIN queue[1] : i \in DOMAIN queue'[1] /\ queue'[1][i] = queue[1][i]
      BY <3>1, Joins
    <3>3. \A i \in DOMAIN queue[1] : queue[1][i].type # "offer" /\ queue'[1][i] = queue[1][i]
      BY <1>0, <3>2 DEF QueueInv
    <3>4. PICK n \in Nat : /\ n \in DOMAIN queue'[1] /\ queue'[1][n] = m
                           /\ \A i \in DOMAIN queue[1] : i \in Nat /\ i < n
                           /\ \A i \in DOMAIN queue'[1] : i = n \/ i \in DOMAIN queue[1]
      BY <3>1, Joins
    <3> QED
      BY <1>5, <3>3, <3>4
  <2>2. QueueInv'
    BY <1>0, <1>3, <2>0, <2>1 DEF QueueInv, IsOffer
  <2>3. \A d : Behind(d)' <=> Behind(d)
    BY <2>0 DEF Behind, IsOffer
  <2>4. OfferingInv'
    BY <1>0, <1>1, <1>3, <1>8, <2>0, <2>3 DEF OfferingInv
  <2>5. AnsweringInv'
    BY <1>0, <1>1, <1>3, <1>8, <2>0 DEF AnsweringInv
  <2>6. ReadyInv'
    BY <1>0, <1>1, <1>3, <1>8, <2>0 DEF ReadyInv
  <2> QED
    BY <1>a, <1>b, <1>c, <2>2, <2>4, <2>5, <2>6 DEF TrickleInv
<1> QED
  BY <1>d, <1>e, UserFacts

\* The chat does not touch the link.
Chats == OpenChat \/ AcceptChat \/ \E u \in Users : Say(u) \/ Hear(u)

LEMMA ChatsKeep ==
    ASSUME TrickleInv, Chats
    PROVE  TrickleInv'
<1>0. /\ TypeOK /\ EndInv /\ QueueInv /\ ReportInv /\ AnsweringInv /\ OfferingInv
      /\ ReadyInv /\ ChatInv
      /\ EndTypes /\ ChatTypes /\ LoopTypes
  BY TypeParts DEF TrickleInv
<1>1. UNCHANGED iceVars
  BY DEF Chats, OpenChat, AcceptChat, Say, Hear
<1>2. /\ plan' = plan /\ end' = end /\ pending' = pending /\ known' = known /\ made' = made
      /\ due' = due /\ reported' = reported /\ queue' = queue /\ seen' = seen
      /\ rekeys' = rekeys /\ early' = early /\ ready' = ready
  BY <1>1 DEF iceVars
<1>3. EndTypes' /\ LoopTypes'
  BY <1>0, <1>2, SameEnds, SamePlan DEF LoopTypes
<1>4. EndInv' /\ QueueInv' /\ ReportInv'
  <2>1. EndInv'
    BY <1>0, <1>2 DEF EndInv
  <2>2. QueueInv'
    BY <1>0, <1>2 DEF QueueInv, IsOffer
  <2>3. ReportInv'
    BY <1>0, <1>2 DEF ReportInv
  <2> QED
    BY <2>1, <2>2, <2>3
<1>5. AnsweringInv' /\ OfferingInv' /\ ReadyInv'
  <2>1. \A c : /\ \A u \in Users : Reaches(c, u)' <=> Reaches(c, u)
               /\ Behind(c)' <=> Behind(c)
    BY <1>2 DEF Reaches, Behind, IsOffer
  <2>2. 1 \in Users /\ 2 \in Users
    BY UserFacts
  <2> QED
    BY <1>0, <1>2, <2>1, <2>2 DEF AnsweringInv, OfferingInv, ReadyInv
<1>6. /\ \A u \in Users : made[u] = end[u].pc /\ made[u] \in AnyPc \cup {0} /\ made[u] \in Nat
      /\ AnyPc' = AnyPc
      /\ plan.lines \in Nat /\ 1 \in Users /\ 2 \in Users
      /\ opened \in [Users -> AnyPc \cup {0}] /\ slot \in [Users -> AnyPc \cup {0}]
      /\ said \in [Users -> 0 .. plan.lines] /\ sure \in [Users -> SUBSET (1 .. plan.lines)]
      /\ path \in [Users -> Seq(1 .. plan.lines)] /\ heard \in [Users -> Seq(1 .. plan.lines)]
  BY <1>0, <1>2, InvFacts, UserFacts, SamePlan DEF TypeOK
<1>7. /\ slot[1] = made[1] /\ (opened[2] = made[2] => slot[2] = made[2])
      /\ \A u \in Users : opened[u] <= made[u]
      /\ \A u \in Users : \A i \in sure[u] : Has(path[Other(u)], i) \/ Has(heard[Other(u)], i)
  BY <1>0 DEF ChatInv
<1>8. ChatTypes' /\ ChatInv'
  <2>1. CASE OpenChat
    <3>1. /\ opened' = [opened EXCEPT ![1] = made[1]]
          /\ slot' = slot /\ said' = said /\ path' = path /\ heard' = heard /\ sure' = sure
      BY <1>6, <2>1 DEF OpenChat
    <3>2. ChatTypes'
      BY <1>2, <1>6, <3>1 DEF ChatTypes
    <3>3. opened'[1] = made[1] /\ opened'[2] = opened[2] /\ made[1] <= made[1]
      BY <1>6, <3>1
    <3>4. \A u \in Users : opened'[u] <= made'[u]
      BY <1>2, <1>6, <1>7, <3>3, UserFacts
    <3> QED
      BY <1>2, <1>7, <3>1, <3>2, <3>3, <3>4 DEF ChatInv
  <2>2. CASE AcceptChat
    <3>1. /\ opened' = [opened EXCEPT ![2] = made[2]] /\ slot' = [slot EXCEPT ![2] = made[2]]
          /\ said' = said /\ path' = path /\ heard' = heard /\ sure' = sure
      BY <1>6, <2>2 DEF AcceptChat
    <3>2. ChatTypes'
      BY <1>2, <1>6, <3>1 DEF ChatTypes
    <3>3. /\ opened'[2] = made[2] /\ opened'[1] = opened[1] /\ made[2] <= made[2]
          /\ slot'[2] = made[2] /\ slot'[1] = slot[1]
      BY <1>6, <3>1
    <3>4. \A u \in Users : opened'[u] <= made'[u]
      BY <1>2, <1>6, <1>7, <3>3, UserFacts
    <3> QED
      BY <1>2, <1>7, <3>1, <3>2, <3>3, <3>4 DEF ChatInv
  <2>3. ASSUME NEW u \in Users, Say(u) PROVE ChatTypes' /\ ChatInv'
    <3> DEFINE w == Other(u)
               k == said[u] + 1
    <3>0. w \in Users /\ w # u /\ Other(w) = u /\ \A v \in Users : v = u \/ v = w
      BY <2>3, UserFacts
    <3>1. /\ said[u] < plan.lines /\ said' = [said EXCEPT ![u] = @ + 1]
          /\ path' = IF Linked /\ IsOpen(u) /\ slot[u] = end[u].pc
                     THEN [path EXCEPT ![w] = Append(@, said'[u])] ELSE path
          /\ sure' = IF Linked /\ IsOpen(1) /\ IsOpen(2)
                     THEN [sure EXCEPT ![u] = @ \cup {said'[u]}] ELSE sure
          /\ opened' = opened /\ slot' = slot /\ heard' = heard
      BY <2>3 DEF Say
    <3>2. /\ said' \in [Users -> 0 .. plan.lines] /\ said'[u] = k /\ k \in 1 .. plan.lines
      <4>1. said[u] \in 0 .. plan.lines /\ plan.lines \in Nat
        BY <1>6, <2>3
      <4>2. k \in 1 .. plan.lines /\ k \in 0 .. plan.lines
        <5>1. said[u] < plan.lines
          BY <3>1
        <5> QED
          BY <4>1, <5>1
      <4> HIDE DEF k
      <4>3. said' = [said EXCEPT ![u] = k]
        BY <3>1 DEF k
      <4> QED
        BY <1>6, <2>3, <4>2, <4>3
    <3> HIDE DEF w, k
    <3>3. path[w] \in Seq(1 .. plan.lines) /\ Append(path[w], k) \in Seq(1 .. plan.lines)
          /\ Has(Append(path[w], k), k)
          /\ \A x : Has(path[w], x) => Has(Append(path[w], k), x)
      <4>1. path[w] \in Seq(1 .. plan.lines)
        BY <1>6, <3>0
      <4>2. k \in 1 .. plan.lines
        BY <3>2
      <4> QED
        BY <4>1, <4>2, AppendFacts, HasAppended
    <3>4. path' \in [Users -> Seq(1 .. plan.lines)]
          /\ \A v \in Users : \A x : Has(path[v], x) => Has(path'[v], x)
      <4>1. CASE Linked /\ IsOpen(u) /\ slot[u] = end[u].pc
        <5>1. path' = [path EXCEPT ![w] = Append(path[w], k)]
          BY <3>1, <3>2, <4>1
        <5>2. path' \in [Users -> Seq(1 .. plan.lines)] /\ path'[w] = Append(path[w], k)
              /\ \A v \in Users : v # w => path'[v] = path[v]
          BY <1>6, <3>0, <3>3, <5>1
        <5> QED
          BY <3>3, <5>2
      <4>2. CASE ~ (Linked /\ IsOpen(u) /\ slot[u] = end[u].pc)
        <5>1. path' = path
          BY <3>1, <4>2
        <5> QED
          BY <1>6, <5>1
      <4> QED
        BY <4>1, <4>2
    <3>5. sure' \in [Users -> SUBSET (1 .. plan.lines)]
          /\ \A v \in Users : \A i \in sure'[v] : Has(path'[Other(v)], i) \/ Has(heard[Other(v)], i)
      <4>0. \A v \in Users : \A i \in sure[v] : Has(path'[Other(v)], i) \/ Has(heard[Other(v)], i)
        BY <1>7, <3>4, UserFacts
      <4>1. CASE Linked /\ IsOpen(1) /\ IsOpen(2)
        <5>1. sure' = [sure EXCEPT ![u] = @ \cup {k}]
          BY <3>1, <3>2, <4>1
        <5>2. sure' \in [Users -> SUBSET (1 .. plan.lines)]
              /\ sure'[u] = sure[u] \cup {k} /\ \A v \in Users : v # u => sure'[v] = sure[v]
          BY <1>6, <2>3, <3>2, <5>1
        <5>3. IsOpen(u) /\ slot[u] = end[u].pc
          BY <1>6, <1>7, <4>1, UserFacts DEF IsOpen
        <5>4. Has(path'[w], k)
          <6>1. path'[w] = Append(path[w], k)
            BY <1>6, <3>0, <3>1, <3>2, <4>1, <5>3
          <6> QED
            BY <3>3, <6>1
        <5> QED
          BY <4>0, <5>2, <5>4 DEF w
      <4>2. CASE ~ (Linked /\ IsOpen(1) /\ IsOpen(2))
        <5>1. sure' = sure
          BY <3>1, <4>2
        <5> QED
          BY <1>6, <4>0, <5>1
      <4> QED
        BY <4>1, <4>2
    <3>6. ChatTypes'
      BY <1>2, <1>6, <3>1, <3>2, <3>4, <3>5 DEF ChatTypes
    <3>7. ChatInv'
      BY <1>2, <1>7, <3>1, <3>5 DEF ChatInv
    <3> QED
      BY <3>6, <3>7
  <2>4. ASSUME NEW u \in Users, Hear(u) PROVE ChatTypes' /\ ChatInv'
    <3> DEFINE q == path[u]
    <3>1. /\ q # <<>> /\ heard' = [heard EXCEPT ![u] = Append(@, Head(q))]
          /\ path' = [path EXCEPT ![u] = Tail(q)]
          /\ opened' = opened /\ slot' = slot /\ said' = said /\ sure' = sure
      BY <2>4 DEF Hear
    <3>2. q \in Seq(1 .. plan.lines) /\ heard[u] \in Seq(1 .. plan.lines)
      BY <1>6, <2>4
    <3> HIDE DEF q
    <3>3. Tail(q) \in Seq(1 .. plan.lines) /\ Head(q) \in 1 .. plan.lines
          /\ \A x : Has(q, x) => x = Head(q) \/ Has(Tail(q), x)
      BY <3>1, <3>2, TailFacts, HasTail
    <3>4. Append(heard[u], Head(q)) \in Seq(1 .. plan.lines)
          /\ Has(Append(heard[u], Head(q)), Head(q))
          /\ \A x : Has(heard[u], x) => Has(Append(heard[u], Head(q)), x)
      BY <3>2, <3>3, AppendFacts, HasAppended
    <3>5. /\ path' \in [Users -> Seq(1 .. plan.lines)] /\ heard' \in [Users -> Seq(1 .. plan.lines)]
          /\ path'[u] = Tail(q) /\ heard'[u] = Append(heard[u], Head(q))
          /\ \A v \in Users : v # u => path'[v] = path[v] /\ heard'[v] = heard[v]
      BY <1>6, <2>4, <3>1, <3>3, <3>4
    <3>6. \A v \in Users : \A x : Has(path[v], x) \/ Has(heard[v], x)
                                      => Has(path'[v], x) \/ Has(heard'[v], x)
      <4>1. \A x : Has(path[u], x) \/ Has(heard[u], x) => Has(path'[u], x) \/ Has(heard'[u], x)
        BY <3>3, <3>4, <3>5 DEF q
      <4> QED
        BY <3>5, <4>1
    <3>7. ChatTypes'
      BY <1>2, <1>6, <3>1, <3>5 DEF ChatTypes
    <3>8. \A v \in Users : \A i \in sure'[v] : Has(path'[Other(v)], i) \/ Has(heard'[Other(v)], i)
      BY <1>7, <3>1, <3>6, UserFacts
    <3>9. ChatInv'
      BY <1>2, <1>7, <3>1, <3>8 DEF ChatInv
    <3> QED
      BY <3>7, <3>9
  <2> QED
    BY <2>1, <2>2, <2>3, <2>4 DEF Chats
<1> QED
  BY <1>3, <1>4, <1>5, <1>8, TypeParts, PTL DEF TrickleInv

-----------------------------------------------------------------------------
(* The theorems.                                                           *)

LEMMA TrickleInit ==
    ASSUME Init
    PROVE  TrickleInv
<1>1. /\ plan \in Plans /\ plan.rekeys \in Nat /\ plan.lines \in Nat
      /\ 1 \in Users /\ 2 \in Users
  BY PlanFacts, UserFacts DEF Init
<1>2. ~ RemoteSet(Absent) /\ Absent.pc = 0 /\ Absent.remote = 0 /\ ~ Absent.offered
  BY DEF RemoteSet, Absent
<1>3. /\ \A u \in Users : /\ end[u] = Absent /\ made[u] = 0 /\ known[u] = {} /\ pending[u] = {}
                          /\ reported[u] = {} /\ due[u] = <<>> /\ queue[u] = <<>>
                          /\ ~ seen[u] /\ opened[u] = 0 /\ slot[u] = 0 /\ sure[u] = {}
      /\ rekeys = 0 /\ ~ ready
  BY DEF Init
<1>4. TypeOK
  <2>1. EndTypes
    BY <1>1, <1>2 DEF Init, EndTypes
  <2>2. ChatTypes
    BY <1>1 DEF Init, ChatTypes
  <2>3. LoopTypes
    <3>1. due \in [Users -> Seq(Messages)] /\ queue \in [Users -> Seq(Messages)]
          /\ rekeys \in 0 .. plan.rekeys /\ early \subseteq AnyCandidate
      BY <1>1 DEF Init
    <3>2. seen \in [Users -> BOOLEAN] /\ ready \in BOOLEAN
      BY DEF Init
    <3> QED
      BY <3>1, <3>2 DEF LoopTypes
  <2> QED
    BY <2>1, <2>2, <2>3, TypeParts
<1>5. EndInv
  BY <1>1, <1>2, <1>3 DEF EndInv
<1>6. QueueInv
  BY <1>1, <1>2, <1>3 DEF QueueInv
<1>7. ReportInv /\ AnsweringInv /\ OfferingInv /\ ReadyInv
  BY <1>1, <1>3 DEF ReportInv, AnsweringInv, OfferingInv, ReadyInv
<1>8. ChatInv
  BY <1>1, <1>3 DEF ChatInv
<1> QED
  BY <1>4, <1>5, <1>6, <1>7, <1>8 DEF TrickleInv

LEMMA TrickleStep ==
    ASSUME TrickleInv, [Next]_vars
    PROVE  TrickleInv'
<1>0. TypeOK /\ EndInv /\ QueueInv
  BY DEF TrickleInv
<1>1. CASE See(1) \/ Rekey
  BY <1>0, <1>1, OffersFacts, OffersKeep
<1>2. CASE See(2)
  BY <1>0, <1>2, MeetsFacts, MeetsKeep
<1>3. CASE TakeOffer(2)
  BY <1>0, <1>3, AnswersFacts, AnswersKeep
<1>4. CASE TakeAnswer(1)
  BY <1>0, <1>4, AnsweredFacts, AnsweredKeep
<1>5. CASE TakeOffer(1) \/ TakeAnswer(2)
  BY <1>0, <1>5, NoOtherTakes
<1>6. ASSUME NEW u \in Users, TakeIce(u) PROVE TrickleInv'
  BY <1>6, TakeIceKeeps
<1>7. ASSUME NEW u \in Users, SendDue(u) PROVE TrickleInv'
  BY <1>7, SendDueKeeps
<1>8. ASSUME NEW u \in Users, Report(u) PROVE TrickleInv'
  BY <1>8, ReportKeeps
<1>9. CASE Chats
  BY <1>9, ChatsKeep
<1>10. CASE UNCHANGED vars
  <2>1. /\ UNCHANGED iceVars /\ UNCHANGED chatVars
    BY <1>10 DEF vars, iceVars
  <2>2. /\ plan' = plan /\ end' = end /\ pending' = pending /\ known' = known /\ made' = made
        /\ due' = due /\ reported' = reported /\ queue' = queue /\ seen' = seen
        /\ rekeys' = rekeys /\ early' = early /\ ready' = ready
        /\ opened' = opened /\ slot' = slot /\ said' = said /\ path' = path /\ heard' = heard
        /\ sure' = sure
    BY <2>1 DEF iceVars, chatVars
  <2>3. TypeOK'
    BY <1>0, <2>2, SamePlan DEF TypeOK
  <2>4. EndInv' /\ ReportInv' /\ ChatInv'
    BY <2>2 DEF TrickleInv, EndInv, ReportInv, ChatInv, Has
  <2>5. QueueInv'
    BY <1>0, <2>2 DEF QueueInv, IsOffer
  <2>6. AnsweringInv' /\ OfferingInv' /\ ReadyInv'
    BY <2>2 DEF TrickleInv, AnsweringInv, OfferingInv, ReadyInv, Reaches, Behind, IsOffer, Has
  <2> QED
    BY <2>3, <2>4, <2>5, <2>6 DEF TrickleInv
<1> QED
  BY <1>1, <1>2, <1>3, <1>4, <1>5, <1>6, <1>7, <1>8, <1>9, <1>10, UserFacts DEF Next, Chats

LEMMA TrickleInvariant == Spec => []TrickleInv
BY TrickleInit, TrickleStep, PTL DEF Spec

LEMMA CandidatesInv ==
    ASSUME TrickleInv
    PROVE  CandidatesGetThere
<1>0. /\ TypeOK /\ EndInv /\ QueueInv /\ ReportInv /\ AnsweringInv /\ OfferingInv /\ ReadyInv
  BY DEF TrickleInv
<1>1. SUFFICES ASSUME Complete
               PROVE  Missed(1) = {}
                      /\ Missed(2) \subseteq IF rekeys = 0 /\ ready THEN {} ELSE early
  BY DEF CandidatesGetThere
<1>2. /\ 1 \in Users /\ 2 \in Users /\ Other(1) = 2 /\ Other(2) = 1
      /\ made[1] = end[1].pc /\ made[2] = end[2].pc
      /\ \A u \in Users : /\ RemoteSet(end[u]) <=> end[u].remote # 0
                          /\ made[u] = 0 => end[u].remote = 0
      /\ \A u \in Users : IF RemoteSet(end[u]) THEN pending[u] = {} ELSE known[u] = {}
  BY <1>0, InvFacts, UserFacts DEF TypeOK
<1>3. /\ end[1].remote = made[2] /\ end[2].remote = made[1] /\ made[1] # 0 /\ made[2] # 0
  BY <1>1, <1>2 DEF Complete, Linked
<1>4. pending[1] = {} /\ pending[2] = {}
  BY <1>2, <1>3
<1>5. \A u \in Users : queue[u] = <<>> /\ CandidatesOf(made[u]) \subseteq reported[u]
  BY <1>1, <1>2, UserFacts DEF Complete
<1>6. /\ \A u \in Users : \A c : Reaches(c, u) => c \in known[u]
      /\ \A c : ~ Behind(c)
  <2>1. \A u \in Users : \A x : ~ Has(queue[u], x)
    BY <1>5 DEF Has
  <2>2. \A c : ~ Behind(c)
    BY <1>2, <1>5 DEF Behind
  <2>3. \A u \in Users : \A c : Reaches(c, u) => c \in known[u]
    BY <1>4, <2>1, UserFacts DEF Reaches
  <2> QED
    BY <2>2, <2>3
<1>7. \A n : \A c \in CandidatesOf(n) : c[1] = n
  BY DEF CandidatesOf
<1>8. Missed(1) = {}
  <2>1. ASSUME NEW c \in CandidatesOf(made[2]) PROVE c \in known[1]
    <3>1. c \in reported[2] /\ c[1] = made[2]
      BY <1>2, <1>5, <1>7, <2>1
    <3> QED
      BY <1>0, <1>2, <1>3, <1>6, <3>1 DEF AnsweringInv
  <2> QED
    BY <1>2, <2>1 DEF Missed
<1>9. ASSUME NEW c \in Missed(2) PROVE c \in early /\ ~ (rekeys = 0 /\ ready)
  <2>1. c \in CandidatesOf(made[1]) /\ c \notin known[2]
    BY <1>2, <1>9 DEF Missed
  <2>2. c \in reported[1] /\ c[1] = made[1]
    BY <1>2, <1>5, <1>7, <2>1
  <2>3. c \in early
    BY <1>0, <1>2, <1>6, <2>1, <2>2 DEF OfferingInv
  <2>4. ~ (rekeys = 0 /\ ready)
    BY <1>0, <1>2, <1>6, <2>1, <2>2 DEF ReadyInv
  <2> QED
    BY <2>3, <2>4
<1> QED
  BY <1>8, <1>9

\* Every variable has its type, and candidates wait exactly at the ends that have
\* no remote description: add_or_queue_ice and flush_ice agree (mesh.rs:40-57).
THEOREM TrickleTypeTheorem == Spec => []TypeOK
BY TrickleInvariant, PTL DEF TrickleInv

\* Once all was reported and has arrived, the offering end knows every candidate of
\* the other one, and the answering end all but those that overtook their offer;
\* on a first link it was ready for, those as well (mesh.rs:40-57, 216-248).
THEOREM CandidatesTheorem == Spec => []CandidatesGetThere
BY TrickleInvariant, CandidatesInv, PTL

\* A line said on a link that is open at both ends and is there still was heard or
\* is on its way: the slot holds the channel of the PeerConnection there is
\* (mesh.rs:60-74, 168-180, 204-208, 297-310).
THEOREM LinesTheorem == Spec => []LinesAreHeard
<1>1. TrickleInv => LinesAreHeard
  <2>1. SUFFICES ASSUME TrickleInv, NEW u \in Users, path[Other(u)] = <<>>, NEW i \in sure[u]
                 PROVE  \E j \in DOMAIN heard[Other(u)] : heard[Other(u)][j] = i
    BY DEF LinesAreHeard
  <2>2. Has(path[Other(u)], i) \/ Has(heard[Other(u)], i)
    BY <2>1 DEF TrickleInv, ChatInv
  <2> QED
    BY <2>1, <2>2 DEF Has
<1> QED
  BY <1>1, TrickleInvariant, PTL
=============================================================================
