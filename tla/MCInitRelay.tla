---------------------------- MODULE MCInitRelay ----------------------------
(* Instances of InitRelay for TLC.                                         *)
EXTENDS InitRelay, TLC

CONSTANTS c1, c2, c3, c4, u1, u2, u3, r1, r2

\* Any client may use any user_id.
AnyClaim == [c \in Conns |-> Users]

\* A client with two sockets, and another one.
TwoClients == [c \in Conns |-> IF c = c3 THEN {u2} ELSE {u1}]

\* Sockets, users and rooms are interchangeable: the specification names none.
Interchangeable == Permutations(Conns) \cup Permutations(Users) \cup Permutations(Rooms)

=============================================================================
