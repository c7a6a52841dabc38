------------------------------ MODULE MCSquad ------------------------------
(* Instances of Squad for TLC: users are 1, 2 and 3, in this order.        *)
EXTENDS Squad

Pair == {1, 2}
Trio == {1, 2, 3}

\* The least that happens: two users who stay, on one socket each.
Calm == [members |-> Pair, droppers |-> {}, quitters |-> {}, sockets |-> 1, rekeys |-> 0,
         talks |-> 0,
         patient |-> {"rekey", "break", "leave"}, prompt |-> TRUE]

\* Three users, one of whom may leave, and a rekey.
Orderly == [Calm EXCEPT !.members = Trio, !.quitters = {1}, !.rekeys = 1]
\* Two users, one of whom comes back, twice, and who rekey and leave.
Returning == [Calm EXCEPT !.droppers = {2}, !.quitters = Pair, !.sockets = 3, !.rekeys = 2]
\* Sockets break at any time, and the user may be back before it is noticed.
Rough == [Calm EXCEPT !.droppers = {2}, !.sockets = 3, !.rekeys = 1,
                      !.patient = {"rekey"}, !.prompt = FALSE]

\* Two users, one of whom comes back, and push-to-talk.
Talking == [Calm EXCEPT !.droppers = {2}, !.sockets = 2, !.talks = 2, !.patient = {}]

Links   == {Orderly, Returning}
Repairs == {Rough, Talking}
\* The environments of the claims that do not hold.
Loss    == {[Calm EXCEPT !.droppers = {2}, !.sockets = 2]}
Resume  == {[Calm EXCEPT !.droppers = Pair, !.sockets = 2, !.prompt = FALSE]}
Orphan  == {[Calm EXCEPT !.droppers = {2}, !.quitters = Pair, !.sockets = 2]}
Hasty   == {[Calm EXCEPT !.rekeys = 1, !.patient = {}]}
Rekeyed == {[Calm EXCEPT !.rekeys = 1]}
Turned  == {Calm}
Unshown == {[Talking EXCEPT !.talks = 1]}
Ghost   == {[Calm EXCEPT !.quitters = Pair]}

=============================================================================
