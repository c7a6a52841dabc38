----------------------------- MODULE MCTrickle -----------------------------
(* The instances of Trickle that are model-checked.                        *)
EXTENDS Trickle

\* Candidates over two rekeys; and lines over two rekeys.
Ice  == [candidates |-> {1}, rekeys |-> 2, lines |-> 0]
Chat == [candidates |-> {},  rekeys |-> 2, lines |-> 2]

Both == {Ice, Chat}
============================================================================
