----------------------------- MODULE MCAudioRig -----------------------------
(* Instances of AudioRig for TLC: one peer beside the self-check; a device *)
(* pair that is slower in and faster out than the codec, and the reverse.  *)
EXTENDS AudioRig

CONSTANTS p

Slower == {[in |-> 75, out |-> 50]}
Small  == {1, 3}

ASSUME SampleBySample(1..5, 4)

=============================================================================
