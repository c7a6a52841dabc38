----------------------------- MODULE MCSessions -----------------------------
(* Instances of Sessions for TLC.                                          *)
EXTENDS Sessions, TLC

CONSTANTS k1, k2

SymCodes == Permutations(Codes)

=============================================================================
