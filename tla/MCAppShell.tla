----------------------------- MODULE MCAppShell -----------------------------
(* Instances of AppShell for TLC.                                          *)
EXTENDS AppShell, TLC

CONSTANTS F8, Mouse4

=============================================================================
