---------------------------- MODULE FixedWindow ----------------------------
(***************************************************************************)
(* What a fixed-window limiter promises to one caller per request, without *)
(* saying how it stores it: a window opens at the first request after the  *)
(* previous one closed, closes when it is `window` old, and each request   *)
(* made in it is answered by its rank.                                     *)
(***************************************************************************)
EXTENDS Naturals

CONSTANTS
    Ips,      \* callers
    Limits,   \* the limits a request may come with
    Window    \* how long a window stays open

VARIABLES
    now,      \* the clock
    used,     \* caller -> requests made in its open window, 0 if none is open
    opened,   \* caller -> when its open window was opened
    verdict   \* the last answer: who asked, under which limit, and the answer

vars == <<now, used, opened, verdict>>

NoVerdict == [ip |-> "none", max |-> 0, allowed |-> FALSE]

Init ==
    /\ now = 0
    /\ used = [ip \in Ips |-> 0]
    /\ opened = [ip \in Ips |-> 0]
    /\ verdict = NoVerdict

\* Requests are answered by their rank in the caller's window, whatever limit
\* the earlier ones came with.
Request(ip, max) ==
    /\ used' = [used EXCEPT ![ip] = @ + 1]
    /\ opened' = [opened EXCEPT ![ip] = IF used[ip] = 0 THEN now ELSE @]
    /\ verdict' = [ip |-> ip, max |-> max, allowed |-> used[ip] + 1 <= max]
    /\ UNCHANGED now

\* Time passes, and closes the windows that have become old.
Tick ==
    /\ now' = now + 1
    /\ LET closes(ip) == used[ip] > 0 /\ now' - opened[ip] >= Window
       IN  /\ used' = [ip \in Ips |-> IF closes(ip) THEN 0 ELSE used[ip]]
           /\ opened' = [ip \in Ips |-> IF closes(ip) THEN 0 ELSE opened[ip]]
    /\ UNCHANGED verdict

Next == Tick \/ \E ip \in Ips, max \in Limits : Request(ip, max)

Spec == Init /\ [][Next]_vars

=============================================================================
