---------------------------- MODULE RateLimiter ----------------------------
(***************************************************************************)
(* The per-IP limiter of server/init/src/main.rs: a map from IP to the     *)
(* start of its window and the requests counted in it, shared by session   *)
(* creation and session join, and pruned by the sweep.                     *)
(*                                                                         *)
(* `allow` and `prune` read the clock before they take the lock, so what   *)
(* they do under the lock may rest on a reading that other calls have      *)
(* overtaken: reading and locked block are separate actions.  The clock is *)
(* taken to move forward only, though SystemTime may be set back.          *)
(***************************************************************************)
EXTENDS Integers, FiniteSets

CONSTANTS
    Ips,        \* callers
    Workers,    \* runtime threads that serve requests
    CreateMax,  \* RL_CREATE_MAX
    JoinMax,    \* RL_JOIN_MAX
    Window,     \* RL_WINDOW
    MaxDelay,   \* bound: how old a reading can be when the lock is taken
    MaxTime,    \* bound: how far the clock runs
    MaxCount    \* bound: requests an IP makes in one window

ASSUME LimitAssumption == CreateMax \in Nat /\ JoinMax \in Nat
ASSUME WindowAssumption == Window \in Nat \ {0} /\ MaxDelay \in Nat

VARIABLES
    now,        \* now_secs()
    inner,      \* RateLimiter.inner: IP -> (window start, count), or None
    call,       \* worker -> the call of `allow` it is in, or Idle
    sweep,      \* the reading of the call of `prune` under way, or NotSweeping
    verdict,    \* the last answer of `allow`
    admitted    \* history: the requests allowed

vars == <<now, inner, call, sweep, verdict, admitted>>

None        == [start |-> 0, count |-> 0]   \* no entry: a stored count is positive
Idle        == [ip |-> "none", kind |-> "none", at |-> 0]
NotSweeping == -1

Kinds == {"create", "join"}

\* The limit that create_session and join_session pass.
Max(kind) == IF kind = "create" THEN CreateMax ELSE JoinMax

Init ==
    /\ now = 0
    /\ inner = [ip \in Ips |-> None]
    /\ call = [w \in Workers |-> Idle]
    /\ sweep = NotSweeping
    /\ verdict = [ip |-> "none", max |-> 0, allowed |-> FALSE]
    /\ admitted = {}

\* now.saturating_sub(start)
Age(t, start) == IF t >= start THEN t - start ELSE 0

\* Seeded fault: a new window keeps the old one's start.
EntryRestarted(e, t) == IF e = None THEN [start |-> t, count |-> 0]
                        ELSE IF Age(t, e.start) >= Window
                             THEN [start |-> e.start, count |-> 0]
                             ELSE e

\* The entry a call that read t counts in: a fresh one if there is none or its
\* window is over, otherwise the stored one.
Entry(e, t) == IF e = None \/ Age(t, e.start) >= Window
               THEN [start |-> t, count |-> 0]
               ELSE e

\* create_session or join_session calls allow, which reads the clock.
Arrive(w, ip, kind) ==
    /\ call[w] = Idle
    /\ call' = [call EXCEPT ![w] = [ip |-> ip, kind |-> kind, at |-> now]]
    /\ UNCHANGED <<now, inner, sweep, verdict, admitted>>

\* The entry after a call is counted in it.
Counted(c) == [Entry(inner[c.ip], c.at) EXCEPT !.count = @ + 1]

\* The locked block of allow.
Count(w) ==
    LET c == call[w]
        e == Counted(c)
    IN  /\ c # Idle
        /\ e.count <= MaxCount
        /\ inner' = [inner EXCEPT ![c.ip] = e]
        /\ verdict' = [ip |-> c.ip, max |-> Max(c.kind), allowed |-> e.count <= Max(c.kind)]
        /\ admitted' = IF e.count <= Max(c.kind)
                       THEN admitted \cup {[ip |-> c.ip, kind |-> c.kind, at |-> c.at,
                                            start |-> e.start, rank |-> e.count]}
                       ELSE admitted
        /\ call' = [call EXCEPT ![w] = Idle]
        /\ UNCHANGED <<now, sweep>>

\* Seeded fault: the sweep keeps only windows of the current second.
ExpiredEarly(e, t) == Age(t, e.start) > 0

\* What prune does not retain.
Expired(e, t) == Age(t, e.start) >= Window

\* prune reads the clock ...
SweepBegins ==
    /\ sweep = NotSweeping
    /\ sweep' = now
    /\ UNCHANGED <<now, inner, call, verdict, admitted>>

\* ... and drops the entries whose window is over.
Prune ==
    /\ sweep # NotSweeping
    /\ inner' = [ip \in Ips |-> IF Expired(inner[ip], sweep) THEN None ELSE inner[ip]]
    /\ sweep' = NotSweeping
    /\ UNCHANGED <<now, call, verdict, admitted>>

\* Time passes; no call waits for the lock longer than MaxDelay.
Tick ==
    /\ now < MaxTime
    /\ \A w \in Workers : call[w] # Idle => now - call[w].at < MaxDelay
    /\ sweep # NotSweeping => now - sweep < MaxDelay
    /\ now' = now + 1
    /\ UNCHANGED <<inner, call, sweep, verdict, admitted>>

Next == \/ \E w \in Workers, ip \in Ips, kind \in Kinds : Arrive(w, ip, kind)
        \/ \E w \in Workers : Count(w)
        \/ SweepBegins
        \/ Prune
        \/ Tick

Spec == Init /\ [][Next]_vars

\* A worker that has begun a call finishes it.
FairSpec == Spec /\ \A w \in Workers : WF_vars(Count(w))

-----------------------------------------------------------------------------
(* Properties.                                                             *)

Stored  == [start : Nat, count : Nat \ {0}] \cup {None}
Calls   == [ip : Ips, kind : Kinds, at : Nat] \cup {Idle}

\* Every variable has its type, and no reading is ahead of the clock
\* (main.rs:95-98).
TypeOK ==
    /\ now \in Nat
    /\ inner \in [Ips -> Stored]
    /\ \A ip \in Ips : inner[ip].start <= now
    /\ call \in [Workers -> Calls]
    /\ \A w \in Workers : call[w].at <= now
    /\ sweep \in Nat \cup {NotSweeping}
    /\ sweep <= now

\* A caller is admitted at most twice as often as a limit says, at the end of
\* one window and the start of the next, within any stretch of a window's
\* length; pruning and calls that counted late shorten the stretch of which
\* this is true by twice the longest wait for the lock (main.rs:101-114).
AtMostTwice ==
    \A ip \in Ips, kind \in Kinds, t \in 0 .. now :
        Cardinality({a \in admitted : /\ a.ip = ip
                                      /\ a.kind = kind
                                      /\ a.at >= t
                                      /\ a.at <= t + Window - 2 * MaxDelay})
            <= 2 * Max(kind)

\* Pruning and the interleaving of calls cannot be told from a limiter that
\* closes a window the moment it is over, when no call waits for the lock
\* across a tick of the clock (main.rs:101-114, 225).
Open(ip) == inner[ip] # None /\ now - inner[ip].start < Window
Limiter == INSTANCE FixedWindow WITH
    Limits <- {CreateMax, JoinMax},
    used   <- [ip \in Ips |-> IF Open(ip) THEN inner[ip].count ELSE 0],
    opened <- [ip \in Ips |-> IF Open(ip) THEN inner[ip].start ELSE 0]
ImplementsFixedWindow == Limiter!Spec

(* Claims of the documentation that the code does not keep.                *)

\* "RL_CREATE_MAX ... session creations per IP per window" (main.rs:93): a
\* caller that is refused a session has created as many as it may.
Creations(ip) == {a \in admitted : a.ip = ip /\ a.kind = "create" /\ a.at > now - Window}
CreateRefusedAtLimit ==
    [][\A ip \in Ips :
         (verdict' # verdict /\ verdict'.ip = ip /\ verdict'.max = CreateMax /\ ~ verdict'.allowed)
            => Cardinality(Creations(ip)) >= CreateMax]_vars

=============================================================================
