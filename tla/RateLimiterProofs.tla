------------------------- MODULE RateLimiterProofs -------------------------
(* What holds of the limiter for any callers, limits and window.           *)
EXTENDS RateLimiter, FiniteSetTheorems, TLAPS

LEMMA TypeInit == Init => TypeOK
BY DEF Init, TypeOK, Stored, Calls, None, Idle, NotSweeping

LEMMA TypeStep == TypeOK /\ [Next]_vars => TypeOK'
<1> SUFFICES ASSUME TypeOK, [Next]_vars PROVE TypeOK'
  OBVIOUS
<1> USE DEF NotSweeping
<1>1. ASSUME NEW w \in Workers, NEW ip \in Ips, NEW kind \in Kinds, Arrive(w, ip, kind)
      PROVE  TypeOK'
  BY <1>1 DEF TypeOK, Arrive, Calls
<1>2. ASSUME NEW w \in Workers, Count(w) PROVE TypeOK'
  <2>1. /\ call[w] \in [ip : Ips, kind : Kinds, at : Nat]
        /\ call[w].at <= now
    BY <1>2 DEF TypeOK, Calls, Count
  <2>2. inner[call[w].ip] \in Stored /\ inner[call[w].ip].start <= now
    BY <2>1 DEF TypeOK
  <2>3. Counted(call[w]) \in [start : Nat, count : Nat \ {0}] /\ Counted(call[w]).start <= now
    BY <2>1, <2>2 DEF Counted, Entry, Stored, None
  <2>4. inner' = [inner EXCEPT ![call[w].ip] = Counted(call[w])]
    BY <1>2 DEF Count
  <2>5. inner' \in [Ips -> Stored] /\ \A ip \in Ips : inner'[ip].start <= now
    BY <2>3, <2>4 DEF TypeOK, Stored
  <2>6. Idle.at = 0 /\ Idle \in Calls
    BY DEF Idle, Calls
  <2>7. call' \in [Workers -> Calls] /\ \A v \in Workers : call'[v].at <= now
    BY <1>2, <2>6 DEF Count, TypeOK
  <2> QED
    BY <1>2, <2>5, <2>7 DEF Count, TypeOK
<1>3. ASSUME SweepBegins PROVE TypeOK'
  BY <1>3 DEF TypeOK, SweepBegins
<1>4. ASSUME Prune PROVE TypeOK'
  BY <1>4 DEF TypeOK, Prune, Stored, None
<1>5. ASSUME Tick PROVE TypeOK'
  BY <1>5 DEF TypeOK, Tick, Stored, Calls, Idle, None
<1>6. ASSUME UNCHANGED vars PROVE TypeOK'
  BY <1>6 DEF TypeOK, vars
<1> QED
  BY <1>1, <1>2, <1>3, <1>4, <1>5, <1>6 DEF Next

\* Types are kept, and no window starts later than the clock reads: the
\* saturating subtraction of `allow` and `prune` never saturates on a stored
\* start alone (main.rs:105, 113).
THEOREM LimiterTypeTheorem == Spec => []TypeOK
BY TypeInit, TypeStep, PTL DEF Spec

-----------------------------------------------------------------------------
(* Without waits for the lock, the limiter is a FixedWindow.               *)

\* When no call waits across a tick, what is read is the present.
Punctual == /\ \A w \in Workers : call[w] # Idle => call[w].at = now
            /\ sweep # NotSweeping => sweep = now

LEMMA PunctualStep ==
  ASSUME MaxDelay = 0
  PROVE  TypeOK /\ Punctual /\ [Next]_vars => Punctual'
<1> SUFFICES ASSUME TypeOK, Punctual, [Next]_vars PROVE Punctual'
  OBVIOUS
<1>1. ASSUME NEW w \in Workers, NEW ip \in Ips, NEW kind \in Kinds, Arrive(w, ip, kind)
      PROVE  Punctual'
  BY <1>1 DEF TypeOK, Punctual, Arrive
<1>2. ASSUME NEW w \in Workers, Count(w) PROVE Punctual'
  BY <1>2 DEF TypeOK, Punctual, Count
<1>3. ASSUME SweepBegins \/ Prune PROVE Punctual'
  BY <1>3 DEF TypeOK, Punctual, SweepBegins, Prune
<1>4. ASSUME Tick PROVE Punctual'
  <2>1. \A w \in Workers : call[w] = Idle
    BY <1>4 DEF Tick, Punctual, TypeOK
  <2>2. sweep = NotSweeping
    BY <1>4 DEF Tick, Punctual, TypeOK
  <2> QED
    BY <1>4, <2>1, <2>2 DEF Tick, Punctual
<1>5. ASSUME UNCHANGED vars PROVE Punctual'
  BY <1>5 DEF Punctual, vars
<1> QED
  BY <1>1, <1>2, <1>3, <1>4, <1>5 DEF Next

\* The state of the FixedWindow that a state of the limiter stands for.
Used(ip)   == IF Open(ip) THEN inner[ip].count ELSE 0
Opened(ip) == IF Open(ip) THEN inner[ip].start ELSE 0

LEMMA InitRefines == Init => Limiter!Init
BY DEF Init, Limiter!Init, Open, None, Limiter!NoVerdict

LEMMA CountRefines ==
  ASSUME TypeOK, Punctual, NEW w \in Workers, Count(w)
  PROVE  \E ip \in Ips, max \in {CreateMax, JoinMax} : Limiter!Request(ip, max)
<1> DEFINE c == call[w]
           e == Counted(c)
<1>1. c.ip \in Ips /\ c.kind \in Kinds /\ c.at = now /\ now \in Nat
  BY DEF TypeOK, Calls, Count, Punctual
<1>2. inner[c.ip] \in Stored /\ inner[c.ip].start <= now
  BY <1>1 DEF TypeOK
<1>3. /\ inner' = [inner EXCEPT ![c.ip] = e]
      /\ verdict' = [ip |-> c.ip, max |-> Max(c.kind), allowed |-> e.count <= Max(c.kind)]
      /\ now' = now
  BY DEF Count
<1>4. Max(c.kind) \in {CreateMax, JoinMax}
  BY DEF Max
<1>5. /\ e.count = Used(c.ip) + 1
      /\ e.start = IF Used(c.ip) = 0 THEN now ELSE Opened(c.ip)
      /\ e.count \in Nat \ {0} /\ e.start \in Nat /\ now - e.start < Window
  <2>1. CASE Open(c.ip)
    <3>1. /\ inner[c.ip] \in [start : Nat, count : Nat \ {0}]
          /\ inner[c.ip] # None
          /\ now - inner[c.ip].start < Window
      BY <1>2, <2>1 DEF Open, Stored
    <3>2. Age(c.at, inner[c.ip].start) = now - inner[c.ip].start
      BY <1>1, <1>2 DEF Age
    <3>3. Entry(inner[c.ip], c.at) = inner[c.ip]
      <4>1. ~ (Age(c.at, inner[c.ip].start) >= Window)
        BY <1>1, <3>1, <3>2, WindowAssumption
      <4> QED
        BY <3>1, <4>1 DEF Entry
    <3>4. e = [inner[c.ip] EXCEPT !.count = @ + 1]
      BY <3>3 DEF Counted
    <3>5. e.count = inner[c.ip].count + 1 /\ e.start = inner[c.ip].start
      BY <3>1, <3>4
    <3>6. Used(c.ip) = inner[c.ip].count /\ Opened(c.ip) = inner[c.ip].start
      BY <2>1 DEF Used, Opened
    <3> QED
      BY <3>1, <3>5, <3>6
  <2>2. CASE ~ Open(c.ip)
    <3>1. Entry(inner[c.ip], c.at) = [start |-> now, count |-> 0]
      BY <1>1, <1>2, <2>2, WindowAssumption DEF Entry, Age, Open, Stored, None
    <3>2. e = [start |-> now, count |-> 1]
      BY <3>1 DEF Counted
    <3>3. Used(c.ip) = 0
      BY <2>2 DEF Used
    <3> QED
      BY <1>1, <3>2, <3>3, WindowAssumption
  <2> QED
    BY <2>1, <2>2
<1>6. e # None
  BY <1>5 DEF None
<1>p. PICK p \in Ips : p = c.ip
  BY <1>1
<1>7. inner'[p] = e /\ \A ip \in Ips \ {p} : inner'[ip] = inner[ip]
  BY <1>1, <1>3, <1>p DEF TypeOK
<1>8. Open(p)' /\ \A ip \in Ips \ {p} : Open(ip)' = Open(ip)
  <2>1. now' - inner'[p].start < Window /\ inner'[p] # None
    BY <1>3, <1>5, <1>6, <1>7, <1>p
  <2> QED
    BY <1>3, <1>7, <2>1 DEF Open
<1>9. /\ Used(p)' = e.count
      /\ Opened(p)' = e.start
      /\ \A ip \in Ips \ {p} : Used(ip)' = Used(ip) /\ Opened(ip)' = Opened(ip)
  BY <1>7, <1>8 DEF Used, Opened
<1>10. /\ [ip \in Ips |-> Used(ip)]' = [[ip \in Ips |-> Used(ip)] EXCEPT ![p] = @ + 1]
       /\ [ip \in Ips |-> Opened(ip)]' =
            [[ip \in Ips |-> Opened(ip)] EXCEPT ![p] =
               IF [ip \in Ips |-> Used(ip)][p] = 0 THEN now ELSE @]
  <2>1. /\ Used(p)' = Used(p) + 1
        /\ Opened(p)' = IF Used(p) = 0 THEN now ELSE Opened(p)
    BY <1>5, <1>9, <1>p
  <2> QED
    BY <1>9, <2>1
<1>11. verdict' = [ip |-> p, max |-> Max(c.kind),
                  allowed |-> [ip \in Ips |-> Used(ip)][p] + 1 <= Max(c.kind)]
  BY <1>1, <1>3, <1>5, <1>p
<1>m. PICK max \in {CreateMax, JoinMax} : max = Max(c.kind)
  BY <1>4
<1>12. Limiter!Request(p, max)
  BY <1>3, <1>10, <1>11, <1>m DEF Limiter!Request, Used, Opened
<1> QED
  BY <1>12

LEMMA TickRefines ==
  ASSUME TypeOK, Tick
  PROVE  Limiter!Tick
<1>1. now' = now + 1 /\ now \in Nat /\ inner' = inner /\ verdict' = verdict
  BY DEF Tick, TypeOK
<1>2. ASSUME NEW ip \in Ips
      PROVE  LET closes == Used(ip) > 0 /\ now' - Opened(ip) >= Window
             IN  /\ Used(ip)' = IF closes THEN 0 ELSE Used(ip)
                 /\ Opened(ip)' = IF closes THEN 0 ELSE Opened(ip)
  <2>1. inner[ip] \in Stored
    BY DEF TypeOK
  <2>2. CASE inner[ip] = None
    BY <1>1, <2>2 DEF Used, Opened, Open
  <2>3. CASE inner[ip] # None
    <3>1. inner[ip].start \in Nat /\ inner[ip].count \in Nat \ {0}
      BY <2>1, <2>3 DEF Stored
    <3> QED
      BY <1>1, <2>3, <3>1, WindowAssumption DEF Used, Opened, Open
  <2> QED
    BY <2>2, <2>3
<1> QED
  BY <1>1, <1>2 DEF Limiter!Tick, Used, Opened

\* What the sweep drops is what no call would have counted in.
LEMMA PruneRefines ==
  ASSUME TypeOK, Punctual, Prune
  PROVE  UNCHANGED <<now, [ip \in Ips |-> Used(ip)], [ip \in Ips |-> Opened(ip)], verdict>>
<1>1. sweep = now /\ now \in Nat /\ UNCHANGED <<now, verdict>>
  BY DEF Prune, Punctual, TypeOK
<1>2. ASSUME NEW ip \in Ips PROVE Used(ip)' = Used(ip) /\ Opened(ip)' = Opened(ip)
  <2>1. inner[ip] \in Stored /\ inner[ip].start <= now
    BY DEF TypeOK
  <2>2. inner'[ip] = IF Expired(inner[ip], sweep) THEN None ELSE inner[ip]
    BY DEF Prune
  <2>3. CASE ~ Expired(inner[ip], sweep)
    BY <1>1, <2>2, <2>3 DEF Used, Opened, Open
  <2>4. CASE Expired(inner[ip], sweep)
    <3>1. ~ Open(ip) /\ ~ Open(ip)'
      BY <1>1, <2>1, <2>2, <2>4, WindowAssumption DEF Open, Expired, Age, Stored, None
    <3> QED
      BY <3>1 DEF Used, Opened
  <2> QED
    BY <2>3, <2>4
<1> QED
  BY <1>1, <1>2

LEMMA NextRefines ==
  ASSUME TypeOK, Punctual, [Next]_vars
  PROVE  [Limiter!Next]_(Limiter!vars)
<1>1. ASSUME NEW w \in Workers, NEW ip \in Ips, NEW kind \in Kinds, Arrive(w, ip, kind)
      PROVE  UNCHANGED Limiter!vars
  BY <1>1 DEF Arrive, Limiter!vars, Open
<1>2. ASSUME NEW w \in Workers, Count(w) PROVE Limiter!Next
  BY <1>2, CountRefines DEF Limiter!Next
<1>3. ASSUME SweepBegins PROVE UNCHANGED Limiter!vars
  BY <1>3 DEF SweepBegins, Limiter!vars, Open
<1>4. ASSUME Prune PROVE UNCHANGED Limiter!vars
  BY <1>4, PruneRefines DEF Limiter!vars, Used, Opened
<1>5. ASSUME Tick PROVE Limiter!Next
  BY <1>5, TickRefines DEF Limiter!Next
<1>6. ASSUME UNCHANGED vars PROVE UNCHANGED Limiter!vars
  BY <1>6 DEF vars, Limiter!vars, Open
<1> QED
  BY <1>1, <1>2, <1>3, <1>4, <1>5, <1>6 DEF Next

\* If no call waits for the lock across a tick of the clock, then for any
\* callers, limits and window the stored, shared and pruned map answers every
\* request as a limiter that closes each window the moment it is over
\* (main.rs:101-114).
THEOREM LimiterRefinement ==
  ASSUME MaxDelay = 0
  PROVE  Spec => ImplementsFixedWindow
<1> DEFINE Inv == TypeOK /\ Punctual
<1>1. Init => Inv
  BY TypeInit DEF Init, Punctual
<1>2. Inv /\ [Next]_vars => Inv'
  BY TypeStep, PunctualStep
<1>3. Init => Limiter!Init
  BY InitRefines
<1>4. Inv /\ [Next]_vars => [Limiter!Next]_(Limiter!vars)
  BY NextRefines
<1> QED
  BY <1>1, <1>2, <1>3, <1>4, PTL DEF Spec, ImplementsFixedWindow, Limiter!Spec

-----------------------------------------------------------------------------
(* However long calls wait for the lock, nobody gets through more than     *)
(* twice as often as a limit says in a window's length.                    *)

\* No reading is older than the longest wait.
Prompt == \A w \in Workers : call[w] # Idle => now - call[w].at <= MaxDelay

\* A request was counted within its window, and not beyond its limit.
Fits(a) == /\ a.ip \in Ips /\ a.kind \in Kinds
           /\ a.at \in Nat /\ a.start \in Nat /\ a.rank \in 1 .. Max(a.kind)
           /\ a.at < a.start + Window

\* Its window is the one that is stored, or was over before this one began, as
\* far as a reading can tell.
Current(a) == /\ inner[a.ip] # None
              /\ a.start = inner[a.ip].start /\ a.rank <= inner[a.ip].count
Past(a)    == /\ a.start + Window <= now
              /\ inner[a.ip] # None => a.start + Window <= inner[a.ip].start + MaxDelay

\* Two requests are counted one after the other in a window, or the later one's
\* window begins, and it was read, when the other one's was over but for a wait.
Before(a, b)   == /\ a.start + Window <= b.start + MaxDelay
                  /\ a.start + Window <= b.at + MaxDelay
Together(a, b) == a.start = b.start /\ (a.rank = b.rank => a = b)
Apart(a, b)    == Together(a, b) \/ Before(a, b) \/ Before(b, a)

Admissions == /\ \A a \in admitted : Fits(a) /\ (Current(a) \/ Past(a))
              /\ \A a, b \in admitted : a.ip = b.ip => Apart(a, b)

\* What the locked block of allow makes of an entry.
LEMMA CountedEntry ==
  ASSUME TypeOK, Prompt, NEW w \in Workers, Count(w)
  PROVE  LET c == call[w]
             o == inner[c.ip]
             e == Counted(c)
         IN  /\ c.ip \in Ips /\ c.kind \in Kinds /\ c.at \in Nat /\ now \in Nat
             /\ c.at <= now /\ now <= c.at + MaxDelay
             /\ o \in Stored
             /\ e \in [start : Nat, count : Nat \ {0}] /\ e # None
             /\ c.at < e.start + Window
             /\ \/ /\ o # None
                   /\ e.start = o.start /\ e.count = o.count + 1
                \/ /\ o # None => o.start + Window <= c.at
                   /\ e.start = c.at /\ e.count = 1
<1> DEFINE c == call[w]
           o == inner[c.ip]
           e == Counted(c)
<1>1. c.ip \in Ips /\ c.kind \in Kinds /\ c.at \in Nat /\ c.at <= now /\ now \in Nat
  BY DEF TypeOK, Calls, Count
<1>2. now <= c.at + MaxDelay
  BY <1>1, WindowAssumption DEF Prompt, Count
<1>3. o \in Stored
  BY <1>1 DEF TypeOK
<1>4. CASE o = None \/ Age(c.at, o.start) >= Window
  <2>1. e = [start |-> c.at, count |-> 1]
    BY <1>4 DEF Counted, Entry
  <2>2. o # None => o.start + Window <= c.at
    BY <1>1, <1>3, <1>4, WindowAssumption DEF Age, Stored
  <2>3. e \in [start : Nat, count : Nat \ {0}] /\ e # None /\ e.start = c.at /\ e.count = 1
    BY <1>1, <2>1 DEF None
  <2>4. c.at < e.start + Window
    BY <1>1, <2>3, WindowAssumption
  <2> QED
    BY <1>1, <1>2, <1>3, <2>2, <2>3, <2>4
<1>5. CASE o # None /\ Age(c.at, o.start) < Window
  <2>1. o \in [start : Nat, count : Nat \ {0}]
    BY <1>3, <1>5 DEF Stored
  <2>2. Entry(o, c.at) = o
    BY <1>1, <1>5, <2>1, WindowAssumption DEF Entry, Age
  <2>3. e = [o EXCEPT !.count = o.count + 1]
    BY <2>2 DEF Counted
  <2>4. e.start = o.start /\ e.count = o.count + 1
    BY <2>1, <2>3
  <2>5. e \in [start : Nat, count : Nat \ {0}]
    BY <2>1, <2>3
  <2>6. e # None
    BY <2>5 DEF None
  <2>7. c.at < e.start + Window
    BY <1>1, <1>5, <2>1, <2>4, WindowAssumption DEF Age
  <2> QED
    BY <1>1, <1>2, <1>3, <1>5, <2>4, <2>5, <2>6, <2>7
<1>6. Age(c.at, o.start) \in Int
  BY <1>1, <1>3 DEF Age, Stored, None
<1> QED
  BY <1>4, <1>5, <1>6, WindowAssumption

LEMMA PromptStep == TypeOK /\ Prompt /\ [Next]_vars => Prompt'
<1> SUFFICES ASSUME TypeOK, Prompt, [Next]_vars, NEW w \in Workers, call'[w] # Idle
             PROVE  now' - call'[w].at <= MaxDelay
  BY DEF Prompt
<1>1. ASSUME NEW v \in Workers, NEW ip \in Ips, NEW kind \in Kinds, Arrive(v, ip, kind)
      PROVE  now' - call'[w].at <= MaxDelay
  BY <1>1, WindowAssumption DEF TypeOK, Prompt, Arrive
<1>2. ASSUME NEW v \in Workers, Count(v)
      PROVE  now' - call'[w].at <= MaxDelay
  BY <1>2 DEF TypeOK, Prompt, Count
<1>3. ASSUME Tick PROVE now' - call'[w].at <= MaxDelay
  <2>1. call[w].at \in Nat /\ now \in Nat
    BY <1>3 DEF TypeOK, Calls, Tick, Idle
  <2> QED
    BY <1>3, <2>1, WindowAssumption DEF Tick
<1> QED
  BY <1>1, <1>2, <1>3 DEF Next, SweepBegins, Prune, Prompt, vars

LEMMA AdmissionsStep == TypeOK /\ Prompt /\ Admissions /\ [Next]_vars => Admissions'
<1> SUFFICES ASSUME TypeOK, Prompt, Admissions, [Next]_vars PROVE Admissions'
  OBVIOUS
<1> USE WindowAssumption
<1>1. ASSUME NEW w \in Workers, Count(w) PROVE Admissions'
  <2> DEFINE c == call[w]
             o == inner[c.ip]
             e == Counted(c)
             b == [ip |-> c.ip, kind |-> c.kind, at |-> c.at, start |-> e.start, rank |-> e.count]
  <2>1. /\ now' = now /\ inner' = [inner EXCEPT ![c.ip] = e]
        /\ admitted' = IF e.count <= Max(c.kind) THEN admitted \cup {b} ELSE admitted
    BY <1>1 DEF Count
  <2>2. /\ c.ip \in Ips /\ c.kind \in Kinds /\ c.at \in Nat /\ now \in Nat
        /\ c.at <= now /\ now <= c.at + MaxDelay
        /\ o \in Stored
        /\ e \in [start : Nat, count : Nat \ {0}] /\ e # None
        /\ c.at < e.start + Window
        /\ \/ o # None /\ e.start = o.start /\ e.count = o.count + 1
           \/ (o # None => o.start + Window <= c.at) /\ e.start = c.at /\ e.count = 1
    BY <1>1, CountedEntry
  <2>3. inner'[c.ip] = e /\ \A ip \in Ips \ {c.ip} : inner'[ip] = inner[ip]
    BY <2>1, <2>2 DEF TypeOK
  <2>4. ASSUME NEW a \in admitted
        PROVE  /\ Fits(a) /\ (Current(a) \/ Past(a))'
               /\ a.ip = b.ip => Together(a, b) \/ Before(a, b)
    <3>1. Fits(a) /\ (Current(a) \/ Past(a))
      BY DEF Admissions
    <3>2. a.ip \in Ips /\ a.start \in Nat /\ a.rank \in Nat
      BY <3>1, LimitAssumption DEF Fits, Max
    <3>3. CASE a.ip # c.ip
      BY <2>1, <2>3, <3>1, <3>2, <3>3 DEF Current, Past
    <3>4. CASE a.ip = c.ip /\ o # None /\ Current(a)
               /\ e.start = o.start /\ e.count = o.count + 1
      <4>1. o.count \in Nat
        BY <2>2, <3>4 DEF Stored
      <4>2. a.start = e.start /\ a.rank < e.count
        BY <3>2, <3>4, <4>1 DEF Current
      <4> QED
        BY <2>1, <2>2, <2>3, <3>1, <3>2, <3>4, <4>2 DEF Current, Together
    <3>5. CASE a.ip = c.ip /\ Current(a)
               /\ (o # None => o.start + Window <= c.at) /\ e.start = c.at
      <4>1. a.start + Window <= c.at
        BY <3>5 DEF Current
      <4> QED
        BY <2>1, <2>2, <2>3, <3>1, <3>2, <3>5, <4>1 DEF Past, Before
    <3>6. CASE a.ip = c.ip /\ Past(a)
      <4>1. a.start + Window <= c.at + MaxDelay
        BY <2>2, <3>2, <3>6 DEF Past
      <4>2. a.start + Window <= e.start + MaxDelay
        BY <2>2, <3>6, <4>1 DEF Past
      <4> QED
        BY <2>1, <2>2, <2>3, <3>1, <3>2, <3>6, <4>1, <4>2 DEF Past, Before
    <3> QED
      BY <2>2, <3>1, <3>3, <3>4, <3>5, <3>6 DEF Current
  <2>5. ASSUME NEW a, a = b, e.count <= Max(c.kind)
        PROVE  Fits(a) /\ Current(a)'
    <3>1. /\ a.ip = c.ip /\ a.kind = c.kind /\ a.at = c.at
          /\ a.start = e.start /\ a.rank = e.count
      BY <2>5
    <3>2. Max(c.kind) \in Nat
      BY LimitAssumption DEF Max
    <3>3. Fits(a)
      BY <2>2, <2>5, <3>1, <3>2 DEF Fits
    <3>4. Current(a)'
      BY <2>2, <2>3, <3>1 DEF Current
    <3> QED
      BY <3>3, <3>4
  <2>6. \A a \in admitted' : Fits(a) /\ (Current(a) \/ Past(a))'
    BY <2>1, <2>4, <2>5
  <2>7. \A x, y \in admitted' : x.ip = y.ip => Apart(x, y)
    <3>1. \A x, y \in admitted : x.ip = y.ip => Apart(x, y)
      BY DEF Admissions
    <3>2. \A x \in admitted : x.ip = b.ip => Apart(x, b) /\ Apart(b, x)
      BY <2>4 DEF Apart, Together
    <3>3. Apart(b, b)
      BY DEF Apart, Together
    <3> QED
      BY <2>1, <3>1, <3>2, <3>3
  <2> QED
    BY <2>6, <2>7 DEF Admissions, Fits, Apart, Together, Before
<1>2. ASSUME Prune PROVE Admissions'
  <2>1. now' = now /\ admitted' = admitted
    BY <1>2 DEF Prune
  <2>2. ASSUME NEW a \in admitted PROVE (Current(a) \/ Past(a))'
    <3>1. Fits(a) /\ (Current(a) \/ Past(a))
      BY DEF Admissions
    <3>2. a.ip \in Ips /\ a.start \in Nat
      BY <3>1 DEF Fits
    <3>3. CASE Expired(inner[a.ip], sweep)
      <4>1. inner'[a.ip] = None
        BY <1>2, <3>2, <3>3 DEF Prune
      <4>2. Current(a) => a.start + Window <= now
        BY <1>2, <3>2, <3>3 DEF Current, Expired, Age, TypeOK, Prune
      <4> QED
        BY <2>1, <3>1, <4>1, <4>2 DEF Past
    <3>4. CASE ~ Expired(inner[a.ip], sweep)
      <4>1. inner'[a.ip] = inner[a.ip]
        BY <1>2, <3>2, <3>4 DEF Prune
      <4> QED
        BY <2>1, <3>1, <4>1 DEF Current, Past
    <3> QED
      BY <3>3, <3>4
  <2> QED
    BY <2>1, <2>2 DEF Admissions, Fits, Apart, Together, Before
<1>3. ASSUME Tick PROVE Admissions'
  <2>1. /\ now \in Nat /\ now' = now + 1
        /\ admitted' = admitted /\ inner' = inner
    BY <1>3 DEF Tick, TypeOK
  <2>2. \A a \in admitted : Current(a)' <=> Current(a)
    BY <2>1 DEF Current
  <2>3. \A a \in admitted : Fits(a) /\ Past(a) => Past(a)'
    BY <2>1 DEF Past, Fits
  <2> QED
    BY <2>1, <2>2, <2>3 DEF Admissions, Fits, Apart, Together, Before
<1>4. ASSUME \/ \E w \in Workers, ip \in Ips, kind \in Kinds : Arrive(w, ip, kind)
             \/ SweepBegins
             \/ UNCHANGED vars
      PROVE  Admissions'
  BY <1>4 DEF Arrive, SweepBegins, vars, Admissions, Fits, Current, Past, Apart, Together, Before
<1> QED
  BY <1>1, <1>2, <1>3, <1>4 DEF Next

\* Those of a caller that were admitted within a stretch fall into two windows
\* at most.
LEMMA TwoWindows ==
  ASSUME Admissions, NEW t \in Nat,
         NEW S \in SUBSET admitted,
         \A a \in S : a.at >= t /\ a.at <= t + Window - 2 * MaxDelay,
         \A a, b \in S : a.ip = b.ip
  PROVE  \A a, b, c \in S : a.start = b.start \/ b.start = c.start \/ a.start = c.start
<1> SUFFICES ASSUME NEW a \in S, NEW b \in S, NEW c \in S,
                    a.start # b.start, b.start # c.start, a.start # c.start
             PROVE  FALSE
  OBVIOUS
<1>1. /\ a.at \in Nat /\ a.start \in Nat /\ a.at < a.start + Window
      /\ b.at \in Nat /\ b.start \in Nat /\ b.at < b.start + Window
      /\ c.at \in Nat /\ c.start \in Nat /\ c.at < c.start + Window
  BY DEF Admissions, Fits
<1>2. /\ Before(a, b) \/ Before(b, a)
      /\ Before(b, c) \/ Before(c, b)
      /\ Before(a, c) \/ Before(c, a)
  BY DEF Admissions, Apart, Together
<1>3. /\ a.at >= t /\ b.at >= t /\ c.at >= t
      /\ a.at <= t + Window - 2 * MaxDelay
      /\ b.at <= t + Window - 2 * MaxDelay
      /\ c.at <= t + Window - 2 * MaxDelay
  OBVIOUS
<1> QED
  BY <1>1, <1>2, <1>3, WindowAssumption DEF Before

\* In two windows there are twice as many ranks as in one.
LEMMA TwiceTheRanks ==
  ASSUME NEW S, NEW m \in Nat,
         \A a \in S : a.rank \in 1 .. m,
         \A a, b \in S : a.start = b.start /\ a.rank = b.rank => a = b,
         \A a, b, c \in S : a.start = b.start \/ b.start = c.start \/ a.start = c.start
  PROVE  Cardinality(S) <= 2 * m
<1>1. CASE S = {}
  <2>1. Cardinality(S) = 0
    BY <1>1, FS_EmptySet
  <2> QED
    BY <2>1
<1>2. CASE S # {}
  <2>1. PICK s \in S : TRUE
    BY <1>2
  <2> DEFINE f == [a \in S |-> IF a.start = s.start THEN a.rank ELSE a.rank + m]
             n == 2 * m
  <2>2. f \in [S -> 1 .. n]
    OBVIOUS
  <2>3. ASSUME NEW a \in S, NEW b \in S, f[a] = f[b]
        PROVE  a = b
    <3>1. a.start = s.start <=> b.start = s.start
      BY <2>3
    <3>2. a.rank = b.rank
      BY <2>3, <3>1
    <3> QED
      BY <2>1, <3>1, <3>2
  <2>4. f \in Injection(S, 1 .. n)
    BY <2>2, <2>3 DEF Injection, IsInjective
  <2>5. n \in Nat
    OBVIOUS
  <2> HIDE DEF n, f
  <2>6. IsFiniteSet(1 .. n) /\ Cardinality(1 .. n) = n
    BY <2>5, FS_Interval
  <2>7. Cardinality(S) <= Cardinality(1 .. n)
    BY <2>4, <2>6, FS_Injection
  <2> QED
    BY <2>6, <2>7 DEF n
<1> QED
  BY <1>1, <1>2

\* For any limits, window and waits: within a window's length, less twice the
\* longest wait, no caller is admitted more than twice as often as the limit of
\* what it asks for, whatever was pruned in between (main.rs:101-114).
THEOREM AtMostTwiceTheorem == Spec => []AtMostTwice
<1> DEFINE Inv == TypeOK /\ Prompt /\ Admissions
<1>1. Init => Inv
  BY TypeInit DEF Init, Prompt, Admissions
<1>2. Inv /\ [Next]_vars => Inv'
  BY TypeStep, PromptStep, AdmissionsStep
<1>3. Inv => AtMostTwice
  <2> SUFFICES ASSUME Inv, NEW ip \in Ips, NEW kind \in Kinds, NEW t \in 0 .. now
               PROVE  Cardinality({a \in admitted : /\ a.ip = ip
                                                    /\ a.kind = kind
                                                    /\ a.at >= t
                                                    /\ a.at <= t + Window - 2 * MaxDelay})
                          <= 2 * Max(kind)
    BY DEF AtMostTwice
  <2> DEFINE S == {a \in admitted : /\ a.ip = ip
                                    /\ a.kind = kind
                                    /\ a.at >= t
                                    /\ a.at <= t + Window - 2 * MaxDelay}
  <2>1. Max(kind) \in Nat /\ t \in Nat
    BY LimitAssumption DEF Max, TypeOK
  <2>2. /\ S \in SUBSET admitted
        /\ \A a \in S : a.at >= t /\ a.at <= t + Window - 2 * MaxDelay
        /\ \A a, b \in S : a.ip = b.ip
        /\ \A a \in S : a.rank \in 1 .. Max(kind)
    BY DEF Admissions, Fits
  <2> HIDE DEF S
  <2>3. \A a, b \in S : a.start = b.start /\ a.rank = b.rank => a = b
    <3> SUFFICES ASSUME NEW a \in S, NEW b \in S, a.start = b.start
                 PROVE  Together(a, b)
      BY DEF Together
    <3>1. a.at \in Nat /\ b.at \in Nat /\ a.start \in Nat /\ a.at < a.start + Window
      BY <2>2 DEF Admissions, Fits
    <3>2. t <= a.at /\ a.at <= t + Window - 2 * MaxDelay
      BY <2>2
    <3>3. MaxDelay < Window
      BY <2>1, <3>1, <3>2, WindowAssumption
    <3>4. ~ Before(a, b) /\ ~ Before(b, a)
      BY <3>1, <3>3, WindowAssumption DEF Before
    <3> QED
      BY <2>2, <3>4 DEF Admissions, Apart, Together
  <2>4. Cardinality(S) <= 2 * Max(kind)
    BY <2>1, <2>2, <2>3, TwoWindows, TwiceTheRanks
  <2> QED
    BY <2>4 DEF S
<1> QED
  BY <1>1, <1>2, <1>3, PTL DEF Spec

=============================================================================
