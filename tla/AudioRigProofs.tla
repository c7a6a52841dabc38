--------------------------- MODULE AudioRigProofs ---------------------------
(***************************************************************************)
(* Theorems about the resampler and the audio rig, for any sample rates,   *)
(* bursts, peers and capacities.                                           *)
(***************************************************************************)
EXTENDS AudioRig, TLAPS

-----------------------------------------------------------------------------
(* Division.                                                               *)

LEMMA Grows ==
    ASSUME NEW x \in Int, NEW y \in Int, NEW b \in Nat, x <= y
    PROVE  x * b <= y * b
OBVIOUS

LEMMA Shrinks ==
    ASSUME NEW x \in Int, NEW y \in Int, NEW b \in Nat \ {0}, x * b < y * b + b
    PROVE  x <= y
<1>1. SUFFICES ASSUME y + 1 <= x PROVE FALSE
  OBVIOUS
<1>2. (y + 1) * b <= x * b
  BY <1>1, Grows
<1> QED
  BY <1>2

LEMMA Quotient ==
    ASSUME NEW a \in Int, NEW b \in Nat \ {0}
    PROVE  /\ a \div b \in Int
           /\ (a \div b) * b <= a /\ a < (a \div b) * b + b
           /\ a >= 0 => a \div b >= 0
OBVIOUS

LEMMA Ceiling ==
    ASSUME NEW a \in Nat, NEW b \in Nat \ {0}
    PROVE  /\ CeilDiv(a, b) \in Nat
           /\ CeilDiv(a, b) * b - a \in 0 .. b - 1
<1> DEFINE c == (a + b - 1) \div b
<1>1. a + b - 1 \in Nat
  OBVIOUS
<1>2. c \in Nat /\ c * b <= a + b - 1 /\ a + b - 1 < c * b + b
  BY <1>1, Quotient
<1>3. c * b \in Int
  BY <1>2
<1> HIDE DEF c
<1>4. c * b - a \in 0 .. b - 1
  BY <1>2, <1>3
<1> QED
  BY <1>2, <1>4 DEF CeilDiv, c

\* Only one multiple of b is less than b above a.
LEMMA CeilingIsUnique ==
    ASSUME NEW a \in Int, NEW b \in Nat \ {0}, NEW c \in Int, NEW d \in Int,
           c * b - a \in 0 .. b - 1, d * b - a \in 0 .. b - 1
    PROVE  c = d
<1>1. c * b \in Int /\ d * b \in Int
  OBVIOUS
<1>2. c * b < d * b + b /\ d * b < c * b + b
  BY <1>1
<1>3. c <= d /\ d <= c
  BY <1>2, Shrinks
<1> QED
  BY <1>3

LEMMA CeilingGrows ==
    ASSUME NEW a \in Nat, NEW b \in Nat \ {0}, NEW c \in Nat, a <= c
    PROVE  CeilDiv(a, b) <= CeilDiv(c, b)
<1> DEFINE x == CeilDiv(a, b)
           y == CeilDiv(c, b)
<1>1. x \in Nat /\ y \in Nat /\ x * b - a \in 0 .. b - 1 /\ y * b - c \in 0 .. b - 1
  BY Ceiling
<1> HIDE DEF x, y
<1>2. x * b \in Int /\ y * b \in Int
  BY <1>1
<1>3. x * b < y * b + b
  BY <1>1, <1>2
<1>4. x <= y
  BY <1>1, <1>3, Shrinks
<1> QED
  BY <1>4 DEF x, y

-----------------------------------------------------------------------------
(* The resampler.                                                          *)

Resamplers == [src : Nat \ {0}, dst : Nat \ {0}, t : Nat, primed : BOOLEAN]

\* k steps take the phase t past the end e, and none more than needed.
Steps(k, t, e, src) == /\ k \in Nat
                       /\ t >= e => k = 0
                       /\ t < e  => t + k * src - e \in 0 .. src - 1

LEMMA StepsAreUnique ==
    ASSUME NEW t \in Nat, NEW e \in Nat, NEW src \in Nat \ {0},
           NEW k, NEW m, Steps(k, t, e, src), Steps(m, t, e, src)
    PROVE  k = m
<1>1. k \in Nat /\ m \in Nat
  BY DEF Steps
<1>2. CASE t >= e
  BY <1>2 DEF Steps
<1>3. CASE t < e
  <2>1. /\ k * src - (e - t) \in 0 .. src - 1
        /\ m * src - (e - t) \in 0 .. src - 1
    <3>1. k * src \in Int /\ m * src \in Int
      BY <1>1
    <3> QED
      BY <1>3, <3>1 DEF Steps
  <2> QED
    BY <1>1, <2>1, CeilingIsUnique
<1> QED
  BY <1>2, <1>3

LEMMA IntervalsType ==
    ASSUME NEW r \in Resamplers, NEW n \in Nat \ {0}
    PROVE  Intervals(r, n) \in Nat /\ Intervals(r, n) * r.dst \in Nat
<1>1. Intervals(r, n) \in Nat /\ r.dst \in Nat
  BY DEF Intervals, Resamplers
<1> QED
  BY <1>1

LEMMA StepsAreThese ==
    ASSUME NEW t \in Nat, NEW e \in Nat, NEW src \in Nat \ {0}
    PROVE  Steps(IF t < e THEN 1 + (e - t - 1) \div src ELSE 0, t, e, src)
<1>1. CASE t < e
  <2> DEFINE q == (e - t - 1) \div src
             k == 1 + q
  <2>1. e - t - 1 \in Nat
    BY <1>1
  <2>2. q \in Nat /\ q * src <= e - t - 1 /\ e - t - 1 < q * src + src
    BY <2>1, Quotient
  <2> HIDE DEF q
  <2>3. q * src \in Int /\ k * src = q * src + src /\ k \in Nat
    BY <2>2
  <2> HIDE DEF k
  <2>4. t + k * src - e \in 0 .. src - 1
    BY <2>2, <2>3
  <2>5. Steps(k, t, e, src)
    BY <1>1, <2>3, <2>4 DEF Steps
  <2> QED
    BY <1>1, <2>5 DEF k, q
<1>2. CASE ~ (t < e)
  BY <1>2 DEF Steps
<1> QED
  BY <1>1, <1>2

\* What a call pushes takes the phase just past the last interval.
LEMMA PushesTakeSteps ==
    ASSUME NEW r \in Resamplers, NEW n \in Nat \ {0}
    PROVE  Steps(Pushes(r, n), r.t, Intervals(r, n) * r.dst, r.src)
<1> DEFINE e == Intervals(r, n) * r.dst
<1>1. e \in Nat /\ r.t \in Nat /\ r.src \in Nat \ {0}
  BY IntervalsType DEF Resamplers
<1>2. Pushes(r, n) = IF r.t < e THEN 1 + (e - r.t - 1) \div r.src ELSE 0
  BY DEF Pushes
<1> HIDE DEF e
<1>3. Steps(Pushes(r, n), r.t, e, r.src)
  BY <1>1, <1>2, StepsAreThese
<1> QED
  BY <1>3 DEF e

LEMMA FedType ==
    ASSUME NEW r \in Resamplers, NEW n \in Nat \ {0}
    PROVE  /\ Fed(r, n) \in Resamplers
           /\ Fed(r, n).src = r.src /\ Fed(r, n).dst = r.dst /\ Fed(r, n).primed
           /\ Fed(r, n).t = r.t + Pushes(r, n) * r.src - Intervals(r, n) * r.dst
<1> DEFINE e == Intervals(r, n) * r.dst
           k == Pushes(r, n)
           u == r.t + k * r.src - e
<1>1. e \in Nat /\ r.t \in Nat /\ r.src \in Nat \ {0} /\ Steps(k, r.t, e, r.src)
  BY IntervalsType, PushesTakeSteps DEF Resamplers
<1>2. Fed(r, n) = [r EXCEPT !.primed = TRUE, !.t = u]
  BY DEF Fed
<1> HIDE DEF e, k
<1>3. u \in Nat
  <2>1. k * r.src \in Int
    BY <1>1 DEF Steps
  <2>2. CASE r.t >= e
    BY <1>1, <2>2 DEF Steps
  <2>3. CASE r.t < e
    BY <1>1, <2>1, <2>3 DEF Steps
  <2> QED
    BY <1>1, <2>2, <2>3
<1> HIDE DEF u
<1>4. Fed(r, n) = [src |-> r.src, dst |-> r.dst, t |-> u, primed |-> TRUE]
  BY <1>2 DEF Resamplers
<1> QED
  BY <1>3, <1>4 DEF Resamplers, u, k, e

\* However the captured samples are cut into chunks, the resampler makes the
\* same number of samples and is left in the same phase (audio.rs:64-90).
THEOREM ChunksDoNotMatter ==
    ASSUME NEW r \in Resamplers, NEW m \in Nat \ {0}, NEW n \in Nat \ {0}
    PROVE  /\ Pushes(r, m + n) = Pushes(r, m) + Pushes(Fed(r, m), n)
           /\ Fed(r, m + n) = Fed(Fed(r, m), n)
<1> DEFINE f  == Fed(r, m)
           g  == Fed(r, m + n)
           h  == Fed(f, n)
           e1 == Intervals(r, m) * r.dst
           e2 == n * r.dst
           e  == Intervals(r, m + n) * r.dst
           k1 == Pushes(r, m)
           k2 == Pushes(f, n)
           k  == Pushes(r, m + n)
           s  == r.src
<1>0. m + n \in Nat \ {0}
  OBVIOUS
<1>1. /\ f \in Resamplers /\ f.src = s /\ f.dst = r.dst /\ f.primed
      /\ f.t = r.t + k1 * s - e1 /\ f.t \in Nat /\ r.t \in Nat /\ s \in Nat \ {0}
  BY FedType DEF Resamplers
<1>2. Intervals(f, n) = n
  BY <1>1 DEF Intervals
<1>3. e1 \in Nat /\ e2 \in Nat /\ e \in Nat /\ e = e1 + e2
  <2>1. /\ Intervals(r, m) \in Nat /\ Intervals(r, m + n) = Intervals(r, m) + n
        /\ r.dst \in Nat
    BY DEF Intervals, Resamplers
  <2> QED
    BY <2>1, <1>0, IntervalsType
<1>4. Steps(k1, r.t, e1, s) /\ Steps(k2, f.t, e2, s) /\ Steps(k, r.t, e, s)
  BY <1>0, <1>1, <1>2, PushesTakeSteps
<1>5. /\ g \in Resamplers /\ g.src = s /\ g.dst = r.dst /\ g.primed
      /\ g.t = r.t + k * s - e
      /\ h \in Resamplers /\ h.src = s /\ h.dst = r.dst /\ h.primed
      /\ h.t = f.t + k2 * s - e2
  <2>1. /\ g \in Resamplers /\ g.src = s /\ g.dst = r.dst /\ g.primed
        /\ g.t = r.t + k * s - e
    BY <1>0, FedType
  <2>2. /\ h \in Resamplers /\ h.src = f.src /\ h.dst = f.dst /\ h.primed
        /\ h.t = f.t + k2 * f.src - Intervals(f, n) * f.dst
    <3> HIDE DEF f
    <3> QED
      BY <1>1, FedType
  <2> HIDE DEF f, g, h
  <2> QED
    BY <1>1, <1>2, <2>1, <2>2
<1> HIDE DEF f, g, h, e1, e2, e, k1, k2, k, s
<1>6. k1 \in Nat /\ k2 \in Nat /\ k \in Nat /\ k1 + k2 \in Nat
  BY <1>4 DEF Steps
<1>7. /\ k1 * s \in Int /\ k2 * s \in Int /\ k * s \in Int
      /\ (k1 + k2) * s = k1 * s + k2 * s
  BY <1>1, <1>6
<1>8. Steps(k1 + k2, r.t, e, s)
  <2>1. CASE r.t >= e
    <3>1. k1 = 0
      BY <1>1, <1>3, <1>4, <2>1 DEF Steps
    <3>2. f.t = r.t - e1
      BY <1>1, <1>3, <3>1
    <3>3. k2 = 0
      BY <1>1, <1>3, <1>4, <2>1, <3>2 DEF Steps
    <3> QED
      BY <1>1, <1>3, <2>1, <3>1, <3>3 DEF Steps
  <2>2. CASE r.t < e /\ r.t >= e1
    <3>1. k1 = 0
      BY <1>1, <1>3, <1>4, <2>2 DEF Steps
    <3>2. f.t = r.t - e1 /\ f.t < e2
      BY <1>1, <1>3, <2>2, <3>1
    <3>3. f.t + k2 * s - e2 \in 0 .. s - 1
      BY <1>4, <3>2 DEF Steps
    <3> QED
      BY <1>1, <1>3, <1>6, <1>7, <2>2, <3>1, <3>2, <3>3 DEF Steps
  <2>3. CASE r.t < e1
    <3>1. f.t \in 0 .. s - 1
      BY <1>1, <1>4, <2>3 DEF Steps
    <3>2. CASE f.t >= e2
      <4>1. k2 = 0
        BY <1>4, <3>2 DEF Steps
      <4> QED
        BY <1>1, <1>3, <1>6, <1>7, <2>3, <3>1, <3>2, <4>1 DEF Steps
    <3>3. CASE f.t < e2
      <4>1. f.t + k2 * s - e2 \in 0 .. s - 1
        BY <1>4, <3>3 DEF Steps
      <4> QED
        BY <1>1, <1>3, <1>6, <1>7, <2>3, <4>1 DEF Steps
    <3> QED
      BY <1>1, <1>3, <3>2, <3>3
  <2> QED
    BY <1>1, <1>3, <2>1, <2>2, <2>3
<1>9. k = k1 + k2
  BY <1>1, <1>3, <1>4, <1>8, StepsAreUnique
<1>10. g.t = h.t
  BY <1>1, <1>3, <1>5, <1>6, <1>7, <1>9
<1>11. g = h
  BY <1>5, <1>10 DEF Resamplers
<1> QED
  BY <1>9, <1>11 DEF k, k1, k2, g, h, f

-----------------------------------------------------------------------------
(* The invariant of the rig.                                               *)

\* The three threads exist exactly if the rig is up, and then the rates are
\* known; before, nothing has been captured, resampled or played.
Wired ==
    /\ rig = "up" <=> encoder # "none"
    /\ rig = "up" <=> mixer # "none"
    /\ rig = "up" <=> decoder # "none"
    /\ rig = "up" => rate \in Rates
    /\ device = "picking" => rate = NoRate
    /\ rig # "up" => /\ play = 0 /\ ready = 0
                     /\ drained = 0 /\ done = 0 /\ frames = 0 /\ clean = 0 /\ buf48 = 0
                     /\ ~ transmit /\ doneAtPress = 0
    /\ up \in Resamplers /\ down \in Resamplers

\* What the encoder's resampler has made.
Made == frames * Frame + clean + buf48

\* The phase of the encoder's resampler is by how much what it has made is
\* ahead of the last sample that was captured.
Metered ==
    rig = "up" =>
        /\ up.src = rate.in /\ up.dst = OpusRate /\ (up.primed <=> drained # 0)
        /\ up.t \in 0 .. rate.in - 1
        /\ IF drained = 0 THEN Made = 0 /\ up.t = 0
           ELSE Made * rate.in - (drained - 1) * OpusRate = up.t

\* What the encoder had finished with at the end of a round was framed but for
\* less than a frame and less than a block.
Rested ==
    /\ doneAtPress <= done /\ done <= drained
    /\ rig = "up" /\ done # 0 =>
          (done - 1) * OpusRate <= (frames * Frame + (Frame + Block - 2)) * rate.in

\* The ring is below its target while a frame is mixed, and was when the last
\* one was.
Refilled ==
    rig = "up" =>
        /\ down.src = OpusRate /\ down.dst = rate.out
        /\ IF mixer = "pushing"
           THEN play <= Target(rate.out) - 1 /\ ready <= MostPerFrame
           ELSE ready = 0 /\ play <= Target(rate.out) - 1 + MostPerFrame

RigInv == TypeOK /\ Wired /\ Metered /\ Rested /\ Refilled

-----------------------------------------------------------------------------
(* Types.                                                                  *)

LEMMA Constants ==
    /\ Frame \in Nat \ {0} /\ Block \in Nat \ {0} /\ OpusRate \in Nat \ {0}
    /\ NoRate \notin Rates
    /\ \A r \in Rates : r.in \in Nat \ {0} /\ r.out \in Nat \ {0}
    /\ \A out \in Nat : PlayCap(out) \in Nat /\ Target(out) \in Nat
    /\ PlayCap(NoRate.out) = 0
    /\ \A q : CapOf(q) \in Nat /\ CapOf(q) >= Frame
<1>1. Block \in Nat /\ Frame \in Nat \ {0} /\ OpusRate # 0
  <2>1. OpusRate \in Nat /\ Block > 0 /\ Frame = 2 * Block
    BY AudioAssumption
  <2>2. Block \in Int
    BY <2>1, Quotient DEF Block
  <2>3. OpusRate # 0
    BY <2>1 DEF Block
  <2> QED
    BY <2>1, <2>2, <2>3
<1>2. NoRate.in = 0 /\ NoRate.out = 0
  BY DEF NoRate
<1>3. ASSUME NEW out \in Nat PROVE PlayCap(out) \in Nat /\ Target(out) \in Nat
  BY DEF PlayCap, Target
<1>4. PlayCap(NoRate.out) = 0
  BY <1>2 DEF PlayCap
<1>5. \A q : CapOf(q) \in Nat /\ CapOf(q) >= Frame
  BY AudioAssumption DEF CapOf
<1> QED
  BY <1>1, <1>2, <1>3, <1>4, <1>5, AudioAssumption

LEMMA Least ==
    ASSUME NEW a \in Nat, NEW b \in Nat
    PROVE  Min({a, b}) \in Nat /\ Min({a, b}) <= a /\ Min({a, b}) <= b
BY DEF Min

LEMMA NewType ==
    ASSUME NEW src \in Nat \ {0}, NEW dst \in Nat \ {0}
    PROVE  /\ New(src, dst) \in Resamplers
           /\ New(src, dst).src = src /\ New(src, dst).dst = dst
           /\ New(src, dst).t = 0 /\ New(src, dst).primed = FALSE
BY DEF New, Resamplers

\* The queues of the mix map, and how full they are.
Queues(m) == /\ DOMAIN m \subseteq Peers \cup {Self}
             /\ \A q \in DOMAIN m : m[q] \in 0 .. CapOf(q)

LEMMA PushedType ==
    ASSUME NEW m, Queues(m), NEW q \in Peers \cup {Self}
    PROVE  Queues(Pushed(m, q, CapOf(q)))
<1> DEFINE b == (IF q \in DOMAIN m THEN m[q] ELSE 0) + Frame
           p == Pushed(m, q, CapOf(q))
<1>1. b \in Nat /\ CapOf(q) \in Nat
  BY Constants DEF Queues
<1> HIDE DEF b
<1>2. p = [k \in DOMAIN m \cup {q} |->
              IF k # q THEN m[k] ELSE IF b > CapOf(q) THEN CapOf(q) ELSE b]
  BY DEF Pushed, b
<1> HIDE DEF p
<1>3. DOMAIN p = DOMAIN m \cup {q}
  BY <1>2
<1>4. \A k \in DOMAIN p : p[k] = IF k # q THEN m[k] ELSE IF b > CapOf(q) THEN CapOf(q) ELSE b
  BY <1>2
<1>5. DOMAIN p \subseteq Peers \cup {Self}
  BY <1>3 DEF Queues
<1>6. \A k \in DOMAIN p : p[k] \in 0 .. CapOf(k)
  BY <1>1, <1>3, <1>4 DEF Queues
<1> QED
  BY <1>5, <1>6 DEF Queues, p

LEMMA TakenType ==
    ASSUME NEW m, Queues(m)
    PROVE  Queues(Taken(m))
<1>1. \A q \in Peers \cup {Self} : CapOf(q) \in Nat
  BY Constants
<1> QED
  BY <1>1, Constants DEF Queues, Taken

LEMMA RemainderType ==
    ASSUME NEW a \in Nat, NEW b \in Nat \ {0}
    PROVE  /\ a \div b \in Nat /\ b * (a \div b) \in Nat
           /\ a % b \in 0 .. b - 1 /\ b * (a \div b) + (a % b) = a
<1>1. a \div b \in Nat /\ a % b \in 0 .. b - 1 /\ b * (a \div b) + (a % b) = a
  OBVIOUS
<1> QED
  BY <1>1

LEMMA TypeInit == Init => TypeOK /\ Wired
<1> SUFFICES ASSUME Init PROVE TypeOK /\ Wired
  OBVIOUS
<1>1. up \in Resamplers /\ down \in Resamplers
  <2>1. up = New(1, 1) /\ down = New(1, 1) /\ 1 \in Nat \ {0}
    BY DEF Init
  <2> QED
    BY <2>1, NewType
<1>2. mix = [q \in {} |-> 0] /\ DOMAIN mix = {}
  BY DEF Init
<1>3. play \in 0 .. PlayCap(rate.out)
  BY Constants DEF Init
<1>4. buf48 \in 0 .. Block - 1
  BY Constants DEF Init
<1>5. encoder = "idle" => clean < Frame
  BY DEF Init
<1>6. arrived \in Seq(Peers)
  BY DEF Init
<1>7. up.t \in Nat /\ down.t \in Nat
  BY <1>1 DEF Resamplers
<1>8. {cap, ready, drained, done, frames, doneAtPress} \subseteq Nat /\ clean \in Nat
  BY DEF Init
<1>9. TypeOK
  BY <1>2, <1>3, <1>4, <1>5, <1>6, <1>7, <1>8 DEF Init, TypeOK, Threads
<1>10. Wired
  BY <1>1 DEF Init, Wired
<1> QED
  BY <1>9, <1>10

\* A step of the threads that leaves the setup, the rates and the resamplers
\* alone, on a rig that is up.
LEMMA WiredKept ==
    ASSUME Wired, rig = "up", UNCHANGED <<rig, rate, device>>,
           encoder' # "none", mixer' # "none", decoder' # "none",
           up' \in Resamplers, down' \in Resamplers
    PROVE  Wired'
BY DEF Wired

LEMMA TypeStep == TypeOK /\ Wired /\ [Next]_vars => TypeOK' /\ Wired'
<1> SUFFICES ASSUME TypeOK, Wired, [Next]_vars PROVE TypeOK' /\ Wired'
  OBVIOUS
<1> USE DEF setup, switches, devices, encoding, decoding, mixing
<1>0. PlayCap(rate.out) \in Nat /\ (rig # "up" => play = 0)
  <2>1. rate.out \in Nat
    <3>1. CASE rate = NoRate
      BY <3>1 DEF NoRate
    <3>2. CASE rate \in Rates
      BY <3>2, Constants
    <3> QED
      BY <3>1, <3>2 DEF TypeOK
  <2> QED
    BY <2>1, Constants DEF Wired
<1>1. ASSUME SetupFails PROVE TypeOK' /\ Wired'
  BY <1>1 DEF SetupFails, TypeOK, Wired
<1>2. ASSUME SetupGoesOn PROVE TypeOK' /\ Wired'
  <2>1. rate \in Rates /\ rate.in \in Nat \ {0} /\ rate.out \in Nat \ {0} /\ OpusRate \in Nat \ {0}
    BY <1>2, Constants DEF SetupGoesOn, TypeOK
  <2>2. up' \in Resamplers /\ down' \in Resamplers
    BY <1>2, <2>1, NewType DEF SetupGoesOn
  <2>3. up'.t \in Nat /\ down'.t \in Nat
    BY <2>2 DEF Resamplers
  <2>4. 0 < Frame
    BY Constants
  <2>5. TypeOK'
    BY <1>2, <2>3, <2>4 DEF SetupGoesOn, TypeOK, Wired, Threads
  <2> QED
    BY <1>2, <2>1, <2>2, <2>5 DEF SetupGoesOn, Wired
<1>3. ASSUME Stop \/ SetMonitor PROVE TypeOK' /\ Wired'
  BY <1>3 DEF Stop, SetMonitor, TypeOK, Wired
<1>4. ASSUME SetTransmit PROVE TypeOK' /\ Wired'
  BY <1>4 DEF SetTransmit, TypeOK, Wired
<1>5. ASSUME NEW p \in Peers, Linking(p) PROVE TypeOK' /\ Wired'
  BY <1>5 DEF Linking, TypeOK, Wired
<1>6. ASSUME NEW p \in Peers, Arrive(p) PROVE TypeOK' /\ Wired'
  <2>1. arrived' \in Seq(Peers)
    BY <1>6 DEF Arrive, TypeOK
  <2> QED
    BY <1>6, <2>1 DEF Arrive, TypeOK, Wired
<1>7. ASSUME PickDevices PROVE TypeOK' /\ Wired'
  <2>1. /\ device = "picking" /\ rig # "up" /\ play = 0
        /\ rate' \in Rates \cup {NoRate} /\ device' \in {"reported", "ended"}
        /\ UNCHANGED <<setup, switches, cap, play, encoding, decoding, mix, mixing, doneAtPress>>
    BY <1>7, Constants DEF PickDevices, DeviceGoes, TypeOK, Wired
  <2>2. PlayCap(rate'.out) \in Nat
    <3>1. rate'.out \in Nat
      BY <2>1, Constants DEF NoRate
    <3> QED
      BY <3>1, Constants
  <2> QED
    BY <2>1, <2>2 DEF TypeOK, Wired
<1>8. ASSUME BuildStreams \/ DeviceEnds PROVE TypeOK' /\ Wired'
  <2>1. /\ device # "picking" /\ device' \in {"streaming", "ended"}
        /\ UNCHANGED <<setup, switches, cap, play, encoding, decoding, mix, mixing, doneAtPress, rate>>
    BY <1>8 DEF BuildStreams, DeviceEnds, DeviceGoes
  <2>2. TypeOK'
    BY <2>1 DEF TypeOK
  <2>3. Wired'
    BY <2>1 DEF Wired
  <2> QED
    BY <2>2, <2>3
<1>9. ASSUME NEW n \in Bursts, Capture(n) PROVE TypeOK' /\ Wired'
  <2>1. cap \in Nat /\ n \in Nat
    BY AudioAssumption DEF TypeOK
  <2>2. cap' \in Nat
    BY <1>9, <2>1 DEF Capture
  <2> QED
    BY <1>9, <2>2 DEF Capture, TypeOK, Wired
<1>10. ASSUME NEW n \in Bursts, Pull(n) PROVE TypeOK' /\ Wired'
  <2> DEFINE m == PlayCap(rate.out)
  <2>1. m \in Nat /\ play \in 0 .. m /\ play > 0 /\ n \in Nat
        /\ play' = IF play > n THEN play - n ELSE 0
    BY <1>0, <1>10, AudioAssumption DEF Pull, TypeOK
  <2> HIDE DEF m
  <2>2. play' \in 0 .. m
    BY <2>1
  <2>3. rig = "up"
    BY <1>0, <2>1
  <2> USE DEF m
  <2> QED
    BY <1>10, <2>2, <2>3 DEF Pull, TypeOK, Wired
<1>11. ASSUME EncoderDrains PROVE TypeOK' /\ Wired'
  <2> DEFINE k == Pushes(up, cap)
             b == buf48 + k
  <2>1. cap \in Nat \ {0} /\ up \in Resamplers /\ rig = "up"
    BY <1>11 DEF EncoderDrains, TypeOK, Wired
  <2>2. up' \in Resamplers /\ up'.t \in Nat /\ k \in Nat
    BY <1>11, <2>1, FedType, PushesTakeSteps DEF EncoderDrains, Resamplers, Steps
  <2> HIDE DEF k
  <2>3. b \in Nat /\ clean \in Nat /\ drained + cap \in Nat /\ Block \in Nat \ {0}
    <3>1. Block \in Nat \ {0}
      BY Constants
    <3>2. buf48 \in Nat /\ clean \in Nat /\ drained \in Nat
      BY <3>1 DEF TypeOK
    <3> QED
      BY <2>1, <2>2, <3>1, <3>2
  <2>4. buf48' \in 0 .. Block - 1 /\ clean' \in Nat
    <3>1. buf48' = b % Block /\ clean' = clean + Block * (b \div Block)
      BY <1>11 DEF EncoderDrains, k
    <3> HIDE DEF b
    <3>2. b \div Block \in Nat /\ Block * (b \div Block) \in Nat /\ b % Block \in 0 .. Block - 1
      BY <2>3, RemainderType
    <3> QED
      BY <2>3, <3>1, <3>2
  <2>5. /\ encoder' = "framing" /\ cap' = 0 /\ drained' = drained + cap
        /\ UNCHANGED <<rig, links, stop, transmit, monitor, device, rate, play, done, frames,
                       decoder, arrived, mix, mixer, down, ready, doneAtPress>>
    BY <1>11 DEF EncoderDrains
  <2>6. TypeOK'
    <3>1. drained' \in Nat /\ cap' \in Nat
      BY <2>3, <2>5
    <3>2. {cap', ready', drained', done', frames', doneAtPress'} \subseteq Nat
      BY <2>5, <3>1 DEF TypeOK
    <3>3. encoder' = "idle" => clean' < Frame
      BY <2>5
    <3> HIDE DEF b
    <3> QED
      BY <2>2, <2>4, <2>5, <3>2, <3>3 DEF TypeOK
  <2> QED
    BY <2>1, <2>2, <2>5, <2>6, WiredKept DEF Wired
<1>12. ASSUME EncoderFrames PROVE TypeOK' /\ Wired'
  <2>1. rig = "up" /\ clean - Frame \in Nat /\ Queues(mix)
    BY <1>12, Constants DEF EncoderFrames, WholeFrame, TypeOK, Wired, Queues
  <2>2. Queues(mix)'
    <3>1. Queues(Pushed(mix, Self, CapOf(Self)))
      BY <2>1, PushedType
    <3>2. mix' = Pushed(mix, Self, CapOf(Self)) \/ mix' = mix
      BY <1>12 DEF EncoderFrames, CapOf
    <3> QED
      BY <2>1, <3>1, <3>2
  <2>3. TypeOK'
    BY <1>12, <2>1, <2>2 DEF EncoderFrames, TypeOK, Queues
  <2> QED
    BY <1>12, <2>1, <2>3, WiredKept DEF EncoderFrames, Wired
<1>13. ASSUME EncoderRests PROVE TypeOK' /\ Wired'
  <2>1. rig = "up"
    BY <1>13 DEF EncoderRests, Wired
  <2>2. clean < Frame
    BY <1>13, Constants DEF EncoderRests, WholeFrame, TypeOK
  <2>3. TypeOK'
    BY <1>13, <2>2 DEF EncoderRests, TypeOK, Threads
  <2> QED
    BY <1>13, <2>1, <2>3, WiredKept DEF EncoderRests, Wired
<1>14. ASSUME EncoderEnds PROVE TypeOK' /\ Wired'
  BY <1>14, WiredKept DEF EncoderEnds, TypeOK, Wired, Threads
<1>15. ASSUME DecoderTakes PROVE TypeOK' /\ Wired'
  <2>1. rig = "up" /\ Head(arrived) \in Peers /\ Tail(arrived) \in Seq(Peers) /\ Queues(mix)
    BY <1>15 DEF DecoderTakes, TypeOK, Wired, Queues
  <2>2. Queues(mix)'
    <3>1. CapOf(Head(arrived)) = PeerCap
      BY <2>1, AudioAssumption DEF CapOf
    <3>2. Queues(Pushed(mix, Head(arrived), PeerCap))
      BY <2>1, <3>1, PushedType
    <3> QED
      BY <1>15, <2>1, <3>2 DEF DecoderTakes
  <2>3. TypeOK'
    BY <1>15, <2>1, <2>2 DEF DecoderTakes, TypeOK, Queues
  <2> QED
    BY <1>15, <2>1, <2>3, WiredKept DEF DecoderTakes, Wired
<1>16. ASSUME DecoderEnds PROVE TypeOK' /\ Wired'
  BY <1>16, WiredKept DEF DecoderEnds, TypeOK, Wired
<1>17. ASSUME MixerTakes PROVE TypeOK' /\ Wired'
  <2>1. rig = "up" /\ Queues(mix) /\ down \in Resamplers /\ Frame \in Nat \ {0}
    BY <1>17, Constants DEF MixerTakes, TypeOK, Wired, Queues
  <2>2. Queues(mix)'
    BY <1>17, <2>1, TakenType DEF MixerTakes
  <2>3. down' \in Resamplers /\ down'.t \in Nat /\ ready' \in Nat
    BY <1>17, <2>1, FedType, PushesTakeSteps DEF MixerTakes, Resamplers, Steps
  <2>4. TypeOK'
    BY <1>17, <2>2, <2>3 DEF MixerTakes, TypeOK, Queues
  <2> QED
    BY <1>17, <2>1, <2>3, <2>4, WiredKept DEF MixerTakes, Wired
<1>18. ASSUME MixerPushes PROVE TypeOK' /\ Wired'
  <2>1. rig = "up" /\ play + ready \in Nat
    BY <1>0, <1>18 DEF MixerPushes, TypeOK, Wired
  <2>2. play' \in 0 .. PlayCap(rate.out)
    BY <1>0, <1>18, <2>1, Least DEF MixerPushes
  <2>3. TypeOK'
    BY <1>18, <2>2 DEF MixerPushes, TypeOK
  <2> QED
    BY <1>18, <2>1, <2>3, WiredKept DEF MixerPushes, Wired
<1>19. ASSUME MixerRests \/ MixerEnds PROVE TypeOK' /\ Wired'
  BY <1>19, WiredKept DEF MixerRests, MixerEnds, TypeOK, Wired, Threads
<1>20. ASSUME UNCHANGED vars PROVE TypeOK' /\ Wired'
  BY <1>20 DEF vars, TypeOK, Wired
<1> QED
  BY <1>1, <1>2, <1>3, <1>4, <1>5, <1>6, <1>7, <1>8, <1>9, <1>10, <1>11, <1>12, <1>13, <1>14,
     <1>15, <1>16, <1>17, <1>18, <1>19, <1>20
     DEF Next, Encoder, Decoder, Mixer

-----------------------------------------------------------------------------
(* Metered.                                                                *)

\* What a step may do to what the encoder has made.
LEMMA EncodingStep ==
    ASSUME Wired, [Next]_vars
    PROVE  \/ SetupGoesOn \/ EncoderDrains \/ EncoderFrames
           \/ rig' # "up" /\ UNCHANGED <<drained, done, frames>>
           \/ UNCHANGED <<rig, rate, up, drained, frames, clean, buf48>>
<1> USE DEF setup, switches, devices, encoding, decoding, mixing
<1>1. CASE SetupFails
  BY <1>1 DEF SetupFails
<1>2. CASE Stop \/ SetMonitor \/ SetTransmit \/ \E p \in Peers : Linking(p) \/ Arrive(p)
  BY <1>2 DEF Stop, SetMonitor, SetTransmit, Linking, Arrive
<1>3. CASE PickDevices \/ BuildStreams \/ DeviceEnds \/ \E n \in Bursts : Capture(n) \/ Pull(n)
  BY <1>3, Constants DEF PickDevices, BuildStreams, DeviceEnds, DeviceGoes, Capture, Pull, Wired
<1>4. CASE EncoderRests \/ EncoderEnds \/ Decoder \/ Mixer
  BY <1>4 DEF EncoderRests, EncoderEnds, Decoder, DecoderTakes, DecoderEnds,
              Mixer, MixerTakes, MixerPushes, MixerRests, MixerEnds
<1>5. CASE UNCHANGED vars
  BY <1>5 DEF vars
<1> QED
  BY <1>1, <1>2, <1>3, <1>4, <1>5 DEF Next, Encoder

\* k more samples for c more captured ones.
LEMMA MeterMoves ==
    ASSUME NEW m \in Nat, NEW k \in Nat, NEW in \in Nat, NEW out \in Nat,
           NEW n \in Nat, NEW c \in Nat
    PROVE  (m + k) * in - (n + c - 1) * out = (m * in - (n - 1) * out) + k * in - c * out
OBVIOUS

LEMMA MeteredStep == TypeOK /\ Wired /\ Metered /\ [Next]_vars => Metered'
<1> SUFFICES ASSUME TypeOK, Wired, Metered, [Next]_vars, rig' = "up" PROVE Metered'
  BY DEF Metered
<1>0. /\ Frame \in Nat /\ Block \in Nat \ {0} /\ OpusRate \in Nat \ {0}
      /\ frames \in Nat /\ clean \in Nat /\ buf48 \in Nat /\ drained \in Nat /\ cap \in Nat
      /\ Made \in Nat
  <2>1. Frame \in Nat /\ Block \in Nat \ {0} /\ OpusRate \in Nat \ {0}
    BY Constants
  <2>2. frames \in Nat /\ clean \in Nat /\ buf48 \in Nat /\ drained \in Nat /\ cap \in Nat
    BY <2>1 DEF TypeOK
  <2>3. frames * Frame \in Nat
    BY <2>1, <2>2
  <2> QED
    BY <2>1, <2>2, <2>3 DEF Made
<1>1. CASE SetupGoesOn
  <2>1. rate \in Rates /\ rig # "up"
    BY <1>1 DEF SetupGoesOn, TypeOK
  <2>2. /\ rate.in \in Nat \ {0} /\ up' = New(rate.in, OpusRate) /\ rate' = rate
        /\ drained' = 0 /\ frames' = 0 /\ clean' = 0 /\ buf48' = 0
    <3>1. rate.in \in Nat \ {0}
      BY <2>1, Constants
    <3> QED
      BY <1>1, <2>1, <3>1 DEF SetupGoesOn, Wired, devices
  <2>3. Made' = 0
    BY <1>0, <2>2 DEF Made
  <2>4. LET u == New(rate.in, OpusRate)
        IN  u.src = rate.in /\ u.dst = OpusRate /\ u.t = 0 /\ u.primed = FALSE
    BY DEF New
  <2>5. /\ up'.src = rate'.in /\ up'.dst = OpusRate /\ up'.t = 0 /\ ~ up'.primed
        /\ up'.t \in 0 .. rate'.in - 1
    <3>1. rate'.in = rate.in /\ rate.in \in Nat \ {0}
      BY <2>2
    <3>2. up' = New(rate.in, OpusRate)
      BY <2>2
    <3> QED
      BY <2>4, <3>1, <3>2
  <2> QED
    BY <2>2, <2>3, <2>5 DEF Metered
<1>2. CASE EncoderDrains
  <2> DEFINE k == Pushes(up, cap)
             b == buf48 + k
             e == Intervals(up, cap) * up.dst
  <2>1. /\ rig = "up" /\ cap \in Nat \ {0} /\ up \in Resamplers /\ rate \in Rates
        /\ rate' = rate /\ frames' = frames /\ drained' = drained + cap /\ up' = Fed(up, cap)
        /\ buf48' = b % Block /\ clean' = clean + Block * (b \div Block)
    BY <1>2 DEF EncoderDrains, TypeOK, Wired, devices
  <2>2. /\ up'.src = rate.in /\ up'.dst = OpusRate /\ up'.primed
        /\ up'.t = up.t + k * rate.in - e /\ up'.t \in Nat /\ up' \in Resamplers
        /\ Steps(k, up.t, e, rate.in)
        /\ up.t \in 0 .. rate.in - 1 /\ rate.in \in Nat \ {0}
        /\ e = (IF drained = 0 THEN cap - 1 ELSE cap) * OpusRate
    <3>1. up.src = rate.in /\ up.dst = OpusRate /\ (up.primed <=> drained # 0)
          /\ up.t \in 0 .. rate.in - 1
      BY <2>1 DEF Metered
    <3>2. Fed(up, cap) \in Resamplers /\ Fed(up, cap).t \in Nat
      BY <2>1, FedType DEF Resamplers
    <3>3. /\ Fed(up, cap).src = up.src /\ Fed(up, cap).dst = up.dst /\ Fed(up, cap).primed
          /\ Fed(up, cap).primed \in BOOLEAN
          /\ Fed(up, cap).t = up.t + k * up.src - e
      BY <2>1, <3>2, FedType DEF Resamplers
    <3>4. Steps(k, up.t, e, up.src)
      BY <2>1, PushesTakeSteps
    <3>5. Intervals(up, cap) = IF drained = 0 THEN cap - 1 ELSE cap
      BY <3>1 DEF Intervals
    <3>6. rate.in \in Nat \ {0}
      BY <2>1, Constants
    <3> HIDE DEF k
    <3> QED
      BY <2>1, <3>1, <3>2, <3>3, <3>4, <3>5, <3>6
  <2>3. k \in Nat
    BY <2>2 DEF Steps
  <2>4. Made' = Made + k
    <3> HIDE DEF k
    <3>1. b \in Nat
      BY <1>0, <2>3
    <3> HIDE DEF b
    <3>2. Block * (b \div Block) \in Nat /\ b % Block \in Nat /\ Block * (b \div Block) + (b % Block) = b
      BY <1>0, <3>1, RemainderType
    <3>3. frames * Frame \in Nat
      BY <1>0
    <3>4. Made' = frames * Frame + (clean + Block * (b \div Block)) + (b % Block)
      BY <2>1 DEF Made
    <3>5. Made' = frames * Frame + clean + b
      BY <1>0, <3>2, <3>3, <3>4
    <3> QED
      BY <1>0, <2>3, <3>3, <3>5 DEF Made, b
  <2> HIDE DEF k, b, e
  <2>5. e \in Nat
    <3>1. (IF drained = 0 THEN cap - 1 ELSE cap) \in Nat
      BY <2>1
    <3> QED
      BY <1>0, <2>2, <3>1
  <2>6. up'.t \in 0 .. rate.in - 1
    BY <2>2, <2>3, <2>5 DEF Steps
  <2>7. drained' # 0
    BY <1>0, <2>1
  <2>8. Made' * rate.in - (drained' - 1) * OpusRate = up'.t
    <3>1. Made' * rate.in - (drained' - 1) * OpusRate
            = (Made * rate.in - (drained - 1) * OpusRate) + k * rate.in - cap * OpusRate
      BY <1>0, <2>1, <2>2, <2>3, <2>4, MeterMoves
    <3>2. CASE drained # 0
      <4>1. Made * rate.in - (drained - 1) * OpusRate = up.t
        BY <2>1, <3>2 DEF Metered
      <4> QED
        BY <2>2, <3>1, <3>2, <4>1
    <3>3. CASE drained = 0
      <4>1. Made = 0 /\ up.t = 0
        BY <2>1, <3>3 DEF Metered
      <4>2. Made * rate.in = 0 /\ (drained - 1) * OpusRate = 0 - OpusRate
            /\ (cap - 1) * OpusRate = cap * OpusRate - OpusRate
            /\ k * rate.in \in Int /\ cap * OpusRate \in Int
        BY <1>0, <2>2, <2>3, <3>3, <4>1
      <4>3. e = cap * OpusRate - OpusRate
        BY <2>2, <3>3, <4>2
      <4>4. up'.t = k * rate.in - e
        BY <2>2, <2>5, <4>1, <4>2
      <4> DEFINE x == cap * OpusRate
                 y == k * rate.in
                 z == Made * rate.in
                 w == (drained - 1) * OpusRate
      <4>5. /\ x \in Int /\ y \in Int /\ z = 0 /\ w = 0 - OpusRate
            /\ e = x - OpusRate /\ up'.t = y - e
            /\ Made' * rate.in - (drained' - 1) * OpusRate = (z - w) + y - x
        BY <3>1, <4>2, <4>3, <4>4
      <4> HIDE DEF x, y, z, w
      <4> QED
        BY <1>0, <4>5
    <3> QED
      BY <3>2, <3>3
  <2> QED
    BY <2>1, <2>2, <2>6, <2>7, <2>8 DEF Metered
<1>3. CASE EncoderFrames
  <2>1. /\ frames' = frames + 1 /\ clean' = clean - Frame
        /\ UNCHANGED <<rig, rate, up, drained, buf48>>
    BY <1>3 DEF EncoderFrames, setup, devices
  <2>2. (frames + 1) * Frame = frames * Frame + Frame /\ frames * Frame \in Nat
    BY <1>0
  <2>3. Made' = Made
    BY <1>0, <2>1, <2>2 DEF Made
  <2> QED
    BY <2>1, <2>3 DEF Metered
<1>4. CASE UNCHANGED <<rig, rate, up, drained, frames, clean, buf48>>
  BY <1>4 DEF Metered, Made
<1> QED
  BY <1>1, <1>2, <1>3, <1>4, EncodingStep

-----------------------------------------------------------------------------
(* Rested.                                                                 *)

\* Frames are only added, so that what was framed once stays framed.
LEMMA FramedStays ==
    ASSUME NEW d \in Int, NEW f \in Nat, NEW g \in Nat, f <= g,
           NEW size \in Nat, NEW rest \in Int, NEW in \in Nat,
           d <= (f * size + rest) * in
    PROVE  d <= (g * size + rest) * in
<1>1. f * size <= g * size /\ f * size \in Int /\ g * size \in Int
  BY Grows
<1> DEFINE x == f * size + rest
           y == g * size + rest
<1>2. x \in Int /\ y \in Int /\ x <= y /\ d <= x * in
  BY <1>1
<1> HIDE DEF x, y
<1>3. x * in <= y * in /\ x * in \in Int /\ y * in \in Int
  BY <1>2, Grows
<1>4. d <= y * in
  BY <1>2, <1>3
<1> QED
  BY <1>4 DEF y

LEMMA RestedStep == TypeOK /\ Wired /\ Metered /\ Rested /\ [Next]_vars => Rested'
<1> SUFFICES ASSUME TypeOK, Wired, Metered, Rested, [Next]_vars PROVE Rested'
  OBVIOUS
<1> USE DEF setup, switches, devices, encoding, decoding, mixing
<1>0. /\ Frame \in Nat \ {0} /\ Block \in Nat \ {0} /\ OpusRate \in Nat \ {0}
      /\ frames \in Nat /\ clean \in Nat /\ buf48 \in 0 .. Block - 1
      /\ done \in Nat /\ drained \in Nat /\ doneAtPress \in Nat /\ cap \in Nat
  BY Constants DEF TypeOK
<1>1. CASE SetTransmit
  <2>1. /\ UNCHANGED <<rig, rate, done, drained, frames>>
        /\ doneAtPress' = 0 \/ doneAtPress' = done
    BY <1>1 DEF SetTransmit
  <2> QED
    BY <1>0, <2>1 DEF Rested
<1>2. CASE EncoderRests
  <2>1. /\ rig = "up" /\ rate \in Rates /\ clean < Frame /\ rate.in \in Nat \ {0}
        /\ done' = drained /\ UNCHANGED <<rig, rate, drained, frames, doneAtPress>>
    BY <1>0, <1>2, Constants DEF EncoderRests, WholeFrame, Wired
  <2>2. CASE drained = 0
    BY <1>0, <2>1, <2>2 DEF Rested
  <2>3. CASE drained # 0
    <3> DEFINE x == Made * rate.in
               a == (drained - 1) * OpusRate
               m == frames * Frame + (Frame + Block - 2)
    <3>1. Made \in Nat /\ m \in Nat /\ Made <= m
      <4>1. frames * Frame \in Nat
        BY <1>0
      <4> QED
        BY <1>0, <2>1, <4>1 DEF Made
    <3>2. x - a = up.t /\ up.t \in Nat /\ x \in Int /\ a \in Int
      <4>1. x - a = up.t /\ up.t \in 0 .. rate.in - 1
        BY <2>1, <2>3 DEF Metered
      <4> QED
        BY <1>0, <2>1, <3>1, <4>1
    <3>3. a <= x
      <4> HIDE DEF a, x
      <4> QED
        BY <3>2
    <3>4. x <= m * rate.in /\ m * rate.in \in Int
      <4> HIDE DEF m
      <4> QED
        BY <2>1, <3>1, Grows
    <3>5. a <= m * rate.in
      <4> HIDE DEF a, x, m
      <4> QED
        BY <3>2, <3>3, <3>4
    <3> QED
      BY <1>0, <2>1, <3>5 DEF Rested
  <2> QED
    BY <2>2, <2>3
<1>3. CASE EncoderFrames
  <2>1. /\ rig = "up" /\ rate \in Rates /\ rate.in \in Nat /\ frames' = frames + 1
        /\ UNCHANGED <<rig, rate, done, drained, doneAtPress>>
    BY <1>3, Constants DEF EncoderFrames, Wired
  <2>2. CASE done # 0
    <3> DEFINE d == (done - 1) * OpusRate
    <3>1. d \in Int /\ d <= (frames * Frame + (Frame + Block - 2)) * rate.in
      BY <1>0, <2>1, <2>2 DEF Rested
    <3>2. frames <= frames' /\ frames' \in Nat /\ Frame + Block - 2 \in Int
      BY <1>0, <2>1
    <3> HIDE DEF d
    <3>3. d <= (frames' * Frame + (Frame + Block - 2)) * rate.in
      BY <1>0, <2>1, <3>1, <3>2, FramedStays
    <3> QED
      BY <2>1, <3>3 DEF Rested, d
  <2>3. CASE done = 0
    BY <2>1, <2>3 DEF Rested
  <2> QED
    BY <2>2, <2>3
<1>4. CASE EncoderDrains
  BY <1>0, <1>4 DEF EncoderDrains, Rested
<1>5. CASE SetupGoesOn
  <2>1. UNCHANGED <<done, drained, frames, doneAtPress>> /\ done = 0
    BY <1>5 DEF SetupGoesOn, Wired, TypeOK
  <2> QED
    BY <2>1 DEF Rested
<1>6. CASE \/ rig' # "up" /\ UNCHANGED <<done, drained, doneAtPress>>
           \/ UNCHANGED <<rig, rate, done, drained, frames, doneAtPress>>
  BY <1>6 DEF Rested
<1>7. CASE \/ SetupFails \/ Stop \/ SetMonitor \/ \E p \in Peers : Linking(p) \/ Arrive(p)
  BY <1>6, <1>7 DEF SetupFails, Stop, SetMonitor, Linking, Arrive
<1>8. CASE PickDevices \/ BuildStreams \/ DeviceEnds \/ \E n \in Bursts : Capture(n) \/ Pull(n)
  BY <1>6, <1>8, Constants DEF PickDevices, BuildStreams, DeviceEnds, DeviceGoes, Capture, Pull, Wired
<1>9. CASE EncoderEnds \/ Decoder \/ Mixer
  BY <1>6, <1>9 DEF EncoderEnds, Decoder, DecoderTakes, DecoderEnds,
              Mixer, MixerTakes, MixerPushes, MixerRests, MixerEnds
<1>10. CASE UNCHANGED vars
  BY <1>6, <1>10 DEF vars
<1> QED
  BY <1>1, <1>2, <1>3, <1>4, <1>5, <1>7, <1>8, <1>9, <1>10 DEF Next, Encoder

-----------------------------------------------------------------------------
(* Refilled.                                                               *)

\* A frame becomes at most MostPerFrame samples, whatever the phase.
LEMMA FrameFits ==
    ASSUME NEW r \in Resamplers, r.src = OpusRate, r.dst = rate.out
    PROVE  Pushes(r, Frame) \in Nat /\ Pushes(r, Frame) <= MostPerFrame
<1> DEFINE k == Pushes(r, Frame)
           i == Intervals(r, Frame)
           a == Frame * rate.out
           c == MostPerFrame
<1>1. Frame \in Nat \ {0} /\ OpusRate \in Nat \ {0} /\ rate.out \in Nat \ {0} /\ r.t \in Nat
  BY Constants DEF Resamplers
<1>2. Steps(k, r.t, i * rate.out, OpusRate)
  BY <1>1, PushesTakeSteps
<1>3. i \in Nat /\ i <= Frame
  BY <1>1 DEF Intervals
<1>4. a \in Nat
  BY <1>1
<1>5. c \in Nat /\ c * OpusRate - a \in 0 .. OpusRate - 1
  <2> HIDE DEF a
  <2>1. c = CeilDiv(a, OpusRate)
    BY DEF MostPerFrame, a
  <2> QED
    BY <1>1, <1>4, <2>1, Ceiling
<1> DEFINE e == i * rate.out
<1>6. e <= a /\ e \in Nat
  <2> HIDE DEF i
  <2> QED
    BY <1>1, <1>3, Grows
<1>7. Steps(k, r.t, e, OpusRate)
  BY <1>2
<1> HIDE DEF k, i, a, c, e
<1>8. k \in Nat /\ k * OpusRate \in Int /\ c * OpusRate \in Int
  BY <1>1, <1>5, <1>7 DEF Steps
<1>9. CASE r.t < e
  <2>1. r.t + k * OpusRate - e \in 0 .. OpusRate - 1
    BY <1>7, <1>9 DEF Steps
  <2>2. k * OpusRate < c * OpusRate + OpusRate
    BY <1>1, <1>4, <1>5, <1>6, <1>8, <2>1
  <2>3. k <= c
    BY <1>1, <1>5, <1>8, <2>2, Shrinks
  <2> QED
    BY <1>8, <2>3 DEF k, c
<1>10. CASE r.t >= e
  <2>1. k = 0
    BY <1>7, <1>10 DEF Steps
  <2>2. k <= c
    BY <1>5, <2>1
  <2> QED
    BY <1>8, <2>2 DEF k, c
<1> QED
  BY <1>1, <1>6, <1>9, <1>10

LEMMA FrameCounts ==
    ASSUME rate \in Rates
    PROVE  MostPerFrame \in Nat \ {0} /\ Target(rate.out) \in Nat
<1> DEFINE a == Frame * rate.out
<1>1. Frame \in Nat \ {0} /\ OpusRate \in Nat \ {0} /\ rate.out \in Nat \ {0}
      /\ Target(rate.out) \in Nat
  BY Constants
<1>2. a \in Nat \ {0}
  BY <1>1
<1>3. MostPerFrame = CeilDiv(a, OpusRate)
  BY DEF MostPerFrame
<1> HIDE DEF a
<1>4. MostPerFrame \in Nat /\ MostPerFrame * OpusRate - a \in 0 .. OpusRate - 1
  BY <1>1, <1>2, <1>3, Ceiling
<1>5. MostPerFrame # 0
  BY <1>1, <1>2, <1>4
<1> QED
  BY <1>1, <1>4, <1>5

LEMMA RefilledStep == TypeOK /\ Wired /\ Refilled /\ [Next]_vars => Refilled'
<1> SUFFICES ASSUME TypeOK, Wired, Refilled, [Next]_vars, rig' = "up" PROVE Refilled'
  BY DEF Refilled
<1> USE DEF setup, switches, devices, encoding, decoding, mixing
<1> DEFINE top == Target(rate.out) - 1
<1>0. play \in Nat /\ ready \in Nat
  <2>1. rate.out \in Nat
    <3>1. CASE rate = NoRate
      BY <3>1 DEF NoRate
    <3>2. CASE rate \in Rates
      BY <3>2, Constants
    <3> QED
      BY <3>1, <3>2 DEF TypeOK
  <2>2. PlayCap(rate.out) \in Nat
    BY <2>1, Constants
  <2> QED
    BY <2>2 DEF TypeOK
<1>1. CASE SetupGoesOn
  <2>1. /\ rate \in Rates /\ play' = 0 /\ ready' = 0 /\ rate' = rate /\ mixer' = "idle"
        /\ down' = New(OpusRate, rate.out)
    BY <1>1 DEF SetupGoesOn, TypeOK, Wired
  <2>2. MostPerFrame \in Nat \ {0} /\ Target(rate.out) \in Nat /\ MostPerFrame' = MostPerFrame
    BY <2>1, FrameCounts DEF MostPerFrame
  <2>3. OpusRate \in Nat \ {0} /\ rate.out \in Nat \ {0}
    BY <2>1, Constants
  <2>4. down'.src = OpusRate /\ down'.dst = rate.out
    BY <2>1, <2>3, NewType
  <2> QED
    BY <2>1, <2>2, <2>4 DEF Refilled
<1>2. CASE MixerTakes
  <2>1. /\ rig = "up" /\ rate \in Rates /\ down \in Resamplers /\ play < Target(rate.out)
        /\ mixer' = "pushing" /\ down' = Fed(down, Frame) /\ ready' = Pushes(down, Frame)
        /\ UNCHANGED <<rate, play>>
    BY <1>2 DEF MixerTakes, BelowTarget, Wired
  <2>2. down.src = OpusRate /\ down.dst = rate.out
    BY <2>1 DEF Refilled
  <2>3. down'.src = OpusRate /\ down'.dst = rate.out
    BY <2>1, <2>2, FedType, Constants
  <2>4. ready' <= MostPerFrame /\ MostPerFrame' = MostPerFrame
    BY <2>1, <2>2, FrameFits DEF MostPerFrame
  <2>5. play <= top
    BY <1>0, <2>1, FrameCounts
  <2> QED
    BY <2>1, <2>3, <2>4, <2>5 DEF Refilled
<1>3. CASE MixerPushes
  <2>1. /\ rig = "up" /\ rate \in Rates /\ mixer = "pushing" /\ mixer' = "refill" /\ ready' = 0
        /\ play' = Min({play + ready, PlayCap(rate.out)}) /\ UNCHANGED <<rate, down>>
    BY <1>3 DEF MixerPushes, Wired
  <2>2. play <= top /\ ready <= MostPerFrame /\ down.src = OpusRate /\ down.dst = rate.out
    BY <2>1 DEF Refilled
  <2>3. play' \in Nat /\ play' <= play + ready
    <3>1. play + ready \in Nat /\ PlayCap(rate.out) \in Nat
      BY <1>0, <2>1, Constants
    <3> QED
      BY <2>1, <3>1, Least
  <2>4. play' <= top + MostPerFrame /\ MostPerFrame' = MostPerFrame
    BY <1>0, <2>1, <2>2, <2>3, FrameCounts DEF MostPerFrame
  <2> QED
    BY <2>1, <2>2, <2>4 DEF Refilled
<1>4. ASSUME NEW n \in Bursts, Pull(n) PROVE Refilled'
  <2>1. /\ rig = "up" /\ rate \in Rates
        /\ UNCHANGED <<rate, mixer, down, ready>> /\ MostPerFrame' = MostPerFrame
    BY <1>4 DEF Pull, Wired, MostPerFrame
  <2>2. play' \in Nat /\ play' <= play
    BY <1>0, <1>4, AudioAssumption DEF Pull
  <2> QED
    BY <1>0, <2>1, <2>2, FrameCounts DEF Refilled
<1>5. CASE UNCHANGED <<rig, rate, mixer, down, ready, play>>
  BY <1>5 DEF Refilled, MostPerFrame
<1>6. CASE MixerRests \/ MixerEnds
  BY <1>6 DEF MixerRests, MixerEnds, Refilled, MostPerFrame, Wired
<1>7. CASE \/ SetupFails \/ Stop \/ SetMonitor \/ SetTransmit
           \/ \E p \in Peers : Linking(p) \/ Arrive(p)
  BY <1>5, <1>7 DEF SetupFails, Stop, SetMonitor, SetTransmit, Linking, Arrive
<1>8. CASE PickDevices \/ BuildStreams \/ DeviceEnds \/ \E n \in Bursts : Capture(n)
  BY <1>5, <1>8, Constants DEF PickDevices, BuildStreams, DeviceEnds, DeviceGoes, Capture, Wired
<1>9. CASE Encoder \/ Decoder
  BY <1>5, <1>9 DEF Encoder, EncoderDrains, EncoderFrames, EncoderRests, EncoderEnds,
                    Decoder, DecoderTakes, DecoderEnds
<1>10. CASE UNCHANGED vars
  BY <1>5, <1>10 DEF vars
<1> QED
  BY <1>1, <1>2, <1>3, <1>4, <1>6, <1>7, <1>8, <1>9, <1>10 DEF Next, Mixer

-----------------------------------------------------------------------------
(* The theorems.                                                           *)

LEMMA RigInvariant == Spec => []RigInv
<1>1. Init => RigInv
  <2> SUFFICES ASSUME Init PROVE RigInv
    OBVIOUS
  <2>1. Metered /\ Refilled
    BY DEF Init, Metered, Refilled
  <2>2. Rested
    BY DEF Init, Rested
  <2> QED
    BY <2>1, <2>2, TypeInit DEF RigInv
<1>2. RigInv /\ [Next]_vars => RigInv'
  BY TypeStep, MeteredStep, RestedStep, RefilledStep DEF RigInv
<1> QED
  BY <1>1, <1>2, PTL DEF Spec

\* Types; no queue of the mix map and no ring exceeds its cap, whatever the
\* speeds of the threads (encode_loop, decode_loop, mixer_loop).
THEOREM RigTypeTheorem == Spec => []TypeOK
<1>1. RigInv => TypeOK
  BY DEF RigInv
<1> QED
  BY <1>1, RigInvariant, PTL

\* No sample is lost or invented between microphone and codec, for any two
\* rates and however the samples are cut into chunks (audio.rs:64-90, 371-384).
THEOREM NoDriftTheorem == Spec => []NoDrift
<1>1. RigInv => NoDrift
  <2> SUFFICES ASSUME RigInv, rig = "up" PROVE Made = Promised(rate.in, OpusRate, drained)
    BY DEF NoDrift, Made
  <2>1. /\ rate.in \in Nat \ {0} /\ OpusRate \in Nat \ {0} /\ drained \in Nat
    BY Constants DEF RigInv, Wired, TypeOK
  <2>2. CASE drained = 0
    BY <2>2 DEF RigInv, Metered, Promised
  <2>3. CASE drained # 0
    <3> DEFINE a == (drained - 1) * OpusRate
    <3>1. a \in Nat
      <4>1. drained - 1 \in Nat
        BY <2>1, <2>3
      <4> QED
        BY <2>1, <4>1
    <3>2. Made * rate.in - a \in 0 .. rate.in - 1
      BY <2>3 DEF RigInv, Metered
    <3>3. Made \in Int
      <4>1. frames \in Nat /\ Frame \in Nat /\ clean \in Nat /\ buf48 \in Int
        BY Constants DEF RigInv, TypeOK
      <4>2. frames * Frame \in Int
        BY <4>1
      <4> QED
        BY <4>1, <4>2 DEF Made
    <3>4. Promised(rate.in, OpusRate, drained) = CeilDiv(a, rate.in)
      BY <2>3 DEF Promised
    <3> HIDE DEF a
    <3>5. CeilDiv(a, rate.in) \in Nat /\ CeilDiv(a, rate.in) * rate.in - a \in 0 .. rate.in - 1
      BY <2>1, <3>1, Ceiling
    <3> QED
      BY <2>1, <3>1, <3>2, <3>3, <3>4, <3>5, CeilingIsUnique
  <2> QED
    BY <2>2, <2>3
<1> QED
  BY <1>1, RigInvariant, PTL

\* The playback ring holds 60 ms and at most a frame, for any rates
\* (audio.rs:442-489).
THEOREM LatencyTheorem == Spec => []LatencyIsBounded
<1>1. RigInv => LatencyIsBounded
  <2> SUFFICES ASSUME RigInv, rig = "up"
               PROVE  play + ready <= Target(rate.out) - 1 + MostPerFrame
    BY DEF LatencyIsBounded
  <2>1. rate \in Rates
    BY DEF RigInv, Wired
  <2>2. MostPerFrame \in Nat /\ Target(rate.out) \in Nat /\ PlayCap(rate.out) \in Nat
    BY <2>1, FrameCounts, Constants
  <2>3. play \in Nat /\ ready \in Nat
    BY <2>2 DEF RigInv, TypeOK
  <2> QED
    BY <2>2, <2>3 DEF RigInv, Refilled
<1> QED
  BY <1>1, RigInvariant, PTL

\* How far what was finished with may be ahead of the next frame.
LEMMA Behind ==
    ASSUME NEW d \in Nat, NEW x \in Nat, NEW y \in Nat, NEW rt \in Nat \ {0},
           d * rt <= x + y + rt
    PROVE  d - x \div rt <= CeilDiv(y, rt) + 1
<1> DEFINE first == x \div rt
           c == CeilDiv(y, rt)
           z == d - first
           w == c + 1
<1>1. /\ first \in Int /\ first * rt <= x /\ x < first * rt + rt
      /\ c \in Nat /\ c * rt - y \in 0 .. rt - 1
  BY Quotient, Ceiling
<1> HIDE DEF first, c
<1>2. first * rt \in Int /\ c * rt \in Int /\ d * rt \in Int
  BY <1>1
<1>3. z * rt = d * rt - first * rt /\ w * rt = c * rt + rt /\ z \in Int /\ w \in Int
  BY <1>1
<1>4. z * rt < w * rt + rt
  BY <1>1, <1>2, <1>3
<1> HIDE DEF z, w
<1>5. z <= w
  BY <1>3, <1>4, Shrinks
<1> QED
  BY <1>5 DEF z, w, first, c

\* A frame that is sent has at most 30 ms of what the encoder had finished with
\* when transmission was turned on (audio.rs:398).
THEOREM BacklogTheorem == Spec => []PressSendsNoBacklog
<1>1. RigInv => PressSendsNoBacklog
  <2> SUFFICES ASSUME RigInv, encoder = "framing"
               PROVE  Late <= CeilDiv((Frame + Block - 2) * rate.in, OpusRate) + 1
    BY DEF PressSendsNoBacklog
  <2> DEFINE x == frames * Frame * rate.in
             y == (Frame + Block - 2) * rate.in
             d == doneAtPress
  <2>1. /\ rig = "up" /\ rate.in \in Nat /\ Frame \in Nat \ {0} /\ Block \in Nat \ {0}
        /\ OpusRate \in Nat \ {0} /\ frames \in Nat /\ done \in Nat /\ d \in Nat /\ d <= done
    BY Constants DEF RigInv, TypeOK, Wired, Rested
  <2>2. x \in Nat /\ y \in Nat
    <3>1. frames * Frame \in Nat /\ Frame + Block - 2 \in Nat
      BY <2>1
    <3> QED
      BY <2>1, <3>1
  <2>3. CeilDiv(y, OpusRate) \in Nat
    BY <2>1, <2>2, Ceiling
  <2>4. CASE d = 0
    <3>1. Late = 0
      <4> DEFINE first == (frames * Frame * rate.in) \div OpusRate
      <4>1. first \in Nat
        BY <2>1, <2>2, Quotient
      <4>2. Late = IF d > first THEN d - first ELSE 0
        BY DEF Late
      <4> HIDE DEF first
      <4> QED
        BY <2>4, <4>1, <4>2
    <3> QED
      BY <2>3, <3>1
  <2>5. CASE d # 0
    <3>1. (done - 1) * OpusRate <= (frames * Frame + (Frame + Block - 2)) * rate.in
      BY <2>1, <2>5 DEF RigInv, Rested
    <3>2. (frames * Frame + (Frame + Block - 2)) * rate.in = x + y
      <4>1. frames * Frame \in Int
        BY <2>1
      <4> QED
        BY <2>1, <4>1
    <3>3. (done - 1) * OpusRate = done * OpusRate - OpusRate /\ done * OpusRate \in Int
      BY <2>1
    <3>4. d * OpusRate <= done * OpusRate /\ d * OpusRate \in Int
      BY <2>1, Grows
    <3>5. d * OpusRate <= x + y + OpusRate
      <4> HIDE DEF x, y
      <4> QED
        BY <2>1, <2>2, <3>1, <3>2, <3>3, <3>4
    <3> HIDE DEF x, y
    <3>6. d - x \div OpusRate <= CeilDiv(y, OpusRate) + 1
      BY <2>1, <2>2, <3>5, Behind
    <3>7. Late = IF d > x \div OpusRate THEN d - x \div OpusRate ELSE 0
      BY DEF Late, x
    <3>8. Late <= CeilDiv(y, OpusRate) + 1
      BY <2>3, <3>6, <3>7
    <3> QED
      BY <3>8 DEF y
  <2> QED
    BY <2>4, <2>5
<1> QED
  BY <1>1, RigInvariant, PTL

=============================================================================
