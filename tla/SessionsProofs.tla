--------------------------- MODULE SessionsProofs ---------------------------
(* What holds of sessions for any codes, periods and numbers of attempts.  *)
EXTENDS Sessions, TLAPS

\* Reading the clock, the sessions and the histories is all the proofs need.
LEMMA TypeInit == Init => TypeOK
BY SessionConstants DEF Init, TypeOK, None

LEMMA TypeStep == TypeOK /\ [Next]_vars => TypeOK'
<1> SUFFICES ASSUME TypeOK, [Next]_vars PROVE TypeOK'
  OBVIOUS
<1> USE SessionConstants
<1>1. ASSUME NEW code \in Codes, Create(code) PROVE TypeOK'
  <2>1. created + 1 \in RoomIds
    BY <1>1 DEF Create, TypeOK, RoomIds
  <2> DEFINE s == [room |-> created + 1, created |-> now, last_active |-> now, attempts |-> 0]
  <2>2. s \in Session /\ s.created = now /\ s.last_active = now /\ now \in Nat
    BY <2>1 DEF Session, TypeOK
  <2>3. sessions' = [sessions EXCEPT ![code] = s] /\ now' = now
    BY <1>1 DEF Create
  <2>4. /\ sessions' \in [Codes -> Session \cup {None}]
        /\ \A k \in Codes : /\ sessions'[k].created <= sessions'[k].last_active
                            /\ sessions'[k].last_active <= now'
    BY <2>2, <2>3 DEF TypeOK
  <2> QED
    BY <1>1, <2>1, <2>4 DEF Create, TypeOK
<1>2. ASSUME NEW code \in Codes, JoinRight(code) PROVE TypeOK'
  <2>1. sessions[code] \in Session
    BY <1>2 DEF JoinRight, Live, TypeOK
  <2> QED
    BY <1>2, <2>1 DEF JoinRight, TypeOK, Session
<1>3. ASSUME NEW code \in Codes, JoinWrong(code) PROVE TypeOK'
  <2>1. sessions[code] \in Session /\ sessions[code].attempts + 1 \in 0 .. MaxAttempts
    BY <1>3 DEF JoinWrong, Live, Unlocked, TypeOK, Session
  <2> QED
    BY <1>3, <2>1 DEF JoinWrong, TypeOK, Session
<1>4. ASSUME NEW r \in RoomIds, Enter(r) \/ LeaveEmpty(r) PROVE TypeOK'
  BY <1>4 DEF Enter, LeaveEmpty, TypeOK
<1>5. ASSUME Reap PROVE TypeOK'
  <2>1. ASSUME NEW code \in Codes
        PROVE  /\ sessions'[code] \in Session \cup {None}
               /\ sessions'[code].created <= sessions'[code].last_active
               /\ sessions'[code].last_active <= now
    BY <1>5 DEF Reap, Reaped, Live, None, TypeOK, Session
  <2>2. sessions' = [code \in Codes |-> sessions'[code]]
    BY <1>5 DEF Reap
  <2> QED
    BY <1>5, <2>1, <2>2 DEF Reap, TypeOK
<1>6. ASSUME Tick PROVE TypeOK'
  <2>1. now' \in Nat /\ now' = now + 1 /\ swept <= now' /\ now' <= swept + SweepEvery
    BY <1>6 DEF Tick, TypeOK
  <2>2. \A code \in Codes : sessions[code].last_active \in Nat
    BY DEF TypeOK, Session, None
  <2> QED
    BY <1>6, <2>1, <2>2 DEF Tick, TypeOK
<1>7. ASSUME UNCHANGED vars PROVE TypeOK'
  BY <1>7 DEF vars, TypeOK
<1> QED
  BY <1>1, <1>2, <1>3, <1>4, <1>5, <1>6, <1>7 DEF Next

-----------------------------------------------------------------------------
\* What the last sweep left behind was young, and active or within its grace;
\* what came later is younger.  While a room is empty, its session's last
\* activity is its last resolution or the end of a stay.
Kept(code) ==
    LET s == sessions[code]
    IN  /\ swept - s.created <= MaxAge
        /\ swept - s.last_active <= Grace
        /\ s.room \notin occupied => \/ s.last_active <= resolved[s.room]
                                    \/ s.last_active <= emptied[s.room]

SweepInv == \A code \in Codes : Live(code) => Kept(code)

LEMMA SweepInit == Init => SweepInv
BY DEF Init, SweepInv, Live

LEMMA SweepStep == TypeOK /\ SweepInv /\ [Next]_vars => SweepInv'
<1> SUFFICES ASSUME TypeOK, SweepInv, [Next]_vars, NEW code \in Codes, Live(code)'
             PROVE  Kept(code)'
  BY DEF SweepInv
<1> USE SessionConstants DEF Kept
<1>0. /\ now \in Nat /\ swept \in Nat /\ swept <= now
      /\ sessions[code] \in Session \cup {None}
      /\ sessions[code].last_active <= now
      /\ None.last_active = 0 /\ None.created = 0 /\ None.room = 0
  BY DEF TypeOK, None
<1>1. ASSUME NEW k \in Codes, Create(k)
      PROVE  Kept(code)'
  <2>1. created + 1 \in RoomIds /\ swept' = swept /\ occupied' = occupied
        /\ resolved' = [resolved EXCEPT ![created + 1] = now]
        /\ emptied' = [emptied EXCEPT ![created + 1] = now]
    BY <1>1 DEF Create, TypeOK, RoomIds
  <2>2. CASE k = code
    <3>1. sessions'[code] = [room |-> created + 1, created |-> now, last_active |-> now,
                             attempts |-> 0]
      BY <1>1, <2>2 DEF Create, TypeOK
    <3>2. resolved'[created + 1] = now
      BY <2>1 DEF TypeOK
    <3> QED
      BY <1>0, <2>1, <3>1, <3>2
  <2>3. CASE k # code
    <3>1. sessions'[code] = sessions[code]
      BY <1>1, <2>3 DEF Create, TypeOK
    <3>2. Live(code) /\ sessions[code] \in Session
      BY <1>0, <3>1 DEF Live
    <3>3. sessions[code].room \in RoomIds /\ sessions[code].last_active \in Nat
      BY <3>2 DEF Session
    <3>4. /\ resolved'[sessions[code].room] \in {now, resolved[sessions[code].room]}
          /\ emptied'[sessions[code].room] \in {now, emptied[sessions[code].room]}
      BY <2>1, <3>3 DEF TypeOK
    <3> QED
      BY <1>0, <2>1, <3>1, <3>2, <3>3, <3>4 DEF SweepInv
  <2> QED
    BY <2>2, <2>3
<1>2. ASSUME NEW k \in Codes, JoinRight(k)
      PROVE  Kept(code)'
  <2>1. /\ swept' = swept /\ occupied' = occupied /\ emptied' = emptied
        /\ resolved' = [resolved EXCEPT ![sessions[k].room] = now]
        /\ sessions' = [sessions EXCEPT ![k].last_active = now]
    BY <1>2 DEF JoinRight
  <2>2. Live(code) /\ sessions[code] \in Session
    BY <1>0, <1>2, <2>1 DEF Live, JoinRight, TypeOK
  <2>3. /\ sessions[code].room \in RoomIds /\ sessions[code].last_active \in Nat
        /\ sessions[code].created \in Nat
    BY <2>2 DEF Session
  <2>4. resolved'[sessions[code].room] \in {now, resolved[sessions[code].room]}
    BY <2>1, <2>3 DEF TypeOK
  <2>5. CASE k = code
    <3>1. sessions'[code] = [sessions[code] EXCEPT !.last_active = now]
      BY <2>1, <2>5 DEF TypeOK
    <3>2. /\ sessions'[code].last_active = now
          /\ sessions'[code].created = sessions[code].created
          /\ sessions'[code].room = sessions[code].room
      BY <2>2, <3>1 DEF Session
    <3>3. resolved'[sessions[code].room] = now
      BY <2>1, <2>3, <2>5 DEF TypeOK
    <3>4. Kept(code)
      BY <2>2 DEF SweepInv
    <3>5. swept - sessions[code].created <= MaxAge
      BY <3>4
    <3>6. swept - now <= Grace
      BY <1>0
    <3>7. now \in Nat /\ now <= now
      BY <1>0
    <3> QED
      BY <2>1, <3>2, <3>3, <3>5, <3>6, <3>7
  <2>6. CASE k # code
    <3>1. sessions'[code] = sessions[code]
      BY <2>1, <2>6 DEF TypeOK
    <3>2. Kept(code)
      BY <2>2 DEF SweepInv
    <3>3. CASE resolved'[sessions[code].room] = now
      BY <1>0, <2>1, <3>1, <3>2, <3>3
    <3>4. CASE resolved'[sessions[code].room] = resolved[sessions[code].room]
      <4>1. sessions'[code].room \notin occupied' <=> sessions[code].room \notin occupied
        BY <2>1, <3>1
      <4>2. emptied'[sessions'[code].room] = emptied[sessions[code].room]
        BY <2>1, <3>1
      <4>3. resolved'[sessions'[code].room] = resolved[sessions[code].room]
        BY <3>1, <3>4
      <4> QED
        BY <2>1, <3>1, <3>2, <4>1, <4>2, <4>3
    <3> QED
      BY <2>4, <3>3, <3>4
  <2> QED
    BY <2>5, <2>6
<1>3. ASSUME NEW k \in Codes, JoinWrong(k)
      PROVE  Kept(code)'
  <2>1. /\ sessions'[code].room = sessions[code].room
        /\ sessions'[code].created = sessions[code].created
        /\ sessions'[code].last_active = sessions[code].last_active
    BY <1>0, <1>3 DEF JoinWrong, TypeOK, Session, None
  <2>2. Live(code)
    BY <1>3 DEF JoinWrong, Live, TypeOK
  <2> QED
    BY <1>3, <2>1, <2>2 DEF JoinWrong, SweepInv
<1>4. ASSUME NEW r \in RoomIds, Enter(r) \/ LeaveEmpty(r)
      PROVE  Kept(code)'
  <2>1. /\ swept' = swept /\ sessions' = sessions /\ resolved' = resolved
        /\ Live(code)
    BY <1>4 DEF Enter, LeaveEmpty, Live
  <2>2. CASE Enter(r)
    BY <2>1, <2>2 DEF Enter, SweepInv
  <2>3. CASE LeaveEmpty(r)
    <3>0. Kept(code)
      BY <2>1 DEF SweepInv
    <3>1. sessions[code].room = r => emptied'[sessions[code].room] = now
      BY <2>3 DEF LeaveEmpty, TypeOK
    <3>2. sessions[code].room # r =>
            /\ emptied'[sessions[code].room] = emptied[sessions[code].room]
            /\ sessions[code].room \in occupied' <=> sessions[code].room \in occupied
      BY <2>3 DEF LeaveEmpty, TypeOK
    <3>3. CASE sessions[code].room = r
      BY <1>0, <2>1, <3>0, <3>1, <3>3
    <3>4. CASE sessions[code].room # r
      BY <2>1, <3>0, <3>2, <3>4
    <3> QED
      BY <3>3, <3>4
  <2> QED
    BY <1>4, <2>2, <2>3
<1>5. ASSUME Reap
      PROVE  Kept(code)'
  <2>1. /\ swept' = now /\ occupied' = occupied /\ resolved' = resolved /\ emptied' = emptied
        /\ sessions'[code] = IF Live(code) THEN Reaped(sessions[code]) ELSE None
    BY <1>5 DEF Reap
  <2>2. /\ Live(code) /\ sessions[code] \in Session
        /\ sessions'[code] = Reaped(sessions[code]) /\ sessions'[code] # None
    BY <1>0, <2>1 DEF Live
  <2>3. /\ sessions[code].created \in Nat /\ sessions[code].last_active \in Nat
        /\ now - sessions[code].created < MaxAge
    BY <1>0, <2>2 DEF Reaped, TooOld, Session
  <2>4. CASE sessions[code].room \in occupied
    <3>1. sessions'[code] = [sessions[code] EXCEPT !.last_active = now]
      BY <2>2, <2>4 DEF Reaped
    <3>2. /\ sessions'[code].last_active = now
          /\ sessions'[code].created = sessions[code].created
          /\ sessions'[code].room = sessions[code].room
      BY <2>2, <3>1 DEF Session
    <3> QED
      BY <1>0, <2>1, <2>3, <2>4, <3>2
  <2>5. CASE sessions[code].room \notin occupied
    <3>1. sessions'[code] = sessions[code] /\ now - sessions[code].last_active < Grace
      BY <1>0, <2>2, <2>3, <2>5 DEF Reaped, GraceOver
    <3> QED
      BY <1>0, <2>1, <2>2, <2>3, <2>5, <3>1 DEF SweepInv
  <2> QED
    BY <2>4, <2>5
<1>6. ASSUME Tick \/ UNCHANGED vars
      PROVE  Kept(code)'
  BY <1>6 DEF Tick, vars, SweepInv, Live
<1> QED
  BY <1>1, <1>2, <1>3, <1>4, <1>5, <1>6 DEF Next

SessionInv == TypeOK /\ SweepInv

LEMMA SessionInvariant == Spec => []SessionInv
<1>1. Init => SessionInv
  BY TypeInit, SweepInit DEF SessionInv
<1>2. SessionInv /\ [Next]_vars => SessionInv'
  BY TypeStep, SweepStep DEF SessionInv
<1> QED
  BY <1>1, <1>2, PTL DEF Spec

\* Types are kept, and no session takes more than MAX_ATTEMPTS wrong PINs,
\* for any such limit (sessions.rs:98-111).
THEOREM SessionTypeTheorem == Spec => []TypeOK
<1>1. SessionInv => TypeOK
  BY DEF SessionInv
<1> QED
  BY <1>1, SessionInvariant, PTL

\* No session outlives MAX_AGE by more than one period of the sweep, whatever
\* the periods are and however its room is used (sessions.rs:119-121).
THEOREM SessionAgeTheorem == Spec => []AgeIsBounded
<1>1. SessionInv => AgeIsBounded
  <2> SUFFICES ASSUME SessionInv, NEW code \in Codes, Live(code)
               PROVE  now - sessions[code].created <= MaxAge + SweepEvery
    BY DEF AgeIsBounded
  <2>1. /\ now \in Nat /\ swept \in Nat /\ now <= swept + SweepEvery
        /\ sessions[code].created \in Nat
    BY DEF SessionInv, TypeOK, Live, Session
  <2>2. swept - sessions[code].created <= MaxAge
    BY DEF SessionInv, SweepInv, Kept
  <2> QED
    BY <2>1, <2>2, SessionConstants
<1> QED
  BY <1>1, SessionInvariant, PTL

\* An unused session is gone one grace period and one period of the sweep
\* after its last use, whatever the periods are (sessions.rs:122-127).
THEOREM SessionGraceTheorem == Spec => []EmptySessionsGo
<1>1. SessionInv => EmptySessionsGo
  <2> SUFFICES ASSUME SessionInv, NEW code \in Codes, Live(code),
                      sessions[code].room \notin occupied
               PROVE  \/ now - resolved[sessions[code].room] <= Grace + SweepEvery
                      \/ now - emptied[sessions[code].room] <= Grace + SweepEvery
    BY DEF EmptySessionsGo
  <2>1. /\ now \in Nat /\ swept \in Nat /\ now <= swept + SweepEvery
        /\ sessions[code].last_active \in Nat
        /\ resolved[sessions[code].room] \in Nat /\ emptied[sessions[code].room] \in Nat
    BY DEF SessionInv, TypeOK, Live, Session
  <2>2. /\ swept - sessions[code].last_active <= Grace
        /\ \/ sessions[code].last_active <= resolved[sessions[code].room]
           \/ sessions[code].last_active <= emptied[sessions[code].room]
    BY DEF SessionInv, SweepInv, Kept
  <2> QED
    BY <2>1, <2>2, SessionConstants
<1> QED
  BY <1>1, SessionInvariant, PTL

-----------------------------------------------------------------------------
\* A stay that a sweep saw has left its trace in last_active; one that no
\* sweep saw began, if it lasts, after the last sweep, and was short, if it ended.
Traced(code) ==
    LET s == sessions[code]
    IN  /\ s.room \in occupied    => s.last_active >= swept \/ filled[s.room] >= swept
        /\ s.room \notin occupied => \/ emptied[s.room] <= s.last_active + SweepEvery
                                     \/ emptied[s.room] - filled[s.room] <= SweepEvery

StayInv == \A code \in Codes : Live(code) => Traced(code)

\* What Traced depends on, for a session that is there.
LEMMA TracedTypes ==
    ASSUME TypeOK, NEW code \in Codes, Live(code)
    PROVE  /\ sessions[code] \in Session
           /\ sessions[code].room \in RoomIds
           /\ sessions[code].last_active \in Nat /\ sessions[code].last_active <= now
           /\ filled[sessions[code].room] \in Nat /\ emptied[sessions[code].room] \in Nat
           /\ now \in Nat /\ swept \in Nat /\ SweepEvery \in Nat
           /\ swept <= now /\ now <= swept + SweepEvery
<1>1. sessions[code] \in Session
  BY DEF TypeOK, Live
<1> QED
  BY <1>1, SessionConstants DEF TypeOK, Session

LEMMA StayStep == TypeOK /\ StayInv /\ [Next]_vars => StayInv'
<1> SUFFICES ASSUME TypeOK, StayInv, [Next]_vars, NEW code \in Codes, Live(code)'
             PROVE  Traced(code)'
  BY DEF StayInv
<1>0. now \in Nat /\ swept \in Nat /\ swept <= now /\ SweepEvery \in Nat
  BY SessionConstants DEF TypeOK
<1>1. ASSUME NEW k \in Codes, Create(k)
      PROVE  Traced(code)'
  <2>1. /\ created + 1 \in RoomIds /\ swept' = swept /\ occupied' = occupied
        /\ filled' = [filled EXCEPT ![created + 1] = now]
        /\ emptied' = [emptied EXCEPT ![created + 1] = now]
    BY <1>1, SessionConstants DEF Create, TypeOK, RoomIds
  <2>2. filled'[created + 1] = now /\ emptied'[created + 1] = now
    BY <2>1 DEF TypeOK
  <2>3. CASE sessions'[code].room = created + 1
    BY <1>0, <2>1, <2>2, <2>3 DEF Traced
  <2>4. CASE sessions'[code].room # created + 1
    <3>1. k # code
      BY <1>1, <2>4 DEF Create, TypeOK
    <3>2. sessions'[code] = sessions[code] /\ Live(code)
      BY <1>1, <3>1 DEF Create, TypeOK, Live
    <3>3. /\ filled'[sessions[code].room] = filled[sessions[code].room]
          /\ emptied'[sessions[code].room] = emptied[sessions[code].room]
      BY <2>1, <2>4, <3>2, TracedTypes DEF TypeOK
    <3> QED
      BY <2>1, <3>2, <3>3 DEF StayInv, Traced
  <2> QED
    BY <2>3, <2>4
<1>2. ASSUME NEW k \in Codes, JoinRight(k) \/ JoinWrong(k)
      PROVE  Traced(code)'
  <2>1. /\ swept' = swept /\ occupied' = occupied
        /\ filled' = filled /\ emptied' = emptied
    BY <1>2 DEF JoinRight, JoinWrong
  <2>2. Live(code)
    BY <1>2 DEF JoinRight, JoinWrong, Live, TypeOK
  <2>3. /\ sessions'[code].room = sessions[code].room
        /\ sessions'[code].last_active \in {now, sessions[code].last_active}
    BY <1>2, <2>2, TracedTypes DEF JoinRight, JoinWrong, TypeOK, Session
  <2>4. Traced(code)
    BY <2>2 DEF StayInv
  <2> QED
    BY <2>1, <2>2, <2>3, <2>4, TracedTypes DEF Traced
<1>3. ASSUME NEW r \in RoomIds, Enter(r) \/ LeaveEmpty(r)
      PROVE  Traced(code)'
  <2>1. swept' = swept /\ sessions' = sessions /\ Live(code)
    BY <1>3 DEF Enter, LeaveEmpty, Live
  <2>2. Traced(code)
    BY <2>1 DEF StayInv
  <2>3. CASE sessions[code].room # r
    <3>1. /\ sessions[code].room \in occupied' <=> sessions[code].room \in occupied
          /\ filled'[sessions[code].room] = filled[sessions[code].room]
          /\ emptied'[sessions[code].room] = emptied[sessions[code].room]
      BY <1>3, <2>1, <2>3, TracedTypes DEF Enter, LeaveEmpty, TypeOK
    <3> QED
      BY <2>1, <2>2, <3>1 DEF Traced
  <2>4. CASE sessions[code].room = r /\ Enter(r)
    <3>1. r \in occupied' /\ filled'[r] = now
      BY <2>4 DEF Enter, TypeOK
    <3> QED
      BY <1>0, <2>1, <2>4, <3>1 DEF Traced
  <2>5. CASE sessions[code].room = r /\ LeaveEmpty(r)
    <3>1. r \in occupied /\ r \notin occupied' /\ emptied'[r] = now /\ filled' = filled
      BY <2>5 DEF LeaveEmpty, TypeOK
    <3>2. sessions[code].last_active >= swept \/ filled[r] >= swept
      BY <2>2, <2>5, <3>1 DEF Traced
    <3>3. now <= sessions[code].last_active + SweepEvery \/ now - filled[r] <= SweepEvery
      BY <2>1, <2>5, <3>2, TracedTypes
    <3> QED
      BY <2>1, <2>5, <3>1, <3>3 DEF Traced
  <2> QED
    BY <1>3, <2>3, <2>4, <2>5
<1>4. ASSUME Reap
      PROVE  Traced(code)'
  <2>1. /\ swept' = now /\ occupied' = occupied
        /\ filled' = filled /\ emptied' = emptied
        /\ Live(code) /\ sessions'[code] = Reaped(sessions[code])
    BY <1>4 DEF Reap, Live
  <2>2. sessions'[code] # None
    BY DEF Live
  <2>3. Traced(code)
    BY <2>1 DEF StayInv
  <2>4. CASE sessions[code].room \in occupied
    <3>1. sessions'[code] = [sessions[code] EXCEPT !.last_active = now]
      BY <2>1, <2>2, <2>4 DEF Reaped
    <3>2. sessions'[code].room = sessions[code].room /\ sessions'[code].last_active = now
      BY <2>1, <3>1, TracedTypes DEF Session
    <3> QED
      BY <1>0, <2>1, <2>4, <3>2 DEF Traced
  <2>5. CASE sessions[code].room \notin occupied
    <3>1. sessions'[code] = sessions[code]
      BY <2>1, <2>2, <2>5 DEF Reaped
    <3> QED
      BY <2>1, <2>3, <2>5, <3>1 DEF Traced
  <2> QED
    BY <2>4, <2>5
<1>5. ASSUME Tick \/ UNCHANGED vars
      PROVE  Traced(code)'
  BY <1>5 DEF Tick, vars, StayInv, Traced, Live
<1> QED
  BY <1>1, <1>2, <1>3, <1>4, <1>5 DEF Next

\* For any periods: a session that is young enough is reaped only when its
\* room has been empty for the grace less one period of the sweep, unless the
\* last stay in it was so short that no sweep saw it (sessions.rs:116-129).
THEOREM EarlyReapTheorem == Spec => EarlyReapIsBounded
<1>1. Init => StayInv
  BY DEF Init, StayInv, Live
<1>2. ASSUME TypeOK, StayInv, [Next]_vars, NEW code \in Codes,
             Live(code), ~ Live(code)', now - sessions[code].created < MaxAge
      PROVE  LET s == sessions[code]
             IN  /\ s.room \notin occupied
                 /\ \/ now - emptied[s.room] + SweepEvery >= Grace
                    \/ emptied[s.room] - filled[s.room] <= SweepEvery
  <2>1. Reap
    <3>1. ASSUME NEW k \in Codes, Create(k) PROVE FALSE
      <4>1. k = code
        BY <1>2, <3>1 DEF Create, TypeOK, Live
      <4> QED
        BY <1>2, <3>1, <4>1 DEF Create, FreeCode
    <3>2. ASSUME NEW k \in Codes, JoinRight(k) \/ JoinWrong(k) PROVE FALSE
      <4>1. sessions'[code].room = sessions[code].room
        BY <1>2, <3>2, TracedTypes DEF JoinRight, JoinWrong, TypeOK, Session
      <4>2. sessions[code].room # 0
        BY <1>2, TracedTypes DEF RoomIds
      <4> QED
        BY <1>2, <4>1, <4>2 DEF Live, None
    <3> QED
      BY <1>2, <3>1, <3>2 DEF Next, Enter, LeaveEmpty, Tick, vars, Live
  <2>2. Reaped(sessions[code]) = None
    BY <1>2, <2>1 DEF Reap, Live
  <2>3. ~ TooOld(sessions[code])
    BY <1>2, TracedTypes, SessionConstants DEF TooOld, Session
  <2>4. sessions[code].room \notin occupied
    <3> SUFFICES ASSUME sessions[code].room \in occupied PROVE FALSE
      OBVIOUS
    <3>1. [sessions[code] EXCEPT !.last_active = now] = None
      BY <2>2, <2>3 DEF Reaped
    <3>2. [sessions[code] EXCEPT !.last_active = now].room = sessions[code].room
      BY <1>2, TracedTypes DEF Session
    <3>3. sessions[code].room = 0
      BY <3>1, <3>2 DEF None
    <3> QED
      BY <1>2, <3>3, TracedTypes DEF RoomIds
  <2>5. now - sessions[code].last_active >= Grace
    BY <1>2, <2>2, <2>3, <2>4 DEF Reaped, GraceOver, Live
  <2>6. Traced(code)
    BY <1>2 DEF StayInv
  <2> QED
    BY <1>2, <2>4, <2>5, <2>6, TracedTypes, SessionConstants DEF Traced
<1>3. TypeOK /\ StayInv /\ [Next]_vars =>
        \A code \in Codes :
            LET s == sessions[code]
            IN  Live(code) /\ ~ Live(code)' /\ now - s.created < MaxAge =>
                  /\ s.room \notin occupied
                  /\ \/ now - emptied[s.room] + SweepEvery >= Grace
                     \/ emptied[s.room] - filled[s.room] <= SweepEvery
  BY <1>2
<1> QED
  BY <1>1, <1>3, StayStep, SessionTypeTheorem, PTL DEF Spec, EarlyReapIsBounded

\* However many codes are drawn and reaped, a code that stays in use leads to
\* the room its host was given (sessions.rs:62-93).
THEOREM CodesTheorem == Spec => CodesLeadToOneRoom
<1>1. ASSUME TypeOK, [Next]_vars, NEW code \in Codes, Live(code), Live(code)'
      PROVE  sessions'[code].room = sessions[code].room
  <2>1. ASSUME NEW k \in Codes, Create(k)
        PROVE  sessions'[code] = sessions[code]
    BY <1>1, <2>1 DEF Create, FreeCode, TypeOK
  <2>2. ASSUME NEW k \in Codes, JoinRight(k) \/ JoinWrong(k)
        PROVE  sessions'[code].room = sessions[code].room
    BY <1>1, <2>2, TracedTypes DEF JoinRight, JoinWrong, TypeOK, Session
  <2>3. ASSUME Reap
        PROVE  sessions'[code].room = sessions[code].room
    <3>1. sessions'[code] = Reaped(sessions[code]) /\ sessions'[code] # None
      BY <1>1, <2>3 DEF Reap, Live
    <3> QED
      BY <1>1, <3>1, TracedTypes DEF Reaped, Session
  <2> QED
    BY <1>1, <2>1, <2>2, <2>3 DEF Next, Enter, LeaveEmpty, Tick, vars
<1>2. TypeOK /\ [Next]_vars =>
        \A code \in Codes : Live(code) /\ Live(code)' =>
            sessions'[code].room = sessions[code].room
  BY <1>1
<1> QED
  BY <1>2, SessionTypeTheorem, PTL DEF Spec, CodesLeadToOneRoom

=============================================================================
