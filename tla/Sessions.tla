------------------------------ MODULE Sessions ------------------------------
(***************************************************************************)
(* The PIN-protected sessions of server/init/src/sessions.rs, with the     *)
(* sweep of main.rs that reaps them and as much of a session's room as the *)
(* sweep asks about: whether it has members.                               *)
(*                                                                         *)
(* A session is brokered under a short code.  A room is a fresh number     *)
(* (its name is 64 random bits); a PIN is right or wrong.  The PIN's and   *)
(* the code's alphabets and the join token are left out.  The clock only   *)
(* moves forward and the sweep keeps its beat (tokio's interval).          *)
(***************************************************************************)
EXTENDS Naturals

CONSTANTS
    Codes,        \* share codes
    MaxAge,       \* MAX_AGE_SECS
    Grace,        \* EMPTY_GRACE_SECS
    MaxAttempts,  \* MAX_ATTEMPTS
    SweepEvery,   \* the period of the sweep
    MaxTime,      \* bound: how far the clock runs
    MaxRooms      \* bound: sessions created

ASSUME SessionConstants ==
    /\ MaxAge \in Nat /\ Grace \in Nat
    /\ MaxAttempts \in Nat /\ MaxRooms \in Nat
    /\ SweepEvery \in Nat \ {0}

VARIABLES
    now,        \* now()
    sessions,   \* Sessions.inner: code -> Session, or None
    swept,      \* when the sweep last ran
    created,    \* rooms handed out so far
    occupied,   \* rooms that have a member (AppState.rooms, non-empty)
    entitled,   \* history: rooms whose token someone was given
    filled,     \* history: room -> when its latest occupation began, or it was created
    emptied,    \* history: room -> when that occupation ended, or it was created
    resolved    \* history: room -> when its code was last resolved, or it was created

vars == <<now, sessions, swept, created, occupied, entitled, filled, emptied, resolved>>

None  == [room |-> 0, created |-> 0, last_active |-> 0, attempts |-> 0]
RoomIds == 1 .. MaxRooms
Live(code) == sessions[code] # None

Init ==
    /\ now = 0
    /\ sessions = [code \in Codes |-> None]
    /\ swept = 0
    /\ created = 0
    /\ occupied = {}
    /\ entitled = {}
    /\ filled = [r \in RoomIds |-> 0]
    /\ emptied = [r \in RoomIds |-> 0]
    /\ resolved = [r \in RoomIds |-> 0]

-----------------------------------------------------------------------------
\* Seeded fault: any code may be drawn again.
AnyCode(code) == code \in Codes

\* Codes are drawn until one is not in use.
FreeCode(code) == ~ Live(code)

\* create: the host gets a code, a PIN, and a room with its token.
Create(code) ==
    /\ created < MaxRooms
    /\ FreeCode(code)
    /\ created' = created + 1
    /\ sessions' = [sessions EXCEPT ![code] =
                      [room |-> created + 1, created |-> now, last_active |-> now,
                       attempts |-> 0]]
    /\ entitled' = entitled \cup {created + 1}
    /\ filled' = [filled EXCEPT ![created + 1] = now]
    /\ emptied' = [emptied EXCEPT ![created + 1] = now]
    /\ resolved' = [resolved EXCEPT ![created + 1] = now]
    /\ UNCHANGED <<now, swept, occupied>>

\* Seeded fault: one guess too many.
UnlockedLate(code) == sessions[code].attempts <= MaxAttempts

\* Whether join answers a guess at the PIN rather than Locked.
Unlocked(code) == sessions[code].attempts < MaxAttempts

\* join with the right PIN: the mate gets the room and its token.
JoinRight(code) ==
    /\ Live(code)
    /\ Unlocked(code)
    /\ sessions' = [sessions EXCEPT ![code].last_active = now]
    /\ entitled' = entitled \cup {sessions[code].room}
    /\ resolved' = [resolved EXCEPT ![sessions[code].room] = now]
    /\ UNCHANGED <<now, swept, created, occupied, filled, emptied>>

\* join with a wrong PIN.
JoinWrong(code) ==
    /\ Live(code)
    /\ Unlocked(code)
    /\ sessions' = [sessions EXCEPT ![code].attempts = @ + 1]
    /\ UNCHANGED <<now, swept, created, occupied, entitled, filled, emptied, resolved>>

-----------------------------------------------------------------------------
(* The room of a session, as the relay keeps it.  A token does not expire, *)
(* so whoever was given one may enter at any later time.                   *)

Enter(r) ==
    /\ r \in entitled
    /\ r \notin occupied
    /\ occupied' = occupied \cup {r}
    /\ filled' = [filled EXCEPT ![r] = now]
    /\ UNCHANGED <<now, sessions, swept, created, entitled, emptied, resolved>>

LeaveEmpty(r) ==
    /\ r \in occupied
    /\ occupied' = occupied \ {r}
    /\ emptied' = [emptied EXCEPT ![r] = now]
    /\ UNCHANGED <<now, sessions, swept, created, entitled, filled, resolved>>

-----------------------------------------------------------------------------
\* Seeded fault: an occupied room keeps its session for ever.
TooOldUnlessOccupied(s) == now - s.created >= MaxAge /\ s.room \notin occupied

\* The hard cap.
TooOld(s) == now - s.created >= MaxAge

\* Seeded fault: the grace is counted from the creation.
GraceOverSinceCreated(s) == now - s.created >= Grace

\* An empty room's session has outlived its grace.
GraceOver(s) == now - s.last_active >= Grace

\* Seeded fault: the sweep counts an empty room as active.
ReapedIfIdleForever(s) ==
    IF TooOld(s) THEN None
    ELSE IF s.room \notin occupied /\ GraceOver(s) THEN None
    ELSE [s EXCEPT !.last_active = now]

\* What the sweep makes of a session.
Reaped(s) ==
    IF TooOld(s) THEN None
    ELSE IF s.room \in occupied THEN [s EXCEPT !.last_active = now]
    ELSE IF GraceOver(s) THEN None
    ELSE s

\* The sweep, at its beat.
Reap ==
    /\ now = swept + SweepEvery
    /\ swept' = now
    /\ sessions' = [code \in Codes |-> IF Live(code) THEN Reaped(sessions[code]) ELSE None]
    /\ UNCHANGED <<now, created, occupied, entitled, filled, emptied, resolved>>

Tick ==
    /\ now < MaxTime
    /\ now < swept + SweepEvery
    /\ now' = now + 1
    /\ UNCHANGED <<sessions, swept, created, occupied, entitled, filled, emptied, resolved>>

Next == \/ \E code \in Codes : Create(code) \/ JoinRight(code) \/ JoinWrong(code)
        \/ \E r \in RoomIds : Enter(r) \/ LeaveEmpty(r)
        \/ Reap
        \/ Tick

Spec == Init /\ [][Next]_vars

\* The sweep runs, and time passes.
FairSpec == Spec /\ WF_vars(Reap) /\ WF_vars(Tick)

-----------------------------------------------------------------------------
(* Properties.                                                             *)

Session == [room : RoomIds, created : Nat, last_active : Nat, attempts : 0 .. MaxAttempts]

\* Types; a session was created and last active in the past, in this order,
\* and is locked after MAX_ATTEMPTS wrong PINs, never later (sessions.rs:98-111).
TypeOK ==
    /\ now \in Nat
    /\ sessions \in [Codes -> Session \cup {None}]
    /\ \A code \in Codes : /\ sessions[code].created <= sessions[code].last_active
                           /\ sessions[code].last_active <= now
    /\ swept \in Nat /\ swept <= now /\ now <= swept + SweepEvery
    /\ created \in 0 .. MaxRooms
    /\ occupied \subseteq RoomIds
    /\ entitled \subseteq RoomIds
    /\ filled \in [RoomIds -> Nat]
    /\ emptied \in [RoomIds -> Nat]
    /\ resolved \in [RoomIds -> Nat]

\* No session is older than MAX_AGE by more than one period of the sweep,
\* whether or not its room is occupied and mates keep joining
\* (sessions.rs:116-129).
AgeIsBounded ==
    \A code \in Codes : Live(code) => now - sessions[code].created <= MaxAge + SweepEvery

\* A code leads to the room its host was given for as long as the session
\* lives (sessions.rs:86-93).
CodesLeadToOneRoom ==
    [][\A code \in Codes : Live(code) /\ Live(code)' =>
          sessions'[code].room = sessions[code].room]_vars

\* A session that is young enough is reaped only when its room is empty, and
\* has been for the grace period less one period of the sweep, unless the
\* last stay in it was short enough to fall between two sweeps
\* (sessions.rs:116-129, main.rs:216-228).
EarlyReapIsBounded ==
    [][\A code \in Codes :
         LET s == sessions[code]
         IN  Live(code) /\ ~ Live(code)' /\ now - s.created < MaxAge =>
               /\ s.room \notin occupied
               /\ \/ now - emptied[s.room] + SweepEvery >= Grace
                  \/ emptied[s.room] - filled[s.room] <= SweepEvery]_vars

\* A session whose room is empty is gone one grace period and one period of
\* the sweep after it was last of use: created, resolved by a mate, or left
\* by the last member (sessions.rs:122-127).
EmptySessionsGo ==
    \A code \in Codes :
        LET r == sessions[code].room
        IN  Live(code) /\ r \notin occupied =>
              \/ now - resolved[r] <= Grace + SweepEvery
              \/ now - emptied[r] <= Grace + SweepEvery

(* Claims of the comments that the code does not keep.                     *)

\* "a session ends at most 24h after creation, no matter what"
\* (sessions.rs:13): nobody joins a session that has reached MAX_AGE.
NoJoinPastMaxAge ==
    [][\A code \in Codes : JoinRight(code) => now - sessions[code].created < MaxAge]_vars

\* "once empty it survives EMPTY_GRACE" (sessions.rs:114): a session that is
\* young enough is not reaped before its room has been empty for the grace.
SurvivesGrace ==
    [][\A code \in Codes :
         LET s == sessions[code]
         IN  Live(code) /\ ~ Live(code)' /\ now - s.created < MaxAge =>
               now - emptied[s.room] >= Grace]_vars

=============================================================================
