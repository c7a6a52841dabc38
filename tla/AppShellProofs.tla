--------------------------- MODULE AppShellProofs ---------------------------
(***************************************************************************)
(* Theorems about AppShell, for any number of calls of `connect', keys,    *)
(* inputs and losses of signaling.                                         *)
(***************************************************************************)
EXTENDS AppShell, TLAPS

LEMMA EventsAreTyped ==
    /\ \A up, tx \in BOOLEAN : Status(up, tx) \in Event
    /\ \A up \in BOOLEAN : Signaling(up) \in Event
    /\ \A down \in BOOLEAN : PttEvent(down) \in Event
    /\ PttBound \in Event
BY DEF Event

LEMMA ReceivedIsTyped ==
    ASSUME events \in Seq(Event), events # <<>>
    PROVE  /\ Received \in Event /\ Tail(events) \in Seq(Event)
           /\ Received.type = "status" =>
                 Received.connected \in BOOLEAN /\ Received.transmitting \in BOOLEAN
           /\ Received.type = "signaling" => Received.up \in BOOLEAN
           /\ Received.type = "ptt" => Received.down \in BOOLEAN
<1>1. Received \in Event /\ Tail(events) \in Seq(Event)
  BY DEF Received
<1>2. \A ev \in Event : /\ ev.type = "status" => ev.connected \in BOOLEAN /\ ev.transmitting \in BOOLEAN
                        /\ ev.type = "signaling" => ev.up \in BOOLEAN
                        /\ ev.type = "ptt" => ev.down \in BOOLEAN
  BY DEF Event, Status, Signaling, PttEvent, PttBound
<1> QED
  BY <1>1, <1>2

LEMMA CmdsAreTyped ==
    /\ Toggle \in Cmd
    /\ \A on \in BOOLEAN : SetTo(on) \in Cmd
    /\ \A cmd \in Cmd : cmd # Toggle => cmd.on \in BOOLEAN
<1>1. Toggle \in Cmd /\ \A on \in BOOLEAN : SetTo(on) \in Cmd
  BY DEF Cmd
<1>2. ASSUME NEW cmd \in Cmd, cmd # Toggle PROVE cmd.on \in BOOLEAN
  <2>1. PICK on \in BOOLEAN : cmd = SetTo(on)
    BY <1>2 DEF Cmd
  <2> QED
    BY <2>1 DEF SetTo
<1> QED
  BY <1>1, <1>2

LEMMA EmitKeepsTypes ==
    ASSUME events \in Seq(Event), NEW ev \in Event, Emit(ev)
    PROVE  events' \in Seq(Event)
BY DEF Emit

LEMMA CommandKeepsTypes ==
    ASSUME TypeOK, NEW cmd \in Cmd, Command(cmd)
    PROVE  cmds' \in [Engines -> Seq(Cmd)]
BY DEF Command, TypeOK

LEMMA TypeInit == Init => TypeOK
<1> SUFFICES ASSUME Init PROVE TypeOK
  OBVIOUS
<1>1. \A e \in Engines : e # NoEngine
  BY ShellConstants DEF Engines, NoEngine
<1>2. events \in Seq(Event) /\ cmds \in [Engines -> Seq(Cmd)]
  BY DEF Init
<1>3. /\ transmit \in [Engines -> BOOLEAN] /\ dtx \in [Engines -> BOOLEAN]
      /\ stop \in [Engines -> BOOLEAN]
  BY DEF Init
<1>4. /\ \A e \in Engines : slot = e <=> handle[e] = "held"
      /\ \A e \in Engines : stop[e] <=> handle[e] = "dropped"
  BY <1>1 DEF Init
<1>5. /\ handle \in [Engines -> {"unborn", "dialing", "failed", "started", "held", "dropped"}]
      /\ loop \in [Engines -> {"none", "running", "ended", "refused"}]
      /\ link \in [Engines -> {"down", "asked", "joined"}]
  BY DEF Init
<1>6. /\ connected \in BOOLEAN /\ connecting \in BOOLEAN /\ transmitting \in BOOLEAN
      /\ muted \in BOOLEAN /\ sigUp \in BOOLEAN /\ capturing \in BOOLEAN /\ lowBw \in BOOLEAN
      /\ slot \in Engines \cup {NoEngine}
      /\ binding \in Keys /\ capture \in BOOLEAN /\ keys \subseteq Keys
  BY ShellConstants DEF Init
<1> QED
  BY <1>2, <1>3, <1>4, <1>5, <1>6 DEF TypeOK

LEMMA TypeStep == TypeOK /\ [Next]_vars => TypeOK'
<1> SUFFICES ASSUME TypeOK, [Next]_vars PROVE TypeOK'
  OBVIOUS
<1> USE DEF view, shell, session, user, history
<1>0. NoEngine \notin Engines
  BY ShellConstants DEF NoEngine, Engines
<1>1. ASSUME NEW e \in Engines, Connect(e) PROVE TypeOK'
  BY <1>1 DEF Connect, TypeOK
<1>2. ASSUME NEW e \in Engines, DialFails(e) PROVE TypeOK'
  BY <1>2 DEF DialFails, TypeOK
<1>3. ASSUME NEW e \in Engines, DialSucceeds(e) PROVE TypeOK'
  <2>1. Status(TRUE, FALSE) \in Event
    BY EventsAreTyped
  <2>2. events' \in Seq(Event)
    BY <1>3, <2>1, EmitKeepsTypes DEF DialSucceeds, TypeOK
  <2> QED
    BY <1>3, <2>2 DEF DialSucceeds, TypeOK
<1>4. ASSUME NEW e \in Engines, FillSlot(e) PROVE TypeOK'
  <2>1. handle' \in [Engines -> {"unborn", "dialing", "failed", "started", "held", "dropped"}]
    BY <1>4 DEF FillSlot, TypeOK
  <2>2. stop' \in [Engines -> BOOLEAN]
    BY <1>4 DEF FillSlot, TypeOK
  <2>3. /\ \A h \in Engines : slot' = h <=> handle'[h] = "held"
        /\ \A h \in Engines : stop'[h] <=> handle'[h] = "dropped"
    BY <1>4, <1>0 DEF FillSlot, TypeOK
  <2> QED
    BY <1>4, <2>1, <2>2, <2>3 DEF FillSlot, TypeOK
<1>5. ASSUME NEW e \in Engines, Obey(e) PROVE TypeOK'
  <2>1. Head(cmds[e]) \in Cmd /\ Tail(cmds[e]) \in Seq(Cmd)
    BY <1>5 DEF Obey, TypeOK
  <2>2. Wanted(e, Head(cmds[e])) \in BOOLEAN
    BY <2>1, CmdsAreTyped DEF Wanted, TypeOK
  <2> DEFINE on == Wanted(e, Head(cmds[e]))
  <2>3. CASE on # transmit[e]
    <3>1. transmit' \in [Engines -> BOOLEAN]
      BY <1>5, <2>2, <2>3 DEF Obey, Transmit, TypeOK
    <3>2. Emit(Status(TRUE, on)) /\ Status(TRUE, on) \in Event
      BY <1>5, <2>2, <2>3, EventsAreTyped DEF Obey, Transmit
    <3>3. events' \in Seq(Event)
      BY <3>2, EmitKeepsTypes DEF TypeOK
    <3>4. cmds' \in [Engines -> Seq(Cmd)]
      BY <1>5, <2>1 DEF Obey, TypeOK
    <3> QED
      BY <1>5, <3>1, <3>3, <3>4 DEF Obey, TypeOK
  <2>4. CASE on = transmit[e]
    BY <1>5, <2>1, <2>4 DEF Obey, TypeOK
  <2> QED
    BY <2>3, <2>4
<1>6. ASSUME NEW e \in Engines, LoopEnds(e) PROVE TypeOK'
  <2>1. Status(FALSE, FALSE) \in Event
    BY EventsAreTyped
  <2>2. events' \in Seq(Event)
    BY <1>6, <2>1, EmitKeepsTypes DEF LoopEnds, Farewell, TypeOK
  <2> QED
    BY <1>6, <2>2 DEF LoopEnds, TypeOK
<1>7. ASSUME NEW e \in Engines, Admitted(e) PROVE TypeOK'
  BY <1>7 DEF Admitted, TypeOK
<1>8. ASSUME NEW e \in Engines, Refused(e) PROVE TypeOK'
  BY <1>8 DEF Refused, TypeOK
<1>9. ASSUME NEW e \in Engines, SignalingLost(e) PROVE TypeOK'
  <2>1. Signaling(FALSE) \in Event
    BY EventsAreTyped
  <2>2. events' \in Seq(Event)
    BY <1>9, <2>1, EmitKeepsTypes DEF SignalingLost, TypeOK
  <2> QED
    BY <1>9, <2>2 DEF SignalingLost, TypeOK
<1>10. ASSUME NEW e \in Engines, Reconnects(e) PROVE TypeOK'
  <2>1. Signaling(TRUE) \in Event
    BY EventsAreTyped
  <2>2. events' \in Seq(Event)
    BY <1>10, <2>1, EmitKeepsTypes DEF Reconnects, TypeOK
  <2> QED
    BY <1>10, <2>2 DEF Reconnects, TypeOK
<1>11. ASSUME Disconnect PROVE TypeOK'
  <2>1. CASE slot = NoEngine
    BY <1>11, <2>1, <1>0 DEF Disconnect, TypeOK
  <2>2. CASE slot # NoEngine
    <3>1. slot \in Engines /\ slot' = NoEngine /\ Dropped(slot)
      BY <1>11, <2>2 DEF Disconnect, TypeOK
    <3>2. /\ handle' \in [Engines -> {"unborn", "dialing", "failed", "started", "held", "dropped"}]
          /\ stop' \in [Engines -> BOOLEAN]
      BY <3>1 DEF Dropped, TypeOK
    <3>3. /\ \A e \in Engines : slot' = e <=> handle'[e] = "held"
          /\ \A e \in Engines : stop'[e] <=> handle'[e] = "dropped"
      BY <3>1, <1>0 DEF Dropped, TypeOK
    <3> QED
      BY <1>11, <3>1, <3>2, <3>3 DEF Disconnect, TypeOK
  <2> QED
    BY <2>1, <2>2
<1>12. ASSUME ClickPtt PROVE TypeOK'
  BY <1>12, CmdsAreTyped, CommandKeepsTypes DEF ClickPtt, TypeOK
<1>13. ASSUME ToggleMic PROVE TypeOK'
  <2>1. CASE muted
    BY <1>13, <2>1 DEF ToggleMic, TypeOK
  <2>2. CASE ~ muted
    BY <1>13, <2>2, CmdsAreTyped, CommandKeepsTypes DEF ToggleMic, TypeOK
  <2> QED
    BY <2>1, <2>2
<1>14. ASSUME ToggleLowBw PROVE TypeOK'
  BY <1>14 DEF ToggleLowBw, Setting, TypeOK
<1>15. ASSUME Rebind PROVE TypeOK'
  BY <1>15 DEF Rebind, TypeOK
<1>16. ASSUME NEW k \in Keys, Press(k) PROVE TypeOK'
  <2>1. PttEvent(TRUE) \in Event /\ PttBound \in Event
    BY EventsAreTyped
  <2>2. events' \in Seq(Event)
    BY <1>16, <2>1, EmitKeepsTypes DEF Press, TypeOK
  <2> QED
    BY <1>16, <2>2 DEF Press, TypeOK
<1>17. ASSUME NEW k \in Keys, Release(k) PROVE TypeOK'
  <2>1. PttEvent(FALSE) \in Event /\ PttBound \in Event
    BY EventsAreTyped
  <2>2. events' \in Seq(Event)
    BY <1>17, <2>1, EmitKeepsTypes DEF Release, TypeOK
  <2> QED
    BY <1>17, <2>2 DEF Release, TypeOK
<1>18. ASSUME OnStatus PROVE TypeOK'
  <2>1. /\ Received.connected \in BOOLEAN /\ Received.transmitting \in BOOLEAN
        /\ events' \in Seq(Event)
    BY <1>18, ReceivedIsTyped DEF OnStatus, Take, TypeOK
  <2>2. connected' \in BOOLEAN /\ transmitting' \in BOOLEAN
    BY <1>18, <2>1 DEF OnStatus
  <2>4. connecting' \in BOOLEAN /\ sigUp' \in BOOLEAN
    BY <1>18 DEF OnStatus, SigUpAfter
  <2>3. dtx' \in [Engines -> BOOLEAN]
    <3>1. CASE ~ connected /\ connected'
      <4>1. dtx' = Setting(dtx, lowBw)
        BY <1>18, <3>1 DEF OnStatus, PushSettings
      <4>2. dtx \in [Engines -> BOOLEAN] /\ lowBw \in BOOLEAN
        BY DEF TypeOK
      <4> QED
        BY <4>1, <4>2 DEF Setting
    <3>2. CASE ~ (~ connected /\ connected')
      BY <1>18, <3>2 DEF OnStatus, TypeOK
    <3> QED
      BY <3>1, <3>2
  <2> QED
    BY <1>18, <2>1, <2>2, <2>3, <2>4 DEF OnStatus, TypeOK
<1>19. ASSUME OnSignaling PROVE TypeOK'
  BY <1>19, ReceivedIsTyped DEF OnSignaling, Take, TypeOK
<1>20. ASSUME OnPtt PROVE TypeOK'
  <2>1. Received.down \in BOOLEAN /\ events' \in Seq(Event)
    BY <1>20, ReceivedIsTyped DEF OnPtt, Take, TypeOK
  <2>2. CASE HeedsPtt
    BY <1>20, <2>1, <2>2, CmdsAreTyped, CommandKeepsTypes DEF OnPtt, TypeOK
  <2>3. CASE ~ HeedsPtt
    BY <1>20, <2>1, <2>3 DEF OnPtt, TypeOK
  <2> QED
    BY <2>2, <2>3
<1>21. ASSUME OnPttBound PROVE TypeOK'
  BY <1>21, ReceivedIsTyped DEF OnPttBound, Take, TypeOK
<1>22. ASSUME UNCHANGED vars PROVE TypeOK'
  BY <1>22 DEF vars, TypeOK
<1> QED
  BY <1>1, <1>2, <1>3, <1>4, <1>5, <1>6, <1>7, <1>8, <1>9, <1>10, <1>11, <1>12, <1>13, <1>14, <1>15, <1>16, <1>17, <1>18, <1>19, <1>20, <1>21, <1>22 DEF Next, Receive

-----------------------------------------------------------------------------
Live(e) == handle[e] \in {"dialing", "started", "held"} \/ Running(e)

\* The i-th event under way takes the web view to the start screen.
Bye(i) == events[i].type = "status" /\ ~ events[i].connected

BornInv == \A e \in Engines : handle[e] \in {"unborn", "dialing", "failed"} => loop[e] = "none"
OneLive == \A e, f \in Engines : Live(e) /\ Live(f) => e = f
ShownInv == \A e \in Engines : /\ Live(e) => connected \/ connecting
                               /\ Running(e) /\ handle[e] = "dropped" => connected
ByeInv == /\ \A i \in 1 .. Len(events) : Bye(i) => connected /\ \A e \in Engines : ~ Live(e)
          /\ \A i, j \in 1 .. Len(events) : Bye(i) /\ Bye(j) => i = j

SessionInv == TypeOK /\ BornInv /\ OneLive /\ ShownInv /\ ByeInv

LEMMA SessionInit == Init => SessionInv
BY TypeInit DEF Init, SessionInv, BornInv, OneLive, ShownInv, ByeInv, Live, Running

LEMMA TailIsShifted ==
    ASSUME events \in Seq(Event), events # <<>>, events' = Tail(events)
    PROVE  /\ Len(events') = Len(events) - 1
           /\ \A i \in 1 .. Len(events') : i + 1 \in 1 .. Len(events) /\ events'[i] = events[i + 1]
OBVIOUS

\* Receiving an event leaves at most the farewell that was under way before.
LEMMA TakeKeepsByes ==
    ASSUME TypeOK, ByeInv, events # <<>>, events' = Tail(events)
    PROVE  /\ \A i \in 1 .. Len(events') : Bye(i)' => i + 1 \in 1 .. Len(events) /\ Bye(i + 1)
           /\ \A i, j \in 1 .. Len(events') : Bye(i)' /\ Bye(j)' => i = j
<1>1. \A i \in 1 .. Len(events') : Bye(i)' => i + 1 \in 1 .. Len(events) /\ Bye(i + 1)
  BY TailIsShifted DEF TypeOK, Bye
<1>2. Len(events) \in Nat /\ Len(events') \in Nat
  BY DEF TypeOK
<1> QED
  BY <1>1, <1>2 DEF ByeInv

\* An event that is no farewell adds none.
LEMMA EmitKeepsByes ==
    ASSUME TypeOK, NEW ev \in Event, Emit(ev)
    PROVE  /\ Len(events') = Len(events) + 1
           /\ events'[Len(events) + 1] = ev
           /\ \A i \in 1 .. Len(events) : events'[i] = events[i]
BY DEF Emit, TypeOK

\* What a step that adds no farewell, brings no engine to life and takes the
\* session off no screen keeps.
LEMMA QuietStep ==
    ASSUME SessionInv, TypeOK', UNCHANGED <<connected, connecting, handle, loop>>,
           \/ UNCHANGED events
           \/ \E ev \in Event : Emit(ev) /\ ~ (ev.type = "status" /\ ~ ev.connected)
    PROVE  SessionInv'
<1>1. BornInv' /\ OneLive' /\ ShownInv' /\ \A e \in Engines : Live(e)' <=> Live(e)
  BY DEF SessionInv, BornInv, OneLive, ShownInv, Live, Running
<1>2. \A i \in 1 .. Len(events') : Bye(i)' => i \in 1 .. Len(events) /\ Bye(i)
  <2>1. CASE UNCHANGED events
    BY <2>1 DEF Bye
  <2>2. ASSUME NEW ev \in Event, Emit(ev), ~ (ev.type = "status" /\ ~ ev.connected)
        PROVE  \A i \in 1 .. Len(events') : Bye(i)' => i \in 1 .. Len(events) /\ Bye(i)
    <3>1. TypeOK /\ Len(events) \in Nat
      BY DEF SessionInv, TypeOK
    <3> QED
      BY <2>2, <3>1, EmitKeepsByes DEF Bye
  <2> QED
    BY <2>1, <2>2
<1>3. ByeInv'
  BY <1>1, <1>2 DEF SessionInv, ByeInv
<1> QED
  BY <1>1, <1>3 DEF SessionInv

LEMMA SessionStep == SessionInv /\ [Next]_vars => SessionInv'
<1> SUFFICES ASSUME SessionInv, [Next]_vars PROVE SessionInv'
  OBVIOUS
<1> USE DEF view, shell, session, user, history
<1>0. TypeOK' /\ TypeOK /\ Len(events) \in Nat
  BY TypeStep DEF SessionInv, TypeOK
<1>1. ASSUME NEW e \in Engines, Connect(e) PROVE SessionInv'
  <2>1. \A f \in Engines : ~ Live(f)
    BY <1>1 DEF Connect, MayConnect, SessionInv, ShownInv
  <2>2. \A f \in Engines : Live(f)' => f = e
    BY <1>1, <2>1 DEF Connect, Live, Running, TypeOK, SessionInv
  <2>3. \A i \in 1 .. Len(events) : ~ Bye(i)
    BY <1>1 DEF Connect, MayConnect, SessionInv, ByeInv
  <2>4. BornInv'
    BY <1>1, <2>1 DEF Connect, SessionInv, BornInv, TypeOK
  <2>5. OneLive'
    BY <2>2 DEF OneLive
  <2>6. ShownInv'
    BY <1>1, <2>1 DEF Connect, ShownInv, Live, Running, TypeOK, SessionInv
  <2>7. ByeInv'
    BY <1>1, <2>3 DEF Connect, ByeInv, Bye
  <2> QED
    BY <1>0, <2>4, <2>5, <2>6, <2>7 DEF SessionInv
<1>2. ASSUME NEW e \in Engines, DialFails(e) PROVE SessionInv'
  <2>1. Live(e) /\ ~ Running(e)
    BY <1>2 DEF DialFails, Live, Running, SessionInv, BornInv
  <2>2. \A f \in Engines : ~ Live(f)'
    BY <1>2, <2>1 DEF DialFails, Live, Running, SessionInv, OneLive, TypeOK
  <2>3. BornInv'
    BY <1>2 DEF DialFails, SessionInv, BornInv, TypeOK
  <2>4. OneLive' /\ ShownInv'
    BY <2>2 DEF OneLive, ShownInv, Live
  <2>5. ByeInv'
    BY <1>2, <2>2 DEF DialFails, SessionInv, ByeInv, Bye
  <2> QED
    BY <1>0, <2>3, <2>4, <2>5 DEF SessionInv
<1>3. ASSUME NEW e \in Engines, DialSucceeds(e) PROVE SessionInv'
  <2>1. Live(e)
    BY <1>3 DEF DialSucceeds, Live
  <2>2. \A f \in Engines : Live(f)' => Live(f)
    BY <1>3, <2>1 DEF DialSucceeds, Live, Running, SessionInv, TypeOK
  <2>3. BornInv'
    BY <1>3 DEF DialSucceeds, SessionInv, BornInv, TypeOK
  <2>4. OneLive'
    BY <2>2 DEF SessionInv, OneLive
  <2>5. ShownInv'
    <3>1. \A f \in Engines : Running(f)' /\ handle'[f] = "dropped" => Running(f) /\ handle[f] = "dropped"
      BY <1>3 DEF DialSucceeds, Running, TypeOK, SessionInv
    <3> QED
      BY <1>3, <2>2, <3>1 DEF DialSucceeds, SessionInv, ShownInv
  <2>6. ByeInv'
    <3>1. \A i \in 1 .. Len(events) : ~ Bye(i)
      BY <2>1 DEF SessionInv, ByeInv
    <3>2. Status(TRUE, FALSE) \in Event /\ Emit(Status(TRUE, FALSE))
      BY <1>3, EventsAreTyped DEF DialSucceeds
    <3>3. \A i \in 1 .. Len(events') : ~ Bye(i)'
      BY <1>0, <3>1, <3>2, EmitKeepsByes DEF Bye, Status
    <3> QED
      BY <3>3 DEF ByeInv
  <2> QED
    BY <1>0, <2>3, <2>4, <2>5, <2>6 DEF SessionInv
<1>4. ASSUME NEW e \in Engines, FillSlot(e) PROVE SessionInv'
  <2>1. slot = NoEngine
    <3>1. Live(e) /\ handle[e] = "started"
      BY <1>4 DEF FillSlot, Live
    <3>2. \A h \in Engines : handle[h] = "held" => h = e
      BY <3>1 DEF SessionInv, OneLive, Live
    <3> QED
      BY <3>1, <3>2 DEF SessionInv, TypeOK
  <2>2. NoEngine \notin Engines
    BY ShellConstants DEF NoEngine, Engines
  <2>3. /\ \A f \in Engines : handle'[f] = IF f = e THEN "held" ELSE handle[f]
        /\ UNCHANGED <<connected, connecting, events, loop>>
    BY <1>4, <2>1, <2>2 DEF FillSlot
  <2>4. \A f \in Engines : Live(f)' => Live(f)
    BY <1>4, <2>3 DEF FillSlot, Live, Running
  <2>5. BornInv' /\ OneLive' /\ ShownInv' /\ ByeInv'
    BY <2>3, <2>4 DEF SessionInv, BornInv, OneLive, ShownInv, ByeInv, Bye, Running
  <2> QED
    BY <1>0, <2>5 DEF SessionInv
<1>5. ASSUME NEW e \in Engines, LoopEnds(e) PROVE SessionInv'
  <2>1. Live(e) /\ connected /\ handle[e] = "dropped"
    BY <1>5 DEF LoopEnds, Live, SessionInv, ShownInv
  <2>2. \A f \in Engines : ~ Live(f)'
    BY <1>5, <2>1 DEF LoopEnds, Live, Running, SessionInv, OneLive, TypeOK
  <2>3. BornInv'
    BY <1>5, <2>1 DEF LoopEnds, SessionInv, BornInv, TypeOK
  <2>4. OneLive' /\ ShownInv'
    BY <2>2 DEF OneLive, ShownInv, Live
  <2>5. ByeInv'
    <3>1. \A i \in 1 .. Len(events) : ~ Bye(i)
      BY <2>1 DEF SessionInv, ByeInv
    <3>2. Status(FALSE, FALSE) \in Event /\ Emit(Status(FALSE, FALSE)) /\ UNCHANGED connected
      BY <1>5, EventsAreTyped DEF LoopEnds, Farewell
    <3>3. /\ Len(events') = Len(events) + 1
          /\ \A i \in 1 .. Len(events) : events'[i] = events[i]
      BY <3>2, EmitKeepsByes DEF SessionInv
    <3>4. \A i \in 1 .. Len(events) : ~ Bye(i)'
      BY <3>1, <3>3 DEF Bye
    <3>5. Len(events) \in Nat
      BY DEF SessionInv, TypeOK
    <3>6. \A i \in 1 .. Len(events') : Bye(i)' => i = Len(events')
      BY <3>3, <3>4, <3>5
    <3> QED
      BY <2>1, <2>2, <3>2, <3>6 DEF ByeInv
  <2> QED
    BY <1>0, <2>3, <2>4, <2>5 DEF SessionInv
<1>6. ASSUME NEW e \in Engines, Refused(e) PROVE SessionInv'
  <2>1. \A f \in Engines : Live(f)' => Live(f)
    BY <1>6 DEF Refused, Live, Running, TypeOK, SessionInv
  <2>2. \A f \in Engines : Running(f)' => Running(f)
    BY <1>6 DEF Refused, Running, TypeOK, SessionInv
  <2>3. BornInv'
    BY <1>6 DEF Refused, Running, SessionInv, BornInv, TypeOK
  <2>4. OneLive' /\ ShownInv' /\ ByeInv'
    BY <1>6, <2>1, <2>2 DEF Refused, SessionInv, OneLive, ShownInv, ByeInv, Bye
  <2> QED
    BY <1>0, <2>3, <2>4 DEF SessionInv
<1>7. ASSUME Disconnect PROVE SessionInv'
  <2>1. connected /\ UNCHANGED <<connected, connecting, events, loop>>
    BY <1>7 DEF Disconnect
  <2>2. \A f \in Engines : handle'[f] = handle[f] \/ (handle[f] = "held" /\ handle'[f] = "dropped")
    <3>1. CASE slot = NoEngine
      BY <1>7, <3>1 DEF Disconnect
    <3>2. CASE slot # NoEngine
      <4>1. slot \in Engines /\ handle[slot] = "held" /\ handle \in [Engines -> {"unborn", "dialing", "failed", "started", "held", "dropped"}]
        BY <3>2 DEF SessionInv, TypeOK
      <4>2. handle' = [handle EXCEPT ![slot] = "dropped"]
        BY <1>7, <3>2 DEF Disconnect, Dropped
      <4> QED
        BY <4>1, <4>2
    <3> QED
      BY <3>1, <3>2
  <2>3. \A f \in Engines : Live(f)' => Live(f)
    BY <2>1, <2>2 DEF Live, Running
  <2>4. BornInv'
    BY <2>1, <2>2 DEF SessionInv, BornInv
  <2>5. OneLive' /\ ShownInv' /\ ByeInv'
    BY <2>1, <2>3 DEF SessionInv, OneLive, ShownInv, ByeInv, Bye
  <2> QED
    BY <1>0, <2>4, <2>5 DEF SessionInv
<1>8. ASSUME OnStatus PROVE SessionInv'
  <2>1. events # <<>> /\ events' = Tail(events) /\ UNCHANGED <<handle, loop>>
    BY <1>8 DEF OnStatus, Take
  <2>2. \A f \in Engines : (Live(f)' <=> Live(f)) /\ (Running(f)' <=> Running(f))
    BY <2>1 DEF Live, Running
  <2>3. BornInv' /\ OneLive'
    BY <2>1, <2>2 DEF SessionInv, BornInv, OneLive
  <2>4. CASE Received.connected
    <3>1. connected'
      BY <1>8, <2>4 DEF OnStatus
    <3>2. ShownInv'
      BY <3>1 DEF ShownInv
    <3>3. ByeInv'
      <4>1. SessionInv => TypeOK /\ ByeInv
        BY DEF SessionInv
      <4> QED
        BY <2>1, <2>2, <3>1, <4>1, TakeKeepsByes DEF ByeInv
    <3> QED
      BY <1>0, <2>3, <3>2, <3>3 DEF SessionInv
  <2>5. CASE ~ Received.connected
    <3>1. Bye(1) /\ 1 \in 1 .. Len(events)
      BY <1>0, <1>8, <2>5, <2>1 DEF OnStatus, Take, Received, Bye, TypeOK
    <3>2. \A f \in Engines : ~ Live(f)'
      BY <3>1, <2>2 DEF SessionInv, ByeInv
    <3>3. ShownInv'
      BY <3>2 DEF ShownInv, Live
    <3>4. \A i \in 1 .. Len(events') : ~ Bye(i)'
      <4>1. SessionInv => TypeOK /\ ByeInv
        BY DEF SessionInv
      <4>2. \A i \in 1 .. Len(events') : Bye(i)' => i + 1 \in 1 .. Len(events) /\ Bye(i + 1)
        BY <2>1, <4>1, TakeKeepsByes
      <4> QED
        BY <3>1, <4>1, <4>2 DEF ByeInv
    <3>5. ByeInv'
      BY <3>4 DEF ByeInv
    <3> QED
      BY <1>0, <2>3, <3>3, <3>5 DEF SessionInv
  <2> QED
    BY <2>4, <2>5
<1>9. ASSUME OnSignaling \/ OnPtt \/ OnPttBound PROVE SessionInv'
  <2>1. /\ events # <<>> /\ events' = Tail(events)
        /\ UNCHANGED <<connected, connecting, handle, loop>>
    BY <1>9 DEF OnSignaling, OnPtt, OnPttBound, Take
  <2>2. \A f \in Engines : (Live(f)' <=> Live(f)) /\ (Running(f)' <=> Running(f))
    BY <2>1 DEF Live, Running
  <2>3. BornInv' /\ OneLive' /\ ShownInv'
    BY <2>1, <2>2 DEF SessionInv, BornInv, OneLive, ShownInv
  <2>4. ByeInv'
    <3>1. SessionInv => TypeOK /\ ByeInv
      BY DEF SessionInv
    <3> QED
      BY <2>1, <2>2, <3>1, TakeKeepsByes DEF ByeInv
  <2> QED
    BY <1>0, <2>3, <2>4 DEF SessionInv
<1>10. ASSUME NEW e \in Engines, Obey(e) \/ SignalingLost(e) \/ Reconnects(e) \/ Admitted(e)
       PROVE  SessionInv'
  <2>1. UNCHANGED <<connected, connecting, handle, loop>>
    BY <1>10 DEF Obey, SignalingLost, Reconnects, Admitted
  <2>2. \/ UNCHANGED events
        \/ \E up \in BOOLEAN : Emit(Signaling(up))
        \/ \E tx \in BOOLEAN : Emit(Status(TRUE, tx))
    <3>1. ASSUME Obey(e) PROVE UNCHANGED events \/ \E tx \in BOOLEAN : Emit(Status(TRUE, tx))
      <4>1. Head(cmds[e]) \in Cmd
        BY <1>0, <3>1 DEF Obey, TypeOK
      <4>2. Wanted(e, Head(cmds[e])) \in BOOLEAN
        BY <1>0, <4>1, CmdsAreTyped DEF Wanted, TypeOK
      <4> QED
        BY <3>1, <4>2 DEF Obey, Transmit
    <3> QED
      BY <1>10, <3>1 DEF SignalingLost, Reconnects, Admitted
  <2>3. \/ UNCHANGED events
        \/ \E ev \in Event : Emit(ev) /\ ~ (ev.type = "status" /\ ~ ev.connected)
    BY <2>2, EventsAreTyped DEF Signaling, Status
  <2> QED
    BY <1>0, <2>1, <2>3, QuietStep
<1>11. ASSUME NEW k \in Keys, Press(k) \/ Release(k) PROVE SessionInv'
  <2>1. UNCHANGED <<connected, connecting, handle, loop>>
    BY <1>11 DEF Press, Release
  <2>2. \/ UNCHANGED events \/ Emit(PttBound)
        \/ \E down \in BOOLEAN : Emit(PttEvent(down))
    BY <1>11 DEF Press, Release
  <2>3. \/ UNCHANGED events
        \/ \E ev \in Event : Emit(ev) /\ ~ (ev.type = "status" /\ ~ ev.connected)
    BY <2>2, EventsAreTyped DEF PttBound, PttEvent
  <2> QED
    BY <1>0, <2>1, <2>3, QuietStep
<1>12. ASSUME ClickPtt \/ ToggleMic \/ ToggleLowBw \/ Rebind \/ UNCHANGED vars PROVE SessionInv'
  BY <1>0, <1>12, QuietStep DEF ClickPtt, ToggleMic, ToggleLowBw, Rebind, vars
<1> QED
  BY <1>1, <1>2, <1>3, <1>4, <1>5, <1>6, <1>7, <1>8, <1>9, <1>10, <1>11, <1>12
     DEF Next, Receive

-----------------------------------------------------------------------------
(* What the web view will have been told when it has received q.           *)

\* The i-th event of q is the last of those in S.
Latest(q, S, i) == q[i] \in S /\ \A j \in DOMAIN q : j > i => q[j] \notin S
Silent(q, S)    == \A i \in DOMAIN q : q[i] \notin S
\* The last event of q in S, if there is one, is in R.
Ends(q, S, R)   == \A i \in DOMAIN q : Latest(q, S, i) => q[i] \in R

Statuses == {Status(up, tx) : up \in BOOLEAN, tx \in BOOLEAN}
Links    == {Signaling(up) : up \in BOOLEAN} \cup {Status(TRUE, tx) : tx \in BOOLEAN}
Ptts     == {PttEvent(down) : down \in BOOLEAN}

-----------------------------------------------------------------------------
(* The invariant of what is under way to the web view and to the engine.   *)

\* No command reaches an engine before it is in the slot.
BlankInv == \A e \in Engines :
    handle[e] \in {"unborn", "dialing", "failed", "started"} => cmds[e] = <<>> /\ ~ transmit[e]

\* The next session starts when everything about the last has been received.
CalmInv ==
    /\ \A e \in Engines : handle[e] = "dialing" => ~ connected /\ Silent(events, Statuses)
    /\ (\A e \in Engines : ~ Live(e)) => connected \/ Silent(events, Statuses)
    /\ \A i \in DOMAIN events : Bye(i) => Latest(events, Statuses, i)

\* A running engine is shown, as it transmits, once the events are received.
TellsTransmit(e) ==
    /\ Ends(events, Statuses, {Status(TRUE, transmit[e])})
    /\ Silent(events, Statuses) => connected /\ (transmitting <=> transmit[e])
TxInv == \A e \in Engines : Running(e) => TellsTransmit(e)

\* The banner will be gone, unless the signaling of the running engine is down.
TellsLink == /\ Ends(events, Links, Links \ {Signaling(FALSE)})
             /\ Silent(events, Links) => sigUp
LinkInv == \A e \in Engines : Running(e) /\ link[e] # "down" => TellsLink

\* A rig has the setting shown, or the event that pushes it is under way.
DtxInv == \A e \in Engines :
    handle[e] \in {"started", "held"} /\ e \notin early
        => (dtx[e] <=> lowBw) \/ (~ connected /\ ~ Silent(events, Statuses))

\* When the key bound is up, the last the web view hears of it is its release.
PttInv == binding \notin keys /\ ~ swallowed => Ends(events, Ptts, {PttEvent(FALSE)})

\* An engine that will not transmit when its commands are done.
Hushed(e) == IF cmds[e] = <<>> THEN ~ transmit[e]
                               ELSE cmds[e][Len(cmds[e])] = SetTo(FALSE)
Unheard == \/ muted
           \/ binding \notin keys /\ ~ latched /\ ~ swallowed /\ Silent(events, Ptts)
HushInv == \A e \in Engines : handle[e] = "held" /\ Running(e) /\ Unheard => Hushed(e)

ViewInv == SessionInv /\ BlankInv /\ CalmInv /\ TxInv /\ LinkInv /\ DtxInv /\ PttInv /\ HushInv

LEMMA AppendFacts ==
    ASSUME NEW q \in Seq(Event), NEW ev \in Event
    PROVE  /\ Append(q, ev) \in Seq(Event)
           /\ Len(q) \in Nat /\ DOMAIN q = 1 .. Len(q)
           /\ DOMAIN Append(q, ev) = 1 .. Len(q) + 1
           /\ Append(q, ev)[Len(q) + 1] = ev
           /\ \A i \in DOMAIN q : Append(q, ev)[i] = q[i]
OBVIOUS

LEMMA TailFacts ==
    ASSUME NEW q \in Seq(Event), q # <<>>
    PROVE  /\ Len(q) \in Nat /\ DOMAIN q = 1 .. Len(q) /\ Len(q) > 0
           /\ DOMAIN Tail(q) = 1 .. Len(q) - 1
           /\ \A i \in DOMAIN Tail(q) : Tail(q)[i] = q[i + 1]
           /\ Head(q) = q[1]
OBVIOUS

\* An event that is not in S says nothing of what S says.
LEMMA AppendOther ==
    ASSUME NEW q \in Seq(Event), NEW ev \in Event, NEW S, NEW R, ev \notin S
    PROVE  /\ Ends(q, S, R) => Ends(Append(q, ev), S, R)
           /\ Silent(Append(q, ev), S) <=> Silent(q, S)
<1> DEFINE z == Append(q, ev)
           n == Len(q)
<1>1. /\ n \in Nat /\ DOMAIN q = 1 .. n /\ DOMAIN z = 1 .. n + 1 /\ z[n + 1] = ev
      /\ \A i \in DOMAIN q : z[i] = q[i]
  BY AppendFacts
<1> HIDE DEF z, n
<1>2. Silent(z, S) <=> Silent(q, S)
  BY <1>1 DEF Silent
<1>3. Ends(q, S, R) => Ends(z, S, R)
  BY <1>1 DEF Ends, Latest
<1> QED
  BY <1>2, <1>3 DEF z

\* An event that is in S is the last word.
LEMMA AppendSuch ==
    ASSUME NEW q \in Seq(Event), NEW ev \in Event, NEW S, NEW R, ev \in S, ev \in R
    PROVE  Ends(Append(q, ev), S, R) /\ ~ Silent(Append(q, ev), S)
<1> DEFINE z == Append(q, ev)
           n == Len(q)
<1>1. /\ n \in Nat /\ DOMAIN q = 1 .. n /\ DOMAIN z = 1 .. n + 1 /\ z[n + 1] = ev
      /\ \A i \in DOMAIN q : z[i] = q[i]
  BY AppendFacts
<1> HIDE DEF z, n
<1>2. ~ Silent(z, S)
  BY <1>1 DEF Silent
<1>3. \A i \in DOMAIN z : Latest(z, S, i) => i = n + 1
  BY <1>1 DEF Latest
<1>4. Ends(z, S, R)
  BY <1>1, <1>3 DEF Ends
<1> QED
  BY <1>2, <1>4 DEF z

\* What is received was, if no more of S comes, the last of S.
LEMMA TailEnds ==
    ASSUME NEW q \in Seq(Event), q # <<>>, NEW S, NEW R
    PROVE  /\ Ends(q, S, R) => Ends(Tail(q), S, R)
           /\ Head(q) \notin S => (Silent(Tail(q), S) <=> Silent(q, S))
           /\ Ends(q, S, R) /\ Head(q) \in S /\ Silent(Tail(q), S) => Head(q) \in R
           /\ Silent(q, S) => Head(q) \notin S
<1> DEFINE z == Tail(q)
           n == Len(q)
<1>1. /\ n \in Nat /\ n > 0 /\ DOMAIN q = 1 .. n /\ DOMAIN z = 1 .. n - 1
      /\ \A i \in DOMAIN z : z[i] = q[i + 1]
      /\ Head(q) = q[1]
  BY TailFacts
<1> HIDE DEF z, n
<1>2. \A i \in DOMAIN q : i = 1 \/ (i - 1 \in DOMAIN z /\ z[i - 1] = q[i])
  BY <1>1
<1>3. \A i \in DOMAIN z : i + 1 \in DOMAIN q /\ z[i] = q[i + 1]
  BY <1>1
<1>4. Ends(q, S, R) => Ends(z, S, R)
  <2>1. \A i \in DOMAIN z : Latest(z, S, i) => Latest(q, S, i + 1)
    BY <1>1, <1>2, <1>3 DEF Latest
  <2> QED
    BY <1>3, <2>1 DEF Ends
<1>5. Head(q) \notin S => (Silent(z, S) <=> Silent(q, S))
  BY <1>1, <1>2, <1>3 DEF Silent
<1>6. Ends(q, S, R) /\ Head(q) \in S /\ Silent(z, S) => Head(q) \in R
  <2>1. SUFFICES ASSUME Ends(q, S, R), Head(q) \in S, Silent(z, S) PROVE Latest(q, S, 1)
    BY <1>1 DEF Ends
  <2> QED
    BY <1>1, <1>2, <2>1 DEF Latest, Silent
<1>7. Silent(q, S) => Head(q) \notin S
  BY <1>1 DEF Silent
<1> QED
  BY <1>4, <1>5, <1>6, <1>7 DEF z

\* Which event is in which set.
LEMMA Kinds ==
    /\ \A up, tx \in BOOLEAN : /\ Status(up, tx) \in Statuses /\ Status(up, tx) \notin Ptts
                               /\ Status(up, tx) \in Links <=> up
    /\ \A up \in BOOLEAN : Signaling(up) \in Links /\ Signaling(up) \notin Statuses \cup Ptts
    /\ \A down \in BOOLEAN : PttEvent(down) \in Ptts /\ PttEvent(down) \notin Statuses \cup Links
    /\ PttBound \notin Statuses \cup Links \cup Ptts
<1>1. \A x \in Statuses : x.type = "status"
  BY DEF Statuses, Status
<1>2. \A x \in Ptts : x.type = "ptt"
  BY DEF Ptts, PttEvent
<1>3. \A x \in Links : x.type \in {"status", "signaling"} /\ (x.type = "status" => x.connected)
  BY DEF Links, Status, Signaling
<1>4. /\ \A up, tx \in BOOLEAN : Status(up, tx).type = "status" /\ (Status(up, tx).connected <=> up)
      /\ \A up \in BOOLEAN : Signaling(up).type = "signaling"
      /\ \A down \in BOOLEAN : PttEvent(down).type = "ptt"
      /\ PttBound.type = "ptt-bound"
  BY DEF Status, Signaling, PttEvent, PttBound
<1>5. \A up, tx \in BOOLEAN : Status(up, tx) \in Statuses
  BY DEF Statuses
<1>6. \A tx \in BOOLEAN : Status(TRUE, tx) \in Links
  BY DEF Links
<1>7. \A up \in BOOLEAN : Signaling(up) \in Links
  BY DEF Links
<1>8. \A down \in BOOLEAN : PttEvent(down) \in Ptts
  BY DEF Ptts
<1>9. \A up, tx \in BOOLEAN : Status(up, tx) \in Links <=> up
  BY <1>3, <1>4, <1>6
<1> QED
  BY <1>1, <1>2, <1>3, <1>4, <1>5, <1>7, <1>8, <1>9

\* What is received, by its type.
LEMMA ReceivedKind ==
    ASSUME TypeOK, events # <<>>
    PROVE  /\ Received \in Event
           /\ Received.type = "status" =>
                 /\ Received = Status(Received.connected, Received.transmitting)
                 /\ Received.connected \in BOOLEAN /\ Received.transmitting \in BOOLEAN
           /\ Received.type = "signaling" => Received = Signaling(Received.up) /\ Received.up \in BOOLEAN
           /\ Received.type = "ptt" => Received = PttEvent(Received.down) /\ Received.down \in BOOLEAN
           /\ Received.type = "ptt-bound" => Received = PttBound
<1>1. Received \in Event
  BY ReceivedIsTyped DEF TypeOK
<1>2. \A ev \in Event : /\ ev.type = "status" => /\ ev = Status(ev.connected, ev.transmitting)
                                                 /\ ev.connected \in BOOLEAN /\ ev.transmitting \in BOOLEAN
                        /\ ev.type = "signaling" => ev = Signaling(ev.up) /\ ev.up \in BOOLEAN
                        /\ ev.type = "ptt" => ev = PttEvent(ev.down) /\ ev.down \in BOOLEAN
                        /\ ev.type = "ptt-bound" => ev = PttBound
  BY DEF Event, Status, Signaling, PttEvent, PttBound
<1> QED
  BY <1>1, <1>2

-----------------------------------------------------------------------------
(* Commands.                                                               *)

LEMMA BlankStep == TypeOK /\ BlankInv /\ [Next]_vars => BlankInv'
<1> SUFFICES ASSUME TypeOK, BlankInv, [Next]_vars PROVE BlankInv'
  OBVIOUS
<1> USE DEF view, shell, session, user, history
<1>1. ASSUME NEW e \in Engines, Connect(e) \/ DialFails(e) \/ DialSucceeds(e) PROVE BlankInv'
  <2>1. CASE Connect(e)
    BY <2>1 DEF Connect, BlankInv, TypeOK
  <2>2. CASE DialFails(e)
    BY <2>2 DEF DialFails, BlankInv, TypeOK
  <2>3. CASE DialSucceeds(e)
    BY <2>3 DEF DialSucceeds, BlankInv, TypeOK
  <2> QED
    BY <1>1, <2>1, <2>2, <2>3
<1>2. ASSUME NEW e \in Engines, FillSlot(e) PROVE BlankInv'
  BY <1>2 DEF FillSlot, BlankInv, TypeOK
<1>3. ASSUME NEW e \in Engines, Obey(e) PROVE BlankInv'
  <2>1. /\ handle[e] \notin {"unborn", "dialing", "failed", "started"} /\ UNCHANGED handle
        /\ cmds' = [cmds EXCEPT ![e] = Tail(@)]
    BY <1>3 DEF Obey, BlankInv
  <2>2. \A f \in Engines : f # e => transmit'[f] = transmit[f]
    BY <1>3 DEF Obey, Transmit, TypeOK
  <2> QED
    BY <2>1, <2>2 DEF BlankInv, TypeOK
<1>4. ASSUME NEW e \in Engines, Refused(e) PROVE BlankInv'
  BY <1>4 DEF Refused, BlankInv, TypeOK
<1>5. ASSUME Disconnect PROVE BlankInv'
  <2>1. \A e \in Engines : handle'[e] = handle[e] \/ handle'[e] = "dropped"
    BY <1>5 DEF Disconnect, Dropped, TypeOK
  <2> QED
    BY <1>5, <2>1 DEF Disconnect, BlankInv
<1>6. ASSUME NEW cmd \in Cmd, Command(cmd), UNCHANGED <<handle, transmit>> PROVE BlankInv'
  BY <1>6 DEF Command, BlankInv, TypeOK
<1>7. ASSUME UNCHANGED <<handle, cmds, transmit>> PROVE BlankInv'
  BY <1>7 DEF BlankInv
<1>8. ASSUME ClickPtt \/ ToggleMic PROVE BlankInv'
  BY <1>6, <1>7, <1>8, CmdsAreTyped DEF ClickPtt, ToggleMic
<1>9. ASSUME OnPtt PROVE BlankInv'
  BY <1>6, <1>7, <1>9, ReceivedKind, CmdsAreTyped DEF OnPtt, Take
<1>10. ASSUME NEW e \in Engines,
              LoopEnds(e) \/ Admitted(e) \/ SignalingLost(e) \/ Reconnects(e)
       PROVE  BlankInv'
  BY <1>7, <1>10 DEF LoopEnds, Admitted, SignalingLost, Reconnects
<1>11. ASSUME NEW k \in Keys, Press(k) \/ Release(k) PROVE BlankInv'
  BY <1>7, <1>11 DEF Press, Release
<1>12. ASSUME ToggleLowBw \/ Rebind \/ OnStatus \/ OnSignaling \/ OnPttBound \/ UNCHANGED vars
       PROVE  BlankInv'
  BY <1>7, <1>12 DEF ToggleLowBw, Rebind, OnStatus, OnSignaling, OnPttBound, vars
<1> QED
  BY <1>1, <1>2, <1>3, <1>4, <1>5, <1>8, <1>9, <1>10, <1>11, <1>12 DEF Next, Receive

-----------------------------------------------------------------------------
(* What steps do to the events under way.                                  *)

\* Whatever else is emitted, what there was of S stays.
LEMMA EmitKeepsSound ==
    ASSUME NEW q \in Seq(Event), NEW ev \in Event, NEW S, ~ Silent(q, S)
    PROVE  ~ Silent(Append(q, ev), S)
<1>1. CASE ev \in S
  BY <1>1, AppendSuch
<1>2. CASE ev \notin S
  BY <1>2, AppendOther
<1> QED
  BY <1>1, <1>2

\* A running engine is the only one that is live, and it is past dialing.
LEMMA OnlyRunning ==
    ASSUME SessionInv, NEW e \in Engines, Running(e)
    PROVE  /\ handle[e] \in {"started", "held", "dropped"}
           /\ \A f \in Engines : Live(f) => f = e
           /\ \A f \in Engines : handle[f] # "dialing"
           /\ \A i \in DOMAIN events : ~ Bye(i)
<1>1. handle[e] \in {"started", "held", "dropped"}
  BY DEF SessionInv, TypeOK, BornInv, Running
<1>2. \A f \in Engines : Live(f) => f = e
  BY DEF SessionInv, OneLive, Live
<1>3. \A f \in Engines : handle[f] # "dialing"
  BY <1>1, <1>2 DEF Live
<1>4. \A i \in DOMAIN events : ~ Bye(i)
  BY DEF SessionInv, TypeOK, ByeInv, Live
<1> QED
  BY <1>1, <1>2, <1>3, <1>4

\* Obey, as far as the web view and the engine are concerned.
LEMMA Obeyed ==
    ASSUME TypeOK, NEW e \in Engines, Obey(e)
    PROVE  /\ \A f \in Engines : f # e => cmds'[f] = cmds[f] /\ (transmit'[f] <=> transmit[f])
           /\ cmds'[e] = Tail(cmds[e]) /\ cmds[e] # <<>>
           /\ transmit'[e] <=> Wanted(e, Head(cmds[e]))
           /\ \/ UNCHANGED <<events, transmit>>
              \/ events' = Append(events, Status(TRUE, transmit'[e]))
<1>1. Wanted(e, Head(cmds[e])) \in BOOLEAN
  <2>1. Head(cmds[e]) \in Cmd
    BY DEF Obey, TypeOK
  <2> QED
    BY <2>1, CmdsAreTyped DEF Wanted, TypeOK
<1> DEFINE on == Wanted(e, Head(cmds[e]))
<1>2. cmds' = [cmds EXCEPT ![e] = Tail(@)] /\ cmds[e] # <<>>
  BY DEF Obey
<1>3. IF on # transmit[e] THEN Transmit(e, on) ELSE UNCHANGED <<transmit, events>>
  BY DEF Obey
<1> HIDE DEF on
<1>4. CASE on # transmit[e]
  <2>1. transmit' = [transmit EXCEPT ![e] = on] /\ events' = Append(events, Status(TRUE, on))
    BY <1>3, <1>4 DEF Transmit, Emit
  <2>2. transmit'[e] = on /\ \A f \in Engines : f # e => transmit'[f] = transmit[f]
    BY <2>1 DEF TypeOK
  <2> QED
    BY <1>2, <2>1, <2>2 DEF on, TypeOK
<1>5. CASE on = transmit[e]
  BY <1>2, <1>3, <1>5 DEF on, TypeOK
<1> QED
  BY <1>4, <1>5

-----------------------------------------------------------------------------
(* One session after the other.                                            *)

\* Steps that leave engines and view alone and tell the view of no session.
LEMMA CalmQuiet ==
    ASSUME TypeOK, CalmInv, UNCHANGED <<connected, handle, loop>>,
           \/ UNCHANGED events
           \/ \E ev \in Event : ev \notin Statuses /\ events' = Append(events, ev)
    PROVE  CalmInv'
<1>1. \A f \in Engines : Live(f)' <=> Live(f)
  BY DEF Live, Running
<1>2. CASE UNCHANGED events
  BY <1>1, <1>2 DEF CalmInv, Bye
<1>3. ASSUME NEW ev \in Event, ev \notin Statuses, events' = Append(events, ev)
      PROVE  CalmInv'
  <2>1. events \in Seq(Event)
    BY DEF TypeOK
  <2>2. Silent(events', Statuses) <=> Silent(events, Statuses)
    BY <1>3, <2>1, AppendOther
  <2>3. /\ Len(events) \in Nat /\ DOMAIN events = 1 .. Len(events)
        /\ DOMAIN events' = 1 .. Len(events) + 1
        /\ events'[Len(events) + 1] = ev
        /\ \A i \in DOMAIN events : events'[i] = events[i]
    BY <1>3, <2>1, AppendFacts
  <2>4. ~ (ev.type = "status")
    BY <1>3 DEF Event, Statuses, Status, Signaling, PttEvent, PttBound
  <2>5. \A i \in DOMAIN events' : Bye(i)' => i \in DOMAIN events /\ Bye(i)
    BY <2>3, <2>4 DEF Bye
  <2>6. ASSUME NEW i \in DOMAIN events', Bye(i)' PROVE Latest(events', Statuses, i)
    <3>1. i \in DOMAIN events /\ Latest(events, Statuses, i)
      BY <2>5, <2>6 DEF CalmInv
    <3>2. ev \notin Statuses
      BY <1>3
    <3>3. \A j \in DOMAIN events' : events'[j] = ev \/ (j \in DOMAIN events /\ events'[j] = events[j])
      BY <2>3
    <3>4. events'[i] \in Statuses /\ \A j \in DOMAIN events : j > i => events[j] \notin Statuses
      BY <2>3, <3>1 DEF Latest
    <3> QED
      BY <3>2, <3>3, <3>4 DEF Latest
  <2> QED
    BY <1>1, <1>3, <2>2, <2>6 DEF CalmInv
<1> QED
  BY <1>2, <1>3

\* After a step an engine runs, and it emitted at most that there is a session.
LEMMA CalmRunning ==
    ASSUME SessionInv, SessionInv', NEW e \in Engines, Live(e), Running(e)',
           UNCHANGED events \/ \E tx \in BOOLEAN : events' = Append(events, Status(TRUE, tx))
    PROVE  CalmInv'
<1>1. Live(e)' /\ \A f \in Engines : handle'[f] # "dialing"
  <2>1. handle'[e] # "dialing" /\ Live(e)'
    BY DEF SessionInv, BornInv, Live, Running
  <2> QED
    BY <2>1 DEF SessionInv, OneLive, Live
<1>2. \A i \in DOMAIN events' : ~ Bye(i)'
  <2>1. events' \in Seq(Event)
    BY DEF SessionInv, TypeOK
  <2>2. DOMAIN events' = 1 .. Len(events')
    BY <2>1
  <2> QED
    BY <1>1, <2>2 DEF SessionInv, ByeInv
<1> QED
  BY <1>1, <1>2 DEF CalmInv

\* Receiving leaves the farewell, if it is under way, the last there is.
LEMMA TailLatest ==
    ASSUME TypeOK, CalmInv, events # <<>>, events' = Tail(events)
    PROVE  \A i \in DOMAIN events' : Bye(i)' => Latest(events', Statuses, i)
<1>1. /\ Len(events) \in Nat /\ Len(events) > 0 /\ DOMAIN events = 1 .. Len(events)
      /\ DOMAIN events' = 1 .. Len(events) - 1
      /\ \A i \in DOMAIN events' : events'[i] = events[i + 1]
  BY TailFacts DEF TypeOK
<1>2. \A i \in DOMAIN events' : i + 1 \in DOMAIN events /\ (Bye(i)' => Bye(i + 1))
  BY <1>1 DEF Bye
<1> QED
  BY <1>1, <1>2 DEF CalmInv, Latest

LEMMA CalmStep == SessionInv /\ CalmInv /\ [Next]_vars => CalmInv'
<1> SUFFICES ASSUME SessionInv, CalmInv, [Next]_vars PROVE CalmInv'
  OBVIOUS
<1> USE DEF view, shell, session, user, history
<1>0. SessionInv' /\ TypeOK /\ TypeOK' /\ events \in Seq(Event)
  BY SessionStep DEF SessionInv, TypeOK
<1>1. ASSUME NEW e \in Engines, Connect(e) PROVE CalmInv'
  <2>1. ~ connected /\ Silent(events, Statuses) /\ UNCHANGED <<connected, events>>
    BY <1>1 DEF Connect, MayConnect, SessionInv, ShownInv, CalmInv
  <2> QED
    BY <2>1 DEF CalmInv, Bye
<1>2. ASSUME NEW e \in Engines, DialFails(e) PROVE CalmInv'
  <2>1. ~ connected /\ Silent(events, Statuses) /\ UNCHANGED <<connected, events>>
    BY <1>2 DEF DialFails, CalmInv
  <2> QED
    BY <2>1 DEF CalmInv, Bye
<1>3. ASSUME NEW e \in Engines, DialSucceeds(e) PROVE CalmInv'
  <2>1. Live(e) /\ Running(e)' /\ events' = Append(events, Status(TRUE, FALSE))
    BY <1>0, <1>3 DEF DialSucceeds, Live, Running, Emit, TypeOK
  <2> QED
    BY <1>0, <2>1, CalmRunning
<1>4. ASSUME NEW e \in Engines, Obey(e) PROVE CalmInv'
  <2>1. Live(e) /\ Running(e)'
    BY <1>4 DEF Obey, Live, Running
  <2>2. transmit'[e] \in BOOLEAN
    BY <1>0 DEF TypeOK
  <2>3. UNCHANGED events \/ events' = Append(events, Status(TRUE, transmit'[e]))
    BY <1>0, <1>4, Obeyed
  <2> QED
    BY <1>0, <2>1, <2>2, <2>3, CalmRunning
<1>5. ASSUME NEW e \in Engines, FillSlot(e) PROVE CalmInv'
  <2>1. Live(e)' /\ UNCHANGED <<connected, events>>
    BY <1>0, <1>5 DEF FillSlot, Live
  <2>2. \A f \in Engines : handle'[f] # "dialing"
    BY <1>0, <2>1, <1>5 DEF SessionInv, OneLive, Live, FillSlot
  <2> QED
    BY <2>1, <2>2 DEF CalmInv, Bye
<1>6. ASSUME NEW e \in Engines, LoopEnds(e) PROVE CalmInv'
  <2>1. Running(e) /\ connected /\ handle[e] = "dropped" /\ UNCHANGED <<connected, handle>>
    BY <1>6 DEF LoopEnds, SessionInv, ShownInv
  <2>2. (\A f \in Engines : handle'[f] # "dialing") /\ \A i \in DOMAIN events : ~ Bye(i)
    BY <2>1, OnlyRunning
  <2>3. events' = Append(events, Status(FALSE, FALSE)) /\ Status(FALSE, FALSE) \in Event
    BY <1>6, EventsAreTyped DEF LoopEnds, Farewell, Emit
  <2>4. /\ Len(events) \in Nat /\ DOMAIN events = 1 .. Len(events)
        /\ DOMAIN events' = 1 .. Len(events) + 1
        /\ events'[Len(events) + 1] = Status(FALSE, FALSE)
        /\ \A i \in DOMAIN events : events'[i] = events[i]
    BY <1>0, <2>3, AppendFacts
  <2>5. \A i \in DOMAIN events' : Bye(i)' => i = Len(events) + 1
    BY <2>2, <2>4 DEF Bye
  <2>6. Status(FALSE, FALSE) \in Statuses
    BY Kinds
  <2>7. ASSUME NEW i \in DOMAIN events', Bye(i)' PROVE Latest(events', Statuses, i)
    <3>1. i = Len(events) + 1 /\ events'[i] \in Statuses
      BY <2>4, <2>5, <2>6, <2>7
    <3>2. \A j \in DOMAIN events' : ~ (j > i)
      BY <2>4, <3>1
    <3> QED
      BY <3>1, <3>2 DEF Latest
  <2> QED
    BY <2>1, <2>2, <2>7 DEF CalmInv
<1>7. ASSUME NEW e \in Engines, Refused(e) PROVE CalmInv'
  <2>1. Running(e) /\ UNCHANGED <<connected, handle, events>>
    BY <1>7 DEF Refused
  <2>2. \A f \in Engines : handle'[f] # "dialing"
    BY <2>1, OnlyRunning
  <2>3. Live(e)' \/ connected
    BY <2>1, OnlyRunning DEF Live, SessionInv, ShownInv
  <2> QED
    BY <2>1, <2>2, <2>3 DEF CalmInv, Bye
<1>8. ASSUME Disconnect PROVE CalmInv'
  <2>1. connected /\ UNCHANGED <<connected, events>>
    BY <1>8 DEF Disconnect
  <2>2. \A f \in Engines : handle'[f] = handle[f] \/ handle'[f] = "dropped"
    BY <1>0, <1>8 DEF Disconnect, Dropped, TypeOK
  <2> QED
    BY <2>1, <2>2 DEF CalmInv, Bye
<1>9. ASSUME OnStatus PROVE CalmInv'
  <2>1. /\ events # <<>> /\ events' = Tail(events) /\ Received.type = "status"
        /\ UNCHANGED <<handle, loop>> /\ connected' = Received.connected
    BY <1>9 DEF OnStatus, Take
  <2>2. Received \in Statuses /\ Received.connected \in BOOLEAN
    BY <1>0, <2>1, ReceivedKind, Kinds
  <2>3. ~ Silent(events, Statuses)
    BY <1>0, <2>1, <2>2, TailEnds DEF Received
  <2>4. \A f \in Engines : handle'[f] # "dialing"
    BY <2>1, <2>3 DEF CalmInv
  <2>5. ASSUME ~ connected' PROVE Silent(events', Statuses)
    <3>1. 1 \in DOMAIN events /\ events[1] = Received /\ Bye(1)
      BY <1>0, <2>1, <2>2, <2>5, TailFacts DEF Bye, Received
    <3>2. Latest(events, Statuses, 1)
      BY <3>1 DEF CalmInv
    <3>3. /\ Len(events) \in Nat /\ DOMAIN events = 1 .. Len(events)
          /\ DOMAIN events' = 1 .. Len(events) - 1
          /\ \A i \in DOMAIN events' : events'[i] = events[i + 1]
      BY <1>0, <2>1, TailFacts
    <3> QED
      BY <3>2, <3>3 DEF Latest, Silent
  <2>6. \A i \in DOMAIN events' : Bye(i)' => Latest(events', Statuses, i)
    BY <1>0, <2>1, TailLatest
  <2> QED
    BY <2>4, <2>5, <2>6 DEF CalmInv
<1>10. ASSUME OnSignaling \/ OnPtt \/ OnPttBound PROVE CalmInv'
  <2>1. /\ events # <<>> /\ events' = Tail(events)
        /\ Received.type \in {"signaling", "ptt", "ptt-bound"}
        /\ UNCHANGED <<connected, handle, loop>>
    BY <1>10 DEF OnSignaling, OnPtt, OnPttBound, Take
  <2>2. Received \notin Statuses
    BY <1>0, <2>1, ReceivedKind, Kinds
  <2>3. Silent(events', Statuses) <=> Silent(events, Statuses)
    BY <1>0, <2>1, <2>2, TailEnds DEF Received
  <2>4. \A i \in DOMAIN events' : Bye(i)' => Latest(events', Statuses, i)
    BY <1>0, <2>1, TailLatest
  <2>5. \A f \in Engines : Live(f)' <=> Live(f)
    BY <2>1 DEF Live, Running
  <2> QED
    BY <2>1, <2>3, <2>4, <2>5 DEF CalmInv
<1>11. ASSUME NEW e \in Engines, Admitted(e) \/ SignalingLost(e) \/ Reconnects(e) PROVE CalmInv'
  <2>1. /\ UNCHANGED <<connected, handle, loop>>
        /\ \/ UNCHANGED events
           \/ \E up \in BOOLEAN : events' = Append(events, Signaling(up))
    BY <1>11 DEF Admitted, SignalingLost, Reconnects, Emit
  <2> QED
    BY <1>0, <2>1, EventsAreTyped, Kinds, CalmQuiet
<1>12. ASSUME NEW k \in Keys, Press(k) \/ Release(k) PROVE CalmInv'
  <2>1. /\ UNCHANGED <<connected, handle, loop>>
        /\ \/ UNCHANGED events \/ events' = Append(events, PttBound)
           \/ \E down \in BOOLEAN : events' = Append(events, PttEvent(down))
    BY <1>12 DEF Press, Release, Emit
  <2> QED
    BY <1>0, <2>1, EventsAreTyped, Kinds, CalmQuiet
<1>13. ASSUME ClickPtt \/ ToggleMic \/ ToggleLowBw \/ Rebind \/ UNCHANGED vars PROVE CalmInv'
  BY <1>0, <1>13, CalmQuiet DEF ClickPtt, ToggleMic, ToggleLowBw, Rebind, vars
<1> QED
  BY <1>1, <1>2, <1>3, <1>4, <1>5, <1>6, <1>7, <1>8, <1>9, <1>10, <1>11, <1>12, <1>13
     DEF Next, Receive

-----------------------------------------------------------------------------
(* The view of the transmission.                                           *)

\* Steps that change neither the view nor an engine's transmission.
LEMMA TxQuiet ==
    ASSUME TypeOK, TxInv, UNCHANGED <<connected, transmitting, transmit>>,
           \A f \in Engines : Running(f)' => Running(f),
           \/ UNCHANGED events
           \/ \E ev \in Event : ev \notin Statuses /\ events' = Append(events, ev)
    PROVE  TxInv'
<1> SUFFICES ASSUME NEW f \in Engines, Running(f)' PROVE TellsTransmit(f)'
  BY DEF TxInv
<1>1. TellsTransmit(f)
  BY DEF TxInv
<1>2. CASE UNCHANGED events
  BY <1>1, <1>2 DEF TellsTransmit
<1>3. ASSUME NEW ev \in Event, ev \notin Statuses, events' = Append(events, ev)
      PROVE  TellsTransmit(f)'
  <2>1. events \in Seq(Event)
    BY DEF TypeOK
  <2> DEFINE R == {Status(TRUE, transmit[f])}
  <2>2. Ends(events, Statuses, R) => Ends(events', Statuses, R)
    BY <1>3, <2>1, AppendOther
  <2>3. Silent(events', Statuses) <=> Silent(events, Statuses)
    BY <1>3, <2>1, AppendOther
  <2>4. UNCHANGED R
    OBVIOUS
  <2> HIDE DEF R
  <2>5. Ends(events, Statuses, R)
    BY <1>1 DEF TellsTransmit, R
  <2>6. Ends(events', Statuses, R')
    BY <2>2, <2>4, <2>5
  <2>7. Silent(events', Statuses) => connected' /\ (transmitting' <=> transmit'[f])
    BY <1>1, <2>3 DEF TellsTransmit
  <2> QED
    BY <2>6, <2>7 DEF TellsTransmit, R
<1> QED
  BY <1>2, <1>3

\* The engine that runs says how it transmits.
LEMMA TxTold ==
    ASSUME TypeOK, NEW e \in Engines, NEW tx \in BOOLEAN,
           events' = Append(events, Status(TRUE, tx)), transmit'[e] <=> tx,
           transmit'[e] \in BOOLEAN
    PROVE  TellsTransmit(e)'
<1>1. /\ Status(TRUE, tx) \in Event /\ Status(TRUE, tx) \in Statuses
      /\ Status(TRUE, tx) = Status(TRUE, transmit'[e]) /\ events \in Seq(Event)
  BY EventsAreTyped, Kinds DEF TypeOK
<1>2. Ends(events', Statuses, {Status(TRUE, transmit'[e])}) /\ ~ Silent(events', Statuses)
  BY <1>1, AppendSuch
<1> QED
  BY <1>2 DEF TellsTransmit

LEMMA TxStep == SessionInv /\ BlankInv /\ TxInv /\ [Next]_vars => TxInv'
<1> SUFFICES ASSUME SessionInv, BlankInv, TxInv, [Next]_vars PROVE TxInv'
  OBVIOUS
<1> USE DEF view, shell, session, user, history
<1>0. SessionInv' /\ TypeOK /\ TypeOK' /\ events \in Seq(Event)
  BY SessionStep DEF SessionInv, TypeOK
<1>1. ASSUME NEW e \in Engines, DialSucceeds(e) PROVE TxInv'
  <2>1. /\ events' = Append(events, Status(TRUE, FALSE)) /\ UNCHANGED transmit
        /\ handle[e] = "dialing" /\ Running(e)'
    BY <1>0, <1>1 DEF DialSucceeds, Emit, Running, TypeOK
  <2>2. transmit'[e] <=> FALSE
    BY <2>1 DEF BlankInv
  <2>3. TellsTransmit(e)'
    BY <1>0, <2>1, <2>2, TxTold DEF TypeOK
  <2>4. \A f \in Engines : Running(f)' => f = e
    BY <1>0, <2>1 DEF SessionInv, OneLive, Live
  <2> QED
    BY <2>3, <2>4 DEF TxInv
<1>2. ASSUME NEW e \in Engines, Obey(e) PROVE TxInv'
  <2>1. Running(e) /\ UNCHANGED <<connected, transmitting, loop>>
    BY <1>2 DEF Obey
  <2>2. transmit'[e] \in BOOLEAN
    BY <1>0 DEF TypeOK
  <2>3. CASE UNCHANGED <<events, transmit>>
    BY <1>0, <2>1, <2>3, TxQuiet DEF Running
  <2>4. CASE events' = Append(events, Status(TRUE, transmit'[e]))
    <3>1. TellsTransmit(e)'
      BY <1>0, <2>2, <2>4, TxTold
    <3>2. \A f \in Engines : Running(f)' => f = e
      BY <2>1, OnlyRunning DEF Live, Running
    <3> QED
      BY <3>1, <3>2 DEF TxInv
  <2> QED
    BY <1>0, <1>2, <2>3, <2>4, Obeyed
<1>3. ASSUME NEW e \in Engines, LoopEnds(e) PROVE TxInv'
  <2>1. Running(e) /\ loop' = [loop EXCEPT ![e] = "ended"]
    BY <1>3 DEF LoopEnds
  <2>2. \A f \in Engines : ~ Running(f)'
    BY <1>0, <2>1, OnlyRunning DEF Live, Running, TypeOK
  <2> QED
    BY <2>2 DEF TxInv
<1>4. ASSUME OnStatus PROVE TxInv'
  <2>1. /\ events # <<>> /\ events' = Tail(events) /\ Received.type = "status"
        /\ connected' = Received.connected /\ transmitting' = Received.transmitting
        /\ UNCHANGED <<loop, transmit>>
    BY <1>4 DEF OnStatus, Take
  <2>2. /\ Received \in Statuses /\ Received.connected \in BOOLEAN
        /\ Received.transmitting \in BOOLEAN
    BY <1>0, <2>1, ReceivedKind, Kinds
  <2>3. ASSUME NEW f \in Engines, Running(f)' PROVE TellsTransmit(f)'
    <3> DEFINE R == {Status(TRUE, transmit[f])}
    <3>1. Ends(events, Statuses, R)
      BY <2>1, <2>3 DEF TxInv, TellsTransmit, Running
    <3> HIDE DEF R
    <3>2. Ends(events', Statuses, R)
      BY <1>0, <2>1, <3>1, TailEnds
    <3>3. Silent(events', Statuses) => Received \in R
      BY <1>0, <2>1, <2>2, <3>1, TailEnds DEF Received
    <3>4. Received \in R => Received.connected /\ (Received.transmitting <=> transmit[f])
      BY <1>0 DEF R, Status, TypeOK
    <3> QED
      BY <2>1, <3>2, <3>3, <3>4 DEF R, TellsTransmit
  <2> QED
    BY <2>3 DEF TxInv
<1>5. ASSUME OnSignaling \/ OnPtt \/ OnPttBound PROVE TxInv'
  <2>1. /\ events # <<>> /\ events' = Tail(events)
        /\ Received.type \in {"signaling", "ptt", "ptt-bound"}
        /\ UNCHANGED <<connected, transmitting, transmit, loop>>
    BY <1>5 DEF OnSignaling, OnPtt, OnPttBound, Take
  <2>2. Received \notin Statuses
    BY <1>0, <2>1, ReceivedKind, Kinds
  <2>3. Silent(events', Statuses) <=> Silent(events, Statuses)
    BY <1>0, <2>1, <2>2, TailEnds DEF Received
  <2>4. ASSUME NEW f \in Engines, Running(f)' PROVE TellsTransmit(f)'
    <3>1. TellsTransmit(f)
      BY <2>1, <2>4 DEF TxInv, Running
    <3>2. Ends(events', Statuses, {Status(TRUE, transmit[f])})
      BY <1>0, <2>1, <3>1, TailEnds DEF TellsTransmit
    <3> QED
      BY <2>1, <2>3, <3>1, <3>2 DEF TellsTransmit
  <2> QED
    BY <2>4 DEF TxInv
<1>6. ASSUME NEW e \in Engines,
             \/ Connect(e) \/ DialFails(e) \/ FillSlot(e) \/ Admitted(e) \/ Refused(e)
             \/ SignalingLost(e) \/ Reconnects(e)
      PROVE  TxInv'
  <2>1. UNCHANGED <<connected, transmitting, transmit>>
    BY <1>6 DEF Connect, DialFails, FillSlot, Admitted, Refused, SignalingLost, Reconnects
  <2>2. \A f \in Engines : Running(f)' => Running(f)
    BY <1>0, <1>6 DEF Connect, DialFails, FillSlot, Admitted, Refused, SignalingLost, Reconnects,
                      Running, TypeOK
  <2>3. UNCHANGED events \/ \E up \in BOOLEAN : events' = Append(events, Signaling(up))
    BY <1>6 DEF Connect, DialFails, FillSlot, Admitted, Refused, SignalingLost, Reconnects, Emit
  <2> QED
    BY <1>0, <2>1, <2>2, <2>3, EventsAreTyped, Kinds, TxQuiet
<1>7. ASSUME NEW k \in Keys, Press(k) \/ Release(k) PROVE TxInv'
  <2>1. UNCHANGED <<connected, transmitting, transmit, loop>>
    BY <1>7 DEF Press, Release
  <2>2. \/ UNCHANGED events \/ events' = Append(events, PttBound)
        \/ \E down \in BOOLEAN : events' = Append(events, PttEvent(down))
    BY <1>7 DEF Press, Release, Emit
  <2> QED
    BY <1>0, <2>1, <2>2, EventsAreTyped, Kinds, TxQuiet DEF Running
<1>8. ASSUME Disconnect \/ ClickPtt \/ ToggleMic \/ ToggleLowBw \/ Rebind \/ UNCHANGED vars
      PROVE  TxInv'
  <2>1. UNCHANGED <<connected, transmitting, transmit, loop, events>>
    BY <1>8 DEF Disconnect, ClickPtt, ToggleMic, ToggleLowBw, Rebind, vars
  <2> QED
    BY <1>0, <2>1, TxQuiet DEF Running
<1> QED
  BY <1>1, <1>2, <1>3, <1>4, <1>5, <1>6, <1>7, <1>8 DEF Next, Receive

-----------------------------------------------------------------------------
(* The banner.                                                             *)

\* No event but the loss of signaling brings the banner back.
LEMMA LinkAppend ==
    ASSUME TypeOK, NEW ev \in Event, ev # Signaling(FALSE), TellsLink, UNCHANGED sigUp,
           events' = Append(events, ev)
    PROVE  TellsLink'
<1> DEFINE R == Links \ {Signaling(FALSE)}
<1>1. events \in Seq(Event) /\ Ends(events, Links, R)
  BY DEF TypeOK, TellsLink
<1>2. CASE ev \in Links
  <2>1. ev \in R
    BY <1>2
  <2> HIDE DEF R
  <2>2. Ends(events', Links, R) /\ ~ Silent(events', Links)
    BY <1>1, <1>2, <2>1, AppendSuch
  <2> QED
    BY <2>2 DEF TellsLink, R
<1>3. CASE ev \notin Links
  <2> HIDE DEF R
  <2>1. Ends(events', Links, R) /\ (Silent(events', Links) <=> Silent(events, Links))
    BY <1>1, <1>3, AppendOther
  <2> QED
    BY <2>1 DEF TellsLink, R
<1> QED
  BY <1>2, <1>3

\* A session, and signaling that is back, take the banner away.
LEMMA LinkTold ==
    ASSUME TypeOK, NEW ev \in Event, ev \in Links, ev # Signaling(FALSE),
           events' = Append(events, ev)
    PROVE  TellsLink'
<1> DEFINE R == Links \ {Signaling(FALSE)}
<1>1. events \in Seq(Event) /\ ev \in R
  BY DEF TypeOK
<1> HIDE DEF R
<1>2. Ends(events', Links, R) /\ ~ Silent(events', Links)
  BY <1>1, AppendSuch
<1> QED
  BY <1>2 DEF TellsLink, R

LEMMA Apart ==
    /\ \A up, tx \in BOOLEAN : Status(up, tx) # Signaling(FALSE)
    /\ Signaling(TRUE) # Signaling(FALSE) /\ PttBound # Signaling(FALSE)
    /\ \A down \in BOOLEAN : PttEvent(down) # Signaling(FALSE)
BY DEF Status, Signaling, PttBound, PttEvent

LEMMA LinkStep == SessionInv /\ LinkInv /\ [Next]_vars => LinkInv'
<1> SUFFICES ASSUME SessionInv, LinkInv, [Next]_vars PROVE LinkInv'
  OBVIOUS
<1> USE DEF view, shell, session, user, history
<1>0. SessionInv' /\ TypeOK /\ TypeOK' /\ events \in Seq(Event)
  BY SessionStep DEF SessionInv, TypeOK
<1>a. ASSUME \A f \in Engines : Running(f)' /\ link'[f] # "down" => Running(f) /\ link[f] # "down",
             UNCHANGED sigUp,
             \/ UNCHANGED events
             \/ \E ev \in Event : ev # Signaling(FALSE) /\ events' = Append(events, ev)
      PROVE  LinkInv'
  <2>1. TellsLink => TellsLink'
    BY <1>0, <1>a, LinkAppend DEF TellsLink
  <2> QED
    BY <1>a, <2>1 DEF LinkInv
<1>1. ASSUME NEW e \in Engines, DialSucceeds(e) PROVE LinkInv'
  <2>1. events' = Append(events, Status(TRUE, FALSE))
    BY <1>1 DEF DialSucceeds, Emit
  <2>2. TellsLink'
    BY <1>0, <2>1, EventsAreTyped, Kinds, Apart, LinkTold
  <2> QED
    BY <2>2 DEF LinkInv
<1>2. ASSUME NEW e \in Engines, Reconnects(e) PROVE LinkInv'
  <2>1. events' = Append(events, Signaling(TRUE))
    BY <1>2 DEF Reconnects, Emit
  <2>2. TellsLink'
    BY <1>0, <2>1, EventsAreTyped, Kinds, Apart, LinkTold
  <2> QED
    BY <2>2 DEF LinkInv
<1>3. ASSUME NEW e \in Engines, SignalingLost(e) PROVE LinkInv'
  <2>1. Running(e) /\ link' = [link EXCEPT ![e] = "down"] /\ UNCHANGED loop
    BY <1>3 DEF SignalingLost
  <2>2. \A f \in Engines : Running(f)' => f = e
    BY <2>1, OnlyRunning DEF Live, Running
  <2>3. link'[e] = "down"
    BY <1>0, <2>1 DEF TypeOK
  <2> QED
    BY <2>2, <2>3 DEF LinkInv
<1>4. ASSUME NEW e \in Engines, LoopEnds(e) PROVE LinkInv'
  <2>1. Running(e) /\ loop' = [loop EXCEPT ![e] = "ended"]
    BY <1>4 DEF LoopEnds
  <2>2. \A f \in Engines : ~ Running(f)'
    BY <1>0, <2>1, OnlyRunning DEF Live, Running, TypeOK
  <2> QED
    BY <2>2 DEF LinkInv
<1>5. ASSUME NEW e \in Engines, Obey(e) PROVE LinkInv'
  <2>1. UNCHANGED <<loop, link, sigUp>> /\ transmit'[e] \in BOOLEAN
    BY <1>0, <1>5 DEF Obey, TypeOK
  <2>2. UNCHANGED events \/ events' = Append(events, Status(TRUE, transmit'[e]))
    BY <1>0, <1>5, Obeyed
  <2> QED
    BY <1>a, <2>1, <2>2, EventsAreTyped, Apart DEF Running
<1>6. ASSUME NEW e \in Engines,
             Connect(e) \/ DialFails(e) \/ FillSlot(e) \/ Admitted(e) \/ Refused(e)
      PROVE  LinkInv'
  <2>1. UNCHANGED <<sigUp, events>>
    BY <1>6 DEF Connect, DialFails, FillSlot, Admitted, Refused
  <2>2. \A f \in Engines : Running(f)' /\ link'[f] # "down" => Running(f) /\ link[f] # "down"
    <3>1. CASE Connect(e) \/ DialFails(e) \/ FillSlot(e)
      BY <3>1 DEF Connect, DialFails, FillSlot, Running, TypeOK
    <3>2. CASE Admitted(e)
      BY <3>2 DEF Admitted, Running, TypeOK
    <3>3. CASE Refused(e)
      BY <3>3 DEF Refused, Running, TypeOK
    <3> QED
      BY <1>6, <3>1, <3>2, <3>3
  <2> QED
    BY <1>a, <2>1, <2>2
<1>7. ASSUME NEW k \in Keys, Press(k) \/ Release(k) PROVE LinkInv'
  <2>1. UNCHANGED <<sigUp, loop, link>>
    BY <1>7 DEF Press, Release
  <2>2. \/ UNCHANGED events \/ events' = Append(events, PttBound)
        \/ \E down \in BOOLEAN : events' = Append(events, PttEvent(down))
    BY <1>7 DEF Press, Release, Emit
  <2> QED
    BY <1>a, <2>1, <2>2, EventsAreTyped, Apart DEF Running
<1>8. ASSUME Disconnect \/ ClickPtt \/ ToggleMic \/ ToggleLowBw \/ Rebind \/ UNCHANGED vars
      PROVE  LinkInv'
  <2>1. UNCHANGED <<sigUp, loop, link, events>>
    BY <1>8 DEF Disconnect, ClickPtt, ToggleMic, ToggleLowBw, Rebind, vars
  <2> QED
    BY <1>a, <2>1 DEF Running
<1>9. ASSUME Receive PROVE LinkInv'
  <2>1. events # <<>> /\ events' = Tail(events) /\ UNCHANGED <<loop, link>>
    BY <1>9 DEF Receive, OnStatus, OnSignaling, OnPtt, OnPttBound, Take
  <2>2. Received \in Links /\ Received # Signaling(FALSE) => sigUp'
    <3>1. CASE OnStatus
      <4>1. Received = Status(Received.connected, Received.transmitting)
            /\ Received.connected \in BOOLEAN /\ Received.transmitting \in BOOLEAN
        BY <1>0, <3>1, ReceivedKind DEF OnStatus, Take
      <4>2. Received \in Links => Received.connected
        BY <4>1, Kinds
      <4> QED
        BY <3>1, <4>2 DEF OnStatus, SigUpAfter
    <3>2. CASE OnSignaling
      <4>1. Received = Signaling(Received.up) /\ Received.up \in BOOLEAN
        BY <1>0, <3>2, ReceivedKind DEF OnSignaling, Take
      <4>2. Received # Signaling(FALSE) => Received.up = TRUE
        BY <4>1
      <4> QED
        BY <3>2, <4>2 DEF OnSignaling
    <3>3. CASE OnPtt \/ OnPttBound
      <4>1. Received \notin Links
        BY <1>0, <3>3, ReceivedKind, Kinds DEF OnPtt, OnPttBound, Take
      <4> QED
        BY <4>1
    <3> QED
      BY <1>9, <3>1, <3>2, <3>3 DEF Receive
  <2>3. Received \notin Links /\ sigUp => sigUp'
    <3>1. OnSignaling => Received \in Links
      BY <1>0, ReceivedKind, Kinds DEF OnSignaling, Take
    <3> QED
      BY <1>9, <3>1 DEF Receive, OnStatus, OnPtt, OnPttBound, SigUpAfter
  <2>4. TellsLink => TellsLink'
    <3> DEFINE R == Links \ {Signaling(FALSE)}
    <3>1. SUFFICES ASSUME Ends(events, Links, R), Silent(events, Links) => sigUp
                   PROVE  Ends(events', Links, R) /\ (Silent(events', Links) => sigUp')
      BY DEF TellsLink
    <3>2. Received \in R => sigUp'
      BY <2>2
    <3> HIDE DEF R
    <3>3. /\ Ends(events', Links, R)
          /\ Received \notin Links => (Silent(events', Links) <=> Silent(events, Links))
          /\ Received \in Links /\ Silent(events', Links) => Received \in R
      BY <1>0, <2>1, <3>1, TailEnds DEF Received
    <3> QED
      BY <2>3, <3>1, <3>2, <3>3
  <2> QED
    BY <2>1, <2>4 DEF LinkInv, Running
<1> QED
  BY <1>1, <1>2, <1>3, <1>4, <1>5, <1>6, <1>7, <1>8, <1>9 DEF Next

-----------------------------------------------------------------------------
(* The setting.                                                            *)

\* Steps that leave rigs and settings alone and receive nothing.
LEMMA DtxQuiet ==
    ASSUME TypeOK, DtxInv, UNCHANGED <<connected, lowBw, dtx>>, early \subseteq early',
           \A f \in Engines : handle'[f] \in {"started", "held"} => handle[f] \in {"started", "held"},
           UNCHANGED events \/ \E ev \in Event : events' = Append(events, ev)
    PROVE  DtxInv'
<1>1. ~ Silent(events, Statuses) => ~ Silent(events', Statuses)
  <2>1. ASSUME NEW ev \in Event, events' = Append(events, ev), ~ Silent(events, Statuses)
        PROVE  ~ Silent(events', Statuses)
    BY <2>1, EmitKeepsSound DEF TypeOK
  <2> QED
    BY <2>1
<1> QED
  BY <1>1 DEF DtxInv

LEMMA DtxStep == SessionInv /\ CalmInv /\ DtxInv /\ [Next]_vars => DtxInv'
<1> SUFFICES ASSUME SessionInv, CalmInv, DtxInv, [Next]_vars PROVE DtxInv'
  OBVIOUS
<1> USE DEF view, shell, session, user, history
<1>0. /\ SessionInv' /\ TypeOK /\ TypeOK' /\ events \in Seq(Event)
      /\ lowBw \in BOOLEAN /\ lowBw' \in BOOLEAN
  BY SessionStep DEF SessionInv, TypeOK
<1>1. ASSUME NEW e \in Engines, DialSucceeds(e) PROVE DtxInv'
  <2>1. /\ handle[e] = "dialing" /\ handle'[e] = "started"
        /\ events' = Append(events, Status(TRUE, FALSE)) /\ UNCHANGED connected
    BY <1>0, <1>1 DEF DialSucceeds, Emit, TypeOK
  <2>2. ~ connected'
    BY <2>1 DEF CalmInv
  <2>3. Status(TRUE, FALSE) \in Event /\ Status(TRUE, FALSE) \in Statuses
    BY EventsAreTyped, Kinds
  <2>4. ~ Silent(events', Statuses)
    BY <1>0, <2>1, <2>3, AppendSuch
  <2> QED
    BY <2>2, <2>4 DEF DtxInv
<1>2. ASSUME ToggleLowBw PROVE DtxInv'
  <2>1. /\ UNCHANGED <<connected, events, handle, slot>> /\ dtx' = Setting(dtx, lowBw')
        /\ early' = Missed
    BY <1>2 DEF ToggleLowBw
  <2>2. ASSUME NEW f \in Engines, handle[f] = "held" PROVE dtx'[f] = lowBw'
    BY <1>0, <2>1, <2>2 DEF Setting, TypeOK
  <2>3. ASSUME NEW f \in Engines, handle[f] = "started" PROVE f \in early'
    <3>1. slot = NoEngine
      BY <1>0, <2>3 DEF SessionInv, OneLive, Live, TypeOK
    <3> QED
      BY <2>1, <2>3, <3>1 DEF Missed, Gap
  <2> QED
    BY <2>1, <2>2, <2>3 DEF DtxInv
<1>3. ASSUME OnStatus PROVE DtxInv'
  <2>1. /\ events # <<>> /\ events' = Tail(events) /\ Received.type = "status"
        /\ connected' = Received.connected
        /\ UNCHANGED <<handle, slot, lowBw>>
        /\ IF ~ connected /\ connected' THEN PushSettings ELSE UNCHANGED <<dtx, early>>
    BY <1>3 DEF OnStatus, Take
  <2>2. ASSUME NEW f \in Engines, handle[f] \in {"started", "held"}, f \notin early'
        PROVE  dtx'[f] <=> lowBw'
    <3>1. connected'
      <4>1. 1 \in 1 .. Len(events) /\ events[1] = Received
        BY <1>0, <2>1, TailFacts DEF Received
      <4>2. Live(f)
        BY <2>2 DEF Live
      <4>3. ~ Bye(1)
        BY <4>1, <4>2 DEF SessionInv, ByeInv
      <4> QED
        BY <2>1, <4>1, <4>3 DEF Bye
    <3>2. CASE connected
      BY <2>1, <2>2, <3>2 DEF DtxInv
    <3>3. CASE ~ connected
      <4>1. dtx' = Setting(dtx, lowBw) /\ early' = Missed
        BY <2>1, <3>1, <3>3 DEF PushSettings
      <4>2. CASE handle[f] = "held"
        BY <1>0, <2>1, <4>1, <4>2 DEF Setting, TypeOK
      <4>3. CASE handle[f] = "started"
        <5>1. slot = NoEngine
          BY <1>0, <4>3 DEF SessionInv, OneLive, Live, TypeOK
        <5> QED
          BY <2>2, <4>1, <4>3, <5>1 DEF Missed, Gap
      <4> QED
        BY <2>2, <4>2, <4>3
    <3> QED
      BY <3>2, <3>3
  <2> QED
    BY <2>1, <2>2 DEF DtxInv
<1>4. ASSUME OnSignaling \/ OnPtt \/ OnPttBound PROVE DtxInv'
  <2>1. /\ events # <<>> /\ events' = Tail(events)
        /\ Received.type \in {"signaling", "ptt", "ptt-bound"}
        /\ UNCHANGED <<connected, lowBw, dtx, handle>> /\ early \subseteq early'
    BY <1>4 DEF OnSignaling, OnPtt, OnPttBound, Take, Command
  <2>2. Received \notin Statuses
    BY <1>0, <2>1, ReceivedKind, Kinds
  <2>3. Silent(events', Statuses) <=> Silent(events, Statuses)
    BY <1>0, <2>1, <2>2, TailEnds DEF Received
  <2> QED
    BY <2>1, <2>3 DEF DtxInv
<1>5. ASSUME NEW e \in Engines,
             \/ Connect(e) \/ DialFails(e) \/ FillSlot(e) \/ Admitted(e) \/ Refused(e)
             \/ LoopEnds(e) \/ SignalingLost(e) \/ Reconnects(e)
      PROVE  DtxInv'
  <2>1. UNCHANGED <<connected, lowBw, dtx, early>>
    BY <1>5 DEF Connect, DialFails, FillSlot, Admitted, Refused, LoopEnds, SignalingLost, Reconnects
  <2>2. \A f \in Engines : handle'[f] \in {"started", "held"} => handle[f] \in {"started", "held"}
    <3>1. CASE Connect(e) \/ DialFails(e)
      BY <1>0, <3>1 DEF Connect, DialFails, TypeOK
    <3>2. CASE FillSlot(e)
      BY <1>0, <3>2 DEF FillSlot, TypeOK
    <3>3. CASE UNCHANGED handle
      BY <3>3
    <3> QED
      BY <1>5, <3>1, <3>2, <3>3 DEF Admitted, Refused, LoopEnds, SignalingLost, Reconnects
  <2>3. \/ UNCHANGED events \/ events' = Append(events, Status(FALSE, FALSE))
        \/ \E up \in BOOLEAN : events' = Append(events, Signaling(up))
    BY <1>5 DEF Connect, DialFails, FillSlot, Admitted, Refused, LoopEnds, Farewell, SignalingLost,
                Reconnects, Emit
  <2> QED
    BY <1>0, <2>1, <2>2, <2>3, EventsAreTyped, DtxQuiet
<1>6. ASSUME NEW e \in Engines, Obey(e) PROVE DtxInv'
  <2>1. UNCHANGED <<connected, lowBw, dtx, early, handle>> /\ transmit'[e] \in BOOLEAN
    BY <1>0, <1>6 DEF Obey, TypeOK
  <2>2. UNCHANGED events \/ events' = Append(events, Status(TRUE, transmit'[e]))
    BY <1>0, <1>6, Obeyed
  <2> QED
    BY <1>0, <2>1, <2>2, EventsAreTyped, DtxQuiet
<1>7. ASSUME NEW k \in Keys, Press(k) \/ Release(k) PROVE DtxInv'
  <2>1. UNCHANGED <<connected, lowBw, dtx, early, handle>>
    BY <1>7 DEF Press, Release
  <2>2. \/ UNCHANGED events \/ events' = Append(events, PttBound)
        \/ \E down \in BOOLEAN : events' = Append(events, PttEvent(down))
    BY <1>7 DEF Press, Release, Emit
  <2> QED
    BY <1>0, <2>1, <2>2, EventsAreTyped, DtxQuiet
<1>8. ASSUME Disconnect PROVE DtxInv'
  <2>1. UNCHANGED <<connected, lowBw, dtx, events>> /\ early \subseteq early'
    BY <1>8 DEF Disconnect, Missed
  <2>2. \A f \in Engines : handle'[f] = handle[f] \/ handle'[f] = "dropped"
    BY <1>0, <1>8 DEF Disconnect, Dropped, TypeOK
  <2> QED
    BY <1>0, <2>1, <2>2, DtxQuiet
<1>9. ASSUME ClickPtt \/ ToggleMic \/ Rebind \/ UNCHANGED vars PROVE DtxInv'
  <2>1. UNCHANGED <<connected, lowBw, dtx, events, handle>> /\ early \subseteq early'
    BY <1>9 DEF ClickPtt, ToggleMic, Rebind, vars, Command
  <2> QED
    BY <1>0, <2>1, DtxQuiet
<1> QED
  BY <1>1, <1>2, <1>3, <1>4, <1>5, <1>6, <1>7, <1>8, <1>9 DEF Next, Receive

-----------------------------------------------------------------------------
(* The key.                                                                *)

LEMMA PttStep == TypeOK /\ PttInv /\ [Next]_vars => PttInv'
<1> SUFFICES ASSUME TypeOK, PttInv, [Next]_vars PROVE PttInv'
  OBVIOUS
<1> USE DEF view, shell, session, user, history
<1> DEFINE R == {PttEvent(FALSE)}
<1>0. events \in Seq(Event) /\ PttEvent(FALSE) \in Event
  BY EventsAreTyped DEF TypeOK
<1>a. ASSUME UNCHANGED <<binding, keys, swallowed>>,
             UNCHANGED events \/ \E ev \in Event : ev \notin Ptts /\ events' = Append(events, ev)
      PROVE  PttInv'
  <2> HIDE DEF R
  <2>1. Ends(events, Ptts, R) => Ends(events', Ptts, R)
    BY <1>0, <1>a, AppendOther
  <2> QED
    BY <1>a, <2>1 DEF PttInv, R
<1>1. ASSUME NEW k \in Keys, Press(k) PROVE PttInv'
  <2>1. CASE capture \/ k = binding
    BY <1>1, <2>1 DEF Press, PttInv
  <2>2. CASE ~ capture /\ k # binding
    <3>1. UNCHANGED <<events, binding, swallowed>> /\ keys' = keys \cup {k}
      BY <1>1, <2>2 DEF Press
    <3> QED
      BY <3>1 DEF PttInv
  <2> QED
    BY <2>1, <2>2
<1>2. ASSUME NEW k \in Keys, Release(k) PROVE PttInv'
  <2>1. CASE k # binding
    <3>1. UNCHANGED <<events, binding>> /\ keys' = keys \ {k} /\ (swallowed => swallowed')
      BY <1>2, <2>1 DEF Release
    <3> QED
      BY <2>1, <3>1 DEF PttInv
  <2>2. CASE k = binding /\ capture
    BY <1>2, <2>2 DEF Release, PttInv
  <2>3. CASE k = binding /\ ~ capture
    <3>1. events' = Append(events, PttEvent(FALSE))
      BY <1>2, <2>3 DEF Release, Emit
    <3>2. PttEvent(FALSE) \in Ptts /\ PttEvent(FALSE) \in R
      BY Kinds
    <3> HIDE DEF R
    <3>3. Ends(events', Ptts, R)
      BY <1>0, <3>1, <3>2, AppendSuch
    <3> QED
      BY <3>3 DEF PttInv, R
  <2> QED
    BY <2>1, <2>2, <2>3
<1>3. ASSUME Receive PROVE PttInv'
  <2>1. /\ events # <<>> /\ events' = Tail(events) /\ UNCHANGED <<binding, keys, swallowed>>
    BY <1>3 DEF Receive, OnStatus, OnSignaling, OnPtt, OnPttBound, Take
  <2> HIDE DEF R
  <2>2. Ends(events, Ptts, R) => Ends(events', Ptts, R)
    BY <1>0, <2>1, TailEnds
  <2> QED
    BY <2>1, <2>2 DEF PttInv, R
<1>4. ASSUME NEW e \in Engines, Obey(e) PROVE PttInv'
  <2>1. UNCHANGED <<binding, keys, swallowed>> /\ transmit'[e] \in BOOLEAN
    BY <1>4, TypeStep DEF Obey, TypeOK
  <2>2. UNCHANGED events \/ events' = Append(events, Status(TRUE, transmit'[e]))
    BY <1>4, Obeyed
  <2> QED
    BY <1>a, <2>1, <2>2, EventsAreTyped, Kinds
<1>5. ASSUME NEW e \in Engines,
             \/ Connect(e) \/ DialFails(e) \/ DialSucceeds(e) \/ FillSlot(e) \/ Admitted(e)
             \/ Refused(e) \/ LoopEnds(e) \/ SignalingLost(e) \/ Reconnects(e)
      PROVE  PttInv'
  <2>1. UNCHANGED <<binding, keys, swallowed>>
    BY <1>5 DEF Connect, DialFails, DialSucceeds, FillSlot, Admitted, Refused, LoopEnds,
                SignalingLost, Reconnects
  <2>2. \/ UNCHANGED events \/ \E up \in BOOLEAN : events' = Append(events, Status(up, FALSE))
        \/ \E up \in BOOLEAN : events' = Append(events, Signaling(up))
    BY <1>5 DEF Connect, DialFails, DialSucceeds, FillSlot, Admitted, Refused, LoopEnds, Farewell,
                SignalingLost, Reconnects, Emit
  <2> QED
    BY <1>a, <2>1, <2>2, EventsAreTyped, Kinds
<1>6. ASSUME Disconnect \/ ClickPtt \/ ToggleMic \/ ToggleLowBw \/ Rebind \/ UNCHANGED vars
      PROVE  PttInv'
  <2>1. UNCHANGED <<binding, keys, swallowed, events>>
    BY <1>6 DEF Disconnect, ClickPtt, ToggleMic, ToggleLowBw, Rebind, vars
  <2> QED
    BY <1>a, <2>1
<1> QED
  BY <1>1, <1>2, <1>3, <1>4, <1>5, <1>6 DEF Next

-----------------------------------------------------------------------------
(* What the engine will do.                                                *)

\* Steps that send no command and give no new reason to be silent.
LEMMA HushQuiet ==
    ASSUME HushInv, Unheard' => Unheard,
           \A f \in Engines : handle'[f] = "held" /\ Running(f)' =>
                                  /\ handle[f] = "held" /\ Running(f)
                                  /\ cmds'[f] = cmds[f] /\ (transmit'[f] <=> transmit[f])
    PROVE  HushInv'
BY DEF HushInv, Hushed

LEMMA LastOfCommands ==
    ASSUME NEW q \in Seq(Cmd)
    PROVE  /\ \A cmd \in Cmd : Append(q, cmd) # <<>> /\ Append(q, cmd)[Len(Append(q, cmd))] = cmd
           /\ q # <<>> /\ Tail(q) = <<>> => Head(q) = q[Len(q)]
           /\ q # <<>> /\ Tail(q) # <<>> => Tail(q)[Len(Tail(q))] = q[Len(q)]
<1>0. /\ Len(q) \in Nat /\ \A s : s = <<>> => Len(s) = 0
      /\ \A s \in Seq(Cmd) : s # <<>> => Len(s) \in 1 .. Len(s)
  OBVIOUS
<1>1. ASSUME NEW cmd \in Cmd
      PROVE  Append(q, cmd) # <<>> /\ Append(q, cmd)[Len(Append(q, cmd))] = cmd
  <2>1. /\ Append(q, cmd) \in Seq(Cmd) /\ Len(Append(q, cmd)) = Len(q) + 1
        /\ Append(q, cmd)[Len(q) + 1] = cmd
    OBVIOUS
  <2>2. Append(q, cmd) # <<>>
    BY <2>1, <1>0
  <2> QED
    BY <2>1, <2>2
<1>2. CASE q # <<>>
  <2> DEFINE z == Tail(q)
  <2>1. /\ z \in Seq(Cmd) /\ Len(q) \in Nat /\ Len(q) > 0 /\ Len(z) = Len(q) - 1
        /\ \A i \in 1 .. Len(z) : z[i] = q[i + 1]
        /\ Head(q) = q[1]
    BY <1>2
  <2>2. /\ z = <<>> => Len(z) = 0
        /\ z # <<>> => Len(z) \in 1 .. Len(z)
    BY <1>0, <2>1
  <2> HIDE DEF z
  <2>3. z = <<>> => Head(q) = q[Len(q)]
    BY <2>1, <2>2
  <2>4. z # <<>> => z[Len(z)] = q[Len(q)]
    BY <2>1, <2>2
  <2> QED
    BY <1>1, <2>3, <2>4 DEF z
<1> QED
  BY <1>1, <1>2

LEMMA CommandHushes ==
    ASSUME TypeOK, NEW cmd \in Cmd, Command(cmd), cmd = SetTo(FALSE),
           NEW f \in Engines, handle[f] = "held", Running(f)
    PROVE  Hushed(f)'
<1>1. slot = f /\ cmds[f] \in Seq(Cmd)
  BY DEF TypeOK
<1>2. cmds'[f] = Append(cmds[f], cmd)
  BY <1>1 DEF Command
<1> DEFINE z == cmds'[f]
<1>3. z # <<>> /\ z[Len(z)] = cmd
  <2>1. \A q \in Seq(Cmd) : Append(q, cmd) # <<>> /\ Append(q, cmd)[Len(Append(q, cmd))] = cmd
    BY LastOfCommands
  <2>2. z = Append(cmds[f], cmd)
    BY <1>2
  <2> HIDE DEF z
  <2> QED
    BY <1>1, <2>1, <2>2, Zenon
<1> QED
  BY <1>3 DEF Hushed

\* An engine that obeys stays hushed: its last command is its state in the end.
LEMMA ObeyHushes ==
    ASSUME TypeOK, NEW e \in Engines, Obey(e), Hushed(e)
    PROVE  Hushed(e)'
<1>1. /\ cmds[e] \in Seq(Cmd) /\ cmds[e] # <<>> /\ cmds'[e] = Tail(cmds[e])
      /\ transmit'[e] <=> Wanted(e, Head(cmds[e]))
  BY Obeyed DEF TypeOK
<1>2. cmds[e][Len(cmds[e])] = SetTo(FALSE)
  BY <1>1 DEF Hushed
<1>3. CASE cmds'[e] = <<>>
  <2>1. Head(cmds[e]) = SetTo(FALSE)
    BY <1>1, <1>2, <1>3, LastOfCommands
  <2>2. ~ Wanted(e, SetTo(FALSE))
    BY DEF Wanted, SetTo, Toggle
  <2> QED
    BY <1>1, <1>3, <2>1, <2>2 DEF Hushed
<1>4. CASE cmds'[e] # <<>>
  <2>1. cmds'[e][Len(cmds'[e])] = cmds[e][Len(cmds[e])]
    BY <1>1, <1>4, LastOfCommands
  <2> QED
    BY <1>2, <1>4, <2>1 DEF Hushed
<1> QED
  BY <1>3, <1>4

LEMMA HushStep == SessionInv /\ BlankInv /\ PttInv /\ HushInv /\ [Next]_vars => HushInv'
<1> SUFFICES ASSUME SessionInv, BlankInv, PttInv, HushInv, [Next]_vars PROVE HushInv'
  OBVIOUS
<1> USE DEF view, shell, session, user, history
<1>0. TypeOK /\ TypeOK' /\ events \in Seq(Event)
  BY TypeStep DEF SessionInv, TypeOK
<1>1. ASSUME NEW e \in Engines, FillSlot(e) PROVE HushInv'
  <2>1. /\ handle[e] = "started" /\ UNCHANGED <<loop, cmds, transmit, events, muted, binding, keys,
                                               latched, swallowed>>
        /\ \A f \in Engines : f # e /\ handle'[f] = "held" => handle[f] = "held"
    BY <1>0, <1>1 DEF FillSlot, TypeOK
  <2>2. Hushed(e)'
    BY <2>1 DEF BlankInv, Hushed
  <2>3. Unheard' <=> Unheard
    BY <2>1 DEF Unheard
  <2>4. ASSUME NEW f \in Engines, f # e, handle'[f] = "held", Running(f)', Unheard'
        PROVE  Hushed(f)'
    BY <2>1, <2>3, <2>4 DEF HushInv, Hushed, Running
  <2> QED
    BY <2>2, <2>4 DEF HushInv
<1>2. ASSUME NEW e \in Engines, Obey(e) PROVE HushInv'
  <2>1. UNCHANGED <<handle, loop, muted, binding, keys, latched, swallowed>>
    BY <1>2 DEF Obey
  <2>2. Unheard' => Unheard
    <3>1. UNCHANGED events \/ events' = Append(events, Status(TRUE, transmit'[e]))
      BY <1>0, <1>2, Obeyed
    <3>2. Status(TRUE, transmit'[e]) \in Event /\ Status(TRUE, transmit'[e]) \notin Ptts
      <4>1. transmit'[e] \in BOOLEAN
        BY <1>0 DEF TypeOK
      <4> QED
        BY <4>1, EventsAreTyped, Kinds
    <3>3. Silent(events', Ptts) <=> Silent(events, Ptts)
      BY <1>0, <3>1, <3>2, AppendOther
    <3> QED
      BY <2>1, <3>3 DEF Unheard
  <2>3. ASSUME NEW f \in Engines, handle'[f] = "held", Running(f)', Unheard'
        PROVE  Hushed(f)'
    <3>1. Hushed(f)
      BY <2>1, <2>2, <2>3 DEF HushInv, Running
    <3>2. CASE f = e
      BY <1>0, <1>2, <3>1, <3>2, ObeyHushes
    <3>3. CASE f # e
      <4>1. cmds'[f] = cmds[f] /\ (transmit'[f] <=> transmit[f])
        BY <1>0, <1>2, <3>3, Obeyed
      <4> QED
        BY <3>1, <4>1 DEF Hushed
    <3> QED
      BY <3>2, <3>3
  <2> QED
    BY <2>3 DEF HushInv
<1>3. ASSUME ClickPtt PROVE HushInv'
  BY <1>3 DEF ClickPtt, HushInv, Unheard
<1>4. ASSUME ToggleMic PROVE HushInv'
  <2>1. UNCHANGED <<handle, loop, transmit, events, binding, keys, swallowed>> /\ muted' = ~ muted
    BY <1>4 DEF ToggleMic
  <2>2. CASE muted
    <3>1. UNCHANGED cmds /\ Unheard
      BY <1>4, <2>1, <2>2 DEF ToggleMic, Unheard
    <3> QED
      BY <2>1, <3>1, HushQuiet DEF Running
  <2>3. CASE ~ muted
    <3>1. Command(SetTo(FALSE)) /\ SetTo(FALSE) \in Cmd
      BY <1>4, <2>1, <2>3, CmdsAreTyped DEF ToggleMic
    <3> QED
      BY <1>0, <2>1, <3>1, CommandHushes DEF HushInv, Running
  <2> QED
    BY <2>2, <2>3
<1>5. ASSUME OnPtt PROVE HushInv'
  <2>1. /\ events # <<>> /\ events' = Tail(events) /\ Received.type = "ptt"
        /\ UNCHANGED <<handle, loop, transmit, muted, binding, keys, swallowed>>
    BY <1>5 DEF OnPtt, Take
  <2>2. CASE muted
    <3>1. UNCHANGED cmds /\ Unheard
      BY <1>5, <2>2 DEF OnPtt, HeedsPtt, Unheard
    <3> QED
      BY <2>1, <3>1, HushQuiet DEF Running
  <2>3. CASE ~ muted
    <3>1. Received = PttEvent(Received.down) /\ Received.down \in BOOLEAN /\ Received \in Ptts
      BY <1>0, <2>1, ReceivedKind, Kinds
    <3>2. Command(SetTo(Received.down))
      BY <1>5, <2>3 DEF OnPtt, HeedsPtt
    <3>3. ASSUME Unheard' PROVE Received.down = FALSE
      <4>1. binding \notin keys /\ ~ swallowed /\ Silent(events', Ptts)
        BY <2>1, <2>3, <3>3 DEF Unheard
      <4> DEFINE R == {PttEvent(FALSE)}
      <4>2. Ends(events, Ptts, R)
        BY <4>1 DEF PttInv
      <4> HIDE DEF R
      <4>3. Received \in R
        BY <1>0, <2>1, <3>1, <4>1, <4>2, TailEnds DEF Received
      <4> QED
        BY <4>3 DEF R, PttEvent
    <3>4. ASSUME Unheard', NEW f \in Engines, handle'[f] = "held", Running(f)'
          PROVE  Hushed(f)'
      <4>1. SetTo(Received.down) \in Cmd /\ SetTo(Received.down) = SetTo(FALSE)
        BY <3>1, <3>3, <3>4, CmdsAreTyped
      <4>2. handle[f] = "held" /\ Running(f)
        BY <2>1, <3>4 DEF Running
      <4> QED
        BY <1>0, <3>2, <4>1, <4>2, CommandHushes
    <3> QED
      BY <3>4 DEF HushInv
  <2> QED
    BY <2>2, <2>3
<1>6. ASSUME OnStatus \/ OnSignaling \/ OnPttBound PROVE HushInv'
  <2>1. /\ events # <<>> /\ events' = Tail(events)
        /\ Received.type \in {"status", "signaling", "ptt-bound"}
        /\ UNCHANGED <<handle, loop, cmds, transmit, muted, binding, keys, latched, swallowed>>
    BY <1>6 DEF OnStatus, OnSignaling, OnPttBound, Take
  <2>2. Received \notin Ptts
    BY <1>0, <2>1, ReceivedKind, Kinds
  <2>3. Silent(events', Ptts) <=> Silent(events, Ptts)
    BY <1>0, <2>1, <2>2, TailEnds DEF Received
  <2> QED
    BY <2>1, <2>3, HushQuiet DEF Unheard, Running
<1>7. ASSUME NEW k \in Keys, Press(k) PROVE HushInv'
  <2>1. UNCHANGED <<handle, loop, cmds, transmit, muted, latched>>
    BY <1>7 DEF Press
  <2>2. Unheard' => Unheard
    <3>1. CASE capture \/ k = binding
      BY <1>7, <3>1 DEF Press, Unheard
    <3>2. CASE ~ capture /\ k # binding
      <4>1. UNCHANGED <<muted, latched, events, binding, swallowed>> /\ keys' = keys \cup {k}
        BY <1>7, <3>2 DEF Press
      <4> QED
        BY <4>1 DEF Unheard
    <3> QED
      BY <3>1, <3>2
  <2> QED
    BY <2>1, <2>2, HushQuiet DEF Running
<1>8. ASSUME NEW k \in Keys, Release(k) PROVE HushInv'
  <2>1. UNCHANGED <<handle, loop, cmds, transmit, muted, latched>>
    BY <1>8 DEF Release
  <2>2. Unheard' => Unheard
    <3>1. CASE k # binding
      <4>1. /\ UNCHANGED <<muted, latched, events, binding>> /\ keys' = keys \ {k}
            /\ swallowed => swallowed'
        BY <1>8, <3>1 DEF Release
      <4> QED
        BY <3>1, <4>1 DEF Unheard
    <3>2. CASE k = binding /\ capture
      BY <1>8, <3>2 DEF Release, Unheard
    <3>3. CASE k = binding /\ ~ capture
      <4>1. events' = Append(events, PttEvent(FALSE)) /\ UNCHANGED muted
        BY <1>8, <3>3 DEF Release, Emit
      <4>2. PttEvent(FALSE) \in Event /\ PttEvent(FALSE) \in Ptts
        BY EventsAreTyped, Kinds
      <4>3. ~ Silent(events', Ptts)
        BY <1>0, <4>1, <4>2, AppendSuch
      <4> QED
        BY <4>1, <4>3 DEF Unheard
    <3> QED
      BY <3>1, <3>2, <3>3
  <2> QED
    BY <2>1, <2>2, HushQuiet DEF Running
<1>9. ASSUME NEW e \in Engines,
             \/ Connect(e) \/ DialFails(e) \/ DialSucceeds(e) \/ Admitted(e) \/ Refused(e)
             \/ LoopEnds(e) \/ SignalingLost(e) \/ Reconnects(e)
      PROVE  HushInv'
  <2>1. UNCHANGED <<transmit, muted, binding, keys, latched, swallowed>>
    BY <1>9 DEF Connect, DialFails, DialSucceeds, Admitted, Refused, LoopEnds, SignalingLost,
                Reconnects
  <2>2. \A f \in Engines : handle'[f] = "held" /\ Running(f)' =>
                               handle[f] = "held" /\ Running(f) /\ cmds'[f] = cmds[f]
    <3>1. CASE Connect(e) \/ DialFails(e)
      BY <1>0, <3>1 DEF Connect, DialFails, Running, TypeOK
    <3>5. CASE DialSucceeds(e)
      <4>1. /\ handle' = [handle EXCEPT ![e] = "started"] /\ loop' = [loop EXCEPT ![e] = "running"]
            /\ UNCHANGED cmds
        BY <3>5 DEF DialSucceeds
      <4> QED
        BY <1>0, <4>1 DEF Running, TypeOK
    <3>2. CASE Refused(e)
      BY <1>0, <3>2 DEF Refused, Running, TypeOK
    <3>3. CASE LoopEnds(e)
      BY <1>0, <3>3 DEF LoopEnds, Running, TypeOK
    <3>4. CASE UNCHANGED <<handle, loop, cmds>>
      BY <3>4 DEF Running
    <3> QED
      BY <1>9, <3>1, <3>2, <3>3, <3>4, <3>5 DEF Admitted, SignalingLost, Reconnects
  <2>3. \/ UNCHANGED events \/ \E up \in BOOLEAN : events' = Append(events, Status(up, FALSE))
        \/ \E up \in BOOLEAN : events' = Append(events, Signaling(up))
    BY <1>9 DEF Connect, DialFails, DialSucceeds, Admitted, Refused, LoopEnds, Farewell,
                SignalingLost, Reconnects, Emit
  <2>4. Silent(events', Ptts) <=> Silent(events, Ptts)
    <3>1. ASSUME NEW ev \in Event, ev \notin Ptts, events' = Append(events, ev)
          PROVE  Silent(events', Ptts) <=> Silent(events, Ptts)
      BY <1>0, <3>1, AppendOther
    <3> QED
      BY <2>3, <3>1, EventsAreTyped, Kinds
  <2> QED
    BY <2>1, <2>2, <2>4, HushQuiet DEF Unheard
<1>10. ASSUME Disconnect PROVE HushInv'
  <2>1. /\ UNCHANGED <<loop, cmds, transmit, binding, keys, latched, swallowed, events>>
        /\ muted' = FALSE
    BY <1>10 DEF Disconnect
  <2>2. \A f \in Engines : handle'[f] = handle[f] \/ handle'[f] = "dropped"
    BY <1>0, <1>10 DEF Disconnect, Dropped, TypeOK
  <2> QED
    BY <2>1, <2>2, HushQuiet DEF Unheard, Running
<1>11. ASSUME ToggleLowBw \/ Rebind \/ UNCHANGED vars PROVE HushInv'
  <2>1. UNCHANGED <<handle, loop, cmds, transmit, muted, binding, keys, latched, swallowed, events>>
    BY <1>11 DEF ToggleLowBw, Rebind, vars
  <2> QED
    BY <2>1, HushQuiet DEF Unheard, Running
<1> QED
  BY <1>1, <1>2, <1>3, <1>4, <1>5, <1>6, <1>7, <1>8, <1>9, <1>10, <1>11 DEF Next, Receive

-----------------------------------------------------------------------------
LEMMA ViewInit == Init => ViewInv
<1> SUFFICES ASSUME Init PROVE ViewInv
  OBVIOUS
<1>1. events = <<>> /\ \A S : Silent(events, S)
  BY DEF Init, Silent
<1>2. \A S, R : Ends(events, S, R)
  BY <1>1 DEF Ends
<1>3. SessionInv
  BY SessionInit
<1>4. CalmInv
  BY <1>1 DEF Init, CalmInv
<1>5. BlankInv /\ TxInv /\ LinkInv /\ DtxInv /\ HushInv
  BY DEF Init, BlankInv, TxInv, LinkInv, DtxInv, HushInv, Running
<1>6. PttInv
  BY <1>2 DEF PttInv
<1> QED
  BY <1>3, <1>4, <1>5, <1>6 DEF ViewInv

LEMMA ViewInvariant == Spec => []ViewInv
<1>1. ViewInv /\ [Next]_vars => ViewInv'
  BY SessionStep, BlankStep, CalmStep, TxStep, LinkStep, DtxStep, PttStep, HushStep
     DEF ViewInv, SessionInv
<1> QED
  BY <1>1, ViewInit, PTL DEF Spec

\* What Settled means to the invariant.
LEMMA SettledFacts ==
    ASSUME NEW e \in Engines, TypeOK, Settled(e)
    PROVE  /\ handle[e] = "held" /\ Running(e) /\ cmds[e] = <<>>
           /\ \A S : Silent(events, S)
BY DEF Settled, Silent, TypeOK

-----------------------------------------------------------------------------
\* Types, and where an Engine is: in the slot, dropped with its rig told to
\* stop, or neither (AppState.engine, Engine::drop).
THEOREM ShellTypeTheorem == Spec => []TypeOK
<1> QED
  BY TypeInit, TypeStep, PTL DEF Spec

LEMMA SessionTheorem == Spec => []SessionInv
<1> QED
  BY SessionInit, SessionStep, PTL DEF Spec

\* No two engines at a time, from dialing to being dropped (connect, start).
THEOREM OneSessionTheorem == Spec => []OneSession
<1>1. SessionInv => OneSession
  BY DEF SessionInv, OneLive, Live, OneSession
<1> QED
  BY <1>1, SessionTheorem, PTL

\* On the start screen no rig goes on but those of failed connections
\* (onDisconnect, Engine::drop).
THEOREM StartScreenTheorem == Spec => []StartScreenIsQuiet
<1>1. SessionInv => StartScreenIsQuiet
  BY DEF SessionInv, TypeOK, ShownInv, Live, StartScreenIsQuiet, Open
<1> QED
  BY <1>1, SessionTheorem, PTL

\* When nothing is under way the header shows the session, its transmission
\* and no loss of signaling but its own (App.tsx, lib.rs: UiEvent, Signaling).
THEOREM SettledViewTheorem == Spec => []SettledViewIsTrue
<1>1. ASSUME ViewInv, NEW e \in Engines, Settled(e)
      PROVE  connected /\ (transmitting <=> transmit[e]) /\ (~ sigUp => link[e] = "down")
  <2>1. Running(e) /\ \A S : Silent(events, S)
    BY <1>1, SettledFacts DEF ViewInv, SessionInv
  <2> QED
    BY <1>1, <2>1 DEF ViewInv, TxInv, TellsTransmit, LinkInv, TellsLink
<1>2. ViewInv => transmitting \in BOOLEAN /\ transmit \in [Engines -> BOOLEAN]
  BY DEF ViewInv, SessionInv, TypeOK
<1>3. ViewInv => SettledViewIsTrue
  BY <1>1, <1>2 DEF SettledViewIsTrue
<1> QED
  BY <1>3, ViewInvariant, PTL

\* A rig runs with the setting the web view shows, also in a new session
\* (App.tsx: the effect on `connected', toggleLowBw).
THEOREM SettingTheorem == Spec => []SettingIsApplied
<1>1. ASSUME ViewInv, NEW e \in Engines, Settled(e), e \notin early
      PROVE  dtx[e] <=> lowBw
  <2>1. handle[e] = "held" /\ \A S : Silent(events, S)
    BY <1>1, SettledFacts DEF ViewInv, SessionInv
  <2> QED
    BY <1>1, <2>1 DEF ViewInv, DtxInv
<1>2. ViewInv => SettingIsApplied
  BY <1>1 DEF SettingIsApplied, ViewInv, SessionInv, TypeOK
<1> QED
  BY <1>2, ViewInvariant, PTL

\* The microphone is silent while muted, and while the push-to-talk key is up,
\* whatever clicks and strokes came in whatever order (App.tsx: toggleMic,
\* main.rs: start_raw_input, lib.rs: SetTx, ToggleTx).
THEOREM OverheardTheorem == Spec => []NobodyIsOverheard
<1>1. ASSUME ViewInv, NEW e \in Engines, Settled(e),
             muted \/ (binding \notin keys /\ ~ latched /\ ~ swallowed)
      PROVE  ~ transmit[e]
  <2>1. handle[e] = "held" /\ Running(e) /\ cmds[e] = <<>> /\ \A S : Silent(events, S)
    BY <1>1, SettledFacts DEF ViewInv, SessionInv
  <2>2. Unheard
    BY <1>1, <2>1 DEF Unheard
  <2> QED
    BY <1>1, <2>1, <2>2 DEF ViewInv, HushInv, Hushed
<1>2. ViewInv => NobodyIsOverheard
  BY <1>1 DEF NobodyIsOverheard
<1> QED
  BY <1>2, ViewInvariant, PTL

=============================================================================
