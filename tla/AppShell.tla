------------------------------ MODULE AppShell ------------------------------
(***************************************************************************)
(* One installation of the app: the web view (App.tsx), the Tauri shell    *)
(* (src-tauri/src/main.rs) with its engine slot and its global key         *)
(* listener, and of each engine (companion-core/src/lib.rs) its audio rig, *)
(* its command queue, what it tells the web view and how it ends.          *)
(*                                                                         *)
(* The shell's events reach the web view in the order they are emitted,    *)
(* through one queue.  A command of the web view runs in the shell at      *)
(* once, except `connect', which waits for the signaling server and only   *)
(* then fills the slot.  Names, chat, devices, volumes of single peers and *)
(* the audio itself are left out, and so is the serverless mode, which the *)
(* web view no longer offers.                                              *)
(***************************************************************************)
EXTENDS Naturals, Sequences

CONSTANTS
    MaxEngines,    \* bound: calls of `connect'
    Keys,          \* keys and mouse buttons, as raw_code names them
    FirstBinding,  \* the key bound when the app starts
    MaxInputs,     \* bound: clicks and key strokes
    MaxLosses      \* bound: losses of signaling

ASSUME ShellConstants == FirstBinding \in Keys /\ MaxEngines \in Nat

VARIABLES
    \* The web view's React state.
    connected, connecting, transmitting, muted, sigUp, capturing, lowBw,
    events,        \* emitted and not yet received by the web view
    \* The shell.
    slot,          \* AppState.engine
    binding,       \* PTT_BINDING
    capture,       \* PTT_CAPTURE
    \* The engines.
    handle,        \* where the Engine of this call of `connect' is
    loop,          \* its task
    link,          \* its signaling: cur_in, and whether its Join was answered
    cmds,          \* cmd_rx
    transmit,      \* the rig's transmit flag
    dtx,           \* whether the rig runs in low-bandwidth mode
    stop,          \* the stop flag of its rig
    \* The user, and history.
    keys,          \* the keys held down
    inputs,        \* how many inputs there were
    losses,        \* how many losses of signaling
    leaving,       \* the user left, and the web view shows the session still
    early,         \* engines that missed a command because the slot was not filled yet
    latched,       \* transmission was last toggled by a click
    swallowed      \* the release of a key that was bound did not count, for a capture

view    == <<connected, connecting, transmitting, muted, sigUp, capturing, lowBw>>
shell   == <<slot, binding, capture>>
session == <<handle, loop, link, stop>>
user    == <<keys, inputs, losses>>
history == <<leaving, early, latched, swallowed>>
vars    == <<view, events, shell, session, cmds, transmit, dtx, user, history>>

Engines  == 1 .. MaxEngines     \* an engine is the number of its call of `connect'
NoEngine == 0

Status(up, tx)  == [type |-> "status", connected |-> up, transmitting |-> tx]
Signaling(up)   == [type |-> "signaling", up |-> up]
PttEvent(down)  == [type |-> "ptt", down |-> down]
PttBound        == [type |-> "ptt-bound"]
Event           == {Status(up, tx) : up \in BOOLEAN, tx \in BOOLEAN}
                   \cup {Signaling(up) : up \in BOOLEAN}
                   \cup {PttEvent(down) : down \in BOOLEAN} \cup {PttBound}

Toggle          == [do |-> "toggle"]
SetTo(on)       == [do |-> "set", on |-> on]
Cmd             == {Toggle} \cup {SetTo(on) : on \in BOOLEAN}

Emit(event) == events' = Append(events, event)

Init ==
    /\ connected = FALSE /\ connecting = FALSE /\ transmitting = FALSE
    /\ muted = FALSE /\ capturing = FALSE /\ sigUp = TRUE
    /\ lowBw \in BOOLEAN            \* from the local storage
    /\ events = <<>>
    /\ slot = NoEngine /\ binding = FirstBinding /\ capture = FALSE
    /\ handle = [e \in Engines |-> "unborn"]
    /\ loop = [e \in Engines |-> "none"]
    /\ link = [e \in Engines |-> "down"]
    /\ cmds = [e \in Engines |-> <<>>]
    /\ transmit = [e \in Engines |-> FALSE]
    /\ dtx = [e \in Engines |-> FALSE]
    /\ stop = [e \in Engines |-> FALSE]
    /\ keys = {} /\ inputs = 0 /\ losses = 0
    /\ leaving = FALSE /\ early = {} /\ latched = FALSE /\ swallowed = FALSE

-----------------------------------------------------------------------------
(* Commands of the web view.                                               *)

Running(e) == loop[e] = "running"

\* Engines that run and are not in the slot yet: connect has not returned.
Gap == {e \in Engines : handle[e] = "started"}

\* set_transmit and toggle_transmit: a message to the engine in the slot, if
\* there is one whose loop still listens.
Command(cmd) ==
    /\ cmds' = [e \in Engines |->
                  IF e = slot /\ Running(e) THEN Append(cmds[e], cmd) ELSE cmds[e]]
    /\ early' = early \cup (IF slot = NoEngine THEN Gap ELSE {})

\* A setting that goes straight to the engine in the slot.
Setting(var, value) == [e \in Engines |-> IF e = slot THEN value ELSE var[e]]
Missed == early \cup (IF slot = NoEngine THEN Gap ELSE {})

Input == inputs < MaxInputs /\ inputs' = inputs + 1

\* Seeded fault: the buttons stay enabled while a connection is made.
StartScreenOnly == ~ connected

\* The start screen, with its buttons enabled.
MayConnect == ~ connected /\ ~ connecting

\* createSession, joinSession: the shell opens the audio rig and dials.  What
\* fails before that leaves no trace and is left out.
Connect(e) ==
    /\ MayConnect
    /\ handle[e] = "unborn"
    /\ \A before \in 1 .. e - 1 : handle[before] # "unborn"
    /\ connecting' = TRUE
    /\ handle' = [handle EXCEPT ![e] = "dialing"]
    /\ UNCHANGED <<connected, transmitting, muted, sigUp, capturing, lowBw,
                   events, shell, loop, link, stop, cmds, transmit, dtx, user, history>>

\* start: the server cannot be reached.
DialFails(e) ==
    /\ handle[e] = "dialing"
    /\ handle' = [handle EXCEPT ![e] = "failed"]
    /\ connecting' = FALSE
    /\ UNCHANGED <<connected, transmitting, muted, sigUp, capturing, lowBw,
                   events, shell, loop, link, stop, cmds, transmit, dtx, user,
                   history>>

\* start: Join sent, the web view told, the loop spawned.
DialSucceeds(e) ==
    /\ handle[e] = "dialing"
    /\ handle' = [handle EXCEPT ![e] = "started"]
    /\ loop' = [loop EXCEPT ![e] = "running"]
    /\ link' = [link EXCEPT ![e] = "asked"]
    /\ Emit(Status(TRUE, FALSE))
    /\ UNCHANGED <<view, shell, stop, cmds, transmit, dtx, user, history>>

\* Seeded fault: an engine that is dropped leaves its rig alone.
DroppedSilently(e) == /\ handle' = [handle EXCEPT ![e] = "dropped"]
                      /\ stop' = stop

\* The Engine goes out of scope.
Dropped(e) == /\ handle' = [handle EXCEPT ![e] = "dropped"]
              /\ stop' = [stop EXCEPT ![e] = TRUE]

\* connect returns and fills the slot; what was there is dropped.
FillSlot(e) ==
    /\ handle[e] = "started"
    /\ slot' = e
    /\ handle' = [h \in Engines |-> IF h = e THEN "held"
                                   ELSE IF h = slot THEN "dropped" ELSE handle[h]]
    /\ stop' = [h \in Engines |-> IF h = slot THEN TRUE ELSE stop[h]]
    /\ UNCHANGED <<view, events, binding, capture, loop, link, cmds, transmit,
                   dtx, user, history>>

\* onDisconnect: the slot is emptied.
Disconnect ==
    /\ connected
    /\ IF slot = NoEngine THEN UNCHANGED <<handle, stop>> ELSE Dropped(slot)
    /\ slot' = NoEngine
    /\ muted' = FALSE
    /\ leaving' = TRUE
    /\ early' = Missed
    /\ UNCHANGED <<connected, connecting, transmitting, sigUp, capturing, lowBw, events, binding,
                   capture, loop, link, cmds, transmit, dtx, user, latched, swallowed>>

\* The two buttons for toggling transmission, disabled while muted.
ClickPtt ==
    /\ Input
    /\ connected /\ ~ muted
    /\ Command(Toggle)
    /\ latched' = TRUE
    /\ UNCHANGED <<view, events, shell, session, transmit, dtx, keys, losses, leaving,
                   swallowed>>

\* toggleMic.
ToggleMic ==
    /\ Input
    /\ connected
    /\ muted' = ~ muted
    /\ IF muted' THEN Command(SetTo(FALSE)) /\ latched' = FALSE
       ELSE UNCHANGED <<cmds, early, latched>>
    /\ UNCHANGED <<connected, connecting, transmitting, sigUp, capturing, lowBw,
                   events, shell, session, transmit, dtx, keys, losses, leaving,
                   swallowed>>

\* toggleLowBw.
ToggleLowBw ==
    /\ Input
    /\ lowBw' = ~ lowBw
    /\ dtx' = Setting(dtx, lowBw')
    /\ early' = Missed
    /\ UNCHANGED <<connected, connecting, transmitting, muted, sigUp, capturing,
                   events, shell, session, cmds, transmit, keys, losses, leaving, latched,
                   swallowed>>

\* rebindPtt.
Rebind ==
    /\ Input
    /\ ~ capturing
    /\ capturing' = TRUE
    /\ capture' = TRUE
    /\ UNCHANGED <<connected, connecting, transmitting, muted, sigUp, lowBw,
                   events, slot, binding, session, cmds, transmit, dtx, keys, losses, history>>

-----------------------------------------------------------------------------
(* start_raw_input: the listener for keys and mouse buttons.  A key that   *)
(* is held repeats its press.                                              *)

Press(k) ==
    /\ Input
    /\ keys' = keys \cup {k}
    /\ IF capture
         THEN /\ capture' = FALSE
              /\ binding' = k
              /\ Emit(PttBound)
              /\ swallowed' = (swallowed \/ (binding \in keys /\ binding # k))
         ELSE /\ IF k = binding THEN Emit(PttEvent(TRUE)) ELSE UNCHANGED events
              /\ UNCHANGED <<capture, binding, swallowed>>
    /\ UNCHANGED <<view, slot, session, cmds, transmit, dtx, losses, leaving, early, latched>>

Release(k) ==
    /\ k \in keys
    /\ keys' = keys \ {k}
    /\ IF ~ capture /\ k = binding THEN Emit(PttEvent(FALSE)) ELSE UNCHANGED events
    /\ swallowed' = (swallowed \/ (capture /\ k = binding))
    /\ UNCHANGED <<view, shell, session, cmds, transmit, dtx, inputs, losses, leaving, early,
                   latched>>

-----------------------------------------------------------------------------
(* The engine's loop.                                                      *)

\* Seeded fault: the web view is not told.
TransmitUntold(e, on) ==
    /\ transmit' = [transmit EXCEPT ![e] = on]
    /\ UNCHANGED events

Transmit(e, on) ==
    /\ transmit' = [transmit EXCEPT ![e] = on]
    /\ Emit(Status(TRUE, on))

Wanted(e, cmd) == IF cmd = Toggle THEN ~ transmit[e] ELSE cmd.on

\* cmd_rx: ToggleTx, SetTx.
Obey(e) ==
    /\ Running(e)
    /\ cmds[e] # <<>>
    /\ cmds' = [cmds EXCEPT ![e] = Tail(@)]
    /\ LET on == Wanted(e, Head(cmds[e]))
       IN IF on # transmit[e] THEN Transmit(e, on) ELSE UNCHANGED <<transmit, events>>
    /\ UNCHANGED <<view, shell, session, dtx, user, history>>

\* Seeded fault: a loop that ends says nothing.
EndsQuietly == UNCHANGED events

\* What the loop says when it ends because its Engine was dropped.
Farewell == Emit(Status(FALSE, FALSE))

\* cmd_rx closed and drained.
LoopEnds(e) ==
    /\ Running(e)
    /\ handle[e] = "dropped"
    /\ cmds[e] = <<>>
    /\ loop' = [loop EXCEPT ![e] = "ended"]
    /\ Farewell
    /\ UNCHANGED <<view, shell, handle, link, stop, cmds, transmit, dtx, user, history>>

\* The Join is answered with a Roster.
Admitted(e) ==
    /\ Running(e) /\ link[e] = "asked"
    /\ link' = [link EXCEPT ![e] = "joined"]
    /\ UNCHANGED <<view, events, shell, handle, loop, stop, cmds, transmit, dtx,
                   user, history>>

\* The Join is answered with RoomFull: the loop is left.
Refused(e) ==
    /\ Running(e) /\ link[e] = "asked"
    /\ loop' = [loop EXCEPT ![e] = "refused"]
    /\ cmds' = [cmds EXCEPT ![e] = <<>>]
    /\ UNCHANGED <<view, events, shell, handle, link, stop, transmit, dtx, user,
                   history>>

SignalingLost(e) ==
    /\ Running(e) /\ link[e] # "down"
    /\ losses < MaxLosses
    /\ losses' = losses + 1
    /\ link' = [link EXCEPT ![e] = "down"]
    /\ Emit(Signaling(FALSE))
    /\ UNCHANGED <<view, shell, handle, loop, stop, cmds, transmit, dtx, keys,
                   inputs, history>>

Reconnects(e) ==
    /\ Running(e) /\ link[e] = "down"
    /\ link' = [link EXCEPT ![e] = "asked"]
    /\ Emit(Signaling(TRUE))
    /\ UNCHANGED <<view, shell, handle, loop, stop, cmds, transmit, dtx, user, history>>

-----------------------------------------------------------------------------
(* The web view receives an event.                                         *)

Received == Head(events)
Take(type) == /\ events # <<>>
              /\ Received.type = type
              /\ events' = Tail(events)

SigUpAfter(event) == sigUp \/ event.connected

\* Seeded fault: the saved settings are not pushed.
PushNothing == UNCHANGED <<dtx, early>>

\* The effect on `connected': the saved settings go to the engine.
PushSettings == /\ dtx' = Setting(dtx, lowBw)
                /\ early' = Missed

OnStatus ==
    /\ Take("status")
    /\ connected' = Received.connected
    /\ transmitting' = Received.transmitting
    /\ connecting' = (connecting /\ ~ Received.connected)
    /\ sigUp' = SigUpAfter(Received)
    /\ IF ~ connected /\ connected' THEN PushSettings ELSE UNCHANGED <<dtx, early>>
    /\ leaving' = (leaving /\ connected')
    /\ UNCHANGED <<muted, capturing, lowBw, shell, session, cmds, transmit,
                   user, latched, swallowed>>

OnSignaling ==
    /\ Take("signaling")
    /\ sigUp' = Received.up
    /\ UNCHANGED <<connected, connecting, transmitting, muted, capturing, lowBw,
                   shell, session, cmds, transmit, dtx, user, history>>

\* Seeded fault: push-to-talk although muted.
HeedsAlways == TRUE

\* Self-muted: ignore push-to-talk.
HeedsPtt == ~ muted

OnPtt ==
    /\ Take("ptt")
    /\ IF HeedsPtt
         THEN /\ Command(SetTo(Received.down))
              /\ latched' = FALSE
         ELSE UNCHANGED <<cmds, early, latched>>
    /\ UNCHANGED <<view, shell, session, transmit, dtx, user, leaving, swallowed>>

OnPttBound ==
    /\ Take("ptt-bound")
    /\ capturing' = FALSE
    /\ UNCHANGED <<connected, connecting, transmitting, muted, sigUp, lowBw,
                   shell, session, cmds, transmit, dtx, user, history>>

Receive == OnStatus \/ OnSignaling \/ OnPtt \/ OnPttBound

-----------------------------------------------------------------------------
Next ==
    \/ \E e \in Engines :
         \/ Connect(e) \/ DialFails(e) \/ DialSucceeds(e) \/ FillSlot(e)
         \/ Obey(e) \/ LoopEnds(e) \/ Admitted(e) \/ Refused(e)
         \/ SignalingLost(e) \/ Reconnects(e)
    \/ Disconnect \/ ClickPtt \/ ToggleMic \/ ToggleLowBw \/ Rebind
    \/ \E k \in Keys : Press(k) \/ Release(k)
    \/ Receive

\* The web view's event loop and the engine's task are scheduled; connect goes
\* on once it has dialed.  Users, peers and the network need not do anything.
Fairness ==
    /\ WF_vars(Receive)
    /\ \A e \in Engines : /\ WF_vars(FillSlot(e))
                          /\ WF_vars(Obey(e) \/ LoopEnds(e))

Spec == Init /\ [][Next]_vars /\ Fairness

-----------------------------------------------------------------------------
(* Properties.                                                             *)

\* Types, and where an Engine is: in the slot or not, its rig told to stop if
\* and only if it was dropped.
TypeOK ==
    /\ connected \in BOOLEAN /\ connecting \in BOOLEAN /\ transmitting \in BOOLEAN
    /\ muted \in BOOLEAN /\ sigUp \in BOOLEAN /\ capturing \in BOOLEAN /\ lowBw \in BOOLEAN
    /\ events \in Seq(Event)
    /\ slot \in Engines \cup {NoEngine}
    /\ binding \in Keys /\ capture \in BOOLEAN /\ keys \subseteq Keys
    /\ handle \in [Engines -> {"unborn", "dialing", "failed", "started", "held", "dropped"}]
    /\ loop \in [Engines -> {"none", "running", "ended", "refused"}]
    /\ link \in [Engines -> {"down", "asked", "joined"}]
    /\ cmds \in [Engines -> Seq(Cmd)]
    /\ transmit \in [Engines -> BOOLEAN]
    /\ dtx \in [Engines -> BOOLEAN]
    /\ stop \in [Engines -> BOOLEAN]
    /\ \A e \in Engines : slot = e <=> handle[e] = "held"
    /\ \A e \in Engines : stop[e] <=> handle[e] = "dropped"

\* The rig of e was opened, and its threads go on.
Open(e) == handle[e] # "unborn" /\ ~ stop[e]

\* Nothing is under way between the web view and the engine in the slot.
Settled(e) == slot = e /\ Running(e) /\ events = <<>> /\ cmds[e] = <<>>

\* The header tells the truth: when nothing is under way, the web view shows
\* the session of the engine in the slot, transmission as it is, and the banner
\* "signaling lost" for no loss but the present session's.
SettledViewIsTrue ==
    \A e \in Engines : Settled(e) => /\ connected
                                     /\ transmitting = transmit[e]
                                     /\ ~ sigUp => link[e] = "down"

\* Nothing is sent while the microphone is muted (App.tsx, toggleMic), whatever
\* clicks and strokes were under way, nor while the push-to-talk key is up,
\* unless by a click on the toggle, or because a capture took the release.
NobodyIsOverheard ==
    \A e \in Engines :
        Settled(e) /\ (muted \/ (binding \notin keys /\ ~ latched /\ ~ swallowed))
            => ~ transmit[e]

\* No two engines at a time, whether connecting, connected or in between.
OneSession ==
    \A e, f \in Engines :
        {handle[e], handle[f]} \subseteq {"dialing", "started", "held"} => e = f

\* The setting shown is the one the rig runs with, also in a new session,
\* unless a setting came when the slot was not filled yet.
SettingIsApplied ==
    \A e \in Engines : Settled(e) /\ e \notin early => dtx[e] = lowBw

\* Leaving leads back to the start screen, unless the engine's loop was left
\* by RoomFull, or the click came before the slot was filled.
LeavingEnds ==
    leaving ~> \/ ~ connected
               \/ \E e \in Engines : loop[e] = "refused"
               \/ \E e \in early : handle[e] # "dropped"

\* Back on the start screen, every microphone is let go of, but for the rigs
\* of connections that failed.
StartScreenIsQuiet ==
    ~ connected /\ ~ connecting => \A e \in Engines : Open(e) => handle[e] = "failed"

-----------------------------------------------------------------------------
(* Claims of the repository that the code does not keep.                   *)

\* App.tsx:279, "The engine emits Status{connected:false}, which returns us
\* to the start screen".
LeavingAlwaysEnds == leaving ~> ~ connected

\* lib.rs:102-103, the stop flag is there "so a later reconnect doesn't stack
\* duplicate capture/playback rigs".
RigsDoNotStack == \A e, f \in Engines : Open(e) /\ Open(f) => e = f

\* lib.rs:383-384, while signaling is down "the UI shows the lost/retry state".
LossIsShown ==
    \A e \in Engines : Settled(e) /\ link[e] = "down" => ~ sigUp

\* lib.rs:111, "Hold-to-talk", whatever key was bound in between.
HoldToTalk ==
    \A e \in Engines : Settled(e) /\ keys = {} /\ ~ latched => ~ transmit[e]

\* App.tsx:396, saved settings are pushed "to the engine once connected".
SettingsArePushed ==
    \A e \in Engines : Settled(e) => dtx[e] = lowBw

=============================================================================
