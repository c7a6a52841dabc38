------------------------------ MODULE AudioRig ------------------------------
(***************************************************************************)
(* The audio rig of one session: setup_audio (apps/companion-core/src/     *)
(* lib.rs) and the threads of audio.rs.  The device thread owns the        *)
(* streams, whose callbacks fill cap and empty play; the encoder turns     *)
(* cap into frames; the decoder fills one mix queue per peer; the mixer    *)
(* turns those into play.  Buffers are counts of samples.  Sample values,  *)
(* gains, the DSP chain and the codec are left out.                        *)
(***************************************************************************)
EXTENDS Naturals, Sequences, FiniteSetsExt, Resampler

CONSTANTS
    Peers,      \* user_ids that may send audio
    Self,       \* the mix queue of the microphone self-check
    OpusRate,   \* OPUS_SR
    Rates,      \* the pairs of rates [in, out] devices may have
    SelfCap,    \* cap of the self-check's queue
    PeerCap,    \* cap of a peer's queue
    Bursts,     \* how many samples a device callback may bring or take
    MaxCapture, \* bound: samples captured
    MaxArrived  \* bound: packets on their way to the decoder

\* 20 ms and 10 ms at OpusRate
Frame == OpusRate \div 50
Block == OpusRate \div 100

ASSUME AudioAssumption ==
    /\ OpusRate \in Nat /\ Block > 0 /\ Frame = 2 * Block
    /\ SelfCap \in Nat /\ PeerCap \in Nat /\ SelfCap >= Frame /\ PeerCap >= Frame
    /\ Self \notin Peers /\ Bursts \subseteq Nat
    /\ \A r \in Rates : r.in \in Nat \ {0} /\ r.out \in Nat \ {0}

\* The playback ring is refilled to 60 ms, and cut at half a second.
Target(out)  == (out * 60) \div 1000
PlayCap(out) == out \div 2

VARIABLES
    \* setup_audio, and who holds what it returned
    rig,       \* "waiting" for the rates, "up" or "failed"
    links,     \* peers whose PeerConnection holds a sender of the decoder
    stop, transmit, monitor,
    \* the device thread
    device,    \* "picking", "reported" its rates, "streaming" or "ended"
    rate,      \* the rates it reported
    cap, play,
    \* the encoder: where it is, its resampler and its two buffers
    encoder, up, buf48, clean,
    \* the decoder and the packets for it
    decoder, arrived,
    mix,       \* queue -> samples in it, of the queues that exist
    \* the mixer: where it is, its resampler, what it has for the playback ring
    mixer, down, ready,
    \* history: samples resampled, those of finished iterations (now, and when
    \* transmission was last turned on), frames made
    drained, done, doneAtPress, frames

setup == <<rig, links, stop>>
switches == <<transmit, monitor>>
devices == <<device, rate>>
encoding == <<encoder, up, buf48, clean, drained, done, frames>>
decoding == <<decoder, arrived>>
mixing == <<mixer, down, ready>>
vars == <<setup, switches, devices, cap, play, encoding, decoding, mix, mixing,
          doneAtPress>>

NoRate == [in |-> 0, out |-> 0]

Init ==
    /\ rig = "waiting" /\ links = {}
    /\ stop = FALSE /\ transmit = FALSE /\ monitor = FALSE
    /\ device = "picking" /\ rate = NoRate /\ cap = 0 /\ play = 0
    /\ encoder = "none" /\ up = New(1, 1) /\ buf48 = 0 /\ clean = 0
    /\ decoder = "none" /\ arrived = <<>> /\ mix = [q \in {} |-> 0]
    /\ mixer = "none" /\ down = New(1, 1) /\ ready = 0
    /\ drained = 0 /\ done = 0 /\ frames = 0
    /\ doneAtPress = 0

-----------------------------------------------------------------------------
(* setup_audio and the owner of the rig.                                   *)

\* rate_rx.recv() fails: the device thread is gone and has reported nothing.
SetupFails ==
    /\ rig = "waiting" /\ device = "ended" /\ rate = NoRate
    /\ rig' = "failed"
    /\ UNCHANGED <<links, stop, switches, devices, cap, play, encoding,
                   decoding, mix, mixing, doneAtPress>>

\* The rates are there: the three threads are started.
SetupGoesOn ==
    /\ rig = "waiting" /\ rate # NoRate
    /\ rig' = "up"
    /\ encoder' = "idle" /\ up' = New(rate.in, OpusRate)
    /\ mixer' = "idle" /\ down' = New(OpusRate, rate.out)
    /\ decoder' = "on"
    /\ UNCHANGED <<links, stop, switches, devices, cap, play, buf48, clean,
                   arrived, mix, ready, drained, done, frames,
                   doneAtPress>>

\* Engine::drop.  The engine's loop, which alone switches transmission and owns
\* the mesh, ends when its commands are closed: taken as one step with the drop.
Stop ==
    /\ rig = "up" /\ ~ stop
    /\ stop' = TRUE
    /\ UNCHANGED <<rig, links, switches, devices, cap, play, encoding, decoding, mix,
                   mixing, doneAtPress>>

\* set, toggle and set_transmit end in a store of the flag.
SetTransmit ==
    /\ rig = "up" /\ ~ stop
    /\ transmit' = ~ transmit
    /\ doneAtPress' = IF transmit THEN 0 ELSE done
    /\ UNCHANGED <<setup, monitor, devices, cap, play, encoding, decoding, mix, mixing>>

\* set_monitor
SetMonitor ==
    /\ rig = "up" /\ ~ stop
    /\ monitor' = ~ monitor
    /\ UNCHANGED <<setup, transmit, devices, cap, play, encoding, decoding, mix,
                   mixing, doneAtPress>>

\* A PeerConnection comes, as long as there is a mesh, or goes, with its sender
\* of the decoder (on_track and the task that reads the track).
Linking(p) ==
    /\ rig = "up"
    /\ \/ p \notin links /\ ~ stop /\ links' = links \cup {p}
       \/ p \in links /\ links' = links \ {p}
    /\ UNCHANGED <<rig, stop, switches, devices, cap, play, encoding, decoding, mix,
                   mixing, doneAtPress>>

\* A packet of a peer
Arrive(p) ==
    /\ p \in links /\ Len(arrived) < MaxArrived
    /\ arrived' = Append(arrived, p)
    /\ UNCHANGED <<setup, switches, devices, cap, play, encoding, decoder, mix, mixing,
                   doneAtPress>>

-----------------------------------------------------------------------------
(* run_devices.  The rates are reported before the streams are built.      *)

DeviceGoes(to) ==
    /\ device' = to
    /\ UNCHANGED <<setup, switches, cap, play, encoding, decoding, mix, mixing, doneAtPress>>

\* Both devices are found, or one is not, which is a panic.
PickDevices ==
    /\ device = "picking"
    /\ \/ rate' \in Rates /\ DeviceGoes("reported")
       \/ rate' = rate /\ DeviceGoes("ended")

\* The streams are built and play, or one does not, which is a panic.
BuildStreams ==
    /\ device = "reported"
    /\ DeviceGoes("streaming") \/ DeviceGoes("ended")
    /\ UNCHANGED rate

\* The flag is polled; returning drops the streams.
DeviceEnds ==
    /\ device = "streaming" /\ stop
    /\ DeviceGoes("ended")
    /\ UNCHANGED rate

\* The callback of the input stream
Capture(n) ==
    /\ device = "streaming"
    /\ drained + cap + n <= MaxCapture
    /\ cap' = cap + n
    /\ UNCHANGED <<setup, switches, devices, play, encoding, decoding, mix, mixing,
                   doneAtPress>>

\* The callback of the output stream: what is missing is silence.
Pull(n) ==
    /\ device = "streaming" /\ play > 0
    /\ play' = IF play > n THEN play - n ELSE 0
    /\ UNCHANGED <<setup, switches, devices, cap, encoding, decoding, mix, mixing,
                   doneAtPress>>

-----------------------------------------------------------------------------
(* The queues of the mix map.                                              *)

\* Seeded fault: one sample is dropped instead of as many as there are too many.
PushedOnce(m, q, limit) ==
    LET b == (IF q \in DOMAIN m THEN m[q] ELSE 0) + Frame
    IN  [k \in DOMAIN m \cup {q} |->
            IF k # q THEN m[k] ELSE IF b > limit THEN b - 1 ELSE b]

\* A frame is pushed to queue q, and the oldest samples above the cap dropped.
Pushed(m, q, limit) ==
    LET b == (IF q \in DOMAIN m THEN m[q] ELSE 0) + Frame
    IN  [k \in DOMAIN m \cup {q} |->
            IF k # q THEN m[k] ELSE IF b > limit THEN limit ELSE b]

\* Seeded fault: the mixer waits until every queue has something.
TakenTogether(m) ==
    IF \E q \in DOMAIN m : m[q] = 0 THEN m
    ELSE [q \in DOMAIN m |-> IF m[q] > Frame THEN m[q] - Frame ELSE 0]

\* A frame is taken from every queue, or what it has.
Taken(m) == [q \in DOMAIN m |-> IF m[q] > Frame THEN m[q] - Frame ELSE 0]

-----------------------------------------------------------------------------
(* encode_loop                                                             *)

\* Seeded fault: every chunk gets a resampler of its own.
EncoderDrainsAfresh ==
    /\ encoder = "idle" /\ ~ stop /\ cap > 0
    /\ encoder' = "framing"
    /\ cap' = 0 /\ drained' = drained + cap
    /\ UNCHANGED up
    /\ LET b == buf48 + Pushes(up, cap)
       IN  buf48' = b % Block /\ clean' = clean + Block * (b \div Block)
    /\ UNCHANGED <<setup, switches, devices, play, done, frames, decoding, mix, mixing,
                   doneAtPress>>

\* cap is drained, resampled and denoised in blocks.
EncoderDrains ==
    /\ encoder = "idle" /\ ~ stop /\ cap > 0
    /\ encoder' = "framing"
    /\ cap' = 0 /\ drained' = drained + cap
    /\ up' = Fed(up, cap)
    /\ LET b == buf48 + Pushes(up, cap)
       IN  buf48' = b % Block /\ clean' = clean + Block * (b \div Block)
    /\ UNCHANGED <<setup, switches, devices, play, done, frames, decoding, mix, mixing,
                   doneAtPress>>

\* Seeded fault: what may not be sent waits.
WholeFrameOnAir == clean >= Frame /\ (transmit \/ monitor)

\* There is a frame to be made.
WholeFrame == clean >= Frame

\* How many samples of the frame made now were finished with at the last press
Late == LET first == (frames * Frame * rate.in) \div OpusRate
        IN  IF doneAtPress > first THEN doneAtPress - first ELSE 0

\* A frame goes through the DSP chain, to the self-check if it is on, and is
\* encoded and sent if transmit is on now (and it is not withheld as silence).
EncoderFrames ==
    /\ encoder = "framing" /\ WholeFrame
    /\ clean' = clean - Frame /\ frames' = frames + 1
    /\ mix' = IF monitor THEN Pushed(mix, Self, SelfCap) ELSE mix
    /\ UNCHANGED <<setup, switches, devices, cap, play, encoder, up, buf48, drained,
                   done, decoding, mixing, doneAtPress>>

\* Less than a frame is left: back to the start of the loop.
EncoderRests ==
    /\ encoder = "framing" /\ ~ WholeFrame
    /\ encoder' = "idle" /\ done' = drained
    /\ UNCHANGED <<setup, switches, devices, cap, play, up, buf48, clean, drained,
                   frames, decoding, mix, mixing, doneAtPress>>

EncoderEnds ==
    /\ encoder = "idle" /\ stop
    /\ encoder' = "ended"
    /\ UNCHANGED <<setup, switches, devices, cap, play, up, buf48, clean, drained,
                   done, frames, decoding, mix, mixing, doneAtPress>>

-----------------------------------------------------------------------------
(* decode_loop                                                             *)

\* A packet is decoded to a frame, unless it cannot be.
DecoderTakes ==
    /\ decoder = "on" /\ arrived # <<>>
    /\ arrived' = Tail(arrived)
    /\ mix' = Pushed(mix, Head(arrived), PeerCap) \/ mix' = mix
    /\ UNCHANGED <<setup, switches, devices, cap, play, encoding, decoder,
                   mixing, doneAtPress>>

\* All senders are gone, the mesh's and those of the links.  The stop flag itself
\* is not asked.
DecoderEnds ==
    /\ decoder = "on" /\ arrived = <<>> /\ stop /\ links = {}
    /\ decoder' = "ended"
    /\ UNCHANGED <<setup, switches, devices, cap, play, encoding, arrived,
                   mix, mixing, doneAtPress>>

-----------------------------------------------------------------------------
(* mixer_loop.  The flag is asked in the outer loop ("idle"), not while    *)
(* the ring is refilled ("refill", "pushing").                                *)

\* Seeded fault: the ring is refilled up to and including the target.
BelowTargetOrAt(n) == n <= Target(rate.out)

\* Does the ring want another frame?
BelowTarget(n) == n < Target(rate.out)

MixerTakes ==
    /\ mixer = "refill" \/ (mixer = "idle" /\ ~ stop)
    /\ BelowTarget(play)
    /\ mix' = Taken(mix)
    /\ mixer' = "pushing" /\ down' = Fed(down, Frame) /\ ready' = Pushes(down, Frame)
    /\ UNCHANGED <<setup, switches, devices, cap, play, encoding, decoding, doneAtPress>>

MixerPushes ==
    /\ mixer = "pushing"
    /\ play' = Min({play + ready, PlayCap(rate.out)})
    /\ ready' = 0 /\ mixer' = "refill"
    /\ UNCHANGED <<setup, switches, devices, cap, encoding, decoding, mix, down,
                   doneAtPress>>

MixerRests ==
    /\ mixer = "refill" /\ ~ BelowTarget(play)
    /\ mixer' = "idle"
    /\ UNCHANGED <<setup, switches, devices, cap, play, encoding, decoding, mix, down,
                   ready, doneAtPress>>

\* Seeded fault: what is mixed is played out first.
MixerEndsDrained ==
    /\ mixer = "idle" /\ stop /\ play = 0
    /\ mixer' = "ended"
    /\ UNCHANGED <<setup, switches, devices, cap, play, encoding, decoding, mix, down,
                   ready, doneAtPress>>

MixerEnds ==
    /\ mixer = "idle" /\ stop
    /\ mixer' = "ended"
    /\ UNCHANGED <<setup, switches, devices, cap, play, encoding, decoding, mix, down,
                   ready, doneAtPress>>

-----------------------------------------------------------------------------
Encoder == EncoderDrains \/ EncoderFrames \/ EncoderRests \/ EncoderEnds
Decoder == DecoderTakes \/ DecoderEnds
Mixer == MixerTakes \/ MixerPushes \/ MixerRests \/ MixerEnds

Next ==
    \/ SetupFails \/ SetupGoesOn \/ Stop \/ SetTransmit \/ SetMonitor
    \/ \E p \in Peers : Linking(p) \/ Arrive(p)
    \/ PickDevices \/ BuildStreams \/ DeviceEnds
    \/ \E n \in Bursts : Capture(n) \/ Pull(n)
    \/ Encoder \/ Decoder \/ Mixer

Spec == Init /\ [][Next]_vars

\* The threads run, and the output stream asks for samples as long as it
\* exists; microphone, peers and the user need not do anything.
Fairness ==
    /\ WF_vars(SetupFails \/ SetupGoesOn)
    /\ WF_vars(PickDevices \/ BuildStreams \/ DeviceEnds)
    /\ WF_vars(\E n \in Bursts : Pull(n))
    /\ WF_vars(Encoder) /\ WF_vars(Decoder) /\ WF_vars(Mixer)

FairSpec == Spec /\ Fairness

-----------------------------------------------------------------------------
(* Properties.                                                             *)

Threads == {"none", "idle", "ended"}

CapOf(q) == IF q = Self THEN SelfCap ELSE PeerCap

\* Types: whatever the speeds of the threads, no queue of the mix map exceeds
\* its cap, the playback ring never its own, and what the encoder keeps between
\* two rounds is less than a block and less than a frame.
TypeOK ==
    /\ rig \in {"waiting", "up", "failed"} /\ links \subseteq Peers
    /\ {stop, transmit, monitor} \subseteq BOOLEAN
    /\ device \in {"picking", "reported", "streaming", "ended"}
    /\ rate \in Rates \cup {NoRate}
    /\ encoder \in Threads \cup {"framing"}
    /\ mixer \in Threads \cup {"refill", "pushing"}
    /\ decoder \in {"none", "on", "ended"}
    /\ {cap, ready, drained, done, frames, doneAtPress} \subseteq Nat
    /\ buf48 \in 0..(Block-1) /\ clean \in Nat
    /\ encoder = "idle" => clean < Frame
    /\ arrived \in Seq(Peers)
    /\ DOMAIN mix \subseteq Peers \cup {Self}
    /\ \A q \in DOMAIN mix : mix[q] \in 0..CapOf(q)
    /\ play \in 0..PlayCap(rate.out)
    /\ up.t \in Nat /\ down.t \in Nat

\* No sample is lost or invented between microphone and codec (audio.rs:64-90,
\* 371-384): the frames made and what the encoder still keeps are exactly what
\* the captured samples are at 48 kHz, in however many chunks they came.
NoDrift ==
    rig = "up" =>
        frames * Frame + clean + buf48 = Promised(rate.in, OpusRate, drained)

\* What one frame becomes at the rate of the output device, at most.
MostPerFrame == CeilDiv(Frame * rate.out, OpusRate)

\* The playback ring holds 60 ms and at most a frame more (audio.rs:442-489):
\* the delay it adds is bounded, and its drop-oldest rule is never needed.
LatencyIsBounded ==
    rig = "up" => play + ready <= Target(rate.out) - 1 + MostPerFrame

\* Nothing said while muted goes out with the next press (audio.rs:398): a
\* frame that is sent has at most 30 ms of the audio the encoder had finished with
\* when transmission was last turned on.  (What the encoder had not
\* taken by then is judged by the flag as it is when the frame is made.)
PressSendsNoBacklog ==
    (encoder = "framing" /\ WholeFrame /\ transmit) =>
        Late <= CeilDiv((Frame + Block - 2) * rate.in, OpusRate) + 1

Full(q) == q \in DOMAIN mix /\ mix[q] = CapOf(q)

\* A rig that is told to stop ends (lib.rs:100-106): the device thread lets go of
\* the streams, encoder and mixer return, also when the mixer is refilling a ring
\* that the device empties; and the decoder when nobody can send to it.
StopEndsRig ==
    /\ stop ~> (device = "ended" /\ encoder = "ended" /\ mixer = "ended")
    /\ (stop /\ links = {}) ~> decoder = "ended"

\* No queue waits for another one (audio.rs:463-472): one that is full, so that
\* what is said last pushes out what was said first, has room again some time.
EveryoneIsHeard ==
    \A q \in Peers \cup {Self} :
        []<>(device # "streaming" \/ stop \/ ~ Full(q))

-----------------------------------------------------------------------------
(* Claims the code does not keep.                                          *)

\* audio.rs:192: the device thread builds and plays the streams, then reports
\* the rates; a rig that is set up and not stopped has its streams.
RatesMeanStreams == (rig = "up" /\ ~ stop) => device # "ended"

\* A queue belongs to a peer that is linked.
QueuesAreOfLinked == DOMAIN mix \subseteq links \cup {Self}

=============================================================================
