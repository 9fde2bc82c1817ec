--------------------------- MODULE UsbAudioBridge ---------------------------
(***************************************************************************)
(* The device's end of the Android USB Audio Dock                          *)
(* (firmware/host/modules/usb-audio/bridge.ts) and the host at the other   *)
(* end of the cable, as firmware/scripts/usb-audio-diagnostics.py plays    *)
(* it: it says HELLO, opens one stream at a time, numbers its PCM and      *)
(* never sends more of it than it has credit for.                          *)
(*                                                                         *)
(* The bridge lives in one VM, so a callback of the USB driver, of the     *)
(* audio input or output, of the maintenance timer or a call of the worker *)
(* is one action.  A callback calls helper after helper on the bridge's    *)
(* fields; here `device` holds the fields, a helper is a function of them, *)
(* and the action composes the helpers in the order of the code.           *)
(*                                                                         *)
(* PCM, credit and the capacity of the buffers are counted in PCM frames   *)
(* of the host.  Captions, status and diagnostics are left out.            *)
(***************************************************************************)
EXTENDS Integers, Sequences

CONSTANTS
  Capacity,       \* SPEAKER_BUFFER_MILLISECONDS of PCM
  Prebuffer,      \* SPEAKER_PREBUFFER_MILLISECONDS of PCM
  Window,         \* SPEAKER_CREDIT_WINDOW_BYTES
  QueueFrames,    \* MAX_TX_QUEUE_BYTES of frames
  RingFrames,     \* frames the driver's own TX ring holds
  MaxPending,     \* MAX_PENDING_EVENT_FRAMES
  MaxStreams,     \* bound: streams the host opens
  MaxPcm,         \* bound: PCM frames of a stream
  MaxWire,        \* bound: frames on their way to the device
  MaxHellos,      \* bound: HELLOs
  MaxEvents,      \* bound: events sent
  MaxLost,        \* bound: frames for the device that fail their CRC
  MaxFaults       \* bound: failures of the cable, the driver or the audio devices

ASSUME ConstantsAssumption ==
  /\ {MaxPending, MaxStreams, MaxPcm, MaxWire, MaxHellos, MaxEvents, MaxLost, MaxFaults} \subseteq Nat
  /\ {Capacity, Prebuffer, Window, QueueFrames, RingFrames} \subseteq Nat \ {0}
  /\ Prebuffer <= Capacity

VARIABLES
  device,     \* the fields of the bridge, and its outbound frames
  cable,      \* "in", "glitch" (in, but SOFs are missed) or "out"
  toDevice,   \* frames on their way to the device
  host,       \* what the host knows
  streams,    \* streams opened so far: a stream is its number
  hellos, events, lost, faults

counters == <<hellos, events, lost, faults>>
vars == <<device, cable, toDevice, host, streams, counters>>

Streams == 1..MaxStreams
Epochs  == 0..MaxHellos

\* A frame for the host; its epoch is that of the HELLO its subject came after.
Frame(kind, stream, amount, epoch) ==
  [kind |-> kind, stream |-> stream, amount |-> amount, epoch |-> epoch]

Init ==
  /\ device = [alive |-> TRUE, connected |-> FALSE, missing |-> FALSE, peer |-> FALSE,
               epoch |-> 0, since |-> 0,
               mic |-> 0, micLast |-> 0, input |-> "closed",
               spk |-> 0, spkLast |-> 0, ended |-> FALSE, output |-> "closed",
               pcm |-> 0, credit |-> 0, expected |-> 0,
               pending |-> <<>>, queue |-> <<>>, ring |-> <<>>]
  /\ cable = "in" /\ toDevice = <<>>
  /\ host = [ready |-> FALSE, stream |-> 0, role |-> "none", credit |-> 0, seq |-> 0]
  /\ streams = 0 /\ hellos = 0 /\ events = 0 /\ lost = 0 /\ faults = 0
-----------------------------------------------------------------------------
(***************************************************************************)
(* Sending.                                                                *)
(***************************************************************************)
Lesser(a, b) == IF a < b THEN a ELSE b

\* #pumpTx: the queue goes to the driver while its ring has room.
Pump(d) ==
  LET n == Lesser(Len(d.queue), RingFrames - Len(d.ring)) IN
  [d EXCEPT !.ring = @ \o SubSeq(d.queue, 1, n), !.queue = SubSeq(@, n + 1, Len(@))]

Fits(d) == Len(d.queue) < QueueFrames

\* #send: a frame for which the queue has no room is dropped.
Send(d, frame) ==
  IF Fits(d) THEN Pump([d EXCEPT !.queue = Append(@, frame)]) ELSE d

\* #sendError
SendError(d, code, stream) ==
  Send(d, [Frame("error", stream, 0, d.epoch) EXCEPT !.kind = code])

\* dropMicrophoneFrames and dropSpeakerFlowFrames: the queue without some frames of a
\* stream.  A frame that is partly written counts as one in the driver's ring.
Without(frames, kind, stream) ==
  LET kept[n \in 0..Len(frames)] ==
        IF n = 0 THEN <<>>
        ELSE IF frames[n].kind = kind /\ frames[n].stream = stream THEN kept[n - 1]
        ELSE Append(kept[n - 1], frames[n])
  IN  kept[Len(frames)]

\* #flushPendingOutput: then the events that wait, as long as the queue has room
Flush(d) ==
  LET p == Pump(d)
      n == Lesser(Len(p.pending), QueueFrames - Len(p.queue) + RingFrames - Len(p.ring))
      sent == [k \in 1..n |-> Frame("event", 0, 0, p.pending[k])]
  IN Pump([p EXCEPT !.queue = @ \o sent, !.pending = SubSeq(@, n + 1, Len(@))])
-----------------------------------------------------------------------------
(***************************************************************************)
(* Microphone and speaker.                                                 *)
(***************************************************************************)
\* #stopMicrophone(false)
StopMicrophone(d) ==
  [d EXCEPT !.micLast = IF d.mic # 0 THEN d.mic ELSE @, !.mic = 0, !.input = "closed",
            !.queue = Without(@, "mic", d.mic)]

\* #stopSpeaker(false)
StopSpeaker(d) ==
  [d EXCEPT !.spkLast = IF d.spk # 0 THEN d.spk ELSE @, !.spk = 0,
            !.ended = FALSE, !.output = "closed", !.pcm = 0, !.credit = 0, !.expected = 0,
            !.queue = Without(@, "credit", d.spk)]

\* #completeSpeaker
CompleteSpeaker(d) == Send(StopSpeaker(d), Frame("done", d.spk, 0, d.since))

CountsUnsent(d) ==   \* mutant: credit that could not be sent counts as granted
  LET more == Lesser(Window, Capacity - d.pcm) - d.credit IN
  IF d.spk = 0 \/ d.ended \/ more <= 0 THEN d
  ELSE [Send(d, Frame("credit", d.spk, more, d.since)) EXCEPT !.credit = @ + more]

GrantsWindow(d) ==   \* mutant: the PCM that is buffered is not counted
  LET more == Window - d.credit IN
  IF d.spk = 0 \/ d.ended \/ more <= 0 \/ ~Fits(d) THEN d
  ELSE [Send(d, Frame("credit", d.spk, more, d.since)) EXCEPT !.credit = @ + more]

\* #refreshSpeakerCredit: the host may send what the buffer has room for
RefreshCredit(d) ==
  LET more == Lesser(Window, Capacity - d.pcm) - d.credit IN
  IF d.spk = 0 \/ d.ended \/ more <= 0 \/ ~Fits(d) THEN d
  ELSE [Send(d, Frame("credit", d.spk, more, d.since)) EXCEPT !.credit = @ + more]

EndNeedsPrebuffer(d) ==   \* mutant: a short stream is never started
  IF d.spk # 0 /\ d.output = "closed" /\ d.pcm >= Prebuffer THEN [d EXCEPT !.output = "open"] ELSE d

\* #maybeStartSpeaker
MaybeStart(d) ==
  IF d.spk # 0 /\ d.output = "closed" /\ (d.pcm >= Prebuffer \/ d.ended)
  THEN [d EXCEPT !.output = "open"] ELSE d

\* The output's poll(): it takes up to n frames of PCM, or is not writable (0).
Poll(d, n) ==
  IF d.output # "open" \/ n = 0 THEN d
  ELSE LET left == d.pcm - Lesser(n, d.pcm) IN
       RefreshCredit([d EXCEPT !.pcm = left,
                               !.output = IF d.ended /\ left = 0 THEN "draining" ELSE "open"])

\* #resetConnectionSession
ResetConnection(d) ==
  [StopSpeaker(StopMicrophone(d)) EXCEPT
     !.micLast = 0, !.peer = FALSE, !.pending = <<>>, !.queue = <<>>]

\* #refreshConnection, with UsbConnectionDebouncer.update: what it may come to
Refreshed(d) ==
  IF cable = "in"
  THEN { IF d.connected THEN [d EXCEPT !.missing = FALSE]
         ELSE [ResetConnection(d) EXCEPT !.connected = TRUE, !.missing = FALSE] }
  ELSE IF ~d.connected THEN {d}
  ELSE IF ~d.missing THEN {[d EXCEPT !.missing = TRUE]}
  ELSE {d, [ResetConnection(d) EXCEPT !.connected = FALSE, !.missing = FALSE]}
-----------------------------------------------------------------------------
(***************************************************************************)
(* Frames of the host.                                                     *)
(***************************************************************************)
PendingSurvives(d) ==   \* mutant: HELLO leaves the events that wait
  Send([StopSpeaker(StopMicrophone(d)) EXCEPT !.micLast = 0, !.peer = TRUE, !.epoch = @ + 1],
       Frame("ack", 0, 0, d.epoch + 1))

\* #handleHello
Hello(d) ==
  Send([StopSpeaker(StopMicrophone(d)) EXCEPT
          !.micLast = 0, !.pending = <<>>, !.peer = TRUE, !.epoch = @ + 1],
       Frame("ack", 0, 0, d.epoch + 1))

\* #handleMicrophoneStart
MicrophoneStart(d, s) ==
  IF d.spk # 0 \/ d.mic \notin {0, s} THEN SendError(d, "busy", s)
  ELSE IF d.mic = 0 THEN [d EXCEPT !.mic = s, !.input = "opening", !.since = d.epoch]
  ELSE IF d.input = "started" THEN Send(d, Frame("started", s, 0, d.since))
  ELSE d

\* #handleMicrophoneStop
MicrophoneStop(d, s) ==
  IF d.mic = s THEN Send(StopMicrophone(d), Frame("stopped", s, 0, d.since))
  ELSE IF d.mic = 0 /\ d.micLast = s THEN Send(d, Frame("stopped", s, 0, d.since))
  ELSE d

StartsOver(d, s) ==   \* mutant: the microphone is not looked at
  IF d.spk = s /\ ~d.ended THEN d
  ELSE IF d.spk # 0 THEN SendError(d, "busy", s)
  ELSE RefreshCredit([d EXCEPT !.spk = s, !.since = d.epoch])

\* #startSpeaker
SpeakerStart(d, s) ==
  IF d.mic # 0 THEN SendError(d, "busy", s)
  ELSE IF d.spk = s /\ ~d.ended THEN d
  ELSE IF d.spk # 0 THEN SendError(d, "busy", s)
  ELSE RefreshCredit([d EXCEPT !.spk = s, !.since = d.epoch])

\* #endSpeaker
SpeakerEnd(d, s, n) ==
  IF d.spk # s \/ d.ended THEN d
  ELSE IF d.output = "closed" /\ d.pcm = 0 THEN CompleteSpeaker(d)
  ELSE Poll(MaybeStart([d EXCEPT !.ended = TRUE]), n)

\* #abortSpeaker
SpeakerAbort(d, s) == IF d.spk = s THEN StopSpeaker(d) ELSE d

\* What the current stream takes of its PCM.
Takes(d, frame) ==
  ~d.ended /\ d.credit > 0 /\ frame.seq = d.expected /\ d.pcm < Capacity

\* #handleSpeakerPcm; PCM of the stream that was the last one is refused, too
SpeakerPcm(d, frame, n) ==
  IF d.spk = 0 /\ d.spkLast = frame.stream
  THEN StopSpeaker(SendError(d, "invalid", frame.stream))
  ELSE IF d.spk # frame.stream THEN d
  ELSE IF Takes(d, frame)
  THEN RefreshCredit(Poll(MaybeStart([d EXCEPT !.expected = @ + 1, !.credit = @ - 1, !.pcm = @ + 1]), n))
  ELSE StopSpeaker(SendError(d, "refused", frame.stream))

\* #handleFrame
Handle(d, frame, n) ==
  CASE frame.kind = "hello"    -> Hello(d)
    [] frame.kind = "micStart" -> MicrophoneStart(d, frame.stream)
    [] frame.kind = "micStop"  -> MicrophoneStop(d, frame.stream)
    [] frame.kind = "start"    -> SpeakerStart(d, frame.stream)
    [] frame.kind = "end"      -> SpeakerEnd(d, frame.stream, n)
    [] frame.kind = "abort"    -> SpeakerAbort(d, frame.stream)
    [] frame.kind = "pcm"      -> SpeakerPcm(d, frame, n)
-----------------------------------------------------------------------------
(***************************************************************************)
(* The callbacks of the bridge.                                            *)
(***************************************************************************)
\* What the next frame may make of the device, if there is a connection.
Taken(n) == {Handle(d, Head(toDevice), n) : d \in {c \in Refreshed(device) : c.connected}}

\* onReadable, one read at a time: what waits is flushed after the last one.  What
\* cannot be read for want of a connection stays in the driver.
Readable(n) ==
  /\ device.alive /\ toDevice # <<>>
  /\ \/ /\ \E d \in Refreshed(device) : ~d.connected /\ device' = d
        /\ UNCHANGED toDevice
     \/ /\ \E d \in Taken(n) : device' = Flush(d) \/ (Len(toDevice) > 1 /\ device' = d)
        /\ toDevice' = Tail(toDevice)
  /\ UNCHANGED <<cable, host, streams, counters>>

\* The parser skips a frame with a bad CRC.
FrameLost ==
  /\ device.alive /\ toDevice # <<>> /\ lost < MaxLost
  /\ lost' = lost + 1 /\ toDevice' = Tail(toDevice)
  /\ UNCHANGED <<device, cable, host, streams, hellos, events, faults>>

\* onWritable
Writable ==
  /\ device.alive /\ Len(device.ring) < RingFrames
  /\ device.queue # <<>> \/ device.pending # <<>>
  /\ device' = Flush(device)
  /\ UNCHANGED <<cable, toDevice, host, streams, counters>>

\* #maintainSessions
Maintained(n) ==
  { IF d.connected THEN RefreshCredit(Poll(MaybeStart(d), n)) ELSE d : d \in Refreshed(device) }

Maintain(n) ==
  /\ device.alive /\ device' \in Maintained(n)
  /\ UNCHANGED <<cable, toDevice, host, streams, counters>>

\* sendEvent
SendEvent ==
  /\ device.alive /\ events < MaxEvents /\ events' = events + 1
  /\ device' = IF device.connected /\ device.peer /\ Len(device.pending) < MaxPending
               THEN Flush([device EXCEPT !.pending = Append(@, device.epoch)]) ELSE device
  /\ UNCHANGED <<cable, toDevice, host, streams, hellos, lost, faults>>

\* onStarted, onReadable and onError of the microphone
MicrophoneStarted ==
  /\ device.input = "opening"
  /\ device' = Send([device EXCEPT !.input = "started"], Frame("started", device.mic, 0, device.since))
  /\ UNCHANGED <<cable, toDevice, host, streams, counters>>

\* (where a frame of PCM no longer fits, the smaller ERROR may)
MicrophoneReadable ==
  /\ device.input = "started"
  /\ \/ Fits(device) /\ device' = Send(device, Frame("mic", device.mic, 0, device.since))
     \/ device.queue # <<>> /\ device' = StopMicrophone(SendError(device, "overflow", device.mic))
  /\ UNCHANGED <<cable, toDevice, host, streams, counters>>

MicrophoneError ==
  /\ device.input # "closed" /\ faults < MaxFaults /\ faults' = faults + 1
  /\ device' = StopMicrophone(SendError(device, "audio", device.mic))
  /\ UNCHANGED <<cable, toDevice, host, streams, hellos, events, lost>>

\* onDrained and onError of the speaker
SpeakerDrained ==
  /\ device.output = "draining"
  /\ device' = CompleteSpeaker(device)
  /\ UNCHANGED <<cable, toDevice, host, streams, counters>>

SpeakerError ==
  /\ device.output # "closed" /\ faults < MaxFaults /\ faults' = faults + 1
  /\ device' = StopSpeaker(SendError(device, "audio", device.spk))
  /\ UNCHANGED <<cable, toDevice, host, streams, hellos, events, lost>>

\* A callback of the driver throws, before it has done anything or after what it
\* does with a frame.
CallbackFails(n) ==
  /\ device.alive /\ faults < MaxFaults /\ faults' = faults + 1
  /\ \/ device' = StopSpeaker(StopMicrophone(device)) /\ UNCHANGED toDevice
     \/ /\ toDevice # <<>> /\ toDevice' = Tail(toDevice)
        /\ \E d \in Taken(n) : device' = StopSpeaker(StopMicrophone(d))
  /\ UNCHANGED <<cable, host, streams, hellos, events, lost>>

\* onError of the driver, and close()
Dies ==
  /\ device.alive /\ faults < MaxFaults /\ faults' = faults + 1
  /\ device' = [ResetConnection(device) EXCEPT !.alive = FALSE, !.connected = FALSE, !.missing = FALSE]
  /\ UNCHANGED <<cable, toDevice, host, streams, hellos, events, lost>>
-----------------------------------------------------------------------------
(***************************************************************************)
(* The cable and the host.                                                 *)
(***************************************************************************)
Idle == [ready |-> FALSE, stream |-> 0, role |-> "none", credit |-> 0, seq |-> 0]

CableFails ==
  /\ cable = "in" /\ faults < MaxFaults /\ faults' = faults + 1
  /\ \/ cable' = "glitch" /\ UNCHANGED <<host, toDevice>>
     \/ cable' = "out" /\ host' = Idle /\ toDevice' = <<>>
  /\ UNCHANGED <<device, streams, hellos, events, lost>>

CableBack ==
  /\ cable # "in" /\ cable' = "in"
  /\ UNCHANGED <<device, toDevice, host, streams, counters>>

HostSends(kind, stream, seq) ==
  /\ cable # "out" /\ Len(toDevice) < MaxWire
  /\ toDevice' = Append(toDevice, [kind |-> kind, stream |-> stream, seq |-> seq])
  /\ UNCHANGED <<device, cable, events, lost, faults>>

\* handshake: HELLO is repeated until it is acknowledged
HostHello ==
  /\ hellos < MaxHellos /\ hellos' = hellos + 1
  /\ HostSends("hello", 0, 0) /\ host' = Idle /\ UNCHANGED streams

HostStarts(role) ==
  /\ host.ready /\ host.role = "none" /\ streams < MaxStreams
  /\ streams' = streams + 1
  /\ host' = [host EXCEPT !.stream = streams + 1, !.role = role, !.credit = 0, !.seq = 0]
  /\ HostSends(IF role = "mic" THEN "micStart" ELSE "start", streams + 1, 0)
  /\ UNCHANGED hellos

HostPcm ==
  /\ host.role = "speaker" /\ host.credit > 0 /\ host.seq < MaxPcm
  /\ host' = [host EXCEPT !.credit = @ - 1, !.seq = @ + 1]
  /\ HostSends("pcm", host.stream, host.seq) /\ UNCHANGED <<streams, hellos>>

HostEnds ==
  /\ host.role = "speaker" /\ host' = [host EXCEPT !.role = "ending"]
  /\ HostSends("end", host.stream, 0) /\ UNCHANGED <<streams, hellos>>

\* A stream is given up, or the microphone stopped.
HostStops ==
  /\ host.role # "none" /\ host' = [host EXCEPT !.role = "none"]
  /\ HostSends(IF host.role = "mic" THEN "micStop" ELSE "abort", host.stream, 0)
  /\ UNCHANGED <<streams, hellos>>

\* The host reads a frame.
HostReads ==
  /\ cable # "out" /\ device.ring # <<>>
  /\ device' = [device EXCEPT !.ring = Tail(@)]
  /\ LET frame == Head(device.ring) IN
       host' = IF frame.kind = "ack" THEN [host EXCEPT !.ready = TRUE]
               ELSE IF frame.stream # host.stream \/ host.role = "none" THEN host
               ELSE IF frame.kind = "credit" THEN [host EXCEPT !.credit = @ + frame.amount]
               ELSE IF frame.kind \in {"started", "mic", "stopped"} THEN host
               ELSE [host EXCEPT !.role = "none"]
  /\ UNCHANGED <<cable, toDevice, streams, counters>>
-----------------------------------------------------------------------------
Sizes == 0..Capacity

Callbacks ==
  \/ \E n \in Sizes : Readable(n) \/ Maintain(n) \/ CallbackFails(n)
  \/ FrameLost \/ Writable \/ SendEvent \/ Dies
  \/ MicrophoneStarted \/ MicrophoneReadable \/ MicrophoneError
  \/ SpeakerDrained \/ SpeakerError

Host ==
  \/ HostHello \/ HostStarts("mic") \/ HostStarts("speaker") \/ HostPcm
  \/ HostEnds \/ HostStops \/ HostReads

Next == Callbacks \/ Host \/ CableFails \/ CableBack

Spec == Init /\ [][Next]_vars

\* The driver calls back, the timer ticks, the audio output takes PCM whenever
\* it is polled for long enough and drains, and the host reads.  Weak fairness,
\* where TLC is told when the action is enabled.
CanRead  == device.alive /\ toDevice # <<>> /\ (cable = "in" \/ device.connected)
CanWrite == device.alive /\ Len(device.ring) < RingFrames /\ (device.queue # <<>> \/ device.pending # <<>>)
IsDue    == device.alive /\ \E n \in Sizes \ {0} : \E d \in Maintained(n) : d # device

FairSpec ==
  /\ Spec
  /\ []<>~CanRead \/ []<><<\E n \in Sizes : Readable(n)>>_vars
  /\ []<>~CanWrite \/ []<><<Writable>>_vars
  /\ []<>~IsDue \/ []<><<\E n \in Sizes \ {0} : Maintain(n)>>_vars
  /\ []<>(device.output # "draining") \/ []<><<SpeakerDrained>>_vars
  /\ WF_vars(HostReads) /\ WF_vars(CableBack)
-----------------------------------------------------------------------------
(***************************************************************************)
(* Properties.                                                             *)
(***************************************************************************)
DeviceTypes(d) ==
  /\ {d.alive, d.connected, d.missing, d.peer, d.ended} \subseteq BOOLEAN
  /\ {d.mic, d.micLast, d.spk, d.spkLast} \subseteq 0..streams
  /\ {d.epoch, d.since, d.expected} \subseteq Nat
  /\ d.pcm \in 0..Capacity /\ d.credit \in 0..Window
  /\ d.input \in {"closed", "opening", "started"}
  /\ d.output \in {"closed", "open", "draining"}

\* What is on its way to the device.
HostFrames == [kind : {"hello", "micStart", "micStop", "start", "end", "abort", "pcm"},
               stream : 0..streams, seq : 0..MaxPcm]

TypeOK ==
  /\ DeviceTypes(device) /\ cable \in {"in", "glitch", "out"}
  /\ toDevice \in Seq(HostFrames) /\ Len(toDevice) <= MaxWire
  /\ host.ready \in BOOLEAN /\ host.stream \in 0..streams /\ host.seq \in 0..MaxPcm
  /\ host.role \in {"none", "mic", "speaker", "ending"}
  /\ streams \in 0..MaxStreams /\ hellos \in 0..MaxHellos /\ events \in 0..MaxEvents
  /\ lost \in 0..MaxLost /\ faults \in 0..MaxFaults

Outbound == device.ring \o device.queue

\* The microphone and the speaker are never in use at once, by a session or by
\* the audio device behind it.
OneDirection ==
  /\ device.mic = 0 \/ device.spk = 0
  /\ device.input # "closed" <=> device.mic # 0
  /\ device.output # "closed" => device.spk # 0
  /\ device.mic # 0 \/ device.spk # 0 => device.connected

\* The sum of a sequence of numbers.
Total(sizes) ==
  LET sum[i \in 0..Len(sizes)] == IF i = 0 THEN 0 ELSE sum[i - 1] + sizes[i]
  IN  sum[Len(sizes)]

\* What a frame is worth to stream s: its credit on the way to the host, or one
\* frame of PCM on the way to the device.
Credit(frame, s) == IF frame.kind = "credit" /\ frame.stream = s THEN frame.amount ELSE 0
Pcm(frame, s)    == IF frame.kind = "pcm" /\ frame.stream = s THEN 1 ELSE 0

Granted(s)  == Total([k \in 1..Len(Outbound) |-> Credit(Outbound[k], s)])
InFlight(s) == Total([k \in 1..Len(toDevice) |-> Pcm(toDevice[k], s)])

\* What the host may still send is what the window allows, and fits into the
\* buffer beside what is there.
RoomForCredit == device.pcm + device.credit <= Capacity /\ device.credit <= Window

\* The credit the device counts as outstanding is what the host can still make
\* of it, on whichever side of the cable it is, and the buffer has room for it
\* all: PCM within the credit is never refused for want of credit or room.  (It may
\* be for its sequence number, after a loss.)
CreditIsKept ==
  LET s == device.spk
      unspent == IF host.stream = s /\ host.role = "speaker" THEN host.credit + Granted(s) ELSE 0
  IN s # 0 /\ ~device.ended =>
       /\ InFlight(s) + unspent <= device.credit
       /\ RoomForCredit
       /\ host.stream = s /\ host.role = "speaker" /\ lost = 0
            => InFlight(s) + unspent = device.credit

\* What the host reads after the acknowledgement of a HELLO is of no earlier
\* HELLO: no stream, and no event, of before.
FreshAfterHello ==
  \A i, j \in 1..Len(Outbound) :
    i < j /\ Outbound[i].kind = "ack" => Outbound[j].epoch >= Outbound[i].epoch

\* A stream whose end was accepted does not wait for ever, for a prebuffer it will
\* never reach or for room to say so: it is played, aborted or fails.
EndedStreamFinishes == device.ended ~> ~device.ended

\* A host that waits for credit gets it, or its stream is over; but the credit
\* of PCM that was lost on the way is never given back.
Starved == host.role = "speaker" /\ host.credit = 0 /\ host.stream = device.spk
HostIsServed == (Starved /\ lost = 0) ~> (~Starved \/ lost > 0)
=============================================================================
