------------------------ MODULE UsbAudioBridgeProofs ------------------------
(***************************************************************************)
(* Theorems about UsbAudioBridge, for any sizes of the buffers and bounds: *)
(* one direction at a time, room for the credit, nothing stale after a     *)
(* HELLO, and credit that neither leaks nor grows.                         *)
(***************************************************************************)
EXTENDS UsbAudioBridge, SequenceTheorems, WellFoundedInduction, TLAPS

\* The fields of the bridge; what is outbound is of no concern here.
Fields == {"alive", "connected", "missing", "peer", "epoch", "since", "mic", "micLast", "input",
           "spk", "spkLast", "ended", "output", "pcm", "credit", "expected",
           "pending", "queue", "ring"}

IsDevice(d) == d = [f \in Fields |-> d[f]]

Outgoing == {"pending", "queue", "ring"}

Same(d, e) == IsDevice(e) /\ \A f \in Fields \ Outgoing : e[f] = d[f]

\* OneDirection and RoomForCredit, of a device that a helper is at work on.
Duplex(d) ==
  /\ d.mic = 0 \/ d.spk = 0
  /\ d.input # "closed" <=> d.mic # 0
  /\ d.output # "closed" => d.spk # 0
  /\ d.mic # 0 \/ d.spk # 0 => d.connected

Room(d) == d.pcm + d.credit <= Capacity

Good(d) == IsDevice(d) /\ DeviceTypes(d) /\ Duplex(d) /\ Room(d)

\* The assumption, bound by bound.
LEMMA Bounds ==
  /\ MaxPending \in Nat /\ MaxStreams \in Nat /\ MaxPcm \in Nat /\ MaxWire \in Nat /\ MaxHellos \in Nat
  /\ MaxEvents \in Nat /\ MaxLost \in Nat /\ MaxFaults \in Nat
  /\ Capacity \in Nat /\ Window \in Nat /\ Capacity > 0 /\ Window > 0
  BY ConstantsAssumption

\* Goodness looks at no outbound frame.
LEMMA SameGood == ASSUME NEW d, NEW e, Good(d), Same(d, e) PROVE Good(e)
  BY DEF Same, Good, DeviceTypes, Duplex, Room, Fields, Outgoing

\* What goes to the driver, or to the queue, is outbound.
LEMMA PumpSame == ASSUME NEW d, IsDevice(d) PROVE Same(d, Pump(d))
  BY DEF Pump, Same, IsDevice, Fields, Outgoing

\* Sending is both.
LEMMA SendSame == ASSUME NEW d, NEW f, IsDevice(d) PROVE Same(d, Send(d, f))
  <1>1. CASE Fits(d)
    <2> DEFINE e == [d EXCEPT !.queue = Append(@, f)]
    <2>1. Same(d, e)
      BY DEF Same, IsDevice, Fields, Outgoing
    <2>2. Same(e, Pump(e)) BY <2>1, PumpSame DEF Same
    <2>3. Send(d, f) = Pump(e) BY <1>1 DEF Send
    <2> HIDE DEF e
    <2> QED BY <2>1, <2>2, <2>3 DEF Same
  <1>2. CASE ~Fits(d) BY <1>2 DEF Send, Same
  <1> QED BY <1>1, <1>2

\* What closing the microphone does.
LEMMA StopMicrophoneGood ==
  ASSUME NEW d, Good(d)
  PROVE  /\ Good(StopMicrophone(d)) /\ StopMicrophone(d).mic = 0
         /\ \A f \in {"alive", "connected", "epoch", "spk"} : StopMicrophone(d)[f] = d[f]
  <1> DEFINE q == Without(d.queue, "mic", d.mic)
             l == IF d.mic # 0 THEN d.mic ELSE d.micLast
             e == [d EXCEPT !.micLast = l, !.mic = 0, !.input = "closed", !.queue = q]
  <1>1. StopMicrophone(d) = e
    BY DEF StopMicrophone
  <1>2. l \in 0..streams BY DEF Good, DeviceTypes
  <1> HIDE DEF q, l
  <1>3. IsDevice(e) /\ e.mic = 0 /\ e.input = "closed" /\ e.micLast = l
        /\ \A f \in Fields \ {"micLast", "mic", "input", "queue"} : e[f] = d[f]
    BY DEF Good, IsDevice, Fields
  <1> HIDE DEF e
  <1> QED BY <1>1, <1>2, <1>3 DEF Good, Fields, DeviceTypes, Duplex, Room

\* What closing the speaker does.
LEMMA StopSpeakerGood ==
  ASSUME NEW d, Good(d)
  PROVE  /\ Good(StopSpeaker(d)) /\ StopSpeaker(d).spk = 0
         /\ \A f \in {"alive", "connected", "epoch", "mic", "micLast", "input"} : StopSpeaker(d)[f] = d[f]
  <1> DEFINE q == Without(d.queue, "credit", d.spk)
             l == IF d.spk # 0 THEN d.spk ELSE d.spkLast
             e == [d EXCEPT !.spkLast = l, !.spk = 0, !.ended = FALSE, !.output = "closed",
                            !.pcm = 0, !.credit = 0, !.expected = 0, !.queue = q]
  <1>1. StopSpeaker(d) = e
    BY DEF StopSpeaker
  <1>2. l \in 0..streams /\ 0 \in 0..streams BY DEF Good, DeviceTypes, Duplex
  <1> HIDE DEF q, l
  <1>3. /\ IsDevice(e) /\ e.spkLast = l /\ e.spk = 0 /\ e.ended \in BOOLEAN /\ e.output = "closed"
        /\ e.pcm = 0 /\ e.credit = 0 /\ e.expected = 0
        /\ \A f \in {"alive", "connected", "missing", "peer", "epoch", "since", "mic", "micLast", "input"} :
             e[f] = d[f]
    BY DEF Good, IsDevice, Fields
  <1> HIDE DEF e
  <1>4. DeviceTypes(e)
    <2>1. {e.spk, e.spkLast} \subseteq 0..streams /\ e.ended \in BOOLEAN /\ e.output = "closed"
      BY <1>2, <1>3
    <2>2. e.pcm \in 0..Capacity /\ e.credit \in 0..Window /\ e.expected \in Nat
      BY <1>3, Bounds
    <2> QED BY <1>3, <2>1, <2>2 DEF Good, DeviceTypes
  <1>5. Duplex(e) /\ Room(e) BY <1>3, Bounds DEF Good, Duplex, Room
  <1> QED BY <1>1, <1>3, <1>4, <1>5 DEF Good

\* Both at once.
LEMMA StopBothGood ==
  ASSUME NEW d, Good(d)
  PROVE  LET e == StopSpeaker(StopMicrophone(d)) IN
         /\ Good(e) /\ e.mic = 0 /\ e.spk = 0
         /\ \A f \in {"alive", "connected", "epoch"} : e[f] = d[f]
  BY StopMicrophoneGood, StopSpeakerGood

\* Credit is only granted for what there is room for.
LEMMA RefreshCreditGood ==
  ASSUME NEW d, Good(d)
  PROVE  Good(RefreshCredit(d)) /\ \A f \in {"alive", "connected", "output", "pcm"} : RefreshCredit(d)[f] = d[f]
  <1> DEFINE more == Lesser(Window, Capacity - d.pcm) - d.credit
             s == Send(d, Frame("credit", d.spk, more, d.since))
             e == [s EXCEPT !.credit = @ + more]
  <1>1. CASE d.spk = 0 \/ d.ended \/ more <= 0 \/ ~Fits(d)
    BY <1>1 DEF RefreshCredit
  <1>2. CASE ~(d.spk = 0 \/ d.ended \/ more <= 0 \/ ~Fits(d))
    <2>1. RefreshCredit(d) = e BY <1>2 DEF RefreshCredit
    <2>2. d.credit + more \in 0..Window /\ d.pcm + (d.credit + more) <= Capacity
      BY <1>2, Bounds DEF Good, DeviceTypes, Room, Lesser
    <2>3. Same(d, s) BY SendSame DEF Good
    <2> HIDE DEF s, more
    <2>4. /\ IsDevice(e) /\ e.credit = d.credit + more
          /\ \A f \in Fields \ (Outgoing \cup {"credit"}) : e[f] = d[f]
      BY <2>3 DEF Same, IsDevice, Fields, Outgoing
    <2> HIDE DEF e
    <2> QED BY <2>1, <2>2, <2>4 DEF Good, Fields, Outgoing, DeviceTypes, Duplex, Room
  <1> QED BY <1>1, <1>2

\* The output opens for a stream only.
LEMMA MaybeStartGood ==
  ASSUME NEW d, Good(d)
  PROVE  Good(MaybeStart(d)) /\ \A f \in {"alive", "connected", "spk", "pcm", "credit", "ended"} : MaybeStart(d)[f] = d[f]
  <1> DEFINE e == [d EXCEPT !.output = "open"]
  <1>1. MaybeStart(d) = d \/ (d.spk # 0 /\ MaybeStart(d) = e) BY DEF MaybeStart
  <1>2. /\ IsDevice(e) /\ e.output = "open" /\ \A f \in Fields \ {"output"} : e[f] = d[f]
    BY DEF Good, IsDevice, Fields
  <1> HIDE DEF e
  <1> QED BY <1>1, <1>2 DEF Good, Fields, DeviceTypes, Duplex, Room

\* What the output takes makes room for credit.
LEMMA PollGood ==
  ASSUME NEW d, Good(d), NEW n \in Nat
  PROVE  Good(Poll(d, n)) /\ Poll(d, n).connected = d.connected /\ Poll(d, n).alive = d.alive
  <1> DEFINE left == d.pcm - Lesser(n, d.pcm)
             o == IF d.ended /\ left = 0 THEN "draining" ELSE "open"
             e == [d EXCEPT !.pcm = left, !.output = o]
  <1>1. CASE d.output # "open" \/ n = 0 BY <1>1 DEF Poll
  <1>2. CASE ~(d.output # "open" \/ n = 0)
    <2>1. Poll(d, n) = RefreshCredit(e) BY <1>2 DEF Poll
    <2>2. left \in 0..Capacity /\ left <= d.pcm BY Bounds DEF Good, DeviceTypes, Lesser
    <2>3. o \in {"draining", "open"} OBVIOUS
    <2> HIDE DEF left, o
    <2>4. /\ IsDevice(e) /\ e.pcm = left /\ e.output = o /\ \A f \in Fields \ {"pcm", "output"} : e[f] = d[f]
      BY DEF Good, IsDevice, Fields
    <2> HIDE DEF e
    <2>5. Good(e) BY <1>2, <2>2, <2>3, <2>4, Bounds DEF Good, Fields, DeviceTypes, Duplex, Room
    <2>6. e.connected = d.connected /\ e.alive = d.alive BY <2>4 DEF Fields
    <2> QED BY <2>1, <2>5, <2>6, RefreshCreditGood
  <1> QED BY <1>1, <1>2

\* What the fields of a device are when nothing is in use.
LEMMA ResetGood ==
  ASSUME NEW d, Good(d)
  PROVE  /\ Good(ResetConnection(d)) /\ ResetConnection(d).mic = 0 /\ ResetConnection(d).spk = 0
         /\ \A f \in {"alive", "connected", "epoch"} : ResetConnection(d)[f] = d[f]
  <1> DEFINE b == StopSpeaker(StopMicrophone(d))
             e == [b EXCEPT !.micLast = 0, !.peer = FALSE, !.pending = <<>>, !.queue = <<>>]
  <1>1. ResetConnection(d) = e BY DEF ResetConnection
  <1>2. Good(b) /\ b.mic = 0 /\ b.spk = 0 /\ \A f \in {"alive", "connected", "epoch"} : b[f] = d[f]
    BY StopBothGood
  <1> HIDE DEF b
  <1>3. /\ IsDevice(e) /\ e.micLast = 0 /\ e.peer \in BOOLEAN
        /\ \A f \in Fields \ {"micLast", "peer", "pending", "queue"} : e[f] = b[f]
    BY <1>2 DEF Good, IsDevice, Fields
  <1> HIDE DEF e
  <1>4. DeviceTypes(e) BY <1>2, <1>3 DEF Good, DeviceTypes, Fields
  <1>5. Duplex(e) /\ Room(e) BY <1>2, <1>3 DEF Good, Duplex, Room, Fields
  <1>6. /\ e.mic = 0 /\ e.spk = 0
        /\ \A f \in {"alive", "connected", "epoch"} : e[f] = d[f]
    BY <1>2, <1>3 DEF Fields
  <1> QED BY <1>1, <1>3, <1>4, <1>5, <1>6 DEF Good

\* A connection that is found or lost finds nothing in use.
LEMMA RefreshedGood ==
  ASSUME NEW d, Good(d), NEW e \in Refreshed(d)
  PROVE  Good(e)
  <1>1. ASSUME NEW b, Good(b), NEW m \in BOOLEAN, NEW x, x = [b EXCEPT !.missing = m] PROVE Good(x)
    <2>1. IsDevice(x) /\ x.missing = m /\ \A f \in Fields \ {"missing"} : x[f] = b[f]
      BY <1>1 DEF Good, IsDevice, Fields
    <2>2. DeviceTypes(x) BY <1>1, <2>1 DEF Good, DeviceTypes, Fields
    <2> QED BY <1>1, <2>1, <2>2 DEF Good, Duplex, Room, Fields
  <1>2. ASSUME NEW b, Good(b), b.mic = 0, b.spk = 0, NEW c \in BOOLEAN,
               NEW x, x = [b EXCEPT !.connected = c, !.missing = FALSE]
        PROVE  Good(x)
    <2>1. /\ IsDevice(x) /\ x.connected = c /\ x.missing = FALSE
          /\ \A f \in Fields \ {"connected", "missing"} : x[f] = b[f]
      BY <1>2 DEF Good, IsDevice, Fields
    <2>2. DeviceTypes(x) BY <1>2, <2>1 DEF Good, DeviceTypes, Fields
    <2> QED BY <1>2, <2>1, <2>2 DEF Good, Duplex, Room, Fields
  <1>3. /\ Good(ResetConnection(d)) /\ ResetConnection(d).mic = 0 /\ ResetConnection(d).spk = 0
    BY ResetGood
  <1>4. \/ e = d \/ e = [d EXCEPT !.missing = FALSE] \/ e = [d EXCEPT !.missing = TRUE]
        \/ e = [ResetConnection(d) EXCEPT !.connected = TRUE, !.missing = FALSE]
        \/ e = [ResetConnection(d) EXCEPT !.connected = FALSE, !.missing = FALSE]
    BY DEF Refreshed
  <1> QED BY <1>1, <1>2, <1>3, <1>4

\* A frame that is sent changes nothing else.
LEMMA SendGood ==
  ASSUME NEW d, Good(d), NEW f
  PROVE  Good(Send(d, f)) /\ \A g \in Fields \ Outgoing : Send(d, f)[g] = d[g]
  BY SendSame, SameGood DEF Same, Good

\* Nor does an error.
LEMMA SendErrorGood ==
  ASSUME NEW d, Good(d), NEW code, NEW s
  PROVE  Good(SendError(d, code, s)) /\ \A g \in Fields \ Outgoing : SendError(d, code, s)[g] = d[g]
  BY SendGood DEF SendError

\* Nor do the events that waited.
LEMMA FlushGood ==
  ASSUME NEW d, Good(d)
  PROVE  Good(Flush(d))
  <1> DEFINE p == Pump(d)
             n == Lesser(Len(p.pending), QueueFrames - Len(p.queue) + RingFrames - Len(p.ring))
             sent == [k \in 1..n |-> Frame("event", 0, 0, p.pending[k])]
             q == p.queue \o sent
             r == SubSeq(p.pending, n + 1, Len(p.pending))
             e == [p EXCEPT !.queue = q, !.pending = r]
  <1>1. Flush(d) = Pump(e) BY DEF Flush
  <1>2. Same(d, p) BY PumpSame DEF Good
  <1> HIDE DEF p, q, r
  <1>3. Same(d, e) BY <1>2 DEF Same, IsDevice, Fields, Outgoing
  <1>4. Same(e, Pump(e)) BY <1>3, PumpSame DEF Same
  <1> HIDE DEF e
  <1> QED BY <1>1, <1>3, <1>4, SameGood

\* Some fields are set.
LEMMA HelloGood ==
  ASSUME NEW d, Good(d)
  PROVE  Good(Hello(d))
  <1> DEFINE b == StopSpeaker(StopMicrophone(d))
             e == [b EXCEPT !.micLast = 0, !.pending = <<>>, !.peer = TRUE, !.epoch = @ + 1]
  <1>1. Hello(d) = Send(e, Frame("ack", 0, 0, d.epoch + 1)) BY DEF Hello
  <1>2. Good(b) /\ b.mic = 0 /\ b.spk = 0 BY StopBothGood
  <1> HIDE DEF b
  <1>3. /\ IsDevice(e) /\ e.micLast = 0 /\ e.peer \in BOOLEAN /\ e.epoch = b.epoch + 1
        /\ \A f \in Fields \ {"micLast", "peer", "epoch", "pending"} : e[f] = b[f]
    BY <1>2 DEF Good, IsDevice, Fields
  <1> HIDE DEF e
  <1>4. DeviceTypes(e) BY <1>2, <1>3 DEF Good, DeviceTypes, Fields
  <1>5. Duplex(e) /\ Room(e) BY <1>2, <1>3 DEF Good, Duplex, Room, Fields
  <1> QED BY <1>1, <1>3, <1>4, <1>5, SendGood DEF Good

\* The microphone or the speaker is taken while neither is in use,
LEMMA MicrophoneStartGood ==
  ASSUME NEW d, Good(d), d.connected, NEW s \in 0..streams, s # 0
  PROVE  Good(MicrophoneStart(d, s))
  <1> DEFINE e == [d EXCEPT !.mic = s, !.input = "opening", !.since = d.epoch]
  <1>1. CASE d.spk # 0 \/ d.mic \notin {0, s}
    BY <1>1, SendErrorGood DEF MicrophoneStart
  <1>2. CASE d.spk = 0 /\ d.mic = 0
    <2>1. MicrophoneStart(d, s) = e BY <1>2 DEF MicrophoneStart
    <2>2. /\ IsDevice(e) /\ e.mic = s /\ e.input = "opening" /\ e.since = d.epoch
          /\ \A f \in Fields \ {"mic", "input", "since"} : e[f] = d[f]
      BY DEF Good, IsDevice, Fields
    <2> HIDE DEF e
    <2>3. DeviceTypes(e)
      <3>1. e.mic \in 0..streams /\ e.input \in {"closed", "opening", "started"} /\ e.since \in Nat
        BY <2>2 DEF Good, DeviceTypes
      <3>2. \A f \in {"alive", "connected", "missing", "peer", "ended", "micLast", "spk", "spkLast", "epoch",
                      "expected", "pcm", "credit", "output"} : e[f] = d[f]
        BY <2>2 DEF Fields
      <3> QED BY <3>1, <3>2 DEF Good, DeviceTypes
    <2>4. Room(e) BY <2>2 DEF Good, Room, Fields
    <2>5. e.spk = 0 /\ e.output = d.output /\ e.connected BY <1>2, <2>2 DEF Fields
    <2>6. Duplex(e) BY <1>2, <2>2, <2>5 DEF Good, Duplex
    <2> QED BY <2>1, <2>2, <2>3, <2>4, <2>6 DEF Good
  <1>3. CASE d.spk = 0 /\ d.mic = s
    BY <1>3, SendGood DEF MicrophoneStart
  <1> QED BY <1>1, <1>2, <1>3

\* the microphone stopped,
LEMMA MicrophoneStopGood ==
  ASSUME NEW d, Good(d), NEW s
  PROVE  Good(MicrophoneStop(d, s))
  BY StopMicrophoneGood, SendGood DEF MicrophoneStop

\* the speaker started,
LEMMA SpeakerStartGood ==
  ASSUME NEW d, Good(d), d.connected, NEW s \in 0..streams, s # 0
  PROVE  Good(SpeakerStart(d, s))
  <1> DEFINE e == [d EXCEPT !.spk = s, !.since = d.epoch]
  <1>1. CASE d.mic # 0 \/ d.spk # 0
    BY <1>1, SendErrorGood DEF SpeakerStart
  <1>2. CASE d.mic = 0 /\ d.spk = 0
    <2>1. SpeakerStart(d, s) = RefreshCredit(e) BY <1>2 DEF SpeakerStart
    <2>2. /\ IsDevice(e) /\ e.spk = s /\ e.since = d.epoch
          /\ \A f \in Fields \ {"spk", "since"} : e[f] = d[f]
      BY DEF Good, IsDevice, Fields
    <2> HIDE DEF e
    <2>3. DeviceTypes(e) BY <2>2 DEF Good, DeviceTypes, Fields
    <2>4. Duplex(e) /\ Room(e) BY <1>2, <2>2 DEF Good, Duplex, Room, Fields
    <2> QED BY <2>1, <2>2, <2>3, <2>4, RefreshCreditGood DEF Good
  <1> QED BY <1>1, <1>2

\* and a stream that ends keeps its room.
LEMMA SpeakerEndGood ==
  ASSUME NEW d, Good(d), NEW s, NEW n \in Nat
  PROVE  Good(SpeakerEnd(d, s, n))
  <1> DEFINE e == [d EXCEPT !.ended = TRUE]
  <1>1. \/ SpeakerEnd(d, s, n) = d
        \/ SpeakerEnd(d, s, n) = CompleteSpeaker(d)
        \/ SpeakerEnd(d, s, n) = Poll(MaybeStart(e), n)
    BY DEF SpeakerEnd
  <1>2. Good(CompleteSpeaker(d)) BY StopSpeakerGood, SendGood DEF CompleteSpeaker
  <1>3. /\ IsDevice(e) /\ e.ended \in BOOLEAN /\ \A f \in Fields \ {"ended"} : e[f] = d[f]
    BY DEF Good, IsDevice, Fields
  <1> HIDE DEF e
  <1>4. DeviceTypes(e) BY <1>3 DEF Good, DeviceTypes, Fields
  <1>5. Good(e) BY <1>3, <1>4 DEF Good, Duplex, Room, Fields
  <1> QED BY <1>1, <1>2, <1>5, MaybeStartGood, PollGood

\* So does one that takes PCM, or is refused it.
LEMMA SpeakerPcmGood ==
  ASSUME NEW d, Good(d), NEW frame, NEW n \in Nat
  PROVE  Good(SpeakerPcm(d, frame, n))
  <1> DEFINE e == [d EXCEPT !.expected = @ + 1, !.credit = @ - 1, !.pcm = @ + 1]
             code == IF d.spk = 0 /\ d.spkLast = frame.stream THEN "invalid" ELSE "refused"
             r == StopSpeaker(SendError(d, code, frame.stream))
  <1>1. \/ SpeakerPcm(d, frame, n) = d
        \/ SpeakerPcm(d, frame, n) = r
        \/ Takes(d, frame) /\ SpeakerPcm(d, frame, n) = RefreshCredit(Poll(MaybeStart(e), n))
    BY DEF SpeakerPcm
  <1>2. Good(r) BY SendErrorGood, StopSpeakerGood
  <1> HIDE DEF r
  <1>3. ASSUME Takes(d, frame) PROVE Good(e)
    <2>1. /\ IsDevice(e) /\ e.expected = d.expected + 1 /\ e.credit = d.credit - 1 /\ e.pcm = d.pcm + 1
          /\ \A f \in Fields \ {"expected", "credit", "pcm"} : e[f] = d[f]
      BY DEF Good, IsDevice, Fields
    <2> HIDE DEF e
    <2>2. e.expected \in Nat /\ e.credit \in 0..Window /\ e.pcm \in 0..Capacity /\ e.pcm + e.credit <= Capacity
      BY <1>3, <2>1, Bounds DEF Good, DeviceTypes, Takes, Room
    <2>3. DeviceTypes(e) BY <2>1, <2>2 DEF Good, DeviceTypes, Fields
    <2> QED BY <2>1, <2>2, <2>3 DEF Good, Duplex, Room, Fields
  <1> HIDE DEF e
  <1> QED BY <1>1, <1>2, <1>3, MaybeStartGood, PollGood, RefreshCreditGood

\* A frame of the host leaves the device good.
LEMMA HandleGood ==
  ASSUME NEW d, Good(d), d.connected, NEW frame \in HostFrames, NEW n \in Nat,
         frame.kind \in {"micStart", "start"} => frame.stream # 0
  PROVE  Good(Handle(d, frame, n))
  <1>1. /\ frame.stream \in 0..streams
        /\ frame.kind \in {"hello", "micStart", "micStop", "start", "end", "abort", "pcm"}
    BY DEF HostFrames
  <1>2. Good(SpeakerAbort(d, frame.stream)) BY StopSpeakerGood DEF SpeakerAbort
  <1> QED
    BY <1>1, <1>2, HelloGood, MicrophoneStartGood, MicrophoneStopGood, SpeakerStartGood,
       SpeakerEndGood, SpeakerPcmGood DEF Handle
-----------------------------------------------------------------------------
\* A stream that the host starts has a number.
Wire ==
  /\ toDevice \in Seq(HostFrames) /\ Len(toDevice) <= MaxWire
  /\ \A k \in 1..Len(toDevice) : toDevice[k].kind \in {"micStart", "start"} => toDevice[k].stream # 0

HostFields == {"ready", "stream", "role", "credit", "seq"}

HostTypes ==
  /\ host = [f \in HostFields |-> host[f]]
  /\ host.ready \in BOOLEAN /\ host.stream \in 0..streams /\ host.seq \in 0..MaxPcm
  /\ host.role \in {"none", "mic", "speaker", "ending"}

Counts ==
  /\ cable \in {"in", "glitch", "out"}
  /\ streams \in 0..MaxStreams /\ hellos \in 0..MaxHellos /\ events \in 0..MaxEvents
  /\ lost \in 0..MaxLost /\ faults \in 0..MaxFaults

IInv == Good(device) /\ Wire /\ HostTypes /\ Counts

\* Everything starts from nothing.
LEMMA Initially == Init => IInv
  <1> SUFFICES ASSUME Init PROVE IInv OBVIOUS
  <1>1. IsDevice(device) BY DEF Init, IsDevice, Fields
  <1>2. DeviceTypes(device) BY Bounds DEF Init, DeviceTypes
  <1>3. Duplex(device) /\ Room(device) BY Bounds DEF Init, Duplex, Room
  <1>4. Wire BY Bounds DEF Init, Wire
  <1>5. HostTypes BY Bounds DEF Init, HostTypes, HostFields
  <1>6. Counts BY Bounds DEF Init, Counts
  <1> QED BY <1>1, <1>2, <1>3, <1>4, <1>5, <1>6 DEF IInv, Good

\* The streams are numbered on, and what is known of the earlier ones stays true.
LEMMA MoreStreams ==
  ASSUME Counts, streams' = streams \/ streams' = streams + 1
  PROVE  streams' \in Nat /\ 0..streams \subseteq 0..streams' /\ HostFrames \subseteq HostFrames'
  <1>1. streams \in Nat /\ streams' \in Nat /\ streams <= streams' BY Bounds DEF Counts
  <1>2. 0..streams \subseteq 0..streams' BY <1>1
  <1> QED BY <1>1, <1>2 DEF HostFrames

\* The device stays good while streams are counted on.
LEMMA GoodStays ==
  ASSUME Counts, streams' = streams \/ streams' = streams + 1, Good(device), UNCHANGED device
  PROVE  (Good(device))'
  <1>1. 0..streams \subseteq 0..streams' BY MoreStreams
  <1>2. (DeviceTypes(device))' BY <1>1 DEF Good, DeviceTypes
  <1> QED BY <1>2 DEF Good, IsDevice, Duplex, Room

\* A frame arrives or is lost, or the wire is cut.
LEMMA WireShrinks ==
  ASSUME Wire, UNCHANGED streams,
         toDevice' = toDevice \/ toDevice' = <<>> \/ (toDevice # <<>> /\ toDevice' = Tail(toDevice))
  PROVE  Wire'
  <1>0. HostFrames' = HostFrames BY DEF HostFrames
  <1>1. CASE toDevice' = toDevice BY <1>0, <1>1 DEF Wire
  <1>2. CASE toDevice' = <<>> BY <1>2, Bounds DEF Wire
  <1>3. CASE toDevice # <<>> /\ toDevice' = Tail(toDevice)
    <2>0. toDevice \in Seq(HostFrames) /\ Len(toDevice) <= MaxWire /\ Len(toDevice) \in Nat BY DEF Wire
    <2>1. toDevice' \in Seq(HostFrames) /\ Len(toDevice') = Len(toDevice) - 1
          /\ \A k \in 1..Len(toDevice') : k + 1 \in 1..Len(toDevice) /\ toDevice'[k] = toDevice[k + 1]
      BY <1>3, <2>0
    <2>2. Len(toDevice') <= MaxWire BY <2>0, <2>1, Bounds
    <2> QED BY <1>0, <2>1, <2>2 DEF Wire
  <1> QED BY <1>1, <1>2, <1>3

\* The host sends a frame.
LEMMA WireGrows ==
  ASSUME Wire, Counts, streams' = streams \/ streams' = streams + 1,
         NEW kind \in {"hello", "micStart", "micStop", "start", "end", "abort", "pcm"},
         NEW s \in 0..streams', NEW n \in 0..MaxPcm, HostSends(kind, s, n),
         kind \in {"micStart", "start"} => s # 0
  PROVE  Wire'
  <1> DEFINE frame == [kind |-> kind, stream |-> s, seq |-> n]
  <1>1. frame \in HostFrames' BY DEF HostFrames
  <1>2. frame.kind = kind /\ frame.stream = s OBVIOUS
  <1>3. toDevice \in Seq(HostFrames') BY MoreStreams DEF Wire
  <1>4. Len(toDevice) < MaxWire /\ toDevice' = Append(toDevice, frame) BY DEF HostSends
  <1> HIDE DEF frame
  <1>5. /\ toDevice' \in Seq(HostFrames') /\ Len(toDevice') = Len(toDevice) + 1
        /\ \A k \in 1..Len(toDevice') :
             (k \in 1..Len(toDevice) /\ toDevice'[k] = toDevice[k]) \/ toDevice'[k] = frame
    BY <1>1, <1>3, <1>4
  <1>6. Len(toDevice') <= MaxWire BY <1>3, <1>4, <1>5, Bounds
  <1> QED BY <1>2, <1>5, <1>6 DEF Wire

\* What the steps of the device owe: the device stays good, and nothing but what
\* is on its way to it changes besides.
LEMMA DeviceStep ==
  ASSUME IInv, Good(device'), UNCHANGED <<cable, host, streams, hellos>>,
         toDevice' = toDevice \/ (toDevice # <<>> /\ toDevice' = Tail(toDevice)),
         lost' \in 0..MaxLost, events' \in 0..MaxEvents, faults' \in 0..MaxFaults
  PROVE  IInv'
  <1>1. (Good(device))' BY DEF Good, DeviceTypes, IsDevice, Duplex, Room
  <1>2. Wire' BY WireShrinks DEF IInv
  <1>3. HostTypes' /\ Counts' BY DEF IInv, HostTypes, Counts
  <1> QED BY <1>1, <1>2, <1>3 DEF IInv

\* What a frame makes of the device is a device again.
LEMMA TakenGood ==
  ASSUME IInv, toDevice # <<>>, NEW n \in Sizes, NEW d \in Taken(n)
  PROVE  Good(d)
  <1>1. n \in Nat BY Bounds DEF Sizes
  <1>2. PICK c \in Refreshed(device) : c.connected /\ d = Handle(c, Head(toDevice), n)
    BY DEF Taken
  <1>3. Good(c) BY RefreshedGood DEF IInv
  <1>4. /\ Head(toDevice) \in HostFrames
        /\ Head(toDevice).kind \in {"micStart", "start"} => Head(toDevice).stream # 0
    BY DEF IInv, Wire
  <1> QED BY <1>1, <1>2, <1>3, <1>4, HandleGood

\* Every callback of the bridge keeps the invariant.
LEMMA CallbacksStep == IInv /\ Callbacks => IInv'
  <1> SUFFICES ASSUME IInv, Callbacks PROVE IInv' OBVIOUS
  <1>0. Good(device) /\ Wire /\ Counts BY DEF IInv
  <1>c. /\ lost \in 0..MaxLost /\ events \in 0..MaxEvents /\ faults \in 0..MaxFaults
        /\ lost < MaxLost => lost + 1 \in 0..MaxLost
        /\ events < MaxEvents => events + 1 \in 0..MaxEvents
        /\ faults < MaxFaults => faults + 1 \in 0..MaxFaults
    BY <1>0, Bounds DEF Counts
  <1>1. ASSUME NEW n \in Sizes, Readable(n) PROVE IInv'
    <2>1. toDevice # <<>> /\ UNCHANGED <<cable, host, streams, counters>> BY <1>1 DEF Readable
    <2>2. CASE \E d \in Refreshed(device) : device' = d /\ UNCHANGED toDevice
      BY <1>0, <1>c, <2>1, <2>2, RefreshedGood, DeviceStep DEF counters
    <2>3. CASE \E d \in Taken(n) : (device' = Flush(d) \/ device' = d) /\ toDevice' = Tail(toDevice)
      BY <1>c, <2>1, <2>3, TakenGood, FlushGood, DeviceStep DEF counters
    <2> QED BY <1>1, <2>2, <2>3 DEF Readable
  <1>2. ASSUME NEW n \in Sizes, Maintain(n) PROVE IInv'
    <2>1. n \in Nat BY Bounds DEF Sizes
    <2>2. PICK d \in Refreshed(device) :
            device' = IF d.connected THEN RefreshCredit(Poll(MaybeStart(d), n)) ELSE d
      BY <1>2 DEF Maintain, Maintained
    <2>3. Good(d) BY <1>0, RefreshedGood
    <2>4. Good(device') BY <2>1, <2>2, <2>3, MaybeStartGood, PollGood, RefreshCreditGood
    <2> QED BY <1>2, <1>c, <2>4, DeviceStep DEF Maintain, counters
  <1>3. CASE FrameLost BY <1>0, <1>c, <1>3, DeviceStep DEF FrameLost
  <1>4. CASE Writable BY <1>0, <1>c, <1>4, FlushGood, DeviceStep DEF Writable, counters
  <1>5. CASE SendEvent
    <2> DEFINE e == [device EXCEPT !.pending = Append(@, device.epoch)]
    <2>1. device' = device \/ device' = Flush(e) BY <1>5 DEF SendEvent
    <2>2. Good(e)
      <3>1. Same(device, e) BY <1>0 DEF Good, Same, IsDevice, Fields, Outgoing
      <3> HIDE DEF e
      <3> QED BY <1>0, <3>1, SameGood
    <2> HIDE DEF e
    <2>3. Good(device') BY <1>0, <2>1, <2>2, FlushGood
    <2> QED BY <1>c, <1>5, <2>3, DeviceStep DEF SendEvent
  <1>6. ASSUME NEW n \in Sizes, CallbackFails(n) PROVE IInv'
    <2>1. UNCHANGED <<cable, host, streams, hellos, events, lost>> /\ faults' \in 0..MaxFaults
      BY <1>c, <1>6 DEF CallbackFails
    <2>2. CASE device' = StopSpeaker(StopMicrophone(device)) /\ UNCHANGED toDevice
      BY <1>0, <1>c, <2>1, <2>2, StopBothGood, DeviceStep
    <2>3. CASE /\ toDevice # <<>> /\ toDevice' = Tail(toDevice)
               /\ \E d \in Taken(n) : device' = StopSpeaker(StopMicrophone(d))
      BY <1>c, <2>1, <2>3, TakenGood, StopBothGood, DeviceStep
    <2> QED BY <1>6, <2>2, <2>3 DEF CallbackFails
  <1>7. CASE Dies
    <2> DEFINE r == ResetConnection(device)
               e == [r EXCEPT !.alive = FALSE, !.connected = FALSE, !.missing = FALSE]
    <2>1. device' = e BY <1>7 DEF Dies
    <2>2. Good(r) /\ r.mic = 0 /\ r.spk = 0 BY <1>0, ResetGood
    <2> HIDE DEF r
    <2>3. /\ IsDevice(e) /\ {e.alive, e.connected, e.missing} \subseteq BOOLEAN
          /\ \A f \in Fields \ {"alive", "connected", "missing"} : e[f] = r[f]
      BY <2>2 DEF Good, IsDevice, Fields
    <2> HIDE DEF e
    <2>4. DeviceTypes(e) BY <2>2, <2>3 DEF Good, DeviceTypes, Fields
    <2>5. Duplex(e) /\ Room(e) BY <2>2, <2>3 DEF Good, Duplex, Room, Fields
    <2> QED BY <1>c, <1>7, <2>1, <2>3, <2>4, <2>5, DeviceStep DEF Dies, Good
  <1>8. CASE MicrophoneStarted
    <2> DEFINE e == [device EXCEPT !.input = "started"]
    <2>1. device' = Send(e, Frame("started", device.mic, 0, device.since)) BY <1>8 DEF MicrophoneStarted
    <2>2. device.input = "opening" BY <1>8 DEF MicrophoneStarted
    <2>3. /\ IsDevice(e) /\ e.input = "started" /\ \A f \in Fields \ {"input"} : e[f] = device[f]
      BY <1>0 DEF Good, IsDevice, Fields
    <2> HIDE DEF e
    <2>4. DeviceTypes(e) BY <1>0, <2>3 DEF Good, DeviceTypes, Fields
    <2>5. Good(e) BY <1>0, <2>2, <2>3, <2>4 DEF Good, Duplex, Room, Fields
    <2>6. Good(device') BY <2>1, <2>5, SendGood
    <2> QED BY <1>c, <1>8, <2>6, DeviceStep DEF MicrophoneStarted, counters
  <1>9. CASE MicrophoneReadable
    BY <1>0, <1>c, <1>9, SendGood, SendErrorGood, StopMicrophoneGood, DeviceStep
       DEF MicrophoneReadable, counters
  <1>10. CASE MicrophoneError
    BY <1>0, <1>c, <1>10, SendErrorGood, StopMicrophoneGood, DeviceStep DEF MicrophoneError
  <1>11. CASE SpeakerDrained
    BY <1>0, <1>c, <1>11, StopSpeakerGood, SendGood, DeviceStep DEF SpeakerDrained, CompleteSpeaker, counters
  <1>12. CASE SpeakerError
    BY <1>0, <1>c, <1>12, SendErrorGood, StopSpeakerGood, DeviceStep DEF SpeakerError
  <1> QED
    BY <1>1, <1>2, <1>3, <1>4, <1>5, <1>6, <1>7, <1>8, <1>9, <1>10, <1>11, <1>12 DEF Callbacks

\* A host that starts over.
LEMMA IdleTypes ==
  ASSUME Counts, UNCHANGED streams, host' = Idle PROVE HostTypes'
  <1>1. Idle = [f \in HostFields |-> Idle[f]] BY DEF Idle, HostFields
  <1>2. 0 \in 0..streams /\ 0 \in 0..MaxPcm BY Bounds DEF Counts
  <1>3. Idle.ready = FALSE /\ Idle.stream = 0 /\ Idle.role = "none" /\ Idle.seq = 0 BY DEF Idle
  <1>4. Idle.ready \in BOOLEAN BY <1>3
  <1> HIDE DEF Idle
  <1> QED BY <1>1, <1>2, <1>3, <1>4 DEF HostTypes

\* So does every step of the host.
LEMMA HostStep == IInv /\ Host => IInv'
  <1> SUFFICES ASSUME IInv, Host PROVE IInv' OBVIOUS
  <1>0. Good(device) /\ Wire /\ HostTypes /\ Counts BY DEF IInv
  <1>1. /\ host.stream \in 0..streams /\ host.seq \in 0..MaxPcm /\ 0 \in 0..MaxPcm /\ 0 \in 0..streams
        /\ streams \in Nat
    BY <1>0, Bounds DEF HostTypes, Counts
  \* What is left to show of a frame that is sent.
  <1>2. ASSUME NEW kind \in {"hello", "micStart", "micStop", "start", "end", "abort", "pcm"},
               NEW s \in 0..streams', NEW n \in 0..MaxPcm, HostSends(kind, s, n),
               streams' = streams \/ streams' = streams + 1, streams' <= MaxStreams,
               kind \in {"micStart", "start"} => s # 0, hellos' \in 0..MaxHellos, HostTypes'
        PROVE  IInv'
    <2>1. Wire' BY <1>0, <1>2, WireGrows
    <2>2. (Good(device))' BY <1>0, <1>2, GoodStays DEF HostSends
    <2>3. Counts' BY <1>0, <1>2, MoreStreams DEF HostSends, Counts
    <2> QED BY <1>2, <2>1, <2>2, <2>3 DEF IInv
  <1>3. CASE HostHello
    <2>1. HostTypes' BY <1>0, <1>3, IdleTypes DEF HostHello
    <2>2. hellos' \in 0..MaxHellos BY <1>0, <1>3, Bounds DEF HostHello, Counts
    <2> QED BY <1>0, <1>1, <1>2, <1>3, <2>1, <2>2 DEF HostHello, Counts
  <1>4. ASSUME NEW role \in {"mic", "speaker"}, HostStarts(role) PROVE IInv'
    <2>1. streams' = streams + 1 /\ streams' <= MaxStreams /\ streams + 1 \in 0..streams' /\ streams + 1 # 0
      BY <1>1, <1>4, Bounds DEF HostStarts
    <2>2. HostTypes' BY <1>0, <1>1, <1>4, <2>1 DEF HostStarts, HostTypes, HostFields
    <2>3. hellos' \in 0..MaxHellos BY <1>0, <1>4 DEF HostStarts, Counts
    <2> QED BY <1>1, <1>2, <1>4, <2>1, <2>2, <2>3 DEF HostStarts
  <1>5. CASE HostPcm
    <2>1. host.seq + 1 \in 0..MaxPcm BY <1>1, <1>5, Bounds DEF HostPcm
    <2>2. host' = [host EXCEPT !.credit = @ - 1, !.seq = @ + 1] /\ UNCHANGED streams BY <1>5 DEF HostPcm
    <2>3. /\ host' = [f \in HostFields |-> host'[f]] /\ host'.seq = host.seq + 1
          /\ \A f \in HostFields \ {"credit", "seq"} : host'[f] = host[f]
      BY <1>0, <2>2 DEF HostTypes, HostFields
    <2>4. HostTypes' BY <1>0, <2>1, <2>2, <2>3 DEF HostTypes, HostFields
    <2>5. HostSends("pcm", host.stream, host.seq) /\ UNCHANGED hellos BY <1>5 DEF HostPcm
    <2> QED BY <1>0, <1>1, <1>2, <2>2, <2>4, <2>5 DEF Counts
  <1>6. CASE HostEnds
    <2>1. HostTypes' BY <1>0, <1>6 DEF HostEnds, HostTypes, HostFields
    <2> QED BY <1>0, <1>1, <1>2, <1>6, <2>1 DEF HostEnds, Counts
  <1>7. CASE HostStops
    <2>1. HostTypes' BY <1>0, <1>7 DEF HostStops, HostTypes, HostFields
    <2> QED BY <1>0, <1>1, <1>2, <1>7, <2>1 DEF HostStops, Counts
  <1>8. CASE HostReads
    <2> DEFINE t == Tail(device.ring)
               e == [device EXCEPT !.ring = t]
    <2>1. device' = e BY <1>8 DEF HostReads
    <2> HIDE DEF t
    <2>2. Same(device, e) BY <1>0 DEF Good, Same, IsDevice, Fields, Outgoing
    <2> HIDE DEF e
    <2>3. Good(device') BY <1>0, <2>1, <2>2, SameGood
    <2>4. UNCHANGED <<cable, toDevice, streams, counters>> BY <1>8 DEF HostReads
    <2>5. \/ host' = host \/ host' = [host EXCEPT !.ready = TRUE] \/ host' = [host EXCEPT !.role = "none"]
          \/ \E n : host' = [host EXCEPT !.credit = n]
      BY <1>8 DEF HostReads
    <2>6. HostTypes' BY <1>0, <2>4, <2>5 DEF HostTypes, HostFields
    <2>7. (Good(device))' BY <2>3, <2>4 DEF Good, DeviceTypes, IsDevice, Duplex, Room
    <2>8. Wire' BY <1>0, <2>4, WireShrinks
    <2>9. Counts' BY <1>0, <2>4 DEF Counts, counters
    <2> QED BY <2>6, <2>7, <2>8, <2>9 DEF IInv
  <1> QED BY <1>3, <1>4, <1>5, <1>6, <1>7, <1>8 DEF Host

\* And of the cable.
LEMMA CableStep == IInv /\ (CableFails \/ CableBack) => IInv'
  <1> SUFFICES ASSUME IInv, CableFails \/ CableBack PROVE IInv' OBVIOUS
  <1>0. Good(device) /\ Wire /\ HostTypes /\ Counts BY DEF IInv
  <1>1. /\ UNCHANGED <<device, streams, hellos, events, lost>>
        /\ host' = host \/ host' = Idle
        /\ toDevice' = toDevice \/ toDevice' = <<>>
        /\ cable' \in {"in", "glitch", "out"}
        /\ faults' = faults \/ (faults < MaxFaults /\ faults' = faults + 1)
    BY DEF CableFails, CableBack, counters
  <1>2. (Good(device))' BY <1>0, <1>1, GoodStays
  <1>3. Wire' BY <1>0, <1>1, WireShrinks
  <1>4. host' = host => HostTypes' BY <1>0, <1>1 DEF HostTypes
  <1>5. HostTypes' BY <1>0, <1>1, <1>4, IdleTypes
  <1>6. Counts' BY <1>0, <1>1, Bounds DEF Counts
  <1> QED BY <1>2, <1>3, <1>5, <1>6 DEF IInv

\* The invariant holds in every state.
LEMMA Invariance == Spec => []IInv
  <1>1. IInv /\ UNCHANGED vars => IInv'
    <2> SUFFICES ASSUME IInv, UNCHANGED vars PROVE IInv' OBVIOUS
    <2>1. HostFrames' = HostFrames BY DEF vars, HostFrames
    <2> QED
      BY <2>1 DEF vars, counters, IInv, Good, DeviceTypes, IsDevice, Duplex, Room, Wire, HostTypes, Counts
  <1>2. IInv /\ [Next]_vars => IInv'
    BY <1>1, CallbacksStep, HostStep, CableStep DEF Next
  <1> QED BY Initially, <1>2, PTL DEF Spec

\* The fields of the bridge, what is on its way to it and what the host counts
\* stay of their types: above all no more than Capacity is ever buffered, and
\* the credit never leaves 0..Window.
THEOREM TypeCorrect == Spec => []TypeOK
  <1>1. IInv => TypeOK BY DEF IInv, Good, Wire, HostTypes, Counts, TypeOK
  <1> QED BY <1>1, Invariance, PTL

\* Whatever the host sends and whatever callback comes next, the microphone and
\* the speaker are not in use at once, and neither is without a connection.
THEOREM NeverBoth == Spec => []OneDirection
  <1>1. IInv => OneDirection BY DEF IInv, Good, Duplex, OneDirection
  <1> QED BY <1>1, Invariance, PTL

\* No callback grants credit that the buffer would have no room for.
THEOREM CreditFits == Spec => []RoomForCredit
  <1>1. IInv => RoomForCredit BY Bounds DEF IInv, Good, DeviceTypes, Room, RoomForCredit
  <1> QED BY <1>1, Invariance, PTL
-----------------------------------------------------------------------------
(***************************************************************************)
(* Sums and filters of sequences.                                          *)
(***************************************************************************)
\* Induction over the natural numbers, for a set.
LEMMA SetInduction ==
  ASSUME NEW S, 0 \in S, \A n \in Nat : n \in S => n + 1 \in S
  PROVE  \A n \in Nat : n \in S
  <1> DEFINE Missing == Nat \ S
  <1>1. SUFFICES ASSUME Missing # {} PROVE FALSE
    OBVIOUS
  <1>2. PICK x \in Missing : \A y \in Missing : ~(<<y, x>> \in OpToRel(<, Nat))
    <2>1. Missing \subseteq Nat OBVIOUS
    <2> HIDE DEF Missing
    <2> QED BY <1>1, <2>1, WFMin, NatLessThanWellFounded
  <1>3. x # 0 /\ x \in Nat /\ x - 1 \in Nat OBVIOUS
  <1>4. x - 1 \in Missing BY <1>3
  <1>5. <<x - 1, x>> \in OpToRel(<, Nat) BY <1>3 DEF OpToRel
  <1> QED BY <1>2, <1>4, <1>5

\* The partial sums of a sequence of numbers.
Sums(sizes, sum) == sum = [i \in 0..Len(sizes) |-> IF i = 0 THEN 0 ELSE sum[i - 1] + sizes[i]]

\* Partial sums exist, and Total is the last of them.
LEMMA TotalIsLast ==
  ASSUME NEW sizes \in Seq(Nat)
  PROVE  \E sum : Sums(sizes, sum) /\ Total(sizes) = sum[Len(sizes)]
  <1> DEFINE Upto(n) == \E sum : sum = [i \in 0..n |-> IF i = 0 THEN 0 ELSE sum[i - 1] + sizes[i]]
             S == {n \in Nat : Upto(n)}
  <1>1. 0 \in S
    <2>1. LET sum == [i \in 0..0 |-> 0] IN sum = [i \in 0..0 |-> IF i = 0 THEN 0 ELSE sum[i - 1] + sizes[i]]
      OBVIOUS
    <2> QED BY <2>1
  <1>2. ASSUME NEW n \in Nat, n \in S PROVE n + 1 \in S
    <2>1. PICK sum : sum = [i \in 0..n |-> IF i = 0 THEN 0 ELSE sum[i - 1] + sizes[i]]
      BY <1>2
    <2> DEFINE more == [i \in 0..(n + 1) |-> IF i = n + 1 THEN sum[n] + sizes[n + 1] ELSE sum[i]]
               next == [i \in 0..(n + 1) |-> IF i = 0 THEN 0 ELSE more[i - 1] + sizes[i]]
    <2>2. ASSUME NEW i \in 0..(n + 1) PROVE next[i] = more[i]
      <3>1. CASE i = 0 BY <3>1, <2>1
      <3>2. CASE i = n + 1 BY <3>2
      <3>3. CASE i \in 1..n
        <4>1. sum[i] = sum[i - 1] + sizes[i] BY <3>3, <2>1
        <4> QED BY <3>3, <4>1
      <3> QED BY <3>1, <3>2, <3>3
    <2>3. more = [i \in 0..(n + 1) |-> more[i]] /\ next = [i \in 0..(n + 1) |-> next[i]] OBVIOUS
    <2>4. more = next
      <3> HIDE DEF more, next
      <3> QED BY <2>2, <2>3
    <2>5. Upto(n + 1)
      <3>1. more = [i \in 0..(n + 1) |-> IF i = 0 THEN 0 ELSE more[i - 1] + sizes[i]] BY <2>4
      <3> HIDE DEF more
      <3> QED BY <3>1
    <2> HIDE DEF Upto
    <2> QED BY <2>5
  <1>3. Len(sizes) \in S
    <2> HIDE DEF S
    <2> QED BY <1>1, <1>2, SetInduction
  <1>4. \E sum : Sums(sizes, sum) BY <1>3 DEF Sums
  <1>5. Sums(sizes, CHOOSE sum : Sums(sizes, sum)) BY <1>4
  <1>6. Total(sizes) = (CHOOSE sum : Sums(sizes, sum))[Len(sizes)] BY DEF Total, Sums
  <1> QED BY <1>5, <1>6

\* Each partial sum is a number, and adds one element to the one before it.
LEMMA SumsStep ==
  ASSUME NEW sizes \in Seq(Nat), NEW sum, Sums(sizes, sum)
  PROVE  /\ sum[0] = 0 /\ \A i \in 0..Len(sizes) : sum[i] \in Nat
         /\ \A i \in 1..Len(sizes) : sum[i] = sum[i - 1] + sizes[i]
  <1> DEFINE S == {n \in Nat : n <= Len(sizes) => sum[n] \in Nat}
  <1>1. sum[0] = 0 /\ \A i \in 1..Len(sizes) : sum[i] = sum[i - 1] + sizes[i] BY DEF Sums
  <1>2. 0 \in S BY <1>1
  <1>3. ASSUME NEW n \in Nat, n \in S PROVE n + 1 \in S
    <2>1. SUFFICES ASSUME n + 1 <= Len(sizes) PROVE sum[n + 1] \in Nat OBVIOUS
    <2>2. n + 1 \in 1..Len(sizes) /\ (n + 1) - 1 = n BY <2>1
    <2>3. sum[n + 1] = sum[n] + sizes[n + 1] /\ sizes[n + 1] \in Nat BY <1>1, <2>2
    <2> QED BY <1>3, <2>1, <2>3
  <1>4. \A n \in Nat : n \in S
    <2> HIDE DEF S
    <2> QED BY <1>2, <1>3, SetInduction
  <1> QED BY <1>1, <1>4

\* A sum is a number.
LEMMA TotalType == ASSUME NEW sizes \in Seq(Nat) PROVE Total(sizes) \in Nat
  <1>1. PICK sum : Sums(sizes, sum) /\ Total(sizes) = sum[Len(sizes)] BY TotalIsLast
  <1>2. Len(sizes) \in 0..Len(sizes) OBVIOUS
  <1> QED BY <1>1, <1>2, SumsStep

\* Nothing is added by zeros after a sequence.
LEMMA TotalZeros ==
  ASSUME NEW a \in Seq(Nat), NEW b \in Seq(Nat), Len(a) <= Len(b),
         \A i \in 1..Len(a) : b[i] = a[i], \A i \in (Len(a) + 1)..Len(b) : b[i] = 0
  PROVE  Total(b) = Total(a)
  <1>1. PICK s : Sums(a, s) /\ Total(a) = s[Len(a)] BY TotalIsLast
  <1>2. PICK t : Sums(b, t) /\ Total(b) = t[Len(b)] BY TotalIsLast
  <1>3. /\ s[0] = 0 /\ t[0] = 0
        /\ \A i \in 1..Len(a) : s[i] = s[i - 1] + a[i]
        /\ \A i \in 1..Len(b) : t[i] = t[i - 1] + b[i]
        /\ \A i \in 0..Len(a) : s[i] \in Nat
    BY <1>1, <1>2, SumsStep
  <1> DEFINE S == {n \in Nat : n <= Len(b) => t[n] = IF n <= Len(a) THEN s[n] ELSE s[Len(a)]}
  <1>4. 0 \in S BY <1>3
  <1>5. ASSUME NEW n \in Nat, n \in S PROVE n + 1 \in S
    <2>1. SUFFICES ASSUME n + 1 <= Len(b)
                   PROVE  t[n + 1] = IF n + 1 <= Len(a) THEN s[n + 1] ELSE s[Len(a)]
      OBVIOUS
    <2>2. n + 1 \in 1..Len(b) /\ (n + 1) - 1 = n BY <2>1
    <2>3. t[n + 1] = t[n] + b[n + 1] BY <1>3, <2>2
    <2>4. t[n] = IF n <= Len(a) THEN s[n] ELSE s[Len(a)] BY <1>5, <2>1
    <2>5. CASE n + 1 <= Len(a)
      <3>1. n + 1 \in 1..Len(a) BY <2>5
      <3>2. s[n + 1] = s[n] + a[n + 1] BY <1>3, <2>2, <3>1
      <3> QED BY <2>3, <2>4, <2>5, <3>1, <3>2
    <2>6. CASE ~(n + 1 <= Len(a))
      <3>1. n + 1 \in (Len(a) + 1)..Len(b) BY <2>1, <2>6
      <3>2. b[n + 1] = 0 BY <3>1
      <3>3. s[Len(a)] \in Nat BY <1>3
      <3>4. t[n] = s[Len(a)] BY <2>4, <2>6
      <3> QED BY <2>3, <2>6, <3>2, <3>3, <3>4
    <2> QED BY <2>5, <2>6
  <1>6. Len(b) \in S
    <2> HIDE DEF S
    <2>1. \A n \in Nat : n \in S BY <1>4, <1>5, SetInduction
    <2>2. Len(b) \in Nat OBVIOUS
    <2> QED BY <2>1, <2>2
  <1> QED BY <1>1, <1>2, <1>6

\* Zeros add up to nothing.
LEMMA TotalNothing ==
  ASSUME NEW c \in Seq(Nat), \A k \in 1..Len(c) : c[k] = 0
  PROVE  Total(c) = 0
  <1>1. Total(c) = Total(<<>>)
    <2>1. <<>> \in Seq(Nat) /\ Len(<<>>) = 0 /\ Len(c) \in Nat OBVIOUS
    <2>2. \A i \in 1..Len(<<>>) : c[i] = <<>>[i] BY <2>1
    <2>3. Len(<<>>) <= Len(c) /\ \A i \in (Len(<<>>) + 1)..Len(c) : c[i] = 0 BY <2>1
    <2> QED BY <2>1, <2>2, <2>3, TotalZeros
  <1>2. Total(<<>>) = 0
    <2>1. <<>> \in Seq(Nat) /\ Len(<<>>) = 0 OBVIOUS
    <2>2. PICK sum : Sums(<<>>, sum) /\ Total(<<>>) = sum[Len(<<>>)] BY <2>1, TotalIsLast
    <2> QED BY <2>1, <2>2, SumsStep
  <1> QED BY <1>1, <1>2

\* An element after the others is added.
LEMMA TotalMore ==
  ASSUME NEW a \in Seq(Nat), NEW b \in Seq(Nat), Len(b) = Len(a) + 1,
         \A i \in 1..Len(a) : b[i] = a[i]
  PROVE  Total(b) = Total(a) + b[Len(b)]
  <1>1. PICK s : Sums(a, s) /\ Total(a) = s[Len(a)] BY TotalIsLast
  <1>2. PICK t : Sums(b, t) /\ Total(b) = t[Len(b)] BY TotalIsLast
  <1>3. /\ s[0] = 0 /\ t[0] = 0
        /\ \A i \in 1..Len(a) : s[i] = s[i - 1] + a[i]
        /\ \A i \in 1..Len(b) : t[i] = t[i - 1] + b[i]
    BY <1>1, <1>2, SumsStep
  <1> DEFINE S == {n \in Nat : n <= Len(a) => t[n] = s[n]}
  <1>4. 0 \in S BY <1>3
  <1>5. ASSUME NEW n \in Nat, n \in S PROVE n + 1 \in S
    <2>1. SUFFICES ASSUME n + 1 <= Len(a) PROVE t[n + 1] = s[n + 1] OBVIOUS
    <2>2. n + 1 \in 1..Len(a) /\ n + 1 \in 1..Len(b) /\ (n + 1) - 1 = n BY <2>1
    <2>3. t[n + 1] = t[n] + b[n + 1] /\ s[n + 1] = s[n] + a[n + 1] BY <1>3, <2>2
    <2> QED BY <1>5, <2>1, <2>2, <2>3
  <1>6. Len(a) \in S
    <2> HIDE DEF S
    <2>1. \A n \in Nat : n \in S BY <1>4, <1>5, SetInduction
    <2>2. Len(a) \in Nat OBVIOUS
    <2> QED BY <2>1, <2>2
  <1>7. Len(b) \in 1..Len(b) /\ Len(b) - 1 = Len(a) OBVIOUS
  <1> QED BY <1>1, <1>2, <1>3, <1>6, <1>7

\* So is one before them.
LEMMA TotalFirst ==
  ASSUME NEW a \in Seq(Nat), NEW b \in Seq(Nat), Len(b) = Len(a) + 1,
         \A i \in 1..Len(a) : a[i] = b[i + 1]
  PROVE  Total(b) = b[1] + Total(a)
  <1>1. PICK s : Sums(a, s) /\ Total(a) = s[Len(a)] BY TotalIsLast
  <1>2. PICK t : Sums(b, t) /\ Total(b) = t[Len(b)] BY TotalIsLast
  <1>3. /\ s[0] = 0 /\ t[0] = 0
        /\ \A i \in 1..Len(a) : s[i] = s[i - 1] + a[i]
        /\ \A i \in 1..Len(b) : t[i] = t[i - 1] + b[i]
        /\ \A i \in 0..Len(a) : s[i] \in Nat
    BY <1>1, <1>2, SumsStep
  <1>n. b[1] \in Nat /\ 1 \in 1..Len(b) /\ \A i \in 1..Len(a) : a[i] \in Nat OBVIOUS
  <1> DEFINE S == {n \in Nat : n <= Len(a) => t[n + 1] = b[1] + s[n]}
  <1>4. 0 \in S BY <1>3, <1>n
  <1>5. ASSUME NEW n \in Nat, n \in S PROVE n + 1 \in S
    <2>1. SUFFICES ASSUME n + 1 <= Len(a) PROVE t[(n + 1) + 1] = b[1] + s[n + 1] OBVIOUS
    <2>2. /\ n + 1 \in 1..Len(a) /\ n \in 0..Len(a) /\ (n + 1) + 1 \in 1..Len(b) /\ (n + 1) - 1 = n
          /\ ((n + 1) + 1) - 1 = n + 1
      BY <2>1
    <2>3. t[(n + 1) + 1] = t[n + 1] + b[(n + 1) + 1] /\ s[n + 1] = s[n] + a[n + 1] BY <1>3, <2>2
    <2>4. t[n + 1] = b[1] + s[n] /\ s[n] \in Nat /\ a[n + 1] \in Nat /\ a[n + 1] = b[(n + 1) + 1]
      BY <1>3, <1>5, <1>n, <2>1, <2>2
    <2> HIDE DEF S
    <2> QED BY <1>n, <2>3, <2>4
  <1>6. Len(a) \in S
    <2> HIDE DEF S
    <2>1. \A n \in Nat : n \in S BY <1>4, <1>5, SetInduction
    <2>2. Len(a) \in Nat OBVIOUS
    <2> QED BY <2>1, <2>2
  <1> QED BY <1>1, <1>2, <1>6

\* What a filter has kept after one frame more, and so far.
KeepsOn(before, frame, kind, stream) ==
  IF frame.kind = kind /\ frame.stream = stream THEN before ELSE Append(before, frame)

KeptSoFar(frames, kind, stream, kept) ==
  kept = [n \in 0..Len(frames) |->
            IF n = 0 THEN <<>> ELSE KeepsOn(kept[n - 1], frames[n], kind, stream)]

\* A filter exists, and Without is all that it keeps.
LEMMA WithoutIsLast ==
  ASSUME NEW S, NEW frames \in Seq(S), NEW kind, NEW stream
  PROVE  \E kept : KeptSoFar(frames, kind, stream, kept) /\ Without(frames, kind, stream) = kept[Len(frames)]
  <1> DEFINE step(before, n) == KeepsOn(before, frames[n], kind, stream)
             Upto(n) == \E kept : kept = [i \in 0..n |-> IF i = 0 THEN <<>> ELSE step(kept[i - 1], i)]
             T == {n \in Nat : Upto(n)}
  <1>1. 0 \in T
    <2>1. LET kept == [i \in 0..0 |-> <<>>]
          IN  kept = [i \in 0..0 |-> IF i = 0 THEN <<>> ELSE step(kept[i - 1], i)]
      OBVIOUS
    <2> QED BY <2>1
  <1>2. ASSUME NEW n \in Nat, n \in T PROVE n + 1 \in T
    <2>1. PICK kept : kept = [i \in 0..n |-> IF i = 0 THEN <<>> ELSE step(kept[i - 1], i)]
      BY <1>2
    <2> DEFINE last == step(kept[n], n + 1)
               more == [i \in 0..(n + 1) |-> IF i = n + 1 THEN last ELSE kept[i]]
               next == [i \in 0..(n + 1) |-> IF i = 0 THEN <<>> ELSE step(more[i - 1], i)]
    <2>2. ASSUME NEW i \in 0..(n + 1) PROVE next[i] = more[i]
      <3>1. CASE i = 0 BY <3>1, <2>1
      <3>2. CASE i = n + 1
        <4>1. more[i] = last /\ more[i - 1] = kept[n] BY <3>2
        <4> QED BY <3>2, <4>1
      <3>3. CASE i \in 1..n
        <4>1. kept[i] = step(kept[i - 1], i) BY <3>3, <2>1
        <4>2. more[i] = kept[i] /\ more[i - 1] = kept[i - 1] BY <3>3
        <4> QED BY <3>3, <4>1, <4>2
      <3> QED BY <3>1, <3>2, <3>3
    <2>3. more = [i \in 0..(n + 1) |-> more[i]] /\ next = [i \in 0..(n + 1) |-> next[i]] OBVIOUS
    <2>4. more = next
      <3> HIDE DEF more, next
      <3> QED BY <2>2, <2>3
    <2>5. Upto(n + 1)
      <3>1. more = [i \in 0..(n + 1) |-> IF i = 0 THEN <<>> ELSE step(more[i - 1], i)] BY <2>4
      <3> HIDE DEF more
      <3> QED BY <3>1
    <2> HIDE DEF Upto
    <2> QED BY <2>5
  <1>3. Len(frames) \in T
    <2> HIDE DEF T
    <2>1. \A n \in Nat : n \in T BY <1>1, <1>2, SetInduction
    <2>2. Len(frames) \in Nat OBVIOUS
    <2> QED BY <2>1, <2>2
  <1>4. \E kept : KeptSoFar(frames, kind, stream, kept) BY <1>3 DEF KeptSoFar
  <1>5. KeptSoFar(frames, kind, stream, CHOOSE kept : KeptSoFar(frames, kind, stream, kept)) BY <1>4
  <1>6. Without(frames, kind, stream) = (CHOOSE kept : KeptSoFar(frames, kind, stream, kept))[Len(frames)]
    BY DEF Without, KeptSoFar, KeepsOn
  <1> QED BY <1>5, <1>6

\* Some of the first n frames, in their order.
SomeOf(some, frames, n) ==
  \E at \in [1..Len(some) -> 1..n] :
    /\ \A i \in 1..Len(some) : some[i] = frames[at[i]]
    /\ \A i, j \in 1..Len(some) : i < j => at[i] < at[j]

\* A filter keeps the order, and adds nothing.
LEMMA WithoutIsSome ==
  ASSUME NEW S, NEW frames \in Seq(S), NEW kind, NEW stream
  PROVE  /\ Without(frames, kind, stream) \in Seq(S)
         /\ Len(Without(frames, kind, stream)) <= Len(frames)
         /\ SomeOf(Without(frames, kind, stream), frames, Len(frames))
  <1>1. PICK kept : KeptSoFar(frames, kind, stream, kept) /\ Without(frames, kind, stream) = kept[Len(frames)]
    BY WithoutIsLast
  <1> DEFINE Is(n) == kept[n] \in Seq(S) /\ Len(kept[n]) <= n /\ SomeOf(kept[n], frames, n)
             T == {n \in Nat : n <= Len(frames) => Is(n)}
  <1>2. 0 \in T
    <2>1. kept[0] = <<>> BY <1>1 DEF KeptSoFar
    <2>2. SomeOf(<<>>, frames, 0)
      <3>1. [i \in 1..0 |-> i] \in [1..0 -> 1..0] OBVIOUS
      <3>2. Len(<<>>) = 0 OBVIOUS
      <3>3. \A i \in 1..0 : FALSE OBVIOUS
      <3> QED BY <3>1, <3>2, <3>3 DEF SomeOf
    <2>3. <<>> \in Seq(S) /\ Len(<<>>) <= 0 OBVIOUS
    <2> QED BY <2>1, <2>2, <2>3
  <1>3. ASSUME NEW n \in Nat, n \in T PROVE n + 1 \in T
    <2>1. SUFFICES ASSUME n + 1 <= Len(frames) PROVE Is(n + 1) OBVIOUS
    <2>2. n + 1 \in 0..Len(frames) /\ n + 1 # 0 /\ (n + 1) - 1 = n /\ n + 1 \in 1..Len(frames) BY <2>1
    <2> DEFINE k == kept[n]
               f == frames[n + 1]
    <2>3. kept[n + 1] = k \/ kept[n + 1] = Append(k, f) BY <1>1, <2>2 DEF KeptSoFar, KeepsOn
    <2>4. k \in Seq(S) /\ Len(k) \in Nat /\ Len(k) <= n /\ SomeOf(k, frames, n) BY <1>3, <2>1
    <2>5. f \in S BY <2>2
    <2>6. PICK at \in [1..Len(k) -> 1..n] :
            /\ \A i \in 1..Len(k) : k[i] = frames[at[i]]
            /\ \A i, j \in 1..Len(k) : i < j => at[i] < at[j]
      BY <2>4 DEF SomeOf
    <2> HIDE DEF k
    <2>7. CASE kept[n + 1] = k
      <3>1. at \in [1..Len(k) -> 1..(n + 1)] BY <2>6
      <3>2. SomeOf(k, frames, n + 1) BY <2>6, <3>1 DEF SomeOf
      <3>3. Len(k) <= n + 1 BY <2>4
      <3> QED BY <2>4, <2>7, <3>2, <3>3
    <2>8. CASE kept[n + 1] = Append(k, f)
      <3> DEFINE r == Append(k, f)
                 to == [i \in 1..(Len(k) + 1) |-> IF i = Len(k) + 1 THEN n + 1 ELSE at[i]]
      <3>1. /\ r \in Seq(S) /\ Len(r) = Len(k) + 1 /\ r[Len(k) + 1] = f
            /\ \A i \in 1..Len(k) : r[i] = k[i]
        BY <2>4, <2>5
      <3> HIDE DEF r, f
      <3>2. to \in [1..Len(r) -> 1..(n + 1)] BY <2>4, <2>6, <3>1
      <3>3. ASSUME NEW i \in 1..Len(r) PROVE r[i] = frames[to[i]]
        <4>1. CASE i = Len(k) + 1 BY <2>4, <3>1, <4>1 DEF f
        <4>2. CASE i \in 1..Len(k) BY <2>4, <2>6, <3>1, <4>2
        <4> QED BY <2>4, <3>1, <4>1, <4>2
      <3>4. ASSUME NEW i \in 1..Len(r), NEW j \in 1..Len(r), i < j PROVE to[i] < to[j]
        <4>1. i \in 1..Len(k) BY <2>4, <3>1, <3>4
        <4>2. to[i] = at[i] /\ at[i] \in 1..n BY <2>4, <2>6, <4>1
        <4>3. CASE j = Len(k) + 1 BY <2>4, <4>2, <4>3
        <4>4. CASE j \in 1..Len(k) BY <2>4, <2>6, <3>4, <4>1, <4>2, <4>4
        <4> QED BY <2>4, <3>1, <4>3, <4>4
      <3> HIDE DEF to
      <3>5. SomeOf(r, frames, n + 1) BY <3>2, <3>3, <3>4 DEF SomeOf
      <3>6. Len(r) <= n + 1 BY <2>4, <3>1
      <3> QED BY <2>8, <3>1, <3>5, <3>6 DEF r, f
    <2> QED BY <2>3, <2>7, <2>8
  <1>4. Len(frames) \in T
    <2> HIDE DEF T
    <2> QED BY <1>2, <1>3, SetInduction
  <1> QED BY <1>1, <1>4
-----------------------------------------------------------------------------
(***************************************************************************)
(* The order of what is outbound, and the credit in it.                    *)
(***************************************************************************)
Kinds == {"ack", "event", "started", "stopped", "mic", "credit", "done",
          "busy", "invalid", "refused", "overflow", "audio"}

Frames == [kind : Kinds, stream : Nat, amount : Nat, epoch : Nat]

\* A frame that is made is one.
LEMMA FrameType ==
  ASSUME NEW kind \in Kinds, NEW s \in Nat, NEW n \in Nat, NEW epoch \in Nat
  PROVE  LET f == Frame(kind, s, n, epoch) IN
         f \in Frames /\ f.kind = kind /\ f.stream = s /\ f.amount = n /\ f.epoch = epoch
  <1> DEFINE f == Frame(kind, s, n, epoch)
  <1>1. f = [kind |-> kind, stream |-> s, amount |-> n, epoch |-> epoch] BY DEF Frame
  <1> HIDE DEF f
  <1>2. f.kind = kind /\ f.stream = s /\ f.amount = n /\ f.epoch = epoch BY <1>1
  <1>3. f \in Frames BY <1>1 DEF Frames
  <1> QED BY <1>2, <1>3 DEF f

Out(d) == d.ring \o d.queue

InOrder(q, epoch) ==
  /\ \A i \in 1..Len(q) : q[i].epoch <= epoch
  /\ \A i, j \in 1..Len(q) : i < j => q[i].epoch <= q[j].epoch

NoCredit(q, s) == \A i \in 1..Len(q) : ~(q[i].kind = "credit" /\ q[i].stream = s)

Granting(q, s) == Total([k \in 1..Len(q) |-> Credit(q[k], s)])

\* A sequence that goes on from another.
Longer(a, b) == Len(a) <= Len(b) /\ \A i \in 1..Len(a) : b[i] = a[i]

\* The order of what is outbound outlasts frames that are dropped
LEMMA SomeInOrder ==
  ASSUME NEW a \in Seq(Frames), NEW b \in Seq(Frames), SomeOf(a, b, Len(b))
  PROVE  /\ \A n \in Nat : InOrder(b, n) => InOrder(a, n)
         /\ \A s : NoCredit(b, s) => NoCredit(a, s)
  <1>1. PICK at \in [1..Len(a) -> 1..Len(b)] :
          /\ \A i \in 1..Len(a) : a[i] = b[at[i]]
          /\ \A i, j \in 1..Len(a) : i < j => at[i] < at[j]
    BY DEF SomeOf
  <1> QED BY <1>1 DEF InOrder, NoCredit

\* and frames that follow.
LEMMA LongerInOrder ==
  ASSUME NEW a \in Seq(Frames), NEW b \in Seq(Frames), Longer(a, b), NEW n \in Nat, InOrder(a, n),
         \A i \in (Len(a) + 1)..Len(b) : b[i].epoch = n
  PROVE  InOrder(b, n)
  <1>1. ASSUME NEW i \in 1..Len(b) PROVE (i \in 1..Len(a) /\ b[i] = a[i]) \/ b[i].epoch = n
    BY DEF Longer
  <1>2. Len(a) \in Nat /\ Len(b) \in Nat OBVIOUS
  <1>3. \A i \in 1..Len(b) : b[i].epoch <= n
    <2>1. \A i \in 1..Len(a) : a[i].epoch <= n BY DEF InOrder
    <2> QED BY <1>1, <2>1
  <1>4. ASSUME NEW i \in 1..Len(b), NEW j \in 1..Len(b), i < j PROVE b[i].epoch <= b[j].epoch
    <2>1. CASE j \in 1..Len(a)
      <3>1. i \in 1..Len(a) BY <1>2, <1>4, <2>1
      <3>2. b[i] = a[i] /\ b[j] = a[j] BY <2>1, <3>1 DEF Longer
      <3> QED BY <1>4, <2>1, <3>1, <3>2 DEF InOrder
    <2>2. CASE b[j].epoch = n BY <1>3, <2>2
    <2> QED BY <1>1, <2>1, <2>2
  <1> QED BY <1>3, <1>4 DEF InOrder

\* What each frame is worth.
LEMMA CreditType ==
  ASSUME NEW q \in Seq(Frames), NEW s
  PROVE  LET c == [k \in 1..Len(q) |-> Credit(q[k], s)]
         IN  c \in Seq(Nat) /\ Len(c) = Len(q) /\ \A k \in 1..Len(q) : c[k] = Credit(q[k], s)
  <1> DEFINE c == [k \in 1..Len(q) |-> Credit(q[k], s)]
  <1>1. ASSUME NEW k \in 1..Len(q) PROVE Credit(q[k], s) \in Nat
    <2>1. q[k] \in Frames OBVIOUS
    <2> QED BY <2>1 DEF Credit, Frames
  <1>2. Len(q) \in Nat OBVIOUS
  <1>3. c \in [1..Len(q) -> Nat] BY <1>1
  <1>4. \A k \in 1..Len(q) : c[k] = Credit(q[k], s) OBVIOUS
  <1> HIDE DEF c
  <1>5. c \in Seq(Nat) /\ Len(c) = Len(q) BY <1>2, <1>3
  <1> QED BY <1>4, <1>5 DEF c

\* What all are worth is a number, and nothing if no frame is of the stream.
LEMMA GrantingType ==
  ASSUME NEW q \in Seq(Frames), NEW s
  PROVE  Granting(q, s) \in Nat /\ (NoCredit(q, s) => Granting(q, s) = 0)
  <1> DEFINE c == [k \in 1..Len(q) |-> Credit(q[k], s)]
  <1>1. c \in Seq(Nat) /\ Len(c) = Len(q) /\ \A k \in 1..Len(q) : c[k] = Credit(q[k], s) BY CreditType
  <1>2. Granting(q, s) = Total(c) BY DEF Granting
  <1> HIDE DEF c
  <1>3. ASSUME NoCredit(q, s) PROVE Total(c) = 0
    <2>1. \A k \in 1..Len(c) : c[k] = 0 BY <1>1, <1>3 DEF NoCredit, Credit
    <2> QED BY <1>1, <2>1, TotalNothing
  <1> QED BY <1>1, <1>2, <1>3, TotalType

\* A frame that is sent adds what it is worth,
LEMMA GrantingMore ==
  ASSUME NEW a \in Seq(Frames), NEW b \in Seq(Frames), Longer(a, b), Len(b) = Len(a) + 1, NEW s
  PROVE  Granting(b, s) = Granting(a, s) + Credit(b[Len(b)], s)
  <1> DEFINE c == [k \in 1..Len(a) |-> Credit(a[k], s)]
             e == [k \in 1..Len(b) |-> Credit(b[k], s)]
  <1>1. c \in Seq(Nat) /\ Len(c) = Len(a) /\ \A k \in 1..Len(a) : c[k] = Credit(a[k], s) BY CreditType
  <1>2. e \in Seq(Nat) /\ Len(e) = Len(b) /\ \A k \in 1..Len(b) : e[k] = Credit(b[k], s) BY CreditType
  <1>3. Granting(a, s) = Total(c) /\ Granting(b, s) = Total(e) BY DEF Granting
  <1>4. Len(a) \in Nat OBVIOUS
  <1> HIDE DEF c, e
  <1>5. \A i \in 1..Len(c) : e[i] = c[i] BY <1>1, <1>2, <1>4 DEF Longer
  <1>6. Total(e) = Total(c) + e[Len(e)] BY <1>1, <1>2, <1>5, TotalMore
  <1>7. Len(b) \in 1..Len(b) BY <1>4
  <1> QED BY <1>2, <1>3, <1>6, <1>7

\* one that is read was worth what is gone,
LEMMA GrantingRest ==
  ASSUME NEW q \in Seq(Frames), q # <<>>, NEW s
  PROVE  Granting(q, s) = Credit(Head(q), s) + Granting(Tail(q), s)
  <1> DEFINE t == Tail(q)
             c == [k \in 1..Len(t) |-> Credit(t[k], s)]
             e == [k \in 1..Len(q) |-> Credit(q[k], s)]
  <1>1. /\ t \in Seq(Frames) /\ Len(q) = Len(t) + 1 /\ Len(t) \in Nat /\ Head(q) = q[1]
        /\ \A i \in 1..Len(t) : t[i] = q[i + 1]
    OBVIOUS
  <1>2. e \in Seq(Nat) /\ Len(e) = Len(q) /\ \A k \in 1..Len(q) : e[k] = Credit(q[k], s) BY CreditType
  <1>3. Granting(t, s) = Total(c) /\ Granting(q, s) = Total(e) BY DEF Granting
  <1> HIDE DEF t
  <1>4. c \in Seq(Nat) /\ Len(c) = Len(t) /\ \A k \in 1..Len(t) : c[k] = Credit(t[k], s)
    BY <1>1, CreditType
  <1> HIDE DEF c, e
  <1>5. \A i \in 1..Len(c) : c[i] = e[i + 1]
    <2> SUFFICES ASSUME NEW i \in 1..Len(c) PROVE c[i] = e[i + 1] OBVIOUS
    <2>1. i \in 1..Len(t) /\ i + 1 \in 1..Len(q) BY <1>1, <1>4
    <2> QED BY <1>1, <1>2, <1>4, <2>1
  <1>6. Total(e) = e[1] + Total(c) BY <1>1, <1>2, <1>4, <1>5, TotalFirst
  <1>7. e[1] = Credit(Head(q), s)
    <2>1. 1 \in 1..Len(q) BY <1>1
    <2> QED BY <1>1, <1>2, <2>1
  <1> QED BY <1>3, <1>6, <1>7 DEF t

\* and frames that are worth nothing change nothing.
LEMMA GrantingNoMore ==
  ASSUME NEW a \in Seq(Frames), NEW b \in Seq(Frames), Longer(a, b),
         \A i \in (Len(a) + 1)..Len(b) : b[i].kind # "credit"
  PROVE  /\ \A s : Granting(b, s) = Granting(a, s)
         /\ \A s : NoCredit(a, s) => NoCredit(b, s)
  <1>0. Len(a) \in Nat /\ Len(b) \in Nat /\ Len(a) <= Len(b) BY DEF Longer
  <1>1. ASSUME NEW s PROVE Granting(b, s) = Granting(a, s)
    <2> DEFINE c == [k \in 1..Len(a) |-> Credit(a[k], s)]
               e == [k \in 1..Len(b) |-> Credit(b[k], s)]
    <2>1. c \in Seq(Nat) /\ Len(c) = Len(a) /\ \A k \in 1..Len(a) : c[k] = Credit(a[k], s) BY CreditType
    <2>2. e \in Seq(Nat) /\ Len(e) = Len(b) /\ \A k \in 1..Len(b) : e[k] = Credit(b[k], s) BY CreditType
    <2>3. Granting(a, s) = Total(c) /\ Granting(b, s) = Total(e) BY DEF Granting
    <2> HIDE DEF c, e
    <2>4. \A i \in 1..Len(c) : e[i] = c[i] BY <1>0, <2>1, <2>2 DEF Longer
    <2>5. \A i \in (Len(c) + 1)..Len(e) : e[i] = 0 BY <1>0, <2>1, <2>2 DEF Credit
    <2>6. Len(c) <= Len(e) BY <1>0, <2>1, <2>2
    <2> QED BY <2>1, <2>2, <2>3, <2>4, <2>5, <2>6, TotalZeros
  <1>2. ASSUME NEW s, NoCredit(a, s) PROVE NoCredit(b, s)
    <2>1. ASSUME NEW i \in 1..Len(b) PROVE (i \in 1..Len(a) /\ b[i] = a[i]) \/ b[i].kind # "credit"
      BY <1>0 DEF Longer
    <2> QED BY <1>2, <2>1 DEF NoCredit
  <1> QED BY <1>1, <1>2
-----------------------------------------------------------------------------
(***************************************************************************)
(* What the helpers of the bridge leave outbound.                          *)
(***************************************************************************)
Queues(d) ==
  /\ d.ring \in Seq(Frames) /\ d.queue \in Seq(Frames) /\ d.pending \in Seq(Nat)
  /\ Len(d.ring) <= RingFrames /\ Len(d.queue) <= QueueFrames

\* What is outbound is in the order of the HELLOs, and what is in use or waits
\* is of the last one.
Orderly(d) ==
  /\ Queues(d) /\ InOrder(Out(d), d.epoch)
  /\ \A i \in 1..Len(d.pending) : d.pending[i] = d.epoch
  /\ d.mic # 0 \/ d.spk # 0 \/ d.micLast # 0 => d.since = d.epoch
  /\ d.spk = 0 => d.credit = 0

\* What is not outbound any more of the credit that is outstanding.
Balance(d) == d.credit - Granting(Out(d), d.spk)

\* A helper keeps the balance of the stream, and grants no other stream credit.
Leads(d, e) ==
  /\ e.spk \in {0, d.spk}
  /\ \A s \in Nat \ {0} : s # d.spk /\ NoCredit(Out(d), s) => NoCredit(Out(e), s)
  /\ e.spk # 0 /\ ~e.ended => ~d.ended /\ Balance(e) = Balance(d)

Follows(d, e) == Orderly(e) /\ Leads(d, e)

\* Helper after helper.
LEMMA LeadsOn ==
  ASSUME NEW d, NEW e, NEW f, Leads(d, e), Leads(e, f) PROVE Leads(d, f)
  BY DEF Leads

\* What does nothing is a helper, too.
LEMMA LeadsItself == ASSUME NEW d PROVE Leads(d, d)
  BY DEF Leads

Cat(a, b) == a \o b

\* Two sequences, one after the other.
LEMMA Joined ==
  ASSUME NEW a \in Seq(Frames), NEW b \in Seq(Frames)
  PROVE  /\ Cat(a, b) \in Seq(Frames) /\ Len(Cat(a, b)) = Len(a) + Len(b)
         /\ \A i \in 1..Len(a) : Cat(a, b)[i] = a[i]
         /\ \A i \in 1..Len(b) : Cat(a, b)[Len(a) + i] = b[i]
         /\ \A i \in 1..Len(Cat(a, b)) : i \in 1..Len(a) \/ i - Len(a) \in 1..Len(b)
  <1>1. a \o b \in Seq(Frames) /\ Len(a \o b) = Len(a) + Len(b) /\ Len(a) \in Nat /\ Len(b) \in Nat OBVIOUS
  <1>2. \A i \in 1..Len(a) : (a \o b)[i] = a[i] OBVIOUS
  <1>3. ASSUME NEW i \in 1..Len(b) PROVE (a \o b)[Len(a) + i] = b[i]
    <2>1. Len(a) + i \in 1..Len(a \o b) /\ ~(Len(a) + i <= Len(a)) /\ (Len(a) + i) - Len(a) = i BY <1>1
    <2> QED BY <1>1, <2>1
  <1>4. \A i \in 1..Len(a \o b) : i \in 1..Len(a) \/ i - Len(a) \in 1..Len(b) BY <1>1
  <1> QED BY <1>1, <1>2, <1>3, <1>4 DEF Cat

\* The outbound frames of a bridge.
LEMMA OutFacts ==
  ASSUME NEW d, d.ring \in Seq(Frames), d.queue \in Seq(Frames)
  PROVE  Out(d) \in Seq(Frames) /\ Out(d) = Cat(d.ring, d.queue)
  BY DEF Out, Cat

\* The first elements of a sequence move to the end of the one before it.
LEMMA Moved ==
  ASSUME NEW a \in Seq(Frames), NEW b \in Seq(Frames), NEW n \in 0..Len(b)
  PROVE  LET c == Cat(a, SubSeq(b, 1, n))
             r == SubSeq(b, n + 1, Len(b))
         IN  c \in Seq(Frames) /\ r \in Seq(Frames) /\ Len(c) = Len(a) + n /\ Len(r) = Len(b) - n /\ Cat(c, r) = Cat(a, b)
  <1> DEFINE m == SubSeq(b, 1, n)
             c == Cat(a, m)
             r == SubSeq(b, n + 1, Len(b))
  <1>0. Len(a) \in Nat /\ Len(b) \in Nat /\ n \in Nat /\ n <= Len(b) OBVIOUS
  <1>1. m \in Seq(Frames) /\ Len(m) = n /\ \A i \in 1..n : m[i] = b[i]
    <2>1. \A i \in 1..n : b[i] \in Frames BY <1>0
    <2> QED BY <1>0, <2>1
  <1>2. r \in Seq(Frames) /\ Len(r) = Len(b) - n /\ \A i \in 1..Len(r) : r[i] = b[n + i]
    <2>1. \A i \in (n + 1)..Len(b) : b[i] \in Frames BY <1>0
    <2>2. r \in Seq(Frames) /\ Len(r) = Len(b) - n BY <1>0, <2>1
    <2>3. ASSUME NEW i \in 1..Len(r) PROVE r[i] = b[n + i]
      <3>1. i \in Nat /\ (n + 1) + i - 1 = n + i BY <1>0, <2>2
      <3> QED BY <1>0, <2>2, <3>1
    <2> QED BY <2>2, <2>3
  <1> HIDE DEF m, r
  <1>3. /\ c \in Seq(Frames) /\ Len(c) = Len(a) + n
        /\ \A i \in 1..Len(a) : c[i] = a[i]
        /\ \A i \in 1..n : c[Len(a) + i] = b[i]
    <2>1. /\ c \in Seq(Frames) /\ Len(c) = Len(a) + Len(m)
          /\ \A i \in 1..Len(a) : c[i] = a[i]
          /\ \A i \in 1..Len(m) : c[Len(a) + i] = m[i]
      BY <1>1, Joined
    <2> HIDE DEF c
    <2> QED BY <1>1, <2>1
  <1> HIDE DEF c
  <1>4. /\ Cat(c, r) \in Seq(Frames) /\ Len(Cat(c, r)) = Len(a) + Len(b)
        /\ \A i \in 1..Len(c) : Cat(c, r)[i] = c[i]
        /\ \A i \in 1..Len(r) : Cat(c, r)[Len(c) + i] = b[n + i]
    <2> DEFINE x == Cat(c, r)
    <2>1. /\ x \in Seq(Frames) /\ Len(x) = Len(c) + Len(r)
          /\ \A i \in 1..Len(c) : x[i] = c[i]
          /\ \A i \in 1..Len(r) : x[Len(c) + i] = r[i]
      BY <1>2, <1>3, Joined
    <2> HIDE DEF x
    <2>2. Len(x) = Len(a) + Len(b) BY <1>0, <1>2, <1>3, <2>1
    <2>3. \A i \in 1..Len(r) : x[Len(c) + i] = b[n + i] BY <1>2, <2>1
    <2> QED BY <2>1, <2>2, <2>3 DEF x
  <1>5. /\ Cat(a, b) \in Seq(Frames) /\ Len(Cat(a, b)) = Len(a) + Len(b)
        /\ \A i \in 1..Len(a) : Cat(a, b)[i] = a[i]
        /\ \A i \in 1..Len(b) : Cat(a, b)[Len(a) + i] = b[i]
    BY Joined
  <1> DEFINE x == Cat(c, r)
             y == Cat(a, b)
  <1> HIDE DEF x, y
  <1>6. ASSUME NEW i \in 1..Len(x) PROVE x[i] = y[i]
    <2>1. CASE i \in 1..Len(a)
      <3>1. i \in 1..Len(c) BY <1>0, <1>3, <2>1
      <3> QED BY <1>3, <1>4, <1>5, <2>1, <3>1 DEF x, y
    <2>2. CASE i > Len(a) /\ i <= Len(a) + n
      <3>1. i - Len(a) \in 1..n /\ Len(a) + (i - Len(a)) = i /\ i \in 1..Len(c) /\ i - Len(a) \in 1..Len(b)
        BY <1>0, <1>3, <2>2
      <3>2. x[i] = c[i] BY <1>4, <3>1 DEF x
      <3>3. c[i] = b[i - Len(a)] BY <1>3, <3>1
      <3>4. y[i] = b[i - Len(a)] BY <1>5, <3>1 DEF y
      <3> QED BY <3>2, <3>3, <3>4
    <2>3. CASE i > Len(a) + n
      <3>1. i <= Len(a) + Len(b) BY <1>4 DEF x
      <3>2. i - Len(c) \in 1..Len(r) /\ Len(c) + (i - Len(c)) = i /\ n + (i - Len(c)) = i - Len(a)
            /\ i - Len(a) \in 1..Len(b) /\ Len(a) + (i - Len(a)) = i
        BY <1>0, <1>2, <1>3, <2>3, <3>1
      <3>3. x[i] = b[n + (i - Len(c))] BY <1>4, <3>2 DEF x
      <3>4. y[i] = b[i - Len(a)] BY <1>5, <3>2 DEF y
      <3> QED BY <3>2, <3>3, <3>4
    <2> QED BY <1>0, <1>4, <2>1, <2>2, <2>3 DEF x
  <1>7. x = y
    <2>1. x \in Seq(Frames) /\ y \in Seq(Frames) /\ Len(x) = Len(y) BY <1>4, <1>5 DEF x, y
    <2> QED BY <1>6, <2>1, SeqEqual
  <1> QED BY <1>2, <1>3, <1>7 DEF x, y, c, r, m

\* Room for frames.
LEMMA QueueBounds == RingFrames \in Nat /\ QueueFrames \in Nat
  BY ConstantsAssumption

\* Pumping leaves what is outbound as it is.
LEMMA PumpKeeps ==
  ASSUME NEW d, IsDevice(d), d.ring \in Seq(Frames), d.queue \in Seq(Frames), Len(d.ring) <= RingFrames,
         Len(d.queue) <= QueueFrames + RingFrames - Len(d.ring)
  PROVE  LET e == Pump(d) IN
         /\ Same(d, e) /\ e.pending = d.pending /\ Out(e) = Out(d)
         /\ e.ring \in Seq(Frames) /\ e.queue \in Seq(Frames)
         /\ Len(e.ring) <= RingFrames /\ Len(e.queue) <= QueueFrames
  <1>0. Len(d.queue) \in Nat /\ Len(d.ring) \in Nat /\ RingFrames \in Nat /\ QueueFrames \in Nat
    BY QueueBounds
  <1> DEFINE n == Lesser(Len(d.queue), RingFrames - Len(d.ring))
             r == Cat(d.ring, SubSeq(d.queue, 1, n))
             q == SubSeq(d.queue, n + 1, Len(d.queue))
             e == [d EXCEPT !.ring = r, !.queue = q]
  <1>1. n \in 0..Len(d.queue) /\ Len(d.ring) + n <= RingFrames /\ Len(d.queue) - n <= QueueFrames
    <2> DEFINE a == Len(d.queue)
               b == Len(d.ring)
    <2>1. a \in Nat /\ b \in Nat /\ b <= RingFrames /\ a <= QueueFrames + RingFrames - b /\ n = Lesser(a, RingFrames - b)
      BY <1>0
    <2> HIDE DEF a, b, n
    <2>2. n \in 0..a /\ b + n <= RingFrames /\ a - n <= QueueFrames BY <1>0, <2>1 DEF Lesser
    <2> QED BY <2>2 DEF a, b
  <1>3. Pump(d) = e BY DEF Pump, Cat
  <1> HIDE DEF n
  <1>4. /\ r \in Seq(Frames) /\ q \in Seq(Frames) /\ Len(r) = Len(d.ring) + n /\ Len(q) = Len(d.queue) - n
        /\ Cat(r, q) = Cat(d.ring, d.queue)
    BY <1>1, Moved
  <1> HIDE DEF r, q
  <1>5. /\ e.ring = r /\ e.queue = q /\ e.pending = d.pending
    BY DEF IsDevice, Fields
  <1>6. Same(d, Pump(d)) BY PumpSame
  <1> HIDE DEF e
  <1> QED BY <1>1, <1>3, <1>4, <1>5, <1>6 DEF Out, Cat

\* Frames that follow the queue follow all that is outbound.
LEMMA JoinedOn ==
  ASSUME NEW a \in Seq(Frames), NEW b \in Seq(Frames), NEW c \in Seq(Frames)
  PROVE  LET x == Cat(a, b)
             y == Cat(a, Cat(b, c))
         IN  /\ x \in Seq(Frames) /\ y \in Seq(Frames) /\ Longer(x, y)
             /\ Len(x) = Len(a) + Len(b) /\ Len(y) = Len(x) + Len(c)
             /\ \A i \in 1..Len(c) : y[Len(x) + i] = c[i]
  <1> DEFINE x == Cat(a, b)
             m == Cat(b, c)
             y == Cat(a, m)
  <1>0. Len(a) \in Nat /\ Len(b) \in Nat /\ Len(c) \in Nat OBVIOUS
  <1>1. /\ x \in Seq(Frames) /\ Len(x) = Len(a) + Len(b)
        /\ \A i \in 1..Len(a) : x[i] = a[i]
        /\ \A i \in 1..Len(b) : x[Len(a) + i] = b[i]
    BY Joined
  <1>2. /\ m \in Seq(Frames) /\ Len(m) = Len(b) + Len(c)
        /\ \A i \in 1..Len(b) : m[i] = b[i]
        /\ \A i \in 1..Len(c) : m[Len(b) + i] = c[i]
    BY Joined
  <1> HIDE DEF m
  <1>3. /\ y \in Seq(Frames) /\ Len(y) = Len(a) + Len(m)
        /\ \A i \in 1..Len(a) : y[i] = a[i]
        /\ \A i \in 1..Len(m) : y[Len(a) + i] = m[i]
    BY <1>2, Joined
  <1> HIDE DEF x, y
  <1>4. ASSUME NEW i \in 1..Len(x) PROVE y[i] = x[i]
    <2>1. CASE i \in 1..Len(a) BY <1>1, <1>3, <2>1
    <2>2. CASE i > Len(a)
      <3>1. i - Len(a) \in 1..Len(b) /\ i - Len(a) \in 1..Len(m) /\ Len(a) + (i - Len(a)) = i
        BY <1>0, <1>1, <1>2, <2>2
      <3>2. y[i] = m[i - Len(a)] /\ m[i - Len(a)] = b[i - Len(a)] BY <1>2, <1>3, <3>1
      <3>3. x[i] = b[i - Len(a)] BY <1>1, <3>1
      <3> QED BY <3>2, <3>3
    <2> QED BY <1>0, <1>1, <2>1, <2>2
  <1>5. ASSUME NEW i \in 1..Len(c) PROVE y[Len(x) + i] = c[i]
    <2>1. Len(b) + i \in 1..Len(m) /\ Len(a) + (Len(b) + i) = Len(x) + i BY <1>0, <1>1, <1>2
    <2>2. y[Len(x) + i] = m[Len(b) + i] BY <1>3, <2>1
    <2> QED BY <1>2, <2>2
  <1>6. Longer(x, y) BY <1>0, <1>1, <1>2, <1>3, <1>4 DEF Longer
  <1> QED BY <1>0, <1>1, <1>2, <1>3, <1>5, <1>6 DEF x, y, m

\* What is dropped from the queue is dropped from what is outbound.
LEMMA DropsSome ==
  ASSUME NEW a \in Seq(Frames), NEW b \in Seq(Frames), NEW w \in Seq(Frames), SomeOf(w, b, Len(b))
  PROVE  SomeOf(Cat(a, w), Cat(a, b), Len(Cat(a, b)))
  <1> DEFINE x == Cat(a, w)
             y == Cat(a, b)
  <1>0. Len(a) \in Nat /\ Len(b) \in Nat /\ Len(w) \in Nat OBVIOUS
  <1>1. /\ Len(x) = Len(a) + Len(w)
        /\ \A i \in 1..Len(a) : x[i] = a[i]
        /\ \A i \in 1..Len(w) : x[Len(a) + i] = w[i]
    BY Joined
  <1>2. /\ Len(y) = Len(a) + Len(b)
        /\ \A i \in 1..Len(a) : y[i] = a[i]
        /\ \A i \in 1..Len(b) : y[Len(a) + i] = b[i]
    BY Joined
  <1> HIDE DEF x, y
  <1>3. PICK at \in [1..Len(w) -> 1..Len(b)] :
          /\ \A i \in 1..Len(w) : w[i] = b[at[i]]
          /\ \A i, j \in 1..Len(w) : i < j => at[i] < at[j]
    BY DEF SomeOf
  <1> DEFINE to == [i \in 1..Len(x) |-> IF i <= Len(a) THEN i ELSE Len(a) + at[i - Len(a)]]
  <1>4. ASSUME NEW i \in 1..Len(x)
        PROVE  \/ i <= Len(a) /\ to[i] = i /\ i \in 1..Len(a)
               \/ /\ i > Len(a) /\ i - Len(a) \in 1..Len(w) /\ Len(a) + (i - Len(a)) = i
                  /\ to[i] = Len(a) + at[i - Len(a)] /\ at[i - Len(a)] \in 1..Len(b)
    <2>1. CASE i <= Len(a) BY <1>0, <2>1
    <2>2. CASE ~(i <= Len(a))
      <3>1. i > Len(a) /\ i - Len(a) \in 1..Len(w) /\ Len(a) + (i - Len(a)) = i BY <1>0, <1>1, <2>2
      <3>2. to[i] = Len(a) + at[i - Len(a)] BY <2>2
      <3>3. at[i - Len(a)] \in 1..Len(b) BY <1>3, <3>1
      <3> QED BY <3>1, <3>2, <3>3
    <2> QED BY <2>1, <2>2
  <1>5. to \in [1..Len(x) -> 1..Len(y)]
    <2>1. ASSUME NEW i \in 1..Len(x) PROVE to[i] \in 1..Len(y)
      <3>1. CASE to[i] = i /\ i \in 1..Len(a) BY <1>0, <1>2, <3>1
      <3>2. CASE to[i] = Len(a) + at[i - Len(a)] /\ at[i - Len(a)] \in 1..Len(b)
        <4> DEFINE k == at[i - Len(a)]
        <4>1. k \in 1..Len(b) /\ to[i] = Len(a) + k BY <3>2
        <4> HIDE DEF k, to
        <4> QED BY <1>0, <1>2, <4>1
      <3> QED BY <1>4, <3>1, <3>2
    <2>2. to = [i \in 1..Len(x) |-> to[i]] OBVIOUS
    <2> HIDE DEF to
    <2> QED BY <2>1, <2>2
  <1> HIDE DEF to
  <1>6. ASSUME NEW i \in 1..Len(x) PROVE x[i] = y[to[i]]
    <2>1. CASE i <= Len(a) /\ to[i] = i /\ i \in 1..Len(a) BY <1>1, <1>2, <2>1
    <2>2. CASE /\ i > Len(a) /\ i - Len(a) \in 1..Len(w) /\ Len(a) + (i - Len(a)) = i
               /\ to[i] = Len(a) + at[i - Len(a)] /\ at[i - Len(a)] \in 1..Len(b)
      <3>1. x[i] = w[i - Len(a)] BY <1>1, <2>2
      <3>2. y[to[i]] = b[at[i - Len(a)]] BY <1>2, <2>2
      <3> QED BY <1>3, <2>2, <3>1, <3>2
    <2> QED BY <1>4, <2>1, <2>2
  <1>7. ASSUME NEW i \in 1..Len(x), NEW j \in 1..Len(x), i < j PROVE to[i] < to[j]
    <2>1. CASE j <= Len(a) /\ to[j] = j
      <3>1. to[i] = i BY <1>0, <1>4, <1>7, <2>1
      <3> QED BY <1>7, <2>1, <3>1
    <2>2. CASE /\ j > Len(a) /\ j - Len(a) \in 1..Len(w)
               /\ to[j] = Len(a) + at[j - Len(a)] /\ at[j - Len(a)] \in 1..Len(b)
      <3>1. CASE i <= Len(a) /\ to[i] = i BY <1>0, <2>2, <3>1
      <3>2. CASE /\ i > Len(a) /\ i - Len(a) \in 1..Len(w)
                 /\ to[i] = Len(a) + at[i - Len(a)] /\ at[i - Len(a)] \in 1..Len(b)
        <4>1. i - Len(a) < j - Len(a) BY <1>0, <1>7
        <4>2. at[i - Len(a)] < at[j - Len(a)] BY <1>3, <2>2, <3>2, <4>1
        <4> QED BY <1>0, <2>2, <3>2, <4>2
      <3> QED BY <1>4, <3>1, <3>2
    <2> QED BY <1>4, <2>1, <2>2
  <1>8. SomeOf(x, y, Len(y)) BY <1>5, <1>6, <1>7 DEF SomeOf
  <1> QED BY <1>8 DEF x, y

\* Frames of the last HELLO are sent after the others.
LEMMA GrowsOn ==
  ASSUME NEW d, Orderly(d), d.epoch \in Nat, NEW e, IsDevice(e), e.ring = d.ring,
         NEW more \in Seq(Frames), e.queue = Cat(d.queue, more),
         Len(e.queue) <= QueueFrames + RingFrames - Len(e.ring),
         \A f \in {"epoch", "since", "mic", "micLast", "spk", "credit", "ended"} : e[f] = d[f],
         \A i \in 1..Len(more) : more[i].epoch = d.epoch,
         e.pending \in Seq(Nat), \A i \in 1..Len(e.pending) : e.pending[i] = e.epoch
  PROVE  LET p == Pump(e) IN
         /\ Orderly(p) /\ Longer(Out(d), Out(p)) /\ Len(Out(p)) = Len(Out(d)) + Len(more)
         /\ \A i \in 1..Len(more) : Out(p)[Len(Out(d)) + i] = more[i]
         /\ (\A i \in 1..Len(more) : more[i].kind # "credit") => Leads(d, p)
  <1> DEFINE p == Pump(e)
             x == Out(d)
             y == Out(p)
  <1>0. d.ring \in Seq(Frames) /\ d.queue \in Seq(Frames) /\ Len(d.ring) <= RingFrames BY DEF Orderly, Queues
  <1>1. x = Cat(d.ring, d.queue) BY <1>0, OutFacts
  <1>2. e.queue \in Seq(Frames) BY <1>0, Joined
  <1>3. /\ Same(e, p) /\ p.pending = e.pending /\ y = Out(e)
        /\ p.ring \in Seq(Frames) /\ p.queue \in Seq(Frames)
        /\ Len(p.ring) <= RingFrames /\ Len(p.queue) <= QueueFrames
    BY <1>0, <1>2, PumpKeeps
  <1>4. y = Cat(d.ring, Cat(d.queue, more)) BY <1>2, <1>3, OutFacts DEF Out, Cat
  <1>5. /\ x \in Seq(Frames) /\ y \in Seq(Frames) /\ Longer(x, y)
        /\ Len(y) = Len(x) + Len(more) /\ \A i \in 1..Len(more) : y[Len(x) + i] = more[i]
    <2> DEFINE r == d.ring
               q == d.queue
               a == Cat(r, q)
               c == Cat(r, Cat(q, more))
    <2>0. r \in Seq(Frames) /\ q \in Seq(Frames) /\ x = a /\ y = c BY <1>0, <1>1, <1>4
    <2> HIDE DEF r, q, x, y, p
    <2>1. /\ a \in Seq(Frames) /\ c \in Seq(Frames) /\ Longer(a, c)
          /\ Len(a) = Len(r) + Len(q) /\ Len(c) = Len(a) + Len(more)
          /\ \A i \in 1..Len(more) : c[Len(a) + i] = more[i]
      BY <2>0, JoinedOn
    <2> HIDE DEF a, c
    <2> QED BY <2>0, <2>1
  <1>6. \A f \in {"epoch", "since", "mic", "micLast", "spk", "credit", "ended"} : p[f] = d[f]
    BY <1>3 DEF Same, Fields, Outgoing
  <1>7. x = Out(d) /\ y = Out(p) OBVIOUS
  <1> HIDE DEF p, x, y
  <1>8. ASSUME NEW i \in (Len(x) + 1)..Len(y) PROVE i - Len(x) \in 1..Len(more) /\ y[i] = more[i - Len(x)]
    <2>1. Len(x) \in Nat /\ Len(more) \in Nat BY <1>5
    <2>2. i - Len(x) \in 1..Len(more) /\ Len(x) + (i - Len(x)) = i BY <1>5, <2>1
    <2> QED BY <1>5, <2>2
  <1>9. Orderly(p)
    <2>1. InOrder(x, d.epoch) BY <1>7 DEF Orderly
    <2>2. \A i \in (Len(x) + 1)..Len(y) : y[i].epoch = d.epoch BY <1>8
    <2>3. InOrder(y, d.epoch) BY <1>5, <2>1, <2>2, LongerInOrder
    <2>4. Queues(p) BY <1>3 DEF Queues
    <2> QED BY <1>3, <1>6, <1>7, <2>3, <2>4 DEF Orderly
  <1>10. ASSUME \A i \in 1..Len(more) : more[i].kind # "credit" PROVE Leads(d, p)
    <2>1. \A i \in (Len(x) + 1)..Len(y) : y[i].kind # "credit" BY <1>8, <1>10
    <2>2. /\ \A s : Granting(y, s) = Granting(x, s)
          /\ \A s : NoCredit(x, s) => NoCredit(y, s)
      BY <1>5, <2>1, GrantingNoMore
    <2> QED BY <1>6, <1>7, <2>2 DEF Leads, Balance
  <1> QED BY <1>5, <1>7, <1>9, <1>10 DEF p

\* A frame is sent.
LEMMA SendFollows ==
  ASSUME NEW d, Good(d), Orderly(d), NEW f \in Frames, f.epoch = d.epoch
  PROVE  /\ Orderly(Send(d, f))
         /\ ~Fits(d) => Send(d, f) = d
         /\ Fits(d) => /\ Longer(Out(d), Out(Send(d, f))) /\ Len(Out(Send(d, f))) = Len(Out(d)) + 1
                       /\ Out(Send(d, f))[Len(Out(d)) + 1] = f
         /\ f.kind # "credit" => Leads(d, Send(d, f))
  <1>1. CASE ~Fits(d) BY <1>1, LeadsItself DEF Send
  <1>2. CASE Fits(d)
    <2> DEFINE e == [d EXCEPT !.queue = Append(@, f)]
               more == <<f>>
    <2>1. Send(d, f) = Pump(e) BY <1>2 DEF Send
    <2>2. d.queue \in Seq(Frames) /\ d.ring \in Seq(Frames) /\ d.pending \in Seq(Nat) /\ d.epoch \in Nat
          /\ Len(d.ring) <= RingFrames
      BY DEF Orderly, Queues, Good, DeviceTypes
    <2>3. /\ IsDevice(e) /\ e.queue = Append(d.queue, f)
          /\ \A g \in Fields \ {"queue"} : e[g] = d[g]
      BY DEF Good, IsDevice, Fields
    <2>4. e.queue = Cat(d.queue, more) /\ Len(e.queue) = Len(d.queue) + 1
      BY <2>2, <2>3 DEF Cat
    <2>5. more \in Seq(Frames) /\ Len(more) = 1 /\ more[1] = f OBVIOUS
    <2> HIDE DEF e, more
    <2>6. Len(e.queue) <= QueueFrames + RingFrames - Len(e.ring)
      <3>1. Len(d.queue) \in Nat /\ Len(d.ring) \in Nat BY <2>2
      <3>2. e.ring = d.ring BY <2>3 DEF Fields
      <3>3. Len(d.queue) < QueueFrames BY <1>2 DEF Fits
      <3> QED BY <2>2, <2>4, <3>1, <3>2, <3>3, QueueBounds
    <2>7. /\ e.ring = d.ring /\ e.pending = d.pending
          /\ \A g \in {"epoch", "since", "mic", "micLast", "spk", "credit", "ended"} : e[g] = d[g]
      BY <2>3 DEF Fields
    <2>8. \A i \in 1..Len(e.pending) : e.pending[i] = e.epoch BY <2>7 DEF Orderly
    <2>9. \A i \in 1..Len(more) : more[i] = f BY <2>5
    <2>n. \A i \in 1..Len(more) : more[i].epoch = d.epoch BY <2>9
    <2>m. e.pending \in Seq(Nat) BY <2>2, <2>7
    <2>l. IsDevice(e) /\ e.ring = d.ring BY <2>3, <2>7
    <2>10. LET p == Pump(e) IN
           /\ Orderly(p) /\ Longer(Out(d), Out(p)) /\ Len(Out(p)) = Len(Out(d)) + Len(more)
           /\ \A i \in 1..Len(more) : Out(p)[Len(Out(d)) + i] = more[i]
           /\ (\A i \in 1..Len(more) : more[i].kind # "credit") => Leads(d, p)
      BY <2>l, <2>m, <2>n, <2>2, <2>4, <2>5, <2>6, <2>7, <2>8, GrowsOn
    <2> QED BY <1>2, <2>1, <2>5, <2>9, <2>10
  <1> QED BY <1>1, <1>2

\* What was outbound still is.
LEMMA OutKept ==
  ASSUME NEW d, Orderly(d), NEW e, Queues(e), Out(e) = Out(d), e.pending = d.pending,
         \A f \in {"epoch", "since", "mic", "micLast", "spk", "credit", "ended"} : e[f] = d[f]
  PROVE  Follows(d, e)
  BY DEF Orderly, Leads, Follows, Balance

\* The events that waited are sent while there is room.
LEMMA FlushFollows ==
  ASSUME NEW d, Good(d), Orderly(d)
  PROVE  Follows(d, Flush(d))
  <1>0. /\ d.queue \in Seq(Frames) /\ d.ring \in Seq(Frames) /\ d.pending \in Seq(Nat) /\ d.epoch \in Nat
        /\ Len(d.ring) <= RingFrames /\ Len(d.queue) <= QueueFrames
        /\ Len(d.queue) \in Nat /\ Len(d.ring) \in Nat /\ IsDevice(d)
    BY DEF Orderly, Queues, Good, DeviceTypes
  <1>a. Len(d.queue) <= QueueFrames + RingFrames - Len(d.ring)
    <2> DEFINE a == Len(d.queue)
               b == Len(d.ring)
    <2>1. a \in Nat /\ b \in Nat /\ a <= QueueFrames /\ b <= RingFrames BY <1>0
    <2> HIDE DEF a, b
    <2>2. a <= QueueFrames + RingFrames - b BY <2>1, QueueBounds
    <2> QED BY <2>2 DEF a, b
  <1> DEFINE p == Pump(d)
             n == Lesser(Len(p.pending), QueueFrames - Len(p.queue) + RingFrames - Len(p.ring))
             sent == [k \in 1..n |-> Frame("event", 0, 0, p.pending[k])]
             q == p.queue \o sent
             r == SubSeq(p.pending, n + 1, Len(p.pending))
             e == [p EXCEPT !.queue = q, !.pending = r]
  <1>1. Flush(d) = Pump(e) BY DEF Flush
  <1>2. /\ Same(d, p) /\ p.pending = d.pending /\ Out(p) = Out(d)
        /\ p.ring \in Seq(Frames) /\ p.queue \in Seq(Frames)
        /\ Len(p.ring) <= RingFrames /\ Len(p.queue) <= QueueFrames
    BY <1>0, <1>a, PumpKeeps
  <1> HIDE DEF p
  <1>3. Follows(d, p) /\ IsDevice(p) /\ p.epoch \in Nat
    <2>1. Queues(p) BY <1>0, <1>2 DEF Queues
    <2>2. \A f \in {"epoch", "since", "mic", "micLast", "spk", "credit", "ended"} : p[f] = d[f]
      BY <1>2 DEF Same, Fields, Outgoing
    <2>3. IsDevice(p) BY <1>2 DEF Same
    <2> QED BY <1>0, <1>2, <2>1, <2>2, <2>3, OutKept
  <1>4. n \in 0..Len(p.pending) /\ Len(p.queue) + n <= QueueFrames + RingFrames - Len(p.ring)
    <2> DEFINE a == Len(p.pending)
               b == Len(p.queue)
               c == Len(p.ring)
    <2>1. a \in Nat /\ b \in Nat /\ c \in Nat /\ b <= QueueFrames /\ c <= RingFrames BY <1>0, <1>2
    <2>2. n = Lesser(a, QueueFrames - b + RingFrames - c) OBVIOUS
    <2> HIDE DEF a, b, c, n
    <2>3. n \in 0..a /\ b + n <= QueueFrames + RingFrames - c BY <2>1, <2>2, QueueBounds DEF Lesser
    <2> QED BY <2>3 DEF a, b, c
  <1> HIDE DEF n
  <1>5. p.pending \in Seq(Nat) /\ \A i \in 1..Len(p.pending) : p.pending[i] = p.epoch
    BY <1>0, <1>2, <1>3 DEF Follows, Orderly
  <1>6. ASSUME NEW k \in 1..n PROVE sent[k] \in Frames /\ sent[k].epoch = p.epoch /\ sent[k].kind # "credit"
    <2>1. k \in 1..Len(p.pending) BY <1>4, <1>5
    <2>2. p.pending[k] = p.epoch BY <1>5, <2>1
    <2>3. sent[k] = Frame("event", 0, 0, p.epoch) BY <2>2
    <2>4. Frame("event", 0, 0, p.epoch) \in Frames /\ Frame("event", 0, 0, p.epoch).epoch = p.epoch
          /\ Frame("event", 0, 0, p.epoch).kind = "event"
      <3>1. "event" \in Kinds BY DEF Kinds
      <3> QED BY <1>3, <3>1, FrameType
    <2> HIDE DEF sent
    <2> QED BY <2>3, <2>4
  <1>7. sent \in Seq(Frames) /\ Len(sent) = n
    <2>1. sent = [k \in 1..n |-> sent[k]] OBVIOUS
    <2>2. n \in Nat BY <1>4
    <2> HIDE DEF sent
    <2>3. sent \in [1..n -> Frames] BY <1>6, <2>1
    <2> QED BY <2>2, <2>3
  <1>8. r \in Seq(Nat) /\ \A i \in 1..Len(r) : r[i] = p.epoch
    <2> DEFINE w == p.pending
    <2>1. w \in Seq(Nat) /\ n \in 0..Len(w) /\ \A i \in 1..Len(w) : w[i] = p.epoch BY <1>4, <1>5
    <2> HIDE DEF w
    <2>2. \A i \in (n + 1)..Len(w) : w[i] \in Nat BY <2>1
    <2>3. SubSeq(w, n + 1, Len(w)) \in Seq(Nat) /\ Len(SubSeq(w, n + 1, Len(w))) = Len(w) - n
      BY <2>1, <2>2
    <2>4. ASSUME NEW i \in 1..(Len(w) - n) PROVE SubSeq(w, n + 1, Len(w))[i] = p.epoch
      <3>1. n + i \in 1..Len(w) /\ (n + 1) + i - 1 = n + i BY <2>1
      <3>2. SubSeq(w, n + 1, Len(w))[i] = w[n + i] BY <2>1, <3>1
      <3> QED BY <2>1, <3>1, <3>2
    <2> QED BY <2>3, <2>4 DEF w
  <1> HIDE DEF sent
  <1>9. q = Cat(p.queue, sent) /\ Len(q) = Len(p.queue) + n
    <2>1. Len(Cat(p.queue, sent)) = Len(p.queue) + Len(sent) BY <1>2, <1>7, Joined
    <2> QED BY <1>7, <2>1 DEF Cat
  <1> HIDE DEF q, r
  <1>10. /\ IsDevice(e) /\ e.queue = q /\ e.pending = r
         /\ \A f \in Fields \ {"queue", "pending"} : e[f] = p[f]
    BY <1>3 DEF IsDevice, Fields
  <1> HIDE DEF e
  <1>11. /\ e.ring = p.ring /\ \A f \in {"epoch", "since", "mic", "micLast", "spk", "credit", "ended"} : e[f] = p[f]
    BY <1>10 DEF Fields
  <1>12. Follows(p, Pump(e))
    <2>1. Orderly(p) BY <1>3 DEF Follows
    <2>2. e.queue = Cat(p.queue, sent) /\ Len(e.queue) <= QueueFrames + RingFrames - Len(e.ring)
      BY <1>4, <1>9, <1>10, <1>11
    <2>3. e.pending \in Seq(Nat) /\ \A i \in 1..Len(e.pending) : e.pending[i] = e.epoch
      BY <1>8, <1>10, <1>11
    <2>4. \A i \in 1..Len(sent) : sent[i].epoch = p.epoch BY <1>6, <1>7
    <2>5. \A i \in 1..Len(sent) : sent[i].kind # "credit" BY <1>6, <1>7
    <2>6. Orderly(Pump(e)) /\ ((\A i \in 1..Len(sent) : sent[i].kind # "credit") => Leads(p, Pump(e)))
      BY <1>3, <1>7, <1>10, <1>11, <2>1, <2>2, <2>3, <2>4, GrowsOn
    <2> QED BY <2>5, <2>6 DEF Follows
  <1> QED BY <1>1, <1>3, <1>12, LeadsOn DEF Follows

\* Frames of the queue are dropped.
LEMMA Dropping ==
  ASSUME NEW d, Orderly(d), d.epoch \in Nat, NEW e, e.ring = d.ring, e.queue \in Seq(Frames),
         Len(e.queue) <= Len(d.queue), SomeOf(e.queue, d.queue, Len(d.queue)), e.pending \in Seq(Nat)
  PROVE  /\ Queues(e) /\ InOrder(Out(e), d.epoch)
         /\ \A s : NoCredit(Out(d), s) => NoCredit(Out(e), s)
  <1>0. /\ d.queue \in Seq(Frames) /\ d.ring \in Seq(Frames) /\ Len(d.ring) <= RingFrames
        /\ Len(d.queue) <= QueueFrames /\ InOrder(Out(d), d.epoch)
    BY DEF Orderly, Queues
  <1>1. Out(e) = Cat(d.ring, e.queue) /\ Out(d) = Cat(d.ring, d.queue) BY DEF Out, Cat
  <1>2. SomeOf(Cat(d.ring, e.queue), Cat(d.ring, d.queue), Len(Cat(d.ring, d.queue))) BY <1>0, DropsSome
  <1>3. Out(e) \in Seq(Frames) /\ Out(d) \in Seq(Frames) BY <1>0, OutFacts
  <1>4. SomeOf(Out(e), Out(d), Len(Out(d))) BY <1>1, <1>2
  <1>5. /\ InOrder(Out(e), d.epoch)
        /\ \A s : NoCredit(Out(d), s) => NoCredit(Out(e), s)
    BY <1>0, <1>3, <1>4, SomeInOrder
  <1>6. Len(e.queue) <= QueueFrames
    <2>1. Len(e.queue) \in Nat /\ Len(d.queue) \in Nat BY <1>0
    <2> QED BY <1>0, <2>1, QueueBounds
  <1> QED BY <1>0, <1>5, <1>6 DEF Queues

\* So are those of a stream.
LEMMA WithoutDrops ==
  ASSUME NEW q \in Seq(Frames), NEW kind, NEW s
  PROVE  /\ Without(q, kind, s) \in Seq(Frames) /\ Len(Without(q, kind, s)) <= Len(q)
         /\ SomeOf(Without(q, kind, s), q, Len(q))
  BY WithoutIsSome

\* The microphone is stopped.
LEMMA StopMicrophoneFollows ==
  ASSUME NEW d, Good(d), Orderly(d)
  PROVE  LET e == StopMicrophone(d) IN
         /\ Orderly(e) /\ e.spk = d.spk /\ (d.spk = 0 => Leads(d, e))
         /\ \A s : NoCredit(Out(d), s) => NoCredit(Out(e), s)
  <1> DEFINE q == Without(d.queue, "mic", d.mic)
             l == IF d.mic # 0 THEN d.mic ELSE d.micLast
             e == [d EXCEPT !.micLast = l, !.mic = 0, !.input = "closed", !.queue = q]
  <1>1. StopMicrophone(d) = e BY DEF StopMicrophone
  <1>2. /\ d.queue \in Seq(Frames) /\ d.pending \in Seq(Nat) /\ d.epoch \in Nat
    BY DEF Orderly, Queues, Good, DeviceTypes
  <1>3. q \in Seq(Frames) /\ Len(q) <= Len(d.queue) /\ SomeOf(q, d.queue, Len(d.queue)) BY <1>2, WithoutDrops
  <1>4. l # 0 => d.mic # 0 \/ d.micLast # 0 OBVIOUS
  <1> HIDE DEF q, l
  <1>5. /\ e.micLast = l /\ e.mic = 0 /\ e.queue = q
        /\ \A f \in {"ring", "pending", "epoch", "since", "spk", "credit", "ended"} : e[f] = d[f]
    BY DEF Good, IsDevice, Fields
  <1> HIDE DEF e
  <1>6. /\ Queues(e) /\ InOrder(Out(e), d.epoch)
        /\ \A s : NoCredit(Out(d), s) => NoCredit(Out(e), s)
    BY <1>2, <1>3, <1>5, Dropping
  <1>7. Orderly(e) BY <1>4, <1>5, <1>6 DEF Orderly
  <1>8. d.spk = 0 => Leads(d, e) BY <1>5, <1>6 DEF Leads
  <1> QED BY <1>1, <1>5, <1>6, <1>7, <1>8

\* The speaker is stopped.
LEMMA StopSpeakerFollows ==
  ASSUME NEW d, Good(d), Orderly(d)
  PROVE  /\ Follows(d, StopSpeaker(d)) /\ StopSpeaker(d).spk = 0
         /\ \A s : NoCredit(Out(d), s) => NoCredit(Out(StopSpeaker(d)), s)
  <1> DEFINE q == Without(d.queue, "credit", d.spk)
             l == IF d.spk # 0 THEN d.spk ELSE d.spkLast
             e == [d EXCEPT !.spkLast = l, !.spk = 0, !.ended = FALSE, !.output = "closed",
                            !.pcm = 0, !.credit = 0, !.expected = 0, !.queue = q]
  <1>1. StopSpeaker(d) = e BY DEF StopSpeaker
  <1>2. /\ d.queue \in Seq(Frames) /\ d.pending \in Seq(Nat) /\ d.epoch \in Nat
    BY DEF Orderly, Queues, Good, DeviceTypes
  <1>3. q \in Seq(Frames) /\ Len(q) <= Len(d.queue) /\ SomeOf(q, d.queue, Len(d.queue)) BY <1>2, WithoutDrops
  <1> HIDE DEF q, l
  <1>5. /\ e.spk = 0 /\ e.queue = q /\ e.credit = 0
        /\ \A f \in {"ring", "pending", "epoch", "since", "mic", "micLast"} : e[f] = d[f]
    BY DEF Good, IsDevice, Fields
  <1> HIDE DEF e
  <1>6. /\ Queues(e) /\ InOrder(Out(e), d.epoch)
        /\ \A s : NoCredit(Out(d), s) => NoCredit(Out(e), s)
    BY <1>2, <1>3, <1>5, Dropping
  <1>7. Orderly(e) BY <1>5, <1>6 DEF Orderly
  <1>8. Leads(d, e) BY <1>5, <1>6 DEF Leads
  <1> QED BY <1>1, <1>5, <1>6, <1>7, <1>8 DEF Follows

\* Credit is granted: what is outstanding grows by what is sent.
LEMMA RefreshCreditFollows ==
  ASSUME NEW d, Good(d), Orderly(d)
  PROVE  Follows(d, RefreshCredit(d))
  <1> DEFINE more == Lesser(Window, Capacity - d.pcm) - d.credit
             f == Frame("credit", d.spk, more, d.since)
             g == Send(d, f)
             e == [g EXCEPT !.credit = @ + more]
  <1>1. CASE d.spk = 0 \/ d.ended \/ more <= 0 \/ ~Fits(d)
    BY <1>1, LeadsItself DEF RefreshCredit, Follows
  <1>2. CASE ~(d.spk = 0 \/ d.ended \/ more <= 0 \/ ~Fits(d))
    <2>1. RefreshCredit(d) = e BY <1>2 DEF RefreshCredit
    <2>2. more \in Nat BY <1>2, Bounds DEF Good, DeviceTypes, Lesser
    <2>3. Fits(d) /\ d.spk # 0 /\ ~d.ended BY <1>2
    <2> HIDE DEF more
    <2>4. d.spk \in Nat /\ d.since \in Nat /\ d.epoch \in Nat /\ d.credit \in Nat /\ d.since = d.epoch
      BY <2>3, Bounds DEF Good, DeviceTypes, Orderly
    <2>5. f \in Frames /\ f.epoch = d.epoch /\ f.kind = "credit" /\ f.stream = d.spk /\ f.amount = more
      <3>1. "credit" \in Kinds BY DEF Kinds
      <3> QED BY <2>2, <2>4, <3>1, FrameType
    <2> HIDE DEF f
    <2>6. /\ Orderly(g) /\ Longer(Out(d), Out(g)) /\ Len(Out(g)) = Len(Out(d)) + 1
          /\ Out(g)[Len(Out(d)) + 1] = f
      BY <2>3, <2>5, SendFollows
    <2>7. Same(d, g) BY SendSame DEF Good
    <2> HIDE DEF g
    <2>8. /\ IsDevice(e) /\ e.credit = g.credit + more
          /\ \A h \in Fields \ {"credit"} : e[h] = g[h]
      BY <2>7 DEF Same, IsDevice, Fields
    <2>9. \A h \in {"epoch", "since", "mic", "micLast", "spk", "credit", "ended"} : g[h] = d[h]
      BY <2>7 DEF Same, Fields, Outgoing
    <2>10. /\ \A h \in {"ring", "queue", "pending"} : e[h] = g[h]
           /\ \A h \in {"epoch", "since", "mic", "micLast", "spk", "ended"} : e[h] = d[h]
           /\ e.credit = d.credit + more
      BY <2>8, <2>9 DEF Fields
    <2> HIDE DEF e
    <2>11. Out(e) = Out(g) BY <2>10 DEF Out
    <2>12. Orderly(e) BY <2>3, <2>6, <2>9, <2>10, <2>11 DEF Orderly, Queues
    <2> DEFINE x == Out(d)
               y == Out(e)
    <2>13. /\ x \in Seq(Frames) /\ y \in Seq(Frames) /\ Longer(x, y) /\ Len(y) = Len(x) + 1
           /\ y[Len(x) + 1] = f
      BY <2>6, <2>11, <2>12, OutFacts DEF Orderly, Queues
    <2>14. x = Out(d) /\ y = Out(e) OBVIOUS
    <2> HIDE DEF x, y
    <2>15. Granting(y, d.spk) = Granting(x, d.spk) + more
      <3>1. Granting(y, d.spk) = Granting(x, d.spk) + Credit(y[Len(y)], d.spk) BY <2>13, GrantingMore
      <3> QED BY <2>5, <2>13, <3>1 DEF Credit
    <2>16. ASSUME NEW s \in Nat, s # d.spk, NoCredit(x, s) PROVE NoCredit(y, s)
      <3>1. \A i \in 1..Len(y) : i \in 1..Len(x) \/ i = Len(x) + 1
        <4>1. Len(x) \in Nat BY <2>13
        <4> QED BY <2>13, <4>1
      <3>2. ~(y[Len(x) + 1].stream = s) BY <2>5, <2>13, <2>16
      <3> QED BY <2>13, <2>16, <3>1, <3>2 DEF NoCredit, Longer
    <2>17. Balance(e) = Balance(d)
      <3>1. Granting(x, d.spk) \in Nat BY <2>13, GrantingType
      <3>2. e.credit - Granting(y, e.spk) = d.credit - Granting(x, d.spk) BY <2>2, <2>4, <2>10, <2>15, <3>1
      <3> QED BY <2>14, <3>2 DEF Balance
    <2>18. Leads(d, e) BY <2>3, <2>10, <2>14, <2>16, <2>17 DEF Leads
    <2> QED BY <2>1, <2>12, <2>18 DEF Follows
  <1> QED BY <1>1, <1>2

\* Other fields are of no concern to what is outbound.
LEMMA FieldsKept ==
  ASSUME NEW d, Orderly(d), NEW e,
         \A f \in {"ring", "queue", "pending", "epoch", "since", "mic", "micLast", "spk", "credit"} : e[f] = d[f]
  PROVE  Orderly(e) /\ Out(e) = Out(d) /\ (e.ended = d.ended \/ e.ended = TRUE => Leads(d, e))
  <1>1. Out(e) = Out(d) BY DEF Out
  <1>2. Orderly(e) BY <1>1 DEF Orderly, Queues
  <1>3. e.ended = d.ended \/ e.ended = TRUE => Leads(d, e) BY <1>1 DEF Leads, Balance
  <1> QED BY <1>1, <1>2, <1>3

\* The output opens.
LEMMA MaybeStartFollows ==
  ASSUME NEW d, Good(d), Orderly(d)
  PROVE  Follows(d, MaybeStart(d))
  <1> DEFINE e == [d EXCEPT !.output = "open"]
  <1>1. MaybeStart(d) = d \/ MaybeStart(d) = e BY DEF MaybeStart
  <1>2. \A f \in Fields \ {"output"} : e[f] = d[f] BY DEF Good, IsDevice, Fields
  <1> HIDE DEF e
  <1>3. Orderly(e) /\ Leads(d, e) BY <1>2, FieldsKept DEF Fields
  <1> QED BY <1>1, <1>3, LeadsItself DEF Follows

\* The output takes what it plays.
LEMMA PollFollows ==
  ASSUME NEW d, Good(d), Orderly(d), NEW n \in Nat
  PROVE  Follows(d, Poll(d, n))
  <1> DEFINE left == d.pcm - Lesser(n, d.pcm)
             o == IF d.ended /\ left = 0 THEN "draining" ELSE "open"
             e == [d EXCEPT !.pcm = left, !.output = o]
  <1>1. CASE d.output # "open" \/ n = 0 BY <1>1, LeadsItself DEF Poll, Follows
  <1>2. CASE ~(d.output # "open" \/ n = 0)
    <2>1. Poll(d, n) = RefreshCredit(e) BY <1>2 DEF Poll
    <2>2. left \in 0..Capacity /\ left <= d.pcm BY Bounds DEF Good, DeviceTypes, Lesser
    <2>3. o \in {"draining", "open"} OBVIOUS
    <2> HIDE DEF left, o
    <2>4. /\ IsDevice(e) /\ e.pcm = left /\ e.output = o /\ \A f \in Fields \ {"pcm", "output"} : e[f] = d[f]
      BY DEF Good, IsDevice, Fields
    <2> HIDE DEF e
    <2>5. Good(e) BY <1>2, <2>2, <2>3, <2>4, Bounds DEF Good, Fields, DeviceTypes, Duplex, Room
    <2>6. Orderly(e) /\ Leads(d, e) BY <2>4, FieldsKept DEF Fields
    <2>7. Follows(e, RefreshCredit(e)) BY <2>5, <2>6, RefreshCreditFollows
    <2> QED BY <2>1, <2>6, <2>7, LeadsOn DEF Follows
  <1> QED BY <1>1, <1>2

\* Nothing is in use any more.
LEMMA StopBothFollows ==
  ASSUME NEW d, Good(d), Orderly(d)
  PROVE  LET b == StopSpeaker(StopMicrophone(d)) IN Follows(d, b) /\ b.spk = 0 /\ b.mic = 0
  <1> DEFINE m == StopMicrophone(d)
             b == StopSpeaker(m)
  <1>1. /\ Good(m) /\ Orderly(m) /\ \A s : NoCredit(Out(d), s) => NoCredit(Out(m), s)
    BY StopMicrophoneGood, StopMicrophoneFollows
  <1>2. Good(b) /\ b.mic = 0 BY StopBothGood
  <1> HIDE DEF m
  <1>3. /\ Orderly(b) /\ b.spk = 0 /\ \A s : NoCredit(Out(m), s) => NoCredit(Out(b), s)
    BY <1>1, StopSpeakerFollows DEF Follows
  <1> HIDE DEF b
  <1>4. Leads(d, b) BY <1>1, <1>3 DEF Leads
  <1> QED BY <1>2, <1>3, <1>4 DEF Follows, b, m

\* The stream of the speaker is over.
LEMMA CompleteSpeakerFollows ==
  ASSUME NEW d, Good(d), Orderly(d), d.spk # 0
  PROVE  Follows(d, CompleteSpeaker(d))
  <1> DEFINE e == StopSpeaker(d)
             f == Frame("done", d.spk, 0, d.since)
  <1>1. Good(e) /\ Follows(d, e) /\ e.epoch = d.epoch BY StopSpeakerGood, StopSpeakerFollows
  <1>2. f \in Frames /\ f.epoch = d.epoch /\ f.kind # "credit"
    <2>1. "done" \in Kinds BY DEF Kinds
    <2>2. d.spk \in Nat /\ d.since \in Nat /\ d.since = d.epoch BY DEF Good, DeviceTypes, Orderly
    <2> QED BY <2>1, <2>2, FrameType
  <1>3. CompleteSpeaker(d) = Send(e, f) BY DEF CompleteSpeaker
  <1> HIDE DEF e, f
  <1>4. Orderly(e) /\ Leads(d, e) BY <1>1 DEF Follows
  <1>5. Orderly(Send(e, f)) /\ Leads(e, Send(e, f)) BY <1>1, <1>2, <1>4, SendFollows
  <1> QED BY <1>3, <1>4, <1>5, LeadsOn DEF Follows

\* A frame of the last HELLO that grants nothing.
LEMMA SendPlain ==
  ASSUME NEW d, Good(d), Orderly(d), NEW kind \in Kinds \ {"credit"}, NEW s \in Nat, NEW epoch, epoch = d.epoch
  PROVE  Follows(d, Send(d, Frame(kind, s, 0, epoch)))
  <1> DEFINE f == Frame(kind, s, 0, epoch)
  <1>1. d.epoch \in Nat BY DEF Good, DeviceTypes
  <1>2. f \in Frames /\ f.epoch = d.epoch /\ f.kind # "credit" BY <1>1, FrameType
  <1> HIDE DEF f
  <1> QED BY <1>2, SendFollows DEF f, Follows

\* So is an error.
LEMMA SendErrorFollows ==
  ASSUME NEW d, Good(d), Orderly(d), NEW code \in Kinds \ {"credit"}, NEW s \in Nat
  PROVE  Follows(d, SendError(d, code, s))
  <1>1. [Frame("error", s, 0, d.epoch) EXCEPT !.kind = code] = Frame(code, s, 0, d.epoch) BY DEF Frame
  <1> QED BY <1>1, SendPlain DEF SendError

\* A connection is found or lost.
LEMMA ResetFollows ==
  ASSUME NEW d, Good(d), Orderly(d)
  PROVE  Follows(d, ResetConnection(d))
  <1> DEFINE b == StopSpeaker(StopMicrophone(d))
             e == [b EXCEPT !.micLast = 0, !.peer = FALSE, !.pending = <<>>, !.queue = <<>>]
  <1>1. ResetConnection(d) = e BY DEF ResetConnection
  <1>2. Good(b) /\ Follows(d, b) /\ b.spk = 0 /\ b.mic = 0 BY StopBothGood, StopBothFollows
  <1> HIDE DEF b
  <1>3. /\ e.micLast = 0 /\ e.queue = <<>> /\ e.pending = <<>>
        /\ \A f \in {"ring", "epoch", "since", "mic", "spk", "credit", "ended"} : e[f] = b[f]
    BY <1>2 DEF Good, IsDevice, Fields
  <1> HIDE DEF e
  <1>4. b.queue \in Seq(Frames) /\ b.epoch \in Nat /\ Orderly(b)
    BY <1>2 DEF Follows, Orderly, Queues, Good, DeviceTypes
  <1>5. SomeOf(<<>>, b.queue, Len(b.queue))
    <2>1. Len(<<>>) = 0 /\ (\A i \in 1..0 : FALSE) OBVIOUS
    <2>2. [i \in 1..0 |-> i] \in [1..0 -> 1..Len(b.queue)] BY <2>1
    <2> QED BY <2>1, <2>2 DEF SomeOf
  <1>6. e.queue \in Seq(Frames) /\ Len(e.queue) <= Len(b.queue) /\ e.pending \in Seq(Nat) /\ Len(e.pending) = 0
    BY <1>3, <1>4
  <1>7. /\ Queues(e) /\ InOrder(Out(e), b.epoch)
        /\ \A s : NoCredit(Out(b), s) => NoCredit(Out(e), s)
    BY <1>3, <1>4, <1>5, <1>6, Dropping
  <1>8. Orderly(e)
    <2>1. \A i \in 1..Len(e.pending) : e.pending[i] = e.epoch BY <1>6
    <2> QED BY <1>2, <1>3, <1>4, <1>7, <2>1 DEF Orderly
  <1>9. Leads(b, e) BY <1>2, <1>3, <1>7 DEF Leads
  <1> QED BY <1>1, <1>2, <1>8, <1>9, LeadsOn DEF Follows

\* The connection is looked at.
LEMMA RefreshedFollows ==
  ASSUME NEW d, Good(d), Orderly(d), NEW e \in Refreshed(d)
  PROVE  Follows(d, e)
  <1>1. ASSUME NEW b, Good(b), Follows(d, b), NEW x,
               \/ \E m : x = [b EXCEPT !.missing = m]
               \/ \E c : x = [b EXCEPT !.connected = c, !.missing = FALSE]
        PROVE  Follows(d, x)
    <2>1. \A f \in Fields \ {"connected", "missing"} : x[f] = b[f] BY <1>1 DEF Good, IsDevice, Fields
    <2>2. Orderly(b) BY <1>1 DEF Follows
    <2>3. Orderly(x) /\ Leads(b, x) BY <2>1, <2>2, FieldsKept DEF Fields
    <2> QED BY <1>1, <2>3, LeadsOn DEF Follows
  <1>2. \/ e = d \/ e = [d EXCEPT !.missing = FALSE] \/ e = [d EXCEPT !.missing = TRUE]
        \/ e = [ResetConnection(d) EXCEPT !.connected = TRUE, !.missing = FALSE]
        \/ e = [ResetConnection(d) EXCEPT !.connected = FALSE, !.missing = FALSE]
    BY DEF Refreshed
  <1>3. Follows(d, d) BY LeadsItself DEF Follows
  <1>4. Good(ResetConnection(d)) /\ Follows(d, ResetConnection(d)) BY ResetGood, ResetFollows
  <1> QED BY <1>1, <1>2, <1>3, <1>4

\* HELLO begins an epoch: nothing of an earlier one is in use or waits.
LEMMA HelloFollows ==
  ASSUME NEW d, Good(d), Orderly(d)
  PROVE  Follows(d, Hello(d))
  <1> DEFINE b == StopSpeaker(StopMicrophone(d))
             e == [b EXCEPT !.micLast = 0, !.pending = <<>>, !.peer = TRUE, !.epoch = @ + 1]
  <1>1. Hello(d) = Send(e, Frame("ack", 0, 0, d.epoch + 1)) BY DEF Hello
  <1>2. Good(b) /\ Follows(d, b) /\ b.mic = 0 /\ b.spk = 0 /\ b.epoch = d.epoch BY StopBothGood, StopBothFollows
  <1> HIDE DEF b
  <1>3. /\ IsDevice(e) /\ e.micLast = 0 /\ e.peer \in BOOLEAN /\ e.epoch = b.epoch + 1 /\ e.pending = <<>>
        /\ \A f \in Fields \ {"micLast", "peer", "epoch", "pending"} : e[f] = b[f]
    BY <1>2 DEF Good, IsDevice, Fields
  <1> HIDE DEF e
  <1>4. Good(e)
    <2>0. /\ e.micLast = 0 /\ e.peer \in BOOLEAN /\ e.epoch = b.epoch + 1
          /\ \A f \in Fields \ {"micLast", "peer", "epoch", "pending"} : e[f] = b[f]
      BY <1>3
    <2>1. DeviceTypes(e) BY <1>2, <2>0 DEF Good, DeviceTypes, Fields
    <2>2. Duplex(e) /\ Room(e) BY <1>2, <2>0 DEF Good, Duplex, Room, Fields
    <2> QED BY <1>3, <2>1, <2>2 DEF Good
  <1>5. Out(e) = Out(b) /\ b.epoch \in Nat /\ Orderly(b)
    BY <1>2, <1>3 DEF Out, Fields, Good, DeviceTypes, Follows
  <1>6. Orderly(e)
    <2>1. Out(b) \in Seq(Frames) /\ InOrder(Out(b), b.epoch) BY <1>5, OutFacts DEF Orderly, Queues
    <2>2. InOrder(Out(e), e.epoch)
      <3> DEFINE q == Out(b)
      <3>1. q \in Seq(Frames) /\ InOrder(q, b.epoch) /\ Out(e) = q BY <1>5, <2>1
      <3> HIDE DEF q
      <3>2. ASSUME NEW i \in 1..Len(q) PROVE q[i].epoch <= b.epoch + 1
        <4>1. q[i] \in Frames BY <3>1
        <4>2. q[i].epoch \in Nat /\ q[i].epoch <= b.epoch BY <3>1, <4>1 DEF InOrder, Frames
        <4> QED BY <1>5, <4>2
      <3> QED BY <1>3, <3>1, <3>2 DEF InOrder
    <2>3. Queues(e) BY <1>3, <1>5 DEF Orderly, Queues, Fields
    <2>4. e.mic = 0 /\ e.spk = 0 /\ e.credit = 0 /\ e.micLast = 0 BY <1>2, <1>3, <1>5 DEF Fields, Orderly
    <2>5. Len(e.pending) = 0 BY <1>3
    <2> QED BY <2>2, <2>3, <2>4, <2>5 DEF Orderly
  <1>7. Leads(b, e) BY <1>2, <1>3, <1>5 DEF Leads, Fields
  <1>8. Follows(e, Hello(d))
    <2>1. "ack" \in Kinds \ {"credit"} BY DEF Kinds
    <2>2. d.epoch + 1 = e.epoch BY <1>2, <1>3
    <2> QED BY <1>1, <1>4, <1>6, <2>1, <2>2, SendPlain
  <1> QED BY <1>2, <1>7, <1>8, LeadsOn DEF Follows

\* What a frame of the host does to the balance: it starts a stream with nothing
\* outstanding, takes one frame of PCM, or leaves the balance as it is.
Handled(d, h, frame) ==
  /\ Orderly(h)
  /\ \/ Leads(d, h) /\ (frame.kind = "pcm" /\ frame.stream = d.spk => h.spk = 0)
     \/ /\ frame.kind = "start" /\ d.spk = 0
        /\ \E e : e.spk = frame.stream /\ e.credit = 0 /\ Out(e) = Out(d) /\ Leads(e, h)
     \/ /\ frame.kind = "pcm" /\ frame.stream = d.spk /\ ~d.ended
        /\ \E e : /\ e.spk = d.spk /\ e.ended = d.ended /\ e.credit = d.credit - 1
                  /\ Out(e) = Out(d) /\ Leads(e, h)

\* The microphone starts,
LEMMA MicrophoneStartFollows ==
  ASSUME NEW d, Good(d), Orderly(d), NEW s \in Nat, s # 0
  PROVE  Follows(d, MicrophoneStart(d, s))
  <1> DEFINE e == [d EXCEPT !.mic = s, !.input = "opening", !.since = d.epoch]
  <1>0. {"busy", "started"} \subseteq Kinds \ {"credit"} BY DEF Kinds
  <1>1. CASE d.spk # 0 \/ d.mic \notin {0, s}
    BY <1>0, <1>1, SendErrorFollows DEF MicrophoneStart
  <1>2. CASE d.spk = 0 /\ d.mic = 0
    <2>1. MicrophoneStart(d, s) = e BY <1>2 DEF MicrophoneStart
    <2>2. /\ e.since = d.epoch
          /\ \A f \in {"ring", "queue", "pending", "epoch", "micLast", "spk", "credit", "ended"} : e[f] = d[f]
      BY DEF Good, IsDevice, Fields
    <2> HIDE DEF e
    <2>3. Out(e) = Out(d) BY <2>2 DEF Out
    <2>4. Orderly(e) BY <2>2, <2>3 DEF Orderly, Queues
    <2>5. Leads(d, e) BY <1>2, <2>2, <2>3 DEF Leads
    <2> QED BY <2>1, <2>4, <2>5 DEF Follows
  <1>3. CASE d.spk = 0 /\ d.mic = s
    <2>1. d.since = d.epoch BY <1>3 DEF Orderly
    <2>2. MicrophoneStart(d, s) = d \/ MicrophoneStart(d, s) = Send(d, Frame("started", s, 0, d.since))
      BY <1>3 DEF MicrophoneStart
    <2> QED BY <1>0, <2>1, <2>2, SendPlain, LeadsItself DEF Follows
  <1> QED BY <1>1, <1>2, <1>3

\* and stops.
LEMMA MicrophoneStopFollows ==
  ASSUME NEW d, Good(d), Orderly(d), NEW s \in Nat, s # 0
  PROVE  Follows(d, MicrophoneStop(d, s))
  <1>0. "stopped" \in Kinds \ {"credit"} BY DEF Kinds
  <1>1. CASE d.mic = s
    <2> DEFINE e == StopMicrophone(d)
    <2>1. d.spk = 0 /\ d.since = d.epoch BY <1>1 DEF Good, Duplex, Orderly
    <2>2. Good(e) /\ Orderly(e) /\ Leads(d, e) /\ e.epoch = d.epoch
      BY <2>1, StopMicrophoneGood, StopMicrophoneFollows
    <2>3. MicrophoneStop(d, s) = Send(e, Frame("stopped", s, 0, d.since)) BY <1>1 DEF MicrophoneStop
    <2> HIDE DEF e
    <2>4. Follows(e, MicrophoneStop(d, s)) BY <1>0, <2>1, <2>2, <2>3, SendPlain
    <2> QED BY <2>2, <2>4, LeadsOn DEF Follows
  <1>2. CASE d.mic # s
    <2>1. MicrophoneStop(d, s) = d
          \/ (d.micLast = s /\ MicrophoneStop(d, s) = Send(d, Frame("stopped", s, 0, d.since)))
      BY <1>2 DEF MicrophoneStop
    <2>2. d.micLast = s => d.since = d.epoch BY DEF Orderly
    <2> QED BY <1>0, <2>1, <2>2, SendPlain, LeadsItself DEF Follows
  <1> QED BY <1>1, <1>2

\* A stream of the speaker starts,
LEMMA SpeakerStartHandled ==
  ASSUME NEW d, Good(d), d.connected, Orderly(d), NEW frame, frame.kind = "start",
         frame.stream \in 0..streams, frame.stream # 0
  PROVE  Handled(d, SpeakerStart(d, frame.stream), frame)
  <1> DEFINE s == frame.stream
             e == [d EXCEPT !.spk = s, !.since = d.epoch]
  <1>0. "busy" \in Kinds \ {"credit"} /\ s \in Nat BY DEF Kinds
  <1>1. CASE d.mic # 0 \/ d.spk # 0
    <2>1. SpeakerStart(d, s) = d \/ SpeakerStart(d, s) = SendError(d, "busy", s) BY <1>1 DEF SpeakerStart
    <2>2. Follows(d, SpeakerStart(d, s)) BY <1>0, <2>1, SendErrorFollows, LeadsItself DEF Follows
    <2> QED BY <2>2 DEF Follows, Handled
  <1>2. CASE d.mic = 0 /\ d.spk = 0
    <2>1. SpeakerStart(d, s) = RefreshCredit(e) BY <1>2 DEF SpeakerStart
    <2>2. /\ IsDevice(e) /\ e.spk = s /\ e.since = d.epoch
          /\ \A f \in Fields \ {"spk", "since"} : e[f] = d[f]
      BY DEF Good, IsDevice, Fields
    <2> HIDE DEF e
    <2>3. DeviceTypes(e) BY <2>2 DEF Good, DeviceTypes, Fields
    <2>4. Good(e) BY <1>2, <2>2, <2>3 DEF Good, Duplex, Room, Fields
    <2>5. \A f \in {"ring", "queue", "pending", "epoch", "mic", "micLast", "credit"} : e[f] = d[f]
      BY <2>2 DEF Fields
    <2>6. Out(e) = Out(d) BY <2>5 DEF Out
    <2>7. Orderly(e) BY <2>2, <2>5, <2>6 DEF Orderly, Queues
    <2>8. Orderly(RefreshCredit(e)) /\ Leads(e, RefreshCredit(e))
      BY <2>4, <2>7, RefreshCreditFollows DEF Follows
    <2>9. e.credit = 0 BY <1>2, <2>5 DEF Orderly
    <2> QED BY <1>2, <2>1, <2>2, <2>6, <2>8, <2>9 DEF Handled
  <1> QED BY <1>1, <1>2

\* ends,
LEMMA SpeakerEndFollows ==
  ASSUME NEW d, Good(d), Orderly(d), NEW s, s # 0, NEW n \in Nat
  PROVE  Follows(d, SpeakerEnd(d, s, n))
  <1> DEFINE e == [d EXCEPT !.ended = TRUE]
             m == MaybeStart(e)
  <1>1. \/ SpeakerEnd(d, s, n) = d
        \/ d.spk = s /\ SpeakerEnd(d, s, n) = CompleteSpeaker(d)
        \/ SpeakerEnd(d, s, n) = Poll(m, n)
    BY DEF SpeakerEnd
  <1>2. d.spk = s => Follows(d, CompleteSpeaker(d)) BY CompleteSpeakerFollows
  <1>3. /\ IsDevice(e) /\ e.ended = TRUE /\ \A f \in Fields \ {"ended"} : e[f] = d[f]
    BY DEF Good, IsDevice, Fields
  <1> HIDE DEF e
  <1>4. DeviceTypes(e) BY <1>3 DEF Good, DeviceTypes, Fields
  <1>5. Good(e) BY <1>3, <1>4 DEF Good, Duplex, Room, Fields
  <1>6. Orderly(e) /\ Leads(d, e) BY <1>3, FieldsKept DEF Fields
  <1>7. Good(m) /\ Orderly(m) /\ Leads(e, m) BY <1>5, <1>6, MaybeStartGood, MaybeStartFollows DEF Follows
  <1> HIDE DEF m
  <1>8. Orderly(Poll(m, n)) /\ Leads(m, Poll(m, n)) BY <1>7, PollFollows DEF Follows
  <1>9. Follows(d, Poll(m, n)) BY <1>6, <1>7, <1>8, LeadsOn DEF Follows
  <1> QED BY <1>1, <1>2, <1>9, LeadsItself DEF Follows

\* and takes PCM, or is refused it.
LEMMA SpeakerPcmHandled ==
  ASSUME NEW d, Good(d), Orderly(d), NEW frame, frame.kind = "pcm", frame.stream \in Nat \ {0},
         NEW n \in Nat
  PROVE  Handled(d, SpeakerPcm(d, frame, n), frame)
  <1> DEFINE h == SpeakerPcm(d, frame, n)
             code == IF d.spk = 0 /\ d.spkLast = frame.stream THEN "invalid" ELSE "refused"
             x == SendError(d, code, frame.stream)
             r == StopSpeaker(x)
             e == [d EXCEPT !.expected = @ + 1, !.credit = @ - 1, !.pcm = @ + 1]
             m == MaybeStart(e)
             p == Poll(m, n)
  <1>1. \/ frame.stream # d.spk /\ h = d
        \/ h = r
        \/ Takes(d, frame) /\ frame.stream = d.spk /\ d.spk # 0 /\ h = RefreshCredit(p)
    <2>1. CASE d.spk = 0 /\ d.spkLast = frame.stream BY <2>1 DEF SpeakerPcm
    <2>2. CASE ~(d.spk = 0 /\ d.spkLast = frame.stream) /\ d.spk # frame.stream BY <2>2 DEF SpeakerPcm
    <2>3. CASE ~(d.spk = 0 /\ d.spkLast = frame.stream) /\ d.spk = frame.stream BY <2>3 DEF SpeakerPcm
    <2> QED BY <2>1, <2>2, <2>3
  <1> HIDE DEF h
  <1>2. ASSUME frame.stream # d.spk, h = d PROVE Handled(d, h, frame) BY <1>2, LeadsItself DEF Handled
  <1>3. ASSUME h = r PROVE Handled(d, h, frame)
    <2>1. code \in Kinds \ {"credit"} BY DEF Kinds
    <2> HIDE DEF code
    <2>2. Good(x) /\ Orderly(x) /\ Leads(d, x) BY <2>1, SendErrorGood, SendErrorFollows DEF Follows
    <2> HIDE DEF x
    <2>3. Orderly(r) /\ Leads(x, r) /\ r.spk = 0 BY <2>2, StopSpeakerFollows DEF Follows
    <2> HIDE DEF r
    <2> QED BY <1>3, <2>2, <2>3, LeadsOn DEF Handled
  <1>4. ASSUME Takes(d, frame), frame.stream = d.spk, d.spk # 0, h = RefreshCredit(p) PROVE Handled(d, h, frame)
    <2>1. /\ IsDevice(e) /\ e.expected = d.expected + 1 /\ e.credit = d.credit - 1 /\ e.pcm = d.pcm + 1
          /\ \A f \in Fields \ {"expected", "credit", "pcm"} : e[f] = d[f]
      BY DEF Good, IsDevice, Fields
    <2> HIDE DEF e
    <2>2. e.expected \in Nat /\ e.credit \in 0..Window /\ e.pcm \in 0..Capacity /\ e.pcm + e.credit <= Capacity
      BY <1>4, <2>1, Bounds DEF Good, DeviceTypes, Takes, Room
    <2>3. DeviceTypes(e) BY <2>1, <2>2 DEF Good, DeviceTypes, Fields
    <2>4. Good(e) BY <2>1, <2>2, <2>3 DEF Good, Duplex, Room, Fields
    <2>5. \A f \in {"ring", "queue", "pending", "epoch", "since", "mic", "micLast", "spk", "ended"} : e[f] = d[f]
      BY <2>1 DEF Fields
    <2>6. Out(e) = Out(d) BY <2>5 DEF Out
    <2>7. Orderly(e) BY <1>4, <2>5, <2>6 DEF Orderly, Queues
    <2>8. Good(m) /\ Orderly(m) /\ Leads(e, m) BY <2>4, <2>7, MaybeStartGood, MaybeStartFollows DEF Follows
    <2> HIDE DEF m
    <2>9. Good(p) /\ Orderly(p) /\ Leads(m, p) BY <2>8, PollGood, PollFollows DEF Follows
    <2> HIDE DEF p
    <2>10. Orderly(h) /\ Leads(p, h) BY <1>4, <2>9, RefreshCreditFollows DEF Follows
    <2>11. Leads(e, h) BY <2>8, <2>9, <2>10, LeadsOn
    <2>12. ~d.ended BY <1>4 DEF Takes
    <2> QED BY <1>4, <2>1, <2>5, <2>6, <2>10, <2>11, <2>12 DEF Handled
  <1> QED BY <1>1, <1>2, <1>3, <1>4 DEF h

\* A frame of the host.
LEMMA HandleHandled ==
  ASSUME NEW d, Good(d), d.connected, Orderly(d), NEW frame \in HostFrames, NEW n \in Nat,
         frame.kind # "hello" => frame.stream # 0
  PROVE  Handled(d, Handle(d, frame, n), frame)
  <1>1. /\ frame.stream \in 0..streams /\ frame.stream \in Nat
        /\ frame.kind \in {"hello", "micStart", "micStop", "start", "end", "abort", "pcm"}
    BY DEF HostFrames
  <1>2. ASSUME NEW h, Follows(d, h), frame.kind # "pcm" PROVE Handled(d, h, frame)
    BY <1>2 DEF Follows, Handled
  <1>3. CASE frame.kind = "hello"
    <2>1. Handle(d, frame, n) = Hello(d) BY <1>3 DEF Handle
    <2> QED BY <1>2, <1>3, <2>1, HelloFollows
  <1>4. CASE frame.kind = "micStart"
    <2>1. Handle(d, frame, n) = MicrophoneStart(d, frame.stream) BY <1>4 DEF Handle
    <2> QED BY <1>1, <1>2, <1>4, <2>1, MicrophoneStartFollows
  <1>5. CASE frame.kind = "micStop"
    <2>1. Handle(d, frame, n) = MicrophoneStop(d, frame.stream) BY <1>5 DEF Handle
    <2> QED BY <1>1, <1>2, <1>5, <2>1, MicrophoneStopFollows
  <1>6. CASE frame.kind = "start"
    <2>1. Handle(d, frame, n) = SpeakerStart(d, frame.stream) BY <1>6 DEF Handle
    <2> QED BY <1>1, <1>6, <2>1, SpeakerStartHandled
  <1>7. CASE frame.kind = "end"
    <2>1. Handle(d, frame, n) = SpeakerEnd(d, frame.stream, n) BY <1>7 DEF Handle
    <2> QED BY <1>1, <1>2, <1>7, <2>1, SpeakerEndFollows
  <1>8. CASE frame.kind = "abort"
    <2>1. Handle(d, frame, n) = SpeakerAbort(d, frame.stream) BY <1>8 DEF Handle
    <2>2. Follows(d, SpeakerAbort(d, frame.stream))
      BY StopSpeakerFollows, LeadsItself DEF SpeakerAbort, Follows
    <2> QED BY <1>2, <1>8, <2>1, <2>2
  <1>9. CASE frame.kind = "pcm"
    <2>1. Handle(d, frame, n) = SpeakerPcm(d, frame, n) BY <1>9 DEF Handle
    <2> QED BY <1>1, <1>9, <2>1, SpeakerPcmHandled
  <1> QED BY <1>1, <1>3, <1>4, <1>5, <1>6, <1>7, <1>8, <1>9
-----------------------------------------------------------------------------
(***************************************************************************)
(* The credit on both sides of the cable.                                  *)
(***************************************************************************)
WireFrames == [kind : {"hello", "micStart", "micStop", "start", "end", "abort", "pcm"},
               stream : Nat, seq : Nat]

Flying(wire, s) == Total([k \in 1..Len(wire) |-> Pcm(wire[k], s)])

NoPcm(wire, s) == \A k \in 1..Len(wire) : ~(wire[k].kind = "pcm" /\ wire[k].stream = s)

\* Of the streams 1..n that the host opened each starts once.
Numbered(wire, n) ==
  /\ \A k \in 1..Len(wire) : wire[k].stream <= n /\ (wire[k].kind # "hello" => wire[k].stream # 0)
  /\ \A j, k \in 1..Len(wire) :
       j < k /\ wire[j].kind = "start" /\ wire[k].kind = "start" => wire[j].stream # wire[k].stream

\* A stream that the bridge has not seen the start of, and what is so of it.
Waiting(wire, n, s) == s > n \/ \E k \in 1..Len(wire) : wire[k].kind = "start" /\ wire[k].stream = s

Untouched(d, wire, h, s) ==
  d.spk # s /\ NoCredit(Out(d), s) /\ NoPcm(wire, s) /\ (h.stream = s => h.credit = 0)

\* Of the credit that the bridge granted, and is not outbound any more, the host
\* still has what it did not spend on PCM that is on its way, unless that was lost.
Kept(d, wire, h, l) ==
  d.spk # 0 /\ ~d.ended =>
    /\ Flying(wire, d.spk) <= Balance(d)
    /\ h.stream = d.spk /\ h.role = "speaker" =>
         /\ Flying(wire, d.spk) + h.credit <= Balance(d)
         /\ l = 0 => Flying(wire, d.spk) + h.credit = Balance(d)

Sound(d, wire, h, n, l) ==
  /\ Numbered(wire, n)
  /\ h.credit \in Nat /\ (h.role # "none" => h.stream # 0)
  /\ \A s \in Nat \ {0} : Waiting(wire, n, s) => Untouched(d, wire, h, s)
  /\ Kept(d, wire, h, l)

\* What each frame is worth.
LEMMA PcmType ==
  ASSUME NEW w \in Seq(WireFrames), NEW s
  PROVE  LET c == [k \in 1..Len(w) |-> Pcm(w[k], s)]
         IN  c \in Seq(Nat) /\ Len(c) = Len(w) /\ \A k \in 1..Len(w) : c[k] = Pcm(w[k], s)
  <1> DEFINE c == [k \in 1..Len(w) |-> Pcm(w[k], s)]
  <1>1. \A k \in 1..Len(w) : Pcm(w[k], s) \in Nat BY DEF Pcm
  <1>2. Len(w) \in Nat OBVIOUS
  <1>3. c \in [1..Len(w) -> Nat] BY <1>1
  <1>4. \A k \in 1..Len(w) : c[k] = Pcm(w[k], s) OBVIOUS
  <1> HIDE DEF c
  <1>5. c \in Seq(Nat) /\ Len(c) = Len(w) BY <1>2, <1>3
  <1> QED BY <1>4, <1>5 DEF c

\* What is in flight is a number, and nothing if no frame is of the stream.
LEMMA FlyingType ==
  ASSUME NEW w \in Seq(WireFrames), NEW s
  PROVE  Flying(w, s) \in Nat /\ (NoPcm(w, s) => Flying(w, s) = 0)
  <1> DEFINE c == [k \in 1..Len(w) |-> Pcm(w[k], s)]
  <1>1. c \in Seq(Nat) /\ Len(c) = Len(w) /\ \A k \in 1..Len(w) : c[k] = Pcm(w[k], s) BY PcmType
  <1>2. Flying(w, s) = Total(c) BY DEF Flying
  <1> HIDE DEF c
  <1>3. ASSUME NoPcm(w, s) PROVE Total(c) = 0
    <2>1. \A k \in 1..Len(c) : c[k] = 0 BY <1>1, <1>3 DEF NoPcm, Pcm
    <2> QED BY <1>1, <2>1, TotalNothing
  <1> QED BY <1>1, <1>2, <1>3, TotalType

\* A frame that arrives, or is lost, is not in flight any more,
LEMMA FlyingRest ==
  ASSUME NEW w \in Seq(WireFrames), w # <<>>, NEW s
  PROVE  Flying(w, s) = Pcm(Head(w), s) + Flying(Tail(w), s)
  <1> DEFINE t == Tail(w)
             c == [k \in 1..Len(t) |-> Pcm(t[k], s)]
             e == [k \in 1..Len(w) |-> Pcm(w[k], s)]
  <1>1. /\ t \in Seq(WireFrames) /\ Len(w) = Len(t) + 1 /\ Len(t) \in Nat /\ Head(w) = w[1]
        /\ \A i \in 1..Len(t) : t[i] = w[i + 1]
    OBVIOUS
  <1>2. e \in Seq(Nat) /\ Len(e) = Len(w) /\ \A k \in 1..Len(w) : e[k] = Pcm(w[k], s) BY PcmType
  <1>3. Flying(t, s) = Total(c) /\ Flying(w, s) = Total(e) BY DEF Flying
  <1> HIDE DEF t
  <1>4. c \in Seq(Nat) /\ Len(c) = Len(t) /\ \A k \in 1..Len(t) : c[k] = Pcm(t[k], s)
    BY <1>1, PcmType
  <1> HIDE DEF c, e
  <1>5. ASSUME NEW i \in 1..Len(c) PROVE c[i] = e[i + 1]
    <2>1. i \in 1..Len(t) /\ i + 1 \in 1..Len(w) BY <1>1, <1>4
    <2> QED BY <1>1, <1>2, <1>4, <2>1
  <1>6. Total(e) = e[1] + Total(c) BY <1>1, <1>2, <1>4, <1>5, TotalFirst
  <1>7. e[1] = Pcm(Head(w), s)
    <2>1. 1 \in 1..Len(w) BY <1>1
    <2> QED BY <1>1, <1>2, <2>1
  <1> QED BY <1>3, <1>6, <1>7 DEF t

\* and one that is sent is.
LEMMA FlyingMore ==
  ASSUME NEW w \in Seq(WireFrames), NEW f \in WireFrames, NEW s
  PROVE  Flying(Append(w, f), s) = Flying(w, s) + Pcm(f, s)
  <1> DEFINE b == Append(w, f)
             c == [k \in 1..Len(w) |-> Pcm(w[k], s)]
             e == [k \in 1..Len(b) |-> Pcm(b[k], s)]
  <1>1. /\ b \in Seq(WireFrames) /\ Len(b) = Len(w) + 1 /\ Len(w) \in Nat /\ b[Len(w) + 1] = f
        /\ \A i \in 1..Len(w) : b[i] = w[i]
    OBVIOUS
  <1>2. c \in Seq(Nat) /\ Len(c) = Len(w) /\ \A k \in 1..Len(w) : c[k] = Pcm(w[k], s) BY PcmType
  <1>3. Flying(w, s) = Total(c) /\ Flying(b, s) = Total(e) BY DEF Flying
  <1> HIDE DEF b
  <1>4. e \in Seq(Nat) /\ Len(e) = Len(b) /\ \A k \in 1..Len(b) : e[k] = Pcm(b[k], s) BY <1>1, PcmType
  <1> HIDE DEF c, e
  <1>5. \A i \in 1..Len(c) : e[i] = c[i] BY <1>1, <1>2, <1>4
  <1>6. Total(e) = Total(c) + e[Len(e)] BY <1>1, <1>2, <1>4, <1>5, TotalMore
  <1>7. Len(b) \in 1..Len(b) BY <1>1
  <1> QED BY <1>1, <1>3, <1>4, <1>6, <1>7 DEF b

\* The bridge does something that has nothing to do with the wire.
LEMMA SoundLeads ==
  ASSUME NEW d, NEW e, NEW w, NEW h, NEW n, NEW l, Sound(d, w, h, n, l), Leads(d, e)
  PROVE  Sound(e, w, h, n, l)
  <1>1. ASSUME NEW s \in Nat \ {0}, Waiting(w, n, s) PROVE Untouched(e, w, h, s)
    <2>1. Untouched(d, w, h, s) BY <1>1 DEF Sound
    <2> QED BY <2>1 DEF Untouched, Leads
  <1>2. Kept(e, w, h, l)
    <2>1. SUFFICES ASSUME e.spk # 0, ~e.ended PROVE Kept(e, w, h, l) BY DEF Kept
    <2>2. e.spk = d.spk /\ ~d.ended /\ Balance(e) = Balance(d) BY <2>1 DEF Leads
    <2> QED BY <2>1, <2>2 DEF Sound, Kept
  <1> QED BY <1>1, <1>2 DEF Sound

\* The first frame of the wire is gone.
LEMMA TailFacts ==
  ASSUME NEW w \in Seq(WireFrames), w # <<>>, NEW n \in Nat, Numbered(w, n)
  PROVE  /\ Numbered(Tail(w), n)
         /\ \A s : Waiting(Tail(w), n, s) => Waiting(w, n, s)
         /\ \A s : NoPcm(w, s) => NoPcm(Tail(w), s)
         /\ Head(w).kind = "start" => Waiting(w, n, Head(w).stream) /\ ~Waiting(Tail(w), n, Head(w).stream)
  <1> DEFINE t == Tail(w)
  <1>1. /\ t \in Seq(WireFrames) /\ Len(t) \in Nat /\ Len(w) = Len(t) + 1 /\ Head(w) = w[1]
        /\ \A i \in 1..Len(t) : t[i] = w[i + 1]
    OBVIOUS
  <1>2. t = Tail(w) OBVIOUS
  <1> HIDE DEF t
  <1>3. \A i \in 1..Len(t) : i + 1 \in 1..Len(w) /\ 1 < i + 1 BY <1>1
  <1>4. 1 \in 1..Len(w) BY <1>1
  <1>5. Numbered(t, n)
    <2>1. ASSUME NEW k \in 1..Len(t) PROVE t[k].stream <= n /\ (t[k].kind # "hello" => t[k].stream # 0)
      BY <1>1, <1>3 DEF Numbered
    <2>2. ASSUME NEW j \in 1..Len(t), NEW k \in 1..Len(t), j < k, t[j].kind = "start", t[k].kind = "start"
          PROVE  t[j].stream # t[k].stream
      <3>1. j + 1 \in 1..Len(w) /\ k + 1 \in 1..Len(w) /\ j + 1 < k + 1 BY <1>1, <2>2
      <3>2. t[j] = w[j + 1] /\ t[k] = w[k + 1] BY <1>1
      <3> QED BY <2>2, <3>1, <3>2 DEF Numbered
    <2> QED BY <2>1, <2>2 DEF Numbered
  <1>6. \A s : Waiting(t, n, s) => Waiting(w, n, s) BY <1>1, <1>3 DEF Waiting
  <1>7. \A s : NoPcm(w, s) => NoPcm(t, s) BY <1>1, <1>3 DEF NoPcm
  <1>8. ASSUME Head(w).kind = "start"
        PROVE  Waiting(w, n, Head(w).stream) /\ ~Waiting(t, n, Head(w).stream)
    <2>1. Waiting(w, n, Head(w).stream) BY <1>1, <1>4, <1>8 DEF Waiting
    <2>2. \A k \in 1..Len(t) : t[k].kind = "start" => t[k].stream # Head(w).stream
      BY <1>1, <1>3, <1>4, <1>8 DEF Numbered
    <2>3. w[1] \in WireFrames /\ w[1].stream <= n BY <1>1, <1>4 DEF Numbered
    <2>4. ~(w[1].stream > n)
      <3>1. w[1].stream \in Nat BY <2>3 DEF WireFrames
      <3> QED BY <2>3, <3>1
    <2> QED BY <1>1, <2>1, <2>2, <2>4 DEF Waiting
  <1> QED BY <1>2, <1>5, <1>6, <1>7, <1>8

\* The first frame is lost, or is none that the stream in use takes.
LEMMA SoundRest ==
  ASSUME NEW d, NEW w \in Seq(WireFrames), w # <<>>, NEW h, NEW n \in Nat, NEW l \in Nat, NEW m \in Nat,
         Sound(d, w, h, n, l), Balance(d) \in Int,
         m = 0 => l = 0 /\ ~(Head(w).kind = "pcm" /\ Head(w).stream = d.spk /\ d.spk # 0)
  PROVE  Sound(d, Tail(w), h, n, m)
  <1> DEFINE t == Tail(w)
  <1>1. /\ Numbered(t, n)
        /\ \A s : Waiting(t, n, s) => Waiting(w, n, s)
        /\ \A s : NoPcm(w, s) => NoPcm(t, s)
    BY TailFacts DEF Sound
  <1>2. t \in Seq(WireFrames) OBVIOUS
  <1>3. ASSUME NEW s PROVE Flying(w, s) = Pcm(Head(w), s) + Flying(t, s) BY FlyingRest
  <1> HIDE DEF t
  <1>4. Kept(d, t, h, m)
    <2>1. SUFFICES ASSUME d.spk # 0, ~d.ended PROVE Kept(d, t, h, m) BY DEF Kept
    <2> DEFINE s == d.spk
               a == Flying(w, s)
               b == Flying(t, s)
    <2>2. a \in Nat /\ b \in Nat BY <1>2, FlyingType
    <2>3. a = Pcm(Head(w), s) + b BY <1>3
    <2>4. Pcm(Head(w), s) \in {0, 1} /\ (m = 0 => Pcm(Head(w), s) = 0) BY <2>1 DEF Pcm
    <2>5. h.credit \in Nat BY DEF Sound
    <2>6. /\ a <= Balance(d)
          /\ h.stream = s /\ h.role = "speaker" =>
               a + h.credit <= Balance(d) /\ (l = 0 => a + h.credit = Balance(d))
      BY <2>1 DEF Sound, Kept
    <2> HIDE DEF a, b
    <2>7. /\ b <= Balance(d)
          /\ h.stream = s /\ h.role = "speaker" =>
               b + h.credit <= Balance(d) /\ (m = 0 => b + h.credit = Balance(d))
      BY <2>2, <2>3, <2>4, <2>5, <2>6
    <2> QED BY <2>7 DEF Kept, b
  <1>5. ASSUME NEW s \in Nat \ {0}, Waiting(t, n, s) PROVE Untouched(d, t, h, s)
    BY <1>1, <1>5 DEF Sound, Untouched
  <1> QED BY <1>1, <1>4, <1>5 DEF Sound, t

\* The balance of a bridge.
LEMMA BalanceType ==
  ASSUME NEW d, Good(d), Orderly(d)
  PROVE  Balance(d) \in Int /\ Out(d) \in Seq(Frames)
  <1>1. Out(d) \in Seq(Frames) BY OutFacts DEF Orderly, Queues
  <1>2. Granting(Out(d), d.spk) \in Nat BY <1>1, GrantingType
  <1>3. d.credit \in Int BY Bounds DEF Good, DeviceTypes
  <1> QED BY <1>1, <1>2, <1>3 DEF Balance

\* The bridge handles the first frame.
LEMMA SoundHandled ==
  ASSUME NEW d, NEW x, NEW w \in Seq(WireFrames), w # <<>>, NEW h, NEW n \in Nat, NEW l \in Nat,
         Sound(d, w, h, n, l), Good(d), Orderly(d), Good(x), Handled(d, x, Head(w))
  PROVE  Sound(x, Tail(w), h, n, l)
  <1> DEFINE t == Tail(w)
             f == Head(w)
  <1>1. /\ Numbered(t, n)
        /\ \A s : Waiting(t, n, s) => Waiting(w, n, s)
        /\ \A s : NoPcm(w, s) => NoPcm(t, s)
        /\ f.kind = "start" => Waiting(w, n, f.stream) /\ ~Waiting(t, n, f.stream)
    BY TailFacts DEF Sound
  <1>2. t \in Seq(WireFrames) /\ f \in WireFrames OBVIOUS
  <1>3. ASSUME NEW s PROVE Flying(w, s) = Pcm(f, s) + Flying(t, s) BY FlyingRest
  <1>4. f.kind # "hello" => f.stream # 0
    <2>1. 1 \in 1..Len(w) /\ f = w[1] OBVIOUS
    <2> QED BY <2>1 DEF Sound, Numbered
  <1>5. Balance(d) \in Int /\ Out(d) \in Seq(Frames) BY BalanceType
  <1>6. h.credit \in Nat BY DEF Sound
  <1>7. CASE Leads(d, x) /\ (f.kind = "pcm" /\ f.stream = d.spk => x.spk = 0)
    <2>1. Sound(x, w, h, n, l) BY <1>7, SoundLeads
    <2>2. Balance(x) \in Int BY BalanceType DEF Handled
    <2>3. ~(f.kind = "pcm" /\ f.stream = x.spk /\ x.spk # 0) BY <1>7 DEF Leads
    <2> QED BY <2>1, <2>2, <2>3, SoundRest
  <1> HIDE DEF t, f
  <1>8. CASE f.kind = "start" /\ d.spk = 0
             /\ \E e : e.spk = f.stream /\ e.credit = 0 /\ Out(e) = Out(d) /\ Leads(e, x)
    <2>1. PICK e : e.spk = f.stream /\ e.credit = 0 /\ Out(e) = Out(d) /\ Leads(e, x) BY <1>8
    <2>2. f.stream \in Nat \ {0} BY <1>2, <1>4, <1>8 DEF WireFrames
    <2>3. Untouched(d, w, h, f.stream) BY <1>1, <1>8, <2>2 DEF Sound
    <2>4. Kept(e, t, h, l)
      <3>1. Flying(t, e.spk) = 0 BY <1>1, <1>2, <2>1, <2>3, FlyingType DEF Untouched
      <3>2. Granting(Out(e), e.spk) = 0 BY <1>5, <2>1, <2>3, GrantingType DEF Untouched
      <3>3. Balance(e) = 0 BY <2>1, <3>2 DEF Balance
      <3>4. h.stream = e.spk => h.credit = 0 BY <2>1, <2>3 DEF Untouched
      <3> QED BY <3>1, <3>3, <3>4 DEF Kept
    <2>5. ASSUME NEW s \in Nat \ {0}, Waiting(t, n, s) PROVE Untouched(e, t, h, s)
      <3>1. Untouched(d, w, h, s) BY <1>1, <2>5 DEF Sound
      <3>2. s # f.stream BY <1>1, <1>8, <2>5
      <3> QED BY <1>1, <2>1, <3>1, <3>2 DEF Untouched
    <2>6. Sound(e, t, h, n, l) BY <1>1, <2>4, <2>5 DEF Sound
    <2>7. Sound(x, t, h, n, l) BY <2>1, <2>6, SoundLeads
    <2> QED BY <2>7 DEF t
  <1>9. CASE f.kind = "pcm" /\ f.stream = d.spk /\ ~d.ended
             /\ \E e : /\ e.spk = d.spk /\ e.ended = d.ended /\ e.credit = d.credit - 1
                       /\ Out(e) = Out(d) /\ Leads(e, x)
    <2>1. PICK e : /\ e.spk = d.spk /\ e.ended = d.ended /\ e.credit = d.credit - 1
                   /\ Out(e) = Out(d) /\ Leads(e, x)
      BY <1>9
    <2> DEFINE s == d.spk
               a == Flying(w, s)
               b == Flying(t, s)
    <2>2. a \in Nat /\ b \in Nat BY <1>2, FlyingType
    <2>3. a = 1 + b BY <1>3, <1>9 DEF Pcm
    <2>4. Balance(e) = Balance(d) - 1
      <3>1. Granting(Out(d), d.spk) \in Nat BY <1>5, GrantingType
      <3>2. d.credit \in Int BY Bounds DEF Good, DeviceTypes
      <3> QED BY <2>1, <3>1, <3>2 DEF Balance
    <2>5. /\ a <= Balance(d)
          /\ h.stream = s /\ h.role = "speaker" =>
               a + h.credit <= Balance(d) /\ (l = 0 => a + h.credit = Balance(d))
      BY <1>4, <1>9 DEF Sound, Kept
    <2> HIDE DEF a, b
    <2>6. /\ b <= Balance(e)
          /\ h.stream = s /\ h.role = "speaker" =>
               b + h.credit <= Balance(e) /\ (l = 0 => b + h.credit = Balance(e))
      <3> DEFINE c == h.credit
                 o == Balance(d)
                 p == Balance(e)
      <3>1. c \in Nat /\ o \in Int /\ p = o - 1 BY <1>5, <1>6, <2>4
      <3>2. /\ a <= o
            /\ h.stream = s /\ h.role = "speaker" => a + c <= o /\ (l = 0 => a + c = o)
        BY <2>5
      <3> HIDE DEF c, o, p
      <3>3. /\ b <= p
            /\ h.stream = s /\ h.role = "speaker" => b + c <= p /\ (l = 0 => b + c = p)
        BY <2>2, <2>3, <3>1, <3>2
      <3> QED BY <3>3 DEF c, p
    <2>7. Kept(e, t, h, l) BY <2>1, <2>6 DEF Kept, b
    <2>8. ASSUME NEW q \in Nat \ {0}, Waiting(t, n, q) PROVE Untouched(e, t, h, q)
      <3>1. Untouched(d, w, h, q) BY <1>1, <2>8 DEF Sound
      <3> QED BY <1>1, <2>1, <3>1 DEF Untouched
    <2>9. Sound(e, t, h, n, l) BY <1>1, <2>7, <2>8 DEF Sound
    <2>10. Sound(x, t, h, n, l) BY <2>1, <2>9, SoundLeads
    <2> QED BY <2>10 DEF t
  <1> QED BY <1>7, <1>8, <1>9 DEF Handled, f

\* A frame is sent, of no stream, or of the stream in use, or of one more.
LEMMA MoreFacts ==
  ASSUME NEW w \in Seq(WireFrames), NEW n \in Nat, NEW m \in {n, n + 1}, NEW f \in WireFrames, Numbered(w, n),
         f.stream <= m, f.kind # "hello" => f.stream # 0, f.kind = "start" => f.stream > n
  PROVE  /\ Append(w, f) \in Seq(WireFrames) /\ Numbered(Append(w, f), m)
         /\ \A s \in Nat : Waiting(Append(w, f), m, s) => Waiting(w, n, s)
         /\ \A s : NoPcm(w, s) /\ ~(f.kind = "pcm" /\ f.stream = s) => NoPcm(Append(w, f), s)
  <1> DEFINE b == Append(w, f)
  <1>1. /\ b \in Seq(WireFrames) /\ Len(b) = Len(w) + 1 /\ Len(w) \in Nat /\ b[Len(w) + 1] = f
        /\ \A i \in 1..Len(w) : b[i] = w[i]
    OBVIOUS
  <1>2. b = Append(w, f) OBVIOUS
  <1> HIDE DEF b
  <1>3. ASSUME NEW i \in 1..Len(b) PROVE (i \in 1..Len(w) /\ b[i] = w[i]) \/ (i = Len(w) + 1 /\ b[i] = f)
    BY <1>1
  <1>4. \A i \in 1..Len(w) : w[i].stream \in Nat /\ w[i].stream <= n
    <2>1. \A i \in 1..Len(w) : w[i] \in WireFrames OBVIOUS
    <2> QED BY <2>1 DEF Numbered, WireFrames
  <1>5. f.stream \in Nat /\ m \in Nat /\ n <= m BY DEF WireFrames
  <1>6. Numbered(b, m)
    <2>1. ASSUME NEW k \in 1..Len(b) PROVE b[k].stream <= m /\ (b[k].kind # "hello" => b[k].stream # 0)
      BY <1>3, <1>4, <1>5 DEF Numbered
    <2>2. ASSUME NEW j \in 1..Len(b), NEW k \in 1..Len(b), j < k, b[j].kind = "start", b[k].kind = "start"
          PROVE  b[j].stream # b[k].stream
      <3>1. j \in 1..Len(w) /\ b[j] = w[j] BY <1>1, <1>3, <2>2
      <3>2. CASE k \in 1..Len(w) /\ b[k] = w[k] BY <2>2, <3>1, <3>2 DEF Numbered
      <3>3. CASE b[k] = f
        <4>1. w[j].stream <= n /\ f.stream > n /\ w[j].stream \in Nat BY <1>4, <2>2, <3>1, <3>3
        <4> QED BY <1>5, <3>1, <3>3, <4>1
      <3> QED BY <1>3, <3>2, <3>3
    <2> QED BY <2>1, <2>2 DEF Numbered
  <1>7. ASSUME NEW s \in Nat, Waiting(b, m, s) PROVE Waiting(w, n, s)
    <2>1. CASE s > m BY <1>5, <2>1 DEF Waiting
    <2>2. CASE \E k \in 1..Len(b) : b[k].kind = "start" /\ b[k].stream = s
      <3>1. PICK k \in 1..Len(b) : b[k].kind = "start" /\ b[k].stream = s BY <2>2
      <3>2. CASE k \in 1..Len(w) /\ b[k] = w[k] BY <3>1, <3>2 DEF Waiting
      <3>3. CASE b[k] = f BY <3>1, <3>3 DEF Waiting
      <3> QED BY <1>3, <3>2, <3>3
    <2> QED BY <1>7, <2>1, <2>2 DEF Waiting
  <1>8. \A s : NoPcm(w, s) /\ ~(f.kind = "pcm" /\ f.stream = s) => NoPcm(b, s) BY <1>3 DEF NoPcm
  <1> QED BY <1>1, <1>2, <1>6, <1>7, <1>8

\* The host sends something other than PCM.
LEMMA SoundSends ==
  ASSUME NEW d, NEW w \in Seq(WireFrames), NEW h, NEW n \in Nat, NEW l \in Nat, Sound(d, w, h, n, l),
         NEW m \in {n, n + 1}, NEW f \in WireFrames, f.kind # "pcm",
         f.stream <= m, f.kind # "hello" => f.stream # 0, f.kind = "start" => f.stream > n,
         NEW g, g.role # "none" => g.stream # 0, g.role = "speaker" => g.stream = n + 1,
         g.credit = 0 \/ (g.stream = h.stream /\ g.credit = h.credit)
  PROVE  Sound(d, Append(w, f), g, m, l)
  <1> DEFINE b == Append(w, f)
  <1>1. /\ b \in Seq(WireFrames) /\ Numbered(b, m)
        /\ \A s \in Nat : Waiting(b, m, s) => Waiting(w, n, s)
        /\ \A s : NoPcm(w, s) /\ ~(f.kind = "pcm" /\ f.stream = s) => NoPcm(b, s)
    BY MoreFacts DEF Sound
  <1>2. \A s : Flying(b, s) = Flying(w, s)
    <2> SUFFICES ASSUME NEW s PROVE Flying(b, s) = Flying(w, s) OBVIOUS
    <2>1. Flying(b, s) = Flying(w, s) + Pcm(f, s) BY FlyingMore
    <2>2. Flying(w, s) \in Nat BY FlyingType
    <2>3. Pcm(f, s) = 0 BY DEF Pcm
    <2> HIDE DEF b
    <2> QED BY <2>1, <2>2, <2>3
  <1> HIDE DEF b
  <1>3. g.credit \in Nat BY DEF Sound
  <1>4. d.spk # n + 1
    <2>1. n + 1 \in Nat \ {0} /\ n + 1 > n OBVIOUS
    <2>2. Waiting(w, n, n + 1) BY <2>1 DEF Waiting
    <2> QED BY <2>1, <2>2 DEF Sound, Untouched
  <1>5. ASSUME NEW s \in Nat \ {0}, Waiting(b, m, s) PROVE Untouched(d, b, g, s)
    <2>1. Untouched(d, w, h, s) BY <1>1, <1>5 DEF Sound
    <2> QED BY <1>1, <2>1 DEF Untouched
  <1>6. Kept(d, b, g, l)
    <2>1. ~(g.stream = d.spk /\ g.role = "speaker") BY <1>4
    <2>2. d.spk # 0 /\ ~d.ended => Flying(b, d.spk) <= Balance(d) BY <1>2 DEF Sound, Kept
    <2> QED BY <2>1, <2>2 DEF Kept
  <1> QED BY <1>1, <1>3, <1>5, <1>6 DEF Sound, b

\* The host spends credit on PCM.
LEMMA SoundPcm ==
  ASSUME NEW d, NEW w \in Seq(WireFrames), NEW h, NEW n \in Nat, NEW l \in Nat, Sound(d, w, h, n, l),
         Balance(d) \in Int, h.role = "speaker", h.credit > 0, h.stream <= n,
         NEW f \in WireFrames, f.kind = "pcm", f.stream = h.stream,
         NEW g, g.role = h.role, g.stream = h.stream, g.credit = h.credit - 1
  PROVE  Sound(d, Append(w, f), g, n, l)
  <1> DEFINE b == Append(w, f)
  <1>0. h.stream # 0 /\ h.credit \in Nat BY DEF Sound
  <1>1. /\ b \in Seq(WireFrames) /\ Numbered(b, n)
        /\ \A s \in Nat : Waiting(b, n, s) => Waiting(w, n, s)
        /\ \A s : NoPcm(w, s) /\ ~(f.kind = "pcm" /\ f.stream = s) => NoPcm(b, s)
    BY <1>0, MoreFacts DEF Sound
  <1>2. \A s : Flying(b, s) = Flying(w, s) + Pcm(f, s) BY FlyingMore
  <1>n. \A s : Flying(w, s) \in Nat BY FlyingType
  <1> HIDE DEF b
  <1>3. g.credit \in Nat BY <1>0
  <1>4. ASSUME NEW s \in Nat \ {0}, Waiting(b, n, s) PROVE Untouched(d, b, g, s)
    <2>1. Untouched(d, w, h, s) BY <1>1, <1>4 DEF Sound
    <2>2. h.stream # s BY <1>0, <2>1 DEF Untouched
    <2> QED BY <1>1, <2>1, <2>2 DEF Untouched
  <1>5. Kept(d, b, g, l)
    <2>1. SUFFICES ASSUME d.spk # 0, ~d.ended PROVE Kept(d, b, g, l) BY DEF Kept
    <2> DEFINE a == Flying(w, d.spk)
               c == Flying(b, d.spk)
    <2>2. a \in Nat /\ c = a + Pcm(f, d.spk) BY <1>2, <1>n
    <2>3. /\ a <= Balance(d)
          /\ h.stream = d.spk =>
               a + h.credit <= Balance(d) /\ (l = 0 => a + h.credit = Balance(d))
      BY <2>1 DEF Sound, Kept
    <2> HIDE DEF a
    <2>4. CASE h.stream = d.spk
      <3>1. c = a + 1 BY <2>2, <2>4 DEF Pcm
      <3> HIDE DEF c
      <3>2. c + g.credit = a + h.credit /\ c <= a + h.credit BY <1>0, <2>2, <3>1
      <3>3. /\ c <= Balance(d)
            /\ c + g.credit <= Balance(d) /\ (l = 0 => c + g.credit = Balance(d))
        BY <1>0, <2>2, <2>3, <2>4, <3>1, <3>2
      <3> QED BY <3>3 DEF Kept, c
    <2>5. CASE h.stream # d.spk
      <3>1. c = a BY <2>2, <2>5 DEF Pcm
      <3> QED BY <2>3, <2>5, <3>1 DEF Kept
    <2> QED BY <2>4, <2>5
  <1> QED BY <1>1, <1>3, <1>4, <1>5 DEF Sound, b

\* The host reads the first frame that is outbound.
LEMMA SoundReads ==
  ASSUME NEW d, NEW e, NEW w \in Seq(WireFrames), NEW h, NEW g, NEW n \in Nat, NEW l \in Nat,
         Sound(d, w, h, n, l), Balance(d) \in Int, Out(d) \in Seq(Frames), Out(d) # <<>>,
         Out(e) = Tail(Out(d)), e.spk = d.spk, e.ended = d.ended, e.credit = d.credit, d.credit \in Int,
         NEW f, f = Head(Out(d)),
         \/ g.stream = h.stream /\ g.role = h.role /\ g.credit = h.credit
            /\ (f.kind # "credit" \/ f.stream # h.stream \/ h.role = "none")
         \/ g.stream = h.stream /\ g.role = h.role /\ f.kind = "credit" /\ f.stream = h.stream
            /\ g.credit = h.credit + f.amount
         \/ g.stream = h.stream /\ g.role = "none" /\ g.credit = h.credit
  PROVE  Sound(e, w, g, n, l)
  <1> DEFINE q == Out(d)
             t == Tail(q)
  <1>1. /\ t \in Seq(Frames) /\ Len(q) = Len(t) + 1 /\ Len(t) \in Nat /\ f = q[1] /\ f \in Frames
        /\ \A i \in 1..Len(t) : t[i] = q[i + 1]
    OBVIOUS
  <1>2. \A s : Granting(q, s) = Credit(f, s) + Granting(t, s) BY GrantingRest
  <1>3. \A s : Granting(q, s) \in Nat /\ Granting(t, s) \in Nat BY <1>1, GrantingType
  <1>4. q = Out(d) /\ t = Out(e) OBVIOUS
  <1> HIDE DEF q, t
  <1>5. ASSUME NEW s, NoCredit(q, s) PROVE NoCredit(t, s) /\ ~(f.kind = "credit" /\ f.stream = s)
    <2>1. 1 \in 1..Len(q) /\ \A i \in 1..Len(t) : i + 1 \in 1..Len(q) BY <1>1
    <2> QED BY <1>1, <1>5, <2>1 DEF NoCredit
  <1>6. f.amount \in Nat /\ h.credit \in Nat BY <1>1 DEF Frames, Sound
  <1>7. g.credit \in Nat /\ (g.role # "none" => g.stream # 0) BY <1>6 DEF Sound
  <1>8. ASSUME NEW s \in Nat \ {0}, Waiting(w, n, s) PROVE Untouched(e, w, g, s)
    <2>1. Untouched(d, w, h, s) BY <1>8 DEF Sound
    <2>2. NoCredit(t, s) /\ ~(f.kind = "credit" /\ f.stream = s) BY <1>4, <1>5, <2>1 DEF Untouched
    <2>3. g.stream = s => g.credit = 0 BY <2>1, <2>2 DEF Untouched
    <2> QED BY <1>4, <2>1, <2>2, <2>3 DEF Untouched
  <1>9. Kept(e, w, g, l)
    <2>1. SUFFICES ASSUME d.spk # 0, ~d.ended PROVE Kept(e, w, g, l) BY DEF Kept
    <2> DEFINE a == Flying(w, d.spk)
               c == Credit(f, d.spk)
               x == Balance(d)
               y == Balance(e)
    <2>2. a \in Nat BY FlyingType
    <2>3. c \in Nat /\ (f.kind = "credit" /\ f.stream = d.spk => c = f.amount)
          /\ (~(f.kind = "credit" /\ f.stream = d.spk) => c = 0)
      BY <1>6 DEF Credit
    <2>4. x \in Int /\ y = x + c
      <3> DEFINE m == Granting(q, d.spk)
                 r == Granting(t, d.spk)
                 k == d.credit
      <3>1. x = k - m /\ y = k - r BY <1>4 DEF Balance
      <3>2. m = c + r BY <1>2
      <3>3. k \in Int /\ r \in Nat BY <1>3
      <3>4. c \in Nat BY <2>3
      <3> HIDE DEF c, x, y, m, r, k
      <3> QED BY <3>1, <3>2, <3>3, <3>4
    <2>5. /\ a <= x
          /\ h.stream = d.spk /\ h.role = "speaker" =>
               a + h.credit <= x /\ (l = 0 => a + h.credit = x)
      BY <2>1 DEF Sound, Kept
    <2> HIDE DEF a, c, x, y
    <2>6. a <= y BY <2>2, <2>3, <2>4, <2>5
    <2>7. ASSUME g.stream = d.spk, g.role = "speaker"
          PROVE  a + g.credit <= y /\ (l = 0 => a + g.credit = y)
      <3>1. h.stream = d.spk /\ h.role = "speaker" BY <2>7
      <3>2. g.credit = h.credit + c BY <1>6, <2>3, <2>7, <3>1
      <3>3. a + h.credit <= x /\ (l = 0 => a + h.credit = x) BY <2>5, <3>1
      <3> DEFINE p == h.credit
                 r == g.credit
      <3>4. p \in Nat /\ r = p + c /\ a + p <= x /\ (l = 0 => a + p = x) BY <1>6, <3>2, <3>3
      <3>5. c \in Nat BY <2>3
      <3> HIDE DEF p, r
      <3>6. a + r <= y /\ (l = 0 => a + r = y) BY <2>2, <2>4, <3>4, <3>5
      <3> QED BY <3>6 DEF r
    <2> QED BY <2>6, <2>7 DEF Kept, a, y
  <1> QED BY <1>7, <1>8, <1>9 DEF Sound

\* The wire is cut, and the host starts over.
LEMMA SoundCut ==
  ASSUME NEW d, NEW w \in Seq(WireFrames), NEW h, NEW n \in Nat, NEW l \in Nat, Sound(d, w, h, n, l),
         Balance(d) \in Int
  PROVE  Sound(d, <<>>, Idle, n, l)
  <1>1. <<>> \in Seq(WireFrames) /\ Len(<<>>) = 0 /\ \A k \in 1..0 : FALSE OBVIOUS
  <1>2. Numbered(<<>>, n) /\ \A s : NoPcm(<<>>, s) BY <1>1 DEF Numbered, NoPcm
  <1>3. \A s : Waiting(<<>>, n, s) => Waiting(w, n, s) BY <1>1 DEF Waiting
  <1>4. Idle.credit = 0 /\ Idle.role = "none" BY DEF Idle
  <1>5. \A s \in Nat \ {0} : Waiting(<<>>, n, s) => Untouched(d, <<>>, Idle, s)
    BY <1>2, <1>3, <1>4 DEF Sound, Untouched
  <1>6. Kept(d, <<>>, Idle, l)
    <2>1. Flying(<<>>, d.spk) = 0 BY <1>1, <1>2, FlyingType
    <2>2. Flying(w, d.spk) \in Nat BY FlyingType
    <2>3. d.spk # 0 /\ ~d.ended => Flying(w, d.spk) <= Balance(d) BY DEF Sound, Kept
    <2> QED BY <1>4, <2>1, <2>2, <2>3 DEF Kept
  <1> QED BY <1>2, <1>4, <1>5, <1>6 DEF Sound
-----------------------------------------------------------------------------
Balanced ==
  /\ IInv /\ Orderly(device)
  /\ Sound(device, toDevice, host, streams, lost)

\* The counts of a state, and what is on the wire.
LEMMA BalancedTypes ==
  ASSUME Balanced
  PROVE  /\ Good(device) /\ Orderly(device) /\ Balance(device) \in Int /\ Out(device) \in Seq(Frames)
         /\ toDevice \in Seq(WireFrames) /\ streams \in Nat /\ lost \in Nat
         /\ toDevice \in Seq(HostFrames) /\ HostTypes /\ device.credit \in Int
         /\ \A k \in 1..Len(toDevice) : toDevice[k].kind # "hello" => toDevice[k].stream # 0
  <1>1. Good(device) /\ Orderly(device) /\ Wire /\ Counts /\ HostTypes BY DEF Balanced, IInv
  <1>2. streams \in Nat /\ lost \in Nat BY <1>1, Bounds DEF Counts
  <1>3. HostFrames \subseteq WireFrames BY <1>2, Bounds DEF HostFrames, WireFrames
  <1>4. toDevice \in Seq(WireFrames) BY <1>1, <1>3 DEF Wire
  <1>5. \A k \in 1..Len(toDevice) : toDevice[k].kind # "hello" => toDevice[k].stream # 0
    BY DEF Balanced, Sound, Numbered
  <1>6. device.credit \in Int BY <1>1, Bounds DEF Good, DeviceTypes
  <1>7. Balance(device) \in Int /\ Out(device) \in Seq(Frames) BY <1>1, BalanceType
  <1>8. toDevice \in Seq(HostFrames) BY <1>1 DEF Wire
  <1> QED BY <1>1, <1>2, <1>4, <1>5, <1>6, <1>7, <1>8

\* Nothing is outbound at first.
LEMMA BalancedInitially == Init => Balanced
  <1> SUFFICES ASSUME Init PROVE Balanced OBVIOUS
  <1>1. IInv BY Initially
  <1>2. /\ device.ring = <<>> /\ device.queue = <<>> /\ device.pending = <<>> /\ device.mic = 0 /\ device.spk = 0
        /\ device.micLast = 0 /\ device.credit = 0
        /\ toDevice = <<>> /\ host.credit = 0 /\ host.role = "none" /\ streams = 0
    BY DEF Init
  <1>3. <<>> \in Seq(Frames) /\ <<>> \in Seq(Nat) /\ <<>> \in Seq(WireFrames) /\ Len(<<>>) = 0 OBVIOUS
  <1>4. Len(Out(device)) = 0 BY <1>2 DEF Out
  <1>5. Queues(device) BY <1>2, <1>3, QueueBounds DEF Queues
  <1>6. Orderly(device) BY <1>2, <1>3, <1>4, <1>5 DEF Orderly, InOrder
  <1>7. \A s : NoCredit(Out(device), s) /\ NoPcm(toDevice, s) BY <1>2, <1>3, <1>4 DEF NoCredit, NoPcm
  <1>8. Numbered(toDevice, streams) BY <1>2, <1>3 DEF Numbered
  <1>9. Sound(device, toDevice, host, streams, lost) BY <1>2, <1>7, <1>8 DEF Sound, Untouched, Kept
  <1> QED BY <1>1, <1>6, <1>9 DEF Balanced

\* What a step owes.
LEMMA BalancedNext ==
  ASSUME IInv', Orderly(device'), Sound(device', toDevice', host', streams', lost')
  PROVE  Balanced'
  BY DEF Balanced, Orderly, Queues, Sound, Kept, Untouched, Balance, Out, NoCredit, InOrder,
         Numbered, Waiting, NoPcm, Flying, Granting

\* A callback that has nothing to do with the wire.
LEMMA BalancedCallback ==
  ASSUME Balanced, IInv', Follows(device, device'), UNCHANGED <<toDevice, host, streams, lost>>
  PROVE  Balanced'
  <1>1. Sound(device', toDevice, host, streams, lost) BY SoundLeads DEF Balanced, Follows
  <1>2. Sound(device', toDevice', host', streams', lost') BY <1>1
  <1> QED BY <1>2, BalancedNext DEF Follows
-----------------------------------------------------------------------------
\* The frame of the host that is read next.
LEMMA HeadFacts ==
  ASSUME Balanced, toDevice # <<>>
  PROVE  /\ Head(toDevice) \in HostFrames
         /\ Head(toDevice).kind # "hello" => Head(toDevice).stream # 0
  <1>1. toDevice \in Seq(HostFrames) BY BalancedTypes
  <1>2. Head(toDevice) = toDevice[1] /\ 1 \in 1..Len(toDevice) BY <1>1
  <1>3. Head(toDevice) \in HostFrames BY <1>1
  <1>4. toDevice[1].kind # "hello" => toDevice[1].stream # 0 BY <1>2, BalancedTypes
  <1> QED BY <1>2, <1>3, <1>4

\* What a frame makes of the device keeps the order and the balance, and so does
\* what follows from it.
LEMMA BalancedTaken ==
  ASSUME Balanced, IInv', NEW n \in Sizes, toDevice # <<>>, NEW x \in Taken(n),
         Follows(x, device'), toDevice' = Tail(toDevice), UNCHANGED <<host, streams, lost>>
  PROVE  Balanced'
  <1>0. n \in Nat BY Bounds DEF Sizes
  <1>1. /\ Good(device) /\ Orderly(device) /\ toDevice \in Seq(WireFrames) /\ streams \in Nat /\ lost \in Nat
    BY BalancedTypes
  <1>2. PICK d \in Refreshed(device) : d.connected /\ x = Handle(d, Head(toDevice), n)
    BY DEF Taken
  <1>3. Good(d) /\ Follows(device, d) BY <1>1, RefreshedGood, RefreshedFollows
  <1> DEFINE frame == Head(toDevice)
  <1>4. frame \in HostFrames /\ (frame.kind # "hello" => frame.stream # 0) BY HeadFacts
  <1>5. frame.kind \in {"micStart", "start"} => frame.stream # 0 BY <1>4
  <1>6. Sound(d, toDevice, host, streams, lost) BY <1>3, SoundLeads DEF Balanced, Follows
  <1>7. Orderly(d) BY <1>3 DEF Follows
  <1>x. x = Handle(d, frame, n) BY <1>2
  <1> HIDE DEF frame
  <1>8. Good(x) BY <1>0, <1>2, <1>3, <1>4, <1>5, <1>x, HandleGood
  <1>9. Handled(d, x, frame) BY <1>0, <1>2, <1>3, <1>4, <1>7, <1>x, HandleHandled
  <1>10. Sound(x, Tail(toDevice), host, streams, lost)
    BY <1>1, <1>3, <1>6, <1>7, <1>8, <1>9, SoundHandled DEF frame
  <1>11. Sound(device', toDevice', host, streams, lost) BY <1>10, SoundLeads DEF Follows
  <1>12. Sound(device', toDevice', host', streams', lost') BY <1>11
  <1> QED BY <1>12, BalancedNext DEF Follows

\* What Taken makes is in order.
LEMMA TakenOrderly ==
  ASSUME Balanced, NEW n \in Sizes, toDevice # <<>>, NEW x \in Taken(n)
  PROVE  Good(x) /\ Orderly(x)
  <1>0. n \in Nat BY Bounds DEF Sizes
  <1>1. Good(device) /\ Orderly(device) BY BalancedTypes
  <1>2. PICK d \in Refreshed(device) : d.connected /\ x = Handle(d, Head(toDevice), n)
    BY DEF Taken
  <1>3. Good(d) /\ Orderly(d) BY <1>1, RefreshedGood, RefreshedFollows DEF Follows
  <1> DEFINE frame == Head(toDevice)
  <1>4. frame \in HostFrames /\ (frame.kind # "hello" => frame.stream # 0) BY HeadFacts
  <1>x. x = Handle(d, frame, n) BY <1>2
  <1> HIDE DEF frame
  <1>5. Handled(d, x, frame) BY <1>0, <1>2, <1>3, <1>4, <1>x, HandleHandled
  <1>6. frame.kind \in {"micStart", "start"} => frame.stream # 0 BY <1>4
  <1> QED BY <1>0, <1>2, <1>3, <1>4, <1>5, <1>6, <1>x, HandleGood DEF Handled

\* The bridge reads a frame of the host.
LEMMA BalancedReadable ==
  ASSUME Balanced, IInv', NEW n \in Sizes, Readable(n)
  PROVE  Balanced'
  <1>1. Good(device) /\ Orderly(device) BY BalancedTypes
  <1>2. toDevice # <<>> /\ UNCHANGED <<host, streams, lost>> BY DEF Readable, counters
  <1>3. CASE \E d \in Refreshed(device) : device' = d /\ UNCHANGED toDevice
    BY <1>1, <1>2, <1>3, RefreshedFollows, BalancedCallback
  <1>4. ASSUME NEW x \in Taken(n), device' = Flush(x) \/ device' = x, toDevice' = Tail(toDevice)
        PROVE  Balanced'
    <2>1. Good(x) /\ Orderly(x) BY <1>2, TakenOrderly
    <2>2. Follows(x, Flush(x)) BY <2>1, FlushFollows
    <2>3. Follows(x, x) BY <2>1, LeadsItself DEF Follows
    <2>4. Follows(x, device') BY <1>4, <2>2, <2>3
    <2> QED BY <1>2, <1>4, <2>4, BalancedTaken
  <1> QED BY <1>3, <1>4 DEF Readable

\* The bridge looks after its sessions.
LEMMA BalancedMaintain ==
  ASSUME Balanced, IInv', NEW n \in Sizes, Maintain(n)
  PROVE  Balanced'
  <1>0. n \in Nat BY Bounds DEF Sizes
  <1>1. Good(device) /\ Orderly(device) BY BalancedTypes
  <1>2. PICK d \in Refreshed(device) :
          device' = IF d.connected THEN RefreshCredit(Poll(MaybeStart(d), n)) ELSE d
    BY DEF Maintain, Maintained
  <1>3. Good(d) /\ Follows(device, d) BY <1>1, RefreshedGood, RefreshedFollows
  <1> DEFINE a == MaybeStart(d)
             b == Poll(a, n)
             c == RefreshCredit(b)
  <1>4. Good(a) /\ Follows(d, a) BY <1>3, MaybeStartGood, MaybeStartFollows DEF Follows
  <1> HIDE DEF a
  <1>5. Good(b) /\ Follows(a, b) BY <1>0, <1>4, PollGood, PollFollows DEF Follows
  <1> HIDE DEF b
  <1>6. Follows(b, c) BY <1>5, RefreshCreditFollows DEF Follows
  <1> HIDE DEF c
  <1>7. device' = d \/ device' = c BY <1>2 DEF a, b, c
  <1>8. Orderly(c) /\ Leads(device, d) /\ Leads(d, a) /\ Leads(a, b) /\ Leads(b, c)
    BY <1>3, <1>4, <1>5, <1>6 DEF Follows
  <1>9. Leads(device, a) BY <1>8, LeadsOn
  <1>10. Leads(device, b) BY <1>8, <1>9, LeadsOn
  <1>11. Leads(device, c) BY <1>8, <1>10, LeadsOn
  <1>12. Follows(device, device') BY <1>3, <1>7, <1>8, <1>11 DEF Follows
  <1>13. UNCHANGED <<toDevice, host, streams, lost>> BY DEF Maintain, counters
  <1> QED BY <1>12, <1>13, BalancedCallback

\* A frame of the host is lost.
LEMMA BalancedFrameLost ==
  ASSUME Balanced, IInv', FrameLost
  PROVE  Balanced'
  <1>1. /\ toDevice \in Seq(WireFrames) /\ streams \in Nat /\ lost \in Nat /\ Balance(device) \in Int
    BY BalancedTypes
  <1>2. /\ toDevice # <<>> /\ lost' = lost + 1 /\ toDevice' = Tail(toDevice)
        /\ UNCHANGED <<device, host, streams>>
    BY DEF FrameLost
  <1>3. Sound(device, toDevice, host, streams, lost) BY DEF Balanced
  <1>4. lost + 1 \in Nat /\ lost + 1 # 0 BY <1>1
  <1>5. Sound(device, Tail(toDevice), host, streams, lost + 1) BY <1>1, <1>2, <1>3, <1>4, SoundRest
  <1>6. Orderly(device') /\ Sound(device', toDevice', host', streams', lost')
    BY <1>2, <1>5 DEF Balanced
  <1> QED BY <1>6, BalancedNext

\* An event waits, and may be sent.
LEMMA BalancedSendEvent ==
  ASSUME Balanced, IInv', SendEvent
  PROVE  Balanced'
  <1>1. Good(device) /\ Orderly(device) BY BalancedTypes
  <1> DEFINE e == [device EXCEPT !.pending = Append(@, device.epoch)]
  <1>2. device' = device \/ device' = Flush(e) BY DEF SendEvent
  <1>3. Good(e)
    <2>1. Same(device, e) BY <1>1 DEF Good, Same, IsDevice, Fields, Outgoing
    <2> HIDE DEF e
    <2> QED BY <1>1, <2>1, SameGood
  <1>4. /\ e.pending = Append(device.pending, device.epoch)
        /\ \A f \in Fields \ {"pending"} : e[f] = device[f]
    BY <1>1 DEF Good, IsDevice, Fields
  <1> HIDE DEF e
  <1>5. device.pending \in Seq(Nat) /\ device.epoch \in Nat BY <1>1 DEF Good, DeviceTypes, Orderly, Queues
  <1>6. e.pending \in Seq(Nat) /\ \A i \in 1..Len(e.pending) : e.pending[i] = device.epoch
    <2>1. e.pending \in Seq(Nat) BY <1>4, <1>5
    <2>2. ASSUME NEW i \in 1..Len(e.pending) PROVE e.pending[i] = device.epoch
      <3>1. i \in 1..Len(device.pending) \/ i = Len(device.pending) + 1 BY <1>4, <1>5
      <3>2. i \in 1..Len(device.pending) => device.pending[i] = device.epoch BY <1>1 DEF Orderly
      <3> QED BY <1>4, <1>5, <3>1, <3>2
    <2> QED BY <2>1, <2>2
  <1>7. \A f \in {"ring", "queue", "epoch", "since", "mic", "micLast", "spk", "credit", "ended"} : e[f] = device[f]
    BY <1>4 DEF Fields
  <1>8. Out(e) = Out(device) BY <1>7 DEF Out
  <1>9. Orderly(e) BY <1>1, <1>6, <1>7, <1>8 DEF Orderly, Queues
  <1>10. Leads(device, e) BY <1>7, <1>8 DEF Leads, Balance
  <1>11. Follows(e, Flush(e)) BY <1>3, <1>9, FlushFollows
  <1>12. Leads(device, Flush(e)) BY <1>10, <1>11, LeadsOn DEF Follows
  <1>13. Follows(device, Flush(e)) BY <1>11, <1>12 DEF Follows
  <1>14. Follows(device, device) BY <1>1, LeadsItself DEF Follows
  <1>15. Follows(device, device') BY <1>2, <1>13, <1>14
  <1>16. UNCHANGED <<toDevice, host, streams, lost>> BY DEF SendEvent
  <1> QED BY <1>15, <1>16, BalancedCallback

\* A callback of the driver throws.
LEMMA BalancedFails ==
  ASSUME Balanced, IInv', NEW n \in Sizes, CallbackFails(n)
  PROVE  Balanced'
  <1>1. Good(device) /\ Orderly(device) BY BalancedTypes
  <1>2. UNCHANGED <<host, streams, lost>> BY DEF CallbackFails
  <1>3. CASE device' = StopSpeaker(StopMicrophone(device)) /\ UNCHANGED toDevice
    BY <1>1, <1>2, <1>3, StopBothFollows, BalancedCallback
  <1>4. ASSUME toDevice # <<>>, toDevice' = Tail(toDevice),
               NEW x \in Taken(n), device' = StopSpeaker(StopMicrophone(x))
        PROVE  Balanced'
    <2>1. Good(x) /\ Orderly(x) BY <1>4, TakenOrderly
    <2>2. Follows(x, device') BY <1>4, <2>1, StopBothFollows
    <2> QED BY <1>2, <1>4, <2>2, BalancedTaken
  <1> QED BY <1>3, <1>4 DEF CallbackFails

\* The driver fails, or the bridge is closed.
LEMMA BalancedStops ==
  ASSUME Balanced, IInv', Dies
  PROVE  Balanced'
  <1>1. Good(device) /\ Orderly(device) BY BalancedTypes
  <1>2. UNCHANGED <<toDevice, host, streams, lost>> BY DEF Dies
  <1>4. CASE Dies
    <2> DEFINE r == ResetConnection(device)
               e == [r EXCEPT !.alive = FALSE, !.connected = FALSE, !.missing = FALSE]
    <2>1. Good(r) /\ Follows(device, r) BY <1>1, ResetGood, ResetFollows
    <2>2. device' = e BY <1>4 DEF Dies
    <2> HIDE DEF r
    <2>3. \A f \in {"ring", "queue", "pending", "epoch", "since", "mic", "micLast", "spk", "credit", "ended"} :
            e[f] = r[f]
      BY <2>1 DEF Good, IsDevice, Fields
    <2> HIDE DEF e
    <2>4. Orderly(e) /\ Leads(r, e) BY <2>1, <2>3, FieldsKept DEF Follows
    <2>5. Leads(device, e) BY <2>1, <2>4, LeadsOn DEF Follows
    <2> QED BY <1>2, <2>2, <2>4, <2>5, BalancedCallback DEF Follows
  <1> QED BY <1>4

\* A callback of the microphone.
LEMMA BalancedMicrophone ==
  ASSUME Balanced, IInv', MicrophoneStarted \/ MicrophoneReadable \/ MicrophoneError
  PROVE  Balanced'
  <1>1. Good(device) /\ Orderly(device) BY BalancedTypes
  <1>2. UNCHANGED <<toDevice, host, streams, lost>>
    BY DEF MicrophoneStarted, MicrophoneReadable, MicrophoneError, counters
  <1>3. device.input # "closed" BY DEF MicrophoneStarted, MicrophoneReadable, MicrophoneError
  <1>4. device.mic # 0 /\ device.spk = 0 /\ device.since = device.epoch /\ device.mic \in Nat
    <2>1. device.mic # 0 /\ device.spk = 0 BY <1>1, <1>3 DEF Good, Duplex
    <2>2. device.mic \in Nat BY <1>1 DEF Good, DeviceTypes
    <2> QED BY <1>1, <2>1, <2>2 DEF Orderly
  <1>5. "started" \in Kinds \ {"credit"} /\ "mic" \in Kinds \ {"credit"} /\ "overflow" \in Kinds \ {"credit"}
        /\ "audio" \in Kinds \ {"credit"}
    BY DEF Kinds
  \* What closes the microphone on an error.
  <1>6. ASSUME NEW code \in Kinds \ {"credit"} PROVE Follows(device, StopMicrophone(SendError(device, code, device.mic)))
    <2> DEFINE s == SendError(device, code, device.mic)
               m == StopMicrophone(s)
    <2>1. Good(s) /\ s.spk = device.spk BY <1>1, SendErrorGood DEF Fields, Outgoing
    <2>2. Follows(device, s) BY <1>1, <1>4, SendErrorFollows
    <2> HIDE DEF s
    <2>3. Orderly(m) /\ Leads(s, m) BY <1>4, <2>1, <2>2, StopMicrophoneFollows DEF Follows
    <2> HIDE DEF m
    <2>4. Leads(device, m) BY <2>2, <2>3, LeadsOn DEF Follows
    <2>5. Follows(device, m) BY <2>3, <2>4 DEF Follows
    <2> QED BY <2>5 DEF m, s
  <1>7. CASE MicrophoneStarted
    <2> DEFINE e == [device EXCEPT !.input = "started"]
               s == Send(e, Frame("started", device.mic, 0, device.since))
    <2>1. device' = s BY <1>7 DEF MicrophoneStarted
    <2>2. /\ IsDevice(e) /\ e.input = "started" /\ \A f \in Fields \ {"input"} : e[f] = device[f]
      BY <1>1 DEF Good, IsDevice, Fields
    <2> HIDE DEF e
    <2>3. DeviceTypes(e) BY <1>1, <2>2 DEF Good, DeviceTypes, Fields
    <2>4. Good(e) BY <1>1, <1>3, <2>2, <2>3 DEF Good, Duplex, Room, Fields
    <2>5. \A f \in {"ring", "queue", "pending", "epoch", "since", "mic", "micLast", "spk", "credit", "ended"} :
            e[f] = device[f]
      BY <2>2 DEF Fields
    <2>6. Orderly(e) /\ Leads(device, e) BY <1>1, <2>5, FieldsKept
    <2>7. Follows(e, s) BY <1>4, <1>5, <2>4, <2>5, <2>6, SendPlain
    <2> HIDE DEF s
    <2>8. Leads(device, s) BY <2>6, <2>7, LeadsOn DEF Follows
    <2> QED BY <1>2, <2>1, <2>7, <2>8, BalancedCallback DEF Follows
  <1>8. CASE MicrophoneReadable
    <2>1. \/ device' = Send(device, Frame("mic", device.mic, 0, device.since))
          \/ device' = StopMicrophone(SendError(device, "overflow", device.mic))
      BY <1>8 DEF MicrophoneReadable
    <2>2. Follows(device, Send(device, Frame("mic", device.mic, 0, device.since)))
      BY <1>1, <1>4, <1>5, SendPlain
    <2>3. Follows(device, device') BY <1>5, <1>6, <2>1, <2>2
    <2> QED BY <1>2, <2>3, BalancedCallback
  <1>9. CASE MicrophoneError
    <2>1. Follows(device, device') BY <1>5, <1>6, <1>9 DEF MicrophoneError
    <2> QED BY <1>2, <2>1, BalancedCallback
  <1> QED BY <1>7, <1>8, <1>9

\* A callback of the speaker.
LEMMA BalancedSpeaker ==
  ASSUME Balanced, IInv', SpeakerDrained \/ SpeakerError
  PROVE  Balanced'
  <1>1. Good(device) /\ Orderly(device) BY BalancedTypes
  <1>2. UNCHANGED <<toDevice, host, streams, lost>> BY DEF SpeakerDrained, SpeakerError, counters
  <1>3. device.output # "closed" BY DEF SpeakerDrained, SpeakerError
  <1>4. device.spk # 0 /\ device.spk \in Nat
    <2>1. device.spk # 0 BY <1>1, <1>3 DEF Good, Duplex
    <2>2. device.spk \in Nat BY <1>1 DEF Good, DeviceTypes
    <2> QED BY <2>1, <2>2
  <1>5. CASE SpeakerDrained
    <2>1. Follows(device, device') BY <1>1, <1>4, <1>5, CompleteSpeakerFollows DEF SpeakerDrained
    <2> QED BY <1>2, <2>1, BalancedCallback
  <1>6. CASE SpeakerError
    <2> DEFINE s == SendError(device, "audio", device.spk)
               e == StopSpeaker(s)
    <2>1. Good(s) BY <1>1, SendErrorGood
    <2>2. "audio" \in Kinds \ {"credit"} BY DEF Kinds
    <2>3. Follows(device, s) BY <1>1, <1>4, <2>2, SendErrorFollows
    <2>4. device' = e BY <1>6 DEF SpeakerError
    <2> HIDE DEF s
    <2>5. Follows(s, e) BY <2>1, <2>3, StopSpeakerFollows DEF Follows
    <2> HIDE DEF e
    <2>6. Leads(device, e) BY <2>3, <2>5, LeadsOn DEF Follows
    <2> QED BY <1>2, <2>4, <2>5, <2>6, BalancedCallback DEF Follows
  <1> QED BY <1>5, <1>6

\* Every callback of the bridge keeps the order and the balance.
LEMMA BalancedCallbacks == Balanced /\ Callbacks => Balanced'
  <1> SUFFICES ASSUME Balanced, Callbacks PROVE Balanced' OBVIOUS
  <1>1. IInv' BY CallbacksStep DEF Balanced
  <1>2. CASE Writable
    <2>1. Good(device) /\ Orderly(device) BY BalancedTypes
    <2>2. Follows(device, device') BY <1>2, <2>1, FlushFollows DEF Writable
    <2>3. UNCHANGED <<toDevice, host, streams, lost>> BY <1>2 DEF Writable, counters
    <2> QED BY <1>1, <2>2, <2>3, BalancedCallback
  <1> QED
    BY <1>1, <1>2, BalancedReadable, BalancedMaintain, BalancedFrameLost, BalancedSendEvent,
       BalancedFails, BalancedStops, BalancedMicrophone, BalancedSpeaker
       DEF Callbacks
-----------------------------------------------------------------------------
\* The host sends a frame that is not PCM.
LEMMA BalancedSends ==
  ASSUME Balanced, IInv', NEW kind \in {"hello", "micStart", "micStop", "start", "end", "abort"}, NEW s \in Nat,
         HostSends(kind, s, 0), streams' = streams \/ streams' = streams + 1, s <= streams',
         kind # "hello" => s # 0, kind = "start" => s > streams,
         host'.role # "none" => host'.stream # 0, host'.role = "speaker" => host'.stream = streams + 1,
         host'.credit = 0 \/ (host'.stream = host.stream /\ host'.credit = host.credit)
  PROVE  Balanced'
  <1> DEFINE f == [kind |-> kind, stream |-> s, seq |-> 0]
  <1>1. /\ toDevice \in Seq(WireFrames) /\ streams \in Nat /\ lost \in Nat
    BY BalancedTypes
  <1>2. f \in WireFrames /\ f.kind = kind /\ f.stream = s BY DEF WireFrames
  <1>3. toDevice' = Append(toDevice, f) /\ UNCHANGED <<device, lost>> BY DEF HostSends
  <1> HIDE DEF f
  <1>4. f.kind # "pcm" /\ f.stream <= streams' /\ (f.kind # "hello" => f.stream # 0)
        /\ (f.kind = "start" => f.stream > streams) /\ streams' \in {streams, streams + 1}
    BY <1>2
  <1>5. Sound(device, toDevice, host, streams, lost) BY DEF Balanced
  <1>6. Sound(device, Append(toDevice, f), host', streams', lost) BY <1>1, <1>2, <1>4, <1>5, SoundSends
  <1>7. Orderly(device') /\ Sound(device', toDevice', host', streams', lost')
    BY <1>3, <1>6 DEF Balanced
  <1> QED BY <1>7, BalancedNext

\* The host spends credit.
LEMMA BalancedPcm ==
  ASSUME Balanced, IInv', HostPcm
  PROVE  Balanced'
  <1> DEFINE f == [kind |-> "pcm", stream |-> host.stream, seq |-> host.seq]
  <1>1. /\ toDevice \in Seq(WireFrames) /\ streams \in Nat /\ lost \in Nat /\ HostTypes /\ Balance(device) \in Int
    BY BalancedTypes
  <1>2. host.stream \in Nat /\ host.stream <= streams /\ host.seq \in Nat BY <1>1, Bounds DEF HostTypes
  <1>3. f \in WireFrames /\ f.kind = "pcm" /\ f.stream = host.stream BY <1>2 DEF WireFrames
  <1>4. toDevice' = Append(toDevice, f) /\ UNCHANGED <<device, streams, lost>> BY DEF HostPcm, HostSends
  <1> HIDE DEF f
  <1>5. host.role = "speaker" /\ host.credit > 0 BY DEF HostPcm
  <1>6. host'.role = host.role /\ host'.stream = host.stream /\ host'.credit = host.credit - 1
    BY <1>1 DEF HostPcm, HostTypes, HostFields
  <1>7. Sound(device, toDevice, host, streams, lost) BY DEF Balanced
  <1>8. Sound(device, Append(toDevice, f), host', streams, lost) BY <1>1, <1>2, <1>3, <1>5, <1>6, <1>7, SoundPcm
  <1>9. Orderly(device') /\ Sound(device', toDevice', host', streams', lost')
    BY <1>4, <1>8 DEF Balanced
  <1> QED BY <1>9, BalancedNext

\* The rest of what is outbound.
LEMMA OutRest ==
  ASSUME NEW a \in Seq(Frames), NEW b \in Seq(Frames), a # <<>>
  PROVE  /\ Tail(a) \in Seq(Frames) /\ Len(Tail(a)) = Len(a) - 1
         /\ Cat(a, b) # <<>> /\ Head(Cat(a, b)) = Head(a) /\ Tail(Cat(a, b)) = Cat(Tail(a), b)
  <1> DEFINE t == Tail(a)
             x == Cat(a, b)
             y == Cat(t, b)
             z == Tail(x)
  <1>1. /\ t \in Seq(Frames) /\ Len(t) = Len(a) - 1 /\ Len(a) \in Nat /\ Len(b) \in Nat /\ Len(a) > 0
        /\ Head(a) = a[1] /\ \A i \in 1..Len(t) : t[i] = a[i + 1]
    OBVIOUS
  <1> HIDE DEF t
  <1>2. /\ x \in Seq(Frames) /\ Len(x) = Len(a) + Len(b)
        /\ \A i \in 1..Len(a) : x[i] = a[i]
        /\ \A i \in 1..Len(b) : x[Len(a) + i] = b[i]
    BY Joined
  <1>3. /\ y \in Seq(Frames) /\ Len(y) = Len(t) + Len(b)
        /\ \A i \in 1..Len(t) : y[i] = t[i]
        /\ \A i \in 1..Len(b) : y[Len(t) + i] = b[i]
    BY <1>1, Joined
  <1> HIDE DEF x, y
  <1>4. x # <<>> /\ Head(x) = x[1] /\ 1 \in 1..Len(a) BY <1>1, <1>2
  <1>5. z \in Seq(Frames) /\ Len(z) = Len(x) - 1 /\ \A i \in 1..Len(z) : z[i] = x[i + 1]
    BY <1>2, <1>4
  <1> HIDE DEF z
  <1>6. ASSUME NEW i \in 1..Len(z) PROVE z[i] = y[i]
    <2>1. CASE i \in 1..Len(t)
      <3>1. i + 1 \in 1..Len(a) BY <1>1, <2>1
      <3> QED BY <1>1, <1>2, <1>3, <1>5, <2>1, <3>1
    <2>2. CASE i > Len(t)
      <3>1. i - Len(t) \in 1..Len(b) /\ Len(t) + (i - Len(t)) = i /\ Len(a) + (i - Len(t)) = i + 1
        BY <1>1, <1>2, <1>5, <2>2
      <3>2. x[i + 1] = b[i - Len(t)] BY <1>2, <3>1
      <3>3. y[i] = b[i - Len(t)] BY <1>3, <3>1
      <3> QED BY <1>5, <3>2, <3>3
    <2> QED BY <1>1, <1>2, <1>5, <2>1, <2>2
  <1>7. Len(z) = Len(y) BY <1>1, <1>2, <1>3, <1>5
  <1>8. z = y BY <1>3, <1>5, <1>6, <1>7, SeqEqual
  <1>9. Head(x) = Head(a) BY <1>1, <1>2, <1>4
  <1> QED BY <1>1, <1>4, <1>8, <1>9 DEF t, x, y, z

\* The rest is some of what was.
LEMMA RestIsSome ==
  ASSUME NEW q \in Seq(Frames), q # <<>>
  PROVE  SomeOf(Tail(q), q, Len(q))
  <1> DEFINE t == Tail(q)
             at == [i \in 1..Len(t) |-> i + 1]
  <1>1. Len(t) = Len(q) - 1 /\ Len(q) \in Nat /\ Len(t) \in Nat /\ \A i \in 1..Len(t) : t[i] = q[i + 1] OBVIOUS
  <1> HIDE DEF t
  <1>2. at \in [1..Len(t) -> 1..Len(q)] BY <1>1
  <1>3. \A i \in 1..Len(t) : at[i] = i + 1 OBVIOUS
  <1> HIDE DEF at
  <1>4. \A i \in 1..Len(t) : t[i] = q[at[i]] BY <1>1, <1>3
  <1>5. \A i, j \in 1..Len(t) : i < j => at[i] < at[j] BY <1>1, <1>3
  <1>6. SomeOf(t, q, Len(q)) BY <1>2, <1>4, <1>5 DEF SomeOf
  <1> QED BY <1>6 DEF t

\* The host reads the first frame.
LEMMA BalancedReads ==
  ASSUME Balanced, IInv', HostReads
  PROVE  Balanced'
  <1>1. /\ toDevice \in Seq(WireFrames) /\ streams \in Nat /\ lost \in Nat /\ HostTypes /\ Balance(device) \in Int
        /\ Good(device) /\ Orderly(device) /\ Out(device) \in Seq(Frames) /\ device.credit \in Int
    BY BalancedTypes
  <1>2. device.ring # <<>> /\ UNCHANGED <<toDevice, streams, lost>> BY DEF HostReads, counters
  <1> DEFINE t == Tail(device.ring)
             e == [device EXCEPT !.ring = t]
             f == Head(device.ring)
  <1>3. device' = e BY DEF HostReads
  <1>4. device.ring \in Seq(Frames) /\ device.queue \in Seq(Frames) BY <1>1 DEF Orderly, Queues
  <1>5. t \in Seq(Frames) /\ Len(t) = Len(device.ring) - 1 BY <1>2, <1>4, OutRest
  <1>6. Out(device) # <<>> /\ f = Head(Out(device)) /\ Tail(Out(device)) = t \o device.queue
    BY <1>2, <1>4, OutRest DEF Cat, Out
  <1>7. \/ host' = host /\ f.kind # "credit"
        \/ host' = [host EXCEPT !.ready = TRUE] /\ f.kind # "credit"
        \/ host' = host /\ (f.stream # host.stream \/ host.role = "none")
        \/ host' = [host EXCEPT !.credit = @ + f.amount] /\ f.kind = "credit" /\ f.stream = host.stream
        \/ host' = [host EXCEPT !.role = "none"]
    BY DEF HostReads
  <1> HIDE DEF t
  <1>8. e.ring = t /\ \A g \in Fields \ {"ring"} : e[g] = device[g]
    BY <1>1 DEF Good, IsDevice, Fields
  <1> HIDE DEF e, f
  <1>9. /\ e.queue = device.queue /\ e.pending = device.pending /\ e.epoch = device.epoch /\ e.since = device.since
        /\ e.mic = device.mic /\ e.micLast = device.micLast
        /\ e.spk = device.spk /\ e.credit = device.credit /\ e.ended = device.ended
    BY <1>8 DEF Fields
  <1>10. Out(e) = Tail(Out(device)) BY <1>6, <1>8, <1>9 DEF Out
  <1>11. Queues(e)
    <2>1. Len(device.ring) \in Nat /\ RingFrames \in Nat /\ Len(device.ring) <= RingFrames
      BY <1>1, <1>4, QueueBounds DEF Orderly, Queues
    <2>2. Len(t) <= RingFrames BY <1>5, <2>1
    <2> QED BY <1>1, <1>5, <1>8, <1>9, <2>2 DEF Orderly, Queues
  <1>12. InOrder(Out(e), e.epoch)
    <2>1. Out(e) \in Seq(Frames) BY <1>1, <1>6, <1>10
    <2>2. SomeOf(Out(e), Out(device), Len(Out(device))) BY <1>1, <1>6, <1>10, RestIsSome
    <2>3. \A n \in Nat : InOrder(Out(device), n) => InOrder(Out(e), n) BY <1>1, <2>1, <2>2, SomeInOrder
    <2>4. device.epoch \in Nat /\ InOrder(Out(device), device.epoch) BY <1>1 DEF Good, DeviceTypes, Orderly
    <2> QED BY <1>9, <2>3, <2>4
  <1>13. Orderly(e) BY <1>1, <1>9, <1>11, <1>12 DEF Orderly
  <1>14. \/ host'.stream = host.stream /\ host'.role = host.role /\ host'.credit = host.credit
            /\ (f.kind # "credit" \/ f.stream # host.stream \/ host.role = "none")
         \/ host'.stream = host.stream /\ host'.role = host.role /\ f.kind = "credit" /\ f.stream = host.stream
            /\ host'.credit = host.credit + f.amount
         \/ host'.stream = host.stream /\ host'.role = "none" /\ host'.credit = host.credit
    BY <1>1, <1>7 DEF HostTypes, HostFields
  <1>15. Sound(device, toDevice, host, streams, lost) BY DEF Balanced
  <1>16. Sound(e, toDevice, host', streams, lost)
    <2> SUFFICES ASSUME NEW g, g = host' PROVE Sound(e, toDevice, g, streams, lost) OBVIOUS
    <2>1. \/ g.stream = host.stream /\ g.role = host.role /\ g.credit = host.credit
             /\ (f.kind # "credit" \/ f.stream # host.stream \/ host.role = "none")
          \/ g.stream = host.stream /\ g.role = host.role /\ f.kind = "credit" /\ f.stream = host.stream
             /\ g.credit = host.credit + f.amount
          \/ g.stream = host.stream /\ g.role = "none" /\ g.credit = host.credit
      BY <1>14
    <2>2. Out(device) # <<>> /\ f = Head(Out(device)) BY <1>6
    <2>3. e.spk = device.spk /\ e.ended = device.ended /\ e.credit = device.credit BY <1>9
    <2>4. /\ toDevice \in Seq(WireFrames) /\ streams \in Nat /\ lost \in Nat /\ Balance(device) \in Int
          /\ Out(device) \in Seq(Frames) /\ device.credit \in Int
      BY <1>1
    <2> QED BY ONLY <1>10, <1>15, <2>1, <2>2, <2>3, <2>4, SoundReads
  <1>17. Sound(device', toDevice', host', streams', lost') BY <1>2, <1>3, <1>16
  <1>18. Orderly(device') BY <1>3, <1>13
  <1> QED BY <1>17, <1>18, BalancedNext

\* Every step of the host keeps the order and the balance.
LEMMA BalancedHost == Balanced /\ Host => Balanced'
  <1> SUFFICES ASSUME Balanced, Host PROVE Balanced' OBVIOUS
  <1>1. IInv' BY HostStep DEF Balanced
  <1>2. /\ streams \in Nat /\ HostTypes /\ host.stream \in 0..streams
        /\ host.role # "none" => host.stream # 0
    BY BalancedTypes DEF HostTypes, Balanced, Sound
  <1>3. CASE HostHello
    <2>1. HostSends("hello", 0, 0) /\ host' = Idle /\ UNCHANGED streams BY <1>3 DEF HostHello
    <2>2. host'.role = "none" /\ host'.credit = 0 BY <2>1 DEF Idle
    <2> QED BY <1>1, <1>2, <2>1, <2>2, BalancedSends
  <1>4. ASSUME NEW role \in {"mic", "speaker"}, HostStarts(role) PROVE Balanced'
    <2> DEFINE kind == IF role = "mic" THEN "micStart" ELSE "start"
    <2>1. streams' = streams + 1 /\ HostSends(kind, streams + 1, 0) BY <1>4 DEF HostStarts
    <2>2. kind \in {"micStart", "start"} OBVIOUS
    <2>3. host'.stream = streams + 1 /\ host'.credit = 0 BY <1>2, <1>4 DEF HostStarts, HostTypes, HostFields
    <2> HIDE DEF kind
    <2>4. streams + 1 \in Nat /\ streams + 1 # 0 /\ streams + 1 > streams /\ streams + 1 <= streams'
      BY <1>2, <2>1
    <2> QED BY <1>1, <2>1, <2>2, <2>3, <2>4, BalancedSends
  <1>5. CASE HostEnds
    <2>1. HostSends("end", host.stream, 0) /\ UNCHANGED streams /\ host.role = "speaker" BY <1>5 DEF HostEnds
    <2>2. host'.role = "ending" /\ host'.stream = host.stream /\ host'.credit = host.credit
      BY <1>2, <1>5 DEF HostEnds, HostTypes, HostFields
    <2>3. host.stream \in Nat /\ host.stream # 0 /\ host.stream <= streams' BY <1>2, <2>1
    <2> QED BY <1>1, <2>1, <2>2, <2>3, BalancedSends
  <1>6. CASE HostStops
    <2> DEFINE kind == IF host.role = "mic" THEN "micStop" ELSE "abort"
    <2>1. HostSends(kind, host.stream, 0) /\ UNCHANGED streams /\ host.role # "none" BY <1>6 DEF HostStops
    <2>2. kind \in {"micStop", "abort"} OBVIOUS
    <2>3. host'.role = "none" /\ host'.stream = host.stream /\ host'.credit = host.credit
      BY <1>2, <1>6 DEF HostStops, HostTypes, HostFields
    <2> HIDE DEF kind
    <2>4. host.stream \in Nat /\ host.stream # 0 /\ host.stream <= streams' BY <1>2, <2>1
    <2> QED BY <1>1, <2>1, <2>2, <2>3, <2>4, BalancedSends
  <1> QED BY <1>1, <1>3, <1>4, <1>5, <1>6, BalancedPcm, BalancedReads DEF Host

\* And of the cable.
LEMMA BalancedCable == Balanced /\ (CableFails \/ CableBack) => Balanced'
  <1> SUFFICES ASSUME Balanced, CableFails \/ CableBack PROVE Balanced' OBVIOUS
  <1>1. IInv' BY CableStep DEF Balanced
  <1>2. /\ toDevice \in Seq(WireFrames) /\ streams \in Nat /\ lost \in Nat /\ Balance(device) \in Int
    BY BalancedTypes
  <1>3. Sound(device, toDevice, host, streams, lost) /\ Orderly(device) BY DEF Balanced
  <1>4. Sound(device, <<>>, Idle, streams, lost) BY <1>2, <1>3, SoundCut
  <1>5. UNCHANGED <<device, streams, lost>> BY DEF CableFails, CableBack, counters
  <1>6. UNCHANGED <<toDevice, host>> \/ (toDevice' = <<>> /\ host' = Idle) BY DEF CableFails, CableBack
  <1>7. Sound(device, toDevice', host', streams, lost) BY <1>3, <1>4, <1>6
  <1>8. Orderly(device') /\ Sound(device', toDevice', host', streams', lost') BY <1>3, <1>5, <1>7
  <1> QED BY <1>1, <1>8, BalancedNext

\* Order and balance are kept in every state.
LEMMA BalancedInvariance == Spec => []Balanced
  <1>1. Balanced /\ UNCHANGED vars => Balanced'
    <2> SUFFICES ASSUME Balanced, UNCHANGED vars PROVE Balanced' OBVIOUS
    <2>1. IInv'
      <3>1. HostFrames' = HostFrames BY DEF vars, HostFrames
      <3> QED
        BY <3>1 DEF vars, counters, Balanced, IInv, Good, DeviceTypes, IsDevice, Duplex, Room, Wire,
               HostTypes, Counts
    <2>2. UNCHANGED <<device, toDevice, host, streams, lost>> BY DEF vars, counters
    <2>3. Follows(device, device') BY <2>2, LeadsItself DEF Balanced, Follows
    <2> QED BY <2>1, <2>2, <2>3, BalancedCallback
  <1>2. Balanced /\ [Next]_vars => Balanced' BY <1>1, BalancedCallbacks, BalancedHost, BalancedCable DEF Next
  <1> QED BY BalancedInitially, <1>2, PTL DEF Spec

\* Whatever waits, is dropped or does not fit, and however often HELLO is
\* repeated, what is outbound after the acknowledgement of a HELLO is of no
\* earlier one.
THEOREM FreshAlways == Spec => []FreshAfterHello
  <1>1. ASSUME Balanced PROVE FreshAfterHello
    <2>1. InOrder(Out(device), device.epoch) BY <1>1 DEF Balanced, Orderly
    <2>2. Out(device) = Outbound BY DEF Out, Outbound
    <2>3. \A i, j \in 1..Len(Outbound) : i < j => Outbound[i].epoch <= Outbound[j].epoch
      BY <2>1, <2>2 DEF InOrder
    <2>4. Outbound \in Seq(Frames) BY <1>1, <2>2, BalancedTypes
    <2>5. ASSUME NEW i \in 1..Len(Outbound) PROVE Outbound[i].epoch \in Nat
      <3>1. Outbound[i] \in Frames BY <2>4
      <3> QED BY <3>1 DEF Frames
    <2> HIDE DEF Outbound
    <2> QED BY <2>3, <2>5 DEF FreshAfterHello
  <1>2. Balanced => FreshAfterHello BY <1>1
  <1> QED BY <1>2, BalancedInvariance, PTL

\* The credit that the bridge counts as outstanding is what the host can still
\* make of it: on the way to the host, unspent, or spent on PCM that is on its
\* way to the bridge; and the buffer has room for all of it.
THEOREM CreditIsKeptAlways == Spec => []CreditIsKept
  <1>1. ASSUME Balanced PROVE CreditIsKept
    <2> DEFINE s == device.spk
               b == Balance(device)
               g == Granted(s)
               i == InFlight(s)
               unspent == IF host.stream = s /\ host.role = "speaker" THEN host.credit + g ELSE 0
    <2>1. /\ Good(device) /\ b \in Int /\ Out(device) \in Seq(Frames) /\ toDevice \in Seq(WireFrames)
          /\ device.credit \in Int
      BY <1>1, BalancedTypes
    <2>2. Out(device) = Outbound BY DEF Out, Outbound
    <2>3. g = Granting(Out(device), s) BY <2>2 DEF Granted, Granting
    <2>4. i = Flying(toDevice, s) BY DEF InFlight, Flying
    <2>5. g \in Nat /\ b = device.credit - g
      <3>1. Granting(Out(device), s) \in Nat BY <2>1, GrantingType
      <3> QED BY <2>3, <3>1 DEF Balance
    <2>6. RoomForCredit BY <2>1, Bounds DEF Good, DeviceTypes, Room, RoomForCredit
    <2>7. i \in Nat BY <2>1, <2>4, FlyingType
    <2>8. host.credit \in Nat BY <1>1 DEF Balanced, Sound
    <2>9. s # 0 /\ ~device.ended =>
            /\ i <= b
            /\ host.stream = s /\ host.role = "speaker" =>
                 /\ i + host.credit <= b
                 /\ lost = 0 => i + host.credit = b
      BY <1>1, <2>4 DEF Balanced, Sound, Kept
    <2> HIDE DEF b, g, i, s
    <2>10. ASSUME s # 0, ~device.ended
           PROVE  /\ i + unspent <= device.credit
                  /\ host.stream = s /\ host.role = "speaker" /\ lost = 0 => i + unspent = device.credit
      <3>1. CASE host.stream = s /\ host.role = "speaker"
        <4> DEFINE c == device.credit
                   h == host.credit
        <4>1. unspent = h + g BY <3>1
        <4>2. c \in Int /\ h \in Nat /\ g \in Nat /\ i \in Nat /\ b = c - g BY <2>1, <2>5, <2>7, <2>8
        <4>3. i + h <= b /\ (lost = 0 => i + h = b) BY <2>9, <2>10, <3>1
        <4> HIDE DEF unspent, c, h
        <4>4. i + unspent <= c /\ (lost = 0 => i + unspent = c) BY <4>1, <4>2, <4>3
        <4> QED BY <4>4 DEF c
      <3>2. CASE ~(host.stream = s /\ host.role = "speaker")
        <4>1. unspent = 0 BY <3>2
        <4> HIDE DEF unspent
        <4> QED BY <2>1, <2>5, <2>7, <2>9, <2>10, <3>2, <4>1
      <3> QED BY <3>1, <3>2
    <2> QED BY <2>6, <2>10 DEF CreditIsKept, g, i, s
  <1>2. Balanced => CreditIsKept BY <1>1
  <1> QED BY <1>2, BalancedInvariance, PTL
=============================================================================
