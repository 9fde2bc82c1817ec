--------------------------- MODULE UsbAudioWorker ---------------------------
(***************************************************************************)
(* The two VMs of the Android USB Audio Dock.  The main VM                 *)
(* (firmware/host/modules/usb-audio/worker-bridge.ts) owns AudioIn and     *)
(* AudioOut and offers sendEvent; the worker VM (worker.ts,                *)
(* shared-speaker-output.ts) runs the bridge of UsbAudioBridge on the      *)
(* other core.  Messages in each direction arrive in their order; PCM for  *)
(* the speaker goes through a ring in shared memory.                       *)
(*                                                                         *)
(* The bridge is reduced to what UsbAudioBridge shows of it: it uses one   *)
(* of the microphone and the speaker at a time, under a new stream id.     *)
(* PCM is counted in blocks of the speaker's DMA; a block in the ring is   *)
(* the stream that wrote it.  Presentation, captions, status, volume and   *)
(* inbound events are left out.                                            *)
(***************************************************************************)
EXTENDS Integers, Sequences, SequencesExt, FiniteSetsExt

CONSTANTS
  RingBlocks,      \* SHARED_PCM_RING_BYTES
  DrainCallbacks,  \* SPEAKER_DMA_DRAIN_CALLBACKS
  MaxStreams,      \* bound: streams the bridge opens
  MaxBlocks,       \* bound: blocks of a stream
  MaxSends,        \* bound: calls of sendEvent
  MaxFaults        \* bound: failures of AudioIn, AudioOut or the start of the worker

ASSUME ConstantsAssumption ==
  /\ {RingBlocks, DrainCallbacks} \subseteq Nat \ {0}
  /\ {MaxStreams, MaxBlocks, MaxSends, MaxFaults} \subseteq Nat

VARIABLES
  main,       \* the fields of UsbAudioWorkerBridge
  worker,     \* the worker: its bridge, its speaker output and microphone input
  ring,       \* the shared ring
  written,    \* SPEAKER_STATS_WRITTEN_BYTES
  toMain, toWorker,
  sends,      \* what became of each call of sendEvent
  streams, faults

vars == <<main, worker, ring, written, toMain, toWorker, sends, streams, faults>>

Sends   == 1..MaxSends
Message(id, n) == [id |-> id, n |-> n]   \* n: the stream, or the request

NoOutput == [stream |-> 0, opened |-> FALSE, finished |-> FALSE, startPosted |-> FALSE, written |-> 0]

NoWorker == [alive |-> FALSE, bridge |-> FALSE, output |-> NoOutput, input |-> 0, active |-> FALSE]

Init ==
  /\ main = [worker |-> TRUE, mic |-> 0, audio |-> 0, started |-> FALSE,
             ended |-> FALSE, awaiting |-> 0, writable |-> 0]
  /\ worker = [NoWorker EXCEPT !.alive = TRUE]
  /\ ring = <<>> /\ written = 0
  /\ toMain = <<>> /\ toWorker = << Message("start", 0) >>
  /\ sends = [r \in Sends |-> "none"]
  /\ streams = 0 /\ faults = 0
-----------------------------------------------------------------------------
(***************************************************************************)
(* The main VM.                                                            *)
(***************************************************************************)
CloseMicrophone(m) == [m EXCEPT !.mic = 0]
CloseAudio(m) ==
  [m EXCEPT !.audio = 0, !.started = FALSE, !.ended = FALSE, !.awaiting = 0, !.writable = 0]

\* A message for the worker; there is none after close().
ToWorker(id, n) ==
  toWorker' = IF main.worker THEN Append(toWorker, Message(id, n)) ELSE toWorker

Breaks == faults < MaxFaults /\ faults' = faults + 1
Works  == faults' = faults

\* #openMicrophone
OpenMicrophone(s) ==
  /\ \/ main.audio = 0 /\ Works /\ main' = [main EXCEPT !.mic = s] /\ ToWorker("microphone-started", s)
     \/ /\ IF main.audio # 0 THEN Works ELSE Breaks
        /\ main' = CloseMicrophone(main) /\ ToWorker("microphone-failed", s)
  /\ UNCHANGED <<ring, written, sends>>

FailsSilently(s) ==   \* mutant: the worker is not told that AudioOut failed
  \/ /\ main.mic = 0 /\ Works /\ ring' = <<>> /\ written' = 0
     /\ main' = [CloseAudio(main) EXCEPT !.audio = s] /\ ToWorker("audio-opened", s)
     /\ UNCHANGED sends
  \/ /\ IF main.mic # 0 THEN Works ELSE Breaks
     /\ main' = CloseAudio(main) /\ UNCHANGED <<toWorker, ring, written, sends>>

\* #openAudio
OpenAudio(s) ==
  \/ /\ main.mic = 0 /\ Works /\ ring' = <<>> /\ written' = 0
     /\ main' = [CloseAudio(main) EXCEPT !.audio = s] /\ ToWorker("audio-opened", s)
     /\ UNCHANGED sends
  \/ /\ IF main.mic # 0 THEN Works ELSE Breaks
     /\ main' = CloseAudio(main) /\ ToWorker("audio-failed", s)
     /\ UNCHANGED <<ring, written, sends>>

DrainsEarly(m) ==   \* mutant: what is left in the ring is not looked at
  LET n == Min({m.writable, Len(ring)}) IN
  IF m.audio = 0 \/ ~m.started \/ m.awaiting > 0 THEN main' = m /\ UNCHANGED <<ring, written>>
  ELSE /\ ring' = SubSeq(ring, n + 1, Len(ring)) /\ written' = written + n
       /\ main' = [m EXCEPT !.writable = @ - n, !.awaiting = IF m.ended THEN DrainCallbacks ELSE 0]

\* #drainAudio, of a main VM with the fields m
Drain(m) ==
  LET n == Min({m.writable, Len(ring)}) IN
  IF m.audio = 0 \/ ~m.started \/ m.awaiting > 0 THEN main' = m /\ UNCHANGED <<ring, written>>
  ELSE /\ ring' = SubSeq(ring, n + 1, Len(ring)) /\ written' = written + n
       /\ main' = [m EXCEPT !.writable = @ - n,
                            !.awaiting = IF m.ended /\ ring' = <<>> THEN DrainCallbacks ELSE 0]

\* The AudioOut of stream s starts, has its end, or is closed.
StartAudio(s) ==
  /\ Drain(IF main.audio = s THEN [main EXCEPT !.started = TRUE] ELSE main)
  /\ UNCHANGED <<toWorker, sends, faults>>

EndNeedsStart(s) ==   \* mutant: an end that arrives before the start is lost
  /\ Drain(IF main.audio = s /\ main.started THEN [main EXCEPT !.ended = TRUE] ELSE main)
  /\ UNCHANGED <<toWorker, sends, faults>>

EndAudio(s) ==
  /\ Drain(IF main.audio = s THEN [main EXCEPT !.ended = TRUE] ELSE main)
  /\ UNCHANGED <<toWorker, sends, faults>>

LeavesPending ==   \* mutant: nobody settles what the worker will not answer
  UNCHANGED sends

\* settleAll and rejectAll
SettleAll == sends' = [r \in Sends |-> IF sends[r] = "pending" THEN "settled" ELSE sends[r]]

\* What 'error' and 'closed' leave of the main VM.
WorkerGone ==
  /\ main' = [CloseAudio(CloseMicrophone(main)) EXCEPT !.worker = FALSE]
  /\ SettleAll /\ UNCHANGED <<ring, written, faults>>

Terminates == Head(toMain).id = "error" /\ main.worker

\* #handleWorkerMessage; 'error' terminates the worker, with what it has open, but
\* not after close(), when #worker is undefined
MainReads ==
  /\ toMain # <<>> /\ toMain' = Tail(toMain) /\ UNCHANGED streams
  /\ LET m == Head(toMain) IN
     /\ CASE m.id = "microphone-open" -> OpenMicrophone(m.n)
          [] m.id = "audio-open"      -> OpenAudio(m.n)
          [] m.id = "audio-start"     -> StartAudio(m.n)
          [] m.id = "audio-end"       -> EndAudio(m.n)
          [] m.id = "microphone-close" ->
               /\ main' = IF main.mic = m.n THEN CloseMicrophone(main) ELSE main
               /\ UNCHANGED <<ring, written, toWorker, sends, faults>>
          [] m.id = "audio-close" ->
               /\ main' = IF main.audio = m.n THEN CloseAudio(main) ELSE main
               /\ UNCHANGED <<ring, written, toWorker, sends, faults>>
          [] m.id = "send-event-result" ->
               /\ sends' = [sends EXCEPT ![m.n] = "settled"]
               /\ UNCHANGED <<main, ring, written, toWorker, faults>>
          [] m.id \in {"error", "closed"} ->
               WorkerGone /\ toWorker' = IF Terminates THEN <<>> ELSE toWorker
     /\ worker' = IF Terminates THEN NoWorker ELSE worker

\* sendEvent
SendEvent(r) ==
  /\ sends[r] = "none"
  /\ sends' = [sends EXCEPT ![r] = IF main.worker THEN "pending" ELSE "settled"]
  /\ ToWorker("send-event", r)
  /\ UNCHANGED <<main, worker, ring, written, toMain, streams, faults>>

\* close()
Close ==
  /\ main.worker /\ SettleAll /\ ToWorker("close", 0)
  /\ main' = [CloseAudio(CloseMicrophone(main)) EXCEPT !.worker = FALSE]
  /\ UNCHANGED <<worker, ring, written, toMain, streams, faults>>

\* onWritable of the AudioOut: room for n blocks
AudioWritable(n) ==
  /\ main.audio # 0 /\ main.started
  /\ IF main.awaiting = 0 THEN Drain([main EXCEPT !.writable = n]) /\ UNCHANGED toWorker
     ELSE /\ UNCHANGED <<ring, written>>
          /\ IF main.awaiting > 1
             THEN main' = [main EXCEPT !.writable = n, !.awaiting = @ - 1] /\ UNCHANGED toWorker
             ELSE main' = CloseAudio(main) /\ ToWorker("audio-drained", main.audio)
  /\ UNCHANGED <<worker, toMain, sends, streams, faults>>

\* The pump timer.
Pump ==
  /\ main.audio # 0 /\ main.started /\ Drain(main)
  /\ UNCHANGED <<worker, toMain, toWorker, sends, streams, faults>>

\* A read of the AudioIn or a write to the AudioOut throws.
MicrophoneBreaks ==
  /\ main.mic # 0 /\ Breaks
  /\ main' = CloseMicrophone(main) /\ ToWorker("microphone-failed", main.mic)
  /\ UNCHANGED <<worker, ring, written, toMain, sends, streams>>

AudioBreaks ==
  /\ main.audio # 0 /\ main.started /\ Breaks
  /\ main' = CloseAudio(main) /\ ToWorker("audio-failed", main.audio)
  /\ UNCHANGED <<worker, ring, written, toMain, sends, streams>>
-----------------------------------------------------------------------------
(***************************************************************************)
(* The worker VM.                                                          *)
(***************************************************************************)
Closed(w) == [w EXCEPT !.output = NoOutput]
Stopped(w) == [w EXCEPT !.input = 0, !.active = FALSE]

\* What closing an open output or input posts.
Closing(w)  == IF w.output.stream = 0 THEN <<>> ELSE << Message("audio-close", w.output.stream) >>

StopsQuietly(w) == <<>>   \* mutant: the main VM is not told
Stopping(w) == IF w.input = 0 THEN <<>> ELSE << Message("microphone-close", w.input) >>

\* #stopSpeaker and #stopMicrophone of the bridge
StopSpeaker    == worker' = Closed(worker) /\ toMain' = toMain \o Closing(worker)
StopMicrophone == worker' = Stopped(worker) /\ toMain' = toMain \o Stopping(worker)

\* startWorker
StartWorker ==
  \/ Works /\ worker' = [worker EXCEPT !.bridge = TRUE] /\ UNCHANGED toMain
  \/ Breaks /\ toMain' = Append(toMain, Message("error", 0)) /\ UNCHANGED worker

\* closeWorker
CloseWorker ==
  /\ worker' = [Stopped(Closed(worker)) EXCEPT !.alive = FALSE, !.bridge = FALSE]
  /\ toMain' = toMain \o (Stopping(worker) \o Closing(worker) \o << Message("closed", 0) >>)

\* The messages of the main VM about a stream that is not the current one are
\* passed over.
WorkerReads ==
  /\ worker.alive /\ toWorker # <<>>
  /\ LET m == Head(toWorker) IN
     CASE m.id = "start" -> StartWorker
       [] m.id = "close" -> CloseWorker /\ Works
       [] m.id = "send-event" ->
            toMain' = Append(toMain, Message("send-event-result", m.n)) /\ Works /\ UNCHANGED worker
       [] m.id = "audio-opened" /\ worker.output.stream = m.n ->
            worker' = [worker EXCEPT !.output.opened = TRUE] /\ Works /\ UNCHANGED toMain
       [] m.id = "microphone-started" /\ worker.input = m.n ->
            worker' = [worker EXCEPT !.active = TRUE] /\ Works /\ UNCHANGED toMain
       [] m.id = "audio-failed" /\ worker.output.stream = m.n -> StopSpeaker /\ Works
       [] m.id = "microphone-failed" /\ worker.input = m.n -> StopMicrophone /\ Works
       [] m.id = "audio-drained" /\ worker.output.stream = m.n /\ worker.output.finished ->
            StopSpeaker /\ Works
       [] OTHER -> Works /\ UNCHANGED <<worker, toMain>>
  /\ toWorker' = IF worker'.alive THEN Tail(toWorker) ELSE <<>>
  /\ UNCHANGED <<main, ring, written, sends, streams>>

\* The handler of a message throws, of one that is about a stream or of one that
\* is left out here ('microphone-data', 'speaker-volume'): the main VM is told,
\* and nothing is closed.  What the handler did before is a BridgeStops.
About == {"audio-opened", "audio-drained", "audio-failed", "microphone-started", "microphone-failed"}

WorkerBreaks ==
  /\ worker.alive /\ worker.bridge /\ Breaks
  /\ \/ UNCHANGED toWorker
     \/ toWorker # <<>> /\ Head(toWorker).id \in About /\ toWorker' = Tail(toWorker)
  /\ toMain' = Append(toMain, Message("error", 0))
  /\ UNCHANGED <<main, worker, ring, written, sends, streams>>

\* The bridge opens the speaker or the microphone, or closes what it has open.
BridgeOpens(kind) ==
  /\ worker.bridge /\ worker.output.stream = 0 /\ worker.input = 0
  /\ streams < MaxStreams /\ streams' = streams + 1
  /\ worker' = IF kind = "audio-open" THEN [worker EXCEPT !.output.stream = streams + 1]
               ELSE [worker EXCEPT !.input = streams + 1]
  /\ toMain' = Append(toMain, Message(kind, streams + 1))
  /\ UNCHANGED <<main, ring, written, toWorker, sends, faults>>

BridgeStops ==
  /\ \/ worker.output.stream # 0 /\ StopSpeaker
     \/ worker.input # 0 /\ StopMicrophone
  /\ UNCHANGED <<main, ring, written, toWorker, sends, streams, faults>>

PollUnopened == worker.output.stream # 0 /\ ~worker.output.finished   \* mutant: 'audio-opened' is not waited for
Polls == worker.output.stream # 0 /\ worker.output.opened /\ ~worker.output.finished

\* poll: the bridge writes n blocks; if they are the last ones the output is
\* finished, and 'audio-end' may come before 'audio-start'.
Poll(n, last) ==
  LET out == worker.output
      starts == ~out.startPosted /\ ring' # <<>>
  IN
  /\ Polls
  /\ n + Len(ring) <= RingBlocks /\ out.written + n <= MaxBlocks
  /\ last => out.written + n > 0 /\ Len(ring) < RingBlocks
  /\ ring' = ring \o [k \in 1..n |-> out.stream]
  /\ worker' = [worker EXCEPT !.output.written = @ + n, !.output.finished = last,
                              !.output.startPosted = @ \/ starts]
  /\ toMain' = toMain \o (IF last THEN << Message("audio-end", out.stream) >> ELSE <<>>)
                      \o (IF starts THEN << Message("audio-start", out.stream) >> ELSE <<>>)
  /\ UNCHANGED <<main, written, toWorker, sends, streams, faults>>
-----------------------------------------------------------------------------
Blocks == 1..RingBlocks

MainVM ==
  \/ MainReads \/ Close \/ Pump \/ MicrophoneBreaks \/ AudioBreaks
  \/ \E r \in Sends : SendEvent(r)
  \/ \E n \in Blocks : AudioWritable(n)

WorkerVM ==
  \/ WorkerReads \/ WorkerBreaks \/ BridgeOpens("audio-open") \/ BridgeOpens("microphone-open") \/ BridgeStops
  \/ \E n \in {0} \cup Blocks, last \in BOOLEAN : Poll(n, last)

Next == MainVM \/ WorkerVM

Spec == Init /\ [][Next]_vars

\* Both VMs run, and the DMA of a started AudioOut asks for more.
FairSpec ==
  /\ Spec /\ WF_vars(MainReads) /\ WF_vars(WorkerReads)
  /\ WF_vars(\E n \in Blocks : AudioWritable(n))
-----------------------------------------------------------------------------
(***************************************************************************)
(* Properties.                                                             *)
(***************************************************************************)
ToMain == {"microphone-open", "microphone-close", "audio-open", "audio-start", "audio-end",
           "audio-close", "send-event-result", "error", "closed"}
ToWorkers == {"start", "close", "send-event", "microphone-started", "microphone-failed",
              "audio-opened", "audio-drained", "audio-failed"}

MainMessages   == [id : ToMain, n : Nat]
WorkerMessages == [id : ToWorkers, n : Nat]

MainRecords ==
  [worker : BOOLEAN, mic : 0..streams, audio : 0..streams, started : BOOLEAN,
   ended : BOOLEAN, awaiting : 0..DrainCallbacks, writable : 0..RingBlocks]
OutputRecords ==
  [stream : 0..streams, opened : BOOLEAN, finished : BOOLEAN, startPosted : BOOLEAN,
   written : 0..MaxBlocks]
WorkerRecords ==
  [alive : BOOLEAN, bridge : BOOLEAN, output : OutputRecords, input : 0..streams, active : BOOLEAN]

TypeOK ==
  /\ main \in MainRecords /\ worker \in WorkerRecords
  /\ ring \in Seq(1..streams) /\ Len(ring) <= RingBlocks /\ written \in Nat
  /\ toMain \in Seq(MainMessages) /\ toWorker \in Seq(WorkerMessages)
  /\ sends \in [Sends -> {"none", "pending", "settled"}]
  /\ streams \in 0..MaxStreams /\ faults \in 0..MaxFaults

\* What an AudioOut can take from the ring was written for its stream: a stream
\* never plays what an earlier one left there, whichever VM resets the ring.  (That
\* it loses nothing of its own in the reset is DrainedIsPlayed's.)
PlaysItsOwn == main.audio # 0 => \A k \in 1..Len(ring) : ring[k] = main.audio

\* A stream the main VM reports as drained was played to its last block.
DrainedIsPlayed ==
  \A k \in 1..Len(toWorker) :
    toWorker[k].id = "audio-drained" /\ toWorker[k].n = worker.output.stream =>
      written = worker.output.written /\ ring = <<>>

\* Once both have read what the other one sent, they agree on which stream is
\* open on the microphone and on the speaker.
Agreement ==
  toMain = <<>> /\ toWorker = <<>> /\ main.worker =>
    main.audio = worker.output.stream /\ main.mic = worker.input

\* The main VM refuses the microphone because of the speaker, or the speaker
\* because of the microphone, to no bridge that uses one at a time.
Refusals == {"audio-failed", "microphone-failed"}
NeverRefused ==
  [][faults' = faults /\ Len(toWorker') > Len(toWorker) =>
       toWorker'[Len(toWorker')].id \notin Refusals]_vars

\* Every promise of sendEvent is settled, also if the worker never started or is closed.
EverySendSettles == \A r \in Sends : sends[r] = "pending" ~> sends[r] = "settled"

\* A stream that is finished is over at last.
FinishedEnds == worker.output.finished ~> ~worker.output.finished
=============================================================================
