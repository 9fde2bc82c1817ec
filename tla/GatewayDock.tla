---------------------------- MODULE GatewayDock ----------------------------
(***************************************************************************)
(* The device's end of a Gateway conversation: the dock runtime            *)
(* (firmware/host/app/docks/gateway/runtime.ts) with the conversation      *)
(* requests it makes (remote-session/conversation-session.ts) and the      *)
(* activation that binds and releases it (remote-session/facade.ts).       *)
(*                                                                         *)
(* The Gateway is any Gateway: after its session.ready it may send any     *)
(* other message of the sideband at any time, and answers the requests and *)
(* interrupts that reached it on the connection, or does not.  The         *)
(* application activates, starts, stops, interrupts and deactivates when   *)
(* it likes.                                                               *)
(*                                                                         *)
(* Ids and generations are compared for equality only.  A binding's        *)
(* playback generation starts anew with the binding; here it goes on       *)
(* counting, so that no play of an earlier binding has the current one.    *)
(***************************************************************************)
EXTENDS Integers

CONSTANTS
  None,             \* no request, no response
  Responses,        \* ids of replies the Gateway streams
  MaxRequests,      \* bound: start and stop requests
  MaxCancels,       \* bound: interrupts
  MaxGenerations,   \* bound: times playback is stopped
  MaxPlays,         \* bound: replies being played in one generation
  RequestRetries,   \* retries of a request until it times out (5 in the code)
  SendRetries       \* ticks a frame waits for room (250 in the code)

States      == {"standby", "connecting", "listening", "recognizing", "speaking", "blocked"}
Operations  == {"start", "stop"}
Requests    == [op : Operations, id : 1..MaxRequests, elapsed : 0..(RequestRetries - 1)]
Generations == 0..MaxGenerations

ASSUME ConstantsAssumption ==
  /\ None \notin Responses \cup Requests
  /\ {MaxRequests, MaxCancels, MaxGenerations, MaxPlays} \subseteq Nat
  /\ {RequestRetries, SendRetries} \subseteq Nat \ {0}

VARIABLES
  state,              \* conversation session: the state the robot shows
  pending,            \* conversation session: the request awaiting its result
  requests,           \* conversation session: requests made so far
  asked,              \* requests the Gateway received on this connection
  transport,          \* the bridge's transport state
  audioInput, audioOutput,   \* lastReady: the Gateway hears the robot, streams what it says
  bound,              \* a binding is active
  speakLocally, audioInputEnabled,
  recording,          \* the microphone runs
  retained,           \* pendingAudio: a frame the bridge had no room for
  retries,            \* pendingRetries
  playbackPending,    \* replies whose completion is awaited
  generation,         \* playbackGeneration
  plays,              \* promises of playback under way, by their generation
  responseId,
  cancelRequest,      \* the interrupt to be acknowledged, or 0
  cancelTimer,
  cancels,            \* cancelSequence
  cancelled,          \* interrupts the Gateway received on this connection
  otherAudio          \* something else on the robot makes a sound

link       == <<transport, audioInput, audioOutput>>
requesting == <<pending, requests, asked>>
binding    == <<bound, speakLocally, audioInputEnabled>>
playback   == <<playbackPending, generation, plays, responseId>>
interrupt  == <<cancelRequest, cancelTimer, cancels, cancelled>>
vars == <<state, requesting, link, binding, recording, retained, retries, playback, interrupt,
          otherAudio>>

Stopped == state \in {"standby", "blocked"}

\* Everything canRecord() asks, but for the sounds it samples.
Quiet ==
  /\ bound /\ cancelRequest = 0 /\ audioInputEnabled /\ transport = "ready"
  /\ state = "listening" /\ playbackPending = 0

CanRecord == Quiet /\ ~otherAudio

Init ==
  /\ state = "standby" /\ pending = None /\ requests = 0 /\ asked = {}
  /\ transport = "disconnected" /\ audioInput = FALSE /\ audioOutput = FALSE
  /\ bound = FALSE /\ speakLocally = TRUE /\ audioInputEnabled = FALSE
  /\ recording = FALSE /\ retained = FALSE /\ retries = 0
  /\ playbackPending = 0 /\ generation = 0 /\ plays = [g \in Generations |-> 0]
  /\ responseId = None
  /\ cancelRequest = 0 /\ cancelTimer = FALSE /\ cancels = 0 /\ cancelled = {}
  /\ otherAudio = FALSE
-----------------------------------------------------------------------------
(***************************************************************************)
(* Parts of steps.                                                         *)
(***************************************************************************)
SyncKeepsFrame(frame) ==   \* mutant: a frame of an earlier turn is not dropped
  /\ retained' = frame
  /\ recording' = (CanRecord' /\ ~frame)

\* The microphone runs exactly while it may, unless a frame waits for room; a
\* frame that may not be sent any more is dropped.
SyncMicrophone(frame) ==
  /\ retained' = (frame /\ CanRecord')
  /\ recording' = (CanRecord' /\ ~frame)

\* The session's listeners are told of another state, and of no other.
FollowState ==
  IF state' = state THEN UNCHANGED <<recording, retained>> ELSE SyncMicrophone(retained)

\* stopPlayback(), all but the reply's id.
StopPlayback ==
  /\ generation < MaxGenerations /\ generation' = generation + 1
  /\ playbackPending' = 0
  /\ UNCHANGED plays

\* sendPending: the request reaches the Gateway, is lost with its connection or
\* for want of one, or finds the queue full and fails.
SendPending(r, next) ==
  \/ /\ transport' = "ready" /\ asked' = asked \cup {r.id}
     /\ pending' = r /\ state' = next
  \/ UNCHANGED asked /\ pending' = r /\ state' = next
  \/ /\ transport' = "ready" /\ UNCHANGED asked
     /\ pending' = None /\ state' = "blocked"

Awaits(op) == pending # None /\ pending.op = op

ShownFor(op) == IF op = "start" THEN "connecting" ELSE "standby"

\* request(): the same request is not made twice, another one takes its place.
Request(op) ==
  \/ Awaits(op) /\ UNCHANGED <<state, requesting>>
  \/ /\ ~Awaits(op)
     /\ requests < MaxRequests /\ requests' = requests + 1
     /\ \/ /\ transport' # "unsupported"
           /\ SendPending([op |-> op, id |-> requests + 1, elapsed |-> 0], ShownFor(op))
        \/ /\ transport' = "unsupported"
           /\ pending' = None /\ state' = "blocked" /\ UNCHANGED asked
-----------------------------------------------------------------------------
(***************************************************************************)
(* The application.                                                        *)
(***************************************************************************)
\* A new binding.  A session.ready that came before it is handed to it.
Activate ==
  /\ ~bound
  /\ bound' = TRUE
  /\ audioInputEnabled' = (transport = "ready" /\ audioInput)
  /\ speakLocally' = (transport = "ready" => ~audioOutput)
  /\ StopPlayback /\ responseId' = None
  /\ cancelRequest' = 0 /\ cancelTimer' = FALSE
  /\ UNCHANGED <<state, requesting, link, retries, cancels, cancelled, otherAudio>>
  /\ SyncMicrophone(FALSE)

RequestOperation(op) ==
  /\ bound
  /\ UNCHANGED <<link, binding, retries, playback, interrupt, otherAudio>>
  /\ Request(op)
  /\ FollowState

\* The stop request outlives the binding, which drops all it had.
Deactivate ==
  /\ bound
  /\ UNCHANGED <<link, speakLocally, audioInputEnabled, retries, playback, cancels, cancelled,
                 otherAudio>>
  /\ Request("stop")
  /\ bound' = FALSE /\ recording' = FALSE /\ retained' = FALSE
  /\ cancelRequest' = 0 /\ cancelTimer' = FALSE

\* interruptActive, by a tap on the face while a reply is awaited or spoken
\* (default-behavior/companion.ts:204-205) or by a command the Gateway relays: the
\* barrier stands before the Gateway is told, and also when it cannot be told.  On a
\* connection that is not ready yet the Gateway is told, too.
Interrupt ==
  /\ state \in {"recognizing", "speaking"} \/ transport = "ready"
  /\ bound /\ cancelRequest = 0 /\ cancels < MaxCancels
  /\ cancels' = cancels + 1 /\ cancelRequest' = cancels + 1
  /\ StopPlayback /\ responseId' = None
  /\ \/ /\ state' = "recognizing" /\ cancelTimer' = TRUE
        /\ cancelled' = cancelled \cup {cancels + 1}
     \/ state' = "blocked" /\ UNCHANGED <<cancelTimer, cancelled>>
  /\ UNCHANGED <<requesting, link, binding, retries, otherAudio>>
  /\ SyncMicrophone(retained)

CancelTimeoutIsSilent ==   \* mutant: the state is left as it is
  /\ cancelTimer /\ cancelTimer' = FALSE
  /\ UNCHANGED <<state, requesting, link, binding, retries, playback, cancelRequest, cancels,
                 cancelled, otherAudio>>
  /\ FollowState

CancelTimeout ==
  /\ cancelTimer /\ cancelTimer' = FALSE
  /\ state' = "blocked"
  /\ UNCHANGED <<requesting, link, binding, retries, playback, cancelRequest, cancels, cancelled,
                 otherAudio>>
  /\ FollowState
-----------------------------------------------------------------------------
(***************************************************************************)
(* The conversation session.                                               *)
(***************************************************************************)
RetryForEver ==   \* mutant: the time that went by is not counted
  /\ pending # None
  /\ UNCHANGED <<requests, link, binding, retries, playback, interrupt, otherAudio>>
  /\ SendPending(pending, state)
  /\ FollowState

\* Every two seconds a pending request is sent again, until ten are over.
Retry ==
  /\ pending # None
  /\ UNCHANGED <<requests, link, binding, retries, playback, interrupt, otherAudio>>
  /\ LET elapsed == pending.elapsed + 1 IN
       \/ /\ elapsed = RequestRetries
          /\ pending' = None /\ state' = "blocked" /\ UNCHANGED asked
       \/ /\ elapsed < RequestRetries
          /\ SendPending([pending EXCEPT !.elapsed = elapsed], state)
  /\ FollowState

ResultStates(op) ==
  IF op = "start" THEN {"listening", "recognizing", "speaking", "blocked"} ELSE {"standby", "blocked"}

\* conversation.result of the pending request; that of any other is ignored.
Result(s) ==
  /\ transport = "ready" /\ pending # None /\ pending.id \in asked
  /\ s \in ResultStates(pending.op)
  /\ pending' = None /\ state' = s
  /\ UNCHANGED <<requests, asked, link, binding, retries, playback, interrupt, otherAudio>>
  /\ FollowState
-----------------------------------------------------------------------------
(***************************************************************************)
(* The sideband.  Behind the barrier only errors and the acknowledgement   *)
(* count; a stopped conversation hears errors only.                        *)
(***************************************************************************)
Heard == bound /\ transport = "ready" /\ cancelRequest = 0

\* response.cancelled of the interrupt that is awaited.  Another one, of a binding
\* that is gone, is ignored.
ResponseCancelled(c) ==
  /\ transport = "ready" /\ c \in cancelled /\ cancelled' = cancelled \ {c}
  /\ UNCHANGED <<requesting, link, binding, retries, playback, cancels, otherAudio>>
  /\ \/ /\ bound /\ c = cancelRequest
        /\ cancelRequest' = 0 /\ cancelTimer' = FALSE /\ state' = "listening"
        /\ SyncMicrophone(retained)
     \/ /\ ~(bound /\ c = cancelRequest)
        /\ UNCHANGED <<cancelRequest, cancelTimer, state, recording, retained>>

TranscriptInput ==
  /\ Heard /\ ~Stopped
  /\ state' = "recognizing"
  /\ UNCHANGED <<requesting, link, binding, retries, playback, interrupt, otherAudio>>
  /\ SyncMicrophone(retained)

\* A reply's promise is one more to wait for.
Plays ==
  /\ plays[generation] < MaxPlays
  /\ plays' = [plays EXCEPT ![generation] = @ + 1]
  /\ playbackPending' = playbackPending + 1
  /\ UNCHANGED <<generation, responseId>>

WakesStopped ==   \* mutant: a transcript is shown whatever the state
  /\ Heard
  /\ state' = "speaking"
  /\ IF speakLocally THEN Plays ELSE UNCHANGED playback
  /\ UNCHANGED <<requesting, link, binding, retries, interrupt, otherAudio>>
  /\ SyncMicrophone(retained)

TranscriptOutput ==
  /\ Heard /\ ~Stopped
  /\ state' = "speaking"
  /\ (speakLocally /\ Plays) \/ UNCHANGED playback
  /\ UNCHANGED <<requesting, link, binding, retries, interrupt, otherAudio>>
  /\ SyncMicrophone(retained)

\* A new reply cuts off the one before it, even when the conversation is stopped.
AudioStarted(r) ==
  /\ Heard
  /\ StopPlayback /\ responseId' = r
  /\ speakLocally' = FALSE
  /\ state' = IF Stopped THEN state ELSE "speaking"
  /\ UNCHANGED <<requesting, link, bound, audioInputEnabled, retries, interrupt, otherAudio>>
  /\ SyncMicrophone(retained)

\* The player refuses a chunk (or the stream): the conversation is blocked.
AudioChunkFails ==
  /\ Heard /\ ~Stopped /\ responseId # None
  /\ StopPlayback /\ responseId' = None
  /\ state' = "blocked"
  /\ UNCHANGED <<requesting, link, binding, retries, interrupt, otherAudio>>
  /\ SyncMicrophone(retained)

AudioCompleted(r) ==
  /\ Heard /\ ~Stopped /\ responseId = r
  /\ Plays
  /\ UNCHANGED <<state, requesting, link, binding, retries, interrupt, otherAudio>>
  /\ SyncMicrophone(retained)

AgentError(fatal) ==
  /\ bound /\ transport = "ready"
  /\ StopPlayback /\ responseId' = None
  /\ state' = IF fatal THEN "blocked"
              ELSE IF state \in {"recognizing", "speaking"} THEN "listening" ELSE state
  /\ UNCHANGED <<requesting, link, binding, retries, interrupt, otherAudio>>
  /\ SyncMicrophone(retained)
-----------------------------------------------------------------------------
(***************************************************************************)
(* Promises of playback.  A play is over for the binding and generation it *)
(* was started in, and for no other.                                       *)
(***************************************************************************)
PlaybackEnds(g) ==
  /\ plays[g] > 0
  /\ plays' = [plays EXCEPT ![g] = @ - 1]
  /\ playbackPending' = IF g = generation THEN playbackPending - 1 ELSE playbackPending
  /\ state' = IF g = generation /\ bound /\ playbackPending' = 0 /\ ~Stopped
              THEN "listening" ELSE state
  /\ UNCHANGED <<generation, responseId, requesting, link, binding, retries, interrupt, otherAudio>>
  /\ IF g = generation THEN SyncMicrophone(retained) ELSE UNCHANGED <<recording, retained>>

\* Rejected for another reason than speech the engine cannot pronounce.
PlaybackFails(g) ==
  /\ plays[g] > 0
  /\ plays' = [plays EXCEPT ![g] = @ - 1]
  /\ playbackPending' = IF g = generation THEN playbackPending - 1 ELSE playbackPending
  /\ state' = IF g = generation /\ bound THEN "blocked" ELSE state
  /\ UNCHANGED <<generation, responseId, requesting, link, binding, retries, interrupt, otherAudio>>
  /\ IF g = generation THEN SyncMicrophone(retained) ELSE UNCHANGED <<recording, retained>>
-----------------------------------------------------------------------------
(***************************************************************************)
(* The microphone and its poll.                                            *)
(***************************************************************************)
FrameOverflows ==
  /\ recording /\ CanRecord
  /\ retained' = TRUE /\ retries' = 0 /\ recording' = FALSE
  /\ UNCHANGED <<state, requesting, link, binding, playback, interrupt, otherAudio>>

\* The bridge refuses a frame, or the microphone itself fails.
FrameFails ==
  /\ recording
  /\ state' = "blocked"
  /\ UNCHANGED <<requesting, link, binding, retries, playback, interrupt, otherAudio>>
  /\ SyncMicrophone(FALSE)

TickSendsOnly ==   \* mutant: the poll does not look at the microphone
  /\ bound /\ retained /\ CanRecord
  /\ retained' = FALSE
  /\ UNCHANGED <<state, requesting, link, binding, recording, retries, playback, interrupt,
                 otherAudio>>

\* The retained frame is sent, waits on, or is given up: when its retries are over,
\* or at once when there is no connection to take it.  Then the microphone follows
\* what the robot hears.
Tick ==
  /\ bound
  /\ UNCHANGED <<requesting, link, binding, playback, interrupt, otherAudio>>
  /\ \/ /\ ~(retained /\ CanRecord)
        /\ UNCHANGED <<state, retries>> /\ SyncMicrophone(retained)
     \/ /\ retained /\ CanRecord
        /\ UNCHANGED <<state, retries>> /\ SyncMicrophone(FALSE)
     \/ /\ retained /\ CanRecord /\ retries + 1 < SendRetries
        /\ retries' = retries + 1 /\ UNCHANGED state /\ SyncMicrophone(TRUE)
     \/ /\ retained /\ CanRecord
        /\ state' = "blocked" /\ UNCHANGED retries /\ SyncMicrophone(FALSE)

SoundChanges ==
  /\ otherAudio' = ~otherAudio
  /\ UNCHANGED <<state, requesting, link, binding, recording, retained, retries, playback, interrupt>>
-----------------------------------------------------------------------------
(***************************************************************************)
(* The link.  The transport state and session.ready come in one call.      *)
(***************************************************************************)
DownKeepsInput ==   \* mutant: what was negotiated outlives the connection
  \/ /\ bound
     /\ cancelRequest' = 0 /\ cancelTimer' = FALSE
     /\ StopPlayback /\ responseId' = None
     /\ UNCHANGED audioInputEnabled
  \/ ~bound /\ UNCHANGED <<audioInputEnabled, cancelRequest, cancelTimer, playback>>

LosesPlayback ==
  \/ /\ bound
     /\ audioInputEnabled' = FALSE
     /\ cancelRequest' = 0 /\ cancelTimer' = FALSE
     /\ StopPlayback /\ responseId' = None
  \/ ~bound /\ UNCHANGED <<audioInputEnabled, cancelRequest, cancelTimer, playback>>

LinkDown ==
  /\ transport # "disconnected" /\ transport' = "disconnected"
  /\ asked' = {} /\ cancelled' = {}
  /\ LosesPlayback
  /\ UNCHANGED <<state, pending, requests, audioInput, audioOutput, bound, speakLocally, retries, cancels,
                 otherAudio>>
  /\ SyncMicrophone(retained)

\* A Gateway of a newer protocol: every request fails, and the error is fatal.
LinkUnsupported ==
  /\ transport = "disconnected" /\ transport' = "unsupported"
  /\ LosesPlayback
  /\ pending' = None
  /\ state' = IF bound \/ pending # None THEN "blocked" ELSE state
  /\ UNCHANGED <<requests, asked, audioInput, audioOutput, bound, speakLocally, retries, cancels, cancelled,
                 otherAudio>>
  /\ SyncMicrophone(retained)

\* session.ready, which the barrier holds back like any other message.
SessionReady(input, output) ==
  \/ /\ bound /\ cancelRequest = 0
     /\ audioInputEnabled' = input /\ speakLocally' = ~output
  \/ ~(bound /\ cancelRequest = 0) /\ UNCHANGED <<speakLocally, audioInputEnabled>>

Restarts == bound /\ state # "standby"

\* A conversation that is not in standby is started again; a pending request is
\* sent.
LinkUp(input, output) ==
  /\ transport = "disconnected" /\ transport' = "ready"
  /\ audioInput' = input /\ audioOutput' = output
  /\ \/ Restarts /\ ~Awaits("start") /\ Request("start")
     \/ /\ pending # None /\ (Restarts => Awaits("start"))
        /\ SendPending(pending, state) /\ UNCHANGED requests
     \/ pending = None /\ ~Restarts /\ UNCHANGED <<state, requesting>>
  /\ SessionReady(input, output)
  /\ UNCHANGED <<bound, retries, playback, interrupt, otherAudio>>
  /\ SyncMicrophone(retained)
-----------------------------------------------------------------------------
Next ==
  \/ Activate \/ Deactivate \/ Interrupt \/ CancelTimeout \/ Retry
  \/ \E op \in Operations : RequestOperation(op)
  \/ \E s \in States : Result(s)
  \/ \E c \in 1..MaxCancels : ResponseCancelled(c)
  \/ TranscriptInput \/ TranscriptOutput \/ AudioChunkFails
  \/ \E r \in Responses : AudioStarted(r) \/ AudioCompleted(r)
  \/ \E fatal \in BOOLEAN : AgentError(fatal)
  \/ \E g \in Generations : PlaybackEnds(g) \/ PlaybackFails(g)
  \/ FrameOverflows \/ FrameFails \/ Tick \/ SoundChanges
  \/ \E input, output \in BOOLEAN : LinkUp(input, output)
  \/ LinkDown \/ LinkUnsupported

Spec == Init /\ [][Next]_vars

\* Timers fire.
FairSpec == Spec /\ WF_vars(Tick) /\ WF_vars(Retry) /\ WF_vars(CancelTimeout)
-----------------------------------------------------------------------------
TypeOK ==
  /\ state \in States /\ pending \in Requests \cup {None}
  /\ requests \in 0..MaxRequests /\ asked \subseteq 1..MaxRequests
  /\ transport \in {"disconnected", "ready", "unsupported"}
  /\ audioInput \in BOOLEAN /\ audioOutput \in BOOLEAN /\ bound \in BOOLEAN
  /\ speakLocally \in BOOLEAN /\ audioInputEnabled \in BOOLEAN
  /\ recording \in BOOLEAN /\ retained \in BOOLEAN
  /\ cancelTimer \in BOOLEAN /\ otherAudio \in BOOLEAN
  /\ retries \in 0..SendRetries
  /\ playbackPending \in 0..MaxPlays /\ generation \in Generations
  /\ plays \in [Generations -> 0..MaxPlays] /\ responseId \in Responses \cup {None}
  /\ cancelRequest \in 0..MaxCancels /\ cancels \in 0..MaxCancels
  /\ cancelled \subseteq 1..MaxCancels

\* Half duplex (docs/operations/companion-mode.md:55): whatever callbacks,
\* messages and timers come in between, the microphone runs, and a frame waits to
\* be sent, only while the conversation listens, the link is up, nothing is being
\* played and no interrupt is unacknowledged.
HalfDuplex == recording \/ retained => Quiet

\* The replies the microphone waits for are those of this generation, and all of
\* them: neither a reply that was cut off nor one of an earlier binding counts.
PlaybackCounted == playbackPending = plays[generation]

\* What a connection negotiated ends with it: the microphone is never enabled for a
\* Gateway that did not say, on this connection, that it hears the robot.
InputIsNegotiated == bound /\ audioInputEnabled => transport = "ready" /\ audioInput

Deaf ==
  bound /\ transport = "ready" /\ audioInput /\ cancelRequest = 0 /\ ~audioInputEnabled

\* Whether the binding or session.ready came first, a binding never goes deaf on a
\* Gateway that hears it, unless an interrupt held session.ready back.
HearsOnceReady == [][Deaf' => Deaf \/ cancelRequest # 0]_vars

\* What wakes a conversation that is stopped or blocked: a request or an interrupt
\* of the application, and the Gateway's answer to one that reached it on this
\* connection.  No transcript, audio, error, playback or poll does, nor an answer
\* from before.  The acknowledgement of an interrupt is an answer too: it shows
\* listening although the conversation was stopped, or blocked by the interrupt's
\* own timeout, in between (runtime.ts:304-309).
OnlyAnswersWake ==
  [][Stopped /\ ~Stopped' =>
       \/ requests' > requests \/ cancels' > cancels
       \/ pending # None /\ pending.id \in asked /\ pending' = None
       \/ cancelRequest \in cancelled /\ cancelRequest' = 0]_vars

\* A request that is given up without an answer blocks the conversation.
FailureIsShown ==
  [][pending # None /\ pending' = None => pending.id \in asked \/ state' = "blocked"]_vars

\* Every request is answered, superseded, or shown to have failed: none is
\* awaited for ever, nor dropped in silence.
RequestSettles ==
  /\ \A i \in 1..MaxRequests :
       (pending # None /\ pending.id = i) ~> (pending = None \/ pending.id # i)
  /\ FailureIsShown

\* An interrupt that was sent is acknowledged or shown to have failed.
InterruptEnds == cancelTimer ~> (~cancelTimer /\ (cancelRequest = 0 \/ state = "blocked"))

\* When the robot may listen it soon does, also after a frame had to wait.
MicrophoneOpens == CanRecord ~> (recording \/ ~CanRecord)

\* (Not true of the code.)  "disconnect clears a pending interrupt barrier so a
\* reconnected stream is accepted" (runtime.test.ts:577): a connection begins
\* with no barrier.
ReconnectIsOpen == [][transport # "ready" /\ transport' = "ready" => cancelRequest' = 0]_vars
=============================================================================
