# A verification project for Stack-chan's remote conversation and USB audio

Stack-chan is a small robot whose firmware (`src/firmware`) talks to a Gateway on
a computer (`src/gateway`): the Gateway runs an AI Agent, speech recognition and
synthesis, tools and approvals; the device captures sound, shows the state, plays
the replies and asks its owner for approval. Two other ways in are a Realtime session, in which the host
calls the device's tools itself, and the Android USB Audio Dock, which carries the
sound over a cable. The modules here model that core, as the code has it, check it
with TLC and prove parts of it with TLAPS.

Everything else in the repository (case, schematics, web tools, mini apps) is
either no program, or I/O, or small sequential code with unit tests; it is listed
under "Components" with the reason it is left out.

## Components

State, operations and interactions of what is modelled or planned:

| component | state | operations | hard because | what makes it correct |
|---|---|---|---|---|
| conversation session (`gateway/src/conversation/conversation-session.ts`) | state, Agent session, two generations, `cancelling`, `speaking`, pending device calls, tool registry | start, stop, interrupt, text, audio, Agent events, device events, `session.update`, close | every handler awaits something; all others run in between | no Agent session leaks; nothing crosses an interrupt or a stop; no waiting state for ever |
| tool invoker (`gateway/src/tools/tool-invoker.ts`, `tool-registry.ts`) | the call, its approval, its host | invoke, device output, timeout | approval, interrupt, stop and `session.update` race | guarded tools run only approved; every call ends once |
| approval controller (`gateway/src/approval/approval-controller.ts`) and approval session (`firmware/host/app/remote-session/approval-session.ts`) | pending entries and timers; a queue, decisions and a retry timer | request, respond, time out, suspend, resolve, close | lost, refused, repeated and late messages, reconnects | the caller is told what was tapped, once, or that it lapsed |
| session manager and device session (`gateway/src/server`) | live sessions, map by device, pending commands | accept, hello, frames, evict, close, command, result, timeout | frames are awaited while sessions are evicted | one session per device; none survives close; no command waits in a session that is gone |
| Gateway bridge (`firmware/host/app/docks/gateway/bridge.ts`, `socket.ts`) | socket and its generation, transport state, pending bytes, backoff | connect, ready, message, closed, send, release, close | callbacks of retired sockets, writes that throw | one connection; `ready` is connected; never stranded |
| gateway dock (`docks/gateway/runtime.ts`, `presentation.ts`, `pcm-stream.ts`) | microphone, pending frame, playback count and generation, cancel request | poll, interrupt, messages, playback completions | promises of older replies, overflow retries | the microphone is closed while the robot speaks and opens again |
| device conversation session (`remote-session/conversation-session.ts`), facade (`facade.ts`) | pending request and its retries; lifecycle | start, stop, update, send, close | retries against late results | one outcome per request |
| realtime session (`remote-session/realtime-session.ts`) | provider and session leases, `session.update` events, the send tail, continuations | set provider, transport state, `session.created`, `session.updated`, function calls, application events, close | acknowledgements and calls of the host against a lease that changes hands; retries in one queue with everything else | tools run and answer only for the catalog the host holds; nothing is held up for ever |
| USB audio bridge (`modules/usb-audio/bridge.ts`) | connection, peer, one microphone or speaker session, PCM buffer, credit, outbound queue | driver readable, writable and error, maintenance timer, audio callbacks, `sendEvent`, close | a full queue, lost frames, a cable that glitches, callbacks of audio devices, repeated HELLOs | one direction at a time; credit that matches the host's; nothing stale after a HELLO |
| USB audio worker (`modules/usb-audio/worker-bridge.ts`, `worker.ts`, `shared-speaker-output.ts`) | AudioIn and AudioOut in the main VM; bridge, output and input in the worker VM; a ring in shared memory | messages both ways, writable callbacks, polls, `sendEvent`, close | two VMs on two cores with two queues and shared memory | a stream hears only itself, is played to its end, and both VMs agree |
| Agent backends (`gateway/src/agent`) | message list, pending tool calls, turn controller | input, tool result, cancel, close | streams that end after an abort | every tool call in the list is answered |

How they interact: a socket of `gateway-server.ts` owns one device session, which
creates a conversation session at the hello and routes frames to it and to its
approval controller; the conversation drives an Agent backend, the audio session
and the tool invoker, and the invoker waits for the approval controller or for the
device. On the device the bridge delivers frames to the dock runtime and, as
events, to the facade's approval, conversation and realtime sessions. The Android
dock offers the facade the same transport over the USB bridge, which runs in a
worker VM and reaches the audio hardware through messages and the shared ring.

Candidates, after the table above: the motion controller's ownership of the servos,
the performance and reaction players, the on-device chat, chunk storage, and the
inbox's limits. Not planned: HTTP clients, parsers, configuration, the desktop app,
drivers, games, the web (see "Not modelled").

## Modules

| module | models | over |
|---|---|---|
| `ConversationSession` | the conversation session with the tool invoker and its view of approvals | the Agent backend, engines and device as environment |
| `AgentLifetime` | what the conversation promises the backend | implemented by `ConversationSession` |
| `ApprovalHandshake` | both ends of the approval protocol and the connection between them | the operator, the Android peer and the network as environment |
| `Consent` | what the handshake promises whoever asks for approval | implemented by `ApprovalHandshake` |
| `DeviceSessions` | the session manager, the sockets, handshake and commands of device sessions | what a frame does inside a conversation is "slow" or not |
| `GatewayBridge` | the device's link with its backoff and byte window | the network and the Gateway as environment |
| `GatewayDock` | the device's dock runtime, with its conversation requests and its activation | the Gateway, the player and the microphone as environment |
| `RealtimeSession` | the device's end of a Realtime conversation | the host, the tools, the application and the transport as environment |
| `UsbAudioBridge` | the bridge on the cable, with its microphone, speaker, credit and queues | the host of `firmware/scripts/usb-audio-diagnostics.py`, the driver, the audio devices and the cable as environment |
| `UsbAudioWorker` | the two VMs behind the bridge, their messages and the shared ring | the bridge reduced to what `UsbAudioBridge` shows of it |
| `ConversationSessionProofs`, `ApprovalHandshakeProofs`, `DeviceSessionsProofs`, `GatewayBridgeProofs`, `GatewayDockProofs`, `RealtimeSessionProofs`, `UsbAudioBridgeProofs`, `UsbAudioWorkerProofs` | theorems about the module each is named for | |
| `MC...` | the instances TLC checks | |

### ConversationSession

The code is one JavaScript thread, so a handler is atomic up to its first `await`
and the rest of it is another action. Each suspended handler is a record in a set:
`creating` (`startConversation` awaiting `createSession`), `closing`
(`stopConversation`, or a superseded start, awaiting `close`), `cancel`
(`interruptConversation`), `speeches` (`speakText` between chunks),
`transcriptions` (the recognizer) and `runs` (a tool call: waiting for the
operator, resumed, running in the Gateway, waiting for the device, over). The
continuation reads the same generations the code reads. `sent` holds the messages
of the last step, with the generation and the Agent session of the work they
belong to; action properties are stated over it. `live` is what the backend holds
open, whether or not the conversation still knows it. An Agent session is the value
of `sessionGeneration` it was created under. After `Close` all that is sent to the
device is dropped (`ToDevice`), as `DeviceSession.send` does.

A turn of the Agent ends with `turn.done` or is lost (`TurnLost`): the await of
`inputText` rejects (`conversation-session.ts:379-386` and `:512`;
`openai-backend.ts:111` awaits `response.json()` outside its `try`), the backend drops
a turn for a newer one, or its answer never comes. The conversation only logs it, so
`lost` remembers that the state it shows is one that nothing may come to change.

Abstracted: texts, arguments, PCM, voice activity (an utterance ends at any time),
splitting of replies into sentences, and logs.

### ApprovalHandshake

The controller is `outcome`; the device is `queue`, `decision`, `suspended`,
`timer` and `open`; `toDevice` and `toGateway` are FIFO and are lost with the
connection. The device's `send` may be refused and does not look
(`approval-session.ts:50-64`), which is `Sends`. `opinions` remembers what the
operator tapped. `PeerResumes` turns on the second user of the device module, the
Android app, which suspends a request and offers it again.

### DeviceSessions

A managed session is its socket. `Hello`, `QuickFrame` and `SlowFrameDone` end in
`Register`, the code after the await of `managed.handleFrame`. `SlowFrame` is a
frame whose handling awaits the conversation; `SlowFrameDone` may run after the
session was evicted, its socket lost and the manager closed. `Release` is `evict`
followed by the synchronous part of `close`, which rejects the commands. The
handshake of `device-session.ts` is an input: accepted with a device id, or
refused, which only asks the socket to close. `RequestCommand` is refused at the
limit, and by a device whose firmware has no control, whose capabilities are an input
too. The six seconds of `CommandTimeout` are an action like any other and not what
the commands' property leans on.

### GatewayBridge

`socket` is the generation of the current socket, `alive` those the adapter has not
closed, `late` those the bridge closed itself that may still call `onClosed`
(`ClosedLate`), in any order with the sockets that follow. `socket-types.ts` does not
say when an adapter does that; of those in the repository `socket.ts` calls it inside
`close()`, where the retired generation makes it void, and `wasm/browser.js` not at
all. No adapter here calls `onReady` or `onMessage` of a socket after closing it: the
generation checks of those (`bridge.ts:182`, `:197`) have nothing to do in the model.
`releases` are the armed release
timers in order, `greeted` the generation whose hello was queued. The handlers the
bridge calls (transport state, events, sideband) belong to the dock: what they send
is a `Send` of its own, after the step. Nothing here runs inside the call, see the
hazard at `bridge.ts:173`.

### GatewayDock

The state joins three files: `state`, `pending` and `transport` are the device's
conversation session (`remote-session/conversation-session.ts`), `bound` is the
facade's active binding (`facade.ts`), the rest are the locals of
`createActiveBinding` and `lastReady` (`docks/gateway/runtime.ts`). The Gateway is
open: any message of the sideband after its `session.ready`, in any order; it
answers only requests and interrupts that reached it on the connection (`asked`,
`cancelled`). `SyncMicrophone` is `syncMicrophone`, with the values of `canRecord()`
after the step; `FollowState` calls it only when another state is shown, as the
listener does, so a microphone that another sound closed waits for `Tick`. `Request`
and `SendPending` are `request` and `sendPending`, whose send settles in a microtask
and is part of the step. `plays` are the promises a player has not settled, by the
generation they were started in; the code's `playbackGeneration` starts at zero in
each binding and its promises close over the binding, here generations go on
counting so that `g = generation` says both. `cancels` is `cancelSequence`.

A send that throws retires the socket: here the step fails or is queued, and
`LinkDown` follows. An interrupt may be written on a socket that is open and not
ready; the Gateway may then acknowledge it after its `session.ready`. A frame whose
send meets a lost link blocks at once (`Tick`), one the queue has no room for is tried
again. The microphone
is configured (`config.microphone`), the speech engine and the PCM queue are the
player, whose plays end, fail or refuse a chunk. Abstracted: balloons, error texts,
sequence numbers, audio formats (`audioInput` is true when the format fits), and the
`text` command.

### RealtimeSession

The code is one JavaScript thread with promises. A handler of the outside world
waits in the model until the promise jobs of the last one have run (`Settled`);
`StartSend`, `DropSend`, `ResumeUpdate` and `ResumeCall` are those jobs, and they
run in any order. A lease object is a number, so the code's comparison of identities
is `=`. `tail` is the promise chain `sendTail`: its first element is under way once
`sending` is set, and the transport settles it in `SendSettles` with what
`sendReady` may return (a throw acts as `overflow`). `update[u].loop` and
`call[c].phase` say where the asynchronous function of an update or a call is
suspended: in the tail, waiting for a timer, woken from it, waiting for its turn in
the continuations of its provider, executing the tool, or over. `Wakes` is
`cancelRetryLease`. A tool may return at any time or never, whatever became of its
leases. The host is open: it may acknowledge, or tag a call with, any update that
was handed to the transport (`sent`), whenever it likes.

Abstracted: tool names, arguments and results (a tool that throws has an output,
too), ids, the catalog's JSON, the event listener of the application, and errors
that are only reported.

### UsbAudioBridge

`device` is a record of the bridge's fields and its outbound frames, because a
callback calls helper after helper on them; each helper is a function of that record
with the name of the method, and an action composes them in the code's order, the
trailing `#flushPendingOutput` or `#refreshSpeakerCredit` included. PCM, credit,
buffers and queues are counted in frames. `queue` is the bridge's own TX queue,
`ring` the driver's. A callback may throw when it
has done its work, which ends the connection from where the callback left it
(`CallbackFails`). The reads of one readable callback are steps of their own, more
interleavings than the code has. `Poll(d, n)` is a poll of the audio output that takes `n` frames
or cannot (0), also inside `#handleSpeakerPcm`. `Refreshed` is the debounced
connection: a missed SOF is noted, and held against the cable only after a while.
`Frame(...).epoch` is that of the HELLO after which the subject of a frame began; it
is not in the code and serves `FreshAfterHello`. The code's queue is bounded in bytes: when
a microphone frame does not fit, the ERROR that says so may fit or not.

The host keeps to the protocol (`HostSends` and its users follow the diagnostics
script): one stream at a time, PCM within its credit, HELLO repeated until it is
acknowledged. It may stop a stream at any time, and stays silent as long as it
likes. The script gives every stream the id 1; the model numbers them, which is what
`UsbAudioWorker` builds on too. An id that is used again at once can meet frames of
its last use; that is not covered here nor in the worker, and the properties that speak
of streams hold under that assumption. Frames are lost one by one (a bad CRC is skipped by the parser),
a cable may glitch or be pulled, an audio device or a driver callback may fail, and
the driver may die.

Two things the model shows of the code and no property forbids. A DONE, STOPPED,
STARTED or ERROR for which the queue has no room is dropped by `#send` and not
repeated, so a host may wait for it (it has timeouts). And the credit of PCM that was
lost on the cable is not given back while the stream lasts: the next frame is out of
order and ends the stream, but a host that had used up its credit waits; `HostIsServed`
therefore speaks of streams without a loss.

### UsbAudioWorker

Each VM is one thread: a message handled, a timer, an audio callback or a call is
one action. `toMain` and `toWorker` are the two message queues, FIFO each, unordered
between them, and the ring is shared. The bridge in the worker opens and closes
streams (`BridgeOpens`, `BridgeStops`), one at a time and with a new id, which
`OneDirection` of `UsbAudioBridge` and the numbering there give. `Poll` posts
`audio-end` before `audio-start` when the whole stream went into the ring in one
poll, as `shared-speaker-output.ts` does. `Drain` is `#drainAudio`; `AudioWritable`
counts the DMA callbacks that stand for the last blocks being heard. Any
handler of the worker may throw (`WorkerBreaks`): it posts `error` and goes on, with
what it has open, until the main VM reads it and terminates it, along with the messages
still on the way to it; what it had posted is delivered. After `close()` the main VM
has no worker to terminate (`Terminates`). A failing handler of `close` itself is left
out.

Left out of both: captions, status and volume, presentation and inbound events, and
the diagnostics counters.

## Runs

| run | question | bounds | states |
|---|---|---|---|
| `conversation` | lifecycle, speech and interrupts without tools | 3 starts, 2 interrupts or stops and the close, 2 open turns, 1 response | 143k |
| `conversation_tools` | one call id in up to three sessions, a Gateway and a device tool, one guarded | 3 starts, 1 stop or interrupt and the close, 1 `session.update` | 130k |
| `approval` | two requests, one that times out | 1 disconnect, 1 resume, 1 deactivation, 2 messages in flight | 149k |
| `sessions` | 3 connections, 2 devices, 2 commands, limit 1 | 1 slow frame per session | 228k |
| `dock` | two requests, two interrupts, plays of up to three generations, any Gateway; safety and liveness | playback stopped 3 times, 1 play in a generation, 2 retries of a request and of a frame | 245k |
| `bridge` | window of 4, messages of 1 and 2 bytes, delays 1, 2, 4, 5 | 4 failures | 3.6k |
| `realtime` | two function calls, activations, transport and host sessions, refused sends | 4 leases in all, 2 refused sends, 1 retry of a continuation, 1 application event | 114k |
| `usb_bridge` | two streams of up to 3 frames, credit 1, buffer 2, queue 2, driver ring 1 | 2 frames to the device, 2 HELLOs, 1 event, 1 lost frame, 1 fault | 477k |
| `usb_worker` | three streams of up to 3 blocks, ring of 2, 2 DMA callbacks | 1 `sendEvent`, 2 faults | 945k |

Bounds and why they are enough. A stale continuation needs one generation to start
in and another to end in, and the third session shows that what outlived one stop
does not reach the second one's successor. A call id is shared by consecutive
sessions on purpose: an Agent chooses its ids, so a late answer can name a call of
the next session. Two requests are the least for a queue with a head and a waiter,
and only one has its timeout in the run, so that the other shows what the retry
alone achieves. Three connections let a device be superseded while a second one is
served. The limit of one command makes it reachable with two. The delays leave the
powers of two at the maximum, and the window fills with two hellos. In the dock every
stop of playback makes a generation (an activation, an interrupt, a new reply, an
error, a lost link), so three leave room for a play of each of the two before the
current one; a start and a stop are the least that supersede each other; two retries
tell a retry from the last one. In the realtime session four leases are a provider and
a session with a successor of one or of both, and two calls are the least of which one
waits for the other's continuation. On the cable a stream longer than the buffer
(3 > 2) needs credit given back, a queue of two fills with one frame too many, and the
second stream meets what the first one left; the second HELLO does the same to the
first. In the worker the ring (2) is shorter than a stream (3), and the third stream
can begin while messages of the first are still on their way.

`CHECK_DEADLOCK FALSE` is set where the system may really stop: requests are used up
and the operator taps nothing, all sockets are closed, the bridge is closed, the dock's or a realtime
session's counters are used up, or the worker is gone. The
conversation checks deadlock and says itself when it is finished (`Finished`).

### Runs that show a disagreement

| run | property | says | the code |
|---|---|---|---|
| `conversation_up` | `UpMeansListening` | `docs/specs/conversation-gateway.md:195-196`: listening once the Agent is up | `stopConversation` awaits a close and sets standby without looking whether a start came since (`conversation-session.ts:448`) |
| `sessions_latest` | `LatestStaysServed` | `session-manager.ts:4-6`: a reconnect evicts the stale session | any frame of a released session whose socket is still up registers it again and releases the live one (`session-manager.ts:57-67`) |
| `dock_reconnect` | `ReconnectIsOpen` | `docks/gateway/runtime.test.ts:577`: a disconnect clears the interrupt barrier, so that a reconnected stream is accepted | an interrupt pressed while the link is down raises a barrier nothing clears on the reconnection: `session.ready` is dropped and the restarted conversation is deaf (`runtime.ts:269`, `runtime.ts:312`) |

Four more were met while modelling and have no run of their own. Two are defects that
the properties make room for. A turn the Agent lost leaves the conversation in
`recognizing` until the next turn, interrupt or stop, where
`docs/specs/conversation-gateway.md:195-198` has it back in listening when a turn ends:
`StateSettles` without `lost` fails. And a `response.cancelled` that comes after the
conversation was stopped, or after the interrupt's own timeout blocked it, shows
listening (`runtime.ts:304-309`), where `docs/specs/conversation-gateway.md:217-222`
and `runtime.test.ts:30-31` want it to stay as it was: `OnlyAnswersWake` without its
last line fails.

In the other two the code does what it must and only a comment says more. `conversation-session.ts:475-476`
says that a function call can never hit a stale tool; the invoker looks the tool up
before it waits for the approval and runs what it found (`tool-invoker.ts:40-60`), so
a tool replaced by `session.update` in between is run once more. And
`approval-controller.ts:7-9` says that the controller eventually sends
`approval.resolved`; for a decision that comes after the timeout of its request it
sends nothing (`approval-controller.ts:114-116`), and what stops the device's retries
is the suspension the timeout sent, or a deactivation.

## Properties

Conversation. `NoOrphanAgent`: what the backend holds open is in use or being closed.
`ImplementsAgentLifetime`: a retired session never comes back, and is closed in the
end. `CancelBarrier`: what a step sends belongs to the current generation and the
Agent in use. `StateSettles`: connecting, recognizing and speaking end,
for all the Agent's failures but a turn it lost, and after that with the next one that
ends, an interrupt or a stop.
`PendingCallsAreCurrent`: a pending device call belongs to a run of the Agent in
use, of the current generation. `ApprovedBeforeRunning`: a guarded tool begins only
from an approved run of the current turn. `EveryRunEnds`: every tool call ends.

Approval. `ResolvedIsReleased` (a resolved request that is still shown has its
message on the way; across a disconnect, where the code replays nothing, it says only
that the device does not show it twice, and what carries the answer over a
reconnection is `CallerNeverHangs` and the once of `ImplementsConsent`),
`ImplementsConsent` (the caller is told what was tapped, or that the request lapsed,
once; it subsumes `AnsweredAsTapped`),
`CallerNeverHangs` and `DecisionArrives` (without a timeout, the retry alone brings
the decision across).

Sessions. `OneSessionPerDevice`, `NothingOutlivesManager` and
`CommandsWaitInOpenSessions`: a session that is evicted, lost or closed takes its
commands with it, and no more than the limit wait.

Bridge. `OneConnection` (also when a retired socket closes late), `NeverStranded`, `BytesAreOutstanding`
(the bytes accounted are exactly those of the armed timers), `Reconnects`.

Dock. `HalfDuplex`: the microphone runs, or a frame waits, only in a listening turn
with nothing played and no interrupt open. `InputIsNegotiated`: the microphone is
enabled only for a connection that negotiated it. `OnlyAnswersWake`: a stopped
or blocked conversation is woken by a request or an interrupt, and by the Gateway's
answer to one that reached it on this connection, by nothing else. `RequestSettles`: a
request ends, and one given up without an answer is shown as blocked. `InterruptEnds`:
an interrupt is acknowledged, or shown to have failed; the loss of the link and a new
activation end it as well. `MicrophoneOpens`: the microphone opens when it may.

Realtime session. `AckedIsServed`: tools may be called only of the active provider,
whose current catalog was delivered to and acknowledged by the session that is up.
`AnswersMatchTheirCatalog`: an output or a `response.create` goes out only while the
host still has the catalog the call was tagged with. `ControlIsNotBlocked`: whatever
tools, updates and continuations wait for, an application event goes out.
`ProviderIsAnnounced` and `ContinuationsEnd`: updates and continuations come to an end.

USB bridge. `OneDirection`: one direction at a time, by session and by device.
`CreditIsKept`: the credit the device counts is what the host can still make of it,
and fits the buffer. `FreshAfterHello`: what follows the acknowledgement of a HELLO on
the cable is of no earlier one. `EndedStreamFinishes`: a stream
whose end was accepted leaves that state, played or not. `HostIsServed`.

USB worker. `PlaysItsOwn`: a speaker plays what was written for its stream.
`DrainedIsPlayed`: a stream reported as drained was played whole. `Agreement`: with
both queues empty the VMs agree on what is open. `NeverRefused`: no stream is refused
because of one that is over. `EverySendSettles` and `FinishedEnds`.

Proved and not run are the `TypeOK` of each of the eight modules,
`AnsweredAsTapped`, `RetryIsActive`, `ReadyIsConnected`, `PlaybackCounted`, `HearsOnceReady` and `RetriesAreOwned`: the
theorems hold for every value of the constants.

Each property has a mutant in PROJECT.json: a plausible bug of the code, under which
TLC finds the property violated in the same run.

## Fairness

Weak fairness is given to what the runtime does by itself: timers fire, promises of
the Agent backend and the engines settle, frames that arrived are handled, resumed
continuations run, and an Agent's turn ends or is lost. Nothing is asked of the operator, of
the device, or of the desktop app; the device sessions have safety properties only. `RetryDecision` is strongly fair: the device
repeats a decision every second, and a connection that takes messages again and
again takes one of those. In the dock the poll (`Tick`), the retry of a request and the
timeout of an interrupt are timers, and nothing is asked of the Gateway, the player
or the owner. In the realtime session promise jobs run, timers fire and the transport
answers every send; tools, the host and the application owe nothing. On the cable the
driver calls back while it can, the maintenance timer ticks, an audio output takes PCM
if it is polled for long enough and drains, the host reads, and a cable that failed is
mended; the host need not send anything. (That module writes weak fairness as
`[]<>~enabled \/ []<><<A>>_vars`, with the guards named, where TLC would have to find
out by enumeration whether an action is enabled.) In the worker both VMs read their
messages and the DMA of a started output asks for more. `Reconnects` assumes a Gateway that answers a hello; the
bridge has no timer for one that does not, which is the hazard at `bridge.ts:189`.

## Proofs

`DeviceSessionsProofs` proves, for any number of sockets, devices, commands and
frames, `TypeOK`, `OneSessionPerDevice`, `NothingOutlivesManager` and
`CommandsWaitInOpenSessions`. `OneSessionPerDevice` is not inductive: that an open
session with a device id is the one the map names for it (`ServingIsRegistered`),
and that the map names a session only under its own id (`RegisteredUnderOwnId`), is
what makes `Register` release exactly the session it replaces. `OpenIsLive` is what
lets `close()` reach every session by its set. `CommandsWaitInOpenSessions` needs
the finite sets of pending commands and the library's facts on cardinality.
Assumed: the constants are disjoint from the markers, `Commands` is finite.

`GatewayBridgeProofs` proves `TypeOK`, `OneConnection`, `ReadyIsConnected`,
`NeverStranded` and `BytesAreOutstanding`, for any window, backoff, message sizes and
number of failures. The invariant adds that the current socket has the current
generation, and that a bridge which is closed or waits for its timer has no socket.
`BytesAreOutstanding` is inductive with it once the operators are known: `Total` of an
appended, an empty and a shortened sequence (`TotalAppend`, `TotalEmpty`, `TotalTail`)
gives that a release never meets the code's clamp at zero. `StepOfWindow` sorts every
action into the four things it can do to the window.

`ApprovalHandshakeProofs` proves `TypeOK`, `AnsweredAsTapped`, `RetryIsActive`,
`ResolvedIsReleased` and that the handshake implements `Consent` (`ImplementsConsent`; `Consent` has no
fairness), for any set of requests and any bounds, with or without the Android peer.
`AnsweredAsTapped` is not inductive: the invariant says the same of what travels to
the Gateway (`ResponsesAreTapped`) and of what the device keeps for its retries
(`DecisionsAreTapped`). The refinement needs one fact more, that whatever is on its
way to the device or in its queue was asked (`HeardWasAsked`), since a tap is an
opinion on a question somebody put. Every step belongs to one side, and
`GatewayStep` and `DeviceStep` say what such a step has to show. `ResolvedIsReleased`
speaks of the order of messages: a request on its way to the device whose answer is
given has its `approval.resolved` behind it in the same channel (`RequestsAreReleased`),
so that the device, which reads in order, never queues a request after it was told that
it is over (`QueuedAreReleased`). That no request is queued twice (`Distinct`) and that
a closed approval session has an empty queue (`ClosedIsEmpty`) complete the invariant
`Releases`.

`ConversationSessionProofs` proves `TypeOK`, `NoOrphanAgent`, `PendingCallsAreCurrent`,
`CancelBarrier`, `ApprovedBeforeRunning` and the safety part of `AgentLifetime` (its
initial state and its steps), for any tools, hosts, call ids and bounds. None of the
invariants is inductive alone. `AgentIsLatest` and `CreationsAreFresh` say that the
Agent in use, or the one being created under the current session generation, was made
under the latest of them; `RetiredStayRetired` that what is being closed is never used
again. `TurnsAreCurrent` and `WorkIsOfAgent` say that open turns, speeches and tool
calls of the current generation belong to the Agent in use, which is what makes the
generation compare of each continuation enough. A step touches the sessions, the work
or the runs: `WorkStep`, `RunStep`, `StopStep` and `SessionStep` say what each kind has
to show, and every action cites one.

`GatewayDockProofs` proves every safety property of the dock (`TypeOK`, `HalfDuplex`,
`PlaybackCounted`, `InputIsNegotiated`, `HearsOnceReady`, `OnlyAnswersWake`,
`FailureIsShown`, the half of `RequestSettles` that is no liveness) for
any bounds and any responses. `PlaybackCounted` needs `FutureIsSilent` (no generation
to come has plays yet), and `TypeOK` needs `PlaybackCounted`: that the count does not
go below zero is not a matter of types. `HalfDuplex` is shown by separating the steps
that synchronise the microphone from those that leave alone what it depends on.
For
`OnlyAnswersWake` every action is sorted by whether it can change what is shown while
the conversation is stopped; a request that does is a new one (`RequestIsNew`). Assumed: the marker `None` is neither a
request nor a response.

`RealtimeSessionProofs` proves `TypeOK`, `AckedIsServed`, `RetriesAreOwned` and
`AnswersMatchTheirCatalog`, for any number of leases, updates, calls and faults. What
makes them inductive is said of the send tail and of the suspended functions:
`TailIsOwned` and `OnceInTail` (every send in the tail has a loop that waits for it,
and is there once), `DeliveredIsOver` (an update that was delivered is in no loop any
more), `UpdatesAreLeased` (the session an update was made for is the one the host has
created, if it is still up), `WaitsAreOwned` (a wait for a retry belongs to leases in
force) and `TagsHold` (a call under way was tagged with an update that was delivered
and acknowledged, the current one as long as its leases last). A step moves the
calls, the updates or the leases: `CallsMove`, `UpdatesMove`, `LeasesMove` and
`AckedMoves` say what each owes, and every action cites one or two. Assumed: only that the bounds are numbers.

`UsbAudioBridgeProofs` proves `TypeOK`, `OneDirection`, `RoomForCredit`,
`FreshAfterHello` and `CreditIsKept`, for any window, capacity and queue lengths and any
number of streams, HELLOs and faults. A callback is a composition of helpers, and so is
the proof: `Good(d)` says of the fields `d` that they have their types, use one
direction at a time and leave room for the credit; one lemma per helper says that it
keeps `Good`, and each action cites the helpers the code calls.

What is outbound is treated in the same way. `Orderly(d)` says that the frames outbound
are in the order of the HELLOs (which is `FreshAfterHello`), that what waits or is in
use belongs to the last HELLO, and that a bridge without a stream counts no credit.
`Leads(d, e)` says what a helper that turns `d` into `e` may do to the credit: it starts
no stream, grants credit to no stream but the one in use, and leaves
`Balance`, the credit that is counted less the credit that is outbound, as it is. It is
transitive (`LeadsOn`), so an action is again the chain of its helpers. Only three steps
are not of that kind, and `Handled` names what they do: a stream starts with nothing
outstanding, takes one frame of PCM, or is ended.

`CreditIsKept` is not inductive. The balance has to agree with what the host has not
spent and with the PCM in flight (`Kept`), also while the host uses another stream than
the bridge; then it may only be less. And a stream whose start the bridge has not read
yet must find nothing of its own on either side (`Untouched`: no credit outbound, no PCM
in flight), which holds because the host numbers its streams on and starts each once
(`Numbered`). All of that is `Sound`; `Balanced` joins it with `IInv` and `Orderly`. TLC
checked `Balanced` in the states of the run before it was proved.
The credit outbound and the PCM in flight are sums over sequences, and frames are
dropped from the middle of the queue (`Without`): both are recursive functions, and the
facts about them that the proof needs are proved by induction. The library's induction
rules have an operator as parameter; `SetInduction` is the same for a set, from the
well-founded order of the numbers.

`UsbAudioWorkerProofs` proves `TypeOK`, `PlaysItsOwn`, `DrainedIsPlayed`, `Agreement`
and `NeverRefused`, for any ring, number of streams, of blocks and of DMA callbacks. The
first two say something of both
VMs, so the invariant is about what is between them: `OpensInOrder` (what the bridge
has asked to open is numbered in its order, later than what the main VM has open and
than every stream it has reported), `OpenIsLast` (an output that was opened is the last
stream asked for, hence the only one the main VM may have open) and `EndsArePlayed`
(what the stream wrote is in the ring or was taken from it; its last callbacks are
counted once its end is known and the ring is empty; an end, or a drained report, of
the current stream says that it is finished). With them `Poll` writes to a ring whose
AudioOut is its own or none, and `#openAudio` resets a ring nobody writes to.
`Agreement` and `NeverRefused` rest on `Exchange`, which speaks of the order in both
queues while the main VM has its worker, for the microphone and the speaker alike: what
the main VM has open or is about to open and the bridge uses no more has its close on
the way behind it (`LeftIsClosed`); before anything is opened, all that was open is
closed (`ClosedBeforeOpened`), hence no refusal; and what the bridge uses is open, about
to be opened, or about to be reported as over, if the main VM is not about to hear that the worker
broke (`UsedIsKnown`, `Told`, `Broken`). A broken worker is no exception to agreement:
its `error` keeps the queue from being empty, and reading it leaves neither VM with
anything open. With both queues empty
only agreement is left.

Only model-checked: every liveness property and the fairness in
`ImplementsAgentLifetime`, which are out of the prover's reach, and the three runs that
show a disagreement. Every safety invariant and every action property of a passing run
is a theorem.

## Plan

Done: `ConversationSession`, `ApprovalHandshake`, `DeviceSessions`, `GatewayBridge`
and `GatewayDock` with their abstract specifications, runs and proofs; then
`RealtimeSession`, and the Android dock in `UsbAudioBridge` and `UsbAudioWorker`, with
their runs and proofs. What would come next, in this order:

1. The dock composed with the Gateway's turn: does every turn of `ConversationSession`
   end with a message that takes the dock out of recognizing and speaking? (hazard at
   `runtime.ts:73`: an empty reply, or speech without a chunk, does not.)
2. The dock composed with `GatewayBridge`, for what a handler sends inside
   `session.ready` (hazard at `bridge.ts:173`).
3. `OpenAIBackend`: the message list under cancel, overlapping turns and tool calls.
4. The motion controller's ownership of the servos; the performance player.
5. A refinement that lets `UsbAudioBridge` stand for the reduced bridge of
   `UsbAudioWorker`.
6. Of the sums and sequences of `UsbAudioBridgeProofs`: that PCM within the credit is
   never refused, which needs the sequence numbers in flight besides `Balanced`.

## Not modelled

Most of the repository's lines are not control that a model checker has something to
say about, and stay out for these reasons:

- Web pages (editor, simulator, installer, preferences), the Workshop, and the
  settings views and games of the firmware: sequential code that renders or validates,
  each with unit tests of its own.
- Drivers and protocols of servos, displays, cameras and audio hardware: register and
  packet I/O whose partner is hardware that the repository does not describe.
- HTTP clients (speech, the Agent backends' transports), parsers and builders of the
  wire format, configuration and authentication: what they return is an input of the
  modelled actions.
- On-device chat, motion, the performance and reaction players, the inbox and chunk
  storage have state worth a model and are left to the plan above.
- In the modelled parts: wording, balloons, PCM and voice activity, sequence numbers
  and ids, diagnostics, and what the tables under "Modules" name.
