------------------------ MODULE ConversationSession ------------------------
(***************************************************************************)
(* One conversation between the Gateway and one Stack-chan, as             *)
(* gateway/src/conversation/conversation-session.ts runs it, with the tool *)
(* invoker it drives (tools/tool-invoker.ts) and the approval controller   *)
(* the invoker waits on (approval/approval-controller.ts).                 *)
(*                                                                         *)
(* The code is a single thread whose handlers suspend at every await.      *)
(* Each await is a record in a set here (creating, closing, cancel,        *)
(* speeches, transcriptions, runs), so everything the event loop may run   *)
(* in between does run in between.  The Agent backend, the speech engines  *)
(* and the device are the environment.                                     *)
(*                                                                         *)
(* An Agent session is identified by the value of sessionGeneration it was *)
(* created under; 0 stands for `undefined`.                                *)
(***************************************************************************)
EXTENDS Integers, FiniteSets

CONSTANTS
  Requests,        \* request ids of the device's conversation events
  NoRequest,       \* a stop that answers nobody (fatal error, close)
  Calls,           \* call ids an Agent gives to its tool calls
  Tools,           \* tool names
  GatewayTools,    \* the names hosted by the Gateway (MCP, built-ins)
  DeviceTools,     \* the names a device may advertise
  Guarded,         \* the names policy.requireApproval matches
  HasTts,          \* a TTS adapter other than "null" is configured
  MaxSessions,     \* bound: the sessionGeneration beyond which nothing starts
  MaxGenerations,  \* bound: interrupts and stops
  MaxResponses,    \* bound: response ids created
  MaxUpdates,      \* bound: session.update events
  MaxTurns         \* bound: Agent turns open at once

ASSUME ConstantsAssumption ==
  /\ NoRequest \notin Requests
  /\ GatewayTools \subseteq Tools /\ DeviceTools \subseteq Tools /\ Guarded \subseteq Tools
  /\ HasTts \in BOOLEAN
  /\ {MaxSessions, MaxGenerations, MaxResponses, MaxUpdates, MaxTurns} \subseteq Nat

VARIABLES
  state,              \* RemoteConversationState
  agent,              \* the Agent session in use
  closed,             \* close() was called
  generation,         \* bumped by every interrupt and stop; the abort signal
  sessionGeneration,  \* bumped by every start and stop
  cancelling,         \* an interrupt awaits the Agent
  speaking,           \* a reply is being synthesized or streamed
  agentResponseId,    \* the response an audio-producing Agent streams
  responses,          \* response ids created so far
  sessionUpdateId,    \* the last session.update acknowledged
  registry,           \* the host of each registered tool name
  pendingDeviceCalls, \* per call id, the session whose call waits on the device
  creating,           \* startConversation, awaiting createSession
  closing,            \* stopConversation or a superseded start, awaiting close
  cancel,             \* interruptConversation, awaiting cancel
  speeches,           \* speakText, awaiting the synthesizer
  transcriptions,     \* the audio session, awaiting the recognizer
  runs,               \* runToolCall, wherever the invoker suspended it
  live,               \* Agent sessions the backend holds open
  turns,              \* turns the Agent in use has open
  turnGeneration,     \* the generation those turns were asked under
  asked,              \* call ids the Agent in use has used
  lost,               \* it has failed a turn, and nothing has answered for it since
  sent                \* what the last step sent, to the device or the Agent

lifecycle == <<state, agent, closed, generation, sessionGeneration, cancelling>>
speech    == <<speaking, agentResponseId, responses, speeches>>
tooling   == <<sessionUpdateId, registry, pendingDeviceCalls, runs>>
awaits    == <<creating, closing, cancel, transcriptions>>
backend   == <<live, turns, turnGeneration, asked, lost>>
vars      == <<lifecycle, speech, tooling, awaits, backend, sent>>

States == {"standby", "connecting", "listening", "recognizing", "speaking", "blocked"}
Hosts  == {"none", "gateway", "device"}
Phases == {"approval", "approved", "gateway", "device", "settled", "refused"}

Sessions    == 1..(MaxSessions + MaxGenerations + 1)
Generations == 0..(MaxGenerations + 1)

Creations      == [session : Sessions, request : Requests]
Closures       == [agent : Sessions, request : Requests \cup {NoRequest}, stop : BOOLEAN]
Cancellations  == [session : Sessions \cup {0}, agent : Sessions \cup {0}]
Speeches       == [id : 1..MaxResponses, session : Sessions, generation : Generations,
                   started : BOOLEAN]
Transcriptions == [session : Sessions, generation : Generations]
Runs           == [call : Calls, session : Sessions, generation : Generations, tool : Tools,
                   host : Hosts, phase : Phases]

-----------------------------------------------------------------------------
(***************************************************************************)
(* Messages.  A message that belongs to an Agent turn carries the          *)
(* generation of the work that produced it.                                *)
(***************************************************************************)
Note(type)        == [type |-> type]
Owned(type, g, a) == [type |-> type, generation |-> g, agent |-> a]
Result(req, accepted, st) ==
  [type |-> "conversation.result", request |-> req, accepted |-> accepted, state |-> st]
FunctionCall(r) ==
  [type |-> "function_call", generation |-> r.generation, agent |-> r.session, tool |-> r.tool]

\* DeviceSession.send drops everything once the device is gone.
ToDevice(messages) == IF closed THEN {} ELSE messages

\* Mutants, for the runs that show what each property catches: bugs this code
\* could plausibly have.  Each is named after what it forgets.
SettledForgotten(st) == st

Settled(st) == IF st \in {"blocked", "standby"} THEN st ELSE "listening"
Moved(st, next) == IF st \in {"blocked", "standby"} THEN st ELSE next

Init ==
  /\ state = "standby" /\ agent = 0 /\ closed = FALSE
  /\ generation = 0 /\ sessionGeneration = 0 /\ cancelling = FALSE
  /\ speaking = FALSE /\ agentResponseId = 0 /\ responses = 0 /\ speeches = {}
  /\ sessionUpdateId = 0
  /\ registry = [t \in Tools |-> IF t \in GatewayTools THEN "gateway" ELSE "none"]
  /\ pendingDeviceCalls = [c \in Calls |-> 0]
  /\ runs = {} /\ creating = {} /\ closing = {} /\ cancel = {} /\ transcriptions = {}
  /\ live = {} /\ turns = 0 /\ turnGeneration = 0 /\ asked = {} /\ lost = FALSE
  /\ sent = {}
-----------------------------------------------------------------------------
(***************************************************************************)
(* Starting: conversation.start, and the continuations of createSession.   *)
(***************************************************************************)
StartConversation(req) ==
  /\ ~closed
  /\ \/ /\ agent # 0
        /\ sent' = {Result(req, TRUE, IF state = "standby" THEN "listening" ELSE state)}
        /\ UNCHANGED <<lifecycle, awaits>>
     \/ /\ agent = 0
        /\ sessionGeneration < MaxSessions
        /\ state' = "connecting"
        /\ sessionGeneration' = sessionGeneration + 1
        /\ creating' = creating \cup {[session |-> sessionGeneration', request |-> req]}
        /\ sent' = {}
        /\ UNCHANGED <<agent, closed, generation, cancelling, closing, cancel, transcriptions>>
  /\ UNCHANGED <<speech, tooling, backend>>

SupersededByCloseOnly(session) == closed   \* mutant

Superseded(session) == closed \/ session # sessionGeneration

\* The backend answered a start that a stop, a newer start or close overtook:
\* the new Agent session is closed again.
DiscardSession(c) ==
  /\ c \in creating
  /\ Superseded(c.session)
  /\ creating' = creating \ {c}
  /\ live' = live \cup {c.session}
  /\ closing' = closing \cup {[agent |-> c.session, request |-> NoRequest, stop |-> FALSE]}
  /\ sent' = {}
  /\ UNCHANGED <<lifecycle, speech, tooling, cancel, transcriptions, turns, turnGeneration,
                 asked, lost>>

AdoptSession(c) ==
  /\ c \in creating
  /\ ~Superseded(c.session)
  /\ creating' = creating \ {c}
  /\ live' = live \cup {c.session}
  /\ agent' = c.session
  /\ state' = "listening"
  /\ turns' = 0 /\ asked' = {} /\ lost' = FALSE
  /\ sent' = {Result(c.request, TRUE, "listening")}
  /\ UNCHANGED <<closed, generation, sessionGeneration, cancelling, speech, tooling,
                 closing, cancel, transcriptions, turnGeneration>>

CreateSessionFailed(c) ==
  /\ c \in creating
  /\ creating' = creating \ {c}
  /\ \/ /\ Superseded(c.session)
        /\ sent' = {}
        /\ UNCHANGED state
     \/ /\ ~Superseded(c.session)
        /\ state' = "blocked"
        /\ sent' = {Note("agent.error"), Result(c.request, FALSE, "blocked")}
  /\ UNCHANGED <<agent, closed, generation, sessionGeneration, cancelling, speech, tooling,
                 closing, cancel, transcriptions, backend>>
-----------------------------------------------------------------------------
(***************************************************************************)
(* Stopping.  StopFrom(st, req, notes) is stopConversation called in state *)
(* st: it runs up to the await of the Agent's close, or to its end when    *)
(* there is no Agent.  notes are the messages the caller sent before.      *)
(***************************************************************************)
ReleaseDeviceCallsUnanswered(r) == r   \* mutant: timers cleared, nobody told

ReleaseDeviceCalls(r) ==
  IF r.phase = "device" /\ pendingDeviceCalls[r.call] = r.session
  THEN [r EXCEPT !.phase = "settled"] ELSE r

StopFrom(st, req, notes) ==
  /\ sessionGeneration' = sessionGeneration + 1
  /\ generation' = generation + 1
  /\ agent' = 0
  /\ speaking' = FALSE
  /\ agentResponseId' = 0
  /\ pendingDeviceCalls' = [c \in Calls |-> 0]
  /\ turns' = 0 /\ asked' = {} /\ lost' = FALSE
  /\ \/ /\ agent # 0
        /\ closing' = closing \cup {[agent |-> agent, request |-> req, stop |-> TRUE]}
        /\ state' = st
        /\ sent' = notes
     \/ /\ agent = 0
        /\ state' = IF st = "blocked" THEN "blocked" ELSE "standby"
        /\ sent' = notes \cup IF req = NoRequest THEN {} ELSE {Result(req, TRUE, state')}
        /\ UNCHANGED closing
  /\ UNCHANGED <<creating, transcriptions, responses, speeches, sessionUpdateId, registry,
                 live, turnGeneration>>

MayStop == generation < MaxGenerations

StopConversation(req) ==
  /\ ~closed /\ MayStop
  /\ StopFrom(state, req, {})
  /\ runs' = {ReleaseDeviceCalls(r) : r \in runs}
  /\ UNCHANGED <<closed, cancelling, cancel>>

\* The Agent's close() settled.  Its failure is only logged.
FinishStop(k) ==
  /\ k \in closing /\ k.stop
  /\ closing' = closing \ {k}
  /\ live' = live \ {k.agent}
  /\ state' = IF state = "blocked" THEN "blocked" ELSE "standby"
  /\ sent' = ToDevice(IF k.request = NoRequest THEN {} ELSE {Result(k.request, TRUE, state')})
  /\ UNCHANGED <<agent, closed, generation, sessionGeneration, cancelling, speech, tooling,
                 creating, cancel, transcriptions, turns, turnGeneration,
                 asked, lost>>

FinishDiscard(k) ==
  /\ k \in closing /\ ~k.stop
  /\ closing' = closing \ {k}
  /\ live' = live \ {k.agent}
  /\ sent' = {}
  /\ UNCHANGED <<lifecycle, speech, tooling, creating, cancel, transcriptions, turns,
                 turnGeneration, asked, lost>>

\* DeviceSession.close: everything sent from here on is dropped, the approval
\* controller declines what the operator has not answered, then the stop runs.
Close ==
  /\ ~closed
  /\ closed' = TRUE
  /\ StopFrom(state, NoRequest, {})
  /\ runs' = {IF r.phase = "approval" THEN [r EXCEPT !.phase = "refused"]
              ELSE ReleaseDeviceCalls(r) : r \in runs}
  /\ UNCHANGED <<cancelling, cancel>>
-----------------------------------------------------------------------------
(***************************************************************************)
(* Interrupting: response.cancel and the continuations of agent.cancel().  *)
(***************************************************************************)
Interrupt ==
  /\ ~closed /\ ~cancelling /\ MayStop
  /\ cancelling' = TRUE
  /\ generation' = generation + 1
  /\ speaking' = FALSE
  /\ agentResponseId' = 0
  /\ pendingDeviceCalls' = [c \in Calls |-> 0]
  /\ runs' = {ReleaseDeviceCalls(r) : r \in runs}
  /\ cancel' = {[session |-> sessionGeneration, agent |-> agent]}
  /\ sent' = {}
  /\ UNCHANGED <<state, agent, closed, sessionGeneration, responses, speeches,
                 sessionUpdateId, registry, creating, closing, transcriptions, backend>>

\* cancel() resolved: the Agent has dropped its turns.  With no Agent there was
\* nothing to await, and nothing that can fail.
CancelResolved(k) ==
  /\ k \in cancel
  /\ cancel' = {} /\ cancelling' = FALSE
  /\ turns' = IF agent = k.agent THEN 0 ELSE turns
  /\ lost' = (lost /\ agent # k.agent)
  /\ \/ /\ Superseded(k.session)
        /\ sent' = {}
        /\ UNCHANGED state
     \/ /\ ~Superseded(k.session)
        /\ state' = IF agent # 0 THEN "listening" ELSE "standby"
        /\ sent' = {Note("response.cancelled")}
  /\ UNCHANGED <<agent, closed, generation, sessionGeneration, speech, tooling, creating,
                 closing, transcriptions, live, turnGeneration, asked>>

\* cancel() rejected.  The error is fatal for whatever session is in use now.
CancelRejected(k) ==
  /\ k \in cancel /\ k.agent # 0 /\ MayStop
  /\ cancel' = {} /\ cancelling' = FALSE
  /\ StopFrom("blocked", NoRequest, ToDevice({Note("agent.error")}))
  /\ runs' = {ReleaseDeviceCalls(r) : r \in runs}
  /\ UNCHANGED closed
-----------------------------------------------------------------------------
(***************************************************************************)
(* Events of the Agent.  Any session the backend holds open may emit; the  *)
(* onEvent wrapper and handleAgentEvent decide whether it is heard.        *)
(***************************************************************************)
HearsWhileCancelling(a) == ~closed /\ agent # 0 /\ a = sessionGeneration   \* mutant

Hears(a) == ~closed /\ ~cancelling /\ agent # 0 /\ a = sessionGeneration

\* The Agent in use emits inside a turn; a retired one until its close settles.
Emits(a) == a \in live /\ (a = agent => turns > 0)

FromAgent(type, a) == Owned(type, turnGeneration, a)

\* What the Agent heard shows that it works on it; what it says, by itself, nothing.
AgentTranscript(a) ==
  /\ Emits(a) /\ Hears(a)
  /\ state' = Moved(state, "recognizing") \/ UNCHANGED state
  /\ sent' = {FromAgent("transcript", a)}
  /\ UNCHANGED <<agent, closed, generation, sessionGeneration, cancelling, speech, tooling,
                 awaits, backend>>

AgentPartialText(a) ==
  /\ Emits(a) /\ Hears(a)
  /\ state' = Moved(state, "speaking")
  /\ sent' = {FromAgent("transcript", a)}
  /\ UNCHANGED <<agent, closed, generation, sessionGeneration, cancelling, speech, tooling,
                 awaits, backend>>

\* A final text starts speakText, which runs up to the synthesizer's first chunk;
\* an empty one is only shown.
AgentFinalText(a) ==
  /\ Emits(a) /\ Hears(a)
  /\ \/ UNCHANGED <<responses, speeches, speaking, state>>
     \/ /\ responses < MaxResponses
        /\ responses' = responses + 1
        /\ speeches' = speeches \cup
             {[id |-> responses', session |-> agent, generation |-> generation,
               started |-> FALSE]}
        /\ speaking' = (speaking \/ HasTts)
        /\ state' = IF HasTts THEN "speaking" ELSE state
  /\ sent' = {FromAgent("transcript", a)}
  /\ UNCHANGED <<agent, closed, generation, sessionGeneration, cancelling, agentResponseId,
                 tooling, awaits, backend>>

AgentAudio(a) ==
  /\ Emits(a) /\ Hears(a)
  /\ \/ /\ agentResponseId = 0
        /\ responses < MaxResponses
        /\ responses' = responses + 1
        /\ agentResponseId' = responses'
        /\ speaking' = TRUE
        /\ state' = "speaking"
        /\ sent' = {FromAgent("audio.started", a), FromAgent("audio.chunk", a)}
     \/ /\ agentResponseId # 0
        /\ sent' = {FromAgent("audio.chunk", a)}
        /\ UNCHANGED <<responses, agentResponseId, speaking, state>>
  /\ UNCHANGED <<agent, closed, generation, sessionGeneration, cancelling, speeches, tooling,
                 awaits, backend>>

AgentAudioDone(a) ==
  /\ Emits(a) /\ Hears(a)
  /\ agentResponseId # 0
  /\ agentResponseId' = 0
  /\ speaking' = FALSE
  /\ state' = Settled(state)
  /\ sent' = {FromAgent("audio.completed", a)}
  /\ UNCHANGED <<agent, closed, generation, sessionGeneration, cancelling, responses, speeches,
                 tooling, awaits, backend>>

\* An Agent that streams audio ends the stream before its turn, unless the turn
\* that opened the stream is the one it lost.
AgentTurnDone(a) ==
  /\ Emits(a) /\ Hears(a)
  /\ agentResponseId = 0 \/ lost
  /\ turns' = turns - 1
  /\ state' = IF speaking THEN state ELSE Settled(state)
  /\ sent' = {}
  /\ UNCHANGED <<agent, closed, generation, sessionGeneration, cancelling, speech, tooling,
                 awaits, live, turnGeneration, asked, lost>>

\* A turn that nothing ends: the await of inputText rejects, with the text that
\* was typed or heard, the backend drops a turn for a newer one, or its answer
\* never comes.  The rejection is only logged; no handler of the conversation runs.
TurnLost(a) ==
  /\ a \in live /\ a = agent /\ turns > 0
  /\ turns' = turns - 1
  /\ lost' = TRUE
  /\ sent' = {}
  /\ UNCHANGED <<lifecycle, speech, tooling, awaits, live, turnGeneration, asked>>

AgentRecoverableError(a) ==
  /\ Emits(a) /\ Hears(a)
  /\ sent' = {FromAgent("agent.error", a)}
  /\ UNCHANGED <<lifecycle, speech, tooling, awaits, backend>>

AgentFatalError(a) ==
  /\ Emits(a) /\ Hears(a) /\ MayStop
  /\ StopFrom("blocked", NoRequest, {FromAgent("agent.error", a)})
  /\ runs' = {ReleaseDeviceCalls(r) : r \in runs}
  /\ UNCHANGED <<closed, cancelling, cancel>>
-----------------------------------------------------------------------------
(***************************************************************************)
(* speakText after each chunk of the synthesizer.                          *)
(***************************************************************************)
Current(g) == ~closed /\ g = generation

SpeechChunk(s) ==
  /\ s \in speeches
  /\ Current(s.generation)
  /\ HasTts
  /\ speeches' = (speeches \ {s}) \cup {[s EXCEPT !.started = TRUE]}
  /\ speaking' = (speaking \/ ~s.started)
  /\ state' = IF s.started THEN state ELSE "speaking"
  /\ sent' = {Owned("audio.chunk", s.generation, s.session)} \cup
             IF s.started THEN {} ELSE {Owned("audio.started", s.generation, s.session)}
  /\ UNCHANGED <<agent, closed, generation, sessionGeneration, cancelling, agentResponseId,
                 responses, tooling, awaits, backend>>

\* The synthesizer is exhausted, or failed, in the generation that asked for it.
SpeechEnd(s, failed) ==
  /\ s \in speeches
  /\ Current(s.generation)
  /\ speeches' = speeches \ {s}
  /\ speaking' = FALSE
  /\ state' = Settled(state)
  /\ sent' = (IF failed THEN {Note("agent.error")} ELSE {}) \cup
             IF s.started THEN {Owned("audio.completed", s.generation, s.session)} ELSE {}
  /\ UNCHANGED <<agent, closed, generation, sessionGeneration, cancelling, agentResponseId,
                 responses, tooling, awaits, backend>>

SpeechAbandoned(s) ==
  /\ s \in speeches
  /\ ~Current(s.generation)
  /\ speeches' = speeches \ {s}
  /\ sent' = {}
  /\ UNCHANGED <<lifecycle, speaking, agentResponseId, responses, tooling, awaits, backend>>
-----------------------------------------------------------------------------
(***************************************************************************)
(* Input from the device: typed text, and speech through the recognizer.   *)
(***************************************************************************)
AskAgent(notes) ==
  /\ turns < MaxTurns
  /\ turns' = turns + 1
  /\ turnGeneration' = generation
  /\ lost' = (lost /\ agentResponseId # 0)
  /\ state' = "recognizing"
  /\ sent' = notes \cup {Owned("inputText", generation, agent)}
  /\ UNCHANGED <<agent, closed, generation, sessionGeneration, cancelling, speech, tooling,
                 creating, closing, cancel, live, asked>>

TextInput ==
  /\ ~closed /\ agent # 0 /\ ~cancelling
  /\ AskAgent({Note("transcript")})
  /\ UNCHANGED transcriptions

\* audio.input that ends an utterance, or audio.input.end with samples buffered.
UtteranceEnds ==
  /\ ~closed /\ agent # 0 /\ ~cancelling
  /\ transcriptions' = transcriptions \cup
       {[session |-> agent, generation |-> generation]}
  /\ sent' = {}
  /\ UNCHANGED <<lifecycle, speech, tooling, creating, closing, cancel, backend>>

\* transcribe() and onUtterance after the recognizer returned a text.  Every
\* reset of the audio session comes with a new generation.
TranscriptionDone(t) ==
  /\ t \in transcriptions
  /\ transcriptions' = transcriptions \ {t}
  /\ t.generation = generation
  /\ agent # 0 /\ ~closed /\ ~cancelling /\ t.session = sessionGeneration
  /\ AskAgent({Owned("transcript", t.generation, t.session)})

\* A late result, an empty text, a text nobody may act on, or a failure.
TranscriptionDropped(t, failed) ==
  /\ t \in transcriptions
  /\ transcriptions' = transcriptions \ {t}
  /\ sent' = IF failed /\ t.generation = generation THEN ToDevice({Note("agent.error")}) ELSE {}
  /\ UNCHANGED <<lifecycle, speech, tooling, creating, closing, cancel, backend>>
-----------------------------------------------------------------------------
(***************************************************************************)
(* Tools.  A run is one runToolCall; phases follow invoke():               *)
(*   approval  waits for the operator        approved  was approved        *)
(*   gateway   runs in the Gateway           device    waits for the device*)
(*   settled   ended inside its task bracket refused   ended before it     *)
(***************************************************************************)
Begin(r) ==
  LET phase == IF r.host = "gateway" THEN "gateway"
               ELSE IF sessionUpdateId = 0 THEN "settled" ELSE "device" IN
  /\ runs' = (runs \ {r}) \cup {[r EXCEPT !.phase = phase]}
  /\ pendingDeviceCalls' = IF phase = "device"
                           THEN [pendingDeviceCalls EXCEPT ![r.call] = r.session]
                           ELSE pendingDeviceCalls
  /\ sent' = ToDevice({Owned("task.running", r.generation, r.session)} \cup
                      IF phase = "device" THEN {FunctionCall(r)} ELSE {})

AgentToolCall(a, c, t) ==
  LET r == [call |-> c, session |-> a, generation |-> generation, tool |-> t,
            host |-> registry[t], phase |-> "approved"] IN
  /\ Emits(a) /\ Hears(a)
  /\ c \notin asked
  /\ asked' = asked \cup {c}
  /\ \/ /\ r.host = "none"
        /\ runs' = runs \cup {[r EXCEPT !.phase = "refused"]}
        /\ sent' = {}
        /\ UNCHANGED pendingDeviceCalls
     \/ /\ r.host # "none" /\ t \in Guarded
        /\ runs' = runs \cup {[r EXCEPT !.phase = "approval"]}
        /\ sent' = {Owned("approval.request", r.generation, a)}
        /\ UNCHANGED pendingDeviceCalls
     \/ /\ r.host # "none" /\ t \notin Guarded
        /\ Begin(r)
  /\ UNCHANGED <<lifecycle, speech, sessionUpdateId, registry, awaits, live, turns,
                 turnGeneration, lost>>

Moves(r, phase) ==
  /\ runs' = (runs \ {r}) \cup {[r EXCEPT !.phase = phase]}
  /\ UNCHANGED <<lifecycle, speech, sessionUpdateId, registry, awaits, backend>>

ApprovalResponse(r, decision) ==
  /\ r \in runs /\ r.phase = "approval" /\ ~closed
  /\ Moves(r, IF decision = "approve" THEN "approved" ELSE "refused")
  /\ sent' = {Note("approval.resolved")}
  /\ UNCHANGED pendingDeviceCalls

ApprovalTimeout(r) ==
  /\ r \in runs /\ r.phase = "approval"
  /\ Moves(r, "refused")
  /\ sent' = ToDevice({Note("approval.suspended")})
  /\ UNCHANGED pendingDeviceCalls

AbortIgnored(r) == FALSE   \* mutant

\* The signal of a call is aborted by every change of the generation.
Aborted(r) == r.generation # generation

\* invoke() resumes after an approval and looks at the abort signal again.
ResumeApproved(r) ==
  /\ r \in runs /\ r.phase = "approved"
  /\ \/ /\ Aborted(r)
        /\ Moves(r, "refused")
        /\ sent' = {}
        /\ UNCHANGED pendingDeviceCalls
     \/ /\ ~Aborted(r)
        /\ Begin(r)
        /\ UNCHANGED <<lifecycle, speech, sessionUpdateId, registry, awaits, backend>>

GatewayToolReturns(r) ==
  /\ r \in runs /\ r.phase = "gateway"
  /\ Moves(r, "settled")
  /\ sent' = {}
  /\ UNCHANGED pendingDeviceCalls

\* conversation.item.create with the output of a pending call.
DeviceOutput(r) ==
  /\ r \in runs /\ r.phase = "device" /\ ~closed
  /\ pendingDeviceCalls[r.call] = r.session
  /\ Moves(r, "settled")
  /\ pendingDeviceCalls' = [pendingDeviceCalls EXCEPT ![r.call] = 0]
  /\ sent' = {}

\* The timer is cleared with the entry.
DeviceToolTimeout(r) ==
  /\ r \in runs /\ r.phase = "device"
  /\ pendingDeviceCalls[r.call] = r.session
  /\ Moves(r, "settled")
  /\ pendingDeviceCalls' = [pendingDeviceCalls EXCEPT ![r.call] = 0]
  /\ sent' = {}

\* The end of runToolCall: the bracket closes, and the Agent that asked gets the
\* result unless the conversation has moved on.
Deliver(r) ==
  /\ r \in runs /\ r.phase \in {"settled", "refused"}
  /\ runs' = runs \ {r}
  /\ sent' = ToDevice(IF r.phase = "settled" THEN {Note("task.idle")} ELSE {}) \cup
             IF Current(r.generation) /\ agent # 0 /\ agent = r.session
             THEN {Owned("toolResult", r.generation, r.session)} ELSE {}
  /\ UNCHANGED <<lifecycle, speech, sessionUpdateId, registry, pendingDeviceCalls, awaits, backend>>

\* unregisterHost("device"), then registerAll: the device's old tools go, the
\* advertised ones replace any tool of the same name.
Reregistered(advertised) ==
  [t \in Tools |-> IF t \in advertised THEN "device"
                   ELSE IF registry[t] = "device" THEN "none" ELSE registry[t]]

\* session.update.
SessionUpdate(advertised) ==
  /\ ~closed
  /\ sessionUpdateId < MaxUpdates
  /\ sessionUpdateId' = sessionUpdateId + 1
  /\ registry' = Reregistered(advertised)
  /\ sent' = {Note("session.updated")}
  /\ UNCHANGED <<lifecycle, speech, pendingDeviceCalls, runs, awaits, backend>>
-----------------------------------------------------------------------------
Lifecycle ==
  \/ \E req \in Requests : StartConversation(req) \/ StopConversation(req)
  \/ Interrupt
  \/ \E c \in creating : DiscardSession(c) \/ AdoptSession(c) \/ CreateSessionFailed(c)
  \/ \E k \in closing : FinishStop(k) \/ FinishDiscard(k)
  \/ \E k \in cancel : CancelResolved(k) \/ CancelRejected(k)
  \/ Close

AgentEvent ==
  \E a \in live :
    \/ AgentTranscript(a) \/ AgentPartialText(a) \/ AgentFinalText(a)
    \/ AgentAudio(a) \/ AgentAudioDone(a) \/ AgentTurnDone(a)
    \/ TurnLost(a) \/ AgentRecoverableError(a) \/ AgentFatalError(a)
    \/ \E c \in Calls, t \in Tools : AgentToolCall(a, c, t)

Speaking ==
  \E s \in speeches :
    SpeechChunk(s) \/ SpeechAbandoned(s) \/ \E failed \in BOOLEAN : SpeechEnd(s, failed)

Listening ==
  \/ TextInput \/ UtteranceEnds
  \/ \E t \in transcriptions :
       TranscriptionDone(t) \/ \E failed \in BOOLEAN : TranscriptionDropped(t, failed)

ToolStep(r) ==
  \/ ApprovalTimeout(r) \/ ResumeApproved(r) \/ GatewayToolReturns(r)
  \/ DeviceToolTimeout(r) \/ Deliver(r)

Tooling ==
  \/ \E r \in runs : ToolStep(r) \/ DeviceOutput(r) \/ \E d \in {"approve", "decline"} : ApprovalResponse(r, d)
  \/ \E advertised \in SUBSET DeviceTools : SessionUpdate(advertised)

\* A closed session has nothing left to do once its awaits are over.
Finished ==
  /\ closed /\ creating = {} /\ closing = {} /\ cancel = {} /\ speeches = {}
  /\ transcriptions = {} /\ runs = {}
  /\ UNCHANGED vars

Next == Lifecycle \/ AgentEvent \/ Speaking \/ Listening \/ Tooling \/ Finished

Spec == Init /\ [][Next]_vars

(***************************************************************************)
(* Fairness: promises of the backend and of the speech engines settle,     *)
(* timers fire, resumed continuations run, Gateway-hosted tools return and *)
(* the Agent in use ends its turns and streams, or loses them.  Nothing is *)
(* asked of the device, nor of the operator.                               *)
(***************************************************************************)
Fairness ==
  /\ WF_vars(\E c \in creating : DiscardSession(c) \/ AdoptSession(c) \/ CreateSessionFailed(c))
  /\ WF_vars(\E k \in closing : FinishStop(k) \/ FinishDiscard(k))
  /\ WF_vars(\E k \in cancel : CancelResolved(k) \/ CancelRejected(k))
  /\ WF_vars(\E s \in speeches : SpeechAbandoned(s) \/ \E failed \in BOOLEAN : SpeechEnd(s, failed))
  /\ WF_vars(\E r \in runs : ToolStep(r))
  /\ WF_vars(\E a \in live : AgentTurnDone(a) \/ TurnLost(a))
  /\ WF_vars(\E a \in live : AgentAudioDone(a))

FairSpec == Spec /\ Fairness
-----------------------------------------------------------------------------
TypeOK ==
  /\ state \in States /\ agent \in Sessions \cup {0} /\ closed \in BOOLEAN
  /\ generation \in Generations /\ sessionGeneration \in Sessions \cup {0}
  /\ cancelling \in BOOLEAN
  /\ speaking \in BOOLEAN /\ agentResponseId \in 0..MaxResponses /\ responses \in 0..MaxResponses
  /\ speeches \subseteq Speeches
  /\ sessionUpdateId \in 0..MaxUpdates /\ registry \in [Tools -> Hosts]
  /\ pendingDeviceCalls \in [Calls -> Sessions \cup {0}] /\ runs \subseteq Runs
  /\ creating \subseteq Creations /\ closing \subseteq Closures
  /\ cancel \subseteq Cancellations /\ transcriptions \subseteq Transcriptions
  /\ live \subseteq Sessions /\ turns \in 0..MaxTurns /\ turnGeneration \in Generations
  /\ asked \subseteq Calls /\ lost \in BOOLEAN

\* Every Agent session the backend holds open is in use or on its way to be
\* closed, whatever starts, stops and failures overtook its creation
\* (startConversation's superseded path, stopConversation).
NoOrphanAgent == live \subseteq {agent} \cup {k.agent : k \in closing}

\* A device call that can still be answered or time out belongs to a run of the
\* Agent in use, in the current generation: an interrupt or a stop leaves no
\* timer and no entry behind that could settle somebody else's call.
PendingCallsAreCurrent ==
  \A c \in Calls : pendingDeviceCalls[c] # 0 =>
    /\ pendingDeviceCalls[c] = agent
    /\ \E r \in runs : r.call = c /\ r.session = agent /\ r.phase = "device"
                     /\ r.generation = generation

\* The barrier of an interrupt or a stop: nothing a step sends to the device or
\* the Agent comes from work of an earlier generation, and nothing comes from,
\* or goes to, an Agent session that is not the one in use.
CancelBarrier ==
  [][\A m \in sent' : "generation" \in DOMAIN m =>
       m.generation = generation /\ m.agent = agent]_vars

\* A guarded tool runs only when the operator approved that very call while its
\* turn was current (invoke's approval and its second look at the signal).
ApprovedBeforeRunning ==
  [][\A r \in runs' :
       r.phase \in {"gateway", "device"} /\ r.tool \in Guarded /\ r \notin runs =>
         /\ [r EXCEPT !.phase = "approved"] \in runs
         /\ r.generation = generation /\ r.session = agent]_vars

\* A conversation does not stay connecting, recognizing or speaking: one await
\* or another brings it back to a state the device can act in.  What it shows
\* after a turn the Agent lost may be for ever (nothing in the code takes the
\* rejection of inputText back to listening), but not beyond the next turn that
\* ends, an interrupt or a stop.
StateSettles ==
  state \in {"connecting", "recognizing", "speaking"} ~>
    \/ state \in {"standby", "listening", "blocked"}
    \/ lost /\ ~cancelling

\* No tool call hangs: with the operator silent and the device gone, its
\* timeouts still carry every run to its end.
EveryRunEnds == \A c \in Calls : (\E r \in runs : r.call = c) ~> ~(\E r \in runs : r.call = c)

\* The conversation implements the life of an Agent session as agent-backend.ts
\* leaves it to its caller: the backend's open sessions are the opened ones.
Lifetime == INSTANCE AgentLifetime WITH opened <- live, inUse <- agent
ImplementsAgentLifetime == Lifetime!Spec

\* (Not true of the code.)  The state says connecting only until the Agent
\* session is up and standby only when there is none
\* (docs/specs/conversation-gateway.md:195-196).
UpMeansListening == agent # 0 => state \notin {"standby", "connecting"}
=============================================================================
