------------------------- MODULE GatewayDockProofs -------------------------
(***************************************************************************)
(* Theorems about GatewayDock, for any bounds and any replies.  HalfDuplex *)
(* is almost what SyncMicrophone establishes; what has to be shown is that *)
(* no step that does not synchronise the microphone takes away what it     *)
(* may run on.  That the plays awaited are those of the generation needs   *)
(* that no later generation has any.                                       *)
(***************************************************************************)
EXTENDS GatewayDock, TLAPS

FutureIsSilent == \A g \in Generations : g > generation => plays[g] = 0

IInv ==
  TypeOK /\ HalfDuplex /\ PlaybackCounted /\ FutureIsSilent /\ InputIsNegotiated

\* The assumption, bound by bound.
LEMMA BoundsAreNatural ==
  /\ MaxRequests \in Nat /\ MaxCancels \in Nat /\ MaxGenerations \in Nat /\ MaxPlays \in Nat
  /\ RequestRetries \in Nat \ {0} /\ SendRetries \in Nat \ {0}
  BY ConstantsAssumption

\* The initial states are good.
LEMMA InitStep == Init => IInv
  <1> SUFFICES ASSUME Init PROVE IInv OBVIOUS
  <1> USE BoundsAreNatural
  <1>1. TypeOK
    <2>1. plays \in [Generations -> 0..MaxPlays] /\ generation \in Generations
      BY DEF Init, Generations
    <2>2. /\ requests \in 0..MaxRequests /\ retries \in 0..SendRetries
          /\ playbackPending \in 0..MaxPlays
          /\ cancelRequest \in 0..MaxCancels /\ cancels \in 0..MaxCancels
      BY DEF Init
    <2>3. /\ state \in States /\ pending \in Requests \cup {None} /\ asked \subseteq 1..MaxRequests
          /\ transport \in {"disconnected", "ready", "unsupported"}
          /\ responseId \in Responses \cup {None} /\ cancelled \subseteq 1..MaxCancels
      BY DEF Init, States
    <2>4. /\ audioInput \in BOOLEAN /\ audioOutput \in BOOLEAN /\ bound \in BOOLEAN /\ speakLocally \in BOOLEAN
          /\ audioInputEnabled \in BOOLEAN /\ recording \in BOOLEAN /\ retained \in BOOLEAN
          /\ cancelTimer \in BOOLEAN /\ otherAudio \in BOOLEAN
      BY DEF Init
    <2> QED BY <2>1, <2>2, <2>3, <2>4 DEF TypeOK
  <1>2. HalfDuplex /\ InputIsNegotiated BY DEF Init, HalfDuplex, InputIsNegotiated
  <1>3. PlaybackCounted /\ FutureIsSilent
    BY DEF Init, PlaybackCounted, FutureIsSilent, Generations
  <1> QED BY <1>1, <1>2, <1>3 DEF IInv
-----------------------------------------------------------------------------
(***************************************************************************)
(* Every step keeps one part of the invariant at a time.                   *)
(***************************************************************************)
\* A step either synchronises the microphone or leaves alone what it may run on.
LEMMA HalfDuplexStep ==
  ASSUME TypeOK, HalfDuplex, [Next]_vars
  PROVE  HalfDuplex'
  <1> USE DEF HalfDuplex
  <1>1. ASSUME NEW f \in BOOLEAN, SyncMicrophone(f) PROVE HalfDuplex'
    BY <1>1 DEF SyncMicrophone, CanRecord
  <1>2. retained \in BOOLEAN BY DEF TypeOK
  <1>0. ASSUME FollowState, UNCHANGED <<link, binding, playbackPending, cancelRequest>>
        PROVE  HalfDuplex'
    BY <1>0, <1>1, <1>2 DEF FollowState, Quiet, link, binding
  <1>3. CASE Deactivate BY <1>3 DEF Deactivate
  <1>4. CASE FrameOverflows
    BY <1>4 DEF FrameOverflows, CanRecord, Quiet, link, binding, playback, interrupt
  <1>5. CASE SoundChanges
    BY <1>5 DEF SoundChanges, Quiet, link, binding, playback, interrupt
  <1>6. CASE Tick
    BY <1>1, <1>2, <1>6 DEF Tick
  <1>7. CASE UNCHANGED vars
    BY <1>7 DEF vars, Quiet, link, binding, playback, interrupt
  <1>8. CASE Activate \/ Interrupt \/ FrameFails
    BY <1>1, <1>2, <1>8 DEF Activate, Interrupt, FrameFails
  <1>18. CASE CancelTimeout \/ Retry
    BY <1>0, <1>18 DEF CancelTimeout, Retry, playback, interrupt
  <1>9. ASSUME NEW op \in Operations, RequestOperation(op) PROVE HalfDuplex'
    BY <1>0, <1>9 DEF RequestOperation, playback, interrupt
  <1>10. ASSUME NEW s \in States, Result(s) PROVE HalfDuplex'
    BY <1>0, <1>10 DEF Result, playback, interrupt
  <1>11. ASSUME NEW c \in 1..MaxCancels, ResponseCancelled(c) PROVE HalfDuplex'
    BY <1>1, <1>2, <1>11 DEF ResponseCancelled, Quiet, link, binding, playback
  <1>12. CASE TranscriptInput \/ TranscriptOutput \/ AudioChunkFails
    BY <1>1, <1>2, <1>12 DEF TranscriptInput, TranscriptOutput, AudioChunkFails
  <1>13. ASSUME NEW r \in Responses, AudioStarted(r) \/ AudioCompleted(r) PROVE HalfDuplex'
    BY <1>1, <1>2, <1>13 DEF AudioStarted, AudioCompleted
  <1>14. ASSUME NEW fatal \in BOOLEAN, AgentError(fatal) PROVE HalfDuplex'
    BY <1>1, <1>2, <1>14 DEF AgentError
  <1>15. ASSUME NEW g \in Generations, PlaybackEnds(g) \/ PlaybackFails(g) PROVE HalfDuplex'
    <2>1. CASE g = generation
      BY <1>1, <1>2, <1>15, <2>1 DEF PlaybackEnds, PlaybackFails
    <2>2. CASE g # generation
      BY <1>15, <2>2 DEF PlaybackEnds, PlaybackFails, Quiet, link, binding, interrupt
    <2> QED BY <2>1, <2>2
  <1>16. ASSUME NEW input \in BOOLEAN, NEW output \in BOOLEAN, LinkUp(input, output) PROVE HalfDuplex'
    BY <1>1, <1>2, <1>16 DEF LinkUp
  <1>17. CASE LinkDown \/ LinkUnsupported
    BY <1>1, <1>2, <1>17 DEF LinkDown, LinkUnsupported
  <1> QED
    BY <1>3, <1>4, <1>5, <1>6, <1>7, <1>8, <1>9, <1>10, <1>11, <1>12, <1>13, <1>14, <1>15,
       <1>16, <1>17, <1>18 DEF Next

\* A play that ends is taken off the count of its own generation only, and a new
\* generation begins with none.
LEMMA PlaybackStep ==
  ASSUME TypeOK, PlaybackCounted, FutureIsSilent, [Next]_vars
  PROVE  (PlaybackCounted /\ FutureIsSilent)'
  <1> USE BoundsAreNatural DEF TypeOK, PlaybackCounted, FutureIsSilent, Generations, StopPlayback,
           link, requesting, binding, playback, interrupt
  <1>3. CASE Activate
    BY <1>3 DEF Activate
  <1>4. CASE Deactivate
    BY <1>4 DEF Deactivate, Request, SendPending
  <1>5. CASE Interrupt
    BY <1>5 DEF Interrupt
  <1>6. CASE CancelTimeout
    BY <1>6 DEF CancelTimeout
  <1>7. CASE Retry
    BY <1>7 DEF Retry, SendPending
  <1>8. ASSUME NEW op \in Operations, RequestOperation(op) PROVE (PlaybackCounted /\ FutureIsSilent)'
    BY <1>8 DEF RequestOperation, Request, SendPending
  <1>9. ASSUME NEW s \in States, Result(s) PROVE (PlaybackCounted /\ FutureIsSilent)'
    BY <1>9 DEF Result
  <1>10. ASSUME NEW c \in 1..MaxCancels, ResponseCancelled(c) PROVE (PlaybackCounted /\ FutureIsSilent)'
    BY <1>10 DEF ResponseCancelled
  <1>11. CASE TranscriptInput
    BY <1>11 DEF TranscriptInput
  <1>12. CASE TranscriptOutput
    BY <1>12 DEF TranscriptOutput, Plays
  <1>13. CASE AudioChunkFails
    BY <1>13 DEF AudioChunkFails
  <1>14. ASSUME NEW r \in Responses, AudioStarted(r) PROVE (PlaybackCounted /\ FutureIsSilent)'
    BY <1>14 DEF AudioStarted
  <1>15. ASSUME NEW r \in Responses, AudioCompleted(r) PROVE (PlaybackCounted /\ FutureIsSilent)'
    BY <1>15 DEF AudioCompleted, Plays
  <1>16. ASSUME NEW fatal \in BOOLEAN, AgentError(fatal) PROVE (PlaybackCounted /\ FutureIsSilent)'
    BY <1>16 DEF AgentError
  <1>17. ASSUME NEW g \in Generations, PlaybackEnds(g) PROVE (PlaybackCounted /\ FutureIsSilent)'
    BY <1>17 DEF PlaybackEnds
  <1>18. ASSUME NEW g \in Generations, PlaybackFails(g) PROVE (PlaybackCounted /\ FutureIsSilent)'
    BY <1>18 DEF PlaybackFails
  <1>19. CASE FrameOverflows
    BY <1>19 DEF FrameOverflows
  <1>20. CASE FrameFails
    BY <1>20 DEF FrameFails
  <1>21. CASE Tick
    BY <1>21 DEF Tick
  <1>22. CASE SoundChanges
    BY <1>22 DEF SoundChanges
  <1>23. ASSUME NEW input \in BOOLEAN, NEW output \in BOOLEAN, LinkUp(input, output) PROVE (PlaybackCounted /\ FutureIsSilent)'
    BY <1>23 DEF LinkUp, Request, SendPending, SessionReady
  <1>24. CASE LinkDown
    BY <1>24 DEF LinkDown, LosesPlayback
  <1>25. CASE LinkUnsupported
    BY <1>25 DEF LinkUnsupported, LosesPlayback
  <1>26. CASE UNCHANGED vars
    BY <1>26 DEF vars
  <1> QED
    BY <1>3, <1>4, <1>5, <1>6, <1>7, <1>8, <1>9, <1>10, <1>11, <1>12, <1>13, <1>14,
       <1>15, <1>16, <1>17, <1>18, <1>19, <1>20, <1>21, <1>22, <1>23, <1>24, <1>25, <1>26 DEF Next

\* What is negotiated comes and goes with the connection.
LEMMA NegotiationStep ==
  ASSUME TypeOK, InputIsNegotiated, [Next]_vars
  PROVE  InputIsNegotiated'
  <1> USE DEF InputIsNegotiated, link, requesting, binding, playback, interrupt
  <1>3. CASE Activate
    <2>1. /\ audioInputEnabled' = (transport = "ready" /\ audioInput)
          /\ transport' = transport /\ audioInput' = audioInput
      BY <1>3 DEF Activate
    <2> QED BY <2>1, Zenon
  <1>4. CASE Deactivate
    BY <1>4 DEF Deactivate
  <1>5. CASE Interrupt
    BY <1>5 DEF Interrupt
  <1>6. CASE CancelTimeout
    BY <1>6 DEF CancelTimeout
  <1>7. CASE Retry
    BY <1>7 DEF Retry, SendPending
  <1>8. ASSUME NEW op \in Operations, RequestOperation(op) PROVE InputIsNegotiated'
    BY <1>8 DEF RequestOperation, Request, SendPending
  <1>9. ASSUME NEW s \in States, Result(s) PROVE InputIsNegotiated'
    BY <1>9 DEF Result
  <1>10. ASSUME NEW c \in 1..MaxCancels, ResponseCancelled(c) PROVE InputIsNegotiated'
    BY <1>10 DEF ResponseCancelled
  <1>11. CASE TranscriptInput
    BY <1>11 DEF TranscriptInput
  <1>12. CASE TranscriptOutput
    BY <1>12 DEF TranscriptOutput, Plays
  <1>13. CASE AudioChunkFails
    BY <1>13 DEF AudioChunkFails
  <1>14. ASSUME NEW r \in Responses, AudioStarted(r) PROVE InputIsNegotiated'
    BY <1>14 DEF AudioStarted
  <1>15. ASSUME NEW r \in Responses, AudioCompleted(r) PROVE InputIsNegotiated'
    BY <1>15 DEF AudioCompleted, Plays
  <1>16. ASSUME NEW fatal \in BOOLEAN, AgentError(fatal) PROVE InputIsNegotiated'
    BY <1>16 DEF AgentError
  <1>17. ASSUME NEW g \in Generations, PlaybackEnds(g) PROVE InputIsNegotiated'
    BY <1>17 DEF PlaybackEnds
  <1>18. ASSUME NEW g \in Generations, PlaybackFails(g) PROVE InputIsNegotiated'
    BY <1>18 DEF PlaybackFails
  <1>19. CASE FrameOverflows
    BY <1>19 DEF FrameOverflows
  <1>20. CASE FrameFails
    BY <1>20 DEF FrameFails
  <1>21. CASE Tick
    BY <1>21 DEF Tick
  <1>22. CASE SoundChanges
    BY <1>22 DEF SoundChanges
  <1>23. ASSUME NEW input \in BOOLEAN, NEW output \in BOOLEAN, LinkUp(input, output) PROVE InputIsNegotiated'
    BY <1>23 DEF LinkUp, Request, SendPending, SessionReady
  <1>24. CASE LinkDown
    BY <1>24 DEF LinkDown, LosesPlayback
  <1>25. CASE LinkUnsupported
    BY <1>25 DEF LinkUnsupported, LosesPlayback
  <1>26. CASE UNCHANGED vars
    BY <1>26 DEF vars
  <1> QED
    BY <1>3, <1>4, <1>5, <1>6, <1>7, <1>8, <1>9, <1>10, <1>11, <1>12, <1>13, <1>14,
       <1>15, <1>16, <1>17, <1>18, <1>19, <1>20, <1>21, <1>22, <1>23, <1>24, <1>25, <1>26 DEF Next

(***************************************************************************)
(* TypeOK, part by part.                                                   *)
(***************************************************************************)
ControlTypes ==
  /\ state \in States /\ pending \in Requests \cup {None}
  /\ requests \in 0..MaxRequests /\ asked \subseteq 1..MaxRequests

FlagTypes ==
  /\ audioInput \in BOOLEAN /\ audioOutput \in BOOLEAN /\ bound \in BOOLEAN
  /\ speakLocally \in BOOLEAN /\ audioInputEnabled \in BOOLEAN
  /\ recording \in BOOLEAN /\ retained \in BOOLEAN
  /\ cancelTimer \in BOOLEAN /\ otherAudio \in BOOLEAN

CountTypes ==
  /\ transport \in {"disconnected", "ready", "unsupported"}
  /\ retries \in 0..SendRetries
  /\ playbackPending \in 0..MaxPlays /\ generation \in Generations
  /\ plays \in [Generations -> 0..MaxPlays] /\ responseId \in Responses \cup {None}
  /\ cancelRequest \in 0..MaxCancels /\ cancels \in 0..MaxCancels
  /\ cancelled \subseteq 1..MaxCancels

\* The parts are all of TypeOK.
LEMMA TypeParts == TypeOK <=> ControlTypes /\ FlagTypes /\ CountTypes
  BY DEF TypeOK, ControlTypes, FlagTypes, CountTypes

\* What is sent is a request, and shows a state.
LEMMA SendPendingTypes ==
  ASSUME ControlTypes, NEW r \in Requests, NEW s \in States, SendPending(r, s)
  PROVE  state' \in States /\ pending' \in Requests \cup {None} /\ asked' \subseteq 1..MaxRequests
  <1>1. r.id \in 1..MaxRequests BY DEF Requests
  <1> QED BY <1>1 DEF SendPending, ControlTypes, States

\* A request is made with a state to show, or blocks the conversation.
LEMMA RequestTypes ==
  ASSUME ControlTypes, NEW op \in Operations, Request(op)
  PROVE  ControlTypes'
  <1> USE BoundsAreNatural
  <1>1. CASE Awaits(op) /\ UNCHANGED <<state, requesting>>
    BY <1>1, <1>1 DEF ControlTypes, requesting
  <1>2. CASE /\ requests < MaxRequests /\ requests' = requests + 1
             /\ SendPending([op |-> op, id |-> requests + 1, elapsed |-> 0], ShownFor(op))
    <2>1. requests' \in 0..MaxRequests /\ requests + 1 \in 1..MaxRequests /\ 0 \in 0..(RequestRetries - 1)
      BY <1>2 DEF ControlTypes
    <2>2. [op |-> op, id |-> requests + 1, elapsed |-> 0] \in Requests
      BY <2>1 DEF Requests
    <2>3. ShownFor(op) \in States BY DEF ShownFor, States
    <2> QED BY <1>2, <2>1, <2>2, <2>3, SendPendingTypes DEF ControlTypes
  <1>3. CASE /\ requests < MaxRequests /\ requests' = requests + 1
             /\ pending' = None /\ state' = "blocked" /\ UNCHANGED asked
    BY <1>1, <1>3 DEF ControlTypes, States
  <1> QED BY <1>1, <1>2, <1>3 DEF Request

\* The state and the requests.
LEMMA ControlStep ==
  ASSUME IInv, [Next]_vars
  PROVE  ControlTypes'
  <1>1. ControlTypes BY TypeParts DEF IInv
  <1> USE BoundsAreNatural DEF ControlTypes, States, requesting
  <1>3. CASE Activate
    BY <1>1, <1>3 DEF Activate
  <1>4. CASE Deactivate
    <2>1. Request("stop") BY <1>4 DEF Deactivate
    <2> QED BY <1>1, <2>1, RequestTypes DEF Operations
  <1>5. CASE Interrupt
    BY <1>1, <1>5 DEF Interrupt
  <1>6. CASE CancelTimeout
    BY <1>1, <1>6 DEF CancelTimeout
  <1>7. CASE Retry
    <2>1. UNCHANGED requests /\ pending \in Requests BY <1>1, <1>7 DEF Retry
    <2>2. CASE pending' = None /\ state' = "blocked" /\ UNCHANGED asked
      BY <1>1, <2>1, <2>2
    <2>3. CASE /\ pending.elapsed + 1 < RequestRetries
               /\ SendPending([pending EXCEPT !.elapsed = pending.elapsed + 1], state)
      <3> DEFINE again == [pending EXCEPT !.elapsed = pending.elapsed + 1]
      <3>1. pending.elapsed + 1 \in 0..(RequestRetries - 1) BY <2>1, <2>3 DEF Requests
      <3>2. again \in Requests BY <2>1, <3>1 DEF Requests
      <3>3. SendPending(again, state) BY <2>3
      <3> HIDE DEF again
      <3> QED BY <1>1, <2>1, <3>2, <3>3, SendPendingTypes
    <2> QED BY <1>7, <2>2, <2>3 DEF Retry
  <1>8. ASSUME NEW op \in Operations, RequestOperation(op) PROVE ControlTypes'
    BY <1>1, <1>8, RequestTypes DEF RequestOperation
  <1>9. ASSUME NEW s \in States, Result(s) PROVE ControlTypes'
    BY <1>1, <1>9 DEF Result, ResultStates
  <1>10. ASSUME NEW c \in 1..MaxCancels, ResponseCancelled(c) PROVE ControlTypes'
    BY <1>1, <1>10 DEF ResponseCancelled
  <1>11. CASE TranscriptInput
    BY <1>1, <1>11 DEF TranscriptInput
  <1>12. CASE TranscriptOutput
    BY <1>1, <1>12 DEF TranscriptOutput, Plays
  <1>13. CASE AudioChunkFails
    BY <1>1, <1>13 DEF AudioChunkFails
  <1>14. ASSUME NEW r \in Responses, AudioStarted(r) PROVE ControlTypes'
    BY <1>1, <1>14 DEF AudioStarted
  <1>15. ASSUME NEW r \in Responses, AudioCompleted(r) PROVE ControlTypes'
    BY <1>1, <1>15 DEF AudioCompleted, Plays
  <1>16. ASSUME NEW fatal \in BOOLEAN, AgentError(fatal) PROVE ControlTypes'
    BY <1>1, <1>16 DEF AgentError
  <1>17. ASSUME NEW g \in Generations, PlaybackEnds(g) PROVE ControlTypes'
    BY <1>1, <1>17 DEF PlaybackEnds
  <1>18. ASSUME NEW g \in Generations, PlaybackFails(g) PROVE ControlTypes'
    BY <1>1, <1>18 DEF PlaybackFails
  <1>19. CASE FrameOverflows
    BY <1>1, <1>19 DEF FrameOverflows
  <1>20. CASE FrameFails
    BY <1>1, <1>20 DEF FrameFails
  <1>21. CASE Tick
    BY <1>1, <1>21 DEF Tick
  <1>22. CASE SoundChanges
    BY <1>1, <1>22 DEF SoundChanges
  <1>23. ASSUME NEW input \in BOOLEAN, NEW output \in BOOLEAN, LinkUp(input, output) PROVE ControlTypes'
    <2>1. CASE Request("start") BY <1>1, <2>1, RequestTypes DEF Operations
    <2>2. CASE pending # None /\ SendPending(pending, state) /\ UNCHANGED requests
      BY <1>1, <2>2, SendPendingTypes
    <2>3. CASE UNCHANGED <<state, requesting>> BY <1>1, <2>3
    <2> QED BY <1>23, <2>1, <2>2, <2>3 DEF LinkUp
  <1>24. CASE LinkDown
    BY <1>1, <1>24 DEF LinkDown, LosesPlayback
  <1>25. CASE LinkUnsupported
    BY <1>1, <1>25 DEF LinkUnsupported, LosesPlayback
  <1>26. CASE UNCHANGED vars
    BY <1>1, <1>26 DEF vars
  <1> QED
    BY <1>3, <1>4, <1>5, <1>6, <1>7, <1>8, <1>9, <1>10, <1>11, <1>12, <1>13, <1>14,
       <1>15, <1>16, <1>17, <1>18, <1>19, <1>20, <1>21, <1>22, <1>23, <1>24, <1>25, <1>26 DEF Next

\* The flags.
LEMMA FlagStep ==
  ASSUME IInv, [Next]_vars
  PROVE  FlagTypes'
  <1>1. FlagTypes /\ transport \in {"disconnected", "ready", "unsupported"} BY DEF IInv, TypeOK, FlagTypes
  <1>2. CanRecord' \in BOOLEAN BY DEF CanRecord, Quiet
  <1> USE DEF FlagTypes, SyncMicrophone, FollowState, link, binding, interrupt, playback
  <1>3. CASE Activate
    BY <1>1, <1>2, <1>3 DEF Activate
  <1>4. CASE Deactivate
    BY <1>1, <1>2, <1>4 DEF Deactivate
  <1>5. CASE Interrupt
    BY <1>1, <1>2, <1>5 DEF Interrupt
  <1>6. CASE CancelTimeout
    BY <1>1, <1>2, <1>6 DEF CancelTimeout
  <1>7. CASE Retry
    BY <1>1, <1>2, <1>7 DEF Retry
  <1>8. ASSUME NEW op \in Operations, RequestOperation(op) PROVE FlagTypes'
    BY <1>1, <1>2, <1>8 DEF RequestOperation
  <1>9. ASSUME NEW s \in States, Result(s) PROVE FlagTypes'
    BY <1>1, <1>2, <1>9 DEF Result, ResultStates
  <1>10. ASSUME NEW c \in 1..MaxCancels, ResponseCancelled(c) PROVE FlagTypes'
    BY <1>1, <1>2, <1>10 DEF ResponseCancelled
  <1>11. CASE TranscriptInput
    BY <1>1, <1>2, <1>11 DEF TranscriptInput
  <1>12. CASE TranscriptOutput
    BY <1>1, <1>2, <1>12 DEF TranscriptOutput, Plays
  <1>13. CASE AudioChunkFails
    BY <1>1, <1>2, <1>13 DEF AudioChunkFails
  <1>14. ASSUME NEW r \in Responses, AudioStarted(r) PROVE FlagTypes'
    BY <1>1, <1>2, <1>14 DEF AudioStarted
  <1>15. ASSUME NEW r \in Responses, AudioCompleted(r) PROVE FlagTypes'
    BY <1>1, <1>2, <1>15 DEF AudioCompleted, Plays
  <1>16. ASSUME NEW fatal \in BOOLEAN, AgentError(fatal) PROVE FlagTypes'
    BY <1>1, <1>2, <1>16 DEF AgentError
  <1>17. ASSUME NEW g \in Generations, PlaybackEnds(g) PROVE FlagTypes'
    BY <1>1, <1>2, <1>17 DEF PlaybackEnds
  <1>18. ASSUME NEW g \in Generations, PlaybackFails(g) PROVE FlagTypes'
    BY <1>1, <1>2, <1>18 DEF PlaybackFails
  <1>19. CASE FrameOverflows
    BY <1>1, <1>2, <1>19 DEF FrameOverflows
  <1>20. CASE FrameFails
    BY <1>1, <1>2, <1>20 DEF FrameFails
  <1>21. CASE Tick
    BY <1>1, <1>2, <1>21 DEF Tick
  <1>22. CASE SoundChanges
    BY <1>1, <1>2, <1>22 DEF SoundChanges
  <1>23. ASSUME NEW input \in BOOLEAN, NEW output \in BOOLEAN, LinkUp(input, output) PROVE FlagTypes'
    BY <1>1, <1>2, <1>23 DEF LinkUp, SessionReady
  <1>24. CASE LinkDown
    BY <1>1, <1>2, <1>24 DEF LinkDown, LosesPlayback
  <1>25. CASE LinkUnsupported
    BY <1>1, <1>2, <1>25 DEF LinkUnsupported, LosesPlayback
  <1>26. CASE UNCHANGED vars
    BY <1>1, <1>2, <1>26 DEF vars
  <1> QED
    BY <1>3, <1>4, <1>5, <1>6, <1>7, <1>8, <1>9, <1>10, <1>11, <1>12, <1>13, <1>14,
       <1>15, <1>16, <1>17, <1>18, <1>19, <1>20, <1>21, <1>22, <1>23, <1>24, <1>25, <1>26 DEF Next

\* The counts: a play that ends was counted.
LEMMA CountStep ==
  ASSUME IInv, [Next]_vars
  PROVE  CountTypes'
  <1>1. CountTypes /\ playbackPending = plays[generation] BY TypeParts DEF IInv, PlaybackCounted
  <1> USE BoundsAreNatural DEF CountTypes, StopPlayback, Generations, link, playback, interrupt
  <1>3. CASE Activate
    BY <1>1, <1>3 DEF Activate
  <1>4. CASE Deactivate
    BY <1>1, <1>4 DEF Deactivate
  <1>5. CASE Interrupt
    <2>1. /\ cancels < MaxCancels /\ cancels' = cancels + 1 /\ cancelRequest' = cancels + 1
          /\ generation < MaxGenerations /\ generation' = generation + 1
          /\ playbackPending' = 0 /\ plays' = plays /\ responseId' = None
          /\ UNCHANGED <<transport, retries>>
      BY <1>5 DEF Interrupt
    <2>2. cancelled' = cancelled \/ cancelled' = cancelled \cup {cancels + 1}
      BY <1>5 DEF Interrupt
    <2>3. cancels + 1 \in 1..MaxCancels BY <1>1, <2>1
    <2>4. cancelled' \subseteq 1..MaxCancels BY <1>1, <2>2, <2>3
    <2>5. cancels' \in 0..MaxCancels /\ cancelRequest' \in 0..MaxCancels BY <2>1, <2>3
    <2>6. generation' \in 0..MaxGenerations /\ playbackPending' \in 0..MaxPlays BY <1>1, <2>1
    <2> QED BY <1>1, <2>1, <2>4, <2>5, <2>6
  <1>6. CASE CancelTimeout
    BY <1>1, <1>6 DEF CancelTimeout
  <1>7. CASE Retry
    BY <1>1, <1>7 DEF Retry
  <1>8. ASSUME NEW op \in Operations, RequestOperation(op) PROVE CountTypes'
    BY <1>1, <1>8 DEF RequestOperation
  <1>9. ASSUME NEW s \in States, Result(s) PROVE CountTypes'
    BY <1>1, <1>9 DEF Result, ResultStates
  <1>10. ASSUME NEW c \in 1..MaxCancels, ResponseCancelled(c) PROVE CountTypes'
    BY <1>1, <1>10 DEF ResponseCancelled
  <1>11. CASE TranscriptInput
    BY <1>1, <1>11 DEF TranscriptInput
  <1>12. CASE TranscriptOutput
    BY <1>1, <1>12 DEF TranscriptOutput, Plays
  <1>13. CASE AudioChunkFails
    BY <1>1, <1>13 DEF AudioChunkFails
  <1>14. ASSUME NEW r \in Responses, AudioStarted(r) PROVE CountTypes'
    BY <1>1, <1>14 DEF AudioStarted
  <1>15. ASSUME NEW r \in Responses, AudioCompleted(r) PROVE CountTypes'
    BY <1>1, <1>15 DEF AudioCompleted, Plays
  <1>16. ASSUME NEW fatal \in BOOLEAN, AgentError(fatal) PROVE CountTypes'
    BY <1>1, <1>16 DEF AgentError
  <1>17. ASSUME NEW g \in Generations, PlaybackEnds(g) PROVE CountTypes'
    BY <1>1, <1>17 DEF PlaybackEnds
  <1>18. ASSUME NEW g \in Generations, PlaybackFails(g) PROVE CountTypes'
    BY <1>1, <1>18 DEF PlaybackFails
  <1>19. CASE FrameOverflows
    BY <1>1, <1>19 DEF FrameOverflows
  <1>20. CASE FrameFails
    BY <1>1, <1>20 DEF FrameFails
  <1>21. CASE Tick
    <2>1. UNCHANGED <<transport, playbackPending, generation, plays, responseId, cancelRequest,
                      cancels, cancelled>>
      BY <1>21 DEF Tick
    <2>2. retries' = retries \/ (retries + 1 < SendRetries /\ retries' = retries + 1)
      BY <1>21 DEF Tick
    <2>3. retries' \in 0..SendRetries BY <1>1, <2>2
    <2> QED BY <1>1, <2>1, <2>3
  <1>22. CASE SoundChanges
    BY <1>1, <1>22 DEF SoundChanges
  <1>23. ASSUME NEW input \in BOOLEAN, NEW output \in BOOLEAN, LinkUp(input, output) PROVE CountTypes'
    BY <1>1, <1>23 DEF LinkUp, SessionReady
  <1>24. CASE LinkDown
    BY <1>1, <1>24 DEF LinkDown, LosesPlayback
  <1>25. CASE LinkUnsupported
    BY <1>1, <1>25 DEF LinkUnsupported, LosesPlayback
  <1>26. CASE UNCHANGED vars
    BY <1>1, <1>26 DEF vars
  <1> QED
    BY <1>3, <1>4, <1>5, <1>6, <1>7, <1>8, <1>9, <1>10, <1>11, <1>12, <1>13, <1>14,
       <1>15, <1>16, <1>17, <1>18, <1>19, <1>20, <1>21, <1>22, <1>23, <1>24, <1>25, <1>26 DEF Next
-----------------------------------------------------------------------------
\* The invariant is inductive.
LEMMA NextKeeps == IInv /\ [Next]_vars => IInv'
  <1> SUFFICES ASSUME IInv, [Next]_vars PROVE IInv' OBVIOUS
  <1>1. TypeOK'
    BY ControlStep, FlagStep, CountStep DEF TypeOK, ControlTypes, FlagTypes, CountTypes
  <1>2. HalfDuplex' BY HalfDuplexStep DEF IInv
  <1>3. (PlaybackCounted /\ FutureIsSilent)' BY PlaybackStep DEF IInv
  <1>4. InputIsNegotiated' BY NegotiationStep DEF IInv
  <1> QED BY <1>1, <1>2, <1>3, <1>4 DEF IInv

\* Whatever the Gateway, the timers and the players do, the invariant holds.
THEOREM Invariance == Spec => []IInv
  BY InitStep, NextKeeps, PTL DEF Spec

\* Every variable keeps its type: the count of replies being played never goes
\* below zero, and a request never outlives its retries.
THEOREM TypeCorrect == Spec => []TypeOK
  BY Invariance, PTL DEF IInv

\* The microphone of runtime.ts never runs, and no frame waits to be sent, outside
\* a listening turn.
THEOREM MicrophoneIsHalfDuplex == Spec => []HalfDuplex
  BY Invariance, PTL DEF IInv

\* playbackPending of runtime.ts counts the plays of its generation, and those only.
THEOREM PlaybackIsCounted == Spec => []PlaybackCounted
  BY Invariance, PTL DEF IInv

\* audioInputEnabled of a binding is true only of a connection whose session.ready said
\* that the Gateway hears the robot.
THEOREM InputAlwaysNegotiated == Spec => []InputIsNegotiated
  BY Invariance, PTL DEF IInv

\* Whatever the order of activation and connection, only an interrupt keeps a binding
\* from what session.ready told it.
THEOREM HearingIsHandedOver == Spec => HearsOnceReady
  <1>1. ASSUME InputIsNegotiated, [Next]_vars, Deaf' PROVE Deaf \/ cancelRequest # 0
    <2> USE <1>1 DEF Deaf, InputIsNegotiated, link, binding, playback, interrupt
    <2>1. CASE Activate
      <3>1. audioInputEnabled' = (transport = "ready" /\ audioInput) /\ UNCHANGED link
        BY <2>1 DEF Activate
      <3> QED BY <3>1, Zenon
    <2>2. CASE Deactivate \/ Interrupt \/ CancelTimeout \/ Retry
      BY <2>2 DEF Deactivate, Interrupt, CancelTimeout, Retry
    <2>3. CASE \/ \E op \in Operations : RequestOperation(op)
               \/ \E s \in States : Result(s)
      BY <2>3 DEF RequestOperation, Result
    <2>4. CASE \E c \in 1..MaxCancels : ResponseCancelled(c)
      BY <2>4 DEF ResponseCancelled
    <2>5. CASE TranscriptInput \/ TranscriptOutput \/ AudioChunkFails
      BY <2>5 DEF TranscriptInput, TranscriptOutput, AudioChunkFails
    <2>6. CASE \E r \in Responses : AudioStarted(r) \/ AudioCompleted(r)
      BY <2>6 DEF AudioStarted, AudioCompleted
    <2>7. CASE \/ \E fatal \in BOOLEAN : AgentError(fatal)
               \/ \E g \in Generations : PlaybackEnds(g) \/ PlaybackFails(g)
      BY <2>7 DEF AgentError, PlaybackEnds, PlaybackFails
    <2>8. CASE FrameOverflows \/ FrameFails \/ Tick \/ SoundChanges
      BY <2>8 DEF FrameOverflows, FrameFails, Tick, SoundChanges
    <2>9. CASE \E input, output \in BOOLEAN : LinkUp(input, output)
      BY <2>9 DEF LinkUp, SessionReady
    <2>10. CASE LinkDown \/ LinkUnsupported
      BY <2>10 DEF LinkDown, LinkUnsupported
    <2>11. CASE UNCHANGED vars
      BY <2>11 DEF vars
    <2> QED
      BY <2>1, <2>2, <2>3, <2>4, <2>5, <2>6, <2>7, <2>8, <2>9, <2>10, <2>11 DEF Next
  <1>2. IInv /\ [Next]_vars => [Deaf' => Deaf \/ cancelRequest # 0]_vars
    BY <1>1 DEF IInv
  <1> QED BY <1>2, Invariance, PTL DEF Spec, HearsOnceReady

\* A request that changes what is shown is a new one.
LEMMA RequestIsNew ==
  ASSUME TypeOK, NEW op \in Operations, Request(op), state' # state
  PROVE  requests' > requests
  <1>1. requests' = requests + 1 BY DEF Request
  <1>2. requests \in Nat BY BoundsAreNatural DEF TypeOK
  <1> QED BY <1>1, <1>2

\* Only a request, an interrupt, or the answer to one that reached the Gateway on this
\* connection takes a conversation out of standby or blocked.
THEOREM NothingElseWakes == Spec => OnlyAnswersWake
  <1> DEFINE Called == requests' > requests \/ cancels' > cancels
             Answered == \/ pending # None /\ pending.id \in asked /\ pending' = None
                         \/ cancelRequest \in cancelled /\ cancelRequest' = 0
  <1>1. ASSUME TypeOK, Next, Stopped, ~Stopped' PROVE Called \/ Answered
    <2>1. state' # state BY <1>1 DEF Stopped
    <2> USE <1>1, <2>1
    <2>2. CASE Interrupt
      <3>1. cancels' = cancels + 1 /\ cancels \in Nat
        BY <2>2, BoundsAreNatural DEF Interrupt, TypeOK
      <3> QED BY <3>1
    <2>3. CASE Deactivate
      <3>1. Request("stop") BY <2>3 DEF Deactivate
      <3> QED BY <3>1, RequestIsNew DEF Operations
    <2>4. CASE \E op \in Operations : RequestOperation(op)
      <3>1. PICK op \in Operations : RequestOperation(op) BY <2>4
      <3>2. Request(op) BY <3>1 DEF RequestOperation
      <3> QED BY <3>2, RequestIsNew
    <2>5. CASE \E s \in States : Result(s)
      BY <2>5 DEF Result
    <2>6. CASE \E c \in 1..MaxCancels : ResponseCancelled(c)
      <3>1. PICK c \in 1..MaxCancels : ResponseCancelled(c) BY <2>6
      <3>2. c \in cancelled /\ c = cancelRequest /\ cancelRequest' = 0
        BY <3>1 DEF ResponseCancelled
      <3> QED BY <3>2
    <2>7. CASE Retry
      BY <2>7 DEF Retry, SendPending, Stopped
    <2>8. CASE Activate \/ CancelTimeout
      BY <2>8 DEF Activate, CancelTimeout, Stopped
    <2>9. CASE TranscriptInput \/ TranscriptOutput \/ AudioChunkFails
      BY <2>9 DEF TranscriptInput, TranscriptOutput, AudioChunkFails, Stopped
    <2>10. CASE \E r \in Responses : AudioStarted(r) \/ AudioCompleted(r)
      BY <2>10 DEF AudioStarted, AudioCompleted, Stopped
    <2>11. CASE \E fatal \in BOOLEAN : AgentError(fatal)
      BY <2>11 DEF AgentError, Stopped
    <2>12. CASE \E g \in Generations : PlaybackEnds(g) \/ PlaybackFails(g)
      BY <2>12 DEF PlaybackEnds, PlaybackFails, Stopped
    <2>13. CASE FrameOverflows \/ FrameFails \/ SoundChanges
      BY <2>13 DEF FrameOverflows, FrameFails, SoundChanges, Stopped
    <2>14. CASE Tick
      BY <2>14 DEF Tick, Stopped
    <2>15. CASE \E input, output \in BOOLEAN : LinkUp(input, output)
      <3>1. PICK input \in BOOLEAN, output \in BOOLEAN : LinkUp(input, output) BY <2>15
      <3>2. CASE Request("start")
        BY <3>2, RequestIsNew DEF Operations
      <3>3. CASE SendPending(pending, state) \/ UNCHANGED <<state, requesting>>
        BY <3>3 DEF SendPending, Stopped
      <3> QED BY <3>1, <3>2, <3>3 DEF LinkUp
    <2>16. CASE LinkDown \/ LinkUnsupported
      BY <2>16 DEF LinkDown, LinkUnsupported, Stopped
    <2> QED
      BY <2>2, <2>3, <2>4, <2>5, <2>6, <2>7, <2>8, <2>9, <2>10, <2>11, <2>12, <2>13, <2>14,
         <2>15, <2>16 DEF Next
  <1>2. IInv /\ [Next]_vars => [Stopped /\ ~Stopped' => Called \/ Answered]_vars
    BY <1>1 DEF IInv
  <1> QED BY <1>2, Invariance, PTL DEF Spec, OnlyAnswersWake

\* What is sent is awaited from then on, unless sending it fails and blocks.
LEMMA SendingIsShown ==
  ASSUME NEW r, NEW s, SendPending(r, s), r # None, pending' = None
  PROVE  state' = "blocked"
  BY DEF SendPending

\* The same of a request, which may also be the one that is awaited already.
LEMMA RequestIsShown ==
  ASSUME TypeOK, NEW op \in Operations, Request(op), pending # None, pending' = None
  PROVE  state' = "blocked"
  <1>1. CASE Awaits(op) /\ UNCHANGED <<state, requesting>> BY <1>1 DEF requesting
  <1>2. CASE /\ requests < MaxRequests
             /\ SendPending([op |-> op, id |-> requests + 1, elapsed |-> 0], ShownFor(op))
    <2>1. requests + 1 \in 1..MaxRequests /\ 0 \in 0..(RequestRetries - 1)
      BY <1>2, BoundsAreNatural DEF TypeOK
    <2>2. [op |-> op, id |-> requests + 1, elapsed |-> 0] \in Requests BY <2>1 DEF Requests
    <2> QED BY <1>2, <2>2, SendingIsShown, ConstantsAssumption
  <1> QED BY <1>1, <1>2 DEF Request

\* A request is answered on this connection, gives way to another one, or its failure
\* is shown: nothing else takes the conversation session's request away.
THEOREM FailuresAreShown == Spec => FailureIsShown
  <1>1. ASSUME TypeOK, Next, pending # None, pending' = None
        PROVE  pending.id \in asked \/ state' = "blocked"
    <2> USE <1>1
    <2>1. CASE Deactivate \/ \E op \in Operations : RequestOperation(op)
      <3>1. PICK op \in Operations : Request(op) BY <2>1 DEF Deactivate, RequestOperation, Operations
      <3> QED BY <3>1, RequestIsShown
    <2>2. CASE \E s \in States : Result(s) BY <2>2 DEF Result
    <2>3. CASE Retry
      <3>1. pending \in Requests BY DEF TypeOK
      <3>2. CASE SendPending([pending EXCEPT !.elapsed = pending.elapsed + 1], state)
                 /\ pending.elapsed + 1 < RequestRetries
        <4>1. pending.elapsed + 1 \in 0..(RequestRetries - 1)
          BY <3>1, <3>2, BoundsAreNatural DEF Requests
        <4>2. [pending EXCEPT !.elapsed = pending.elapsed + 1] \in Requests
          BY <3>1, <4>1 DEF Requests
        <4> QED BY <3>2, <4>2, SendingIsShown, ConstantsAssumption
      <3> QED BY <2>3, <3>2 DEF Retry
    <2>4. CASE \E input, output \in BOOLEAN : LinkUp(input, output)
      <3>1. PICK input \in BOOLEAN, output \in BOOLEAN : LinkUp(input, output) BY <2>4
      <3>2. CASE Request("start") BY <3>2, RequestIsShown DEF Operations
      <3>3. CASE SendPending(pending, state) BY <3>3, SendingIsShown
      <3> QED BY <3>1, <3>2, <3>3 DEF LinkUp
    <2>5. CASE LinkUnsupported BY <2>5 DEF LinkUnsupported
    <2>6. CASE Activate \/ Interrupt \/ CancelTimeout \/ Tick \/ LinkDown
      BY <2>6 DEF Activate, Interrupt, CancelTimeout, Tick, LinkDown, requesting
    <2>7. CASE \E c \in 1..MaxCancels : ResponseCancelled(c)
      BY <2>7 DEF ResponseCancelled, requesting
    <2>8. CASE TranscriptInput \/ TranscriptOutput \/ AudioChunkFails
      BY <2>8 DEF TranscriptInput, TranscriptOutput, AudioChunkFails, requesting
    <2>9. CASE \E r \in Responses : AudioStarted(r) \/ AudioCompleted(r)
      BY <2>9 DEF AudioStarted, AudioCompleted, requesting
    <2>10. CASE \E fatal \in BOOLEAN : AgentError(fatal)
      BY <2>10 DEF AgentError, requesting
    <2>11. CASE \E g \in Generations : PlaybackEnds(g) \/ PlaybackFails(g)
      BY <2>11 DEF PlaybackEnds, PlaybackFails, requesting
    <2>12. CASE FrameOverflows \/ FrameFails \/ SoundChanges
      BY <2>12 DEF FrameOverflows, FrameFails, SoundChanges, requesting
    <2> QED
      BY <2>1, <2>2, <2>3, <2>4, <2>5, <2>6, <2>7, <2>8, <2>9, <2>10, <2>11, <2>12 DEF Next
  <1>2. IInv /\ [Next]_vars => [pending # None /\ pending' = None => pending.id \in asked \/ state' = "blocked"]_vars
    BY <1>1 DEF IInv
  <1> QED BY <1>2, Invariance, PTL DEF Spec, FailureIsShown
=============================================================================
