--------------------- MODULE ConversationSessionProofs ---------------------
(***************************************************************************)
(* Proofs about ConversationSession: no Agent session leaks, an interrupt  *)
(* or a stop is a barrier, a pending device call is one of the turn at     *)
(* hand, a guarded tool runs only approved; for any sets of requests,      *)
(* calls and tools and any bounds.                                         *)
(***************************************************************************)
EXTENDS ConversationSession, TLAPS

\* The counters stay within the bounds the sets of ids are made from.
CountersInBounds ==
  /\ sessionGeneration <= MaxSessions + generation
  /\ ~closed => generation <= MaxGenerations

\* The Agent in use is the one of the latest start.
AgentIsLatest == agent \in {0, sessionGeneration} /\ (closed => agent = 0)

\* A session the backend still works on is nobody's yet, and nobody else's.
CreationsAreFresh ==
  \A c \in creating :
    /\ c.session <= sessionGeneration /\ c.session # agent /\ c.session \notin live
    /\ \A k \in closing : k.agent # c.session
    /\ \A d \in creating : d.session = c.session => d = c

\* What is open or being closed was started, and what is being closed is not in use.
RetiredStayRetired ==
  /\ \A a \in live : a <= sessionGeneration
  /\ \A k \in closing : k.agent <= sessionGeneration /\ k.agent # agent

\* The Agent's turns were asked in this generation, but for the ones a cancel under
\* way is about to drop.
TurnsAreCurrent ==
  /\ cancelling = (cancel # {})
  /\ turns > 0 => \/ turnGeneration = generation
                  \/ cancelling /\ \A k \in cancel : k.agent = agent

\* Speech and tool calls of this generation belong to the Agent in use.
WorkIsOfAgent(works) ==
  \A w \in works : w.generation <= generation /\ (w.generation = generation => w.session = agent)

\* The inductive invariant.
IInv ==
  /\ TypeOK
  /\ CountersInBounds
  /\ AgentIsLatest
  /\ CreationsAreFresh
  /\ RetiredStayRetired
  /\ TurnsAreCurrent
  /\ WorkIsOfAgent(speeches)
  /\ WorkIsOfAgent(runs)
  /\ NoOrphanAgent
  /\ PendingCallsAreCurrent

USE ConstantsAssumption
-----------------------------------------------------------------------------
(***************************************************************************)
(* What a step has to show, by what it touches.                            *)
(***************************************************************************)
Identity == <<agent, closed, generation, sessionGeneration>>

\* A step that speaks, listens or asks the Agent keeps every session and call.
LEMMA WorkStep ==
  ASSUME IInv, UNCHANGED Identity,
         UNCHANGED <<cancelling, cancel, creating, closing, live, runs, pendingDeviceCalls>>,
         state' \in States, speaking' \in BOOLEAN, agentResponseId' \in 0..MaxResponses,
         responses' \in 0..MaxResponses, sessionUpdateId' \in 0..MaxUpdates,
         registry' \in [Tools -> Hosts], transcriptions' \subseteq Transcriptions,
         asked' \subseteq Calls, turns' \in 0..MaxTurns, turnGeneration' \in Generations,
         (turns' <= turns /\ turnGeneration' = turnGeneration) \/ turnGeneration' = generation,
         speeches' \subseteq Speeches, WorkIsOfAgent(speeches)', lost' \in BOOLEAN
  PROVE  IInv'
  <1>1. TypeOK' BY DEF IInv, TypeOK, Identity
  <1>2. /\ CountersInBounds' /\ AgentIsLatest' /\ CreationsAreFresh' /\ RetiredStayRetired'
        /\ NoOrphanAgent'
    BY DEF IInv, Identity, CountersInBounds, AgentIsLatest, CreationsAreFresh, RetiredStayRetired,
           NoOrphanAgent
  <1>3. TurnsAreCurrent'
    <2>1. turns \in 0..MaxTurns BY DEF IInv, TypeOK
    <2>2. turns' > 0 => turns > 0 \/ turnGeneration' = generation BY <2>1
    <2> QED BY <2>1, <2>2 DEF IInv, Identity, TurnsAreCurrent
  <1>4. WorkIsOfAgent(runs)' /\ PendingCallsAreCurrent'
    BY DEF IInv, Identity, WorkIsOfAgent, PendingCallsAreCurrent
  <1> QED BY <1>1, <1>2, <1>3, <1>4 DEF IInv

\* A step of a tool call touches the runs and the calls the device is asked.
LEMMA RunStep ==
  ASSUME IInv, UNCHANGED <<lifecycle, speech, sessionUpdateId, registry, awaits, live, turns,
                           turnGeneration, lost>>,
         asked' \subseteq Calls, runs' \subseteq Runs, WorkIsOfAgent(runs'),
         pendingDeviceCalls' \in [Calls -> Sessions \cup {0}], PendingCallsAreCurrent'
  PROVE  IInv'
  <1> USE DEF lifecycle, speech, awaits
  <1>1. TypeOK' BY DEF IInv, TypeOK
  <1>2. /\ CountersInBounds' /\ AgentIsLatest' /\ CreationsAreFresh' /\ RetiredStayRetired'
        /\ NoOrphanAgent' /\ TurnsAreCurrent'
    BY DEF IInv, CountersInBounds, AgentIsLatest, CreationsAreFresh, RetiredStayRetired,
           NoOrphanAgent, TurnsAreCurrent
  <1>3. WorkIsOfAgent(speeches)' /\ WorkIsOfAgent(runs)'
    BY DEF IInv, WorkIsOfAgent
  <1> QED BY <1>1, <1>2, <1>3 DEF IInv

\* A stop bumps both generations: whatever was under way is of an earlier one.
LEMMA StopStep ==
  ASSUME IInv, NEW st \in States, NEW req \in Requests \cup {NoRequest}, NEW notes,
         StopFrom(st, req, notes),
         runs' \subseteq Runs, \A r \in runs' : r.generation <= generation,
         closed' \in BOOLEAN, generation <= MaxGenerations,
         ~closed' => generation < MaxGenerations, 
         cancel' \subseteq Cancellations, cancelling' = (cancel' # {})
  PROVE  IInv'
  <1>1. /\ generation \in Generations /\ sessionGeneration \in Sessions \cup {0}
        /\ agent \in Sessions \cup {0} /\ MaxSessions \in Nat /\ MaxGenerations \in Nat
        /\ sessionGeneration <= MaxSessions + generation /\ agent \in {0, sessionGeneration}
    BY DEF IInv, TypeOK, CountersInBounds, AgentIsLatest
  <1>2. /\ sessionGeneration' = sessionGeneration + 1 /\ generation' = generation + 1 /\ agent' = 0
        /\ speaking' = FALSE /\ agentResponseId' = 0 /\ turns' = 0 /\ asked' = {}
        /\ lost' = FALSE /\ pendingDeviceCalls' = [c \in Calls |-> 0]
        /\ UNCHANGED <<creating, transcriptions, responses, speeches, sessionUpdateId, registry,
                       live, turnGeneration>>
    BY DEF StopFrom
  <1>3. state' \in States BY DEF StopFrom, States
  <1>4. /\ agent = 0 => closing' = closing
        /\ agent # 0 => closing' = closing \cup {[agent |-> agent, request |-> req, stop |-> TRUE]}
    BY DEF StopFrom
  <1>5. \A k \in closing' : k \in closing \/ (agent # 0 /\ k.agent = agent) BY <1>4
  <1>6. generation' \in Generations /\ sessionGeneration' \in Sessions
    BY <1>1, <1>2 DEF Generations, Sessions
  <1>7. TypeOK'
    <2>1. closing' \subseteq Closures
      <3>1. closing \subseteq Closures BY DEF IInv, TypeOK
      <3>2. agent # 0 => [agent |-> agent, request |-> req, stop |-> TRUE] \in Closures
        BY <1>1 DEF Closures
      <3>3. CASE agent = 0 BY <1>4, <3>1, <3>3
      <3>4. CASE agent # 0
        <4>1. PICK k \in Closures : k = [agent |-> agent, request |-> req, stop |-> TRUE]
          BY <3>2, <3>4
        <4> QED BY <1>4, <3>1, <3>4, <4>1
      <3> QED BY <3>3, <3>4
    <2>2. 0 \in 0..MaxResponses /\ 0 \in 0..MaxTurns OBVIOUS
    <2>3. lost' \in BOOLEAN BY <1>2
    <2> QED BY <1>2, <1>3, <1>6, <2>1, <2>2, <2>3 DEF IInv, TypeOK
  <1>8. CountersInBounds' /\ AgentIsLatest'
    BY <1>1, <1>2 DEF CountersInBounds, AgentIsLatest, Generations, Sessions
  <1>9. CreationsAreFresh'
    <2> SUFFICES ASSUME NEW c \in creating
                 PROVE  /\ c.session <= sessionGeneration' /\ c.session # 0 /\ c.session \notin live
                        /\ \A k \in closing' : k.agent # c.session
                        /\ \A d \in creating : d.session = c.session => d = c
      BY <1>2 DEF CreationsAreFresh
    <2>1. c.session \in Sessions BY DEF IInv, TypeOK, Creations
    <2>2. /\ c.session <= sessionGeneration /\ c.session # agent /\ c.session \notin live
          /\ \A k \in closing : k.agent # c.session
          /\ \A d \in creating : d.session = c.session => d = c
      BY DEF IInv, CreationsAreFresh
    <2>3. c.session <= sessionGeneration' /\ c.session # 0 BY <1>1, <1>2, <2>1, <2>2 DEF Sessions
    <2> QED BY <1>5, <2>2, <2>3
  <1>10. RetiredStayRetired'
    <2>1. \A a \in live : a \in Sessions /\ a <= sessionGeneration
      BY DEF IInv, TypeOK, RetiredStayRetired
    <2>2. \A a \in live : a <= sessionGeneration' BY <1>1, <1>2, <2>1 DEF Sessions
    <2>3. \A k \in closing : k.agent \in Sessions /\ k.agent <= sessionGeneration
      BY DEF IInv, TypeOK, Closures, RetiredStayRetired
    <2>4. \A k \in closing' : k.agent <= sessionGeneration' /\ k.agent # 0
      BY <1>1, <1>2, <1>5, <2>3 DEF Sessions
    <2> QED BY <1>2, <2>2, <2>4 DEF RetiredStayRetired
  <1>11. TurnsAreCurrent' BY <1>2 DEF TurnsAreCurrent
  <1>12. WorkIsOfAgent(speeches)' /\ WorkIsOfAgent(runs)'
    <2>1. \A w \in speeches : w.generation \in Generations /\ w.generation <= generation
      BY DEF IInv, TypeOK, Speeches, WorkIsOfAgent
    <2>2. \A w \in speeches : w.generation < generation' BY <1>1, <1>2, <2>1 DEF Generations
    <2>3. \A w \in runs' : w.generation \in Generations BY DEF Runs
    <2>4. \A w \in runs' : w.generation < generation' BY <1>1, <1>2, <2>3 DEF Generations
    <2>5. \A w \in speeches \cup runs' : w.generation \in Generations BY <2>1, <2>3
    <2>6. \A w \in speeches \cup runs' : w.generation <= generation' /\ w.generation # generation'
      BY <1>1, <1>2, <2>2, <2>4, <2>5 DEF Generations
    <2> QED BY <1>2, <2>6 DEF WorkIsOfAgent
  <1>13. NoOrphanAgent'
    <2>1. \A a \in live : a # 0 BY DEF IInv, TypeOK, Sessions
    <2>2. \A k \in closing : k \in closing' BY <1>4
    <2>3. ASSUME agent # 0 PROVE \E k \in closing' : k.agent = agent
      <3>1. [agent |-> agent, request |-> req, stop |-> TRUE] \in closing' BY <1>4, <2>3
      <3> QED BY <3>1
    <2> QED BY <1>2, <2>1, <2>2, <2>3 DEF IInv, NoOrphanAgent
  <1>14. PendingCallsAreCurrent' BY <1>2 DEF PendingCallsAreCurrent
  <1> QED BY <1>7, <1>8, <1>9, <1>10, <1>11, <1>12, <1>13, <1>14 DEF IInv

\* A step of starting or of closing leaves the work of the turn alone; only when
\* nothing was in use may another session be.
LEMMA SessionStep ==
  ASSUME IInv, UNCHANGED <<closed, generation, cancelling, cancel, speech, tooling,
                           transcriptions, turnGeneration>>,
         state' \in States, agent' \in Sessions \cup {0},
         sessionGeneration' \in Sessions \cup {0},
         sessionGeneration' <= MaxSessions + generation,
         creating' \subseteq Creations, closing' \subseteq Closures, live' \subseteq Sessions,
         lost' \in BOOLEAN,
         \/ UNCHANGED <<agent, turns, asked>>
         \/ agent = 0 /\ turns' = 0 /\ asked' = {},
         AgentIsLatest', CreationsAreFresh', RetiredStayRetired', NoOrphanAgent'
  PROVE  IInv'
  <1> USE DEF speech, tooling
  <1>1. 0 \in 0..MaxTurns OBVIOUS
  <1>2. TypeOK' BY <1>1 DEF IInv, TypeOK
  <1>3. CountersInBounds' BY DEF IInv, CountersInBounds
  <1>4. CASE UNCHANGED <<agent, turns, asked>>
    <2>1. TurnsAreCurrent' /\ WorkIsOfAgent(speeches)' /\ WorkIsOfAgent(runs)'
          /\ PendingCallsAreCurrent'
      BY <1>4 DEF IInv, TurnsAreCurrent, WorkIsOfAgent, PendingCallsAreCurrent
    <2> QED BY <1>2, <1>3, <2>1 DEF IInv
  <1>5. CASE agent = 0 /\ turns' = 0 /\ asked' = {}
    <2>1. TurnsAreCurrent' BY <1>5 DEF IInv, TurnsAreCurrent
    <2>2. \A w \in speeches \cup runs :
            w.session \in Sessions /\ w.generation <= generation
              /\ (w.generation = generation => w.session = 0)
      BY <1>5 DEF IInv, TypeOK, WorkIsOfAgent, Speeches, Runs
    <2>3. \A w \in speeches \cup runs : w.generation # generation BY <2>2 DEF Sessions
    <2>4. WorkIsOfAgent(speeches)' /\ WorkIsOfAgent(runs)' BY <2>2, <2>3 DEF WorkIsOfAgent
    <2>5. \A c \in Calls : pendingDeviceCalls[c] = 0
      BY <1>5 DEF IInv, PendingCallsAreCurrent
    <2>6. PendingCallsAreCurrent' BY <2>5 DEF PendingCallsAreCurrent
    <2> QED BY <1>2, <1>3, <2>1, <2>4, <2>6 DEF IInv
  <1> QED BY <1>4, <1>5

\* Doing nothing but send keeps it.
LEMMA SendStep ==
  ASSUME IInv, UNCHANGED <<lifecycle, speech, tooling, awaits, backend>>
  PROVE  IInv'
  <1>1. UNCHANGED <<lifecycle, speech, sessionUpdateId, registry, awaits, live, turns,
                    turnGeneration, lost>> /\ UNCHANGED <<asked, runs, pendingDeviceCalls>>
    BY DEF tooling, backend
  <1>2. asked' \subseteq Calls /\ runs' \subseteq Runs /\ pendingDeviceCalls' \in [Calls -> Sessions \cup {0}]
    BY <1>1 DEF IInv, TypeOK
  <1>3. WorkIsOfAgent(runs') BY <1>1 DEF IInv, WorkIsOfAgent
  <1>4. PendingCallsAreCurrent' BY <1>1 DEF IInv, PendingCallsAreCurrent, lifecycle
  <1> QED BY <1>1, <1>2, <1>3, <1>4, RunStep

\* The program starts with nothing in use.
LEMMA InitIInv == Init => IInv
  <1> SUFFICES ASSUME Init PROVE IInv
    OBVIOUS
  <1> USE DEF Init
  <1>0. {MaxSessions, MaxGenerations, MaxResponses, MaxUpdates, MaxTurns} \subseteq Nat
    OBVIOUS
  <1>1. TypeOK
    <2>1. /\ 0 \in 0..(MaxGenerations + 1) /\ 0 \in 0..MaxResponses /\ 0 \in 0..MaxUpdates
          /\ 0 \in 0..MaxTurns
      BY <1>0
    <2>2. registry \in [Tools -> Hosts] BY DEF Hosts
    <2>3. pendingDeviceCalls \in [Calls -> Sessions \cup {0}] OBVIOUS
    <2> QED BY <2>1, <2>2, <2>3 DEF TypeOK, States, Generations
  <1>2. CountersInBounds /\ AgentIsLatest /\ TurnsAreCurrent
    <2>1. CountersInBounds
      <3>1. MaxSessions \in Nat /\ MaxGenerations \in Nat BY <1>0
      <3> QED BY <3>1 DEF CountersInBounds
    <2>2. AgentIsLatest BY DEF AgentIsLatest
    <2>3. TurnsAreCurrent
      <3>1. cancelling = (cancel # {}) OBVIOUS
      <3> QED BY <3>1 DEF TurnsAreCurrent
    <2> QED BY <2>1, <2>2, <2>3
  <1>3. CreationsAreFresh /\ RetiredStayRetired /\ NoOrphanAgent
    BY DEF CreationsAreFresh, RetiredStayRetired, NoOrphanAgent
  <1>4. WorkIsOfAgent(speeches) /\ WorkIsOfAgent(runs) /\ PendingCallsAreCurrent
    BY DEF WorkIsOfAgent, PendingCallsAreCurrent
  <1> QED BY <1>1, <1>2, <1>3, <1>4 DEF IInv
-----------------------------------------------------------------------------
(***************************************************************************)
(* Starting and stopping.                                                  *)
(***************************************************************************)
\* A start asks for a session under a generation nobody has had.
LEMMA StartKeeps ==
  ASSUME IInv, NEW req \in Requests, StartConversation(req)
  PROVE  IInv'
  <1>1. CASE agent # 0
    <2>1. UNCHANGED <<lifecycle, speech, tooling, awaits, backend>>
      BY <1>1 DEF StartConversation
    <2> QED BY <2>1, SendStep
  <1>2. CASE agent = 0
    <2> DEFINE c == [session |-> sessionGeneration', request |-> req]
    <2>1. /\ sessionGeneration < MaxSessions /\ sessionGeneration' = sessionGeneration + 1
          /\ state' = "connecting" /\ creating' = creating \cup {c}
          /\ UNCHANGED <<agent, closed, generation, cancelling, closing, cancel, transcriptions>>
          /\ UNCHANGED <<speech, tooling, backend>>
      BY <1>2 DEF StartConversation
    <2>2. /\ sessionGeneration \in Sessions \cup {0} /\ generation \in Generations
          /\ MaxSessions \in Nat /\ MaxGenerations \in Nat
      BY DEF IInv, TypeOK
    <2>3. /\ sessionGeneration' \in Sessions /\ sessionGeneration' > sessionGeneration
          /\ sessionGeneration' <= MaxSessions + generation
      BY <2>1, <2>2 DEF Sessions, Generations
    <2>4. c \in Creations BY <2>3 DEF Creations
    <2>5. creating' \subseteq Creations /\ closing' \subseteq Closures /\ live' \subseteq Sessions
      BY <2>1, <2>4 DEF IInv, TypeOK, backend
    <2>6. AgentIsLatest' BY <1>2, <2>1 DEF IInv, AgentIsLatest
    <2>7. /\ \A a \in live : a \in Sessions /\ a <= sessionGeneration
          /\ \A k \in closing : k.agent \in Sessions /\ k.agent <= sessionGeneration /\ k.agent # agent
          /\ \A d \in creating : d.session \in Sessions /\ d.session <= sessionGeneration
      BY DEF IInv, TypeOK, RetiredStayRetired, CreationsAreFresh, Closures, Creations
    <2>8. /\ \A a \in live : a < sessionGeneration'
          /\ \A k \in closing : k.agent < sessionGeneration'
          /\ \A d \in creating : d.session < sessionGeneration'
      BY <2>2, <2>1, <2>7 DEF Sessions
    <2>9. /\ \A a \in live : a <= sessionGeneration' /\ a # sessionGeneration'
          /\ \A k \in closing : k.agent <= sessionGeneration' /\ k.agent # sessionGeneration'
          /\ \A d \in creating : d.session <= sessionGeneration' /\ d.session # sessionGeneration'
      BY <2>3, <2>7, <2>8 DEF Sessions
    <2>10. RetiredStayRetired' BY <2>1, <2>7, <2>9 DEF RetiredStayRetired, backend
    <2>11. CreationsAreFresh'
      <3>1. ASSUME NEW d \in creating'
            PROVE  /\ d.session <= sessionGeneration' /\ d.session # agent /\ d.session \notin live
                   /\ \A k \in closing : k.agent # d.session
                   /\ \A e \in creating' : e.session = d.session => e = d
        <4>1. CASE d \in creating
          <5>1. /\ d.session # agent /\ d.session \notin live
                /\ \A k \in closing : k.agent # d.session
                /\ \A e \in creating : e.session = d.session => e = d
            BY <4>1 DEF IInv, CreationsAreFresh
          <5>2. c.session # d.session BY <2>9, <4>1
          <5> QED BY <2>1, <2>9, <4>1, <5>1, <5>2
        <4>2. CASE d = c
          <5>1. d.session = sessionGeneration' BY <4>2
          <5>2. d.session # agent /\ d.session <= sessionGeneration'
            BY <1>2, <2>3, <5>1 DEF Sessions
          <5>3. d.session \notin live /\ \A k \in closing : k.agent # d.session BY <2>9, <5>1
          <5>4. \A e \in creating : e.session # d.session BY <2>9, <5>1
          <5> QED BY <2>1, <4>2, <5>2, <5>3, <5>4
        <4> QED BY <2>1, <4>1, <4>2
      <3> QED BY <2>1, <3>1 DEF CreationsAreFresh, backend
    <2>12. NoOrphanAgent' BY <2>1 DEF IInv, NoOrphanAgent, backend
    <2>13. state' \in States /\ agent' \in Sessions \cup {0} BY <2>1 DEF IInv, TypeOK, States
    <2>14. lost' \in BOOLEAN BY <2>1 DEF IInv, TypeOK, backend
    <2> QED
      BY <2>1, <2>3, <2>5, <2>6, <2>10, <2>11, <2>12, <2>13, <2>14, SessionStep DEF backend
  <1> QED BY <1>1, <1>2

\* What createSession answered is closed again when it comes too late.
LEMMA DiscardKeeps ==
  ASSUME IInv, NEW c \in creating, DiscardSession(c)
  PROVE  IInv'
  <1> DEFINE k == [agent |-> c.session, request |-> NoRequest, stop |-> FALSE]
  <1>1. /\ creating' = creating \ {c} /\ live' = live \cup {c.session} /\ closing' = closing \cup {k}
        /\ UNCHANGED <<lifecycle, speech, tooling, cancel, transcriptions, turns,
                       turnGeneration, asked, lost>>
    BY DEF DiscardSession
  <1>2. UNCHANGED <<state, agent, closed, generation, sessionGeneration, cancelling>>
    BY <1>1 DEF lifecycle
  <1>3. /\ c.session \in Sessions /\ c.session <= sessionGeneration /\ c.session # agent
        /\ \A d \in creating : d.session = c.session => d = c
    BY DEF IInv, TypeOK, Creations, CreationsAreFresh
  <1>4. k \in Closures BY <1>3 DEF Closures
  <1>5. creating' \subseteq Creations /\ closing' \subseteq Closures /\ live' \subseteq Sessions
    BY <1>1, <1>3, <1>4 DEF IInv, TypeOK
  <1>6. CreationsAreFresh'
    <2>1. \A d \in creating' : d \in creating /\ d.session # c.session BY <1>1, <1>3
    <2> QED BY <1>1, <1>2, <2>1 DEF IInv, CreationsAreFresh
  <1>7. RetiredStayRetired' BY <1>1, <1>2, <1>3 DEF IInv, RetiredStayRetired
  <1>8. NoOrphanAgent'
    <2>1. \E l \in closing' : l.agent = c.session
      <3>1. k \in closing' /\ k.agent = c.session BY <1>1
      <3> QED BY <3>1
    <2>2. \A l \in closing : l \in closing' BY <1>1
    <2> QED BY <1>1, <1>2, <2>1, <2>2 DEF IInv, NoOrphanAgent
  <1>9. /\ state' \in States /\ agent' \in Sessions \cup {0} /\ sessionGeneration' \in Sessions \cup {0}
        /\ sessionGeneration' <= MaxSessions + generation /\ AgentIsLatest'
    BY <1>2 DEF IInv, TypeOK, CountersInBounds, AgentIsLatest
  <1>10. lost' \in BOOLEAN BY <1>1 DEF IInv, TypeOK
  <1> QED BY <1>1, <1>2, <1>5, <1>6, <1>7, <1>8, <1>9, <1>10, SessionStep

\* A session is adopted only when none is in use, and it is the latest start's.
LEMMA AdoptKeeps ==
  ASSUME IInv, NEW c \in creating, AdoptSession(c)
  PROVE  IInv'
  <1>1. /\ creating' = creating \ {c} /\ live' = live \cup {c.session} /\ agent' = c.session
        /\ state' = "listening" /\ turns' = 0 /\ asked' = {}
        /\ lost' = FALSE
        /\ UNCHANGED <<closed, generation, sessionGeneration, cancelling, speech, tooling,
                       closing, cancel, transcriptions, turnGeneration>>
    BY DEF AdoptSession
  <1>2. ~closed /\ c.session = sessionGeneration BY DEF AdoptSession, Superseded
  <1>3. /\ c.session \in Sessions /\ c.session # agent
        /\ \A k \in closing : k.agent # c.session
        /\ \A d \in creating : d.session = c.session => d = c
    BY DEF IInv, TypeOK, Creations, CreationsAreFresh
  <1>4. agent = 0 BY <1>2, <1>3 DEF IInv, AgentIsLatest
  <1>5. /\ creating' \subseteq Creations /\ closing' \subseteq Closures /\ live' \subseteq Sessions
        /\ agent' \in Sessions \cup {0} /\ state' \in States
    BY <1>1, <1>3 DEF IInv, TypeOK, States
  <1>6. CreationsAreFresh'
    <2>1. \A d \in creating' : d \in creating /\ d.session # c.session BY <1>1, <1>3
    <2> QED BY <1>1, <2>1 DEF IInv, CreationsAreFresh
  <1>7. RetiredStayRetired'
    <2>1. c.session <= sessionGeneration BY DEF IInv, CreationsAreFresh
    <2> QED BY <1>1, <1>3, <2>1 DEF IInv, RetiredStayRetired
  <1>8. NoOrphanAgent'
    <2>1. \A a \in live : a # 0 BY DEF IInv, TypeOK, Sessions
    <2> QED BY <1>1, <1>4, <2>1 DEF IInv, NoOrphanAgent
  <1>9. AgentIsLatest' BY <1>1, <1>2 DEF AgentIsLatest
  <1>10. sessionGeneration' \in Sessions \cup {0} /\ sessionGeneration' <= MaxSessions + generation
    BY <1>1 DEF IInv, TypeOK, CountersInBounds
  <1>11. lost' \in BOOLEAN BY <1>1
  <1> QED BY <1>1, <1>4, <1>5, <1>6, <1>7, <1>8, <1>9, <1>10, <1>11, SessionStep

\* A failed start leaves nothing behind.
LEMMA CreateFailedKeeps ==
  ASSUME IInv, NEW c \in creating, CreateSessionFailed(c)
  PROVE  IInv'
  <1>1. /\ creating' = creating \ {c}
        /\ UNCHANGED <<agent, closed, generation, sessionGeneration, cancelling, speech, tooling,
                       closing, cancel, transcriptions, backend>>
    BY DEF CreateSessionFailed
  <1>2. state' \in States BY DEF CreateSessionFailed, States, IInv, TypeOK
  <1>3. /\ creating' \subseteq Creations /\ closing' \subseteq Closures /\ live' \subseteq Sessions
        /\ agent' \in Sessions \cup {0} /\ sessionGeneration' \in Sessions \cup {0}
        /\ sessionGeneration' <= MaxSessions + generation
    BY <1>1 DEF IInv, TypeOK, CountersInBounds, backend
  <1>4. AgentIsLatest' /\ CreationsAreFresh' /\ RetiredStayRetired' /\ NoOrphanAgent'
    BY <1>1 DEF IInv, AgentIsLatest, CreationsAreFresh, RetiredStayRetired, NoOrphanAgent, backend
  <1>5. lost' \in BOOLEAN BY <1>1 DEF IInv, TypeOK, backend
  <1> QED BY <1>1, <1>2, <1>3, <1>4, <1>5, SessionStep DEF backend

\* A close that settled: the session it closed was not in use.
LEMMA FinishKeeps ==
  ASSUME IInv, NEW k \in closing, FinishStop(k) \/ FinishDiscard(k)
  PROVE  IInv'
  <1>1. /\ closing' = closing \ {k} /\ live' = live \ {k.agent}
        /\ UNCHANGED <<agent, closed, generation, sessionGeneration, cancelling, speech, tooling,
                       creating, cancel, transcriptions, turns,
                       turnGeneration, asked, lost>>
    BY DEF FinishStop, FinishDiscard, lifecycle
  <1>2. state' \in States BY DEF FinishStop, FinishDiscard, lifecycle, States, IInv, TypeOK
  <1>3. /\ creating' \subseteq Creations /\ closing' \subseteq Closures /\ live' \subseteq Sessions
        /\ agent' \in Sessions \cup {0} /\ sessionGeneration' \in Sessions \cup {0}
        /\ sessionGeneration' <= MaxSessions + generation
    BY <1>1 DEF IInv, TypeOK, CountersInBounds
  <1>4. AgentIsLatest' /\ CreationsAreFresh' /\ RetiredStayRetired'
    BY <1>1 DEF IInv, AgentIsLatest, CreationsAreFresh, RetiredStayRetired
  <1>5. NoOrphanAgent'
    <2>1. \A a \in live' : a = agent \/ \E l \in closing : l.agent = a /\ l # k
      BY <1>1 DEF IInv, NoOrphanAgent
    <2> QED BY <1>1, <2>1 DEF NoOrphanAgent
  <1>6. lost' \in BOOLEAN BY <1>1 DEF IInv, TypeOK
  <1> QED BY <1>1, <1>2, <1>3, <1>4, <1>5, <1>6, SessionStep

\* Refusing the approvals and releasing the device calls changes phases only.
LEMMA ReleasedRuns ==
  ASSUME IInv, NEW rs,
         \/ rs = {ReleaseDeviceCalls(r) : r \in runs}
         \/ rs = {IF r.phase = "approval" THEN [r EXCEPT !.phase = "refused"]
                  ELSE ReleaseDeviceCalls(r) : r \in runs}
  PROVE  rs \subseteq Runs /\ \A r \in rs : r.generation <= generation
  <1>1. ASSUME NEW r \in runs
        PROVE  /\ r \in Runs /\ r.generation <= generation
               /\ ReleaseDeviceCalls(r) \in Runs /\ ReleaseDeviceCalls(r).generation = r.generation
               /\ [r EXCEPT !.phase = "refused"] \in Runs
               /\ [r EXCEPT !.phase = "refused"].generation = r.generation
    <2>1. r \in Runs /\ r.generation <= generation BY DEF IInv, TypeOK, WorkIsOfAgent
    <2>2. ReleaseDeviceCalls(r) \in {r, [r EXCEPT !.phase = "settled"]} BY DEF ReleaseDeviceCalls
    <2>3. \A phase \in {"settled", "refused"} :
            /\ [r EXCEPT !.phase = phase] \in Runs
            /\ [r EXCEPT !.phase = phase].generation = r.generation
      BY <2>1 DEF Runs, Phases
    <2> QED BY <2>1, <2>2, <2>3
  <1> QED BY <1>1

\* Every stop keeps the invariant: asked for, of a closed device, after an error.
LEMMA StopKeeps ==
  ASSUME IInv, \/ \E req \in Requests : StopConversation(req)
               \/ Close
               \/ \E k \in cancel : CancelRejected(k)
               \/ \E a \in live : AgentFatalError(a)
  PROVE  IInv'
  <1>1. /\ state \in States /\ "blocked" \in States /\ NoRequest \in Requests \cup {NoRequest}
        /\ generation \in Generations /\ MaxGenerations \in Nat /\ closed \in BOOLEAN
        /\ cancel \subseteq Cancellations /\ cancelling = (cancel # {})
    BY DEF IInv, TypeOK, States, TurnsAreCurrent
  <1>2. generation < MaxGenerations => generation <= MaxGenerations
    BY <1>1 DEF Generations
  <1>3. CASE \E req \in Requests : StopConversation(req)
    <2>1. PICK req \in Requests : StopConversation(req) BY <1>3
    <2>2. /\ StopFrom(state, req, {}) /\ runs' = {ReleaseDeviceCalls(r) : r \in runs}
          /\ UNCHANGED <<closed, cancelling, cancel>> /\ generation < MaxGenerations
      BY <2>1 DEF StopConversation, MayStop
    <2>3. runs' \subseteq Runs /\ \A r \in runs' : r.generation <= generation
      BY <2>2, ReleasedRuns
    <2>4. req \in Requests \cup {NoRequest} OBVIOUS
    <2> QED BY <1>1, <1>2, <2>2, <2>3, <2>4, StopStep
  <1>4. CASE Close
    <2>1. /\ StopFrom(state, NoRequest, {}) /\ closed' = TRUE /\ ~closed
          /\ runs' = {IF r.phase = "approval" THEN [r EXCEPT !.phase = "refused"]
                      ELSE ReleaseDeviceCalls(r) : r \in runs}
          /\ UNCHANGED <<cancelling, cancel>>
      BY <1>4 DEF Close
    <2>2. runs' \subseteq Runs /\ \A r \in runs' : r.generation <= generation
      BY <2>1, ReleasedRuns
    <2>3. generation <= MaxGenerations BY <2>1 DEF IInv, CountersInBounds
    <2> QED BY <1>1, <2>1, <2>2, <2>3, StopStep
  <1>5. CASE \E k \in cancel : CancelRejected(k)
    <2>1. PICK k \in cancel : CancelRejected(k) BY <1>5
    <2>2. /\ StopFrom("blocked", NoRequest, ToDevice({Note("agent.error")}))
          /\ runs' = {ReleaseDeviceCalls(r) : r \in runs}
          /\ cancel' = {} /\ cancelling' = FALSE /\ UNCHANGED closed /\ generation < MaxGenerations
      BY <2>1 DEF CancelRejected, MayStop
    <2>3. runs' \subseteq Runs /\ \A r \in runs' : r.generation <= generation
      BY <2>2, ReleasedRuns
    <2>4. cancel' \subseteq Cancellations /\ cancelling' = (cancel' # {}) BY <2>2
    <2> QED BY <1>1, <1>2, <2>2, <2>3, <2>4, StopStep
  <1>6. CASE \E a \in live : AgentFatalError(a)
    <2>1. PICK a \in live : AgentFatalError(a) BY <1>6
    <2>2. /\ StopFrom("blocked", NoRequest, {FromAgent("agent.error", a)})
          /\ runs' = {ReleaseDeviceCalls(r) : r \in runs}
          /\ UNCHANGED <<closed, cancelling, cancel>> /\ generation < MaxGenerations
      BY <2>1 DEF AgentFatalError, MayStop
    <2>3. runs' \subseteq Runs /\ \A r \in runs' : r.generation <= generation
      BY <2>2, ReleasedRuns
    <2> QED BY <1>1, <1>2, <2>2, <2>3, StopStep
  <1> QED BY <1>3, <1>4, <1>5, <1>6

\* An interrupt opens a generation in which nothing is pending yet.
LEMMA InterruptKeeps ==
  ASSUME IInv, Interrupt
  PROVE  IInv'
  <1> DEFINE k == [session |-> sessionGeneration, agent |-> agent]
  <1>1. /\ ~closed /\ generation < MaxGenerations /\ cancelling' = TRUE
        /\ generation' = generation + 1 /\ speaking' = FALSE /\ agentResponseId' = 0
        /\ pendingDeviceCalls' = [c \in Calls |-> 0]
        /\ runs' = {ReleaseDeviceCalls(r) : r \in runs} /\ cancel' = {k}
        /\ UNCHANGED <<state, agent, closed, sessionGeneration, responses, speeches,
                       sessionUpdateId, registry, creating, closing, transcriptions, backend>>
    BY DEF Interrupt, MayStop
  <1>2. /\ generation \in Generations /\ sessionGeneration \in Sessions \cup {0}
        /\ agent \in Sessions \cup {0} /\ MaxSessions \in Nat /\ MaxGenerations \in Nat
        /\ sessionGeneration <= MaxSessions + generation
    BY DEF IInv, TypeOK, CountersInBounds
  <1>3. runs' \subseteq Runs /\ \A r \in runs' : r.generation <= generation
    BY <1>1, ReleasedRuns
  <1>4. generation' \in Generations /\ generation' <= MaxGenerations
    BY <1>1, <1>2 DEF Generations
  <1>5. TypeOK'
    <2>1. k \in Cancellations BY <1>2 DEF Cancellations
    <2>2. 0 \in 0..MaxResponses OBVIOUS
    <2>3. cancel' \subseteq Cancellations BY <1>1, <2>1
    <2>4. pendingDeviceCalls' \in [Calls -> Sessions \cup {0}] BY <1>1
    <2> QED BY <1>1, <1>3, <1>4, <2>2, <2>3, <2>4 DEF IInv, TypeOK, backend
  <1>6. CountersInBounds'
    BY <1>1, <1>2, <1>4 DEF CountersInBounds, Generations, Sessions
  <1>7. AgentIsLatest' /\ CreationsAreFresh' /\ RetiredStayRetired' /\ NoOrphanAgent'
    BY <1>1 DEF IInv, AgentIsLatest, CreationsAreFresh, RetiredStayRetired, NoOrphanAgent, backend
  <1>8. TurnsAreCurrent'
    <2>1. \A l \in cancel' : l.agent = agent BY <1>1
    <2>2. cancel' # {} BY <1>1
    <2> QED BY <1>1, <2>1, <2>2 DEF TurnsAreCurrent
  <1>9. WorkIsOfAgent(speeches)' /\ WorkIsOfAgent(runs)'
    <2>1. \A w \in speeches \cup runs' : w.generation \in Generations /\ w.generation <= generation
      BY <1>3 DEF IInv, TypeOK, Speeches, Runs, WorkIsOfAgent
    <2>2. \A w \in speeches \cup runs' : w.generation <= generation' /\ w.generation # generation'
      BY <1>1, <1>2, <2>1 DEF Generations
    <2> QED BY <1>1, <2>2 DEF WorkIsOfAgent
  <1>10. PendingCallsAreCurrent' BY <1>1 DEF PendingCallsAreCurrent
  <1> QED BY <1>5, <1>6, <1>7, <1>8, <1>9, <1>10 DEF IInv

\* A cancel that resolved dropped the turns of the Agent it was asked of.
LEMMA CancelResolvedKeeps ==
  ASSUME IInv, NEW k \in cancel, CancelResolved(k)
  PROVE  IInv'
  <1>1. /\ cancel' = {} /\ cancelling' = FALSE /\ turns' = (IF agent = k.agent THEN 0 ELSE turns)
        /\ UNCHANGED <<agent, closed, generation, sessionGeneration, speech, tooling, creating,
                       closing, transcriptions, live, turnGeneration, asked>>
    BY DEF CancelResolved
  <1>2. state' \in States BY DEF CancelResolved, States, IInv, TypeOK
  <1> USE DEF speech, tooling
  <1>3. TypeOK'
    <2>1. 0 \in 0..MaxTurns OBVIOUS
    <2>2. lost' \in BOOLEAN BY DEF CancelResolved
    <2> QED BY <1>1, <1>2, <2>1, <2>2 DEF IInv, TypeOK
  <1>4. /\ CountersInBounds' /\ AgentIsLatest' /\ CreationsAreFresh' /\ RetiredStayRetired'
        /\ NoOrphanAgent' /\ PendingCallsAreCurrent'
    BY <1>1 DEF IInv, CountersInBounds, AgentIsLatest, CreationsAreFresh, RetiredStayRetired,
                NoOrphanAgent, PendingCallsAreCurrent
  <1>5. TurnsAreCurrent'
    <2>1. turns' > 0 => agent # k.agent /\ turns' = turns BY <1>1
    <2>2. turns' > 0 => turnGeneration = generation BY <2>1 DEF IInv, TurnsAreCurrent
    <2> QED BY <1>1, <2>2 DEF TurnsAreCurrent
  <1>6. WorkIsOfAgent(speeches)' /\ WorkIsOfAgent(runs)' BY <1>1 DEF IInv, WorkIsOfAgent
  <1> QED BY <1>3, <1>4, <1>5, <1>6 DEF IInv
-----------------------------------------------------------------------------
(***************************************************************************)
(* The Agent's turns, speech and input.                                    *)
(***************************************************************************)
\* Whoever is heard is the Agent in use.
LEMMA Heard ==
  ASSUME IInv, NEW a \in live, Emits(a), Hears(a)
  PROVE  /\ a = agent /\ a \in Sessions /\ turns > 0 /\ turns \in 1..MaxTurns
         /\ turnGeneration = generation /\ ~closed
  <1>1. a = agent /\ ~closed /\ ~cancelling BY DEF Hears, IInv, AgentIsLatest
  <1>2. turns > 0 BY <1>1 DEF Emits
  <1>3. turnGeneration = generation BY <1>1, <1>2 DEF IInv, TurnsAreCurrent
  <1>4. a \in Sessions /\ turns \in 0..MaxTurns BY DEF IInv, TypeOK
  <1> QED BY <1>1, <1>2, <1>3, <1>4

\* What an Agent's event changes.
LEMMA AgentKeeps ==
  ASSUME IInv, NEW a \in live,
         \/ AgentTranscript(a) \/ AgentPartialText(a) \/ AgentFinalText(a)
         \/ AgentAudio(a) \/ AgentAudioDone(a) \/ AgentTurnDone(a) \/ AgentRecoverableError(a)
  PROVE  IInv'
  <1> USE DEF Moved, Settled, States
  <1>1. Emits(a) /\ Hears(a)
    BY DEF AgentTranscript, AgentPartialText, AgentFinalText, AgentAudio, AgentAudioDone,
           AgentTurnDone, AgentRecoverableError
  <1>2. a = agent /\ a \in Sessions /\ turns \in 1..MaxTurns BY <1>1, Heard
  <1>3. /\ state \in States /\ speaking \in BOOLEAN /\ agentResponseId \in 0..MaxResponses
        /\ responses \in 0..MaxResponses /\ sessionUpdateId \in 0..MaxUpdates
        /\ registry \in [Tools -> Hosts] /\ transcriptions \subseteq Transcriptions
        /\ asked \subseteq Calls /\ turns \in 0..MaxTurns /\ turnGeneration \in Generations
        /\ lost \in BOOLEAN /\ speeches \subseteq Speeches /\ generation \in Generations /\ MaxResponses \in Nat
    BY DEF IInv, TypeOK
  <1>4. UNCHANGED Identity /\ UNCHANGED <<cancelling, cancel, creating, closing, live, runs,
                                          pendingDeviceCalls, sessionUpdateId, registry,
                                          transcriptions, asked, turnGeneration, lost>>
    BY DEF AgentTranscript, AgentPartialText, AgentFinalText, AgentAudio, AgentAudioDone,
           AgentTurnDone, AgentRecoverableError, Identity, lifecycle, tooling, awaits, backend
  <1>5. UNCHANGED speeches => WorkIsOfAgent(speeches)'
    BY <1>4 DEF IInv, WorkIsOfAgent, Identity
  <1>6. CASE AgentTranscript(a) \/ AgentPartialText(a) \/ AgentRecoverableError(a)
    <2>1. UNCHANGED <<speech, turns>> /\ state' \in States
      BY <1>3, <1>6 DEF AgentTranscript, AgentPartialText, AgentRecoverableError, lifecycle, backend
    <2> QED BY <1>3, <1>4, <1>5, <2>1, WorkStep DEF speech
  <1>7. CASE AgentFinalText(a)
    <2>1. UNCHANGED <<agentResponseId, turns>> BY <1>7 DEF AgentFinalText, backend
    <2>2. CASE UNCHANGED <<responses, speeches, speaking, state>>
      BY <1>3, <1>4, <1>5, <2>1, <2>2, WorkStep
    <2>3. CASE /\ responses < MaxResponses /\ responses' = responses + 1
               /\ speeches' = speeches \cup {[id |-> responses', session |-> agent,
                                              generation |-> generation, started |-> FALSE]}
               /\ speaking' = (speaking \/ HasTts)
               /\ state' = IF HasTts THEN "speaking" ELSE state
      <3>1. responses' \in 1..MaxResponses BY <1>3, <2>3
      <3>2. PICK s \in Speeches : s = [id |-> responses', session |-> agent,
                                       generation |-> generation, started |-> FALSE]
        BY <1>2, <1>3, <3>1 DEF Speeches
      <3>3. s.session = agent /\ s.generation = generation BY <3>2
      <3>4. speeches' \subseteq Speeches BY <1>3, <2>3, <3>2
      <3>5. generation <= generation BY <1>3 DEF Generations
      <3>6. WorkIsOfAgent(speeches)'
        BY <1>4, <2>3, <3>2, <3>3, <3>5 DEF IInv, WorkIsOfAgent, Identity
      <3>7. speaking' \in BOOLEAN BY <2>3
      <3>8. state' \in States BY <1>3, <2>3
      <3> QED BY <1>3, <1>4, <2>1, <3>1, <3>4, <3>6, <3>7, <3>8, WorkStep
    <2> QED BY <1>7, <2>2, <2>3 DEF AgentFinalText
  <1>8. CASE AgentAudio(a)
    <2>1. UNCHANGED <<speeches, turns>> BY <1>8 DEF AgentAudio, backend
    <2>2. /\ responses' \in 0..MaxResponses /\ agentResponseId' \in 0..MaxResponses
          /\ state' \in States
      BY <1>3, <1>8 DEF AgentAudio
    <2>3. speaking' \in BOOLEAN BY <1>3, <1>8 DEF AgentAudio
    <2> QED BY <1>3, <1>4, <1>5, <2>1, <2>2, <2>3, WorkStep
  <1>9. CASE AgentAudioDone(a)
    <2>1. /\ UNCHANGED <<speeches, turns, responses>> /\ agentResponseId' = 0 /\ speaking' = FALSE
          /\ state' \in States
      BY <1>3, <1>9 DEF AgentAudioDone, backend
    <2>2. agentResponseId' \in 0..MaxResponses BY <1>3, <2>1
    <2>3. speaking' \in BOOLEAN BY <2>1
    <2> QED BY <1>3, <1>4, <1>5, <2>1, <2>2, <2>3, WorkStep
  <1>10. CASE AgentTurnDone(a)
    <2>1. turns' = turns - 1 /\ state' \in States /\ UNCHANGED speech
      BY <1>3, <1>10 DEF AgentTurnDone
    <2>2. turns' \in 0..MaxTurns /\ turns' <= turns BY <1>2, <2>1
    <2> QED BY <1>3, <1>4, <1>5, <2>1, <2>2, WorkStep DEF speech
  <1> QED BY <1>6, <1>7, <1>8, <1>9, <1>10

\* A turn the Agent loses leaves everything else where it is.
LEMMA TurnLostKeeps ==
  ASSUME IInv, NEW a \in live, TurnLost(a)
  PROVE  IInv'
  <1>1. /\ state \in States /\ speaking \in BOOLEAN /\ agentResponseId \in 0..MaxResponses
        /\ responses \in 0..MaxResponses /\ sessionUpdateId \in 0..MaxUpdates
        /\ registry \in [Tools -> Hosts] /\ transcriptions \subseteq Transcriptions
        /\ asked \subseteq Calls /\ turns \in 0..MaxTurns /\ turnGeneration \in Generations
        /\ speeches \subseteq Speeches
    BY DEF IInv, TypeOK
  <1>2. UNCHANGED Identity /\ UNCHANGED <<cancelling, cancel, creating, closing, live, runs, speech,
                                          pendingDeviceCalls, sessionUpdateId, registry, state,
                                          transcriptions, asked, turnGeneration>>
    BY DEF TurnLost, Identity, lifecycle, tooling, awaits
  <1>3. turns' \in 0..MaxTurns /\ turns' <= turns
    <2>1. turns > 0 /\ turns' = turns - 1 BY DEF TurnLost
    <2> QED BY <1>1, <2>1
  <1>4. lost' \in BOOLEAN BY DEF TurnLost
  <1>5. WorkIsOfAgent(speeches)' BY <1>2 DEF IInv, WorkIsOfAgent, Identity, speech
  <1> QED BY <1>1, <1>2, <1>3, <1>4, <1>5, WorkStep DEF speech

\* Speaking on changes what is still to be said.
LEMMA SpeechKeeps ==
  ASSUME IInv, NEW s \in speeches,
         SpeechChunk(s) \/ SpeechAbandoned(s) \/ \E failed \in BOOLEAN : SpeechEnd(s, failed)
  PROVE  IInv'
  <1> USE DEF Settled, States
  <1>1. /\ state \in States /\ speaking \in BOOLEAN /\ agentResponseId \in 0..MaxResponses
        /\ responses \in 0..MaxResponses /\ sessionUpdateId \in 0..MaxUpdates
        /\ registry \in [Tools -> Hosts] /\ transcriptions \subseteq Transcriptions
        /\ asked \subseteq Calls /\ turns \in 0..MaxTurns /\ turnGeneration \in Generations
        /\ speeches \subseteq Speeches /\ lost \in BOOLEAN
    BY DEF IInv, TypeOK
  <1>2. UNCHANGED Identity /\ UNCHANGED <<cancelling, cancel, creating, closing, live, runs,
                                          pendingDeviceCalls, sessionUpdateId, registry, turns,
                                          transcriptions, asked, turnGeneration, agentResponseId,
                                          responses, lost>>
    BY DEF SpeechChunk, SpeechAbandoned, SpeechEnd, Identity, lifecycle, tooling, awaits, backend
  <1>3. state' \in States BY <1>1 DEF SpeechChunk, SpeechAbandoned, SpeechEnd, lifecycle
  <1>4. speaking' \in BOOLEAN BY <1>1 DEF SpeechChunk, SpeechAbandoned, SpeechEnd
  <1>5. PICK t \in Speeches : t = [s EXCEPT !.started = TRUE] BY <1>1 DEF Speeches
  <1>6. t.generation = s.generation /\ t.session = s.session BY <1>1, <1>5 DEF Speeches
  <1>7. speeches' \subseteq speeches \cup {t}
    BY <1>5 DEF SpeechChunk, SpeechAbandoned, SpeechEnd
  <1>8. speeches' \subseteq Speeches BY <1>1, <1>7
  <1>9. WorkIsOfAgent(speeches)' BY <1>2, <1>6, <1>7 DEF IInv, WorkIsOfAgent, Identity
  <1>10. turns <= turns BY <1>1
  <1> QED BY <1>1, <1>2, <1>3, <1>4, <1>8, <1>9, <1>10, WorkStep

\* Asking the Agent opens a turn of this generation.
LEMMA ListeningKeeps ==
  ASSUME IInv, \/ TextInput \/ UtteranceEnds
               \/ \E t \in transcriptions :
                    TranscriptionDone(t) \/ \E failed \in BOOLEAN : TranscriptionDropped(t, failed)
  PROVE  IInv'
  <1>1. /\ state \in States /\ speaking \in BOOLEAN /\ agentResponseId \in 0..MaxResponses
        /\ responses \in 0..MaxResponses /\ sessionUpdateId \in 0..MaxUpdates
        /\ registry \in [Tools -> Hosts] /\ transcriptions \subseteq Transcriptions
        /\ asked \subseteq Calls /\ turns \in 0..MaxTurns /\ turnGeneration \in Generations
        /\ speeches \subseteq Speeches /\ generation \in Generations /\ agent \in Sessions \cup {0}
        /\ MaxTurns \in Nat /\ lost \in BOOLEAN
    BY DEF IInv, TypeOK
  <1>2. UNCHANGED Identity /\ UNCHANGED <<cancelling, cancel, creating, closing, live, runs,
                                          pendingDeviceCalls, sessionUpdateId, registry, asked,
                                          speaking, agentResponseId, responses, speeches>>
    BY DEF TextInput, UtteranceEnds, TranscriptionDone, TranscriptionDropped, AskAgent, Identity,
           lifecycle, speech, tooling, backend
  <1>3. WorkIsOfAgent(speeches)' BY <1>2 DEF IInv, WorkIsOfAgent, Identity
  <1>4. transcriptions' \subseteq Transcriptions
    <2>1. agent # 0 => [session |-> agent, generation |-> generation] \in Transcriptions
      BY <1>1 DEF Transcriptions
    <2> QED BY <1>1, <2>1 DEF TextInput, UtteranceEnds, TranscriptionDone, TranscriptionDropped
  <1>7. lost' \in BOOLEAN
    BY <1>1 DEF TextInput, UtteranceEnds, TranscriptionDone, TranscriptionDropped, AskAgent, backend
  <1>5. CASE UNCHANGED <<state, turns, turnGeneration>>
    <2>1. turns <= turns BY <1>1
    <2> QED BY <1>1, <1>2, <1>3, <1>4, <1>5, <1>7, <2>1, WorkStep
  <1>6. CASE turns < MaxTurns /\ turns' = turns + 1 /\ turnGeneration' = generation
             /\ state' = "recognizing"
    <2>1. turns' \in 0..MaxTurns /\ state' \in States BY <1>1, <1>6 DEF States
    <2> QED BY <1>1, <1>2, <1>3, <1>4, <1>6, <1>7, <2>1, WorkStep
  <1> QED BY <1>5, <1>6
       DEF TextInput, UtteranceEnds, TranscriptionDone, TranscriptionDropped, AskAgent, lifecycle,
           backend

\* The device's tools change under every call; the runs keep what they looked up.
LEMMA UpdateKeeps ==
  ASSUME IInv, NEW advertised \in SUBSET DeviceTools, SessionUpdate(advertised)
  PROVE  IInv'
  <1>1. /\ state \in States /\ speaking \in BOOLEAN /\ agentResponseId \in 0..MaxResponses
        /\ responses \in 0..MaxResponses /\ sessionUpdateId \in 0..MaxUpdates
        /\ registry \in [Tools -> Hosts] /\ transcriptions \subseteq Transcriptions
        /\ asked \subseteq Calls /\ turns \in 0..MaxTurns /\ turnGeneration \in Generations
        /\ speeches \subseteq Speeches /\ MaxUpdates \in Nat /\ lost \in BOOLEAN
    BY DEF IInv, TypeOK
  <1>2. /\ UNCHANGED <<lifecycle, speech, pendingDeviceCalls, runs, awaits, backend>>
        /\ sessionUpdateId < MaxUpdates /\ sessionUpdateId' = sessionUpdateId + 1
        /\ registry' = Reregistered(advertised)
    BY DEF SessionUpdate
  <1>3. sessionUpdateId' \in 0..MaxUpdates BY <1>1, <1>2
  <1>4. registry' \in [Tools -> Hosts] BY <1>1, <1>2 DEF Hosts, Reregistered
  <1>5. WorkIsOfAgent(speeches)' BY <1>2 DEF IInv, WorkIsOfAgent, lifecycle, speech
  <1>6. UNCHANGED Identity /\ turns <= turns BY <1>1, <1>2 DEF Identity, lifecycle
  <1> QED BY <1>1, <1>2, <1>3, <1>4, <1>5, <1>6, WorkStep
       DEF lifecycle, speech, awaits, backend
-----------------------------------------------------------------------------
(***************************************************************************)
(* Tool calls.                                                             *)
(***************************************************************************)
\* A run that waits for nothing on the device may move on or end.
LEMMA MoveStep ==
  ASSUME IInv, UNCHANGED <<lifecycle, speech, sessionUpdateId, registry, awaits, live, turns,
                           turnGeneration, lost>>,
         asked' \subseteq Calls, NEW r, NEW q \in Runs,
         r \in runs => r.phase # "device" \/ pendingDeviceCalls'[r.call] = 0,
         runs' \subseteq (runs \ {r}) \cup {q}, runs \ {r} \subseteq runs',
         q.generation <= generation, q.generation = generation => q.session = agent,
         \/ UNCHANGED pendingDeviceCalls
         \/ r \in runs /\ pendingDeviceCalls' = [pendingDeviceCalls EXCEPT ![r.call] = 0]
  PROVE  IInv'
  <1>1. /\ runs \subseteq Runs /\ pendingDeviceCalls \in [Calls -> Sessions \cup {0}]
    BY DEF IInv, TypeOK
  <1>2. runs' \subseteq Runs BY <1>1
  <1>3. WorkIsOfAgent(runs') BY DEF IInv, WorkIsOfAgent
  <1>4. pendingDeviceCalls' \in [Calls -> Sessions \cup {0}] BY <1>1
  <1>5. \A c \in Calls : pendingDeviceCalls'[c] # 0 => pendingDeviceCalls[c] = pendingDeviceCalls'[c]
    BY <1>1 DEF Runs
  <1>6. PendingCallsAreCurrent'
    <2> SUFFICES ASSUME NEW c \in Calls, pendingDeviceCalls'[c] # 0
                 PROVE  /\ pendingDeviceCalls'[c] = agent
                        /\ \E w \in runs' : w.call = c /\ w.session = agent /\ w.phase = "device"
                                          /\ w.generation = generation
      BY DEF PendingCallsAreCurrent, lifecycle
    <2>1. /\ pendingDeviceCalls[c] = agent /\ pendingDeviceCalls'[c] = agent
          /\ \E w \in runs : w.call = c /\ w.session = agent /\ w.phase = "device"
                           /\ w.generation = generation
      BY <1>5 DEF IInv, PendingCallsAreCurrent
    <2>2. PICK w \in runs : w.call = c /\ w.session = agent /\ w.phase = "device"
                            /\ w.generation = generation
      BY <2>1
    <2>3. w # r BY <2>2
    <2> QED BY <2>1, <2>2, <2>3
  <1> QED BY <1>2, <1>3, <1>4, <1>6, RunStep

\* Beginning a call of this generation: what waits for the device is entered.
LEMMA BeginKeeps ==
  ASSUME IInv, UNCHANGED <<lifecycle, speech, sessionUpdateId, registry, awaits, live, turns,
                           turnGeneration, lost>>,
         asked' \subseteq Calls, NEW r \in Runs, r.phase = "approved", Begin(r),
         r.generation = generation, r.session = agent
  PROVE  IInv'
  <1>1. /\ runs \subseteq Runs /\ pendingDeviceCalls \in [Calls -> Sessions \cup {0}]
        /\ generation \in Generations
    BY DEF IInv, TypeOK
  <1>2. PICK phase \in {"gateway", "settled", "device"} :
          /\ runs' = (runs \ {r}) \cup {[r EXCEPT !.phase = phase]}
          /\ pendingDeviceCalls' = IF phase = "device"
                                   THEN [pendingDeviceCalls EXCEPT ![r.call] = r.session]
                                   ELSE pendingDeviceCalls
    BY DEF Begin
  <1>3. PICK q \in Runs : q = [r EXCEPT !.phase = phase] BY DEF Runs, Phases
  <1>4. /\ q.call = r.call /\ q.session = r.session /\ q.generation = r.generation
        /\ q.phase = phase /\ r.call \in Calls /\ r.session \in Sessions
    BY <1>3 DEF Runs
  <1>5. runs' \subseteq Runs BY <1>1, <1>2, <1>3
  <1>6. WorkIsOfAgent(runs')
    <2>1. generation <= generation BY <1>1 DEF Generations
    <2> QED BY <1>2, <1>3, <1>4, <2>1 DEF IInv, WorkIsOfAgent
  <1>7. pendingDeviceCalls' \in [Calls -> Sessions \cup {0}] BY <1>1, <1>2, <1>4
  <1>8. PendingCallsAreCurrent'
    <2> SUFFICES ASSUME NEW c \in Calls, pendingDeviceCalls'[c] # 0
                 PROVE  /\ pendingDeviceCalls'[c] = agent
                        /\ \E w \in runs' : w.call = c /\ w.session = agent /\ w.phase = "device"
                                          /\ w.generation = generation
      BY DEF PendingCallsAreCurrent, lifecycle
    <2>1. CASE phase = "device" /\ c = r.call
      <3>1. pendingDeviceCalls'[c] = agent BY <1>1, <1>2, <2>1
      <3>2. q \in runs' BY <1>2, <1>3
      <3> QED BY <1>4, <2>1, <3>1, <3>2
    <2>2. CASE phase # "device" \/ c # r.call
      <3>1. pendingDeviceCalls'[c] = pendingDeviceCalls[c] BY <1>1, <1>2, <2>2
      <3>2. PICK w \in runs : w.call = c /\ w.session = agent /\ w.phase = "device"
                              /\ w.generation = generation
        BY <3>1 DEF IInv, PendingCallsAreCurrent
      <3>3. w \in runs' BY <1>2, <3>2
      <3> QED BY <3>1, <3>2, <3>3 DEF IInv, PendingCallsAreCurrent
    <2> QED BY <2>1, <2>2
  <1> QED BY <1>5, <1>6, <1>7, <1>8, RunStep

\* A call of the Agent in use is refused, waits for the operator, or begins.
LEMMA ToolCallKeeps ==
  ASSUME IInv, NEW a \in live, NEW c \in Calls, NEW t \in Tools, AgentToolCall(a, c, t)
  PROVE  IInv'
  <1>1. Emits(a) /\ Hears(a) BY DEF AgentToolCall
  <1>2. a = agent /\ a \in Sessions BY <1>1, Heard
  <1>3. registry \in [Tools -> Hosts] /\ generation \in Generations /\ asked \subseteq Calls
    BY DEF IInv, TypeOK
  <1>4. PICK r \in Runs : r = [call |-> c, session |-> a, generation |-> generation, tool |-> t,
                               host |-> registry[t], phase |-> "approved"]
    BY <1>2, <1>3 DEF Runs, Phases
  <1>5. r.generation = generation /\ r.session = agent /\ r.phase = "approved" BY <1>2, <1>4
  <1>6. /\ UNCHANGED <<lifecycle, speech, sessionUpdateId, registry, awaits, live, turns,
                       turnGeneration, lost>>
        /\ asked' \subseteq Calls
    BY <1>3 DEF AgentToolCall
  <1>7. CASE UNCHANGED pendingDeviceCalls
             /\ \E phase \in {"refused", "approval"} : runs' = runs \cup {[r EXCEPT !.phase = phase]}
    <2>1. PICK phase \in {"refused", "approval"} : runs' = runs \cup {[r EXCEPT !.phase = phase]}
      BY <1>7
    <2>2. PICK q \in Runs : q = [r EXCEPT !.phase = phase] BY DEF Runs, Phases
    <2>3. q.generation = generation /\ q.session = agent /\ q.phase = phase BY <1>5, <2>2 DEF Runs
    <2>4. generation <= generation BY <1>3 DEF Generations
    <2>5. runs' \subseteq (runs \ {q}) \cup {q} /\ runs \ {q} \subseteq runs' BY <2>1, <2>2
    <2>6. q.phase # "device" BY <2>3
    <2> QED BY <1>6, <1>7, <2>3, <2>4, <2>5, <2>6, MoveStep
  <1>8. CASE Begin(r) BY <1>5, <1>6, <1>8, BeginKeeps
  <1> QED BY <1>4, <1>7, <1>8 DEF AgentToolCall

\* The steps of a run that only change its phase, or end it.
LEMMA RunKeeps ==
  ASSUME IInv, NEW r \in runs,
         \/ ToolStep(r) \/ DeviceOutput(r)
         \/ \E d \in {"approve", "decline"} : ApprovalResponse(r, d)
  PROVE  IInv'
  <1>1. /\ r \in Runs /\ asked \subseteq Calls /\ runs \subseteq Runs
        /\ r.generation <= generation /\ (r.generation = generation => r.session = agent)
        /\ pendingDeviceCalls \in [Calls -> Sessions \cup {0}]
    BY DEF IInv, TypeOK, WorkIsOfAgent
  <1>2. ASSUME NEW phase \in Phases
        PROVE  /\ [r EXCEPT !.phase = phase] \in Runs
               /\ [r EXCEPT !.phase = phase].generation = r.generation
               /\ [r EXCEPT !.phase = phase].session = r.session
    BY <1>1 DEF Runs
  <1>3. ASSUME NEW phase \in Phases, Moves(r, phase),
               \/ UNCHANGED pendingDeviceCalls /\ r.phase # "device"
               \/ pendingDeviceCalls' = [pendingDeviceCalls EXCEPT ![r.call] = 0]
        PROVE  IInv'
    <2>1. /\ runs' = (runs \ {r}) \cup {[r EXCEPT !.phase = phase]}
          /\ UNCHANGED <<lifecycle, speech, sessionUpdateId, registry, awaits, live, turns,
                         turnGeneration, lost>>
          /\ asked' \subseteq Calls
      BY <1>1, <1>3 DEF Moves, backend
    <2>2. PICK q \in Runs : q = [r EXCEPT !.phase = phase] BY <1>2
    <2>3. q.generation = r.generation /\ q.session = r.session BY <1>2, <2>2
    <2>4. r.phase # "device" \/ pendingDeviceCalls'[r.call] = 0
      BY <1>1, <1>3 DEF Runs
    <2>5. runs' \subseteq (runs \ {r}) \cup {q} /\ runs \ {r} \subseteq runs' BY <2>1, <2>2
    <2> QED BY <1>1, <1>3, <2>1, <2>3, <2>4, <2>5, MoveStep
  <1>4. {"approved", "refused", "settled"} \subseteq Phases BY DEF Phases
  <1>5. CASE ApprovalTimeout(r) BY <1>3, <1>4, <1>5 DEF ApprovalTimeout
  <1>6. CASE \E d \in {"approve", "decline"} : ApprovalResponse(r, d)
    BY <1>3, <1>4, <1>6 DEF ApprovalResponse
  <1>7. CASE GatewayToolReturns(r) BY <1>3, <1>4, <1>7 DEF GatewayToolReturns
  <1>8. CASE DeviceOutput(r) BY <1>3, <1>4, <1>8 DEF DeviceOutput
  <1>9. CASE DeviceToolTimeout(r) BY <1>3, <1>4, <1>9 DEF DeviceToolTimeout
  <1>10. CASE ResumeApproved(r)
    <2>1. r.phase = "approved" BY <1>10 DEF ResumeApproved
    <2>2. CASE Aborted(r) /\ Moves(r, "refused") /\ UNCHANGED pendingDeviceCalls
      BY <1>3, <1>4, <2>1, <2>2
    <2>3. CASE ~Aborted(r) /\ Begin(r)
               /\ UNCHANGED <<lifecycle, speech, sessionUpdateId, registry, awaits, backend>>
      <3>1. r.generation = generation /\ r.session = agent BY <1>1, <2>3 DEF Aborted
      <3>2. /\ asked' \subseteq Calls
            /\ UNCHANGED <<lifecycle, speech, sessionUpdateId, registry, awaits, live, turns,
                           turnGeneration, lost>>
        BY <1>1, <2>3 DEF backend
      <3> QED BY <1>1, <2>1, <2>3, <3>1, <3>2, BeginKeeps
    <2> QED BY <1>10, <2>2, <2>3 DEF ResumeApproved
  <1>11. CASE Deliver(r)
    <2>1. /\ runs' = runs \ {r} /\ r.phase # "device" /\ UNCHANGED pendingDeviceCalls
          /\ UNCHANGED <<lifecycle, speech, sessionUpdateId, registry, awaits, backend>>
      BY <1>11 DEF Deliver
    <2>2. UNCHANGED <<lifecycle, speech, sessionUpdateId, registry, awaits, live, turns,
                      turnGeneration, lost>> /\ asked' \subseteq Calls
      BY <1>1, <2>1 DEF backend
    <2> QED BY <1>1, <2>1, <2>2, MoveStep
  <1> QED BY <1>5, <1>6, <1>7, <1>8, <1>9, <1>10, <1>11 DEF ToolStep

\* Every step keeps the invariant.
LEMMA NextKeeps == IInv /\ [Next]_vars => IInv'
  <1> SUFFICES ASSUME IInv, [Next]_vars PROVE IInv'
    OBVIOUS
  <1>1. CASE Lifecycle
    BY <1>1, StartKeeps, StopKeeps, InterruptKeeps, DiscardKeeps, AdoptKeeps, CreateFailedKeeps,
       FinishKeeps, CancelResolvedKeeps DEF Lifecycle
  <1>2. CASE AgentEvent 
    BY <1>2, AgentKeeps, TurnLostKeeps, StopKeeps, ToolCallKeeps DEF AgentEvent
  <1>3. CASE Speaking BY <1>3, SpeechKeeps DEF Speaking
  <1>4. CASE Listening BY <1>4, ListeningKeeps DEF Listening
  <1>5. CASE Tooling BY <1>5, RunKeeps, UpdateKeeps DEF Tooling
  <1>6. CASE Finished \/ UNCHANGED vars
    <2>1. UNCHANGED vars BY <1>6 DEF Finished
    <2> QED BY <2>1, SendStep DEF vars
  <1> QED BY <1>1, <1>2, <1>3, <1>4, <1>5, <1>6 DEF Next

\* The inductive invariant holds throughout.
LEMMA Invariant == Spec => []IInv
  BY InitIInv, NextKeeps, PTL DEF Spec
-----------------------------------------------------------------------------
(***************************************************************************)
(* Results.                                                                *)
(***************************************************************************)
\* Every variable keeps its type and every counter its bound.
THEOREM TypeCorrect == Spec => []TypeOK
  <1>1. IInv => TypeOK BY DEF IInv
  <1> QED BY <1>1, Invariant, PTL

\* No Agent session leaks, whatever overtook its creation.
THEOREM NoAgentLeaks == Spec => []NoOrphanAgent
  <1>1. IInv => NoOrphanAgent BY DEF IInv
  <1> QED BY <1>1, Invariant, PTL

\* An interrupt or a stop leaves no device call behind.
THEOREM PendingAreCurrent == Spec => []PendingCallsAreCurrent
  <1>1. IInv => PendingCallsAreCurrent BY DEF IInv
  <1> QED BY <1>1, Invariant, PTL
-----------------------------------------------------------------------------
(***************************************************************************)
(* The barrier: what a step sends.                                         *)
(***************************************************************************)
Barred(messages) ==
  \A m \in messages : "generation" \in DOMAIN m => m.generation = generation /\ m.agent = agent

\* Notes belong to no turn; what is owned belongs to its owner.
LEMMA Sendable ==
  /\ \A type : Barred({Note(type)})
  /\ \A type, g, a : g = generation /\ a = agent => Barred({Owned(type, g, a)})
  /\ Barred({})
  <1>1. \A type : DOMAIN Note(type) = {"type"} BY DEF Note
  <1>2. \A type, g, a : Owned(type, g, a).generation = g /\ Owned(type, g, a).agent = a BY DEF Owned
  <1> QED BY <1>1, <1>2 DEF Barred

\* What is sent together may be looked at one by one.
LEMMA Together ==
  ASSUME NEW ms, NEW ns
  PROVE  /\ Barred(ms) /\ Barred(ns) => Barred(ms \cup ns)
         /\ Barred(ms) => Barred(ToDevice(ms))
  BY DEF Barred, ToDevice

\* A stop sends what its caller wrote, and a result.
LEMMA StopBarred ==
  ASSUME NEW st, NEW req, NEW notes, StopFrom(st, req, notes), Barred(notes)
  PROVE  Barred(sent')
  <1>1. sent' = notes \/ sent' = notes \cup {} \/ sent' = notes \cup {Result(req, TRUE, state')}
    BY DEF StopFrom
  <1> QED BY <1>1 DEF Barred, Result

\* Starting, stopping and interrupting.
LEMMA LifecycleBarred ==
  ASSUME Lifecycle
  PROVE  Barred(sent')
  <1>1. CASE \E req \in Requests : StartConversation(req)
    BY <1>1 DEF StartConversation, Barred, Result
  <1>2. CASE \E req \in Requests : StopConversation(req)
    BY <1>2, Sendable, StopBarred DEF StopConversation
  <1>3. CASE Interrupt \/ Close BY <1>3, Sendable, StopBarred DEF Interrupt, Close
  <1>4. CASE \E c \in creating : DiscardSession(c) \/ AdoptSession(c) \/ CreateSessionFailed(c)
    <2>1. PICK c \in creating : DiscardSession(c) \/ AdoptSession(c) \/ CreateSessionFailed(c)
      BY <1>4
    <2>2. \/ sent' = {} \/ sent' = {Result(c.request, TRUE, "listening")}
          \/ sent' = {Note("agent.error")} \cup {Result(c.request, FALSE, "blocked")}
      BY <2>1 DEF DiscardSession, AdoptSession, CreateSessionFailed
    <2> QED BY <2>2 DEF Barred, Result, Note
  <1>5. CASE \E k \in closing : FinishStop(k) \/ FinishDiscard(k)
    <2>1. PICK k \in closing : FinishStop(k) \/ FinishDiscard(k) BY <1>5
    <2>2. \/ sent' = {} \/ sent' = ToDevice({}) \/ sent' = ToDevice({Result(k.request, TRUE, state')})
      BY <2>1 DEF FinishStop, FinishDiscard
    <2> QED BY <2>2 DEF Barred, Result, ToDevice
  <1>6. CASE \E k \in cancel : CancelResolved(k) \/ CancelRejected(k)
    <2>1. PICK k \in cancel : CancelResolved(k) \/ CancelRejected(k) BY <1>6
    <2>2. CASE CancelResolved(k) BY <2>2, Sendable DEF CancelResolved
    <2>3. CASE CancelRejected(k) BY <2>3, Sendable, Together, StopBarred DEF CancelRejected
    <2> QED BY <2>1, <2>2, <2>3
  <1> QED BY <1>1, <1>2, <1>3, <1>4, <1>5, <1>6 DEF Lifecycle

\* Beginning a call of this turn tells the device.
LEMMA BeginBarred ==
  ASSUME NEW r, Begin(r), r.generation = generation, r.session = agent
  PROVE  Barred(sent')
  <1>1. FunctionCall(r).generation = generation /\ FunctionCall(r).agent = agent BY DEF FunctionCall
  <1>2. Barred({FunctionCall(r)}) BY <1>1 DEF Barred
  <1>3. \E ms \in {{}, {FunctionCall(r)}} :
          sent' = ToDevice({Owned("task.running", r.generation, r.session)} \cup ms)
    BY DEF Begin
  <1> QED BY <1>2, <1>3, Sendable, Together

\* Who is heard speaks for the Agent and the generation at hand.
LEMMA AgentBarred ==
  ASSUME IInv, AgentEvent
  PROVE  Barred(sent')
  <1>1. PICK a \in live :
          \/ AgentTranscript(a) \/ AgentPartialText(a) \/ AgentFinalText(a)
          \/ AgentAudio(a) \/ AgentAudioDone(a) \/ AgentTurnDone(a)
          \/ TurnLost(a) \/ AgentRecoverableError(a) \/ AgentFatalError(a)
          \/ \E c \in Calls, t \in Tools : AgentToolCall(a, c, t)
    BY DEF AgentEvent
  <1>0. CASE TurnLost(a) BY <1>0, Sendable DEF TurnLost
  <1>2. SUFFICES ASSUME Emits(a) /\ Hears(a) PROVE Barred(sent')
    BY <1>0, <1>1 DEF AgentTranscript, AgentPartialText, AgentFinalText, AgentAudio, AgentAudioDone,
                AgentTurnDone, AgentRecoverableError, AgentFatalError, AgentToolCall
  <1>3. a = agent /\ turnGeneration = generation /\ a \in Sessions BY <1>2, Heard
  <1>4. \A type : Barred({FromAgent(type, a)}) BY <1>3, Sendable DEF FromAgent
  <1>5. CASE AgentTranscript(a) \/ AgentPartialText(a) \/ AgentFinalText(a)
             \/ AgentAudioDone(a) \/ AgentTurnDone(a) \/ AgentRecoverableError(a)
    BY <1>4, <1>5, Sendable
    DEF AgentTranscript, AgentPartialText, AgentFinalText, AgentAudioDone, AgentTurnDone,
        AgentRecoverableError
  <1>6. CASE AgentAudio(a)
    <2> DEFINE start == {FromAgent("audio.started", a)}
               chunk == {FromAgent("audio.chunk", a)}
    <2>1. sent' = start \cup chunk \/ sent' = chunk BY <1>6 DEF AgentAudio
    <2>2. Barred(start) /\ Barred(chunk) BY <1>4
    <2> HIDE DEF start, chunk
    <2>3. Barred(start \cup chunk) BY <2>2, Together
    <2> QED BY <2>1, <2>2, <2>3
  <1>7. CASE AgentFatalError(a) BY <1>4, <1>7, StopBarred DEF AgentFatalError
  <1>8. CASE \E c \in Calls, t \in Tools : AgentToolCall(a, c, t)
    <2>1. PICK c \in Calls, t \in Tools : AgentToolCall(a, c, t) BY <1>8
    <2>2. PICK r : r = [call |-> c, session |-> a, generation |-> generation, tool |-> t,
                        host |-> registry[t], phase |-> "approved"]
      OBVIOUS
    <2>3. r.generation = generation /\ r.session = agent BY <1>3, <2>2
    <2>4. sent' = {} \/ sent' = {Owned("approval.request", r.generation, a)} \/ Begin(r)
      BY <2>1, <2>2 DEF AgentToolCall
    <2> QED BY <1>3, <2>3, <2>4, Sendable, BeginBarred
  <1> QED BY <1>0, <1>1, <1>5, <1>6, <1>7, <1>8

\* Speech that is still current is the Agent's in use.
LEMMA SpeakingBarred ==
  ASSUME IInv, Speaking
  PROVE  Barred(sent')
  <1>1. PICK s \in speeches :
          SpeechChunk(s) \/ SpeechAbandoned(s) \/ \E failed \in BOOLEAN : SpeechEnd(s, failed)
    BY DEF Speaking
  <1>2. CASE SpeechAbandoned(s) BY <1>2, Sendable DEF SpeechAbandoned
  <1>3. CASE SpeechChunk(s) \/ \E failed \in BOOLEAN : SpeechEnd(s, failed)
    <2>1. s.generation = generation BY <1>3 DEF SpeechChunk, SpeechEnd, Current
    <2>2. s.session = agent BY <2>1 DEF IInv, WorkIsOfAgent
    <2>3. \A type : Barred({Owned(type, s.generation, s.session)}) BY <2>1, <2>2, Sendable
    <2> DEFINE start == IF s.started THEN {} ELSE {Owned("audio.started", s.generation, s.session)}
               end == IF s.started THEN {Owned("audio.completed", s.generation, s.session)} ELSE {}
               error == {Note("agent.error")}
    <2>4. Barred(start) /\ Barred(end) /\ Barred(error) BY <2>3, Sendable
    <2>5. \/ sent' = {Owned("audio.chunk", s.generation, s.session)} \cup start
          \/ sent' = error \cup end
          \/ sent' = {} \cup end
      BY <1>3 DEF SpeechChunk, SpeechEnd
    <2> HIDE DEF start, end, error
    <2>6. Barred({Owned("audio.chunk", s.generation, s.session)}) /\ Barred({}) BY <2>3, Sendable
    <2> QED BY <2>4, <2>5, <2>6, Together
  <1> QED BY <1>1, <1>2, <1>3

\* Input reaches the Agent in use, and a late transcription nobody.
LEMMA ListeningBarred ==
  ASSUME IInv, Listening
  PROVE  Barred(sent')
  <1>1. CASE TextInput
    <2>1. sent' = {Note("transcript")} \cup {Owned("inputText", generation, agent)}
      BY <1>1 DEF TextInput, AskAgent
    <2> QED BY <2>1, Sendable, Together
  <1>2. CASE UtteranceEnds BY <1>2, Sendable DEF UtteranceEnds
  <1>3. ASSUME NEW t \in transcriptions, TranscriptionDone(t) PROVE Barred(sent')
    <2>1. t.generation = generation /\ t.session = agent
      BY <1>3 DEF TranscriptionDone, IInv, AgentIsLatest
    <2>2. sent' = {Owned("transcript", t.generation, t.session)}
                    \cup {Owned("inputText", generation, agent)}
      BY <1>3 DEF TranscriptionDone, AskAgent
    <2> QED BY <2>1, <2>2, Sendable, Together
  <1>4. ASSUME NEW t \in transcriptions, NEW failed \in BOOLEAN, TranscriptionDropped(t, failed)
        PROVE  Barred(sent')
    BY <1>4, Sendable, Together DEF TranscriptionDropped
  <1> QED BY <1>1, <1>2, <1>3, <1>4 DEF Listening

\* Tool calls report to their own turn, or as notes.
LEMMA ToolingBarred ==
  ASSUME IInv, Tooling
  PROVE  Barred(sent')
  <1>1. CASE \E advertised \in SUBSET DeviceTools : SessionUpdate(advertised)
    BY <1>1, Sendable DEF SessionUpdate
  <1>2. ASSUME NEW r \in runs,
               \/ ToolStep(r) \/ DeviceOutput(r)
               \/ \E d \in {"approve", "decline"} : ApprovalResponse(r, d)
        PROVE  Barred(sent')
    <2>1. CASE Deliver(r)
      <3>1. \E ms, ns :
              /\ sent' = ToDevice(ms) \cup ns /\ ms \in {{}, {Note("task.idle")}}
              /\ \/ ns = {}
                 \/ ns = {Owned("toolResult", r.generation, r.session)}
                    /\ r.generation = generation /\ r.session = agent
        BY <2>1 DEF Deliver, Current
      <3> QED BY <3>1, Sendable, Together
    <2>2. CASE ResumeApproved(r)
      <3>1. r.generation = generation => r.session = agent BY DEF IInv, WorkIsOfAgent
      <3> QED BY <2>2, <3>1, Sendable, BeginBarred DEF ResumeApproved, Aborted
    <2>3. CASE ApprovalTimeout(r) \/ GatewayToolReturns(r) \/ DeviceToolTimeout(r) \/ DeviceOutput(r)
               \/ \E d \in {"approve", "decline"} : ApprovalResponse(r, d)
      BY <2>3, Sendable, Together
      DEF ApprovalTimeout, GatewayToolReturns, DeviceToolTimeout, DeviceOutput, ApprovalResponse
    <2> QED BY <1>2, <2>1, <2>2, <2>3 DEF ToolStep
  <1> QED BY <1>1, <1>2 DEF Tooling

\* Nothing of an earlier generation, or of an Agent that is not in use, is sent.
THEOREM NothingCrosses == Spec => CancelBarrier
  <1> DEFINE Step == \A m \in sent' : "generation" \in DOMAIN m => m.generation = generation /\ m.agent = agent
  <1>1. IInv /\ [Next]_vars => [Step]_vars
    <2> SUFFICES ASSUME IInv, Next PROVE Step \/ UNCHANGED vars
      OBVIOUS
    <2>1. Barred(sent') \/ UNCHANGED vars
      BY LifecycleBarred, AgentBarred, SpeakingBarred, ListeningBarred, ToolingBarred DEF Next, Finished
    <2> QED BY <2>1 DEF Barred
  <1> HIDE DEF Step
  <1>2. Spec => [][Step]_vars BY <1>1, Invariant, PTL DEF Spec
  <1> QED BY <1>2 DEF CancelBarrier, Step
-----------------------------------------------------------------------------
(***************************************************************************)
(* Guarded tools.                                                          *)
(***************************************************************************)
\* A run that begins in this step was approved, and is of the turn at hand.
BegunApproved(r) ==
  r.phase \in {"gateway", "device"} /\ r.tool \in Guarded /\ r \notin runs =>
    [r EXCEPT !.phase = "approved"] \in runs /\ r.generation = generation /\ r.session = agent

\* A stop begins nothing.
LEMMA ReleaseBeginsNothing ==
  ASSUME \/ runs' = {ReleaseDeviceCalls(r) : r \in runs}
         \/ runs' = {IF r.phase = "approval" THEN [r EXCEPT !.phase = "refused"]
                     ELSE ReleaseDeviceCalls(r) : r \in runs},
         IInv
  PROVE  \A r \in runs' : BegunApproved(r)
  <1>1. ASSUME NEW r \in runs
        PROVE  /\ ReleaseDeviceCalls(r) \in runs \/ ReleaseDeviceCalls(r).phase = "settled"
               /\ [r EXCEPT !.phase = "refused"].phase = "refused"
    <2>1. r \in Runs BY DEF IInv, TypeOK
    <2>2. \A phase \in Phases : [r EXCEPT !.phase = phase].phase = phase BY <2>1 DEF Runs
    <2> QED BY <2>2 DEF ReleaseDeviceCalls, Phases
  <1>2. \A w \in runs' : w \in runs \/ w.phase \in {"settled", "refused"}
    <2>1. CASE runs' = {ReleaseDeviceCalls(r) : r \in runs} BY <1>1, <2>1
    <2>2. CASE runs' = {IF r.phase = "approval" THEN [r EXCEPT !.phase = "refused"]
                        ELSE ReleaseDeviceCalls(r) : r \in runs}
      BY <1>1, <2>2
    <2> QED BY <2>1, <2>2
  <1> QED BY <1>2 DEF BegunApproved

\* Beginning an approved run is what the operator allowed.
LEMMA BeginBeginsOne ==
  ASSUME NEW r \in Runs, Begin(r), r.phase = "approved",
         r.generation = generation, r.session = agent, r \in runs \/ r.tool \notin Guarded
  PROVE  \A w \in runs' : BegunApproved(w)
  <1>1. PICK phase \in Phases : runs' = (runs \ {r}) \cup {[r EXCEPT !.phase = phase]}
    BY DEF Begin, Phases
  <1>2. PICK q \in Runs : q = [r EXCEPT !.phase = phase] BY <1>1 DEF Runs
  <1>3. /\ q.tool = r.tool /\ q.generation = r.generation /\ q.session = r.session
        /\ [q EXCEPT !.phase = "approved"] = r
    BY <1>2 DEF Runs
  <1>4. BegunApproved(q) BY <1>3 DEF BegunApproved
  <1>5. \A w \in runs' : w \in runs \/ w = q BY <1>1, <1>2
  <1> QED BY <1>4, <1>5 DEF BegunApproved

\* No step begins a guarded run that was not approved.
LEMMA NextBegins ==
  ASSUME IInv, Next
  PROVE  \A w \in runs' : BegunApproved(w)
  <1>1. CASE UNCHANGED runs BY <1>1 DEF BegunApproved
  <1>2. CASE Lifecycle
    <2>1. \/ UNCHANGED runs
          \/ runs' = {ReleaseDeviceCalls(r) : r \in runs}
          \/ runs' = {IF r.phase = "approval" THEN [r EXCEPT !.phase = "refused"]
                      ELSE ReleaseDeviceCalls(r) : r \in runs}
      BY <1>2
      DEF Lifecycle, StartConversation, StopConversation, Interrupt, DiscardSession, AdoptSession,
          CreateSessionFailed, FinishStop, FinishDiscard, CancelResolved, CancelRejected, Close,
          tooling
    <2> QED BY <1>1, <2>1, ReleaseBeginsNothing
  <1>3. ASSUME NEW a \in live, NEW c \in Calls, NEW t \in Tools, AgentToolCall(a, c, t)
        PROVE  \A w \in runs' : BegunApproved(w)
    <2>1. Emits(a) /\ Hears(a) BY <1>3 DEF AgentToolCall
    <2>2. a = agent /\ a \in Sessions BY <2>1, Heard
    <2>3. registry \in [Tools -> Hosts] /\ generation \in Generations BY DEF IInv, TypeOK
    <2>4. PICK r \in Runs : r = [call |-> c, session |-> a, generation |-> generation, tool |-> t,
                                 host |-> registry[t], phase |-> "approved"]
      BY <2>2, <2>3 DEF Runs, Phases
    <2>5. CASE \E phase \in {"refused", "approval"} : runs' = runs \cup {[r EXCEPT !.phase = phase]}
      <3>1. PICK phase \in {"refused", "approval"} : runs' = runs \cup {[r EXCEPT !.phase = phase]}
        BY <2>5
      <3>2. [r EXCEPT !.phase = phase].phase = phase BY DEF Runs
      <3> QED BY <3>1, <3>2 DEF BegunApproved
    <2>6. CASE t \notin Guarded /\ Begin(r)
      <3>1. /\ r.generation = generation /\ r.session = agent /\ r.phase = "approved"
            /\ r.tool \notin Guarded
        BY <2>2, <2>4, <2>6
      <3> QED BY <2>6, <3>1, BeginBeginsOne
    <2> QED BY <1>3, <2>4, <2>5, <2>6 DEF AgentToolCall
  <1>4. CASE AgentEvent
    <2>1. PICK a \in live :
            \/ AgentTranscript(a) \/ AgentPartialText(a) \/ AgentFinalText(a)
            \/ AgentAudio(a) \/ AgentAudioDone(a) \/ AgentTurnDone(a)
            \/ TurnLost(a) \/ AgentRecoverableError(a) \/ AgentFatalError(a)
            \/ \E c \in Calls, t \in Tools : AgentToolCall(a, c, t)
      BY <1>4 DEF AgentEvent
    <2>2. CASE AgentFatalError(a) BY <2>2, ReleaseBeginsNothing DEF AgentFatalError
    <2>3. CASE \/ AgentTranscript(a) \/ AgentPartialText(a) \/ AgentFinalText(a)
               \/ AgentAudio(a) \/ AgentAudioDone(a) \/ AgentTurnDone(a)
               \/ TurnLost(a) \/ AgentRecoverableError(a)
      BY <1>1, <2>3
      DEF AgentTranscript, AgentPartialText, AgentFinalText, AgentAudio, AgentAudioDone,
          AgentTurnDone, TurnLost, AgentRecoverableError, tooling
    <2> QED BY <1>3, <2>1, <2>2, <2>3
  <1>5. CASE Speaking \/ Listening \/ Finished
    BY <1>1, <1>5
    DEF Speaking, Listening, Finished, SpeechChunk, SpeechAbandoned, SpeechEnd, TextInput,
        UtteranceEnds, TranscriptionDone, TranscriptionDropped, AskAgent, tooling, vars
  <1>6. ASSUME NEW r \in runs,
               \/ ToolStep(r) \/ DeviceOutput(r)
               \/ \E d \in {"approve", "decline"} : ApprovalResponse(r, d)
        PROVE  \A w \in runs' : BegunApproved(w)
    <2>1. r \in Runs /\ (r.generation = generation => r.session = agent)
      BY DEF IInv, TypeOK, WorkIsOfAgent
    <2>2. CASE \E phase \in {"approved", "refused", "settled"} :
                 runs' = (runs \ {r}) \cup {[r EXCEPT !.phase = phase]}
      <3>1. PICK phase \in {"approved", "refused", "settled"} :
              runs' = (runs \ {r}) \cup {[r EXCEPT !.phase = phase]}
        BY <2>2
      <3>2. [r EXCEPT !.phase = phase].phase = phase BY <2>1 DEF Runs
      <3> QED BY <3>1, <3>2 DEF BegunApproved
    <2>3. CASE Deliver(r) BY <2>3 DEF Deliver, BegunApproved
    <2>4. CASE ~Aborted(r) /\ r.phase = "approved" /\ Begin(r)
      BY <2>1, <2>4, BeginBeginsOne DEF Aborted
    <2> QED BY <1>6, <2>2, <2>3, <2>4
         DEF ToolStep, ApprovalTimeout, ResumeApproved, GatewayToolReturns, DeviceToolTimeout,
             DeviceOutput, ApprovalResponse, Moves
  <1>7. CASE Tooling BY <1>1, <1>6, <1>7 DEF Tooling, SessionUpdate
  <1> QED BY <1>2, <1>4, <1>5, <1>7 DEF Next

\* A guarded tool runs only approved, in the turn that asked for it.
THEOREM GuardedRunsApproved == Spec => ApprovedBeforeRunning
  <1> DEFINE Step == \A r \in runs' :
                       r.phase \in {"gateway", "device"} /\ r.tool \in Guarded /\ r \notin runs =>
                         /\ [r EXCEPT !.phase = "approved"] \in runs
                         /\ r.generation = generation /\ r.session = agent
  <1>1. IInv /\ [Next]_vars => [Step]_vars
    <2> SUFFICES ASSUME IInv, Next PROVE Step
      OBVIOUS
    <2> QED BY NextBegins DEF BegunApproved
  <1> HIDE DEF Step
  <1>2. Spec => [][Step]_vars BY <1>1, Invariant, PTL DEF Spec
  <1> QED BY <1>2 DEF ApprovedBeforeRunning, Step
-----------------------------------------------------------------------------
(***************************************************************************)
(* The life of an Agent session, but for its fairness.                     *)
(***************************************************************************)
\* Every step opens, retires or closes a session as AgentLifetime allows, or none.
LEMMA NextLives == IInv /\ [Next]_vars => [Lifetime!Next]_Lifetime!vars
  <1> SUFFICES ASSUME IInv, [Next]_vars PROVE Lifetime!Next \/ UNCHANGED <<live, agent>>
    BY DEF Lifetime!vars
  <1>1. ASSUME NEW st, NEW req, NEW notes, StopFrom(st, req, notes)
        PROVE  Lifetime!Next \/ UNCHANGED <<live, agent>>
    BY <1>1 DEF StopFrom, Lifetime!Next, Lifetime!Retire
  <1>2. ASSUME NEW c \in creating, DiscardSession(c) \/ AdoptSession(c) \/ CreateSessionFailed(c)
        PROVE  Lifetime!Next \/ UNCHANGED <<live, agent>>
    <2>1. c.session \in Sessions /\ c.session \notin live /\ c.session # agent
      BY DEF IInv, TypeOK, Creations, CreationsAreFresh
    <2>2. CASE DiscardSession(c)
      BY <2>1, <2>2 DEF DiscardSession, lifecycle, Lifetime!Next, Lifetime!OpenStray
    <2>3. CASE AdoptSession(c)
      <3>1. agent = 0 BY <2>1, <2>3 DEF AdoptSession, Superseded, IInv, AgentIsLatest
      <3> QED BY <2>1, <2>3, <3>1 DEF AdoptSession, Lifetime!Next, Lifetime!OpenForUse
    <2>4. CASE CreateSessionFailed(c) BY <2>4 DEF CreateSessionFailed, backend
    <2> QED BY <1>2, <2>2, <2>3, <2>4
  <1>3. ASSUME NEW k \in closing, FinishStop(k) \/ FinishDiscard(k)
        PROVE  Lifetime!Next \/ UNCHANGED <<live, agent>>
    <2>1. live' = live \ {k.agent} /\ agent' = agent BY <1>3 DEF FinishStop, FinishDiscard, lifecycle
    <2>2. k.agent # agent /\ k.agent \in Sessions
      BY DEF IInv, TypeOK, Closures, RetiredStayRetired
    <2>3. CASE k.agent \in live BY <2>1, <2>2, <2>3 DEF Lifetime!Next, Lifetime!Close
    <2>4. CASE k.agent \notin live BY <2>1, <2>4
    <2> QED BY <2>3, <2>4
  <1>4. CASE Lifecycle
    <2>1. CASE \E req \in Requests : StartConversation(req)
      BY <2>1 DEF StartConversation, lifecycle, backend
    <2>2. CASE \E req \in Requests : StopConversation(req) BY <1>1, <2>2 DEF StopConversation
    <2>3. CASE Interrupt BY <2>3 DEF Interrupt, backend
    <2>4. CASE \E k \in cancel : CancelResolved(k) BY <2>4 DEF CancelResolved
    <2>5. CASE \E k \in cancel : CancelRejected(k) BY <1>1, <2>5 DEF CancelRejected
    <2>6. CASE Close BY <1>1, <2>6 DEF Close
    <2> QED BY <1>2, <1>3, <1>4, <2>1, <2>2, <2>3, <2>4, <2>5, <2>6 DEF Lifecycle
  <1>5. CASE AgentEvent
    <2>1. PICK a \in live :
            \/ AgentTranscript(a) \/ AgentPartialText(a) \/ AgentFinalText(a)
            \/ AgentAudio(a) \/ AgentAudioDone(a) \/ AgentTurnDone(a)
            \/ TurnLost(a) \/ AgentRecoverableError(a) \/ AgentFatalError(a)
            \/ \E c \in Calls, t \in Tools : AgentToolCall(a, c, t)
      BY <1>5 DEF AgentEvent
    <2>2. CASE AgentFatalError(a) BY <1>1, <2>2 DEF AgentFatalError
    <2> QED BY <2>1, <2>2
         DEF AgentTranscript, AgentPartialText, AgentFinalText, AgentAudio, AgentAudioDone,
             AgentTurnDone, TurnLost, AgentRecoverableError, AgentToolCall, lifecycle, backend
  <1>6. CASE Speaking \/ Listening \/ Finished \/ UNCHANGED vars
    BY <1>6
    DEF Speaking, Listening, Finished, SpeechChunk, SpeechAbandoned, SpeechEnd, TextInput,
        UtteranceEnds, TranscriptionDone, TranscriptionDropped, AskAgent, lifecycle, backend, vars
  <1>7. CASE Tooling
    BY <1>7
    DEF Tooling, ToolStep, ApprovalTimeout, ResumeApproved, GatewayToolReturns, DeviceToolTimeout,
        Deliver, DeviceOutput, ApprovalResponse, Moves, SessionUpdate, lifecycle, backend
  <1> QED BY <1>4, <1>5, <1>6, <1>7 DEF Next

\* The conversation opens, uses and closes Agent sessions as agent-backend.ts asks;
\* that it closes all of them in the end is left to the runs.
THEOREM LifetimeIsKept == Spec => Lifetime!Init /\ [][Lifetime!Next]_Lifetime!vars
  <1>1. Init => Lifetime!Init BY DEF Init, Lifetime!Init
  <1>2. IInv /\ [Next]_vars => [Lifetime!Next]_Lifetime!vars BY NextLives
  <1> QED BY <1>1, <1>2, Invariant, PTL DEF Spec
=============================================================================
