------------------------ MODULE DeviceSessionsProofs ------------------------
(***************************************************************************)
(* Proofs about DeviceSessions: a device never has two open sessions, and  *)
(* closing the manager leaves none, for any number of sockets, devices,    *)
(* commands and frames.                                                    *)
(***************************************************************************)
EXTENDS DeviceSessions, FiniteSetTheorems, TLAPS

\* An open session that has shaken hands is the one registered for its device:
\* a frame of another session takes the entry only together with its release.
ServingIsRegistered ==
  \A s \in Sockets : Serving(s) => /\ deviceId[s] \in Devices
                                   /\ byDevice[deviceId[s]] = s

\* The map only ever names a session under the device id it shook hands with.
RegisteredUnderOwnId ==
  \A d \in Devices : byDevice[d] # None => deviceId[byDevice[d]] = d

\* Before the handshake there is no id, and before the connection no handshake.
IdsFromHello ==
  \A s \in Sockets : /\ ~ready[s] => deviceId[s] = None
                     /\ socket[s] = "unused" => ~ready[s] /\ ~released[s]

\* What a closing manager must release is in its set, and nothing else.
OpenIsLive ==
  \A s \in Sockets : s \in live <=> socket[s] # "unused" /\ ~released[s]

\* The inductive invariant.
IInv ==
  /\ TypeOK
  /\ ServingIsRegistered
  /\ RegisteredUnderOwnId
  /\ IdsFromHello
  /\ OpenIsLive
  /\ NothingOutlivesManager

USE ConstantsAssumption

\* The program starts with no session at all.
LEMMA InitIInv == Init => IInv
  BY DEF Init, IInv, TypeOK, ServingIsRegistered, RegisteredUnderOwnId, IdsFromHello,
         OpenIsLive, NothingOutlivesManager, Serving

\* What handleFrame's continuation does to the registry: s is registered, the
\* session that was there is released, all others keep their place.
LEMMA RegisterEffect ==
  ASSUME IInv, NEW s \in Sockets, NEW d \in Devices, Register(s, d)
  PROVE  /\ byDevice' = [byDevice EXCEPT ![d] = s]
         /\ released' = [t \in Sockets |-> released[t] \/ (t = byDevice[d] /\ t # s)]
         /\ live' = {t \in live : ~released'[t]}
         /\ command' \in [Commands -> Sockets \cup {"idle", "settled"}]
  <1> DEFINE S == {byDevice[d]} \ {None, s}
             base == [byDevice EXCEPT ![d] = s]
  <1>1. d # None OBVIOUS
  <1>2. Release(S, base) BY <1>1 DEF Register
  <1>3. released' = [t \in Sockets |-> released[t] \/ (t = byDevice[d] /\ t # s)]
    BY <1>2 DEF Release
  <1>4. live' = {t \in live : ~released'[t]}
    BY <1>2, <1>3 DEF Release, IInv, TypeOK, OpenIsLive
  <1>5. command' \in [Commands -> Sockets \cup {"idle", "settled"}]
    BY <1>2 DEF Release, CommandsReleased, IInv, TypeOK
  <1>6. ASSUME NEW e \in Devices PROVE byDevice'[e] = base[e]
    BY <1>2 DEF Release, IInv, TypeOK, RegisteredUnderOwnId
  <1>7. byDevice' = base
    BY <1>2, <1>6 DEF Release, IInv, TypeOK
  <1> QED BY <1>3, <1>4, <1>5, <1>7

\* The same when the session has not shaken hands: nothing happens.
LEMMA RegisterNobody ==
  ASSUME IInv, NEW s \in Sockets, Register(s, None)
  PROVE  UNCHANGED <<released, live, byDevice, command>>
  BY DEF Register

\* A session that shakes hands, or sends a frame after it did, keeps the invariant:
\* it takes the entry of its device, whose previous session ends.
LEMMA RegisterKeeps ==
  ASSUME IInv, NEW s \in Sockets, NEW d \in Devices, Register(s, d),
         socket[s] # "unused", deviceId[s] \in {None, d},
         deviceId' = [deviceId EXCEPT ![s] = d], ready' = [ready EXCEPT ![s] = TRUE],
         slow' \in [Sockets -> Nat], UNCHANGED <<socket, manager>>
  PROVE  IInv'
  <1> USE DEF IInv, TypeOK
  <1>1. /\ byDevice' = [byDevice EXCEPT ![d] = s]
        /\ released' = [t \in Sockets |-> released[t] \/ (t = byDevice[d] /\ t # s)]
        /\ live' = {t \in live : ~released'[t]}
        /\ command' \in [Commands -> Sockets \cup {"idle", "settled"}]
    BY RegisterEffect
  <1>2. TypeOK'
    BY <1>1
  <1>3. ServingIsRegistered'
    BY <1>1 DEF ServingIsRegistered, Serving
  <1>4. RegisteredUnderOwnId'
    <2> SUFFICES ASSUME NEW e \in Devices, byDevice'[e] # None
                 PROVE  deviceId'[byDevice'[e]] = e
      BY DEF RegisteredUnderOwnId
    <2>1. CASE e = d BY <1>1, <2>1
    <2>2. CASE e # d
      <3>1. byDevice'[e] = byDevice[e] BY <1>1, <2>2
      <3>2. byDevice[e] \in Sockets /\ deviceId[byDevice[e]] = e
        BY <3>1 DEF RegisteredUnderOwnId
      <3>3. byDevice[e] # s BY <3>2, <2>2
      <3> QED BY <3>1, <3>2, <3>3
    <2> QED BY <2>1, <2>2
  <1>5. IdsFromHello'
    <2>1. byDevice[d] # None => /\ deviceId[byDevice[d]] = d
                                /\ socket[byDevice[d]] # "unused"
      BY DEF RegisteredUnderOwnId, IdsFromHello
    <2> QED BY <1>1, <2>1 DEF IdsFromHello
  <1>6. OpenIsLive' /\ NothingOutlivesManager'
    BY <1>1 DEF OpenIsLive, NothingOutlivesManager
  <1> QED BY <1>2, <1>3, <1>4, <1>5, <1>6

\* Sessions that are released for a lost socket or a closing manager leave the
\* others registered.
LEMMA ReleaseKeeps ==
  ASSUME IInv, NEW S \in SUBSET Sockets, Release(S, byDevice),
         UNCHANGED <<deviceId, ready, slow>>,
         \A s \in Sockets : socket'[s] = "unused" <=> socket[s] = "unused",
         socket' \in [Sockets -> {"unused", "open", "closing", "closed"}],
         \A s \in S : socket[s] # "unused",
         manager' \in {"open", "closing", "closed"},
         manager' # "open" => manager # "open" \/ S = live
  PROVE  IInv'
  <1> USE DEF IInv, TypeOK
  <1> DEFINE new == {s \in S : ~released[s]}
  <1>1. /\ released' = [s \in Sockets |-> released[s] \/ s \in S]
        /\ live' = live \ new
        /\ byDevice' = [d \in Devices |-> IF byDevice[d] \in new THEN None ELSE byDevice[d]]
    BY DEF Release
  <1>2. command' \in [Commands -> Sockets \cup {"idle", "settled"}]
    BY DEF Release, CommandsReleased
  <1>3. TypeOK'
    BY <1>1, <1>2
  <1>4. ServingIsRegistered'
    BY <1>1 DEF ServingIsRegistered, Serving
  <1>5. RegisteredUnderOwnId' /\ IdsFromHello'
    BY <1>1 DEF RegisteredUnderOwnId, IdsFromHello
  <1>6. OpenIsLive'
    BY <1>1 DEF OpenIsLive
  <1>7. NothingOutlivesManager'
    BY <1>1 DEF OpenIsLive, NothingOutlivesManager
  <1> QED BY <1>3, <1>4, <1>5, <1>6, <1>7

\* Every step keeps the invariant.
LEMMA NextKeeps == IInv /\ [Next]_vars => IInv'
  <1> SUFFICES ASSUME IInv, [Next]_vars PROVE IInv'
    OBVIOUS
  <1> USE DEF IInv, TypeOK, Connected, sessions, registry
  <1>1. ASSUME NEW s \in Sockets, Connect(s) PROVE IInv'
    BY <1>1 DEF Connect, ServingIsRegistered, RegisteredUnderOwnId, IdsFromHello,
                OpenIsLive, NothingOutlivesManager, Serving
  <1>2. ASSUME NEW s \in Sockets, NEW d \in Devices, Hello(s, d) PROVE IInv'
    <2>1. deviceId[s] = None BY <1>2 DEF Hello, IdsFromHello
    <2> QED BY <1>2, <2>1, RegisterKeeps DEF Hello
  <1>3. ASSUME NEW s \in Sockets, HelloRefused(s) PROVE IInv'
    BY <1>3 DEF HelloRefused, ServingIsRegistered, RegisteredUnderOwnId, IdsFromHello,
                OpenIsLive, NothingOutlivesManager, Serving
  <1>4. ASSUME NEW s \in Sockets, Register(s, deviceId[s]),
               UNCHANGED <<socket, deviceId, ready, manager>>, slow' \in [Sockets -> Nat]
        PROVE  IInv'
    <2>1. CASE deviceId[s] = None
      <3>1. UNCHANGED <<released, live, byDevice, command>> BY <1>4, <2>1, RegisterNobody
      <3> QED BY <1>4, <3>1 DEF ServingIsRegistered, RegisteredUnderOwnId, IdsFromHello,
                                OpenIsLive, NothingOutlivesManager, Serving
    <2>2. CASE deviceId[s] \in Devices
      <3>1. ready[s] /\ socket[s] # "unused" BY <2>2 DEF IdsFromHello
      <3>2. PICK d \in Devices : d = deviceId[s] BY <2>2
      <3>3. /\ deviceId' = [deviceId EXCEPT ![s] = d]
            /\ ready' = [ready EXCEPT ![s] = TRUE]
        BY <1>4, <3>1, <3>2
      <3>4. Register(s, d) BY <1>4, <3>2
      <3> HIDE DEF IInv, TypeOK
      <3> QED BY <1>4, <3>1, <3>2, <3>3, <3>4, RegisterKeeps
    <2> QED BY <2>1, <2>2
  <1>5. ASSUME NEW s \in Sockets, QuickFrame(s) PROVE IInv'
    BY <1>5, <1>4 DEF QuickFrame
  <1>6. ASSUME NEW s \in Sockets, SlowFrame(s) PROVE IInv'
    BY <1>6 DEF SlowFrame, ServingIsRegistered, RegisteredUnderOwnId, IdsFromHello,
                OpenIsLive, NothingOutlivesManager, Serving
  <1>7. ASSUME NEW s \in Sockets, NEW failed \in BOOLEAN, SlowFrameDone(s, failed)
        PROVE  IInv'
    <2>1. slow' \in [Sockets -> Nat] BY <1>7 DEF SlowFrameDone
    <2>2. CASE failed
      BY <1>7, <2>1, <2>2 DEF SlowFrameDone, ServingIsRegistered, RegisteredUnderOwnId,
         IdsFromHello, OpenIsLive, NothingOutlivesManager, Serving
    <2>3. CASE ~failed
      BY <1>7, <1>4, <2>1, <2>3 DEF SlowFrameDone
    <2> QED BY <2>2, <2>3
  <1>8. ASSUME NEW s \in Sockets, SocketClosed(s) PROVE IInv'
    BY <1>8, ReleaseKeeps DEF SocketClosed
  <1>9. CASE CloseManager
    <2>1. live \in SUBSET Sockets /\ \A s \in live : socket[s] # "unused"
      BY DEF OpenIsLive
    <2>2. /\ Release(live, byDevice)
          /\ UNCHANGED <<socket, deviceId, ready, slow>>
          /\ manager' = "closing"
      BY <1>9 DEF CloseManager
    <2> QED BY <2>1, <2>2, ReleaseKeeps
  <1>10. CASE ManagerClosed
    BY <1>10 DEF ManagerClosed, ServingIsRegistered, RegisteredUnderOwnId, IdsFromHello,
                 OpenIsLive, NothingOutlivesManager, Serving
  <1>11. ASSUME UNCHANGED <<sessions, registry>>,
                command' \in [Commands -> Sockets \cup {"idle", "settled"}]
         PROVE  IInv'
    BY <1>11 DEF ServingIsRegistered, RegisteredUnderOwnId, IdsFromHello,
                 OpenIsLive, NothingOutlivesManager, Serving
  <1>12. ASSUME NEW c \in Commands,
                CommandResult(c) \/ CommandTimeout(c) \/ \E d \in Devices : RequestCommand(c, d)
         PROVE  IInv'
    BY <1>12, <1>11 DEF CommandResult, CommandTimeout, RequestCommand
  <1>13. CASE UNCHANGED vars
    BY <1>13, <1>11 DEF vars
  <1> QED BY <1>1, <1>2, <1>3, <1>5, <1>6, <1>7, <1>8, <1>9, <1>10, <1>12, <1>13 DEF Next

\* The invariant holds in every state.
THEOREM Invariance == Spec => []IInv
  BY InitIInv, NextKeeps, PTL DEF Spec

\* Every variable keeps its type.
THEOREM TypeCorrect == Spec => []TypeOK
  BY Invariance, PTL DEF IInv

\* However hellos, late frames, evictions and lost sockets interleave, a device
\* never has two open sessions: whatever the number of its connections.
THEOREM OneSession == Spec => []OneSessionPerDevice
  <1>1. IInv => OneSessionPerDevice
    BY DEF IInv, ServingIsRegistered, OneSessionPerDevice
  <1> QED BY <1>1, Invariance, PTL

\* After close() every session that ever connected is released.
THEOREM ManagerLeavesNone == Spec => []NothingOutlivesManager
  BY Invariance, PTL DEF IInv
-----------------------------------------------------------------------------
\* Fewer commands wait, each in a session that is still open.
LEMMA FewerWait ==
  ASSUME CommandsWaitInOpenSessions,
         \A c \in Commands : command'[c] = command[c] \/ command'[c] = "settled",
         \A c \in Commands, s \in Sockets : command'[c] = s => Serving(s)'
  PROVE  CommandsWaitInOpenSessions'
  <1> SUFFICES ASSUME NEW s \in Sockets
               PROVE  /\ Pending(s)' # {} => Serving(s)'
                      /\ Cardinality(Pending(s)') <= CommandLimit
    BY DEF CommandsWaitInOpenSessions
  <1>1. Pending(s)' \subseteq Pending(s) /\ Pending(s) \subseteq Commands
    BY DEF Pending
  <1>2. /\ IsFiniteSet(Pending(s)) /\ IsFiniteSet(Pending(s)')
        /\ Cardinality(Pending(s)') <= Cardinality(Pending(s))
    BY <1>1, FS_Subset
  <1>3. Cardinality(Pending(s)') \in Nat /\ Cardinality(Pending(s)) \in Nat
    BY <1>2, FS_CardinalityType
  <1>4. Cardinality(Pending(s)) <= CommandLimit
    BY DEF CommandsWaitInOpenSessions
  <1>5. Cardinality(Pending(s)') <= CommandLimit BY <1>2, <1>3, <1>4
  <1>6. Pending(s)' # {} => Serving(s)' BY DEF Pending
  <1> QED BY <1>5, <1>6

\* Releasing sessions answers what waits in them.
LEMMA ReleaseAnswers ==
  ASSUME TypeOK, CommandsWaitInOpenSessions, NEW S \in SUBSET Sockets, NEW base,
         Release(S, base), \A s \in Sockets : ready[s] => ready'[s]
  PROVE  CommandsWaitInOpenSessions'
  <1>1. ASSUME NEW c \in Commands PROVE command'[c] = command[c] \/ command'[c] = "settled"
    BY DEF Release, CommandsReleased
  <1>2. ASSUME NEW c \in Commands, NEW s \in Sockets, command'[c] = s PROVE Serving(s)'
    <2>1. command[c] = s /\ ~(s \in S /\ ~released[s])
      BY <1>2 DEF Release, CommandsReleased
    <2>2. ready[s] /\ ~released[s]
      BY <2>1 DEF CommandsWaitInOpenSessions, Pending, Serving
    <2> QED BY <2>1, <2>2 DEF Release, Serving
  <1> QED BY <1>1, <1>2, FewerWait

\* The same for the session a frame supersedes.
LEMMA RegisterAnswers ==
  ASSUME TypeOK, CommandsWaitInOpenSessions, NEW s \in Sockets,
         NEW d \in Devices \cup {None}, Register(s, d),
         \A t \in Sockets : ready[t] => ready'[t]
  PROVE  CommandsWaitInOpenSessions'
  <1>1. CASE d = None
    <2>1. UNCHANGED <<released, command>> BY <1>1 DEF Register
    <2> QED BY <2>1, FewerWait DEF Serving, CommandsWaitInOpenSessions, Pending
  <1>2. CASE d # None
    <2>1. {byDevice[d]} \ {None, s} \in SUBSET Sockets BY <1>2 DEF TypeOK
    <2> QED BY <1>2, <2>1, ReleaseAnswers DEF Register
  <1> QED BY <1>1, <1>2

\* Every step keeps commands in open sessions, within the limit.
LEMMA NextKeepsWaiting ==
  ASSUME TypeOK, CommandsWaitInOpenSessions, [Next]_vars
  PROVE  CommandsWaitInOpenSessions'
  <1> USE DEF TypeOK
  <1>1. ASSUME UNCHANGED <<released, command>>, \A t \in Sockets : ready[t] => ready'[t]
        PROVE  CommandsWaitInOpenSessions'
    BY <1>1 DEF CommandsWaitInOpenSessions, Pending, Serving
  <1>2. ASSUME NEW s \in Sockets,
               Connect(s) \/ HelloRefused(s) \/ SlowFrame(s)
        PROVE  CommandsWaitInOpenSessions'
    BY <1>2, <1>1 DEF Connect, HelloRefused, SlowFrame, registry
  <1>3. ASSUME NEW s \in Sockets, NEW d \in Devices, Hello(s, d)
        PROVE  CommandsWaitInOpenSessions'
    BY <1>3, RegisterAnswers DEF Hello
  <1>4. ASSUME NEW s \in Sockets, QuickFrame(s) PROVE CommandsWaitInOpenSessions'
    BY <1>4, RegisterAnswers DEF QuickFrame
  <1>5. ASSUME NEW s \in Sockets, NEW failed \in BOOLEAN, SlowFrameDone(s, failed)
        PROVE  CommandsWaitInOpenSessions'
    BY <1>5, <1>1, RegisterAnswers DEF SlowFrameDone
  <1>6. ASSUME NEW s \in Sockets, SocketClosed(s) PROVE CommandsWaitInOpenSessions'
    BY <1>6, ReleaseAnswers DEF SocketClosed
  <1>7. CASE CloseManager
    BY <1>7, ReleaseAnswers DEF CloseManager
  <1>8. CASE ManagerClosed \/ UNCHANGED vars
    BY <1>8, <1>1 DEF ManagerClosed, sessions, registry, vars
  <1>9. ASSUME NEW c \in Commands, CommandResult(c) \/ CommandTimeout(c)
        PROVE  CommandsWaitInOpenSessions'
    <2>1. UNCHANGED <<ready, released>>
      BY <1>9 DEF CommandResult, CommandTimeout, sessions, registry
    <2>2. command' = [command EXCEPT ![c] = "settled"]
      BY <1>9 DEF CommandResult, CommandTimeout
    <2> QED BY <2>1, <2>2, FewerWait DEF CommandsWaitInOpenSessions, Pending, Serving
  <1>10. ASSUME NEW c \in Commands, NEW d \in Devices, RequestCommand(c, d)
         PROVE  CommandsWaitInOpenSessions'
    <2>1. PICK s \in Sockets : s = byDevice[d]
      BY <1>10 DEF RequestCommand
    <2>0. UNCHANGED <<ready, released>> /\ command[c] = "idle"
      BY <1>10 DEF RequestCommand, sessions, registry
    <2>2. CASE command' = [command EXCEPT ![c] = "settled"]
      <3>1. ASSUME NEW a \in Commands, NEW t \in Sockets, command'[a] = t PROVE Serving(t)'
        <4>1. command[a] = t BY <2>2, <3>1
        <4> QED BY <2>0, <4>1 DEF CommandsWaitInOpenSessions, Pending, Serving
      <3>2. ASSUME NEW a \in Commands PROVE command'[a] = command[a] \/ command'[a] = "settled"
        BY <2>2
      <3> QED BY <3>1, <3>2, FewerWait
    <2>3. CASE /\ Serving(s) /\ Cardinality(Pending(s)) < CommandLimit
               /\ command' = [command EXCEPT ![c] = s]
      <3>1. ASSUME NEW t \in Sockets, t # s PROVE Pending(t)' = Pending(t)
        BY <2>0, <2>3, <3>1 DEF Pending
      <3>2. Pending(s)' = Pending(s) \cup {c} /\ c \notin Pending(s)
        BY <2>0, <2>3 DEF Pending
      <3>3. IsFiniteSet(Pending(s))
        BY FS_Subset DEF Pending
      <3>4. Cardinality(Pending(s)') = Cardinality(Pending(s)) + 1
        BY <3>2, <3>3, FS_AddElement
      <3>5. Cardinality(Pending(s)) \in Nat BY <3>3, FS_CardinalityType
      <3>6. Cardinality(Pending(s)') <= CommandLimit BY <2>3, <3>4, <3>5
      <3>7. ASSUME NEW t \in Sockets PROVE Serving(t)' = Serving(t)
        BY <2>0 DEF Serving
      <3>8. ASSUME NEW t \in Sockets
            PROVE  /\ Pending(t)' # {} => Serving(t)
                   /\ Cardinality(Pending(t)') <= CommandLimit
        BY <2>3, <3>1, <3>6 DEF CommandsWaitInOpenSessions
      <3> QED BY <3>7, <3>8 DEF CommandsWaitInOpenSessions
    <2> QED BY <1>10, <2>1, <2>2, <2>3 DEF RequestCommand, Serving
  <1> QED BY <1>2, <1>3, <1>4, <1>5, <1>6, <1>7, <1>8, <1>9, <1>10 DEF Next

\* A command only ever waits in a session that can answer it, never more than
\* the limit in one, whatever closes, is evicted or is asked in between.
THEOREM CommandsWait == Spec => []CommandsWaitInOpenSessions
  <1>1. Init => CommandsWaitInOpenSessions
    <2> SUFFICES ASSUME Init, NEW s \in Sockets PROVE Pending(s) = {}
      BY FS_EmptySet DEF CommandsWaitInOpenSessions
    <2> QED BY DEF Init, Pending
  <1>2. TypeOK /\ CommandsWaitInOpenSessions /\ [Next]_vars => CommandsWaitInOpenSessions'
    BY NextKeepsWaiting
  <1> QED BY <1>1, <1>2, TypeCorrect, PTL DEF Spec
=============================================================================
