--------------------------- MODULE DeviceSessions ---------------------------
(***************************************************************************)
(* The Gateway's registry of device sessions                               *)
(* (gateway/src/server/session-manager.ts) over the sockets of             *)
(* gateway-server.ts, with the part of a device session                    *)
(* (server/device-session.ts) the registry and the desktop app rely on:    *)
(* the handshake, the closed flag and the commands awaiting a result.      *)
(*                                                                         *)
(* A frame whose handling awaits the Agent or the recognizer is "slow": the *)
(* continuation of the manager's handleFrame runs whenever that await      *)
(* settles, in any order with other frames, closes and connections.  Every *)
(* other frame runs to its end at once.                                    *)
(***************************************************************************)
EXTENDS Integers, FiniteSets

CONSTANTS
  Sockets,       \* connections ever accepted; each has its managed session
  Devices,       \* device ids
  Commands,      \* commands the desktop app asks for
  None,          \* no device, no session
  CommandLimit,  \* commands a session keeps pending at most (4 in the code)
  MaxSlow        \* bound: slow frames of one session awaited at once

ASSUME ConstantsAssumption ==
  /\ None \notin Sockets /\ None \notin Devices
  /\ Sockets \cap {"idle", "settled"} = {} /\ IsFiniteSet(Commands)
  /\ CommandLimit \in Nat /\ MaxSlow \in Nat

VARIABLES
  socket,    \* unused, open, closing (close frame sent), closed
  deviceId,  \* the id the handshake recorded; it outlives the session
  ready,     \* the handshake completed
  released,  \* release() ran: the session is closed
  slow,      \* frames whose handling is awaited
  live,      \* the manager's set of sessions
  byDevice,  \* the manager's map from device id to session
  manager,   \* open, closing (awaiting the sessions), closed
  command    \* per command: idle, settled, or the session it is pending in

sessions == <<socket, deviceId, ready, released, slow>>
registry == <<live, byDevice, manager>>
vars     == <<sessions, registry, command>>

Init ==
  /\ socket = [s \in Sockets |-> "unused"] /\ deviceId = [s \in Sockets |-> None]
  /\ ready = [s \in Sockets |-> FALSE] /\ released = [s \in Sockets |-> FALSE]
  /\ slow = [s \in Sockets |-> 0]
  /\ live = {} /\ byDevice = [d \in Devices |-> None] /\ manager = "open"
  /\ command = [c \in Commands |-> "idle"]

Connected(s) == socket[s] \in {"open", "closing"}
Pending(s)   == {c \in Commands : command[c] = s}
-----------------------------------------------------------------------------
CommandsForgotten(S) == command   \* mutant: they are left to their timers

\* Closing a session rejects its pending commands.
CommandsReleased(S) == [c \in Commands |-> IF command[c] \in S THEN "settled" ELSE command[c]]

\* release() of the sessions S: evict, then close.  Those released before are
\* left alone.  base is the map before.
Release(S, base) ==
  LET new == {s \in S : ~released[s]} IN
  /\ released' = [s \in Sockets |-> released[s] \/ s \in S]
  /\ live' = live \ new
  /\ byDevice' = [d \in Devices |-> IF base[d] \in new THEN None ELSE base[d]]
  /\ command' = CommandsReleased(new)

RegisterBeside(s, d) ==   \* mutant: the previous session is not released
  /\ byDevice' = IF d = None THEN byDevice ELSE [byDevice EXCEPT ![d] = s]
  /\ UNCHANGED <<released, live, command>>

\* What managed.handleFrame does once session.handleFrame has settled: s becomes
\* the session of its device d, the previous one is released.
Register(s, d) ==
  IF d = None THEN UNCHANGED <<released, live, byDevice, command>>
  ELSE Release({byDevice[d]} \ {None, s}, [byDevice EXCEPT ![d] = s])
-----------------------------------------------------------------------------
ConnectAlways(s) ==   \* mutant: accept() does not refuse
  /\ socket[s] = "unused"
  /\ socket' = [socket EXCEPT ![s] = "open"]
  /\ live' = live \cup {s}
  /\ UNCHANGED <<deviceId, ready, released, slow, byDevice, manager, command>>

Connect(s) ==
  /\ manager = "open" /\ socket[s] = "unused"
  /\ socket' = [socket EXCEPT ![s] = "open"]
  /\ live' = live \cup {s}
  /\ UNCHANGED <<deviceId, ready, released, slow, byDevice, manager, command>>

\* session.hello: version, token and audio format agree.
Hello(s, d) ==
  /\ Connected(s) /\ ~released[s] /\ ~ready[s]
  /\ deviceId' = [deviceId EXCEPT ![s] = d]
  /\ ready' = [ready EXCEPT ![s] = TRUE]
  /\ Register(s, d)
  /\ UNCHANGED <<socket, slow, manager>>

\* session.hello refused: the socket is asked to close.
HelloRefused(s) ==
  /\ Connected(s) /\ ~released[s] /\ ~ready[s]
  /\ socket' = [socket EXCEPT ![s] = "closing"]
  /\ UNCHANGED <<deviceId, ready, released, slow, registry, command>>

\* Any frame that is done with at once, dropped ones included.
QuickFrame(s) ==
  /\ Connected(s)
  /\ Register(s, deviceId[s])
  /\ UNCHANGED <<socket, deviceId, ready, slow, manager>>

SlowFrame(s) ==
  /\ Connected(s) /\ ready[s] /\ ~released[s] /\ slow[s] < MaxSlow
  /\ slow' = [slow EXCEPT ![s] = @ + 1]
  /\ UNCHANGED <<socket, deviceId, ready, released, registry, command>>

\* A frame whose handling failed is only logged.
SlowFrameDone(s, failed) ==
  /\ slow[s] > 0
  /\ slow' = [slow EXCEPT ![s] = @ - 1]
  /\ IF failed THEN UNCHANGED <<released, live, byDevice, command>> ELSE Register(s, deviceId[s])
  /\ UNCHANGED <<socket, deviceId, ready, manager>>

SocketClosed(s) ==
  /\ Connected(s)
  /\ socket' = [socket EXCEPT ![s] = "closed"]
  /\ Release({s}, byDevice)
  /\ UNCHANGED <<deviceId, ready, slow, manager>>

\* close() of the manager, up to the await of the sessions, and after it.
CloseManager ==
  /\ manager = "open"
  /\ manager' = "closing"
  /\ Release(live, byDevice)
  /\ UNCHANGED <<socket, deviceId, ready, slow>>

ManagerClosed ==
  /\ manager = "closing"
  /\ manager' = "closed"
  /\ live' = {} /\ byDevice' = [d \in Devices |-> None]
  /\ UNCHANGED <<sessions, command>>
-----------------------------------------------------------------------------
\* The desktop app's command to the session the manager knows for d.  A session
\* that is closed, unready or busy refuses it at once, and so does one whose
\* firmware has no control: what the hello said of it is not kept.
RequestCommand(c, d) ==
  /\ command[c] = "idle" /\ byDevice[d] # None
  /\ LET s == byDevice[d] IN
       \/ /\ ready[s] /\ ~released[s] /\ Cardinality(Pending(s)) < CommandLimit
          /\ command' = [command EXCEPT ![c] = s]
       \/ command' = [command EXCEPT ![c] = "settled"]
  /\ UNCHANGED <<sessions, registry>>

\* conversation.command.result for a pending command.  Its session is open, hence
\* registered, and the manager has nothing to do after it.
CommandResult(c) ==
  /\ command[c] \in Sockets
  /\ LET s == command[c] IN
       /\ Connected(s) /\ ~released[s] /\ byDevice[deviceId[s]] = s
       /\ command' = [command EXCEPT ![c] = "settled"]
  /\ UNCHANGED <<sessions, registry>>

CommandTimeout(c) ==
  /\ command[c] \in Sockets
  /\ command' = [command EXCEPT ![c] = "settled"]
  /\ UNCHANGED <<sessions, registry>>
-----------------------------------------------------------------------------
Next ==
  \/ \E s \in Sockets :
       \/ Connect(s) \/ HelloRefused(s) \/ QuickFrame(s) \/ SlowFrame(s) \/ SocketClosed(s)
       \/ \E d \in Devices : Hello(s, d)
       \/ \E failed \in BOOLEAN : SlowFrameDone(s, failed)
  \/ CloseManager \/ ManagerClosed
  \/ \E c \in Commands : CommandResult(c) \/ CommandTimeout(c)
                         \/ \E d \in Devices : RequestCommand(c, d)

Spec == Init /\ [][Next]_vars
-----------------------------------------------------------------------------
TypeOK ==
  /\ socket \in [Sockets -> {"unused", "open", "closing", "closed"}]
  /\ deviceId \in [Sockets -> Devices \cup {None}]
  /\ ready \in [Sockets -> BOOLEAN] /\ released \in [Sockets -> BOOLEAN]
  /\ slow \in [Sockets -> Nat]
  /\ live \subseteq Sockets /\ byDevice \in [Devices -> Sockets \cup {None}]
  /\ manager \in {"open", "closing", "closed"}
  /\ command \in [Commands -> Sockets \cup {"idle", "settled"}]

Serving(s) == ready[s] /\ ~released[s]

\* One Stack-chan gets one session (session-manager.ts:4): however hellos, late
\* frames, evictions and lost sockets interleave, a device never has two
\* sessions whose Agents and tools are alive.
OneSessionPerDevice ==
  \A s, t \in Sockets : Serving(s) /\ Serving(t) /\ deviceId[s] = deviceId[t] => s = t

\* close() of the manager leaves no session behind, whatever was connecting or
\* being evicted while it waited.
NothingOutlivesManager ==
  manager # "open" => \A s \in Sockets : socket[s] # "unused" => released[s]

\* A command waits only in a session that can still answer it: one whose session
\* is evicted, lost or closed under it is rejected with the session
\* (device-session.ts:294-298), it is not left to the six seconds of its timer.
\* And never do more wait than the limit.
CommandsWaitInOpenSessions ==
  \A s \in Sockets : /\ Pending(s) # {} => Serving(s)
                     /\ Cardinality(Pending(s)) <= CommandLimit

\* (Not true of the code.)  A reconnect evicts the stale session
\* (session-manager.ts:4-6), so the session a device opened last stays served
\* until its own socket closes: a frame of the evicted one does not end it.
LatestStaysServed ==
  [][\A s \in Sockets : Serving(s) /\ ~Serving(s)' =>
       \/ ~Connected(s)' \/ manager' # "open"
       \/ \E t \in Sockets : Serving(t)' /\ deviceId'[t] = deviceId[s]]_vars
=============================================================================
