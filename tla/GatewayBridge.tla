---------------------------- MODULE GatewayBridge ----------------------------
(***************************************************************************)
(* The device's link to the Gateway                                        *)
(* (firmware/host/app/docks/gateway/bridge.ts) over the WebSocket adapter  *)
(* (socket.ts): connecting, the hello, the backoff of reconnects, and the  *)
(* accounting of bytes handed to the socket.  The network and the Gateway  *)
(* are the environment.                                                    *)
(***************************************************************************)
EXTENDS Integers, Sequences, FiniteSets

CONSTANTS
  Sizes,         \* byte sizes of the messages sent
  HelloSize,     \* byte size of session.hello
  MaxPending,    \* MAX_PENDING_OUTBOUND_BYTES
  InitialDelay,  \* INITIAL_RECONNECT_MILLISECONDS
  MaxDelay,      \* MAX_RECONNECT_MILLISECONDS
  MaxFailures    \* bound: connections refused, lost or failing a write

ASSUME ConstantsAssumption ==
  /\ Sizes \subseteq Nat \ {0} /\ HelloSize \in Nat \ {0}
  /\ MaxPending \in Nat /\ HelloSize <= MaxPending
  /\ InitialDelay \in Nat \ {0} /\ MaxDelay \in Nat /\ InitialDelay <= MaxDelay
  /\ MaxFailures \in Nat

VARIABLES
  transportState,    \* disconnected, ready, unsupported
  socket,            \* the generation of the current socket, 0 for none
  socketOpen,        \* its onReady ran
  socketGeneration,  \* bumped by every connect and by close
  pendingBytes,      \* bytes accounted as not yet handed off
  releases,          \* sizes of the sends whose release timer is armed
  reconnect,         \* the reconnect timer is armed
  delay,             \* its next delay
  sessionReady,      \* session.ready is kept for late handlers
  closed,            \* close() was called
  alive,             \* adapter sockets not closed, by generation
  late,              \* sockets the bridge closed that may still call onClosed
  greeted,           \* the generation whose hello was queued
  failures

link    == <<transportState, sessionReady, socket, socketOpen, socketGeneration, alive, late,
             greeted>>
sending == <<pendingBytes, releases>>
backoff == <<reconnect, delay>>
vars    == <<link, sending, backoff, closed, failures>>

\* The delay after a reconnect was scheduled with delay d.
Doubled(d) == IF 2 * d > MaxDelay THEN MaxDelay ELSE 2 * d

Init ==
  /\ transportState = "disconnected" /\ sessionReady = FALSE
  /\ socketGeneration = 1 /\ socketOpen = FALSE /\ greeted = 0 /\ closed = FALSE
  /\ pendingBytes = 0 /\ releases = <<>> /\ late = {}
  /\ \/ /\ socket = 1 /\ alive = {1}
        /\ reconnect = FALSE /\ delay = InitialDelay /\ failures = 0
     \/ /\ socket = 0 /\ alive = {} /\ MaxFailures > 0
        /\ reconnect = TRUE /\ delay = Doubled(InitialDelay)
        /\ failures = 1
-----------------------------------------------------------------------------
Fail == failures < MaxFailures /\ failures' = failures + 1

SetTransportState(next) ==
  /\ transportState' = next
  /\ sessionReady' = (sessionReady /\ next = "ready")

ReleaseTimersOnly == releases' = <<>> /\ UNCHANGED pendingBytes   \* mutant

ForgetTimers == pendingBytes' = 0 /\ UNCHANGED releases   \* mutant: timers go on

ReleaseAllPending == releases' = <<>> /\ pendingBytes' = 0

ForgetReconnect == UNCHANGED backoff   \* mutant

ScheduleReconnect ==
  \/ (closed \/ reconnect) /\ UNCHANGED backoff
  \/ /\ ~closed /\ ~reconnect
     /\ reconnect' = TRUE
     /\ delay' = Doubled(delay)

\* retireSocket, for the socket of the current generation.
RetireSocket(g) ==
  /\ socket' = 0 /\ socketOpen' = FALSE
  /\ ReleaseAllPending
  /\ SetTransportState("disconnected")
  /\ ScheduleReconnect

\* The reconnect timer: connect().  The factory may throw.
Connect ==
  /\ reconnect /\ ~closed
  /\ socketGeneration' = socketGeneration + 1
  /\ \/ /\ socket' = socketGeneration' /\ alive' = alive \cup {socketGeneration'}
        /\ reconnect' = FALSE
        /\ UNCHANGED <<delay, failures>>
     \/ /\ Fail
        /\ reconnect' = TRUE
        /\ delay' = Doubled(delay)
        /\ UNCHANGED <<socket, alive>>
  /\ UNCHANGED <<transportState, sessionReady, socketOpen, late, greeted, sending, closed>>
-----------------------------------------------------------------------------
(***************************************************************************)
(* writeToSocket on an open socket.  A send that is queued arms a release  *)
(* timer; a write that throws closes the socket and retires it.            *)
(***************************************************************************)
Fits(size) == pendingBytes + size <= MaxPending

Queued(size) ==
  /\ Fits(size)
  /\ pendingBytes' = pendingBytes + size
  /\ releases' = Append(releases, size)

WriteFails(size) ==
  /\ Fits(size)
  /\ Fail
  /\ alive' = alive \ {socket} /\ late' = late \cup {socket}
  /\ RetireSocket(socketGeneration)

\* onReady: the adapter's first writable callback, answered by the hello.
SocketReady(g) ==
  /\ g \in alive /\ g = socketGeneration /\ ~closed /\ ~socketOpen
  /\ \/ /\ socketOpen' = TRUE
        /\ \/ Queued(HelloSize) /\ greeted' = g
           \/ ~Fits(HelloSize) /\ UNCHANGED <<sending, greeted>>
        /\ UNCHANGED <<transportState, sessionReady, socket, alive, late, backoff, failures>>
     \/ WriteFails(HelloSize) /\ UNCHANGED greeted
  /\ UNCHANGED <<socketGeneration, closed>>

\* sendGatewayMessage, or sendEvent when ready.  Overflow, of the bridge or of
\* the adapter, changes nothing.
Send(size) ==
  /\ ~closed /\ socket # 0 /\ socketOpen
  /\ \/ Queued(size) /\ UNCHANGED <<link, backoff, failures>>
     \/ WriteFails(size) /\ UNCHANGED <<socketGeneration, greeted>>
  /\ UNCHANGED closed

\* The oldest release timer.
Release ==
  /\ releases # <<>>
  /\ releases' = Tail(releases)
  /\ pendingBytes' = IF pendingBytes > Head(releases) THEN pendingBytes - Head(releases) ELSE 0
  /\ UNCHANGED <<link, backoff, closed, failures>>
-----------------------------------------------------------------------------
\* session.ready from the Gateway that got the hello.
ServerReady ==
  /\ socket \in alive /\ socketOpen /\ greeted = socketGeneration
  /\ transportState = "disconnected"
  /\ \/ /\ transportState' = "ready" /\ sessionReady' = TRUE
        /\ delay' = InitialDelay
     \/ /\ SetTransportState("unsupported")
        /\ UNCHANGED delay
  /\ UNCHANGED <<socket, socketOpen, socketGeneration, alive, late, greeted, sending, reconnect,
                 closed, failures>>

UncheckedClosed(g) == RetireSocket(g)   \* mutant: whichever socket it is

\* onClosed of the socket of generation g.
HandleClosed(g) ==
  IF g = socketGeneration THEN RetireSocket(g)
  ELSE UNCHANGED <<transportState, sessionReady, socket, socketOpen, sending, backoff>>

\* The connection is refused, closed by the Gateway, or breaks.
SocketClosed(g) ==
  /\ g \in alive /\ Fail
  /\ alive' = alive \ {g}
  /\ HandleClosed(g)
  /\ UNCHANGED <<socketGeneration, late, greeted, closed>>

\* A socket that the bridge closed says so: inside that very call in socket.ts,
\* never in wasm/browser.js, at any later time for all socket-types.ts promises.
ClosedLate(g) ==
  /\ g \in late /\ late' = late \ {g}
  /\ HandleClosed(g)
  /\ UNCHANGED <<socketGeneration, alive, greeted, closed, failures>>

Close ==
  /\ ~closed
  /\ closed' = TRUE
  /\ reconnect' = FALSE
  /\ ReleaseAllPending
  /\ alive' = alive \ {socket} /\ late' = late \cup ({socket} \ {0})
  /\ socket' = 0 /\ socketOpen' = FALSE
  /\ socketGeneration' = socketGeneration + 1
  /\ transportState' = "disconnected"
  /\ UNCHANGED <<sessionReady, delay, greeted, failures>>
-----------------------------------------------------------------------------
Next ==
  \/ Connect \/ ServerReady \/ Release \/ Close
  \/ \E g \in alive : SocketReady(g) \/ SocketClosed(g)
  \/ \E g \in late : ClosedLate(g)
  \/ \E size \in Sizes : Send(size)

Spec == Init /\ [][Next]_vars

\* Timers fire; a connection that does not fail opens, and the Gateway answers.
FairSpec ==
  /\ Spec
  /\ WF_vars(Connect) /\ WF_vars(\E g \in alive : SocketReady(g)) /\ WF_vars(ServerReady)
  /\ WF_vars(Release)
-----------------------------------------------------------------------------
TypeOK ==
  /\ transportState \in {"disconnected", "ready", "unsupported"}
  /\ socketGeneration \in Nat /\ socket \in 0..socketGeneration /\ socketOpen \in BOOLEAN
  /\ pendingBytes \in 0..MaxPending /\ releases \in Seq(Sizes \cup {HelloSize})
  /\ reconnect \in BOOLEAN /\ delay \in InitialDelay..MaxDelay
  /\ sessionReady \in BOOLEAN /\ closed \in BOOLEAN
  /\ alive \subseteq 1..socketGeneration /\ late \subseteq 1..socketGeneration
  /\ greeted \in 0..socketGeneration
  /\ failures \in 0..MaxFailures

\* The device holds at most one connection, and the one it holds is the one it
\* uses: retired, failed and replaced sockets are closed, and the onClosed one of
\* them still calls does not take the connection that replaced it out of use
\* (retireSocket, close, the generation check of handleClosed).
OneConnection == alive \subseteq {socket} \ {0}

\* "ready" is said of an open connection whose Gateway has got this connection's
\* hello, never of a connection that is gone.
ReadyIsConnected ==
  transportState = "ready" => socketOpen /\ socket \in alive /\ greeted = socket

\* Until it is closed the bridge holds a connection or the timer of the next one:
\* no failure, in whatever callback, leaves it stranded.
NeverStranded == ~closed => (socket \in alive \/ reconnect)

\* The sum of a sequence of sizes.
Total(sizes) ==
  LET sum[i \in 0..Len(sizes)] == IF i = 0 THEN 0 ELSE sum[i - 1] + sizes[i]
  IN  sum[Len(sizes)]

\* The bytes accounted are those of the sends whose timers are armed, so that no
\* reconnect, failed write or late timer shrinks or inflates the window.
BytesAreOutstanding == pendingBytes = Total(releases)

\* Once connections stop failing, the device is served again.
Reconnects == <>[](closed \/ transportState \in {"ready", "unsupported"})
=============================================================================
