------------------------- MODULE GatewayBridgeProofs -------------------------
(***************************************************************************)
(* Proofs about GatewayBridge: one connection at a time, a ready state that *)
(* is connected, a bridge that is never stranded, and a window that counts  *)
(* exactly the bytes outstanding, for every window, backoff and number of   *)
(* failures.                                                                *)
(***************************************************************************)
EXTENDS GatewayBridge, SequenceTheorems, WellFoundedInduction, TLAPS

\* The current socket is of the current generation, and is open only if present.
CurrentSocket ==
  /\ socket # 0 => socket = socketGeneration
  /\ socketOpen => socket # 0

\* The socket in use is not one the bridge has closed.
UsedIsNotLate == socket \notin late

\* A bridge that waits for the reconnect timer, or was closed, has no socket.
IdleHasNoSocket == reconnect \/ closed => socket = 0

\* The type invariant in three parts.
Flags ==
  /\ socketOpen \in BOOLEAN /\ reconnect \in BOOLEAN /\ sessionReady \in BOOLEAN
  /\ closed \in BOOLEAN /\ transportState \in {"disconnected", "ready", "unsupported"}

Numbers ==
  /\ socketGeneration \in Nat /\ socket \in 0..socketGeneration
  /\ alive \subseteq 1..socketGeneration /\ late \subseteq 1..socketGeneration
  /\ greeted \in 0..socketGeneration
  /\ failures \in 0..MaxFailures /\ delay \in InitialDelay..MaxDelay

Window == pendingBytes \in 0..MaxPending /\ releases \in Seq(Sizes \cup {HelloSize})

\* The inductive invariant.
IInv ==
  /\ Flags /\ Numbers /\ Window
  /\ OneConnection
  /\ ReadyIsConnected
  /\ NeverStranded
  /\ CurrentSocket
  /\ IdleHasNoSocket
  /\ UsedIsNotLate

-----------------------------------------------------------------------------
\* Induction over the natural numbers, for a set.
LEMMA SetInduction ==
  ASSUME NEW S, 0 \in S, \A n \in Nat : n \in S => n + 1 \in S
  PROVE  \A n \in Nat : n \in S
  <1> DEFINE Missing == Nat \ S
  <1>1. SUFFICES ASSUME Missing # {} PROVE FALSE
    OBVIOUS
  <1>2. PICK x \in Missing : \A y \in Missing : ~(<<y, x>> \in OpToRel(<, Nat))
    <2>1. Missing \subseteq Nat OBVIOUS
    <2> HIDE DEF Missing
    <2> QED BY <1>1, <2>1, WFMin, NatLessThanWellFounded
  <1>3. x # 0 /\ x \in Nat /\ x - 1 \in Nat OBVIOUS
  <1>4. x - 1 \in Missing BY <1>3
  <1>5. <<x - 1, x>> \in OpToRel(<, Nat) BY <1>3 DEF OpToRel
  <1> QED BY <1>2, <1>4, <1>5

\* The partial sums of a sequence of sizes.
Sums(sizes, sum) == sum = [i \in 0..Len(sizes) |-> IF i = 0 THEN 0 ELSE sum[i - 1] + sizes[i]]

\* Sequences of sizes are sequences of natural numbers.
LEMMA SizesAreNumbers ==
  ASSUME NEW A, A \subseteq Nat, NEW sizes \in Seq(A)
  PROVE  sizes \in Seq(Nat)
  <1>1. /\ Len(sizes) \in Nat /\ sizes = [i \in 1..Len(sizes) |-> sizes[i]]
        /\ \A i \in 1..Len(sizes) : sizes[i] \in Nat
    OBVIOUS
  <1> QED BY <1>1, IsASeq

\* Partial sums exist, and Total is the last of them.
LEMMA TotalIsLast ==
  ASSUME NEW sizes \in Seq(Nat)
  PROVE  \E sum : Sums(sizes, sum) /\ Total(sizes) = sum[Len(sizes)]
  <1> DEFINE Upto(n) == \E sum : sum = [i \in 0..n |-> IF i = 0 THEN 0 ELSE sum[i - 1] + sizes[i]]
             S == {n \in Nat : Upto(n)}
  <1>1. 0 \in S
    <2>1. LET sum == [i \in 0..0 |-> 0] IN sum = [i \in 0..0 |-> IF i = 0 THEN 0 ELSE sum[i - 1] + sizes[i]]
      OBVIOUS
    <2> QED BY <2>1
  <1>2. ASSUME NEW n \in Nat, n \in S PROVE n + 1 \in S
    <2>1. PICK sum : sum = [i \in 0..n |-> IF i = 0 THEN 0 ELSE sum[i - 1] + sizes[i]]
      BY <1>2
    <2> DEFINE more == [i \in 0..(n + 1) |-> IF i = n + 1 THEN sum[n] + sizes[n + 1] ELSE sum[i]]
    <2>2. ASSUME NEW i \in 0..(n + 1)
          PROVE  more[i] = IF i = 0 THEN 0 ELSE more[i - 1] + sizes[i]
      <3>1. CASE i = 0 BY <3>1, <2>1
      <3>2. CASE i = n + 1 BY <3>2
      <3>3. CASE i \in 1..n
        <4>1. sum[i] = sum[i - 1] + sizes[i] BY <3>3, <2>1
        <4> QED BY <3>3, <4>1
      <3> QED BY <3>1, <3>2, <3>3
    <2>3. more = [i \in 0..(n + 1) |-> more[i]] OBVIOUS
    <2>4. Upto(n + 1)
      <3> DEFINE next == [i \in 0..(n + 1) |-> IF i = 0 THEN 0 ELSE more[i - 1] + sizes[i]]
      <3>1. next = [i \in 0..(n + 1) |-> next[i]] OBVIOUS
      <3>2. \A i \in 0..(n + 1) : next[i] = more[i] BY <2>2
      <3>3. more = next
        <4> HIDE DEF more, next
        <4> QED BY <2>3, <3>1, <3>2
      <3>4. more = [i \in 0..(n + 1) |-> IF i = 0 THEN 0 ELSE more[i - 1] + sizes[i]] BY <3>3
      <3> HIDE DEF more
      <3> QED BY <3>4
    <2> HIDE DEF Upto
    <2> QED BY <2>4
  <1>3. Len(sizes) \in S
    <2> HIDE DEF S
    <2> QED BY <1>1, <1>2, SetInduction
  <1>4. \E sum : Sums(sizes, sum) BY <1>3 DEF Sums
  <1>5. Sums(sizes, CHOOSE sum : Sums(sizes, sum)) BY <1>4
  <1>6. Total(sizes) = (CHOOSE sum : Sums(sizes, sum))[Len(sizes)] BY DEF Total, Sums
  <1> QED BY <1>5, <1>6

\* The sum of sizes is a natural number.
LEMMA TotalType ==
  ASSUME NEW sizes \in Seq(Nat)
  PROVE  Total(sizes) \in Nat
  <1>1. PICK sum : Sums(sizes, sum) /\ Total(sizes) = sum[Len(sizes)] BY TotalIsLast
  <1> DEFINE S == {n \in Nat : n <= Len(sizes) => sum[n] \in Nat}
  <1>2. 0 \in S BY <1>1 DEF Sums
  <1>3. ASSUME NEW n \in Nat, n \in S PROVE n + 1 \in S
    <2>1. SUFFICES ASSUME n + 1 <= Len(sizes) PROVE sum[n + 1] \in Nat OBVIOUS
    <2>2. n + 1 \in 0..Len(sizes) /\ n + 1 # 0 /\ (n + 1) - 1 = n BY <2>1
    <2>3. sum[n + 1] = sum[n] + sizes[n + 1] BY <1>1, <2>2 DEF Sums
    <2>4. sizes[n + 1] \in Nat BY <2>1
    <2> QED BY <1>3, <2>1, <2>3, <2>4
  <1>4. Len(sizes) \in S
    <2> HIDE DEF S
    <2> QED BY <1>2, <1>3, SetInduction
  <1> QED BY <1>1, <1>4

\* Nothing armed, nothing outstanding.
LEMMA TotalEmpty == Total(<<>>) = 0
  <1>1. PICK sum : Sums(<<>>, sum) /\ Total(<<>>) = sum[Len(<<>>)]
    <2>1. <<>> \in Seq(Nat) OBVIOUS
    <2> QED BY <2>1, TotalIsLast
  <1> QED BY <1>1 DEF Sums

\* A size appended is added.
LEMMA TotalAppend ==
  ASSUME NEW sizes \in Seq(Nat), NEW size \in Nat
  PROVE  Total(Append(sizes, size)) = Total(sizes) + size
  <1> DEFINE longer == Append(sizes, size)
  <1>0. /\ longer \in Seq(Nat) /\ Len(longer) = Len(sizes) + 1 /\ longer[Len(sizes) + 1] = size
        /\ \A i \in 1..Len(sizes) : longer[i] = sizes[i]
    OBVIOUS
  <1> HIDE DEF longer
  <1>1. PICK sum : Sums(sizes, sum) /\ Total(sizes) = sum[Len(sizes)] BY TotalIsLast
  <1>2. PICK new : Sums(longer, new) /\ Total(longer) = new[Len(longer)] BY <1>0, TotalIsLast
  <1> DEFINE S == {n \in Nat : n <= Len(sizes) => new[n] = sum[n]}
  <1>3. 0 \in S BY <1>0, <1>1, <1>2 DEF Sums
  <1>4. ASSUME NEW n \in Nat, n \in S PROVE n + 1 \in S
    <2>1. SUFFICES ASSUME n + 1 <= Len(sizes) PROVE new[n + 1] = sum[n + 1] OBVIOUS
    <2>2. n + 1 \in 0..Len(sizes) /\ n + 1 # 0 /\ (n + 1) - 1 = n BY <2>1
    <2>3. sum[n + 1] = sum[n] + sizes[n + 1] BY <1>1, <2>2 DEF Sums
    <2>4. new[n + 1] = new[n] + longer[n + 1] BY <1>0, <1>2, <2>2 DEF Sums
    <2> QED BY <1>0, <1>4, <2>1, <2>3, <2>4
  <1>5. Len(sizes) \in S
    <2> HIDE DEF S
    <2> QED BY <1>3, <1>4, SetInduction
  <1>6. new[Len(sizes) + 1] = new[Len(sizes)] + size BY <1>0, <1>2 DEF Sums
  <1>7. Total(longer) = Total(sizes) + size BY <1>0, <1>1, <1>2, <1>5, <1>6
  <1> QED BY <1>7 DEF longer

\* The oldest size, released, is subtracted.
LEMMA TotalTail ==
  ASSUME NEW sizes \in Seq(Nat), sizes # <<>>
  PROVE  Total(sizes) = Head(sizes) + Total(Tail(sizes))
  <1> DEFINE rest == Tail(sizes)
  <1>0. /\ rest \in Seq(Nat) /\ Len(sizes) = Len(rest) + 1 /\ Head(sizes) = sizes[1] /\ sizes[1] \in Nat
        /\ \A i \in 1..Len(rest) : rest[i] = sizes[i + 1] /\ rest[i] \in Nat
    OBVIOUS
  <1> HIDE DEF rest
  <1>1. PICK sum : Sums(sizes, sum) /\ Total(sizes) = sum[Len(sizes)] BY TotalIsLast
  <1>2. PICK old : Sums(rest, old) /\ Total(rest) = old[Len(rest)] BY <1>0, TotalIsLast
  <1> DEFINE S == {n \in Nat : n <= Len(rest) => old[n] \in Nat /\ sum[n + 1] = sizes[1] + old[n]}
  <1>3. 0 \in S
    <2>1. old[0] = 0 /\ sum[0] = 0 BY <1>1, <1>2 DEF Sums
    <2>2. sum[1] = sum[0] + sizes[1] BY <1>0, <1>1 DEF Sums
    <2> QED BY <1>0, <2>1, <2>2
  <1>4. ASSUME NEW n \in Nat, n \in S PROVE n + 1 \in S
    <2>1. SUFFICES ASSUME n + 1 <= Len(rest)
                   PROVE old[n + 1] \in Nat /\ sum[n + 2] = sizes[1] + old[n + 1] OBVIOUS
    <2>2. n + 1 \in 0..Len(rest) /\ n + 1 # 0 /\ (n + 1) - 1 = n /\ n + 2 \in 0..Len(sizes) /\ (n + 2) - 1 = n + 1
      BY <1>0, <2>1
    <2>3. sum[n + 2] = sum[n + 1] + sizes[n + 2] BY <1>1, <2>2 DEF Sums
    <2>4. old[n + 1] = old[n] + rest[n + 1] BY <1>2, <2>2 DEF Sums
    <2>5. rest[n + 1] = sizes[n + 2] /\ rest[n + 1] \in Nat BY <1>0, <2>1
    <2>6. sum[n + 1] = sizes[1] + old[n] /\ old[n] \in Nat BY <1>4, <2>1
    <2> HIDE DEF S
    <2> QED BY <1>0, <2>3, <2>4, <2>5, <2>6
  <1>5. Len(rest) \in S
    <2>1. Len(rest) \in Nat BY <1>0
    <2> HIDE DEF S
    <2> QED BY <1>3, <1>4, <2>1, SetInduction
  <1>6. Total(sizes) = Head(sizes) + Total(rest) BY <1>0, <1>1, <1>2, <1>5
  <1> QED BY <1>6 DEF rest
-----------------------------------------------------------------------------
USE ConstantsAssumption

\* The backoff stays between its limits.
LEMMA DoubledRange ==
  ASSUME NEW d \in InitialDelay..MaxDelay
  PROVE  Doubled(d) \in InitialDelay..MaxDelay
  BY DEF Doubled

\* The bridge starts by connecting, or by waiting to.
LEMMA InitIInv == Init => IInv
  <1> SUFFICES ASSUME Init PROVE IInv
    OBVIOUS
  <1>1. delay \in InitialDelay..MaxDelay
    <2>1. InitialDelay \in InitialDelay..MaxDelay OBVIOUS
    <2>2. delay = InitialDelay \/ delay = Doubled(InitialDelay) BY DEF Init
    <2> QED BY <2>1, <2>2, DoubledRange
  <1>2. Numbers BY <1>1 DEF Init, Numbers
  <1>3. Flags /\ Window
    <2>1. Flags BY DEF Init, Flags
    <2>2. pendingBytes = 0 /\ releases = <<>> BY DEF Init
    <2> QED BY <2>1, <2>2 DEF Window
  <1>4. OneConnection BY DEF Init, OneConnection
  <1>5. ReadyIsConnected BY DEF Init, ReadyIsConnected
  <1>6. NeverStranded BY DEF Init, NeverStranded
  <1>7. CurrentSocket /\ IdleHasNoSocket /\ UsedIsNotLate
    BY DEF Init, CurrentSocket, IdleHasNoSocket, UsedIsNotLate
  <1> QED BY <1>2, <1>3, <1>4, <1>5, <1>6, <1>7 DEF IInv

\* Scheduling a reconnect keeps the backoff's type and arms the timer unless closed.
LEMMA ScheduleReconnectEffect ==
  ASSUME IInv, ScheduleReconnect
  PROVE  /\ reconnect' \in BOOLEAN /\ delay' \in InitialDelay..MaxDelay
         /\ ~closed => reconnect'
  <1>1. /\ reconnect \in BOOLEAN /\ closed \in BOOLEAN
        /\ delay \in InitialDelay..MaxDelay
    BY DEF IInv, Flags, Numbers
  <1>2. Doubled(delay) \in InitialDelay..MaxDelay BY <1>1, DoubledRange
  <1>3. reconnect' \in BOOLEAN /\ (~closed => reconnect')
    BY <1>1, Zenon DEF ScheduleReconnect, backoff
  <1>4. delay' \in InitialDelay..MaxDelay
    BY <1>1, <1>2, Zenon DEF ScheduleReconnect, backoff
  <1> QED BY <1>3, <1>4

\* Retiring the current socket, once it is closed, keeps the invariant.
LEMMA RetireKeeps ==
  ASSUME IInv, NEW g, RetireSocket(g), alive' = {},
         late' \subseteq 1..socketGeneration, greeted' \in 0..socketGeneration, failures' \in 0..MaxFailures,
         UNCHANGED <<socketGeneration, closed>>
  PROVE  IInv'
  <1>1. /\ ~closed => reconnect'
        /\ reconnect' \in BOOLEAN /\ delay' \in InitialDelay..MaxDelay
    BY ScheduleReconnectEffect DEF RetireSocket
  <1>2. /\ socket' = 0 /\ socketOpen' = FALSE /\ releases' = <<>> /\ pendingBytes' = 0
        /\ transportState' = "disconnected" /\ sessionReady' \in BOOLEAN
    BY Zenon DEF RetireSocket, ReleaseAllPending, SetTransportState
  <1>3. Flags' BY <1>1, <1>2 DEF IInv, Flags
  <1>4. Numbers' BY <1>1, <1>2 DEF IInv, Numbers
  <1>5. Window' BY <1>2 DEF Window
  <1>6. OneConnection' /\ ReadyIsConnected' /\ NeverStranded'
    BY <1>1, <1>2 DEF OneConnection, ReadyIsConnected, NeverStranded
  <1>7. CurrentSocket' /\ IdleHasNoSocket' /\ UsedIsNotLate'
    BY <1>2 DEF CurrentSocket, IdleHasNoSocket, UsedIsNotLate
  <1> QED BY <1>3, <1>4, <1>5, <1>6, <1>7 DEF IInv

\* A queued send stays within the window.
LEMMA QueuedEffect ==
  ASSUME IInv, NEW size \in Sizes \cup {HelloSize}, Queued(size)
  PROVE  pendingBytes' \in 0..MaxPending /\ releases' \in Seq(Sizes \cup {HelloSize})
  BY DEF Queued, Fits, IInv, Window

\* A write that fails leaves no connection behind.
LEMMA WriteFailsKeeps ==
  ASSUME IInv, NEW size, WriteFails(size), socket # 0, UNCHANGED <<socketGeneration, closed, greeted>>
  PROVE  IInv'
  <1>1. alive' = {} BY DEF WriteFails, IInv, OneConnection
  <1>2. failures' \in 0..MaxFailures BY DEF WriteFails, Fail, IInv, Numbers
  <1>3. greeted' \in 0..socketGeneration BY DEF IInv, Numbers
  <1>4. late' \subseteq 1..socketGeneration BY DEF WriteFails, IInv, Numbers
  <1> QED BY <1>1, <1>2, <1>3, <1>4, RetireKeeps DEF WriteFails

\* Every step keeps the invariant.
LEMMA NextKeeps == IInv /\ [Next]_vars => IInv'
  <1> SUFFICES ASSUME IInv, [Next]_vars PROVE IInv'
    OBVIOUS
  <1>1. CASE Connect
    <2>1. Flags' BY <1>1 DEF Connect, Fail, sending, IInv, Flags
    <2>2. Numbers'
      <3>1. /\ socketGeneration' = socketGeneration + 1 /\ greeted' = greeted
            /\ \/ socket' = socketGeneration' /\ alive' = alive \cup {socketGeneration'}
               \/ socket' = socket /\ alive' = alive
        BY <1>1 DEF Connect
      <3>2. delay' = delay \/ delay' = Doubled(delay) BY <1>1, Zenon DEF Connect
      <3>3. failures' = failures \/ Fail BY <1>1, Zenon DEF Connect
      <3>4. delay' \in InitialDelay..MaxDelay BY <3>2, DoubledRange DEF IInv, Numbers
      <3>5. failures' \in 0..MaxFailures BY <3>3 DEF Fail, IInv, Numbers
      <3>6. /\ socketGeneration' \in Nat /\ socket' \in 0..socketGeneration'
            /\ greeted' \in 0..socketGeneration'
        BY <3>1 DEF IInv, Numbers
      <3>7. socketGeneration' \in 1..socketGeneration' /\ alive \subseteq 1..socketGeneration'
        BY <3>1 DEF IInv, Numbers
      <3>8. alive' \subseteq 1..socketGeneration' BY <3>1, <3>7
      <3>9. late' \subseteq 1..socketGeneration'
        <4>1. late' = late BY <1>1 DEF Connect
        <4> QED BY <3>1, <4>1 DEF IInv, Numbers
      <3> QED BY <3>4, <3>5, <3>6, <3>8, <3>9 DEF Numbers
    <2>3. Window' BY <1>1 DEF Connect, Fail, sending, IInv, Window
    <2>4. OneConnection'
      <3>1. alive = {} BY <1>1 DEF Connect, IInv, OneConnection, IdleHasNoSocket
      <3>2. socketGeneration' # 0 BY <1>1 DEF Connect, IInv, Numbers
      <3>3. alive' = {} \/ (socket' = socketGeneration' /\ alive' = {socketGeneration'})
        BY <1>1, <3>1 DEF Connect
      <3> QED BY <3>2, <3>3 DEF OneConnection
    <2>5. ReadyIsConnected' /\ NeverStranded'
      BY <1>1 DEF Connect, IInv, Numbers, OneConnection, IdleHasNoSocket,
         ReadyIsConnected, NeverStranded
    <2>6. CurrentSocket' /\ IdleHasNoSocket' /\ UsedIsNotLate'
      BY <1>1 DEF Connect, Fail, sending, IInv, Numbers, CurrentSocket, IdleHasNoSocket, UsedIsNotLate
    <2> QED BY <2>1, <2>2, <2>3, <2>4, <2>5, <2>6 DEF IInv
  <1>2. CASE ServerReady
    <2>1. Flags' BY <1>2 DEF ServerReady, SetTransportState, sending, IInv, Flags
    <2>2. Numbers' BY <1>2 DEF ServerReady, SetTransportState, sending, IInv, Numbers
    <2>3. Window' BY <1>2 DEF ServerReady, SetTransportState, sending, IInv, Window
    <2>4. OneConnection'
      BY <1>2 DEF ServerReady, SetTransportState, sending, IInv, OneConnection, CurrentSocket, IdleHasNoSocket
    <2>5. ReadyIsConnected' /\ NeverStranded'
      BY <1>2 DEF ServerReady, SetTransportState, sending, IInv, OneConnection, CurrentSocket, IdleHasNoSocket,
         ReadyIsConnected, NeverStranded
    <2>6. CurrentSocket' /\ IdleHasNoSocket' /\ UsedIsNotLate'
      BY <1>2 DEF ServerReady, SetTransportState, sending, IInv, Numbers, CurrentSocket, IdleHasNoSocket, UsedIsNotLate
    <2> QED BY <2>1, <2>2, <2>3, <2>4, <2>5, <2>6 DEF IInv
  <1>3. CASE Release
    <2>1. Flags' BY <1>3 DEF Release, link, backoff, IInv, Flags
    <2>2. Numbers' BY <1>3 DEF Release, link, backoff, IInv, Numbers
    <2>3. Window'
      <3>1. /\ releases # <<>> /\ releases' = Tail(releases)
            /\ \/ pendingBytes' = 0
               \/ pendingBytes > Head(releases) /\ pendingBytes' = pendingBytes - Head(releases)
        BY <1>3 DEF Release
      <3>2. Head(releases) \in Nat /\ releases' \in Seq(Sizes \cup {HelloSize})
        <4>1. releases \in Seq(Sizes \cup {HelloSize}) /\ Sizes \cup {HelloSize} \subseteq Nat
          BY DEF IInv, Window
        <4> QED BY <3>1, <4>1, HeadTailProperties
      <3>3. pendingBytes' \in 0..MaxPending BY <3>1, <3>2 DEF IInv, Window
      <3> QED BY <3>2, <3>3 DEF Window
    <2>4. OneConnection'
      BY <1>3 DEF Release, link, backoff, IInv, OneConnection, CurrentSocket, IdleHasNoSocket
    <2>5. ReadyIsConnected' /\ NeverStranded'
      BY <1>3 DEF Release, link, backoff, IInv, OneConnection, CurrentSocket, IdleHasNoSocket,
         ReadyIsConnected, NeverStranded
    <2>6. CurrentSocket' /\ IdleHasNoSocket' /\ UsedIsNotLate'
      BY <1>3 DEF Release, link, backoff, IInv, Numbers, CurrentSocket, IdleHasNoSocket, UsedIsNotLate
    <2> QED BY <2>1, <2>2, <2>3, <2>4, <2>5, <2>6 DEF IInv
  <1>4. CASE Close
    <2>1. Flags' BY <1>4 DEF Close, ReleaseAllPending, IInv, Flags
    <2>2. Numbers' BY <1>4 DEF Close, ReleaseAllPending, IInv, Numbers
    <2>3. Window' BY <1>4 DEF Close, ReleaseAllPending, IInv, Window
    <2>4. OneConnection'
      BY <1>4 DEF Close, ReleaseAllPending, IInv, OneConnection, CurrentSocket, IdleHasNoSocket
    <2>5. ReadyIsConnected' /\ NeverStranded'
      BY <1>4 DEF Close, ReleaseAllPending, IInv, OneConnection, CurrentSocket, IdleHasNoSocket,
         ReadyIsConnected, NeverStranded
    <2>6. CurrentSocket' /\ IdleHasNoSocket' /\ UsedIsNotLate'
      BY <1>4 DEF Close, ReleaseAllPending, IInv, Numbers, CurrentSocket, IdleHasNoSocket, UsedIsNotLate
    <2> QED BY <2>1, <2>2, <2>3, <2>4, <2>5, <2>6 DEF IInv
  <1>5. ASSUME NEW g \in alive, SocketReady(g) PROVE IInv'
    <2>1. CASE WriteFails(HelloSize) /\ UNCHANGED greeted
      <3>1. socket # 0 BY <1>5 DEF IInv, OneConnection
      <3> QED BY <1>5, <2>1, <3>1, WriteFailsKeeps DEF SocketReady
    <2>2. CASE /\ socketOpen'
               /\ \/ Queued(HelloSize) /\ greeted' = g
                  \/ UNCHANGED <<sending, greeted>>
               /\ UNCHANGED <<transportState, sessionReady, socket, alive, late, backoff, failures>>
      <3>1. /\ socket = g /\ g = socketGeneration /\ ~closed /\ ~socketOpen
            /\ UNCHANGED <<socketGeneration, closed>>
        BY <1>5 DEF SocketReady, IInv, OneConnection, CurrentSocket
      <3>2. transportState # "ready" BY <3>1 DEF IInv, ReadyIsConnected
      <3>3. Flags' BY <2>2, <3>1 DEF backoff, IInv, Flags
      <3>4. greeted' \in 0..socketGeneration BY <2>2, <3>1 DEF IInv, Numbers
      <3>5. Numbers' BY <2>2, <3>1, <3>4 DEF backoff, IInv, Numbers
      <3>6. Window' BY <2>2, QueuedEffect DEF sending, IInv, Window
      <3>7. OneConnection' /\ ReadyIsConnected' /\ NeverStranded'
        BY <2>2, <3>1, <3>2 DEF backoff, IInv, OneConnection, ReadyIsConnected, NeverStranded
      <3>8. CurrentSocket' /\ IdleHasNoSocket' /\ UsedIsNotLate'
        BY <1>5, <2>2, <3>1 DEF backoff, IInv, Numbers, CurrentSocket, IdleHasNoSocket, UsedIsNotLate
      <3> QED BY <3>3, <3>5, <3>6, <3>7, <3>8 DEF IInv
    <2> QED BY <1>5, <2>1, <2>2 DEF SocketReady
  <1>6. ASSUME NEW g \in alive, SocketClosed(g) PROVE IInv'
    <2>1. g = socket /\ alive' = {} /\ g = socketGeneration
      BY <1>6 DEF SocketClosed, IInv, OneConnection, CurrentSocket, IdleHasNoSocket
    <2>2. /\ failures' \in 0..MaxFailures /\ greeted' \in 0..socketGeneration
          /\ late' \subseteq 1..socketGeneration
      BY <1>6 DEF SocketClosed, Fail, IInv, Numbers
    <2>3. RetireSocket(g) BY <1>6, <2>1 DEF SocketClosed, HandleClosed
    <2> QED BY <1>6, <2>1, <2>2, <2>3, RetireKeeps DEF SocketClosed
  <1>9. ASSUME NEW g \in late, ClosedLate(g) PROVE IInv'
    <2>1. /\ failures' \in 0..MaxFailures /\ greeted' \in 0..socketGeneration
          /\ late' \subseteq 1..socketGeneration /\ late' \subseteq late
          /\ UNCHANGED <<socketGeneration, alive, greeted, closed, failures>>
      BY <1>9 DEF ClosedLate, IInv, Numbers
    <2>2. CASE g = socketGeneration
      <3>1. alive' = {} BY <1>9, <2>1, <2>2 DEF IInv, OneConnection, CurrentSocket, UsedIsNotLate
      <3>2. RetireSocket(g) BY <1>9, <2>2 DEF ClosedLate, HandleClosed
      <3> QED BY <2>1, <3>1, <3>2, RetireKeeps
    <2>3. CASE g # socketGeneration
      <3>1. UNCHANGED <<transportState, sessionReady, socket, socketOpen, sending, backoff>>
        BY <1>9, <2>3 DEF ClosedLate, HandleClosed
      <3> QED
        BY <2>1, <3>1 DEF sending, backoff, IInv, Flags, Numbers, Window, OneConnection,
           ReadyIsConnected, NeverStranded, CurrentSocket, IdleHasNoSocket, UsedIsNotLate
    <2> QED BY <2>2, <2>3
  <1>7. ASSUME NEW size \in Sizes, Send(size) PROVE IInv'
    <2>1. CASE Queued(size) /\ UNCHANGED <<link, backoff, failures>>
      <3>1. UNCHANGED closed BY <1>7 DEF Send
      <3>2. Flags' BY <2>1, <3>1 DEF link, backoff, IInv, Flags
      <3>3. Numbers' BY <2>1 DEF link, backoff, IInv, Numbers
      <3>4. Window' BY <2>1, QueuedEffect DEF Window
      <3>5. OneConnection' /\ ReadyIsConnected' /\ NeverStranded' /\ CurrentSocket'
            /\ IdleHasNoSocket' /\ UsedIsNotLate'
        BY <2>1, <3>1 DEF link, backoff, IInv, OneConnection, ReadyIsConnected,
           NeverStranded, CurrentSocket, IdleHasNoSocket, UsedIsNotLate
      <3> QED BY <3>2, <3>3, <3>4, <3>5 DEF IInv
    <2>2. CASE WriteFails(size) /\ UNCHANGED <<socketGeneration, greeted>>
      BY <1>7, <2>2, WriteFailsKeeps DEF Send
    <2> QED BY <1>7, <2>1, <2>2 DEF Send
  <1>8. CASE UNCHANGED vars
    BY <1>8 DEF vars, link, sending, backoff, IInv, Flags, Numbers, Window, OneConnection,
       ReadyIsConnected, NeverStranded, CurrentSocket, IdleHasNoSocket, UsedIsNotLate
  <1> QED BY <1>1, <1>2, <1>3, <1>4, <1>5, <1>6, <1>7, <1>8, <1>9 DEF Next

\* The invariant holds in every state.
THEOREM Invariance == Spec => []IInv
  BY InitIInv, NextKeeps, PTL DEF Spec

\* Every variable keeps its type: the window of bytes is never exceeded and the
\* backoff stays between its limits.
THEOREM TypeCorrect == Spec => []TypeOK
  <1>1. IInv => TypeOK BY DEF IInv, Flags, Numbers, Window, TypeOK
  <1> QED BY <1>1, Invariance, PTL

\* No callback of a retired, failed or replaced socket leaves a second connection.
THEOREM OneConnectionAlways == Spec => []OneConnection
  BY Invariance, PTL DEF IInv

\* "ready" is only ever said of an open connection that carried this connection's hello.
THEOREM ReadyOnlyConnected == Spec => []ReadyIsConnected
  BY Invariance, PTL DEF IInv

\* No failure strands the bridge without a connection or a reconnect timer.
THEOREM NeverStrandedAlways == Spec => []NeverStranded
  BY Invariance, PTL DEF IInv
-----------------------------------------------------------------------------
\* Whatever a step does, it leaves the window alone, queues one send, forgets
\* every send, or releases the oldest.
LEMMA StepOfWindow ==
  ASSUME [Next]_vars
  PROVE  \/ UNCHANGED sending
         \/ \E size \in Sizes \cup {HelloSize} : Queued(size)
         \/ ReleaseAllPending
         \/ Release
  <1>1. CASE Connect BY <1>1 DEF Connect
  <1>2. CASE ServerReady BY <1>2 DEF ServerReady
  <1>3. CASE Close BY <1>3 DEF Close
  <1>4. ASSUME NEW g \in alive, SocketReady(g) PROVE UNCHANGED sending \/ Queued(HelloSize) \/ ReleaseAllPending
    BY <1>4 DEF SocketReady, WriteFails, RetireSocket
  <1>5. ASSUME NEW g \in alive, SocketClosed(g) PROVE UNCHANGED sending \/ ReleaseAllPending
    BY <1>5 DEF SocketClosed, HandleClosed, RetireSocket
  <1>8. ASSUME NEW g \in late, ClosedLate(g) PROVE UNCHANGED sending \/ ReleaseAllPending
    BY <1>8 DEF ClosedLate, HandleClosed, RetireSocket
  <1>6. ASSUME NEW size \in Sizes, Send(size) PROVE Queued(size) \/ ReleaseAllPending
    BY <1>6 DEF Send, WriteFails, RetireSocket
  <1>7. CASE UNCHANGED vars BY <1>7 DEF vars
  <1> QED BY <1>1, <1>2, <1>3, <1>4, <1>5, <1>6, <1>7, <1>8 DEF Next

\* A step keeps the bytes accounted equal to the bytes outstanding: a release
\* never meets the clamp at zero.
LEMMA BytesKept == IInv /\ BytesAreOutstanding /\ [Next]_vars => BytesAreOutstanding'
  <1> SUFFICES ASSUME IInv, BytesAreOutstanding, [Next]_vars PROVE BytesAreOutstanding'
    OBVIOUS
  <1>1. releases \in Seq(Nat) /\ Sizes \cup {HelloSize} \subseteq Nat
    <2>1. Sizes \cup {HelloSize} \subseteq Nat OBVIOUS
    <2>2. releases \in Seq(Sizes \cup {HelloSize}) BY DEF IInv, Window
    <2> QED BY <2>1, <2>2, SizesAreNumbers
  <1>2. CASE UNCHANGED sending BY <1>2 DEF sending, BytesAreOutstanding
  <1>3. ASSUME NEW size \in Sizes \cup {HelloSize}, Queued(size) PROVE BytesAreOutstanding'
    <2>1. pendingBytes' = pendingBytes + size /\ releases' = Append(releases, size)
      BY <1>3 DEF Queued
    <2>2. Total(Append(releases, size)) = Total(releases) + size BY <1>1, TotalAppend
    <2> QED BY <2>1, <2>2 DEF BytesAreOutstanding
  <1>4. CASE ReleaseAllPending BY <1>4, TotalEmpty DEF ReleaseAllPending, BytesAreOutstanding
  <1>5. CASE Release
    <2>1. releases # <<>> /\ releases' = Tail(releases)
          /\ pendingBytes' = IF pendingBytes > Head(releases) THEN pendingBytes - Head(releases) ELSE 0
      BY <1>5 DEF Release
    <2>2. /\ Total(releases) = Head(releases) + Total(Tail(releases))
          /\ Head(releases) \in Nat /\ Tail(releases) \in Seq(Nat)
      BY <1>1, <2>1, TotalTail, HeadTailProperties
    <2>3. Total(Tail(releases)) \in Nat BY <2>2, TotalType
    <2>4. pendingBytes' = Total(Tail(releases)) BY <2>1, <2>2, <2>3 DEF BytesAreOutstanding
    <2> QED BY <2>1, <2>4 DEF BytesAreOutstanding
  <1> QED BY <1>2, <1>3, <1>4, <1>5, StepOfWindow

\* The bytes the device counts against its window are exactly those of the
\* sends whose release timers are armed, across reconnects, failed writes and
\* late timers: the window neither leaks nor opens early.
THEOREM BytesOutstandingAlways == Spec => []BytesAreOutstanding
  <1>1. Init => BytesAreOutstanding BY TotalEmpty DEF Init, BytesAreOutstanding
  <1> QED BY <1>1, BytesKept, Invariance, PTL DEF Spec
=============================================================================
