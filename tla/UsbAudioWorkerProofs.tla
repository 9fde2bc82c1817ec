------------------------ MODULE UsbAudioWorkerProofs ------------------------
(***************************************************************************)
(* Theorems about UsbAudioWorker, for any ring and any bounds.             *)
(***************************************************************************)
EXTENDS UsbAudioWorker, SequenceTheorems, TLAPS

IsOpen(m)  == m.id = "audio-open"

\* The streams the bridge has asked for are numbered in their order, and later
\* than the one that is open, the ones reported open and the ones reported drained.
OpensInOrder ==
  /\ \A i \in 1..Len(toMain) :
       /\ toMain[i].id \in {"audio-open", "microphone-open", "audio-end"} => toMain[i].n \in 1..streams
       /\ IsOpen(toMain[i]) => main.audio < toMain[i].n
  /\ \A i, j \in 1..Len(toMain) :
       i < j /\ IsOpen(toMain[i]) /\ IsOpen(toMain[j]) => toMain[i].n < toMain[j].n
  /\ \A k \in 1..Len(toWorker) : toWorker[k].id \in {"audio-opened", "audio-drained"} =>
       /\ toWorker[k].n \in 1..streams
       /\ main.audio = 0 \/ main.audio >= toWorker[k].n
       /\ \A i \in 1..Len(toMain) : IsOpen(toMain[i]) => toWorker[k].n < toMain[i].n

\* The bridge has one stream open, the last one; an output that was opened is
\* the only one the main VM may have open.
OpenIsLast ==
  /\ worker.output.stream \in {0, streams} /\ worker.input \in {0, streams}
  /\ worker.output.stream = 0 \/ worker.input = 0
  /\ worker.output.opened =>
       /\ worker.output.stream # 0 /\ main.audio \in {0, worker.output.stream}
       /\ \A i \in 1..Len(toMain) : ~IsOpen(toMain[i])
  /\ ~worker.output.opened => worker.output.written = 0 /\ ~worker.output.finished

\* What the stream has written is in the ring or was taken from it, and its end
\* is known, and its ring empty, before its last callbacks are waited for.
EndsArePlayed ==
  /\ main.audio # 0 /\ main.audio = worker.output.stream =>
       /\ written + Len(ring) = worker.output.written
       /\ main.ended => worker.output.finished
  /\ main.awaiting > 0 => main.audio # 0 /\ main.ended /\ ring = <<>>
  /\ \A i \in 1..Len(toMain) :
       toMain[i].id = "audio-end" /\ toMain[i].n = worker.output.stream => worker.output.finished
  /\ \A k \in 1..Len(toWorker) : toWorker[k].id = "audio-drained" =>
       /\ main.audio # toWorker[k].n
       /\ toWorker[k].n = worker.output.stream => worker.output.finished

Invariants == OpensInOrder /\ OpenIsLast /\ EndsArePlayed /\ PlaysItsOwn /\ DrainedIsPlayed

IInv == TypeOK /\ Invariants

\* The assumption, bound by bound.
LEMMA Bounds ==
  /\ RingBlocks \in Nat /\ DrainCallbacks \in Nat /\ DrainCallbacks > 0
  /\ MaxStreams \in Nat /\ MaxBlocks \in Nat /\ MaxSends \in Nat /\ MaxFaults \in Nat
  BY ConstantsAssumption

\* The least of two numbers.
LEMMA MinOfTwo ==
  ASSUME NEW a \in Nat, NEW b \in Nat
  PROVE  Min({a, b}) \in {a, b} /\ Min({a, b}) <= a /\ Min({a, b}) <= b
  <1>1. \E x \in {a, b} : \A y \in {a, b} : x <= y OBVIOUS
  <1>2. Min({a, b}) \in {a, b} /\ \A y \in {a, b} : Min({a, b}) <= y BY <1>1 DEF Min
  <1> QED BY <1>2
-----------------------------------------------------------------------------
(***************************************************************************)
(* What a step makes of the messages.                                      *)
(***************************************************************************)
MainKeeps ==
  \E o \in {0, 1} : \A i \in 1..Len(toMain') :
    \/ i + o \in 1..Len(toMain) /\ toMain'[i] = toMain[i + o]
    \/ toMain'[i].id \notin {"audio-open", "microphone-open", "audio-end"}

WorkerKeeps ==
  \A k \in 1..Len(toWorker') :
    \/ \E j \in 1..Len(toWorker) : toWorker'[k] = toWorker[j]
    \/ toWorker'[k].id \notin {"audio-opened", "audio-drained"}

\* Nothing arrives at the main VM and nothing is sent to it.
LEMMA MainStays == ASSUME TypeOK, toMain' = toMain PROVE MainKeeps
  <1>1. toMain \in Seq(MainMessages) BY DEF TypeOK
  <1>2. \A i \in 1..Len(toMain') : i + 0 \in 1..Len(toMain) /\ toMain'[i] = toMain[i + 0]
    BY <1>1
  <1> QED BY <1>2 DEF MainKeeps

\* The main VM takes a message.
LEMMA MainTail == ASSUME TypeOK, toMain # <<>>, toMain' = Tail(toMain) PROVE MainKeeps
  <1>1. toMain \in Seq(MainMessages) BY DEF TypeOK
  <1>2. \A i \in 1..Len(toMain') : i + 1 \in 1..Len(toMain) /\ toMain'[i] = toMain[i + 1]
    BY <1>1
  <1> QED BY <1>2 DEF MainKeeps

\* Messages that open or end nothing are sent to the main VM.
LEMMA MainGrows ==
  ASSUME TypeOK, NEW q \in Seq(MainMessages), toMain' = toMain \o q,
         \A i \in 1..Len(q) : q[i].id \notin {"audio-open", "microphone-open", "audio-end"}
  PROVE  MainKeeps
  <1>1. toMain \in Seq(MainMessages) BY DEF TypeOK
  <1>2. \A i \in 1..Len(toMain') :
          \/ i + 0 \in 1..Len(toMain) /\ toMain'[i] = toMain[i + 0]
          \/ toMain'[i].id \notin {"audio-open", "microphone-open", "audio-end"}
    <2>1. TAKE i \in 1..Len(toMain')
    <2>2. CASE i <= Len(toMain) BY <1>1, <2>2
    <2>3. CASE i > Len(toMain)
      <3>1. i - Len(toMain) \in 1..Len(q) /\ toMain'[i] = q[i - Len(toMain)] BY <1>1, <2>3
      <3> QED BY <3>1
    <2> QED BY <1>1, <2>2, <2>3
  <1> QED BY <1>2 DEF MainKeeps

\* Nothing is sent to the worker, or it is terminated.
LEMMA WorkerStays == ASSUME TypeOK, toWorker' = toWorker \/ toWorker' = <<>> PROVE WorkerKeeps
  BY DEF WorkerKeeps

\* The worker takes a message.
LEMMA WorkerTail ==
  ASSUME TypeOK, toWorker # <<>>, toWorker' = Tail(toWorker) \/ toWorker' = <<>> PROVE WorkerKeeps
  <1>1. toWorker \in Seq(WorkerMessages) BY DEF TypeOK
  <1>2. CASE toWorker' = Tail(toWorker)
    <2>1. \A k \in 1..Len(toWorker') : k + 1 \in 1..Len(toWorker) /\ toWorker'[k] = toWorker[k + 1]
      BY <1>1, <1>2
    <2> QED BY <2>1 DEF WorkerKeeps
  <1>3. CASE toWorker' = <<>> BY <1>3 DEF WorkerKeeps
  <1> QED BY <1>2, <1>3

\* A message for the worker: all that is new is the message itself.
LEMMA ToWorkerKeeps ==
  ASSUME TypeOK, NEW id \in ToWorkers, NEW s \in Nat, ToWorker(id, s)
  PROVE  /\ toWorker' \in Seq(WorkerMessages)
         /\ id \notin {"audio-opened", "audio-drained"} => WorkerKeeps
         /\ \A k \in 1..Len(toWorker') :
              \/ \E j \in 1..Len(toWorker) : toWorker'[k] = toWorker[j]
              \/ toWorker'[k] = Message(id, s)
  <1> DEFINE M == WorkerMessages
             m == Message(id, s)
  <1>1. toWorker \in Seq(M) /\ m \in M BY DEF TypeOK, Message, WorkerMessages
  <1>2. m.id = id BY DEF Message
  <1>3. toWorker' = toWorker \/ toWorker' = Append(toWorker, m) BY DEF ToWorker
  <1> HIDE DEF M, m
  <1>4. toWorker' \in Seq(M) BY <1>1, <1>3
  <1>5. \A k \in 1..Len(toWorker') :
          (k \in 1..Len(toWorker) /\ toWorker'[k] = toWorker[k]) \/ toWorker'[k] = m
    BY <1>1, <1>3
  <1> USE DEF M, m
  <1> QED BY <1>2, <1>4, <1>5 DEF WorkerKeeps
-----------------------------------------------------------------------------
(***************************************************************************)
(* Steps that open nothing, and leave the stream that is open as it is or  *)
(* close it.                                                               *)
(***************************************************************************)
\* The streams of the main VM and of the bridge stay, or are closed.
MainCloses ==
  \/ main'.audio = main.audio /\ main'.ended = main.ended /\ main'.awaiting = main.awaiting
  \/ main'.audio = 0 /\ main'.awaiting = 0

WorkerCloses ==
  /\ worker'.output \in {worker.output, NoOutput}
  /\ worker'.input \in {worker.input, 0}

\* The numbers of TypeOK.
LEMMA Numbers ==
  TypeOK => /\ streams \in Nat /\ main.audio \in 0..streams /\ main.awaiting \in Nat
            /\ main.writable \in Nat /\ worker.output.stream \in 0..streams
            /\ worker.output.written \in Nat /\ written \in Nat /\ Len(ring) \in Nat
            /\ ring \in Seq(1..streams)
  <1> SUFFICES ASSUME TypeOK
      PROVE  /\ streams \in Nat /\ main.audio \in 0..streams /\ main.awaiting \in Nat
             /\ main.writable \in Nat /\ worker.output.stream \in 0..streams
             /\ worker.output.written \in Nat /\ written \in Nat /\ Len(ring) \in Nat
             /\ ring \in Seq(1..streams)
    OBVIOUS
  <1>1. streams \in Nat /\ ring \in Seq(1..streams) /\ written \in Nat BY Bounds DEF TypeOK
  <1>2. main.audio \in 0..streams /\ main.awaiting \in 0..DrainCallbacks /\ main.writable \in 0..RingBlocks
    BY DEF TypeOK, MainRecords
  <1>3. worker.output \in OutputRecords BY DEF TypeOK, WorkerRecords
  <1>4. worker.output.stream \in 0..streams /\ worker.output.written \in 0..MaxBlocks
    BY <1>3 DEF OutputRecords
  <1>5. Len(ring) \in Nat BY <1>1
  <1> QED BY <1>1, <1>2, <1>4, <1>5, Bounds

\* What is in the queues is a message.
LEMMA MessagesAreTyped ==
  ASSUME TypeOK
  PROVE  /\ \A i \in 1..Len(toMain) : toMain[i].id \in ToMain /\ toMain[i].n \in Nat
         /\ \A k \in 1..Len(toWorker) : toWorker[k].id \in ToWorkers /\ toWorker[k].n \in Nat
  <1> DEFINE M == MainMessages
             W == WorkerMessages
  <1>1. toMain \in Seq(M) /\ toWorker \in Seq(W) BY DEF TypeOK
  <1>2. (\A m \in M : m.id \in ToMain /\ m.n \in Nat) /\ (\A m \in W : m.id \in ToWorkers /\ m.n \in Nat)
    BY DEF MainMessages, WorkerMessages
  <1> HIDE DEF M, W
  <1>3. (\A i \in 1..Len(toMain) : toMain[i] \in M) /\ (\A k \in 1..Len(toWorker) : toWorker[k] \in W)
    BY <1>1
  <1> QED BY <1>2, <1>3

\* The order of the streams outlives every step that opens and reports none.
LEMMA OpensKept ==
  ASSUME TypeOK, OpensInOrder, MainKeeps, WorkerKeeps, UNCHANGED streams,
         main'.audio \in {0, main.audio}
  PROVE  OpensInOrder'
  <1>0. /\ streams \in Nat /\ main.audio \in Nat
        /\ \A i \in 1..Len(toMain) : toMain[i].n \in Nat
        /\ \A k \in 1..Len(toWorker) : toWorker[k].n \in Nat
    BY Numbers, MessagesAreTyped
  <1>1. PICK o \in {0, 1} : \A i \in 1..Len(toMain') :
          \/ i + o \in 1..Len(toMain) /\ toMain'[i] = toMain[i + o]
          \/ toMain'[i].id \notin {"audio-open", "microphone-open", "audio-end"}
    BY DEF MainKeeps
  <1>2. ASSUME NEW i \in 1..Len(toMain')
        PROVE  /\ toMain'[i].id \in {"audio-open", "microphone-open", "audio-end"} => toMain'[i].n \in 1..streams
               /\ IsOpen(toMain'[i]) => main'.audio < toMain'[i].n
    BY <1>0, <1>1, <1>2 DEF OpensInOrder, IsOpen
  <1>3. ASSUME NEW i \in 1..Len(toMain'), NEW j \in 1..Len(toMain'),
               i < j, IsOpen(toMain'[i]), IsOpen(toMain'[j])
        PROVE  toMain'[i].n < toMain'[j].n
    <2>1. /\ i + o \in 1..Len(toMain) /\ toMain'[i] = toMain[i + o]
          /\ j + o \in 1..Len(toMain) /\ toMain'[j] = toMain[j + o] /\ i + o < j + o
      BY <1>1, <1>3 DEF IsOpen
    <2> QED BY <1>3, <2>1 DEF OpensInOrder
  <1>4. ASSUME NEW k \in 1..Len(toWorker'), toWorker'[k].id \in {"audio-opened", "audio-drained"}
        PROVE  /\ toWorker'[k].n \in 1..streams
               /\ main'.audio = 0 \/ main'.audio >= toWorker'[k].n
               /\ \A i \in 1..Len(toMain') : IsOpen(toMain'[i]) => toWorker'[k].n < toMain'[i].n
    <2>1. PICK j \in 1..Len(toWorker) : toWorker'[k] = toWorker[j]
      BY <1>4 DEF WorkerKeeps
    <2>2. ASSUME NEW i \in 1..Len(toMain'), IsOpen(toMain'[i])
          PROVE  i + o \in 1..Len(toMain) /\ toMain'[i] = toMain[i + o]
      BY <1>1, <2>2 DEF IsOpen
    <2> QED BY <1>4, <2>1, <2>2 DEF OpensInOrder
  <1> QED BY <1>2, <1>3, <1>4 DEF OpensInOrder

\* The bridge has the last stream open, or none.
LEMMA LastKept ==
  ASSUME TypeOK, OpenIsLast, MainKeeps, UNCHANGED streams, main'.audio \in {0, main.audio}, WorkerCloses
  PROVE  OpenIsLast'
  <1>1. (\A i \in 1..Len(toMain) : ~IsOpen(toMain[i])) => \A i \in 1..Len(toMain') : ~IsOpen(toMain'[i])
    BY DEF MainKeeps, IsOpen
  <1>2. CASE worker'.output = worker.output BY <1>1, <1>2 DEF OpenIsLast, WorkerCloses
  <1>3. CASE worker'.output = NoOutput
    <2>1. worker'.output.stream = 0 /\ ~worker'.output.opened /\ worker'.output.written = 0 /\ ~worker'.output.finished
      BY <1>3 DEF NoOutput
    <2> QED BY <2>1 DEF OpenIsLast, WorkerCloses
  <1> QED BY <1>2, <1>3 DEF WorkerCloses

\* What is known of the ring outlives every step that leaves the ring alone.
LEMMA PlayedKept ==
  ASSUME TypeOK, OpensInOrder, EndsArePlayed, PlaysItsOwn, DrainedIsPlayed, MainKeeps, WorkerKeeps,
         UNCHANGED <<streams, ring, written>>, MainCloses, WorkerCloses
  PROVE  EndsArePlayed' /\ PlaysItsOwn' /\ DrainedIsPlayed'
  <1>0. streams \in Nat BY Numbers
  <1>n. NoOutput.stream = 0 BY DEF NoOutput
  <1>1. PlaysItsOwn' BY DEF PlaysItsOwn, MainCloses
  <1>2. ASSUME NEW i \in 1..Len(toMain'), toMain'[i].id = "audio-end", toMain'[i].n = worker'.output.stream
        PROVE  worker'.output.finished
    <2>1. PICK j \in 1..Len(toMain) : toMain'[i] = toMain[j] BY <1>2 DEF MainKeeps
    <2>2. toMain[j].n # 0 BY <1>0, <1>2, <2>1 DEF OpensInOrder
    <2> QED BY <1>n, <1>2, <2>1, <2>2 DEF EndsArePlayed, WorkerCloses
  <1>3. ASSUME NEW k \in 1..Len(toWorker'), toWorker'[k].id = "audio-drained"
        PROVE  /\ main'.audio # toWorker'[k].n
               /\ toWorker'[k].n = worker'.output.stream =>
                    worker'.output.finished /\ written' = worker'.output.written /\ ring' = <<>>
    <2>1. PICK j \in 1..Len(toWorker) : toWorker'[k] = toWorker[j] BY <1>3 DEF WorkerKeeps
    <2>2. toWorker[j].n # 0 BY <1>0, <1>3, <2>1 DEF OpensInOrder
    <2> QED BY <1>n, <1>3, <2>1, <2>2 DEF EndsArePlayed, DrainedIsPlayed, MainCloses, WorkerCloses
  <1>4. /\ main'.audio # 0 /\ main'.audio = worker'.output.stream =>
             /\ written' + Len(ring') = worker'.output.written
             /\ main'.ended => worker'.output.finished
        /\ main'.awaiting > 0 => main'.audio # 0 /\ main'.ended /\ ring' = <<>>
    BY <1>n DEF EndsArePlayed, MainCloses, WorkerCloses
  <1> QED BY <1>1, <1>2, <1>3, <1>4 DEF EndsArePlayed, DrainedIsPlayed

\* All of them.
LEMMA Kept ==
  ASSUME TypeOK, Invariants, MainKeeps, WorkerKeeps, UNCHANGED <<streams, ring, written>>,
         MainCloses, WorkerCloses
  PROVE  Invariants'
  <1>1. main'.audio \in {0, main.audio} BY DEF MainCloses
  <1> QED BY <1>1, OpensKept, LastKept, PlayedKept DEF Invariants
-----------------------------------------------------------------------------
(***************************************************************************)
(* The steps of the ring.                                                  *)
(***************************************************************************)
\* What the AudioOut takes from the ring counts as written.
LEMMA DrainTakes ==
  ASSUME TypeOK, NEW m \in MainRecords, Drain(m)
  PROVE  /\ main' \in MainRecords /\ main'.audio = m.audio /\ main'.ended = m.ended /\ main'.mic = m.mic
         /\ main'.worker = m.worker
         /\ ring' \in Seq(1..streams) /\ Len(ring') <= Len(ring) /\ written' \in Nat
         /\ written' + Len(ring') = written + Len(ring)
         /\ \A k \in 1..Len(ring') : \E j \in 1..Len(ring) : ring'[k] = ring[j]
         /\ ring = <<>> => ring' = <<>> /\ written' = written
         /\ \/ main'.awaiting = m.awaiting /\ ring' = ring
            \/ main'.awaiting = 0
            \/ main'.awaiting > 0 /\ m.audio # 0 /\ m.ended /\ ring' = <<>>
  <1> DEFINE n == Min({m.writable, Len(ring)})
  <1>0. /\ ring \in Seq(1..streams) /\ Len(ring) \in Nat /\ written \in Nat
        /\ m.writable \in 0..RingBlocks /\ m.awaiting \in 0..DrainCallbacks /\ m.writable \in Nat
    BY Numbers, Bounds DEF MainRecords
  <1>1. n \in 0..Len(ring) /\ n <= m.writable BY <1>0, MinOfTwo
  <1>2. CASE m.audio = 0 \/ ~m.started \/ m.awaiting > 0
    <2>1. main' = m /\ ring' = ring /\ written' = written BY <1>2 DEF Drain
    <2> QED BY <1>0, <2>1
  <1>3. CASE ~(m.audio = 0 \/ ~m.started \/ m.awaiting > 0)
    <2> DEFINE a == IF m.ended /\ ring' = <<>> THEN DrainCallbacks ELSE 0
    <2>1. /\ ring' = SubSeq(ring, n + 1, Len(ring)) /\ written' = written + n
          /\ main' = [m EXCEPT !.writable = @ - n, !.awaiting = a]
      BY <1>3 DEF Drain
    <2>2. a \in 0..DrainCallbacks /\ (a = 0 \/ (m.ended /\ ring' = <<>>))
      <3>1. CASE m.ended /\ ring' = <<>> BY <3>1, Bounds
      <3>2. CASE ~(m.ended /\ ring' = <<>>) BY <3>2, Bounds
      <3> QED BY <3>1, <3>2
    <2> HIDE DEF n, a
    <2>3. m.writable - n \in 0..RingBlocks BY <1>0, <1>1, Bounds
    <2>4. /\ main' \in MainRecords /\ main'.audio = m.audio /\ main'.ended = m.ended /\ main'.mic = m.mic
          /\ main'.worker = m.worker /\ main'.awaiting = a
      BY <2>1, <2>2, <2>3 DEF MainRecords
    <2>5. /\ ring' \in Seq(1..streams) /\ Len(ring') = Len(ring) - n
          /\ \A k \in 1..Len(ring') : k + n \in 1..Len(ring) /\ ring'[k] = ring[k + n]
      <3>0. n + 1 \in Int /\ Len(ring) \in Int /\ n \in Nat BY <1>0, <1>1
      <3>1. \A i \in (n + 1)..Len(ring) : ring[i] \in 1..streams
        <4> DEFINE S == 1..streams
        <4>1. ring \in Seq(S) BY <1>0
        <4>2. \A i \in (n + 1)..Len(ring) : i \in 1..Len(ring) BY <3>0
        <4> HIDE DEF S
        <4>3. \A i \in 1..Len(ring) : ring[i] \in S BY <4>1
        <4> QED BY <4>2, <4>3 DEF S
      <3>2. /\ ring' \in Seq(1..streams)
            /\ Len(ring') = IF n + 1 <= Len(ring) THEN Len(ring) - (n + 1) + 1 ELSE 0
            /\ \A i \in 1..(Len(ring) - (n + 1) + 1) : ring'[i] = ring[(n + 1) + i - 1]
        BY <2>1, <3>0, <3>1, SubSeqProperties
      <3>3. Len(ring') = Len(ring) - n BY <1>0, <1>1, <3>0, <3>2
      <3> QED BY <1>0, <1>1, <3>0, <3>2, <3>3
    <2>6. /\ Len(ring') <= Len(ring) /\ written' \in Nat /\ written' + Len(ring') = written + Len(ring)
      BY <1>0, <1>1, <2>1, <2>5
    <2>7. ring = <<>> => ring' = <<>> /\ written' = written
      BY <1>0, <1>1, <2>1, <2>5
    <2>8. a = 0 \/ a > 0 BY <2>2, Bounds
    <2> QED BY <1>3, <2>2, <2>4, <2>5, <2>6, <2>7, <2>8
  <1> QED BY <1>2, <1>3

\* The main VM drains the ring, perhaps after the start or the end of the stream.
LEMMA DrainKept ==
  ASSUME TypeOK, Invariants, NEW m \in MainRecords, Drain(m), MainKeeps, WorkerKeeps,
         UNCHANGED <<streams, worker>>, m.audio = main.audio, m.awaiting = main.awaiting,
         main.ended => m.ended,
         \/ m.ended = main.ended
         \/ main.audio = worker.output.stream => worker.output.finished
  PROVE  Invariants'
  <1>0. /\ streams \in Nat /\ main.audio \in Nat /\ written \in Nat /\ Len(ring) \in Nat
        /\ main.awaiting \in Nat /\ ring \in Seq(1..streams)
    BY Numbers
  <1>1. /\ main'.audio = main.audio /\ main'.ended = m.ended
        /\ written' + Len(ring') = written + Len(ring)
        /\ \A k \in 1..Len(ring') : \E j \in 1..Len(ring) : ring'[k] = ring[j]
        /\ ring = <<>> => ring' = <<>> /\ written' = written
        /\ \/ main'.awaiting = main.awaiting /\ ring' = ring
           \/ main'.awaiting = 0
           \/ main'.awaiting > 0 /\ main.audio # 0 /\ m.ended /\ ring' = <<>>
    BY DrainTakes
  <1>2. OpensInOrder' BY <1>1, OpensKept DEF Invariants
  <1>3. WorkerCloses BY DEF WorkerCloses
  <1>4. OpenIsLast' BY <1>1, <1>3, LastKept DEF Invariants
  <1>5. PlaysItsOwn' BY <1>1 DEF PlaysItsOwn, Invariants
  <1>6. ASSUME NEW i \in 1..Len(toMain'), toMain'[i].id = "audio-end", toMain'[i].n = worker'.output.stream
        PROVE  worker'.output.finished
    <2>1. PICK j \in 1..Len(toMain) : toMain'[i] = toMain[j] BY <1>6 DEF MainKeeps
    <2> QED BY <1>6, <2>1 DEF EndsArePlayed, Invariants
  <1>7. ASSUME NEW k \in 1..Len(toWorker'), toWorker'[k].id = "audio-drained"
        PROVE  /\ main'.audio # toWorker'[k].n
               /\ toWorker'[k].n = worker'.output.stream =>
                    worker'.output.finished /\ written' = worker'.output.written /\ ring' = <<>>
    <2>1. PICK j \in 1..Len(toWorker) : toWorker'[k] = toWorker[j] BY <1>7 DEF WorkerKeeps
    <2> QED BY <1>1, <1>7, <2>1 DEF EndsArePlayed, DrainedIsPlayed, Invariants
  <1>8. /\ main'.audio # 0 /\ main'.audio = worker'.output.stream =>
             /\ written' + Len(ring') = worker'.output.written
             /\ main'.ended => worker'.output.finished
    BY <1>1 DEF EndsArePlayed, Invariants
  <1>9. main.awaiting > 0 => main' = m /\ ring' = ring
    BY DEF Drain
  <1>10. main'.awaiting > 0 => main'.audio # 0 /\ main'.ended /\ ring' = <<>>
    BY <1>0, <1>1, <1>9 DEF EndsArePlayed, Invariants
  <1> QED BY <1>2, <1>4, <1>5, <1>6, <1>7, <1>8, <1>10 DEF EndsArePlayed, DrainedIsPlayed, Invariants
-----------------------------------------------------------------------------
(***************************************************************************)
(* The main VM.                                                            *)
(***************************************************************************)
\* What closing a device leaves is a main VM.
LEMMA ClosingTypes ==
  ASSUME TypeOK, NEW m \in MainRecords
  PROVE  /\ CloseMicrophone(m) \in MainRecords /\ CloseMicrophone(m).audio = m.audio
         /\ CloseMicrophone(m).ended = m.ended /\ CloseMicrophone(m).awaiting = m.awaiting
         /\ CloseAudio(m) \in MainRecords /\ CloseAudio(m).audio = 0 /\ CloseAudio(m).awaiting = 0
         /\ CloseAudio(m).ended = FALSE
         /\ [m EXCEPT !.worker = FALSE] \in MainRecords /\ [m EXCEPT !.worker = FALSE].audio = m.audio
         /\ [m EXCEPT !.worker = FALSE].awaiting = m.awaiting
  <1>1. 0 \in 0..streams /\ 0 \in 0..DrainCallbacks /\ 0 \in 0..RingBlocks BY Numbers, Bounds
  <1> QED BY <1>1 DEF CloseMicrophone, CloseAudio, MainRecords

\* Faults are counted up to their bound.
LEMMA FaultTypes ==
  ASSUME TypeOK, Breaks \/ Works PROVE faults' \in 0..MaxFaults
  BY Bounds DEF TypeOK, Breaks, Works

\* Settling leaves a state of every promise.
LEMMA SettleTypes ==
  ASSUME TypeOK, SettleAll \/ sends' = sends \/ (\E r : sends' = [sends EXCEPT ![r] = "settled"])
  PROVE  sends' \in [Sends -> {"none", "pending", "settled"}]
  BY DEF TypeOK, SettleAll

\* What has arrived is gone.
LEMMA MainReceives ==
  ASSUME TypeOK, toMain' = toMain \/ (toMain # <<>> /\ toMain' = Tail(toMain))
  PROVE  toMain' \in Seq(MainMessages) /\ MainKeeps
  <1>1. toMain \in Seq(MainMessages) BY DEF TypeOK
  <1>2. CASE toMain' = toMain BY <1>1, <1>2, MainStays
  <1>3. CASE toMain # <<>> /\ toMain' = Tail(toMain) BY <1>1, <1>3, HeadTailProperties, MainTail
  <1> QED BY <1>2, <1>3

\* What has arrived is gone, and all of it once the worker is closed.
LEMMA WorkerReceives ==
  ASSUME TypeOK, \/ toWorker' = toWorker \/ toWorker' = <<>>
                 \/ toWorker # <<>> /\ toWorker' = Tail(toWorker)
  PROVE  toWorker' \in Seq(WorkerMessages) /\ WorkerKeeps
  <1>1. toWorker \in Seq(WorkerMessages) BY DEF TypeOK
  <1>2. CASE toWorker' = toWorker BY <1>1, <1>2, WorkerStays
  <1>3. CASE toWorker' = <<>> BY <1>3, WorkerStays
  <1>4. CASE toWorker # <<>> /\ toWorker' = Tail(toWorker) BY <1>1, <1>4, HeadTailProperties, WorkerTail
  <1> QED BY <1>2, <1>3, <1>4

\* A worker that is terminated has nothing open.
LEMMA NoWorkerTypes ==
  ASSUME TypeOK
  PROVE  NoWorker \in WorkerRecords /\ NoWorker.output = NoOutput /\ NoWorker.input = 0
  <1>1. 0 \in 0..streams /\ 0 \in 0..MaxBlocks BY Numbers, Bounds
  <1>2. NoOutput \in OutputRecords BY <1>1 DEF NoOutput, OutputRecords
  <1> QED BY <1>1, <1>2 DEF NoWorker, WorkerRecords

\* What a step of the main VM that opens nothing owes.
LEMMA MainStep ==
  ASSUME IInv, main' \in MainRecords, MainCloses, UNCHANGED <<ring, written, streams>>,
         worker' = worker \/ worker' = NoWorker,
         toMain' = toMain \/ (toMain # <<>> /\ toMain' = Tail(toMain)),
         \/ toWorker' = toWorker \/ toWorker' = <<>>
         \/ \E id \in ToWorkers \ {"audio-opened", "audio-drained"} : \E s \in Nat : ToWorker(id, s),
         sends' \in [Sends -> {"none", "pending", "settled"}], faults' \in 0..MaxFaults
  PROVE  IInv'
  <1>1. TypeOK /\ Invariants BY DEF IInv
  <1>2. MainKeeps /\ toMain' \in Seq(MainMessages) BY <1>1, MainReceives
  <1>3. WorkerKeeps /\ toWorker' \in Seq(WorkerMessages)
    <2>1. ASSUME NEW id \in ToWorkers \ {"audio-opened", "audio-drained"}, NEW s \in Nat, ToWorker(id, s)
          PROVE  WorkerKeeps /\ toWorker' \in Seq(WorkerMessages)
      BY <1>1, <2>1, ToWorkerKeeps
    <2>2. CASE toWorker' = toWorker \/ toWorker' = <<>> BY <1>1, <2>2, WorkerReceives
    <2> QED BY <2>1, <2>2
  <1>4. worker' \in WorkerRecords /\ WorkerCloses
    <2>1. CASE worker' = worker BY <1>1, <2>1 DEF TypeOK, WorkerCloses
    <2>2. CASE worker' = NoWorker BY <1>1, <2>2, NoWorkerTypes DEF WorkerCloses
    <2> QED BY <2>1, <2>2
  <1>5. WorkerCloses BY <1>4
  <1>6. Invariants' BY <1>1, <1>2, <1>3, <1>5, Kept
  <1>7. TypeOK'
    BY <1>1, <1>2, <1>3, <1>4 DEF TypeOK, MainRecords, WorkerRecords, OutputRecords
  <1> QED BY <1>6, <1>7 DEF IInv

\* 'audio-open': the ring starts over with the stream.
LEMMA OpenAudioStep ==
  ASSUME IInv, toMain # <<>>, toMain' = Tail(toMain), Head(toMain).id = "audio-open",
         OpenAudio(Head(toMain).n), UNCHANGED <<streams, worker>>
  PROVE  IInv'
  <1> DEFINE s == Head(toMain).n
  <1>1. TypeOK /\ Invariants BY DEF IInv
  <1>2. s \in Nat /\ s \in 1..streams /\ streams \in Nat /\ main.audio < s /\ Head(toMain) = toMain[1]
        /\ 1 \in 1..Len(toMain)
    <2>1. 1 \in 1..Len(toMain) /\ Head(toMain) = toMain[1] BY <1>1 DEF TypeOK
    <2> QED BY <1>1, <2>1, Numbers, MessagesAreTyped DEF Invariants, OpensInOrder, IsOpen
  <1>3. main \in MainRecords BY <1>1 DEF TypeOK
  <1>4. CASE /\ main.mic = 0 /\ Works /\ ring' = <<>> /\ written' = 0
             /\ main' = [CloseAudio(main) EXCEPT !.audio = s] /\ ToWorker("audio-opened", s)
             /\ UNCHANGED sends
    <2>1. /\ main' \in MainRecords /\ main'.audio = s /\ main'.awaiting = 0 /\ main'.ended = FALSE
      <3> DEFINE c == CloseAudio(main)
      <3>1. c \in MainRecords /\ c.awaiting = 0 /\ c.ended = FALSE /\ main' = [c EXCEPT !.audio = s]
        BY <1>1, <1>3, <1>4, ClosingTypes
      <3> HIDE DEF c
      <3> QED BY <1>2, <3>1 DEF MainRecords
    <2>2. /\ toWorker' \in Seq(WorkerMessages)
          /\ \A k \in 1..Len(toWorker') :
               (\E j \in 1..Len(toWorker) : toWorker'[k] = toWorker[j]) \/ toWorker'[k] = Message("audio-opened", s)
      BY <1>1, <1>2, <1>4, ToWorkerKeeps DEF ToWorkers
    <2>3. /\ toMain' \in Seq(MainMessages)
          /\ \A i \in 1..Len(toMain') : i + 1 \in 1..Len(toMain) /\ toMain'[i] = toMain[i + 1] /\ 1 < i + 1
      BY <1>1 DEF TypeOK
    <2>4. TypeOK'
      BY <1>1, <1>2, <1>4, <2>1, <2>2, <2>3, Bounds DEF TypeOK, Works, MainRecords, WorkerRecords, OutputRecords
    <2>5. \A i \in 1..Len(toMain') : IsOpen(toMain'[i]) => s < toMain'[i].n
      BY <1>1, <1>2, <2>3 DEF Invariants, OpensInOrder, IsOpen
    <2>6. ~worker.output.opened
      BY <1>1, <1>2 DEF Invariants, OpenIsLast, IsOpen
    <2>m. Message("audio-opened", s).id = "audio-opened" /\ Message("audio-opened", s).n = s BY DEF Message
    <2> HIDE DEF s
    <2>7. OpensInOrder'
      <3>1. ASSUME NEW i \in 1..Len(toMain'), toMain'[i].id \in {"audio-open", "microphone-open", "audio-end"}
            PROVE  toMain'[i].n \in 1..streams
        BY <1>1, <2>3, <3>1 DEF Invariants, OpensInOrder
      <3>2. ASSUME NEW i \in 1..Len(toMain'), NEW j \in 1..Len(toMain'),
                   i < j, IsOpen(toMain'[i]), IsOpen(toMain'[j])
            PROVE  toMain'[i].n < toMain'[j].n
        <4>1. i + 1 < j + 1 BY <3>2
        <4> QED BY <1>1, <2>3, <3>2, <4>1 DEF Invariants, OpensInOrder
      <3>3. ASSUME NEW k \in 1..Len(toWorker'), toWorker'[k].id \in {"audio-opened", "audio-drained"}
            PROVE  /\ toWorker'[k].n \in 1..streams /\ s >= toWorker'[k].n
                   /\ \A i \in 1..Len(toMain') : IsOpen(toMain'[i]) => toWorker'[k].n < toMain'[i].n
        <4>1. CASE toWorker'[k] = Message("audio-opened", s) BY <1>2, <2>5, <2>m, <4>1
        <4>2. ASSUME NEW j \in 1..Len(toWorker), toWorker'[k] = toWorker[j]
              PROVE  /\ toWorker'[k].n \in 1..streams /\ s >= toWorker'[k].n
                     /\ \A i \in 1..Len(toMain') : IsOpen(toMain'[i]) => toWorker'[k].n < toMain'[i].n
          <5>1. toWorker[j].n \in 1..streams /\ toWorker[j].n < s
            BY <1>1, <1>2, <3>3, <4>2 DEF Invariants, OpensInOrder, IsOpen, s
          <5>2. \A i \in 1..Len(toMain') : IsOpen(toMain'[i]) => toWorker[j].n < toMain'[i].n
            BY <1>1, <2>3, <3>3, <4>2 DEF Invariants, OpensInOrder
          <5>3. s >= toWorker[j].n BY <1>2, <5>1
          <5> QED BY <4>2, <5>1, <5>2, <5>3
        <4> QED BY <2>2, <4>1, <4>2
      <3> QED BY <2>1, <2>5, <3>1, <3>2, <3>3 DEF OpensInOrder
    <2>8. OpenIsLast' BY <1>1, <2>6 DEF Invariants, OpenIsLast
    <2>9. PlaysItsOwn' BY <1>4 DEF PlaysItsOwn
    <2>10. ASSUME NEW k \in 1..Len(toWorker'), toWorker'[k].id = "audio-drained"
           PROVE  /\ s # toWorker'[k].n /\ toWorker'[k].n # worker.output.stream
      <3>1. PICK j \in 1..Len(toWorker) : toWorker'[k] = toWorker[j] BY <2>2, <2>10, <2>m
      <3>2. toWorker[j].n \in 1..streams /\ toWorker[j].n < s
        BY <1>1, <1>2, <2>10, <3>1 DEF Invariants, OpensInOrder, IsOpen, s
      <3>3. toWorker[j].n # streams BY <1>2, <3>2
      <3>4. worker.output.stream \in {0, streams} BY <1>1 DEF Invariants, OpenIsLast
      <3> QED BY <1>2, <3>1, <3>2, <3>3, <3>4
    <2>11. EndsArePlayed'
      <3>1. written' + Len(ring') = 0 BY <1>4
      <3>2. worker.output.written = 0 BY <1>1, <2>6 DEF Invariants, OpenIsLast
      <3>3. \A i \in 1..Len(toMain') :
              toMain'[i].id = "audio-end" /\ toMain'[i].n = worker.output.stream => worker.output.finished
        BY <1>1, <2>3 DEF Invariants, EndsArePlayed
      <3> QED BY <2>1, <2>10, <3>1, <3>2, <3>3 DEF EndsArePlayed
    <2>12. DrainedIsPlayed' BY <2>10 DEF DrainedIsPlayed
    <2> QED BY <2>4, <2>7, <2>8, <2>9, <2>11, <2>12 DEF IInv, Invariants
  <1>5. CASE /\ IF main.mic # 0 THEN Works ELSE Breaks
             /\ main' = CloseAudio(main) /\ ToWorker("audio-failed", s)
             /\ UNCHANGED <<ring, written, sends>>
    <2>1. faults' \in 0..MaxFaults BY <1>1, <1>5, FaultTypes
    <2>2. main' \in MainRecords /\ MainCloses BY <1>1, <1>3, <1>5, ClosingTypes DEF MainCloses
    <2>3. "audio-failed" \in ToWorkers \ {"audio-opened", "audio-drained"} BY DEF ToWorkers
    <2>4. sends' \in [Sends -> {"none", "pending", "settled"}] BY <1>1, <1>5, SettleTypes
    <2> QED BY <1>2, <1>5, <2>1, <2>2, <2>3, <2>4, MainStep
  <1> QED BY <1>4, <1>5 DEF OpenAudio

\* The head of what the worker sent.
LEMMA HeadOfMain ==
  ASSUME IInv, toMain # <<>>
  PROVE  /\ Head(toMain).id \in ToMain /\ Head(toMain).n \in Nat
         /\ Head(toMain).id \in {"audio-open", "microphone-open", "audio-end"} => Head(toMain).n \in 1..streams
         /\ Head(toMain).id = "audio-end" /\ Head(toMain).n = worker.output.stream => worker.output.finished
  <1>1. TypeOK /\ OpensInOrder /\ EndsArePlayed BY DEF IInv, Invariants
  <1>2. 1 \in 1..Len(toMain) /\ Head(toMain) = toMain[1] BY <1>1 DEF TypeOK
  <1> QED BY <1>1, <1>2, MessagesAreTyped DEF OpensInOrder, EndsArePlayed

\* What a step of the main VM that drains the ring owes.
LEMMA MainDrains ==
  ASSUME IInv, NEW m \in MainRecords, Drain(m), m.audio = main.audio, m.awaiting = main.awaiting,
         main.ended => m.ended,
         m.ended = main.ended \/ (main.audio = worker.output.stream => worker.output.finished),
         toMain' = toMain \/ (toMain # <<>> /\ toMain' = Tail(toMain)),
         UNCHANGED <<streams, worker, toWorker, sends, faults>>
  PROVE  IInv'
  <1>1. TypeOK /\ Invariants BY DEF IInv
  <1>2. MainKeeps /\ WorkerKeeps BY <1>1, MainStays, MainTail, WorkerStays
  <1>3. Invariants' BY <1>1, <1>2, DrainKept
  <1>4. toMain' \in Seq(MainMessages) BY <1>1, MainReceives
  <1>5. /\ main' \in MainRecords /\ ring' \in Seq(1..streams) /\ written' \in Nat /\ Len(ring') <= RingBlocks
    BY <1>1, DrainTakes, Bounds DEF TypeOK
  <1>6. TypeOK' BY <1>1, <1>4, <1>5 DEF TypeOK, MainRecords, WorkerRecords, OutputRecords
  <1> QED BY <1>3, <1>6 DEF IInv

\* #handleWorkerMessage, message by message.
LEMMA MainReadsStep == IInv /\ MainReads => IInv'
  <1> SUFFICES ASSUME IInv, MainReads PROVE IInv' OBVIOUS
  <1> DEFINE m == Head(toMain)
  <1>1. TypeOK /\ Invariants /\ main \in MainRecords BY DEF IInv, TypeOK
  <1>2. toMain # <<>> /\ toMain' = Tail(toMain) /\ UNCHANGED streams BY DEF MainReads
  <1>3. /\ m.id \in ToMain /\ m.n \in Nat
        /\ m.id \in {"audio-open", "microphone-open", "audio-end"} => m.n \in 1..streams
        /\ m.id = "audio-end" /\ m.n = worker.output.stream => worker.output.finished
    BY <1>2, HeadOfMain
  <1>w. m.id # "error" => worker' = worker BY DEF MainReads, Terminates
  <1> HIDE DEF m
  <1>4. CASE m.id = "microphone-open"
    <2> DEFINE s == m.n
    <2>1. OpenMicrophone(s) BY <1>4 DEF MainReads, m
    <2>2. [main EXCEPT !.mic = s] \in MainRecords /\ [main EXCEPT !.mic = s].audio = main.audio
          /\ [main EXCEPT !.mic = s].ended = main.ended /\ [main EXCEPT !.mic = s].awaiting = main.awaiting
      BY <1>1, <1>3, <1>4 DEF MainRecords
    <2>3. /\ CloseMicrophone(main) \in MainRecords /\ CloseMicrophone(main).audio = main.audio
          /\ CloseMicrophone(main).ended = main.ended /\ CloseMicrophone(main).awaiting = main.awaiting
      BY <1>1, ClosingTypes
    <2>4. main' \in MainRecords /\ MainCloses BY <2>1, <2>2, <2>3 DEF OpenMicrophone, MainCloses
    <2>5. UNCHANGED <<ring, written, sends>> /\ (Breaks \/ Works) BY <2>1 DEF OpenMicrophone
    <2>6. \E id \in ToWorkers \ {"audio-opened", "audio-drained"} : ToWorker(id, s)
      BY <2>1 DEF OpenMicrophone, ToWorkers
    <2>7. faults' \in 0..MaxFaults BY <1>1, <2>5, FaultTypes
    <2> QED BY <1>1, <1>2, <1>3, <1>4, <1>w, <2>4, <2>5, <2>6, <2>7, SettleTypes, MainStep
  <1>5. CASE m.id = "audio-open"
    <2>1. OpenAudio(m.n) BY <1>5 DEF MainReads, m
    <2> QED BY <1>2, <1>5, <1>w, <2>1, OpenAudioStep DEF m
  <1>6. CASE m.id = "audio-start"
    <2> DEFINE d == IF main.audio = m.n THEN [main EXCEPT !.started = TRUE] ELSE main
    <2>1. Drain(d) /\ UNCHANGED <<toWorker, sends, faults>> BY <1>6 DEF MainReads, m, StartAudio
    <2>2. d \in MainRecords /\ d.audio = main.audio /\ d.awaiting = main.awaiting /\ d.ended = main.ended
      BY <1>1 DEF MainRecords
    <2> HIDE DEF d
    <2> QED BY <1>2, <1>6, <1>w, <2>1, <2>2, MainDrains
  <1>7. CASE m.id = "audio-end"
    <2> DEFINE d == IF main.audio = m.n THEN [main EXCEPT !.ended = TRUE] ELSE main
    <2>1. Drain(d) /\ UNCHANGED <<toWorker, sends, faults>> BY <1>7 DEF MainReads, m, EndAudio
    <2>2. d \in MainRecords /\ d.audio = main.audio /\ d.awaiting = main.awaiting
      BY <1>1 DEF MainRecords
    <2>3. main.ended => d.ended BY <1>1 DEF MainRecords
    <2>4. d.ended = main.ended \/ (main.audio = worker.output.stream => worker.output.finished)
      BY <1>3, <1>7
    <2> HIDE DEF d
    <2> QED BY <1>2, <1>7, <1>w, <2>1, <2>2, <2>3, <2>4, MainDrains
  <1>8. CASE m.id = "microphone-close"
    <2>1. /\ main' = (IF main.mic = m.n THEN CloseMicrophone(main) ELSE main)
          /\ UNCHANGED <<ring, written, toWorker, sends, faults>>
      BY <1>8 DEF MainReads, m
    <2>2. main' \in MainRecords /\ MainCloses BY <1>1, <2>1, ClosingTypes DEF MainCloses
    <2> QED BY <1>1, <1>2, <1>8, <1>w, <2>1, <2>2, SettleTypes, MainStep DEF TypeOK
  <1>9. CASE m.id = "audio-close"
    <2>1. /\ main' = (IF main.audio = m.n THEN CloseAudio(main) ELSE main)
          /\ UNCHANGED <<ring, written, toWorker, sends, faults>>
      BY <1>9 DEF MainReads, m
    <2>2. main' \in MainRecords /\ MainCloses BY <1>1, <2>1, ClosingTypes DEF MainCloses
    <2> QED BY <1>1, <1>2, <1>9, <1>w, <2>1, <2>2, SettleTypes, MainStep DEF TypeOK
  <1>10. CASE m.id = "send-event-result"
    <2>1. sends' = [sends EXCEPT ![m.n] = "settled"] /\ UNCHANGED <<main, ring, written, toWorker, faults>>
      BY <1>10 DEF MainReads, m
    <2>2. MainCloses BY <2>1 DEF MainCloses
    <2>3. sends' \in [Sends -> {"none", "pending", "settled"}] BY <1>1, <2>1, SettleTypes
    <2> QED BY <1>1, <1>2, <1>10, <1>w, <2>1, <2>2, <2>3, MainStep DEF TypeOK
  <1>11. CASE m.id \in {"error", "closed"}
    <2>1. WorkerGone /\ (toWorker' = toWorker \/ toWorker' = <<>>)
          /\ (worker' = worker \/ worker' = NoWorker)
      BY <1>11 DEF MainReads, m
    <2> DEFINE c == CloseAudio(CloseMicrophone(main))
    <2>2. c \in MainRecords /\ c.audio = 0 /\ c.awaiting = 0 BY <1>1, ClosingTypes
    <2>3. main' = [c EXCEPT !.worker = FALSE] /\ SettleAll /\ UNCHANGED <<ring, written, faults>>
      BY <2>1 DEF WorkerGone
    <2> HIDE DEF c
    <2>4. main' \in MainRecords /\ main'.audio = 0 /\ main'.awaiting = 0 BY <1>1, <2>2, <2>3, ClosingTypes
    <2>5. MainCloses BY <2>4 DEF MainCloses
    <2>6. sends' \in [Sends -> {"none", "pending", "settled"}] BY <1>1, <2>3, SettleTypes
    <2> QED BY <1>1, <1>2, <2>1, <2>3, <2>4, <2>5, <2>6, MainStep DEF TypeOK
  <1> QED BY <1>3, <1>4, <1>5, <1>6, <1>7, <1>8, <1>9, <1>10, <1>11 DEF ToMain

\* sendEvent opens and closes nothing.
LEMMA SendEventStep == ASSUME IInv, NEW r \in Sends, SendEvent(r) PROVE IInv'
  <1>1. TypeOK /\ main \in MainRecords /\ r \in Nat BY DEF IInv, TypeOK, Sends
  <1>2. "send-event" \in ToWorkers \ {"audio-opened", "audio-drained"} BY DEF ToWorkers
  <1>3. /\ UNCHANGED <<main, worker, ring, written, toMain, streams, faults>> /\ ToWorker("send-event", r)
        /\ sends' \in [Sends -> {"none", "pending", "settled"}]
    BY <1>1 DEF SendEvent, TypeOK
  <1>4. MainCloses /\ faults' \in 0..MaxFaults BY <1>1, <1>3 DEF MainCloses, TypeOK
  <1> QED BY <1>1, <1>2, <1>3, <1>4, MainStep

\* close() closes both of the main VM.
LEMMA CloseStep == ASSUME IInv, Close PROVE IInv'
  <1> DEFINE c == CloseAudio(CloseMicrophone(main))
  <1>1. TypeOK /\ main \in MainRecords /\ faults \in 0..MaxFaults BY DEF IInv, TypeOK
  <1>2. "close" \in ToWorkers \ {"audio-opened", "audio-drained"} BY DEF ToWorkers
  <1>3. c \in MainRecords /\ c.audio = 0 /\ c.awaiting = 0 BY <1>1, ClosingTypes
  <1>4. /\ main' = [c EXCEPT !.worker = FALSE] /\ SettleAll /\ ToWorker("close", 0)
        /\ UNCHANGED <<worker, ring, written, toMain, streams, faults>>
    BY DEF Close
  <1> HIDE DEF c
  <1>5. main' \in MainRecords /\ main'.audio = 0 /\ main'.awaiting = 0 BY <1>1, <1>3, <1>4, ClosingTypes
  <1>6. MainCloses BY <1>5 DEF MainCloses
  <1>7. sends' \in [Sends -> {"none", "pending", "settled"}] BY <1>1, <1>4, SettleTypes
  <1> QED BY <1>1, <1>2, <1>4, <1>5, <1>6, <1>7, MainStep

\* A failure closes what failed, and the worker is told.
LEMMA BreakStep == ASSUME IInv, MicrophoneBreaks \/ AudioBreaks PROVE IInv'
  <1>1. TypeOK /\ main \in MainRecords /\ main.mic \in Nat /\ main.audio \in Nat
    BY Numbers DEF IInv, TypeOK, MainRecords
  <1>2. {"microphone-failed", "audio-failed"} \subseteq ToWorkers \ {"audio-opened", "audio-drained"}
    BY DEF ToWorkers
  <1>3. /\ main' = CloseMicrophone(main) \/ main' = CloseAudio(main)
        /\ ToWorker("microphone-failed", main.mic) \/ ToWorker("audio-failed", main.audio)
        /\ Breaks /\ UNCHANGED <<worker, ring, written, toMain, sends, streams>>
    BY DEF MicrophoneBreaks, AudioBreaks
  <1>4. main' \in MainRecords /\ MainCloses BY <1>1, <1>3, ClosingTypes DEF MainCloses
  <1>5. faults' \in 0..MaxFaults BY <1>1, <1>3, FaultTypes
  <1>6. sends' \in [Sends -> {"none", "pending", "settled"}] BY <1>1, <1>3, SettleTypes
  <1> QED BY <1>1, <1>2, <1>3, <1>4, <1>5, <1>6, MainStep

\* The pump drains the ring.
LEMMA PumpStep == ASSUME IInv, Pump PROVE IInv'
  <1>1. main \in MainRecords BY DEF IInv, TypeOK
  <1>2. Drain(main) /\ UNCHANGED <<worker, toMain, toWorker, sends, streams, faults>> BY DEF Pump
  <1> QED BY <1>1, <1>2, MainDrains

\* The last callback: the stream is over, and was played.
LEMMA DrainedStep ==
  ASSUME IInv, main.audio # 0, main.awaiting > 0, main' = CloseAudio(main),
         ToWorker("audio-drained", main.audio),
         UNCHANGED <<ring, written, worker, toMain, sends, streams, faults>>
  PROVE  IInv'
  <1> DEFINE a == main.audio
  <1>1. TypeOK /\ Invariants /\ main \in MainRecords BY DEF IInv, TypeOK
  <1>2. a \in 1..streams /\ a \in Nat /\ streams \in Nat BY <1>1, Numbers
  <1>3. main' \in MainRecords /\ main'.audio = 0 /\ main'.awaiting = 0 /\ main'.ended = FALSE
    BY <1>1, ClosingTypes
  <1>4. "audio-drained" \in ToWorkers BY DEF ToWorkers
  <1>m. Message("audio-drained", a).n = a BY DEF Message
  <1>5. /\ toWorker' \in Seq(WorkerMessages)
        /\ \A k \in 1..Len(toWorker') :
             (\E j \in 1..Len(toWorker) : toWorker'[k] = toWorker[j]) \/ toWorker'[k] = Message("audio-drained", a)
    BY <1>1, <1>2, <1>4, ToWorkerKeeps
  <1>6. TypeOK' BY <1>1, <1>3, <1>5 DEF TypeOK, MainRecords, WorkerRecords, OutputRecords
  <1>7. main.ended /\ ring = <<>> BY <1>1 DEF Invariants, EndsArePlayed
  <1>8. a = worker.output.stream => worker.output.finished /\ written = worker.output.written
    BY <1>1, <1>2, <1>7, Numbers DEF Invariants, EndsArePlayed
  <1>9. \A i \in 1..Len(toMain) : IsOpen(toMain[i]) => a < toMain[i].n
    BY <1>1 DEF Invariants, OpensInOrder
  <1>10. OpensInOrder'
    <2>1. ASSUME NEW k \in 1..Len(toWorker'), toWorker'[k].id \in {"audio-opened", "audio-drained"}
          PROVE  /\ toWorker'[k].n \in 1..streams
                 /\ \A i \in 1..Len(toMain) : IsOpen(toMain[i]) => toWorker'[k].n < toMain[i].n
      <3>1. CASE toWorker'[k] = Message("audio-drained", a) BY <1>2, <1>9, <1>m, <3>1
      <3>2. CASE \E j \in 1..Len(toWorker) : toWorker'[k] = toWorker[j]
        BY <1>1, <2>1, <3>2 DEF Invariants, OpensInOrder
      <3> QED BY <1>5, <3>1, <3>2
    <2>2. \A i \in 1..Len(toMain) : IsOpen(toMain[i]) => 0 < toMain[i].n
      BY <1>1, <1>2 DEF Invariants, OpensInOrder, IsOpen
    <2> QED BY <1>1, <1>3, <2>1, <2>2 DEF Invariants, OpensInOrder
  <1>11. OpenIsLast' BY <1>1, <1>3 DEF Invariants, OpenIsLast
  <1>12. PlaysItsOwn' BY <1>3 DEF PlaysItsOwn
  <1>13. ASSUME NEW k \in 1..Len(toWorker'), toWorker'[k].id = "audio-drained"
         PROVE  /\ toWorker'[k].n # 0
                /\ toWorker'[k].n = worker.output.stream =>
                     worker.output.finished /\ written = worker.output.written
    <2>1. CASE toWorker'[k] = Message("audio-drained", a) BY <1>2, <1>8, <1>m, <2>1
    <2>2. ASSUME NEW j \in 1..Len(toWorker), toWorker'[k] = toWorker[j]
          PROVE  /\ toWorker'[k].n # 0
                 /\ toWorker'[k].n = worker.output.stream =>
                      worker.output.finished /\ written = worker.output.written
      <3>1. toWorker[j].n \in 1..streams BY <1>1, <1>13, <2>2 DEF Invariants, OpensInOrder
      <3> QED BY <1>1, <1>2, <1>13, <2>2, <3>1 DEF Invariants, EndsArePlayed, DrainedIsPlayed
    <2> QED BY <1>5, <2>1, <2>2
  <1>14. EndsArePlayed'
    <2>1. \A i \in 1..Len(toMain) :
            toMain[i].id = "audio-end" /\ toMain[i].n = worker.output.stream => worker.output.finished
      BY <1>1 DEF Invariants, EndsArePlayed
    <2>2. ~(main'.awaiting > 0) BY <1>3
    <2> QED BY <1>3, <1>13, <2>1, <2>2 DEF EndsArePlayed
  <1>15. DrainedIsPlayed' BY <1>7, <1>13 DEF DrainedIsPlayed
  <1> QED BY <1>6, <1>10, <1>11, <1>12, <1>14, <1>15 DEF IInv, Invariants

\* onWritable drains the ring, or counts a callback of the last ones.
LEMMA AudioWritableStep == ASSUME IInv, NEW n \in Blocks, AudioWritable(n) PROVE IInv'
  <1>1. TypeOK /\ main \in MainRecords /\ n \in 0..RingBlocks /\ main.awaiting \in 0..DrainCallbacks
    BY Bounds DEF IInv, TypeOK, Blocks, MainRecords
  <1>2. main.audio # 0 /\ UNCHANGED <<worker, toMain, sends, streams, faults>> BY DEF AudioWritable
  <1>3. CASE main.awaiting = 0
    <2> DEFINE d == [main EXCEPT !.writable = n]
    <2>1. Drain(d) /\ UNCHANGED toWorker BY <1>3 DEF AudioWritable
    <2>2. d \in MainRecords /\ d.audio = main.audio /\ d.awaiting = main.awaiting /\ d.ended = main.ended
      BY <1>1 DEF MainRecords
    <2> HIDE DEF d
    <2> QED BY <1>2, <2>1, <2>2, MainDrains
  <1>4. CASE main.awaiting > 1
    <2> DEFINE d == [main EXCEPT !.writable = n, !.awaiting = @ - 1]
    <2>1. main' = d /\ UNCHANGED <<toWorker, ring, written>> BY <1>1, <1>4 DEF AudioWritable
    <2>2. main.awaiting - 1 \in 0..DrainCallbacks BY <1>1, <1>4, Bounds
    <2>3. d \in MainRecords /\ d.audio = main.audio /\ d.awaiting = main.awaiting - 1 /\ d.ended = main.ended
      BY <1>1, <2>2 DEF MainRecords
    <2> HIDE DEF d
    <2>4. OpensInOrder' /\ OpenIsLast' /\ PlaysItsOwn' /\ DrainedIsPlayed'
      BY <1>2, <2>1, <2>3 DEF IInv, Invariants, OpensInOrder, OpenIsLast, PlaysItsOwn, DrainedIsPlayed
    <2>5. EndsArePlayed'
      <3>1. main.awaiting > 0 BY <1>1, <1>4, Bounds
      <3>2. main.audio # 0 /\ main.ended /\ ring = <<>> BY <3>1 DEF IInv, Invariants, EndsArePlayed
      <3>3. /\ main'.audio = main.audio /\ main'.ended = main.ended /\ worker' = worker /\ ring' = ring
            /\ written' = written /\ toMain' = toMain /\ toWorker' = toWorker
        BY <1>2, <2>1, <2>3
      <3> QED BY <3>2, <3>3 DEF IInv, Invariants, EndsArePlayed
    <2>6. TypeOK'
      BY <1>1, <1>2, <2>1, <2>3 DEF TypeOK, MainRecords, WorkerRecords, OutputRecords
    <2> QED BY <2>4, <2>5, <2>6 DEF IInv, Invariants
  <1>5. CASE main.awaiting = 1
    BY <1>2, <1>5, DrainedStep DEF AudioWritable
  <1> QED BY <1>1, <1>3, <1>4, <1>5, Bounds

\* Every step of the main VM keeps the invariant.
LEMMA MainVMStep == IInv /\ MainVM => IInv'
  BY MainReadsStep, CloseStep, PumpStep, BreakStep, SendEventStep, AudioWritableStep DEF MainVM
-----------------------------------------------------------------------------
(***************************************************************************)
(* The worker VM.                                                          *)
(***************************************************************************)
\* What closing the output or the input makes of the worker, and posts.
LEMMA StoppingTypes ==
  ASSUME TypeOK, NEW w \in WorkerRecords
  PROVE  /\ Closed(w) \in WorkerRecords /\ Closed(w).output = NoOutput /\ Closed(w).input = w.input
         /\ Stopped(w) \in WorkerRecords /\ Stopped(w).output = w.output /\ Stopped(w).input = 0
         /\ Closing(w) \in Seq(MainMessages) /\ Stopping(w) \in Seq(MainMessages)
         /\ \A i \in 1..Len(Closing(w)) : Closing(w)[i].id = "audio-close"
         /\ \A i \in 1..Len(Stopping(w)) : Stopping(w)[i].id = "microphone-close"
  <1>1. 0 \in 0..streams /\ 0 \in 0..MaxBlocks /\ streams \in Nat BY Numbers, Bounds
  <1>2. NoOutput \in OutputRecords BY <1>1 DEF NoOutput, OutputRecords
  <1>3. w.output \in OutputRecords /\ w.input \in 0..streams BY DEF WorkerRecords
  <1>4. w.output.stream \in Nat /\ w.input \in Nat BY <1>1, <1>3 DEF OutputRecords
  <1>5. /\ Closed(w) \in WorkerRecords /\ Closed(w).output = NoOutput /\ Closed(w).input = w.input
    BY <1>2 DEF Closed, WorkerRecords
  <1>6. /\ Stopped(w) \in WorkerRecords /\ Stopped(w).output = w.output /\ Stopped(w).input = 0
    BY <1>1 DEF Stopped, WorkerRecords
  <1>7. ASSUME NEW id \in ToMain, NEW s \in Nat
        PROVE  Message(id, s) \in MainMessages /\ Message(id, s).id = id
    BY DEF Message, MainMessages
  <1>8. "audio-close" \in ToMain /\ "microphone-close" \in ToMain BY DEF ToMain
  <1>9. ASSUME NEW e \in MainMessages, NEW q, q = <<>> \/ q = <<e>>
        PROVE  q \in Seq(MainMessages) /\ \A i \in 1..Len(q) : q[i] = e
    <2>1. CASE q = <<>> BY <2>1
    <2>2. CASE q = <<e>>
      <3>1. Len(q) = 1 /\ q[1] = e BY <2>2
      <3> QED BY <2>2, <3>1
    <2> QED BY <1>9, <2>1, <2>2
  <1>10. Closing(w) \in Seq(MainMessages) /\ \A i \in 1..Len(Closing(w)) : Closing(w)[i].id = "audio-close"
    BY <1>4, <1>7, <1>8, <1>9 DEF Closing
  <1>11. Stopping(w) \in Seq(MainMessages) /\ \A i \in 1..Len(Stopping(w)) : Stopping(w)[i].id = "microphone-close"
    BY <1>4, <1>7, <1>8, <1>9 DEF Stopping
  <1> QED BY <1>5, <1>6, <1>10, <1>11

\* What a step of the worker that opens nothing owes.
LEMMA WorkerStep ==
  ASSUME IInv, worker' \in WorkerRecords, WorkerCloses, UNCHANGED <<main, ring, written, sends, streams>>,
         NEW q \in Seq(MainMessages), toMain' = toMain \o q,
         \A i \in 1..Len(q) : q[i].id \notin {"audio-open", "microphone-open", "audio-end"},
         \/ toWorker' = toWorker \/ toWorker' = <<>>
         \/ toWorker # <<>> /\ toWorker' = Tail(toWorker),
         faults' \in 0..MaxFaults
  PROVE  IInv'
  <1>1. TypeOK /\ Invariants BY DEF IInv
  <1>2. toWorker' \in Seq(WorkerMessages) /\ WorkerKeeps BY <1>1, WorkerReceives
  <1>3. MainKeeps BY <1>1, MainGrows
  <1>4. toMain' \in Seq(MainMessages) BY <1>1 DEF TypeOK
  <1>5. MainCloses BY DEF MainCloses
  <1>6. Invariants' BY <1>1, <1>2, <1>3, <1>5, Kept
  <1>7. TypeOK' BY <1>1, <1>2, <1>4 DEF TypeOK, MainRecords, WorkerRecords, OutputRecords
  <1> QED BY <1>6, <1>7 DEF IInv

\* The output is opened by the message of the main VM.
LEMMA OpenedStep ==
  ASSUME IInv, toWorker # <<>>, toWorker' = Tail(toWorker), Head(toWorker).id = "audio-opened",
         Head(toWorker).n = worker.output.stream, worker' = [worker EXCEPT !.output.opened = TRUE],
         UNCHANGED <<main, ring, written, toMain, sends, streams, faults>>
  PROVE  IInv'
  <1>1. TypeOK /\ Invariants BY DEF IInv
  <1>2. toWorker' \in Seq(WorkerMessages) /\ WorkerKeeps /\ MainKeeps
    BY <1>1, WorkerReceives, MainReceives
  <1>3. 1 \in 1..Len(toWorker) /\ Head(toWorker) = toWorker[1] BY <1>1 DEF TypeOK
  <1>o. worker \in WorkerRecords /\ worker.output \in OutputRecords BY <1>1 DEF TypeOK, WorkerRecords
  <1>4. /\ worker' \in WorkerRecords /\ worker'.input = worker.input
        /\ worker'.output = [worker.output EXCEPT !.opened = TRUE]
    <2>1. [worker.output EXCEPT !.opened = TRUE] \in OutputRecords BY <1>o DEF OutputRecords
    <2> QED BY <1>o, <2>1 DEF WorkerRecords
  <1>5. /\ worker'.output.stream = worker.output.stream /\ worker'.output.written = worker.output.written
        /\ worker'.output.finished = worker.output.finished
    BY <1>o, <1>4 DEF OutputRecords
  <1>6. TypeOK' BY <1>1, <1>2, <1>4 DEF TypeOK, MainRecords, WorkerRecords, OutputRecords
  <1>7. /\ worker.output.stream \in 1..streams /\ streams \in Nat /\ main.audio \in 0..streams
        /\ main.audio = 0 \/ main.audio >= worker.output.stream
        /\ \A i \in 1..Len(toMain) : IsOpen(toMain[i]) => worker.output.stream < toMain[i].n
    BY <1>1, <1>3, Numbers DEF Invariants, OpensInOrder
  <1>8. worker.output.stream = streams BY <1>1, <1>7 DEF Invariants, OpenIsLast
  <1>9. \A i \in 1..Len(toMain) : ~IsOpen(toMain[i])
    BY <1>1, <1>7, <1>8 DEF Invariants, OpensInOrder, IsOpen
  <1>10. OpensInOrder' BY <1>1, <1>2, OpensKept DEF Invariants
  <1>11. OpenIsLast'
    <2>1. main.audio \in {0, worker.output.stream} BY <1>7, <1>8
    <2>2. worker.input = 0 BY <1>1, <1>7 DEF Invariants, OpenIsLast
    <2>3. worker'.output.opened BY <1>o, <1>4 DEF OutputRecords
    <2> QED BY <1>4, <1>5, <1>7, <1>8, <1>9, <2>1, <2>2, <2>3 DEF OpenIsLast
  <1>12. ASSUME NEW k \in 1..Len(toWorker'), toWorker'[k].id = "audio-drained"
         PROVE  \E j \in 1..Len(toWorker) : toWorker'[k] = toWorker[j]
    BY <1>2, <1>12 DEF WorkerKeeps
  <1>13. EndsArePlayed' BY <1>1, <1>5, <1>12 DEF Invariants, EndsArePlayed
  <1>14. PlaysItsOwn' BY <1>1 DEF Invariants, PlaysItsOwn
  <1>15. DrainedIsPlayed' BY <1>1, <1>5, <1>12 DEF Invariants, DrainedIsPlayed
  <1> QED BY <1>6, <1>10, <1>11, <1>13, <1>14, <1>15 DEF IInv, Invariants

\* One message more, at most.
LEMMA OneOrNone ==
  ASSUME NEW e \in MainMessages, NEW q, q = <<>> \/ q = <<e>>
  PROVE  q \in Seq(MainMessages) /\ \A i \in 1..Len(q) : q[i] = e
  <1>1. CASE q = <<>> BY <1>1
  <1>2. CASE q = <<e>>
    <2>1. Len(q) = 1 /\ q[1] = e BY <1>2
    <2> QED BY <1>2, <2>1
  <1> QED BY <1>1, <1>2

\* Two pieces of quiet messages make one.
LEMMA TwoPieces ==
  ASSUME NEW p \in Seq(MainMessages), NEW q \in Seq(MainMessages), NEW I,
         \A i \in 1..Len(p) : p[i].id \in I, \A i \in 1..Len(q) : q[i].id \in I
  PROVE  p \o q \in Seq(MainMessages) /\ \A i \in 1..Len(p \o q) : (p \o q)[i].id \in I
  <1>1. p \o q \in Seq(MainMessages) /\ Len(p \o q) = Len(p) + Len(q) OBVIOUS
  <1>2. ASSUME NEW i \in 1..Len(p \o q)
        PROVE  (p \o q)[i].id \in I
    <2>1. CASE i <= Len(p)
      <3>1. (p \o q)[i] = p[i] /\ i \in 1..Len(p) BY <1>1, <2>1
      <3> QED BY <3>1
    <2>2. CASE i > Len(p)
      <3>1. (p \o q)[i] = q[i - Len(p)] /\ i - Len(p) \in 1..Len(q) BY <1>1, <2>2
      <3> QED BY <3>1
    <2> QED BY <1>1, <2>1, <2>2
  <1> QED BY <1>1, <1>2

\* What two sequences make, element by element.
LEMMA Joined ==
  ASSUME NEW S, NEW a \in Seq(S), NEW b \in Seq(S)
  PROVE  /\ a \o b \in Seq(S) /\ Len(a \o b) = Len(a) + Len(b)
         /\ \A i \in 1..Len(a \o b) :
              \/ i \in 1..Len(a) /\ (a \o b)[i] = a[i]
              \/ i - Len(a) \in 1..Len(b) /\ (a \o b)[i] = b[i - Len(a)]
  <1>1. a \o b \in Seq(S) /\ Len(a \o b) = Len(a) + Len(b) /\ Len(a) \in Nat /\ Len(b) \in Nat OBVIOUS
  <1>2. ASSUME NEW i \in 1..Len(a \o b)
        PROVE  \/ i \in 1..Len(a) /\ (a \o b)[i] = a[i]
               \/ i - Len(a) \in 1..Len(b) /\ (a \o b)[i] = b[i - Len(a)]
    <2>1. CASE i <= Len(a) BY <1>1, <2>1
    <2>2. CASE i > Len(a) BY <1>1, <2>2
    <2> QED BY <1>1, <2>1, <2>2
  <1> QED BY <1>1, <1>2

\* The speaker or the microphone is stopped.
LEMMA StopStep ==
  ASSUME IInv, StopSpeaker \/ StopMicrophone, UNCHANGED <<main, ring, written, sends, streams, faults>>,
         \/ toWorker' = toWorker \/ toWorker' = <<>>
         \/ toWorker # <<>> /\ toWorker' = Tail(toWorker)
  PROVE  IInv'
  <1>1. TypeOK /\ worker \in WorkerRecords /\ faults' \in 0..MaxFaults BY DEF IInv, TypeOK
  <1>2. CASE StopSpeaker
    <2>1. worker' = Closed(worker) /\ toMain' = toMain \o Closing(worker) BY <1>2 DEF StopSpeaker
    <2>2. worker' \in WorkerRecords /\ WorkerCloses BY <1>1, <2>1, StoppingTypes DEF WorkerCloses
    <2> QED BY <1>1, <2>1, <2>2, StoppingTypes, WorkerStep
  <1>3. CASE StopMicrophone
    <2>1. worker' = Stopped(worker) /\ toMain' = toMain \o Stopping(worker) BY <1>3 DEF StopMicrophone
    <2>2. worker' \in WorkerRecords /\ WorkerCloses BY <1>1, <2>1, StoppingTypes DEF WorkerCloses
    <2> QED BY <1>1, <2>1, <2>2, StoppingTypes, WorkerStep
  <1> QED BY <1>2, <1>3

\* The handler of a message throws: nothing but 'error' is posted.
LEMMA WorkerBreaksStep == ASSUME IInv, WorkerBreaks PROVE IInv'
  <1> DEFINE e == Message("error", 0)
             q == << e >>
  <1>1. TypeOK /\ worker \in WorkerRecords BY DEF IInv, TypeOK
  <1>2. e \in MainMessages /\ e.id = "error" BY DEF Message, MainMessages, ToMain
  <1>3. /\ Breaks /\ toMain' = Append(toMain, e) /\ UNCHANGED <<main, worker, ring, written, sends, streams>>
        /\ \/ toWorker' = toWorker
           \/ toWorker # <<>> /\ toWorker' = Tail(toWorker)
    BY DEF WorkerBreaks
  <1> HIDE DEF e
  <1>4. q \in Seq(MainMessages) /\ \A i \in 1..Len(q) : q[i] = e BY <1>2, OneOrNone
  <1>5. toMain' = toMain \o q BY <1>1, <1>2, <1>3 DEF TypeOK
  <1> HIDE DEF q
  <1>6. faults' \in 0..MaxFaults BY <1>1, <1>3, FaultTypes
  <1>7. worker' \in WorkerRecords /\ WorkerCloses BY <1>1, <1>3 DEF WorkerCloses
  <1> QED BY <1>2, <1>3, <1>4, <1>5, <1>6, <1>7, WorkerStep

\* The bridge closes what it has open.
LEMMA BridgeStopsStep == ASSUME IInv, BridgeStops PROVE IInv'
  BY StopStep DEF BridgeStops

\* The worker's handler, message by message.
LEMMA WorkerReadsStep == ASSUME IInv, WorkerReads PROVE IInv'
  <1> DEFINE m == Head(toWorker)
  <1>1. TypeOK /\ worker \in WorkerRecords /\ faults \in 0..MaxFaults BY DEF IInv, TypeOK
  <1>2. /\ toWorker # <<>> /\ UNCHANGED <<main, ring, written, sends, streams>>
        /\ toWorker' = Tail(toWorker) \/ toWorker' = <<>>
    BY DEF WorkerReads
  <1>3. m.id \in ToWorkers /\ m.n \in Nat
    <2>1. 1 \in 1..Len(toWorker) /\ m = toWorker[1] BY <1>1, <1>2 DEF TypeOK
    <2> QED BY <1>1, <2>1, MessagesAreTyped
  \* Nothing but the worker's own fields changes, and one message may be sent.
  <1>4. ASSUME worker' \in WorkerRecords, WorkerCloses, Breaks \/ Works, NEW id \in ToMain,
               id \notin {"audio-open", "microphone-open", "audio-end"}, NEW n \in Nat,
               toMain' = toMain \/ toMain' = Append(toMain, Message(id, n))
        PROVE  IInv'
    <2> DEFINE q == IF toMain' = toMain THEN <<>> ELSE <<Message(id, n)>>
    <2>1. Message(id, n) \in MainMessages /\ Message(id, n).id = id BY DEF Message, MainMessages
    <2>2. q \in Seq(MainMessages) /\ \A i \in 1..Len(q) : q[i] = Message(id, n) BY <2>1, OneOrNone
    <2>3. toMain \in Seq(MainMessages) BY <1>1 DEF TypeOK
    <2>4. toMain' = toMain \o q
      <3>1. CASE toMain' = toMain BY <2>3, <3>1
      <3>2. CASE toMain' # toMain BY <1>4, <2>1, <2>3, <3>2
      <3> QED BY <3>1, <3>2
    <2> HIDE DEF q
    <2>5. \A i \in 1..Len(q) : q[i].id \notin {"audio-open", "microphone-open", "audio-end"}
      BY <1>4, <2>1, <2>2
    <2>6. faults' \in 0..MaxFaults BY <1>1, <1>4, FaultTypes
    <2> QED BY <1>2, <1>4, <2>2, <2>4, <2>5, <2>6, WorkerStep
  <1>5. CASE m.id = "start"
    <2>1. StartWorker BY <1>5 DEF WorkerReads
    <2>2. worker' \in WorkerRecords /\ WorkerCloses
      BY <1>1, <2>1 DEF StartWorker, WorkerRecords, WorkerCloses
    <2>3. (Breaks \/ Works) /\ (toMain' = toMain \/ toMain' = Append(toMain, Message("error", 0)))
      BY <2>1 DEF StartWorker
    <2> QED BY <1>4, <2>2, <2>3 DEF ToMain
  <1>6. CASE m.id = "close"
    <2> DEFINE w == Stopped(Closed(worker))
               q == <<Message("closed", 0)>>
    <2>1. /\ worker' = [w EXCEPT !.alive = FALSE, !.bridge = FALSE]
          /\ toMain' = toMain \o (Stopping(worker) \o Closing(worker) \o q) /\ Works
      BY <1>6 DEF WorkerReads, CloseWorker
    <2>2. w \in WorkerRecords /\ w.output = NoOutput /\ w.input = 0 BY <1>1, StoppingTypes
    <2> HIDE DEF w
    <2>3. worker' \in WorkerRecords /\ WorkerCloses BY <2>1, <2>2 DEF WorkerRecords, WorkerCloses
    <2>4. Message("closed", 0) \in MainMessages /\ Message("closed", 0).id = "closed"
      BY DEF Message, MainMessages, ToMain
    <2> DEFINE I == {"microphone-close", "audio-close", "closed"}
    <2>5. /\ q \in Seq(MainMessages) /\ \A i \in 1..Len(q) : q[i].id \in I
          /\ Stopping(worker) \in Seq(MainMessages) /\ \A i \in 1..Len(Stopping(worker)) : Stopping(worker)[i].id \in I
          /\ Closing(worker) \in Seq(MainMessages) /\ \A i \in 1..Len(Closing(worker)) : Closing(worker)[i].id \in I
      BY <1>1, <2>4, OneOrNone, StoppingTypes
    <2> DEFINE c == Stopping(worker) \o Closing(worker)
               r == c \o q
    <2>6. toMain' = toMain \o r BY <2>1
    <2> HIDE DEF q, I
    <2>7. c \in Seq(MainMessages) /\ \A i \in 1..Len(c) : c[i].id \in I BY <2>5, TwoPieces
    <2> HIDE DEF c
    <2>8. r \in Seq(MainMessages) /\ \A i \in 1..Len(r) : r[i].id \in I BY <2>5, <2>7, TwoPieces
    <2> HIDE DEF r
    <2>9. \A i \in 1..Len(r) : r[i].id \notin {"audio-open", "microphone-open", "audio-end"} BY <2>8 DEF I
    <2>10. faults' \in 0..MaxFaults BY <1>1, <2>1, FaultTypes
    <2> QED BY <1>2, <2>3, <2>6, <2>8, <2>9, <2>10, WorkerStep
  <1>7. CASE m.id = "send-event"
    <2>1. toMain' = Append(toMain, Message("send-event-result", m.n)) /\ Works /\ UNCHANGED worker
      BY <1>7 DEF WorkerReads
    <2>2. WorkerCloses BY <2>1 DEF WorkerCloses
    <2> QED BY <1>1, <1>3, <1>4, <2>1, <2>2 DEF ToMain
  <1>8. CASE m.id = "audio-opened" /\ worker.output.stream = m.n
    <2>1. worker' = [worker EXCEPT !.output.opened = TRUE] /\ Works /\ UNCHANGED toMain
      BY <1>8 DEF WorkerReads
    <2>2. worker'.alive = worker.alive BY <1>1, <2>1 DEF WorkerRecords
    <2>3. toWorker' = Tail(toWorker) BY <2>2 DEF WorkerReads
    <2> QED BY <1>2, <1>8, <2>1, <2>3, OpenedStep DEF Works
  <1>9. CASE m.id = "microphone-started" /\ worker.input = m.n
    <2>1. worker' = [worker EXCEPT !.active = TRUE] /\ Works /\ UNCHANGED toMain
      BY <1>9 DEF WorkerReads
    <2>2. worker' \in WorkerRecords /\ WorkerCloses BY <1>1, <2>1 DEF WorkerRecords, WorkerCloses
    <2> QED BY <1>4, <2>1, <2>2 DEF ToMain
  <1>10. CASE \/ m.id = "audio-failed" /\ worker.output.stream = m.n
              \/ m.id = "microphone-failed" /\ worker.input = m.n
              \/ m.id = "audio-drained" /\ worker.output.stream = m.n /\ worker.output.finished
    <2>1. (StopSpeaker \/ StopMicrophone) /\ Works BY <1>10 DEF WorkerReads
    <2> QED BY <1>2, <2>1, StopStep DEF Works
  <1>11. CASE UNCHANGED <<worker, toMain>> /\ Works
    <2>1. WorkerCloses BY <1>11 DEF WorkerCloses
    <2> QED BY <1>1, <1>4, <1>11, <2>1 DEF ToMain
  <1> QED BY <1>5, <1>6, <1>7, <1>8, <1>9, <1>10, <1>11 DEF WorkerReads

\* The bridge opens a stream: the last one, under a number of its own.
LEMMA BridgeOpensStep ==
  ASSUME IInv, NEW kind \in {"audio-open", "microphone-open"}, BridgeOpens(kind) PROVE IInv'
  <1> DEFINE s == streams + 1
             e == Message(kind, s)
  <1>1. TypeOK /\ Invariants BY DEF IInv
  <1>2. /\ worker.output.stream = 0 /\ worker.input = 0 /\ streams < MaxStreams /\ streams' = s
        /\ toMain' = Append(toMain, e) /\ UNCHANGED <<main, ring, written, toWorker, sends, faults>>
    BY DEF BridgeOpens
  <1>3. streams \in Nat /\ s \in Nat /\ streams < s /\ 0..streams \subseteq 0..s /\ 1..streams \subseteq 1..s
        /\ s \in 1..s /\ s \in 0..MaxStreams /\ main.audio \in 0..streams
    BY <1>1, <1>2, Numbers, Bounds
  <1>4. e \in MainMessages /\ e.id = kind /\ e.n = s BY <1>3 DEF Message, MainMessages, ToMain
  <1> HIDE DEF s, e
  <1>5. toMain \in Seq(MainMessages) BY <1>1 DEF TypeOK
  <1>6. /\ toMain' \in Seq(MainMessages)
        /\ \A i \in 1..Len(toMain') :
             \/ i \in 1..Len(toMain) /\ toMain'[i] = toMain[i]
             \/ toMain'[i] = e /\ i = Len(toMain) + 1
    BY <1>2, <1>4, <1>5
  <1>o. worker \in WorkerRecords /\ worker.output \in OutputRecords BY <1>1 DEF TypeOK, WorkerRecords
  <1>7. ~worker.output.opened /\ ~worker.output.finished /\ worker.output.written = 0
    BY <1>1, <1>2 DEF Invariants, OpenIsLast
  <1>8. /\ worker'.output \in OutputRecords' /\ worker' \in WorkerRecords'
        /\ worker'.output.stream \in {0, s} /\ worker'.input \in {0, s}
        /\ worker'.output.stream = 0 \/ worker'.input = 0
        /\ worker'.output.opened = worker.output.opened /\ worker'.output.finished = worker.output.finished
        /\ worker'.output.written = worker.output.written
    <2>1. OutputRecords \subseteq OutputRecords' BY <1>2, <1>3 DEF OutputRecords
    <2>2. 0 \in 0..s /\ s \in 0..s BY <1>3
    <2>3. CASE kind = "audio-open"
      <3> DEFINE o == [worker.output EXCEPT !.stream = s]
      <3>1. worker' = [worker EXCEPT !.output = o] BY <1>o, <2>3 DEF BridgeOpens, WorkerRecords, s
      <3>2. o \in OutputRecords' BY <1>2, <1>o, <2>2 DEF OutputRecords
      <3>3. /\ o.stream = s /\ o.opened = worker.output.opened /\ o.finished = worker.output.finished
            /\ o.written = worker.output.written
        BY <1>o DEF OutputRecords
      <3> HIDE DEF o
      <3>4. worker' \in WorkerRecords' /\ worker'.output = o /\ worker'.input = 0
        BY <1>2, <1>o, <2>2, <3>1, <3>2 DEF WorkerRecords
      <3> QED BY <3>2, <3>3, <3>4
    <2>4. CASE kind = "microphone-open"
      <3>1. worker' = [worker EXCEPT !.input = s] BY <2>4 DEF BridgeOpens, s
      <3>2. worker' \in WorkerRecords' /\ worker'.output = worker.output /\ worker'.input = s
        BY <1>2, <1>o, <2>1, <2>2, <3>1 DEF WorkerRecords
      <3> QED BY <1>2, <1>o, <2>1, <3>2
    <2> QED BY <2>3, <2>4
  <1>9. TypeOK'
    <2>1. main \in MainRecords' BY <1>1, <1>2, <1>3 DEF TypeOK, MainRecords
    <2>2. ring \in Seq(1..s) BY <1>1, <1>3 DEF TypeOK
    <2> QED BY <1>1, <1>2, <1>3, <1>6, <1>8, <2>1, <2>2 DEF TypeOK
  <1>10. OpensInOrder'
    <2>0. \A i \in 1..Len(toMain) : IsOpen(toMain[i]) => toMain[i].n \in 1..streams
      BY <1>1 DEF Invariants, OpensInOrder, IsOpen
    <2>1. ASSUME NEW i \in 1..Len(toMain')
          PROVE  /\ toMain'[i].id \in {"audio-open", "microphone-open", "audio-end"} => toMain'[i].n \in 1..s
                 /\ IsOpen(toMain'[i]) => main.audio < toMain'[i].n
      <3>1. CASE toMain'[i] = e BY <1>3, <1>4, <3>1
      <3>2. CASE i \in 1..Len(toMain) /\ toMain'[i] = toMain[i]
        BY <1>1, <1>3, <3>2 DEF Invariants, OpensInOrder
      <3> QED BY <1>6, <3>1, <3>2
    <2>2. ASSUME NEW i \in 1..Len(toMain'), NEW j \in 1..Len(toMain'),
                 i < j, IsOpen(toMain'[i]), IsOpen(toMain'[j])
          PROVE  toMain'[i].n < toMain'[j].n
      <3>1. i \in 1..Len(toMain) /\ toMain'[i] = toMain[i]
        <4>1. Len(toMain') = Len(toMain) + 1 /\ Len(toMain) \in Nat BY <1>2, <1>4, <1>5
        <4> QED BY <1>6, <2>2, <4>1
      <3>2. CASE toMain'[j] = e BY <1>3, <1>4, <2>0, <2>2, <3>1, <3>2
      <3>3. CASE j \in 1..Len(toMain) /\ toMain'[j] = toMain[j]
        BY <1>1, <2>2, <3>1, <3>3 DEF Invariants, OpensInOrder
      <3> QED BY <1>6, <3>2, <3>3
    <2>3. ASSUME NEW k \in 1..Len(toWorker), toWorker[k].id \in {"audio-opened", "audio-drained"}
          PROVE  /\ toWorker[k].n \in 1..s /\ (main.audio = 0 \/ main.audio >= toWorker[k].n)
                 /\ \A i \in 1..Len(toMain') : IsOpen(toMain'[i]) => toWorker[k].n < toMain'[i].n
      <3>1. toWorker[k].n \in 1..streams /\ (main.audio = 0 \/ main.audio >= toWorker[k].n)
        BY <1>1, <2>3 DEF Invariants, OpensInOrder
      <3>2. ASSUME NEW i \in 1..Len(toMain'), IsOpen(toMain'[i]) PROVE toWorker[k].n < toMain'[i].n
        <4>1. CASE toMain'[i] = e BY <1>3, <1>4, <3>1, <4>1
        <4>2. CASE i \in 1..Len(toMain) /\ toMain'[i] = toMain[i]
          BY <1>1, <2>3, <3>2, <4>2 DEF Invariants, OpensInOrder
        <4> QED BY <1>6, <4>1, <4>2
      <3> QED BY <1>3, <3>1, <3>2
    <2> QED BY <1>2, <2>1, <2>2, <2>3 DEF OpensInOrder
  <1>11. OpenIsLast' BY <1>2, <1>7, <1>8 DEF OpenIsLast
  <1>12. PlaysItsOwn' BY <1>1, <1>2 DEF Invariants, PlaysItsOwn
  <1>13. \A k \in 1..Len(toWorker) : toWorker[k].id = "audio-drained" =>
           toWorker[k].n # worker'.output.stream /\ main.audio # toWorker[k].n
    <2>1. ASSUME NEW k \in 1..Len(toWorker), toWorker[k].id = "audio-drained"
          PROVE  toWorker[k].n # worker'.output.stream /\ main.audio # toWorker[k].n
      <3>1. toWorker[k].n \in 1..streams BY <1>1, <2>1 DEF Invariants, OpensInOrder
      <3>2. main.audio # toWorker[k].n BY <1>1, <2>1 DEF Invariants, EndsArePlayed
      <3> QED BY <1>3, <1>8, <3>1, <3>2
    <2> QED BY <2>1
  <1>14. DrainedIsPlayed' BY <1>2, <1>13 DEF DrainedIsPlayed
  <1>15. EndsArePlayed'
    <2>1. main.audio # 0 => main.audio # worker'.output.stream BY <1>3, <1>8
    <2>2. main.awaiting > 0 => main.audio # 0 /\ main.ended /\ ring = <<>>
      BY <1>1 DEF Invariants, EndsArePlayed
    <2>3. ASSUME NEW i \in 1..Len(toMain'), toMain'[i].id = "audio-end" PROVE toMain'[i].n # worker'.output.stream
      <3>1. i \in 1..Len(toMain) /\ toMain'[i] = toMain[i] BY <1>4, <1>6, <2>3
      <3>2. toMain[i].n \in 1..streams BY <1>1, <2>3, <3>1 DEF Invariants, OpensInOrder
      <3> QED BY <1>3, <1>8, <3>1, <3>2
    <2> QED BY <1>2, <1>13, <2>1, <2>2, <2>3 DEF EndsArePlayed
  <1> QED BY <1>9, <1>10, <1>11, <1>12, <1>14, <1>15 DEF IInv, Invariants
\* The bridge writes to the ring, and may say that the stream starts and that
\* it ends: the ring and the AudioOut that is open are this stream's.
LEMMA PollStep ==
  ASSUME IInv, NEW n \in {0} \cup Blocks, NEW last \in BOOLEAN, Poll(n, last) PROVE IInv'
  <1> DEFINE out == worker.output
             s == worker.output.stream
             starts == ~worker.output.startPosted /\ ring' # <<>>
             e == IF last THEN <<Message("audio-end", s)>> ELSE <<>>
             b == IF starts THEN <<Message("audio-start", s)>> ELSE <<>>
             more == [k \in 1..n |-> s]
  <1>1. TypeOK /\ Invariants BY DEF IInv
  <1>2. /\ s # 0 /\ out.opened /\ ~out.finished /\ n + Len(ring) <= RingBlocks /\ out.written + n <= MaxBlocks
        /\ ring' = ring \o more /\ toMain' = toMain \o e \o b
        /\ UNCHANGED <<main, written, toWorker, sends, streams, faults>>
    BY DEF Poll, Polls
  <1>3. worker' = [worker EXCEPT !.output.written = @ + n, !.output.finished = last,
                                 !.output.startPosted = @ \/ starts]
    BY DEF Poll
  <1> HIDE DEF starts
  <1>o. worker \in WorkerRecords /\ worker.output \in OutputRecords BY <1>1 DEF TypeOK, WorkerRecords
  <1>4. /\ n \in Nat /\ streams \in Nat /\ s \in 1..streams /\ s = streams /\ s \in Nat
        /\ main.audio \in {0, s} /\ \A i \in 1..Len(toMain) : ~IsOpen(toMain[i])
        /\ out.written \in Nat /\ written \in Nat /\ Len(ring) \in Nat
    BY <1>1, <1>2, Numbers, Bounds DEF Blocks, Invariants, OpenIsLast
  <1>5. /\ worker' \in WorkerRecords /\ worker'.input = worker.input
        /\ worker'.output.stream = s /\ worker'.output.opened = out.opened
        /\ worker'.output.finished = last /\ worker'.output.written = out.written + n
    <2> DEFINE o == [out EXCEPT !.written = @ + n, !.finished = last, !.startPosted = @ \/ starts]
    <2>1. worker' = [worker EXCEPT !.output = o] BY <1>3, <1>o DEF WorkerRecords, OutputRecords
    <2>2. out.written + n \in 0..MaxBlocks BY <1>2, <1>4, Bounds
    <2>3. o \in OutputRecords BY <1>o, <2>2 DEF OutputRecords
    <2>4. o.stream = s /\ o.opened = out.opened /\ o.finished = last /\ o.written = out.written + n
      BY <1>o DEF OutputRecords
    <2> HIDE DEF o
    <2>5. worker' \in WorkerRecords /\ worker'.input = worker.input /\ worker'.output = o
      BY <1>o, <2>1, <2>3 DEF WorkerRecords
    <2> QED BY <2>4, <2>5
  <1>6. /\ ring' \in Seq(1..streams) /\ Len(ring') = Len(ring) + n
        /\ \A k \in 1..Len(ring') : (k \in 1..Len(ring) /\ ring'[k] = ring[k]) \/ ring'[k] = s
    <2>1. more \in Seq(1..streams) /\ Len(more) = n /\ \A k \in 1..n : more[k] = s BY <1>4
    <2> HIDE DEF more
    <2>2. ring \in Seq(1..streams) BY <1>1 DEF TypeOK
    <2>3. /\ ring' \in Seq(1..streams) /\ Len(ring') = Len(ring) + Len(more)
          /\ \A k \in 1..Len(ring') :
               \/ k \in 1..Len(ring) /\ ring'[k] = ring[k]
               \/ k - Len(ring) \in 1..Len(more) /\ ring'[k] = more[k - Len(ring)]
      <3>1. ring' = ring \o more BY <1>2
      <3> QED BY <2>1, <2>2, <3>1, Joined
    <2> QED BY <2>1, <2>3
  <1>7. /\ toMain' \in Seq(MainMessages)
        /\ \A i \in 1..Len(toMain') :
             \/ i \in 1..Len(toMain) /\ toMain'[i] = toMain[i]
             \/ toMain'[i].id = "audio-end" /\ toMain'[i].n = s /\ last
             \/ toMain'[i].id = "audio-start"
    <2>1. /\ Message("audio-end", s) \in MainMessages /\ Message("audio-start", s) \in MainMessages
          /\ Message("audio-end", s).id = "audio-end" /\ Message("audio-end", s).n = s
          /\ Message("audio-start", s).id = "audio-start"
      BY <1>4 DEF Message, MainMessages, ToMain
    <2>2. e \in Seq(MainMessages) /\ \A i \in 1..Len(e) : e[i] = Message("audio-end", s) /\ last
      <3>1. e \in Seq(MainMessages) /\ \A i \in 1..Len(e) : e[i] = Message("audio-end", s) BY <2>1, OneOrNone
      <3>2. ~last => Len(e) = 0 OBVIOUS
      <3> QED BY <3>1, <3>2
    <2>3. b \in Seq(MainMessages) /\ \A i \in 1..Len(b) : b[i] = Message("audio-start", s)
      BY <2>1, OneOrNone
    <2> HIDE DEF e, b
    <2>4. toMain \in Seq(MainMessages) BY <1>1 DEF TypeOK
    <2> DEFINE p == toMain \o e
    <2>5. /\ p \in Seq(MainMessages)
          /\ \A i \in 1..Len(p) :
               \/ i \in 1..Len(toMain) /\ p[i] = toMain[i]
               \/ i - Len(toMain) \in 1..Len(e) /\ p[i] = e[i - Len(toMain)]
      BY <2>2, <2>4, Joined
    <2> HIDE DEF p
    <2>6. ASSUME NEW i \in 1..Len(p)
          PROVE  \/ i \in 1..Len(toMain) /\ p[i] = toMain[i]
                 \/ p[i].id = "audio-end" /\ p[i].n = s /\ last
      BY <2>1, <2>2, <2>5
    <2>7. toMain' = p \o b BY <1>2 DEF p
    <2>8. /\ toMain' \in Seq(MainMessages)
          /\ \A i \in 1..Len(toMain') :
               \/ i \in 1..Len(p) /\ toMain'[i] = p[i]
               \/ i - Len(p) \in 1..Len(b) /\ toMain'[i] = b[i - Len(p)]
      BY <2>3, <2>5, <2>7, Joined
    <2>9. ASSUME NEW i \in 1..Len(toMain')
          PROVE  \/ i \in 1..Len(p) /\ toMain'[i] = p[i]
                 \/ toMain'[i].id = "audio-start"
      BY <2>1, <2>3, <2>8
    <2>10. ASSUME NEW i \in 1..Len(toMain')
           PROVE  \/ i \in 1..Len(toMain) /\ toMain'[i] = toMain[i]
                  \/ toMain'[i].id = "audio-end" /\ toMain'[i].n = s /\ last
                  \/ toMain'[i].id = "audio-start"
      <3>1. CASE toMain'[i].id = "audio-start" BY <3>1
      <3>2. CASE i \in 1..Len(p) /\ toMain'[i] = p[i] BY <2>6, <3>2
      <3> QED BY <2>9, <3>1, <3>2
    <2> QED BY <2>8, <2>10
  <1> HIDE DEF e, b, more
  <1>8. \A i \in 1..Len(toMain') :
          /\ ~IsOpen(toMain'[i])
          /\ toMain'[i].id = "microphone-open" => i \in 1..Len(toMain) /\ toMain'[i] = toMain[i]
          /\ toMain'[i].id = "audio-end" =>
               (i \in 1..Len(toMain) /\ toMain'[i] = toMain[i]) \/ (toMain'[i].n = s /\ last)
    BY <1>4, <1>7 DEF IsOpen
  <1>9. TypeOK'
    <2>1. main \in MainRecords' /\ worker' \in WorkerRecords'
      BY <1>1, <1>2, <1>5 DEF TypeOK, MainRecords, WorkerRecords, OutputRecords
    <2>2. Len(ring') <= RingBlocks BY <1>2, <1>4, <1>6
    <2> QED BY <1>1, <1>2, <1>6, <1>7, <2>1, <2>2 DEF TypeOK
  <1>10. OpensInOrder'
    <2>1. ASSUME NEW i \in 1..Len(toMain'), toMain'[i].id \in {"audio-open", "microphone-open", "audio-end"}
          PROVE  toMain'[i].n \in 1..streams
      <3>1. CASE i \in 1..Len(toMain) /\ toMain'[i] = toMain[i]
        BY <1>1, <2>1, <3>1 DEF Invariants, OpensInOrder
      <3> QED BY <1>4, <1>8, <2>1, <3>1 DEF IsOpen
    <2>2. \A k \in 1..Len(toWorker) : toWorker[k].id \in {"audio-opened", "audio-drained"} =>
            toWorker[k].n \in 1..streams /\ (main.audio = 0 \/ main.audio >= toWorker[k].n)
      BY <1>1 DEF Invariants, OpensInOrder
    <2> QED BY <1>2, <1>8, <2>1, <2>2 DEF OpensInOrder
  <1>11. OpenIsLast'
    <2>1. worker.input \in {0, streams} /\ worker.input = 0 BY <1>1, <1>4 DEF Invariants, OpenIsLast
    <2> QED BY <1>2, <1>4, <1>5, <1>8, <2>1 DEF OpenIsLast
  <1>12. PlaysItsOwn'
    <2>1. main.audio # 0 => \A k \in 1..Len(ring) : ring[k] = main.audio
      BY <1>1 DEF Invariants, PlaysItsOwn
    <2> QED BY <1>2, <1>4, <1>6, <2>1 DEF PlaysItsOwn
  <1>13. \A k \in 1..Len(toWorker) : toWorker[k].id = "audio-drained" =>
           main.audio # toWorker[k].n /\ toWorker[k].n # s
    BY <1>1, <1>2 DEF Invariants, EndsArePlayed
  <1>14. DrainedIsPlayed' BY <1>2, <1>5, <1>13 DEF DrainedIsPlayed
  <1>15. EndsArePlayed'
    <2>1. main.audio # 0 => written + Len(ring) = out.written /\ ~main.ended
      BY <1>1, <1>2, <1>4 DEF Invariants, EndsArePlayed
    <2>2. ~(main.awaiting > 0) BY <1>1, <2>1 DEF Invariants, EndsArePlayed
    <2>3. main.audio # 0 => written + Len(ring') = worker'.output.written BY <1>4, <1>5, <1>6, <2>1
    <2>4. ASSUME NEW i \in 1..Len(toMain'), toMain'[i].id = "audio-end", toMain'[i].n = s PROVE last
      <3>1. CASE i \in 1..Len(toMain) /\ toMain'[i] = toMain[i]
        BY <1>1, <1>2, <2>4, <3>1 DEF Invariants, EndsArePlayed
      <3> QED BY <1>8, <2>4, <3>1
    <2> QED BY <1>2, <1>5, <1>13, <2>1, <2>2, <2>3, <2>4 DEF EndsArePlayed
  <1> QED BY <1>9, <1>10, <1>11, <1>12, <1>14, <1>15 DEF IInv, Invariants

\* Every step of the worker VM keeps the invariant.
LEMMA WorkerVMStep == IInv /\ WorkerVM => IInv'
  BY WorkerReadsStep, WorkerBreaksStep, BridgeOpensStep, BridgeStopsStep, PollStep DEF WorkerVM
-----------------------------------------------------------------------------
(***************************************************************************)
(* The theorems.                                                           *)
(***************************************************************************)
\* Nothing is open and nothing was sent, but the start of the worker.
LEMMA Initially == Init => IInv
  <1> SUFFICES ASSUME Init PROVE IInv OBVIOUS
  <1>1. /\ toMain = <<>> /\ ring = <<>> /\ written = 0 /\ streams = 0 /\ faults = 0
        /\ toWorker = << Message("start", 0) >> /\ sends = [r \in Sends |-> "none"]
        /\ main = [worker |-> TRUE, mic |-> 0, audio |-> 0, started |-> FALSE,
                   ended |-> FALSE, awaiting |-> 0, writable |-> 0]
        /\ worker = [alive |-> TRUE, bridge |-> FALSE, output |-> NoOutput, input |-> 0, active |-> FALSE]
    BY DEF Init, NoWorker
  <1>2. main \in MainRecords /\ worker \in WorkerRecords
    BY <1>1, Bounds DEF MainRecords, WorkerRecords, OutputRecords, NoOutput
  <1>3. /\ toWorker \in Seq(WorkerMessages) /\ Len(toWorker) = 1 /\ toWorker[1].id = "start"
    BY <1>1 DEF Message, WorkerMessages, ToWorkers
  <1>4. /\ toMain \in Seq(MainMessages) /\ ring \in Seq(1..streams) /\ Len(toMain) = 0 /\ Len(ring) = 0
    BY <1>1
  <1>5. TypeOK BY <1>1, <1>2, <1>3, <1>4, Bounds DEF TypeOK
  <1>6. /\ main.audio = 0 /\ main.awaiting = 0 /\ worker.input = 0 /\ worker.output.stream = 0
        /\ ~worker.output.opened /\ ~worker.output.finished /\ worker.output.written = 0
    BY <1>1 DEF NoOutput
  <1>7. \A k \in 1..Len(toWorker) : toWorker[k].id \notin {"audio-opened", "audio-drained"} BY <1>3
  <1>8. OpensInOrder BY <1>4, <1>7 DEF OpensInOrder
  <1>9. OpenIsLast BY <1>1, <1>6 DEF OpenIsLast
  <1>10. EndsArePlayed /\ PlaysItsOwn /\ DrainedIsPlayed
    BY <1>4, <1>6, <1>7 DEF EndsArePlayed, PlaysItsOwn, DrainedIsPlayed
  <1> QED BY <1>5, <1>8, <1>9, <1>10 DEF IInv, Invariants

\* Both VMs keep the invariant, and a step that changes nothing does.
LEMMA Inductive == IInv /\ [Next]_vars => IInv'
  <1> SUFFICES ASSUME IInv, [Next]_vars PROVE IInv' OBVIOUS
  <1>1. CASE MainVM BY <1>1, MainVMStep
  <1>2. CASE WorkerVM BY <1>2, WorkerVMStep
  <1>3. CASE UNCHANGED vars
    <2>1. /\ main' = main /\ worker' = worker /\ ring' = ring /\ written' = written /\ toMain' = toMain
          /\ toWorker' = toWorker /\ sends' = sends /\ streams' = streams /\ faults' = faults
      BY <1>3 DEF vars
    <2>2. TypeOK' BY <2>1 DEF IInv, TypeOK, MainRecords, WorkerRecords, OutputRecords
    <2>3. OpensInOrder' /\ OpenIsLast' BY <2>1 DEF IInv, Invariants, OpensInOrder, OpenIsLast
    <2>4. EndsArePlayed' /\ PlaysItsOwn' /\ DrainedIsPlayed'
      BY <2>1 DEF IInv, Invariants, EndsArePlayed, PlaysItsOwn, DrainedIsPlayed
    <2> QED BY <2>2, <2>3, <2>4 DEF IInv, Invariants
  <1> QED BY <1>1, <1>2, <1>3 DEF Next

\* The invariant of every behaviour.
LEMMA Invariance == Spec => []IInv
  BY Initially, Inductive, PTL DEF Spec

\* Both VMs, the ring and the messages between them keep their types, and the
\* ring never overflows.
THEOREM TypeCorrect == Spec => []TypeOK
  <1>1. IInv => TypeOK BY DEF IInv
  <1> QED BY <1>1, Invariance, PTL

\* The ring never holds a block of another stream than the one the AudioOut of
\* the main VM plays: #openAudio resets it before the worker may write.
THEOREM PlaysItsOwnAlways == Spec => []PlaysItsOwn
  <1>1. IInv => PlaysItsOwn BY DEF IInv, Invariants
  <1> QED BY <1>1, Invariance, PTL

\* 'audio-drained' for the current stream is sent after all of it was taken from
\* the ring: the wait for the last callbacks begins with the end known and the
\* ring empty.
THEOREM DrainedWasPlayed == Spec => []DrainedIsPlayed
  <1>1. IInv => DrainedIsPlayed BY DEF IInv, Invariants
  <1> QED BY <1>1, Invariance, PTL
-----------------------------------------------------------------------------
(***************************************************************************)
(* One stream at a time.  What holds of the speaker and of the microphone  *)
(* alike is stated once, for both kinds of stream.                         *)
(***************************************************************************)
Kinds      == {"audio", "microphone"}
OpenOf(k)  == IF k = "audio" THEN "audio-open" ELSE "microphone-open"
CloseOf(k) == IF k = "audio" THEN "audio-close" ELSE "microphone-close"
LostOf(k)  == IF k = "audio" THEN {"audio-failed", "audio-drained"} ELSE {"microphone-failed"}
OpenIds    == {"audio-open", "microphone-open"}
CloseIds   == {"audio-close", "microphone-close"}

Has(k)  == IF k = "audio" THEN main.audio ELSE main.mic                \* the main VM's stream
Uses(k) == IF k = "audio" THEN worker.output.stream ELSE worker.input  \* the bridge's

\* The close of stream s is in messages, between two places.
CloseIn(messages, from, to, k, s) ==
  \E i \in from..to : messages[i].id = CloseOf(k) /\ messages[i].n = s

\* The main VM is about to hear that a handler of the worker failed.
Broken == \E i \in 1..Len(toMain) : toMain[i].id = "error"

\* The bridge is about to hear that its stream is over, or was told by a message
\* whose handler failed.
Told(k) ==
  \/ Broken
  \/ \E i \in 1..Len(toWorker) : toWorker[i].id \in LostOf(k) /\ toWorker[i].n = Uses(k)

\* Every stream on its way is one the bridge opened.
Numbered ==
  \A i \in 1..Len(toMain) : toMain[i].id \in OpenIds \cup CloseIds => toMain[i].n \in 1..streams

\* While the main VM has the worker, it asked for no close.
NotAsked == \A i \in 1..Len(toWorker) : toWorker[i].id # "close"

\* What the bridge no longer uses, its close follows.
LeftIsClosed ==
  \A k \in Kinds :
    /\ Has(k) \notin {0, Uses(k)} => CloseIn(toMain, 1, Len(toMain), k, Has(k))
    /\ \A i \in 1..Len(toMain) : toMain[i].id = OpenOf(k) /\ toMain[i].n # Uses(k) =>
         CloseIn(toMain, i + 1, Len(toMain), k, toMain[i].n)

\* Before a stream is opened, the one before it is closed, whatever it was.
ClosedBeforeOpened ==
  \A k \in Kinds : \A i \in 1..Len(toMain) : toMain[i].id \in OpenIds =>
    /\ Has(k) # 0 => CloseIn(toMain, 1, i - 1, k, Has(k))
    /\ \A j \in 1..(i - 1) : toMain[j].id = OpenOf(k) => CloseIn(toMain, j + 1, i - 1, k, toMain[j].n)

\* The bridge has not closed the stream it uses; its opening is on the way, or the
\* main VM has it open, or the bridge is about to hear that it is over.
UsedIsKnown ==
  \A k \in Kinds : Uses(k) # 0 =>
    /\ ~CloseIn(toMain, 1, Len(toMain), k, Uses(k))
    /\ \/ \E i \in 1..Len(toMain) : toMain[i].id = OpenOf(k) /\ toMain[i].n = Uses(k)
       \/ Has(k) = Uses(k)
       \/ Told(k)

Exchange == Numbered /\ NotAsked /\ LeftIsClosed /\ ClosedBeforeOpened /\ UsedIsKnown

\* What Agreement and NeverRefused need besides IInv.
InStep == main.worker => Exchange

\* The names of the messages tell the kinds apart.
LEMMA KindsDiffer ==
  ASSUME NEW k \in Kinds, NEW l \in Kinds
  PROVE  /\ OpenOf(k) \in OpenIds /\ CloseOf(k) \in CloseIds
         /\ OpenOf(k) # CloseOf(l) /\ OpenIds \cap CloseIds = {}
         /\ OpenOf(k) = OpenOf(l) => k = l
         /\ CloseOf(k) = CloseOf(l) => k = l
         /\ "close" \notin LostOf(k)
  BY DEF Kinds, OpenOf, CloseOf, OpenIds, CloseIds, LostOf

\* An opening is of one kind.
LEMMA OpeningHasKind ==
  ASSUME NEW id \in OpenIds
  PROVE  \E k \in Kinds : id = OpenOf(k)
  BY DEF Kinds, OpenOf, OpenIds

\* Streams are numbers.
LEMMA StreamTypes ==
  ASSUME TypeOK, NEW k \in Kinds
  PROVE  Has(k) \in 0..streams /\ Uses(k) \in 0..streams /\ streams \in Nat
  <1>1. main \in MainRecords /\ worker \in WorkerRecords /\ streams \in Nat BY Bounds DEF TypeOK
  <1>2. main.audio \in 0..streams /\ main.mic \in 0..streams BY <1>1 DEF MainRecords
  <1>3. worker.output \in OutputRecords /\ worker.input \in 0..streams BY <1>1 DEF WorkerRecords
  <1>4. worker.output.stream \in 0..streams BY <1>3 DEF OutputRecords
  <1> QED BY <1>1, <1>2, <1>3, <1>4 DEF Has, Uses, Kinds

\* The queue to the main VM has a length, and its elements are messages.
LEMMA ToMainTypes == ASSUME TypeOK PROVE toMain \in Seq(MainMessages) /\ Len(toMain) \in Nat
  BY DEF TypeOK

\* More messages to the main VM than there were, which open nothing.
Longer(opened) ==
  /\ Len(toMain') \in Nat /\ Len(toMain) <= Len(toMain')
  /\ \A i \in 1..Len(toMain) : toMain'[i] = toMain[i]
  /\ \A i \in (Len(toMain) + 1)..Len(toMain') : toMain'[i].id \notin opened

\* The main VM hears nothing new of its streams, and closes none without a word.
LEMMA QuietInStep ==
  ASSUME TypeOK, Exchange, Longer(OpenIds \cup CloseIds), UNCHANGED streams, NotAsked',
         \A k \in Kinds : /\ Uses(k)' = Uses(k) /\ Has(k)' \in {0, Has(k)}
                          /\ Told(k) /\ Uses(k) # 0 => Told(k)'
                          /\ Has(k) = Uses(k) /\ Uses(k) # 0 => Has(k)' = Has(k) \/ Told(k)'
  PROVE  Exchange'
  <1>0. Len(toMain) \in Nat BY ToMainTypes
  <1>1. ASSUME NEW i \in 1..Len(toMain'), toMain'[i].id \in OpenIds \cup CloseIds
        PROVE  i \in 1..Len(toMain) /\ toMain'[i] = toMain[i]
    BY <1>0, <1>1 DEF Longer
  <1>2. ASSUME NEW k \in Kinds, NEW s, NEW from \in Nat \ {0}, NEW to \in Int, to <= Len(toMain)
        PROVE  CloseIn(toMain, from, to, k, s) => CloseIn(toMain', from, to, k, s)
    BY <1>0, <1>2 DEF CloseIn, Longer
  <1>3. ASSUME NEW k \in Kinds, NEW s, NEW from \in Nat \ {0}
        PROVE  CloseIn(toMain, from, Len(toMain), k, s) => CloseIn(toMain', from, Len(toMain'), k, s)
    BY <1>0, <1>3 DEF CloseIn, Longer
  <1>4. Numbered' BY <1>1 DEF Exchange, Numbered
  <1>5. LeftIsClosed'
    <2>1. SUFFICES ASSUME NEW k \in Kinds
                   PROVE  /\ Has(k)' \notin {0, Uses(k)'} => CloseIn(toMain', 1, Len(toMain'), k, Has(k)')
                          /\ \A i \in 1..Len(toMain') : toMain'[i].id = OpenOf(k) /\ toMain'[i].n # Uses(k)' =>
                               CloseIn(toMain', i + 1, Len(toMain'), k, toMain'[i].n)
      BY DEF LeftIsClosed
    <2>2. Has(k)' \notin {0, Uses(k)'} => CloseIn(toMain', 1, Len(toMain'), k, Has(k)')
      BY <1>3 DEF Exchange, LeftIsClosed
    <2>3. ASSUME NEW i \in 1..Len(toMain'), toMain'[i].id = OpenOf(k), toMain'[i].n # Uses(k)'
          PROVE  CloseIn(toMain', i + 1, Len(toMain'), k, toMain'[i].n)
      <3>1. i \in 1..Len(toMain) /\ toMain'[i] = toMain[i] BY <1>1, <2>3, KindsDiffer
      <3>2. CloseIn(toMain, i + 1, Len(toMain), k, toMain[i].n)
        BY <2>3, <3>1 DEF Exchange, LeftIsClosed
      <3> QED BY <1>3, <3>1, <3>2
    <2> QED BY <2>2, <2>3
  <1>6. ClosedBeforeOpened'
    <2>1. SUFFICES ASSUME NEW k \in Kinds, NEW i \in 1..Len(toMain'), toMain'[i].id \in OpenIds
                   PROVE  /\ Has(k)' # 0 => CloseIn(toMain', 1, i - 1, k, Has(k)')
                          /\ \A j \in 1..(i - 1) : toMain'[j].id = OpenOf(k) =>
                               CloseIn(toMain', j + 1, i - 1, k, toMain'[j].n)
      BY DEF ClosedBeforeOpened
    <2>2. i \in 1..Len(toMain) /\ toMain'[i] = toMain[i] BY <1>1, <2>1
    <2>3. Has(k)' # 0 => CloseIn(toMain', 1, i - 1, k, Has(k)')
      BY <1>0, <1>2, <2>1, <2>2 DEF Exchange, ClosedBeforeOpened
    <2>4. ASSUME NEW j \in 1..(i - 1), toMain'[j].id = OpenOf(k)
          PROVE  CloseIn(toMain', j + 1, i - 1, k, toMain'[j].n)
      <3>1. toMain'[j] = toMain[j] BY <1>0, <2>2 DEF Longer
      <3>2. CloseIn(toMain, j + 1, i - 1, k, toMain[j].n)
        BY <2>1, <2>2, <2>4, <3>1 DEF Exchange, ClosedBeforeOpened
      <3> QED BY <1>0, <1>2, <2>2, <3>1, <3>2
    <2> QED BY <2>3, <2>4
  <1>7. UsedIsKnown'
    <2>1. SUFFICES ASSUME NEW k \in Kinds, Uses(k)' # 0
                   PROVE  /\ ~CloseIn(toMain', 1, Len(toMain'), k, Uses(k)')
                          /\ \/ \E i \in 1..Len(toMain') : toMain'[i].id = OpenOf(k) /\ toMain'[i].n = Uses(k)'
                             \/ Has(k)' = Uses(k)'
                             \/ Told(k)'
      BY DEF UsedIsKnown
    <2>2. ~CloseIn(toMain', 1, Len(toMain'), k, Uses(k))
      <3>1. SUFFICES ASSUME NEW i \in 1..Len(toMain'), toMain'[i].id = CloseOf(k), toMain'[i].n = Uses(k)
                     PROVE  FALSE
        BY DEF CloseIn
      <3>2. i \in 1..Len(toMain) /\ toMain'[i] = toMain[i] BY <1>1, <3>1, KindsDiffer
      <3> QED BY <2>1, <3>1, <3>2 DEF Exchange, UsedIsKnown, CloseIn
    <2>3. (\E i \in 1..Len(toMain) : toMain[i].id = OpenOf(k) /\ toMain[i].n = Uses(k)) =>
            \E i \in 1..Len(toMain') : toMain'[i].id = OpenOf(k) /\ toMain'[i].n = Uses(k)
      BY <1>0 DEF Longer
    <2> QED BY <2>1, <2>2, <2>3 DEF Exchange, UsedIsKnown
  <1> QED BY <1>4, <1>5, <1>6, <1>7 DEF Exchange

\* The main VM takes a message: it opens the stream that is to be opened or tells
\* that it is lost, closes the one that is to be closed, and leaves the others.
LEMMA TakenInStep ==
  ASSUME TypeOK, Exchange, toMain # <<>>, toMain' = Tail(toMain), UNCHANGED streams, NotAsked',
         NEW m, m = Head(toMain),
         \A k \in Kinds :
           /\ Uses(k)' = Uses(k)
           /\ Told(k) => Told(k)'
           /\ m.id = OpenOf(k) =>
                Has(k)' = m.n \/ (Has(k)' = 0 /\ (m.n = Uses(k) => Told(k)'))
           /\ m.id = CloseOf(k) => Has(k)' = IF Has(k) = m.n THEN 0 ELSE Has(k)
           /\ m.id \notin {OpenOf(k), CloseOf(k)} => Has(k)' = Has(k)
  PROVE  Exchange'
  <1>0. /\ Len(toMain) \in Nat \ {0} /\ Len(toMain') = Len(toMain) - 1 /\ m = toMain[1]
        /\ \A i \in 1..Len(toMain') : i + 1 \in 1..Len(toMain) /\ toMain'[i] = toMain[i + 1]
    BY ToMainTypes, HeadTailProperties
  <1>s. streams \in Nat BY Numbers
  <1>m. m.id \in OpenIds \cup CloseIds => m.n \in 1..streams BY <1>0 DEF Exchange, Numbered
  <1>1. ASSUME NEW k \in Kinds, NEW s, NEW from \in Nat \ {0}, NEW to \in Int
        PROVE  CloseIn(toMain, from + 1, to + 1, k, s) /\ to <= Len(toMain') => CloseIn(toMain', from, to, k, s)
    <2>1. SUFFICES ASSUME NEW i \in (from + 1)..(to + 1), toMain[i].id = CloseOf(k), toMain[i].n = s,
                          to <= Len(toMain')
                   PROVE  CloseIn(toMain', from, to, k, s)
      BY DEF CloseIn
    <2>2. i - 1 \in from..to /\ i - 1 \in 1..Len(toMain') BY <1>0, <1>1, <2>1
    <2>3. toMain'[i - 1] = toMain[i] BY <1>0, <2>2
    <2> QED BY <2>1, <2>2, <2>3 DEF CloseIn
  <1>2. ASSUME NEW k \in Kinds, NEW s, NEW to \in Int, CloseIn(toMain, 1, to + 1, k, s),
               ~(m.id = CloseOf(k) /\ m.n = s), to <= Len(toMain')
        PROVE  CloseIn(toMain', 1, to, k, s)
    <2>1. PICK i \in 1..(to + 1) : toMain[i].id = CloseOf(k) /\ toMain[i].n = s BY <1>2 DEF CloseIn
    <2>2. i # 1 BY <1>0, <1>2, <2>1
    <2>3. CloseIn(toMain, 1 + 1, to + 1, k, s) BY <2>1, <2>2 DEF CloseIn
    <2> QED BY <1>1, <1>2, <2>3
  <1>3. Numbered' BY <1>0 DEF Exchange, Numbered
  \* If an opening is at the head, the main VM has nothing open.
  <1>4. m.id \in OpenIds => \A k \in Kinds : Has(k) = 0
    <2>1. ASSUME m.id \in OpenIds, NEW k \in Kinds, Has(k) # 0 PROVE FALSE
      <3>1. CloseIn(toMain, 1, 1 - 1, k, Has(k)) BY <1>0, <2>1 DEF Exchange, ClosedBeforeOpened
      <3> QED BY <3>1 DEF CloseIn
    <2> QED BY <2>1
  <1>5. LeftIsClosed'
    <2>1. SUFFICES ASSUME NEW k \in Kinds
                   PROVE  /\ Has(k)' \notin {0, Uses(k)'} => CloseIn(toMain', 1, Len(toMain'), k, Has(k)')
                          /\ \A i \in 1..Len(toMain') : toMain'[i].id = OpenOf(k) /\ toMain'[i].n # Uses(k)' =>
                               CloseIn(toMain', i + 1, Len(toMain'), k, toMain'[i].n)
      BY DEF LeftIsClosed
    <2>2. ASSUME Has(k)' \notin {0, Uses(k)} PROVE CloseIn(toMain', 1, Len(toMain'), k, Has(k)')
      <3>1. CASE m.id = OpenOf(k)
        <4>1. Has(k)' = m.n BY <2>2, <3>1
        <4>2. CloseIn(toMain, 1 + 1, Len(toMain), k, m.n)
          BY <1>0, <2>2, <3>1, <4>1 DEF Exchange, LeftIsClosed
        <4> QED BY <1>0, <1>1, <4>1, <4>2
      <3>2. CASE m.id # OpenOf(k)
        <4>1. Has(k)' = Has(k) /\ ~(m.id = CloseOf(k) /\ m.n = Has(k))
          BY <2>2, <3>2
        <4>2. CloseIn(toMain, 1, Len(toMain), k, Has(k)) BY <2>2, <4>1 DEF Exchange, LeftIsClosed
        <4> QED BY <1>0, <1>2, <4>1, <4>2
      <3> QED BY <3>1, <3>2
    <2>3. ASSUME NEW i \in 1..Len(toMain'), toMain'[i].id = OpenOf(k), toMain'[i].n # Uses(k)
          PROVE  CloseIn(toMain', i + 1, Len(toMain'), k, toMain'[i].n)
      <3>1. CloseIn(toMain, (i + 1) + 1, Len(toMain), k, toMain'[i].n)
        BY <1>0, <2>3 DEF Exchange, LeftIsClosed
      <3> QED BY <1>0, <1>1, <3>1
    <2> QED BY <2>2, <2>3
  <1>6. ClosedBeforeOpened'
    <2>1. SUFFICES ASSUME NEW k \in Kinds, NEW i \in 1..Len(toMain'), toMain'[i].id \in OpenIds
                   PROVE  /\ Has(k)' # 0 => CloseIn(toMain', 1, i - 1, k, Has(k)')
                          /\ \A j \in 1..(i - 1) : toMain'[j].id = OpenOf(k) =>
                               CloseIn(toMain', j + 1, i - 1, k, toMain'[j].n)
      BY DEF ClosedBeforeOpened
    <2>2. i + 1 \in 1..Len(toMain) /\ toMain'[i] = toMain[i + 1] /\ i - 1 <= Len(toMain') BY <1>0
    <2>3. ASSUME Has(k)' # 0 PROVE CloseIn(toMain', 1, i - 1, k, Has(k)')
      <3>1. CASE m.id = OpenOf(k)
        <4>1. Has(k)' = m.n BY <2>3, <3>1
        <4>2. CloseIn(toMain, 1 + 1, (i + 1) - 1, k, m.n)
          BY <1>0, <2>1, <2>2, <3>1 DEF Exchange, ClosedBeforeOpened
        <4>3. (i + 1) - 1 = (i - 1) + 1 /\ i - 1 \in Int OBVIOUS
        <4> QED BY <1>1, <2>2, <4>1, <4>2, <4>3
      <3>2. CASE m.id # OpenOf(k)
        <4>1. Has(k)' = Has(k) /\ ~(m.id = CloseOf(k) /\ m.n = Has(k)) BY <2>3, <3>2
        <4>2. CloseIn(toMain, 1, (i + 1) - 1, k, Has(k))
          BY <2>1, <2>2, <2>3, <4>1 DEF Exchange, ClosedBeforeOpened
        <4>3. (i + 1) - 1 = (i - 1) + 1 /\ i - 1 \in Int OBVIOUS
        <4> QED BY <1>2, <2>2, <4>1, <4>2, <4>3
      <3> QED BY <3>1, <3>2
    <2>4. ASSUME NEW j \in 1..(i - 1), toMain'[j].id = OpenOf(k)
          PROVE  CloseIn(toMain', j + 1, i - 1, k, toMain'[j].n)
      <3>1. j + 1 \in 1..((i + 1) - 1) /\ toMain'[j] = toMain[j + 1] BY <1>0, <2>2
      <3>2. CloseIn(toMain, (j + 1) + 1, (i + 1) - 1, k, toMain'[j].n)
        BY <2>1, <2>2, <2>4, <3>1 DEF Exchange, ClosedBeforeOpened
      <3>3. (i + 1) - 1 = (i - 1) + 1 /\ i - 1 \in Int OBVIOUS
      <3> QED BY <1>1, <2>2, <3>2, <3>3
    <2> QED BY <2>3, <2>4
  <1>7. UsedIsKnown'
    <2>1. SUFFICES ASSUME NEW k \in Kinds, Uses(k) # 0
                   PROVE  /\ ~CloseIn(toMain', 1, Len(toMain'), k, Uses(k))
                          /\ \/ \E i \in 1..Len(toMain') : toMain'[i].id = OpenOf(k) /\ toMain'[i].n = Uses(k)
                             \/ Has(k)' = Uses(k)
                             \/ Told(k)'
      BY DEF UsedIsKnown
    <2>2. ~CloseIn(toMain, 1, Len(toMain), k, Uses(k)) BY <2>1 DEF Exchange, UsedIsKnown
    <2>3. ~CloseIn(toMain', 1, Len(toMain'), k, Uses(k)) BY <1>0, <2>2 DEF CloseIn
    <2>4. ~(m.id = CloseOf(k) /\ m.n = Uses(k)) BY <1>0, <2>2 DEF CloseIn
    <2>5. CASE \E i \in 1..Len(toMain) : toMain[i].id = OpenOf(k) /\ toMain[i].n = Uses(k)
      <3>1. PICK i \in 1..Len(toMain) : toMain[i].id = OpenOf(k) /\ toMain[i].n = Uses(k) BY <2>5
      <3>2. CASE i = 1 BY <1>0, <2>3, <3>1, <3>2
      <3>3. CASE i # 1
        <4>1. i - 1 \in 1..Len(toMain') BY <1>0, <3>3
        <4>2. toMain'[i - 1] = toMain[i] BY <1>0, <4>1
        <4> QED BY <2>3, <3>1, <4>1, <4>2
      <3> QED BY <3>2, <3>3
    <2>6. CASE Has(k) = Uses(k)
      <3>1. m.id # OpenOf(k)
        <4>1. m.id \notin OpenIds BY <1>4, <2>1, <2>6
        <4> QED BY <4>1, KindsDiffer
      <3> QED BY <2>3, <2>4, <2>6, <3>1
    <2>7. CASE Told(k) BY <2>3, <2>7
    <2> QED BY <2>1, <2>5, <2>6, <2>7 DEF Exchange, UsedIsKnown
  <1> QED BY <1>3, <1>5, <1>6, <1>7 DEF Exchange

\* One more message to the main VM.
OneMore ==
  /\ Len(toMain') = Len(toMain) + 1
  /\ \A i \in 1..Len(toMain) : toMain'[i] = toMain[i]

\* A longer queue holds what it held.
LEMMA OneMoreKeeps ==
  ASSUME TypeOK, OneMore, NEW k \in Kinds, NEW s, NEW from \in Nat \ {0}
  PROVE  /\ \A to \in Int : to <= Len(toMain) /\ CloseIn(toMain, from, to, k, s) =>
              CloseIn(toMain', from, to, k, s)
         /\ CloseIn(toMain, from, Len(toMain), k, s) => CloseIn(toMain', from, Len(toMain'), k, s)
  <1>1. Len(toMain) \in Nat BY ToMainTypes
  <1>2. \A i \in from..Len(toMain) : toMain'[i] = toMain[i] BY <1>1 DEF OneMore
  <1> QED BY <1>1, <1>2 DEF CloseIn, OneMore

\* The bridge stops the stream of one kind, and says so.
LEMMA StopInStep ==
  ASSUME TypeOK, Exchange, UNCHANGED streams, NotAsked', OneMore, NEW c \in Kinds, Uses(c) # 0,
         toMain'[Len(toMain) + 1].id = CloseOf(c), toMain'[Len(toMain) + 1].n = Uses(c),
         Uses(c)' = 0, \A k \in Kinds : Has(k)' = Has(k),
         \A k \in Kinds \ {c} : Uses(k)' = Uses(k) /\ (Told(k) => Told(k)')
  PROVE  Exchange'
  <1>0. Len(toMain) \in Nat /\ streams \in Nat BY ToMainTypes, Numbers
  <1>1. ASSUME NEW i \in 1..Len(toMain')
        PROVE  \/ i \in 1..Len(toMain) /\ toMain'[i] = toMain[i]
               \/ i = Len(toMain) + 1 /\ toMain'[i].id \notin OpenIds
    BY <1>0, KindsDiffer DEF OneMore
  <1>2. Numbered'
    <2>1. Uses(c) \in 1..streams BY StreamTypes
    <2> QED BY <1>1, <2>1 DEF Exchange, Numbered
  \* The close of the stream that was used is the last message.
  <1>3. \A from \in 1..(Len(toMain) + 1) : CloseIn(toMain', from, Len(toMain'), c, Uses(c))
    BY <1>0 DEF CloseIn, OneMore
  <1>4. LeftIsClosed'
    <2>1. SUFFICES ASSUME NEW k \in Kinds
                   PROVE  /\ Has(k)' \notin {0, Uses(k)'} => CloseIn(toMain', 1, Len(toMain'), k, Has(k)')
                          /\ \A i \in 1..Len(toMain') : toMain'[i].id = OpenOf(k) /\ toMain'[i].n # Uses(k)' =>
                               CloseIn(toMain', i + 1, Len(toMain'), k, toMain'[i].n)
      BY DEF LeftIsClosed
    <2>2. ASSUME Has(k) \notin {0, Uses(k)'} PROVE CloseIn(toMain', 1, Len(toMain'), k, Has(k))
      <3>1. CASE k = c /\ Has(k) = Uses(k) BY <1>0, <1>3, <3>1
      <3>2. CASE Has(k) # Uses(k)
        <4>1. CloseIn(toMain, 1, Len(toMain), k, Has(k)) BY <2>2, <3>2 DEF Exchange, LeftIsClosed
        <4> QED BY <4>1, OneMoreKeeps
      <3> QED BY <2>2, <3>1, <3>2
    <2>3. ASSUME NEW i \in 1..Len(toMain'), toMain'[i].id = OpenOf(k), toMain'[i].n # Uses(k)'
          PROVE  CloseIn(toMain', i + 1, Len(toMain'), k, toMain'[i].n)
      <3>1. i \in 1..Len(toMain) /\ toMain'[i] = toMain[i] BY <1>1, <2>3, KindsDiffer
      <3>2. CASE k = c /\ toMain[i].n = Uses(k)
        <4>1. i + 1 \in 1..(Len(toMain) + 1) BY <1>0, <3>1
        <4> QED BY <1>3, <3>1, <3>2, <4>1
      <3>3. CASE toMain[i].n # Uses(k)
        <4>1. CloseIn(toMain, i + 1, Len(toMain), k, toMain[i].n)
          BY <2>3, <3>1, <3>3 DEF Exchange, LeftIsClosed
        <4> QED BY <3>1, <4>1, OneMoreKeeps
      <3> QED BY <2>3, <3>1, <3>2, <3>3
    <2> QED BY <2>2, <2>3
  <1>5. ClosedBeforeOpened'
    <2>1. SUFFICES ASSUME NEW k \in Kinds, NEW i \in 1..Len(toMain'), toMain'[i].id \in OpenIds
                   PROVE  /\ Has(k)' # 0 => CloseIn(toMain', 1, i - 1, k, Has(k)')
                          /\ \A j \in 1..(i - 1) : toMain'[j].id = OpenOf(k) =>
                               CloseIn(toMain', j + 1, i - 1, k, toMain'[j].n)
      BY DEF ClosedBeforeOpened
    <2>2. i \in 1..Len(toMain) /\ toMain'[i] = toMain[i] /\ i - 1 \in Int /\ i - 1 <= Len(toMain)
      BY <1>0, <1>1, <2>1
    <2>3. \A j \in 1..(i - 1) : toMain'[j] = toMain[j] BY <1>0, <2>2 DEF OneMore
    <2>4. /\ Has(k) # 0 => CloseIn(toMain, 1, i - 1, k, Has(k))
          /\ \A j \in 1..(i - 1) : toMain[j].id = OpenOf(k) => CloseIn(toMain, j + 1, i - 1, k, toMain[j].n)
      BY <2>1, <2>2 DEF Exchange, ClosedBeforeOpened
    <2>5. ASSUME Has(k) # 0 PROVE CloseIn(toMain', 1, i - 1, k, Has(k))
      <3>1. CloseIn(toMain, 1, i - 1, k, Has(k)) BY <2>4, <2>5
      <3>2. 1 \in Nat \ {0} OBVIOUS
      <3> QED BY <2>2, <3>1, <3>2, OneMoreKeeps
    <2>6. ASSUME NEW j \in 1..(i - 1), toMain'[j].id = OpenOf(k)
          PROVE  CloseIn(toMain', j + 1, i - 1, k, toMain'[j].n)
      <3>1. toMain'[j] = toMain[j] BY <2>3
      <3>2. CloseIn(toMain, j + 1, i - 1, k, toMain[j].n) BY <2>4, <2>6, <3>1
      <3>3. j + 1 \in Nat \ {0} OBVIOUS
      <3> QED BY <2>2, <3>1, <3>2, <3>3, OneMoreKeeps
    <2> QED BY <2>5, <2>6
  <1>6. UsedIsKnown'
    <2>1. SUFFICES ASSUME NEW k \in Kinds \ {c}, Uses(k) # 0
                   PROVE  /\ ~CloseIn(toMain', 1, Len(toMain'), k, Uses(k))
                          /\ \/ \E i \in 1..Len(toMain') : toMain'[i].id = OpenOf(k) /\ toMain'[i].n = Uses(k)
                             \/ Has(k)' = Uses(k)
                             \/ Told(k)'
      BY DEF UsedIsKnown
    <2>2. ~CloseIn(toMain', 1, Len(toMain'), k, Uses(k))
      <3>1. SUFFICES ASSUME NEW i \in 1..Len(toMain'), toMain'[i].id = CloseOf(k), toMain'[i].n = Uses(k)
                     PROVE  FALSE
        BY DEF CloseIn
      <3>2. i # Len(toMain) + 1 BY <3>1, KindsDiffer
      <3>3. i \in 1..Len(toMain) /\ toMain'[i] = toMain[i] BY <1>1, <3>2
      <3> QED BY <2>1, <3>1, <3>3 DEF Exchange, UsedIsKnown, CloseIn
    <2>3. (\E i \in 1..Len(toMain) : toMain[i].id = OpenOf(k) /\ toMain[i].n = Uses(k)) =>
            \E i \in 1..Len(toMain') : toMain'[i].id = OpenOf(k) /\ toMain'[i].n = Uses(k)
      BY <1>0 DEF OneMore
    <2> QED BY <2>1, <2>2, <2>3 DEF Exchange, UsedIsKnown
  <1> QED BY <1>2, <1>4, <1>5, <1>6 DEF Exchange

\* The bridge opens a stream of one kind, with none in use.
LEMMA OpenInStep ==
  ASSUME TypeOK, Exchange, streams' = streams + 1, UNCHANGED toWorker, OneMore, NEW c \in Kinds,
         toMain'[Len(toMain) + 1].id = OpenOf(c), toMain'[Len(toMain) + 1].n = streams + 1,
         \A k \in Kinds : Uses(k) = 0 /\ Has(k)' = Has(k) /\ Uses(k)' = IF k = c THEN streams + 1 ELSE 0
  PROVE  Exchange'
  <1>0. Len(toMain) \in Nat /\ streams \in Nat /\ 1..streams \subseteq 1..(streams + 1)
    BY ToMainTypes, Numbers
  <1>1. ASSUME NEW i \in 1..Len(toMain')
        PROVE  \/ i \in 1..Len(toMain) /\ toMain'[i] = toMain[i]
               \/ i = Len(toMain) + 1
    BY <1>0 DEF OneMore
  <1>2. Numbered' BY <1>0, <1>1 DEF Exchange, Numbered
  <1>3. LeftIsClosed'
    <2>1. SUFFICES ASSUME NEW k \in Kinds
                   PROVE  /\ Has(k)' \notin {0, Uses(k)'} => CloseIn(toMain', 1, Len(toMain'), k, Has(k)')
                          /\ \A i \in 1..Len(toMain') : toMain'[i].id = OpenOf(k) /\ toMain'[i].n # Uses(k)' =>
                               CloseIn(toMain', i + 1, Len(toMain'), k, toMain'[i].n)
      BY DEF LeftIsClosed
    <2>2. ASSUME Has(k) # 0 PROVE CloseIn(toMain', 1, Len(toMain'), k, Has(k))
      <3>1. CloseIn(toMain, 1, Len(toMain), k, Has(k)) BY <2>2 DEF Exchange, LeftIsClosed
      <3> QED BY <3>1, OneMoreKeeps
    <2>3. ASSUME NEW i \in 1..Len(toMain'), toMain'[i].id = OpenOf(k), toMain'[i].n # Uses(k)'
          PROVE  CloseIn(toMain', i + 1, Len(toMain'), k, toMain'[i].n)
      <3>1. i \in 1..Len(toMain) /\ toMain'[i] = toMain[i] BY <1>1, <2>3, KindsDiffer
      <3>2. toMain[i].n # 0 BY <1>0, <2>3, <3>1, KindsDiffer DEF Exchange, Numbered
      <3>3. CloseIn(toMain, i + 1, Len(toMain), k, toMain[i].n)
        BY <2>3, <3>1, <3>2 DEF Exchange, LeftIsClosed
      <3> QED BY <3>1, <3>3, OneMoreKeeps
    <2> QED BY <2>2, <2>3
  <1>4. ClosedBeforeOpened'
    <2>1. SUFFICES ASSUME NEW k \in Kinds, NEW i \in 1..Len(toMain'), toMain'[i].id \in OpenIds
                   PROVE  /\ Has(k)' # 0 => CloseIn(toMain', 1, i - 1, k, Has(k)')
                          /\ \A j \in 1..(i - 1) : toMain'[j].id = OpenOf(k) =>
                               CloseIn(toMain', j + 1, i - 1, k, toMain'[j].n)
      BY DEF ClosedBeforeOpened
    <2>2. i - 1 \in Int /\ i - 1 <= Len(toMain) /\ \A j \in 1..(i - 1) : toMain'[j] = toMain[j]
      BY <1>0, <1>1 DEF OneMore
    <2>3. /\ Has(k) # 0 => CloseIn(toMain, 1, i - 1, k, Has(k))
          /\ \A j \in 1..(i - 1) : toMain[j].id = OpenOf(k) => CloseIn(toMain, j + 1, i - 1, k, toMain[j].n)
      <3>1. CASE i \in 1..Len(toMain) /\ toMain'[i] = toMain[i]
        BY <2>1, <3>1 DEF Exchange, ClosedBeforeOpened
      <3>2. CASE i = Len(toMain) + 1
        <4>1. i - 1 = Len(toMain) BY <1>0, <3>2
        <4>2. \A j \in 1..Len(toMain) : toMain[j].id = OpenOf(k) => toMain[j].n # 0
          BY <1>0, KindsDiffer DEF Exchange, Numbered
        <4> QED BY <4>1, <4>2 DEF Exchange, LeftIsClosed
      <3> QED BY <1>1, <3>1, <3>2
    <2>4. ASSUME Has(k) # 0 PROVE CloseIn(toMain', 1, i - 1, k, Has(k))
      <3>1. CloseIn(toMain, 1, i - 1, k, Has(k)) BY <2>3, <2>4
      <3>2. 1 \in Nat \ {0} OBVIOUS
      <3> QED BY <2>2, <3>1, <3>2, OneMoreKeeps
    <2>5. ASSUME NEW j \in 1..(i - 1), toMain'[j].id = OpenOf(k)
          PROVE  CloseIn(toMain', j + 1, i - 1, k, toMain'[j].n)
      <3>1. toMain'[j] = toMain[j] BY <2>2
      <3>2. CloseIn(toMain, j + 1, i - 1, k, toMain[j].n) BY <2>3, <2>5, <3>1
      <3>3. j + 1 \in Nat \ {0} OBVIOUS
      <3> QED BY <2>2, <3>1, <3>2, <3>3, OneMoreKeeps
    <2> QED BY <2>4, <2>5
  <1>5. UsedIsKnown'
    <2>1. ~CloseIn(toMain', 1, Len(toMain'), c, streams + 1)
      <3>1. SUFFICES ASSUME NEW i \in 1..Len(toMain'), toMain'[i].id = CloseOf(c), toMain'[i].n = streams + 1
                     PROVE  FALSE
        BY DEF CloseIn
      <3>2. i \in 1..Len(toMain) /\ toMain'[i] = toMain[i] BY <1>1, <3>1, KindsDiffer
      <3>3. streams + 1 \in 1..streams BY <3>1, <3>2, KindsDiffer DEF Exchange, Numbered
      <3> QED BY <1>0, <3>3
    <2>2. \E i \in 1..Len(toMain') : toMain'[i].id = OpenOf(c) /\ toMain'[i].n = streams + 1
      BY <1>0 DEF OneMore
    <2> QED BY <2>1, <2>2 DEF UsedIsKnown
  <1>6. NotAsked' BY DEF Exchange, NotAsked
  <1> QED BY <1>2, <1>3, <1>4, <1>5, <1>6 DEF Exchange

\* The main VM hears of the failed handler, unless that is what it reads.
LEMMA BrokenIsHeard ==
  ASSUME TypeOK, \/ Longer({}) \/ OneMore
                 \/ toMain # <<>> /\ toMain' = Tail(toMain) /\ Head(toMain).id # "error"
                 \/ \E q \in Seq(MainMessages) : toMain' = toMain \o q
  PROVE  Broken => Broken'
  <1>0. toMain \in Seq(MainMessages) /\ Len(toMain) \in Nat BY ToMainTypes
  <1>1. CASE Longer({}) BY <1>0, <1>1 DEF Longer, Broken
  <1>2. CASE OneMore BY <1>0, <1>2 DEF OneMore, Broken
  <1>3. CASE toMain # <<>> /\ toMain' = Tail(toMain) /\ Head(toMain).id # "error"
    <2>1. /\ Len(toMain') = Len(toMain) - 1 /\ Head(toMain) = toMain[1]
          /\ \A i \in 1..Len(toMain') : toMain'[i] = toMain[i + 1]
      BY <1>0, <1>3, HeadTailProperties
    <2>2. SUFFICES ASSUME NEW i \in 1..Len(toMain), toMain[i].id = "error" PROVE Broken' BY DEF Broken
    <2>0. i # 1 BY <1>3, <2>1, <2>2
    <2>3. i - 1 \in 1..Len(toMain') BY <1>0, <2>0, <2>1
    <2>4. toMain'[i - 1] = toMain[i] BY <2>1, <2>3
    <2> QED BY <2>2, <2>3, <2>4 DEF Broken
  <1>4. CASE \E q \in Seq(MainMessages) : toMain' = toMain \o q
    <2>1. PICK q \in Seq(MainMessages) : toMain' = toMain \o q BY <1>4
    <2>2. Len(toMain') = Len(toMain) + Len(q) /\ Len(q) \in Nat BY <1>0, <2>1
    <2>3. ASSUME NEW i \in 1..Len(toMain) PROVE toMain'[i] = toMain[i] /\ i \in 1..Len(toMain')
      BY <1>0, <2>1, <2>2
    <2> QED BY <2>3 DEF Broken
  <1> QED BY <1>1, <1>2, <1>3, <1>4

\* The worker is told something, which is not to close.
LEMMA TellKeeps ==
  ASSUME TypeOK, NotAsked, main.worker, Broken => Broken', NEW id \in ToWorkers, id # "close", NEW s \in Nat, ToWorker(id, s),
         \A k \in Kinds : Uses(k)' = Uses(k)
  PROVE  /\ NotAsked'
         /\ \A k \in Kinds : /\ Told(k) => Told(k)'
                             /\ id \in LostOf(k) /\ s = Uses(k) => Told(k)'
  <1> DEFINE m == Message(id, s)
             M == WorkerMessages
  <1>1. toWorker \in Seq(M) /\ m \in M BY DEF TypeOK, Message, WorkerMessages
  <1>2. m.id = id /\ m.n = s BY DEF Message
  <1>3. toWorker' = Append(toWorker, m) BY DEF ToWorker
  <1> HIDE DEF m, M
  <1>4. /\ Len(toWorker) \in Nat /\ Len(toWorker') = Len(toWorker) + 1
        /\ toWorker'[Len(toWorker) + 1] = m
        /\ \A i \in 1..Len(toWorker) : toWorker'[i] = toWorker[i]
    BY <1>1, <1>3
  <1>5. NotAsked' BY <1>2, <1>4 DEF NotAsked
  <1>6. ASSUME NEW k \in Kinds PROVE Told(k) => Told(k)' BY <1>4 DEF Told
  <1>7. ASSUME NEW k \in Kinds PROVE id \in LostOf(k) /\ s = Uses(k) => Told(k)'
    BY <1>2, <1>4 DEF Told
  <1> QED BY <1>5, <1>6, <1>7

\* The worker is told nothing.
LEMMA SilenceKeeps ==
  ASSUME NotAsked, UNCHANGED toWorker, Broken => Broken', \A k \in Kinds : Uses(k)' = Uses(k)
  PROVE  NotAsked' /\ \A k \in Kinds : Told(k) => Told(k)'
  BY DEF NotAsked, Told

\* The worker takes a message, and hears no more than it says.
LEMMA HeardKeeps ==
  ASSUME TypeOK, NotAsked, toWorker # <<>>, toWorker' = Tail(toWorker), Broken => Broken'
  PROVE  /\ NotAsked' /\ Head(toWorker).id # "close"
         /\ \A k \in Kinds :
              /\ Uses(k)' = Uses(k) /\ Told(k)
              /\ ~(Head(toWorker).id \in LostOf(k) /\ Head(toWorker).n = Uses(k))
              => Told(k)'
  <1>1. toWorker \in Seq(WorkerMessages) BY DEF TypeOK
  <1>2. /\ Len(toWorker) \in Nat \ {0} /\ Len(toWorker') = Len(toWorker) - 1 /\ Head(toWorker) = toWorker[1]
        /\ \A i \in 1..Len(toWorker') : i + 1 \in 1..Len(toWorker) /\ toWorker'[i] = toWorker[i + 1]
    BY <1>1, HeadTailProperties
  <1>3. NotAsked' /\ Head(toWorker).id # "close" BY <1>2 DEF NotAsked
  <1>4. ASSUME NEW k \in Kinds, Uses(k)' = Uses(k), Told(k),
               ~(Head(toWorker).id \in LostOf(k) /\ Head(toWorker).n = Uses(k))
        PROVE  Told(k)'
    <2>1. SUFFICES ASSUME NEW i \in 1..Len(toWorker), toWorker[i].id \in LostOf(k), toWorker[i].n = Uses(k)
                   PROVE  Told(k)'
      BY <1>4 DEF Told
    <2>2. i # 1 BY <1>2, <1>4, <2>1
    <2>3. i - 1 \in 1..Len(toWorker') BY <1>2, <2>2
    <2>4. toWorker'[i - 1] = toWorker[i] BY <1>2, <2>3
    <2> QED BY <1>4, <2>1, <2>3, <2>4 DEF Told
  <1> QED BY <1>3, <1>4

\* #handleWorkerMessage keeps the exchange, message by message.
LEMMA MainReadsInStep == ASSUME IInv, InStep, MainReads PROVE InStep'
  <1> DEFINE m == Head(toMain)
  <1>1. /\ TypeOK /\ main \in MainRecords /\ toMain # <<>> /\ toMain' = Tail(toMain)
        /\ UNCHANGED streams /\ m.id \in ToMain /\ m.n \in Nat
    BY HeadOfMain DEF IInv, TypeOK, MainReads
  <1>2. CASE m.id \in {"error", "closed"}
    <2> DEFINE c == CloseAudio(CloseMicrophone(main))
    <2>1. c \in MainRecords BY <1>1, ClosingTypes
    <2>2. main' = [c EXCEPT !.worker = FALSE] BY <1>2 DEF MainReads, WorkerGone
    <2> HIDE DEF c
    <2>3. main'.worker = FALSE BY <2>1, <2>2 DEF MainRecords
    <2> QED BY <2>3 DEF InStep
  <1>w. m.id \notin {"error", "closed"} => \A k \in Kinds : Uses(k)' = Uses(k)
    BY DEF MainReads, Terminates, Uses
  <1>b. m.id # "error" => (Broken => Broken') BY <1>1, BrokenIsHeard
  <1> HIDE DEF m
  <1>s. "microphone-started" \in ToWorkers /\ "microphone-failed" \in ToWorkers
        /\ "audio-opened" \in ToWorkers /\ "audio-failed" \in ToWorkers
    BY DEF ToWorkers
  <1>e. ASSUME main.worker, m.id \notin {"error", "closed"}, NotAsked', \A k \in Kinds : Told(k) => Told(k)',
               m.id = "audio-open" =>
                 /\ main'.mic = main.mic
                 /\ main'.audio = m.n \/ (main'.audio = 0 /\ (m.n = Uses("audio") => Told("audio")')),
               m.id = "microphone-open" =>
                 /\ main'.audio = main.audio
                 /\ main'.mic = m.n \/ (main'.mic = 0 /\ (m.n = Uses("microphone") => Told("microphone")')),
               m.id = "audio-close" =>
                 main'.mic = main.mic /\ main'.audio = IF main.audio = m.n THEN 0 ELSE main.audio,
               m.id = "microphone-close" =>
                 main'.audio = main.audio /\ main'.mic = IF main.mic = m.n THEN 0 ELSE main.mic,
               m.id \notin OpenIds \cup CloseIds => main'.audio = main.audio /\ main'.mic = main.mic
        PROVE  InStep'
    <2>1. ASSUME NEW k \in Kinds
          PROVE  /\ m.id = OpenOf(k) => Has(k)' = m.n \/ (Has(k)' = 0 /\ (m.n = Uses(k) => Told(k)'))
                 /\ m.id = CloseOf(k) => Has(k)' = IF Has(k) = m.n THEN 0 ELSE Has(k)
                 /\ m.id \notin {OpenOf(k), CloseOf(k)} => Has(k)' = Has(k)
      <3>1. CASE k = "audio" BY <1>e, <3>1 DEF OpenOf, CloseOf, OpenIds, CloseIds, Has
      <3>2. CASE k = "microphone" BY <1>e, <3>2 DEF OpenOf, CloseOf, OpenIds, CloseIds, Has
      <3> QED BY <3>1, <3>2 DEF Kinds
    <2>2. m = Head(toMain) BY DEF m
    <2>3. Exchange BY <1>e DEF InStep
    <2>4. \A k \in Kinds : Uses(k)' = Uses(k) BY <1>e, <1>w
    <2>5. Exchange' BY <1>1, <1>e, <2>1, <2>2, <2>3, <2>4, TakenInStep
    <2> QED BY <2>5 DEF InStep
  <1>3. CASE m.id = "microphone-open"
    <2>1. /\ \/ main' = [main EXCEPT !.mic = m.n] /\ ToWorker("microphone-started", m.n)
             \/ main' = CloseMicrophone(main) /\ ToWorker("microphone-failed", m.n)
      BY <1>3 DEF MainReads, OpenMicrophone, m
    <2>2. /\ main'.worker = main.worker /\ main'.audio = main.audio
          /\ \/ main'.mic = m.n /\ ToWorker("microphone-started", m.n)
             \/ main'.mic = 0 /\ ToWorker("microphone-failed", m.n)
      BY <1>1, <2>1 DEF CloseMicrophone, MainRecords
    <2>3. ASSUME main.worker
          PROVE  /\ NotAsked' /\ \A k \in Kinds : Told(k) => Told(k)'
                 /\ main'.mic = m.n \/ (main'.mic = 0 /\ (m.n = Uses("microphone") => Told("microphone")'))
      <3>1. NotAsked BY <2>3 DEF InStep, Exchange
      <3>2. "microphone" \in Kinds /\ "microphone-failed" \in LostOf("microphone") BY DEF Kinds, LostOf
      <3>3. \A k \in Kinds : Uses(k)' = Uses(k) BY <1>3, <1>w
      <3>4. CASE main'.mic = m.n /\ ToWorker("microphone-started", m.n)
        BY <1>1, <1>3, <1>b, <1>s, <2>3, <3>1, <3>3, <3>4, TellKeeps
      <3>5. CASE main'.mic = 0 /\ ToWorker("microphone-failed", m.n)
        BY <1>1, <1>3, <1>b, <1>s, <2>3, <3>1, <3>2, <3>3, <3>5, TellKeeps
      <3> QED BY <2>2, <3>4, <3>5
    <2>4. m.id \in OpenIds BY <1>3 DEF OpenIds
    <2> QED BY <1>3, <1>e, <2>2, <2>3, <2>4 DEF InStep
  <1>4. CASE m.id = "audio-open"
    <2>1. /\ \/ main' = [CloseAudio(main) EXCEPT !.audio = m.n] /\ ToWorker("audio-opened", m.n)
             \/ main' = CloseAudio(main) /\ ToWorker("audio-failed", m.n)
      BY <1>4 DEF MainReads, OpenAudio, m
    <2>2. /\ main'.worker = main.worker /\ main'.mic = main.mic
          /\ \/ main'.audio = m.n /\ ToWorker("audio-opened", m.n)
             \/ main'.audio = 0 /\ ToWorker("audio-failed", m.n)
      BY <1>1, <2>1 DEF CloseAudio, MainRecords
    <2>3. ASSUME main.worker
          PROVE  /\ NotAsked' /\ \A k \in Kinds : Told(k) => Told(k)'
                 /\ main'.audio = m.n \/ (main'.audio = 0 /\ (m.n = Uses("audio") => Told("audio")'))
      <3>1. NotAsked BY <2>3 DEF InStep, Exchange
      <3>2. "audio" \in Kinds /\ "audio-failed" \in LostOf("audio") BY DEF Kinds, LostOf
      <3>3. \A k \in Kinds : Uses(k)' = Uses(k) BY <1>4, <1>w
      <3>4. CASE main'.audio = m.n /\ ToWorker("audio-opened", m.n)
        BY <1>1, <1>4, <1>b, <1>s, <2>3, <3>1, <3>3, <3>4, TellKeeps
      <3>5. CASE main'.audio = 0 /\ ToWorker("audio-failed", m.n)
        BY <1>1, <1>4, <1>b, <1>s, <2>3, <3>1, <3>2, <3>3, <3>5, TellKeeps
      <3> QED BY <2>2, <3>4, <3>5
    <2>4. m.id \in OpenIds BY <1>4 DEF OpenIds
    <2> QED BY <1>4, <1>e, <2>2, <2>3, <2>4 DEF InStep
  \* The others tell the worker nothing.
  <1>q. ASSUME m.id \in {"audio-start", "audio-end", "send-event-result", "audio-close", "microphone-close"},
               UNCHANGED toWorker, main'.worker = main.worker,
               main'.audio = IF m.id = "audio-close" /\ main.audio = m.n THEN 0 ELSE main.audio,
               main'.mic = IF m.id = "microphone-close" /\ main.mic = m.n THEN 0 ELSE main.mic
        PROVE  InStep'
    <2>1. ASSUME main.worker PROVE NotAsked' /\ \A k \in Kinds : Told(k) => Told(k)'
      <3>1. NotAsked BY <2>1 DEF InStep, Exchange
      <3>2. \A k \in Kinds : Uses(k)' = Uses(k) BY <1>q, <1>w
      <3> QED BY <1>b, <1>q, <3>1, <3>2, SilenceKeeps
    <2>2. /\ m.id \notin {"audio-open", "microphone-open", "error", "closed"}
          /\ m.id = "audio-close" =>
               main'.mic = main.mic /\ main'.audio = IF main.audio = m.n THEN 0 ELSE main.audio
          /\ m.id = "microphone-close" =>
               main'.audio = main.audio /\ main'.mic = IF main.mic = m.n THEN 0 ELSE main.mic
          /\ m.id \notin OpenIds \cup CloseIds => main'.audio = main.audio /\ main'.mic = main.mic
      BY <1>q DEF CloseIds
    <2>3. CASE ~main.worker BY <1>q, <2>3 DEF InStep
    <2> QED BY <1>e, <2>1, <2>2, <2>3
  <1>5. CASE m.id \in {"audio-start", "audio-end"}
    <2>1. PICK d \in {main, [main EXCEPT !.started = TRUE], [main EXCEPT !.ended = TRUE]} :
            Drain(d) /\ UNCHANGED toWorker
      BY <1>5 DEF MainReads, m, StartAudio, EndAudio
    <2>2. d \in MainRecords /\ d.audio = main.audio /\ d.mic = main.mic /\ d.worker = main.worker
      BY <1>1, <2>1 DEF MainRecords
    <2>3. main'.audio = main.audio /\ main'.mic = main.mic /\ main'.worker = main.worker
      BY <1>1, <2>1, <2>2, DrainTakes
    <2> QED BY <1>5, <1>q, <2>1, <2>3
  <1>6. CASE m.id = "send-event-result"
    BY <1>6, <1>q DEF MainReads, m
  <1>7. CASE m.id = "audio-close"
    <2>1. main' = (IF main.audio = m.n THEN CloseAudio(main) ELSE main) /\ UNCHANGED toWorker
      BY <1>7 DEF MainReads, m
    <2>2. CloseAudio(main).audio = 0 /\ CloseAudio(main).mic = main.mic /\ CloseAudio(main).worker = main.worker
      BY <1>1 DEF CloseAudio, MainRecords
    <2> QED BY <1>7, <1>q, <2>1, <2>2
  <1>8. CASE m.id = "microphone-close"
    <2>1. main' = (IF main.mic = m.n THEN CloseMicrophone(main) ELSE main) /\ UNCHANGED toWorker
      BY <1>8 DEF MainReads, m
    <2>2. /\ CloseMicrophone(main).mic = 0 /\ CloseMicrophone(main).audio = main.audio
          /\ CloseMicrophone(main).worker = main.worker
      BY <1>1 DEF CloseMicrophone, MainRecords
    <2> QED BY <1>8, <1>q, <2>1, <2>2
  <1> QED BY <1>1, <1>2, <1>3, <1>4, <1>5, <1>6, <1>7, <1>8 DEF ToMain, m

\* A step that sends the main VM nothing, and closes what the worker hears of.
LEMMA SameQueueInStep ==
  ASSUME IInv, InStep, UNCHANGED <<toMain, streams, worker>>, main'.worker => main.worker,
         main.worker => /\ NotAsked' /\ \A k \in Kinds : Told(k) => Told(k)'
                        /\ main'.audio = main.audio \/ (main'.audio = 0 /\ (main.audio = Uses("audio") => Told("audio")'))
                        /\ main'.mic = main.mic \/ (main'.mic = 0 /\ (main.mic = Uses("microphone") => Told("microphone")'))
  PROVE  InStep'
  <1>1. CASE ~main.worker BY <1>1 DEF InStep
  <1>2. CASE main.worker
    <2>1. TypeOK /\ Exchange BY <1>2 DEF IInv, InStep
    <2>2. Longer(OpenIds \cup CloseIds)
      <3>1. Len(toMain) \in Nat BY <2>1, ToMainTypes
      <3> QED BY <3>1 DEF Longer
    <2>3. ASSUME NEW k \in Kinds
          PROVE  /\ Uses(k)' = Uses(k) /\ Has(k)' \in {0, Has(k)}
                 /\ Has(k) = Uses(k) /\ Uses(k) # 0 => Has(k)' = Has(k) \/ Told(k)'
      <3>1. CASE k = "audio" BY <1>2, <3>1 DEF Has, Uses
      <3>2. CASE k = "microphone" BY <1>2, <3>2 DEF Has, Uses
      <3> QED BY <3>1, <3>2 DEF Kinds
    <2>4. NotAsked' /\ \A k \in Kinds : Told(k) => Told(k)' BY <1>2
    <2>5. Exchange' BY <2>1, <2>2, <2>3, <2>4, QuietInStep
    <2> QED BY <2>5 DEF InStep
  <1> QED BY <1>1, <1>2

\* A failure of the main VM's stream is told.
LEMMA TellInStep ==
  ASSUME IInv, InStep, UNCHANGED <<toMain, streams, worker>>, main'.worker = main.worker,
         NEW id \in ToWorkers, id # "close", NEW s \in Nat, ToWorker(id, s),
         main'.audio = main.audio \/ (main'.audio = 0 /\ id \in LostOf("audio") /\ s = main.audio),
         main'.mic = main.mic \/ (main'.mic = 0 /\ id \in LostOf("microphone") /\ s = main.mic)
  PROVE  InStep'
  <1>1. TypeOK BY DEF IInv
  <1>2. ASSUME main.worker
        PROVE  /\ NotAsked' /\ \A k \in Kinds : Told(k) => Told(k)'
               /\ main'.audio = main.audio \/ (main'.audio = 0 /\ (main.audio = Uses("audio") => Told("audio")'))
               /\ main'.mic = main.mic \/ (main'.mic = 0 /\ (main.mic = Uses("microphone") => Told("microphone")'))
    <2>1. NotAsked BY <1>2 DEF InStep, Exchange
    <2>2. (\A k \in Kinds : Uses(k)' = Uses(k)) /\ (Broken => Broken') BY DEF Uses, Broken
    <2>3. NotAsked' /\ \A k \in Kinds : /\ Told(k) => Told(k)'
                                        /\ id \in LostOf(k) /\ s = Uses(k) => Told(k)'
      BY <1>1, <1>2, <2>1, <2>2, TellKeeps
    <2>4. "audio" \in Kinds /\ "microphone" \in Kinds BY DEF Kinds
    <2> QED BY <2>3, <2>4
  <1> QED BY <1>2, SameQueueInStep

\* Every other step of the main VM keeps the exchange.
LEMMA MainVMInStep == ASSUME IInv, InStep, MainVM PROVE InStep'
  <1>1. TypeOK /\ main \in MainRecords BY DEF IInv, TypeOK
  <1>2. main.audio \in Nat /\ main.mic \in Nat BY <1>1, Numbers DEF MainRecords
  <1>s. /\ "send-event" \in ToWorkers /\ "audio-drained" \in ToWorkers
        /\ "audio-failed" \in ToWorkers /\ "microphone-failed" \in ToWorkers
        /\ "audio-failed" \in LostOf("audio") /\ "audio-drained" \in LostOf("audio")
        /\ "microphone-failed" \in LostOf("microphone")
    BY DEF ToWorkers, LostOf
  \* Of the speaker and the microphone, nothing changes.
  <1>q. ASSUME UNCHANGED <<toMain, toWorker, streams, worker>>, main'.worker = main.worker,
               main'.audio = main.audio, main'.mic = main.mic
        PROVE  InStep'
    <2>1. ASSUME main.worker PROVE NotAsked' /\ \A k \in Kinds : Told(k) => Told(k)'
      <3>1. NotAsked /\ \A k \in Kinds : Uses(k)' = Uses(k) BY <1>q, <2>1 DEF InStep, Exchange, Uses
      <3>2. Broken => Broken' BY <1>q DEF Broken
      <3> QED BY <1>q, <3>1, <3>2, SilenceKeeps
    <2> QED BY <1>q, <2>1, SameQueueInStep
  <1>3. CASE MainReads BY <1>3, MainReadsInStep
  <1>4. CASE Close
    <2> DEFINE c == CloseAudio(CloseMicrophone(main))
    <2>1. c \in MainRecords BY <1>1, ClosingTypes
    <2>2. main' = [c EXCEPT !.worker = FALSE] BY <1>4 DEF Close
    <2> HIDE DEF c
    <2>3. main'.worker = FALSE BY <2>1, <2>2 DEF MainRecords
    <2> QED BY <2>3 DEF InStep
  <1>5. CASE Pump
    <2>1. Drain(main) /\ UNCHANGED <<worker, toMain, toWorker, sends, streams, faults>> BY <1>5 DEF Pump
    <2>2. main'.audio = main.audio /\ main'.mic = main.mic /\ main'.worker = main.worker
      BY <1>1, <2>1, DrainTakes
    <2> QED BY <1>q, <2>1, <2>2
  <1>6. CASE MicrophoneBreaks
    <2>1. main' = CloseMicrophone(main) /\ ToWorker("microphone-failed", main.mic)
          /\ UNCHANGED <<worker, ring, written, toMain, sends, streams>>
      BY <1>6 DEF MicrophoneBreaks
    <2>2. main'.mic = 0 /\ main'.audio = main.audio /\ main'.worker = main.worker
      BY <1>1, <2>1 DEF CloseMicrophone, MainRecords
    <2> QED BY <1>2, <1>s, <2>1, <2>2, TellInStep
  <1>7. CASE AudioBreaks
    <2>1. main' = CloseAudio(main) /\ ToWorker("audio-failed", main.audio)
          /\ UNCHANGED <<worker, ring, written, toMain, sends, streams>>
      BY <1>7 DEF AudioBreaks
    <2>2. main'.audio = 0 /\ main'.mic = main.mic /\ main'.worker = main.worker
      BY <1>1, <2>1 DEF CloseAudio, MainRecords
    <2> QED BY <1>2, <1>s, <2>1, <2>2, TellInStep
  <1>8. ASSUME NEW r \in Sends, SendEvent(r) PROVE InStep'
    <2>1. ToWorker("send-event", r) /\ UNCHANGED <<main, worker, ring, written, toMain, streams, faults>>
      BY <1>8 DEF SendEvent
    <2>2. r \in Nat BY DEF Sends
    <2> QED BY <1>s, <2>1, <2>2, TellInStep
  <1>9. ASSUME NEW n \in Blocks, AudioWritable(n) PROVE InStep'
    <2>1. UNCHANGED <<worker, toMain, sends, streams, faults>> BY <1>9 DEF AudioWritable
    <2>2. CASE main.awaiting = 0
      <3> DEFINE d == [main EXCEPT !.writable = n]
      <3>1. Drain(d) /\ UNCHANGED toWorker BY <1>9, <2>2 DEF AudioWritable
      <3>2. d \in MainRecords /\ d.audio = main.audio /\ d.mic = main.mic /\ d.worker = main.worker
        BY <1>1, Bounds DEF MainRecords, Blocks
      <3> HIDE DEF d
      <3>3. main'.audio = main.audio /\ main'.mic = main.mic /\ main'.worker = main.worker
        BY <1>1, <3>1, <3>2, DrainTakes
      <3> QED BY <1>q, <2>1, <3>1, <3>3
    <2>3. CASE main.awaiting # 0 /\ main.awaiting > 1
      <3>1. main' = [main EXCEPT !.writable = n, !.awaiting = @ - 1] /\ UNCHANGED toWorker
        BY <1>9, <2>3 DEF AudioWritable
      <3>2. main'.audio = main.audio /\ main'.mic = main.mic /\ main'.worker = main.worker
        BY <1>1, <3>1 DEF MainRecords
      <3> QED BY <1>q, <2>1, <3>1, <3>2
    <2>4. CASE main.awaiting # 0 /\ ~(main.awaiting > 1)
      <3>1. main' = CloseAudio(main) /\ ToWorker("audio-drained", main.audio)
        BY <1>9, <2>4 DEF AudioWritable
      <3>2. main'.audio = 0 /\ main'.mic = main.mic /\ main'.worker = main.worker
        BY <1>1, <3>1 DEF CloseAudio, MainRecords
      <3> QED BY <1>2, <1>s, <2>1, <3>1, <3>2, TellInStep
    <2> QED BY <2>2, <2>3, <2>4
  <1> QED BY <1>3, <1>4, <1>5, <1>6, <1>7, <1>8, <1>9 DEF MainVM

\* One message after the others.
LEMMA OneMoreIs ==
  ASSUME TypeOK, NEW e \in MainMessages, toMain' = toMain \o <<e>> \/ toMain' = Append(toMain, e)
  PROVE  OneMore /\ toMain'[Len(toMain) + 1] = e
  <1> DEFINE M == MainMessages
             q == <<e>>
  <1>1. toMain \in Seq(M) /\ Len(toMain) \in Nat BY ToMainTypes
  <1>2. q \in Seq(M) /\ Len(q) = 1 /\ q[1] = e OBVIOUS
  <1>3. CASE toMain' = toMain \o q
    <2> HIDE DEF q, M
    <2> QED BY <1>1, <1>2, <1>3 DEF OneMore
  <1>4. CASE toMain' = Append(toMain, e)
    <2> e \in M OBVIOUS
    <2> HIDE DEF M
    <2> QED BY <1>1, <1>4 DEF OneMore
  <1> QED BY <1>3, <1>4

\* The bridge stops a stream it has, or has none to stop.
LEMMA StoppedInStep ==
  ASSUME IInv, Exchange, UNCHANGED <<main, streams>>, NotAsked', NEW c \in Kinds,
         c = "audio" => StopSpeaker, c = "microphone" => StopMicrophone,
         \A k \in Kinds \ {c} : Uses(k)' = Uses(k) => (Told(k) => Told(k)')
  PROVE  Exchange'
  <1>1. TypeOK /\ worker \in WorkerRecords /\ toMain \in Seq(MainMessages) BY DEF IInv, TypeOK
  <1>2. /\ worker' = IF c = "audio" THEN Closed(worker) ELSE Stopped(worker)
        /\ toMain' = toMain \o (IF Uses(c) = 0 THEN <<>> ELSE << Message(CloseOf(c), Uses(c)) >>)
    BY DEF Kinds, StopSpeaker, StopMicrophone, Closing, Stopping, Uses, CloseOf
  <1>3. \A k \in Kinds : Has(k)' = Has(k) /\ Uses(k)' = IF k = c THEN 0 ELSE Uses(k)
    <2>1. /\ Closed(worker).output.stream = 0 /\ Closed(worker).input = worker.input
          /\ Stopped(worker).output = worker.output /\ Stopped(worker).input = 0
      BY <1>1, StoppingTypes DEF NoOutput
    <2>2. \A k \in Kinds : Has(k)' = Has(k) BY DEF Has
    <2>3. CASE c = "audio" BY <1>2, <2>1, <2>2, <2>3 DEF Kinds, Uses
    <2>4. CASE c = "microphone" BY <1>2, <2>1, <2>2, <2>4 DEF Kinds, Uses
    <2> QED BY <2>3, <2>4 DEF Kinds
  <1>4. CASE Uses(c) = 0
    <2>1. toMain' = toMain BY <1>1, <1>2, <1>4
    <2>2. Longer(OpenIds \cup CloseIds)
      <3>1. Len(toMain) \in Nat BY <1>1
      <3> QED BY <2>1, <3>1 DEF Longer
    <2>3. ASSUME NEW k \in Kinds
          PROVE  /\ Uses(k)' = Uses(k) /\ Has(k)' \in {0, Has(k)}
                 /\ Told(k) /\ Uses(k) # 0 => Told(k)'
                 /\ Has(k) = Uses(k) /\ Uses(k) # 0 => Has(k)' = Has(k) \/ Told(k)'
      BY <1>3, <1>4
    <2> QED BY <1>1, <2>2, <2>3, QuietInStep
  <1>5. CASE Uses(c) # 0
    <2> DEFINE e == Message(CloseOf(c), Uses(c))
    <2>1. Uses(c) \in Nat BY <1>1, StreamTypes
    <2>2. CloseOf(c) \in ToMain BY DEF CloseOf, ToMain
    <2>3. e \in MainMessages /\ e.id = CloseOf(c) /\ e.n = Uses(c)
      BY <2>1, <2>2 DEF Message, MainMessages
    <2>4. toMain' = toMain \o <<e>> BY <1>2, <1>5
    <2> HIDE DEF e
    <2>5. OneMore /\ toMain'[Len(toMain) + 1] = e BY <1>1, <2>3, <2>4, OneMoreIs
    <2>6. \A k \in Kinds \ {c} : Uses(k)' = Uses(k) /\ (Told(k) => Told(k)') BY <1>3
    <2> QED BY <1>1, <1>3, <1>5, <2>3, <2>5, <2>6, StopInStep
  <1> QED BY <1>4, <1>5

\* What the worker's handler makes of a message.
LEMMA WorkerReadsInStep == ASSUME IInv, InStep, WorkerReads PROVE InStep'
  <1> DEFINE m == Head(toWorker)
  <1>1. TypeOK /\ EndsArePlayed /\ worker \in WorkerRecords BY DEF IInv, Invariants, TypeOK
  <1>2. worker.alive /\ toWorker # <<>> /\ UNCHANGED <<main, ring, written, sends, streams>>
    BY DEF WorkerReads
  <1>3. SUFFICES ASSUME main.worker PROVE Exchange' BY <1>2 DEF InStep
  <1>4. Exchange /\ NotAsked BY <1>3 DEF InStep, Exchange
  <1>5. /\ 1 \in 1..Len(toWorker) /\ m = toWorker[1] BY <1>1, <1>2 DEF TypeOK
  <1>6. m.id # "close" /\ m.n \in Nat BY <1>1, <1>4, <1>5, MessagesAreTyped DEF NotAsked
  <1>h. ASSUME worker'.alive, Broken => Broken'
        PROVE  NotAsked' /\ \A k \in Kinds : /\ Uses(k)' = Uses(k) /\ Told(k)
                                             /\ ~(m.id \in LostOf(k) /\ m.n = Uses(k))
                                             => Told(k)'
    <2>1. toWorker' = Tail(toWorker) BY <1>h DEF WorkerReads
    <2> QED BY <1>1, <1>2, <1>4, <1>h, <2>1, HeardKeeps
  \* The bridge keeps its streams, and the main VM hears at most of something else.
  <1>q. ASSUME worker'.alive, worker'.output.stream = worker.output.stream, worker'.input = worker.input,
               NEW id \in ToMain, id \notin OpenIds \cup CloseIds, NEW n \in Nat,
               toMain' = toMain \/ toMain' = Append(toMain, Message(id, n)),
               \A k \in Kinds : ~(m.id \in LostOf(k) /\ m.n = Uses(k))
        PROVE  Exchange'
    <2> DEFINE e == Message(id, n)
    <2>1. e \in MainMessages /\ e.id = id BY DEF Message, MainMessages
    <2>2. toMain' = toMain \/ toMain' = Append(toMain, e) BY <1>q
    <2> HIDE DEF e
    <2>3. Len(toMain) \in Nat BY <1>1, ToMainTypes
    <2>4. Longer(OpenIds \cup CloseIds)
      <3>1. CASE toMain' = toMain BY <2>3, <3>1 DEF Longer
      <3>2. CASE toMain' = Append(toMain, e)
        <4>1. OneMore /\ toMain'[Len(toMain) + 1] = e BY <1>1, <2>1, <3>2, OneMoreIs
        <4>2. \A i \in (Len(toMain) + 1)..Len(toMain') : i = Len(toMain) + 1 BY <2>3, <4>1 DEF OneMore
        <4> QED BY <1>q, <2>1, <2>3, <4>1, <4>2 DEF Longer, OneMore
      <3> QED BY <2>2, <3>1, <3>2
    <2>b. Broken => Broken' BY <2>4 DEF Longer, Broken
    <2>5. ASSUME NEW k \in Kinds
          PROVE  /\ Uses(k)' = Uses(k) /\ Has(k)' \in {0, Has(k)}
                 /\ Told(k) /\ Uses(k) # 0 => Told(k)'
                 /\ Has(k) = Uses(k) /\ Uses(k) # 0 => Has(k)' = Has(k) \/ Told(k)'
      <3>1. Uses(k)' = Uses(k) /\ Has(k)' = Has(k) BY <1>2, <1>q DEF Uses, Has
      <3> QED BY <1>h, <1>q, <2>b, <3>1
    <2> QED BY <1>1, <1>2, <1>4, <1>h, <1>q, <2>4, <2>5, <2>b, QuietInStep
  <1>7. CASE m.id = "start"
    <2>1. StartWorker BY <1>7 DEF WorkerReads
    <2>2. /\ worker'.alive /\ worker'.output.stream = worker.output.stream /\ worker'.input = worker.input
      BY <1>1, <1>2, <2>1 DEF StartWorker, WorkerRecords
    <2>3. toMain' = toMain \/ toMain' = Append(toMain, Message("error", 0)) BY <2>1 DEF StartWorker
    <2>4. "error" \in ToMain /\ "error" \notin OpenIds \cup CloseIds BY DEF ToMain, OpenIds, CloseIds
    <2>5. \A k \in Kinds : m.id \notin LostOf(k) BY <1>7 DEF LostOf
    <2>6. 0 \in Nat OBVIOUS
    <2> QED BY <1>q, <2>2, <2>3, <2>4, <2>5, <2>6
  <1>8. CASE m.id = "send-event"
    <2>1. toMain' = Append(toMain, Message("send-event-result", m.n)) /\ UNCHANGED worker
      BY <1>8 DEF WorkerReads
    <2>2. "send-event-result" \in ToMain /\ "send-event-result" \notin OpenIds \cup CloseIds
      BY DEF ToMain, OpenIds, CloseIds
    <2>3. \A k \in Kinds : m.id \notin LostOf(k) BY <1>8 DEF LostOf
    <2> HIDE DEF m
    <2> QED BY <1>2, <1>6, <1>q, <2>1, <2>2, <2>3
  <1>9. CASE m.id \in {"audio-opened", "microphone-started"}
    <2>1. /\ toMain' = toMain
          /\ worker' \in {worker, [worker EXCEPT !.output.opened = TRUE], [worker EXCEPT !.active = TRUE]}
      BY <1>9 DEF WorkerReads
    <2>2. /\ worker'.alive /\ worker'.output.stream = worker.output.stream /\ worker'.input = worker.input
      BY <1>1, <1>2, <2>1 DEF WorkerRecords, OutputRecords
    <2>3. \A k \in Kinds : m.id \notin LostOf(k) BY <1>9 DEF LostOf
    <2>4. "error" \in ToMain /\ "error" \notin OpenIds \cup CloseIds BY DEF ToMain, OpenIds, CloseIds
    <2> HIDE DEF m
    <2> QED BY <1>6, <1>q, <2>1, <2>2, <2>3, <2>4
  <1>10. CASE m.id \in {"audio-failed", "audio-drained"} /\ worker.output.stream = m.n
    <2>1. m.id = "audio-drained" => worker.output.finished
      BY <1>1, <1>5, <1>10 DEF EndsArePlayed
    <2>2. StopSpeaker BY <1>10, <2>1 DEF WorkerReads
    <2>3. worker'.alive BY <1>1, <1>2, <2>2 DEF StopSpeaker, Closed, WorkerRecords
    <2>b. Broken => Broken' BY <1>1, <2>2, StoppingTypes, BrokenIsHeard DEF StopSpeaker
    <2>4. \A k \in Kinds \ {"audio"} : m.id \notin LostOf(k) BY <1>10 DEF Kinds, LostOf
    <2>5. "audio" \in Kinds /\ "audio" # "microphone" BY DEF Kinds
    <2>6. \A k \in Kinds \ {"audio"} : Uses(k)' = Uses(k) => (Told(k) => Told(k)') BY <1>h, <2>3, <2>4, <2>b
    <2> QED BY <1>2, <1>4, <1>h, <2>2, <2>3, <2>5, <2>6, <2>b, StoppedInStep
  <1>11. CASE m.id = "microphone-failed" /\ worker.input = m.n
    <2>1. StopMicrophone BY <1>11 DEF WorkerReads
    <2>2. worker'.alive BY <1>1, <1>2, <2>1 DEF StopMicrophone, Stopped, WorkerRecords
    <2>b. Broken => Broken' BY <1>1, <2>1, StoppingTypes, BrokenIsHeard DEF StopMicrophone
    <2>3. \A k \in Kinds \ {"microphone"} : m.id \notin LostOf(k) BY <1>11 DEF Kinds, LostOf
    <2>4. "microphone" \in Kinds /\ "audio" # "microphone" BY DEF Kinds
    <2>5. \A k \in Kinds \ {"microphone"} : Uses(k)' = Uses(k) => (Told(k) => Told(k)') BY <1>h, <2>2, <2>3, <2>b
    <2> QED BY <1>2, <1>4, <1>h, <2>1, <2>2, <2>4, <2>5, <2>b, StoppedInStep
  <1>12. CASE /\ m.id \in {"audio-failed", "audio-drained", "microphone-failed"}
              /\ m.id = "microphone-failed" => worker.input # m.n
              /\ m.id # "microphone-failed" => worker.output.stream # m.n
    <2>1. UNCHANGED <<worker, toMain>> BY <1>12 DEF WorkerReads
    <2>2. \A k \in Kinds : ~(m.id \in LostOf(k) /\ m.n = Uses(k)) BY <1>12 DEF Kinds, LostOf, Uses
    <2>3. "error" \in ToMain /\ "error" \notin OpenIds \cup CloseIds BY DEF ToMain, OpenIds, CloseIds
    <2> HIDE DEF m
    <2> QED BY <1>2, <1>6, <1>q, <2>1, <2>2, <2>3
  <1>13. m.id \in ToWorkers BY <1>1, <1>5, MessagesAreTyped
  <1> QED BY <1>6, <1>7, <1>8, <1>9, <1>10, <1>11, <1>12, <1>13 DEF ToWorkers

\* The bridge opens a stream with none in use.
LEMMA BridgeOpensInStep ==
  ASSUME IInv, Exchange, NEW kind \in {"audio-open", "microphone-open"}, BridgeOpens(kind)
  PROVE  Exchange'
  <1> DEFINE s == streams + 1
             e == Message(kind, s)
             c == IF kind = "audio-open" THEN "audio" ELSE "microphone"
  <1>1. TypeOK /\ worker \in WorkerRecords /\ streams \in Nat BY Numbers DEF IInv, TypeOK
  <1>2. /\ worker.output.stream = 0 /\ worker.input = 0 /\ streams' = s
        /\ UNCHANGED <<main, toWorker>> /\ toMain' = Append(toMain, e)
        /\ worker' = IF kind = "audio-open" THEN [worker EXCEPT !.output.stream = s]
                     ELSE [worker EXCEPT !.input = s]
    BY DEF BridgeOpens
  <1>3. e \in MainMessages /\ e.id = kind /\ e.n = s
    BY <1>1 DEF Message, MainMessages, ToMain
  <1> HIDE DEF e
  <1>4. OneMore /\ toMain'[Len(toMain) + 1] = e BY <1>1, <1>2, <1>3, OneMoreIs
  <1>5. c \in Kinds /\ OpenOf(c) = kind BY DEF Kinds, OpenOf
  <1>6. worker.output \in OutputRecords BY <1>1 DEF WorkerRecords
  <1>7. /\ worker'.output.stream = IF c = "audio" THEN s ELSE 0
        /\ worker'.input = IF c = "microphone" THEN s ELSE 0
    BY <1>1, <1>2, <1>6 DEF WorkerRecords, OutputRecords
  <1> HIDE DEF c
  <1>8. ASSUME NEW k \in Kinds
        PROVE  Uses(k) = 0 /\ Has(k)' = Has(k) /\ Uses(k)' = IF k = c THEN streams + 1 ELSE 0
    <2>1. CASE k = "audio" BY <1>2, <1>5, <1>7, <2>1 DEF Kinds, Has, Uses
    <2>2. CASE k = "microphone" BY <1>2, <1>5, <1>7, <2>2 DEF Kinds, Has, Uses
    <2> QED BY <2>1, <2>2 DEF Kinds
  <1> QED BY <1>1, <1>2, <1>3, <1>4, <1>5, <1>8, OpenInStep

\* The bridge writes to the ring, and says at most that a stream starts or ends.
LEMMA PollInStep ==
  ASSUME IInv, Exchange, NEW n \in {0} \cup Blocks, NEW last \in BOOLEAN, Poll(n, last)
  PROVE  Exchange'
  <1> DEFINE s == worker.output.stream
             starts == ~worker.output.startPosted /\ ring' # <<>>
             e == IF last THEN << Message("audio-end", s) >> ELSE <<>>
             b == IF starts THEN << Message("audio-start", s) >> ELSE <<>>
             p == toMain \o e
             quiet == {"audio-end", "audio-start"}
  <1>1. TypeOK /\ worker \in WorkerRecords /\ toMain \in Seq(MainMessages) BY DEF IInv, TypeOK
  <1>2. s \in Nat BY <1>1, Numbers
  <1>3. /\ toMain' = p \o b /\ UNCHANGED <<main, toWorker, streams>>
        /\ worker' = [worker EXCEPT !.output.written = @ + n, !.output.finished = last,
                                    !.output.startPosted = @ \/ starts]
    BY DEF Poll
  <1>4. \A k \in Kinds : Uses(k)' = Uses(k) /\ Has(k)' = Has(k)
    <2>1. worker.output \in OutputRecords BY <1>1 DEF WorkerRecords
    <2> HIDE DEF starts
    <2>2. worker'.output.stream = s /\ worker'.input = worker.input
      BY <1>1, <1>3, <2>1 DEF WorkerRecords, OutputRecords
    <2> QED BY <1>3, <2>2 DEF Uses, Has
  <1>5. /\ Message("audio-end", s) \in MainMessages /\ Message("audio-end", s).id = "audio-end"
        /\ Message("audio-start", s) \in MainMessages /\ Message("audio-start", s).id = "audio-start"
    BY <1>2 DEF Message, MainMessages, ToMain
  <1>6. e \in Seq(MainMessages) /\ \A i \in 1..Len(e) : e[i].id \in quiet
    <2>1. e \in Seq(MainMessages) /\ \A i \in 1..Len(e) : e[i] = Message("audio-end", s) BY <1>5, OneOrNone
    <2> QED BY <1>5, <2>1
  <1>7. b \in Seq(MainMessages) /\ \A i \in 1..Len(b) : b[i].id \in quiet
    <2>1. b \in Seq(MainMessages) /\ \A i \in 1..Len(b) : b[i] = Message("audio-start", s) BY <1>5, OneOrNone
    <2> QED BY <1>5, <2>1
  <1>8. Len(toMain) \in Nat BY <1>1
  <1> HIDE DEF e, b
  <1>9. /\ p \in Seq(MainMessages) /\ Len(p) \in Nat /\ Len(toMain) <= Len(p)
        /\ \A i \in 1..Len(p) :
             \/ i \in 1..Len(toMain) /\ p[i] = toMain[i]
             \/ i - Len(toMain) \in 1..Len(e) /\ p[i] = e[i - Len(toMain)]
    <2>1. Len(e) \in Nat BY <1>6
    <2>2. /\ p \in Seq(MainMessages) /\ Len(p) = Len(toMain) + Len(e)
          /\ \A i \in 1..Len(p) :
               \/ i \in 1..Len(toMain) /\ p[i] = toMain[i]
               \/ i - Len(toMain) \in 1..Len(e) /\ p[i] = e[i - Len(toMain)]
      BY <1>1, <1>6, Joined
    <2> QED BY <1>8, <2>1, <2>2
  <1> HIDE DEF p
  <1>10. /\ Len(toMain') \in Nat /\ Len(p) <= Len(toMain')
         /\ \A i \in 1..Len(toMain') :
              \/ i \in 1..Len(p) /\ toMain'[i] = p[i]
              \/ i - Len(p) \in 1..Len(b) /\ toMain'[i] = b[i - Len(p)]
    <2>1. Len(b) \in Nat BY <1>7
    <2>2. /\ p \o b \in Seq(MainMessages) /\ Len(p \o b) = Len(p) + Len(b)
          /\ \A i \in 1..Len(p \o b) :
               \/ i \in 1..Len(p) /\ (p \o b)[i] = p[i]
               \/ i - Len(p) \in 1..Len(b) /\ (p \o b)[i] = b[i - Len(p)]
      BY <1>7, <1>9, Joined
    <2> QED BY <1>3, <1>9, <2>1, <2>2
  <1>11. ASSUME NEW i \in 1..Len(toMain) PROVE toMain'[i] = toMain[i]
    <2>1. i \in 1..Len(p) /\ i \in 1..Len(toMain') BY <1>8, <1>9, <1>10
    <2>2. ~(i - Len(toMain) \in 1..Len(e)) /\ ~(i - Len(p) \in 1..Len(b)) BY <1>8, <1>9, <2>1
    <2> QED BY <1>9, <1>10, <2>1, <2>2
  <1>12. ASSUME NEW i \in (Len(toMain) + 1)..Len(toMain') PROVE toMain'[i].id \in quiet
    <2>1. i \in 1..Len(toMain') /\ i \notin 1..Len(toMain) BY <1>8, <1>10
    <2>2. CASE i \in 1..Len(p) /\ toMain'[i] = p[i] BY <1>6, <1>9, <2>1, <2>2
    <2>3. CASE i - Len(p) \in 1..Len(b) /\ toMain'[i] = b[i - Len(p)] BY <1>7, <2>3
    <2> QED BY <1>10, <2>1, <2>2, <2>3
  <1>13. Longer(OpenIds \cup CloseIds)
    <2>1. quiet \cap (OpenIds \cup CloseIds) = {} BY DEF OpenIds, CloseIds
    <2>2. Len(toMain) <= Len(toMain') BY <1>8, <1>9, <1>10
    <2> QED BY <1>10, <1>11, <1>12, <2>1, <2>2 DEF Longer
  <1>b. Broken => Broken' BY <1>13 DEF Longer, Broken
  <1>14. NotAsked' /\ \A k \in Kinds : Told(k) => Told(k)' BY <1>3, <1>4, <1>b, SilenceKeeps DEF Exchange
  <1> QED BY <1>1, <1>3, <1>4, <1>13, <1>14, QuietInStep

\* A handler that fails opens and closes nothing, and what it had heard is not lost
\* on the main VM, which is told of the failure.
LEMMA WorkerBreaksInStep == ASSUME IInv, InStep, WorkerBreaks PROVE InStep'
  <1> DEFINE e == Message("error", 0)
  <1>1. TypeOK BY DEF IInv
  <1>2. /\ UNCHANGED <<main, worker, streams>> /\ toMain' = Append(toMain, e)
        /\ \/ toWorker' = toWorker
           \/ toWorker # <<>> /\ toWorker' = Tail(toWorker)
    BY DEF WorkerBreaks
  <1>3. e \in MainMessages /\ e.id = "error" BY DEF Message, MainMessages, ToMain
  <1> HIDE DEF e
  <1>4. SUFFICES ASSUME main.worker PROVE Exchange' BY <1>2 DEF InStep
  <1>5. Exchange /\ NotAsked /\ Len(toMain) \in Nat BY <1>1, <1>4, ToMainTypes DEF InStep, Exchange
  <1>6. OneMore /\ toMain'[Len(toMain) + 1] = e BY <1>1, <1>2, <1>3, OneMoreIs
  <1>7. Longer(OpenIds \cup CloseIds)
    <2>1. \A i \in (Len(toMain) + 1)..Len(toMain') : i = Len(toMain) + 1 BY <1>5, <1>6 DEF OneMore
    <2>2. "error" \notin OpenIds \cup CloseIds BY DEF OpenIds, CloseIds
    <2> QED BY <1>3, <1>5, <1>6, <2>1, <2>2 DEF Longer, OneMore
  <1>8. Broken'
    <2>1. Len(toMain) + 1 \in 1..Len(toMain') BY <1>5, <1>6 DEF OneMore
    <2> QED BY <1>3, <1>6, <2>1 DEF Broken
  <1>9. NotAsked'
    <2>1. CASE toWorker' = toWorker BY <1>5, <2>1 DEF NotAsked
    <2>2. CASE toWorker # <<>> /\ toWorker' = Tail(toWorker) BY <1>1, <1>5, <1>8, <2>2, HeardKeeps
    <2> QED BY <1>2, <2>1, <2>2
  <1>10. ASSUME NEW k \in Kinds PROVE Uses(k)' = Uses(k) /\ Has(k)' = Has(k) /\ Told(k)'
    BY <1>2, <1>8 DEF Uses, Has, Told
  <1> QED BY <1>1, <1>2, <1>5, <1>7, <1>9, <1>10, QuietInStep

\* Every step of the worker VM keeps the exchange.
LEMMA WorkerVMInStep == ASSUME IInv, InStep, WorkerVM PROVE InStep'
  <1>1. CASE WorkerReads BY <1>1, WorkerReadsInStep
  <1>2. ASSUME NEW kind \in {"audio-open", "microphone-open"}, BridgeOpens(kind) PROVE InStep'
    <2>1. main' = main BY <1>2 DEF BridgeOpens
    <2> QED BY <1>2, <2>1, BridgeOpensInStep DEF InStep
  <1>3. CASE BridgeStops
    <2>1. UNCHANGED <<main, toWorker, streams>> BY <1>3 DEF BridgeStops
    <2>2. SUFFICES ASSUME main.worker PROVE Exchange' BY <2>1 DEF InStep
    <2>3. Exchange BY <2>2 DEF InStep
    <2>4. NotAsked' BY <2>1, <2>3 DEF Exchange, NotAsked
    <2>b. Broken => Broken'
      <3>1. TypeOK /\ worker \in WorkerRecords BY DEF IInv, TypeOK
      <3>2. \E q \in Seq(MainMessages) : toMain' = toMain \o q
        BY <1>3, <3>1, StoppingTypes DEF BridgeStops, StopSpeaker, StopMicrophone
      <3> QED BY <3>1, <3>2, BrokenIsHeard
    <2>5. \A k \in Kinds : Uses(k)' = Uses(k) => (Told(k) => Told(k)') BY <2>1, <2>b DEF Told
    <2>6. "audio" \in Kinds /\ "microphone" \in Kinds /\ "audio" # "microphone" BY DEF Kinds
    <2>7. CASE StopSpeaker BY <2>1, <2>3, <2>4, <2>5, <2>6, <2>7, StoppedInStep
    <2>8. CASE StopMicrophone BY <2>1, <2>3, <2>4, <2>5, <2>6, <2>8, StoppedInStep
    <2> QED BY <1>3, <2>7, <2>8 DEF BridgeStops
  <1>4. ASSUME NEW n \in {0} \cup Blocks, NEW last \in BOOLEAN, Poll(n, last) PROVE InStep'
    <2>1. main' = main BY <1>4 DEF Poll
    <2> QED BY <1>4, <2>1, PollInStep DEF InStep
  <1>5. CASE WorkerBreaks BY <1>5, WorkerBreaksInStep
  <1> QED BY <1>1, <1>2, <1>3, <1>4, <1>5 DEF WorkerVM

\* Nothing was opened yet.
LEMMA InStepInitially == Init => InStep
  <1> SUFFICES ASSUME Init PROVE InStep OBVIOUS
  <1>1. /\ toMain = <<>> /\ toWorker = << Message("start", 0) >>
        /\ \A k \in Kinds : Has(k) = 0 /\ Uses(k) = 0
    BY DEF Init, NoWorker, NoOutput, Has, Uses
  <1>2. Len(toMain) = 0 /\ Len(toWorker) = 1 /\ toWorker[1].id = "start" BY <1>1 DEF Message
  <1> QED BY <1>1, <1>2 DEF InStep, Exchange, Numbered, NotAsked, LeftIsClosed, ClosedBeforeOpened, UsedIsKnown

\* The exchange is kept by every behaviour.
LEMMA AlwaysInStep == Spec => [](IInv /\ InStep)
  <1>1. IInv /\ InStep /\ [Next]_vars => InStep'
    <2> SUFFICES ASSUME IInv, InStep, [Next]_vars PROVE InStep' OBVIOUS
    <2>1. CASE UNCHANGED vars
      <3>1. UNCHANGED <<main, worker, toMain, toWorker, streams>> BY <2>1 DEF vars
      <3> QED BY <3>1 DEF InStep, Exchange, Numbered, NotAsked, LeftIsClosed, ClosedBeforeOpened,
                          UsedIsKnown, CloseIn, Told, Broken, Has, Uses
    <2> QED BY <2>1, MainVMInStep, WorkerVMInStep DEF Next
  <1> QED BY <1>1, Initially, Inductive, InStepInitially, PTL DEF Spec

\* Once both VMs have read what the other one sent, the main VM has the streams
\* open that the worker's bridge uses, whatever was opened, closed, drained and
\* broken on the way: no AudioIn or AudioOut stays behind without a bridge, and
\* no bridge waits for one that is gone.
THEOREM AgreementAlways == Spec => []Agreement
  <1>1. IInv /\ InStep => Agreement
    <2> SUFFICES ASSUME IInv, InStep, toMain = <<>>, toWorker = <<>>, main.worker
                 PROVE  main.audio = worker.output.stream /\ main.mic = worker.input
      BY DEF Agreement
    <2>1. Exchange /\ Len(toMain) = 0 /\ Len(toWorker) = 0 BY DEF InStep
    <2>2. ASSUME NEW k \in Kinds PROVE Has(k) = Uses(k)
      <3>1. Has(k) \in {0, Uses(k)} BY <2>1 DEF Exchange, LeftIsClosed, CloseIn
      <3>2. Uses(k) # 0 => Has(k) = Uses(k) BY <2>1 DEF Exchange, UsedIsKnown, Told, Broken
      <3> QED BY <3>1, <3>2
    <2> QED BY <2>2 DEF Kinds, Has, Uses
  <1> QED BY <1>1, AlwaysInStep, PTL

\* An opening never finds the other device of the main VM still open: it is
\* refused only where AudioIn or AudioOut themselves fail.
LEMMA NoneRefused ==
  ASSUME IInv, InStep, Next, faults' = faults, Len(toWorker') > Len(toWorker)
  PROVE  toWorker'[Len(toWorker')].id \notin Refusals
  <1>1. TypeOK BY DEF IInv
  <1>2. /\ toWorker \in Seq(WorkerMessages) /\ Len(toWorker) \in Nat /\ faults \in Nat
    BY <1>1, Bounds DEF TypeOK
  <1>3. ~Breaks BY <1>2 DEF Breaks
  <1>4. toWorker' # toWorker /\ toWorker' # <<>> /\ (toWorker # <<>> => toWorker' # Tail(toWorker))
    BY <1>2
  \* What is told is the last message.
  <1>5. ASSUME NEW id \in ToWorkers, id \notin Refusals, NEW s \in Nat, ToWorker(id, s)
        PROVE  toWorker'[Len(toWorker')].id \notin Refusals
    <2> DEFINE M == WorkerMessages
               e == Message(id, s)
    <2>1. e \in M /\ e.id = id BY DEF Message, WorkerMessages
    <2>2. toWorker' = Append(toWorker, e) BY <1>4, <1>5 DEF ToWorker
    <2>3. toWorker \in Seq(M) BY <1>2
    <2> HIDE DEF M, e
    <2>4. toWorker'[Len(toWorker')] = e BY <2>1, <2>2, <2>3
    <2> QED BY <1>5, <2>1, <2>4
  <1>6. CASE MainReads
    <2> DEFINE m == Head(toMain)
    <2>1. toMain # <<>> /\ m.id \in ToMain /\ m.n \in Nat BY <1>6, HeadOfMain DEF MainReads
    <2>2. 1 \in 1..Len(toMain) /\ m = toMain[1] BY <1>1, <2>1 DEF TypeOK
    <2>3. ASSUME m.id \in OpenIds, main.worker PROVE main.audio = 0 /\ main.mic = 0
      <3>1. ASSUME NEW k \in Kinds PROVE Has(k) = 0
        <4>1. Has(k) # 0 => CloseIn(toMain, 1, 1 - 1, k, Has(k))
          BY <2>2, <2>3 DEF InStep, Exchange, ClosedBeforeOpened
        <4> QED BY <4>1 DEF CloseIn
      <3> QED BY <3>1 DEF Kinds, Has
    <2>4. main.worker
      <3>1. m.id \notin {"error", "closed"} => main.worker
        BY <1>4, <1>6, <2>1 DEF MainReads, ToMain, OpenMicrophone, OpenAudio, StartAudio, EndAudio, ToWorker
      <3> QED BY <1>4, <1>6, <3>1 DEF MainReads
    <2>5. "microphone-started" \in ToWorkers \ Refusals /\ "audio-opened" \in ToWorkers \ Refusals
      BY DEF ToWorkers, Refusals
    <2>6. CASE m.id = "microphone-open"
      <3>1. main.audio = 0 BY <2>3, <2>4, <2>6 DEF OpenIds
      <3>2. OpenMicrophone(m.n) BY <1>6, <2>6 DEF MainReads
      <3> HIDE DEF m
      <3>3. ToWorker("microphone-started", m.n) BY <1>3, <3>1, <3>2 DEF OpenMicrophone
      <3> QED BY <1>5, <2>1, <2>5, <3>3
    <2>7. CASE m.id = "audio-open"
      <3>1. main.mic = 0 BY <2>3, <2>4, <2>7 DEF OpenIds
      <3>2. OpenAudio(m.n) BY <1>6, <2>7 DEF MainReads
      <3> HIDE DEF m
      <3>3. ToWorker("audio-opened", m.n) BY <1>3, <3>1, <3>2 DEF OpenAudio
      <3> QED BY <1>5, <2>1, <2>5, <3>3
    <2>8. CASE m.id \notin {"audio-open", "microphone-open"}
      BY <1>4, <1>6, <2>1, <2>8 DEF MainReads, ToMain, StartAudio, EndAudio
    <2> QED BY <2>6, <2>7, <2>8
  <1>7. CASE Close BY <1>5, <1>7 DEF Close, ToWorkers, Refusals
  <1>8. CASE Pump BY <1>4, <1>8 DEF Pump
  <1>9. CASE MicrophoneBreaks \/ AudioBreaks BY <1>3, <1>9 DEF MicrophoneBreaks, AudioBreaks
  <1>10. ASSUME NEW r \in Sends, SendEvent(r) PROVE toWorker'[Len(toWorker')].id \notin Refusals
    BY <1>5, <1>10 DEF SendEvent, Sends, ToWorkers, Refusals
  <1>11. ASSUME NEW n \in Blocks, AudioWritable(n) PROVE toWorker'[Len(toWorker')].id \notin Refusals
    <2>1. toWorker' = toWorker \/ ToWorker("audio-drained", main.audio) BY <1>11 DEF AudioWritable
    <2>2. main.audio \in Nat BY <1>1, Numbers
    <2> QED BY <1>4, <1>5, <2>1, <2>2 DEF ToWorkers, Refusals
  <1>12. CASE WorkerReads BY <1>4, <1>12 DEF WorkerReads
  <1>13. CASE WorkerVM /\ ~WorkerReads
    BY <1>4, <1>13 DEF WorkerVM, WorkerBreaks, BridgeOpens, BridgeStops, Poll
  <1> QED BY <1>6, <1>7, <1>8, <1>9, <1>10, <1>11, <1>12, <1>13 DEF Next, MainVM

\* A bridge that uses one of the microphone and the speaker at a time is never
\* refused either for the other's sake, however far the main VM lags behind it.
THEOREM NeverRefusedAlways == Spec => NeverRefused
  <1>1. IInv /\ InStep /\ [Next]_vars =>
          [faults' = faults /\ Len(toWorker') > Len(toWorker) =>
             toWorker'[Len(toWorker')].id \notin Refusals]_vars
    BY NoneRefused
  <1> QED BY <1>1, AlwaysInStep, PTL DEF Spec, NeverRefused
=============================================================================
