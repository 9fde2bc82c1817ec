----------------------- MODULE RealtimeSessionProofs -----------------------
(***************************************************************************)
(* Theorems about RealtimeSession, for any calls and any bounds.           *)
(***************************************************************************)
EXTENDS RealtimeSession, TLAPS

\* An update is made for a new lease of the provider or of the session.
UpdatesAreFew == updates <= leases + sessions

\* What is under way is the first send of the tail.
SendingIsHead == sending => tail # <<>>

\* A continuation that waits has a retry left.
RetriesAreLeft == \A c \in Calls : call[c].phase = "waiting" => call[c].elapsed < ContinuationRetries

\* The sends of the tail are what the loops wait for, each once.
TailIsOwned ==
  \A k \in 1..Len(tail) :
    /\ tail[k].kind = "update" => update[tail[k].of].loop = "sending"
    /\ tail[k].kind = "output" => call[tail[k].of].phase = "output"
    /\ tail[k].kind = "continue" => call[tail[k].of].phase = "continue"

OnceInTail ==
  \A i, j \in 1..Len(tail) : i # j => tail[i] # tail[j] \/ tail[i].kind = "app"

WaitsAreOwned ==
  /\ \A u \in Updates : update[u].loop = "waiting" => OwnsUpdate(u)
  /\ \A c \in Calls : call[c].phase = "waiting" => Owns(c)

\* A delivered update is sent no more, and one that is not made yet is in no loop.
DeliveredIsOver ==
  \A u \in Updates :
    /\ update[u].delivered => update[u].loop = "over"
    /\ u > updates => update[u].loop = "none" /\ ~update[u].delivered

\* An update belongs to leases, and its session is the one the host has created.
UpdatesAreLeased ==
  \A u \in 1..updates :
    /\ update[u].lease # 0 /\ update[u].session # 0
    /\ update[u].session = session => created /\ ~closed

\* A call under way was tagged with an update the host had and acknowledged,
\* and while its leases last that is the current one.
TagsHold ==
  \A c \in Calls : call[c].phase \notin {"none", "over"} =>
    /\ call[c].tag \in 1..updates /\ call[c].lease # 0 /\ call[c].session # 0
    /\ update[call[c].tag].delivered /\ update[call[c].tag].acknowledged
    /\ update[call[c].tag].session = call[c].session
    /\ (lease = call[c].lease /\ session = call[c].session) => current[lease] = call[c].tag

IInv ==
  /\ TypeOK /\ UpdatesAreFew /\ SendingIsHead /\ RetriesAreLeft /\ TailIsOwned /\ OnceInTail
  /\ WaitsAreOwned /\ DeliveredIsOver /\ UpdatesAreLeased /\ AckedIsServed /\ TagsHold

\* The assumption, bound by bound.
LEMMA BoundsAreNatural ==
  MaxUpdates \in Nat /\ MaxApps \in Nat /\ MaxFailures \in Nat /\ ContinuationRetries \in Nat
  BY ConstantsAssumption

\* The numbers of TypeOK.
LEMMA Numbers ==
  TypeOK => /\ leases \in Nat /\ sessions \in Nat /\ updates \in 0..MaxUpdates /\ updates \in Nat
            /\ turns \in Nat /\ lease \in 0..leases /\ session \in 0..sessions /\ acked \in 0..leases
            /\ leases + sessions <= MaxUpdates
  BY BoundsAreNatural DEF TypeOK

\* More leases, updates and turns make more records.
LEMMA RecordsGrow ==
  ASSUME TypeOK,
         leases' \in Nat, sessions' \in Nat, updates' \in Nat, turns' \in Nat,
         leases <= leases', sessions <= sessions', updates <= updates', turns <= turns'
  PROVE  /\ update \in [Updates -> UpdateRecords']
         /\ call \in [Calls -> CallRecords']
         /\ current \in [Updates -> 0..updates']
         /\ tail \in Seq(TailRecords')
  <1>3. /\ 0..leases \subseteq 0..leases' /\ 0..sessions \subseteq 0..sessions'
        /\ 0..updates \subseteq 0..updates' /\ 1..updates \subseteq 1..updates'
        /\ 0..turns \subseteq 0..turns'
    BY Numbers
  <1>1. UpdateRecords \subseteq UpdateRecords'
    BY <1>3 DEF UpdateRecords
  <1>2. CallRecords \subseteq CallRecords'
    BY <1>3 DEF CallRecords
  <1>4. TailRecords \subseteq TailRecords'
    BY <1>3 DEF TailRecords
  <1>5. tail \in Seq(TailRecords')
    BY <1>4 DEF TypeOK
  <1> QED BY <1>1, <1>2, <1>3, <1>5 DEF TypeOK

\* Waking changes no type.
LEMMA WokenTypes ==
  ASSUME NEW STATE l, NEW STATE s, NEW STATE R, update \in [Updates -> R],
         \A r \in R : [r EXCEPT !.loop = "woken"] \in R
  PROVE  WokenUpdates(l, s) \in [Updates -> R]
  BY DEF WokenUpdates

\* A record keeps its type when one of its fields changes within its own.
LEMMA RecordsStay ==
  /\ \A r \in UpdateRecords, x \in Loops : [r EXCEPT !.loop = x] \in UpdateRecords
  /\ \A r \in UpdateRecords, x \in BOOLEAN :
       [r EXCEPT !.sent = x] \in UpdateRecords /\ [r EXCEPT !.acknowledged = x] \in UpdateRecords
  /\ \A r \in CallRecords, x \in Phases : [r EXCEPT !.phase = x] \in CallRecords
  BY DEF UpdateRecords, CallRecords

\* One record changes, one send is added.
LEMMA PhaseChange ==
  ASSUME TypeOK, NEW c \in Calls, NEW x \in Phases
  PROVE  [call EXCEPT ![c].phase = x] \in [Calls -> CallRecords]
  BY RecordsStay DEF TypeOK

\* A loop of an update moves on.
LEMMA LoopChange ==
  ASSUME TypeOK, NEW u \in Updates, NEW x \in Loops
  PROVE  [update EXCEPT ![u].loop = x] \in [Updates -> UpdateRecords]
  BY RecordsStay DEF TypeOK

\* A call is over.
LEMMA CallEnds ==
  ASSUME TypeOK, NEW c \in Calls
  PROVE  [call EXCEPT ![c] = Ended] \in [Calls -> CallRecords]
  <1>1. Ended \in CallRecords
    BY Numbers, BoundsAreNatural DEF Ended, CallRecords, Phases
  <1> QED BY <1>1 DEF TypeOK

\* A call queues its output or its continuation.
LEMMA TailGrows ==
  ASSUME TypeOK, NEW k \in {"output", "continue"}, NEW c \in Calls
  PROVE  Append(tail, [kind |-> k, of |-> c]) \in Seq(TailRecords)
  <1>1. [kind |-> k, of |-> c] \in TailRecords BY DEF TailRecords
  <1> QED BY <1>1 DEF TypeOK

\* The types hold at first.
LEMMA InitTypes == Init => TypeOK /\ UpdatesAreFew
  <1> SUFFICES ASSUME Init PROVE TypeOK /\ UpdatesAreFew OBVIOUS
  <1> USE BoundsAreNatural
  <1>1. /\ transport \in {"ready", "disconnected"}
        /\ leases + sessions <= MaxUpdates /\ sessions \in Nat /\ session \in 0..sessions
        /\ leases \in Nat /\ lease \in 0..leases /\ acked \in 0..leases
        /\ updates \in 0..MaxUpdates /\ UpdatesAreFew
        /\ current \in [Updates -> 0..updates]
        /\ turns \in Nat /\ apps \in 0..MaxApps /\ failures \in 0..MaxFailures
    BY DEF Init, UpdatesAreFew
  <1>2. created \in BOOLEAN /\ closed \in BOOLEAN /\ sending \in BOOLEAN
    BY DEF Init
  <1>3. update \in [Updates -> UpdateRecords]
    BY <1>1 DEF Init, UpdateRecords, Loops
  <1>4. call \in [Calls -> CallRecords]
    BY <1>1 DEF Init, CallRecords, Phases, Ended
  <1>5. tail \in Seq(TailRecords)
    BY DEF Init
  <1> QED BY <1>1, <1>2, <1>3, <1>4, <1>5 DEF TypeOK

\* One more of what is counted.
LEMMA OneMore ==
  \A a, b, c, d, u \in Nat :
    u <= a + b /\ ((c = a + 1 /\ d = b) \/ (c = a /\ d = b + 1)) => u + 1 <= c + d /\ u <= c + d
  OBVIOUS

\* What updateSession() makes is of the right type.
LEMMA UpdateSessionTypes ==
  ASSUME TypeOK, UpdatesAreFew,
         NEW STATE woken, woken \in [Updates -> UpdateRecords'], UpdateSession(woken),
         \/ leases' = leases + 1 /\ sessions' = sessions
         \/ leases' = leases /\ sessions' = sessions + 1,
         lease' \in 0..leases', session' \in 0..sessions', leases + sessions < MaxUpdates,
         turns' = turns
  PROVE  /\ updates' \in 0..MaxUpdates /\ UpdatesAreFew'
         /\ update' \in [Updates -> UpdateRecords']
         /\ current' \in [Updates -> 0..updates']
         /\ tail' \in Seq(TailRecords')
         /\ call \in [Calls -> CallRecords']
  <1> USE BoundsAreNatural
  <1>0. /\ leases \in Nat /\ sessions \in Nat /\ updates \in 0..MaxUpdates /\ updates \in Nat /\ turns \in Nat
        /\ updates <= leases + sessions
        /\ leases' \in Nat /\ sessions' \in Nat /\ leases <= leases' /\ sessions <= sessions'
    BY Numbers DEF UpdatesAreFew
  <1>9. updates + 1 <= leases' + sessions' /\ updates <= leases' + sessions'
    BY <1>0, OneMore
  <1>1. CASE created' /\ lease' # 0 /\ session' # 0
    <2>1. /\ updates' = updates + 1 /\ tail' = Append(tail, [kind |-> "update", of |-> updates + 1])
          /\ current' = [current EXCEPT ![lease'] = updates + 1]
          /\ update' = [woken EXCEPT ![updates + 1] =
                       [lease |-> lease', session |-> session', sent |-> FALSE,
                        delivered |-> FALSE, acknowledged |-> FALSE, loop |-> "sending"]]
      BY <1>1 DEF UpdateSession
    <2>2. updates' \in 0..MaxUpdates /\ UpdatesAreFew' /\ updates <= updates' /\ updates' \in Nat
      <3>1. updates' = updates + 1 BY <2>1
      <3>2. updates' \in Nat /\ updates <= updates' BY <1>0, <3>1
      <3>3. updates' <= leases' + sessions' BY <1>9, <3>1
      <3>4. updates' <= MaxUpdates BY <1>0, <3>1
      <3>5. UpdatesAreFew' BY <3>3 DEF UpdatesAreFew
      <3>6. updates' \in 0..MaxUpdates BY <3>2, <3>4
      <3> QED BY <3>2, <3>5, <3>6
    <2>3. /\ current \in [Updates -> 0..updates'] /\ tail \in Seq(TailRecords')
          /\ call \in [Calls -> CallRecords']
      BY <1>0, <2>2, RecordsGrow
    <2>4. [lease |-> lease', session |-> session', sent |-> FALSE, delivered |-> FALSE,
           acknowledged |-> FALSE, loop |-> "sending"] \in UpdateRecords'
      BY DEF UpdateRecords, Loops
    <2>5. [kind |-> "update", of |-> updates + 1] \in TailRecords'
      <3>1. updates + 1 \in 1..updates' BY <1>0, <2>1
      <3> QED BY <3>1 DEF TailRecords
    <2>6. update' \in [Updates -> UpdateRecords']
      BY <2>1, <2>4
    <2>9. updates + 1 \in 0..updates'
      BY <2>1, <2>2
    <2>7. current' \in [Updates -> 0..updates']
      BY <2>1, <2>3, <2>9
    <2>8. tail' \in Seq(TailRecords')
      BY <2>1, <2>3, <2>5
    <2> QED BY <2>2, <2>3, <2>6, <2>7, <2>8
  <1>2. CASE ~(created' /\ lease' # 0 /\ session' # 0)
    <2>1. update' = woken /\ updates' = updates /\ current' = current /\ tail' = tail
      BY <1>2 DEF UpdateSession
    <2>2. updates' \in 0..MaxUpdates /\ UpdatesAreFew' /\ updates <= updates' /\ updates' \in Nat
      <3>1. updates' = updates BY <2>1
      <3>2. updates' \in Nat /\ updates <= updates' BY <1>0, <3>1
      <3>3. updates' <= leases' + sessions' BY <1>9, <3>1
      <3>4. updates' <= MaxUpdates BY <1>0, <3>1
      <3>5. UpdatesAreFew' BY <3>3 DEF UpdatesAreFew
      <3>6. updates' \in 0..MaxUpdates BY <3>2, <3>4
      <3> QED BY <3>2, <3>5, <3>6
    <2> QED BY <1>0, <2>1, <2>2, RecordsGrow
  <1> QED BY <1>1, <1>2

\* What WakeCalls makes, too.
LEMMA WakeCallsTypes ==
  ASSUME NEW STATE l, NEW STATE s, WakeCalls(l, s), NEW STATE R, call \in [Calls -> R],
         \A r \in R : [r EXCEPT !.phase = "woken"] \in R
  PROVE  call' \in [Calls -> R]
  BY DEF WakeCalls

\* Every step keeps the types.
LEMMA TypeStep ==
  ASSUME TypeOK, UpdatesAreFew, RetriesAreLeft, SendingIsHead, [Next]_vars
  PROVE  TypeOK' /\ UpdatesAreFew'
  <1> USE BoundsAreNatural
  <1>0. /\ leases \in Nat /\ sessions \in Nat /\ updates \in 0..MaxUpdates /\ updates \in Nat
        /\ turns \in Nat /\ lease \in 0..leases /\ session \in 0..sessions /\ acked \in 0..leases
        /\ leases + sessions <= MaxUpdates
    BY Numbers
  \* Steps that make no lease: the records stay of their types.
  <1>1. ASSUME UNCHANGED <<leases, sessions, updates, turns>>
        PROVE  /\ UpdateRecords' = UpdateRecords /\ CallRecords' = CallRecords
               /\ TailRecords' = TailRecords /\ UpdatesAreFew'
    BY <1>1 DEF UpdateRecords, CallRecords, TailRecords, UpdatesAreFew
  <1>3. CASE Activate
    <2>1. /\ leases' = leases + 1 /\ lease' = leases + 1 /\ acked' = 0
          /\ leases + sessions < MaxUpdates /\ WakeCalls(lease, 0)
          /\ UpdateSession(WokenUpdates(lease, 0))
          /\ UNCHANGED <<transportVars, sending, turns, apps, failures>>
      BY <1>3 DEF Activate
    <2>2. /\ leases' \in Nat /\ sessions' = sessions /\ turns' = turns /\ session' = session
          /\ lease' \in 0..leases' /\ session' \in 0..sessions' /\ acked' \in 0..leases'
          /\ leases <= leases' /\ sessions <= sessions'
      BY <1>0, <2>1 DEF transportVars
    <2>3. UpdateRecords \subseteq UpdateRecords'
      BY <1>0, <2>1, <2>2 DEF UpdateRecords
    <2>4. WokenUpdates(lease, 0) \in [Updates -> UpdateRecords']
      <3>1. \A r \in UpdateRecords : [r EXCEPT !.loop = "woken"] \in UpdateRecords
        BY RecordsStay DEF Loops
      <3>2. WokenUpdates(lease, 0) \in [Updates -> UpdateRecords]
        BY <3>1, WokenTypes DEF TypeOK
      <3> QED BY <2>3, <3>2
    <2>5. /\ updates' \in 0..MaxUpdates /\ UpdatesAreFew'
          /\ update' \in [Updates -> UpdateRecords'] /\ current' \in [Updates -> 0..updates']
          /\ tail' \in Seq(TailRecords') /\ call \in [Calls -> CallRecords']
      BY <2>1, <2>2, <2>4, UpdateSessionTypes
    <2>6. call' \in [Calls -> CallRecords']
      <3>1. \A r \in CallRecords' : [r EXCEPT !.phase = "woken"] \in CallRecords'
        BY DEF CallRecords, Phases
      <3> QED BY <2>1, <2>5, <3>1, WakeCallsTypes
    <2> QED BY <1>0, <2>1, <2>2, <2>5, <2>6 DEF TypeOK, transportVars
  <1>4. CASE SessionCreated
    <2>1. /\ sessions' = sessions + 1 /\ session' = sessions + 1 /\ acked' = 0 /\ created' = TRUE
          /\ leases + sessions < MaxUpdates /\ WakeCalls(0, session)
          /\ UpdateSession(WokenUpdates(0, session))
          /\ UNCHANGED <<transport, closed, lease, leases, sending, turns, apps, failures>>
      BY <1>4 DEF SessionCreated
    <2>2. /\ sessions' \in Nat /\ leases' = leases /\ turns' = turns /\ lease' = lease
          /\ lease' \in 0..leases' /\ session' \in 0..sessions' /\ acked' \in 0..leases'
          /\ leases <= leases' /\ sessions <= sessions'
      BY <1>0, <2>1
    <2>3. UpdateRecords \subseteq UpdateRecords'
      BY <1>0, <2>1, <2>2 DEF UpdateRecords
    <2>4. WokenUpdates(0, session) \in [Updates -> UpdateRecords']
      <3>1. \A r \in UpdateRecords : [r EXCEPT !.loop = "woken"] \in UpdateRecords
        BY RecordsStay DEF Loops
      <3>2. WokenUpdates(0, session) \in [Updates -> UpdateRecords]
        BY <3>1, WokenTypes DEF TypeOK
      <3> QED BY <2>3, <3>2
    <2>5. /\ updates' \in 0..MaxUpdates /\ UpdatesAreFew'
          /\ update' \in [Updates -> UpdateRecords'] /\ current' \in [Updates -> 0..updates']
          /\ tail' \in Seq(TailRecords') /\ call \in [Calls -> CallRecords']
      BY <2>1, <2>2, <2>4, UpdateSessionTypes
    <2>6. call' \in [Calls -> CallRecords']
      <3>1. \A r \in CallRecords' : [r EXCEPT !.phase = "woken"] \in CallRecords'
        BY DEF CallRecords, Phases
      <3> QED BY <2>1, <2>5, <3>1, WakeCallsTypes
    <2> QED BY <1>0, <2>1, <2>2, <2>5, <2>6 DEF TypeOK
  <1>5. CASE TransportReady
    <2>1. /\ sessions' = sessions + 1 /\ session' = sessions + 1 /\ acked' = 0 /\ transport' = "ready"
          /\ leases + sessions < MaxUpdates
          /\ UNCHANGED <<created, closed, lease, leases, updateVars, sendVars, callVars, apps, failures>>
      BY <1>5 DEF TransportReady
    <2>2. /\ leases' \in Nat /\ sessions' \in Nat /\ updates' \in Nat /\ turns' \in Nat
          /\ leases <= leases' /\ sessions <= sessions' /\ updates <= updates' /\ turns <= turns'
          /\ updates' = updates /\ leases' = leases
      BY <1>0, <2>1 DEF updateVars, callVars
    <2>3. /\ update \in [Updates -> UpdateRecords'] /\ call \in [Calls -> CallRecords']
          /\ current \in [Updates -> 0..updates'] /\ tail \in Seq(TailRecords')
      BY <2>2, RecordsGrow
    <2> QED
      BY <1>0, <2>1, <2>2, <2>3 DEF TypeOK, UpdatesAreFew, updateVars, sendVars, callVars
  \* What waking does to the types.
  <1>6. ASSUME NEW STATE l, NEW STATE s PROVE WokenUpdates(l, s) \in [Updates -> UpdateRecords]
    <2>1. \A r \in UpdateRecords : [r EXCEPT !.loop = "woken"] \in UpdateRecords
      BY RecordsStay DEF Loops
    <2> QED BY <2>1, WokenTypes DEF TypeOK
  <1>7. ASSUME NEW STATE l, NEW STATE s, WakeCalls(l, s) PROVE call' \in [Calls -> CallRecords]
    <2>1. \A r \in CallRecords : [r EXCEPT !.phase = "woken"] \in CallRecords
      BY RecordsStay DEF Phases
    <2> QED BY <1>7, <2>1, WakeCallsTypes DEF TypeOK
  <1>8. CASE Deactivate
    <2>1. call' \in [Calls -> CallRecords] /\ update' \in [Updates -> UpdateRecords]
      BY <1>6, <1>7, <1>8 DEF Deactivate
    <2> QED BY <1>0, <1>1, <1>8, <2>1 DEF Deactivate, TypeOK, transportVars, sendVars
  <1>9. CASE TransportLost
    <2>1. call' \in [Calls -> CallRecords] /\ update' \in [Updates -> UpdateRecords]
      BY <1>6, <1>7, <1>9 DEF TransportLost
    <2>2. created' \in BOOLEAN /\ closed' \in BOOLEAN /\ sending' \in BOOLEAN
      BY <1>9 DEF TransportLost, TypeOK, sendVars
    <2>3. /\ UNCHANGED <<sessions, leases, updates, current, turns, apps, failures, tail>>
          /\ transport' \in {"ready", "disconnected"} /\ lease' \in {0, lease} /\ acked' = 0 /\ session' = 0
      BY <1>9 DEF TransportLost, TypeOK, sendVars
    <2> QED BY <1>0, <1>1, <2>1, <2>2, <2>3 DEF TypeOK
  <1>10. CASE Close
    <2>1. call' \in [Calls -> CallRecords] /\ update' \in [Updates -> UpdateRecords]
      BY <1>6, <1>7, <1>10 DEF Close
    <2>2. created' \in BOOLEAN /\ closed' \in BOOLEAN /\ sending' \in BOOLEAN
      BY <1>10 DEF Close, TypeOK, sendVars
    <2>3. /\ UNCHANGED <<sessions, leases, updates, current, turns, apps, failures, tail>>
          /\ transport' \in {"ready", "disconnected"} /\ lease' \in {0, lease} /\ acked' = 0 /\ session' = 0
      BY <1>10 DEF Close, TypeOK, sendVars
    <2> QED BY <1>0, <1>1, <2>1, <2>2, <2>3 DEF TypeOK
  \* Steps that change an update, a call or the tail.
  <1>20. ASSUME UNCHANGED <<transport, leases, lease, sessions, session, created, closed, updates, turns>>,
                update' \in [Updates -> UpdateRecords], call' \in [Calls -> CallRecords],
                tail' \in Seq(TailRecords), current' \in [Updates -> 0..updates], acked' \in 0..leases,
                sending' \in BOOLEAN, apps' \in 0..MaxApps, failures' \in 0..MaxFailures
         PROVE  TypeOK' /\ UpdatesAreFew'
    <2>1. created' \in BOOLEAN /\ closed' \in BOOLEAN
      BY <1>20 DEF TypeOK
    <2> QED BY <1>0, <1>1, <1>20, <2>1 DEF TypeOK
  <1>11. ASSUME NEW u \in Updates, SessionUpdated(u) PROVE TypeOK' /\ UpdatesAreFew'
    <2>1. update' \in [Updates -> UpdateRecords]
      BY <1>11, RecordsStay DEF SessionUpdated, TypeOK
    <2>2. acked' \in 0..leases
      BY <1>0, <1>11 DEF SessionUpdated
    <2> QED
      BY <1>11, <1>20, <2>1, <2>2 DEF SessionUpdated, TypeOK, transportVars, sendVars, callVars
  <1>12. ASSUME NEW c \in Calls, NEW u \in Updates, FunctionCall(c, u) PROVE TypeOK' /\ UpdatesAreFew'
    <2>1. u \in 0..updates
      BY <1>0, <1>12, BoundsAreNatural DEF FunctionCall, TagIsCurrent, TypeOK, Updates
    <2>2. call' \in [Calls -> CallRecords]
      <3>1. /\ call' = [call EXCEPT ![c].phase = "executing", ![c].lease = acked,
                                    ![c].session = session, ![c].tag = u]
        BY <1>12 DEF FunctionCall
      <3>2. [call[c] EXCEPT !.phase = "executing", !.lease = acked, !.session = session, !.tag = u]
              \in CallRecords
        BY <1>0, <2>1 DEF TypeOK, CallRecords, Phases
      <3>3. call \in [Calls -> CallRecords] BY DEF TypeOK
      <3> QED BY <3>1, <3>2, <3>3
    <2> QED
      BY <1>12, <1>20, <2>2 DEF FunctionCall, TypeOK, transportVars, providerVars, updateVars, sendVars
  <1>13. Ended \in CallRecords
    BY <1>0 DEF Ended, CallRecords, Phases
  <1>14. ASSUME NEW c \in Calls, ToolDone(c) PROVE TypeOK' /\ UpdatesAreFew'
    <2>1. call' \in [Calls -> CallRecords]
      <3>1. CASE Owns(c)
        <4>1. call' = [call EXCEPT ![c].phase = "output"] BY <1>14, <3>1 DEF ToolDone
        <4> QED BY <4>1, PhaseChange DEF Phases
      <3>2. CASE ~Owns(c)
        <4>1. call' = [call EXCEPT ![c] = Ended] BY <1>14, <3>2 DEF ToolDone
        <4> QED BY <4>1, CallEnds
      <3> QED BY <3>1, <3>2
    <2>2. tail' \in Seq(TailRecords)
      BY <1>14, TailGrows DEF ToolDone, TypeOK
    <2> QED
      BY <1>14, <1>20, <2>1, <2>2 DEF ToolDone, TypeOK, transportVars, providerVars, updateVars
  <1>15. CASE SendApplicationEvent
    <2>1. tail' \in Seq(TailRecords)
      BY <1>15 DEF SendApplicationEvent, TypeOK, TailRecords
    <2>2. apps' \in 0..MaxApps
      BY <1>15 DEF SendApplicationEvent, TypeOK
    <2> QED
      BY <1>15, <1>20, <2>1, <2>2 DEF SendApplicationEvent, TypeOK, transportVars, providerVars, updateVars, callVars
  <1>16. CASE StartSend
    <2>1. update' \in [Updates -> UpdateRecords]
      BY <1>16, RecordsStay DEF StartSend, TypeOK
    <2> QED
      BY <1>16, <1>20, <2>1 DEF StartSend, TypeOK, transportVars, providerVars, callVars
  <1>17. CASE DropSend
    <2>1. update' \in [Updates -> UpdateRecords]
      <3>1. CASE Head(tail).kind = "update" /\ update' = [update EXCEPT ![Head(tail).of].loop = "over"]
        <4>1. update \in [Updates -> UpdateRecords] BY DEF TypeOK
        <4>2. CASE Head(tail).of \in Updates BY <3>1, <4>2, LoopChange DEF Loops
        <4>3. CASE Head(tail).of \notin Updates BY <3>1, <4>1, <4>3
        <4> QED BY <4>2, <4>3
      <3>2. CASE UNCHANGED update BY <3>2 DEF TypeOK
      <3> QED BY <1>17, <3>1, <3>2 DEF DropSend
    <2>2. call' \in [Calls -> CallRecords]
      BY <1>13, <1>17 DEF DropSend, TypeOK
    <2>3. tail' \in Seq(TailRecords)
      BY <1>17 DEF DropSend, MustDrop, TypeOK
    <2> QED
      BY <1>17, <1>20, <2>1, <2>2, <2>3 DEF DropSend, TypeOK, transportVars, providerVars
  <1>18. ASSUME NEW u \in Updates, UpdateTimer(u) \/ ResumeUpdate(u) PROVE TypeOK' /\ UpdatesAreFew'
    <2>1. update' \in [Updates -> UpdateRecords]
      BY <1>18, LoopChange DEF UpdateTimer, ResumeUpdate, Loops
    <2>2. tail' \in Seq(TailRecords)
      <3>1. CASE OwnsUpdate(u) /\ ResumeUpdate(u)
        <4>1. u \in 1..updates
          BY <1>0, <3>1, BoundsAreNatural DEF OwnsUpdate, TypeOK, Updates
        <4>2. [kind |-> "update", of |-> u] \in TailRecords
          BY <4>1 DEF TailRecords
        <4>3. tail' = Append(tail, [kind |-> "update", of |-> u])
          BY <3>1 DEF ResumeUpdate
        <4>4. tail \in Seq(TailRecords) BY DEF TypeOK
        <4> QED BY <4>2, <4>3, <4>4
      <3>2. CASE ~OwnsUpdate(u) \/ UpdateTimer(u)
        BY <1>18, <3>2 DEF UpdateTimer, ResumeUpdate, TypeOK, sendVars
      <3> QED BY <1>18, <3>1, <3>2
    <2> QED
      BY <1>18, <1>20, <2>1, <2>2 DEF UpdateTimer, ResumeUpdate, TypeOK, transportVars, providerVars, sendVars, callVars
  <1>19. ASSUME NEW c \in Calls, CallTimer(c) \/ ResumeCall(c) PROVE TypeOK' /\ UpdatesAreFew'
    <2>1. call' \in [Calls -> CallRecords]
      <3>1. CASE CallTimer(c)
        <4>1. call' = [call EXCEPT ![c].phase = "woken", ![c].elapsed = @ + 1]
              /\ call[c].elapsed < ContinuationRetries
          BY <3>1 DEF CallTimer, RetriesAreLeft
        <4>2. [call[c] EXCEPT !.phase = "woken", !.elapsed = @ + 1] \in CallRecords
          <5>1. call[c] \in CallRecords BY DEF TypeOK
          <5>2. call[c].elapsed + 1 \in 0..ContinuationRetries BY <4>1, <5>1 DEF CallRecords
          <5> QED BY <5>1, <5>2 DEF CallRecords, Phases
        <4>3. call \in [Calls -> CallRecords] BY DEF TypeOK
        <4> QED BY <4>1, <4>2, <4>3
      <3>2. CASE ResumeCall(c)
        <4>1. \/ call' = [call EXCEPT ![c].phase = "continue"]
              \/ call' = [call EXCEPT ![c] = Ended]
          BY <3>2 DEF ResumeCall
        <4>2. [call EXCEPT ![c].phase = "continue"] \in [Calls -> CallRecords]
          BY PhaseChange DEF Phases
        <4>3. [call EXCEPT ![c] = Ended] \in [Calls -> CallRecords]
          BY CallEnds
        <4> QED BY <4>1, <4>2, <4>3
      <3> QED BY <1>19, <3>1, <3>2
    <2>2. tail' \in Seq(TailRecords)
      BY <1>19, TailGrows DEF CallTimer, ResumeCall, TypeOK, sendVars
    <2> QED
      BY <1>19, <1>20, <2>1, <2>2 DEF CallTimer, ResumeCall, TypeOK, transportVars, providerVars, updateVars, sendVars
  <1>21. ASSUME NEW result \in {"queued", "overflow", "disconnected"}, SendSettles(result)
         PROVE  TypeOK' /\ UpdatesAreFew'
    <2>0. /\ tail # <<>> /\ tail' = Tail(tail) /\ sending' = FALSE
          /\ UNCHANGED <<transport, session, sessions, created, closed, lease, leases, apps>>
      BY <1>21 DEF SendSettles, transportVars, SendingIsHead
    <2>1. tail' \in Seq(TailRecords) /\ Head(tail) \in TailRecords
      BY <2>0 DEF TypeOK
    <2>2. failures' \in 0..MaxFailures
      <3>1. failures \in 0..MaxFailures BY DEF TypeOK
      <3>2. failures' = failures \/ (failures' = failures + 1 /\ failures < MaxFailures)
        BY <1>21 DEF SendSettles, Results
      <3> QED BY <3>1, <3>2
    <2>3. apps' \in 0..MaxApps /\ sending' \in BOOLEAN
      BY <2>0 DEF TypeOK
    <2>4. ASSUME NEW b \in BOOLEAN, Head(tail).kind = "update", UpdateSent(Head(tail).of, b), UNCHANGED updates
          PROVE  TypeOK' /\ UpdatesAreFew'
      <3> DEFINE u == Head(tail).of
      <3>1. u \in Updates /\ update[u] \in UpdateRecords
        <4>1. u \in 1..updates BY <2>1, <2>4 DEF TailRecords
        <4> QED BY <1>0, <4>1 DEF Updates, TypeOK
      <3>2. update' \in [Updates -> UpdateRecords]
        <4>1. [update EXCEPT ![u].loop = "over"] \in [Updates -> UpdateRecords]
              /\ [update EXCEPT ![u].loop = "waiting"] \in [Updates -> UpdateRecords]
          BY <3>1, LoopChange DEF Loops
        <4>2. [update EXCEPT ![u].loop = "over", ![u].delivered = TRUE] \in [Updates -> UpdateRecords]
          <5>1. [update[u] EXCEPT !.loop = "over", !.delivered = TRUE] \in UpdateRecords
            BY <3>1 DEF UpdateRecords, Loops
          <5> QED BY <3>1, <5>1 DEF TypeOK
        <4>3. \/ update' = [update EXCEPT ![u].loop = "over"]
              \/ update' = [update EXCEPT ![u].loop = "waiting"]
              \/ update' = [update EXCEPT ![u].loop = "over", ![u].delivered = TRUE]
          BY <2>4 DEF UpdateSent
        <4> QED BY <4>1, <4>2, <4>3
      <3>3. acked' \in 0..leases
        BY <1>0, <2>4 DEF UpdateSent
      <3>4. current' \in [Updates -> 0..updates]
        <4>1. current \in [Updates -> 0..updates] BY DEF TypeOK
        <4>2. current' = current \/ current' = [current EXCEPT ![lease] = 0]
          BY <2>4 DEF UpdateSent
        <4> QED BY <1>0, <4>1, <4>2
      <3>5. call' \in [Calls -> CallRecords] /\ turns' = turns
        BY <2>4 DEF UpdateSent, callVars, TypeOK
      <3> QED BY <1>20, <2>0, <2>1, <2>2, <2>3, <2>4, <3>2, <3>3, <3>4, <3>5
    <2>5. ASSUME NEW b \in BOOLEAN, Head(tail).kind = "output", OutputSent(Head(tail).of, b)
          PROVE  TypeOK' /\ UpdatesAreFew'
      <3> DEFINE c == Head(tail).of
      <3>1. c \in Calls
        BY <2>1, <2>5 DEF TailRecords
      <3>2. acked' = acked /\ updates' = updates /\ update' = update /\ current' = current
        BY <2>5 DEF OutputSent
      <3>3. CASE Owns(c) /\ b
        <4>1. turns' = turns + 1 /\ call' = [call EXCEPT ![c].phase = "turn", ![c].turn = turns + 1]
          BY <2>5, <3>3 DEF OutputSent
        <4>2. /\ UpdateRecords' = UpdateRecords /\ TailRecords' = TailRecords /\ UpdatesAreFew'
              /\ CallRecords \subseteq CallRecords'
          BY <1>0, <2>0, <3>2, <4>1 DEF UpdateRecords, CallRecords, TailRecords, UpdatesAreFew
        <4>3. call \in [Calls -> CallRecords'] /\ call[c] \in CallRecords'
          BY <3>1, <4>2 DEF TypeOK
        <4>4. [call[c] EXCEPT !.phase = "turn", !.turn = turns + 1] \in CallRecords'
          <5>1. turns + 1 \in 0..turns' BY <1>0, <4>1
          <5>2. "turn" \in Phases BY DEF Phases
          <5> QED BY <4>3, <5>1, <5>2 DEF CallRecords
        <4>5. call' \in [Calls -> CallRecords']
          BY <3>1, <4>1, <4>3, <4>4
        <4>6. /\ update' \in [Updates -> UpdateRecords'] /\ tail' \in Seq(TailRecords')
              /\ current' \in [Updates -> 0..updates'] /\ turns' \in Nat
          <5>1. update' \in [Updates -> UpdateRecords'] BY <3>2, <4>2 DEF TypeOK
          <5>2. tail' \in Seq(TailRecords') BY <2>1, <4>2
          <5>3. current' \in [Updates -> 0..updates'] BY <3>2 DEF TypeOK
          <5>4. turns' \in Nat BY <1>0, <4>1
          <5> QED BY <5>1, <5>2, <5>3, <5>4
        <4>7. created' \in BOOLEAN /\ closed' \in BOOLEAN
          BY <2>0 DEF TypeOK
        <4> QED BY <1>0, <2>0, <2>2, <2>3, <3>2, <4>2, <4>5, <4>6, <4>7 DEF TypeOK
      <3>4. CASE ~(Owns(c) /\ b)
        <4>1. turns' = turns /\ call' \in [Calls -> CallRecords]
          BY <2>5, <3>1, <3>4, CallEnds DEF OutputSent
        <4> QED BY <1>20, <2>0, <2>1, <2>2, <2>3, <3>2, <4>1 DEF TypeOK
      <3> QED BY <3>3, <3>4
    <2>6. ASSUME Head(tail).kind = "continue", ContinuationSent(Head(tail).of, result)
          PROVE  TypeOK' /\ UpdatesAreFew'
      <3> DEFINE c == Head(tail).of
      <3>1. c \in Calls
        BY <2>1, <2>6 DEF TailRecords
      <3>2. acked' = acked /\ updates' = updates /\ update' = update /\ current' = current /\ turns' = turns
        BY <2>6 DEF ContinuationSent
      <3>3. call' \in [Calls -> CallRecords]
        <4>1. call' = [call EXCEPT ![c].phase = "waiting"] \/ call' = [call EXCEPT ![c] = Ended]
          BY <2>6 DEF ContinuationSent
        <4>2. [call EXCEPT ![c].phase = "waiting"] \in [Calls -> CallRecords]
          BY <3>1, PhaseChange DEF Phases
        <4>3. [call EXCEPT ![c] = Ended] \in [Calls -> CallRecords]
          BY <3>1, CallEnds
        <4> QED BY <4>1, <4>2, <4>3
      <3> QED BY <1>20, <2>0, <2>1, <2>2, <2>3, <3>2, <3>3 DEF TypeOK
    <2>7. ASSUME Head(tail).kind = "app", UNCHANGED <<acked, updateVars, callVars>>
          PROVE  TypeOK' /\ UpdatesAreFew'
      BY <1>20, <2>0, <2>1, <2>2, <2>3, <2>7 DEF TypeOK, updateVars, callVars
    <2> QED BY <1>21, <2>4, <2>5, <2>6, <2>7 DEF SendSettles
  <1>22. CASE UNCHANGED vars
    BY <1>0, <1>1, <1>22
    DEF vars, TypeOK, transportVars, providerVars, updateVars, sendVars, callVars
  <1> QED
    BY <1>3, <1>4, <1>5, <1>8, <1>9, <1>10, <1>11, <1>12, <1>14, <1>15, <1>16, <1>17, <1>18, <1>19,
       <1>21, <1>22 DEF Next, Promises, Timers
-----------------------------------------------------------------------------
(***************************************************************************)
(* Every step keeps one part of the invariant at a time.                   *)
(***************************************************************************)
\* What waking leaves alone of an update, and what it does to its loop.
LEMMA WokenFields ==
  ASSUME TypeOK, NEW STATE l, NEW STATE s, NEW u \in Updates
  PROVE  LET w == WokenUpdates(l, s)[u] IN
         /\ w.lease = update[u].lease /\ w.session = update[u].session
         /\ w.sent = update[u].sent /\ w.delivered = update[u].delivered
         /\ w.acknowledged = update[u].acknowledged
         /\ w.loop = IF update[u].loop = "waiting" /\ Wakes(l, s, update[u]) THEN "woken"
                     ELSE update[u].loop
  <1>1. update[u] \in UpdateRecords BY DEF TypeOK
  <1>2. CASE update[u].loop = "waiting" /\ Wakes(l, s, update[u])
    <2>1. WokenUpdates(l, s)[u] = [update[u] EXCEPT !.loop = "woken"]
      BY <1>2 DEF WokenUpdates
    <2> QED BY <1>1, <1>2, <2>1 DEF UpdateRecords
  <1>3. CASE ~(update[u].loop = "waiting" /\ Wakes(l, s, update[u]))
    <2>1. WokenUpdates(l, s)[u] = update[u]
      BY <1>3 DEF WokenUpdates
    <2> QED BY <1>1, <1>3, <2>1
  <1> QED BY <1>2, <1>3

\* The same of a call.
LEMMA WokenCallFields ==
  ASSUME TypeOK, NEW STATE l, NEW STATE s, WakeCalls(l, s), NEW c \in Calls
  PROVE  /\ call'[c].lease = call[c].lease /\ call'[c].session = call[c].session
         /\ call'[c].tag = call[c].tag /\ call'[c].turn = call[c].turn
         /\ call'[c].elapsed = call[c].elapsed
         /\ call'[c].phase = IF call[c].phase = "waiting" /\ Wakes(l, s, call[c]) THEN "woken"
                             ELSE call[c].phase
  <1>1. call[c] \in CallRecords BY DEF TypeOK
  <1>2. CASE call[c].phase = "waiting" /\ Wakes(l, s, call[c])
    <2>1. call'[c] = [call[c] EXCEPT !.phase = "woken"]
      BY <1>2 DEF WakeCalls
    <2> QED BY <1>1, <1>2, <2>1 DEF CallRecords
  <1>3. CASE ~(call[c].phase = "waiting" /\ Wakes(l, s, call[c]))
    <2>1. call'[c] = call[c]
      BY <1>3 DEF WakeCalls
    <2> QED BY <1>1, <1>3, <2>1
  <1> QED BY <1>2, <1>3

\* updateSession() makes a new update, or none.
LEMMA UpdateSessionFields ==
  ASSUME TypeOK, NEW STATE l, NEW STATE s, UpdateSession(WokenUpdates(l, s)), updates < MaxUpdates
  PROVE  \/ /\ updates' = updates + 1 /\ created' /\ lease' # 0 /\ session' # 0
            /\ update'[updates + 1] = [lease |-> lease', session |-> session', sent |-> FALSE,
                        delivered |-> FALSE, acknowledged |-> FALSE, loop |-> "sending"]
            /\ \A u \in Updates : u # updates + 1 => update'[u] = WokenUpdates(l, s)[u]
            /\ current' = [current EXCEPT ![lease'] = updates + 1]
            /\ tail' = Append(tail, [kind |-> "update", of |-> updates + 1])
         \/ /\ UNCHANGED <<updates, current, tail>>
            /\ \A u \in Updates : update'[u] = WokenUpdates(l, s)[u]
  <1>1. updates + 1 \in Updates
    BY Numbers, BoundsAreNatural DEF Updates
  <1>2. DOMAIN WokenUpdates(l, s) = Updates
    BY DEF WokenUpdates
  <1>3. CASE created' /\ lease' # 0 /\ session' # 0
    BY <1>1, <1>2, <1>3 DEF UpdateSession
  <1>4. CASE ~(created' /\ lease' # 0 /\ session' # 0)
    BY <1>4 DEF UpdateSession
  <1> QED BY <1>3, <1>4

\* One field of an update changes.
LEMMA LoopFields ==
  ASSUME TypeOK, NEW u \in Updates, NEW x, update' = [update EXCEPT ![u].loop = x], NEW v \in Updates
  PROVE  /\ update'[v].lease = update[v].lease /\ update'[v].session = update[v].session
         /\ update'[v].sent = update[v].sent /\ update'[v].delivered = update[v].delivered
         /\ update'[v].acknowledged = update[v].acknowledged
         /\ update'[v].loop = IF v = u THEN x ELSE update[v].loop
  <1>1. update \in [Updates -> UpdateRecords] BY DEF TypeOK
  <1> QED BY <1>1 DEF UpdateRecords

\* An update is delivered,
LEMMA DeliveredFields ==
  ASSUME TypeOK, NEW u \in Updates, NEW v \in Updates,
         update' = [update EXCEPT ![u].loop = "over", ![u].delivered = TRUE]
  PROVE  /\ update'[v].lease = update[v].lease /\ update'[v].session = update[v].session
         /\ update'[v].sent = update[v].sent /\ update'[v].acknowledged = update[v].acknowledged
         /\ v # u => update'[v] = update[v]
         /\ v = u => update'[v].loop = "over" /\ update'[v].delivered
  <1>1. update \in [Updates -> UpdateRecords] BY DEF TypeOK
  <1> QED BY <1>1 DEF UpdateRecords

\* and sent.
LEMMA SentFields ==
  ASSUME TypeOK, NEW u \in Updates, NEW v \in Updates,
         \/ update' = [update EXCEPT ![u].sent = TRUE]
         \/ update' = [update EXCEPT ![u].acknowledged = TRUE]
  PROVE  /\ update'[v].lease = update[v].lease /\ update'[v].session = update[v].session
         /\ update'[v].delivered = update[v].delivered /\ update'[v].loop = update[v].loop
         /\ update[v].acknowledged => update'[v].acknowledged
  <1>1. update \in [Updates -> UpdateRecords] BY DEF TypeOK
  <1> QED BY <1>1 DEF UpdateRecords

\* What a send of an update comes to, and what the steps that wait do.
LEMMA HeadIsTyped ==
  ASSUME TypeOK, tail # <<>>
  PROVE  /\ Head(tail).kind \in {"update", "app", "output", "continue"}
         /\ Head(tail).kind = "update" => Head(tail).of \in 1..updates /\ Head(tail).of \in Updates
         /\ Head(tail).kind \in {"output", "continue"} => Head(tail).of \in Calls
         /\ Head(tail) = tail[1] /\ 1 \in 1..Len(tail)
  <1>1. tail \in Seq(TailRecords) BY DEF TypeOK
  <1>2. Head(tail) \in TailRecords /\ Head(tail) = tail[1] /\ 1 \in 1..Len(tail)
    BY <1>1
  <1>3. updates \in Nat /\ updates <= MaxUpdates BY Numbers, BoundsAreNatural
  <1> QED BY <1>2, <1>3, BoundsAreNatural DEF TailRecords, Updates

\* An update keeps its leases; it is delivered when its loop is over, and a loop
\* that is over is not taken up again.
LEMMA DeliveredStep ==
  ASSUME TypeOK, UpdatesAreFew, SendingIsHead, TailIsOwned, DeliveredIsOver, [Next]_vars
  PROVE  DeliveredIsOver'
  <1>0. updates \in Nat /\ leases \in Nat /\ sessions \in Nat /\ MaxUpdates \in Nat /\ updates <= MaxUpdates
    BY Numbers, BoundsAreNatural
  <1>1. ASSUME UNCHANGED <<update, updates>> PROVE DeliveredIsOver'
    BY <1>1 DEF DeliveredIsOver
  <1>2. ASSUME NEW STATE l, NEW STATE s, UNCHANGED updates, update' = WokenUpdates(l, s)
        PROVE  DeliveredIsOver'
    BY <1>2, WokenFields DEF DeliveredIsOver
  <1>3. ASSUME NEW STATE l, NEW STATE s, UpdateSession(WokenUpdates(l, s)), leases + sessions < MaxUpdates
        PROVE  DeliveredIsOver'
    <2>1. updates < MaxUpdates
      BY <1>0, <1>3 DEF UpdatesAreFew
    <2>2. \A u \in Updates : u # updates + 1 =>
            /\ WokenUpdates(l, s)[u].delivered => WokenUpdates(l, s)[u].loop = "over"
            /\ u > updates => WokenUpdates(l, s)[u].loop = "none" /\ ~WokenUpdates(l, s)[u].delivered
      BY WokenFields DEF DeliveredIsOver
    <2>3. \A u \in Updates : u \in Nat BY <1>0 DEF Updates
    <2>4. CASE updates' = updates + 1
      BY <1>0, <1>3, <2>1, <2>2, <2>3, <2>4, UpdateSessionFields DEF DeliveredIsOver
    <2>5. CASE updates' # updates + 1
      BY <1>0, <1>3, <2>1, <2>5, UpdateSessionFields, WokenFields DEF DeliveredIsOver
    <2> QED BY <2>4, <2>5
  <1>4. ASSUME NEW u \in Updates, NEW x, update' = [update EXCEPT ![u].loop = x], UNCHANGED updates,
               u <= updates, update[u].delivered => x = "over"
        PROVE  DeliveredIsOver'
    BY <1>0, <1>4, LoopFields DEF DeliveredIsOver, Updates
  <1>5. \A u \in Updates : update[u].loop # "none" => u <= updates
    BY <1>0 DEF DeliveredIsOver, Updates
  <1>6. CASE StartSend
    <2>1. CASE UNCHANGED update
      BY <1>1, <1>6, <2>1 DEF StartSend
    <2>2. CASE Head(tail).kind = "update" /\ update' = [update EXCEPT ![Head(tail).of].sent = TRUE]
      BY <1>6, <2>2, SentFields, HeadIsTyped DEF StartSend, DeliveredIsOver
    <2> QED BY <1>6, <2>1, <2>2 DEF StartSend
  <1>7. CASE DropSend
    <2>1. CASE UNCHANGED update
      BY <1>1, <1>7, <2>1 DEF DropSend
    <2>2. CASE Head(tail).kind = "update" /\ update' = [update EXCEPT ![Head(tail).of].loop = "over"]
      <3>1. tail # <<>> /\ updates' = updates BY <1>7 DEF DropSend, MustDrop
      <3>2. Head(tail).of \in Updates /\ Head(tail).of <= updates
        BY <1>0, <2>2, <3>1, HeadIsTyped
      <3> QED BY <1>4, <2>2, <3>1, <3>2
    <2> QED BY <1>7, <2>1, <2>2 DEF DropSend
  <1>8. ASSUME NEW u \in Updates, UpdateTimer(u) \/ ResumeUpdate(u) PROVE DeliveredIsOver'
    BY <1>4, <1>5, <1>8 DEF UpdateTimer, ResumeUpdate, DeliveredIsOver
  <1>9. ASSUME NEW u \in Updates, SessionUpdated(u) PROVE DeliveredIsOver'
    BY <1>9, SentFields DEF SessionUpdated, DeliveredIsOver
  <1>18. ASSUME NEW u \in Updates, UNCHANGED updates, u <= updates,
                update' = [update EXCEPT ![u].loop = "over", ![u].delivered = TRUE]
         PROVE  DeliveredIsOver'
    <2>1. ASSUME NEW v \in Updates
          PROVE  /\ update'[v].delivered => update'[v].loop = "over"
                 /\ v > updates => update'[v].loop = "none" /\ ~update'[v].delivered
      <3>1. CASE v = u
        <4>1. update'[u].loop = "over" BY <1>18, DeliveredFields
        <4>2. ~(u > updates) BY <1>0, <1>18 DEF Updates
        <4> QED BY <3>1, <4>1, <4>2
      <3>2. CASE v # u
        <4>1. update'[v] = update[v] BY <1>18, <3>2, DeliveredFields
        <4> QED BY <4>1 DEF DeliveredIsOver
      <3> QED BY <3>1, <3>2
    <2> QED BY <1>18, <2>1 DEF DeliveredIsOver
  <1>10. ASSUME NEW b \in BOOLEAN, Head(tail).kind = "update", tail # <<>>, UpdateSent(Head(tail).of, b),
                UNCHANGED updates
         PROVE  DeliveredIsOver'
    <2> DEFINE u == Head(tail).of
    <2>1. u \in Updates /\ u <= updates /\ update[u].loop = "sending" /\ ~update[u].delivered
      BY <1>0, <1>10, HeadIsTyped DEF TailIsOwned, DeliveredIsOver
    <2>2. CASE update' = [update EXCEPT ![u].loop = "over"] \/ update' = [update EXCEPT ![u].loop = "waiting"]
      BY <1>4, <1>10, <2>1, <2>2
    <2>3. CASE update' = [update EXCEPT ![u].loop = "over", ![u].delivered = TRUE]
      BY <1>10, <1>18, <2>1, <2>3
    <2> QED BY <1>10, <2>2, <2>3 DEF UpdateSent
  <1>11. ASSUME NEW result \in {"queued", "overflow", "disconnected"}, SendSettles(result)
         PROVE  DeliveredIsOver'
    <2>1. tail # <<>>
      BY <1>11 DEF SendSettles, SendingIsHead
    <2>2. CASE UNCHANGED <<update, updates>>
      BY <1>1, <2>2
    <2>3. CASE Head(tail).kind = "update" /\ UpdateSent(Head(tail).of, result = "queued") /\ UNCHANGED updates
      BY <1>10, <2>1, <2>3
    <2> QED
      BY <1>11, <2>2, <2>3 DEF SendSettles, OutputSent, ContinuationSent, updateVars
  <1>12. CASE Activate
    BY <1>3, <1>12 DEF Activate
  <1>13. CASE SessionCreated
    BY <1>3, <1>13 DEF SessionCreated
  <1>14. CASE Deactivate \/ TransportLost \/ Close
    BY <1>2, <1>14 DEF Deactivate, TransportLost, Close
  <1>15. CASE TransportReady \/ SendApplicationEvent \/ UNCHANGED vars
    BY <1>1, <1>15 DEF TransportReady, SendApplicationEvent, vars, updateVars
  <1>16. ASSUME NEW c \in Calls, ToolDone(c) \/ CallTimer(c) \/ ResumeCall(c) PROVE DeliveredIsOver'
    BY <1>1, <1>16 DEF ToolDone, CallTimer, ResumeCall, updateVars
  <1>17. ASSUME NEW c \in Calls, NEW u \in Updates, FunctionCall(c, u) PROVE DeliveredIsOver'
    BY <1>1, <1>17 DEF FunctionCall, updateVars
  <1> QED
    BY <1>6, <1>7, <1>8, <1>9, <1>11, <1>12, <1>13, <1>14, <1>15, <1>16, <1>17
    DEF Next, Promises, Timers

\* What is in the tail is of its type.
LEMMA TailIsTyped ==
  ASSUME TypeOK, NEW k \in 1..Len(tail)
  PROVE  /\ tail[k] \in TailRecords
         /\ tail[k].kind \in {"update", "app", "output", "continue"}
         /\ tail[k].kind = "update" => tail[k].of \in Updates /\ tail[k].of \in 1..updates
         /\ tail[k].kind \in {"output", "continue"} => tail[k].of \in Calls
         /\ tail[k] = [kind |-> tail[k].kind, of |-> tail[k].of]
  <1>1. tail \in Seq(TailRecords) BY DEF TypeOK
  <1>2. tail[k] \in TailRecords BY <1>1
  <1>3. updates \in Nat /\ updates <= MaxUpdates BY Numbers, BoundsAreNatural
  <1> QED BY <1>2, <1>3, BoundsAreNatural DEF TailRecords, Updates

\* The tail is left alone by what takes no send's loop away,
LEMMA TailKept ==
  ASSUME TypeOK, TailIsOwned, OnceInTail, UNCHANGED tail,
         \A u \in Updates : update[u].loop = "sending" => update'[u].loop = "sending",
         \A c \in Calls : call[c].phase \in {"output", "continue"} => call'[c].phase = call[c].phase
  PROVE  TailIsOwned' /\ OnceInTail'
  <1>1. ASSUME NEW k \in 1..Len(tail)
        PROVE  /\ tail[k].kind = "update" => update'[tail[k].of].loop = "sending"
               /\ tail[k].kind = "output" => call'[tail[k].of].phase = "output"
               /\ tail[k].kind = "continue" => call'[tail[k].of].phase = "continue"
    BY TailIsTyped DEF TailIsOwned
  <1> QED BY <1>1 DEF TailIsOwned, OnceInTail

\* grows by a send whose loop was at none before,
LEMMA TailGrown ==
  ASSUME TypeOK, TailIsOwned, OnceInTail,
         NEW e, tail' = Append(tail, e),
         \A u \in Updates : update[u].loop = "sending" => update'[u].loop = "sending",
         \A c \in Calls : call[c].phase \in {"output", "continue"} => call'[c].phase = call[c].phase,
         e.kind = "update" => update'[e.of].loop = "sending" /\ update[e.of].loop # "sending",
         e.kind = "output" => call'[e.of].phase = "output" /\ call[e.of].phase # "output",
         e.kind = "continue" => call'[e.of].phase = "continue" /\ call[e.of].phase # "continue",
         e.kind \in {"update", "app", "output", "continue"}
  PROVE  TailIsOwned' /\ OnceInTail'
  <1>0. tail \in Seq(TailRecords) BY DEF TypeOK
  <1>1. /\ Len(tail') = Len(tail) + 1 /\ Len(tail) \in Nat
        /\ \A k \in 1..Len(tail) : tail'[k] = tail[k]
        /\ tail'[Len(tail) + 1] = e
    BY <1>0
  <1>2. ASSUME NEW k \in 1..Len(tail)
        PROVE  /\ tail[k].kind = "update" => update'[tail[k].of].loop = "sending"
               /\ tail[k].kind = "output" => call'[tail[k].of].phase = "output"
               /\ tail[k].kind = "continue" => call'[tail[k].of].phase = "continue"
               /\ tail[k] # e \/ e.kind = "app"
    BY TailIsTyped DEF TailIsOwned
  <1>3. \A k \in 1..Len(tail') : k \in 1..Len(tail) \/ k = Len(tail) + 1
    BY <1>1
  <1>4. TailIsOwned'
    BY <1>1, <1>2, <1>3 DEF TailIsOwned
  <1>5. OnceInTail'
    BY <1>1, <1>2, <1>3 DEF OnceInTail
  <1> QED BY <1>4, <1>5

\* and loses its head, whatever becomes of that one.
LEMMA TailPopped ==
  ASSUME TypeOK, TailIsOwned, OnceInTail, tail # <<>>, tail' = Tail(tail),
         \A u \in Updates : update[u].loop = "sending" /\ ~(Head(tail).kind = "update" /\ Head(tail).of = u)
                              => update'[u].loop = "sending",
         \A c \in Calls :
           (call[c].phase \in {"output", "continue"}
              /\ ~(Head(tail).kind \in {"output", "continue"} /\ Head(tail).of = c))
                => call'[c].phase = call[c].phase
  PROVE  TailIsOwned' /\ OnceInTail'
  <1>0. tail \in Seq(TailRecords) BY DEF TypeOK
  <1>1. /\ Len(tail') = Len(tail) - 1 /\ Len(tail) \in Nat \ {0} /\ Head(tail) = tail[1]
        /\ \A k \in 1..Len(tail') : tail'[k] = tail[k + 1] /\ k + 1 \in 1..Len(tail) /\ k + 1 # 1
        /\ 1 \in 1..Len(tail)
    BY <1>0
  <1>2. ASSUME NEW k \in 1..Len(tail), k # 1
        PROVE  /\ tail[k].kind = "update" => update'[tail[k].of].loop = "sending"
               /\ tail[k].kind = "output" => call'[tail[k].of].phase = "output"
               /\ tail[k].kind = "continue" => call'[tail[k].of].phase = "continue"
    <2>1. tail[k] # tail[1] \/ tail[k].kind = "app"
      BY <1>1, <1>2 DEF OnceInTail
    <2>2. tail[k].kind = tail[1].kind /\ tail[k].of = tail[1].of => tail[k] = tail[1]
      BY <1>1, TailIsTyped
    <2>3. CASE tail[k].kind = "update"
      BY <1>1, <2>1, <2>2, <2>3, TailIsTyped DEF TailIsOwned
    <2>4. CASE tail[k].kind = "output"
      BY <1>1, <2>1, <2>2, <2>4, TailIsTyped DEF TailIsOwned
    <2>5. CASE tail[k].kind = "continue"
      BY <1>1, <2>1, <2>2, <2>5, TailIsTyped DEF TailIsOwned
    <2> QED BY <2>3, <2>4, <2>5
  <1>3. TailIsOwned'
    BY <1>1, <1>2 DEF TailIsOwned
  <1>4. OnceInTail'
    <2> SUFFICES ASSUME NEW i \in 1..Len(tail'), NEW j \in 1..Len(tail'), i # j
                 PROVE  tail'[i] # tail'[j] \/ tail'[i].kind = "app"
      BY DEF OnceInTail
    <2>1. i + 1 # j + 1 BY <1>1
    <2> QED BY <1>1, <2>1 DEF OnceInTail
  <1> QED BY <1>3, <1>4

\* One field of a call changes.
LEMMA PhaseFields ==
  ASSUME TypeOK, NEW c \in Calls, NEW x, call' = [call EXCEPT ![c].phase = x], NEW d \in Calls
  PROVE  /\ call'[d].lease = call[d].lease /\ call'[d].session = call[d].session
         /\ call'[d].tag = call[d].tag /\ call'[d].elapsed = call[d].elapsed
         /\ call'[d].phase = IF d = c THEN x ELSE call[d].phase
         /\ d # c => call'[d] = call[d]
  <1>1. call \in [Calls -> CallRecords] BY DEF TypeOK
  <1> QED BY <1>1 DEF CallRecords

\* A call ends,
LEMMA EndedFields ==
  ASSUME TypeOK, NEW c \in Calls, call' = [call EXCEPT ![c] = Ended], NEW d \in Calls
  PROVE  /\ d # c => call'[d] = call[d]
         /\ d = c => call'[d].phase = "over"
  <1>1. call \in [Calls -> CallRecords] BY DEF TypeOK
  <1> QED BY <1>1 DEF Ended

\* gets its turn,
LEMMA TurnFields ==
  ASSUME TypeOK, NEW c \in Calls, NEW d \in Calls,
         call' = [call EXCEPT ![c].phase = "turn", ![c].turn = turns + 1]
  PROVE  /\ call'[d].lease = call[d].lease /\ call'[d].session = call[d].session
         /\ call'[d].tag = call[d].tag
         /\ d # c => call'[d] = call[d]
         /\ d = c => call'[d].phase = "turn"
  <1>1. call \in [Calls -> CallRecords] BY DEF TypeOK
  <1> QED BY <1>1 DEF CallRecords

\* starts its timer,
LEMMA TimerFields ==
  ASSUME TypeOK, NEW c \in Calls, NEW d \in Calls,
         call' = [call EXCEPT ![c].phase = "woken", ![c].elapsed = @ + 1]
  PROVE  /\ call'[d].lease = call[d].lease /\ call'[d].session = call[d].session
         /\ call'[d].tag = call[d].tag
         /\ d # c => call'[d] = call[d]
         /\ d = c => call'[d].phase = "woken"
  <1>1. call \in [Calls -> CallRecords] BY DEF TypeOK
  <1> QED BY <1>1 DEF CallRecords

\* or is made.
LEMMA NewCallFields ==
  ASSUME TypeOK, NEW c \in Calls, NEW u \in Updates, FunctionCall(c, u), NEW d \in Calls
  PROVE  /\ d # c => call'[d] = call[d]
         /\ d = c => /\ call'[d].phase = "executing" /\ call'[d].tag = u
                     /\ call'[d].lease = acked /\ call'[d].session = session
                     /\ call[d].phase = "none"
  <1>1. call \in [Calls -> CallRecords] BY DEF TypeOK
  <1> QED BY <1>1 DEF CallRecords, FunctionCall

\* How the calls move: what a call belongs to never changes while it is under way.
LEMMA CallsMove ==
  ASSUME TypeOK, SendingIsHead, TailIsOwned, [Next]_vars, NEW c \in Calls
  PROVE  \/ call'[c] = call[c]
         \/ call'[c].phase = "over"
         \/ /\ call[c].phase \notin {"none", "over"} /\ call'[c].phase # "none"
            /\ call'[c].lease = call[c].lease /\ call'[c].session = call[c].session
            /\ call'[c].tag = call[c].tag
            /\ call'[c].phase = "waiting" =>
                 /\ Owns(c) /\ call'[c].elapsed < ContinuationRetries
                 /\ UNCHANGED <<transportVars, lease, leases, acked>>
         \/ \E u \in Updates : FunctionCall(c, u)
  <1> DEFINE Moves ==
         \/ call'[c] = call[c]
         \/ call'[c].phase = "over"
         \/ /\ call[c].phase \notin {"none", "over"} /\ call'[c].phase # "none"
            /\ call'[c].lease = call[c].lease /\ call'[c].session = call[c].session
            /\ call'[c].tag = call[c].tag
            /\ call'[c].phase = "waiting" =>
                 /\ Owns(c) /\ call'[c].elapsed < ContinuationRetries
                 /\ UNCHANGED <<transportVars, lease, leases, acked>>
         \/ \E u \in Updates : FunctionCall(c, u)
  <1>1. ASSUME UNCHANGED call PROVE Moves
    BY <1>1
  <1>2. ASSUME NEW STATE l, NEW STATE s, WakeCalls(l, s) PROVE Moves
    <2>1. CASE call[c].phase = "waiting" /\ Wakes(l, s, call[c])
      BY <1>2, <2>1, WokenCallFields
    <2>2. CASE ~(call[c].phase = "waiting" /\ Wakes(l, s, call[c]))
      BY <1>2, <2>2 DEF WakeCalls
    <2> QED BY <2>1, <2>2
  <1>3. ASSUME NEW d \in Calls, call' = [call EXCEPT ![d] = Ended] PROVE Moves
    BY <1>3, EndedFields
  <1>4. ASSUME NEW d \in Calls, NEW x \in Phases \ {"none", "waiting"}, call[d].phase \notin {"none", "over"},
               call' = [call EXCEPT ![d].phase = x]
        PROVE  Moves
    <2>1. CASE d = c BY <1>4, <2>1, PhaseFields
    <2>2. CASE d # c BY <1>4, <2>2, PhaseFields
    <2> QED BY <2>1, <2>2
  <1>5. ASSUME NEW d \in Calls, ToolDone(d) PROVE Moves
    BY <1>3, <1>4, <1>5 DEF ToolDone, Phases
  <1>6. ASSUME NEW d \in Calls, ResumeCall(d) PROVE Moves
    BY <1>3, <1>4, <1>6 DEF ResumeCall, Phases, IsTurn
  <1>7. ASSUME NEW d \in Calls, CallTimer(d) PROVE Moves
    <2>1. CASE d = c BY <1>7, <2>1, TimerFields DEF CallTimer
    <2>2. CASE d # c BY <1>7, <2>2, TimerFields DEF CallTimer
    <2> QED BY <2>1, <2>2
  <1>8. ASSUME NEW d \in Calls, NEW u \in Updates, FunctionCall(d, u) PROVE Moves
    <2>1. CASE d = c BY <1>8, <2>1
    <2>2. CASE d # c BY <1>8, <2>2, NewCallFields
    <2> QED BY <2>1, <2>2
  <1>9. CASE DropSend
    <2>1. CASE UNCHANGED call BY <1>1, <2>1
    <2>2. CASE Head(tail).kind \in {"output", "continue"} /\ call' = [call EXCEPT ![Head(tail).of] = Ended]
      <3>1. Head(tail).of \in Calls BY <1>9, <2>2, HeadIsTyped DEF DropSend, MustDrop
      <3> QED BY <1>3, <2>2, <3>1
    <2> QED BY <1>9, <2>1, <2>2 DEF DropSend
  <1>14. ASSUME NEW d \in Calls, call[d].phase = "output",
                call' = [call EXCEPT ![d].phase = "turn", ![d].turn = turns + 1]
         PROVE  Moves
    <2>3. /\ call'[c].lease = call[c].lease /\ call'[c].session = call[c].session
          /\ call'[c].tag = call[c].tag
      BY <1>14, TurnFields
    <2>4. d = c => call'[c].phase = "turn"
      BY <1>14, TurnFields
    <2>1. CASE d = c BY <1>14, <2>1, <2>3, <2>4
    <2>2. CASE d # c BY <1>14, <2>2, TurnFields
    <2> QED BY <2>1, <2>2
  <1>15. ASSUME NEW d \in Calls, call[d].phase = "continue", Owns(d),
                call[d].elapsed < ContinuationRetries,
                UNCHANGED <<transportVars, lease, leases, acked>>,
                call' = [call EXCEPT ![d].phase = "waiting"]
         PROVE  Moves
    <2>3. /\ call'[c].lease = call[c].lease /\ call'[c].session = call[c].session
          /\ call'[c].tag = call[c].tag /\ call'[c].elapsed = call[c].elapsed
      BY <1>15, PhaseFields
    <2>1. CASE d = c
      <3>1. Owns(c) /\ call[c].phase = "continue" /\ call'[c].elapsed < ContinuationRetries
        BY <1>15, <2>1, <2>3
      <3>2. call'[c].phase # "none"
        BY <1>15, <2>1, PhaseFields
      <3> QED BY <1>15, <2>3, <3>1, <3>2
    <2>2. CASE d # c BY <1>15, <2>2, PhaseFields
    <2> QED BY <2>1, <2>2
  <1>10. ASSUME NEW result \in {"queued", "overflow", "disconnected"}, SendSettles(result) PROVE Moves
    <2>0. tail # <<>> BY <1>10 DEF SendSettles, SendingIsHead
    <2>1. CASE UNCHANGED call BY <1>1, <2>1
    <2>2. CASE Head(tail).kind = "output" /\ OutputSent(Head(tail).of, result = "queued")
      <3>1. Head(tail).of \in Calls /\ call[Head(tail).of].phase = "output"
        BY <2>0, <2>2, HeadIsTyped DEF TailIsOwned
      <3>2. CASE call' = [call EXCEPT ![Head(tail).of] = Ended]
        BY <1>3, <3>1, <3>2
      <3>3. CASE call' = [call EXCEPT ![Head(tail).of].phase = "turn", ![Head(tail).of].turn = turns + 1]
        BY <1>14, <3>1, <3>3
      <3> QED BY <2>2, <3>2, <3>3 DEF OutputSent
    <2>3. CASE Head(tail).kind = "continue" /\ ContinuationSent(Head(tail).of, result)
      <3>1. Head(tail).of \in Calls /\ call[Head(tail).of].phase = "continue"
        BY <2>0, <2>3, HeadIsTyped DEF TailIsOwned
      <3>2. CASE call' = [call EXCEPT ![Head(tail).of] = Ended]
        BY <1>3, <3>1, <3>2
      <3>3. CASE /\ Owns(Head(tail).of) /\ call[Head(tail).of].elapsed < ContinuationRetries
                 /\ call' = [call EXCEPT ![Head(tail).of].phase = "waiting"]
        <4>0. UNCHANGED <<transportVars, lease, leases, acked>>
          BY <1>10, <2>3 DEF SendSettles, ContinuationSent
        <4> QED BY <1>15, <3>1, <3>3, <4>0
      <3> QED BY <2>3, <3>2, <3>3 DEF ContinuationSent
    <2> QED
      BY <1>10, <2>1, <2>2, <2>3 DEF SendSettles, UpdateSent, callVars
  <1>11. CASE Activate \/ Deactivate \/ TransportLost \/ SessionCreated \/ Close
    BY <1>2, <1>11 DEF Activate, Deactivate, TransportLost, SessionCreated, Close
  <1>12. CASE TransportReady \/ SendApplicationEvent \/ StartSend \/ UNCHANGED vars
    BY <1>1, <1>12 DEF TransportReady, SendApplicationEvent, StartSend, vars, callVars
  <1>13. ASSUME NEW u \in Updates, SessionUpdated(u) \/ UpdateTimer(u) \/ ResumeUpdate(u) PROVE Moves
    BY <1>1, <1>13 DEF SessionUpdated, UpdateTimer, ResumeUpdate, callVars
  <1> QED
    BY <1>5, <1>6, <1>7, <1>8, <1>9, <1>10, <1>11, <1>12, <1>13 DEF Next, Promises, Timers

\* How the updates move: what an update belongs to never changes.
LEMMA UpdatesMove ==
  ASSUME TypeOK, UpdatesAreFew, SendingIsHead, [Next]_vars, NEW u \in Updates
  PROVE  \/ /\ update'[u].lease = update[u].lease /\ update'[u].session = update[u].session
            /\ update[u].delivered => update'[u].delivered
            /\ update[u].acknowledged => update'[u].acknowledged
            /\ u <= updates' <=> u <= updates
         \/ /\ u = updates + 1 /\ updates' = updates + 1
            /\ created' /\ ~closed' /\ lease' # 0 /\ session' # 0
            /\ update'[u].lease = lease' /\ update'[u].session = session'
            /\ Activate \/ SessionCreated
  <1> DEFINE Moves ==
         \/ /\ update'[u].lease = update[u].lease /\ update'[u].session = update[u].session
            /\ update[u].delivered => update'[u].delivered
            /\ update[u].acknowledged => update'[u].acknowledged
            /\ u <= updates' <=> u <= updates
         \/ /\ u = updates + 1 /\ updates' = updates + 1
            /\ created' /\ ~closed' /\ lease' # 0 /\ session' # 0
            /\ update'[u].lease = lease' /\ update'[u].session = session'
            /\ Activate \/ SessionCreated
  <1>0. updates \in Nat /\ leases \in Nat /\ sessions \in Nat /\ MaxUpdates \in Nat
    BY Numbers, BoundsAreNatural
  <1>1. ASSUME UNCHANGED <<update, updates>> PROVE Moves
    BY <1>1
  <1>2. ASSUME NEW STATE l, NEW STATE s, UNCHANGED updates, update' = WokenUpdates(l, s) PROVE Moves
    BY <1>2, WokenFields
  <1>3. ASSUME NEW STATE l, NEW STATE s, UpdateSession(WokenUpdates(l, s)), leases + sessions < MaxUpdates,
               Activate \/ SessionCreated, ~closed'
        PROVE  Moves
    <2>1. updates < MaxUpdates
      BY <1>0, <1>3 DEF UpdatesAreFew
    <2>2. CASE /\ updates' = updates + 1 /\ created' /\ lease' # 0 /\ session' # 0
               /\ update'[updates + 1] = [lease |-> lease', session |-> session', sent |-> FALSE,
                        delivered |-> FALSE, acknowledged |-> FALSE, loop |-> "sending"]
               /\ \A v \in Updates : v # updates + 1 => update'[v] = WokenUpdates(l, s)[v]
      <3>1. CASE u = updates + 1 BY <1>3, <2>2, <3>1
      <3>2. CASE u # updates + 1
        <4>1. update'[u] = WokenUpdates(l, s)[u] BY <2>2, <3>2
        <4>2. u \in Nat BY <1>0 DEF Updates
        <4>3. u <= updates' <=> u <= updates BY <1>0, <2>2, <3>2, <4>2
        <4> QED BY <4>1, <4>3, WokenFields
      <3> QED BY <3>1, <3>2
    <2>3. CASE UNCHANGED updates /\ \A v \in Updates : update'[v] = WokenUpdates(l, s)[v]
      BY <2>3, WokenFields
    <2> QED BY <1>3, <2>1, <2>2, <2>3, UpdateSessionFields
  <1>4. ASSUME NEW v \in Updates, NEW x, update' = [update EXCEPT ![v].loop = x], UNCHANGED updates PROVE Moves
    BY <1>4, LoopFields
  <1>5. ASSUME NEW v \in Updates, UNCHANGED updates,
               update' = [update EXCEPT ![v].loop = "over", ![v].delivered = TRUE]
        PROVE  Moves
    <2>1. CASE u = v BY <1>5, <2>1, DeliveredFields
    <2>2. CASE u # v BY <1>5, <2>2, DeliveredFields
    <2> QED BY <2>1, <2>2
  <1>6. CASE StartSend
    <2>1. CASE UNCHANGED update BY <1>1, <1>6, <2>1 DEF StartSend
    <2>2. CASE Head(tail).kind = "update" /\ update' = [update EXCEPT ![Head(tail).of].sent = TRUE]
      BY <1>6, <2>2, SentFields, HeadIsTyped DEF StartSend
    <2> QED BY <1>6, <2>1, <2>2 DEF StartSend
  <1>7. CASE DropSend
    <2>1. CASE UNCHANGED update BY <1>1, <1>7, <2>1 DEF DropSend
    <2>2. CASE Head(tail).kind = "update" /\ update' = [update EXCEPT ![Head(tail).of].loop = "over"]
      BY <1>4, <1>7, <2>2, HeadIsTyped DEF DropSend, MustDrop
    <2> QED BY <1>7, <2>1, <2>2 DEF DropSend
  <1>8. ASSUME NEW v \in Updates, UpdateTimer(v) \/ ResumeUpdate(v) PROVE Moves
    BY <1>4, <1>8 DEF UpdateTimer, ResumeUpdate
  <1>9. ASSUME NEW v \in Updates, SessionUpdated(v) PROVE Moves
    BY <1>9, SentFields DEF SessionUpdated
  <1>10. ASSUME NEW v \in Updates, NEW b \in BOOLEAN, UpdateSent(v, b), UNCHANGED updates PROVE Moves
    BY <1>4, <1>5, <1>10 DEF UpdateSent
  <1>11. ASSUME NEW result \in {"queued", "overflow", "disconnected"}, SendSettles(result) PROVE Moves
    <2>1. tail # <<>>
      BY <1>11 DEF SendSettles, SendingIsHead
    <2>2. CASE UNCHANGED <<update, updates>>
      BY <1>1, <2>2
    <2>3. CASE Head(tail).kind = "update" /\ UpdateSent(Head(tail).of, result = "queued") /\ UNCHANGED updates
      <3>1. Head(tail).of \in Updates BY <2>1, <2>3, HeadIsTyped
      <3>2. (result = "queued") \in BOOLEAN OBVIOUS
      <3> QED BY <1>10, <2>3, <3>1, <3>2
    <2> QED
      BY <1>11, <2>2, <2>3 DEF SendSettles, OutputSent, ContinuationSent, updateVars
  <1>12. CASE Activate
    BY <1>3, <1>12 DEF Activate, transportVars
  <1>13. CASE SessionCreated
    BY <1>3, <1>13 DEF SessionCreated
  <1>14. CASE Deactivate \/ TransportLost \/ Close
    BY <1>2, <1>14 DEF Deactivate, TransportLost, Close
  <1>15. CASE TransportReady \/ SendApplicationEvent \/ UNCHANGED vars
    BY <1>1, <1>15 DEF TransportReady, SendApplicationEvent, vars, updateVars
  <1>16. ASSUME NEW c \in Calls, ToolDone(c) \/ CallTimer(c) \/ ResumeCall(c) PROVE Moves
    BY <1>1, <1>16 DEF ToolDone, CallTimer, ResumeCall, updateVars
  <1>17. ASSUME NEW c \in Calls, NEW v \in Updates, FunctionCall(c, v) PROVE Moves
    BY <1>1, <1>17 DEF FunctionCall, updateVars
  <1> QED
    BY <1>6, <1>7, <1>8, <1>9, <1>11, <1>12, <1>13, <1>14, <1>15, <1>16, <1>17
    DEF Next, Promises, Timers

\* How the leases and the connection move.
LEMMA LeasesMove ==
  ASSUME TypeOK, [Next]_vars
  PROVE  \/ UNCHANGED <<lease, session, transport, created, closed>>
         \/ lease' = leases + 1 /\ acked' = 0 /\ UNCHANGED <<session, transport, created, closed>>
         \/ lease' = 0 /\ acked' = 0 /\ UNCHANGED <<session, transport, created, closed>>
         \/ session' = sessions + 1 /\ acked' = 0 /\ ~closed /\ ~closed' /\ UNCHANGED lease
         \/ session' = 0 /\ acked' = 0
  <1>1. CASE Activate BY <1>1 DEF Activate, transportVars
  <1>2. CASE Deactivate BY <1>2 DEF Deactivate, transportVars
  <1>3. CASE TransportReady BY <1>3 DEF TransportReady
  <1>4. CASE SessionCreated BY <1>4 DEF SessionCreated
  <1>5. CASE TransportLost \/ Close BY <1>5 DEF TransportLost, Close
  <1>6. CASE StartSend \/ DropSend \/ SendApplicationEvent \/ UNCHANGED vars
    BY <1>6 DEF StartSend, DropSend, SendApplicationEvent, vars, transportVars, providerVars
  <1>7. ASSUME NEW u \in Updates, ResumeUpdate(u) \/ UpdateTimer(u) \/ SessionUpdated(u)
        PROVE  UNCHANGED <<lease, session, transport, created, closed>>
    BY <1>7 DEF ResumeUpdate, UpdateTimer, SessionUpdated, transportVars, providerVars
  <1>8. ASSUME NEW c \in Calls, ResumeCall(c) \/ CallTimer(c) \/ ToolDone(c)
        PROVE  UNCHANGED <<lease, session, transport, created, closed>>
    BY <1>8 DEF ResumeCall, CallTimer, ToolDone, transportVars, providerVars
  <1>9. ASSUME NEW c \in Calls, NEW u \in Updates, FunctionCall(c, u)
        PROVE  UNCHANGED <<lease, session, transport, created, closed>>
    BY <1>9 DEF FunctionCall, transportVars, providerVars
  <1>10. ASSUME NEW result \in {"queued", "overflow", "disconnected"}, SendSettles(result)
         PROVE  UNCHANGED <<lease, session, transport, created, closed>>
    BY <1>10 DEF SendSettles, transportVars
  <1> QED
    BY <1>1, <1>2, <1>3, <1>4, <1>5, <1>6, <1>7, <1>8, <1>9, <1>10 DEF Next, Promises, Timers

\* An update of the session that is up was made in it.
LEMMA LeasedStep ==
  ASSUME TypeOK, UpdatesAreFew, RetriesAreLeft, SendingIsHead, UpdatesAreLeased, [Next]_vars
  PROVE  UpdatesAreLeased'
  <1>0. /\ updates \in Nat /\ sessions \in Nat /\ session \in 0..sessions /\ MaxUpdates \in Nat
        /\ updates' \in 0..MaxUpdates
    BY Numbers, BoundsAreNatural, TypeStep DEF TypeOK
  <1>1. ASSUME NEW u \in 1..updates'
        PROVE  /\ update'[u].lease # 0 /\ update'[u].session # 0
               /\ update'[u].session = session' => created' /\ ~closed'
    <2>1. u \in Updates
      BY <1>0, <1>1 DEF Updates
    <2>2. CASE /\ update'[u].lease = update[u].lease /\ update'[u].session = update[u].session
               /\ u <= updates
      <3>1. /\ update[u].lease # 0 /\ update[u].session # 0
            /\ update[u].session = session => created /\ ~closed
        <4>1. u \in 1..updates BY <1>0, <2>2
        <4> QED BY <4>1 DEF UpdatesAreLeased
      <3>2. update[u].session \in 0..sessions
        BY <2>1 DEF TypeOK, UpdateRecords
      <3>3. CASE UNCHANGED <<session, created, closed>>
        BY <2>2, <3>1, <3>3
      <3>4. CASE session' = sessions + 1
        <4>1. update'[u].session # session' BY <1>0, <2>2, <3>2, <3>4
        <4> QED BY <2>2, <3>1, <4>1
      <3>5. CASE session' = 0
        BY <2>2, <3>1, <3>5
      <3> QED BY <3>3, <3>4, <3>5, LeasesMove
    <2>3. CASE /\ created' /\ ~closed' /\ lease' # 0 /\ session' # 0
               /\ update'[u].lease = lease' /\ update'[u].session = session'
      BY <2>3
    <2>4. u <= updates' BY <1>0
    <2> QED BY <2>1, <2>2, <2>3, <2>4, UpdatesMove
  <1> QED BY <1>1 DEF UpdatesAreLeased

\* A continuation waits while it has a retry left.
LEMMA RetriesStep ==
  ASSUME TypeOK, SendingIsHead, TailIsOwned, RetriesAreLeft, [Next]_vars
  PROVE  RetriesAreLeft'
  <1>1. ASSUME NEW c \in Calls, call'[c].phase = "waiting"
        PROVE  call'[c].elapsed < ContinuationRetries
    <2>1. CASE call'[c] = call[c]
      BY <1>1, <2>1 DEF RetriesAreLeft
    <2>2. CASE \E u \in Updates : FunctionCall(c, u)
      BY <1>1, <2>2, NewCallFields
    <2> QED BY <1>1, <2>1, <2>2, CallsMove
  <1> QED BY <1>1 DEF RetriesAreLeft

\* cancelRetryLease leaves nothing waiting: all that waits belongs to the leases.
LEMMA WakingWakes ==
  ASSUME TypeOK, WaitsAreOwned, NEW STATE l, NEW STATE s, l = lease \/ s = session, WakeCalls(l, s)
  PROVE  /\ \A c \in Calls : call'[c].phase # "waiting"
         /\ \A u \in Updates : WokenUpdates(l, s)[u].loop # "waiting"
  <1>1. ASSUME NEW c \in Calls PROVE call'[c].phase # "waiting"
    <2>1. call[c].phase = "waiting" => Wakes(l, s, call[c])
      BY DEF WaitsAreOwned, Owns, Wakes
    <2> QED BY <2>1, WokenCallFields
  <1>2. ASSUME NEW u \in Updates PROVE WokenUpdates(l, s)[u].loop # "waiting"
    <2>1. update[u].loop = "waiting" => Wakes(l, s, update[u])
      BY DEF WaitsAreOwned, OwnsUpdate, Wakes
    <2> QED BY <2>1, WokenFields
  <1> QED BY <1>1, <1>2

\* While the leases last, so does what waits.
LEMMA WaitsKept ==
  ASSUME TypeOK, SendingIsHead, TailIsOwned, WaitsAreOwned, [Next]_vars,
         UNCHANGED <<lease, session, transport, closed>>, acked' \in {acked, lease},
         \A u \in Updates : update'[u].loop = "waiting" =>
           /\ OwnsUpdate(u) /\ current'[lease] = u
           /\ update'[u].lease = update[u].lease /\ update'[u].session = update[u].session
  PROVE  WaitsAreOwned'
  <1>1. ASSUME NEW u \in Updates, update'[u].loop = "waiting" PROVE OwnsUpdate(u)'
    BY <1>1 DEF OwnsUpdate
  <1>2. ASSUME NEW c \in Calls, call'[c].phase = "waiting" PROVE Owns(c)'
    <2>1. CASE call'[c] = call[c]
      <3>1. Owns(c) BY <1>2, <2>1 DEF WaitsAreOwned
      <3> QED BY <2>1, <3>1 DEF Owns
    <2>2. CASE \E u \in Updates : FunctionCall(c, u)
      BY <1>2, <2>2, NewCallFields
    <2>3. CASE Owns(c) /\ call'[c].lease = call[c].lease /\ call'[c].session = call[c].session
      BY <2>3 DEF Owns
    <2> QED BY <1>2, <2>1, <2>2, <2>3, CallsMove
  <1> QED BY <1>1, <1>2 DEF WaitsAreOwned

\* What waits belongs to the leases, after every step.
LEMMA WaitsStep ==
  ASSUME TypeOK, UpdatesAreFew, SendingIsHead, TailIsOwned, WaitsAreOwned, [Next]_vars
  PROVE  WaitsAreOwned'
  <1>1. ASSUME NEW STATE l, NEW STATE s, l = lease \/ s = session, WakeCalls(l, s),
               \A u \in Updates : update'[u].loop = "waiting" => update'[u] = WokenUpdates(l, s)[u]
        PROVE  WaitsAreOwned'
    BY <1>1, WakingWakes DEF WaitsAreOwned
  <1>2. ASSUME NEW STATE l, NEW STATE s, UpdateSession(WokenUpdates(l, s)), leases + sessions < MaxUpdates
        PROVE  \A u \in Updates : update'[u].loop = "waiting" => update'[u] = WokenUpdates(l, s)[u]
    <2>1. updates < MaxUpdates
      <3>1. updates \in Nat /\ leases \in Nat /\ sessions \in Nat /\ MaxUpdates \in Nat
        BY Numbers, BoundsAreNatural
      <3> QED BY <1>2, <3>1 DEF UpdatesAreFew
    <2> QED BY <1>2, <2>1, UpdateSessionFields
  <1>3. CASE Activate
    <2>1. /\ UpdateSession(WokenUpdates(lease, 0)) /\ leases + sessions < MaxUpdates
          /\ WakeCalls(lease, 0)
      BY <1>3 DEF Activate
    <2> QED BY <1>1, <1>2, <2>1
  <1>4. CASE SessionCreated
    <2>1. /\ UpdateSession(WokenUpdates(0, session)) /\ leases + sessions < MaxUpdates
          /\ WakeCalls(0, session)
      BY <1>4 DEF SessionCreated
    <2> QED BY <1>1, <1>2, <2>1
  <1>5. CASE Deactivate
    BY <1>1, <1>5 DEF Deactivate
  <1>6. CASE TransportLost
    BY <1>1, <1>6 DEF TransportLost
  <1>7. CASE Close
    BY <1>1, <1>7 DEF Close
  <1>8. CASE TransportReady
    BY <1>8 DEF TransportReady, WaitsAreOwned, OwnsUpdate, Owns, updateVars, callVars
  \* In every other step the leases last.
  <1>9. ASSUME UNCHANGED <<lease, session, transport, closed, update, current>>, acked' \in {acked, lease}
        PROVE  WaitsAreOwned'
    BY <1>9, WaitsKept DEF WaitsAreOwned, OwnsUpdate
  <1>10. ASSUME NEW u \in Updates, NEW x, update' = [update EXCEPT ![u].loop = x],
                UNCHANGED <<lease, session, transport, closed, current>>, acked' \in {acked, lease},
                x = "waiting" => OwnsUpdate(u)
         PROVE  WaitsAreOwned'
    <2>1. ASSUME NEW v \in Updates, update'[v].loop = "waiting"
          PROVE  /\ OwnsUpdate(v) /\ current'[lease] = v
                 /\ update'[v].lease = update[v].lease /\ update'[v].session = update[v].session
      <3>1. OwnsUpdate(v) BY <1>10, <2>1, LoopFields DEF WaitsAreOwned
      <3> QED BY <1>10, <3>1, LoopFields DEF OwnsUpdate
    <2> QED BY <1>10, <2>1, WaitsKept
  <1>11. CASE StartSend
    <2>1. CASE UNCHANGED update
      BY <1>9, <1>11, <2>1 DEF StartSend, transportVars, providerVars
    <2>2. CASE Head(tail).kind = "update" /\ update' = [update EXCEPT ![Head(tail).of].sent = TRUE]
      <3>1. ASSUME NEW v \in Updates
            PROVE  /\ update'[v].loop = update[v].loop
                   /\ update'[v].lease = update[v].lease /\ update'[v].session = update[v].session
        BY <1>11, <2>2, SentFields, HeadIsTyped DEF StartSend
      <3> QED
        BY <1>11, <3>1, WaitsKept DEF StartSend, transportVars, providerVars, WaitsAreOwned, OwnsUpdate
    <2> QED BY <1>11, <2>1, <2>2 DEF StartSend
  <1>12. CASE DropSend
    <2>1. CASE UNCHANGED update
      BY <1>9, <1>12, <2>1 DEF DropSend, transportVars, providerVars
    <2>2. CASE Head(tail).kind = "update" /\ update' = [update EXCEPT ![Head(tail).of].loop = "over"]
      <3>1. /\ Head(tail).of \in Updates
            /\ UNCHANGED <<lease, session, transport, closed, current>> /\ acked' = acked
        BY <1>12, <2>2, HeadIsTyped DEF DropSend, MustDrop, transportVars, providerVars
      <3>2. PICK u \in Updates : u = Head(tail).of
        BY <3>1
      <3>3. \E x \in {"over"} : update' = [update EXCEPT ![u].loop = x]
        BY <2>2, <3>2
      <3> QED BY <1>10, <3>1, <3>3
    <2> QED BY <1>12, <2>1, <2>2 DEF DropSend
  <1>13. ASSUME NEW u \in Updates, UpdateTimer(u) \/ ResumeUpdate(u) PROVE WaitsAreOwned'
    <2>1. UNCHANGED <<lease, session, transport, closed, current>> /\ acked' = acked
      BY <1>13 DEF UpdateTimer, ResumeUpdate, transportVars, providerVars
    <2>2. \E x \in {"woken", "sending", "over"} : update' = [update EXCEPT ![u].loop = x]
      BY <1>13 DEF UpdateTimer, ResumeUpdate
    <2> QED BY <1>10, <2>1, <2>2
  <1>14. ASSUME NEW u \in Updates, SessionUpdated(u) PROVE WaitsAreOwned'
    <2>1. ASSUME NEW v \in Updates
          PROVE  /\ update'[v].loop = update[v].loop
                 /\ update'[v].lease = update[v].lease /\ update'[v].session = update[v].session
      BY <1>14, SentFields DEF SessionUpdated
    <2> QED
      BY <1>14, <2>1, WaitsKept DEF SessionUpdated, transportVars, WaitsAreOwned, OwnsUpdate
  <1>15. ASSUME NEW u \in Updates, NEW b \in BOOLEAN, update[u].loop = "sending", UpdateSent(u, b),
                UNCHANGED <<lease, session, transport, closed>>
         PROVE  WaitsAreOwned'
    <2>1. CASE ~OwnsUpdate(u)
      BY <1>10, <1>15, <2>1 DEF UpdateSent
    <2>2. CASE OwnsUpdate(u) /\ b
      <3>1. /\ update' = [update EXCEPT ![u].loop = "over", ![u].delivered = TRUE]
            /\ acked' \in {acked, lease} /\ UNCHANGED current
        BY <1>15, <2>2 DEF UpdateSent
      <3>2. ASSUME NEW v \in Updates, update'[v].loop = "waiting"
            PROVE  /\ OwnsUpdate(v) /\ current'[lease] = v
                   /\ update'[v].lease = update[v].lease /\ update'[v].session = update[v].session
        <4>1. v # u BY <3>1, <3>2, DeliveredFields
        <4>2. update'[v] = update[v] BY <3>1, <4>1, DeliveredFields
        <4> QED BY <3>1, <3>2, <4>2 DEF WaitsAreOwned, OwnsUpdate
      <3> QED BY <1>15, <3>1, <3>2, WaitsKept
    <2>3. CASE OwnsUpdate(u) /\ ~b /\ update' = [update EXCEPT ![u].loop = "waiting"] /\ UNCHANGED <<acked, current>>
      BY <1>10, <1>15, <2>3
    <2>4. CASE /\ OwnsUpdate(u) /\ ~b /\ update' = [update EXCEPT ![u].loop = "over"]
               /\ current' = [current EXCEPT ![lease] = 0] /\ UNCHANGED acked
      <3>1. ASSUME NEW v \in Updates PROVE update'[v].loop # "waiting"
        <4>0. update'[v].loop = IF v = u THEN "over" ELSE update[v].loop
          BY <2>4 DEF TypeOK, UpdateRecords
        <4>1. CASE v = u BY <4>0, <4>1
        <4>2. CASE v # u
          <5>1. ~OwnsUpdate(v) BY <2>4, <4>2 DEF OwnsUpdate
          <5>2. update[v].loop # "waiting" BY <5>1 DEF WaitsAreOwned
          <5> QED BY <4>0, <4>2, <5>2
        <4> QED BY <4>1, <4>2
      <3> QED BY <1>15, <2>4, <3>1, WaitsKept
    <2> QED BY <1>15, <2>1, <2>2, <2>3, <2>4 DEF UpdateSent
  <1>16. ASSUME NEW result \in {"queued", "overflow", "disconnected"}, SendSettles(result)
         PROVE  WaitsAreOwned'
    <2>1. tail # <<>> /\ UNCHANGED <<lease, session, transport, closed>>
      BY <1>16 DEF SendSettles, SendingIsHead, transportVars
    <2>2. CASE UNCHANGED <<update, current, acked>>
      BY <1>9, <2>1, <2>2
    <2>3. CASE Head(tail).kind = "update" /\ UpdateSent(Head(tail).of, result = "queued")
      <3>1. Head(tail).of \in Updates /\ update[Head(tail).of].loop = "sending"
        BY <2>1, <2>3, HeadIsTyped DEF TailIsOwned
      <3>2. (result = "queued") \in BOOLEAN OBVIOUS
      <3> QED BY <1>15, <2>1, <2>3, <3>1, <3>2
    <2> QED
      BY <1>16, <2>2, <2>3 DEF SendSettles, OutputSent, ContinuationSent, updateVars
  <1>17. CASE SendApplicationEvent \/ UNCHANGED vars
    BY <1>9, <1>17 DEF SendApplicationEvent, vars, transportVars, providerVars, updateVars
  <1>18. ASSUME NEW c \in Calls, ToolDone(c) \/ CallTimer(c) \/ ResumeCall(c) PROVE WaitsAreOwned'
    BY <1>9, <1>18 DEF ToolDone, CallTimer, ResumeCall, transportVars, providerVars, updateVars
  <1>19. ASSUME NEW c \in Calls, NEW u \in Updates, FunctionCall(c, u) PROVE WaitsAreOwned'
    BY <1>9, <1>19 DEF FunctionCall, transportVars, providerVars, updateVars
  <1> QED
    BY <1>3, <1>4, <1>5, <1>6, <1>7, <1>8, <1>11, <1>12, <1>13, <1>14, <1>16, <1>17, <1>18, <1>19
    DEF Next, Promises, Timers

\* What is under way stays the head of the tail.
LEMMA HeadStep ==
  ASSUME TypeOK, SendingIsHead, [Next]_vars
  PROVE  SendingIsHead'
  <1>0. tail \in Seq(TailRecords) BY DEF TypeOK
  <1>1. ASSUME NEW e, tail' = Append(tail, e) PROVE SendingIsHead'
    BY <1>0, <1>1 DEF SendingIsHead
  <1>2. ASSUME UNCHANGED <<tail, sending>> PROVE SendingIsHead'
    BY <1>2 DEF SendingIsHead
  <1>3. ASSUME NEW w, UpdateSession(w), UNCHANGED sending PROVE SendingIsHead'
    BY <1>1, <1>2, <1>3 DEF UpdateSession
  <1>4. CASE Activate
    BY <1>3, <1>4 DEF Activate
  <1>5. CASE SessionCreated
    BY <1>3, <1>5 DEF SessionCreated
  <1>6. CASE Deactivate \/ TransportLost \/ Close \/ TransportReady \/ UNCHANGED vars
    BY <1>2, <1>6 DEF Deactivate, TransportLost, Close, TransportReady, vars, sendVars
  <1>7. CASE StartSend
    BY <1>7 DEF StartSend, SendingIsHead
  <1>8. CASE DropSend
    BY <1>8 DEF DropSend, MustDrop, SendingIsHead
  <1>9. CASE SendApplicationEvent
    BY <1>1, <1>9 DEF SendApplicationEvent
  <1>10. ASSUME NEW u \in Updates, UpdateTimer(u) \/ ResumeUpdate(u) \/ SessionUpdated(u) PROVE SendingIsHead'
    BY <1>1, <1>2, <1>10 DEF UpdateTimer, ResumeUpdate, SessionUpdated, sendVars
  <1>11. ASSUME NEW c \in Calls, ToolDone(c) \/ CallTimer(c) \/ ResumeCall(c) PROVE SendingIsHead'
    BY <1>1, <1>2, <1>11 DEF ToolDone, CallTimer, ResumeCall, sendVars
  <1>12. ASSUME NEW c \in Calls, NEW u \in Updates, FunctionCall(c, u) PROVE SendingIsHead'
    BY <1>2, <1>12 DEF FunctionCall, sendVars
  <1>13. ASSUME NEW result \in {"queued", "overflow", "disconnected"}, SendSettles(result) PROVE SendingIsHead'
    BY <1>13 DEF SendSettles, SendingIsHead
  <1> QED
    BY <1>4, <1>5, <1>6, <1>7, <1>8, <1>9, <1>10, <1>11, <1>12, <1>13 DEF Next, Promises, Timers

\* The tail has exactly the sends the loops wait for.
LEMMA TailStep ==
  ASSUME TypeOK, UpdatesAreFew, SendingIsHead, TailIsOwned, OnceInTail, DeliveredIsOver, [Next]_vars
  PROVE  TailIsOwned' /\ OnceInTail'
  <1>0. updates \in Nat /\ leases \in Nat /\ sessions \in Nat /\ MaxUpdates \in Nat
    BY Numbers, BoundsAreNatural
  \* What waking does.
  <1>1. ASSUME NEW STATE l, NEW STATE s
        PROVE  \A u \in Updates : update[u].loop = "sending" => WokenUpdates(l, s)[u].loop = "sending"
    BY WokenFields
  <1>2. ASSUME NEW STATE l, NEW STATE s, WakeCalls(l, s)
        PROVE  \A c \in Calls : call[c].phase \in {"output", "continue"} => call'[c].phase = call[c].phase
    BY <1>2, WokenCallFields
  <1>3. ASSUME NEW STATE l, NEW STATE s, WakeCalls(l, s), UNCHANGED tail, update' = WokenUpdates(l, s)
        PROVE  TailIsOwned' /\ OnceInTail'
    BY <1>1, <1>2, <1>3, TailKept
  <1>4. ASSUME NEW STATE l, NEW STATE s, UpdateSession(WokenUpdates(l, s)), WakeCalls(l, s),
               leases + sessions < MaxUpdates
        PROVE  TailIsOwned' /\ OnceInTail'
    <2>1. updates < MaxUpdates
      BY <1>0, <1>4 DEF UpdatesAreFew
    <2>2. updates + 1 \in Updates /\ update[updates + 1].loop = "none"
      BY <1>0, <2>1 DEF DeliveredIsOver, Updates
    <2>3. CASE UNCHANGED <<updates, current, tail>> /\ \A u \in Updates : update'[u] = WokenUpdates(l, s)[u]
      BY <1>1, <1>2, <1>4, <2>3, TailKept
    <2>4. CASE /\ update'[updates + 1].loop = "sending"
               /\ \A u \in Updates : u # updates + 1 => update'[u] = WokenUpdates(l, s)[u]
               /\ tail' = Append(tail, [kind |-> "update", of |-> updates + 1])
      <3>1. \A u \in Updates : update[u].loop = "sending" => update'[u].loop = "sending"
        BY <1>1, <2>2, <2>4
      <3> QED BY <1>2, <1>4, <2>2, <2>4, <3>1, TailGrown
    <2> QED BY <1>4, <2>1, <2>3, <2>4, UpdateSessionFields
  <1>5. CASE Activate
    BY <1>4, <1>5 DEF Activate
  <1>6. CASE SessionCreated
    BY <1>4, <1>6 DEF SessionCreated
  <1>7. CASE Deactivate
    BY <1>3, <1>7 DEF Deactivate, sendVars
  <1>8. CASE TransportLost
    BY <1>3, <1>8 DEF TransportLost, sendVars
  <1>9. CASE Close
    BY <1>3, <1>9 DEF Close, sendVars
  <1>10. ASSUME UNCHANGED <<tail, update, call>> PROVE TailIsOwned' /\ OnceInTail'
    BY <1>10, TailKept
  <1>11. CASE TransportReady \/ UNCHANGED vars
    BY <1>10, <1>11 DEF TransportReady, vars, sendVars, updateVars, callVars
  <1>12. CASE StartSend
    <2>1. UNCHANGED <<tail, call>>
      BY <1>12 DEF StartSend, callVars
    <2>2. CASE UNCHANGED update BY <1>10, <2>1, <2>2
    <2>3. CASE Head(tail).kind = "update" /\ update' = [update EXCEPT ![Head(tail).of].sent = TRUE]
      <3>1. \A u \in Updates : update'[u].loop = update[u].loop
        BY <1>12, <2>3, SentFields, HeadIsTyped DEF StartSend
      <3> QED BY <2>1, <3>1, TailKept
    <2> QED BY <1>12, <2>2, <2>3 DEF StartSend
  <1>13. ASSUME NEW u \in Updates, SessionUpdated(u) PROVE TailIsOwned' /\ OnceInTail'
    <2>1. UNCHANGED <<tail, call>> /\ \A v \in Updates : update'[v].loop = update[v].loop
      BY <1>13, SentFields DEF SessionUpdated, sendVars, callVars
    <2> QED BY <2>1, TailKept
  <1>14. ASSUME NEW c \in Calls, NEW u \in Updates, FunctionCall(c, u) PROVE TailIsOwned' /\ OnceInTail'
    <2>1. UNCHANGED <<tail, update>>
      BY <1>14 DEF FunctionCall, sendVars, updateVars
    <2>2. \A d \in Calls : call[d].phase \in {"output", "continue"} => call'[d].phase = call[d].phase
      BY <1>14, NewCallFields
    <2> QED BY <2>1, <2>2, TailKept
  <1>15. ASSUME NEW c \in Calls, call' = [call EXCEPT ![c] = Ended], call[c].phase \notin {"output", "continue"}
         PROVE  \A d \in Calls : call[d].phase \in {"output", "continue"} => call'[d].phase = call[d].phase
    BY <1>15, EndedFields
  <1>16. ASSUME NEW c \in Calls, NEW x, call' = [call EXCEPT ![c].phase = x],
                call[c].phase \notin {"output", "continue"}
         PROVE  /\ \A d \in Calls : call[d].phase \in {"output", "continue"} => call'[d].phase = call[d].phase
                /\ call'[c].phase = x
    BY <1>16 DEF TypeOK, CallRecords
  <1>17. ASSUME NEW c \in Calls, NEW x \in {"output", "continue"}, call' = [call EXCEPT ![c].phase = x],
                call[c].phase \notin {"output", "continue"}, UNCHANGED update,
                tail' = Append(tail, [kind |-> x, of |-> c])
         PROVE  TailIsOwned' /\ OnceInTail'
    <2>1. /\ \A d \in Calls : call[d].phase \in {"output", "continue"} => call'[d].phase = call[d].phase
          /\ call'[c].phase = x
      BY <1>16, <1>17
    <2> QED BY <1>17, <2>1, TailGrown
  <1>18. ASSUME NEW c \in Calls, ToolDone(c) PROVE TailIsOwned' /\ OnceInTail'
    <2>1. UNCHANGED update /\ call[c].phase = "executing"
      BY <1>18 DEF ToolDone, updateVars
    <2>2. CASE call' = [call EXCEPT ![c] = Ended] /\ UNCHANGED tail
      BY <1>15, <2>1, <2>2, TailKept
    <2>3. CASE /\ call' = [call EXCEPT ![c].phase = "output"]
               /\ tail' = Append(tail, [kind |-> "output", of |-> c])
      BY <1>17, <2>1, <2>3
    <2> QED BY <1>18, <2>2, <2>3 DEF ToolDone
  <1>19. ASSUME NEW c \in Calls, ResumeCall(c) PROVE TailIsOwned' /\ OnceInTail'
    <2>1. UNCHANGED update /\ call[c].phase \in {"woken", "turn"}
      BY <1>19 DEF ResumeCall, updateVars, IsTurn
    <2>2. CASE call' = [call EXCEPT ![c] = Ended] /\ UNCHANGED tail
      BY <1>15, <2>1, <2>2, TailKept
    <2>3. CASE /\ call' = [call EXCEPT ![c].phase = "continue"]
               /\ tail' = Append(tail, [kind |-> "continue", of |-> c])
      BY <1>17, <2>1, <2>3
    <2> QED BY <1>19, <2>2, <2>3 DEF ResumeCall
  <1>20. ASSUME NEW c \in Calls, CallTimer(c) PROVE TailIsOwned' /\ OnceInTail'
    <2>1. UNCHANGED <<tail, update>> /\ call[c].phase = "waiting"
      BY <1>20 DEF CallTimer, updateVars, sendVars
    <2>2. \A d \in Calls : call[d].phase \in {"output", "continue"} => call'[d].phase = call[d].phase
      BY <1>20, <2>1, TimerFields DEF CallTimer
    <2> QED BY <2>1, <2>2, TailKept
  <1>21. CASE SendApplicationEvent
    <2>1. UNCHANGED <<update, call>> /\ tail' = Append(tail, [kind |-> "app", of |-> 0])
      BY <1>21 DEF SendApplicationEvent, updateVars, callVars
    <2> QED BY <2>1, TailGrown
  <1>22. ASSUME NEW u \in Updates, NEW x, update' = [update EXCEPT ![u].loop = x]
         PROVE  \A v \in Updates : update'[v].loop = IF v = u THEN x ELSE update[v].loop
    BY <1>22 DEF TypeOK, UpdateRecords
  <1>23. ASSUME NEW u \in Updates, UpdateTimer(u) PROVE TailIsOwned' /\ OnceInTail'
    <2>1. UNCHANGED <<tail, call>> /\ update[u].loop = "waiting" /\ update' = [update EXCEPT ![u].loop = "woken"]
      BY <1>23 DEF UpdateTimer, sendVars, callVars
    <2>2. \A v \in Updates : update[v].loop = "sending" => update'[v].loop = "sending"
      BY <1>22, <2>1
    <2> QED BY <2>1, <2>2, TailKept
  <1>24. ASSUME NEW u \in Updates, ResumeUpdate(u) PROVE TailIsOwned' /\ OnceInTail'
    <2>1. UNCHANGED call /\ update[u].loop = "woken"
      BY <1>24 DEF ResumeUpdate, callVars
    <2>2. CASE update' = [update EXCEPT ![u].loop = "over"] /\ UNCHANGED tail
      <3>1. \A v \in Updates : update[v].loop = "sending" => update'[v].loop = "sending"
        BY <1>22, <2>1, <2>2
      <3> QED BY <2>1, <2>2, <3>1, TailKept
    <2>3. CASE /\ update' = [update EXCEPT ![u].loop = "sending"]
               /\ tail' = Append(tail, [kind |-> "update", of |-> u])
      <3>1. /\ \A v \in Updates : update[v].loop = "sending" => update'[v].loop = "sending"
            /\ update'[u].loop = "sending"
        BY <2>1, <2>3 DEF TypeOK, UpdateRecords
      <3> QED BY <2>1, <2>3, <3>1, TailGrown
    <2> QED BY <1>24, <2>2, <2>3 DEF ResumeUpdate
  \* The head goes, with its loop or without.
  <1>25. ASSUME tail # <<>>, tail' = Tail(tail), UNCHANGED call, Head(tail).kind = "update",
                \A v \in Updates : v # Head(tail).of => update'[v] = update[v]
         PROVE  TailIsOwned' /\ OnceInTail'
    <2>1. \A u \in Updates : update[u].loop = "sending" /\ ~(Head(tail).kind = "update" /\ Head(tail).of = u)
                              => update'[u].loop = "sending"
      BY <1>25
    <2>2. \A c \in Calls :
            (call[c].phase \in {"output", "continue"}
               /\ ~(Head(tail).kind \in {"output", "continue"} /\ Head(tail).of = c))
                 => call'[c].phase = call[c].phase
      BY <1>25
    <2> QED BY <1>25, <2>1, <2>2, TailPopped
  <1>26. ASSUME tail # <<>>, tail' = Tail(tail), UNCHANGED update, Head(tail).kind \in {"output", "continue"},
                \A d \in Calls : d # Head(tail).of => call'[d] = call[d]
         PROVE  TailIsOwned' /\ OnceInTail'
    <2>1. \A u \in Updates : update[u].loop = "sending" /\ ~(Head(tail).kind = "update" /\ Head(tail).of = u)
                              => update'[u].loop = "sending"
      BY <1>26
    <2>2. \A c \in Calls :
            (call[c].phase \in {"output", "continue"}
               /\ ~(Head(tail).kind \in {"output", "continue"} /\ Head(tail).of = c))
                 => call'[c].phase = call[c].phase
      BY <1>26
    <2> QED BY <1>26, <2>1, <2>2, TailPopped
  <1>27. CASE DropSend
    <2>1. tail # <<>> /\ tail' = Tail(tail)
      BY <1>27 DEF DropSend, MustDrop
    <2>2. CASE Head(tail).kind = "update" /\ update' = [update EXCEPT ![Head(tail).of].loop = "over"] /\ UNCHANGED call
      <3>1. \A v \in Updates : v # Head(tail).of => update'[v] = update[v]
        BY <2>2 DEF TypeOK
      <3> QED BY <1>25, <2>1, <2>2, <3>1
    <2>3. CASE Head(tail).kind \in {"output", "continue"} /\ call' = [call EXCEPT ![Head(tail).of] = Ended] /\ UNCHANGED update
      <3>1. \A d \in Calls : d # Head(tail).of => call'[d] = call[d]
        BY <2>3 DEF TypeOK
      <3> QED BY <1>26, <2>1, <2>3, <3>1
    <2> QED BY <1>27, <2>2, <2>3 DEF DropSend
  <1>28. ASSUME NEW result \in {"queued", "overflow", "disconnected"}, SendSettles(result)
         PROVE  TailIsOwned' /\ OnceInTail'
    <2>1. tail # <<>> /\ tail' = Tail(tail)
      BY <1>28 DEF SendSettles, SendingIsHead
    <2>2. CASE Head(tail).kind = "update" /\ UpdateSent(Head(tail).of, result = "queued")
      <3>1. UNCHANGED call BY <2>2 DEF UpdateSent, callVars
      <3>2. \A v \in Updates : v # Head(tail).of => update'[v] = update[v]
        BY <2>2 DEF TypeOK, UpdateSent
      <3> QED BY <1>25, <2>1, <2>2, <3>1, <3>2
    <2>3. CASE Head(tail).kind = "output" /\ OutputSent(Head(tail).of, result = "queued")
      <3>1. \A d \in Calls : d # Head(tail).of => call'[d] = call[d]
        BY <2>3 DEF TypeOK, OutputSent
      <3> QED BY <1>26, <2>1, <2>3, <3>1 DEF OutputSent
    <2>4. CASE Head(tail).kind = "continue" /\ ContinuationSent(Head(tail).of, result)
      <3>1. \A d \in Calls : d # Head(tail).of => call'[d] = call[d]
        BY <2>4 DEF TypeOK, ContinuationSent
      <3> QED BY <1>26, <2>1, <2>4, <3>1 DEF ContinuationSent
    <2>5. CASE Head(tail).kind = "app" /\ UNCHANGED <<update, call>>
      <3>1. \A u \in Updates : update[u].loop = "sending" /\ ~(Head(tail).kind = "update" /\ Head(tail).of = u)
                              => update'[u].loop = "sending"
        BY <2>5
      <3>2. \A c \in Calls :
              (call[c].phase \in {"output", "continue"}
                 /\ ~(Head(tail).kind \in {"output", "continue"} /\ Head(tail).of = c))
                   => call'[c].phase = call[c].phase
        BY <2>5
      <3> QED BY <2>1, <3>1, <3>2, TailPopped
    <2> QED
      BY <1>28, <2>2, <2>3, <2>4, <2>5 DEF SendSettles, updateVars, callVars
  <1> QED
    BY <1>5, <1>6, <1>7, <1>8, <1>9, <1>11, <1>12, <1>13, <1>14, <1>18, <1>19, <1>20, <1>21, <1>23,
       <1>24, <1>27, <1>28 DEF Next, Promises, Timers

\* When what is acknowledged, or current, changes.
LEMMA AckedMoves ==
  ASSUME TypeOK, SendingIsHead, [Next]_vars
  PROVE  \/ acked' \in {acked, 0} /\ UNCHANGED current
         \/ acked' = 0 /\ (lease' = leases + 1 \/ session' = sessions + 1)
         \/ \E u \in Updates : SessionUpdated(u)
         \/ /\ tail # <<>> /\ Head(tail).kind = "update"
            /\ \E b \in BOOLEAN : UpdateSent(Head(tail).of, b)
            /\ UNCHANGED <<lease, session, transport, created, closed>>
  <1>1. CASE Activate BY <1>1 DEF Activate
  <1>2. CASE SessionCreated BY <1>2 DEF SessionCreated
  <1>3. CASE Deactivate \/ TransportLost \/ Close \/ TransportReady
    BY <1>3 DEF Deactivate, TransportLost, Close, TransportReady, updateVars
  <1>4. CASE StartSend \/ DropSend \/ SendApplicationEvent \/ UNCHANGED vars
    BY <1>4 DEF StartSend, DropSend, SendApplicationEvent, vars, providerVars, updateVars
  <1>5. ASSUME NEW u \in Updates, ResumeUpdate(u) \/ UpdateTimer(u)
        PROVE  UNCHANGED <<acked, current>>
    BY <1>5 DEF ResumeUpdate, UpdateTimer, providerVars
  <1>6. ASSUME NEW c \in Calls, ResumeCall(c) \/ CallTimer(c) \/ ToolDone(c)
        PROVE  UNCHANGED <<acked, current>>
    BY <1>6 DEF ResumeCall, CallTimer, ToolDone, providerVars, updateVars
  <1>7. ASSUME NEW c \in Calls, NEW u \in Updates, FunctionCall(c, u)
        PROVE  UNCHANGED <<acked, current>>
    BY <1>7 DEF FunctionCall, providerVars, updateVars
  <1>8. ASSUME NEW result \in {"queued", "overflow", "disconnected"}, SendSettles(result)
        PROVE  \/ UNCHANGED <<acked, current>>
               \/ /\ tail # <<>> /\ Head(tail).kind = "update"
                  /\ \E b \in BOOLEAN : UpdateSent(Head(tail).of, b)
                  /\ UNCHANGED <<lease, session, transport, created, closed>>
    <2>1. tail # <<>> /\ UNCHANGED <<lease, session, transport, created, closed>>
      BY <1>8 DEF SendSettles, SendingIsHead, transportVars
    <2>2. (result = "queued") \in BOOLEAN OBVIOUS
    <2> QED BY <1>8, <2>1, <2>2 DEF SendSettles, OutputSent, ContinuationSent, updateVars
  <1> QED
    BY <1>1, <1>2, <1>3, <1>4, <1>5, <1>6, <1>7, <1>8 DEF Next, Promises, Timers

\* The update that is sent was not delivered before, and belongs to the session.
LEMMA SentIsFresh ==
  ASSUME TypeOK, TailIsOwned, DeliveredIsOver, UpdatesAreLeased, tail # <<>>, Head(tail).kind = "update"
  PROVE  /\ Head(tail).of \in Updates /\ Head(tail).of \in 1..updates
         /\ ~update[Head(tail).of].delivered
         /\ OwnsUpdate(Head(tail).of) => session # 0 /\ created /\ ~closed
  <1>1. Head(tail).of \in Updates /\ Head(tail).of \in 1..updates
    BY HeadIsTyped
  <1>2. update[Head(tail).of].loop = "sending"
    BY HeadIsTyped DEF TailIsOwned
  <1>3. ~update[Head(tail).of].delivered
    BY <1>1, <1>2 DEF DeliveredIsOver
  <1>4. OwnsUpdate(Head(tail).of) => session # 0 /\ created /\ ~closed
    BY <1>1 DEF OwnsUpdate, UpdatesAreLeased
  <1> QED BY <1>1, <1>3, <1>4

\* The acknowledged lease is served after every step.
LEMMA AckedStep ==
  ASSUME TypeOK, UpdatesAreFew, SendingIsHead, TailIsOwned, DeliveredIsOver, UpdatesAreLeased,
         AckedIsServed, [Next]_vars
  PROVE  AckedIsServed'
  <1>0. updates \in Nat /\ MaxUpdates \in Nat /\ updates <= MaxUpdates
    BY Numbers, BoundsAreNatural
  <1>1. CASE acked' = 0 BY <1>1 DEF AckedIsServed
  <1>2. ASSUME acked' = acked, acked # 0, UNCHANGED <<current, lease, session, transport, created, closed>>
        PROVE  AckedIsServed'
    <2>1. acked \in Updates
      BY <1>0, <1>2, Numbers DEF Updates, TypeOK
    <2>2. current[acked] \in Updates /\ current[acked] <= updates
      <3>1. current[acked] \in 0..updates BY <2>1 DEF TypeOK
      <3>2. current[acked] # 0 BY <1>2 DEF AckedIsServed
      <3> QED BY <1>0, <3>1, <3>2 DEF Updates
    <2>3. /\ update'[current[acked]].session = update[current[acked]].session
          /\ update[current[acked]].delivered => update'[current[acked]].delivered
          /\ update[current[acked]].acknowledged => update'[current[acked]].acknowledged
      BY <1>0, <2>2, UpdatesMove
    <2> QED BY <1>2, <2>3 DEF AckedIsServed
  <1>3. ASSUME NEW u \in Updates, acked' = lease, lease # 0, current'[lease] = u, transport = "ready",
               session # 0, created, ~closed, UNCHANGED <<lease, session, transport, created, closed>>,
               update'[u].delivered, update'[u].acknowledged, update'[u].session = session
        PROVE  AckedIsServed'
    <2>1. u # 0 BY <1>0 DEF Updates
    <2> QED BY <1>3, <2>1 DEF AckedIsServed
  <1>4. ASSUME NEW u \in Updates, SessionUpdated(u) PROVE AckedIsServed'
    <2>1. /\ lease # 0 /\ current[lease] = u /\ update[u].session = session /\ transport = "ready"
          /\ acked' = IF update[u].delivered THEN lease ELSE acked
          /\ update' = [update EXCEPT ![u].acknowledged = TRUE]
          /\ UNCHANGED <<current, lease, session, transport, created, closed>>
      BY <1>4 DEF SessionUpdated, Acknowledges, transportVars
    <2>2. u \in 1..updates
      <3>1. lease \in Updates BY <1>0, <2>1, Numbers DEF Updates
      <3>2. current[lease] \in 0..updates BY <3>1 DEF TypeOK
      <3> QED BY <1>0, <2>1, <3>2 DEF Updates
    <2>3. session # 0 /\ created /\ ~closed
      BY <2>1, <2>2 DEF UpdatesAreLeased
    <2>4. /\ update'[u].acknowledged /\ update'[u].session = session
          /\ update'[u].delivered = update[u].delivered
      BY <2>1 DEF TypeOK, UpdateRecords
    <2>5. CASE update[u].delivered
      BY <1>3, <2>1, <2>3, <2>4, <2>5
    <2>6. CASE ~update[u].delivered
      BY <1>1, <1>2, <2>1, <2>6
    <2> QED BY <2>5, <2>6
  <1>5. ASSUME tail # <<>>, Head(tail).kind = "update", NEW b \in BOOLEAN, UpdateSent(Head(tail).of, b),
               UNCHANGED <<lease, session, transport, created, closed>>
        PROVE  AckedIsServed'
    <2>1. PICK u \in Updates : u = Head(tail).of
      BY <1>5, SentIsFresh
    <2>2. /\ ~update[u].delivered /\ UpdateSent(u, b)
          /\ OwnsUpdate(u) => session # 0 /\ created /\ ~closed
      BY <1>5, <2>1, SentIsFresh
    <2>3. CASE UNCHANGED <<acked, current>>
      BY <1>1, <1>2, <1>5, <2>3
    <2>4. CASE /\ OwnsUpdate(u) /\ update[u].acknowledged /\ acked' = lease /\ UNCHANGED current
               /\ update' = [update EXCEPT ![u].loop = "over", ![u].delivered = TRUE]
      <3>1. update'[u].delivered /\ update'[u].acknowledged /\ update'[u].session = update[u].session
        BY <2>4 DEF TypeOK, UpdateRecords
      <3> QED BY <1>3, <1>5, <2>2, <2>4, <3>1 DEF OwnsUpdate
    <2>5. CASE OwnsUpdate(u) /\ UNCHANGED acked
      <3>1. acked = 0
        BY <2>2, <2>5 DEF OwnsUpdate, AckedIsServed
      <3> QED BY <1>1, <2>5, <3>1
    <2> QED BY <2>2, <2>3, <2>4, <2>5 DEF UpdateSent
  <1>6. CASE acked' = acked /\ acked # 0 /\ UNCHANGED current
    BY <1>1, <1>2, <1>6, LeasesMove
  <1> QED BY <1>1, <1>4, <1>5, <1>6, AckedMoves

\* The count of updates stays a number.
LEMMA UpdatesCount ==
  ASSUME TypeOK, UpdatesAreFew, RetriesAreLeft, SendingIsHead, [Next]_vars
  PROVE  updates' \in Nat
  BY TypeStep, BoundsAreNatural DEF TypeOK

\* What a call was tagged with stays delivered and acknowledged.
LEMMA TagsStep ==
  ASSUME TypeOK, UpdatesAreFew, RetriesAreLeft, SendingIsHead, TailIsOwned, DeliveredIsOver,
         UpdatesAreLeased, AckedIsServed, TagsHold, [Next]_vars
  PROVE  TagsHold'
  <1>0. /\ updates \in Nat /\ MaxUpdates \in Nat /\ updates <= MaxUpdates
        /\ leases \in Nat /\ sessions \in Nat
    BY Numbers, BoundsAreNatural
  \* A call that was under way before.
  <1>1. ASSUME NEW c \in Calls, call[c].phase \notin {"none", "over"},
               call'[c].lease = call[c].lease, call'[c].session = call[c].session, call'[c].tag = call[c].tag
        PROVE  /\ call'[c].tag \in 1..updates' /\ call'[c].lease # 0 /\ call'[c].session # 0
               /\ update'[call'[c].tag].delivered /\ update'[call'[c].tag].acknowledged
               /\ update'[call'[c].tag].session = call'[c].session
               /\ (lease' = call'[c].lease /\ session' = call'[c].session) => current'[lease'] = call'[c].tag
    <2>1. /\ call[c].tag \in 1..updates /\ call[c].lease # 0 /\ call[c].session # 0
          /\ update[call[c].tag].delivered /\ update[call[c].tag].acknowledged
          /\ update[call[c].tag].session = call[c].session
          /\ (lease = call[c].lease /\ session = call[c].session) => current[lease] = call[c].tag
      BY <1>1 DEF TagsHold
    <2>2. call[c].tag \in Updates /\ call[c].tag <= updates /\ call[c].tag >= 1 /\ call[c].tag \in Nat
      BY <1>0, <2>1 DEF Updates
    <2>3. /\ call[c].tag <= updates'
          /\ update'[call[c].tag].session = update[call[c].tag].session
          /\ update[call[c].tag].delivered => update'[call[c].tag].delivered
          /\ update[call[c].tag].acknowledged => update'[call[c].tag].acknowledged
      BY <1>0, <2>2, UpdatesMove
    <2>4. updates' \in Nat
      BY UpdatesCount
    <2>5. call[c].tag \in 1..updates'
      BY <2>2, <2>3, <2>4
    <2>6. call[c].lease \in 0..leases /\ call[c].session \in 0..sessions
      BY DEF TypeOK, CallRecords
    <2>7. ASSUME lease' = call[c].lease, session' = call[c].session
          PROVE  current'[lease'] = call[c].tag
      <3>1. lease' # leases + 1 /\ lease' # 0 /\ session' # sessions + 1 /\ session' # 0
        BY <1>0, <2>1, <2>6, <2>7
      <3>2. UNCHANGED <<lease, session, transport, created, closed>>
        BY <3>1, LeasesMove
      <3>3. current[lease] = call[c].tag
        BY <2>1, <2>7, <3>2
      <3>4. CASE UNCHANGED current
        BY <3>2, <3>3, <3>4
      <3>5. ASSUME NEW b \in BOOLEAN, tail # <<>>, Head(tail).kind = "update", UpdateSent(Head(tail).of, b)
            PROVE  UNCHANGED current
        <4>1. ~update[Head(tail).of].delivered
          BY <3>5, SentIsFresh
        <4>2. ~OwnsUpdate(Head(tail).of)
          BY <2>1, <3>3, <4>1 DEF OwnsUpdate
        <4> QED BY <3>5, <4>2 DEF UpdateSent
      <3>6. ASSUME NEW u \in Updates, SessionUpdated(u) PROVE UNCHANGED current
        BY <3>6 DEF SessionUpdated
      <3> QED BY <3>1, <3>4, <3>5, <3>6, AckedMoves
    <2> QED BY <1>1, <2>1, <2>3, <2>5, <2>7
  \* A call that begins.
  <1>2. ASSUME NEW c \in Calls, NEW u \in Updates, FunctionCall(c, u)
        PROVE  /\ call'[c].tag \in 1..updates' /\ call'[c].lease # 0 /\ call'[c].session # 0
               /\ update'[call'[c].tag].delivered /\ update'[call'[c].tag].acknowledged
               /\ update'[call'[c].tag].session = call'[c].session
               /\ (lease' = call'[c].lease /\ session' = call'[c].session) => current'[lease'] = call'[c].tag
    <2>1. /\ acked # 0 /\ current[acked] = u /\ session # 0
          /\ UNCHANGED <<updates, update, current, lease>>
      BY <1>2 DEF FunctionCall, TagIsCurrent, updateVars, providerVars
    <2>2. call'[c].tag = u /\ call'[c].lease = acked /\ call'[c].session = session
      BY <1>2, NewCallFields
    <2>3. acked = lease /\ update[u].delivered /\ update[u].acknowledged /\ update[u].session = session
      BY <2>1 DEF AckedIsServed
    <2>4. u \in 1..updates
      <3>1. acked \in Updates BY <1>0, <2>1, Numbers DEF Updates
      <3>2. current[acked] \in 0..updates BY <3>1 DEF TypeOK
      <3> QED BY <1>0, <2>1, <3>2 DEF Updates
    <2> QED BY <2>1, <2>2, <2>3, <2>4
  <1>3. ASSUME NEW c \in Calls, call'[c].phase \notin {"none", "over"}
        PROVE  /\ call'[c].tag \in 1..updates' /\ call'[c].lease # 0 /\ call'[c].session # 0
               /\ update'[call'[c].tag].delivered /\ update'[call'[c].tag].acknowledged
               /\ update'[call'[c].tag].session = call'[c].session
               /\ (lease' = call'[c].lease /\ session' = call'[c].session) => current'[lease'] = call'[c].tag
    <2>1. CASE call'[c] = call[c]
      <3>1. /\ call[c].phase \notin {"none", "over"} /\ call'[c].lease = call[c].lease
            /\ call'[c].session = call[c].session /\ call'[c].tag = call[c].tag
        BY <1>3, <2>1
      <3> QED BY <1>1, <3>1
    <2>2. CASE /\ call[c].phase \notin {"none", "over"} /\ call'[c].lease = call[c].lease
               /\ call'[c].session = call[c].session /\ call'[c].tag = call[c].tag
      BY <1>1, <2>2
    <2>3. CASE \E u \in Updates : FunctionCall(c, u)
      BY <1>2, <2>3
    <2> QED BY <1>3, <2>1, <2>2, <2>3, CallsMove
  <1> QED BY <1>3 DEF TagsHold
-----------------------------------------------------------------------------
(***************************************************************************)
(* The theorems.                                                           *)
(***************************************************************************)
\* Everything starts from nothing.
LEMMA Initially == Init => IInv
  <1> SUFFICES ASSUME Init PROVE IInv OBVIOUS
  <1>1. TypeOK /\ UpdatesAreFew BY InitTypes
  <1>2. SendingIsHead /\ TailIsOwned /\ OnceInTail
    BY DEF Init, SendingIsHead, TailIsOwned, OnceInTail
  <1>3. \A u \in Updates : update[u].loop = "none" /\ ~update[u].delivered
    BY DEF Init
  <1>4. \A c \in Calls : call[c].phase = "none"
    BY DEF Init, Ended
  <1>5. RetriesAreLeft /\ WaitsAreOwned /\ DeliveredIsOver /\ TagsHold
    BY <1>3, <1>4 DEF RetriesAreLeft, WaitsAreOwned, DeliveredIsOver, TagsHold
  <1>6. UpdatesAreLeased /\ AckedIsServed
    BY DEF Init, UpdatesAreLeased, AckedIsServed
  <1> QED BY <1>1, <1>2, <1>5, <1>6 DEF IInv

\* The invariant is inductive.
LEMMA Inductive == IInv /\ [Next]_vars => IInv'
  <1> SUFFICES ASSUME IInv, [Next]_vars PROVE IInv' OBVIOUS
  <1>0. /\ TypeOK /\ UpdatesAreFew /\ SendingIsHead /\ RetriesAreLeft /\ TailIsOwned /\ OnceInTail
        /\ WaitsAreOwned /\ DeliveredIsOver /\ UpdatesAreLeased /\ AckedIsServed /\ TagsHold
    BY DEF IInv
  <1>1. TypeOK' /\ UpdatesAreFew' BY <1>0, TypeStep
  <1>2. SendingIsHead' BY <1>0, HeadStep
  <1>3. TailIsOwned' /\ OnceInTail' BY <1>0, TailStep
  <1>4. RetriesAreLeft' BY <1>0, RetriesStep
  <1>5. WaitsAreOwned' BY <1>0, WaitsStep
  <1>6. DeliveredIsOver' BY <1>0, DeliveredStep
  <1>7. UpdatesAreLeased' BY <1>0, LeasedStep
  <1>8. AckedIsServed' BY <1>0, AckedStep
  <1>9. TagsHold' BY <1>0, TagsStep
  <1> QED BY <1>1, <1>2, <1>3, <1>4, <1>5, <1>6, <1>7, <1>8, <1>9 DEF IInv

\* It holds in every state.
LEMMA Invariance == Spec => []IInv
  BY Initially, Inductive, PTL DEF Spec

\* Every variable of the session stays of its type: no retry is counted past its
\* last, and no lease, update or send refers to one that was not made.
THEOREM TypeCorrect == Spec => []TypeOK
  <1>1. IInv => TypeOK BY DEF IInv
  <1> QED BY <1>1, Invariance, PTL

\* Tools may be called only of the active provider, whose current update was
\* delivered to, and acknowledged by, the session that is up.
THEOREM AckedServed == Spec => []AckedIsServed
  <1>1. IInv => AckedIsServed BY DEF IInv
  <1> QED BY <1>1, Invariance, PTL

\* A wait for a retry ends with the lease it belongs to, and the send tail holds
\* only sends whose loop waits for them.
THEOREM RetriesOwned == Spec => []RetriesAreOwned
  <1>1. IInv => RetriesAreOwned BY DEF IInv, RetriesAreOwned, WaitsAreOwned, TailIsOwned
  <1> QED BY <1>1, Invariance, PTL

\* Only StartSend hands a send to the transport.
LEMMA OnlyStartSends ==
  ASSUME [Next]_vars, sending', ~sending
  PROVE  StartSend
  <1>1. ~(Activate \/ SessionCreated \/ Deactivate \/ TransportLost \/ Close \/ TransportReady
          \/ UNCHANGED vars \/ DropSend \/ SendApplicationEvent)
    BY DEF Activate, SessionCreated, Deactivate, TransportLost, Close, TransportReady, vars, DropSend,
           SendApplicationEvent, sendVars
  <1>2. \A u \in Updates : ~(UpdateTimer(u) \/ ResumeUpdate(u) \/ SessionUpdated(u))
    BY DEF UpdateTimer, ResumeUpdate, SessionUpdated, sendVars
  <1>3. \A c \in Calls : ~(ToolDone(c) \/ CallTimer(c) \/ ResumeCall(c))
    BY DEF ToolDone, CallTimer, ResumeCall, sendVars
  <1>4. \A c \in Calls, u \in Updates : ~FunctionCall(c, u)
    BY DEF FunctionCall, sendVars
  <1>5. \A result \in {"queued", "overflow", "disconnected"} : ~SendSettles(result)
    BY DEF SendSettles
  <1> QED BY <1>1, <1>2, <1>3, <1>4, <1>5 DEF Next, Promises, Timers

\* What answers a function call goes out only while the host still has, and has
\* acknowledged, the very catalog the call was tagged with.
THEOREM AnswersMatch == Spec => AnswersMatchTheirCatalog
  <1>1. ASSUME IInv, [Next]_vars, NEW c \in Calls, sending', ~sending,
               Head(tail).kind \in {"output", "continue"}, Head(tail).of = c
        PROVE  /\ lease # 0 /\ current[lease] = call[c].tag
               /\ update[call[c].tag].acknowledged /\ update[call[c].tag].session = session
    <2>1. StartSend BY <1>1, OnlyStartSends
    <2>2. tail # <<>> /\ Owns(c)
      BY <1>1, <2>1 DEF StartSend, MayStart
    <2>3. call[c].phase \in {"output", "continue"}
      <3>1. Head(tail) = tail[1] /\ 1 \in 1..Len(tail)
        BY <1>1, <2>2, HeadIsTyped DEF IInv
      <3> QED BY <1>1, <3>1 DEF IInv, TailIsOwned
    <2>4. /\ call[c].lease # 0 /\ update[call[c].tag].acknowledged
          /\ update[call[c].tag].session = call[c].session
          /\ (lease = call[c].lease /\ session = call[c].session) => current[lease] = call[c].tag
      BY <1>1, <2>3 DEF IInv, TagsHold
    <2> QED BY <2>2, <2>4 DEF Owns
  <1>2. IInv /\ [Next]_vars =>
          [\A c \in Calls :
             (sending' /\ ~sending /\ Head(tail).kind \in {"output", "continue"} /\ Head(tail).of = c)
               => /\ lease # 0 /\ current[lease] = call[c].tag
                  /\ update[call[c].tag].acknowledged /\ update[call[c].tag].session = session]_vars
    BY <1>1
  <1> QED BY <1>2, Invariance, PTL DEF Spec, AnswersMatchTheirCatalog
=============================================================================
