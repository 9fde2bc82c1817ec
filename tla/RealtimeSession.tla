-------------------------- MODULE RealtimeSession --------------------------
(***************************************************************************)
(* The device's end of a Realtime conversation                             *)
(* (firmware/host/app/remote-session/realtime-session.ts): it announces    *)
(* the tools of the active provider to the host's session, runs the        *)
(* host's function calls with them and sends their outputs back.           *)
(*                                                                         *)
(* A provider lease is an activation, a session lease one session of the   *)
(* host on one connection; both are numbered and never used again.  Every  *)
(* physical send waits its turn in the send tail.  The host knows the ids  *)
(* of the updates that were handed to the transport, and may acknowledge   *)
(* them or call functions with them in any order, at any time.             *)
(*                                                                         *)
(* An event of the outside world waits until the promise jobs of the last  *)
(* one have run (Settled); StartSend and the Resume actions are those jobs.*)
(***************************************************************************)
EXTENDS Integers, Sequences

CONSTANTS
  Calls,                \* ids of function calls
  MaxUpdates,           \* bound: provider and session leases, so that of updates too
  MaxApps,              \* bound: application events sent
  MaxFailures,          \* bound: sends not accepted by a ready transport
  ContinuationRetries   \* retries of response.create (5 in the code)

ASSUME ConstantsAssumption ==
  /\ {MaxUpdates, MaxApps, MaxFailures} \subseteq Nat
  /\ ContinuationRetries \in Nat

Updates    == 1..MaxUpdates
Loops      == {"none", "sending", "waiting", "woken", "over"}
Phases     == {"none", "executing", "output", "turn", "continue", "waiting", "woken", "over"}
Continuing == {"turn", "continue", "waiting", "woken"}

\* A function call that is over.
Ended == [phase |-> "over", lease |-> 0, session |-> 0, tag |-> 0, turn |-> 0, elapsed |-> 0]

VARIABLES
  transport,      \* transportState; "unsupported" acts as "disconnected"
  session,        \* transportSessionLease, or 0
  sessions,       \* session leases made so far
  created,        \* androidSessionCreated
  closed,
  lease,          \* providerLease, or 0
  leases,         \* provider leases made so far
  acked,          \* acknowledgedProviderLease, or 0
  updates,        \* session.update events made so far
  update,         \* each of them, with the loop that sends it
  current,        \* sessionUpdate of each provider lease, or 0
  tail,           \* sendTail: the sends that wait, the first perhaps under way
  sending,        \* the first of the tail was handed to the transport
  call,           \* each function call: its progress and the leases it belongs to
  turns,          \* continuations begun so far
  apps, failures

transportVars == <<transport, session, sessions, created, closed>>
providerVars  == <<lease, leases, acked>>
updateVars    == <<updates, update, current>>
sendVars      == <<tail, sending>>
callVars      == <<call, turns>>
vars == <<transportVars, providerVars, updateVars, sendVars, callVars, apps, failures>>

Init ==
  /\ transport = "disconnected" /\ session = 0 /\ sessions = 0
  /\ created = FALSE /\ closed = FALSE
  /\ lease = 0 /\ leases = 0 /\ acked = 0
  /\ updates = 0 /\ current = [l \in Updates |-> 0]
  /\ update = [u \in Updates |-> [lease |-> 0, session |-> 0, sent |-> FALSE,
                                  delivered |-> FALSE, acknowledged |-> FALSE,
                                  loop |-> "none"]]
  /\ tail = <<>> /\ sending = FALSE
  /\ call = [c \in Calls |-> [Ended EXCEPT !.phase = "none"]]
  /\ turns = 0 /\ apps = 0 /\ failures = 0
-----------------------------------------------------------------------------
(***************************************************************************)
(* Who owns what.                                                          *)
(***************************************************************************)
OwnsUpdate(u) ==
  /\ lease = update[u].lease /\ lease # 0 /\ current[lease] = u
  /\ session = update[u].session /\ transport = "ready"

\* ownsFunctionResult
Owns(c) ==
  /\ ~closed /\ transport = "ready"
  /\ lease = call[c].lease /\ acked = call[c].lease /\ session = call[c].session

TurnNeverPasses(c) ==   \* mutant: a continuation that ends does not let the next one run
  /\ call[c].phase = "turn"
  /\ \A d \in Calls \ {c} :
       call[d].phase # "over" /\ (call[d].turn > 0 => call[d].turn > call[c].turn)

\* The continuations of one provider lease run one after the other.
IsTurn(c) ==
  /\ call[c].phase = "turn"
  /\ \A d \in Calls \ {c} :
       (call[d].phase \in Continuing /\ call[d].lease = call[c].lease)
         => call[d].turn > call[c].turn

\* No promise job is left to run.
Settled ==
  /\ tail = <<>> \/ sending
  /\ \A u \in Updates : update[u].loop # "woken"
  /\ \A c \in Calls : call[c].phase # "woken" /\ ~IsTurn(c)

\* cancelRetryLease of a provider lease l or a session lease s
Wakes(l, s, holder) == holder.lease = l \/ holder.session = s

WokenUpdates(l, s) ==
  [u \in Updates |-> IF update[u].loop = "waiting" /\ Wakes(l, s, update[u])
                     THEN [update[u] EXCEPT !.loop = "woken"] ELSE update[u]]

WakeCalls(l, s) ==
  call' = [c \in Calls |-> IF call[c].phase = "waiting" /\ Wakes(l, s, call[c])
                           THEN [call[c] EXCEPT !.phase = "woken"] ELSE call[c]]

\* updateSession(), after the retries of what it replaces were cancelled
UpdateSession(woken) ==
  IF created' /\ lease' # 0 /\ session' # 0
  THEN /\ updates' = updates + 1
       /\ update' = [woken EXCEPT ![updates + 1] =
                       [lease |-> lease', session |-> session', sent |-> FALSE,
                        delivered |-> FALSE, acknowledged |-> FALSE, loop |-> "sending"]]
       /\ current' = [current EXCEPT ![lease'] = updates + 1]
       /\ tail' = Append(tail, [kind |-> "update", of |-> updates + 1])
  ELSE update' = woken /\ UNCHANGED <<updates, current, tail>>
-----------------------------------------------------------------------------
(***************************************************************************)
(* The provider and the transport.                                         *)
(***************************************************************************)
\* setProvider(next): an activation
Activate ==
  /\ Settled /\ ~closed /\ leases + sessions < MaxUpdates
  /\ leases' = leases + 1 /\ lease' = leases + 1 /\ acked' = 0
  /\ WakeCalls(lease, 0)
  /\ UNCHANGED <<transportVars, sending, turns, apps, failures>>
  /\ UpdateSession(WokenUpdates(lease, 0))

\* setProvider(undefined): its end
Deactivate ==
  /\ Settled /\ ~closed /\ lease # 0
  /\ lease' = 0 /\ acked' = 0
  /\ WakeCalls(lease, 0) /\ update' = WokenUpdates(lease, 0)
  /\ UNCHANGED <<transportVars, leases, updates, current, sendVars, turns, apps, failures>>

\* The transport's state handler.
TransportReady ==
  /\ Settled /\ ~closed /\ transport # "ready" /\ leases + sessions < MaxUpdates
  /\ transport' = "ready"
  /\ sessions' = sessions + 1 /\ session' = sessions + 1 /\ acked' = 0
  /\ UNCHANGED <<created, closed, lease, leases, updateVars, sendVars, callVars, apps, failures>>

TransportLost ==
  /\ Settled /\ ~closed /\ transport = "ready"
  /\ transport' = "disconnected" /\ session' = 0 /\ acked' = 0 /\ created' = FALSE
  /\ WakeCalls(0, session) /\ update' = WokenUpdates(0, session)
  /\ UNCHANGED <<sessions, closed, lease, leases, updates, current, sendVars, turns, apps, failures>>

\* session.created
SessionCreated ==
  /\ Settled /\ ~closed /\ transport = "ready" /\ leases + sessions < MaxUpdates
  /\ sessions' = sessions + 1 /\ session' = sessions + 1 /\ acked' = 0 /\ created' = TRUE
  /\ WakeCalls(0, session)
  /\ UNCHANGED <<transport, closed, lease, leases, sending, turns, apps, failures>>
  /\ UpdateSession(WokenUpdates(0, session))

AcknowledgedLate(u) ==   \* mutant: an acknowledgement of an earlier session counts
  lease # 0 /\ current[lease] = u /\ transport = "ready"

Acknowledges(u) ==
  /\ lease # 0 /\ current[lease] = u
  /\ update[u].session = session /\ transport = "ready"

\* session.updated
SessionUpdated(u) ==
  /\ Settled /\ ~closed /\ update[u].sent /\ Acknowledges(u)
  /\ update' = [update EXCEPT ![u].acknowledged = TRUE]
  /\ acked' = IF update[u].delivered THEN lease ELSE acked
  /\ UNCHANGED <<transportVars, lease, leases, updates, current, sendVars, callVars, apps, failures>>

Close ==
  /\ Settled /\ ~closed
  /\ closed' = TRUE /\ created' = FALSE
  /\ lease' = 0 /\ acked' = 0 /\ session' = 0
  /\ WakeCalls(lease, session) /\ update' = WokenUpdates(lease, session)
  /\ UNCHANGED <<transport, sessions, leases, updates, current, sendVars, turns, apps, failures>>
-----------------------------------------------------------------------------
(***************************************************************************)
(* Function calls.                                                         *)
(***************************************************************************)
AnyTag(u) ==   \* mutant: the generation of a call is not compared
  acked # 0

TagIsCurrent(u) == acked # 0 /\ current[acked] = u

\* executeFunction up to the tool: a call tagged with update u
FunctionCall(c, u) ==
  /\ Settled /\ ~closed /\ call[c].phase = "none" /\ update[u].sent
  /\ TagIsCurrent(u) /\ session # 0 /\ transport = "ready"
  /\ call' = [call EXCEPT ![c].phase = "executing", ![c].lease = acked,
                          ![c].session = session, ![c].tag = u]
  /\ UNCHANGED <<transportVars, providerVars, updateVars, sendVars, turns, apps, failures>>

\* The tool returns, or throws: either way there is an output.
ToolDone(c) ==
  /\ Settled /\ call[c].phase = "executing"
  /\ IF Owns(c)
     THEN /\ call' = [call EXCEPT ![c].phase = "output"]
          /\ tail' = Append(tail, [kind |-> "output", of |-> c])
     ELSE call' = [call EXCEPT ![c] = Ended] /\ UNCHANGED tail
  /\ UNCHANGED <<transportVars, providerVars, updateVars, sending, turns, apps, failures>>

\* sendApplicationEvent
SendApplicationEvent ==
  /\ Settled /\ apps < MaxApps /\ apps' = apps + 1
  /\ tail' = Append(tail, [kind |-> "app", of |-> 0])
  /\ UNCHANGED <<transportVars, providerVars, updateVars, sending, callVars, failures>>
-----------------------------------------------------------------------------
(***************************************************************************)
(* Sends, one at a time, and their retries.                                *)
(***************************************************************************)
MayStart(op) ==
  CASE op.kind = "update" -> OwnsUpdate(op.of)
    [] op.kind = "app"    -> TRUE
    [] OTHER              -> Owns(op.of)

\* The next send is handed to the transport ...
StartSend ==
  /\ tail # <<>> /\ ~sending /\ MayStart(Head(tail))
  /\ sending' = TRUE
  /\ update' = IF Head(tail).kind = "update" THEN [update EXCEPT ![Head(tail).of].sent = TRUE]
                                             ELSE update
  /\ UNCHANGED <<transportVars, providerVars, updates, current, tail, callVars, apps, failures>>

DropUpdate ==   \* mutant: the output of a call that lost its lease is not dropped
  tail # <<>> /\ ~sending /\ Head(tail).kind = "update" /\ ~OwnsUpdate(Head(tail).of)

MustDrop == tail # <<>> /\ ~sending /\ ~MayStart(Head(tail))

\* ... or dropped, when its lease is over.
DropSend ==
  /\ MustDrop
  /\ tail' = Tail(tail)
  /\ LET op == Head(tail) IN
       \/ /\ op.kind = "update" /\ update' = [update EXCEPT ![op.of].loop = "over"]
          /\ UNCHANGED call
       \/ /\ op.kind \in {"output", "continue"} /\ call' = [call EXCEPT ![op.of] = Ended]
          /\ UNCHANGED update
  /\ UNCHANGED <<transportVars, providerVars, updates, current, sending, turns, apps, failures>>

QuietlyGivenUp(u, accepted) ==   \* mutant: an update that was refused is not tried again
  /\ update' = [update EXCEPT ![u].loop = "over", ![u].delivered = OwnsUpdate(u) /\ accepted]
  /\ acked' = IF OwnsUpdate(u) /\ accepted /\ update[u].acknowledged THEN lease ELSE acked
  /\ UNCHANGED <<current, call, turns>>

\* session.update was accepted, or waits for another try; without a timer for
\* that it is given up.
UpdateSent(u, accepted) ==
  /\ \/ /\ ~OwnsUpdate(u)
        /\ update' = [update EXCEPT ![u].loop = "over"] /\ UNCHANGED <<acked, current>>
     \/ /\ OwnsUpdate(u) /\ accepted
        /\ update' = [update EXCEPT ![u].loop = "over", ![u].delivered = TRUE]
        /\ acked' = IF update[u].acknowledged THEN lease ELSE acked
        /\ UNCHANGED current
     \/ /\ OwnsUpdate(u) /\ ~accepted
        /\ update' = [update EXCEPT ![u].loop = "waiting"] /\ UNCHANGED <<acked, current>>
     \/ /\ OwnsUpdate(u) /\ ~accepted
        /\ update' = [update EXCEPT ![u].loop = "over"]
        /\ current' = [current EXCEPT ![lease] = 0] /\ UNCHANGED acked
  /\ UNCHANGED callVars

\* The output was accepted, so its response.create takes its turn.
OutputSent(c, accepted) ==
  /\ IF Owns(c) /\ accepted
     THEN /\ turns' = turns + 1
          /\ call' = [call EXCEPT ![c].phase = "turn", ![c].turn = turns + 1]
     ELSE call' = [call EXCEPT ![c] = Ended] /\ UNCHANGED turns
  /\ UNCHANGED <<acked, updates, update, current>>

\* response.create was accepted, is tried again, or given up: at once if the
\* transport is gone or there is no timer.
ContinuationSent(c, result) ==
  /\ \/ /\ Owns(c) /\ result = "overflow" /\ call[c].elapsed < ContinuationRetries
        /\ call' = [call EXCEPT ![c].phase = "waiting"]
     \/ call' = [call EXCEPT ![c] = Ended]
  /\ UNCHANGED <<acked, updates, update, current, turns>>

\* What a send may come to; "overflow" stands for a send that throws, too.
Results ==
  IF transport # "ready" THEN {"overflow", "disconnected"}
  ELSE IF failures < MaxFailures THEN {"queued", "overflow", "disconnected"} ELSE {"queued"}

\* The transport answers the send under way.
SendSettles(result) ==
  /\ Settled /\ sending /\ result \in Results
  /\ sending' = FALSE /\ tail' = Tail(tail)
  /\ failures' = IF transport = "ready" /\ result # "queued" THEN failures + 1 ELSE failures
  /\ LET op == Head(tail) IN
       \/ op.kind = "update" /\ UpdateSent(op.of, result = "queued") /\ UNCHANGED updates
       \/ op.kind = "output" /\ OutputSent(op.of, result = "queued")
       \/ op.kind = "continue" /\ ContinuationSent(op.of, result)
       \/ op.kind = "app" /\ UNCHANGED <<acked, updateVars, callVars>>
  /\ UNCHANGED <<transportVars, lease, leases, apps>>

UpdateTimer(u) ==
  /\ Settled /\ update[u].loop = "waiting"
  /\ update' = [update EXCEPT ![u].loop = "woken"]
  /\ UNCHANGED <<transportVars, providerVars, updates, current, sendVars, callVars, apps, failures>>

CallTimer(c) ==
  /\ Settled /\ call[c].phase = "waiting"
  /\ call' = [call EXCEPT ![c].phase = "woken", ![c].elapsed = @ + 1]
  /\ UNCHANGED <<transportVars, providerVars, updateVars, sendVars, turns, apps, failures>>

\* The loop of an update, after its timer fired or was cancelled.
ResumeUpdate(u) ==
  /\ update[u].loop = "woken"
  /\ IF OwnsUpdate(u)
     THEN /\ update' = [update EXCEPT ![u].loop = "sending"]
          /\ tail' = Append(tail, [kind |-> "update", of |-> u])
     ELSE update' = [update EXCEPT ![u].loop = "over"] /\ UNCHANGED tail
  /\ UNCHANGED <<transportVars, providerVars, updates, current, sending, callVars, apps, failures>>

\* The loop of a continuation, at its turn or after its timer.
ResumeCall(c) ==
  /\ call[c].phase = "woken" \/ IsTurn(c)
  /\ IF Owns(c)
     THEN /\ call' = [call EXCEPT ![c].phase = "continue"]
          /\ tail' = Append(tail, [kind |-> "continue", of |-> c])
     ELSE call' = [call EXCEPT ![c] = Ended] /\ UNCHANGED tail
  /\ UNCHANGED <<transportVars, providerVars, updateVars, sending, turns, apps, failures>>
-----------------------------------------------------------------------------
Promises ==
  \/ StartSend \/ DropSend
  \/ \E u \in Updates : ResumeUpdate(u)
  \/ \E c \in Calls : ResumeCall(c)

Timers ==
  \/ \E u \in Updates : UpdateTimer(u)
  \/ \E c \in Calls : CallTimer(c)

Next ==
  \/ Promises \/ Timers
  \/ \E result \in {"queued", "overflow", "disconnected"} : SendSettles(result)
  \/ Activate \/ Deactivate \/ TransportReady \/ TransportLost \/ SessionCreated \/ Close
  \/ \E u \in Updates : SessionUpdated(u)
  \/ \E c \in Calls : ToolDone(c) \/ \E u \in Updates : FunctionCall(c, u)
  \/ SendApplicationEvent

Spec == Init /\ [][Next]_vars

\* Promise jobs run, timers fire and the transport answers every send; tools,
\* the host and the application do what they like.
FairSpec ==
  /\ Spec
  /\ WF_vars(Promises)
  /\ \A u \in Updates : WF_vars(UpdateTimer(u))
  /\ \A c \in Calls : WF_vars(CallTimer(c))
  /\ WF_vars(\E result \in {"queued", "overflow", "disconnected"} : SendSettles(result))
-----------------------------------------------------------------------------
(***************************************************************************)
(* Properties.                                                             *)
(***************************************************************************)
UpdateRecords == [lease : 0..leases, session : 0..sessions, sent : BOOLEAN,
                  delivered : BOOLEAN, acknowledged : BOOLEAN, loop : Loops]
CallRecords   == [phase : Phases, lease : 0..leases, session : 0..sessions,
                  tag : 0..updates, turn : 0..turns, elapsed : 0..ContinuationRetries]
TailRecords   == [kind : {"update"}, of : 1..updates] \cup [kind : {"app"}, of : {0}]
                   \cup [kind : {"output", "continue"}, of : Calls]

TypeOK ==
  /\ transport \in {"ready", "disconnected"}
  /\ leases + sessions <= MaxUpdates /\ sessions \in Nat /\ session \in 0..sessions
  /\ created \in BOOLEAN /\ closed \in BOOLEAN /\ sending \in BOOLEAN
  /\ leases \in Nat /\ lease \in 0..leases /\ acked \in 0..leases
  /\ updates \in 0..MaxUpdates
  /\ update \in [Updates -> UpdateRecords]
  /\ current \in [Updates -> 0..updates]
  /\ tail \in Seq(TailRecords)
  /\ call \in [Calls -> CallRecords]
  /\ turns \in Nat /\ apps \in 0..MaxApps /\ failures \in 0..MaxFailures

\* The provider whose tools may be called is the active one, and the host has
\* its catalog: the current update was delivered and acknowledged, in the
\* session that is still up.
AckedIsServed ==
  acked # 0 =>
    /\ acked = lease /\ current[acked] # 0
    /\ transport = "ready" /\ session # 0 /\ created /\ ~closed
    /\ LET u == update[current[acked]] IN u.delivered /\ u.acknowledged /\ u.session = session

\* A wait for a retry, of an update or a response.create, ends with the lease
\* it belongs to, and holds no place in the send tail meanwhile.
RetriesAreOwned ==
  /\ \A u \in Updates : update[u].loop = "waiting" => OwnsUpdate(u)
  /\ \A c \in Calls : call[c].phase = "waiting" => Owns(c)
  /\ \A k \in 1..Len(tail) :
       /\ tail[k].kind = "update" => update[tail[k].of].loop = "sending"
       /\ tail[k].kind = "output" => call[tail[k].of].phase = "output"
       /\ tail[k].kind = "continue" => call[tail[k].of].phase = "continue"

\* What answers a function call goes out only while the host still has, and has
\* acknowledged, the very catalog the call was tagged with.
AnswersMatchTheirCatalog ==
  [][\A c \in Calls :
       (sending' /\ ~sending /\ Head(tail).kind \in {"output", "continue"} /\ Head(tail).of = c)
         => /\ lease # 0 /\ current[lease] = call[c].tag
            /\ update[call[c].tag].acknowledged /\ update[call[c].tag].session = session]_vars

\* An application event goes out although tools do not return, updates are not
\* accepted and continuations are tried again and again.
ControlIsNotBlocked ==
  (\E k \in 1..Len(tail) : tail[k].kind = "app") ~> (\A k \in 1..Len(tail) : tail[k].kind # "app")

\* The tools of the active provider reach the session the host has created,
\* unless either ends or no timer can be had to try again.
ProviderIsAnnounced ==
  (created /\ lease # 0)
    ~> (~created \/ lease = 0 \/ current[lease] = 0 \/ update[current[lease]].delivered)

\* An output that was accepted is followed by its response.create, or that is
\* given up; none waits for ever, for its turn or for a retry.
ContinuationsEnd ==
  (\E c \in Calls : call[c].phase \in Continuing)
    ~> (\A c \in Calls : call[c].phase \notin Continuing)
=============================================================================
