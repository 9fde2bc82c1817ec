------------------------- MODULE ApprovalHandshake -------------------------
(***************************************************************************)
(* The approval handshake between the Gateway's controller                 *)
(* (gateway/src/approval/approval-controller.ts) and the queue on the      *)
(* device (firmware/host/app/remote-session/approval-session.ts), over one *)
(* connection at a time.  Each direction of a connection is FIFO; what is  *)
(* in flight when it drops is lost, and the device's own sends may be      *)
(* refused (a full or missing transport) without its noticing.             *)
(*                                                                         *)
(* The same device session also serves the Android USB Dock, whose app may *)
(* suspend a request and offer it again; PeerResumes turns that peer on.   *)
(***************************************************************************)
EXTENDS Integers, Sequences, FiniteSets

CONSTANTS
  Ids,              \* request ids
  None,             \* no retry timer
  Impatient,        \* the requests whose timeout falls within the run
  PeerResumes,      \* the peer may suspend a request and send it again
  MaxDisconnects,   \* bound: connections lost
  MaxResumes,       \* bound: requests sent again
  MaxActivations,   \* bound: times the device drops its approval session
  Capacity          \* device messages in flight; more are refused

ASSUME ConstantsAssumption ==
  /\ None \notin Ids /\ Impatient \subseteq Ids
  /\ PeerResumes \in BOOLEAN
  /\ {MaxDisconnects, MaxResumes, MaxActivations, Capacity} \subseteq Nat

Decisions == {"approve", "decline"}
Outcomes  == {"unasked", "pending", "approve", "decline", "lapsed"}
ToDeviceTypes == {"request", "resolved", "suspended"}

VARIABLES
  outcome,     \* controller: what became of each request
  connected,   \* a device session is up
  toDevice,    \* messages on their way to the device
  toGateway,   \* messages on their way to the controller
  queue,       \* device: the entries, oldest first; the head is shown
  decision,    \* device: the decision kept in an entry
  suspended,   \* device: entries marked suspended
  timer,       \* device: the entry whose decision is being repeated
  open,        \* device: an approval session is active
  opinions,    \* the operator: every decision tapped on a request
  disconnects, resumes, activations

gateway == <<outcome, connected, disconnects, resumes>>
device  == <<queue, decision, suspended, timer, open, activations>>
vars    == <<gateway, device, toDevice, toGateway, opinions>>

Queued    == {queue[k] : k \in 1..Len(queue)}
IsHead(q, i) == q # <<>> /\ Head(q) = i

Down(type, i)  == [type |-> type, id |-> i]
Presented(i)   == [type |-> "presented", id |-> i, decision |-> "none"]
Response(i, d) == [type |-> "response", id |-> i, decision |-> d]

Init ==
  /\ outcome = [i \in Ids |-> "unasked"] /\ connected = TRUE
  /\ toDevice = <<>> /\ toGateway = <<>>
  /\ queue = <<>> /\ decision = [i \in Ids |-> "none"] /\ suspended = {} /\ timer = None
  /\ open = TRUE
  /\ opinions = [i \in Ids |-> {}]
  /\ disconnects = 0 /\ resumes = 0 /\ activations = 0
-----------------------------------------------------------------------------
(***************************************************************************)
(* The controller.  settle() answers an entry once, clears its timer and   *)
(* forgets it; outcome # "pending" is what is left of it here.             *)
(***************************************************************************)
RequestApproval(i) ==
  /\ connected /\ outcome[i] = "unasked"
  /\ outcome' = [outcome EXCEPT ![i] = "pending"]
  /\ toDevice' = Append(toDevice, Down("request", i))
  /\ UNCHANGED <<connected, disconnects, resumes, device, toGateway, opinions>>

TimeoutSuspendsOnly(i) ==   \* mutant: the caller is not told
  /\ i \in Impatient /\ outcome[i] = "pending" /\ toDevice = <<>>
  /\ toDevice' = Append(toDevice, Down("suspended", i))
  /\ UNCHANGED <<gateway, device, toGateway, opinions>>

Timeout(i) ==
  /\ i \in Impatient /\ outcome[i] = "pending"
  /\ outcome' = [outcome EXCEPT ![i] = "lapsed"]
  /\ toDevice' = Append(toDevice, Down("suspended", i))
  /\ UNCHANGED <<connected, disconnects, resumes, device, toGateway, opinions>>

AnswersSettled(m) == m.type = "response"   \* mutant: settled entries answer again

\* presented only sets a flag nobody reads; a response to an entry that is gone
\* is not ours and is left unanswered.
Answers(m) == m.type = "response" /\ outcome[m.id] = "pending"

\* The entry a response belongs to: pending.get(requestId).
EntryOf(m) == m.id

GatewayReceives ==
  /\ toGateway # <<>>
  /\ toGateway' = Tail(toGateway)
  /\ LET m == Head(toGateway) IN
       \/ /\ Answers(m)
          /\ outcome' = [outcome EXCEPT ![EntryOf(m)] = m.decision]
          /\ toDevice' = Append(toDevice, Down("resolved", EntryOf(m)))
       \/ ~Answers(m) /\ UNCHANGED <<outcome, toDevice>>
  /\ UNCHANGED <<connected, disconnects, resumes, device, opinions>>

\* The device session closes: close() suspends every request, but nothing can
\* be sent any more.
Disconnect ==
  /\ connected /\ disconnects < MaxDisconnects
  /\ connected' = FALSE /\ disconnects' = disconnects + 1
  /\ outcome' = [i \in Ids |-> IF outcome[i] = "pending" THEN "lapsed" ELSE outcome[i]]
  /\ toDevice' = <<>> /\ toGateway' = <<>>
  /\ UNCHANGED <<resumes, device, opinions>>

Connect ==
  /\ ~connected
  /\ connected' = TRUE
  /\ UNCHANGED <<outcome, disconnects, resumes, device, toDevice, toGateway, opinions>>

\* The Android app, whose requests outlive its suspensions.
PeerSuspends(i) ==
  /\ PeerResumes /\ connected /\ resumes < MaxResumes
  /\ outcome[i] = "pending"
  /\ toDevice' = Append(toDevice, Down("suspended", i))
  /\ UNCHANGED <<gateway, device, toGateway, opinions>>
  /\ \A k \in 1..Len(toDevice) : toDevice[k] # Down("suspended", i)

PeerOffersAgain(i) ==
  /\ PeerResumes /\ connected /\ resumes < MaxResumes
  /\ outcome[i] = "pending"
  /\ resumes' = resumes + 1
  /\ toDevice' = Append(toDevice, Down("request", i))
  /\ UNCHANGED <<outcome, connected, disconnects, device, toGateway, opinions>>
-----------------------------------------------------------------------------
(***************************************************************************)
(* The device.  send() ignores the result, so a refused send is silent.    *)
(***************************************************************************)
Deliver(m) == connected /\ Len(toGateway) < Capacity /\ toGateway' = Append(toGateway, m)
Refuse     == UNCHANGED toGateway
Sends(m)   == Deliver(m) \/ Refuse

\* showNext for a queue whose head is new: its decision is repeated, or it is
\* presented.
ShowNext(q) ==
  IF q = <<>> THEN timer' = None /\ UNCHANGED toGateway
  ELSE IF decision[Head(q)] = "none"
       THEN timer' = None /\ Sends(Presented(Head(q)))
       ELSE /\ timer' = Head(q)
            /\ IF Head(q) \in suspended THEN UNCHANGED toGateway
               ELSE Sends(Response(Head(q), decision[Head(q)]))

ReceiveKnownRequest(i) ==
  /\ i \in Queued
  /\ suspended' = suspended \ {i}
  /\ \/ /\ IsHead(queue, i)
        /\ IF decision[i] = "none" THEN Sends(Presented(i)) /\ UNCHANGED timer
           ELSE Sends(Response(i, decision[i])) /\ timer' = i
     \/ ~IsHead(queue, i) /\ UNCHANGED <<timer, toGateway>>
  /\ UNCHANGED <<queue, decision>>

ReceiveAnyRequest(i) ==   \* mutant: a request offered again is queued again
  /\ queue' = Append(queue, i)
  /\ IF queue = <<>> THEN ShowNext(queue') ELSE UNCHANGED <<timer, toGateway>>
  /\ UNCHANGED <<decision, suspended>>

ReceiveNewRequest(i) ==
  /\ i \notin Queued
  /\ queue' = Append(queue, i)
  /\ IF queue = <<>> THEN ShowNext(queue') ELSE UNCHANGED <<timer, toGateway>>
  /\ UNCHANGED <<decision, suspended>>

\* queue.splice(k, 1)
Without(k) == [j \in 1..(Len(queue) - 1) |-> queue[IF j < k THEN j ELSE j + 1]]

ReceiveResolved(i) ==
  \/ \E k \in 1..Len(queue) :
       /\ queue[k] = i /\ \A j \in 1..(k - 1) : queue[j] # i
       /\ queue' = Without(k)
       /\ decision' = [decision EXCEPT ![i] = "none"]
       /\ suspended' = suspended \ {i}
       /\ IF k = 1 THEN ShowNext(queue') ELSE UNCHANGED <<timer, toGateway>>
  \/ i \notin Queued /\ UNCHANGED <<queue, decision, suspended, timer, toGateway>>

ReceiveSuspended(i) ==
  \/ /\ i \in Queued
     /\ suspended' = suspended \cup {i}
     /\ timer' = IF IsHead(queue, i) THEN None ELSE timer
     /\ UNCHANGED <<queue, decision, toGateway>>
  \/ i \notin Queued /\ UNCHANGED <<queue, decision, suspended, timer, toGateway>>

DeviceReceives ==
  /\ toDevice # <<>>
  /\ toDevice' = Tail(toDevice)
  /\ LET m == Head(toDevice) IN
       \/ ~open /\ UNCHANGED <<queue, decision, suspended, timer, toGateway>>
       \/ open /\ m.type = "request" /\ (ReceiveKnownRequest(m.id) \/ ReceiveNewRequest(m.id))
       \/ open /\ m.type = "resolved" /\ ReceiveResolved(m.id)
       \/ open /\ m.type = "suspended" /\ ReceiveSuspended(m.id)
  /\ UNCHANGED <<gateway, open, activations, opinions>>

\* The operator taps a button of the request on the screen.
Decide(d) ==
  /\ queue # <<>> /\ decision[Head(queue)] = "none" /\ Head(queue) \notin suspended
  /\ decision' = [decision EXCEPT ![Head(queue)] = d]
  /\ opinions' = [opinions EXCEPT ![Head(queue)] = @ \cup {d}]
  /\ timer' = Head(queue)
  /\ Sends(Response(Head(queue), d))
  /\ UNCHANGED <<gateway, queue, suspended, open, activations, toDevice>>

RetryUndecided ==   \* mutant: the retry's check inverted
  /\ timer # None
  /\ IsHead(queue, timer) /\ decision[timer] = "none" /\ timer \notin suspended
  /\ Deliver(Response(timer, decision[timer]))
  /\ UNCHANGED <<gateway, device, toDevice, opinions>>

RetryDecision ==
  /\ timer # None
  /\ IsHead(queue, timer) /\ decision[timer] # "none" /\ timer \notin suspended
  /\ Deliver(Response(timer, decision[timer]))
  /\ UNCHANGED <<gateway, device, toDevice, opinions>>

\* The remote conversation is deactivated: the approval session closes and its
\* handler is removed.
Deactivate ==
  /\ open /\ activations < MaxActivations
  /\ open' = FALSE /\ activations' = activations + 1
  /\ queue' = <<>> /\ decision' = [i \in Ids |-> "none"] /\ suspended' = {} /\ timer' = None
  /\ UNCHANGED <<gateway, toDevice, toGateway, opinions>>

Activate ==
  /\ ~open
  /\ open' = TRUE
  /\ UNCHANGED <<gateway, queue, decision, suspended, timer, activations, toDevice, toGateway,
                 opinions>>
-----------------------------------------------------------------------------
Next ==
  \/ \E i \in Ids : RequestApproval(i) \/ Timeout(i) \/ PeerSuspends(i) \/ PeerOffersAgain(i)
  \/ GatewayReceives \/ Disconnect \/ Connect
  \/ DeviceReceives \/ RetryDecision \/ Deactivate \/ Activate
  \/ \E d \in Decisions : Decide(d)

Spec == Init /\ [][Next]_vars

\* Frames that arrived are handled, timers fire.
Timely ==
  /\ WF_vars(GatewayReceives) /\ WF_vars(DeviceReceives)
  /\ SF_vars(RetryDecision)

FairSpec == Spec /\ Timely /\ \A i \in Ids : WF_vars(Timeout(i))
-----------------------------------------------------------------------------
TypeOK ==
  /\ outcome \in [Ids -> Outcomes] /\ connected \in BOOLEAN
  /\ toDevice \in Seq([type : ToDeviceTypes, id : Ids])
  /\ toGateway \in Seq([type : {"presented", "response"}, id : Ids, decision : Decisions \cup {"none"}])
  /\ queue \in Seq(Ids) /\ decision \in [Ids -> Decisions \cup {"none"}]
  /\ suspended \subseteq Ids /\ timer \in Ids \cup {None} /\ open \in BOOLEAN
  /\ opinions \in [Ids -> SUBSET Decisions]
  /\ disconnects \in 0..MaxDisconnects /\ resumes \in 0..MaxResumes
  /\ activations \in 0..MaxActivations

\* The caller is told "approved" or "declined" only if the operator tapped that
\* on that very request: retries, requests offered again, reconnects and queue
\* shifts never turn one request's decision into another's.
AnsweredAsTapped ==
  \A i \in Ids : outcome[i] \in Decisions => outcome[i] \in opinions[i]

\* The repeated decision is always the one of the request on the screen, so the
\* guard `active() !== entry` in the retry timer never has anything to stop.
RetryIsActive == timer # None => IsHead(queue, timer)

\* The screen never waits forever behind a request that was resolved: entries
\* are distinct requests, and a resolved request that is still queued has its
\* approval.resolved on the way, or lost the connection since.
ResolvedIsReleased ==
  /\ Cardinality(Queued) = Len(queue)
  /\ disconnects = 0 => \A i \in Queued : outcome[i] \in Decisions =>
       \E k \in 1..Len(toDevice) : toDevice[k] = Down("resolved", i)

\* The handshake implements Consent.
Promise == INSTANCE Consent WITH
  answer <- [i \in Ids |-> IF outcome[i] = "pending" THEN "asked" ELSE outcome[i]]
ImplementsConsent == Promise!Spec

\* A caller of requestApproval never hangs (docs/specs/conversation-gateway.md:324-326).
CallerNeverHangs == \A i \in Impatient : outcome[i] = "pending" ~> outcome[i] # "pending"

\* Repeating the decision makes up for refused sends: with no timeout to rescue
\* it, a decision reaches the caller unless the peer or the device withdrew first.
DecisionArrives ==
  \A i \in Ids \ Impatient :
    (outcome[i] = "pending" /\ decision[i] # "none" /\ i \notin suspended) ~>
      (outcome[i] # "pending" \/ i \in suspended \/ ~open)
=============================================================================
