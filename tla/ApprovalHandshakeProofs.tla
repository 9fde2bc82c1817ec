----------------------- MODULE ApprovalHandshakeProofs -----------------------
(***************************************************************************)
(* Proofs about ApprovalHandshake: whatever is refused, repeated, offered  *)
(* again or lost, the caller is told what the operator tapped on that very *)
(* request, a resolved request leaves the device's queue, and the          *)
(* handshake implements Consent; for any number of requests and any        *)
(* bounds.                                                                 *)
(***************************************************************************)
EXTENDS ApprovalHandshake, SequenceTheorems, FunctionTheorems, FiniteSetTheorems, TLAPS

\* What travels to the Gateway, and what the device keeps, was tapped.
ResponsesAreTapped ==
  \A k \in 1..Len(toGateway) :
    toGateway[k].type = "response" => toGateway[k].decision \in opinions[toGateway[k].id]

DecisionsAreTapped == \A i \in Ids : decision[i] # "none" => decision[i] \in opinions[i]

\* The device only ever hears of requests somebody asked.
HeardWasAsked ==
  /\ \A k \in 1..Len(toDevice) : outcome[toDevice[k].id] # "unasked"
  /\ \A k \in 1..Len(queue) : outcome[queue[k]] # "unasked"

\* The inductive invariant.
IInv ==
  /\ TypeOK
  /\ ResponsesAreTapped
  /\ DecisionsAreTapped
  /\ HeardWasAsked
  /\ AnsweredAsTapped
  /\ RetryIsActive

Up      == [type : {"presented", "response"}, id : Ids, decision : Decisions \cup {"none"}]
DownSet == [type : ToDeviceTypes, id : Ids]

USE ConstantsAssumption
-----------------------------------------------------------------------------
(***************************************************************************)
(* The two directions of the connection.                                   *)
(***************************************************************************)
\* A message that may be sent keeps what travels to the Gateway tapped.
LEMMA SendsKeeps ==
  ASSUME TypeOK, ResponsesAreTapped, NEW m \in Up,
         \A i \in Ids : opinions[i] \subseteq opinions'[i],
         m.type = "response" => m.decision \in opinions'[m.id],
         Sends(m) \/ UNCHANGED toGateway
  PROVE  toGateway' \in Seq(Up) /\ ResponsesAreTapped'
  <1>1. toGateway \in Seq(Up) BY DEF TypeOK, Up
  <1>2. CASE UNCHANGED toGateway
    <2>1. ASSUME NEW k \in 1..Len(toGateway), toGateway[k].type = "response"
          PROVE  toGateway[k].decision \in opinions'[toGateway[k].id]
      <3>1. toGateway[k] \in Up BY <1>1
      <3>2. toGateway[k].id \in Ids BY <3>1 DEF Up
      <3> QED BY <2>1, <3>2 DEF ResponsesAreTapped
    <2>2. ResponsesAreTapped' BY <1>2, <2>1 DEF ResponsesAreTapped
    <2> QED BY <1>1, <1>2, <2>2
  <1>3. CASE toGateway' = Append(toGateway, m)
    <2>1. toGateway' \in Seq(Up) BY <1>1, <1>3
    <2>2. ASSUME NEW k \in 1..Len(toGateway'), toGateway'[k].type = "response"
          PROVE  toGateway'[k].decision \in opinions'[toGateway'[k].id]
      <3>1. CASE k = Len(toGateway) + 1
        <4>1. toGateway'[k] = m BY <1>1, <1>3, <3>1
        <4> QED BY <2>2, <4>1
      <3>2. CASE k \in 1..Len(toGateway)
        <4>1. toGateway'[k] = toGateway[k] /\ toGateway[k] \in Up BY <1>1, <1>3, <3>2
        <4>2. toGateway[k].id \in Ids BY <4>1 DEF Up
        <4> QED BY <2>2, <3>2, <4>1, <4>2 DEF ResponsesAreTapped
      <3> QED BY <1>1, <1>3, <3>1, <3>2
    <2> QED BY <2>1, <2>2 DEF ResponsesAreTapped
  <1> QED BY <1>2, <1>3 DEF Sends, Deliver, Refuse

\* What the device says about a request it has is well formed.
LEMMA Messages ==
  ASSUME NEW i \in Ids, NEW d \in Decisions \cup {"none"}
  PROVE  /\ Presented(i) \in Up /\ Presented(i).type = "presented"
         /\ Response(i, d) \in Up /\ Response(i, d).id = i /\ Response(i, d).decision = d
  BY DEF Presented, Response, Up

\* Taking the oldest message away leaves asked requests on the way.
LEMMA DeviceTakes ==
  ASSUME TypeOK, HeardWasAsked, toDevice # <<>>, toDevice' = Tail(toDevice), UNCHANGED outcome
  PROVE  /\ toDevice' \in Seq(DownSet)
         /\ \A k \in 1..Len(toDevice') : outcome'[toDevice'[k].id] # "unasked"
         /\ Head(toDevice) \in DownSet /\ outcome[Head(toDevice).id] # "unasked"
  <1>1. toDevice \in Seq(DownSet) BY DEF TypeOK, DownSet
  <1>2. /\ toDevice' \in Seq(DownSet) /\ Len(toDevice') = Len(toDevice) - 1
        /\ Head(toDevice) \in DownSet
        /\ \A k \in 1..Len(toDevice') : toDevice'[k] = toDevice[k + 1]
    BY <1>1, HeadTailProperties
  <1>3. Len(toDevice) \in Nat \ {0} BY <1>1
  <1>4. Head(toDevice) = toDevice[1] /\ 1 \in 1..Len(toDevice) BY <1>1, <1>3
  <1>5. \A k \in 1..Len(toDevice') : k + 1 \in 1..Len(toDevice) BY <1>2, <1>3
  <1> QED BY <1>2, <1>4, <1>5 DEF HeardWasAsked

\* Adding one that was asked, too.
LEMMA DeviceGets ==
  ASSUME TypeOK, HeardWasAsked, NEW type \in ToDeviceTypes, NEW i \in Ids,
         toDevice' = Append(toDevice, Down(type, i)), outcome'[i] # "unasked",
         \A j \in Ids : outcome[j] # "unasked" => outcome'[j] # "unasked"
  PROVE  /\ toDevice' \in Seq(DownSet)
         /\ \A k \in 1..Len(toDevice') : outcome'[toDevice'[k].id] # "unasked"
  <1>1. toDevice \in Seq(DownSet) BY DEF TypeOK, DownSet
  <1>2. Down(type, i) \in DownSet /\ Down(type, i).id = i BY DEF Down, DownSet
  <1>3. ASSUME NEW k \in 1..Len(toDevice') PROVE outcome'[toDevice'[k].id] # "unasked"
    <2>1. CASE k = Len(toDevice) + 1 BY <1>1, <1>2, <2>1
    <2>2. CASE k \in 1..Len(toDevice)
      <3>1. toDevice'[k] = toDevice[k] /\ toDevice[k] \in DownSet BY <1>1, <2>2
      <3>2. toDevice[k].id \in Ids BY <3>1 DEF DownSet
      <3> QED BY <2>2, <3>1, <3>2 DEF HeardWasAsked
    <2> QED BY <1>1, <2>1, <2>2
  <1> QED BY <1>1, <1>2, <1>3
-----------------------------------------------------------------------------
(***************************************************************************)
(* The queue.                                                              *)
(***************************************************************************)
\* splice leaves entries of the queue, and the head unless that is what it took.
LEMMA WithoutEffect ==
  ASSUME TypeOK, NEW k \in 1..Len(queue)
  PROVE  /\ Without(k) \in Seq(Ids) /\ Len(Without(k)) = Len(queue) - 1
         /\ \A j \in 1..Len(Without(k)) : \E l \in 1..Len(queue) : Without(k)[j] = queue[l]
         /\ k # 1 => Without(k) # <<>> /\ Head(Without(k)) = Head(queue)
  <1>1. queue \in Seq(Ids) /\ Len(queue) \in Nat BY DEF TypeOK
  <1>2. \A j \in 1..(Len(queue) - 1) : (IF j < k THEN j ELSE j + 1) \in 1..Len(queue)
    BY <1>1
  <1>3. \A j \in 1..(Len(queue) - 1) : Without(k)[j] \in Ids BY <1>1, <1>2 DEF Without
  <1>4. Without(k) \in Seq(Ids) /\ Len(Without(k)) = Len(queue) - 1
    BY <1>1, <1>3 DEF Without
  <1>5. \A j \in 1..Len(Without(k)) : \E l \in 1..Len(queue) : Without(k)[j] = queue[l]
    BY <1>2, <1>4 DEF Without
  <1>6. ASSUME k # 1 PROVE Without(k) # <<>> /\ Head(Without(k)) = Head(queue)
    <2>1. 1 \in 1..(Len(queue) - 1) /\ 1 < k BY <1>1, <1>6
    <2>2. Without(k)[1] = queue[1] BY <2>1 DEF Without
    <2>3. Len(Without(k)) > 0 /\ Len(queue) > 0 BY <1>1, <1>4, <2>1
    <2>4. Head(Without(k)) = Without(k)[1] /\ Head(queue) = queue[1]
      BY <1>1, <1>4, <2>3
    <2> QED BY <1>4, <2>2, <2>3, <2>4
  <1> QED BY <1>4, <1>5, <1>6

\* A new head is presented, or its decision is repeated and its timer runs.
LEMMA ShowNextKeeps ==
  ASSUME TypeOK, ResponsesAreTapped, DecisionsAreTapped, NEW q \in Seq(Ids), ShowNext(q),
         UNCHANGED opinions
  PROVE  /\ toGateway' \in Seq(Up) /\ ResponsesAreTapped'
         /\ timer' \in Ids \cup {None} /\ (timer' # None => IsHead(q, timer'))
  <1>1. CASE q = <<>>
    <2>1. \A i \in Ids : Presented(i) \in Up BY DEF Presented, Up
    <2>2. toGateway' = toGateway /\ timer' = None BY <1>1 DEF ShowNext
    <2>3. toGateway \in Seq(Up) BY DEF TypeOK, Up
    <2> QED BY <2>2, <2>3 DEF ResponsesAreTapped
  <1>2. CASE q # <<>> /\ decision[Head(q)] = "none"
    <2>1. Head(q) \in Ids BY <1>2
    <2>2. Sends(Presented(Head(q))) /\ timer' = None BY <1>2 DEF ShowNext
    <2>3. Presented(Head(q)) \in Up /\ Presented(Head(q)).type = "presented"
      BY <2>1, Messages
    <2> QED BY <2>2, <2>3, SendsKeeps
  <1>3. CASE q # <<>> /\ decision[Head(q)] # "none"
    <2>1. Head(q) \in Ids BY <1>3
    <2>2. /\ decision[Head(q)] \in Decisions \cup {"none"}
          /\ decision[Head(q)] \in opinions[Head(q)]
      BY <1>3, <2>1 DEF TypeOK, DecisionsAreTapped
    <2>3. /\ timer' = Head(q)
          /\ Sends(Response(Head(q), decision[Head(q)])) \/ UNCHANGED toGateway
      BY <1>3 DEF ShowNext
    <2>4. /\ Response(Head(q), decision[Head(q)]) \in Up
          /\ Response(Head(q), decision[Head(q)]).id = Head(q)
          /\ Response(Head(q), decision[Head(q)]).decision = decision[Head(q)]
      BY <2>1, <2>2, Messages
    <2>5. toGateway' \in Seq(Up) /\ ResponsesAreTapped'
      BY <2>2, <2>3, <2>4, SendsKeeps
    <2> QED BY <1>3, <2>1, <2>3, <2>5 DEF IsHead
  <1> QED BY <1>1, <1>2, <1>3
-----------------------------------------------------------------------------
(***************************************************************************)
(* What a step of each side has to show.                                   *)
(***************************************************************************)
Asked(q) == \A k \in 1..Len(q) : outcome'[q[k].id] # "unasked"

\* A step of the controller, the peer or the network leaves the device alone.
LEMMA GatewayStep ==
  ASSUME IInv, UNCHANGED <<device, opinions>>,
         outcome' \in [Ids -> Outcomes], connected' \in BOOLEAN,
         disconnects' \in 0..MaxDisconnects, resumes' \in 0..MaxResumes,
         \A i \in Ids : outcome[i] # "unasked" => outcome'[i] # "unasked",
         \A i \in Ids : outcome'[i] \in Decisions => outcome'[i] \in opinions[i],
         toDevice' \in Seq(DownSet), Asked(toDevice'),
         toGateway' \in Seq(Up), ResponsesAreTapped'
  PROVE  IInv'
  <1>1. TypeOK' BY DEF IInv, TypeOK, device, Up, DownSet
  <1>2. HeardWasAsked'
    <2>1. ASSUME NEW k \in 1..Len(queue) PROVE outcome'[queue[k]] # "unasked"
      <3>1. queue[k] \in Ids BY DEF IInv, TypeOK
      <3> QED BY <3>1 DEF IInv, HeardWasAsked
    <2> QED BY <2>1 DEF HeardWasAsked, Asked, device
  <1>3. DecisionsAreTapped' BY DEF IInv, DecisionsAreTapped, device
  <1>4. AnsweredAsTapped' BY DEF AnsweredAsTapped
  <1>5. RetryIsActive' BY DEF IInv, RetryIsActive, IsHead, device
  <1> QED BY <1>1, <1>2, <1>3, <1>4, <1>5 DEF IInv

\* A step of the device leaves the controller alone.
LEMMA DeviceStep ==
  ASSUME IInv, UNCHANGED gateway,
         toDevice' \in Seq(DownSet), Asked(toDevice'),
         toGateway' \in Seq(Up), ResponsesAreTapped',
         queue' \in Seq(Ids), \A k \in 1..Len(queue') : outcome[queue'[k]] # "unasked",
         decision' \in [Ids -> Decisions \cup {"none"}], suspended' \subseteq Ids,
         open' \in BOOLEAN, activations' \in 0..MaxActivations,
         opinions' \in [Ids -> SUBSET Decisions],
         \A i \in Ids : opinions[i] \subseteq opinions'[i],
         \A i \in Ids : decision'[i] # "none" => decision'[i] \in opinions'[i],
         timer' \in Ids \cup {None}, timer' # None => IsHead(queue', timer')
  PROVE  IInv'
  <1>1. TypeOK' BY DEF IInv, TypeOK, gateway, Up, DownSet
  <1>2. HeardWasAsked' BY DEF HeardWasAsked, Asked, gateway
  <1>3. DecisionsAreTapped' BY DEF DecisionsAreTapped
  <1>4. AnsweredAsTapped' BY DEF IInv, AnsweredAsTapped, gateway
  <1>5. RetryIsActive' BY DEF RetryIsActive, IsHead
  <1> QED BY <1>1, <1>2, <1>3, <1>4, <1>5 DEF IInv

\* What a step does not touch stays as it was.
LEMMA Kept ==
  ASSUME IInv
  PROVE  /\ toDevice \in Seq(DownSet) /\ toGateway \in Seq(Up)
         /\ UNCHANGED <<outcome, toDevice>> => Asked(toDevice')
         /\ UNCHANGED <<toGateway, opinions>> => ResponsesAreTapped'
  BY DEF IInv, TypeOK, Up, DownSet, HeardWasAsked, Asked, ResponsesAreTapped

\* The program starts with nothing asked.
LEMMA InitIInv == Init => IInv
  <1> SUFFICES ASSUME Init PROVE IInv
    OBVIOUS
  <1>1. toDevice = <<>> /\ toGateway = <<>> /\ queue = <<>> BY DEF Init
  <1>2. TypeOK
    <2>1. /\ toDevice \in Seq(DownSet) /\ toGateway \in Seq(Up) /\ queue \in Seq(Ids)
      BY <1>1
    <2> QED BY <2>1 DEF Init, TypeOK, Up, DownSet, Outcomes
  <1>3. ResponsesAreTapped /\ HeardWasAsked BY <1>1 DEF ResponsesAreTapped, HeardWasAsked
  <1>4. DecisionsAreTapped /\ AnsweredAsTapped /\ RetryIsActive
    BY DEF Init, DecisionsAreTapped, AnsweredAsTapped, RetryIsActive, Decisions
  <1> QED BY <1>2, <1>3, <1>4 DEF IInv
-----------------------------------------------------------------------------
(***************************************************************************)
(* The controller, the peer and the network.                               *)
(***************************************************************************)
\* Asking, lapsing, suspending and offering again send one message about a request
\* that was asked, and decide nothing.
LEMMA UndecidedKeeps ==
  ASSUME IInv, NEW i \in Ids, NEW type \in ToDeviceTypes, NEW o \in {"pending", "lapsed"},
         outcome' = [outcome EXCEPT ![i] = o], toDevice' = Append(toDevice, Down(type, i)),
         UNCHANGED <<connected, disconnects, device, toGateway, opinions>>,
         resumes' \in 0..MaxResumes
  PROVE  IInv'
  <1> USE DEF Decisions, Outcomes
  <1>1. outcome \in [Ids -> Outcomes] /\ connected \in BOOLEAN /\ disconnects \in 0..MaxDisconnects
    BY DEF IInv, TypeOK
  <1>2. /\ outcome' \in [Ids -> Outcomes] /\ outcome'[i] = o
        /\ \A j \in Ids : outcome[j] # "unasked" => outcome'[j] # "unasked"
        /\ \A j \in Ids : outcome'[j] \in Decisions => outcome'[j] = outcome[j]
    BY <1>1
  <1>3. \A j \in Ids : outcome'[j] \in Decisions => outcome'[j] \in opinions[j]
    BY <1>2 DEF IInv, AnsweredAsTapped
  <1>4. toDevice' \in Seq(DownSet) /\ Asked(toDevice')
    BY <1>2, DeviceGets DEF IInv, Asked
  <1>5. toGateway' \in Seq(Up) /\ ResponsesAreTapped' BY Kept
  <1>6. connected' \in BOOLEAN /\ disconnects' \in 0..MaxDisconnects BY <1>1
  <1> QED BY <1>2, <1>3, <1>4, <1>5, <1>6, GatewayStep

\* A response answers its own request with what was tapped on it.
LEMMA GatewayReceivesKeeps ==
  ASSUME IInv, GatewayReceives
  PROVE  IInv'
  <1> DEFINE m == Head(toGateway)
  <1>1. toGateway \in Seq(Up) /\ toGateway # <<>> /\ toGateway' = Tail(toGateway)
    BY Kept DEF GatewayReceives
  <1>2. /\ m \in Up /\ toGateway' \in Seq(Up) /\ Len(toGateway') = Len(toGateway) - 1
        /\ \A k \in 1..Len(toGateway') : toGateway'[k] = toGateway[k + 1]
    BY <1>1, HeadTailProperties
  <1>3. Len(toGateway) \in Nat \ {0} /\ m = toGateway[1] BY <1>1
  <1>4. ResponsesAreTapped'
    <2>1. \A k \in 1..Len(toGateway') : k + 1 \in 1..Len(toGateway) BY <1>2, <1>3
    <2>2. UNCHANGED opinions BY DEF GatewayReceives
    <2> QED BY <1>2, <2>1, <2>2 DEF IInv, ResponsesAreTapped
  <1>5. m.type = "response" => m.decision \in opinions[m.id]
    BY <1>3 DEF IInv, ResponsesAreTapped
  <1>6. m.id \in Ids BY <1>2 DEF Up
  <1>7. /\ UNCHANGED <<connected, disconnects, resumes, device, opinions>>
        /\ connected' \in BOOLEAN /\ disconnects' \in 0..MaxDisconnects
        /\ resumes' \in 0..MaxResumes
    BY DEF GatewayReceives, IInv, TypeOK
  <1>8. CASE UNCHANGED <<outcome, toDevice>>
    <2>1. toDevice' \in Seq(DownSet) /\ Asked(toDevice') BY <1>8, Kept
    <2>2. outcome' \in [Ids -> Outcomes] BY <1>8 DEF IInv, TypeOK
    <2>3. \A i \in Ids : outcome'[i] \in Decisions => outcome'[i] \in opinions[i]
      BY <1>8 DEF IInv, AnsweredAsTapped
    <2>4. \A i \in Ids : outcome[i] # "unasked" => outcome'[i] # "unasked" BY <1>8
    <2> QED BY <1>2, <1>4, <1>7, <2>1, <2>2, <2>3, <2>4, GatewayStep
  <1>9. CASE Answers(m) /\ outcome' = [outcome EXCEPT ![EntryOf(m)] = m.decision]
                       /\ toDevice' = Append(toDevice, Down("resolved", EntryOf(m)))
    <2>1. m.decision \in opinions[m.id] /\ EntryOf(m) = m.id BY <1>5, <1>9 DEF Answers, EntryOf
    <2>2. m.decision \in Decisions BY <1>6, <2>1 DEF IInv, TypeOK
    <2>3. outcome \in [Ids -> Outcomes] BY DEF IInv, TypeOK
    <2>4. /\ outcome' \in [Ids -> Outcomes] /\ outcome'[m.id] = m.decision
          /\ \A i \in Ids \ {m.id} : outcome'[i] = outcome[i]
      BY <1>6, <1>9, <2>1, <2>2, <2>3 DEF Decisions, Outcomes
    <2>5. outcome'[m.id] # "unasked" BY <2>2, <2>4 DEF Decisions
    <2>6. \A i \in Ids : outcome[i] # "unasked" => outcome'[i] # "unasked" BY <2>4, <2>5
    <2>7. \A i \in Ids : outcome'[i] \in Decisions => outcome'[i] \in opinions[i]
      BY <2>1, <2>4 DEF IInv, AnsweredAsTapped
    <2>8. toDevice' \in Seq(DownSet) /\ Asked(toDevice')
      <3>1. "resolved" \in ToDeviceTypes BY DEF ToDeviceTypes
      <3>2. PICK i \in Ids : i = m.id BY <1>6
      <3>3. toDevice' = Append(toDevice, Down("resolved", i)) BY <1>9, <2>1, <3>2
      <3>4. outcome'[i] # "unasked" BY <2>5, <3>2
      <3> QED BY <2>6, <3>1, <3>3, <3>4, DeviceGets DEF IInv, Asked
    <2> QED BY <1>2, <1>4, <1>7, <2>4, <2>6, <2>7, <2>8, GatewayStep
  <1> QED BY <1>8, <1>9 DEF GatewayReceives

\* A lost connection loses what was on its way and lets everything asked lapse.
LEMMA ConnectionKeeps ==
  ASSUME IInv, Disconnect \/ Connect
  PROVE  IInv'
  <1> USE DEF IInv, TypeOK
  <1>1. CASE Disconnect
    <2>1. /\ outcome' = [i \in Ids |-> IF outcome[i] = "pending" THEN "lapsed" ELSE outcome[i]]
          /\ toDevice' = <<>> /\ toGateway' = <<>>
          /\ connected' \in BOOLEAN /\ UNCHANGED <<resumes, device, opinions>>
      BY <1>1 DEF Disconnect
    <2>2. disconnects' \in 0..MaxDisconnects /\ resumes' \in 0..MaxResumes
      BY <1>1 DEF Disconnect
    <2>3. outcome' \in [Ids -> Outcomes] BY <2>1 DEF Outcomes
    <2>4. /\ \A i \in Ids : outcome[i] # "unasked" => outcome'[i] # "unasked"
          /\ \A i \in Ids : outcome'[i] \in Decisions => outcome'[i] \in opinions[i]
      BY <2>1 DEF AnsweredAsTapped, Decisions
    <2>5. toDevice' \in Seq(DownSet) /\ Asked(toDevice') BY <2>1 DEF Asked
    <2>6. toGateway' \in Seq(Up) /\ ResponsesAreTapped' BY <2>1 DEF ResponsesAreTapped
    <2> HIDE DEF IInv
    <2> QED BY <2>1, <2>2, <2>3, <2>4, <2>5, <2>6, GatewayStep
  <1>2. CASE Connect
    <2>1. UNCHANGED <<outcome, disconnects, resumes, device, toDevice, toGateway, opinions>>
          /\ connected' \in BOOLEAN
      BY <1>2 DEF Connect
    <2>2. \A i \in Ids : outcome'[i] \in Decisions => outcome'[i] \in opinions[i]
      BY <2>1 DEF AnsweredAsTapped
    <2>3. /\ outcome' \in [Ids -> Outcomes] /\ disconnects' \in 0..MaxDisconnects
          /\ resumes' \in 0..MaxResumes
      BY <2>1
    <2>4. /\ toDevice' \in Seq(DownSet) /\ Asked(toDevice')
          /\ toGateway' \in Seq(Up) /\ ResponsesAreTapped'
      BY <2>1, Kept
    <2> HIDE DEF IInv
    <2> QED BY <2>1, <2>2, <2>3, <2>4, GatewayStep
  <1> QED BY <1>1, <1>2

\* Every step of the controller, the peer and the network keeps the invariant.
LEMMA GatewayKeeps ==
  ASSUME IInv, NEW i \in Ids,
         RequestApproval(i) \/ Timeout(i) \/ PeerSuspends(i) \/ PeerOffersAgain(i)
  PROVE  IInv'
  <1>1. outcome \in [Ids -> Outcomes] /\ resumes \in 0..MaxResumes BY DEF IInv, TypeOK
  <1>2. {"request", "suspended"} \subseteq ToDeviceTypes BY DEF ToDeviceTypes
  <1>3. CASE RequestApproval(i)
    BY <1>1, <1>2, <1>3, UndecidedKeeps DEF RequestApproval
  <1>4. CASE Timeout(i)
    BY <1>1, <1>2, <1>4, UndecidedKeeps DEF Timeout
  <1>5. CASE PeerSuspends(i)
    <2>1. outcome' = [outcome EXCEPT ![i] = "pending"]
      BY <1>1, <1>5 DEF PeerSuspends, gateway
    <2> QED BY <1>1, <1>2, <1>5, <2>1, UndecidedKeeps DEF PeerSuspends, gateway
  <1>6. CASE PeerOffersAgain(i)
    <2>1. outcome' = [outcome EXCEPT ![i] = "pending"]
      BY <1>1, <1>6 DEF PeerOffersAgain
    <2>2. resumes' \in 0..MaxResumes
      <3>1. resumes < MaxResumes /\ resumes' = resumes + 1 BY <1>6 DEF PeerOffersAgain
      <3> QED BY <1>1, <3>1
    <2> QED BY <1>2, <1>6, <2>1, <2>2, UndecidedKeeps DEF PeerOffersAgain
  <1> QED BY <1>3, <1>4, <1>5, <1>6
-----------------------------------------------------------------------------
(***************************************************************************)
(* The device.                                                             *)
(***************************************************************************)
\* Handling a message about i, a request that was asked.
Handled(i) ==
  \/ UNCHANGED <<queue, decision, suspended, timer, toGateway>>
  \/ ReceiveKnownRequest(i) \/ ReceiveNewRequest(i) \/ ReceiveResolved(i) \/ ReceiveSuspended(i)

\* What it leaves of the queue, the decisions and the retry timer.
LEMMA HandledKeeps ==
  ASSUME IInv, NEW i \in Ids, outcome[i] # "unasked", Handled(i), UNCHANGED opinions
  PROVE  /\ toGateway' \in Seq(Up) /\ ResponsesAreTapped'
         /\ queue' \in Seq(Ids) /\ \A k \in 1..Len(queue') : outcome[queue'[k]] # "unasked"
         /\ decision' \in [Ids -> Decisions \cup {"none"}] /\ suspended' \subseteq Ids
         /\ \A j \in Ids : decision'[j] # "none" => decision'[j] \in opinions'[j]
         /\ timer' \in Ids \cup {None} /\ (timer' # None => IsHead(queue', timer'))
  <1> USE DEF IInv
  <1>1. /\ queue \in Seq(Ids) /\ decision \in [Ids -> Decisions \cup {"none"}]
        /\ suspended \subseteq Ids /\ timer \in Ids \cup {None}
        /\ \A k \in 1..Len(queue) : outcome[queue[k]] # "unasked"
        /\ \A j \in Ids : decision[j] # "none" => decision[j] \in opinions[j]
        /\ timer # None => IsHead(queue, timer)
    BY DEF TypeOK, HeardWasAsked, DecisionsAreTapped, RetryIsActive
  <1>2. CASE UNCHANGED <<queue, decision, suspended, timer, toGateway>>
    <2>1. toGateway' \in Seq(Up) /\ ResponsesAreTapped' BY <1>2, Kept
    <2> QED BY <1>1, <1>2, <2>1 DEF IsHead
  <1>3. CASE ReceiveKnownRequest(i)
    <2>1. UNCHANGED <<queue, decision>> /\ suspended' \subseteq Ids
      BY <1>1, <1>3 DEF ReceiveKnownRequest
    <2>2. CASE IsHead(queue, i) /\ decision[i] = "none" /\ Sends(Presented(i)) /\ UNCHANGED timer
      <3>1. toGateway' \in Seq(Up) /\ ResponsesAreTapped'
        BY <2>2, Messages, SendsKeeps
      <3> QED BY <1>1, <2>1, <2>2, <3>1 DEF IsHead
    <2>3. CASE IsHead(queue, i) /\ decision[i] # "none" /\ Sends(Response(i, decision[i])) /\ timer' = i
      <3>1. decision[i] \in Decisions \cup {"none"} BY <1>1
      <3>2. /\ Response(i, decision[i]) \in Up /\ Response(i, decision[i]).id = i
            /\ Response(i, decision[i]).decision = decision[i]
        BY <3>1, Messages
      <3>3. toGateway' \in Seq(Up) /\ ResponsesAreTapped'
        BY <1>1, <2>3, <3>2, SendsKeeps
      <3> QED BY <1>1, <2>1, <2>3, <3>3 DEF IsHead
    <2>4. CASE UNCHANGED <<timer, toGateway>>
      <3>1. toGateway' \in Seq(Up) /\ ResponsesAreTapped' BY <2>4, Kept
      <3> QED BY <1>1, <2>1, <2>4, <3>1 DEF IsHead
    <2> QED BY <1>3, <2>2, <2>3, <2>4 DEF ReceiveKnownRequest
  <1>4. CASE ReceiveNewRequest(i)
    <2>1. UNCHANGED <<decision, suspended>> /\ queue' = Append(queue, i)
      BY <1>4 DEF ReceiveNewRequest
    <2>2. /\ queue' \in Seq(Ids)
          /\ \A k \in 1..Len(queue') : outcome[queue'[k]] # "unasked"
      BY <1>1, <2>1
    <2>3. CASE queue = <<>>
      <3>1. PICK q \in Seq(Ids) : q = queue' BY <2>2
      <3>2. ShowNext(q) BY <1>4, <2>3, <3>1 DEF ReceiveNewRequest
      <3>3. /\ toGateway' \in Seq(Up) /\ ResponsesAreTapped'
            /\ timer' \in Ids \cup {None} /\ (timer' # None => IsHead(q, timer'))
        BY <3>2, ShowNextKeeps
      <3> QED BY <1>1, <2>1, <2>2, <3>1, <3>3
    <2>4. CASE queue # <<>>
      <3>1. UNCHANGED <<timer, toGateway>> BY <1>4, <2>4 DEF ReceiveNewRequest
      <3>2. toGateway' \in Seq(Up) /\ ResponsesAreTapped' BY <3>1, Kept
      <3>3. queue' # <<>> /\ Head(queue') = Head(queue) BY <1>1, <2>1, <2>4
      <3>4. timer' # None => IsHead(queue', timer') BY <1>1, <3>1, <3>3 DEF IsHead
      <3> QED BY <1>1, <2>1, <2>2, <3>1, <3>2, <3>4
    <2> QED BY <2>3, <2>4
  <1>5. CASE ReceiveSuspended(i) /\ i \in Queued
    <2>1. UNCHANGED <<queue, decision, toGateway>> /\ suspended' = suspended \cup {i}
          /\ (timer' = timer \/ timer' = None)
      BY <1>5 DEF ReceiveSuspended
    <2>2. toGateway' \in Seq(Up) /\ ResponsesAreTapped' BY <2>1, Kept
    <2> QED BY <1>1, <2>1, <2>2 DEF IsHead
  <1>6. ASSUME NEW k \in 1..Len(queue), queue' = Without(k),
               decision' = [decision EXCEPT ![i] = "none"], suspended' = suspended \ {i},
               IF k = 1 THEN ShowNext(queue') ELSE UNCHANGED <<timer, toGateway>>
        PROVE  /\ toGateway' \in Seq(Up) /\ ResponsesAreTapped'
               /\ queue' \in Seq(Ids) /\ \A l \in 1..Len(queue') : outcome[queue'[l]] # "unasked"
               /\ decision' \in [Ids -> Decisions \cup {"none"}] /\ suspended' \subseteq Ids
               /\ \A j \in Ids : decision'[j] # "none" => decision'[j] \in opinions'[j]
               /\ timer' \in Ids \cup {None} /\ (timer' # None => IsHead(queue', timer'))
    <2>1. PICK q \in Seq(Ids) : q = queue' BY <1>6, WithoutEffect
    <2>2. \A l \in 1..Len(q) : outcome[q[l]] # "unasked"
      <3>1. \A l \in 1..Len(q) : \E n \in 1..Len(queue) : q[l] = queue[n]
        BY <1>6, <2>1, WithoutEffect
      <3> QED BY <1>1, <3>1
    <2>3. decision' \in [Ids -> Decisions \cup {"none"}]
      BY <1>1, <1>6
    <2>4. \A j \in Ids : decision'[j] # "none" => decision'[j] \in opinions'[j]
      BY <1>1, <1>6
    <2>5. CASE k = 1
      <3>1. ShowNext(q) BY <1>6, <2>1, <2>5
      <3>2. /\ toGateway' \in Seq(Up) /\ ResponsesAreTapped'
            /\ timer' \in Ids \cup {None} /\ (timer' # None => IsHead(q, timer'))
        BY <3>1, ShowNextKeeps
      <3> QED BY <1>1, <1>6, <2>1, <2>2, <2>3, <2>4, <3>2
    <2>6. CASE k # 1
      <3>1. UNCHANGED <<timer, toGateway>> BY <1>6, <2>6
      <3>2. toGateway' \in Seq(Up) /\ ResponsesAreTapped' BY <3>1, Kept
      <3>3. q # <<>> /\ Head(q) = Head(queue) BY <1>6, <2>1, <2>6, WithoutEffect
      <3>4. timer' # None => IsHead(q, timer') BY <1>1, <3>1, <3>3 DEF IsHead
      <3> QED BY <1>1, <1>6, <2>1, <2>2, <2>3, <2>4, <3>1, <3>2, <3>4
    <2> QED BY <2>5, <2>6
  <1>7. CASE ReceiveResolved(i) \/ ReceiveSuspended(i)
    BY <1>2, <1>5, <1>6, <1>7 DEF ReceiveResolved, ReceiveSuspended
  <1> QED BY <1>2, <1>3, <1>4, <1>7 DEF Handled

\* Every message is about a request that was asked; a closed session hears none.
LEMMA DeviceReceivesKeeps ==
  ASSUME IInv, DeviceReceives
  PROVE  IInv'
  <1>1. toDevice # <<>> /\ toDevice' = Tail(toDevice) /\ UNCHANGED <<gateway, open, activations, opinions>>
    BY DEF DeviceReceives
  <1>2. /\ toDevice' \in Seq(DownSet) /\ Asked(toDevice')
        /\ Head(toDevice) \in DownSet /\ outcome[Head(toDevice).id] # "unasked"
    BY <1>1, DeviceTakes DEF IInv, Asked, gateway
  <1>3. Head(toDevice).id \in Ids BY <1>2 DEF DownSet
  <1>4. PICK i \in Ids : i = Head(toDevice).id BY <1>3
  <1>5. Handled(i) BY <1>4 DEF DeviceReceives, Handled
  <1>6. outcome[i] # "unasked" BY <1>2, <1>4
  <1>7. /\ toGateway' \in Seq(Up) /\ ResponsesAreTapped'
        /\ queue' \in Seq(Ids) /\ \A k \in 1..Len(queue') : outcome[queue'[k]] # "unasked"
        /\ decision' \in [Ids -> Decisions \cup {"none"}] /\ suspended' \subseteq Ids
        /\ \A j \in Ids : decision'[j] # "none" => decision'[j] \in opinions'[j]
        /\ timer' \in Ids \cup {None} /\ (timer' # None => IsHead(queue', timer'))
    BY <1>1, <1>5, <1>6, HandledKeeps
  <1>8. /\ open' \in BOOLEAN /\ activations' \in 0..MaxActivations
        /\ opinions' \in [Ids -> SUBSET Decisions] /\ opinions' = opinions
    BY <1>1 DEF IInv, TypeOK
  <1> QED BY <1>1, <1>2, <1>7, <1>8, DeviceStep

\* A tap is recorded, kept, sent and repeated for the request on the screen.
LEMMA DecideKeeps ==
  ASSUME IInv, NEW d \in Decisions, Decide(d)
  PROVE  IInv'
  <1>1. /\ queue \in Seq(Ids) /\ decision \in [Ids -> Decisions \cup {"none"}]
        /\ suspended \subseteq Ids /\ opinions \in [Ids -> SUBSET Decisions]
        /\ open \in BOOLEAN /\ activations \in 0..MaxActivations
        /\ \A k \in 1..Len(queue) : outcome[queue[k]] # "unasked"
        /\ \A j \in Ids : decision[j] # "none" => decision[j] \in opinions[j]
    BY DEF IInv, TypeOK, HeardWasAsked, DecisionsAreTapped
  <1>2. queue # <<>> BY DEF Decide
  <1>3. PICK i \in Ids : i = Head(queue) BY <1>1, <1>2
  <1>4. /\ decision' = [decision EXCEPT ![i] = d] /\ opinions' = [opinions EXCEPT ![i] = @ \cup {d}]
        /\ timer' = i /\ Sends(Response(i, d))
        /\ UNCHANGED <<gateway, queue, suspended, open, activations, toDevice>>
    BY <1>3 DEF Decide
  <1>5. /\ opinions' \in [Ids -> SUBSET Decisions] /\ d \in opinions'[i]
        /\ \A j \in Ids : opinions[j] \subseteq opinions'[j]
    BY <1>1, <1>4
  <1>6. /\ decision' \in [Ids -> Decisions \cup {"none"}]
        /\ \A j \in Ids : decision'[j] # "none" => decision'[j] \in opinions'[j]
    BY <1>1, <1>4, <1>5
  <1>7. toGateway' \in Seq(Up) /\ ResponsesAreTapped'
    <2>1. /\ Response(i, d) \in Up /\ Response(i, d).id = i /\ Response(i, d).decision = d
      BY Messages
    <2> QED BY <1>4, <1>5, <2>1, SendsKeeps DEF IInv
  <1>8. toDevice' \in Seq(DownSet) /\ Asked(toDevice') BY <1>4, Kept DEF gateway
  <1>9. timer' # None => IsHead(queue', timer') BY <1>2, <1>3, <1>4 DEF IsHead
  <1> QED BY <1>1, <1>4, <1>5, <1>6, <1>7, <1>8, <1>9, DeviceStep

\* The repeated decision was tapped on that request.
LEMMA RetryKeeps ==
  ASSUME IInv, RetryDecision
  PROVE  IInv'
  <1>1. timer \in Ids BY DEF IInv, TypeOK, RetryDecision
  <1>2. PICK i \in Ids : i = timer BY <1>1
  <1>3. /\ decision[i] \in Decisions \cup {"none"} /\ decision[i] \in opinions[i]
    BY <1>2 DEF RetryDecision, IInv, TypeOK, DecisionsAreTapped
  <1>4. Sends(Response(i, decision[i])) /\ UNCHANGED <<gateway, device, toDevice, opinions>>
    BY <1>2 DEF RetryDecision, Sends
  <1>5. toGateway' \in Seq(Up) /\ ResponsesAreTapped'
    <2>1. /\ Response(i, decision[i]) \in Up /\ Response(i, decision[i]).id = i
          /\ Response(i, decision[i]).decision = decision[i]
      BY <1>3, Messages
    <2> QED BY <1>3, <1>4, <2>1, SendsKeeps DEF IInv
  <1>6. toDevice' \in Seq(DownSet) /\ Asked(toDevice') BY <1>4, Kept DEF gateway
  <1>7. outcome' \in [Ids -> Outcomes] /\ connected' \in BOOLEAN
        /\ disconnects' \in 0..MaxDisconnects /\ resumes' \in 0..MaxResumes
    BY <1>4 DEF IInv, TypeOK, gateway
  <1>8. /\ \A j \in Ids : outcome[j] # "unasked" => outcome'[j] # "unasked"
        /\ \A j \in Ids : outcome'[j] \in Decisions => outcome'[j] \in opinions[j]
    BY <1>4 DEF IInv, AnsweredAsTapped, gateway
  <1>9. UNCHANGED <<device, opinions>> BY <1>4
  <1> QED BY <1>5, <1>6, <1>7, <1>8, <1>9, GatewayStep

\* Dropping the session forgets the queue and stops the timer.
LEMMA ActivationKeeps ==
  ASSUME IInv, Deactivate \/ Activate
  PROVE  IInv'
  <1>1. UNCHANGED <<gateway, toDevice, toGateway, opinions>> BY DEF Deactivate, Activate
  <1>2. /\ toDevice' \in Seq(DownSet) /\ Asked(toDevice')
        /\ toGateway' \in Seq(Up) /\ ResponsesAreTapped'
    BY <1>1, Kept DEF gateway
  <1>3. opinions' \in [Ids -> SUBSET Decisions] /\ opinions' = opinions
    BY <1>1 DEF IInv, TypeOK
  <1>4. CASE Deactivate
    <2>1. /\ queue' = <<>> /\ decision' = [i \in Ids |-> "none"] /\ suspended' = {} /\ timer' = None
          /\ open' = FALSE
      BY <1>4 DEF Deactivate
    <2>2. activations' \in 0..MaxActivations BY <1>4 DEF Deactivate, IInv, TypeOK
    <2>3. queue' \in Seq(Ids) /\ \A k \in 1..Len(queue') : outcome[queue'[k]] # "unasked"
      BY <2>1
    <2> QED BY <1>1, <1>2, <1>3, <2>1, <2>2, <2>3, DeviceStep
  <1>5. CASE Activate
    <2>1. UNCHANGED <<queue, decision, suspended, timer, activations>> /\ open' = TRUE
      BY <1>5 DEF Activate
    <2>2. /\ queue' \in Seq(Ids) /\ \A k \in 1..Len(queue') : outcome[queue'[k]] # "unasked"
          /\ decision' \in [Ids -> Decisions \cup {"none"}] /\ suspended' \subseteq Ids
          /\ activations' \in 0..MaxActivations /\ timer' \in Ids \cup {None}
      BY <2>1 DEF IInv, TypeOK, HeardWasAsked
    <2>3. /\ \A j \in Ids : decision'[j] # "none" => decision'[j] \in opinions'[j]
          /\ timer' # None => IsHead(queue', timer')
      BY <1>3, <2>1 DEF IInv, DecisionsAreTapped, RetryIsActive, IsHead
    <2> QED BY <1>1, <1>2, <1>3, <2>1, <2>2, <2>3, DeviceStep
  <1> QED BY <1>4, <1>5

\* Doing nothing keeps it.
LEMMA StutterKeeps ==
  ASSUME IInv, UNCHANGED vars
  PROVE  IInv'
  BY DEF vars, gateway, device, IInv, TypeOK, ResponsesAreTapped, DecisionsAreTapped,
         HeardWasAsked, AnsweredAsTapped, RetryIsActive, IsHead

\* Every step keeps the invariant.
LEMMA NextKeeps == IInv /\ [Next]_vars => IInv'
  <1> SUFFICES ASSUME IInv, [Next]_vars PROVE IInv'
    OBVIOUS
  <1>1. CASE \E i \in Ids : RequestApproval(i) \/ Timeout(i) \/ PeerSuspends(i) \/ PeerOffersAgain(i)
    BY <1>1, GatewayKeeps
  <1>2. CASE GatewayReceives BY <1>2, GatewayReceivesKeeps
  <1>3. CASE Disconnect \/ Connect BY <1>3, ConnectionKeeps
  <1>4. CASE DeviceReceives BY <1>4, DeviceReceivesKeeps
  <1>5. CASE RetryDecision BY <1>5, RetryKeeps
  <1>6. CASE Deactivate \/ Activate BY <1>6, ActivationKeeps
  <1>7. CASE \E d \in Decisions : Decide(d) BY <1>7, DecideKeeps
  <1>8. CASE UNCHANGED vars BY <1>8, StutterKeeps
  <1> QED BY <1>1, <1>2, <1>3, <1>4, <1>5, <1>6, <1>7, <1>8 DEF Next

\* The inductive invariant holds throughout.
LEMMA Invariant == Spec => []IInv
  BY InitIInv, NextKeeps, PTL DEF Spec
-----------------------------------------------------------------------------
(***************************************************************************)
(* Results.                                                                *)
(***************************************************************************)
\* Every variable keeps its type, on both sides and in flight.
THEOREM TypeCorrect == Spec => []TypeOK
  <1>1. IInv => TypeOK BY DEF IInv
  <1> QED BY <1>1, Invariant, PTL

\* The caller is told only what the operator tapped on that very request, for any
\* number of requests, reconnects, retries and withdrawn sessions.
THEOREM AnsweredIsTapped == Spec => []AnsweredAsTapped
  <1>1. IInv => AnsweredAsTapped BY DEF IInv
  <1> QED BY <1>1, Invariant, PTL

\* The retry timer always belongs to the request on the screen.
THEOREM RetryStaysActive == Spec => []RetryIsActive
  <1>1. IInv => RetryIsActive BY DEF IInv
  <1> QED BY <1>1, Invariant, PTL
-----------------------------------------------------------------------------
(***************************************************************************)
(* A resolved request leaves the queue.                                    *)
(***************************************************************************)
\* The queue holds a request once.
Distinct == \A j, k \in 1..Len(queue) : queue[j] = queue[k] => j = k

\* approval.resolved of i is among messages, at place k or later.
Follows(messages, k, i) == \E j \in k..Len(messages) : messages[j] = Down("resolved", i)

\* A request that reaches the device after its answer is followed by its
\* approval.resolved.
RequestsAreReleased ==
  disconnects = 0 => \A k \in 1..Len(toDevice) :
    toDevice[k].type = "request" /\ outcome[toDevice[k].id] \in Decisions =>
      Follows(toDevice, k + 1, toDevice[k].id)

\* So is one that is queued.
QueuedAreReleased ==
  disconnects = 0 => \A k \in 1..Len(queue) :
    outcome[queue[k]] \in Decisions => Follows(toDevice, 1, queue[k])

\* A closed approval session has no queue, so it loses nothing by hearing nothing.
ClosedIsEmpty == ~open => queue = <<>>

\* What ResolvedIsReleased needs besides IInv.
Releases == Distinct /\ RequestsAreReleased /\ QueuedAreReleased /\ ClosedIsEmpty

\* A queue of distinct requests has as many of them as places.
LEMMA DistinctCounts ==
  ASSUME TypeOK, Distinct
  PROVE  Cardinality(Queued) = Len(queue)
  <1>1. queue \in Seq(Ids) /\ Len(queue) \in Nat BY DEF TypeOK
  <1>2. queue \in [1..Len(queue) -> Queued] BY <1>1 DEF Queued
  <1>3. queue \in Injection(1..Len(queue), Queued)
    BY <1>2 DEF Injection, IsInjective, Distinct
  <1>4. queue \in Surjection(1..Len(queue), Queued)
    BY <1>2 DEF Surjection, Queued
  <1>5. ExistsBijection(1..Len(queue), Queued)
    BY <1>3, <1>4 DEF ExistsBijection, Bijection
  <1> QED BY <1>1, <1>5, FS_CountingElements

\* A message of the controller or the peer: only an approval.resolved goes with a
\* new answer, and a request is only sent while it has none.
LEMMA SentKeepsReleases ==
  ASSUME IInv, Releases, NEW i \in Ids, NEW type \in ToDeviceTypes,
         toDevice' = Append(toDevice, Down(type, i)),
         \A j \in Ids : outcome'[j] \in Decisions =>
           outcome[j] \in Decisions \/ (j = i /\ type = "resolved"),
         type = "request" => outcome'[i] \notin Decisions,
         UNCHANGED <<queue, open, disconnects>>
  PROVE  Releases'
  <1>0. toDevice \in Seq(DownSet) /\ queue \in Seq(Ids) BY DEF IInv, TypeOK, DownSet
  <1>1. /\ toDevice \in Seq(DownSet) /\ Len(toDevice) \in Nat /\ queue \in Seq(Ids)
        /\ \A k \in 1..Len(toDevice) : toDevice[k] \in DownSet
    BY <1>0
  <1>2. /\ Len(toDevice') = Len(toDevice) + 1
        /\ toDevice'[Len(toDevice) + 1] = Down(type, i)
        /\ \A k \in 1..Len(toDevice) : toDevice'[k] = toDevice[k]
    BY <1>1
  <1>3. ASSUME NEW k \in Nat, k \in 1..(Len(toDevice) + 1), NEW j \in Ids,
               Follows(toDevice, k, j) \/ (j = i /\ type = "resolved")
        PROVE  Follows(toDevice', k, j)
    <2>1. CASE Follows(toDevice, k, j)
      BY <1>1, <1>2, <1>3, <2>1 DEF Follows
    <2>2. CASE j = i /\ type = "resolved"
      BY <1>1, <1>2, <1>3, <2>2 DEF Follows
    <2> QED BY <1>3, <2>1, <2>2
  <1>4. RequestsAreReleased'
    <2>1. SUFFICES ASSUME disconnects = 0, NEW k \in 1..Len(toDevice'),
                          toDevice'[k].type = "request", outcome'[toDevice'[k].id] \in Decisions
                   PROVE  Follows(toDevice', k + 1, toDevice'[k].id)
      BY DEF RequestsAreReleased, Follows
    <2>2. k \in 1..Len(toDevice)
      <3>1. Down(type, i).type = type /\ Down(type, i).id = i BY DEF Down
      <3> QED BY <1>1, <1>2, <2>1, <3>1
    <2>3. toDevice'[k] = toDevice[k] /\ toDevice[k].id \in Ids
      BY <1>1, <1>2, <2>2 DEF DownSet
    <2>4. \/ outcome[toDevice[k].id] \in Decisions
          \/ toDevice[k].id = i /\ type = "resolved"
      BY <2>1, <2>3
    <2>5. Follows(toDevice, k + 1, toDevice[k].id) \/ (toDevice[k].id = i /\ type = "resolved")
      BY <2>1, <2>2, <2>3, <2>4 DEF Releases, RequestsAreReleased
    <2>6. k + 1 \in Nat /\ k + 1 \in 1..(Len(toDevice) + 1) BY <1>1, <2>2
    <2>7. PICK j \in Ids : j = toDevice[k].id BY <2>3
    <2> QED BY <1>3, <2>3, <2>5, <2>6, <2>7
  <1>5. QueuedAreReleased'
    <2>1. SUFFICES ASSUME disconnects = 0, NEW k \in 1..Len(queue), outcome'[queue[k]] \in Decisions
                   PROVE  Follows(toDevice', 1, queue[k])
      BY DEF QueuedAreReleased, Follows
    <2>2. PICK j \in Ids : j = queue[k] BY <1>1
    <2>3. outcome[j] \in Decisions \/ (j = i /\ type = "resolved") BY <2>1, <2>2
    <2>4. Follows(toDevice, 1, j) \/ (j = i /\ type = "resolved")
      BY <2>1, <2>2, <2>3 DEF Releases, QueuedAreReleased
    <2>5. Follows(toDevice', 1, j) BY <1>1, <1>3, <2>4
    <2> QED BY <2>2, <2>5
  <1>6. Distinct' /\ ClosedIsEmpty' BY DEF Releases, Distinct, ClosedIsEmpty
  <1> QED BY <1>4, <1>5, <1>6 DEF Releases

\* A step that leaves the answers, the messages to the device and the queue.
LEMMA QuietKeepsReleases ==
  ASSUME Releases, UNCHANGED <<outcome, toDevice, disconnects>>,
         queue' = <<>> \/ UNCHANGED <<queue, open>> \/ (UNCHANGED queue /\ open')
  PROVE  Releases'
  <1>1. RequestsAreReleased' BY DEF Releases, RequestsAreReleased, Follows
  <1>2. QueuedAreReleased' BY DEF Releases, QueuedAreReleased, Follows
  <1>3. Distinct' BY DEF Releases, Distinct
  <1>4. ClosedIsEmpty' BY DEF Releases, ClosedIsEmpty
  <1> QED BY <1>1, <1>2, <1>3, <1>4 DEF Releases

\* Handling a message leaves the queue, appends a new request, or takes a resolved
\* one out.
LEMMA HandledQueue ==
  ASSUME NEW m, m = Head(toDevice), DeviceReceives
  PROVE  \/ ~open /\ UNCHANGED queue
         \/ m.type # "resolved" /\ UNCHANGED queue
         \/ m.type = "resolved" /\ m.id \notin Queued /\ UNCHANGED queue
         \/ m.type = "request" /\ m.id \notin Queued /\ queue' = Append(queue, m.id)
         \/ m.type = "resolved" /\ \E k \in 1..Len(queue) : queue[k] = m.id /\ queue' = Without(k)
  BY DEF DeviceReceives, ReceiveKnownRequest, ReceiveNewRequest, ReceiveResolved, ReceiveSuspended

\* The entries left by splice are those at the other places, in their order.
LEMMA WithoutOthers ==
  ASSUME TypeOK, Distinct, NEW k \in 1..Len(queue)
  PROVE  /\ \A j \in 1..Len(Without(k)) : \E l \in 1..Len(queue) : l # k /\ Without(k)[j] = queue[l]
         /\ \A j, l \in 1..Len(Without(k)) : Without(k)[j] = Without(k)[l] => j = l
  <1>1. Len(Without(k)) = Len(queue) - 1 BY WithoutEffect
  <1>2. Len(queue) \in Nat BY DEF TypeOK
  <1> DEFINE place(j) == IF j < k THEN j ELSE j + 1
  <1>3. \A j \in 1..(Len(queue) - 1) : Without(k)[j] = queue[place(j)] BY DEF Without
  <1>4. \A j \in 1..(Len(queue) - 1) : place(j) \in 1..Len(queue) /\ place(j) # k BY <1>2
  <1>5. \A j, l \in 1..(Len(queue) - 1) : place(j) = place(l) => j = l BY <1>2
  <1> HIDE DEF place
  <1>6. \A j, l \in 1..(Len(queue) - 1) : Without(k)[j] = Without(k)[l] => j = l
    BY <1>3, <1>4, <1>5 DEF Distinct
  <1> QED BY <1>1, <1>3, <1>4, <1>6

\* The device takes the oldest message: what follows it still follows.
LEMMA ReceivedKeepsReleases ==
  ASSUME IInv, Releases, DeviceReceives
  PROVE  Releases'
  <1>1. /\ toDevice # <<>> /\ toDevice' = Tail(toDevice)
        /\ UNCHANGED <<outcome, disconnects, open>>
    BY DEF DeviceReceives, gateway
  <1>2. toDevice \in Seq(DownSet) /\ queue \in Seq(Ids) BY DEF IInv, TypeOK, DownSet
  <1>3. /\ Len(toDevice) \in Nat \ {0} /\ Len(toDevice') = Len(toDevice) - 1
        /\ Head(toDevice) = toDevice[1] /\ toDevice[1] \in DownSet
        /\ \A k \in 1..Len(toDevice') : toDevice'[k] = toDevice[k + 1]
    BY <1>1, <1>2, HeadTailProperties
  <1>4. PICK m \in DownSet : m = toDevice[1] BY <1>3
  <1>5. ASSUME NEW k \in Nat, k >= 1, NEW i, Follows(toDevice, k + 1, i) PROVE Follows(toDevice', k, i)
    <2>1. PICK j \in (k + 1)..Len(toDevice) : toDevice[j] = Down("resolved", i)
      BY <1>5 DEF Follows
    <2>2. j - 1 \in k..Len(toDevice') /\ toDevice'[j - 1] = toDevice[j] BY <1>3, <1>5, <2>1
    <2> QED BY <2>1, <2>2 DEF Follows
  <1>6. ASSUME NEW i, Follows(toDevice, 1, i), m # Down("resolved", i) PROVE Follows(toDevice', 1, i)
    <2>1. PICK j \in 1..Len(toDevice) : toDevice[j] = Down("resolved", i)
      BY <1>6 DEF Follows
    <2>2. j # 1 BY <1>4, <1>6, <2>1
    <2>3. Follows(toDevice, 2, i) BY <1>3, <2>1, <2>2 DEF Follows
    <2> QED BY <1>5, <2>3
  <1>7. RequestsAreReleased'
    <2>1. SUFFICES ASSUME disconnects = 0, NEW k \in 1..Len(toDevice'),
                          toDevice'[k].type = "request", outcome[toDevice'[k].id] \in Decisions
                   PROVE  Follows(toDevice', k + 1, toDevice'[k].id)
      BY <1>1 DEF RequestsAreReleased, Follows
    <2>2. k + 1 \in 1..Len(toDevice) /\ toDevice'[k] = toDevice[k + 1] BY <1>3
    <2>3. Follows(toDevice, (k + 1) + 1, toDevice'[k].id)
      BY <2>1, <2>2 DEF Releases, RequestsAreReleased
    <2> QED BY <1>5, <2>3
  <1>8. ASSUME NEW k \in 1..Len(queue), m # Down("resolved", queue[k]), disconnects = 0,
               outcome[queue[k]] \in Decisions
        PROVE  Follows(toDevice', 1, queue[k])
    BY <1>6, <1>8 DEF Releases, QueuedAreReleased
  <1>9. CASE m.type # "resolved" \/ m.id \notin Queued
    <2>1. \A k \in 1..Len(queue) : m # Down("resolved", queue[k])
      BY <1>9 DEF Down, Queued
    <2>2. \A k \in 1..Len(queue) : disconnects = 0 /\ outcome[queue[k]] \in Decisions =>
            Follows(toDevice', 1, queue[k])
      BY <1>8, <2>1
    <2>3. CASE UNCHANGED queue
      <3>1. QueuedAreReleased' BY <1>1, <2>2, <2>3 DEF QueuedAreReleased, Follows
      <3> QED BY <1>1, <1>7, <2>3, <3>1 DEF Releases, Distinct, ClosedIsEmpty
    <2>4. CASE m.type = "request" /\ m.id \notin Queued /\ queue' = Append(queue, m.id) /\ open
      <3>1. m.id \in Ids BY DEF DownSet
      <3>2. /\ Len(queue') = Len(queue) + 1 /\ Len(queue) \in Nat /\ queue'[Len(queue) + 1] = m.id
            /\ \A k \in 1..Len(queue) : queue'[k] = queue[k] /\ queue[k] # m.id
        BY <1>2, <2>4, <3>1 DEF Queued
      <3>3. Distinct' BY <3>2 DEF Releases, Distinct
      <3>4. disconnects = 0 /\ outcome[m.id] \in Decisions => Follows(toDevice', 1, m.id)
        <4>1. SUFFICES ASSUME disconnects = 0, outcome[m.id] \in Decisions
                       PROVE  Follows(toDevice', 1, m.id)
          OBVIOUS
        <4>2. Follows(toDevice, 1 + 1, m.id)
          BY <1>3, <1>4, <2>4, <4>1 DEF Releases, RequestsAreReleased
        <4> QED BY <1>5, <4>2
      <3>5. QueuedAreReleased'
        BY <1>1, <2>2, <3>2, <3>4 DEF QueuedAreReleased, Follows
      <3>6. ClosedIsEmpty' BY <1>1, <2>4 DEF ClosedIsEmpty
      <3> QED BY <1>7, <3>3, <3>5, <3>6 DEF Releases
    <2>5. open \/ UNCHANGED queue BY DEF DeviceReceives
    <2> QED BY <1>3, <1>4, <1>9, <2>3, <2>4, <2>5, HandledQueue DEF Queued
  <1>10. CASE m.type = "resolved" /\ ~open
    <2>1. queue = <<>> /\ UNCHANGED queue
      BY <1>10 DEF DeviceReceives, Releases, ClosedIsEmpty
    <2>2. QueuedAreReleased' /\ Distinct' /\ ClosedIsEmpty'
      BY <1>1, <2>1 DEF QueuedAreReleased, Distinct, ClosedIsEmpty
    <2> QED BY <1>7, <2>2 DEF Releases
  <1>11. CASE m.type = "resolved" /\ open /\ m.id \in Queued
    <2>1. PICK k \in 1..Len(queue) : queue[k] = m.id /\ queue' = Without(k)
      BY <1>3, <1>4, <1>11, HandledQueue
    <2>2. /\ \A j \in 1..Len(queue') : \E l \in 1..Len(queue) : l # k /\ queue'[j] = queue[l]
          /\ \A j, l \in 1..Len(queue') : queue'[j] = queue'[l] => j = l
      BY <2>1, WithoutOthers DEF IInv, Releases
    <2>3. \A l \in 1..Len(queue) : l # k => m # Down("resolved", queue[l])
      BY <2>1 DEF Releases, Distinct, Down
    <2>4. \A l \in 1..Len(queue) : l # k /\ disconnects = 0 /\ outcome[queue[l]] \in Decisions =>
            Follows(toDevice', 1, queue[l])
      BY <1>8, <2>3
    <2>5. \A j \in 1..Len(queue') : disconnects = 0 /\ outcome[queue'[j]] \in Decisions =>
            Follows(toDevice', 1, queue'[j])
      BY <2>2, <2>4
    <2>6. QueuedAreReleased' BY <1>1, <2>5 DEF QueuedAreReleased, Follows
    <2>7. Distinct' /\ ClosedIsEmpty' BY <1>1, <1>11, <2>2 DEF Distinct, ClosedIsEmpty
    <2> QED BY <1>7, <2>6, <2>7 DEF Releases
  <1> QED BY <1>9, <1>10, <1>11

\* Every step leaves what is resolved on its way out of the queue.
LEMMA NextReleases == IInv /\ Releases /\ [Next]_vars => Releases'
  <1> SUFFICES ASSUME IInv, Releases, [Next]_vars PROVE Releases'
    OBVIOUS
  <1>0. outcome \in [Ids -> Outcomes] BY DEF IInv, TypeOK
  <1>1. ASSUME NEW i \in Ids, RequestApproval(i) \/ Timeout(i) \/ PeerSuspends(i) \/ PeerOffersAgain(i)
        PROVE  Releases'
    <2>1. PICK type \in {"request", "suspended"} :
            /\ toDevice' = Append(toDevice, Down(type, i))
            /\ UNCHANGED <<queue, open, disconnects>>
            /\ type = "request" => outcome'[i] = "pending"
      BY <1>0, <1>1 DEF RequestApproval, Timeout, PeerSuspends, PeerOffersAgain, device, gateway
    <2>2. outcome' = outcome \/ (\E o \in {"pending", "lapsed"} : outcome' = [outcome EXCEPT ![i] = o])
      BY <1>1 DEF RequestApproval, Timeout, PeerSuspends, PeerOffersAgain, gateway
    <2>3. \A j \in Ids : outcome'[j] \in Decisions => outcome[j] \in Decisions
      BY <1>0, <2>2 DEF Decisions
    <2>4. type \in ToDeviceTypes BY DEF ToDeviceTypes
    <2>5. type = "request" => outcome'[i] \notin Decisions BY <2>1 DEF Decisions
    <2> QED BY <2>1, <2>3, <2>4, <2>5, SentKeepsReleases
  <1>2. CASE GatewayReceives
    <2>1. UNCHANGED <<disconnects, queue, open>> BY <1>2 DEF GatewayReceives, device
    <2>2. CASE UNCHANGED <<outcome, toDevice>> BY <2>1, <2>2, QuietKeepsReleases
    <2>3. CASE ~UNCHANGED <<outcome, toDevice>>
      <3> DEFINE m == Head(toGateway)
      <3>1. toGateway \in Seq(Up) /\ toGateway # <<>> BY <1>2, Kept DEF GatewayReceives
      <3>2. m \in Up BY <3>1
      <3> HIDE DEF m
      <3>3. PICK i \in Ids : i = m.id BY <3>2 DEF Up
      <3>4. /\ outcome' = [outcome EXCEPT ![i] = m.decision]
            /\ toDevice' = Append(toDevice, Down("resolved", i))
        BY <1>2, <2>3, <3>3 DEF GatewayReceives, EntryOf, m
      <3>5. \A j \in Ids : outcome'[j] \in Decisions => outcome[j] \in Decisions \/ j = i
        BY <1>0, <3>4
      <3>6. "resolved" \in ToDeviceTypes BY DEF ToDeviceTypes
      <3> QED BY <2>1, <3>4, <3>5, <3>6, SentKeepsReleases
    <2> QED BY <2>2, <2>3
  <1>3. CASE Disconnect
    <2>1. disconnects' # 0 /\ UNCHANGED <<queue, open>>
      BY <1>3 DEF Disconnect, device, IInv, TypeOK
    <2> QED BY <2>1 DEF Releases, Distinct, RequestsAreReleased, QueuedAreReleased, ClosedIsEmpty
  <1>4. CASE DeviceReceives BY <1>4, ReceivedKeepsReleases
  <1>5. CASE Connect \/ RetryDecision \/ (\E d \in Decisions : Decide(d)) \/ UNCHANGED vars
    <2>1. UNCHANGED <<outcome, toDevice, disconnects, queue, open>>
      BY <1>5 DEF Connect, RetryDecision, Decide, vars, gateway, device
    <2> QED BY <2>1, QuietKeepsReleases
  <1>6. CASE Deactivate \/ Activate
    <2>1. UNCHANGED <<outcome, toDevice, disconnects>> /\ (queue' = <<>> \/ (UNCHANGED queue /\ open'))
      BY <1>6 DEF Deactivate, Activate, gateway
    <2> QED BY <2>1, QuietKeepsReleases
  <1> QED BY <1>1, <1>2, <1>3, <1>4, <1>5, <1>6 DEF Next

\* The screen never waits behind a request the Gateway resolved: while the first
\* connection lasts its release is on the way, however the operator's taps, the
\* timeouts and the requests offered again interleave.
THEOREM ResolvedIsReleasedAlways == Spec => []ResolvedIsReleased
  <1>1. Init => Releases
    <2> SUFFICES ASSUME Init PROVE Releases
      OBVIOUS
    <2>1. toDevice = <<>> /\ queue = <<>> BY DEF Init
    <2> QED BY <2>1 DEF Releases, Distinct, RequestsAreReleased, QueuedAreReleased, ClosedIsEmpty
  <1>2. IInv /\ Releases => ResolvedIsReleased
    <2> SUFFICES ASSUME IInv, Releases PROVE ResolvedIsReleased
      OBVIOUS
    <2>1. Cardinality(Queued) = Len(queue) BY DistinctCounts DEF IInv, Releases
    <2> QED BY <2>1 DEF Releases, QueuedAreReleased, Follows, ResolvedIsReleased, Queued
  <1> QED BY <1>1, <1>2, NextReleases, Invariant, PTL DEF Spec
-----------------------------------------------------------------------------
(***************************************************************************)
(* The handshake implements Consent.                                       *)
(***************************************************************************)
\* The answer Consent sees.
Seen == [i \in Ids |-> IF outcome[i] = "pending" THEN "asked" ELSE outcome[i]]

\* Nothing changes for Consent when neither the outcomes nor the taps do.
LEMMA Unseen ==
  ASSUME UNCHANGED <<outcome, opinions>>
  PROVE  UNCHANGED Promise!vars
  BY DEF Promise!vars

\* RequestApproval is Consent's Ask.
LEMMA AskSeen ==
  ASSUME IInv, NEW i \in Ids, RequestApproval(i)
  PROVE  Promise!Next
  <1>1. outcome \in [Ids -> Outcomes] BY DEF IInv, TypeOK
  <1>2. outcome[i] = "unasked" /\ outcome' = [outcome EXCEPT ![i] = "pending"] /\ opinions' = opinions
    BY DEF RequestApproval
  <1>3. Seen[i] = "unasked" /\ Seen' = [Seen EXCEPT ![i] = "asked"] BY <1>1, <1>2 DEF Seen
  <1>4. Promise!Ask(i) BY <1>2, <1>3 DEF Promise!Ask, Seen
  <1> QED BY <1>4 DEF Promise!Next

\* A timeout lets its one question lapse.
LEMMA TimeoutSeen ==
  ASSUME IInv, NEW i \in Ids, Timeout(i)
  PROVE  Promise!Next
  <1>1. outcome \in [Ids -> Outcomes] BY DEF IInv, TypeOK
  <1>2. outcome[i] = "pending" /\ outcome' = [outcome EXCEPT ![i] = "lapsed"] /\ opinions' = opinions
    BY DEF Timeout
  <1>3. Seen' = [j \in Ids |-> IF j \in {i} THEN "lapsed" ELSE Seen[j]] BY <1>1, <1>2 DEF Seen
  <1>4. \A j \in {i} : Seen[j] = "asked" BY <1>2 DEF Seen
  <1>5. Promise!Lapse({i}) BY <1>2, <1>3, <1>4 DEF Promise!Lapse, Seen
  <1> QED BY <1>5 DEF Promise!Next

\* A response to a pending request is an answer the operator gave; others are nothing.
LEMMA AnswerSeen ==
  ASSUME IInv, GatewayReceives
  PROVE  Promise!Next \/ UNCHANGED Promise!vars
  <1>1. outcome \in [Ids -> Outcomes] /\ opinions' = opinions BY DEF IInv, TypeOK, GatewayReceives
  <1>2. CASE UNCHANGED outcome BY <1>1, <1>2, Unseen
  <1>3. CASE Answers(Head(toGateway))
             /\ outcome' = [outcome EXCEPT ![EntryOf(Head(toGateway))] = Head(toGateway).decision]
    <2>1. toGateway \in Seq(Up) /\ toGateway # <<>> BY Kept DEF GatewayReceives
    <2>2. PICK m \in Up : m = Head(toGateway) BY <2>1
    <2>3. m = toGateway[1] /\ 1 \in 1..Len(toGateway) BY <2>1, <2>2
    <2>4. m.id \in Ids BY <2>2 DEF Up
    <2>5. m.type = "response" /\ outcome[m.id] = "pending" BY <1>3, <2>2 DEF Answers
    <2>6. m.decision \in opinions[m.id] BY <2>3, <2>5 DEF IInv, ResponsesAreTapped
    <2>7. m.decision \in {"approve", "decline"} BY <2>4, <2>6 DEF IInv, TypeOK, Decisions
    <2>8. outcome' = [outcome EXCEPT ![m.id] = m.decision] BY <1>3, <2>2 DEF EntryOf
    <2>9. Seen[m.id] = "asked" /\ Seen' = [Seen EXCEPT ![m.id] = m.decision]
      BY <1>1, <2>4, <2>5, <2>7, <2>8 DEF Seen
    <2>10. Promise!Answer(m.id, m.decision) BY <1>1, <2>6, <2>9 DEF Promise!Answer, Seen
    <2> QED BY <2>4, <2>7, <2>10 DEF Promise!Next
  <1> QED BY <1>2, <1>3 DEF GatewayReceives

\* A lost device lets every open question lapse at once.
LEMMA DisconnectSeen ==
  ASSUME IInv, Disconnect
  PROVE  Promise!Next \/ UNCHANGED Promise!vars
  <1> DEFINE S == {i \in Ids : outcome[i] = "pending"}
  <1>1. outcome \in [Ids -> Outcomes] BY DEF IInv, TypeOK
  <1>2. /\ outcome' = [i \in Ids |-> IF outcome[i] = "pending" THEN "lapsed" ELSE outcome[i]]
        /\ opinions' = opinions
    BY DEF Disconnect
  <1>3. CASE S = {}
    <2>1. \A i \in Ids : outcome[i] # "pending" BY <1>3
    <2>2. outcome' = outcome BY <1>1, <1>2, <2>1
    <2> QED BY <1>2, <2>2, Unseen
  <1>4. CASE S # {}
    <2>1. PICK T \in SUBSET Ids : T = S OBVIOUS
    <2>2. Seen' = [i \in Ids |-> IF i \in T THEN "lapsed" ELSE Seen[i]] BY <1>2, <2>1 DEF Seen
    <2>3. T # {} /\ \A i \in T : Seen[i] = "asked" BY <1>4, <2>1 DEF Seen
    <2>4. Promise!Lapse(T) BY <1>2, <2>2, <2>3 DEF Promise!Lapse, Seen
    <2> QED BY <2>4 DEF Promise!Next
  <1> QED BY <1>3, <1>4

\* A tap is an opinion on a question somebody asked.
LEMMA DecideSeen ==
  ASSUME IInv, NEW d \in Decisions, Decide(d)
  PROVE  Promise!Next
  <1>1. queue \in Seq(Ids) /\ queue # <<>> BY DEF IInv, TypeOK, Decide
  <1>2. PICK i \in Ids : i = Head(queue) BY <1>1
  <1>3. i = queue[1] /\ 1 \in 1..Len(queue) BY <1>1, <1>2
  <1>4. outcome[i] # "unasked" BY <1>3 DEF IInv, HeardWasAsked
  <1>5. outcome' = outcome /\ opinions' = [opinions EXCEPT ![i] = @ \cup {d}]
    BY <1>2 DEF Decide, gateway
  <1>6. Seen[i] # "unasked" /\ Seen' = Seen BY <1>4, <1>5 DEF Seen
  <1>7. Promise!Opine(i, d) BY <1>5, <1>6 DEF Promise!Opine, Seen
  <1> QED BY <1>7 DEF Promise!Next, Decisions

\* The program starts where Consent does.
LEMMA InitSeen == Init => Promise!Init
  BY DEF Init, Promise!Init

\* Every step is one of Consent's, or none.
LEMMA NextSeen == IInv /\ [Next]_vars => [Promise!Next]_Promise!vars
  <1> SUFFICES ASSUME IInv, [Next]_vars PROVE Promise!Next \/ UNCHANGED Promise!vars
    OBVIOUS
  <1>1. ASSUME NEW i \in Ids, RequestApproval(i) \/ Timeout(i) \/ PeerSuspends(i) \/ PeerOffersAgain(i)
        PROVE  Promise!Next \/ UNCHANGED Promise!vars
    <2>1. CASE PeerSuspends(i) \/ PeerOffersAgain(i)
      BY <2>1, Unseen DEF PeerSuspends, PeerOffersAgain, gateway
    <2> QED BY <1>1, <2>1, AskSeen, TimeoutSeen
  <1>2. CASE GatewayReceives BY <1>2, AnswerSeen
  <1>3. CASE Disconnect BY <1>3, DisconnectSeen
  <1>4. CASE \E d \in Decisions : Decide(d) BY <1>4, DecideSeen
  <1>5. CASE Connect \/ DeviceReceives \/ RetryDecision \/ Deactivate \/ Activate \/ UNCHANGED vars
    BY <1>5, Unseen
    DEF Connect, DeviceReceives, RetryDecision, Deactivate, Activate, vars, gateway
  <1> QED BY <1>1, <1>2, <1>3, <1>4, <1>5 DEF Next

\* The handshake keeps Consent's promise: at most one answer to a question, given by
\* the operator to that very question.
THEOREM ConsentIsImplemented == Spec => ImplementsConsent
  <1>1. IInv /\ [Next]_vars => [Promise!Next]_Promise!vars BY NextSeen
  <1> QED BY <1>1, InitSeen, Invariant, PTL DEF Spec, ImplementsConsent, Promise!Spec
=============================================================================
