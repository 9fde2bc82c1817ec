------------------------------ MODULE Consent ------------------------------
(***************************************************************************)
(* What the approval handshake promises the caller that wants to run a     *)
(* tool: a question gets at most one answer, the answer is one the         *)
(* operator gave to that very question, and when none comes the question   *)
(* lapses instead of hanging.                                              *)
(***************************************************************************)
CONSTANT Ids        \* the questions

VARIABLES answer,   \* per question: unasked, asked, approve, decline, lapsed
          opinions  \* per question: the decisions the operator has given

vars == <<answer, opinions>>

Init == answer = [i \in Ids |-> "unasked"] /\ opinions = [i \in Ids |-> {}]

Ask(i) == answer[i] = "unasked" /\ answer' = [answer EXCEPT ![i] = "asked"] /\ UNCHANGED opinions

Opine(i, d) ==
  /\ answer[i] # "unasked"
  /\ opinions' = [opinions EXCEPT ![i] = @ \cup {d}]
  /\ UNCHANGED answer

Answer(i, d) ==
  /\ answer[i] = "asked" /\ d \in opinions[i]
  /\ answer' = [answer EXCEPT ![i] = d]
  /\ UNCHANGED opinions

\* Timeouts and lost devices let any number of open questions lapse at once.
Lapse(S) ==
  /\ S # {} /\ \A i \in S : answer[i] = "asked"
  /\ answer' = [i \in Ids |-> IF i \in S THEN "lapsed" ELSE answer[i]]
  /\ UNCHANGED opinions

Next ==
  \/ \E i \in Ids : Ask(i) \/ \E d \in {"approve", "decline"} : Opine(i, d) \/ Answer(i, d)
  \/ \E S \in SUBSET Ids : Lapse(S)

Spec == Init /\ [][Next]_vars
=============================================================================
