--------------------------- MODULE AgentLifetime ---------------------------
(***************************************************************************)
(* What a conversation promises its Agent backend                          *)
(* (gateway/src/agent/agent-backend.ts): sessions are opened one way or    *)
(* another, at most one is in use, a session that goes out of use never    *)
(* comes back, and every session out of use is closed in the end.          *)
(***************************************************************************)
EXTENDS Naturals

CONSTANT Sessions   \* the Agent sessions that may be opened

VARIABLES opened,   \* sessions opened and not closed
          inUse     \* the session the conversation talks to, 0 for none

vars == <<opened, inUse>>

Init == opened = {} /\ inUse = 0

\* A session opens too late to be of use.
OpenStray(s) == s \notin opened /\ opened' = opened \cup {s} /\ UNCHANGED inUse

OpenForUse(s) == s \notin opened /\ inUse = 0 /\ opened' = opened \cup {s} /\ inUse' = s

Retire == inUse # 0 /\ inUse' = 0 /\ UNCHANGED opened

Close(s) == s \in opened \ {inUse} /\ opened' = opened \ {s} /\ UNCHANGED inUse

Next ==
  \/ \E s \in Sessions : OpenStray(s) \/ OpenForUse(s) \/ Close(s)
  \/ Retire

Spec == Init /\ [][Next]_vars /\ \A s \in Sessions : WF_vars(Close(s))
=============================================================================
