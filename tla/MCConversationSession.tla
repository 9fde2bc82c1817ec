----------------------- MODULE MCConversationSession -----------------------
(***************************************************************************)
(* Instances of ConversationSession for TLC.                               *)
(***************************************************************************)
EXTENDS ConversationSession
=============================================================================
