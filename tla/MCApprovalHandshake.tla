------------------------ MODULE MCApprovalHandshake ------------------------
(***************************************************************************)
(* Instances of ApprovalHandshake for TLC: Approval.cfg has two requests,  *)
(* one of which times out, a lost connection, a peer that offers a request *)
(* again and a device that drops its approval session.                     *)
(***************************************************************************)
EXTENDS ApprovalHandshake
=============================================================================
