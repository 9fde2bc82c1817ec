-------------------------- MODULE MCDeviceSessions --------------------------
(***************************************************************************)
(* Instances of DeviceSessions for TLC: three connections of one or two    *)
(* devices, and commands enough to reach a small limit.                    *)
(***************************************************************************)
EXTENDS DeviceSessions
=============================================================================
