-------------------------- MODULE MCUsbAudioBridge --------------------------
(***************************************************************************)
(* Instances of UsbAudioBridge for TLC.                                    *)
(***************************************************************************)
EXTENDS UsbAudioBridge
=============================================================================
