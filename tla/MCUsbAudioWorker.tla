-------------------------- MODULE MCUsbAudioWorker --------------------------
(***************************************************************************)
(* Instances of UsbAudioWorker for TLC.                                    *)
(***************************************************************************)
EXTENDS UsbAudioWorker
=============================================================================
