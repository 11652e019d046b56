--------------------------- MODULE MCCaptureQueue ---------------------------
(* TLC instance of CaptureQueue. *)
EXTENDS CaptureQueue
=============================================================================
