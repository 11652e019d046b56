--------------------------- MODULE MCBodyCapture ---------------------------
(* TLC instance of BodyCapture. *)
EXTENDS BodyCapture
=============================================================================
