--------------------------- MODULE MCCaptureStore ---------------------------
(* TLC instance of CaptureStore: captures of no, one and two bytes. *)
EXTENDS CaptureStore

MCMetas == {[failed |-> TRUE, method |-> "POST", upstream |-> "u"]}

MCPayloads ==
  {[bodies |-> b, bytes |-> n, truncated |-> FALSE] :
     b \in {{"request", "response"}}, n \in 0 .. 2}
=============================================================================
