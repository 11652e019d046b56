------------------------------ MODULE MCReplay ------------------------------
(* TLC instance of Replay: a request of each kind of method, captures with   *)
(* and without a request body, cut short or not.                             *)
EXTENDS Replay

MCMetas ==
  {[failed |-> TRUE, method |-> m, upstream |-> "u"] : m \in {"GET", "DELETE", "POST"}}

MCPayloads ==
  {[bodies |-> {"request"}, bytes |-> 2, truncated |-> FALSE],
   [bodies |-> {"request"}, bytes |-> 2, truncated |-> TRUE],
   [bodies |-> {"response"}, bytes |-> 1, truncated |-> FALSE]}
=============================================================================
