-------------------------- MODULE MCUpstreamHealth --------------------------
(* TLC instance of UpstreamHealth. *)
EXTENDS UpstreamHealth, TLC

Symmetry == Permutations(Requests)
=============================================================================
