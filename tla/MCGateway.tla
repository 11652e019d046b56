----------------------------- MODULE MCGateway -----------------------------
(* TLC instance of Gateway: each reload raises concurrency_limit. *)
EXTENDS Gateway

MCLimit == [g \in Gens |-> g + 1]
=============================================================================
