------------------------------ MODULE MCParse ------------------------------
(* Parse for TLC: two objects in task queues. *)
EXTENDS Parse, TLC

CONSTANTS a, b

MCAddress == (a :> 1) @@ (b :> 2)
=============================================================================
