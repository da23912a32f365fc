---------------------------- MODULE LiveRouterMC ----------------------------
(***************************************************************************)
(* LiveRouter for TLC: two instances and three requests.  p and q have the  *)
(* same full block, so they can be in prefill together; p's prompt is that  *)
(* block and no more, so it can be wholly cached; s has no full block.      *)
(* Where servers are not reset, q has a block more, which may be cached in  *)
(* another step, and a server may hold a copy of the first.                 *)
(***************************************************************************)
EXTENDS LiveRouter

CONSTANTS p, q, s, x, y

MCFullBlocks == [r \in Requests |-> IF r = s THEN <<>> ELSE <<x>>]
MCInputLen == [r \in Requests |-> CASE r = p -> 2 [] r = q -> 3 [] r = s -> 1]

MCTwoBlocks == [r \in Requests |-> CASE r = p -> <<x>> [] r = q -> <<x, y>>]
MCTwoInputLen == [r \in Requests |-> CASE r = p -> 2 [] r = q -> 4]
MCLeftovers == {[b \in BlockIds |-> IF b = x THEN n ELSE 0] : n \in {0, 1}}
=============================================================================
