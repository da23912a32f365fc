------------------------------ MODULE EngineMC ------------------------------
(***************************************************************************)
(* Engine for TLC: five requests that cannot all run at once in a pool of   *)
(* four blocks.  a and b have the same full prompt blocks, c and e the     *)
(* first of them, d none; d needs the whole pool.                           *)
(***************************************************************************)
EXTENDS Engine

CONSTANTS a, b, c, d, e, k1, k2, k3, k4, k5

MCInputLen == [r \in Requests |->
  CASE r = a -> 4 [] r = b -> 5 [] r = c -> 3 [] r = d -> 6 [] r = e -> 2]
MCOutputLen == [r \in Requests |->
  CASE r = a -> 3 [] r = b -> 2 [] r = c -> 4 [] r = d -> 2 [] r = e -> 5]
MCPromptKeys == [r \in Requests |->
  CASE r \in {a, b} -> <<k1, k2>> [] r \in {c, e} -> <<k1>> [] r = d -> <<k3, k4, k5>>]
=============================================================================
