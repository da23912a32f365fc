---------------------------- MODULE SimRouterMC ----------------------------
(***************************************************************************)
(* SimRouter for TLC: two instances and five requests.  h1, h2, h3 are of   *)
(* one class and share the key x; h3 has a second key; g is of another      *)
(* class; h4 comes when the window has passed the first arrivals.           *)
(***************************************************************************)
EXTENDS SimRouter

CONSTANTS h1, h2, h3, h4, g, x, y, z, hot, cold

MCTrace == <<h1, h2, h3, g, h4>>
MCFullKeys == [r \in Requests |-> CASE r \in {h1, h2, h4} -> <<x>>
                                    [] r = h3 -> <<x, y>> [] r = g -> <<z>>]
MCInputLen == [r \in Requests |-> CASE r \in {h1, h4} -> 2 [] r = h2 -> 3 [] r = h3 -> 4 [] r = g -> 3]
MCArrival == [r \in Requests |-> CASE r = h1 -> 0 [] r = h2 -> 1 [] r = h3 -> 2 [] r = g -> 3 [] r = h4 -> 4]
MCClass == [r \in Requests |-> IF r = g THEN cold ELSE hot]
MCParent == [r \in Requests |-> CASE r \in {h1, g} -> None [] r = h2 -> h1 [] r = h3 -> h2 [] r = h4 -> h3]
MCEstHit == [r \in Requests |-> IF MCParent[r] = None THEN 0 ELSE 2]
=============================================================================
