------------------------------ MODULE MCGvActor ------------------------------
(* Instance of GvActor for TLC: a list that never stops, and one that a pause stops. *)
EXTENDS GvActor

CONSTANTS gvd, a, b, c

MCPause == <<{}, {"stop"}>>
MCKill  == <<7, 4>>
==============================================================================
