--------------------------- MODULE MCEventListner ----------------------------
(* Four events over three priorities, two of them of the most urgent.         *)
EXTENDS EventListner, TLC

CONSTANTS e1, e2, e3, e4

MCPrioOf == e1 :> 0 @@ e2 :> 0 @@ e3 :> 1 @@ e4 :> 2
=============================================================================
