--------------------------- MODULE MCPPPoERenewal ---------------------------
(* Instance of PPPoERenewal for TLC: two renewals, two requests at once. *)
EXTENDS PPPoERenewal
=============================================================================
