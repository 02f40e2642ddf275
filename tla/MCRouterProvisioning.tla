------------------------ MODULE MCRouterProvisioning ------------------------
(* Instances of RouterProvisioning for TLC. *)
EXTENDS RouterProvisioning, TLC

CONSTANTS s1, s2, j1, j2

TwoSessions == {s1, s2}
TwoJobs     == {j1, j2}
=============================================================================
