-------------------------- MODULE MCRouterRegistry --------------------------
(* Instances of RouterRegistry for TLC. *)
EXTENDS RouterRegistry, TLC

CONSTANTS d1, d2, h1, h2, n1, n2, o1, o2

TwoDevices  == {d1, d2}
TwoRequests == {h1, h2}
TwoNames    == {n1, n2}
TwoOrgs     == {o1, o2}

\* Nothing tells devices, requests, identities or organizations apart.
RegistrySymmetry ==
    UNION {Permutations(S) : S \in {TwoDevices, TwoRequests, TwoNames, TwoOrgs}}
=============================================================================
