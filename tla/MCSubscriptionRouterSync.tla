---------------------- MODULE MCSubscriptionRouterSync ----------------------
(* Instances of SubscriptionRouterSync for TLC. *)
EXTENDS SubscriptionRouterSync, TLC

CONSTANTS c1, c2, c3, r1, s1, h1, h2

OneCommand    == {c1}
TwoCommands   == {c1, c2}
ThreeCommands == {c1, c2, c3}
OneRun        == {r1}
OneSub        == {s1}
OneHandler    == {h1}
TwoHandlers   == {h1, h2}

\* Every operation on the direct path; with the agent those that give a customer
\* access and take it away for good.
SyncOperations == [agent \in BOOLEAN |->
    IF agent THEN {"activate", "expire", "churn", "purge"} ELSE Requests \cup Tasks]

RenewalOperations == [agent \in BOOLEAN |-> {"activate", "expire", "renew"}]

\* Command ids and handlers are interchangeable.
SyncSymmetry == Permutations({c1, c2}) \cup Permutations({h1, h2})
=============================================================================
