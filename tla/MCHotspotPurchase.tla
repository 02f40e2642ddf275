------------------------- MODULE MCHotspotPurchase -------------------------
(* Instances of HotspotPurchase for TLC. *)
EXTENDS HotspotPurchase

CONSTANTS p1, p2, o1, h1, h2

OnePurchase  == {p1}
TwoPurchases == {p1, p2}
OneOrg       == {o1}
TwoHandlers  == {h1, h2}
SameOrg      == [p \in Purchases |-> o1]
============================================================================
