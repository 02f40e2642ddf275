------------------------- MODULE MCHotspotVoucher -------------------------
(* Instances of HotspotVoucher for TLC. *)
EXTENDS HotspotVoucher

CONSTANTS v1, v2, h1, h2

TwoVouchers  == {v1, v2}
FirstVoucher == {v1}
OneHandler  == {h1}
TwoHandlers == {h1, h2}

\* A plan of one hour, and one without a duration.
Windows == [v \in {v1, v2} |-> IF v = v1 THEN 1 ELSE 0]

\* Outcome is what executing the commands one after the other comes to.
ASSUME OutcomeIsExecution ==
    \A a \in {"absent", "enabled", "disabled"} :
    \A q \in BoundedSeq({"create", "disable"}, 5) :
        Outcome(a, q) = FoldLeft(LAMBDA b, c : Effect(c, b), a, q)
===========================================================================
