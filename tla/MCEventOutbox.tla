-------------------------- MODULE MCEventOutbox --------------------------
(* Instances of EventOutbox for TLC. *)
EXTENDS EventOutbox

CONSTANTS t1, t2, w1, w2

OneTransaction  == {t1}
TwoTransactions == {t1, t2}
TwoPublishers   == {w1, w2}
==========================================================================
