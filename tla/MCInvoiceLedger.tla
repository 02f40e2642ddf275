-------------------------- MODULE MCInvoiceLedger --------------------------
(* Instances of InvoiceLedger for TLC. *)
EXTENDS InvoiceLedger, TLC

CONSTANTS i1, i2, p1, p2, h1, h2

TwoInvoices == {i1, i2}
TwoPayments == {p1, p2}
TwoRequests == {h1, h2}

MinusOne == -1

Symmetry == Permutations(TwoInvoices) \cup Permutations(TwoPayments)
            \cup Permutations(TwoRequests)
=============================================================================
