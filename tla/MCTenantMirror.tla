--------------------------- MODULE MCTenantMirror ---------------------------
(* Instance of TenantMirror for TLC. *)
EXTENDS TenantMirror, TLC

CONSTANTS t1, t2, u1

\* u1 belongs to t1.
HomeIsT1 == [u \in {u1} |-> t1]

\* Nothing tells one slug from another.
SlugsAreAlike == Permutations(Slugs)
=============================================================================
