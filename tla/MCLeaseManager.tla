--------------------------- MODULE MCLeaseManager ---------------------------
(* Two contenders, leases of 2 seconds, a ttl buffer of 1 second, a clock  *)
(* up to 4 and one SDK re-send per request.                                *)
EXTENDS LeaseRefinement, TLC

CONSTANTS c1, c2

MCClient == {c1, c2}
MCSymmetry == Permutations(MCClient)
=============================================================================
