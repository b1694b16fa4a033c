----------------------------- MODULE MCPromotion -----------------------------
(* Instance of Promotion for TLC: three promoters of one family, as many   *)
(* candidate roots, fewer process ids (so that one is reused).             *)
EXTENDS Promotion, TLC

CONSTANTS p1, p2, p3, r1, r2, r3, i1, i2

MCPromoters == {p1, p2, p3}
MCRoots     == {r1, r2, r3}
MCPids      == {i1, i2}
MCSymmetry  == Permutations(MCPromoters) \cup Permutations(MCRoots) \cup Permutations(MCPids)
=============================================================================
