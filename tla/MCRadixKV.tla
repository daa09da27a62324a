----------------------------- MODULE MCRadixKV -----------------------------
(* A pool of three two-token pages, a DRAM tier and evictions it may refuse, *)
(* shared by two requests and one session.                                  *)
EXTENDS RadixKV, TLC

CONSTANTS r1, r2, x1

MCTokens == {1, 2}
MCPrompts == {<<1, 1>>, <<1, 1, 2, 2>>}
Symmetry == Permutations(Requests)
=============================================================================
