---------------------------- MODULE MCKvPageTier ----------------------------
(* Two handles racing over two keys, two host slots and two device pages.  *)
EXTENDS KvPageTier, TLC

CONSTANTS k1, k2, s1, s2, p1, p2, t1, t2

Symmetry == Permutations(Keys) \cup Permutations(Slots)
            \cup Permutations(DevicePages) \cup Permutations(Transfers)
=============================================================================
