------------------------ MODULE MCRunnerLeadership ------------------------
(* Two contenders, so that one can take over from the other.  The contenders *)
(* are interchangeable.                                                      *)
EXTENDS RunnerLeadership, TLC

HolderSymmetry == Permutations(Holders)
=============================================================================
