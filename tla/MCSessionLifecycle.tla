------------------------- MODULE MCSessionLifecycle -------------------------
(* SessionLifecycle on small instances; see the .cfg files. *)
EXTENDS SessionLifecycle, TLC

CONSTANTS s1, r1, r2

\* One interview: a plain one, or a panel scheduled for tick 2.
OneSession == {s1}
OpensAlways == (s1 :> 0)
OpensAtTwo == (s1 :> 2)
OneRequest == {r1}
TwoRequests == {r1, r2}
RequestSymmetry == Permutations(TwoRequests)
=============================================================================
