------------------------ MODULE MCBranchProvisioning ------------------------
(* BranchProvisioning with a few calls; see the .cfg files. *)
EXTENDS BranchProvisioning, TLC

CONSTANTS c1, c2

TwoCalls == {c1, c2}
OneCall == {c1}
=============================================================================
