----------------------------- MODULE MCWorkspace -----------------------------
(* One manual submission beside the automatic one.                          *)
EXTENDS Workspace, TLC

CONSTANTS m1
OneManual == {m1}
=============================================================================
