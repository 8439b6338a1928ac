----------------------------- MODULE MCWorkspace ------------------------------
(* Instances of Workspace.                                                 *)
EXTENDS Workspace

CONSTANTS r1, r2, a, b

TwoFiles == {<<r1, <<a, b>>>>, <<r1, <<b>>>>}
=============================================================================
