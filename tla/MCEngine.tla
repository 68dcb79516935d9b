------------------------------ MODULE MCEngine ------------------------------
(* The instances of the Engine that TLC checks.                            *)
EXTENDS Engine, TLC

CONSTANTS j1, j2, k1, k2, op1, w1

MCWorkspaceOf == op1 :> w1
MCVersions == 0 .. 8
MCOwners == 0 .. LastBoot
=============================================================================
