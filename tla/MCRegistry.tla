----------------------------- MODULE MCRegistry -----------------------------
(* The instances of the Registry that TLC checks.  A request is named by   *)
(* the Workspace it runs in, so that Workspaces can be permuted.           *)
EXTENDS RegistryContract, TLC

CONSTANTS j1, j2, j3, k1, k2, k3, w1, w2, w3

MCWorkspaceOf == [w \in Workspaces |-> w]
MCVersions == 0 .. 6
MCVersionsShort == 0 .. 1
\* Nothing reads the limit of a Job that holds no capacity any more: states
\* that differ in nothing else behave alike and are checked once.
HeldLimits ==
    <<[j \in Jobs |-> IF j \in Holders THEN jobs[j] ELSE [jobs[j] EXCEPT !.limit = 0]],
      attempts, reservations, keys, artifacts, fence>>
Symmetry == Permutations(Jobs) \cup Permutations(Keys) \cup Permutations(Workspaces)
=============================================================================
