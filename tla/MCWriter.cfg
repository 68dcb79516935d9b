\* Two Jobs for one Workspace and a slow dispatch.
SPECIFICATION EngineSpec
CONSTANTS
    j1 = j1 j2 = j2 k1 = k1 k2 = k2 op1 = op1 w1 = w1
    Jobs = {j1, j2}
    Keys = {k1, k2}
    Operations = {op1}
    Workspaces = {w1}
    WorkspaceOf <- MCWorkspaceOf
    Limits = {2}
    Owners <- MCOwners
    Digests <- EvidenceDigests
    Kinds <- ArtifactKinds
    RowVersions <- MCVersions
    None = None
    Clients = {"c1", "c2"}
    Maintainers = {"m1"}
    Requests = {}
    Outcomes = {"completed"}
    Faults = {}
    MaxCrashes = 0
    LastBoot = 0
CHECK_DEADLOCK FALSE
INVARIANTS SingleWriter
