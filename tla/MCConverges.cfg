\* One Job and one crash: what fairness brings about.
SPECIFICATION FairSpec
CONSTANTS
    j1 = j1 j2 = j2 k1 = k1 k2 = k2 op1 = op1 w1 = w1
    Jobs = {j1}
    Keys = {k1}
    Operations = {op1}
    Workspaces = {w1}
    WorkspaceOf <- MCWorkspaceOf
    Limits = {1}
    Owners <- MCOwners
    Digests <- EvidenceDigests
    Kinds <- ArtifactKinds
    RowVersions <- MCVersions
    None = None
    Clients = {"c1"}
    Maintainers = {"m1"}
    Requests = {"cancel"}
    Outcomes = {"completed"}
    Faults = {}
    MaxCrashes = 1
    LastBoot = 0
CHECK_DEADLOCK FALSE
PROPERTIES Converges
