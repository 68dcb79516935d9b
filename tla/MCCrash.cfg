\* One Job through a crash of the Runtime and a reboot of the host.
SPECIFICATION EngineSpec
CONSTANTS
    j1 = j1 j2 = j2 k1 = k1 k2 = k2 op1 = op1 w1 = w1
    Jobs = {j1}
    Keys = {k1}
    Operations = {op1}
    Workspaces = {w1}
    WorkspaceOf <- MCWorkspaceOf
    Limits = {1}
    Owners <- MCOwners
    Digests <- EvidenceDigests
    Kinds <- ArtifactKinds
    RowVersions <- MCVersions
    None = None
    Clients = {"c1"}
    Maintainers = {"m1"}
    Requests = {"observe", "cancel"}
    Outcomes = {"completed"}
    Faults = {"runner_death", "expire"}
    MaxCrashes = 1
    LastBoot = 1
CHECK_DEADLOCK FALSE
INVARIANTS AtMostOneLaunch
PROPERTIES CancelPreventsPayload OrphanVacates
