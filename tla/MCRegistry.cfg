\* One Job through every operation, intent, owner and row version: the depth instance.
SPECIFICATION Spec
CONSTANTS
    j1 = j1 j2 = j2 j3 = j3 k1 = k1 k2 = k2 k3 = k3
    w1 = w1 w2 = w2 w3 = w3
    Jobs = {j1}
    Keys = {k1}
    Operations = {w1}
    Workspaces = {w1}
    WorkspaceOf <- MCWorkspaceOf
    Limits = {1}
    Owners = {"o1", "o2"}
    Digests = {"d1", "d2"}
    Kinds = {"control_result", "orphan_remediation"}
    RowVersions <- MCVersions
    None = None
CHECK_DEADLOCK FALSE
INVARIANTS TypeOK RuntimeInvariants
PROPERTIES VerdictFinal StopIsCommitted RowVersionGuards
