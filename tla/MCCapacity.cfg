\* Three Jobs over three Workspaces and unequal limits: the breadth instance.
SPECIFICATION Spec
CONSTANTS
    j1 = j1 j2 = j2 j3 = j3 k1 = k1 k2 = k2 k3 = k3
    w1 = w1 w2 = w2 w3 = w3
    Jobs = {j1, j2, j3}
    Keys = {k1, k2, k3}
    Operations = {w1, w2, w3}
    Workspaces = {w1, w2, w3}
    WorkspaceOf <- MCWorkspaceOf
    Limits = {1, 2}
    Owners = {"o1"}
    Digests = {"d1"}
    Kinds = {}
    RowVersions <- MCVersionsShort
    None = None
VIEW HeldLimits
SYMMETRY Symmetry
CHECK_DEADLOCK FALSE
INVARIANTS KeysIdentifyJobs WorkspaceExclusive GlobalCapacity
PROPERTIES ImplementsContract
