SPECIFICATION ComponentFairSpec
CONSTANTS
    Components = {"workspaces", "sets", "native", "release", "repair", "maintenance", "runner"}
    Workspaces = {w1}
    Upstream = upstream
    None = None
    MaxCommit = 2
    WorkspaceFaults = {"crash", "fail"}
    Paths = {p1}
    Contents = {c1}
    Edited = edited
    Absent = absent
    MaxBatch = 1
    MutationFaults = {}
    Keys = {1}
    Untracked = {}
    EntrySizes = {2}
    Limits = {1}
    ByteLimits = {2}
    SetJobs = {j1}
    Submissions <- MCBothKinds
    SetFaults = {"crash", "commit", "fail", "slow", "spoil"}
    NativeFaults = {"die", "reuse", "reply", "tamper"}
    Effects = {"e1", "e2"}
    OldImage = "old"
    Migrations <- MCMigrations
    ReleaseFaults = {"kill", "start", "boot", "reply"}
    Openers = {"o1", "o2"}
    Supported <- MCSupported
    NewestVersion = 4
    Cases = {a1}
    Nothing = Nothing
    Found = {"starting", "running", "lost", "orphaned", "failed"}
    IngressCalls = {i1, i2}
    HostFiles = {f1, f2}
    OpenAttempts = {at1, at2, at3}
    BatchSize = 2
    MaxFatal = 1
    LastStep = 2
    ContinueOnError = {1}
    RunnerFaults = {"io", "stop"}
INVARIANTS
    TombstoneTrue OneCutover NoVerdictOverResult
PROPERTIES
    CloseConverges GarbageCollected NativeConverges Served RunnerReports
CHECK_DEADLOCK FALSE
