SPECIFICATION ComponentSpec
CONSTANTS
    Components = {"workspaces", "mutation", "pages", "sets", "native", "release",
                  "storage", "repair", "ingress", "maintenance", "runner"}
    Workspaces = {w1, w2}
    Upstream = upstream
    None = None
    MaxCommit = 0
    WorkspaceFaults = {"crash", "fail", "lose"}
    Paths = {p1, p2}
    Contents = {c1}
    Edited = edited
    Absent = absent
    MaxBatch = 2
    MutationFaults = {"early", "late", "crash", "edit"}
    Keys = {1, 2, 3}
    Untracked = {2}
    EntrySizes = {2, 4}
    Limits = {1, 2}
    ByteLimits = {2, 5}
    SetJobs = {j1, j2}
    Submissions <- MCSubmissions
    SetFaults = {"crash", "commit", "fail", "spoil"}
    NativeFaults = {"crash", "die", "cancel"}
    Effects = {"e1", "e2"}
    OldImage = "old"
    Migrations <- MCMigrations
    ReleaseFaults = {"kill", "late", "io", "start", "boot", "argv", "swap"}
    Openers = {"o1", "o2"}
    Supported <- MCSupported
    NewestVersion = 4
    Cases = {a1, a2}
    Nothing = Nothing
    Found = {"running", "lost", "orphaned", "failed"}
    IngressCalls = {i1, i2}
    HostFiles = {f1, f2}
    OpenAttempts = {at1, at2}
    BatchSize = 1
    MaxFatal = 1
    LastStep = 1
    ContinueOnError = {}
    RunnerFaults = {"drift", "io", "stop"}
INVARIANTS
    ComponentTypeOK AuthorityAlive RefusalTouchesOneFile PagesAreTheSet
    BytesOutliveCommit  VerdictAfterTree ResultStands
    SchemaExact IngestedBytesVerified CompletedIsRealized
PROPERTIES
    EditOverwrittenOnlyRaced LaunchFindsBytes ReceiptTrue RepairFromBackup
CHECK_DEADLOCK FALSE
