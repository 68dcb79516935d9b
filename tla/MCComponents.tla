---------------------------- MODULE MCComponents ----------------------------
(***************************************************************************)
(* The components beside the Registry and the Engine, model-checked side   *)
(* by side: each has its own files, processes or rows and shares none of   *)
(* them with another, so that a behaviour is one component's behaviour     *)
(* with the others at rest.                                                *)
(***************************************************************************)
EXTENDS Workspaces, BatchMutation, ChangePages, BoundSets, NativeAttempt,
        Release, Storage, Repair, Ingress, Maintenance, RunnerSteps

CONSTANTS Components    \* the components that run

VARIABLES component     \* the one that runs in this behaviour

(* The image e2 and the process o2 are one schema version newer.           *)
MCMigrations == [i \in Effects \cup {OldImage} |-> IF i = "e2" THEN 2 ELSE 1]
MCSupported == [o \in Openers |-> IF o = "o2" THEN 4 ELSE 3]

(* Two plans of one request, and a request of the other kind.              *)
Submission(r, k, p) == [identity |-> r, kind |-> k, plan |-> p]
MCSubmissions == {Submission("r1", "credentials", "p1"), Submission("r1", "credentials", "p2"),
                  Submission("r2", "inputs", "p1")}
MCBothKinds == {Submission("r1", "credentials", "p1"), Submission("r2", "inputs", "p1")}

(* A component that does not run has one initial state.                    *)
ComponentInit ==
    /\ component \in Components
    /\ component # "storage" => journal = [v \in Versions |-> Missing]
    /\ component # "repair" =>
        /\ rows = [a \in Cases |-> Resolved("orphaned", "control", FALSE, "active")]
        /\ unit = [a \in Cases |-> "gone"] /\ result = [a \in Cases |-> "none"]
    /\ component # "ingress" => stage = NoBytes
    /\ component # "pages" => entrySize = [k \in Keys |-> CHOOSE s \in EntrySizes : TRUE]
    /\ component # "maintenance" => arrival = CHOOSE f \in Orders : TRUE
    /\ component # "runner" => bytes = [o \in Objects |-> TRUE]
    /\ WorkspaceInit /\ MutationInit /\ PageInit /\ SetInit /\ NativeInit
    /\ ReleaseInit /\ StorageInit /\ RepairInit /\ IngressInit
    /\ MaintenanceInit /\ RunnerInit

(* Every component but the chosen one stands still.                        *)
ComponentNext ==
    /\ UNCHANGED component
    /\ IF component = "workspaces" THEN WorkspaceNext ELSE UNCHANGED workspaceVars
    /\ IF component = "mutation" THEN MutationNext ELSE UNCHANGED mutationVars
    /\ IF component = "pages" THEN PageNext ELSE UNCHANGED pageVars
    /\ IF component = "sets" THEN SetNext ELSE UNCHANGED setVars
    /\ IF component = "native" THEN NativeNext ELSE UNCHANGED nativeVars
    /\ IF component = "release" THEN ReleaseNext ELSE UNCHANGED releaseVars
    /\ IF component = "storage" THEN StorageNext ELSE UNCHANGED storageVars
    /\ IF component = "repair" THEN RepairNext ELSE UNCHANGED repairVars
    /\ IF component = "ingress" THEN IngressNext ELSE UNCHANGED ingressVars
    /\ IF component = "maintenance" THEN MaintenanceNext ELSE UNCHANGED maintenanceVars
    /\ IF component = "runner" THEN RunnerNext ELSE UNCHANGED runnerVars

allVars == <<component, workspaceVars, mutationVars, pageVars, setVars,
             nativeVars, releaseVars, storageVars, repairVars, ingressVars,
             maintenanceVars, runnerVars>>

ComponentSpec == ComponentInit /\ [][ComponentNext]_allVars

(* The fairness of each component, asked of the one that runs.             *)
Turn(name, step) == component = name /\ step

ComponentFairness ==
    /\ <>[][~CloseCrash /\ ~StepFails]_workspaceVars
    /\ WF_workspaceVars(Turn("workspaces", CloseStep))
    /\ WF_workspaceVars(Turn("workspaces", OpenWriteRecord))
    /\ \A w \in Workspaces :
        /\ SF_workspaceVars(Turn("workspaces", CloseWorkspace(w, TRUE, None)))
        /\ WF_workspaceVars(Turn("workspaces", FinishJob(w)))
    /\ WF_setVars(Turn("sets", PublishSet \/ StagingFails))
    /\ WF_setVars(Turn("sets", SubmitCreated \/ SubmitRefused))
    /\ WF_setVars(Turn("sets", AdoptAdmitted))
    /\ WF_setVars(Turn("sets", \E b \in BOOLEAN : ReadBack(b)))
    /\ \A j \in SetJobs : WF_setVars(Turn("sets", SweepSecret(j)))
    /\ WF_nativeVars(Turn("native", Reconcile \/ ReconcileStep("reconciler")))
    /\ WF_nativeVars(Turn("native", Expire))
    /\ WF_maintenanceVars(Turn("maintenance", Tick))
    /\ WF_maintenanceVars(Turn("maintenance", ReconcileCandidate))
    /\ WF_runnerVars(Turn("runner", RunnerStep))
    /\ WF_runnerVars(Turn("runner", DeadlinePasses))

ComponentFairSpec == ComponentSpec /\ ComponentFairness

\* The component that runs is in a state of its type (each module says what
\* that is).
ComponentTypeOK ==
    /\ component \in Components
    /\ component = "workspaces" => WorkspaceTypeOK
    /\ component = "mutation" => MutationTypeOK
    /\ component = "pages" => PageTypeOK
    /\ component = "sets" => SetTypeOK
    /\ component = "native" => NativeTypeOK
    /\ component = "release" => ReleaseTypeOK
    /\ component = "storage" => StorageTypeOK
    /\ component = "repair" => RepairTypeOK
    /\ component = "ingress" => IngressTypeOK
    /\ component = "maintenance" => MaintenanceTypeOK
    /\ component = "runner" => RunnerTypeOK
=============================================================================
