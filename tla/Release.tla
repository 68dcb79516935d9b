------------------------------ MODULE Release ------------------------------
(***************************************************************************)
(* A structured Runtime release on Windows: the durable release effect, the *)
(* deployer that replaces the running service, the service manager, and    *)
(* the receipt from which the Engine projects what became of the effect.   *)
(*                                                                         *)
(* Sources: bin/ordivon-runtime-windows-deploy.rs, runtime/engine/         *)
(* release.rs, runtime/engine/control_query.rs (the receipt projection),   *)
(* registry/admission.rs (the admission fence), registry/storage.rs (what  *)
(* a starting Runtime does to the Registry's schema) and                   *)
(* mcp/src/windows_service.rs.                                             *)
(*                                                                         *)
(* An effect stands for its candidate too: the image it installs is named  *)
(* after it.  Every release Job is a foreign Job to every other effect.    *)
(***************************************************************************)
EXTENDS Integers, Sequences

CONSTANTS
    Effects,        \* the structured releases a client asks for
    OldImage,       \* the release that is installed at the start
    Migrations,     \* per image, the newest schema it supports
    ReleaseFaults   \* \subseteq {"kill", "late", "io", "start", "boot",
                    \*            "argv", "swap", "reply"}

ASSUME ReleaseAssumption == Migrations \in [Effects \cup {OldImage} -> Nat]

VARIABLES
    service,        \* the service manager's view of the two services
    installed,      \* their configured binary paths
    envFile,        \* whose launcher and broker paths the env file names
    schema,         \* the Registry's migration version
    fence,          \* the lock on admission.lock
    candidates,     \* effects whose commit and candidate bytes are as requested
    jobs,           \* per release Job, where the Registry has it
    deployer,       \* per effect, the deployer process
    receipt,        \* per effect, the files of its receipt directory
    unstopped,      \* effects whose rollback could not stop the Runtime
    unanswered      \* effects whose deployer runs although its launch failed

releaseVars == <<service, installed, envFile, schema, fence, candidates, jobs,
                 deployer, receipt, unstopped, unanswered>>

NoFile == "none"
Torn == "torn"                          \* truncated and not yet rewritten
Services == {"runtime", "broker"}
Images == Effects \cup {OldImage}
ServiceStates == {"stopped", "starting", "running", "stopping"}

(* The statements of the cutover closure, and of the rollback closure.     *)
Cutover == << <<"stop", "runtime">>, <<"stop", "broker">>, <<"env", "env">>,
              <<"path", "runtime">>, <<"path", "broker">>,
              <<"start", "broker">>, <<"start", "runtime">>,
              <<"check", "runtime">> >>
Rollback == SubSeq(Cutover, 1, 7)

NoDeployment == [pc |-> "none", step |-> 0, issued |-> FALSE, pre |-> 0,
         before |-> [path |-> [s \in Services |-> OldImage],
                     env |-> OldImage]]
NoReceipt == [request |-> FALSE, rollback |-> FALSE, result |-> NoFile]

ReleaseInit ==
    /\ service = [s \in Services |-> [state |-> "running", image |-> OldImage]]
    /\ installed = [s \in Services |-> OldImage]
    /\ envFile = OldImage
    /\ schema = Migrations[OldImage]
    /\ fence = "free"
    /\ candidates = Effects
    /\ jobs = [e \in Effects |-> "none"]
    /\ deployer = [e \in Effects |-> NoDeployment]
    /\ receipt = [e \in Effects |-> NoReceipt]
    /\ unstopped = {} /\ unanswered = {}

Serving == service["runtime"].state = "running"
Active(e) == jobs[e] \in {"accepted", "running"}
Alive(e) == deployer[e].pc \notin {"none", "exited"}

DeployerAt(e, pc) == deployer[e].pc = pc
DeployerGoto(e, pc) == deployer' = [deployer EXCEPT ![e].pc = pc]
Enter(e, pc) ==
    deployer' = [deployer EXCEPT ![e].pc = pc, ![e].step = 1,
                                 ![e].issued = FALSE]

-----------------------------------------------------------------------------
(* Admission, dispatch and reconciliation, all by the serving Runtime.     *)

(* release.apply answers a replay from the durable effect, before it looks *)
(* at anything else.                                                       *)
IsReplay(e) == jobs[e] # "none"

(* The Workspace is clean at the commit, and the manifest has the digest.  *)
CandidateAdmissible(e) == e \in candidates

(* admit_runtime_release_effect: a new Job, durable and not dispatched.    *)
(* Admission takes the fence shared for the length of the submit.          *)
BeginAdmission(e) ==
    /\ Serving
    /\ ~IsReplay(e) /\ CandidateAdmissible(e)
    /\ fence = "free"
    /\ fence' = "shared"
    /\ jobs' = [jobs EXCEPT ![e] = "submitting"]
    /\ UNCHANGED <<service, installed, envFile, schema, deployer, receipt,
                   unstopped>>

CommitAdmission(e) ==
    /\ jobs[e] = "submitting"
    /\ fence' = "free"
    /\ jobs' = [jobs EXCEPT ![e] = IF Serving THEN "accepted" ELSE "none"]
    /\ UNCHANGED <<service, installed, envFile, schema, deployer, receipt,
                   unstopped>>

(* The normal reconciliation of an Accepted Job starts the deployer.       *)
DispatchRelease(e) ==
    /\ Serving
    /\ jobs[e] = "accepted"
    /\ jobs' = [jobs EXCEPT ![e] = "running"]
    /\ DeployerGoto(e, "arguments")
    /\ UNCHANGED <<service, installed, envFile, schema, fence, receipt,
                   unstopped>>

(* The broker starts the deployer and its answer is lost: the Job fails at *)
(* once with RUNNER_START_FAILED, and nothing tells the deployer.  (The    *)
(* wait for the answer is left out: the Job is active for its length.)     *)
DispatchUnanswered(e) ==
    /\ "reply" \in ReleaseFaults
    /\ Serving
    /\ jobs[e] = "accepted"
    /\ jobs' = [jobs EXCEPT ![e] = "resolved"]
    /\ DeployerGoto(e, "arguments")
    /\ unanswered' = unanswered \cup {e}
    /\ UNCHANGED <<service, installed, envFile, schema, fence, candidates,
                   receipt, unstopped>>

(* The Registry resolves a Job whose process tree is gone, and an orphaned *)
(* release Job from its terminal receipt (reconcile_orphaned_attempt).     *)
ResolveRelease(e) ==
    /\ Serving
    /\ jobs[e] = "running"
    /\ ~Alive(e)
    /\ jobs' = [jobs EXCEPT ![e] = "resolved"]
    /\ UNCHANGED <<service, installed, envFile, schema, fence, deployer,
                   receipt, unstopped>>

-----------------------------------------------------------------------------
(* The deployer process.                                                   *)

(* An error before the cutover: exit 125, and the fence goes with it.      *)
Exit(e, locked) ==
    /\ DeployerGoto(e, "exited")
    /\ fence' = IF locked THEN "free" ELSE fence
    /\ UNCHANGED <<service, installed, envFile, schema, jobs, receipt,
                   unstopped>>

Fails(e, locked) == "io" \in ReleaseFaults /\ Exit(e, locked)

(* The dispatching Runtime built the command line, the candidate's         *)
(* deployer parses it.  parse_args requires --workspace-id, which          *)
(* release.apply of this very commit leaves out: between the two, every    *)
(* release ends here ("argv").  A Runtime that passes it gets further.     *)
ParseArguments(e) ==
    /\ DeployerAt(e, "arguments")
    /\ \/ /\ DeployerGoto(e, "preflight")
          /\ UNCHANGED <<service, installed, envFile, schema, fence, jobs,
                         receipt, unstopped>>
       \/ "argv" \in ReleaseFaults /\ Exit(e, FALSE)

(* load_candidate: manifest, artifacts and self-check are as requested.    *)
CandidateProven(e) == e \in candidates

(* preflight: the plan keeps the schema version it saw.                    *)
Preflight(e) ==
    /\ DeployerAt(e, "preflight")
    /\ \/ /\ schema <= Migrations[e] /\ CandidateProven(e)
          /\ deployer' = [deployer EXCEPT ![e].pc = "request",
                                          ![e].pre = schema]
          /\ UNCHANGED <<service, installed, envFile, schema, fence, jobs,
                         receipt, unstopped>>
       \/ (schema > Migrations[e] \/ ~CandidateProven(e)) /\ Exit(e, FALSE)
       \/ Fails(e, FALSE)

WriteRequest(e) ==
    /\ DeployerAt(e, "request")
    /\ \/ /\ receipt' = [receipt EXCEPT ![e].request = TRUE]
          /\ DeployerGoto(e, "fence")
          /\ UNCHANGED <<service, installed, envFile, schema, fence, jobs,
                         unstopped>>
       \/ Fails(e, FALSE)

(* try_lock does not wait: a submit in progress, or another deployer,      *)
(* makes it fail.                                                          *)
AcquireAdmissionFence(e) ==
    /\ DeployerAt(e, "fence")
    /\ \/ /\ fence = "free"
          /\ fence' = "exclusive"
          /\ DeployerGoto(e, "drain")
          /\ UNCHANGED <<service, installed, envFile, schema, jobs, receipt,
                         unstopped>>
       \/ fence # "free" /\ Exit(e, FALSE)

(* A drain that waits for nobody.                                          *)
BlockersOfNobody(e) == {}

Blockers(e) == {f \in Effects \ {e} : Active(f)}

WaitForDrain(e) ==
    /\ DeployerAt(e, "drain")
    /\ \/ /\ Blockers(e) = {}
          /\ DeployerGoto(e, "stage")
          /\ UNCHANGED <<service, installed, envFile, schema, fence, jobs,
                         receipt, unstopped>>
       \/ Blockers(e) # {} /\ "late" \in ReleaseFaults /\ Exit(e, TRUE)

(* Every staged artifact is digested again after it has been copied.       *)
StagedAsProven(e) == e \in candidates

Snapshot == [path |-> installed, env |-> envFile]

(* The second Doctor, the staged release directory, and the snapshot of    *)
(* what is installed.                                                      *)
StageRelease(e) ==
    /\ DeployerAt(e, "stage")
    /\ \/ /\ schema <= Migrations[e] /\ StagedAsProven(e) /\ envFile # Torn
          /\ deployer' = [deployer EXCEPT
                ![e].pc = "cutover", ![e].step = 1, ![e].issued = FALSE,
                ![e].before = Snapshot]
          /\ UNCHANGED <<service, installed, envFile, schema, fence, jobs,
                         receipt, unstopped>>
       \/ /\ schema > Migrations[e] \/ ~StagedAsProven(e) \/ envFile = Torn
          /\ Exit(e, TRUE)
       \/ Fails(e, TRUE)

-----------------------------------------------------------------------------
(* One statement of a closure.  `issued' is set between the two halves of  *)
(* a statement that has two: the control and the wait, the truncation and  *)
(* the write.                                                              *)

Statement(e) == IF DeployerAt(e, "cutover") THEN Cutover[deployer[e].step]
                                    ELSE Rollback[deployer[e].step]
Runs(e, op, s) ==
    /\ deployer[e].pc \in {"cutover", "rollback"}
    /\ Statement(e) = <<op, s>>
Wanted(e, s) == IF DeployerAt(e, "cutover") THEN e ELSE deployer[e].before.path[s]

Issue(e) == deployer' = [deployer EXCEPT ![e].issued = TRUE]

(* Past the last statement the closure returns Ok.  The fence is unlocked  *)
(* when the cutover closure has returned, whatever it returned.            *)
Advance(e) ==
    LET last == IF DeployerAt(e, "cutover") THEN Len(Cutover) ELSE Len(Rollback)
    IN  IF deployer[e].step < last
        THEN /\ deployer' = [deployer EXCEPT ![e].step = @ + 1,
                                             ![e].issued = FALSE]
             /\ UNCHANGED fence
        ELSE IF DeployerAt(e, "cutover")
        THEN DeployerGoto(e, "deployed") /\ fence' = "free"
        ELSE DeployerGoto(e, "restored") /\ UNCHANGED fence

Abandon(e) ==
    IF DeployerAt(e, "cutover") THEN DeployerGoto(e, "failed") /\ fence' = "free"
                        ELSE DeployerGoto(e, "unrestored") /\ UNCHANGED fence

(* The cutover drops the error of a stop as the rollback does.             *)
StopFailsUnseen(e, s) == Advance(e) /\ UNCHANGED unstopped

(* scm::stop.  A service accepts STOP only while it is running, and every  *)
(* call to the service manager may fail.  The rollback drops the error and *)
(* goes on.                                                                *)
StopFails(e, s) ==
    IF DeployerAt(e, "cutover")
    THEN Abandon(e) /\ UNCHANGED unstopped
    ELSE /\ Advance(e)
         /\ unstopped' = IF s = "runtime" THEN unstopped \cup {e}
                                          ELSE unstopped

Stop(e, s) ==
    /\ Runs(e, "stop", s)
    /\ LET state == service[s].state
           issued == deployer[e].issued IN
       \/ /\ state = "stopped"
          /\ Advance(e)
          /\ UNCHANGED <<service, unstopped>>
       \/ /\ ~issued /\ state = "running"
          /\ service' = [service EXCEPT ![s].state = "stopping"]
          /\ Issue(e)
          /\ UNCHANGED <<fence, unstopped>>
       \/ /\ ~issued /\ state \in {"starting", "stopping"}
          /\ StopFails(e, s)
          /\ UNCHANGED service
       \/ /\ issued /\ state # "stopped"
          /\ "late" \in ReleaseFaults
          /\ StopFails(e, s)
          /\ UNCHANGED service
       \/ /\ "io" \in ReleaseFaults
          /\ StopFails(e, s)
          /\ UNCHANGED service
    /\ UNCHANGED <<installed, envFile, schema, jobs, receipt>>

(* write_existing_file_preserving_acl truncates before it writes.          *)
WriteEnv(e) ==
    /\ Runs(e, "env", "env")
    /\ \/ ~deployer[e].issued /\ envFile' = Torn /\ Issue(e)
          /\ UNCHANGED fence
       \/ /\ deployer[e].issued
          /\ envFile' = IF DeployerAt(e, "cutover") THEN e ELSE deployer[e].before.env
          /\ Advance(e)
       \/ "io" \in ReleaseFaults /\ Abandon(e) /\ UNCHANGED envFile
    /\ UNCHANGED <<service, installed, schema, jobs, receipt, unstopped>>

SetBinaryPath(e, s) ==
    /\ Runs(e, "path", s)
    /\ \/ installed' = [installed EXCEPT ![s] = Wanted(e, s)] /\ Advance(e)
       \/ "io" \in ReleaseFaults /\ Abandon(e) /\ UNCHANGED installed
    /\ UNCHANGED <<service, envFile, schema, jobs, receipt, unstopped>>

(* scm::start.  A service that is running already is a success, and so is  *)
(* one that reaches RUNNING after ERROR_SERVICE_ALREADY_RUNNING.           *)
Start(e, s) ==
    /\ Runs(e, "start", s)
    /\ LET state == service[s].state
           issued == deployer[e].issued IN
       \/ state = "running" /\ Advance(e) /\ UNCHANGED service
       \/ /\ ~issued /\ state = "stopped"
          /\ service' = [service EXCEPT
                ![s] = [state |-> "starting", image |-> installed[s]]]
          /\ Issue(e)
          /\ UNCHANGED fence
       \/ /\ ~issued /\ state = "starting"
          /\ Issue(e)
          /\ UNCHANGED <<service, fence>>
       \/ /\ ~issued /\ state = "stopping"
          /\ Abandon(e)
          /\ UNCHANGED service
       \/ /\ issued /\ state # "running"
          /\ "late" \in ReleaseFaults
          /\ Abandon(e)
          /\ UNCHANGED service
       \/ /\ "io" \in ReleaseFaults
          /\ Abandon(e)
          /\ UNCHANGED service
    /\ UNCHANGED <<installed, envFile, schema, jobs, receipt, unstopped>>

(* The self-check of the staged binary, and Doctor.                        *)
CheckLive(e) ==
    /\ Runs(e, "check", "runtime")
    /\ \/ schema <= Migrations[e] /\ Advance(e)
       \/ schema > Migrations[e] /\ Abandon(e)
       \/ "io" \in ReleaseFaults /\ Abandon(e)
    /\ UNCHANGED <<service, installed, envFile, schema, jobs, receipt,
                   unstopped>>

-----------------------------------------------------------------------------
(* After the closures: the verdict on a rollback, and the receipt.         *)

(* The rollback is safe when Doctor finds the schema no newer than the     *)
(* plan; an unreadable Registry is not safe.                               *)
JudgeRollback(e) ==
    /\ DeployerAt(e, "failed")
    /\ \/ schema <= deployer[e].pre /\ Enter(e, "rollback")
       \/ schema > deployer[e].pre /\ DeployerGoto(e, "unsafe")
       \/ "io" \in ReleaseFaults /\ DeployerGoto(e, "unsafe")
    /\ UNCHANGED <<service, installed, envFile, schema, fence, jobs, receipt,
                   unstopped>>

WriteRollbackResult(e) ==
    /\ DeployerAt(e, "restored")
    /\ \/ /\ receipt' = [receipt EXCEPT ![e].rollback = TRUE]
          /\ DeployerGoto(e, "rolled_back")
       \/ "io" \in ReleaseFaults /\ DeployerGoto(e, "exited") /\ UNCHANGED receipt
    /\ UNCHANGED <<service, installed, envFile, schema, fence, jobs,
                   unstopped>>

Statuses == [deployed |-> "deployed", rolled_back |-> "rolled_back",
             unrestored |-> "rollback_failed", unsafe |-> "recovery_failed"]

WriteReceipt(e) ==
    /\ deployer[e].pc \in DOMAIN Statuses
    /\ \/ receipt' = [receipt EXCEPT ![e].result = Statuses[deployer[e].pc]]
       \/ "io" \in ReleaseFaults /\ UNCHANGED receipt
    /\ DeployerGoto(e, "exited")
    /\ UNCHANGED <<service, installed, envFile, schema, fence, jobs,
                   unstopped>>

(* The deployer is killed: a cancelled or timed out Job, or the host.      *)
KillDeployer(e) ==
    /\ "kill" \in ReleaseFaults
    /\ Alive(e)
    /\ Exit(e, deployer[e].pc \in {"drain", "stage", "cutover"})

-----------------------------------------------------------------------------
(* The services.                                                           *)

(* Registry::initialize of a starting Runtime: one migration at a time,    *)
(* each in its own transaction, and SchemaVersionUnsupported when the      *)
(* Registry is newer than the image.                                       *)
Migrate ==
    /\ service["runtime"].state = "starting"
    /\ envFile # Torn
    /\ schema < Migrations[service["runtime"].image]
    /\ schema' = schema + 1
    /\ UNCHANGED <<service, installed, envFile, fence, jobs, deployer,
                   receipt, unstopped>>

(* report_running, after the Registry is open and the socket is bound.     *)
ReportRunning(s) ==
    /\ service[s].state = "starting"
    /\ s = "runtime" =>
          envFile # Torn /\ schema = Migrations[service[s].image]
    /\ service' = [service EXCEPT ![s].state = "running"]
    /\ UNCHANGED <<installed, envFile, schema, fence, jobs, deployer, receipt,
                   unstopped>>

ReportStopped(s) ==
    /\ \/ service[s].state = "stopping"
       \/ /\ service[s].state = "starting"
          /\ \/ "start" \in ReleaseFaults
             \/ /\ s = "runtime"
                /\ \/ envFile = Torn
                   \/ schema > Migrations[service[s].image]
    /\ service' = [service EXCEPT ![s].state = "stopped"]
    /\ UNCHANGED <<installed, envFile, schema, fence, jobs, deployer, receipt,
                   unstopped>>

(* A stopped service is started by hand, or by the next boot.              *)
StartByHand(s) ==
    /\ "boot" \in ReleaseFaults
    /\ service[s].state = "stopped"
    /\ \A e \in Effects : ~Alive(e)
    /\ service' = [service EXCEPT
          ![s] = [state |-> "starting", image |-> installed[s]]]
    /\ UNCHANGED <<installed, envFile, schema, fence, jobs, deployer, receipt,
                   unstopped>>

(* The Workspace or the candidate directory changes; once the release is   *)
(* staged, that is of no consequence.                                      *)
SwapCandidate(e) ==
    /\ "swap" \in ReleaseFaults
    /\ e \in candidates
    /\ deployer[e].pc \in {"none", "arguments", "preflight", "request", "fence",
                          "drain", "stage"}
    /\ candidates' = candidates \ {e}
    /\ UNCHANGED <<service, installed, envFile, schema, fence, jobs, deployer,
                   receipt, unstopped, unanswered>>

-----------------------------------------------------------------------------
ReleaseStep ==
    \/ \E e \in Effects :
          \/ BeginAdmission(e) \/ CommitAdmission(e) \/ DispatchRelease(e)
          \/ ResolveRelease(e) \/ ParseArguments(e)
          \/ Preflight(e) \/ WriteRequest(e)
          \/ AcquireAdmissionFence(e) \/ WaitForDrain(e) \/ StageRelease(e)
          \/ WriteEnv(e) \/ CheckLive(e) \/ JudgeRollback(e)
          \/ WriteRollbackResult(e) \/ WriteReceipt(e) \/ KillDeployer(e)
          \/ \E s \in Services : Stop(e, s) \/ SetBinaryPath(e, s)
                                  \/ Start(e, s)
    \/ Migrate
    \/ \E s \in Services : ReportRunning(s) \/ ReportStopped(s)
                            \/ StartByHand(s)

ReleaseNext ==
    \/ ReleaseStep /\ UNCHANGED <<candidates, unanswered>>
    \/ \E e \in Effects : SwapCandidate(e) \/ DispatchUnanswered(e)

ReleaseSpec == ReleaseInit /\ [][ReleaseNext]_releaseVars

-----------------------------------------------------------------------------
(* inspect_runtime_release_receipt: what release.get answers.              *)
Pending(e) ==
    CASE jobs[e] = "accepted" -> "admitted"
      [] jobs[e] = "resolved" -> "reconciliation_required"
      [] OTHER -> "in_progress"

Projection(e) ==
    LET r == receipt[e]
    IN  IF ~r.request \/ r.result = NoFile THEN Pending(e)
        ELSE IF r.rollback THEN "rolled_back"
        ELSE IF r.result \in {"deployed", "rolled_back"} THEN r.result
        ELSE "reconciliation_required"

-----------------------------------------------------------------------------
\* Every process is at a known statement and every file has a known writer.
ReleaseTypeOK ==
    /\ candidates \subseteq Effects
    /\ service \in [Services -> [state : ServiceStates, image : Images]]
    /\ installed \in [Services -> Images]
    /\ envFile \in Images \cup {Torn}
    /\ schema \in Nat
    /\ fence \in {"free", "shared", "exclusive"}
    /\ jobs \in [Effects -> {"none", "submitting", "accepted", "running",
                             "resolved"}]
    /\ \A e \in Effects :
          /\ deployer[e].pc \in DOMAIN Statuses \cup
                {"none", "exited", "arguments", "preflight", "request", "fence", "drain",
                 "stage", "cutover", "failed", "rollback", "restored"}
          /\ deployer[e].step \in 0 .. Len(Cutover)
          /\ receipt[e] \in [request : BOOLEAN, rollback : BOOLEAN,
                             result : {NoFile} \cup {Statuses[p] : p \in DOMAIN Statuses}]
    /\ unstopped \subseteq Effects /\ unanswered \subseteq Effects

(* What release.get answers is true (server/tools.rs: the deployment       *)
(* receipt "is authoritative").  When it becomes deployed, the Runtime     *)
(* that last came up is the candidate as requested, both services and the  *)
(* env file name it, and the Registry is one it can open.  When it becomes *)
(* rolled back, what the deployer found is configured again and, unless    *)
(* the Runtime refused the rollback's STOP, the Runtime that last came up  *)
(* is the old one, on a Registry it can open.  Stated of the step that     *)
(* changes the answer, as later releases change all of it, and as long as  *)
(* no launch was reported failed whose deployer runs: that one is drained  *)
(* for by nobody, and may be rolling back while another replaces.          *)
ReceiptTrue ==
    [][unanswered = {} => \A e \in Effects :
        LET becomes(d) == Projection(e) # d /\ Projection(e)' = d
            up == service["runtime"].image
            old == deployer[e].before IN
        /\ becomes("deployed") =>
              /\ up = e /\ envFile = e /\ installed = [s \in Services |-> e]
              /\ schema <= Migrations[e] /\ e \in candidates
        /\ becomes("rolled_back") =>
              /\ envFile = old.env
              /\ installed = old.path
              /\ \/ e \in unstopped
                 \/ up = old.path["runtime"] /\ schema <= Migrations[up]
      ]_releaseVars

(* While a deployer replaces the Runtime, no other has the fence, no Job   *)
(* it would cut off has been admitted, and no other deployer is alive: the *)
(* fence closes admission before the drain, and the drain waits for what   *)
(* was admitted before it.  The drain cannot wait for a deployer whose Job *)
(* was failed because the broker's answer to its launch was lost.  Nothing *)
(* of this holds while a deployer restores: it has given the fence back by *)
(* then, and a Runtime that came up may have admitted Jobs again.          *)
OneCutover ==
    \A e \in Effects : deployer[e].pc = "cutover" =>
        \A f \in Effects \ {e} :
            /\ ~Active(f) /\ deployer[f].pc \notin {"drain", "stage", "cutover"}
            /\ Alive(f) => f \in unanswered
=============================================================================
