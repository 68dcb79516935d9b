# Ordivon Runtime in TLA+

A verification project for Ordivon Runtime: the Registry that owns the durable
truth about Jobs, the Engine that dispatches, observes, reconciles and cancels
them on a host it does not control, and the components around them, from
Workspaces and file batches to releases and repairs.

Paths below are relative to `crates/ordivon-runtime-core/src/` (`mcp/` stands
for `crates/ordivon-runtime-mcp/src/`); line numbers are in `PROJECT.json`
under `map`.

## 1. The system

Runtime admits an operation as a **Job** with one **Attempt** and one capacity
**reservation**, launches a **Runner** in a transient systemd unit, and turns
what the Runner and systemd leave behind into one verdict with evidence.

| Component | State | Operations | Hard part | Right when |
|---|---|---|---|---|
| Registry (`runtime/registry*`) | SQLite rows: jobs, attempts with a row version, reservations, idempotency keys, artifacts, recovery flag | submit, bundle, dispatch, bind (Linux, Windows), deadline, cancel, terminal commit, orphan recovery, record/clear failure | callers present versions read long ago; intents and verdicts arrive in any order | rows agree, verdicts are final, capacity is not oversold, one key is one Job |
| Engine (`runtime/engine*`) | threads of requests and maintenance, `control_terminal_lock` | run, observe, cancel, maintenance, orphan remediation | a file check, a systemd query and a commit are separate moments; the process may die between any two | one launch, evidence files match registered digests, verdicts are not guessed, everything ends or is flagged |
| Linux adapter, systemd (`runtime/platform/linux.rs`, external) | unit, control group, processes | systemd-run, show, stop, reset-failed | a queued, active, deactivating, failed or collected unit is seen once per query | |
| Runner (`universal/runner.rs`) | start evidence, cancel file, result, output | start, check cancel, run steps, publish | races the cancel file and SIGKILL | result published before exit |
| Supervisor classification (`runtime/supervisor.rs`) | none | identity and intent to verdict | stale intent | |
| Windows native path (`runtime/windows*.rs`, `platform/windows`) | launcher process, Job Object, start and result files | launch, bind, deadline, cancel, classify | a probe, a look at a file and a commit are separate; process ids are reused | no verdict over a live tree or a published result |
| Inputs and credentials (`runtime/engine/admission.rs`, `reconciliation.rs`) | leases, staged, prepared and owned sets | stage, publish, adopt, dispatch, sweep | crash between publication and commit, unknown commit outcome, sweep against use | a committed Job has its bytes, garbage goes |
| Input ingress (`mcp/server/server_state.rs`) | staged source, request file | ingest | concurrent calls share and remove files | only verified bytes are committed |
| Workspaces (`universal/workspace*`) | record, worktree, Git entry, rescue ref, caches | open, close, recover, page changes | crash inside close; files change between pages | no commit is lost, a close gets through |
| Mutation (`universal/mutation.rs`) | the files of one batch | digest-guarded batch | late errors, rollback, foreign edits | a refusal changes nothing |
| Doctor, repair (`runtime/doctor.rs`, `runtime/repair.rs`) | plan, backup | inspect, repair batch, cancel stale | the Runtime goes on beside them | only backed-up rows change, no result is overruled |
| Release effects (`engine/release.rs`, `bin/ordivon-runtime-windows-deploy.rs`) | effect, receipt, fence, services, image paths | fence, drain, cut over, probe, roll back | one of several steps fails, the deployer is killed | the receipt says what runs |
| Storage (`runtime/registry/storage.rs`) | migration journal, schema | initialise | several binaries of different versions | each script once, in order |
| MCP server (`mcp/`) | timer | requests, bounded maintenance batch | starvation of the batch tail | what can be concluded is |

Components interact through the Registry (shared rows, compare-and-set on
`row_version`), through the bundle directory of an Attempt (the Runner writes
start, result and output; the Engine writes cancel, control and remediation
files) and through systemd queries. The only in-memory coordination between
reconciliation and cancellation is `control_terminal_lock`.

`PROJECT.json` lists the hazards found in this code, each at its line, with the
properties that would catch it.

## 2. Modules

| Module | What it is |
|---|---|
| `Identities` | the constants all others share: Jobs and the null value |
| `Registry` | one action per mutating method of the Rust type `Registry` |
| `JobContract` | the abstract promise to clients: a Job is admitted to a free Workspace, may become suspect (orphaned), and is concluded once |
| `RegistryContract` | the Registry as an implementation of `JobContract` (refinement mapping: the Workspace of the Job's request, and its resolution) |
| `RegistryProofs` | theorems about the Registry and their proofs |
| `Host` | systemd (external), the Runner, and the files of a bundle |
| `Engine` | the threads of the Runtime, over `Registry` and `Host`; extends both |
| `Workspaces` | open, close and its recovery over records, Git and caches |
| `BatchMutation` | one `workspace.mutate` batch with an editor beside it |
| `ChangePages` | `workspace.changes` page by page, with files changing |
| `BoundSets` | admission of Jobs with bound inputs or credentials, unknown commits, adoption, sweep |
| `NativeAttempt` | one `windows_native` Attempt: the Runtime's threads and the launcher |
| `NativeRegistry` | the row of a native Attempt read as the tables of `Registry` for one Job (refinement mapping) |
| `Release` | the Windows release from effect to receipt |
| `Storage` | `Registry::initialize` in several processes |
| `Repair` | the operator's repair batch and stale cancellation against a live Runtime |
| `Ingress` | `input.ingest` calls of one identity |
| `Maintenance` | the bounded batch of the server's maintenance task |
| `RunnerSteps` | the Runner inside its unit, step by step |
| `MCRegistry`, `MCEngine`, `MCComponents` | instances for TLC |
| `EngineSteps`, `EngineProofs` | what the steps of the Engine do to threads, rows and files; the theorems about it |
| `StorageProofs` | theorems about `Storage` |
| `ComponentProofs` | theorems about `Ingress`, `Maintenance` and the components side by side (`MCComponents`) |
| `AttemptProofs` | theorems about `RunnerSteps`, `NativeAttempt` and `NativeRegistry` |
| `FileProofs` | theorems about `BoundSets`, `Workspaces`, `BatchMutation` and `ChangePages` |
| `OperatorProofs` | theorems about `Release` and `Repair` |

**Registry.** A method runs in one IMMEDIATE transaction, so it is one atomic
action, and a method that fails rolls back, so only its successful outcome is
an action. `submit_preallocated` is `Submit`; `mark_bundle_ready`,
`mark_dispatch_issued`, `bind_running`, `bind_supervisor_owner`,
`request_deadline_termination`, `commit_terminal` and
`recover_orphaned_terminal` are the actions of those names; `request_cancel`
is split by its three writing branches (`CancelAccepted`, `CancelDispatched`,
`CancelOrphaned`). Versioned methods take the version `v` the caller presents:
`Next` allows every version, also those no caller could hold, so the results
do not depend on how callers behave. The admission fence is held exclusively by
a deployment or a cache eviction (`AcquireFence`, `ReleaseFence`). Digests,
keys, requests and owners are opaque; the five insertions of an admission are
one step because they are one transaction. The append-only event log and the
times are left out: no decision of the modelled methods reads them, except the
age of a starting Attempt, which is the set `aged` of `Host`.

**Host.** `hosts[j]` holds the unit state, how far the Runner is, whether a
payload process exists, and how often the unit was launched; `bundles[j]` holds
the files. A unit is absent, queued, active, deactivating with
`Result=success` or with a failure, or failed. What is assumed of systemd is in the
module's header. Runner actions are the observable points of `run_job_runner`
with one execution step: start evidence, a failure result from any error, the
check of the cancel file, the spawn, the result, the exit. `RunnerDies`, residual
descendants, rejections and the expiry of `RuntimeMaxSec` happen only in the instances that list them in
`Faults`.

**Engine.** A thread is at a program point `pc` with the operation it serves
(`op`), the Job, the row it read last (`seen`) and the verdict it is about to
commit. Each Registry transaction, file check, group of systemd properties read in one
`systemctl show`, and file write is one step, so every interleaving of the code at that grain is
explored. `then` records which caller a shared function returns to
(`cancel_job` calls `commit_runner_result` directly; a verdict "orphaned" of
`reconcile_bound_attempt` is followed by `recover_orphaned_runner_result`).
`ReturnTo` is the call structure: where the success or the error of a function
leads for each operation. A re-read after a failed compare-and-set is joined to
the failure, which is sound because versions only grow. `Crash` loses all
threads and the lock; `Reboot` also ends every unit and process.

Abstractions of the Engine: an Attempt's Runner identity is the boot it was
launched in (a launch happens at most once, which `AtMostOneLaunch` checks);
deadlines of poll loops are a free choice between another round and the
fallback; precondition checks, bundle contents and command construction
succeed or fail freely. `observe_job`'s wait loop is one call of `reconcile_job`, which a
client may repeat.

**The other components** share no file, row or process with each other in the
behaviours modelled, so each is a module of its own with its own variables, and
`MCComponents` puts them side by side: the variable `component` names the one
that runs in a behaviour, the others stand still. Where a component meets the
Engine it does so through what the Engine's modules already promise.

* `Workspaces`: `op` is the one operation that holds the lifecycle lock; every
  Git command, directory removal and record write is a step that may fail, and
  `CloseCrash` loses the operation. `tip` is the commit a worktree stands at,
  `rescue` the ref `refs/ordivon/closed/<id>`. A digest of a source state is
  the pair of commit and dirtiness it covers.
* `BatchMutation`: a content stands for its digest. Writing one file is check,
  rename, digest; the error may come before the rename ("early") or after it
  ("late"); an editor may write at any moment. The rollback replaces a file by
  the same write, so it too compares first and renames later; a file the batch
  created is removed without another look.
* `ChangePages`: four passes per page (tracked, untracked, and both again),
  each over the files as they are then; the collector's bounded heap, the page's
  entry and byte limits, and the cursor with the set's digest.
* `BoundSets`: a submission is what a client asks for under one key: the digest
  of its identity, the kind of set it binds, and the plan resolved for it; two
  submissions of one identity may differ in the plan, and all three together
  stand for the operation digest, which holds no Job identity. `CommitFails` is
  a commit reported as failed that is durable or not; `ReadBack` is the query
  after it, which may find the row of a rival with the same operation. Dispatch
  is the steps of the code: inputs are looked at before the intent
  (`DispatchRefused`, `DispatchIssued`), inputs and credentials again by the
  launching thread (`VerifyIssued`), whose failure leaves the Attempt starting
  (`LaunchAbandoned`), and then comes the launch. Files may be altered, the Job be
  resolved and credentials be swept between any two of them.
* `NativeAttempt`: a row with a version, two threads of the Runtime (reconciler,
  canceller) besides the dispatcher, the launcher, its target, and the bundle.
  The launcher's C# is taken from `platform/windows` at the order in which
  it publishes start evidence, result and exit.
* `Release`: every deployer statement that changes a service, a file, the fence
  or the receipt is a step; the service manager is external. An image is named
  after the effect that installs it, and `Migrations` is the newest schema
  version it knows. `DispatchUnanswered` is a launch whose answer the broker lost:
  the Job has failed and its deployer runs (`unanswered`). The missing argument of section 4 is the fault "argv"; the
  other steps are those of a deployer started with it.
* `Storage`: a journal of versions with checksums, and the sequence of scripts
  that have really run.
* `Repair`: the row shapes an older Runtime can have left (`Found`), a repairer
  and a canceller, and the live Runtime's own steps on the same rows. A unit
  whose row is Lost is assumed to be gone: the repair that finalises it does not
  probe, and `NoVerdictOverResult` rests on that for such rows.
* `Maintenance`: an Attempt is ready, busy, held as an orphan, stuck or done; only the
  order, bound and failure isolation of the batch are modelled, because what
  reconciliation does is `Engine`. `FatalError` ends a tick at any place, before the
  listing (the sweep of credentials fails) as well as inside the batch.
* `RunnerSteps`: the statements of `run_job_runner` and `execute_step`: validation,
  watches, spawn, poll, kill, join, result. A foreign hand may change an
  executable or a dependency and change it back between any two statements.

## 3. Runs

| Run | Instance | Distinct states | Checks |
|---|---|---|---|
| `registry_depth` | 1 Job, 2 owners, 2 digests, 2 kinds, versions 0..6 | 9 thousand | `TypeOK`, `RuntimeInvariants`, `VerdictFinal`, `StopIsCommitted`, `RowVersionGuards` |
| `registry_capacity` | 3 Jobs, 3 keys, 3 Workspaces, limits 1 and 2, versions 0..1, all three symmetric | 350 thousand | `KeysIdentifyJobs`, `WorkspaceExclusive`, `GlobalCapacity`, `ImplementsContract` |
| `engine_faults` | 1 Job, 1 client, 1 maintainer, every fault | 2.3 million | `EngineTypeOK`, `ControlEvidenceIntact`, `CancelIsRequested`, `CleanEvidenceIsTrue` |
| `engine_crash` | 1 Job, 1 client, 1 maintainer, Runner death, unit expiry, one crash, one reboot | 2.1 million | `AtMostOneLaunch`, `CancelPreventsPayload`, `OrphanVacates` |
| `engine_converges` | 1 Job, 1 client, 1 maintainer, one crash, fair | 0.2 million | `Converges` |
| `component_faults` | eleven components, two actors or objects each, every safety fault but the lost reply of a release | 1.2 million | `ComponentTypeOK`, `AuthorityAlive`, `RefusalTouchesOneFile`, `EditOverwrittenOnlyRaced`, `PagesAreTheSet`, `BytesOutliveCommit`, `LaunchFindsBytes`, `AnswersTrue`, `VerdictAfterTree`, `ResultStands`, `ReceiptTrue`, `SchemaExact`, `RepairFromBackup`, `IngestedBytesVerified`, `CompletedIsRealized` |
| `components_converge` | seven components, fair; releases whose launch loses its answer | 94 thousand | `TombstoneTrue`, `OneCutover`, `NoVerdictOverResult`, `CloseConverges`, `GarbageCollected`, `NativeConverges`, `Served`, `RunnerReports` |

What they show:

* `RuntimeInvariants`: the seven conditions `inspect_runtime_invariants_connection`
  looks for never arise from the Registry's own transactions.
* `VerdictFinal`, `StopIsCommitted`: a conclusive verdict with its digest and
  the returned capacity is final, an orphan is only replaced by a conclusive
  verdict, and a committed stop survives binding, deadline and a second cancel.
* `RowVersionGuards`: everything a writer decides on changes only with the row
  version, which is what makes the optimistic writers of the Engine sound.
* `KeysIdentifyJobs`, `WorkspaceExclusive`, `GlobalCapacity`: idempotent
  admission, and capacity that is never oversold by orphans, cancellations or
  recoveries: the holders never outnumber the greatest limit recorded for one of
  them, whatever limits other requests send.
* `ControlEvidenceIntact`: the control evidence file of a terminal Attempt is
  the one whose digest was registered, although it is written before the commit.
* `CancelIsRequested`: no path reports a cancellation nobody asked for.
* `CleanEvidenceIsTrue`: when the terminal evidence registered with a verdict
  says that the process tree is clean, no process of the Attempt exists, then or
  later.
* `AtMostOneLaunch`, `CancelPreventsPayload`, `OrphanVacates`: across crash and
  reboot there is one launch; no Runner passes its check of the cancel file after
  its Attempt was cancelled; and the capacity of a bound orphan does
  not return while its control group is populated.
* `Converges`: an admitted Attempt is eventually conclusive or flagged for good.
* `TombstoneTrue`, `AuthorityAlive`, `CloseConverges`: whatever crashes or
  fails inside a close, a tombstone means that the directory is gone and the
  commit is reachable; no close takes the repository from a Workspace opened
  out of it; a repeated close gets through, unless an earlier one left a rescue
  ref for another commit.
* `RefusalTouchesOneFile`, `EditOverwrittenOnlyRaced`: how much of "atomic" a
  batch keeps: at most the file whose error came after its rename, and edits
  only in three windows: between check and rename of a write, between check and
  rename of the write that rolls a file back, and in the rollback of a new file.
* `PagesAreTheSet`: pages that end are together exactly one sorted change set.
* `BytesOutliveCommit`, `AnswersTrue`, `LaunchFindsBytes`, `GarbageCollected`:
  the life of a prepared set against crash, sweep and unknown commits. Answers are
  true when given: after a failed commit the row that is there decides, by its
  operation digest, so a rival's row of the same operation is `existing` and one
  of another plan a conflict, even for the same request. A launch finds the
  Job's own bytes unless they were altered after the last look, or the Job was
  resolved and its credentials retired beside the launching thread.
  Credentials nobody uses any more are collected; for inputs nothing of the
  kind is claimed.
* `VerdictAfterTree`, `ResultStands`, `NativeConverges`: native verdicts wait
  for the tree, never overrule a published result, and come in the end unless
  a cancellation disarmed the outer deadline or the target destroyed its start
  evidence.
* `ReceiptTrue`, `OneCutover`: a receipt names what is configured and came up, as
  long as no launch lost its answer; while one deployer replaces the Runtime no
  other has the fence and no Job is active, and another deployer is alive only if
  the answer to its launch was lost. Neither is claimed of a
  rollback: the deployer has released the fence before it, so a Runtime that
  came up may have admitted Jobs that the rollback cuts off
  (`bin/ordivon-runtime-windows-deploy.rs:1228`).
* `SchemaExact`: scripts run once, in order, across racing and dying openers.
* `RepairFromBackup`, `NoVerdictOverResult`: a repair commits only against rows
  equal to its backup and leaves nothing violated; an operator's verdict
  overrules no result, but for a unit still deactivating.
* `IngestedBytesVerified`, `CompletedIsRealized`: only verified bytes are
  ingested; a completed result ran every step on the committed files.
* `Served`, `RunnerReports`: maintenance reaches what can be concluded unless
  stuck Attempts fill a batch; a payload that never ends does not keep the Runner
  from its result unless a process it does not kill holds the pipes.

**Bounds.** Jobs share nothing but capacity and the control lock, so one
Job with two threads is the smallest instance in which every race between
cancellation, observation and maintenance on its rows and files occurs; capacity needs three Jobs
and three Workspaces (two Jobs in one Workspace, or three in different ones
against a limit of two). Versions 0..6 exceed
the longest life of an Attempt that `registry_depth` reaches; 0..1 in `registry_capacity` keeps
Attempts short because its properties are about who holds capacity; every verdict, orphaning and
recovery still happens there. That run identifies states that differ only in the
limit of a Job without capacity, which nothing reads (`HeldLimits`). `MaxCrashes` and `LastBoot` are one each, so a crash
and a reboot may follow each other at any two moments; more would only repeat
the loss of the threads' state. Clients send one request at a time and any number of them.
In `component_faults` every component has two of what it can race on: two
Workspaces where one may be opened out of the other, two paths, two Jobs for three
submissions (two plans of one request with credentials, another request with
inputs), two releases with different schema versions, two openers of
different versions, two repair cases, two ingress calls, two Attempts for a
batch of one; three keys, pages of at most one or two entries, and a size of
each entry chosen once at the start, above or below the byte limits, give pages
of none, one and two entries. `MaxCommit` is the number of commits a Workspace may gain:
0 there, where two Workspaces interact, 2 in `components_converge`, where a rescue ref can
become stale; `MaxBatch` is the number of mutations in a batch: 2 there and 1 here, where no
property is about batches. That run has one of each otherwise, two releases, three Attempts for a batch of two,
and two Runner steps of which the first continues on error. The loss of a
Workspace directory ("lose") is in the first only: with an older rescue ref the recovery prefers
it (section 4), and `TombstoneTrue` would fail. `MaxFatal` bounds the errors
that end a maintenance tick early, so that they do not come for ever. A release
whose launch loses its answer ("reply") is in the second run only, where two releases meet
killed deployers and services that do not start; all faults of a release together are
more than a run can take, and rest on `ReleaseOneCutover`. The
target of a native Attempt destroys its start evidence in `components_converge`
("tamper"); that it might write a result of its own is not modelled.
Deadlock checking is off: a system whose Jobs are all over may stop.

**Fairness** (`Fairness` in `Engine`): weak fairness of the steps of every
thread (each request has an OS thread of its own and no step waits for a client;
the lock is released by a step of its holder), of the maintenance of every
listed Attempt (the loop of the MCP server lists all of them every interval, as
long as they are not more than the batch bound, see section 6), and of the host: systemd
starts, ends and collects units, the Runner finishes, time passes. Crashes,
faults and client requests are not fair.

`ComponentFairness` asks, of the component that runs: that crashes and failures
of a close end at some time and a close that stays possible is asked for again
(without either no close can be promised); that admissions in flight proceed, and
the sweep of each credential set (every maintenance pass sweeps credentials,
`runtime/engine/reconciliation.rs:289`; input sets are swept only when an admission
begins, when orphans are recovered and at startup, none of which has to come again,
so nothing is asked for them), which assumes that the sweep's own I/O does not
fail for ever; that the reconciler and
the passage of time proceed; that ticks come and go through their batch; that the Runner
executes its statements and its deadlines pass. The launcher, the target, the
payload and every fault are not fair.

Every property has a mutant: a plausible slip of the code, defined beside the
definition it replaces under a comment `Mutation`, under which TLC finds the property violated.

## 4. Where the code and its documents disagree

Five runs are expected to violate a property that states what a document or a
comment of the repository says; `PROJECT.json` quotes them.

1. `engine_stop` (`StopConverges`). A cancellation moves a starting Attempt to
   stopping before its identity is bound. If the Runtime crashes before the
   cancelling thread commits, every reconciliation fails in
   `supervisor_identity`; the Attempt stays stopping, flagged, and holds its
   Workspace. (`Converges` holds because of the flag.)
2. `engine_remediation` (`RemediationEvidenceIntact`). Two threads that judged
   an absent orphan on either side of a cancellation write different bytes to
   the same file; the later write may follow the commit of the other digest.
3. `engine_writer` (`SingleWriter`). The startup grace is counted from
   `created_at_ms`. A thread that is slow between `mark_dispatch_issued` and
   `systemd-run` launches after its Attempt was declared lost; with the Workspace
   released, the next Job's payload runs beside it. The same property would also fail in
   the window in which a stopped unit deactivates.
4. `engine_success` (`SuccessHasResult`). The intent is read before the unit is
   observed, and the commit re-reads the version but not the intent: a
   maintainer can turn a unit stopped by a cancellation into `succeeded`.
5. `engine_drift` (`FailureIsOver`). The same re-read commits `failed`, decided
   for an accepted row, onto an Attempt that another thread has since launched.

Met while modelling the other components, and stated in the properties as
their exceptions rather than as runs of their own:

* `workspace.close` recovers the head of a lost directory from an existing rescue
  ref before it looks at Git's worktree entry
  (`universal/workspace/close_recovery.rs:297`), so a ref an interrupted close
  left is preferred to later commits. Recovery looks only into the recorded
  source repository (lines 293 to 296): when a Workspace was opened from another
  one's worktree and that one has been closed or lost, the commit of the lost
  directory is not recovered, although the repository both share still has it. A
  rescue ref for another
  commit refuses every later close (line 270). After a crash between the removal
  of the worktree and the tombstone, a replay with `expectedSourceStateDigest`
  is refused, although `docs/reference/tools.md:66` calls it replayable.
* `workspace.mutate` is "one atomic validated batch" (`docs/reference/tools.md:76`);
  an error after the rename leaves that file changed although the batch is refused, and a crash
  leaves a prefix.
* A change page is compared with one second listing so that it "cannot silently
  splice two realities into one page" (`universal/workspace/changes.rs:709`);
  two listings during changes may still agree on a set that never existed.
* An admission whose commit is durable but reported as failed discards the
  prepared set of the Job it committed (`runtime/engine/admission.rs:171`, `270`).
  The Job exists and cannot be dispatched.
* A lost broker reply commits `RUNNER_START_FAILED` while the launcher runs
  (`runtime/engine/execution.rs:1497`). A cancellation disarms the outer
  deadline (`runtime/engine/reconciliation.rs:1046`).
* `release_apply` never passes `--workspace-id` (`mcp/server/tools.rs`, asserted
  by `mcp/server/tests.rs:1374`) and the deployer requires it
  (`bin/ordivon-runtime-windows-deploy.rs:479`). A rollback ignores errors of
  STOP, so that "rolled back" may be written while the new image runs.
* A torn ingress request file refuses its identity for ever
  (`mcp/server/server_state.rs:275`).
* The Runner joins its capture threads without a deadline
  (`universal/runner.rs:794`), and kills the process group only.

## 5. Proofs

TLC checks the instances of section 3. The theorems below hold for every value
of the constants that satisfies the named assumptions of the modules, and TLC
evaluates those on the instances.

**Registry** (`RegistryProofs`), for every set of Jobs, keys, requests,
Workspaces, limits, owners, digests, kinds and versions (Jobs are finite, limits
positive, versions natural, requests name Workspaces, the null value is none of
the others):

| Theorem | States |
|---|---|
| `RegistryConsistent` | `[]Consistent`, the inductive invariant |
| `RegistryTyped`, `RegistryAgrees`, `RegistryIdempotent` | `[]TypeOK`, `[]RuntimeInvariants`, `[]KeysIdentifyJobs` |
| `RegistryExclusive`, `RegistryCapacity` | `[]WorkspaceExclusive`, `[]GlobalCapacity` |
| `RegistryVerdictFinal`, `RegistryStopIsCommitted`, `RegistryRowVersionGuards` | the three action properties |
| `RegistryImplementsContract` | the Registry implements `JobContract` |

`Consistent` is `TypeOK`, the Doctor conditions, key uniqueness, and
`BlankRows`: a Job that is not admitted has no row anywhere. The last is what
makes it inductive; without it an admission could meet a leftover reservation or
digest. The induction has one lemma per method, and three general steps carry
most of them: `RowStep` (rewriting the rows of one admitted Job), `LiveStep`
(touching only a live Attempt row) and `VerdictStep` (leaving a verdict, its
digest and the matching reservation). `WorkspaceExclusive` and `GlobalCapacity`
follow by induction relative to `Consistent` from two facts: only an admission
adds a holder, and it adds exactly its own Job. The action properties rest on
`StepChange`, which classifies how any step may rewrite an Attempt row, and on
`StoppingIntended`: an Attempt is stopping only with a committed intent.
`RegistryImplementsContract` maps verdicts to `Suspect` and `Conclude`, an
admission to `Admit`, and every other transaction to a stutter.

**Engine** (`EngineSteps`, `EngineProofs`), for any number of Jobs, threads,
crashes and reboots and any set of faults. Beside the Registry's assumptions:
evidence digests are digests, artifact kinds are kinds, a boot is an owner
(`EvidenceAssumption`, `KindAssumption`, `BootAssumption`), `MaxCrashes` is natural,
no thread is the null value, and the Runner's own outcomes are results other than
"cancelled" (`CrashAssumption`, `ThreadAssumption`, `OutcomeAssumption`).

| Theorem | States |
|---|---|
| `EngineInvariant` | `[]EngineInv`, the inductive invariant |
| `EngineTyped` | `[]EngineTypeOK`, the discipline of `control_terminal_lock` included |
| `EngineLaunchesOnce` | `[]AtMostOneLaunch` |
| `EngineControlEvidence`, `EngineCleanEvidence` | `[]ControlEvidenceIntact`, `[]CleanEvidenceIsTrue` |
| `EngineCancelRequested`, `EngineCancelPrevents` | `[]CancelIsRequested`, `CancelPreventsPayload` |
| `EngineOrphanVacates` | `OrphanVacates` |
| `EngineTransacts` | every step of the Engine is at most one `Transaction` of the Registry |
| `EngineAgrees`, `EngineExclusive`, `EngineCapacity`, `EngineVerdictFinal`, `EngineStopIsCommitted`, `EngineRowVersionGuards`, `EngineImplementsContract` | what the Registry guarantees, the Engine guarantees |

A thread acts on what it read some steps ago, so the safety properties say
nothing about the state in which it will act. `EngineInv` adds, for each place of
the code, what the thread there may still rely on (`ThreadOK`): that the owner in
the row it read had started, that a tree it found absent is still absent, that a
result it saw is still there, that an intent it decided from was committed. These
are facts that no step takes back: `RowsAdvance` and `HostAdvances` say what any
other step may do to rows, files and processes, and one lemma per place shows
that its facts survive that. `JobOK` relates each row to the host (an Attempt that
was never dispatched has no unit, a cancelled one has its cancel file or no
payload to come), `LaunchOK` says that the thread between the dispatch intent and
`systemd-run` is the only one there, and `LockOK` that the holder of the control
lock finds its evidence as it wrote it. The last seven theorems need no new
induction: `EngineTransacts` turns an Engine behaviour into a Registry behaviour
and the Registry's step lemmas, which allow any presented version, do the rest.

**Storage** (`StorageProofs`), for any number of openers and versions, each
supporting a version that exists (`StorageAssumption`): `StorageInvariant`,
`StorageTyped`, and `SchemaIsExact` for `SchemaExact`. `StorageInv` keeps what
cannot become stale between two transactions of an opener: the recorded versions
are an initial segment that only grows, and a row with this build's checksum is
not written again; an opener about to apply a version has validated all before it.

**Runner** (`AttemptProofs`), for any number of steps (`RunnerAssumption`):
`RunnerInvariant`, `RunnerTyped`, and `RunnerRealized` for `CompletedIsRealized`.
Bytes are compared at one moment and run at another. `BytesKnown` says that as
long as the watch has no event the bytes are those that were compared, and
`TaintSeen` that once a step ran on other bytes there is an event that a later
look must find.

**Native Attempt** (`AttemptProofs`), for every set of faults: `NativeInvariant`,
and `NativeVerdictAfterTree` and `NativeResultStands` for `VerdictAfterTree` and
`ResultStands`. The runs divide the faults between them (crash, death and
cancellation in one, process id reuse, lost reply and tampering in the other,
which does not check these two), so their combinations rest on the proof. A
probe of the launcher is stale when the verdict is committed; `NativeInv` keeps
what is not: a launcher found gone does not come back, so no result can follow
it (`ArrivedOK`), nothing of the Attempt exists before the one spawn (`HostOK`), and
under a conclusive verdict the launcher is gone or has published
(`ConcludedOK`).

`NativeTransacts` shows that what `NativeAttempt` writes in short is what
`Registry` does in full: every rewrite of the row, read through `NativeRegistry`,
is a transaction of `Registry` under the row version it has (`NativeTransactions`).
There are five ways to rewrite it (`RowStep`: bind, conclude, stop, stop an orphan,
recover); one lemma per action says which of them it takes, one lemma per way
which transaction that is. The view reads the Job's desired state off the stop
intent, so a cancellation that finds the outer deadline's stop already committed
changes nothing in it. `NativeVerdictIsFinal` (`NativeVerdictFinal`): a
conclusive verdict is never rewritten, and a committed stop keeps its
intent until the verdict. `NativeTypes` (`NativeTypeOK`) includes that the row has at most five
versions after its dispatch: `Spent` counts what never comes back (the binding, two
grades of stop, orphan and verdict), and every transaction raises it (`RowPays`).

**Files** (`FileProofs`):

| Theorem | States |
|---|---|
| `SetInvariant`, `SetTypes`, `SetBytes`, `SetAnswers`, `SetLaunches` | `BoundSets`, any number of Jobs and submissions: `SetTypeOK`, `BytesOutliveCommit`, `AnswersTrue`, `LaunchFindsBytes` |
| `WorkspaceInvariant`, `WorkspaceTypes`, `WorkspaceAuthority`, `WorkspaceTombstones` | `Workspaces`, any number of Workspaces and commits: `WorkspaceTypeOK`, `AuthorityAlive`, `TombstoneTrue` |
| `MutationInvariant`, `MutationTypes`, `MutationRefusal`, `MutationOverwrites` | `BatchMutation`, any paths, contents and batch length: `MutationTypeOK`, `RefusalTouchesOneFile`, `EditOverwrittenOnlyRaced` |
| `PageInvHolds`, `PageTypesHold`, `PagesHold` | `ChangePages`, any finite number of files, sizes and limits: `PageTypeOK`, `PagesAreTheSet` |

`SetInv` says of the admission in flight whether its row can exist yet
(`AdmissionOK`), that one key has one row (`OneRow`), who holds a lease
(`LeaseOK`), which rows the last answer was true of (`ToldOK`), and that a thread
which has verified a set still finds it unless the Job is over (`LaunchOK`).
`WorkspaceInv` says what the holder of the lifecycle lock has found (`OpHeld`,
`HeadSeen`), that every open Workspace has its repository (`Grounded`), and that a
recorded Workspace is absent only after its commit had a ref (`AbsentRescued`).
`WorkspaceTombstones` assumes that "lose" is not among the faults; with it the
property fails for the two reasons section 4 gives. `WorkspaceAssumption` keeps
the upstream repository and the null value apart from Workspaces and commits.
`MutationInv` counts, by position in the batch, which files differ from what they
were (`Touched`), and says that what a rollback puts back is what lay there
(`Expects`); `MutationAssumption` makes the editor's content none of the batch's.
`PageInv` says of a call what its first scan has found so far (`ScanOK`), that the
page of a call under verification is the first part of what lies after its cursor, in
the set that cursor was issued for (`VerifyOK`), and that the entries delivered are that set, sorted, up to the cursor (`CursorOK`); a page
then extends an initial segment. `PageAssumption`: the keys are finitely many
naturals (their order is that of the paths), limits and sizes are naturals. What
sorting a set yields is defined without recursion, as the one increasing sequence of
its members; that there is one for every finite set is shown from a smallest set
without one (`SmallestSet`, from the well-founded order of strict subsets).

**Operator** (`OperatorProofs`), for any number of releases and of rows:
`ReleaseInvariant`, `ReleaseTypes`, `ReleaseOneCutover` (`OneCutover`),
`ReleaseReceipt` (`ReceiptTrue`); `RepairInvariant`, `RepairTypes`
(`RepairTypeOK`), `RepairNoVerdict` (`NoVerdictOverResult`), `RepairBackedUp`
(`RepairFromBackup`). Row and Job versions in `Repair` are natural numbers without a
bound: an interrupted command may be repeated.
`ReleaseInv` makes the deployer that passed the drain the owner of the
services (`Fenced`, `Tracked`, `Alone`), so that its step counter says exactly
what has been replaced (`Progress`), and ties the schema to the image that
serves (`OpensItsOwn`), without which a receipt could name an image that cannot
open the Registry. `RepairInv` ties what a plan rests on to row versions
(`Planned`), what the canceller saw of the tree to the tree (`Cancelling`), and a
verdict in the operator's name to a silent tree (`AdminIsSilent`, `LostIsGone`).
`ReleaseAssumption` types `Migrations`; `RepairAssumption` keeps the absent
digest apart from the others.

**Ingress** (`ComponentProofs`): `IngressTypes` and `IngressVerified`, that
`IngressSpec` keeps `IngressTypeOK` and `IngestedBytesVerified`, for any sets of calls and host files (there is at
least one host file). The property alone is not inductive: the invariant
`IngressInv` adds where a verification is remembered once it is done. A call
about to publish holds good bytes in its own part (`PublishesGood`), and as
long as any call is about to commit, the shared source is not bad
(`CommitsVerified`), because other calls can only remove it or publish good
bytes, and storage decays only between calls. `MoveStep` carries every step of
a call that leaves the shared bytes no worse.

**Maintenance** (`ComponentProofs`), for any finite set of Attempts and any positive
batch size (`MaintenanceAssumption`): `MaintenanceTypes`, that a tick never holds
more than a batch and the order of admission stays an order. That the batch serves
every Attempt in the end is liveness, and is checked (`Served`).

**Components side by side** (`ComponentProofs`): `ComponentsRun` shows that the
composition `ComponentSpec` that TLC runs implies the specification of every
component, since a step of one leaves the others' variables alone;
`ComponentsTyped` (`ComponentTypeOK`) and `ComponentsSafe` then carry every type
invariant and safety property `component_faults` checks over to the composition,
for all constants that satisfy the assumptions above.

**Only model-checked.**

Liveness, because the prover has no rule for fairness or ENABLED:
`Converges`, `StopConverges` (violated, section 4), `CloseConverges`, `GarbageCollected`,
`NativeConverges`, `Served`, `RunnerReports`. Every invariant that a passing run
checks is also stated by a theorem.

No module uses RECURSIVE operators.

## 6. Not modelled, and the plan

Not modelled, with reasons in `PROJECT.json`: read-only projections and
inspection (they change no state), operational scripts, documents. Of the
modelled components, left out: SQLite itself (transactions are atomic; only the
commit's reported outcome is uncertain), Git itself, transport, authorisation
and rendering of the server, toolchain discovery, path translation and command
construction on Windows, validation of captured output, reconciliation at
admission, the Linux release scripts. `Repair` and `Maintenance`
abstract the Registry transactions that `Registry` models in full; that they are
instances of it is not checked (for `NativeAttempt` it is proved).

Left for later:

1. `RunnerSteps` as an implementation of the Runner of `Host`, and the rows of
   `Repair` and `Maintenance` as rows of `Registry`.
2. Reconciliation at admission and several Jobs in one Workspace in `Engine`.
