------------------------------- MODULE Engine -------------------------------
(***************************************************************************)
(* The Runtime Engine on Linux: the threads that admit, dispatch, observe, *)
(* reconcile and cancel Jobs (runtime/engine/), over the Registry and a    *)
(* host they can only query.  Between two Registry transactions, file      *)
(* checks or systemd queries any other thread, the host and a crash may    *)
(* move, so each of them is a step of its own; a thread carries the row it *)
(* read, and the verdict it reached, from step to step.                    *)
(*                                                                         *)
(* A step that re-reads a row after a failed compare-and-set is joined to  *)
(* the failure: row versions only grow, so the conflict is still there     *)
(* when the row is read.  The Windows path is not part of this module.     *)
(***************************************************************************)
EXTENDS Registry, Host

CONSTANTS
    Clients,      \* threads that serve requests
    Maintainers,  \* threads that run the maintenance loop
    Requests,     \* which of "observe" and "cancel" clients send
    MaxCrashes,   \* BOUND on crashes of the Runtime process
    LastBoot      \* BOUND on reboots: boots are numbered 0 .. LastBoot

VARIABLES
    threads,   \* what each thread does and remembers
    lock,      \* control_terminal_lock: its holder
    boot,      \* the current boot
    crashes

Threads == Clients \cup Maintainers
engineVars == <<registryVars, hostVars, threads, lock, boot, crashes>>

\* The digest of an evidence file stands for its bytes.  Control evidence
\* holds the writer's clock, so no two writers produce the same bytes;
\* remediation evidence is derived from the row and the verdict alone.
ControlEvidence(t, state) == <<"control", state, t>>
RemediationEvidence(state) == <<"remediation", state, None>>
RunnerEvidence(result) == <<"runner", result, None>>
UndispatchedEvidence == <<"undispatched", "cancelled", None>>

EvidenceDigests ==
    {ControlEvidence(t, s) : t \in Threads, s \in Terminal}
    \cup {RemediationEvidence(s) : s \in Conclusive}
    \cup {RunnerEvidence(r) : r \in Results}
    \cup {UndispatchedEvidence}

ArtifactKinds == {"control_result", "orphan_remediation", "execution_result", "output"}

ASSUME EvidenceAssumption == EvidenceDigests \subseteq Digests
ASSUME KindAssumption == ArtifactKinds \subseteq Kinds
ASSUME BootAssumption == LastBoot \in Nat /\ 0 .. LastBoot \subseteq Owners
ASSUME CrashAssumption == MaxCrashes \in Nat
ASSUME ThreadAssumption == None \notin Threads

-----------------------------------------------------------------------------
(* Threads.                                                                *)

Operating == {"run", "observe", "cancel", "stop", "maintain", "remedy"}
Continuations == {"return", "recover", "request", "direct"}
\* Where a thread stands: between two functions of the Engine or inside one.
Pcs ==
    {"idle", "newly_admitted", "reconcile_job", "clear", "record",
     "verify", "bundle", "dispatch", "launch", "await", "await_bind", "await_transient",
     "reconcile", "check_result", "check_start", "bind", "transient", "unit",
     "owner", "owner_result", "control", "commit_control",
     "result", "commit_result", "retry_result", "recover", "commit_recovery",
     "orphan", "orphan_result", "orphan_tree", "orphan_decide", "remediate",
     "commit_remedy", "cancel_orphan", "request_orphan_cancel", "cancel_tree",
     "cancel_result", "cancel_target", "request_cancel", "cancel_file", "stop_unit",
     "poll_result", "poll_unit"}
ThreadRow ==
    [pc: Pcs, op: Operating \cup {None}, job: Jobs \cup {None}, seen: AttemptRow,
     verdict: Terminal \cup {"running", None}, clean: BOOLEAN, then: Continuations]

Idle == [pc |-> "idle", op |-> None, job |-> None, seen |-> NoAttempt,
         verdict |-> None, clean |-> FALSE, then |-> "return"]

At(t, pc) == threads[t].pc = pc
Job(t) == threads[t].job
Seen(t) == threads[t].seen
Verdict(t) == threads[t].verdict
Current(t) == attempts[Job(t)]

\* An Attempt record as get_attempt returns it.
Record(row) == [row EXCEPT !.recovery = 0]

Become(t, th) == threads' = [threads EXCEPT ![t] = th]
\* Move on with the row read before, with nothing, or with the row read now.
Keep(t, pc) == Become(t, [threads[t] EXCEPT !.pc = pc])
Goto(t, pc) == Become(t, [threads[t] EXCEPT !.pc = pc, !.seen = NoAttempt, !.clean = FALSE,
                                            !.verdict = None, !.then = "return"])
Look(t, pc) == Become(t, [threads[t] EXCEPT !.pc = pc, !.seen = Record(Current(t))])
\* Move on with a verdict to commit.
Decide(t, pc, verdict) == Become(t, [threads[t] EXCEPT !.pc = pc, !.verdict = verdict])
Control(t, verdict, then) ==
    Become(t, [threads[t] EXCEPT !.pc = "control", !.seen = NoAttempt, !.clean = FALSE,
                                 !.verdict = verdict, !.then = then])

\* Mutation: only the recorded process is looked at.
RecordedProcessGone(row, j) ==
    row.owner # None /\ (row.owner = boot => ~RunnerAlive(j))

\* observe_terminal_process_tree, the disposition that the terminal evidence
\* of a verdict states: terminal_clean, or else unexpected_residual or (for
\* an Attempt that never bound an identity) unknown.  Evidence files are
\* content-addressed and never replaced; bundles[j].clean is what the one
\* registered last states.
TerminalClean(row, j) ==
    row.owner # None /\ (row.owner = boot => ~CgroupPopulated(j))

\* Read the row and append the terminal evidence of the commit that follows.
Prepare(t, pc) ==
    Become(t, [threads[t] EXCEPT !.pc = pc, !.seen = Record(Current(t)),
                                 !.clean = TerminalClean(Current(t), Job(t))])
EvidenceRegistered(t) == bundles' = [bundles EXCEPT ![Job(t)].clean = threads[t].clean]

\* The function a request was in returns to the request.  Maintenance
\* records or clears the recovery condition (reconcile_candidate_into); a
\* cancellation goes on after its preliminary reconciliation, or after a
\* launch identity mismatch if the target is absent; a new Job is observed.
ReturnTo(op, outcome) ==
    CASE op \in {"maintain", "remedy"} -> IF outcome = "ok" THEN "clear" ELSE "record"
      [] op = "cancel" /\ outcome = "ok" -> "request_cancel"
      [] op = "cancel" /\ outcome = "mismatch" -> "cancel_target"
      [] op = "run" /\ outcome = "ok" -> "reconcile_job"
      [] OTHER -> "idle"

Return(t, outcome) ==
    LET op == threads[t].op  pc == ReturnTo(op, outcome)
    IN  Become(t, IF pc = "idle" THEN Idle
                  ELSE [Idle EXCEPT !.pc = pc, !.job = Job(t),
                                    !.op = IF op = "run" THEN "observe" ELSE op])

\* A step that only reads.
Reads == UNCHANGED <<registryVars, hostVars, lock>>
RegistryOnly == UNCHANGED <<hostVars, lock>>

-----------------------------------------------------------------------------
(* Requests.                                                               *)

\* run_job_proposal with a key that find_idempotent_job does not know.
BeginRun(t, j, k, op, limit) ==
    /\ At(t, "idle") /\ t \in Clients
    /\ IdempotentJob(k, op) = None
    /\ Submit(j, k, op, limit)
    /\ Become(t, [Idle EXCEPT !.pc = "newly_admitted", !.op = "run", !.job = j])
    /\ RegistryOnly

\* job.observe, and run_job_proposal with a known key.
BeginObserve(t, j) ==
    /\ At(t, "idle") /\ t \in Clients
    /\ "observe" \in Requests /\ Admitted(j)
    /\ Become(t, [Idle EXCEPT !.pc = "reconcile_job", !.op = "observe", !.job = j])
    /\ Reads

\* cancel_job reads the Job first: an orphan is cancelled on its own path.
BeginCancel(t, j) ==
    /\ At(t, "idle") /\ t \in Clients
    /\ "cancel" \in Requests /\ Admitted(j)
    /\ Become(t, [Idle EXCEPT !.job = j,
                     !.pc = IF jobs[j].resolution = "orphaned" THEN "cancel_orphan"
                            ELSE "reconcile_job",
                     !.op = IF jobs[j].resolution = "orphaned" THEN "stop" ELSE "cancel"])
    /\ Reads

\* One candidate of list_maintenance_attempts_bounded, dispatched on the
\* state it was listed with (reconcile_candidate_into).  A conclusive Attempt
\* is listed while it is flagged; its reservation has already converged
\* (RuntimeInvariants), so only the flag is left to clear.
BeginMaintenance(t, j) ==
    /\ At(t, "idle") /\ t \in Maintainers
    /\ \/ attempts[j].state \in Nonterminal \cup {"orphaned"}
       \/ attempts[j].state \in Conclusive /\ attempts[j].recovery = 1
    /\ LET state == attempts[j].state
       IN  Become(t, [Idle EXCEPT !.job = j,
                !.op = IF state = "orphaned" THEN "remedy" ELSE "maintain",
                !.pc = CASE state = "accepted"   -> "verify"
                         [] state = "orphaned"   -> "orphan"
                         [] state \in Conclusive -> "clear"
                         [] OTHER                -> "reconcile",
                !.seen = IF state = "accepted" THEN Record(attempts[j]) ELSE NoAttempt])
    /\ Reads

ReconcileJob(t) ==
    /\ At(t, "reconcile_job")
    /\ LET state == Current(t).state
       IN  CASE state \in Conclusive -> Return(t, "ok")
             [] state = "orphaned"   -> Goto(t, "orphan")
             [] state = "accepted"   -> Look(t, "verify")
             [] OTHER                -> Goto(t, "reconcile")
    /\ Reads

\* The end of a maintenance candidate.  An orphan that stayed one keeps the
\* condition it has.
ClearFailure(t) ==
    /\ At(t, "clear")
    /\ IF Current(t).recovery = 1 /\ ~(threads[t].op = "remedy" /\ Current(t).state = "orphaned")
         THEN ClearReconciliationFailure(Job(t))
         ELSE UNCHANGED registryVars
    /\ Become(t, Idle)
    /\ RegistryOnly

\* Mutation: the error of a candidate is swallowed.
RecordFailureSwallowed(t) ==
    At(t, "record") /\ Become(t, Idle) /\ UNCHANGED registryVars /\ RegistryOnly

RecordFailure(t) ==
    /\ At(t, "record")
    /\ RecordReconciliationFailure(Job(t))
    /\ Become(t, Idle)
    /\ RegistryOnly

-----------------------------------------------------------------------------
(* Dispatch.                                                               *)

\* ensure_newly_admitted_job_dispatched.
LoadAdmitted(t) ==
    /\ At(t, "newly_admitted")
    /\ IF Current(t).state = "accepted" THEN Look(t, "verify") ELSE Return(t, "ok")
    /\ Reads

\* ensure_attempt_dispatched: provider, host dependencies and inputs are
\* verified again; drift is a Failed control verdict.
VerifyPreconditions(t) ==
    /\ At(t, "verify")
    /\ \/ Keep(t, IF Seen(t).bundle = None THEN "bundle" ELSE "dispatch")
       \/ "drift" \in Faults /\ Control(t, "failed", "return")
       \/ "error" \in Faults /\ Return(t, "error")
    /\ Reads

MaterializeBundle(t) ==
    /\ At(t, "bundle")
    /\ \/ /\ MarkBundleReady(Job(t), Seen(t).rv)
          /\ Become(t, [threads[t] EXCEPT !.pc = "dispatch", !.seen = Record(attempts'[Job(t)])])
       \/ /\ Current(t).rv # Seen(t).rv
          /\ Look(t, IF Current(t).state = "accepted" /\ Current(t).bundle = None
                       THEN "bundle" ELSE "dispatch")
          /\ UNCHANGED registryVars
    /\ RegistryOnly

\* dispatch_attempt up to the committed dispatch intent.  Whoever loses the
\* compare-and-set, or finds the Attempt dispatched, reconciles it instead.
IssueDispatch(t) ==
    /\ At(t, "dispatch") /\ Seen(t).state = "accepted"
    /\ MarkDispatchIssued(Job(t), Seen(t).rv)
    /\ Become(t, [threads[t] EXCEPT !.pc = "launch", !.seen = Record(attempts'[Job(t)])])
    /\ RegistryOnly

\* Mutation: a dispatch that lost the race is retried instead of reconciled.
JoinDispatchRelaunch(t) ==
    /\ At(t, "dispatch")
    /\ Seen(t).state # "accepted" \/ Current(t).rv # Seen(t).rv
    /\ IF Current(t).state \in Dispatched THEN Look(t, "launch") ELSE Return(t, "ok")
    /\ Reads

JoinDispatch(t) ==
    /\ At(t, "dispatch")
    /\ Seen(t).state # "accepted" \/ Current(t).rv # Seen(t).rv
    /\ LET state == IF Seen(t).state = "accepted" THEN Current(t).state ELSE Seen(t).state
       IN  CASE state \in Dispatched -> Goto(t, "reconcile")
             [] state \in Terminal   -> Return(t, "ok")
             [] OTHER                -> Return(t, "error")
    /\ Reads

\* The rest of dispatch_attempt.  systemd-run may refuse, and what is
\* validated before it may fail and leave the Attempt starting.
Launch(t) ==
    /\ At(t, "launch")
    /\ \/ EnqueueUnit(Job(t)) /\ Keep(t, "await")
       \/ /\ "refuse" \in Faults \/ UnitIsLoaded(Job(t))
          /\ Control(t, "failed", "return")
          /\ UNCHANGED hostVars
       \/ /\ "error" \in Faults
          /\ Return(t, "error")
          /\ UNCHANGED hostVars
    /\ UNCHANGED <<registryVars, lock>>

\* One round of await_launch_evidence, or its deadline.
AwaitLaunchEvidence(t) ==
    /\ At(t, "await")
    /\ CASE bundles[Job(t)].result # None -> Goto(t, "result")
         [] bundles[Job(t)].start ->
              LET seen == StartObservation(Job(t))
              IN  CASE seen = "match"     -> Keep(t, "await_bind")
                    [] seen = "transient" -> Keep(t, "await_transient")
                    [] OTHER              -> Return(t, "mismatch")
         [] OTHER -> Goto(t, "reconcile")
    /\ Reads

-----------------------------------------------------------------------------
(* Binding the Runner identity (bind_runner_start, bind_running).          *)

\* The identity holds the boot, and one Attempt is launched at most once, so
\* the boot identifies the Runner.
BindStart(t) ==
    /\ threads[t].pc \in {"bind", "await_bind"}
    /\ LET j == Job(t)
           Done == IF At(t, "bind") /\ bundles[j].result # None
                     THEN Goto(t, "result") ELSE Return(t, "ok")
       IN  \/ BindRunning(j, Seen(t).rv, boot) /\ Done
           \/ attempts[j].owner = boot /\ Done /\ UNCHANGED registryVars
           \/ /\ attempts[j].owner # boot /\ attempts[j].rv # Seen(t).rv
              /\ Return(t, "error")
              /\ UNCHANGED registryVars
    /\ RegistryOnly

\* MainPID was not observable: the result, or another observer's progress,
\* explains it; otherwise it is an identity mismatch once the grace is over.
\* await_launch_evidence also retries until its own deadline.
MainPidLost(t) ==
    /\ threads[t].pc \in {"transient", "await_transient"}
    /\ CASE bundles[Job(t)].result # None -> Goto(t, "result")
         [] Current(t).rv # Seen(t).rv    -> Return(t, "ok")
         [] At(t, "await_transient")      -> Keep(t, "await") \/ Return(t, "mismatch")
         [] OTHER -> Return(t, IF Job(t) \in aged THEN "mismatch" ELSE "ok")
    /\ Reads

-----------------------------------------------------------------------------
(* reconcile_attempt.                                                      *)

ReconcileAttempt(t) ==
    /\ At(t, "reconcile")
    /\ IF IsTerminal(Job(t)) THEN Return(t, "ok") ELSE Look(t, "check_result")
    /\ Reads

CheckResult(t) ==
    /\ At(t, "check_result")
    /\ CASE bundles[Job(t)].result # None -> Goto(t, "result")
         [] Seen(t).state = "starting"    -> Keep(t, "check_start")
         [] OTHER                         -> Keep(t, "owner")
    /\ Reads

CheckStart(t) ==
    /\ At(t, "check_start")
    /\ IF bundles[Job(t)].start
         THEN LET seen == StartObservation(Job(t))
              IN  CASE seen = "match"     -> Keep(t, "bind")
                    [] seen = "transient" -> Keep(t, "transient")
                    [] OTHER              -> Return(t, "mismatch")
         ELSE Keep(t, "unit")
    /\ Reads

\* reconcile_starting_without_token: a pending manager job is a dispatch in
\* flight; otherwise the grace decides between waiting and a verdict.
ObserveStartingUnit(t) ==
    /\ At(t, "unit")
    /\ CASE UnitHasPendingJob(Job(t)) \/ Job(t) \notin aged -> Return(t, "ok")
         [] UnitIsActive(Job(t)) -> Control(t, "orphaned", "return")
         [] OTHER                -> Control(t, "lost", "return")
    /\ Reads

\* classify_supervisor_recovery, from the identity and the intent of the
\* row the thread read.  "running" is not a verdict.
Disposition(row, j) ==
    LET ByIntent(natural) ==
            CASE row.intent = "stop_requested"    -> "cancelled"
              [] row.intent = "deadline_exceeded" -> "timed_out"
              [] OTHER                            -> natural
    IN  IF row.owner # boot THEN "lost"
        ELSE IF UnitIsActive(j) THEN IF RunnerAlive(j) THEN "running" ELSE "orphaned"
        ELSE IF UnitIsLoaded(j)
          THEN ByIntent(IF hosts[j].unit = "stopping" THEN "succeeded" ELSE "failed")
        ELSE IF RunnerAlive(j) THEN "orphaned" ELSE ByIntent("lost")

\* reconcile_bound_attempt: observe first, then look for the result again,
\* then act on the observation.  An Attempt that never bound an identity has
\* nothing to compare with.
ObserveOwner(t) ==
    /\ At(t, "owner")
    /\ IF Seen(t).owner = None THEN Return(t, "error")
       ELSE Decide(t, "owner_result", Disposition(Seen(t), Job(t)))
    /\ Reads

ConcludeOwner(t) ==
    /\ At(t, "owner_result")
    /\ CASE bundles[Job(t)].result # None -> Goto(t, "result")
         [] Verdict(t) = "running"        -> Return(t, "ok")
         [] OTHER -> Control(t, Verdict(t),
                             IF Verdict(t) = "orphaned" THEN "recover" ELSE "return")
    /\ Reads

-----------------------------------------------------------------------------
(* Terminal verdicts from control evidence (commit_observed_control_       *)
(* terminal), one at a time under the control-terminal lock.               *)

Outputs(j) == IF bundles[j].output THEN {"output"} ELSE {}

\* release_attempt_supervisor: a failed unit is reset.
ReleasedHosts(j) == [hosts EXCEPT ![j].unit = IF @ = "failed" THEN "absent" ELSE @]

\* Mutation: the row is not read again under the lock.
WriteControlEvidenceUnread(t) ==
    /\ At(t, "control") /\ lock = None
    /\ lock' = t
    /\ bundles' = [bundles EXCEPT ![Job(t)].control = ControlEvidence(t, Verdict(t))]
    /\ Look(t, "commit_control")
    /\ UNCHANGED <<registryVars, hosts, aged>>

WriteControlEvidence(t) ==
    /\ At(t, "control") /\ lock = None
    /\ IF IsTerminal(Job(t))
         THEN Return(t, "ok") /\ UNCHANGED <<bundles, lock>>
         ELSE /\ lock' = t
              /\ bundles' = [bundles EXCEPT ![Job(t)].control = ControlEvidence(t, Verdict(t))]
              /\ Prepare(t, "commit_control")
    /\ UNCHANGED <<registryVars, hosts, aged>>

\* Mutation: a failed commit returns with the lock held.
CommitControlLocked(t) ==
    /\ At(t, "commit_control")
    /\ IF attempts[Job(t)].rv = Seen(t).rv /\ CanTransition(Current(t).state, Verdict(t))
         THEN /\ CommitTerminal(Job(t), Seen(t).rv, Verdict(t),
                                ControlEvidence(t, Verdict(t)), {"control_result"})
              /\ Return(t, "ok") /\ lock' = None
         ELSE Return(t, "error") /\ UNCHANGED <<registryVars, lock>>
    /\ UNCHANGED hostVars

CommitControl(t) ==
    /\ At(t, "commit_control")
    /\ LET j == Job(t)
           kinds == {"control_result"} \cup IF Verdict(t) = "orphaned" THEN {} ELSE Outputs(j)
       IN  IF attempts[j].rv = Seen(t).rv /\ CanTransition(attempts[j].state, Verdict(t))
             THEN /\ CommitTerminal(j, Seen(t).rv, Verdict(t),
                                    ControlEvidence(t, Verdict(t)), kinds)
                  /\ hosts' = IF Verdict(t) = "orphaned" THEN hosts ELSE ReleasedHosts(j)
                  /\ EvidenceRegistered(t)
                  /\ IF threads[t].then = "recover" THEN Goto(t, "recover")
                     ELSE Return(t, "ok")
             ELSE Return(t, "error") /\ UNCHANGED <<registryVars, hosts, bundles>>
    /\ lock' = None
    /\ UNCHANGED aged

-----------------------------------------------------------------------------
(* Terminal verdicts from the Runner's result.                             *)

\* prepare_runner_terminal_from_bundle.
ResultVerdict(result) == IF result = "completed" THEN "succeeded" ELSE result
RunnerKinds == {"execution_result", "output"}
\* Registering an Artifact again is ARTIFACT_IDENTITY_CONFLICT.
Registrable(j, kinds) == ArtifactIds(j, kinds) \cap artifacts = {}

\* commit_runner_result: where the row just read leads.
LoadForResult(t) ==
    /\ At(t, "result")
    /\ CASE Current(t).state = "orphaned"   -> Goto(t, "recover") /\ UNCHANGED hosts
         [] Current(t).state \in Conclusive -> Return(t, "ok") /\ hosts' = ReleasedHosts(Job(t))
         [] OTHER                           -> Prepare(t, "commit_result") /\ UNCHANGED hosts
    /\ UNCHANGED <<registryVars, bundles, aged, lock>>

\* A result that is not this Attempt's, or a terminal state with another
\* digest, is quarantined by reconcile_runner_result; cancel_job calls
\* commit_runner_result directly and fails.
Quarantine(t) ==
    IF threads[t].then = "direct" THEN Return(t, "error")
    ELSE Control(t, "orphaned", "return")

\* The commit is retried once after a row version conflict.
CommitResult(t) ==
    /\ threads[t].pc \in {"commit_result", "retry_result"}
    /\ LET j == Job(t)
           result == bundles[j].result
           verdict == ResultVerdict(result)
           Commit == /\ CommitTerminal(j, Seen(t).rv, verdict, RunnerEvidence(result), RunnerKinds)
                     /\ Return(t, "ok")
                     /\ EvidenceRegistered(t)
                     /\ hosts' = ReleasedHosts(j)
           Replay == attempts[j].state = verdict /\ attempts[j].digest = RunnerEvidence(result)
       IN  IF /\ result # "invalid" /\ Registrable(j, RunnerKinds)
              /\ ~IsTerminal(j) /\ attempts[j].rv = Seen(t).rv
             THEN Commit
           ELSE /\ CASE result = "invalid" \/ ~Registrable(j, RunnerKinds) -> Quarantine(t)
                     [] IsTerminal(j)      -> IF Replay THEN Return(t, "ok") ELSE Quarantine(t)
                     [] At(t, "commit_result") -> Prepare(t, "retry_result")
                     [] OTHER              -> Return(t, "error")
                /\ UNCHANGED <<registryVars, hosts, bundles>>
    /\ UNCHANGED <<aged, lock>>

-----------------------------------------------------------------------------
(* Orphans.                                                                *)

\* Mutation: the control group of a bound orphan is not inspected.
OrphanUnitAlive(row, j) == UnitIsActive(j) \/ UnitHasPendingJob(j)

\* orphan_process_tree_alive: unit, recorded process and control group of a
\* bound Attempt; the unit and its manager job of one that never bound.
OrphanProcessTreeAlive(row, j) ==
    IF row.owner = None THEN UnitIsActive(j) \/ UnitHasPendingJob(j)
    ELSE row.owner = boot /\ (UnitIsActive(j) \/ CgroupPopulated(j))

\* recover_orphaned_runner_result.
LoadForRecovery(t) ==
    /\ At(t, "recover")
    /\ LET j == Job(t)
       IN  IF /\ attempts[j].state = "orphaned"
              /\ bundles[j].result # None
              /\ ~OrphanProcessTreeAlive(attempts[j], j)
             THEN Prepare(t, "commit_recovery")
             ELSE IF threads[t].then = "request" THEN Goto(t, "request_orphan_cancel")
             ELSE Return(t, "ok")
    /\ Reads

CommitRecovery(t) ==
    /\ At(t, "commit_recovery")
    /\ LET j == Job(t)
           result == bundles[j].result
       IN  IF /\ result # "invalid" /\ Registrable(j, RunnerKinds)
              /\ attempts[j].state = "orphaned" /\ attempts[j].rv = Seen(t).rv
             THEN /\ RecoverOrphanedTerminal(j, Seen(t).rv, ResultVerdict(result),
                                             RunnerEvidence(result), RunnerKinds)
                  /\ Return(t, "ok") /\ EvidenceRegistered(t)
                  /\ hosts' = ReleasedHosts(j)
             ELSE Return(t, "error") /\ UNCHANGED <<registryVars, hosts, bundles>>
    /\ UNCHANGED <<aged, lock>>

\* reconcile_orphaned_attempt.
ReconcileOrphan(t) ==
    /\ At(t, "orphan")
    /\ IF Current(t).state = "orphaned" THEN Look(t, "orphan_result") ELSE Return(t, "ok")
    /\ Reads

OrphanResult(t) ==
    /\ At(t, "orphan_result")
    /\ IF bundles[Job(t)].result # None THEN Goto(t, "recover") ELSE Keep(t, "orphan_tree")
    /\ Reads

OrphanTree(t) ==
    /\ At(t, "orphan_tree")
    /\ IF OrphanProcessTreeAlive(Seen(t), Job(t)) THEN Return(t, "ok")
       ELSE Keep(t, "orphan_decide")
    /\ Reads

\* Mutation: every absent orphan is reported cancelled.
OrphanDecideCancelled(t) ==
    /\ At(t, "orphan_decide")
    /\ IF bundles[Job(t)].result # None THEN Goto(t, "recover")
       ELSE Decide(t, "remediate", "cancelled")
    /\ Reads

\* The result once more, then the verdict of the committed intent.
OrphanDecide(t) ==
    /\ At(t, "orphan_decide")
    /\ IF bundles[Job(t)].result # None THEN Goto(t, "recover")
       ELSE Decide(t, "remediate",
                CASE Seen(t).intent = "stop_requested"     -> "cancelled"
                  [] Seen(t).intent = "deadline_exceeded"  -> "timed_out"
                  [] jobs[Job(t)].desired = "cancelled"    -> "cancelled"
                  [] OTHER                                 -> "lost")
    /\ Reads

\* resolve_absent_orphan: the evidence file first, then the commit.
WriteRemediation(t) ==
    /\ At(t, "remediate")
    /\ bundles' = [bundles EXCEPT ![Job(t)].remedy = RemediationEvidence(Verdict(t))]
    /\ Become(t, [threads[t] EXCEPT !.pc = "commit_remedy",
                                    !.clean = TerminalClean(Seen(t), Job(t))])
    /\ UNCHANGED <<registryVars, hosts, aged, lock>>

CommitRemedy(t) ==
    /\ At(t, "commit_remedy")
    /\ LET j == Job(t)
           outputs == {kind \in Outputs(j) : <<j, kind>> \notin artifacts}
       IN  IF attempts[j].state = "orphaned" /\ attempts[j].rv = Seen(t).rv
             THEN /\ RecoverOrphanedTerminal(j, Seen(t).rv, Verdict(t),
                         RemediationEvidence(Verdict(t)), {"orphan_remediation"} \cup outputs)
                  /\ Return(t, "ok") /\ EvidenceRegistered(t)
             ELSE Return(t, "error") /\ UNCHANGED <<registryVars, bundles>>
    /\ UNCHANGED <<hosts, aged, lock>>

-----------------------------------------------------------------------------
(* cancel_job.                                                             *)

\* The orphan path: result, stop intent, process tree, result, remediation.
CancelOrphan(t) ==
    /\ At(t, "cancel_orphan")
    /\ IF bundles[Job(t)].result # None
         THEN Become(t, [threads[t] EXCEPT !.pc = "recover", !.then = "request"])
         ELSE Goto(t, "request_orphan_cancel")
    /\ Reads

RequestOrphanCancel(t) ==
    /\ At(t, "request_orphan_cancel")
    /\ IF jobs[Job(t)].resolution = "orphaned" THEN CancelOrphaned(Job(t))
       ELSE UNCHANGED registryVars
    /\ Goto(t, "cancel_tree")
    /\ RegistryOnly

CancelTree(t) ==
    /\ At(t, "cancel_tree")
    /\ IF OrphanProcessTreeAlive(Current(t), Job(t)) THEN Return(t, "ok")
       ELSE Look(t, "cancel_result")
    /\ Reads

CancelResult(t) ==
    /\ At(t, "cancel_result")
    /\ IF bundles[Job(t)].result # None THEN Goto(t, "recover")
       ELSE Decide(t, "remediate", "cancelled")
    /\ Reads

\* launch_identity_mismatch_cancel_target_absent.
CancelTarget(t) ==
    /\ At(t, "cancel_target")
    /\ IF UnitIsActive(Job(t)) THEN Become(t, Idle) ELSE Goto(t, "request_cancel")
    /\ Reads

\* request_cancel; a resolved Job is returned as it is.
CommitCancel(t) ==
    /\ At(t, "request_cancel")
    /\ IF jobs[Job(t)].resolution \in Conclusive THEN UNCHANGED registryVars
       ELSE RequestCancel(Job(t), UndispatchedEvidence)
    /\ IF jobs'[Job(t)].resolution # None THEN Become(t, Idle)
       ELSE Become(t, [Idle EXCEPT !.pc = "cancel_file", !.op = "stop", !.job = Job(t)])
    /\ RegistryOnly

\* Mutation: the cancel file is never written.
SkipCancelFile(t) == At(t, "cancel_file") /\ Look(t, "stop_unit") /\ Reads

WriteCancelFile(t) ==
    /\ At(t, "cancel_file")
    /\ bundles' = [bundles EXCEPT ![Job(t)].cancel = TRUE]
    /\ Look(t, "stop_unit")
    /\ UNCHANGED <<registryVars, hosts, aged, lock>>

StopUnit(t) ==
    /\ At(t, "stop_unit")
    /\ hosts' = [hosts EXCEPT ![Job(t)].unit = Stopped(@)]
    /\ Keep(t, "poll_result")
    /\ UNCHANGED <<registryVars, bundles, aged, lock>>

\* One round of the poll after the stop request: the result, then the unit
\* and the recorded process; the deadline falls back to reconcile_attempt.
PollResult(t) ==
    /\ At(t, "poll_result")
    /\ IF bundles[Job(t)].result # None
         THEN Become(t, [threads[t] EXCEPT !.pc = "result", !.seen = NoAttempt, !.then = "direct"])
         ELSE Keep(t, "poll_unit")
    /\ Reads

PollUnit(t) ==
    /\ At(t, "poll_unit")
    /\ LET recorded_alive == Seen(t).owner = boot /\ RunnerAlive(Job(t))
       IN  IF ~UnitIsActive(Job(t)) /\ ~recorded_alive
             THEN Control(t, "cancelled", "return")
             ELSE Keep(t, "poll_result") \/ Goto(t, "reconcile")
    /\ Reads

-----------------------------------------------------------------------------
ThreadStep(t) ==
    \/ ReconcileJob(t) \/ ClearFailure(t) \/ RecordFailure(t)
    \/ LoadAdmitted(t) \/ VerifyPreconditions(t) \/ MaterializeBundle(t)
    \/ IssueDispatch(t) \/ JoinDispatch(t) \/ Launch(t) \/ AwaitLaunchEvidence(t)
    \/ BindStart(t) \/ MainPidLost(t)
    \/ ReconcileAttempt(t) \/ CheckResult(t) \/ CheckStart(t) \/ ObserveStartingUnit(t)
    \/ ObserveOwner(t) \/ ConcludeOwner(t)
    \/ WriteControlEvidence(t) \/ CommitControl(t)
    \/ LoadForResult(t) \/ CommitResult(t)
    \/ LoadForRecovery(t) \/ CommitRecovery(t)
    \/ ReconcileOrphan(t) \/ OrphanResult(t) \/ OrphanTree(t) \/ OrphanDecide(t)
    \/ WriteRemediation(t) \/ CommitRemedy(t)
    \/ CancelOrphan(t) \/ RequestOrphanCancel(t) \/ CancelTree(t) \/ CancelResult(t)
    \/ CancelTarget(t) \/ CommitCancel(t) \/ WriteCancelFile(t) \/ StopUnit(t)
    \/ PollResult(t) \/ PollUnit(t)

HostMoves(j) ==
    /\ HostStep(j) \/ (Admitted(j) /\ GrowsOld(j))
    /\ UNCHANGED <<registryVars, threads, lock>>

\* The Runtime process dies: every thread and the in-memory lock with it.
Crash ==
    /\ crashes < MaxCrashes
    /\ crashes' = crashes + 1
    /\ threads' = [t \in Threads |-> Idle]
    /\ lock' = None
    /\ UNCHANGED <<registryVars, hostVars, boot>>

\* The host restarts: all of that, and every unit and process.
Reboot ==
    /\ boot < LastBoot
    /\ boot' = boot + 1
    /\ HostReboots
    /\ threads' = [t \in Threads |-> Idle]
    /\ lock' = None
    /\ UNCHANGED <<registryVars, crashes>>

EngineInit ==
    /\ Init /\ HostInit
    /\ threads = [t \in Threads |-> Idle]
    /\ lock = None
    /\ boot = 0 /\ crashes = 0

Begin(t) ==
    \/ \E j \in Jobs, k \in Keys, op \in Operations, limit \in Limits :
          BeginRun(t, j, k, op, limit)
    \/ \E j \in Jobs : BeginObserve(t, j) \/ BeginCancel(t, j) \/ BeginMaintenance(t, j)

EngineNext ==
    \/ \E t \in Threads : (Begin(t) \/ ThreadStep(t)) /\ UNCHANGED <<boot, crashes>>
    \/ \E j \in Jobs : HostMoves(j) /\ UNCHANGED <<boot, crashes>>
    \/ Crash
    \/ Reboot

EngineSpec == EngineInit /\ [][EngineNext]_engineVars

\* The fairness of the code's scheduling: a thread that can move does (the
\* Runtime is a thread-per-request server), the maintenance loop lists every
\* open Attempt again and again, systemd and the Runner make progress.
Fairness ==
    /\ \A t \in Threads : WF_engineVars(ThreadStep(t) /\ UNCHANGED <<boot, crashes>>)
    /\ \A t \in Maintainers, j \in Jobs :
          WF_engineVars(BeginMaintenance(t, j) /\ UNCHANGED <<boot, crashes>>)
    /\ \A j \in Jobs : WF_engineVars(HostMoves(j) /\ UNCHANGED <<boot, crashes>>)

FairSpec == EngineSpec /\ Fairness

-----------------------------------------------------------------------------
(* What the Engine adds to the guarantees of the Registry.                 *)

\* Threads, lock and host variables keep their shape, and the lock is held
\* exactly by the thread between control evidence and its commit.
EngineTypeOK ==
    /\ hosts \in [Jobs -> HostRow]
    /\ bundles \in [Jobs -> BundleRow(EvidenceDigests \cup {None})]
    /\ threads \in [Threads -> ThreadRow]
    /\ aged \subseteq Jobs
    /\ lock \in Threads \cup {None}
    /\ boot \in 0 .. LastBoot /\ crashes \in 0 .. MaxCrashes
    /\ \A t \in Threads : (lock = t) <=> At(t, "commit_control")

\* Whatever threads, crashes and reboots do, the unit of an Attempt is
\* enqueued at most once: the dispatch intent is committed before systemd-run
\* (dispatch_attempt) and never issued again.
AtMostOneLaunch == \A j \in Jobs : hosts[j].launches <= 1

\* The bytes of the control evidence a terminal Attempt registered are still
\* the bytes in the bundle: concurrent reconciliation and cancellation create
\* one control terminal identity (commit_observed_control_terminal).
ControlEvidenceIntact ==
    \A j \in Jobs :
        /\ IsTerminal(j)
        /\ attempts[j].digest \in {ControlEvidence(t, attempts[j].state) : t \in Threads}
        => bundles[j].control = attempts[j].digest

\* The same for the remediation evidence of an orphan (resolve_absent_orphan).
RemediationEvidenceIntact ==
    \A j \in Jobs :
        attempts[j].digest = RemediationEvidence(attempts[j].state)
            => bundles[j].remedy = attempts[j].digest

\* Nothing is reported cancelled that nobody asked to cancel, whichever of
\* result, control evidence or remediation reports it.
CancelIsRequested ==
    \A j \in Jobs : attempts[j].state = "cancelled" => jobs[j].desired = "cancelled"

\* Success is not guessed: it rests on a completed Runner result.
SuccessHasResult ==
    \A j \in Jobs : attempts[j].state = "succeeded" => bundles[j].result = "completed"

\* Failure is not guessed: a payload whose Attempt is failed is not running
\* on in an active unit.
FailureIsOver ==
    \A j \in Jobs : attempts[j].state = "failed" => ~(UnitIsActive(j) /\ hosts[j].runner = "executing")

\* One Workspace has one writer: two payloads never run in it together.
SingleWriter ==
    \A a, b \in Jobs :
        /\ hosts[a].payload /\ hosts[b].payload
        /\ WorkspaceOf[jobs[a].op] = WorkspaceOf[jobs[b].op]
        => a = b

\* The Runner never passes its check of the cancel file once the Attempt is
\* cancelled, even if its unit was launched after the cancellation: the file
\* is written before the verdict is committed (cancel_job).
CancelPreventsPayload ==
    [][\A j \in Jobs :
          hosts[j].runner = "started" /\ hosts'[j].runner = "cleared"
              => attempts[j].state # "cancelled"]_engineVars

\* The capacity of a bound orphan returns only when its unit, its Runner and
\* its control group are gone (orphan_process_tree_alive), although the tree
\* is observed several steps before the verdict is committed.
OrphanVacates ==
    [][\A j \in Jobs :
          /\ attempts[j].state = "orphaned" /\ attempts'[j].state \in Conclusive
          /\ attempts[j].owner # None
          => ~UnitIsActive(j) /\ ~CgroupPopulated(j)]_engineVars

\* Terminal evidence does not lie: once a registered verdict states that the
\* process tree was clean, no process of the Attempt exists, although the
\* tree was observed before the verdict was committed.
CleanEvidenceIsTrue ==
    \A j \in Jobs : bundles[j].clean => ~CgroupPopulated(j)

\* Every admitted Attempt ends with a conclusive verdict or stays flagged
\* for recovery: nothing is left waiting in silence.
Converges ==
    \A j \in Jobs :
        Admitted(j) ~> [](attempts[j].state \in Conclusive \/ attempts[j].recovery = 1)

\* A committed stop whose unit and processes are gone becomes a verdict.
StopConverges ==
    \A j \in Jobs :
        attempts[j].state = "stopping" /\ ~UnitIsLoaded(j) /\ ~CgroupPopulated(j)
            ~> attempts[j].state \in Conclusive
=============================================================================
