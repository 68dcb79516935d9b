--------------------------- MODULE NativeAttempt ---------------------------
(* One Attempt of a windows_native Job: the threads of the Runtime that     *)
(* dispatch, reconcile and cancel it, and the launcher process that owns    *)
(* the Job Object of the target (platform/windows).  The Registry row is    *)
(* read, a file is looked at or a process probed, and the verdict is        *)
(* committed later: the launcher and the other threads move in between.     *)
(* A probe or transaction that fails ends the pass that made it and changes *)
(* nothing, so it is not a step of its own.                                 *)
EXTENDS Naturals, FiniteSets

CONSTANTS NativeFaults   \* which of "crash", "die", "reuse", "reply", "tamper", "cancel" may happen

VARIABLES
    nativeRow,   \* the Attempt: [state, intent, bound, rv, by]
    launcher,    \* "none", "live", "gone", or "reused": its pid is another process
    target,      \* "none", "suspended", "running" or "done"
    bundle,      \* files: [launcherStart, targetStart, result, cancel]
    outcome,     \* how the target ended
    expired,     \* the outer deadline has passed
    unseen,      \* the launcher was started, but its start was reported as failed
    workers      \* workers[t]: [pc, seen, probe]

nativeVars == <<nativeRow, launcher, target, bundle, outcome, expired, unseen, workers>>

NativeThreads == {"dispatcher", "reconciler", "canceller"}
NativeConclusive == {"succeeded", "failed", "cancelled", "timed_out", "lost"}
NativeTerminal == NativeConclusive \cup {"orphaned"}
Outcomes == {"none", "succeeded", "failed", "cancelled", "timed_out"}

\* What a thread carries to its next step; nothing is kept past the pass.
AtRest == [pc |-> "idle", seen |-> [rv |-> 0, intent |-> "natural", bound |-> FALSE], probe |-> "none"]
RowRead(row) == [rv |-> row.rv, intent |-> row.intent, bound |-> row.bound]
InStep(t, pc) == workers[t].pc = pc
RowSeen(t) == workers[t].seen
Carry(t, pc, seen, probe) ==
    workers' = [workers EXCEPT ![t] =
        IF pc \in {"idle", "load", "result", "poll", "orphan"} THEN [AtRest EXCEPT !.pc = pc]
        ELSE [pc |-> pc, seen |-> seen,
              probe |-> IF pc \in {"deadline", "kill", "probe", "bind"} THEN "none" ELSE probe]]
Step(t, pc) == Carry(t, pc, RowSeen(t), workers[t].probe)
StepReading(t, pc) == Carry(t, pc, RowRead(nativeRow), workers[t].probe)
StepProbing(t, pc) == Carry(t, pc, RowSeen(t), launcher)
HostUnchanged == UNCHANGED <<launcher, target, bundle, outcome, expired, unseen>>
RowUnchanged == UNCHANGED nativeRow
HasResult == bundle.result # "none"

NativeInit ==
    /\ nativeRow = [state |-> "starting", intent |-> "natural", bound |-> FALSE, rv |-> 0, by |-> "none"]
    /\ launcher = "none" /\ target = "none" /\ outcome = "none"
    /\ bundle = [launcherStart |-> FALSE, targetStart |-> "none", result |-> "none", cancel |-> FALSE]
    /\ expired = FALSE /\ unseen = FALSE
    /\ workers = [t \in NativeThreads |->
                    IF t = "dispatcher" THEN [AtRest EXCEPT !.pc = "spawn"] ELSE AtRest]

-----------------------------------------------------------------------------
(* Dispatch.                                                               *)

\* spawn_windows_native: a child of the Runtime, or one the privileged broker
\* starts and answers for.
SpawnWindowsNative ==
    /\ InStep("dispatcher", "spawn") /\ RowUnchanged
    /\ launcher' = "live" /\ Step("dispatcher", "write_start")
    /\ UNCHANGED <<target, bundle, outcome, expired, unseen>>

\* The spawn fails, or something before it does; then the row stays starting.
SpawnRefused ==
    /\ InStep("dispatcher", "spawn") /\ RowUnchanged
    /\ \E then \in {"start_failed", "idle"} : Step("dispatcher", then)
    /\ HostUnchanged

\* The launcher has started, and the broker's answer is lost or its creation
\* time cannot be read: to the dispatcher that is a spawn that failed.
SpawnReplyLost ==
    /\ "reply" \in NativeFaults
    /\ InStep("dispatcher", "spawn") /\ RowUnchanged
    /\ launcher' = "live" /\ unseen' = TRUE /\ Step("dispatcher", "start_failed")
    /\ UNCHANGED <<target, bundle, outcome, expired>>

\* bind_native_windows_dispatch_owner: the parent's own evidence, then the owner.
WriteLauncherStart ==
    /\ InStep("dispatcher", "write_start")
    /\ bundle' = [bundle EXCEPT !.launcherStart = TRUE]
    /\ Step("dispatcher", "bind_owner")
    /\ RowUnchanged /\ UNCHANGED <<launcher, target, outcome, expired, unseen>>

\* bind_supervisor_owner, a transaction on the row version read before.
Bindable(t) ==
    /\ nativeRow.state \in {"starting", "stopping"} /\ ~nativeRow.bound
    /\ nativeRow.rv = RowSeen(t).rv
BoundRow ==
    [nativeRow EXCEPT !.bound = TRUE, !.rv = @ + 1,
                      !.state = IF @ = "stopping" THEN "stopping" ELSE "running"]

BindDispatchOwner ==
    LET t == "dispatcher" IN
    /\ InStep(t, "bind_owner")
    /\ IF Bindable(t) THEN nativeRow' = BoundRow /\ Step(t, "await")
                      ELSE RowUnchanged /\ Step(t, "idle")
    /\ HostUnchanged

\* await_launch_evidence: a result, the target's start, or one reconciliation.
AwaitNativeEvidence ==
    LET t == "dispatcher" IN
    /\ InStep(t, "await")
    /\ Step(t, IF HasResult THEN "result" ELSE IF bundle.targetStart # "none" THEN "idle" ELSE "load")
    /\ RowUnchanged /\ HostUnchanged

-----------------------------------------------------------------------------
(* Verdicts.                                                               *)

\* commit_control_terminal on the row as it is by now.
ControlVerdict(t, verdict) ==
    /\ nativeRow' = IF nativeRow.state \in NativeTerminal THEN nativeRow
                    ELSE [nativeRow EXCEPT !.state = verdict, !.by = "control", !.rv = @ + 1]
    /\ Step(t, "idle")

StartFailed ==
    /\ InStep("dispatcher", "start_failed")
    /\ ControlVerdict("dispatcher", "failed")
    /\ HostUnchanged

\* validate_windows_start_evidence: the target's own account of its identity,
\* against the launcher's, the request's and what the row already names.
TargetStartValid == bundle.targetStart = "true"

\* commit_runner_result, and recover_orphaned_runner_result once the owner is
\* gone.  The start evidence of the target is validated again: unreadable, it
\* is an error; a wrong identity quarantines the Attempt.
CommitNativeResult(t) ==
    /\ InStep(t, "result")
    /\ LET open == nativeRow.state \notin NativeTerminal
           recoverable == nativeRow.state = "orphaned" /\ nativeRow.bound /\ launcher # "live"
       IN  nativeRow' =
             IF TargetStartValid /\ (open \/ recoverable)
               THEN [nativeRow EXCEPT !.state = bundle.result, !.by = "result", !.rv = @ + 1]
             ELSE IF bundle.targetStart = "forged" /\ open /\ t # "canceller"
               THEN [nativeRow EXCEPT !.state = "orphaned", !.by = "control", !.rv = @ + 1]
             ELSE nativeRow
    /\ Step(t, "idle")
    /\ HostUnchanged

-----------------------------------------------------------------------------
(* Reconciliation.                                                         *)

Reconcile ==
    /\ InStep("reconciler", "idle") /\ nativeRow.state \notin NativeConclusive
    /\ Step("reconciler", IF nativeRow.state = "orphaned" THEN "orphan" ELSE "load")
    /\ RowUnchanged /\ HostUnchanged

\* reconcile_attempt: which evidence there is.
ReconcileNativeAttempt(t) ==
    /\ InStep(t, "load")
    /\ StepReading(t,
         IF nativeRow.state \in NativeTerminal THEN "idle"
         ELSE IF HasResult THEN "result"
         ELSE IF nativeRow.bound THEN "deadline"
         ELSE IF bundle.targetStart # "none" THEN "bind"
         ELSE IF bundle.launcherStart THEN "probe_start"
         ELSE "idle")
    /\ RowUnchanged /\ HostUnchanged

\* bind_windows_start.  Whoever bound first bound the same launcher.
BindWindowsStart(t) ==
    /\ InStep(t, "bind") \/ InStep(t, "bind_killed")
    /\ LET valid == TargetStartValid
           killed == InStep(t, "bind_killed")
           goes == IF ~valid \/ ~(nativeRow.bound \/ Bindable(t)) THEN "idle"
                   ELSE IF HasResult THEN "result"
                   ELSE IF killed THEN "timed_out"
                   ELSE IF t = "canceller" THEN "poll"
                   ELSE IF nativeRow.state = "stopping" THEN "deadline"
                   ELSE "idle"
       IN  /\ nativeRow' = IF valid /\ Bindable(t) THEN BoundRow ELSE nativeRow
           /\ Carry(t, goes, RowRead(nativeRow'), workers[t].probe)
    /\ HostUnchanged

\* reconcile_native_starting_without_target_evidence.
ProbeStarting(t) ==
    /\ InStep(t, "probe_start")
    /\ StepProbing(t, "probed_start")
    /\ RowUnchanged /\ HostUnchanged

ConcludeStarting(t) ==
    /\ InStep(t, "probed_start")
    /\ Step(t, IF HasResult THEN "result"
               ELSE IF bundle.targetStart # "none" THEN "bind"
               ELSE IF workers[t].probe = "live" THEN "deadline"
               ELSE "idle")
    /\ RowUnchanged /\ HostUnchanged

\* enforce_native_windows_outer_deadline: the intent is durable before the kill.
RequestDeadline ==
    IF nativeRow.state \in NativeTerminal \/ nativeRow.intent # "natural" THEN nativeRow
    ELSE [nativeRow EXCEPT !.state = "stopping", !.intent = "deadline_exceeded", !.rv = @ + 1]

NotEnforced(t) == IF RowSeen(t).bound THEN "probe" ELSE "idle"

\* Mutation: an intent committed by an earlier pass is not taken up again.
EnforceDeadlineOnce(t) ==
    /\ InStep(t, "deadline")
    /\ nativeRow' = IF RowSeen(t).intent = "natural" /\ expired THEN RequestDeadline ELSE nativeRow
    /\ Step(t, IF RowSeen(t).intent # "natural" \/ ~expired THEN NotEnforced(t)
               ELSE IF nativeRow'.state \in NativeTerminal THEN "idle"
               ELSE IF nativeRow'.intent # "deadline_exceeded" THEN NotEnforced(t)
               ELSE IF HasResult THEN "result" ELSE "kill")
    /\ HostUnchanged

EnforceDeadline(t) ==
    /\ InStep(t, "deadline")
    /\ nativeRow' = IF RowSeen(t).intent = "natural" /\ expired THEN RequestDeadline ELSE nativeRow
    /\ Step(t,
         IF \/ RowSeen(t).intent = "natural" /\ ~expired
            \/ RowSeen(t).intent = "stop_requested" THEN NotEnforced(t)
         ELSE IF nativeRow'.state \in NativeTerminal THEN "idle"
         ELSE IF nativeRow'.intent # "deadline_exceeded" THEN NotEnforced(t)
         ELSE IF HasResult THEN "result" ELSE "kill")
    /\ HostUnchanged

\* Mutation: the owner is looked at, not terminated.
KillOwnerUnsent(t) ==
    InStep(t, "kill") /\ StepProbing(t, "killed") /\ RowUnchanged /\ HostUnchanged

\* terminate_windows_launcher_owner_for_deadline kills the exact process and
\* with it its Job Object.
KillOwner(t) ==
    /\ InStep(t, "kill")
    /\ StepProbing(t, "killed")
    /\ launcher' = IF launcher = "live" THEN "gone" ELSE launcher
    /\ target' = IF launcher = "live" THEN "done" ELSE target
    /\ RowUnchanged /\ UNCHANGED <<bundle, outcome, expired, unseen>>

\* Mutation: the bundle is not looked at again after the kill.
KilledUnread(t) ==
    /\ InStep(t, "killed")
    /\ Step(t, "timed_out")
    /\ RowUnchanged /\ HostUnchanged

Killed(t) ==
    /\ InStep(t, "killed")
    /\ StepReading(t,
         IF HasResult THEN "result"
         ELSE IF ~nativeRow.bound /\ bundle.targetStart # "none" THEN "bind_killed"
         ELSE IF workers[t].probe = "reused" THEN NotEnforced(t) ELSE "timed_out")
    /\ RowUnchanged /\ HostUnchanged

CommitTimedOut(t) ==
    /\ InStep(t, "timed_out")
    /\ IF workers[t].probe = "reused" THEN RowUnchanged /\ Step(t, NotEnforced(t))
                                      ELSE ControlVerdict(t, "timed_out")
    /\ HostUnchanged

\* reconcile_provider_owned_attempt: probe, look for a result once more, classify.
ProbeOwner(t) ==
    /\ InStep(t, "probe")
    /\ StepProbing(t, "probed")
    /\ RowUnchanged /\ HostUnchanged

\* classify_windows_launcher_recovery.
ClassifyLauncher(seen, probe) ==
    CASE probe = "live" -> "running"
      [] probe = "reused" -> "orphaned"
      [] OTHER -> CASE seen.intent = "stop_requested" -> "cancelled"
                    [] seen.intent = "deadline_exceeded" -> "timed_out"
                    [] OTHER -> "failed"

ConcludeOwner(t) ==
    /\ InStep(t, "probed")
    /\ LET class == ClassifyLauncher(RowSeen(t), workers[t].probe)
       IN  IF HasResult \/ class = "running"
             THEN Step(t, IF HasResult THEN "result" ELSE "idle") /\ RowUnchanged
             ELSE ControlVerdict(t, class)
    /\ HostUnchanged

\* reconcile_orphaned_attempt.  Without a bound owner the process tree cannot
\* be observed and the orphan stays.
ProbeOrphan(t) ==
    /\ InStep(t, "orphan")
    /\ IF HasResult THEN Step(t, "result") ELSE StepProbing(t, "probed_orphan")
    /\ RowUnchanged /\ HostUnchanged

ConcludeOrphan(t) ==
    /\ InStep(t, "probed_orphan")
    /\ IF HasResult THEN Step(t, "result") /\ RowUnchanged
       ELSE /\ Step(t, "idle")
            /\ nativeRow' =
                 IF nativeRow.state = "orphaned" /\ nativeRow.bound /\ workers[t].probe # "live"
                   THEN [nativeRow EXCEPT !.rv = @ + 1, !.by = "control",
                           !.state = CASE nativeRow.intent = "stop_requested" -> "cancelled"
                                       [] nativeRow.intent = "deadline_exceeded" -> "timed_out"
                                       [] OTHER -> "lost"]
                   ELSE nativeRow
    /\ HostUnchanged

-----------------------------------------------------------------------------
(* Cancellation.  The reconciliation it begins with is one the reconciler   *)
(* may run just before.                                                     *)

RequestNativeCancel ==
    LET t == "canceller" IN
    /\ "cancel" \in NativeFaults
    /\ InStep(t, "idle") /\ ~bundle.cancel /\ nativeRow.state \notin NativeConclusive
    /\ nativeRow' = IF nativeRow.state = "stopping" \/ nativeRow.intent = "stop_requested" THEN nativeRow
                    ELSE [nativeRow EXCEPT !.intent = "stop_requested", !.rv = @ + 1,
                                           !.state = IF @ = "orphaned" THEN @ ELSE "stopping"]
    /\ Step(t, IF nativeRow.state = "orphaned" THEN "orphan" ELSE "cancel_file")
    /\ HostUnchanged

WriteNativeCancel ==
    /\ InStep("canceller", "cancel_file")
    /\ bundle' = [bundle EXCEPT !.cancel = TRUE]
    /\ Step("canceller", "poll")
    /\ RowUnchanged /\ UNCHANGED <<launcher, target, outcome, expired, unseen>>

\* One round of cancel_native_windows_attempt.
PollNativeCancel ==
    LET t == "canceller" IN
    /\ InStep(t, "poll")
    /\ StepReading(t,
         IF HasResult THEN "result"
         ELSE IF nativeRow.bound THEN "poll_probe"
         ELSE IF bundle.targetStart # "none" THEN "bind"
         ELSE IF bundle.launcherStart /\ launcher = "live" THEN "poll"
         ELSE "load")
    /\ RowUnchanged /\ HostUnchanged

ProbeNativeCancel ==
    /\ InStep("canceller", "poll_probe")
    /\ StepProbing("canceller", "poll_probed")
    /\ RowUnchanged /\ HostUnchanged

ConcludeNativeCancel ==
    LET t == "canceller" IN
    /\ InStep(t, "poll_probed")
    /\ IF workers[t].probe = "live" THEN Step(t, "poll") /\ RowUnchanged
       ELSE IF HasResult THEN Step(t, "result") /\ RowUnchanged
       ELSE ControlVerdict(t, "cancelled")
    /\ HostUnchanged

\* Three seconds are over.
NativeCancelGivesUp ==
    /\ InStep("canceller", "poll")
    /\ Step("canceller", "load")
    /\ RowUnchanged /\ HostUnchanged

-----------------------------------------------------------------------------
(* The launcher.                                                           *)

LauncherFrame == UNCHANGED <<nativeRow, expired, unseen, workers>>

\* The target is created suspended and owned before its start is written.
CreateTarget ==
    /\ launcher = "live" /\ target = "none"
    /\ target' = "suspended"
    /\ bundle' = [bundle EXCEPT !.targetStart = "true"]
    /\ UNCHANGED <<launcher, outcome>> /\ LauncherFrame

ResumeTarget ==
    /\ launcher = "live" /\ target = "suspended"
    /\ IF bundle.cancel THEN target' = "done" /\ outcome' = "cancelled"
                        ELSE target' = "running" /\ UNCHANGED outcome
    /\ UNCHANGED <<launcher, bundle>> /\ LauncherFrame

\* The target exits, or the launcher ends it: cancel file, own timeout.
TargetEnds ==
    /\ launcher = "live" /\ target = "running"
    /\ target' = "done"
    /\ outcome' \in {"succeeded", "failed"}
                    \cup (IF bundle.cancel THEN {"cancelled"} ELSE {})
                    \cup (IF expired THEN {"timed_out"} ELSE {})
    /\ UNCHANGED <<launcher, bundle>> /\ LauncherFrame

PublishResult ==
    /\ launcher = "live" /\ target = "done" /\ ~HasResult
    /\ bundle' = [bundle EXCEPT !.result = outcome]
    /\ UNCHANGED <<launcher, target, outcome>> /\ LauncherFrame

LauncherExits ==
    /\ launcher = "live" /\ (HasResult \/ "die" \in NativeFaults)
    /\ launcher' = "gone" /\ target' = IF target = "none" THEN "none" ELSE "done"
    /\ UNCHANGED <<bundle, outcome>> /\ LauncherFrame

PidReused ==
    /\ "reuse" \in NativeFaults /\ launcher = "gone"
    /\ launcher' = "reused"
    /\ UNCHANGED <<target, bundle, outcome>> /\ LauncherFrame

\* The bundle is writable by the target, which may take windows-start.json
\* away or replace it; that it writes a result of its own is left out.
Tamper ==
    /\ "tamper" \in NativeFaults /\ target = "running"
    /\ \E forged \in {"none", "forged"} : bundle' = [bundle EXCEPT !.targetStart = forged]
    /\ UNCHANGED <<launcher, target, outcome>> /\ LauncherFrame

Expire ==
    /\ ~expired /\ expired' = TRUE
    /\ UNCHANGED <<nativeRow, launcher, target, bundle, outcome, unseen, workers>>

NativeCrash ==
    /\ "crash" \in NativeFaults
    /\ workers' = [t \in NativeThreads |-> AtRest]
    /\ RowUnchanged /\ HostUnchanged

ReconcileStep(t) ==
    \/ CommitNativeResult(t) \/ ReconcileNativeAttempt(t) \/ BindWindowsStart(t)
    \/ ProbeStarting(t) \/ ConcludeStarting(t)
    \/ EnforceDeadline(t) \/ KillOwner(t) \/ Killed(t) \/ CommitTimedOut(t)
    \/ ProbeOwner(t) \/ ConcludeOwner(t) \/ ProbeOrphan(t) \/ ConcludeOrphan(t)

NativeNext ==
    \/ SpawnWindowsNative \/ SpawnRefused \/ SpawnReplyLost \/ WriteLauncherStart \/ BindDispatchOwner
    \/ AwaitNativeEvidence \/ StartFailed \/ Reconcile
    \/ \E t \in NativeThreads : ReconcileStep(t)
    \/ RequestNativeCancel \/ WriteNativeCancel \/ PollNativeCancel
    \/ ProbeNativeCancel \/ ConcludeNativeCancel \/ NativeCancelGivesUp
    \/ CreateTarget \/ ResumeTarget \/ TargetEnds \/ PublishResult \/ LauncherExits
    \/ PidReused \/ Tamper \/ Expire \/ NativeCrash

NativeSpec == NativeInit /\ [][NativeNext]_nativeVars

\* The maintenance loop reconciles again and again and time passes; nothing
\* is assumed of the launcher or the target.
NativeFairness ==
    /\ WF_nativeVars(Reconcile \/ ReconcileStep("reconciler"))
    /\ WF_nativeVars(Expire)

NativeFairSpec == NativeSpec /\ NativeFairness

-----------------------------------------------------------------------------
\* The row, the launcher and the files of the bundle keep their shape.
NativeTypeOK ==
    /\ nativeRow \in [state : NativeTerminal \cup {"starting", "running", "stopping"},
                      intent : {"natural", "stop_requested", "deadline_exceeded"},
                      bound : BOOLEAN, rv : 0 .. 5, by : {"none", "control", "result"}]
    /\ launcher \in {"none", "live", "gone", "reused"}
    /\ bundle \in [launcherStart : BOOLEAN, targetStart : {"none", "true", "forged"},
                   result : Outcomes, cancel : BOOLEAN]

\* A conclusive verdict, which returns the capacity and the Workspace, is not
\* given while the process tree may still run: the target is over, and the
\* launcher is gone or has published its result.  The one exception is a
\* launcher whose start was reported as failed after it had begun.
VerdictAfterTree ==
    nativeRow.state \in NativeConclusive /\ ~unseen =>
        /\ target \notin {"suspended", "running"}
        /\ launcher = "live" => HasResult

\* A verdict derived from the death of the launcher never stands against a
\* result the launcher had published before it died.
ResultStands ==
    nativeRow.state \in NativeConclusive /\ nativeRow.by = "control" /\ ~unseen => ~HasResult

\* The target's start evidence is no longer what the launcher wrote.
Tampered == target # "none" /\ ~TargetStartValid

\* An Attempt whose owner is bound gets its verdict however its launcher and
\* target behave, unless a cancellation takes the outer deadline away from
\* it, when only the launcher can end it, or windows-start.json is taken away
\* or replaced, which no reconciliation gets past (enforce_native_outer_deadline,
\* reconcile_windows_native_attempt).
NativeConverges ==
    nativeRow.bound /\ nativeRow.state \notin NativeConclusive
        ~> \/ nativeRow.state \in NativeConclusive
           \/ nativeRow.intent = "stop_requested" \/ Tampered
=============================================================================
