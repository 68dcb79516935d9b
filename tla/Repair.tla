------------------------------- MODULE Repair -------------------------------
(***************************************************************************)
(* The operator's Doctor, repair and stale-cancellation commands, run      *)
(* against the Registry of a live Runtime: what the Doctor proposes for    *)
(* rows an older Runtime left inconsistent, the backup the commands are    *)
(* bound to, the one transaction that repairs every case, and the          *)
(* cancellation of an Attempt whose launch identity never matched.         *)
(*                                                                         *)
(* Sources: runtime/doctor.rs, runtime/repair.rs, runtime/registry.rs,     *)
(* runtime/registry/recovery.rs, runtime/registry/reconciliation.rs,       *)
(* runtime/engine/control_query.rs, bin/ordivon-runtime-repair.rs.         *)
(***************************************************************************)
EXTENDS Integers, FiniteSets

CONSTANTS
    Cases,      \* Attempts, each the only one of its Job
    Nothing,    \* no digest, no resolution, no backup
    Found       \* bound: states of the rows the command may meet

ASSUME RepairAssumption == Nothing \notin {"control", "runner", "admin"}

VARIABLES
    rows,       \* per Attempt: its row, its Job's and its reservation's
    unit,       \* per Attempt: "active", "deactivating" or "gone"
    result,     \* per Attempt: result.json in the bundle
    backup,     \* the snapshot the operator will name: what is compared of its rows
    repairer,   \* ordivon-runtime-repair apply
    canceller,  \* ordivon-runtime-repair cancel-stale
    unlooked    \* Attempts judged gone while their unit was deactivating

repairVars == <<rows, unit, result, backup, repairer, canceller, unlooked>>

OpenStates == {"starting", "running", "stopping"}
RunnerStates == {"succeeded", "failed"}
ClosedStates == RunnerStates \cup {"cancelled", "lost", "orphaned"}
RepairResults == {"none", "valid", "invalid"}
Units == {"active", "deactivating", "gone"}

(* rv and jv are the row versions of the Attempt and of its Job, flag is   *)
(* recovery_required for LAUNCH_IDENTITY_MISMATCH, bound says that the     *)
(* cgroup and the process identity are recorded.                           *)
CaseRow == [state: OpenStates \cup ClosedStates,
        digest: {"control", "runner", "admin", Nothing},
        resolution: ClosedStates \cup {Nothing},
        current: BOOLEAN, reservation: {"active", "held_orphaned", "released"},
        rv: Nat, jv: Nat, flag: BOOLEAN, bound: BOOLEAN,
        by: {"runtime", "repair", "cancel"}]

Unresolved(state, flag, bound) ==
    [state |-> state, digest |-> Nothing, resolution |-> Nothing, current |-> TRUE,
     reservation |-> "active", rv |-> 0, jv |-> 0, flag |-> flag, bound |-> bound,
     by |-> "runtime"]
Resolved(state, digest, current, reservation) ==
    [state |-> state, digest |-> digest, resolution |-> state, current |-> current,
     reservation |-> reservation, rv |-> 0, jv |-> 0, flag |-> FALSE, bound |-> TRUE,
     by |-> "runtime"]

Planless == [pc |-> "idle", plan |-> <<>>]
Uncancelled == [pc |-> "idle", of |-> Nothing, rv |-> 0]

(* Rows the command has to do with: Attempts in progress, flagged or not;  *)
(* and the rows of older Runtimes: Lost without evidence, an orphan or a   *)
(* verdict that kept its active reservation.  The unit of a Lost row is    *)
(* taken to be gone: the Runtime that wrote the row saw it gone, and       *)
(* finalize-lost never looks again.                                        *)
Shapes ==
    {Unresolved("starting", TRUE, FALSE), Unresolved("running", TRUE, TRUE),
     Resolved("lost", Nothing, TRUE, "active"),
     Resolved("orphaned", "control", FALSE, "active"),
     Resolved("failed", "control", FALSE, "active")}

RepairInit ==
    /\ \E shape \in [Cases -> {s \in Shapes : s.state \in Found}] :
        /\ rows = shape
        /\ unit \in [Cases -> Units]
        /\ result \in [Cases -> RepairResults]
        /\ \A a \in Cases :
            /\ shape[a].state \in {"lost", "failed"} => unit[a] = "gone"
            /\ shape[a].state = "failed" => result[a] = "none"
            /\ unit[a] = "active" => result[a] = "none"
    /\ backup = Nothing
    /\ repairer = Planless /\ canceller = Uncancelled
    /\ unlooked = {}

-----------------------------------------------------------------------------
(* The Doctor.                                                             *)

ReservationTarget(state) == IF state = "orphaned" THEN "held_orphaned" ELSE "released"

EvidenceComplete(r) ==
    /\ r.state \in ClosedStates /\ r.digest # Nothing
    /\ r.resolution = r.state /\ ~r.current

(* inspect_runtime_invariants_connection, the violations of one Attempt.   *)
Violations(r) ==
    {code \in {"resolved_with_current", "unresolved_terminal", "mismatch",
               "holds", "not_held", "no_evidence"} :
        CASE code = "resolved_with_current" -> r.resolution # Nothing /\ r.current
          [] code = "unresolved_terminal" ->
                r.resolution = Nothing /\ r.current /\ r.state \in ClosedStates
          [] code = "mismatch" -> r.resolution \notin {Nothing, r.state}
          [] code = "holds" -> r.state \in ClosedStates \ {"orphaned"}
                               /\ r.reservation # "released"
          [] code = "not_held" -> r.state = "orphaned" /\ r.reservation # "held_orphaned"
          [] code = "no_evidence" -> r.state \in ClosedStates /\ r.digest = Nothing}

Violating(tables) == {a \in Cases : Violations(tables[a]) # {}}

(* prepare_runner_terminal_from_bundle: the verdict a result file carries. *)
RunnerVerdict == [state |-> "succeeded", digest |-> "runner"]

Matches(r, verdict) ==
    EvidenceComplete(r) /\ r.state = verdict.state /\ r.digest = verdict.digest

ProposeRepair(r, file) ==
    LET settled(ok) == IF ~ok THEN "review"
                       ELSE IF r.reservation = ReservationTarget(r.state) THEN "none"
                       ELSE "release"
    IN CASE file = "valid" -> IF Matches(r, RunnerVerdict) THEN settled(TRUE) ELSE "recover"
         [] file = "invalid" -> "review"
         [] file = "none" -> settled(EvidenceComplete(r))

(* What a case holds and its fingerprint covers; neither the recovery flag *)
(* nor the recorded process identity is in it.                             *)
DoctorCase(a) ==
    [row |-> [rows[a] EXCEPT !.flag = FALSE, !.bound = FALSE, !.by = "runtime"],
     file |-> result[a], proposal |-> ProposeRepair(rows[a], result[a])]

Compared(r) == <<r.state, r.digest, r.resolution, r.current, r.reservation, r.rv, r.jv>>

(* An online copy of the Registry in a directory of its own; the operator  *)
(* names the last one.                                                     *)
TakeBackup ==
    /\ repairer.pc = "idle" /\ canceller.pc = "idle"
    /\ backup' = [a \in Cases |-> <<Compared(rows[a]), rows[a].flag>>]
    /\ UNCHANGED <<rows, unit, result, repairer, canceller, unlooked>>

-----------------------------------------------------------------------------
(* apply_runtime_repair.                                                   *)

SnapshotVerified == backup # Nothing

VerifySnapshotCases(cases) ==
    \A a \in DOMAIN cases : backup[a][1] = Compared(cases[a].row)

Lost(c) == c.row.state = "lost" /\ c.row.resolution = "lost" /\ c.file = "none"

(* The report is made again and must be the one the operator passes the    *)
(* fingerprint of, which may have been read at any moment: the plan is the *)
(* one of the new report.  Every violation has a proposal, every manual    *)
(* case has been selected, and only a Lost row without a result may be     *)
(* finalized.                                                              *)
BeginRepair ==
    LET cases == [a \in Violating(rows) |-> DoctorCase(a)]
    IN /\ repairer.pc = "idle" /\ SnapshotVerified
       /\ \A a \in DOMAIN cases :
            /\ cases[a].proposal # "none"
            /\ cases[a].proposal = "review" => Lost(cases[a])
       /\ VerifySnapshotCases(cases)
       /\ repairer' = [pc |-> "planned", plan |-> cases]
       /\ UNCHANGED <<rows, unit, result, backup, canceller, unlooked>>

FinalLost == [state |-> "lost", digest |-> "admin"]

Verdict(c) == IF c.proposal = "recover" THEN RunnerVerdict ELSE FinalLost

Unmoved(a, c) ==
    /\ rows[a].rv = c.row.rv /\ rows[a].jv = c.row.jv
    /\ rows[a].current = c.row.current
    /\ rows[a].reservation = c.row.reservation

(* repair_terminal_admin_transaction.                                      *)
TerminalAllowed(a, c) ==
    /\ rows[a].state \in {"lost", "orphaned"}
    /\ Verdict(c).state = "lost" => rows[a].state = "lost"
    /\ rows[a].resolution = rows[a].state

RepairTerminal(r, verdict) ==
    [r EXCEPT !.state = verdict.state, !.digest = verdict.digest,
              !.resolution = verdict.state, !.current = FALSE,
              !.reservation = "released", !.rv = @ + 1, !.jv = @ + 1,
              !.flag = FALSE, !.by = "repair"]

(* repair_terminal_reservation_admin_transaction.                          *)
RepairReservation(r) ==
    [r EXCEPT !.reservation = ReservationTarget(r.state), !.by = "repair"]

OperationAppliesUncompared(a, c) ==
    IF c.proposal = "release" THEN EvidenceComplete(rows[a]) ELSE TerminalAllowed(a, c)

OperationApplies(a, c) ==
    /\ Unmoved(a, c)
    /\ IF c.proposal = "release" THEN EvidenceComplete(rows[a]) ELSE TerminalAllowed(a, c)

Repaired(plan) ==
    [a \in Cases |->
        IF a \notin DOMAIN plan THEN rows[a]
        ELSE IF plan[a].proposal = "release" THEN RepairReservation(rows[a])
        ELSE RepairTerminal(rows[a], Verdict(plan[a]))]

(* One transaction for the whole plan, refused where any operation is or   *)
(* where any violation would remain.  Receipts written before stay.        *)
RepairAdminBatch ==
    /\ repairer.pc = "planned"
    /\ repairer' = Planless
    /\ LET after == Repaired(repairer.plan)
       IN rows' = IF /\ \A a \in DOMAIN repairer.plan :
                            OperationApplies(a, repairer.plan[a])
                     /\ Violating(after) = {}
                  THEN after ELSE rows
    /\ UNCHANGED <<unit, result, backup, canceller, unlooked>>

-----------------------------------------------------------------------------
(* cancel_stale_recovery_required_attempt.                                 *)

(* A unit that is deactivating is not active; its processes are seen only  *)
(* through a recorded identity.                                            *)
TargetAbsent(a) == unit[a] # "active" /\ (rows[a].bound => unit[a] = "gone")

Probed(a) == unlooked' = IF unit[a] = "gone" THEN unlooked ELSE unlooked \cup {a}

Cancel(pc) == canceller' = [canceller EXCEPT !.pc = pc]
CancelRefused ==
    canceller' = Uncancelled /\ UNCHANGED <<rows, unit, result, backup, repairer, unlooked>>

VerifySnapshotTarget(a) == backup[a] = <<Compared(rows[a]), TRUE>>

BeginStaleCancel(a) ==
    /\ canceller.pc = "idle" /\ SnapshotVerified
    /\ Violating(rows) = {}
    /\ rows[a].state \in OpenStates /\ rows[a].resolution = Nothing
    /\ rows[a].current /\ rows[a].reservation = "active" /\ rows[a].flag
    /\ VerifySnapshotTarget(a)
    /\ result[a] = "none"
    /\ canceller' = [pc |-> "probe", of |-> a, rv |-> 0]
    /\ UNCHANGED <<rows, unit, result, backup, repairer, unlooked>>

(* The request goes ahead without the first look at the process tree.      *)
ProbeTargetUnlooked(a) ==
    /\ canceller.pc = "probe" /\ canceller.of = a
    /\ Cancel("request")
    /\ UNCHANGED <<rows, unit, result, backup, repairer, unlooked>>

ProbeTarget(a) ==
    /\ canceller.pc = "probe" /\ canceller.of = a
    /\ IF TargetAbsent(a)
       THEN /\ Cancel("request") /\ Probed(a)
            /\ UNCHANGED <<rows, unit, result, backup, repairer>>
       ELSE CancelRefused

(* request_cancel: the intent is kept whatever the command finds next.     *)
RequestStaleCancel(a) ==
    /\ canceller.pc = "request" /\ canceller.of = a
    /\ IF rows[a].resolution = Nothing
       THEN /\ rows' = [rows EXCEPT ![a].jv = @ + 1,
                            ![a].rv = IF rows[a].state = "stopping" THEN @ ELSE @ + 1,
                            ![a].state = "stopping", ![a].by = "runtime"]
            /\ Cancel("reread")
            /\ UNCHANGED <<unit, result, backup, repairer, unlooked>>
       ELSE IF rows[a].resolution = "orphaned"
       THEN CancelRefused
       ELSE /\ Cancel("reread")
            /\ UNCHANGED <<rows, unit, result, backup, repairer, unlooked>>

RereadTarget(a) ==
    /\ canceller.pc = "reread" /\ canceller.of = a
    /\ IF rows[a].state \in OpenStates /\ result[a] = "none"
       THEN /\ canceller' = [canceller EXCEPT !.pc = "reprobe", !.rv = rows[a].rv]
            /\ UNCHANGED <<rows, unit, result, backup, repairer, unlooked>>
       ELSE CancelRefused

ReprobeTarget(a) ==
    /\ canceller.pc = "reprobe" /\ canceller.of = a
    /\ IF TargetAbsent(a)
       THEN /\ Cancel("commit") /\ Probed(a)
            /\ UNCHANGED <<rows, unit, result, backup, repairer>>
       ELSE CancelRefused

CommitStaleCancel(a) ==
    /\ canceller.pc = "commit" /\ canceller.of = a
    /\ IF rows[a].rv = canceller.rv /\ rows[a].state \in OpenStates
       THEN /\ rows' = [rows EXCEPT ![a].state = "cancelled", ![a].digest = "admin",
                            ![a].resolution = "cancelled", ![a].current = FALSE,
                            ![a].reservation = "released", ![a].rv = @ + 1,
                            ![a].jv = @ + 1, ![a].by = "cancel"]
            /\ Cancel("clear")
            /\ UNCHANGED <<unit, result, backup, repairer, unlooked>>
       ELSE CancelRefused

ClearStaleFlag(a) ==
    /\ canceller.pc = "clear" /\ canceller.of = a
    /\ canceller' = Uncancelled
    /\ rows' = [rows EXCEPT ![a].flag = FALSE]
    /\ UNCHANGED <<unit, result, backup, repairer, unlooked>>

StaleCancel(a) ==
    \/ BeginStaleCancel(a) \/ ProbeTarget(a) \/ RequestStaleCancel(a)
    \/ RereadTarget(a) \/ ReprobeTarget(a) \/ CommitStaleCancel(a)
    \/ ClearStaleFlag(a)

-----------------------------------------------------------------------------
(* The Runtime meanwhile, each a transaction of its own.                   *)

Writes(a, r) ==
    /\ rows' = [rows EXCEPT ![a] = [r EXCEPT !.by = "runtime"]]
    /\ UNCHANGED <<unit, result, backup, repairer, canceller, unlooked>>

BindIdentity(a) ==
    /\ rows[a].state = "starting" /\ unit[a] = "active"
    /\ Writes(a, [rows[a] EXCEPT !.state = "running", !.bound = TRUE, !.rv = @ + 1])

CommitRunnerResult(a) ==
    /\ rows[a].state \in OpenStates /\ result[a] = "valid"
    /\ Writes(a, [rows[a] EXCEPT !.state = "succeeded", !.digest = "runner",
                      !.resolution = "succeeded", !.current = FALSE,
                      !.reservation = "released", !.rv = @ + 1, !.jv = @ + 1])

RecoverOrphanedTerminal(a) ==
    /\ rows[a].state = "orphaned" /\ rows[a].resolution = "orphaned"
    /\ rows[a].reservation = "held_orphaned" /\ result[a] = "valid"
    /\ Writes(a, [rows[a] EXCEPT !.state = "succeeded", !.digest = "runner",
                      !.resolution = "succeeded", !.reservation = "released",
                      !.rv = @ + 1, !.jv = @ + 1])

ConvergeTerminalReservation(a) ==
    /\ EvidenceComplete(rows[a])
    /\ rows[a].reservation # ReservationTarget(rows[a].state)
    /\ Writes(a, [rows[a] EXCEPT !.reservation = ReservationTarget(rows[a].state)])

RecordReconciliationFailure(a) ==
    /\ rows[a].state \in OpenStates /\ ~rows[a].flag
    /\ Writes(a, [rows[a] EXCEPT !.flag = TRUE])

ClearReconciliationFailure(a) ==
    /\ rows[a].flag
    /\ Writes(a, [rows[a] EXCEPT !.flag = FALSE])

(* The host: the payload finishes, its unit stops.                         *)
RunnerWritesResult(a) ==
    /\ unit[a] # "gone" /\ result[a] = "none"
    /\ \E file \in RepairResults \ {"none"} : result' = [result EXCEPT ![a] = file]
    /\ UNCHANGED <<rows, unit, backup, repairer, canceller, unlooked>>

UnitStops(a) ==
    /\ unit[a] # "gone"
    /\ unit' = [unit EXCEPT ![a] = IF unit[a] = "active" THEN "deactivating" ELSE "gone"]
    /\ UNCHANGED <<rows, result, backup, repairer, canceller, unlooked>>

Elsewhere(a) ==
    \/ BindIdentity(a) \/ CommitRunnerResult(a) \/ RecoverOrphanedTerminal(a)
    \/ ConvergeTerminalReservation(a) \/ RecordReconciliationFailure(a)
    \/ ClearReconciliationFailure(a) \/ RunnerWritesResult(a) \/ UnitStops(a)

RepairNext ==
    \/ TakeBackup \/ BeginRepair \/ RepairAdminBatch
    \/ \E a \in Cases : StaleCancel(a) \/ Elsewhere(a)

RepairSpec == RepairInit /\ [][RepairNext]_repairVars

-----------------------------------------------------------------------------
\* The rows have the shape of their tables, and a command in progress names
\* an Attempt.
RepairTypeOK ==
    /\ rows \in [Cases -> CaseRow]
    /\ unit \in [Cases -> Units] /\ result \in [Cases -> RepairResults]
    /\ backup = Nothing \/ DOMAIN backup = Cases
    /\ repairer.pc \in {"idle", "planned"} /\ DOMAIN repairer.plan \subseteq Cases
    /\ canceller.of \in Cases \cup {Nothing} /\ unlooked \subseteq Cases

\* No verdict an operator gives stands over a Runner result: an Attempt that
\* was finalized as Lost or cancelled as stale has none in its bundle, unless
\* its unit was still deactivating when the command judged its tree gone
\* (repair.rs looks at the result, then the tree, commits the intent, and
\* looks at both again).
NoVerdictOverResult ==
    \A a \in Cases :
        rows[a].digest = "admin" => result[a] = "none" \/ a \in unlooked

\* A repair changes only rows that are, when it commits, exactly what the
\* operator's backup holds, and leaves no violation anywhere; whatever the
\* live Runtime did since the Doctor looked (repair.rs, repair_admin_batch).
RepairFromBackup ==
    [][\A a \in Cases :
          (rows'[a] # rows[a] /\ rows'[a].by = "repair") =>
              backup[a][1] = Compared(rows[a]) /\ Violating(rows') = {}]_repairVars
=============================================================================
