---------------------------- MODULE Maintenance ----------------------------
(***************************************************************************)
(* The maintenance task of the server: at every tick it lists a bounded    *)
(* number of Attempts, flagged ones first, then held orphans, then the     *)
(* oldest, and reconciles one after the other.  What reconciling one does  *)
(* is the Engine's; here an Attempt is ready to be concluded, still busy,  *)
(* orphaned with a live tree, or stuck in an error.                        *)
(*                                                                         *)
(* Sources: mcp/src/main.rs, runtime/registry/recovery.rs, runtime/engine/ *)
(* reconciliation.rs, runtime/error.rs.                                    *)
(***************************************************************************)
EXTENDS Integers, Sequences, FiniteSets

CONSTANTS
    OpenAttempts,   \* the Attempts capacity allows at once
    BatchSize,      \* ORDIVON_RECONCILE_BATCH_SIZE
    MaxFatal        \* bound: ticks that a fatal error cuts short

ASSUME MaintenanceAssumption ==
    IsFiniteSet(OpenAttempts) /\ BatchSize \in Nat \ {0} /\ MaxFatal \in Nat

VARIABLES
    standing,       \* per Attempt: what reconciling it would find
    flagged,        \* Attempts with recovery_required
    arrival,        \* per Attempt: its place in the order of admission
    tick,           \* what the tick under way has still to look at
    fatal           \* ticks cut short so far

maintenanceVars == <<standing, flagged, arrival, tick, fatal>>

Blocking == {"busy", "held", "stuck"}
Standings == Blocking \cup {"ready", "done"}

Positions == 1 .. Cardinality(OpenAttempts)
Orders ==
    {f \in [OpenAttempts -> Positions] : \A a, b \in OpenAttempts : f[a] = f[b] => a = b}

MaintenanceInit ==
    /\ standing = [a \in OpenAttempts |-> "busy"]
    /\ flagged = {} /\ tick = <<>> /\ fatal = 0
    /\ arrival \in Orders

Rank(a) == IF a \in flagged THEN 0 ELSE IF standing[a] = "held" THEN 1 ELSE 2

(* The order of list_maintenance_attempts_bounded.                         *)
Precedes(a, b) == Rank(a) < Rank(b) \/ (Rank(a) = Rank(b) /\ arrival[a] < arrival[b])
Listed == {a \in OpenAttempts : standing[a] # "done" \/ a \in flagged}

(* In that order, the first BatchSize of them.                             *)
ListMaintenanceAttempts ==
    {batch \in UNION {[1 .. n -> Listed] : n \in 0 .. BatchSize} :
        LET first == {batch[i] : i \in DOMAIN batch} IN
        /\ \A i, j \in DOMAIN batch : i < j => Precedes(batch[i], batch[j])
        /\ \A a \in first, b \in Listed \ first : Precedes(a, b)
        /\ Listed = first \/ Len(batch) = BatchSize}

(* A tick; the next one is skipped while it runs.                          *)
Tick ==
    /\ tick = <<>> /\ Listed # {}
    /\ tick' \in ListMaintenanceAttempts
    /\ UNCHANGED <<standing, flagged, arrival, fatal>>

(* The first error ends the tick.                                          *)
ReconcileCandidateUnisolated ==
    /\ tick # <<>>
    /\ LET a == Head(tick)
       IN /\ tick' = IF standing[a] = "stuck" THEN <<>> ELSE Tail(tick)
          /\ standing' = IF standing[a] = "ready" THEN [standing EXCEPT ![a] = "done"]
                         ELSE standing
          /\ flagged' = CASE standing[a] = "stuck" -> flagged \cup {a}
                          [] standing[a] = "held" -> flagged
                          [] OTHER -> flagged \ {a}
    /\ UNCHANGED <<arrival, fatal>>

(* An error of one Attempt flags it and the tick goes on; success clears   *)
(* the flag, except of an orphan that stays one.                           *)
ReconcileCandidate ==
    /\ tick # <<>> /\ tick' = Tail(tick)
    /\ LET a == Head(tick)
       IN /\ standing' = IF standing[a] = "ready" THEN [standing EXCEPT ![a] = "done"]
                         ELSE standing
          /\ flagged' = CASE standing[a] = "stuck" -> flagged \cup {a}
                          [] standing[a] = "held" -> flagged
                          [] OTHER -> flagged \ {a}
    /\ UNCHANGED <<arrival, fatal>>

(* An error of the credential sweep, before anything is listed, or one     *)
(* that is_reconciliation_fatal: what is left waits for another tick.      *)
FatalError ==
    /\ fatal < MaxFatal
    /\ tick' = <<>> /\ fatal' = fatal + 1
    /\ UNCHANGED <<standing, flagged, arrival>>

(* A client that polls its Job has it reconciled at once.                  *)
ObserveJob(a) ==
    /\ standing[a] = "ready"
    /\ standing' = [standing EXCEPT ![a] = "done"]
    /\ UNCHANGED <<flagged, arrival, tick, fatal>>

(* A finished Attempt returns capacity, and another is admitted.           *)
AdmitAttempt(a) ==
    /\ standing[a] = "done" /\ a \notin flagged /\ (\A i \in 1 .. Len(tick) : tick[i] # a)
    /\ standing' = [standing EXCEPT ![a] = "busy"]
    /\ arrival' = [b \in OpenAttempts |->
                      IF b = a THEN Cardinality(OpenAttempts)
                      ELSE IF arrival[b] > arrival[a] THEN arrival[b] - 1 ELSE arrival[b]]
    /\ UNCHANGED <<flagged, tick, fatal>>

(* The host: a payload ends, its evidence goes bad or is put right, an     *)
(* orphan's tree goes away.                                                *)
Changes(a) ==
    /\ \E s \in {"ready", "stuck", "held"} :
          /\ standing[a] = "busy" \/ (standing[a] \in {"stuck", "held"} /\ s = "ready")
          /\ standing' = [standing EXCEPT ![a] = s]
    /\ UNCHANGED <<flagged, arrival, tick, fatal>>

MaintenanceNext ==
    \/ Tick \/ ReconcileCandidate \/ FatalError
    \/ \E a \in OpenAttempts : ObserveJob(a) \/ AdmitAttempt(a) \/ Changes(a)

MaintenanceSpec == MaintenanceInit /\ [][MaintenanceNext]_maintenanceVars

(* The interval timer ticks for as long as the server runs, and a batch   *)
(* is worked through.                                                      *)
MaintenanceFairness ==
    WF_maintenanceVars(Tick) /\ WF_maintenanceVars(ReconcileCandidate)

MaintenanceFairSpec == MaintenanceSpec /\ MaintenanceFairness

-----------------------------------------------------------------------------
\* A batch is bounded and names Attempts, and no two Attempts have the same
\* place in the order of admission.
MaintenanceTypeOK ==
    /\ standing \in [OpenAttempts -> Standings] /\ flagged \subseteq OpenAttempts
    /\ arrival \in Orders
    /\ tick \in Seq(OpenAttempts) /\ Len(tick) <= BatchSize
    /\ fatal \in 0 .. MaxFatal

\* As many Attempts as a batch holds are not going anywhere.
Crowded == Cardinality({a \in OpenAttempts : standing[a] \in Blocking}) >= BatchSize

\* Without anybody polling, an Attempt that can be concluded is concluded,
\* although stuck Attempts are flagged and stay ahead of it in every batch,
\* unless at some moment they and the busy ones fill a whole batch
\* (list_maintenance_attempts_bounded, record_isolated_reconciliation_failure).
Served ==
    \A a \in OpenAttempts :
        (standing[a] = "ready") ~> (standing[a] # "ready" \/ Crowded)
=============================================================================
