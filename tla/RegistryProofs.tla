--------------------------- MODULE RegistryProofs ---------------------------
(***************************************************************************)
(* The Registry's invariants, for every set of Jobs, Keys, Workspaces and  *)
(* limits.  The inductive invariant Consistent adds to the checked         *)
(* properties only that rows which were never inserted are blank: without  *)
(* it an admission could not be shown to leave an agreeing row behind.     *)
(***************************************************************************)
EXTENDS RegistryContract, FiniteSetTheorems, TLAPS

\* A transaction of the Registry, whatever row version its caller presents:
\* the bound RowVersions of Next is for TLC and plays no part in the proofs.
Transaction ==
    \/ \E j \in Jobs, k \in Keys, op \in Operations, limit \in Limits :
          Submit(j, k, op, limit)
    \/ AcquireFence
    \/ ReleaseFence
    \/ \E j \in Jobs, v \in Nat :
          \/ MarkBundleReady(j, v)
          \/ MarkDispatchIssued(j, v)
          \/ \E o \in Owners : BindRunning(j, v, o) \/ BindSupervisorOwner(j, v, o)
          \/ \E d \in Digests, kinds \in SUBSET Kinds :
                \/ \E state \in Terminal : CommitTerminal(j, v, state, d, kinds)
                \/ \E state \in Conclusive :
                      RecoverOrphanedTerminal(j, v, state, d, kinds)
    \/ \E j \in Jobs :
          \/ RequestDeadlineTermination(j)
          \/ \E d \in Digests : RequestCancel(j, d)
          \/ RecordReconciliationFailure(j)
          \/ ClearReconciliationFailure(j)

Transactions == Init /\ [][Transaction]_registryVars

\* Rows that were never inserted are blank.
BlankRows ==
    \A j \in Jobs : ~Admitted(j) =>
        attempts[j] = NoAttempt /\ jobs[j] = NoJob /\ reservations[j] = None

Consistent ==
    /\ TypeOK
    /\ BlankRows
    /\ RuntimeInvariants
    /\ KeysIdentifyJobs

\* The invariant conditions of one admitted row.
RowAgrees(j) == ResolutionAgrees(j) /\ CapacityAgrees(j) /\ EvidenceRecorded(j)

USE NoneAssumption DEF Admitted, IsTerminal, Holding, Conclusive, Terminal,
    Dispatched, Nonterminal, AttemptStates, Intents, Bundle

-----------------------------------------------------------------------------
(* Steps that touch the rows of one Job.                                   *)

\* The versioned update keeps the attempts table well typed.
LEMMA UpdateType ==
    ASSUME TypeOK, NEW j \in Jobs, NEW row \in AttemptRow, Update(j, row)
    PROVE  attempts' \in [Jobs -> AttemptRow]
<1> DEFINE new == [row EXCEPT !.rv = @ + 1]
<1>1. new \in AttemptRow
  BY DEF AttemptRow
<1>2. attempts' = [attempts EXCEPT ![j] = new]
  BY DEF Update
<1> HIDE DEF new
<1> QED BY <1>1, <1>2 DEF TypeOK

\* A method that rewrites only the rows of an admitted Job, keeps its
\* request and leaves the three rows in agreement preserves Consistent.
LEMMA RowStep ==
    ASSUME Consistent, TypeOK', UNCHANGED keys,
           NEW j \in Jobs, Admitted(j), Admitted(j)',
           \A i \in Jobs \ {j} : /\ attempts'[i] = attempts[i]
                                 /\ jobs'[i] = jobs[i]
                                 /\ reservations'[i] = reservations[i],
           jobs'[j].key = jobs[j].key, jobs'[j].op = jobs[j].op,
           RowAgrees(j)'
    PROVE  Consistent'
<1>1. BlankRows'
  BY DEF Consistent, BlankRows
<1>2. ASSUME NEW i \in Jobs, Admitted(i)'
      PROVE  RowAgrees(i)'
  <2>1. CASE i = j
    BY <2>1
  <2>2. CASE i # j
    BY <1>2, <2>2 DEF Consistent, RuntimeInvariants, RowAgrees, ResolutionAgrees,
       CapacityAgrees, EvidenceRecorded, TerminalReservationTarget
  <2> QED BY <2>1, <2>2
<1>3. RuntimeInvariants'
  BY <1>2 DEF RuntimeInvariants, RowAgrees
<1>4. KeysIdentifyJobs'
  BY DEF Consistent, KeysIdentifyJobs, TypeOK
<1> QED BY <1>1, <1>3, <1>4 DEF Consistent

\* The same for the methods that touch only the Attempt row and keep its
\* verdict open: bundle, dispatch, binding and outer deadline.
LEMMA LiveStep ==
    ASSUME Consistent, NEW j \in Jobs, NEW row \in AttemptRow,
           attempts[j].state \in Nonterminal, row.state \in Nonterminal,
           Update(j, row),
           UNCHANGED <<jobs, reservations, keys, artifacts, fence>>
    PROVE  Consistent'
<1>1. TypeOK'
  BY UpdateType DEF Consistent, TypeOK
<1>2. /\ attempts'[j].state = row.state
      /\ \A i \in Jobs \ {j} : attempts'[i] = attempts[i]
  BY DEF Update, Consistent, TypeOK, AttemptRow
<1>3. RowAgrees(j)'
  BY <1>2 DEF Consistent, RuntimeInvariants, RowAgrees, ResolutionAgrees,
     CapacityAgrees, EvidenceRecorded
<1> QED BY <1>1, <1>2, <1>3, RowStep

\* The reconciliation flag belongs to no invariant.
LEMMA RecoveryStep ==
    ASSUME Consistent, NEW j \in Jobs, Admitted(j), NEW f \in {0, 1},
           attempts' = [attempts EXCEPT ![j].recovery = f],
           UNCHANGED <<jobs, reservations, keys, artifacts, fence>>
    PROVE  Consistent'
<1> DEFINE row == [attempts[j] EXCEPT !.recovery = f]
<1>1. row \in AttemptRow /\ row.state = attempts[j].state /\ row.digest = attempts[j].digest
  BY DEF Consistent, TypeOK, AttemptRow
<1>2. attempts' = [attempts EXCEPT ![j] = row]
  OBVIOUS
<1> HIDE DEF row
<1>3. TypeOK'
  BY <1>1, <1>2 DEF Consistent, TypeOK
<1>4. /\ attempts'[j] = row
      /\ \A i \in Jobs \ {j} : attempts'[i] = attempts[i]
  BY <1>2 DEF Consistent, TypeOK
<1>5. RowAgrees(j)'
  BY <1>1, <1>4 DEF Consistent, RuntimeInvariants, RowAgrees, ResolutionAgrees,
     CapacityAgrees, EvidenceRecorded, TerminalReservationTarget
<1> QED BY <1>1, <1>3, <1>4, <1>5, RowStep

-----------------------------------------------------------------------------
(* The methods that move more than one table.                              *)

\* An admission inserts three rows that agree, under a key no Job has
\* (submit_preallocated).
LEMMA SubmitConsistent ==
    ASSUME Consistent, NEW j \in Jobs, NEW k \in Keys, NEW op \in Operations,
           NEW limit \in Limits, Submit(j, k, op, limit)
    PROVE  Consistent'
<1> DEFINE job == [NoJob EXCEPT !.key = k, !.op = op, !.limit = limit, !.current = j]
           row == [NoAttempt EXCEPT !.state = "accepted"]
<1>1. /\ job \in JobRow /\ job.key = k /\ job.op = op
      /\ job.current = j /\ job.resolution = None
  BY DEF NoJob, JobRow
<1>2. row \in AttemptRow /\ row.state = "accepted"
  BY DEF NoAttempt, AttemptRow
<1>3. /\ jobs' = [jobs EXCEPT ![j] = job]
      /\ attempts' = [attempts EXCEPT ![j] = row]
      /\ reservations' = [reservations EXCEPT ![j] = "active"]
      /\ keys' = [keys EXCEPT ![k] = j]
      /\ ~Admitted(j) /\ keys[k] = None
      /\ UNCHANGED <<artifacts, fence>>
  BY DEF Submit
<1> HIDE DEF job, row
<1>4. TypeOK'
  BY <1>1, <1>2, <1>3 DEF Consistent, TypeOK
<1>5. BlankRows'
  BY <1>2, <1>3 DEF Consistent, BlankRows, TypeOK
<1>6. RuntimeInvariants'
  BY <1>1, <1>2, <1>3 DEF Consistent, RuntimeInvariants, ResolutionAgrees,
     CapacityAgrees, EvidenceRecorded, TerminalReservationTarget, TypeOK
<1>7. KeysIdentifyJobs'
  BY <1>1, <1>2, <1>3 DEF Consistent, KeysIdentifyJobs, TypeOK
<1> QED BY <1>4, <1>5, <1>6, <1>7 DEF Consistent

\* commit_terminal, recover_orphaned_terminal and a cancellation before
\* dispatch all leave a verdict, its digest and the matching reservation.
LEMMA VerdictStep ==
    ASSUME Consistent, NEW j \in Jobs, Admitted(j), NEW row \in AttemptRow,
           NEW job \in JobRow, Update(j, row),
           row.state \in Terminal, row.digest # None,
           jobs' = [jobs EXCEPT ![j] = job],
           job.key = jobs[j].key, job.op = jobs[j].op,
           job.resolution = row.state, job.current = None,
           reservations' = [reservations EXCEPT ![j] =
               IF row.state = "orphaned" THEN "held_orphaned" ELSE "released"],
           artifacts' \subseteq Jobs \X Kinds,
           UNCHANGED <<keys, fence>>
    PROVE  Consistent'
<1>1. TypeOK'
  BY UpdateType DEF Consistent, TypeOK
<1>2. /\ attempts'[j].state = row.state /\ attempts'[j].digest = row.digest
      /\ jobs'[j] = job
      /\ reservations'[j] = IF row.state = "orphaned" THEN "held_orphaned"
                                                      ELSE "released"
      /\ \A i \in Jobs \ {j} : /\ attempts'[i] = attempts[i]
                               /\ jobs'[i] = jobs[i]
                               /\ reservations'[i] = reservations[i]
  BY DEF Update, Consistent, TypeOK, AttemptRow
<1>3. RowAgrees(j)'
  BY <1>2 DEF RowAgrees, ResolutionAgrees, CapacityAgrees, EvidenceRecorded,
     TerminalReservationTarget
<1> QED BY <1>1, <1>2, <1>3, RowStep

\* commit_terminal leaves the three rows of the Job in agreement.
LEMMA CommitTerminalConsistent ==
    ASSUME Consistent, NEW j \in Jobs, NEW v \in Nat,
           NEW state \in Terminal, NEW d \in Digests, NEW kinds \in SUBSET Kinds,
           CommitTerminal(j, v, state, d, kinds)
    PROVE  Consistent'
<1> DEFINE row == [attempts[j] EXCEPT !.state = state, !.digest = d]
           job == [jobs[j] EXCEPT !.resolution = state, !.current = None]
<1>0. attempts[j] \in AttemptRow /\ jobs[j] \in JobRow
  BY DEF Consistent, TypeOK
<1>1. row \in AttemptRow /\ row.state = state /\ row.digest = d
  BY <1>0 DEF AttemptRow
<1>2. /\ job \in JobRow /\ job.key = jobs[j].key /\ job.op = jobs[j].op
      /\ job.resolution = state /\ job.current = None
  BY <1>0 DEF JobRow
<1>3. /\ Update(j, row) /\ jobs' = [jobs EXCEPT ![j] = job] /\ Admitted(j)
      /\ UNCHANGED <<keys, fence>>
  BY DEF CommitTerminal
<1>4. artifacts' \subseteq Jobs \X Kinds
  BY DEF CommitTerminal, RegisterArtifacts, ArtifactIds, Consistent, TypeOK
<1>5. reservations' = [reservations EXCEPT ![j] =
          IF state = "orphaned" THEN "held_orphaned" ELSE "released"]
  BY DEF CommitTerminal, HoldOrphanedReservation, ReleaseReservation
<1> HIDE DEF row, job
<1> QED BY <1>1, <1>2, <1>3, <1>4, <1>5, VerdictStep

\* recover_orphaned_terminal replaces the orphan verdict in all three rows.
LEMMA RecoverOrphanedTerminalConsistent ==
    ASSUME Consistent, NEW j \in Jobs, NEW v \in Nat,
           NEW state \in Conclusive, NEW d \in Digests, NEW kinds \in SUBSET Kinds,
           RecoverOrphanedTerminal(j, v, state, d, kinds)
    PROVE  Consistent'
<1> DEFINE row == [attempts[j] EXCEPT !.state = state, !.digest = d]
           job == [jobs[j] EXCEPT !.resolution = state]
<1>0. attempts[j] \in AttemptRow /\ jobs[j] \in JobRow
  BY DEF Consistent, TypeOK
<1>1. row \in AttemptRow /\ row.state = state /\ row.digest = d
  BY <1>0 DEF AttemptRow
<1>2. /\ job \in JobRow /\ job.key = jobs[j].key /\ job.op = jobs[j].op
      /\ job.resolution = state /\ job.current = jobs[j].current
  BY <1>0 DEF JobRow
<1>3. jobs[j].current = None
  BY DEF RecoverOrphanedTerminal, Consistent, RuntimeInvariants, ResolutionAgrees
<1>4. /\ Update(j, row) /\ jobs' = [jobs EXCEPT ![j] = job] /\ Admitted(j)
      /\ reservations' = [reservations EXCEPT ![j] = "released"]
      /\ UNCHANGED <<keys, fence>>
  BY DEF RecoverOrphanedTerminal, ReleaseReservation
<1>5. artifacts' \subseteq Jobs \X Kinds
  BY DEF RecoverOrphanedTerminal, RegisterArtifacts, ArtifactIds, Consistent, TypeOK
<1> HIDE DEF row, job
<1> QED BY <1>1, <1>2, <1>3, <1>4, <1>5, VerdictStep

\* A cancellation before dispatch concludes the Job by itself
\* (request_cancel on an accepted Attempt).
LEMMA CancelAcceptedConsistent ==
    ASSUME Consistent, NEW j \in Jobs, NEW d \in Digests, CancelAccepted(j, d)
    PROVE  Consistent'
<1> DEFINE row == [attempts[j] EXCEPT !.state = "cancelled",
                       !.intent = "stop_requested", !.digest = d]
           job == [jobs[j] EXCEPT !.desired = "cancelled",
                       !.resolution = "cancelled", !.current = None]
<1>0. attempts[j] \in AttemptRow /\ jobs[j] \in JobRow
  BY DEF Consistent, TypeOK
<1>1. row \in AttemptRow /\ row.state = "cancelled" /\ row.digest = d
  BY <1>0 DEF AttemptRow
<1>2. /\ job \in JobRow /\ job.key = jobs[j].key /\ job.op = jobs[j].op
      /\ job.resolution = "cancelled" /\ job.current = None
  BY <1>0 DEF JobRow
<1>3. /\ Update(j, row) /\ jobs' = [jobs EXCEPT ![j] = job] /\ Admitted(j)
      /\ reservations' = [reservations EXCEPT ![j] = "released"]
      /\ artifacts' \subseteq Jobs \X Kinds /\ UNCHANGED <<keys, fence>>
  BY DEF CancelAccepted, ReleaseReservation, Consistent, TypeOK
<1> HIDE DEF row, job
<1> QED BY <1>1, <1>2, <1>3, VerdictStep

\* Recording the desired state on the Job row changes none of the columns
\* the invariants relate.
LEMMA DesireStep ==
    ASSUME Consistent, NEW j \in Jobs, Admitted(j), NEW row \in AttemptRow,
           attempts' = [attempts EXCEPT ![j] = row],
           row.digest = attempts[j].digest,
           \/ row.state = attempts[j].state
           \/ row.state \in Nonterminal /\ attempts[j].state \in Nonterminal,
           jobs' = [jobs EXCEPT ![j].desired = "cancelled"],
           UNCHANGED <<reservations, keys, artifacts, fence>>
    PROVE  Consistent'
<1> DEFINE job == [jobs[j] EXCEPT !.desired = "cancelled"]
<1>1. /\ job \in JobRow /\ job.key = jobs[j].key /\ job.op = jobs[j].op
      /\ job.resolution = jobs[j].resolution /\ job.current = jobs[j].current
  BY DEF Consistent, TypeOK, JobRow
<1>2. jobs' = [jobs EXCEPT ![j] = job]
  OBVIOUS
<1> HIDE DEF job
<1>3. TypeOK'
  BY <1>1, <1>2 DEF Consistent, TypeOK
<1>4. /\ attempts'[j] = row /\ jobs'[j] = job
      /\ \A i \in Jobs \ {j} : attempts'[i] = attempts[i] /\ jobs'[i] = jobs[i]
  BY <1>2 DEF Consistent, TypeOK
<1>5. Admitted(j)'
  BY <1>4
<1>6. RowAgrees(j)'
  BY <1>1, <1>4 DEF Consistent, RuntimeInvariants, RowAgrees, ResolutionAgrees,
     CapacityAgrees, EvidenceRecorded, TerminalReservationTarget
<1> QED BY <1>1, <1>3, <1>4, <1>5, <1>6, RowStep

-----------------------------------------------------------------------------
(* The remaining methods, one lemma each, then the induction.              *)

\* Bundle and dispatch intent: mark_bundle_ready, mark_dispatch_issued.
LEMMA DispatchConsistent ==
    ASSUME Consistent, NEW j \in Jobs, NEW v \in Nat,
           MarkBundleReady(j, v) \/ MarkDispatchIssued(j, v)
    PROVE  Consistent'
<1>0. attempts[j] \in AttemptRow
  BY DEF Consistent, TypeOK
<1>1. CASE MarkBundleReady(j, v)
  <2> DEFINE row == [attempts[j] EXCEPT !.bundle = Bundle]
  <2>1. row \in AttemptRow /\ row.state = attempts[j].state
    BY <1>0 DEF AttemptRow
  <2> QED BY <1>1, <2>1, LiveStep DEF MarkBundleReady
<1>2. CASE MarkDispatchIssued(j, v)
  <2> DEFINE row == [attempts[j] EXCEPT !.state = "starting"]
  <2>1. row \in AttemptRow /\ row.state = "starting"
    BY <1>0 DEF AttemptRow
  <2> QED BY <1>2, <2>1, LiveStep DEF MarkDispatchIssued
<1> QED BY <1>1, <1>2

\* The two bindings of a supervisor identity: bind_running,
\* bind_supervisor_owner.
LEMMA BindConsistent ==
    ASSUME Consistent, NEW j \in Jobs, NEW v \in Nat, NEW o \in Owners,
           BindRunning(j, v, o) \/ BindSupervisorOwner(j, v, o)
    PROVE  Consistent'
<1>0. attempts[j] \in AttemptRow
  BY DEF Consistent, TypeOK
<1>1. CASE BindRunning(j, v, o)
  <2> DEFINE row == [attempts[j] EXCEPT !.state = "running", !.owner = o]
  <2>1. row \in AttemptRow /\ row.state = "running"
    BY <1>0 DEF AttemptRow
  <2> QED BY <1>1, <2>1, LiveStep DEF BindRunning
<1>2. CASE BindSupervisorOwner(j, v, o)
  <2> DEFINE row == [attempts[j] EXCEPT
                        !.state = IF @ = "stopping" THEN "stopping" ELSE "running",
                        !.owner = o]
  <2>1. row \in AttemptRow /\ row.state \in {"stopping", "running"}
    BY <1>0 DEF AttemptRow
  <2> QED BY <1>2, <2>1, LiveStep DEF BindSupervisorOwner
<1> QED BY <1>1, <1>2

\* The outer deadline (request_deadline_termination) keeps the verdict open.
LEMMA DeadlineConsistent ==
    ASSUME Consistent, NEW j \in Jobs, RequestDeadlineTermination(j)
    PROVE  Consistent'
<1> DEFINE row == [attempts[j] EXCEPT !.state = "stopping",
                                      !.intent = "deadline_exceeded"]
<1>0. attempts[j] \in AttemptRow
  BY DEF Consistent, TypeOK
<1>1. row \in AttemptRow /\ row.state = "stopping"
  BY <1>0 DEF AttemptRow
<1> QED BY <1>1, LiveStep DEF RequestDeadlineTermination

\* request_cancel, on each of its three paths.
LEMMA CancelConsistent ==
    ASSUME Consistent, NEW j \in Jobs, NEW d \in Digests, RequestCancel(j, d)
    PROVE  Consistent'
<1>0. attempts[j] \in AttemptRow /\ attempts = [attempts EXCEPT ![j] = attempts[j]]
  BY DEF Consistent, TypeOK
<1>1. CASE CancelAccepted(j, d)
  BY <1>1, CancelAcceptedConsistent
<1>2. CASE CancelDispatched(j)
  <2>1. CASE attempts[j].state = "stopping"
    BY <1>0, <1>2, <2>1, DesireStep DEF CancelDispatched
  <2>2. CASE attempts[j].state # "stopping"
    <3> DEFINE old == [attempts[j] EXCEPT !.state = "stopping",
                                          !.intent = "stop_requested"]
               row == [old EXCEPT !.rv = @ + 1]
    <3>1. /\ old \in AttemptRow /\ old.state = "stopping"
          /\ old.digest = attempts[j].digest
      BY <1>0 DEF AttemptRow
    <3>2. attempts' = [attempts EXCEPT ![j] = row]
      BY <1>2, <2>2 DEF CancelDispatched, Update
    <3> HIDE DEF old
    <3>3. /\ row \in AttemptRow /\ row.state = "stopping"
          /\ row.digest = attempts[j].digest
      BY <3>1 DEF AttemptRow
    <3> HIDE DEF row
    <3> QED BY <1>2, <3>2, <3>3, DesireStep DEF CancelDispatched
  <2> QED BY <2>1, <2>2
<1>3. CASE CancelOrphaned(j)
  <2>1. CASE attempts[j].intent = "stop_requested"
    BY <1>0, <1>3, <2>1, DesireStep DEF CancelOrphaned
  <2>2. CASE attempts[j].intent # "stop_requested"
    <3> DEFINE old == [attempts[j] EXCEPT !.intent = "stop_requested"]
               row == [old EXCEPT !.rv = @ + 1]
    <3>1. /\ old \in AttemptRow /\ old.state = attempts[j].state
          /\ old.digest = attempts[j].digest
      BY <1>0 DEF AttemptRow
    <3>2. attempts' = [attempts EXCEPT ![j] = row]
      BY <1>3, <2>2 DEF CancelOrphaned, Update
    <3> HIDE DEF old
    <3>3. /\ row \in AttemptRow /\ row.state = attempts[j].state
          /\ row.digest = attempts[j].digest
      BY <3>1 DEF AttemptRow
    <3> HIDE DEF row
    <3> QED BY <1>3, <3>2, <3>3, DesireStep DEF CancelOrphaned
  <2> QED BY <2>1, <2>2
<1> QED BY <1>1, <1>2, <1>3 DEF RequestCancel

\* Recording and clearing a reconciliation failure.
LEMMA RecoveryConsistent ==
    ASSUME Consistent, NEW j \in Jobs,
           RecordReconciliationFailure(j) \/ ClearReconciliationFailure(j)
    PROVE  Consistent'
<1>1. attempts[j].recovery = 1 => Admitted(j)
  BY DEF Consistent, BlankRows, NoAttempt
<1> QED BY <1>1, RecoveryStep DEF RecordReconciliationFailure,
           ClearReconciliationFailure

\* A step that leaves the Registry alone.
LEMMA UnchangedConsistent ==
    ASSUME Consistent, UNCHANGED <<jobs, attempts, reservations, keys, artifacts>>,
           fence' \in BOOLEAN
    PROVE  Consistent'
BY DEF Consistent, TypeOK, BlankRows, RuntimeInvariants, ResolutionAgrees,
   CapacityAgrees, EvidenceRecorded, TerminalReservationTarget,
   KeysIdentifyJobs

\* Every transaction of the Registry preserves Consistent.
LEMMA TransactionConsistent == Consistent /\ [Transaction]_registryVars => Consistent'
<1> SUFFICES ASSUME Consistent, [Transaction]_registryVars PROVE Consistent'
  OBVIOUS
<1>1. CASE \E j \in Jobs, k \in Keys, op \in Operations, limit \in Limits :
              Submit(j, k, op, limit)
  BY <1>1, SubmitConsistent
<1>2. CASE AcquireFence \/ ReleaseFence \/ UNCHANGED registryVars
  BY <1>2, UnchangedConsistent DEF AcquireFence, ReleaseFence, registryVars,
     Consistent, TypeOK
<1>3. ASSUME NEW j \in Jobs, NEW v \in Nat,
             \/ MarkBundleReady(j, v)
             \/ MarkDispatchIssued(j, v)
             \/ \E o \in Owners : BindRunning(j, v, o) \/ BindSupervisorOwner(j, v, o)
             \/ \E d \in Digests, kinds \in SUBSET Kinds :
                   \/ \E state \in Terminal : CommitTerminal(j, v, state, d, kinds)
                   \/ \E state \in Conclusive :
                         RecoverOrphanedTerminal(j, v, state, d, kinds)
      PROVE  Consistent'
  BY <1>3, DispatchConsistent, BindConsistent, CommitTerminalConsistent,
     RecoverOrphanedTerminalConsistent
<1>4. ASSUME NEW j \in Jobs,
             \/ RequestDeadlineTermination(j)
             \/ \E d \in Digests : RequestCancel(j, d)
             \/ RecordReconciliationFailure(j)
             \/ ClearReconciliationFailure(j)
      PROVE  Consistent'
  BY <1>4, DeadlineConsistent, CancelConsistent, RecoveryConsistent
<1> QED BY <1>1, <1>2, <1>3, <1>4 DEF Transaction

\* The empty Registry is consistent.
LEMMA InitConsistent == Init => Consistent
<1> SUFFICES ASSUME Init PROVE Consistent
  OBVIOUS
<1>1. NoJob \in JobRow /\ NoAttempt \in AttemptRow /\ NoAttempt.state = None
  BY DEF NoJob, NoAttempt, JobRow, AttemptRow
<1>2. TypeOK
  BY <1>1 DEF Init, TypeOK
<1>3. \A j \in Jobs : ~Admitted(j)
  BY <1>1 DEF Init
<1>4. BlankRows /\ RuntimeInvariants /\ KeysIdentifyJobs
  BY <1>3 DEF Init, BlankRows, RuntimeInvariants, KeysIdentifyJobs
<1> QED BY <1>2, <1>4 DEF Consistent

\* The tables keep their shape, agree with each other (the seven conditions
\* of inspect_runtime_invariants_connection) and map one key to one Job, in
\* every reachable state of every Registry.
LEMMA AlwaysConsistent == Transactions => []Consistent
<1>1. Init => Consistent
  BY InitConsistent
<1>2. Consistent /\ [Transaction]_registryVars => Consistent'
  BY TransactionConsistent
<1> QED BY <1>1, <1>2, PTL DEF Transactions

-----------------------------------------------------------------------------
(* Capacity.  Only an admission enlarges the set of holders.               *)

\* Which methods write the tables a client can see: an admission, a
\* cancellation, a verdict; every other step leaves them as they are.
LEMMA VisibleSteps ==
    ASSUME [Transaction]_registryVars
    PROVE  \/ \E j \in Jobs, k \in Keys, op \in Operations, limit \in Limits :
                 Submit(j, k, op, limit)
           \/ \E j \in Jobs, v \in Nat, state \in Terminal, d \in Digests,
                kinds \in SUBSET Kinds :
                 \/ CommitTerminal(j, v, state, d, kinds)
                 \/ RecoverOrphanedTerminal(j, v, state, d, kinds)
           \/ \E j \in Jobs, d \in Digests : RequestCancel(j, d)
           \/ UNCHANGED <<jobs, reservations>>
<1>1. CASE UNCHANGED registryVars
  BY <1>1 DEF registryVars
<1>2. ASSUME NEW j \in Jobs, NEW v \in Nat,
             \/ MarkBundleReady(j, v) \/ MarkDispatchIssued(j, v)
             \/ \E o \in Owners : BindRunning(j, v, o) \/ BindSupervisorOwner(j, v, o)
      PROVE  UNCHANGED <<jobs, reservations>>
  BY <1>2 DEF MarkBundleReady, MarkDispatchIssued, BindRunning,
     BindSupervisorOwner
<1>3. ASSUME NEW j \in Jobs,
             \/ RequestDeadlineTermination(j)
             \/ RecordReconciliationFailure(j) \/ ClearReconciliationFailure(j)
      PROVE  UNCHANGED <<jobs, reservations>>
  BY <1>3 DEF RequestDeadlineTermination, RecordReconciliationFailure,
     ClearReconciliationFailure
<1>4. AcquireFence \/ ReleaseFence => UNCHANGED <<jobs, reservations>>
  BY DEF AcquireFence, ReleaseFence
<1> QED BY <1>1, <1>2, <1>3, <1>4 DEF Transaction

\* Only an admission adds a holder of capacity: cancellation, verdicts and
\* recovery keep or return it.
LEMMA HoldersShrink ==
    ASSUME Consistent, [Transaction]_registryVars,
           ~ \E j \in Jobs, k \in Keys, op \in Operations, limit \in Limits :
                 Submit(j, k, op, limit)
    PROVE  /\ Holders' \subseteq Holders
           /\ \A j \in Jobs : jobs'[j].op = jobs[j].op /\ jobs'[j].limit = jobs[j].limit
<1>0. jobs \in [Jobs -> JobRow] /\ reservations \in [Jobs -> Holding \cup {"released", None}]
  BY DEF Consistent, TypeOK
<1>1. ASSUME NEW j \in Jobs, NEW v \in Nat, NEW state \in Terminal,
             NEW d \in Digests, NEW kinds \in SUBSET Kinds,
             \/ CommitTerminal(j, v, state, d, kinds)
             \/ RecoverOrphanedTerminal(j, v, state, d, kinds)
      PROVE  /\ Holders' \subseteq Holders
             /\ \A i \in Jobs : jobs'[i].op = jobs[i].op /\ jobs'[i].limit = jobs[i].limit
  BY <1>0, <1>1 DEF CommitTerminal, RecoverOrphanedTerminal, ReleaseReservation,
     HoldOrphanedReservation, Holders, JobRow
<1>2. ASSUME NEW j \in Jobs, NEW d \in Digests, RequestCancel(j, d)
      PROVE  /\ Holders' \subseteq Holders
             /\ \A i \in Jobs : jobs'[i].op = jobs[i].op /\ jobs'[i].limit = jobs[i].limit
  BY <1>0, <1>2 DEF RequestCancel, CancelAccepted, CancelDispatched,
     CancelOrphaned, ReleaseReservation, Holders, JobRow
<1>3. CASE UNCHANGED <<jobs, reservations>>
  BY <1>3 DEF Holders
<1> QED BY <1>1, <1>2, <1>3, VisibleSteps

\* An admission adds exactly its own Job to the holders.
LEMMA SubmitHolders ==
    ASSUME Consistent, NEW j \in Jobs, NEW k \in Keys, NEW op \in Operations,
           NEW limit \in Limits, Submit(j, k, op, limit)
    PROVE  /\ Holders' = Holders \cup {j} /\ j \notin Holders
           /\ jobs'[j].op = op /\ jobs'[j].limit = limit
           /\ \A i \in Holders : /\ jobs'[i].op = jobs[i].op
                                 /\ jobs'[i].limit = jobs[i].limit
                                 /\ WorkspaceOf[jobs[i].op] # WorkspaceOf[op]
           /\ Cardinality(Holders) < limit
<1>1. reservations[j] = None
  BY DEF Submit, Consistent, BlankRows
<1>2. Holders' = Holders \cup {j} /\ j \notin Holders
  BY <1>1 DEF Submit, Holders, Consistent, TypeOK
<1>3. /\ jobs'[j].op = op /\ jobs'[j].limit = limit
      /\ \A i \in Holders : jobs'[i].op = jobs[i].op /\ jobs'[i].limit = jobs[i].limit
  BY <1>2 DEF Submit, Holders, Consistent, TypeOK, NoJob, JobRow
<1>4. IsFiniteSet(HoldersIn(WorkspaceOf[op]))
  BY FiniteAssumption, FS_Subset DEF HoldersIn, Holders
<1>5. HoldersIn(WorkspaceOf[op]) = {}
  BY <1>4, FS_EmptySet, FS_CardinalityType DEF Submit, WORKSPACE_EXECUTION_LIMIT
<1>6. \A i \in Holders : WorkspaceOf[jobs[i].op] # WorkspaceOf[op]
  BY <1>5 DEF HoldersIn
<1> QED BY <1>2, <1>3, <1>6 DEF Submit

\* Two Jobs never hold capacity in one Workspace, whatever is cancelled,
\* orphaned or recovered in between.
LEMMA AlwaysExclusive == Transactions => []WorkspaceExclusive
<1>1. Init => WorkspaceExclusive
  BY DEF Init, WorkspaceExclusive, Holders
<1>2. Consistent /\ WorkspaceExclusive /\ [Transaction]_registryVars => WorkspaceExclusive'
  <2> SUFFICES ASSUME Consistent, WorkspaceExclusive, [Transaction]_registryVars
               PROVE  WorkspaceExclusive'
    OBVIOUS
  <2>1. CASE \E j \in Jobs, k \in Keys, op \in Operations, limit \in Limits :
                Submit(j, k, op, limit)
    BY <2>1, SubmitHolders DEF WorkspaceExclusive
  <2>2. CASE ~ \E j \in Jobs, k \in Keys, op \in Operations, limit \in Limits :
                  Submit(j, k, op, limit)
    BY <2>2, HoldersShrink DEF WorkspaceExclusive, Holders
  <2> QED BY <2>1, <2>2
<1> QED BY <1>1, <1>2, AlwaysConsistent, PTL DEF Transactions

\* Every set of holders, and not only the whole set, has a member that was
\* admitted under a limit covering the set.  This is what survives a release:
\* the Job whose limit covered all holders may be the one that leaves.
Covered == \A H \in SUBSET Holders :
               H # {} => \E j \in H : Cardinality(H) <= jobs[j].limit

\* The holders of capacity never outnumber the greatest limit one of them was
\* admitted under.
LEMMA AlwaysCapacity == Transactions => []GlobalCapacity
<1>1. Init => Covered
  BY DEF Init, Covered, Holders
<1>2. Consistent /\ Covered /\ [Transaction]_registryVars => Covered'
  <2> SUFFICES ASSUME Consistent, Covered, [Transaction]_registryVars
               PROVE  Covered'
    OBVIOUS
  <2>1. ASSUME NEW j \in Jobs, NEW k \in Keys, NEW op \in Operations,
               NEW limit \in Limits, Submit(j, k, op, limit)
        PROVE  Covered'
    <3>1. /\ Holders' = Holders \cup {j} /\ j \notin Holders
          /\ jobs'[j].limit = limit
          /\ \A i \in Holders : jobs'[i].limit = jobs[i].limit
          /\ Cardinality(Holders) < limit
      BY <2>1, SubmitHolders
    <3>2. ASSUME NEW H \in SUBSET Holders', j \in H
          PROVE  Cardinality(H) <= jobs'[j].limit
      <4>1. IsFiniteSet(Holders) /\ IsFiniteSet(Holders')
        BY FiniteAssumption, FS_Subset DEF Holders
      <4>2. Cardinality(Holders') = Cardinality(Holders) + 1
        BY <3>1, <4>1, FS_AddElement
      <4>3. Cardinality(H) <= Cardinality(Holders') /\ Cardinality(H) \in Nat
        BY <4>1, FS_Subset, FS_CardinalityType
      <4>4. Cardinality(Holders) \in Nat
        BY <4>1, FS_CardinalityType
      <4> QED BY <3>1, <4>2, <4>3, <4>4, LimitAssumption
    <3>3. ASSUME NEW H \in SUBSET Holders', H # {}, j \notin H
          PROVE  \E i \in H : Cardinality(H) <= jobs'[i].limit
      <4>1. H \in SUBSET Holders
        BY <3>1, <3>3
      <4>2. PICK i \in H : Cardinality(H) <= jobs[i].limit
        BY <3>3, <4>1 DEF Covered
      <4> QED BY <3>1, <4>1, <4>2
    <3> QED BY <3>2, <3>3 DEF Covered
  <2>2. CASE ~ \E j \in Jobs, k \in Keys, op \in Operations, limit \in Limits :
                  Submit(j, k, op, limit)
    <3>1. Holders' \subseteq Holders /\ \A j \in Jobs : jobs'[j].limit = jobs[j].limit
      BY <2>2, HoldersShrink
    <3> QED BY <3>1 DEF Covered, Holders
  <2> QED BY <2>1, <2>2
<1>3. Covered => GlobalCapacity
  BY DEF Covered, GlobalCapacity
<1> QED BY <1>1, <1>2, <1>3, AlwaysConsistent, PTL DEF Transactions

-----------------------------------------------------------------------------
(* What a transaction may never do.                                        *)

\* An Attempt is stopping only on a committed intent, which is why an outer
\* deadline can no longer replace the intent of a stopping Attempt.
StoppingIntended ==
    \A j \in Jobs : attempts[j].state = "stopping" => attempts[j].intent # "natural"

\* How a transaction may rewrite an Attempt row under the next version.
Advance(old, new) ==
    /\ \/ old.state \in Nonterminal \ {"stopping"}
       \/ /\ old.state = "stopping" /\ new.intent = old.intent
          /\ new.state \in {"stopping"} \cup Terminal
       \/ old.state = "orphaned" /\ new.state \in {"orphaned"} \cup Conclusive
    /\ new.state = "stopping" => new.intent # "natural"
    /\ new.state = "accepted" => old.state = "accepted"
    /\ new.state # None

\* How any step changes an Attempt row: not at all, its insertion, its
\* recovery flag alone, or an advance under the next version.
RowChange(old, new) ==
    \/ new = old
    \/ old.state = None /\ new.state = "accepted"
    \/ \E f \in {0, 1} : new = [old EXCEPT !.recovery = f]
    \/ new.rv = old.rv + 1 /\ Advance(old, new)

\* The versioned update advances the row version by one.
LEMMA UpdateChange ==
    ASSUME TypeOK, NEW j \in Jobs, NEW row \in AttemptRow, Update(j, row),
           row.rv = attempts[j].rv, Advance(attempts[j], row)
    PROVE  \A i \in Jobs : RowChange(attempts[i], attempts'[i])
<1>1. /\ attempts'[j].rv = attempts[j].rv + 1
      /\ attempts'[j].state = row.state /\ attempts'[j].intent = row.intent
      /\ \A i \in Jobs \ {j} : attempts'[i] = attempts[i]
  BY DEF Update, TypeOK, AttemptRow
<1> QED BY <1>1 DEF RowChange, Advance

\* Every row of every step is kept, inserted, flagged or advanced by one of
\* the transitions RowChange lists.
LEMMA StepChange ==
    ASSUME Consistent, StoppingIntended, [Transaction]_registryVars
    PROVE  \A i \in Jobs : RowChange(attempts[i], attempts'[i])
<1>0. TypeOK /\ \A j \in Jobs : attempts[j] \in AttemptRow
  BY DEF Consistent, TypeOK
<1>1. ASSUME NEW j \in Jobs, NEW k \in Keys, NEW op \in Operations,
             NEW limit \in Limits, Submit(j, k, op, limit)
      PROVE  \A i \in Jobs : RowChange(attempts[i], attempts'[i])
  BY <1>0, <1>1 DEF Submit, RowChange, TypeOK, NoAttempt
<1>2. ASSUME UNCHANGED attempts
      PROVE  \A i \in Jobs : RowChange(attempts[i], attempts'[i])
  BY <1>2 DEF RowChange
<1>3. ASSUME NEW j \in Jobs, NEW v \in Nat,
             MarkBundleReady(j, v) \/ MarkDispatchIssued(j, v)
      PROVE  \A i \in Jobs : RowChange(attempts[i], attempts'[i])
  <2>1. CASE MarkBundleReady(j, v)
    <3> DEFINE row == [attempts[j] EXCEPT !.bundle = Bundle]
    <3>1. /\ row \in AttemptRow /\ row.rv = attempts[j].rv
          /\ row.state = "accepted"
      BY <1>0, <2>1 DEF AttemptRow, MarkBundleReady
    <3> QED BY <1>0, <2>1, <3>1, UpdateChange DEF MarkBundleReady, Advance
  <2>2. CASE MarkDispatchIssued(j, v)
    <3> DEFINE row == [attempts[j] EXCEPT !.state = "starting"]
    <3>1. /\ row \in AttemptRow /\ row.rv = attempts[j].rv
          /\ row.state = "starting"
      BY <1>0 DEF AttemptRow
    <3> QED BY <1>0, <2>2, <3>1, UpdateChange DEF MarkDispatchIssued, Advance
  <2> QED BY <1>3, <2>1, <2>2
<1>4. ASSUME NEW j \in Jobs, NEW v \in Nat, NEW o \in Owners,
             BindRunning(j, v, o) \/ BindSupervisorOwner(j, v, o)
      PROVE  \A i \in Jobs : RowChange(attempts[i], attempts'[i])
  <2>1. CASE BindRunning(j, v, o)
    <3> DEFINE row == [attempts[j] EXCEPT !.state = "running", !.owner = o]
    <3>1. /\ row \in AttemptRow /\ row.rv = attempts[j].rv
          /\ row.state = "running"
      BY <1>0 DEF AttemptRow
    <3> QED BY <1>0, <2>1, <3>1, UpdateChange DEF BindRunning, Advance
  <2>2. CASE BindSupervisorOwner(j, v, o)
    <3> DEFINE row == [attempts[j] EXCEPT
                          !.state = IF @ = "stopping" THEN "stopping" ELSE "running",
                          !.owner = o]
    <3>1. /\ row \in AttemptRow /\ row.rv = attempts[j].rv
          /\ row.intent = attempts[j].intent
          /\ row.state = IF attempts[j].state = "stopping" THEN "stopping" ELSE "running"
      BY <1>0 DEF AttemptRow
    <3>2. Update(j, row)
      BY <2>2 DEF BindSupervisorOwner
    <3> HIDE DEF row
    <3>3. Advance(attempts[j], row)
      BY <2>2, <3>1 DEF BindSupervisorOwner, Advance, StoppingIntended
    <3> QED BY <1>0, <3>1, <3>2, <3>3, UpdateChange
  <2> QED BY <1>4, <2>1, <2>2
<1>5. ASSUME NEW j \in Jobs, NEW v \in Nat, NEW state \in Terminal,
             NEW d \in Digests, NEW kinds \in SUBSET Kinds,
             \/ CommitTerminal(j, v, state, d, kinds)
             \/ RecoverOrphanedTerminal(j, v, state, d, kinds)
      PROVE  \A i \in Jobs : RowChange(attempts[i], attempts'[i])
  <2> DEFINE row == [attempts[j] EXCEPT !.state = state, !.digest = d]
  <2>1. /\ row \in AttemptRow /\ row.rv = attempts[j].rv
        /\ row.intent = attempts[j].intent /\ row.state = state
    BY <1>0 DEF AttemptRow
  <2>2. Update(j, row)
    BY <1>5 DEF CommitTerminal, RecoverOrphanedTerminal
  <2>3. Advance(attempts[j], row)
    BY <1>5, <2>1 DEF CommitTerminal, RecoverOrphanedTerminal, Advance
  <2> HIDE DEF row
  <2> QED BY <1>0, <2>1, <2>2, <2>3, UpdateChange
<1>6. ASSUME NEW j \in Jobs, RequestDeadlineTermination(j)
      PROVE  \A i \in Jobs : RowChange(attempts[i], attempts'[i])
  <2> DEFINE row == [attempts[j] EXCEPT !.state = "stopping",
                                        !.intent = "deadline_exceeded"]
  <2>1. /\ row \in AttemptRow /\ row.rv = attempts[j].rv
        /\ row.intent = "deadline_exceeded" /\ row.state = "stopping"
    BY <1>0 DEF AttemptRow
  <2>2. attempts[j].state # "stopping"
    BY <1>6 DEF RequestDeadlineTermination, StoppingIntended
  <2> QED BY <1>0, <1>6, <2>1, <2>2, UpdateChange DEF RequestDeadlineTermination, Advance
<1>7. ASSUME NEW j \in Jobs, NEW d \in Digests, RequestCancel(j, d)
      PROVE  \A i \in Jobs : RowChange(attempts[i], attempts'[i])
  <2>1. CASE CancelAccepted(j, d)
    <3> DEFINE row == [attempts[j] EXCEPT !.state = "cancelled",
                           !.intent = "stop_requested", !.digest = d]
    <3>1. /\ row \in AttemptRow /\ row.rv = attempts[j].rv
          /\ row.state = "cancelled"
      BY <1>0 DEF AttemptRow
    <3> QED BY <1>0, <2>1, <3>1, UpdateChange DEF CancelAccepted, Advance
  <2>2. CASE CancelDispatched(j) /\ attempts[j].state # "stopping"
    <3> DEFINE row == [attempts[j] EXCEPT !.state = "stopping",
                                          !.intent = "stop_requested"]
    <3>1. /\ row \in AttemptRow /\ row.rv = attempts[j].rv
          /\ row.intent = "stop_requested" /\ row.state = "stopping"
      BY <1>0 DEF AttemptRow
    <3> QED BY <1>0, <2>2, <3>1, UpdateChange DEF CancelDispatched, Advance
  <2>3. CASE CancelOrphaned(j) /\ attempts[j].intent # "stop_requested"
    <3> DEFINE row == [attempts[j] EXCEPT !.intent = "stop_requested"]
    <3>1. /\ row \in AttemptRow /\ row.rv = attempts[j].rv
          /\ row.state = attempts[j].state
      BY <1>0 DEF AttemptRow
    <3> QED BY <1>0, <2>3, <3>1, UpdateChange DEF CancelOrphaned, Advance
  <2>4. CASE UNCHANGED attempts
    BY <1>2, <2>4
  <2> QED BY <1>7, <2>1, <2>2, <2>3, <2>4 DEF RequestCancel, CancelDispatched,
          CancelOrphaned
<1>8. ASSUME NEW j \in Jobs,
             RecordReconciliationFailure(j) \/ ClearReconciliationFailure(j)
      PROVE  \A i \in Jobs : RowChange(attempts[i], attempts'[i])
  <2>1. PICK f \in {0, 1} : attempts' = [attempts EXCEPT ![j].recovery = f]
    BY <1>8 DEF RecordReconciliationFailure, ClearReconciliationFailure
  <2>2. /\ attempts'[j] = [attempts[j] EXCEPT !.recovery = f]
        /\ \A i \in Jobs \ {j} : attempts'[i] = attempts[i]
    BY <1>0, <2>1 DEF TypeOK
  <2> QED BY <2>2 DEF RowChange
<1>9. AcquireFence \/ ReleaseFence \/ UNCHANGED registryVars => UNCHANGED attempts
  BY DEF AcquireFence, ReleaseFence, registryVars
<1> QED BY <1>1, <1>2, <1>3, <1>4, <1>5, <1>6, <1>7, <1>8, <1>9 DEF Transaction

\* No transaction stops an Attempt without an intent.
LEMMA StoppingStep ==
    Consistent /\ StoppingIntended /\ [Transaction]_registryVars => StoppingIntended'
<1> SUFFICES ASSUME Consistent, StoppingIntended, [Transaction]_registryVars,
                    NEW j \in Jobs, attempts'[j].state = "stopping"
             PROVE  attempts'[j].intent # "natural"
  BY DEF StoppingIntended
<1>1. RowChange(attempts[j], attempts'[j]) /\ attempts[j] \in AttemptRow
  BY StepChange DEF Consistent, TypeOK
<1> QED BY <1>1 DEF RowChange, Advance, StoppingIntended, AttemptRow

\* Nothing is stopped without an intent in the empty Registry.
LEMMA InitStopping == Init => StoppingIntended
BY DEF Init, StoppingIntended, NoAttempt

\* The invariant the action properties rest on.
LEMMA StoppingInvariant == Transactions => []StoppingIntended
BY InitStopping, StoppingStep, AlwaysConsistent, PTL DEF Transactions

\* Conclusive verdicts, their evidence and the returned capacity are final.
LEMMA AlwaysVerdictFinal == Transactions => VerdictFinal
<1>1. Consistent /\ Consistent' /\ StoppingIntended /\ [Transaction]_registryVars =>
        [\A j \in Jobs :
            /\ attempts[j].state \in Conclusive =>
                  /\ attempts'[j].state = attempts[j].state
                  /\ attempts'[j].digest = attempts[j].digest
                  /\ reservations'[j] = "released"
            /\ attempts[j].state = "orphaned" =>
                  attempts'[j].state \in Conclusive \cup {"orphaned"}]_registryVars
  <2> SUFFICES ASSUME Consistent, Consistent', StoppingIntended,
                      [Transaction]_registryVars, NEW j \in Jobs
               PROVE  /\ attempts[j].state \in Conclusive =>
                            /\ attempts'[j].state = attempts[j].state
                            /\ attempts'[j].digest = attempts[j].digest
                            /\ reservations'[j] = "released"
                      /\ attempts[j].state = "orphaned" =>
                            attempts'[j].state \in Conclusive \cup {"orphaned"}
    OBVIOUS
  <2>1. RowChange(attempts[j], attempts'[j]) /\ attempts[j] \in AttemptRow
    BY StepChange DEF Consistent, TypeOK
  <2>2. attempts[j].state \in Conclusive =>
            /\ attempts'[j].state = attempts[j].state
            /\ attempts'[j].digest = attempts[j].digest
    BY <2>1 DEF RowChange, Advance, AttemptRow
  <2>3. attempts[j].state \in Conclusive => reservations'[j] = "released"
    BY <2>2 DEF Consistent, RuntimeInvariants, CapacityAgrees,
       TerminalReservationTarget
  <2>4. attempts[j].state = "orphaned" =>
            attempts'[j].state \in Conclusive \cup {"orphaned"}
    BY <2>1 DEF RowChange, Advance, AttemptRow
  <2> QED BY <2>2, <2>3, <2>4
<1> QED BY <1>1, AlwaysConsistent, StoppingInvariant, PTL DEF Transactions, VerdictFinal

\* A committed stop survives binding, deadline and a second cancellation.
LEMMA AlwaysStopIsCommitted == Transactions => StopIsCommitted
<1>1. Consistent /\ StoppingIntended /\ [Transaction]_registryVars =>
        [\A j \in Jobs : attempts[j].state = "stopping" =>
            /\ attempts'[j].state \in {"stopping"} \cup Terminal
            /\ attempts'[j].intent = attempts[j].intent]_registryVars
  <2> SUFFICES ASSUME Consistent, StoppingIntended, [Transaction]_registryVars,
                      NEW j \in Jobs, attempts[j].state = "stopping"
               PROVE  /\ attempts'[j].state \in {"stopping"} \cup Terminal
                      /\ attempts'[j].intent = attempts[j].intent
    OBVIOUS
  <2>1. RowChange(attempts[j], attempts'[j]) /\ attempts[j] \in AttemptRow
    BY StepChange DEF Consistent, TypeOK
  <2> QED BY <2>1 DEF RowChange, Advance, AttemptRow
<1> QED BY <1>1, AlwaysConsistent, StoppingInvariant, PTL DEF Transactions, StopIsCommitted

\* Nothing a writer decides on changes without the row version.
LEMMA AlwaysRowVersionGuards == Transactions => RowVersionGuards
<1> DEFINE Decided(row) == [row EXCEPT !.recovery = 0, !.rv = 0]
<1>1. Consistent /\ StoppingIntended /\ [Transaction]_registryVars =>
        [\A j \in Jobs :
            Admitted(j) /\ Decided(attempts'[j]) # Decided(attempts[j])
              => attempts'[j].rv = attempts[j].rv + 1]_registryVars
  <2> SUFFICES ASSUME Consistent, StoppingIntended, [Transaction]_registryVars,
                      NEW j \in Jobs, Admitted(j),
                      Decided(attempts'[j]) # Decided(attempts[j])
               PROVE  attempts'[j].rv = attempts[j].rv + 1
    OBVIOUS
  <2>1. RowChange(attempts[j], attempts'[j]) /\ attempts[j] \in AttemptRow
    BY StepChange DEF Consistent, TypeOK
  <2>2. ASSUME NEW f \in {0, 1}, attempts'[j] = [attempts[j] EXCEPT !.recovery = f]
        PROVE  Decided(attempts'[j]) = Decided(attempts[j])
    BY <2>1, <2>2 DEF AttemptRow
  <2> HIDE DEF Decided
  <2> QED BY <2>1, <2>2 DEF RowChange
<1> QED BY <1>1, AlwaysConsistent, StoppingInvariant, PTL DEF Transactions, RowVersionGuards

-----------------------------------------------------------------------------
(* Refinement of the client contract.                                      *)

\* While capacity is held the client sees no conclusive verdict.
LEMMA OccupiesIffHolds ==
    ASSUME Consistent, NEW j \in Jobs
    PROVE  Admitted(j) /\ VerdictOf(j) \in {None, "orphaned"} <=> j \in Holders
BY DEF Consistent, TypeOK, BlankRows, RuntimeInvariants, CapacityAgrees,
   ResolutionAgrees, TerminalReservationTarget, VerdictOf, Holders, AttemptRow

\* The empty Registry maps to the initial state of the contract.
LEMMA InitContract == Init => Contract!Init
BY DEF Init, Contract!Init, PlaceOf, VerdictOf, NoAttempt

\* A Job has an Attempt exactly when it has a reservation.
LEMMA AdmittedIffReserved ==
    ASSUME NEW j \in Jobs
    PROVE  /\ Consistent => (Admitted(j) <=> reservations[j] # None)
           /\ Consistent' => (Admitted(j)' <=> reservations'[j] # None)
BY DEF Consistent, TypeOK, BlankRows, RuntimeInvariants, CapacityAgrees,
   TerminalReservationTarget

\* A step that rewrites the reservation and Job row of one admitted Job moves
\* no Job to another Workspace and changes at most that Job's verdict.
LEMMA ViewStep ==
    ASSUME Consistent, Consistent', NEW j \in Jobs,
           \A i \in Jobs \ {j} : jobs'[i] = jobs[i] /\ reservations'[i] = reservations[i],
           jobs'[j].op = jobs[j].op, reservations[j] # None, reservations'[j] # None
    PROVE  /\ [i \in Jobs |-> PlaceOf(i)]' = [i \in Jobs |-> PlaceOf(i)]
           /\ [i \in Jobs |-> VerdictOf(i)]' =
                 [[i \in Jobs |-> VerdictOf(i)] EXCEPT ![j] = VerdictOf(j)']
<1>1. \A i \in Jobs : Admitted(i)' <=> Admitted(i)
  <2>1. \A i \in Jobs : /\ Admitted(i) <=> reservations[i] # None
                        /\ Admitted(i)' <=> reservations'[i] # None
    BY AdmittedIffReserved
  <2> QED BY <2>1
<1>2. \A i \in Jobs : PlaceOf(i)' = PlaceOf(i)
  BY <1>1 DEF PlaceOf
<1>3. \A i \in Jobs \ {j} : VerdictOf(i)' = VerdictOf(i)
  BY DEF VerdictOf
<1> QED BY <1>2, <1>3

\* Storing a verdict is a Suspect or a Conclude of the contract, or nothing a
\* client sees.
LEMMA VerdictContract ==
    ASSUME Consistent, Consistent', NEW j \in Jobs, NEW state \in Terminal,
           \A i \in Jobs \ {j} : jobs'[i] = jobs[i] /\ reservations'[i] = reservations[i],
           jobs'[j].op = jobs[j].op, jobs'[j].resolution = state,
           reservations[j] \in Holding,
           IF state = "orphaned"
             THEN reservations[j] = "active" /\ reservations'[j] = "held_orphaned"
             ELSE reservations'[j] = "released"
    PROVE  Contract!Next
<1> DEFINE place == [i \in Jobs |-> PlaceOf(i)]
           verdict == [i \in Jobs |-> VerdictOf(i)]
<1>1. place' = place /\ verdict' = [verdict EXCEPT ![j] = VerdictOf(j)']
  BY ViewStep
<1>2. VerdictOf(j)' = state
  BY DEF VerdictOf
<1>3. Admitted(j) /\ PlaceOf(j) # None
  BY AdmittedIffReserved, WorkspaceAssumption DEF PlaceOf, Consistent, TypeOK,
     KeysIdentifyJobs, JobRow
<1>4. CASE state = "orphaned"
  <2>1. VerdictOf(j) = None
    BY <1>4 DEF VerdictOf
  <2>2. Contract!Suspect(j)
    BY <1>1, <1>2, <1>3, <1>4, <2>1 DEF Contract!Suspect
  <2> QED BY <2>2 DEF Contract!Next
<1>5. CASE state # "orphaned"
  <2>1. VerdictOf(j) \in {None, "orphaned"}
    BY DEF VerdictOf
  <2>2. Contract!Conclude(j, state)
    BY <1>1, <1>2, <1>3, <2>1 DEF Contract!Conclude, Contract!Occupies
  <2>3. state \in Conclusive
    BY <1>5
  <2> QED BY <2>2, <2>3 DEF Contract!Next
<1> QED BY <1>4, <1>5

\* Every transaction maps to a step of the contract or to a stutter.
LEMMA NextContract ==
    ASSUME Consistent, Consistent', [Transaction]_registryVars
    PROVE  [Contract!Next]_(Contract!contractVars)
<1> DEFINE place == [i \in Jobs |-> PlaceOf(i)]
           verdict == [i \in Jobs |-> VerdictOf(i)]
<1>0. jobs \in [Jobs -> JobRow] /\ reservations \in [Jobs -> Holding \cup {"released", None}]
  BY DEF Consistent, TypeOK
<1>1. ASSUME NEW j \in Jobs, NEW k \in Keys, NEW op \in Operations,
             NEW limit \in Limits, Submit(j, k, op, limit)
      PROVE  Contract!Next
  <2>0. WorkspaceOf[op] \in Workspaces
    BY WorkspaceAssumption
  <2>1. ~Admitted(j) /\ place[j] = None /\ reservations[j] = None
    BY <1>1, AdmittedIffReserved DEF Submit, PlaceOf
  <2>2. \A i \in Jobs : place[i] # None /\ verdict[i] \in {None, "orphaned"}
                            => place[i] # WorkspaceOf[op]
    <3> SUFFICES ASSUME NEW i \in Jobs, place[i] # None,
                        verdict[i] \in {None, "orphaned"}
                 PROVE  place[i] # WorkspaceOf[op]
      OBVIOUS
    <3>1. Admitted(i)
      BY DEF PlaceOf
    <3>2. i \in Holders
      BY <3>1, OccupiesIffHolds
    <3> QED BY <1>1, <3>1, <3>2, SubmitHolders DEF PlaceOf
  <2>3. \A i \in Jobs : PlaceOf(i)' = IF i = j THEN WorkspaceOf[op] ELSE PlaceOf(i)
    <3>1. /\ attempts'[j].state = "accepted" /\ jobs'[j].op = op
          /\ \A i \in Jobs \ {j} : attempts'[i] = attempts[i] /\ jobs'[i] = jobs[i]
      BY <1>1 DEF Submit, NoAttempt, NoJob, Consistent, TypeOK
    <3> QED BY <3>1 DEF PlaceOf
  <2>4. \A i \in Jobs : VerdictOf(i)' = VerdictOf(i)
    <3>1. /\ reservations'[j] = "active"
          /\ \A i \in Jobs \ {j} : /\ reservations'[i] = reservations[i]
                                   /\ jobs'[i] = jobs[i]
      BY <1>0, <1>1 DEF Submit
    <3> QED BY <2>1, <3>1 DEF VerdictOf
  <2>5. Contract!Admit(j, WorkspaceOf[op])
    BY <2>1, <2>2, <2>3, <2>4 DEF Contract!Admit, Contract!Occupies
  <2> QED BY <2>0, <2>5 DEF Contract!Next
<1>2. ASSUME NEW j \in Jobs, NEW v \in Nat, NEW state \in Terminal,
             NEW d \in Digests, NEW kinds \in SUBSET Kinds,
             CommitTerminal(j, v, state, d, kinds)
      PROVE  Contract!Next
  <2>1. reservations[j] = "active"
    BY <1>2 DEF CommitTerminal, Consistent, RuntimeInvariants, CapacityAgrees
  <2>2. /\ jobs'[j].op = jobs[j].op /\ jobs'[j].resolution = state
        /\ \A i \in Jobs \ {j} : jobs'[i] = jobs[i]
    BY <1>0, <1>2 DEF CommitTerminal, JobRow
  <2>3. /\ reservations'[j] = IF state = "orphaned" THEN "held_orphaned" ELSE "released"
        /\ \A i \in Jobs \ {j} : reservations'[i] = reservations[i]
    BY <1>0, <1>2 DEF CommitTerminal, HoldOrphanedReservation, ReleaseReservation
  <2> QED BY <2>1, <2>2, <2>3, VerdictContract
<1>3. ASSUME NEW j \in Jobs, NEW v \in Nat, NEW state \in Terminal,
             NEW d \in Digests, NEW kinds \in SUBSET Kinds,
             RecoverOrphanedTerminal(j, v, state, d, kinds)
      PROVE  Contract!Next
  <2>1. /\ jobs'[j].op = jobs[j].op /\ jobs'[j].resolution = state
        /\ \A i \in Jobs \ {j} : jobs'[i] = jobs[i]
    BY <1>0, <1>3 DEF RecoverOrphanedTerminal, JobRow
  <2>2. /\ reservations[j] = "held_orphaned" /\ reservations'[j] = "released"
        /\ state # "orphaned"
        /\ \A i \in Jobs \ {j} : reservations'[i] = reservations[i]
    BY <1>0, <1>3 DEF RecoverOrphanedTerminal, ReleaseReservation
  <2> QED BY <2>1, <2>2, VerdictContract
<1>4. ASSUME NEW j \in Jobs, NEW d \in Digests, CancelAccepted(j, d)
      PROVE  Contract!Next
  <2>1. /\ jobs'[j].op = jobs[j].op /\ jobs'[j].resolution = "cancelled"
        /\ \A i \in Jobs \ {j} : jobs'[i] = jobs[i]
    BY <1>0, <1>4 DEF CancelAccepted, JobRow
  <2>2. reservations[j] = "active"
    BY <1>4 DEF CancelAccepted, Consistent, RuntimeInvariants, CapacityAgrees
  <2>3. /\ reservations'[j] = "released"
        /\ \A i \in Jobs \ {j} : reservations'[i] = reservations[i]
    BY <1>0, <1>4 DEF CancelAccepted, ReleaseReservation
  <2> QED BY <2>1, <2>2, <2>3, VerdictContract
<1>5. ASSUME UNCHANGED reservations,
             \A i \in Jobs : /\ jobs'[i].op = jobs[i].op
                             /\ jobs'[i].resolution = jobs[i].resolution
      PROVE  UNCHANGED Contract!contractVars
  <2>1. \A i \in Jobs : Admitted(i)' <=> Admitted(i)
    <3>1. \A i \in Jobs : /\ Admitted(i) <=> reservations[i] # None
                          /\ Admitted(i)' <=> reservations'[i] # None
      BY AdmittedIffReserved
    <3> QED BY <1>5, <3>1
  <2>2. \A i \in Jobs : PlaceOf(i)' = PlaceOf(i) /\ VerdictOf(i)' = VerdictOf(i)
    BY <1>5, <2>1 DEF PlaceOf, VerdictOf
  <2> QED BY <2>2 DEF Contract!contractVars
<1>6. ASSUME NEW j \in Jobs, CancelDispatched(j) \/ CancelOrphaned(j)
      PROVE  /\ UNCHANGED reservations
             /\ \A i \in Jobs : /\ jobs'[i].op = jobs[i].op
                                /\ jobs'[i].resolution = jobs[i].resolution
  BY <1>0, <1>6 DEF CancelDispatched, CancelOrphaned, JobRow
<1>7. CASE UNCHANGED <<jobs, reservations>>
  BY <1>5, <1>7
<1> QED BY <1>1, <1>2, <1>3, <1>4, <1>5, <1>6, <1>7, VisibleSteps DEF RequestCancel

\* The Registry implements the contract its clients rely on.
LEMMA AlwaysImplementsContract == Transactions => ImplementsContract
<1>1. Init => Contract!Init
  BY InitContract
<1>2. Consistent /\ Consistent' /\ [Transaction]_registryVars =>
          [Contract!Next]_(Contract!contractVars)
  BY NextContract
<1> QED BY <1>1, <1>2, AlwaysConsistent, PTL DEF Transactions, ImplementsContract, Contract!Spec

-----------------------------------------------------------------------------
(* The theorems about the Registry itself: its own next-state relation is  *)
(* a Transaction, so whatever every sequence of transactions keeps, Spec   *)
(* keeps.                                                                  *)

\* Every step of the Registry is a transaction.
LEMMA SpecTransacts == Spec => Transactions
<1>1. [Next]_registryVars => [Transaction]_registryVars
  BY VersionAssumption DEF Next, Transaction
<1> QED BY <1>1, PTL DEF Spec, Transactions

\* The tables keep their shape, agree with each other (the seven conditions
\* of inspect_runtime_invariants_connection) and map one key to one Job, in
\* every reachable state of every Registry.
THEOREM RegistryConsistent == Spec => []Consistent
BY SpecTransacts, AlwaysConsistent, PTL

\* Type correctness of the Registry.
THEOREM RegistryTyped == Spec => []TypeOK
BY RegistryConsistent, PTL DEF Consistent

\* Doctor's seven conditions hold after every transaction.
THEOREM RegistryAgrees == Spec => []RuntimeInvariants
BY RegistryConsistent, PTL DEF Consistent

\* One request is one Job, however often it is replayed.
THEOREM RegistryIdempotent == Spec => []KeysIdentifyJobs
BY RegistryConsistent, PTL DEF Consistent

\* Two Jobs never hold capacity in one Workspace, whatever is cancelled,
\* orphaned or recovered in between (WORKSPACE_EXECUTION_LIMIT).
THEOREM RegistryExclusive == Spec => []WorkspaceExclusive
BY SpecTransacts, AlwaysExclusive, PTL

\* The holders of capacity never outnumber the greatest global_limit recorded
\* for one of them at its admission (submit_preallocated).
THEOREM RegistryCapacity == Spec => []GlobalCapacity
BY SpecTransacts, AlwaysCapacity, PTL

\* Conclusive verdicts, their evidence and the returned capacity are final.
THEOREM RegistryVerdictFinal == Spec => VerdictFinal
BY SpecTransacts, AlwaysVerdictFinal, PTL

\* A committed stop survives binding, deadline and a second cancellation.
THEOREM RegistryStopIsCommitted == Spec => StopIsCommitted
BY SpecTransacts, AlwaysStopIsCommitted, PTL

\* Nothing a writer decides on changes without the row version.
THEOREM RegistryRowVersionGuards == Spec => RowVersionGuards
BY SpecTransacts, AlwaysRowVersionGuards, PTL

\* The Registry implements the contract its clients rely on.
THEOREM RegistryImplementsContract == Spec => ImplementsContract
BY SpecTransacts, AlwaysImplementsContract, PTL
=============================================================================
