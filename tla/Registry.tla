------------------------------ MODULE Registry ------------------------------
(***************************************************************************)
(* The Runtime Registry: the SQLite database that owns the durable truth   *)
(* about Jobs, Attempts, idempotency keys, concurrency reservations and    *)
(* Artifact registrations (runtime/registry.rs and runtime/registry/).     *)
(*                                                                         *)
(* Every mutating method of the Rust type Registry opens one IMMEDIATE     *)
(* transaction, so each is one atomic action here.  A method that returns  *)
(* an error rolls back: it changes nothing and is a stuttering step, which *)
(* is why only the successful outcome of a method is an action.  Methods   *)
(* that compare the row version take the expected version v as a           *)
(* parameter; the caller holds it from an earlier read.                    *)
(*                                                                         *)
(* A Job owns exactly one Attempt and one reservation (attempt_number is   *)
(* always 1), so the three tables share the index set Jobs; the rows stay  *)
(* separate because the code updates them separately.  The limit a Job was *)
(* admitted under is a column of its reservation (global_limit); as it is  *)
(* written once, it is kept in the Job's row.                              *)
(***************************************************************************)
EXTENDS Identities, Naturals, FiniteSets

CONSTANTS
    Keys,         \* (principal, client_request_id) pairs
    Operations,   \* request identities; two requests agree iff these are equal
    Workspaces,
    WorkspaceOf,  \* the Workspace a request's plan names
    Limits,       \* the values of request.global_limit that clients send
    Owners,       \* Runner identities and Windows supervisor owners
    Digests,      \* digests of terminal evidence files
    Kinds,        \* Artifact kinds; an Artifact id is <<attempt, kind>>
    RowVersions   \* BOUND: the row versions a caller may present

ASSUME WorkspaceAssumption == WorkspaceOf \in [Operations -> Workspaces]
ASSUME LimitAssumption == Limits \subseteq Nat \ {0}
ASSUME VersionAssumption == RowVersions \subseteq Nat
ASSUME FiniteAssumption == IsFiniteSet(Jobs)

VARIABLES
    jobs,          \* table jobs
    attempts,      \* table attempts (with attempt_supervisor_owners)
    reservations,  \* table concurrency_reservations
    keys,          \* table idempotency_keys
    artifacts,     \* table artifacts
    fence          \* who holds the admission fence exclusively, if anyone

registryVars == <<jobs, attempts, reservations, keys, artifacts, fence>>

-----------------------------------------------------------------------------
(* Vocabulary of the tables.                                               *)

WORKSPACE_EXECUTION_LIMIT == 1

Conclusive == {"succeeded", "failed", "timed_out", "cancelled", "lost"}
Terminal == Conclusive \cup {"orphaned"}
Dispatched == {"starting", "running", "stopping", "recovering"}
Nonterminal == {"accepted"} \cup Dispatched
AttemptStates == Nonterminal \cup Terminal
Intents == {"natural", "stop_requested", "deadline_exceeded"}
\* A reservation that counts against the concurrency limits.
Holding == {"active", "held_orphaned"}

ASSUME NoneAssumption ==
    /\ None \notin Jobs /\ None \notin Keys /\ None \notin Operations
    /\ None \notin Owners /\ None \notin Digests /\ None \notin Workspaces
    /\ None \notin AttemptStates \cup Holding \cup {"released", "bundle"}

\* AttemptState::can_transition_to.
CanTransition(from, to) ==
    \/ from = "accepted" /\ to \in {"starting", "cancelled", "failed", "lost", "orphaned"}
    \/ from = "starting" /\ to \in {"running", "recovering"} \cup Terminal
    \/ from = "running" /\ to \in {"stopping", "recovering"} \cup Terminal
    \/ from = "stopping" /\ to \in {"recovering"} \cup Terminal
    \/ from = "recovering" /\ to \in {"starting", "running", "stopping"} \cup Terminal

\* The digest of the one execution bundle an Attempt may bind.
Bundle == "bundle"

JobRow ==
    [key: Keys \cup {None}, op: Operations \cup {None},
     limit: Limits \cup {0}, desired: {"run", "cancelled"},
     resolution: Terminal \cup {None}, current: Jobs \cup {None}]

AttemptRow ==
    [state: AttemptStates \cup {None}, intent: Intents, bundle: {Bundle, None},
     owner: Owners \cup {None}, digest: Digests \cup {None}, rv: Nat,
     recovery: {0, 1}]

\* A row that has not been inserted: its Attempt has no state.
NoJob == [key |-> None, op |-> None, limit |-> 0, desired |-> "run",
          resolution |-> None, current |-> None]
NoAttempt == [state |-> None, intent |-> "natural", bundle |-> None,
              owner |-> None, digest |-> None, rv |-> 0, recovery |-> 0]

Admitted(j) == attempts[j].state # None
IsTerminal(j) == attempts[j].state \in Terminal
Holders == {j \in Jobs : reservations[j] \in Holding}
\* Mutation: held orphans are not counted.
HoldersInActiveOnly(w) ==
    {j \in Jobs : reservations[j] = "active" /\ WorkspaceOf[jobs[j].op] = w}

HoldersIn(w) == {j \in Holders : WorkspaceOf[jobs[j].op] = w}

Init ==
    /\ jobs = [j \in Jobs |-> NoJob]
    /\ attempts = [j \in Jobs |-> NoAttempt]
    /\ reservations = [j \in Jobs |-> None]
    /\ keys = [k \in Keys |-> None]
    /\ artifacts = {}
    /\ fence = FALSE

-----------------------------------------------------------------------------
(* Admission.                                                              *)

\* Mutations: no look-up of the key; the limit itself is still admitted.
SubmitInserted(j, k, op, limit) ==
    /\ ~Admitted(j)
    /\ ~fence
    /\ Cardinality(HoldersIn(WorkspaceOf[op])) < WORKSPACE_EXECUTION_LIMIT
    /\ jobs' = [jobs EXCEPT ![j] =
                   [NoJob EXCEPT !.key = k, !.op = op, !.limit = limit, !.current = j]]
    /\ attempts' = [attempts EXCEPT ![j] = [NoAttempt EXCEPT !.state = "accepted"]]
    /\ keys' = [keys EXCEPT ![k] = j]
    /\ reservations' = [reservations EXCEPT ![j] = "active"]
    /\ UNCHANGED <<artifacts, fence>>
SubmitWithoutReplay(j, k, op, limit) ==
    Cardinality(Holders) < limit /\ SubmitInserted(j, k, op, limit)
SubmitOneTooMany(j, k, op, limit) ==
    keys[k] = None /\ Cardinality(Holders) <= limit /\ SubmitInserted(j, k, op, limit)

\* submit_preallocated: an exact replay of a committed key returns the
\* existing Job before the fence is consulted, and a different request under
\* that key is a conflict; neither writes.  A new key is admitted only while
\* no deployment holds the fence and both capacity counts are below their
\* limits.  The five rows are inserted together.
Submit(j, k, op, limit) ==
    /\ ~Admitted(j)
    /\ keys[k] = None
    /\ ~fence
    /\ Cardinality(HoldersIn(WorkspaceOf[op])) < WORKSPACE_EXECUTION_LIMIT
    /\ Cardinality(Holders) < limit
    /\ jobs' = [jobs EXCEPT ![j] =
                   [NoJob EXCEPT !.key = k, !.op = op, !.limit = limit, !.current = j]]
    /\ attempts' = [attempts EXCEPT ![j] = [NoAttempt EXCEPT !.state = "accepted"]]
    /\ keys' = [keys EXCEPT ![k] = j]
    /\ reservations' = [reservations EXCEPT ![j] = "active"]
    /\ UNCHANGED <<artifacts, fence>>

\* find_idempotent_job: the Job a request resolves to when its key is
\* already committed to the same request identity.
IdempotentJob(k, op) ==
    IF keys[k] # None /\ jobs[keys[k]].op = op THEN keys[k] ELSE None

\* acquire_admission_fence takes the fence shared for the length of the
\* admission transaction; deployment and cache eviction take it exclusively.
AcquireFence ==
    /\ ~fence
    /\ fence' = TRUE
    /\ UNCHANGED <<jobs, attempts, reservations, keys, artifacts>>

ReleaseFence ==
    /\ fence
    /\ fence' = FALSE
    /\ UNCHANGED <<jobs, attempts, reservations, keys, artifacts>>

-----------------------------------------------------------------------------
(* Dispatch and binding.                                                   *)

\* The row update shared by the versioned methods: a new Attempt row under
\* the next row version.
Update(j, row) ==
    attempts' = [attempts EXCEPT ![j] = [row EXCEPT !.rv = @ + 1]]

MarkBundleReady(j, v) ==
    /\ attempts[j].state = "accepted"
    /\ attempts[j].rv = v
    /\ Update(j, [attempts[j] EXCEPT !.bundle = Bundle])
    /\ UNCHANGED <<jobs, reservations, keys, artifacts, fence>>

MarkDispatchIssued(j, v) ==
    /\ attempts[j].state = "accepted"
    /\ attempts[j].rv = v
    /\ attempts[j].bundle # None
    /\ Update(j, [attempts[j] EXCEPT !.state = "starting"])
    /\ UNCHANGED <<jobs, reservations, keys, artifacts, fence>>

\* bind_running: the same identity replays without a write.
BindRunning(j, v, o) ==
    /\ attempts[j].owner # o
    /\ attempts[j].state \in {"starting", "recovering"}
    /\ attempts[j].rv = v
    /\ Update(j, [attempts[j] EXCEPT !.state = "running", !.owner = o])
    /\ UNCHANGED <<jobs, reservations, keys, artifacts, fence>>

\* Mutation: binding forgets a committed stop.
BindSupervisorOwnerRunning(j, v, o) ==
    /\ attempts[j].owner = None
    /\ attempts[j].state \in {"starting", "recovering", "stopping"}
    /\ attempts[j].rv = v
    /\ Update(j, [attempts[j] EXCEPT !.state = "running", !.owner = o])
    /\ UNCHANGED <<jobs, reservations, keys, artifacts, fence>>

\* bind_supervisor_owner: one owner per Attempt, and a committed stop
\* survives the binding.
BindSupervisorOwner(j, v, o) ==
    /\ attempts[j].owner = None
    /\ attempts[j].state \in {"starting", "recovering", "stopping"}
    /\ attempts[j].rv = v
    /\ Update(j, [attempts[j] EXCEPT
                     !.state = IF @ = "stopping" THEN "stopping" ELSE "running",
                     !.owner = o])
    /\ UNCHANGED <<jobs, reservations, keys, artifacts, fence>>

-----------------------------------------------------------------------------
(* The reservation helpers.  Releasing twice is accepted; a released slot  *)
(* is never held again.                                                    *)

ReleaseReservation(j) ==
    /\ reservations[j] \in Holding \cup {"released"}
    /\ reservations' = [reservations EXCEPT ![j] = "released"]

HoldOrphanedReservation(j) ==
    /\ reservations[j] \in Holding
    /\ reservations' = [reservations EXCEPT ![j] = "held_orphaned"]

-----------------------------------------------------------------------------
(* Termination intent.                                                     *)

\* request_deadline_termination: the first intent wins; a Job whose
\* cancellation is desired is left to it.
RequestDeadlineTermination(j) ==
    /\ attempts[j].state \in Dispatched
    /\ attempts[j].intent = "natural"
    /\ jobs[j].desired # "cancelled"
    /\ jobs[j].resolution = None
    /\ Update(j, [attempts[j] EXCEPT !.state = "stopping",
                                     !.intent = "deadline_exceeded"])
    /\ UNCHANGED <<jobs, reservations, keys, artifacts, fence>>

\* Mutation: the Job is resolved with the state the Attempt had.
CancelAcceptedStale(j, d) ==
    /\ jobs[j].resolution = None /\ jobs[j].current = j
    /\ attempts[j].state = "accepted"
    /\ jobs' = [jobs EXCEPT ![j].desired = "cancelled", ![j].current = None,
                            ![j].resolution = attempts[j].state]
    /\ Update(j, [attempts[j] EXCEPT !.state = "cancelled",
                                     !.intent = "stop_requested", !.digest = d])
    /\ ReleaseReservation(j)
    /\ UNCHANGED <<keys, artifacts, fence>>

\* The three outcomes of request_cancel that write.  Before dispatch the
\* cancellation is itself the terminal result.
CancelAccepted(j, d) ==
    /\ jobs[j].resolution = None /\ jobs[j].current = j
    /\ attempts[j].state = "accepted"
    /\ jobs' = [jobs EXCEPT ![j].desired = "cancelled",
                            ![j].resolution = "cancelled",
                            ![j].current = None]
    /\ Update(j, [attempts[j] EXCEPT !.state = "cancelled",
                                     !.intent = "stop_requested", !.digest = d])
    /\ ReleaseReservation(j)
    /\ UNCHANGED <<keys, artifacts, fence>>

\* A dispatched Attempt moves to stopping.  One that is already stopping
\* keeps the intent it has and only the Job records the cancellation.
CancelDispatched(j) ==
    /\ jobs[j].resolution = None /\ jobs[j].current = j
    /\ attempts[j].state \in Dispatched
    /\ jobs' = [jobs EXCEPT ![j].desired = "cancelled"]
    /\ IF attempts[j].state = "stopping"
         THEN UNCHANGED attempts
         ELSE Update(j, [attempts[j] EXCEPT !.state = "stopping",
                                            !.intent = "stop_requested"])
    /\ UNCHANGED <<reservations, keys, artifacts, fence>>

\* Mutation: the intent changes under the same row version.
CancelOrphanedUnversioned(j) ==
    /\ jobs[j].resolution = "orphaned" /\ reservations[j] = "held_orphaned"
    /\ attempts[j].state = "orphaned"
    /\ jobs' = [jobs EXCEPT ![j].desired = "cancelled"]
    /\ attempts' = [attempts EXCEPT ![j].intent = "stop_requested"]
    /\ UNCHANGED <<reservations, keys, artifacts, fence>>

\* An orphan stays orphaned; the stop intent is recorded once.
CancelOrphaned(j) ==
    /\ jobs[j].resolution = "orphaned"
    /\ attempts[j].state = "orphaned"
    /\ reservations[j] = "held_orphaned"
    /\ jobs' = [jobs EXCEPT ![j].desired = "cancelled"]
    /\ IF attempts[j].intent = "stop_requested"
         THEN UNCHANGED attempts
         ELSE Update(j, [attempts[j] EXCEPT !.intent = "stop_requested"])
    /\ UNCHANGED <<reservations, keys, artifacts, fence>>

RequestCancel(j, d) ==
    \/ CancelAccepted(j, d)
    \/ CancelDispatched(j)
    \/ CancelOrphaned(j)

-----------------------------------------------------------------------------
(* Terminal commits.  Artifact ids are unique: inserting one that exists   *)
(* is ARTIFACT_IDENTITY_CONFLICT and rolls the whole transaction back.     *)

ArtifactIds(j, kinds) == {<<j, kind>> : kind \in kinds}

RegisterArtifacts(j, kinds) ==
    /\ ArtifactIds(j, kinds) \cap artifacts = {}
    /\ artifacts' = artifacts \cup ArtifactIds(j, kinds)

\* Mutations: the Job keeps its current Attempt; an orphan returns capacity.
TerminalAttempt(j, v, state, d, kinds) ==
    /\ attempts[j].state \in Nonterminal /\ attempts[j].rv = v
    /\ CanTransition(attempts[j].state, state)
    /\ jobs[j].resolution = None
    /\ Update(j, [attempts[j] EXCEPT !.state = state, !.digest = d])
    /\ RegisterArtifacts(j, kinds)
    /\ UNCHANGED <<keys, fence>>
CommitTerminalStillCurrent(j, v, state, d, kinds) ==
    /\ TerminalAttempt(j, v, state, d, kinds)
    /\ IF state = "orphaned" THEN HoldOrphanedReservation(j) ELSE ReleaseReservation(j)
    /\ jobs' = [jobs EXCEPT ![j].resolution = state]
CommitTerminalReleasing(j, v, state, d, kinds) ==
    /\ TerminalAttempt(j, v, state, d, kinds)
    /\ ReleaseReservation(j)
    /\ jobs' = [jobs EXCEPT ![j].resolution = state, ![j].current = None]

\* commit_terminal: a replay of the same state and digest writes nothing and
\* any other commit on a terminal Attempt is RESULT_IDENTITY_CONFLICT.
\* An orphan keeps its capacity; every other verdict returns it.
CommitTerminal(j, v, state, d, kinds) ==
    /\ attempts[j].state \in Nonterminal
    /\ attempts[j].rv = v
    /\ CanTransition(attempts[j].state, state)
    /\ jobs[j].resolution = None
    /\ Update(j, [attempts[j] EXCEPT !.state = state, !.digest = d])
    /\ RegisterArtifacts(j, kinds)
    /\ IF state = "orphaned" THEN HoldOrphanedReservation(j)
                            ELSE ReleaseReservation(j)
    /\ jobs' = [jobs EXCEPT ![j].resolution = state, ![j].current = None]
    /\ UNCHANGED <<keys, fence>>

\* Mutation: a lost Attempt is corrected like an orphan.
RecoverLostTerminal(j, v, state, d, kinds) ==
    /\ state \in Conclusive
    /\ attempts[j].state \in {"orphaned", "lost"} /\ attempts[j].rv = v
    /\ jobs[j].resolution = attempts[j].state
    /\ Update(j, [attempts[j] EXCEPT !.state = state, !.digest = d])
    /\ RegisterArtifacts(j, kinds)
    /\ ReleaseReservation(j)
    /\ jobs' = [jobs EXCEPT ![j].resolution = state]
    /\ UNCHANGED <<keys, fence>>

\* recover_orphaned_terminal: the only ordinary correction of a verdict,
\* from orphaned to a conclusive one, and the moment the capacity returns.
RecoverOrphanedTerminal(j, v, state, d, kinds) ==
    /\ state \in Conclusive
    /\ attempts[j].state = "orphaned"
    /\ jobs[j].resolution = "orphaned"
    /\ reservations[j] = "held_orphaned"
    /\ attempts[j].rv = v
    /\ Update(j, [attempts[j] EXCEPT !.state = state, !.digest = d])
    /\ RegisterArtifacts(j, kinds)
    /\ ReleaseReservation(j)
    /\ jobs' = [jobs EXCEPT ![j].resolution = state]
    /\ UNCHANGED <<keys, fence>>

\* terminal_reservation_target: what a terminal Attempt with complete
\* evidence must have done with its capacity.
TerminalReservationTarget(j) ==
    IF attempts[j].state = "orphaned" THEN "held_orphaned" ELSE "released"

TerminalEvidenceComplete(j) ==
    /\ IsTerminal(j)
    /\ attempts[j].digest # None
    /\ jobs[j].resolution = attempts[j].state
    /\ jobs[j].current = None

\* record_reconciliation_failure and clear_reconciliation_failure: the
\* recovery condition is a flag beside the state, under no row version.
RecordReconciliationFailure(j) ==
    /\ Admitted(j)
    /\ attempts' = [attempts EXCEPT ![j].recovery = 1]
    /\ UNCHANGED <<jobs, reservations, keys, artifacts, fence>>

ClearReconciliationFailure(j) ==
    /\ attempts[j].recovery = 1
    /\ attempts' = [attempts EXCEPT ![j].recovery = 0]
    /\ UNCHANGED <<jobs, reservations, keys, artifacts, fence>>

-----------------------------------------------------------------------------
Next ==
    \/ \E j \in Jobs, k \in Keys, op \in Operations, limit \in Limits :
          Submit(j, k, op, limit)
    \/ AcquireFence
    \/ ReleaseFence
    \/ \E j \in Jobs, v \in RowVersions :
          \/ MarkBundleReady(j, v)
          \/ MarkDispatchIssued(j, v)
          \/ \E o \in Owners : BindRunning(j, v, o) \/ BindSupervisorOwner(j, v, o)
          \/ \E d \in Digests, kinds \in SUBSET Kinds :
                \/ \E state \in Terminal : CommitTerminal(j, v, state, d, kinds)
                \/ \E state \in Conclusive :
                      RecoverOrphanedTerminal(j, v, state, d, kinds)
    \/ \E j \in Jobs :
          \/ RequestDeadlineTermination(j)
          \/ \E d \in Digests : RequestCancel(j, d)
          \/ RecordReconciliationFailure(j)
          \/ ClearReconciliationFailure(j)

Spec == Init /\ [][Next]_registryVars

-----------------------------------------------------------------------------
(* Invariants.                                                             *)

\* Every table holds rows of its declared shape (registry schema, migrations).
TypeOK ==
    /\ jobs \in [Jobs -> JobRow]
    /\ attempts \in [Jobs -> AttemptRow]
    /\ reservations \in [Jobs -> Holding \cup {"released", None}]
    /\ keys \in [Keys -> Jobs \cup {None}]
    /\ artifacts \subseteq Jobs \X Kinds
    /\ fence \in BOOLEAN

\* A Job is unresolved exactly while it names a current, nonterminal
\* Attempt, and a resolved Job repeats the verdict of its Attempt.
ResolutionAgrees(j) ==
    IF attempts[j].state \in Nonterminal
      THEN jobs[j].resolution = None /\ jobs[j].current = j
      ELSE jobs[j].resolution = attempts[j].state /\ jobs[j].current = None

\* Capacity follows the verdict: held while it is open or orphaned, returned
\* with every conclusive verdict.
CapacityAgrees(j) ==
    reservations[j] = IF attempts[j].state \in Nonterminal THEN "active"
                      ELSE TerminalReservationTarget(j)

\* A verdict is never recorded without the digest of its evidence.
EvidenceRecorded(j) == IsTerminal(j) => attempts[j].digest # None

\* The seven conditions inspect_runtime_invariants_connection collects
\* (registry.rs:941) hold after every transaction, so Doctor never finds an
\* inconsistency that the Registry itself produced and
\* converge_terminal_reservation never has anything to write.
RuntimeInvariants ==
    \A j \in Jobs : Admitted(j) =>
        ResolutionAgrees(j) /\ CapacityAgrees(j) /\ EvidenceRecorded(j)

\* A committed key names one Job, admitted under that key and for that
\* request: whatever the number of replays, one request is one Job.
KeysIdentifyJobs ==
    /\ \A k \in Keys : keys[k] # None =>
          Admitted(keys[k]) /\ jobs[keys[k]].key = k
    /\ \A j \in Jobs : Admitted(j) =>
          /\ jobs[j].key \in Keys /\ keys[jobs[j].key] = j
          /\ jobs[j].op \in Operations

\* One Workspace never has two Jobs that hold capacity, live or orphaned
\* (WORKSPACE_EXECUTION_LIMIT, admission.rs:298).
WorkspaceExclusive ==
    \A a, b \in Holders :
        WorkspaceOf[jobs[a].op] = WorkspaceOf[jobs[b].op] => a = b

\* The Jobs that hold capacity never outnumber the limits they were admitted
\* under: there is one among them whose recorded global_limit covers them all,
\* whichever of them were cancelled, orphaned or recovered since, and however
\* the limits of different requests differ (admission.rs:326).
GlobalCapacity ==
    Holders # {} => \E j \in Holders : Cardinality(Holders) <= jobs[j].limit

-----------------------------------------------------------------------------
(* Action properties.                                                      *)

\* A conclusive verdict, its evidence and the returned capacity are final;
\* an orphaned verdict is only ever replaced by a conclusive one.
VerdictFinal ==
    [][\A j \in Jobs :
          /\ attempts[j].state \in Conclusive =>
                /\ attempts'[j].state = attempts[j].state
                /\ attempts'[j].digest = attempts[j].digest
                /\ reservations'[j] = "released"
          /\ attempts[j].state = "orphaned" =>
                attempts'[j].state \in Conclusive \cup {"orphaned"}
      ]_registryVars

\* A committed stop is never undone: the Attempt leaves stopping only by a
\* verdict, and a live Attempt keeps the intent that stopped it, whichever
\* of cancellation and outer deadline came first.
StopIsCommitted ==
    [][\A j \in Jobs : attempts[j].state = "stopping" =>
          /\ attempts'[j].state \in {"stopping"} \cup Terminal
          /\ attempts'[j].intent = attempts[j].intent
      ]_registryVars

\* Compare-and-set is sound: whatever a writer may have based its decision
\* on changes together with the row version, so a commit that presents the
\* version it read acts on the row it read.
RowVersionGuards ==
    [][\A j \in Jobs :
          LET Decided(row) == [row EXCEPT !.recovery = 0, !.rv = 0]
          IN  Admitted(j) /\ Decided(attempts'[j]) # Decided(attempts[j])
                => attempts'[j].rv = attempts[j].rv + 1
      ]_registryVars
=============================================================================
