------------------------------ MODULE BoundSets ------------------------------
(* Admission of a Job with bound inputs or credentials.  The bytes are      *)
(* staged under a lease, published as a prepared set, the Job is committed, *)
(* and the set is adopted by the Job; a sweep collects what crashes leave.  *)
(* The commit may report an error for a transaction that is durable.        *)
(*                                                                          *)
(* A submission is what a client asks for under the one idempotency key:    *)
(* its identity digest, the kind of set it binds, and the plan the Runtime  *)
(* resolved for it, which two submissions of one identity may differ in     *)
(* (another Workspace source digest, a rotated credential).  All three      *)
(* together stand for the operation digest, which holds no Job identity.    *)
EXTENDS Naturals, FiniteSets

CONSTANTS
    SetJobs,     \* preallocated Job identities
    Submissions, \* [identity, kind, plan]: what clients submit under one key
    SetFaults    \* which of "crash", "commit", "fail", "slow", "spoil" may happen

VARIABLES
    request,     \* request[j]: the submission identity j was preallocated for
    staged,      \* Jobs with a staging directory
    lease,       \* lease[j]: "none", "held" or "free"
    prepared,    \* Jobs with a prepared set
    owned,       \* Jobs that own their set
    committed,   \* committed[j]: the row's state, "none" if there is no row
    admission,   \* the admission in flight
    told,        \* the last answer to the client
    launch,      \* launch[j]: how far the thread that dispatches the Job is
    spoiled,     \* Jobs whose published bytes were altered
    exposed,     \* those altered between their verification and the launch
    doubted,     \* Jobs whose commit was reported as an error
    overdue,     \* Jobs whose set grew old before their commit
    leaked       \* Jobs whose staging directory could not be removed

setVars == <<request, staged, lease, prepared, owned, committed, admission, told, launch,
             spoiled, exposed, doubted, overdue, leaked>>
histories == <<spoiled, exposed, doubted, overdue, leaked>>

NoRequest == [identity |-> "none", kind |-> "none", plan |-> "none"]
ASSUME SubmissionAssumption == NoRequest \notin Submissions
Resting == [at |-> "idle"]
Known(j) == committed[j] # "none"
Open(j) == committed[j] \in {"open", "starting"}
Bound == {j \in SetJobs : Known(j)}    \* all use the one idempotency key
Secret(j) == request[j].kind = "credentials"

SetInit ==
    /\ request = [j \in SetJobs |-> NoRequest]
    /\ staged = {} /\ lease = [j \in SetJobs |-> "none"]
    /\ prepared = {} /\ owned = {}
    /\ committed = [j \in SetJobs |-> "none"]
    /\ admission = Resting
    /\ told = [what |-> "none"]
    /\ launch = [j \in SetJobs |-> "none"]
    /\ spoiled = {} /\ exposed = {} /\ doubted = {} /\ overdue = {} /\ leaked = {}

InFlight(j) == IF admission = Resting THEN FALSE ELSE admission.job = j

\* An answer names a Job and the digest that was compared to find it.
Reply(what, digest, j, s) ==
    told' = [what |-> what, by |-> digest, job |-> j, request |-> s,
             durable |-> {k \in SetJobs : committed'[k] # "none"}]

-----------------------------------------------------------------------------
\* find_idempotent_job: an identity that is bound is replayed, another refused.
SameIdentity(j, s) == IF request[j].identity = s.identity THEN "existing" ELSE "conflict"

ReplayProposal(s) ==
    /\ admission = Resting
    /\ UNCHANGED committed
    /\ \E j \in Bound : Reply(SameIdentity(j, s), "identity", j, s)
    /\ UNCHANGED <<request, staged, lease, prepared, owned, admission, launch, histories>>

\* preallocate_admission_ids never returns an identity twice.
Fresh(j) == request[j] = NoRequest

\* materialize_*_bindings up to the copies, in a directory of its own.
StageBindings(s, j) ==
    /\ admission = Resting /\ Bound = {} /\ Fresh(j)
    /\ request' = [request EXCEPT ![j] = s]
    /\ lease' = [lease EXCEPT ![j] = "held"]
    /\ staged' = staged \cup {j}
    /\ admission' = [at |-> "staged", job |-> j]
    /\ UNCHANGED <<prepared, owned, committed, told, launch, histories>>

\* A digest differs, a principal is not allowed, or the disk fails.
StagingFails ==
    /\ admission.at = "staged"
    /\ LET j == admission.job IN
       /\ \/ staged' = staged \ {j} /\ UNCHANGED leaked
          \/ "fail" \in SetFaults /\ leaked' = leaked \cup {j} /\ UNCHANGED staged
       /\ lease' = [lease EXCEPT ![j] = "none"]
       /\ UNCHANGED committed
       /\ Reply("refused", "none", j, request[j])
    /\ admission' = Resting
    /\ UNCHANGED <<request, prepared, owned, launch, spoiled, exposed, doubted, overdue>>

PublishSet ==
    /\ admission.at = "staged"
    /\ LET j == admission.job IN
       /\ staged' = staged \ {j} /\ prepared' = prepared \cup {j}
       /\ lease' = [lease EXCEPT ![j] = "none"]
    /\ admission' = [admission EXCEPT !.at = "submit"]
    /\ UNCHANGED <<request, owned, committed, told, launch, histories>>

-----------------------------------------------------------------------------
(* submit_preallocated and what admit_new_job_with_* does with its outcome. *)

CommitRow == committed' = [committed EXCEPT ![admission.job] = "open"]

SubmitCreated ==
    /\ admission.at = "submit" /\ Bound = {}
    /\ CommitRow
    /\ admission' = [admission EXCEPT !.at = "adopt"]
    /\ UNCHANGED <<request, staged, lease, prepared, owned, told, launch, histories>>

Discard == prepared' = prepared \ {admission.job}

\* The key is bound by now, or the transaction fails before its commit:
\* capacity, fence, busy.
SubmitRefused ==
    /\ admission.at = "submit"
    /\ Discard
    /\ admission' = Resting
    /\ UNCHANGED committed
    /\ LET s == request[admission.job] IN
       \/ \E j \in Bound : Reply(SameIdentity(j, s), "identity", j, s)
       \/ /\ Bound = {} /\ "fail" \in SetFaults
          /\ Reply("retryable", "none", admission.job, s)
    /\ UNCHANGED <<request, staged, lease, owned, launch, histories>>

\* Commit reports an error, and may be durable all the same.
CommitFails(durable) ==
    /\ admission.at = "submit" /\ Bound = {} /\ "commit" \in SetFaults
    /\ IF durable THEN CommitRow ELSE UNCHANGED committed
    /\ doubted' = doubted \cup {admission.job}
    /\ admission' = [admission EXCEPT !.at = "readback"]
    /\ UNCHANGED <<request, staged, lease, prepared, owned, told, launch,
                   spoiled, exposed, overdue, leaked>>

\* The key is read back and the operation digest of its row compared: the row
\* may be this admission's own, or that of a rival, and the rival may have
\* submitted the very same operation.  Every outcome discards the prepared set.
ReadBackUncompared(readable) ==
    /\ admission.at = "readback"
    /\ Discard
    /\ admission' = Resting
    /\ UNCHANGED committed
    /\ LET s == request[admission.job] IN
       \/ \E j \in Bound : Reply("existing", "operation", j, s)
       \/ Bound = {} /\ Reply("retryable", "operation", admission.job, s)
    /\ UNCHANGED <<request, staged, lease, owned, launch, histories>>

ReadBack(readable) ==
    /\ admission.at = "readback"
    /\ Discard
    /\ admission' = Resting
    /\ UNCHANGED committed
    /\ LET s == request[admission.job] IN
       \/ ~readable /\ Reply("unknown", "none", admission.job, s)
       \/ /\ readable
          /\ \E j \in Bound :
              Reply(IF request[j] = s THEN "existing" ELSE "conflict", "operation", j, s)
       \/ readable /\ Bound = {} /\ Reply("retryable", "operation", admission.job, s)
    /\ UNCHANGED <<request, staged, lease, owned, launch, histories>>

\* Another process on the same Registry admits a Job for the key.
RivalCommits(s, j) ==
    /\ Bound = {} /\ Fresh(j)
    /\ request' = [request EXCEPT ![j] = s]
    /\ committed' = [committed EXCEPT ![j] = "open"]
    /\ owned' = owned \cup {j}
    /\ UNCHANGED <<staged, lease, prepared, admission, told, launch, histories>>

\* The files and their digests are the committed ones.
VerifyEffectiveInputSet(j) == j \in prepared \cup owned /\ j \notin spoiled

\* ensure_job_*_ownership: the owned set wins, a prepared one is adopted; a
\* set that is not the committed one stays where it is.
Adopt(j) ==
    IF VerifyEffectiveInputSet(j)
    THEN owned' = owned \cup {j} /\ prepared' = prepared \ {j}
    ELSE UNCHANGED <<owned, prepared>>

AdoptAdmitted ==
    /\ admission.at = "adopt"
    /\ Adopt(admission.job)
    /\ admission' = Resting
    /\ UNCHANGED committed
    /\ Reply(IF VerifyEffectiveInputSet(admission.job) THEN "created" ELSE "reconciliation",
             "none", admission.job, request[admission.job])
    /\ UNCHANGED <<request, staged, lease, launch, histories>>

-----------------------------------------------------------------------------
(* Dispatch and resolution of the committed Job.                            *)

\* ensure_attempt_dispatched looks at bound inputs, not at credentials, before
\* it issues the dispatch: inputs that are missing or altered fail the Job.
DispatchRefused(j) ==
    /\ committed[j] = "open" /\ ~Secret(j) /\ ~VerifyEffectiveInputSet(j)
    /\ committed' = [committed EXCEPT ![j] = "resolved"]
    /\ UNCHANGED <<request, staged, lease, prepared, owned, admission, told, launch, histories>>

\* The intent is durable from here on and one thread has the launch to make.
\* The inputs are looked at before the intent is written; what happens to them
\* in between is met by the next look.
DispatchIssued(j) ==
    /\ committed[j] = "open"
    /\ IF Secret(j) THEN UNCHANGED <<owned, prepared>>
       ELSE VerifyEffectiveInputSet(j) /\ Adopt(j)
    /\ committed' = [committed EXCEPT ![j] = "starting"]
    /\ launch' = [launch EXCEPT ![j] = "issued"]
    /\ UNCHANGED <<request, staged, lease, admission, told, histories>>

VerifyIssuedBlind(j) ==
    /\ launch[j] = "issued"
    /\ launch' = [launch EXCEPT ![j] = "verified"]
    /\ UNCHANGED <<request, staged, lease, prepared, owned, committed, admission, told, histories>>

\* dispatch_attempt adopts and verifies inputs and credentials alike.
VerifyIssued(j) ==
    /\ launch[j] = "issued" /\ VerifyEffectiveInputSet(j)
    /\ Adopt(j)
    /\ launch' = [launch EXCEPT ![j] = "verified"]
    /\ UNCHANGED <<request, staged, lease, committed, admission, told, histories>>

\* The verification fails, the runner is not what was configured, or the
\* thread is lost: the row stays in "starting" and nobody launches.
LaunchAbandoned(j) ==
    /\ \/ launch[j] = "issued" /\ ~VerifyEffectiveInputSet(j)
       \/ launch[j] \in {"issued", "verified"} /\ SetFaults \cap {"crash", "fail"} # {}
    /\ launch' = [launch EXCEPT ![j] = "none"]
    /\ UNCHANGED <<request, staged, lease, prepared, owned, committed, admission, told, histories>>

\* systemd_run or the Windows launcher is handed the path of the owned set.
Launch(j) ==
    /\ launch[j] = "verified"
    /\ launch' = [launch EXCEPT ![j] = "launched"]
    /\ UNCHANGED <<request, staged, lease, prepared, owned, committed, admission, told, histories>>

\* A verdict, a cancellation, drift another thread found, or the grace period
\* of an Attempt nobody launched.
Resolve(j) ==
    /\ Open(j)
    /\ committed' = [committed EXCEPT ![j] = "resolved"]
    /\ UNCHANGED <<request, staged, lease, prepared, owned, admission, told, launch, histories>>

-----------------------------------------------------------------------------
(* The sweep.  Credential sets are swept by every maintenance pass, both    *)
(* kinds when an admission begins and when the Runtime starts.              *)

\* Old enough: the admission that published it is gone, or very slow.
Old(j) == "slow" \in SetFaults \/ ~InFlight(j)

SweepPrepared(j) ==
    /\ j \in prepared
    /\ \/ /\ committed[j] = "resolved" /\ Secret(j)
          /\ prepared' = prepared \ {j} /\ UNCHANGED <<owned, overdue>>
       \/ /\ Known(j) /\ (committed[j] # "resolved" \/ ~Secret(j))
          /\ Adopt(j) /\ UNCHANGED overdue
       \/ /\ ~Known(j) /\ Old(j)
          /\ prepared' = prepared \ {j} /\ UNCHANGED owned
          /\ overdue' = IF InFlight(j) THEN overdue \cup {j} ELSE overdue
    /\ UNCHANGED <<request, staged, lease, committed, admission, told, launch,
                   spoiled, exposed, doubted, leaked>>

SweepOwnedEarly(j) ==
    /\ j \in owned /\ Known(j) /\ Secret(j)
    /\ owned' = owned \ {j}
    /\ UNCHANGED <<request, staged, lease, prepared, committed, admission, told, launch, histories>>

SweepOwned(j) ==
    /\ j \in owned /\ committed[j] = "resolved" /\ Secret(j)
    /\ owned' = owned \ {j}
    /\ UNCHANGED <<request, staged, lease, prepared, committed, admission, told, launch, histories>>

SweepLeaseOnly(j) ==
    /\ lease[j] = "free"
    /\ lease' = [lease EXCEPT ![j] = "none"]
    /\ UNCHANGED <<request, staged, prepared, owned, committed, admission, told, launch, histories>>

\* A lease nobody holds: its staging directory was left by a crash.
SweepLease(j) ==
    /\ lease[j] = "free"
    /\ staged' = staged \ {j}
    /\ lease' = [lease EXCEPT ![j] = "none"]
    /\ UNCHANGED <<request, prepared, owned, committed, admission, told, launch, histories>>

\* Somebody alters a published file.
Spoil(j) ==
    /\ "spoil" \in SetFaults /\ j \in prepared \cup owned
    /\ spoiled' = spoiled \cup {j}
    /\ exposed' = IF launch[j] = "verified" THEN exposed \cup {j} ELSE exposed
    /\ UNCHANGED <<request, staged, lease, prepared, owned, committed, admission, told, launch,
                   doubted, overdue, leaked>>

\* The Runtime process dies; the kernel drops the lock on the lease.
SetCrash ==
    /\ "crash" \in SetFaults /\ admission # Resting
    /\ lease' = [j \in SetJobs |-> IF lease[j] = "held" THEN "free" ELSE lease[j]]
    /\ admission' = Resting
    /\ told' = [what |-> "none"]
    /\ UNCHANGED <<request, staged, prepared, owned, committed, launch, histories>>

SetNext ==
    \/ \E s \in Submissions : ReplayProposal(s)
    \/ \E s \in Submissions, j \in SetJobs : StageBindings(s, j) \/ RivalCommits(s, j)
    \/ StagingFails \/ PublishSet \/ SubmitCreated \/ SubmitRefused \/ AdoptAdmitted \/ SetCrash
    \/ \E b \in BOOLEAN : CommitFails(b) \/ ReadBack(b)
    \/ \E j \in SetJobs : \/ DispatchRefused(j) \/ DispatchIssued(j) \/ VerifyIssued(j)
                          \/ LaunchAbandoned(j) \/ Launch(j) \/ Resolve(j) \/ Spoil(j)
                          \/ SweepPrepared(j) \/ SweepOwned(j) \/ SweepLease(j)

\* Maintenance keeps sweeping credential sets; nothing makes an input set be
\* swept, for which another admission or a restart has to come.
SweepSecret(j) == Secret(j) /\ (SweepPrepared(j) \/ SweepOwned(j) \/ SweepLease(j))

\* Maintenance keeps running, an admission in flight goes on.
SetFairness ==
    /\ WF_setVars(PublishSet \/ StagingFails) /\ WF_setVars(SubmitCreated \/ SubmitRefused)
    /\ WF_setVars(AdoptAdmitted) /\ WF_setVars(\E b \in BOOLEAN : ReadBack(b))
    /\ \A j \in SetJobs : WF_setVars(SweepSecret(j))

SetSpec == SetInit /\ [][SetNext]_setVars
SetFairSpec == SetSpec /\ SetFairness

-----------------------------------------------------------------------------
\* Leases are held only by an admission in flight, whose staged bytes exist,
\* and a launch is under way only for a row that was open.
SetTypeOK ==
    /\ request \in [SetJobs -> Submissions \cup {NoRequest}]
    /\ staged \subseteq SetJobs /\ prepared \subseteq SetJobs /\ owned \subseteq SetJobs
    /\ lease \in [SetJobs -> {"none", "held", "free"}]
    /\ committed \in [SetJobs -> {"none", "open", "starting", "resolved"}]
    /\ launch \in [SetJobs -> {"none", "issued", "verified", "launched"}]
    /\ \A j \in SetJobs : lease[j] = "held" => InFlight(j)
    /\ \A j \in SetJobs : launch[j] # "none" => committed[j] \in {"starting", "resolved"}
    /\ admission # Resting /\ admission.at = "staged" => admission.job \in staged

\* A committed Job that has not ended still has its bytes, whatever crashed
\* and however the sweep ran; it loses them only if its own commit was
\* reported as an error (the set is then discarded although the row may be
\* durable) or the commit came later than the stale age.
BytesOutliveCommit ==
    \A j \in SetJobs : Open(j) => j \in prepared \cup owned \cup doubted \cup overdue

\* A launch finds the Job's own set, with its committed bytes.  They lie in
\* files while the Job waits, may be altered after the admission looked at
\* them and again after the dispatch was issued, and a sweep retires
\* credentials beside the launching thread: the bytes are other ones only if
\* they were altered after the last look, and missing only if the Job was
\* resolved in the meantime and its credentials retired.
LaunchFindsBytes ==
    [][\A j \in SetJobs : launch[j] = "verified" /\ launch'[j] = "launched" =>
        /\ j \in owned \/ (committed[j] = "resolved" /\ Secret(j))
        /\ j \in spoiled => j \in exposed]_setVars

\* What the client is told about its request is true when it is told: created
\* and existing name a durable Job that was asked for, even if a rival
\* admitted it; a retryable error means that there is none; and a conflict
\* that the key belongs to another request, where a read-back after a failed
\* commit also takes a rival's plan for the same request as another.
AnswersTrue ==
    /\ told.what \in {"created", "existing", "reconciliation"} =>
           /\ told.job \in told.durable
           /\ request[told.job].identity = told.request.identity
           /\ told.by = "operation" => request[told.job] = told.request
    /\ told.what = "retryable" => told.durable = {}
    /\ told.what = "conflict" =>
           \A j \in told.durable :
               \/ request[j].identity # told.request.identity
               \/ told.by = "operation" /\ request[j] # told.request

\* Sweeping ends: nothing is left of a credential admission without a Job, and
\* no encrypted credential outlives its Job, but for a staging directory whose
\* removal failed once.
Garbage(j) == /\ Secret(j)
              /\ \/ ~Known(j) /\ j \in (staged \cup prepared) \ leaked
                 \/ committed[j] = "resolved" /\ j \in prepared \cup owned
GarbageCollected == \A j \in SetJobs : ~<>[]Garbage(j)
=============================================================================
