----------------------------- MODULE FileProofs -----------------------------
(***************************************************************************)
(* Files that must agree with rows, records or answers, for any number of  *)
(* Jobs, Workspaces and paths: the bound sets of an admission, the steps   *)
(* of opening and closing Workspaces, a batch of file mutations, and the   *)
(* pages of a change set.                                                  *)
(***************************************************************************)
EXTENDS BoundSets, Workspaces, BatchMutation, ChangePages, FiniteSetTheorems,
        SequenceTheorems, TLAPS

-----------------------------------------------------------------------------
(* Bound sets.  A set is published before its row is committed and adopted *)
(* after it, and the sweep runs in between; what carries the bytes over is *)
(* that the admission in flight knows, at every statement, whether its row *)
(* can exist yet (AdmissionOK), and that one key has one row (OneRow).     *)
(* What a launch finds is what its thread verified (LaunchOK).             *)

AdmissionType == [at : {"staged", "submit", "adopt", "readback"}, job : SetJobs]
RowStates == {"none", "open", "starting", "resolved"}

SetTyped ==
    /\ request \in [SetJobs -> Submissions \cup {NoRequest}]
    /\ staged \subseteq SetJobs /\ prepared \subseteq SetJobs /\ owned \subseteq SetJobs
    /\ lease \in [SetJobs -> {"none", "held", "free"}]
    /\ committed \in [SetJobs -> RowStates]
    /\ launch \in [SetJobs -> {"none", "issued", "verified", "launched"}]
    /\ admission \in AdmissionType \cup {Resting}

\* The row of the admission in flight.
AdmissionOK ==
    /\ admission.at \in {"staged", "submit"} => ~Known(admission.job)
    /\ admission.at = "submit" => admission.job \in prepared \cup overdue
    /\ admission.at = "readback" => admission.job \in doubted
    /\ admission.at = "adopt" => Known(admission.job)
    /\ admission.at # "idle" => ~Fresh(admission.job)

\* One key has one row, of a submission somebody made.
OneRow ==
    /\ \A i, j \in SetJobs : Known(i) /\ Known(j) => i = j
    /\ \A j \in SetJobs : Known(j) => ~Fresh(j)

\* Leases and staging directories of the admission in flight.
LeaseOK ==
    /\ \A j \in SetJobs : lease[j] = "held" => admission.at = "staged" /\ admission.job = j
    /\ admission.at = "staged" => admission.job \in staged /\ lease[admission.job] = "held"

\* The last answer, with every row it was true of.
ToldOK ==
    /\ told.what \in {"created", "existing", "reconciliation"} =>
          told.job \in told.durable \cap SetJobs
    /\ told.what \in {"created", "existing", "reconciliation", "conflict"} =>
          \A j \in told.durable : j \in SetJobs /\ Known(j)

\* A thread that has verified a set still finds it, unless the Job is over.
LaunchOK ==
    \A j \in SetJobs :
        /\ launch[j] # "none" => committed[j] \in {"starting", "resolved"}
        /\ launch[j] = "verified" =>
              /\ j \in owned \/ (committed[j] = "resolved" /\ Secret(j))
              /\ j \in spoiled => j \in exposed

SetInv ==
    /\ SetTyped /\ AdmissionOK /\ OneRow /\ LeaseOK /\ ToldOK /\ LaunchOK
    /\ BytesOutliveCommit /\ AnswersTrue

\* At rest there is no admission to speak of.
LEMMA AdmissionFields ==
    ASSUME SetTyped
    PROVE  /\ admission = Resting <=> admission.at = "idle"
           /\ admission # Resting => admission \in AdmissionType /\ admission.job \in SetJobs
           /\ Resting.at = "idle"
BY DEF SetTyped, Resting, AdmissionType

\* No row vanishes and none changes its request.
RowsStay == \A j \in SetJobs : Known(j) => committed'[j] # "none" /\ request'[j] = request[j]

LEMMA SetStarts == SetInit => SetInv
<1> SUFFICES ASSUME SetInit PROVE SetInv
    OBVIOUS
<1>1. \A j \in SetJobs : ~Known(j) /\ ~Open(j) /\ launch[j] = "none"
    BY DEF SetInit, Known, Open
<1>2. SetTyped
    BY DEF SetInit, SetTyped, RowStates
<1>3. admission.at = "idle" /\ told.what = "none"
    BY DEF SetInit, Resting
<1>4. AdmissionOK
    BY <1>3 DEF AdmissionOK
<1>5. OneRow /\ LaunchOK
    BY <1>1 DEF OneRow, LaunchOK
<1>6. LeaseOK
    BY <1>3 DEF SetInit, LeaseOK
<1>7. ToldOK /\ AnswersTrue
    BY <1>3 DEF ToldOK, AnswersTrue
<1>8. BytesOutliveCommit
    BY <1>1 DEF BytesOutliveCommit
<1> QED
    BY <1>2, <1>4, <1>5, <1>6, <1>7, <1>8 DEF SetInv

\* What was told stays true while rows and their requests stay.
LEMMA ToldStays ==
    ASSUME SetTyped, ToldOK, AnswersTrue, RowsStay, UNCHANGED told
    PROVE  ToldOK' /\ AnswersTrue'
<1>1. ToldOK'
    BY DEF ToldOK, RowsStay, Known
<1>2. \A j \in told.durable : told.what \in {"created", "existing", "reconciliation", "conflict"}
          => request'[j] = request[j]
    BY DEF ToldOK, RowsStay
<1>3. AnswersTrue'
    BY <1>2 DEF ToldOK, AnswersTrue
<1> QED
    BY <1>1, <1>3

\* An answer about the rows that stand is true if it names one of them, if it
\* denies any, or if it refuses the key by the digest it has compared.
LEMMA ReplyIsTrue ==
    ASSUME SetTyped, OneRow, UNCHANGED <<committed, request>>,
           NEW what, NEW by, NEW j, NEW r, Reply(what, by, j, r),
           what \in {"created", "existing", "reconciliation"} =>
              /\ j \in Bound /\ request[j].identity = r.identity
              /\ by = "operation" => request[j] = r,
           what = "retryable" => Bound = {},
           what = "conflict" =>
              /\ j \in Bound
              /\ \/ request[j].identity # r.identity
                 \/ by = "operation" /\ request[j] # r
    PROVE  ToldOK' /\ AnswersTrue'
<1>1. /\ told'.what = what /\ told'.job = j /\ told'.request = r /\ told'.by = by
      /\ told'.durable = {k \in SetJobs : committed[k] # "none"}
    BY DEF Reply
<1>2. told'.durable = Bound
    BY <1>1 DEF Bound, Known
<1>3. \A k \in Bound : k \in SetJobs /\ Known(k) /\ committed'[k] # "none"
    BY DEF Bound, Known
<1>4. ToldOK'
    BY <1>1, <1>2, <1>3 DEF ToldOK, Bound, Known
<1>5. j \in Bound => \A k \in Bound : k = j
    BY <1>3 DEF OneRow
<1> QED
    BY <1>1, <1>2, <1>4, <1>5 DEF AnswersTrue

-----------------------------------------------------------------------------
(* The steps of an admission.                                              *)

\* Rows that do not change keep what is said of them.
LEMMA RowsKept ==
    ASSUME SetInv, UNCHANGED <<committed, request>>
    PROVE  /\ RowsStay /\ OneRow'
           /\ \A j : (Known(j))' = Known(j) /\ (Open(j))' = Open(j)
                     /\ (Fresh(j))' = Fresh(j) /\ (Secret(j))' = Secret(j)
BY DEF SetInv, RowsStay, OneRow, Known, Open, Fresh, Secret

\* A step beside the launching threads that takes no owned set.
LEMMA LaunchKept ==
    ASSUME SetInv, UNCHANGED <<committed, request, launch, spoiled, exposed>>, owned \subseteq owned'
    PROVE  LaunchOK'
BY DEF SetInv, LaunchOK, Secret

LEMMA ReplayKeeps ==
    ASSUME SetInv, NEW r \in Submissions, ReplayProposal(r)
    PROVE  SetInv'
<1> USE DEF SetInv
<1>1. PICK j \in Bound : Reply(SameIdentity(j, r), "identity", j, r)
    BY DEF ReplayProposal
<1>2. UNCHANGED <<request, staged, lease, prepared, owned, committed, admission, launch,
                  spoiled, exposed, doubted, overdue>>
    BY DEF ReplayProposal, histories
<1>3. ToldOK' /\ AnswersTrue'
    BY <1>1, <1>2, ReplyIsTrue DEF SameIdentity
<1>4. SetTyped' /\ LeaseOK' /\ BytesOutliveCommit' /\ AdmissionOK'
    BY <1>2, RowsKept DEF SetTyped, LeaseOK, BytesOutliveCommit, AdmissionOK
<1> QED
    BY <1>2, <1>3, <1>4, RowsKept, LaunchKept

LEMMA StageKeeps ==
    ASSUME SetInv, NEW s \in Submissions, NEW j \in SetJobs, StageBindings(s, j)
    PROVE  SetInv'
<1> USE DEF SetInv
<1>1. /\ admission = Resting /\ Fresh(j)
      /\ request' = [request EXCEPT ![j] = s]
      /\ lease' = [lease EXCEPT ![j] = "held"] /\ staged' = staged \cup {j}
      /\ admission' = [at |-> "staged", job |-> j]
      /\ UNCHANGED <<prepared, owned, committed, told, launch, spoiled, exposed, doubted, overdue>>
    BY DEF StageBindings, histories
<1>2. /\ admission' \in AdmissionType
      /\ admission'.at = "staged" /\ admission'.job = j
    BY <1>1 DEF AdmissionType
<1>3. SetTyped'
    BY <1>1, <1>2 DEF SetTyped
<1>4. ~Known(j) /\ request'[j] = s /\ \A i \in SetJobs : i # j => request'[i] = request[i]
    BY <1>1 DEF SetTyped, OneRow
<1>5. s # NoRequest
    BY SubmissionAssumption
<1>6. AdmissionOK'
    BY <1>1, <1>2, <1>4, <1>5 DEF AdmissionOK, Known, Fresh
<1>7. LeaseOK'
    <2>1. \A i \in SetJobs : lease[i] # "held"
        BY <1>1, AdmissionFields DEF LeaseOK
    <2> QED
        BY <1>1, <1>2, <2>1 DEF LeaseOK, SetTyped
<1>8. OneRow' /\ BytesOutliveCommit'
    BY <1>1, <1>4 DEF OneRow, BytesOutliveCommit, Known, Open, Fresh
<1>9. LaunchOK'
    BY <1>1, <1>4 DEF LaunchOK, Secret, Known
<1>10. RowsStay
    BY <1>1, <1>4 DEF RowsStay, Known
<1> QED
    BY <1>1, <1>3, <1>6, <1>7, <1>8, <1>9, <1>10, ToldStays

LEMMA StagingFailsKeeps ==
    ASSUME SetInv, StagingFails
    PROVE  SetInv'
<1> USE DEF SetInv
<1> DEFINE j == admission.job
<1>1. /\ admission.at = "staged" /\ admission' = Resting
      /\ staged' = staged \ {j} \/ staged' = staged
      /\ lease' = [lease EXCEPT ![j] = "none"]
      /\ UNCHANGED <<request, prepared, owned, committed, launch, spoiled, exposed, doubted, overdue>>
      /\ Reply("refused", "none", j, request[j])
    BY DEF StagingFails
<1>2. j \in SetJobs /\ Resting.at = "idle"
    BY <1>1, AdmissionFields
<1>3. SetTyped'
    BY <1>1, <1>2 DEF SetTyped
<1>4. AdmissionOK'
    BY <1>1, <1>2 DEF AdmissionOK
<1>5. LeaseOK'
    BY <1>1, <1>2 DEF LeaseOK, SetTyped
<1>6. BytesOutliveCommit'
    BY <1>1, RowsKept DEF BytesOutliveCommit
<1>7. ToldOK' /\ AnswersTrue'
    BY <1>1, ReplyIsTrue
<1> QED
    BY <1>1, <1>3, <1>4, <1>5, <1>6, <1>7, RowsKept, LaunchKept

LEMMA PublishKeeps ==
    ASSUME SetInv, PublishSet
    PROVE  SetInv'
<1> USE DEF SetInv
<1> DEFINE j == admission.job
<1>1. /\ admission.at = "staged" /\ admission' = [admission EXCEPT !.at = "submit"]
      /\ staged' = staged \ {j} /\ prepared' = prepared \cup {j}
      /\ lease' = [lease EXCEPT ![j] = "none"]
      /\ UNCHANGED <<request, owned, committed, told, launch, spoiled, exposed, doubted, overdue>>
    BY DEF PublishSet, histories
<1>2. admission \in AdmissionType /\ j \in SetJobs
    BY <1>1, AdmissionFields
<1>3. admission' \in AdmissionType /\ admission'.at = "submit" /\ admission'.job = j
    BY <1>1, <1>2 DEF AdmissionType
<1>4. SetTyped'
    BY <1>1, <1>2, <1>3 DEF SetTyped
<1>5. AdmissionOK'
    BY <1>1, <1>3 DEF AdmissionOK, Known, Fresh
<1>6. LeaseOK'
    BY <1>1, <1>2, <1>3 DEF LeaseOK, SetTyped
<1>7. BytesOutliveCommit'
    BY <1>1, RowsKept DEF BytesOutliveCommit
<1> QED
    BY <1>1, <1>4, <1>5, <1>6, <1>7, RowsKept, ToldStays, LaunchKept

\* A commit binds a free key: the new row is the only one, and it is open.
LEMMA CommitBinds ==
    ASSUME SetInv, Bound = {}, NEW j \in SetJobs,
           committed' = [committed EXCEPT ![j] = "open"],
           request'[j] # NoRequest, UNCHANGED launch
    PROVE  /\ RowsStay /\ OneRow' /\ LaunchOK'
           /\ committed' \in [SetJobs -> RowStates]
           /\ (Known(j))'
           /\ \A i \in SetJobs : i # j => ~(Known(i))' /\ ~(Open(i))'
<1> USE DEF SetInv
<1>1. \A i \in SetJobs : ~Known(i)
    BY DEF Bound
<1>2. committed'[j] = "open" /\ \A i \in SetJobs : i # j => committed'[i] = "none"
    BY <1>1 DEF SetTyped, Known
<1>3. \A i \in SetJobs : launch[i] = "none"
    BY <1>1 DEF LaunchOK, Known
<1> QED
    BY <1>1, <1>2, <1>3 DEF RowsStay, OneRow, LaunchOK, SetTyped, RowStates, Known, Open, Fresh

LEMMA SubmitCreatedKeeps ==
    ASSUME SetInv, SubmitCreated
    PROVE  SetInv'
<1> USE DEF SetInv
<1>0. PICK j \in SetJobs : j = admission.job
    BY AdmissionFields DEF SubmitCreated
<1>1. /\ admission.at = "submit" /\ Bound = {}
      /\ committed' = [committed EXCEPT ![j] = "open"]
      /\ admission' = [admission EXCEPT !.at = "adopt"]
      /\ UNCHANGED <<request, staged, lease, prepared, owned, told, launch, doubted, overdue>>
    BY <1>0 DEF SubmitCreated, CommitRow, histories
<1>2. admission \in AdmissionType /\ j \in SetJobs /\ request[j] # NoRequest
    BY <1>0, <1>1, AdmissionFields DEF AdmissionOK, Fresh
<1>3. admission' \in AdmissionType /\ admission'.at = "adopt" /\ admission'.job = j
    BY <1>0, <1>1, <1>2 DEF AdmissionType
<1>4. /\ RowsStay /\ OneRow' /\ LaunchOK'
      /\ committed' \in [SetJobs -> RowStates]
      /\ (Known(j))'
      /\ \A i \in SetJobs : i # j => ~(Known(i))' /\ ~(Open(i))'
    BY <1>1, <1>2, CommitBinds
<1>5. SetTyped'
    BY <1>1, <1>3, <1>4 DEF SetTyped
<1>6. AdmissionOK'
    BY <1>1, <1>2, <1>3, <1>4 DEF AdmissionOK, Fresh, Known
<1>7. LeaseOK'
    BY <1>1, <1>3 DEF LeaseOK
<1>8. BytesOutliveCommit'
    BY <1>0, <1>1, <1>4 DEF BytesOutliveCommit, AdmissionOK, Fresh
<1> QED
    BY <1>1, <1>4, <1>5, <1>6, <1>7, <1>8, ToldStays

LEMMA CommitFailsKeeps ==
    ASSUME SetInv, NEW durable \in BOOLEAN, CommitFails(durable)
    PROVE  SetInv'
<1> USE DEF SetInv
<1>0. PICK j \in SetJobs : j = admission.job
    BY AdmissionFields DEF CommitFails
<1>1. /\ admission.at = "submit" /\ Bound = {}
      /\ committed' = [committed EXCEPT ![j] = "open"] \/ committed' = committed
      /\ doubted' = doubted \cup {j}
      /\ admission' = [admission EXCEPT !.at = "readback"]
      /\ UNCHANGED <<request, staged, lease, prepared, owned, told, launch, spoiled, exposed, overdue>>
    BY <1>0 DEF CommitFails, CommitRow
<1>2. admission \in AdmissionType /\ j \in SetJobs /\ request[j] # NoRequest
    BY <1>0, <1>1, AdmissionFields DEF AdmissionOK, Fresh
<1>3. admission' \in AdmissionType /\ admission'.at = "readback" /\ admission'.job = j
    BY <1>0, <1>1, <1>2 DEF AdmissionType
<1>4. /\ RowsStay /\ OneRow' /\ LaunchOK'
      /\ committed' \in [SetJobs -> RowStates]
      /\ \A i \in SetJobs : i # j => ~(Known(i))' /\ ~(Open(i))'
    <2>1. CASE committed' = [committed EXCEPT ![j] = "open"]
        BY <1>1, <1>2, <2>1, CommitBinds
    <2>2. CASE committed' = committed
        BY <1>1, <1>2, <2>2, RowsKept, LaunchKept DEF Bound, SetTyped, Known, Open
    <2> QED
        BY <1>1, <2>1, <2>2
<1>5. SetTyped'
    BY <1>1, <1>3, <1>4 DEF SetTyped
<1>6. AdmissionOK'
    BY <1>1, <1>2, <1>3 DEF AdmissionOK, Fresh
<1>7. LeaseOK'
    BY <1>1, <1>3 DEF LeaseOK
<1>8. BytesOutliveCommit'
    BY <1>1, <1>4 DEF BytesOutliveCommit
<1> QED
    BY <1>1, <1>4, <1>5, <1>6, <1>7, <1>8, ToldStays

\* The admission ends with an answer and without its prepared set.
LEMMA DiscardKeeps ==
    ASSUME SetInv, admission.at \in {"submit", "readback"}, Discard, admission' = Resting,
           UNCHANGED <<request, staged, lease, owned, committed, launch, histories>>
    PROVE  SetTyped' /\ AdmissionOK' /\ OneRow' /\ LeaseOK' /\ LaunchOK' /\ BytesOutliveCommit'
<1> USE DEF SetInv, histories
<1>1. prepared' = prepared \ {admission.job}
    BY DEF Discard
<1>2. Resting.at = "idle"
    BY AdmissionFields
<1>3. SetTyped'
    BY <1>1 DEF SetTyped
<1>4. AdmissionOK' /\ LeaseOK'
    BY <1>2 DEF AdmissionOK, LeaseOK
<1>5. Known(admission.job) => admission.job \in doubted
    BY DEF AdmissionOK
<1>6. BytesOutliveCommit'
    BY <1>1, <1>5, RowsKept DEF BytesOutliveCommit, Open, Known
<1> QED
    BY <1>3, <1>4, <1>6, RowsKept, LaunchKept

LEMMA SubmitRefusedKeeps ==
    ASSUME SetInv, SubmitRefused
    PROVE  SetInv'
<1> USE DEF SetInv
<1> DEFINE s == request[admission.job]
<1>1. /\ admission.at = "submit" /\ Discard /\ admission' = Resting
      /\ UNCHANGED <<request, staged, lease, owned, committed, launch, histories>>
      /\ \/ \E j \in Bound : Reply(SameIdentity(j, s), "identity", j, s)
         \/ Bound = {} /\ Reply("retryable", "none", admission.job, s)
    BY DEF SubmitRefused
<1>2. ToldOK' /\ AnswersTrue'
    BY <1>1, ReplyIsTrue DEF SameIdentity
<1> QED
    BY <1>1, <1>2, DiscardKeeps

LEMMA ReadBackKeeps ==
    ASSUME SetInv, NEW readable \in BOOLEAN, ReadBack(readable)
    PROVE  SetInv'
<1> USE DEF SetInv
<1> DEFINE s == request[admission.job]
<1>1. /\ admission.at = "readback" /\ Discard /\ admission' = Resting
      /\ UNCHANGED <<request, staged, lease, owned, committed, launch, histories>>
      /\ \/ Reply("unknown", "none", admission.job, s)
         \/ \E j \in Bound :
              Reply(IF request[j] = s THEN "existing" ELSE "conflict", "operation", j, s)
         \/ Bound = {} /\ Reply("retryable", "operation", admission.job, s)
    BY DEF ReadBack
<1>2. ToldOK' /\ AnswersTrue'
    BY <1>1, ReplyIsTrue
<1> QED
    BY <1>1, <1>2, DiscardKeeps

LEMMA RivalKeeps ==
    ASSUME SetInv, NEW s \in Submissions, NEW j \in SetJobs, RivalCommits(s, j)
    PROVE  SetInv'
<1> USE DEF SetInv
<1>1. /\ Bound = {} /\ Fresh(j) /\ request' = [request EXCEPT ![j] = s]
      /\ committed' = [committed EXCEPT ![j] = "open"]
      /\ owned' = owned \cup {j}
      /\ UNCHANGED <<staged, lease, prepared, admission, told, launch, doubted, overdue>>
    BY DEF RivalCommits, histories
<1>2. request'[j] = s /\ s # NoRequest /\ \A i \in SetJobs : i # j => request'[i] = request[i]
    BY <1>1, SubmissionAssumption DEF SetTyped
<1>3. /\ RowsStay /\ OneRow' /\ LaunchOK'
      /\ committed' \in [SetJobs -> RowStates]
      /\ (Known(j))'
      /\ \A i \in SetJobs : i # j => ~(Known(i))' /\ ~(Open(i))'
    BY <1>1, <1>2, CommitBinds
<1>4. SetTyped'
    BY <1>1, <1>3 DEF SetTyped
<1>5. AdmissionOK'
    <2>1. CASE admission = Resting
        BY <1>1, <2>1, AdmissionFields DEF AdmissionOK
    <2>2. CASE admission # Resting
        <3>1. admission.job \in SetJobs /\ admission.job # j /\ admission.at # "idle"
            BY <1>1, <2>2, AdmissionFields DEF AdmissionOK
        <3>2. ~Known(admission.job) /\ ~(Known(admission.job))'
            BY <1>1, <1>3, <3>1 DEF Bound
        <3>3. (Fresh(admission.job))' = Fresh(admission.job)
            BY <1>1, <1>2, <3>1 DEF Fresh
        <3> QED
            BY <1>1, <3>1, <3>2, <3>3 DEF AdmissionOK
    <2> QED
        BY <2>1, <2>2
<1>6. LeaseOK'
    BY <1>1 DEF LeaseOK
<1>7. BytesOutliveCommit'
    BY <1>1, <1>3 DEF BytesOutliveCommit
<1> QED
    BY <1>1, <1>3, <1>4, <1>5, <1>6, <1>7, ToldStays

-----------------------------------------------------------------------------
(* Adoption, dispatch and the sweep.                                       *)

\* Adoption moves a set from one place to the other and loses none.
LEMMA AdoptMoves ==
    ASSUME SetTyped, NEW j \in SetJobs, Adopt(j)
    PROVE  /\ prepared' \cup owned' = prepared \cup owned /\ owned \subseteq owned'
           /\ prepared' \subseteq SetJobs /\ owned' \subseteq SetJobs
           /\ \A i \in SetJobs : i # j => (i \in prepared' <=> i \in prepared)
           /\ VerifyEffectiveInputSet(j) => j \in owned'
BY DEF Adopt, VerifyEffectiveInputSet, SetTyped

LEMMA AdoptAdmittedKeeps ==
    ASSUME SetInv, AdoptAdmitted
    PROVE  SetInv'
<1> USE DEF SetInv
<1> DEFINE j == admission.job
<1>1. /\ admission.at = "adopt" /\ Adopt(j) /\ admission' = Resting
      /\ UNCHANGED <<request, staged, lease, committed, launch, spoiled, exposed, doubted, overdue>>
      /\ Reply(IF VerifyEffectiveInputSet(j) THEN "created" ELSE "reconciliation",
               "none", j, request[j])
    BY DEF AdoptAdmitted, histories
<1>2. j \in SetJobs /\ j \in Bound
    BY <1>1, AdmissionFields DEF AdmissionOK, Bound
<1>3. SetTyped'
    BY <1>1, <1>2, AdoptMoves DEF SetTyped
<1>4. Resting.at = "idle"
    BY AdmissionFields
<1>5. AdmissionOK' /\ LeaseOK'
    BY <1>1, <1>4 DEF AdmissionOK, LeaseOK
<1>6. BytesOutliveCommit'
    BY <1>1, <1>2, AdoptMoves, RowsKept DEF BytesOutliveCommit
<1>7. ToldOK' /\ AnswersTrue'
    BY <1>1, <1>2, ReplyIsTrue
<1>8. LaunchOK'
    BY <1>1, <1>2, AdoptMoves, LaunchKept
<1> QED
    BY <1>1, <1>3, <1>5, <1>6, <1>7, <1>8, RowsKept

\* A row that only moves on keeps everything but, once resolved, its bytes.
LEMMA RowMovesOn ==
    ASSUME SetInv, NEW j \in SetJobs, Known(j), NEW state \in {"starting", "resolved"},
           committed' = [committed EXCEPT ![j] = state], UNCHANGED <<request, admission, told>>,
           doubted \subseteq doubted', overdue \subseteq overdue',
           \A i \in SetJobs : i # j => (i \in prepared' <=> i \in prepared)
    PROVE  /\ OneRow' /\ committed' \in [SetJobs -> RowStates]
           /\ AdmissionOK' /\ ToldOK' /\ AnswersTrue'
           /\ committed'[j] = state
           /\ \A i \in SetJobs : i # j => committed'[i] = committed[i]
<1> USE DEF SetInv
<1>1. /\ committed'[j] = state /\ committed' \in [SetJobs -> RowStates]
      /\ \A i \in SetJobs : i # j => committed'[i] = committed[i]
    BY DEF SetTyped, RowStates
<1>2. \A i \in SetJobs : (Known(i))' = Known(i) /\ (Fresh(i))' = Fresh(i)
    BY <1>1 DEF Known, Fresh
<1>3. RowsStay
    BY <1>1 DEF RowsStay, Known
<1>4. OneRow'
    BY <1>2 DEF OneRow
<1>5. AdmissionOK'
    <2>1. CASE admission = Resting
        BY <2>1, AdmissionFields DEF AdmissionOK
    <2>2. CASE admission # Resting
        <3>1. admission.job \in SetJobs
            BY <2>2, AdmissionFields
        <3>2. admission.at = "submit" => admission.job # j
            BY DEF AdmissionOK
        <3> QED
            BY <1>2, <3>1, <3>2 DEF AdmissionOK
    <2> QED
        BY <2>1, <2>2
<1> QED
    BY <1>1, <1>3, <1>4, <1>5, ToldStays

LEMMA DispatchIssuedKeeps ==
    ASSUME SetInv, NEW j \in SetJobs, DispatchIssued(j)
    PROVE  SetInv'
<1> USE DEF SetInv
<1>1. /\ committed[j] = "open" /\ (Adopt(j) \/ UNCHANGED <<owned, prepared>>)
      /\ committed' = [committed EXCEPT ![j] = "starting"]
      /\ launch' = [launch EXCEPT ![j] = "issued"]
      /\ UNCHANGED <<request, staged, lease, admission, told, spoiled, exposed, doubted, overdue>>
    BY DEF DispatchIssued, histories
<1>2. /\ prepared' \cup owned' = prepared \cup owned /\ owned \subseteq owned'
      /\ prepared' \subseteq SetJobs /\ owned' \subseteq SetJobs
      /\ \A i \in SetJobs : i # j => (i \in prepared' <=> i \in prepared)
    BY <1>1, AdoptMoves DEF SetTyped
<1>3. /\ OneRow' /\ committed' \in [SetJobs -> RowStates]
      /\ AdmissionOK' /\ ToldOK' /\ AnswersTrue'
      /\ committed'[j] = "starting"
      /\ \A i \in SetJobs : i # j => committed'[i] = committed[i]
    BY <1>1, <1>2, RowMovesOn DEF Known
<1>4. SetTyped' /\ LeaseOK'
    BY <1>1, <1>2, <1>3 DEF SetTyped, LeaseOK
<1>5. LaunchOK'
    <2>1. launch'[j] = "issued" /\ \A i \in SetJobs : i # j => launch'[i] = launch[i]
        BY <1>1 DEF SetTyped
    <2> QED
        BY <1>1, <1>2, <1>3, <2>1 DEF LaunchOK, Secret
<1>6. BytesOutliveCommit'
    BY <1>1, <1>2, <1>3 DEF BytesOutliveCommit, Open
<1> QED
    BY <1>3, <1>4, <1>5, <1>6

LEMMA ResolveKeeps ==
    ASSUME SetInv, NEW j \in SetJobs, Resolve(j) \/ DispatchRefused(j)
    PROVE  SetInv'
<1> USE DEF SetInv
<1>1. /\ committed[j] \in {"open", "starting"}
      /\ committed' = [committed EXCEPT ![j] = "resolved"]
      /\ UNCHANGED <<request, staged, lease, prepared, owned, admission, told, launch,
                     spoiled, exposed, doubted, overdue>>
    BY DEF Resolve, DispatchRefused, Open, histories
<1>2. /\ OneRow' /\ committed' \in [SetJobs -> RowStates]
      /\ AdmissionOK' /\ ToldOK' /\ AnswersTrue'
      /\ committed'[j] = "resolved"
      /\ \A i \in SetJobs : i # j => committed'[i] = committed[i]
    BY <1>1, RowMovesOn DEF Known
<1>3. SetTyped' /\ LeaseOK'
    BY <1>1, <1>2 DEF SetTyped, LeaseOK
<1>4. LaunchOK'
    BY <1>1, <1>2 DEF LaunchOK, Secret
<1>5. BytesOutliveCommit'
    BY <1>1, <1>2 DEF BytesOutliveCommit, Open
<1> QED
    BY <1>2, <1>3, <1>4, <1>5

\* The launching thread of Job j: it verifies, gives up, or launches.
LEMMA LaunchStepKeeps ==
    ASSUME SetInv, NEW j \in SetJobs, VerifyIssued(j) \/ LaunchAbandoned(j) \/ Launch(j)
    PROVE  SetInv'
<1> USE DEF SetInv
<1>1. PICK to \in {"none", "verified", "launched"} :
        /\ launch' = [launch EXCEPT ![j] = to] /\ launch[j] # "none"
        /\ to = "verified" => VerifyEffectiveInputSet(j) /\ Adopt(j)
        /\ to # "verified" => UNCHANGED <<owned, prepared>>
    BY DEF VerifyIssued, LaunchAbandoned, Launch
<1>2. UNCHANGED <<request, staged, lease, committed, admission, told,
                  spoiled, exposed, doubted, overdue>>
    BY DEF VerifyIssued, LaunchAbandoned, Launch, histories
<1>3. /\ prepared' \cup owned' = prepared \cup owned /\ owned \subseteq owned'
      /\ prepared' \subseteq SetJobs /\ owned' \subseteq SetJobs
      /\ \A i \in SetJobs : i # j => (i \in prepared' <=> i \in prepared)
      /\ to = "verified" => j \in owned' /\ j \notin spoiled
    BY <1>1, AdoptMoves DEF SetTyped, VerifyEffectiveInputSet
<1>4. launch'[j] = to /\ \A i \in SetJobs : i # j => launch'[i] = launch[i]
    BY <1>1 DEF SetTyped
<1>5. SetTyped' /\ LeaseOK'
    BY <1>1, <1>2, <1>3 DEF SetTyped, LeaseOK
<1>6. LaunchOK'
    BY <1>1, <1>2, <1>3, <1>4 DEF LaunchOK, Secret
<1>7. AdmissionOK'
    <2>1. admission.at = "submit" => admission.job # j
        BY <1>1 DEF AdmissionOK, LaunchOK, Known
    <2>2. admission.at = "submit" => admission.job \in SetJobs
        BY AdmissionFields
    <2> QED
        BY <1>2, <1>3, <2>1, <2>2, RowsKept DEF AdmissionOK
<1>8. BytesOutliveCommit'
    BY <1>2, <1>3, RowsKept DEF BytesOutliveCommit
<1> QED
    BY <1>2, <1>5, <1>6, <1>7, <1>8, RowsKept, ToldStays

LEMMA SweepPreparedKeeps ==
    ASSUME SetInv, NEW j \in SetJobs, SweepPrepared(j)
    PROVE  SetInv'
<1> USE DEF SetInv
<1>1. /\ UNCHANGED <<request, staged, lease, committed, admission, told, launch,
                     spoiled, exposed, doubted>>
      /\ \/ /\ committed[j] = "resolved"
            /\ prepared' = prepared \ {j} /\ UNCHANGED <<owned, overdue>>
         \/ Known(j) /\ Adopt(j) /\ UNCHANGED overdue
         \/ /\ ~Known(j) /\ prepared' = prepared \ {j} /\ UNCHANGED owned
            /\ overdue' = IF InFlight(j) THEN overdue \cup {j} ELSE overdue
    BY DEF SweepPrepared
<1>2. /\ prepared' \subseteq SetJobs /\ owned' \subseteq SetJobs /\ overdue \subseteq overdue'
      /\ owned \subseteq owned'
      /\ \A i \in SetJobs : i # j => (i \in prepared' <=> i \in prepared)
      /\ \A i \in SetJobs : Open(i) /\ i \in prepared \cup owned => i \in prepared' \cup owned'
      /\ ~Known(j) /\ InFlight(j) => j \in overdue'
    BY <1>1, AdoptMoves DEF SetTyped, Open, Known
<1>3. SetTyped' /\ LeaseOK'
    BY <1>1, <1>2 DEF SetTyped, LeaseOK
<1>4. BytesOutliveCommit'
    BY <1>1, <1>2, RowsKept DEF BytesOutliveCommit
<1>5. AdmissionOK'
    <2>1. admission.at = "submit" => admission.job \in prepared' \cup overdue'
        <3> SUFFICES ASSUME admission.at = "submit" PROVE admission.job \in prepared' \cup overdue'
            OBVIOUS
        <3>1. admission # Resting /\ admission.job \in SetJobs
            BY AdmissionFields
        <3>2. ~Known(admission.job) /\ InFlight(admission.job)
            BY <3>1 DEF AdmissionOK, InFlight
        <3> QED
            BY <1>2, <3>1, <3>2 DEF AdmissionOK
    <2> QED
        BY <1>1, <2>1, RowsKept DEF AdmissionOK
<1> QED
    BY <1>1, <1>2, <1>3, <1>4, <1>5, RowsKept, ToldStays, LaunchKept

\* A sweep of owned credential sets may come between a verification and the
\* launch, but only for a Job that is over.
LEMMA SweepOwnedKeeps ==
    ASSUME SetInv, NEW j \in SetJobs, SweepOwned(j)
    PROVE  SetInv'
<1> USE DEF SetInv
<1>1. /\ committed[j] = "resolved" /\ Secret(j) /\ owned' = owned \ {j}
      /\ UNCHANGED <<request, staged, lease, prepared, committed, admission, told, launch,
                     spoiled, exposed, doubted, overdue>>
    BY DEF SweepOwned, histories
<1>2. SetTyped' /\ LeaseOK' /\ AdmissionOK'
    BY <1>1, RowsKept DEF SetTyped, LeaseOK, AdmissionOK
<1>3. BytesOutliveCommit'
    BY <1>1, RowsKept DEF BytesOutliveCommit, Open
<1>4. LaunchOK'
    BY <1>1 DEF LaunchOK, Secret
<1> QED
    BY <1>1, <1>2, <1>3, <1>4, RowsKept, ToldStays

LEMMA SweepLeaseKeeps ==
    ASSUME SetInv, NEW j \in SetJobs, SweepLease(j)
    PROVE  SetInv'
<1> USE DEF SetInv
<1>1. /\ lease[j] = "free" /\ staged' = staged \ {j} /\ lease' = [lease EXCEPT ![j] = "none"]
      /\ UNCHANGED <<request, prepared, owned, committed, admission, told, launch,
                     spoiled, exposed, doubted, overdue>>
    BY DEF SweepLease, histories
<1>2. SetTyped' /\ AdmissionOK'
    BY <1>1, RowsKept DEF SetTyped, AdmissionOK
<1>3. LeaseOK'
    BY <1>1, AdmissionFields DEF LeaseOK, SetTyped
<1>4. BytesOutliveCommit'
    BY <1>1, RowsKept DEF BytesOutliveCommit
<1> QED
    BY <1>1, <1>2, <1>3, <1>4, RowsKept, ToldStays, LaunchKept

\* Altering a file moves nothing, and a thread that has verified the set is
\* recorded as exposed.
LEMMA SpoilKeeps ==
    ASSUME SetInv,
           UNCHANGED <<request, staged, lease, prepared, owned, committed, admission, told, launch,
                       doubted, overdue>>,
           \/ UNCHANGED <<spoiled, exposed>>
           \/ \E j \in SetJobs :
                 /\ spoiled' = spoiled \cup {j}
                 /\ exposed' = IF launch[j] = "verified" THEN exposed \cup {j} ELSE exposed
    PROVE  SetInv'
<1> USE DEF SetInv
<1>1. SetTyped' /\ LeaseOK' /\ AdmissionOK'
    BY RowsKept DEF SetTyped, LeaseOK, AdmissionOK
<1>2. BytesOutliveCommit'
    BY RowsKept DEF BytesOutliveCommit
<1>3. LaunchOK'
    BY DEF LaunchOK, Secret
<1> QED
    BY <1>1, <1>2, <1>3, RowsKept, ToldStays

LEMMA SetCrashKeeps ==
    ASSUME SetInv, SetCrash
    PROVE  SetInv'
<1> USE DEF SetInv
<1>1. /\ lease' = [j \in SetJobs |-> IF lease[j] = "held" THEN "free" ELSE lease[j]]
      /\ admission' = Resting /\ told' = [what |-> "none"]
      /\ UNCHANGED <<request, staged, prepared, owned, committed, launch,
                     spoiled, exposed, doubted, overdue>>
    BY DEF SetCrash, histories
<1>2. \A j \in SetJobs : lease'[j] \in {"none", "free"}
    BY <1>1 DEF SetTyped
<1>3. SetTyped'
    BY <1>1, <1>2 DEF SetTyped
<1>4. Resting.at = "idle" /\ told'.what = "none"
    BY <1>1, AdmissionFields
<1>5. AdmissionOK' /\ LeaseOK' /\ ToldOK' /\ AnswersTrue'
    BY <1>1, <1>2, <1>4 DEF AdmissionOK, LeaseOK, ToldOK, AnswersTrue
<1>6. BytesOutliveCommit'
    BY <1>1, RowsKept DEF BytesOutliveCommit
<1> QED
    BY <1>1, <1>3, <1>5, <1>6, RowsKept, LaunchKept

LEMMA SetStep == SetInv /\ [SetNext]_setVars => SetInv'
<1> SUFFICES ASSUME SetInv, [SetNext]_setVars PROVE SetInv'
    OBVIOUS
<1>1. CASE UNCHANGED setVars
    BY <1>1, SpoilKeeps DEF setVars
<1>2. CASE \E s \in Submissions : ReplayProposal(s)
    BY <1>2, ReplayKeeps
<1>3. CASE \E s \in Submissions, j \in SetJobs : StageBindings(s, j) \/ RivalCommits(s, j)
    BY <1>3, StageKeeps, RivalKeeps
<1>4. CASE StagingFails \/ PublishSet \/ SubmitCreated \/ SubmitRefused \/ AdoptAdmitted \/ SetCrash
    BY <1>4, StagingFailsKeeps, PublishKeeps, SubmitCreatedKeeps, SubmitRefusedKeeps,
       AdoptAdmittedKeeps, SetCrashKeeps
<1>5. CASE \E b \in BOOLEAN : CommitFails(b) \/ ReadBack(b)
    BY <1>5, CommitFailsKeeps, ReadBackKeeps
<1>6. CASE \E j \in SetJobs : DispatchRefused(j) \/ DispatchIssued(j) \/ Resolve(j)
    BY <1>6, DispatchIssuedKeeps, ResolveKeeps
<1>7. CASE \E j \in SetJobs : VerifyIssued(j) \/ LaunchAbandoned(j) \/ Launch(j)
    BY <1>7, LaunchStepKeeps
<1>8. CASE \E j \in SetJobs : Spoil(j)
    BY <1>8, SpoilKeeps DEF Spoil
<1>9. CASE \E j \in SetJobs : SweepPrepared(j) \/ SweepOwned(j) \/ SweepLease(j)
    BY <1>9, SweepPreparedKeeps, SweepOwnedKeeps, SweepLeaseKeeps
<1> QED
    BY <1>1, <1>2, <1>3, <1>4, <1>5, <1>6, <1>7, <1>8, <1>9 DEF SetNext

\* The admission in flight knows whether its row exists, one key has one row,
\* and a launching thread what it has verified, whatever crashes, races or is
\* swept.
THEOREM SetInvariant == SetSpec => []SetInv
<1>1. SetInit => SetInv
    BY SetStarts
<1>2. SetInv /\ [SetNext]_setVars => SetInv'
    BY SetStep
<1> QED
    BY <1>1, <1>2, PTL DEF SetSpec

\* Leases are held only by an admission in flight, whose staged bytes exist,
\* and a launch is under way only for a row that was open
\* (materialize_*_bindings, the sweep, dispatch_attempt).
THEOREM SetTypes == SetSpec => []SetTypeOK
<1>1. SetInv => SetTypeOK
    <2> SUFFICES ASSUME SetInv PROVE SetTypeOK
        OBVIOUS
    <2> USE DEF SetInv
    <2>1. ASSUME NEW j \in SetJobs, lease[j] = "held" PROVE InFlight(j)
        BY <2>1, AdmissionFields DEF LeaseOK, InFlight
    <2> QED
        BY <2>1 DEF SetTypeOK, SetTyped, LeaseOK, LaunchOK, RowStates
<1> QED
    BY <1>1, SetInvariant, PTL

\* A committed Job that has not ended has its bytes, for any number of Jobs
\* and submissions, unless its own commit was reported as an error or came
\* later than the stale age (admit_new_job_with_*, the sweep).
THEOREM SetBytes == SetSpec => []BytesOutliveCommit
<1>1. SetInv => BytesOutliveCommit
    BY DEF SetInv
<1> QED
    BY <1>1, SetInvariant, PTL

\* What the client is told about its request is true when it is told, whether
\* the row was created, found, read back or refused, for any number of rivals
\* and of plans one request resolves to (submit_preallocated).
THEOREM SetAnswers == SetSpec => []AnswersTrue
<1>1. SetInv => AnswersTrue
    BY DEF SetInv
<1> QED
    BY <1>1, SetInvariant, PTL

\* A launch finds the Job's own set with its committed bytes, unless they were
\* altered after the last look or the Job was resolved and its credentials
\* were retired in the meantime, for any number of Jobs (dispatch_attempt, the
\* sweep of credential sets).
THEOREM SetLaunches == SetSpec => LaunchFindsBytes
<1>1. ASSUME SetInv
      PROVE  [\A j \in SetJobs : launch[j] = "verified" /\ launch'[j] = "launched" =>
                 /\ j \in owned \/ (committed[j] = "resolved" /\ Secret(j))
                 /\ j \in spoiled => j \in exposed]_setVars
    BY <1>1 DEF SetInv, LaunchOK
<1> QED
    BY <1>1, SetInvariant, PTL DEF LaunchFindsBytes

-----------------------------------------------------------------------------
(* Workspaces.  The lifecycle lock makes one operation the only writer of  *)
(* records and refs, but its steps are apart, and crashes, failures and    *)
(* lost directories leave states between them.  OpHeld says what the       *)
(* operation has seen and may rely on; Grounded, that a repository which   *)
(* something was opened from is not replaced by another of its name.       *)

CloseOp ==
    [at : Ats, w : Workspaces, force : BOOLEAN, missing : BOOLEAN,
     expected : Digests \cup {None}, digest : Digests \cup {None}, head : Commits \cup {None}]
OpenOp == [at : {"open"}, w : Workspaces]
Records == {NoRecord, OpenRecord} \cup {ClosedRecord(d) : d \in Digests \cup {None}}
Answers == {None} \cup [w : Workspaces, expected : Digests \cup {None}, result : CloseResults]

WorkspaceTyped ==
    /\ record \in [Workspaces -> Records]
    /\ dirs \subseteq Workspaces /\ dirty \subseteq Workspaces
    /\ tip \in [Workspaces -> Commits]
    /\ rescue \in [Workspaces -> Commits \cup {None}]
    /\ linked \subseteq Workspaces /\ caches \subseteq Workspaces /\ active \subseteq Workspaces
    /\ source \in [Workspaces -> Places] /\ common \in [Workspaces -> Places]
    /\ op \in {NoOperation} \cup OpenOp \cup CloseOp
    /\ answer \in Answers

OpHeld ==
    /\ op.at = "open" => /\ record[op.w].state = "none" /\ op.w \in linked
                         /\ \A v \in Workspaces : common[v] # op.w
    /\ op.at \in Ats \ {"close"} => record[op.w].state = "open"
    /\ op.at \in Ats /\ Present(op.w) => \A d \in Workspaces \ {op.w} :
           record[d].state = "open" /\ Present(d) => common[d] # op.w
    /\ op.at \in {"remove", "unlink", "tombstone"} => op.w \notin caches
    /\ op.at \in {"remove", "unlink"} => ~op.missing
    /\ op.at \in {"unlink", "tombstone"} => ~Present(op.w)
    /\ op.at \in Ats => (op.missing => ~Present(op.w))

Grounded ==
    \A v, w \in Workspaces : common[v] = w /\ record[w].state = "none" => Present(w)

ClosedGone ==
    \A w \in Workspaces : record[w].state = "closed" => ~Present(w) /\ w \notin caches

\* The commits of a Workspace are kept, if nobody deletes directories: the
\* close knows the commit it found, and a recorded Workspace is absent only
\* after its commit had a ref.
Rescued(w) == tip[w] \in {Base, rescue[w]}
AbsentRescued ==
    \A w \in Workspaces :
        record[w].state # "none" /\ ~Present(w) /\ Exists(common[w]) => Rescued(w)
HeadSeen ==
    /\ op.at = "open" => Present(op.w)
    /\ op.at \in Ats => op.w \notin active
    /\ op.at = "rescue" => IF op.missing THEN op.head \in {None, rescue[op.w], tip[op.w]}
                                         ELSE op.head = tip[op.w]
    /\ op.at \in {"clean", "remove"} /\ ~op.missing => Rescued(op.w)
CommitsKept == "lose" \notin WorkspaceFaults => HeadSeen /\ AbsentRescued

WorkspaceInv ==
    /\ WorkspaceTyped /\ AuthorityAlive /\ OpHeld /\ Grounded /\ ClosedGone /\ CommitsKept

\* What the lock holder has, by the statement it is at.
LEMMA OpFields ==
    ASSUME WorkspaceTyped
    PROVE  /\ NoOperation.at = "idle" /\ "idle" \notin Ats /\ "open" \notin Ats
           /\ op = NoOperation <=> op.at = "idle"
           /\ op.at = "open" => op \in OpenOp
           /\ op.at \in Ats => op \in CloseOp
           /\ op # NoOperation => op.w \in Workspaces
           /\ op.at \in Ats \cup {"idle", "open"}
<1>1. op \in {NoOperation} \cup OpenOp \cup CloseOp
    BY DEF WorkspaceTyped
<1> QED
    BY <1>1 DEF NoOperation, OpenOp, CloseOp, Ats

LEMMA RecordStates ==
    /\ NoRecord \in Records /\ OpenRecord \in Records
    /\ \A d \in Digests \cup {None} : ClosedRecord(d) \in Records
    /\ NoRecord.state = "none" /\ OpenRecord.state = "open"
    /\ \A d : ClosedRecord(d).state = "closed"
    /\ \A r \in Records : r.state \in {"none", "open", "closed"} /\ (r.state = "none" => r = NoRecord)
<1>1. NoRecord \in Records /\ OpenRecord \in Records
    BY DEF Records
<1>2. \A d \in Digests \cup {None} : ClosedRecord(d) \in Records
    BY DEF Records
<1>3. NoRecord.state = "none" /\ OpenRecord.state = "open" /\ \A d : ClosedRecord(d).state = "closed"
    BY DEF NoRecord, OpenRecord, ClosedRecord
<1>4. ASSUME NEW r \in Records
      PROVE  r.state \in {"none", "open", "closed"} /\ (r.state = "none" => r = NoRecord)
    <2>1. r = NoRecord \/ r = OpenRecord \/ \E d \in Digests \cup {None} : r = ClosedRecord(d)
        BY <1>4 DEF Records
    <2> QED
        BY <1>3, <2>1
<1> QED
    BY <1>1, <1>2, <1>3, <1>4

LEMMA OpMoves ==
    ASSUME op \in CloseOp, NEW at \in Ats, op' = [op EXCEPT !.at = at]
    PROVE  /\ op' \in CloseOp /\ op'.at = at /\ op'.w = op.w /\ op'.missing = op.missing
           /\ op'.head = op.head /\ op'.digest = op.digest
BY DEF CloseOp

LEMMA AnswerTyped ==
    ASSUME op \in CloseOp, NEW result \in CloseResults, AnswerClose(result)
    PROVE  op' = NoOperation /\ answer' \in Answers
BY DEF AnswerClose, CloseOp, Answers

LEMMA WorkspaceStarts == WorkspaceInit => WorkspaceInv
<1> SUFFICES ASSUME WorkspaceInit PROVE WorkspaceInv
    OBVIOUS
<1>1. /\ op.at = "idle" /\ "idle" \notin Ats
      /\ \A w \in Workspaces : record[w].state = "none" /\ common[w] = Upstream /\ w # Upstream
    BY WorkspaceAssumption DEF WorkspaceInit, NoOperation, Ats, NoRecord
<1>2. WorkspaceTyped
    <2>1. Base \in Commits /\ Upstream \in Places
        BY WorkspaceAssumption DEF Base, Commits, Places
    <2> QED
        BY <2>1, RecordStates DEF WorkspaceInit, WorkspaceTyped, Answers
<1>3. AuthorityAlive /\ ClosedGone /\ AbsentRescued
    BY <1>1 DEF AuthorityAlive, ClosedGone, AbsentRescued
<1>4. OpHeld /\ HeadSeen
    BY <1>1 DEF OpHeld, HeadSeen, Ats
<1>5. Grounded
    BY <1>1 DEF Grounded
<1> QED
    BY <1>2, <1>3, <1>4, <1>5 DEF WorkspaceInv, CommitsKept

\* A step of the lock holder that changes no record, directory or ref.
LEMMA QuietStep ==
    ASSUME WorkspaceInv, UNCHANGED <<record, dirs, tip, linked, rescue, common>>, caches' \subseteq caches
    PROVE  /\ AuthorityAlive' /\ Grounded' /\ ClosedGone'
           /\ AbsentRescued => AbsentRescued'
<1> USE DEF WorkspaceInv
<1>1. AuthorityAlive' /\ ClosedGone'
    BY DEF AuthorityAlive, ClosedGone, Present
<1>2. Grounded'
    BY DEF Grounded, Present
<1>3. AbsentRescued => AbsentRescued'
    BY DEF AbsentRescued, Present, Exists, Rescued
<1> QED
    BY <1>1, <1>2, <1>3

\* The lock is given back.
LEMMA LockReturned ==
    ASSUME op' = NoOperation
    PROVE  OpHeld' /\ HeadSeen'
<1>1. op'.at = "idle"
    BY DEF NoOperation
<1>2. "idle" \notin Ats
    BY DEF Ats
<1> QED
    BY <1>1, <1>2 DEF OpHeld, HeadSeen

\* An early return, a failed step and a crash leave everything but caches.
LEMMA GivesUp ==
    ASSUME WorkspaceInv, op' = NoOperation, answer' \in Answers, caches' \subseteq caches,
           UNCHANGED <<record, dirs, dirty, tip, linked, rescue, source, common, active>>
    PROVE  WorkspaceInv'
<1> USE DEF WorkspaceInv
<1>1. WorkspaceTyped'
    BY DEF WorkspaceTyped
<1>2. OpHeld' /\ HeadSeen'
    BY LockReturned
<1>3. /\ AuthorityAlive' /\ Grounded' /\ ClosedGone'
      /\ AbsentRescued => AbsentRescued'
    BY QuietStep
<1> QED
    BY <1>1, <1>2, <1>3 DEF CommitsKept

LEMMA OpenAddKeeps ==
    ASSUME WorkspaceInv, NEW w \in Workspaces, NEW p \in Places, NEW nested \in BOOLEAN,
           OpenAdd(w, p, nested)
    PROVE  WorkspaceInv'
<1> USE DEF WorkspaceInv
<1>1. PICK c : c = IF p = Upstream \/ nested THEN p ELSE common[p]
    OBVIOUS
<1>2. /\ op = NoOperation /\ record[w] = NoRecord /\ ~Present(w)
      /\ p # w /\ Exists(p)
      /\ source' = [source EXCEPT ![w] = p]
      /\ common' = [common EXCEPT ![w] = c]
      /\ dirs' = dirs \cup {w} /\ linked' = linked \cup {w}
      /\ op' = [at |-> "open", w |-> w]
      /\ UNCHANGED <<record, dirty, tip, rescue, caches, active, answer>>
    BY <1>1 DEF OpenAdd
<1>3. record[w].state = "none"
    BY <1>2, RecordStates
<1>4. p \in Workspaces \/ p = Upstream
    BY DEF Places
<1>5. common \in [Workspaces -> Places]
    BY DEF WorkspaceTyped
<1>6. \A v \in Workspaces : common[v] # w
    BY <1>2, <1>3 DEF Grounded
<1>7. c \in Places /\ c # w
    BY <1>1, <1>2, <1>4, <1>5, <1>6
<1>8. op' \in OpenOp /\ op'.at = "open" /\ op'.w = w
    BY <1>2 DEF OpenOp
<1>9. \A v \in Workspaces : common'[v] = IF v = w THEN c ELSE common[v]
    BY <1>2, <1>5
<1>10. c \in Workspaces /\ record[c].state = "none" => Present(c)
    <2>1. CASE c = p
        BY <1>2, <2>1, WorkspaceAssumption DEF Exists
    <2>2. CASE c # p
        BY <1>1, <1>4, <2>2 DEF Grounded
    <2> QED
        BY <2>1, <2>2
<1>11. WorkspaceTyped'
    BY <1>2, <1>7, <1>8 DEF WorkspaceTyped
<1>12. AuthorityAlive'
    BY <1>2 DEF AuthorityAlive, Present
<1>13. OpHeld'
    <2>1. \A v \in Workspaces : common'[v] # w
        BY <1>6, <1>7, <1>9
    <2> QED
        BY <1>2, <1>3, <1>8, <2>1 DEF OpHeld, Ats
<1>14. Grounded'
    <2> SUFFICES ASSUME NEW v \in Workspaces, NEW u \in Workspaces,
                        common'[v] = u, record[u].state = "none"
                 PROVE  u \in dirs'
        BY <1>2 DEF Grounded, Present
    <2>1. CASE v = w
        BY <1>2, <1>9, <1>10, <2>1 DEF Present
    <2>2. CASE v # w
        BY <1>2, <1>9, <2>2 DEF Grounded, Present
    <2> QED
        BY <2>1, <2>2
<1>15. ClosedGone'
    BY <1>2, <1>3 DEF ClosedGone, Present
<1>16. HeadSeen'
    BY <1>2, <1>8 DEF HeadSeen, Present, Ats
<1>17. AbsentRescued => AbsentRescued'
    <2> SUFFICES ASSUME AbsentRescued, NEW v \in Workspaces,
                        record[v].state # "none", v \notin dirs', (Exists(common[v]))'
                 PROVE  (Rescued(v))'
        BY <1>2 DEF AbsentRescued, Present
    <2>1. v # w /\ ~Present(v)
        BY <1>2 DEF Present
    <2>2. common'[v] = common[v] /\ common[v] # w
        BY <1>6, <1>9, <2>1
    <2>3. Exists(common[v])
        BY <1>2, <2>2 DEF Exists, Present
    <2>4. Rescued(v)
        BY <2>1, <2>3 DEF AbsentRescued
    <2> QED
        BY <1>2, <2>4 DEF Rescued
<1> QED
    BY <1>11, <1>12, <1>13, <1>14, <1>15, <1>16, <1>17 DEF CommitsKept

LEMMA OpenWriteRecordKeeps ==
    ASSUME WorkspaceInv, OpenWriteRecord
    PROVE  WorkspaceInv'
<1> USE DEF WorkspaceInv
<1>1. /\ op.at = "open" /\ record' = [record EXCEPT ![op.w] = OpenRecord] /\ op' = NoOperation
      /\ UNCHANGED <<dirs, dirty, tip, linked, rescue, caches, source, common, active, answer>>
    BY DEF OpenWriteRecord
<1>2. PICK w \in Workspaces : w = op.w
    BY <1>1, OpFields
<1>3. \A v \in Workspaces : record'[v] = IF v = w THEN OpenRecord ELSE record[v]
    BY <1>1, <1>2 DEF WorkspaceTyped
<1>4. w \in linked
    BY <1>1, <1>2 DEF OpHeld
<1>5. OpenRecord.state = "open" /\ OpenRecord \in Records
    BY RecordStates
<1>6. WorkspaceTyped'
    BY <1>1, <1>2, <1>5 DEF WorkspaceTyped
<1>7. AuthorityAlive'
    BY <1>1, <1>3, <1>4 DEF AuthorityAlive, Present
<1>8. OpHeld' /\ HeadSeen'
    BY <1>1, LockReturned
<1>9. Grounded'
    BY <1>1, <1>3, <1>5 DEF Grounded, Present
<1>10. ClosedGone'
    BY <1>1, <1>3, <1>5 DEF ClosedGone, Present
<1>11. HeadSeen /\ AbsentRescued => AbsentRescued'
    BY <1>1, <1>2, <1>3, <1>5 DEF AbsentRescued, HeadSeen, Present, Exists, Rescued
<1> QED
    BY <1>6, <1>7, <1>8, <1>9, <1>10, <1>11 DEF CommitsKept

\* The directory of w goes, with its Git entry or without, and no
\* repository of another Workspace lies in it.
LEMMA DirectoryGoes ==
    ASSUME WorkspaceInv, NEW w \in Workspaces,
           dirs' = dirs \ {w}, linked' \in {linked, linked \ {w}},
           \A v \in Workspaces : common[v] # w,
           UNCHANGED <<record, tip, rescue, caches, common>>
    PROVE  /\ AuthorityAlive' /\ Grounded' /\ ClosedGone'
           /\ AbsentRescued /\ record[w].state = "none" => AbsentRescued'
<1> USE DEF WorkspaceInv
<1>1. AuthorityAlive' /\ ClosedGone'
    BY DEF AuthorityAlive, ClosedGone, Present
<1>2. Grounded'
    BY DEF Grounded, Present
<1>3. AbsentRescued /\ record[w].state = "none" => AbsentRescued'
    BY DEF AbsentRescued, Present, Exists, Rescued
<1> QED
    BY <1>1, <1>2, <1>3

LEMMA OpenUndoKeeps ==
    ASSUME WorkspaceInv, OpenUndo
    PROVE  WorkspaceInv'
<1> USE DEF WorkspaceInv
<1>1. /\ op.at = "open" /\ op' = NoOperation
      /\ \/ dirs' = dirs \ {op.w} /\ linked' = linked \ {op.w}
         \/ UNCHANGED <<dirs, linked>>
      /\ UNCHANGED <<record, dirty, tip, rescue, caches, source, common, active, answer>>
    BY DEF OpenUndo
<1>2. PICK w \in Workspaces : w = op.w
    BY <1>1, OpFields
<1>3. record[w].state = "none" /\ \A v \in Workspaces : common[v] # w
    BY <1>1, <1>2 DEF OpHeld
<1>4. WorkspaceTyped'
    BY <1>1 DEF WorkspaceTyped
<1>5. OpHeld' /\ HeadSeen'
    BY <1>1, LockReturned
<1>6. AuthorityAlive' /\ Grounded' /\ ClosedGone' /\ (AbsentRescued => AbsentRescued')
    <2>1. CASE dirs' = dirs \ {op.w} /\ linked' = linked \ {op.w}
        BY <1>1, <1>2, <1>3, <2>1, DirectoryGoes
    <2>2. CASE UNCHANGED <<dirs, linked>>
        BY <1>1, <2>2, QuietStep
    <2> QED
        BY <1>1, <2>1, <2>2
<1> QED
    BY <1>4, <1>5, <1>6 DEF CommitsKept

LEMMA LoseKeeps ==
    ASSUME WorkspaceInv, NEW w \in Workspaces, Lose(w)
    PROVE  WorkspaceInv'
<1> USE DEF WorkspaceInv
<1>1. /\ "lose" \in WorkspaceFaults /\ dirs' = dirs \ {w}
      /\ \A v \in Workspaces : common[v] # w
      /\ UNCHANGED <<record, dirty, tip, linked, rescue, caches, source, common, active, op, answer>>
    BY DEF Lose
<1>2. WorkspaceTyped'
    BY <1>1 DEF WorkspaceTyped
<1>3. AuthorityAlive' /\ Grounded' /\ ClosedGone'
    BY <1>1, DirectoryGoes
<1>4. OpHeld'
    BY <1>1 DEF OpHeld, Present
<1> QED
    BY <1>1, <1>2, <1>3, <1>4 DEF CommitsKept

LEMMA AdmitKeeps ==
    ASSUME WorkspaceInv, NEW w \in Workspaces, Admit(w)
    PROVE  WorkspaceInv'
<1> USE DEF WorkspaceInv
<1>1. /\ op = NoOperation /\ record[w].state = "open"
      /\ active' = active \cup {w} /\ caches' = caches \cup {w}
      /\ UNCHANGED <<record, dirs, dirty, tip, linked, rescue, source, common, op, answer>>
    BY DEF Admit
<1>2. WorkspaceTyped'
    BY <1>1 DEF WorkspaceTyped
<1>3. OpHeld' /\ HeadSeen'
    BY <1>1, LockReturned
<1>4. AuthorityAlive' /\ Grounded' /\ ClosedGone'
    BY <1>1 DEF AuthorityAlive, Grounded, ClosedGone, Present
<1>5. AbsentRescued => AbsentRescued'
    BY <1>1 DEF AbsentRescued, Present, Exists, Rescued
<1> QED
    BY <1>2, <1>3, <1>4, <1>5 DEF CommitsKept

LEMMA WorkKeeps ==
    ASSUME WorkspaceInv, NEW w \in Workspaces, Work(w)
    PROVE  WorkspaceInv'
<1> USE DEF WorkspaceInv
<1>1. /\ w \in active /\ Present(w)
      /\ tip' = tip \/ (tip[w] < MaxCommit /\ tip' = [tip EXCEPT ![w] = tip[w] + 1])
      /\ dirty' \in {dirty \cup {w}, dirty \ {w}}
      /\ UNCHANGED <<record, dirs, linked, rescue, caches, source, common, active, op, answer>>
    BY DEF Work
<1>2. tip \in [Workspaces -> Commits]
    BY DEF WorkspaceTyped
<1>3. tip' \in [Workspaces -> Commits] /\ \A v \in Workspaces : v # w => tip'[v] = tip[v]
    <2>1. tip[w] < MaxCommit => tip[w] + 1 \in Commits
        BY <1>2, WorkspaceAssumption DEF Commits
    <2> QED
        BY <1>1, <1>2, <2>1
<1>4. WorkspaceTyped'
    BY <1>1, <1>3 DEF WorkspaceTyped
<1>5. AuthorityAlive' /\ Grounded' /\ ClosedGone'
    BY <1>1 DEF AuthorityAlive, Grounded, ClosedGone, Present
<1>6. OpHeld'
    BY <1>1 DEF OpHeld, Present
<1>7. HeadSeen => HeadSeen'
    <2> SUFFICES ASSUME HeadSeen PROVE HeadSeen'
        OBVIOUS
    <2>1. CASE op.at \in Ats
        <3>1. op.w # w /\ op.w \in Workspaces
            BY <1>1, <2>1, OpFields DEF HeadSeen
        <3>2. tip'[op.w] = tip[op.w] /\ rescue'[op.w] = rescue[op.w]
            BY <1>1, <1>3, <3>1
        <3> QED
            BY <1>1, <3>2 DEF HeadSeen, Present, Rescued
    <2>2. CASE op.at \notin Ats
        BY <1>1, <2>2 DEF HeadSeen, Present, Ats
    <2> QED
        BY <2>1, <2>2
<1>8. AbsentRescued => AbsentRescued'
    BY <1>1, <1>3 DEF AbsentRescued, Present, Exists, Rescued
<1> QED
    BY <1>4, <1>5, <1>6, <1>7, <1>8 DEF CommitsKept

LEMMA FinishJobKeeps ==
    ASSUME WorkspaceInv, NEW w \in Workspaces, FinishJob(w)
    PROVE  WorkspaceInv'
<1> USE DEF WorkspaceInv
<1>1. /\ active' = active \ {w}
      /\ UNCHANGED <<record, dirs, dirty, tip, linked, rescue, caches, source, common, op, answer>>
    BY DEF FinishJob
<1>2. WorkspaceTyped'
    BY <1>1 DEF WorkspaceTyped
<1>3. OpHeld'
    BY <1>1 DEF OpHeld, Present
<1>4. HeadSeen => HeadSeen'
    BY <1>1 DEF HeadSeen, Present, Rescued
<1>5. /\ AuthorityAlive' /\ Grounded' /\ ClosedGone'
      /\ AbsentRescued => AbsentRescued'
    BY <1>1, QuietStep
<1> QED
    BY <1>2, <1>3, <1>4, <1>5 DEF CommitsKept

LEMMA CloseWorkspaceKeeps ==
    ASSUME WorkspaceInv, NEW w \in Workspaces, NEW f \in BOOLEAN, NEW e \in Digests \cup {None},
           CloseWorkspace(w, f, e)
    PROVE  WorkspaceInv'
<1> USE DEF WorkspaceInv
<1>1. /\ w \notin active /\ WorkspaceCleanupDependents(w) = {}
      /\ op' = Closing(f, e, w) /\ answer' = None
      /\ UNCHANGED <<record, dirs, dirty, tip, linked, rescue, caches, source, common, active>>
    BY DEF CloseWorkspace
<1>2. op' \in CloseOp /\ op'.at = "close" /\ op'.w = w /\ op'.missing = FALSE
    BY <1>1 DEF Closing, CloseOp, Ats
<1>3. WorkspaceTyped'
    BY <1>1, <1>2 DEF WorkspaceTyped, Answers
<1>4. Present(w) => \A d \in Workspaces \ {w} :
                       record[d].state = "open" /\ Present(d) => common[d] # w
    BY <1>1 DEF WorkspaceCleanupDependents, Authority, AuthorityAlive
<1>5. OpHeld'
    BY <1>1, <1>2, <1>4 DEF OpHeld, Present
<1>6. HeadSeen'
    BY <1>1, <1>2 DEF HeadSeen
<1>7. /\ AuthorityAlive' /\ Grounded' /\ ClosedGone'
      /\ AbsentRescued => AbsentRescued'
    BY <1>1, QuietStep
<1> QED
    BY <1>3, <1>5, <1>6, <1>7 DEF CommitsKept

\* The answers of a close that ends before it has removed anything.
LEMMA CloseAnswersKeep ==
    ASSUME WorkspaceInv, CloseAbsent \/ CloseClosed \/ StepFails
    PROVE  WorkspaceInv'
<1> USE DEF WorkspaceInv
<1>1. op.at \in Ats
    BY DEF CloseAbsent, CloseClosed, StepFails, Ats
<1>2. op \in CloseOp
    BY <1>1, OpFields
<1>3. /\ \E result \in CloseResults : AnswerClose(result)
      /\ caches' \subseteq caches
      /\ UNCHANGED <<record, dirs, dirty, tip, linked, rescue, source, common, active>>
    BY DEF CloseAbsent, CloseClosed, StepFails, CloseResults
<1> QED
    BY <1>2, <1>3, AnswerTyped, GivesUp

LEMMA CloseCrashKeeps ==
    ASSUME WorkspaceInv, CloseCrash
    PROVE  WorkspaceInv'
BY GivesUp DEF CloseCrash, Answers

LEMMA CloseMissingKeeps ==
    ASSUME WorkspaceInv, CloseMissing
    PROVE  WorkspaceInv'
<1> USE DEF WorkspaceInv
<1>1. op.at = "close"
    BY DEF CloseMissing
<1>2. op \in CloseOp
    BY <1>1, OpFields DEF Ats
<1>3. PICK w \in Workspaces : w = op.w
    BY <1>2 DEF CloseOp
<1>4. PICK head \in Commits \cup {None} :
         head = RecoverMissingWorkspaceHead(w) /\ head \in {None, rescue[w], tip[w]}
    <2>1. RecoverMissingWorkspaceHead(w) \in {None, rescue[w], tip[w]}
        BY DEF RecoverMissingWorkspaceHead
    <2>2. rescue[w] \in Commits \cup {None} /\ tip[w] \in Commits
        BY DEF WorkspaceTyped
    <2> QED
        BY <2>1, <2>2
<1>5. PICK missing \in BOOLEAN : missing = TRUE
    OBVIOUS
<1>6. PICK at \in Ats : at = "rescue"
    BY DEF Ats
<1>7. /\ op' = [op EXCEPT !.at = at, !.missing = missing, !.head = head]
      /\ record[w].state = "open" /\ ~Present(w)
      /\ UNCHANGED <<record, dirs, dirty, tip, linked, rescue, caches, source, common, active, answer>>
    BY <1>3, <1>4, <1>5, <1>6 DEF CloseMissing
<1>8. /\ op' \in CloseOp /\ op'.at = at /\ op'.w = w /\ op'.missing = missing /\ op'.head = head
    BY <1>2, <1>3, <1>7 DEF CloseOp
<1>9. WorkspaceTyped'
    BY <1>7, <1>8 DEF WorkspaceTyped
<1>10. OpHeld'
    BY <1>1, <1>3, <1>6, <1>7, <1>8 DEF OpHeld, Present, Ats
<1>11. HeadSeen => HeadSeen'
    BY <1>1, <1>3, <1>4, <1>5, <1>6, <1>7, <1>8 DEF HeadSeen, Ats
<1>12. /\ AuthorityAlive' /\ Grounded' /\ ClosedGone'
       /\ AbsentRescued => AbsentRescued'
    BY <1>7, QuietStep
<1> QED
    BY <1>9, <1>10, <1>11, <1>12 DEF CommitsKept

LEMMA ClosePresentKeeps ==
    ASSUME WorkspaceInv, ClosePresent
    PROVE  WorkspaceInv'
<1> USE DEF WorkspaceInv
<1>1. op.at = "close"
    BY DEF ClosePresent
<1>2. op \in CloseOp
    BY <1>1, OpFields DEF Ats
<1>3. PICK w \in Workspaces : w = op.w
    BY <1>2 DEF CloseOp
<1>4. PICK digest \in Digests \cup {None} : digest = SourceState(w) /\ digest.head = tip[w]
    <2>1. PICK flag \in BOOLEAN : flag = (w \in dirty)
        <3>1. (w \in dirty) \in BOOLEAN
            OBVIOUS
        <3> QED
            BY <3>1, Zenon
    <2>2. tip[w] \in Commits
        BY DEF WorkspaceTyped
    <2>3. SourceState(w) = [head |-> tip[w], dirty |-> flag]
        BY <2>1 DEF SourceState
    <2> QED
        BY <2>2, <2>3 DEF Digests
<1>5. PICK at \in Ats : at = "rescue"
    BY DEF Ats
<1>6. PICK head \in Commits \cup {None} : head = tip[w]
    BY DEF WorkspaceTyped
<1>7. /\ record[w].state = "open" /\ Present(w)
      /\ \/ (AnswerClose("mismatch") \/ AnswerClose("dirty"))
         \/ op' = [op EXCEPT !.at = at, !.digest = digest, !.head = head] /\ UNCHANGED answer
      /\ UNCHANGED <<record, dirs, dirty, tip, linked, rescue, caches, source, common, active>>
    BY <1>3, <1>4, <1>5, <1>6 DEF ClosePresent
<1>8. CASE AnswerClose("mismatch") \/ AnswerClose("dirty")
    <2>1. \E result \in CloseResults : AnswerClose(result)
        BY <1>8 DEF CloseResults
    <2> QED
        BY <1>2, <1>7, <2>1, AnswerTyped, GivesUp
<1>9. CASE op' = [op EXCEPT !.at = at, !.digest = digest, !.head = head] /\ UNCHANGED answer
    <2>1. /\ op' \in CloseOp /\ op'.at = at /\ op'.w = w /\ op'.missing = op.missing /\ op'.head = head
        BY <1>2, <1>3, <1>9 DEF CloseOp
    <2>2. WorkspaceTyped'
        BY <1>7, <1>9, <2>1 DEF WorkspaceTyped
    <2>3. ~op.missing
        BY <1>1, <1>3, <1>7 DEF OpHeld, Ats
    <2>4. OpHeld'
        BY <1>1, <1>3, <1>5, <1>7, <2>1, <2>3 DEF OpHeld, Present, Ats
    <2>5. HeadSeen => HeadSeen'
        BY <1>1, <1>3, <1>5, <1>6, <1>7, <2>1, <2>3 DEF HeadSeen, Ats
    <2>6. /\ AuthorityAlive' /\ Grounded' /\ ClosedGone'
          /\ AbsentRescued => AbsentRescued'
        BY <1>7, QuietStep
    <2> QED
        BY <2>2, <2>4, <2>5, <2>6 DEF CommitsKept
<1> QED
    BY <1>7, <1>8, <1>9

\* A rescue ref is written once and for one commit, and before anything is
\* removed.
LEMMA EnsureRescueRefKeeps ==
    ASSUME WorkspaceInv, EnsureRescueRef
    PROVE  WorkspaceInv'
<1> USE DEF WorkspaceInv
<1>1. op.at = "rescue"
    BY DEF EnsureRescueRef
<1>2. op \in CloseOp
    BY <1>1, OpFields DEF Ats
<1>3. PICK w \in Workspaces : w = op.w
    BY <1>2 DEF CloseOp
<1>4. PICK at \in Ats : at = "clean"
    BY DEF Ats
<1>5. /\ AnswerClose("mismatch") \/ (op' = [op EXCEPT !.at = at] /\ UNCHANGED answer)
      /\ \/ rescue' = rescue /\ (op' # NoOperation => op.head \in {None, Base})
         \/ /\ op.head \notin {None, Base} /\ rescue[w] \in {None, op.head}
            /\ rescue' = [rescue EXCEPT ![w] = op.head]
      /\ UNCHANGED <<record, dirs, dirty, tip, linked, caches, source, common, active>>
    BY <1>3, <1>4 DEF EnsureRescueRef, AnswerClose
<1>6. /\ \A v \in Workspaces : v # w => rescue'[v] = rescue[v]
      /\ rescue' \in [Workspaces -> Commits \cup {None}]
      /\ rescue' # rescue => rescue'[w] = op.head
    <2>1. rescue \in [Workspaces -> Commits \cup {None}] /\ op.head \in Commits \cup {None}
        BY <1>2 DEF WorkspaceTyped, CloseOp
    <2> QED
        BY <1>5, <2>1
<1>7. record[w].state = "open"
    BY <1>1, <1>3 DEF OpHeld, Ats
<1>8. HeadSeen /\ rescue' # rescue => rescue'[w] = tip[w]
    <2> SUFFICES ASSUME HeadSeen, rescue' # rescue PROVE rescue'[w] = tip[w]
        OBVIOUS
    <2>1. op.head \notin {None, Base} /\ rescue[w] \in {None, op.head}
        BY <1>5
    <2>2. rescue \in [Workspaces -> Commits \cup {None}]
        BY DEF WorkspaceTyped
    <2>3. rescue[w] # op.head
        BY <1>5, <2>2
    <2>4. op.head = tip[w]
        BY <1>1, <1>3, <2>1, <2>3 DEF HeadSeen
    <2> QED
        BY <1>6, <2>4
<1>9. HeadSeen /\ AbsentRescued => AbsentRescued'
    <2> SUFFICES ASSUME HeadSeen, AbsentRescued, NEW v \in Workspaces, (record[v].state # "none")',
                        ~(Present(v))', (Exists(common[v]))'
                 PROVE  (Rescued(v))'
        BY DEF AbsentRescued
    <2>1. Rescued(v)
        BY <1>5 DEF AbsentRescued, Present, Exists
    <2>2. CASE rescue'[v] = rescue[v]
        BY <1>5, <2>1, <2>2 DEF Rescued
    <2>3. CASE rescue'[v] # rescue[v]
        BY <1>5, <1>6, <1>8, <2>3 DEF Rescued
    <2> QED
        BY <2>2, <2>3
<1>10. AuthorityAlive' /\ Grounded' /\ ClosedGone'
    BY <1>5 DEF AuthorityAlive, Grounded, ClosedGone, Present
<1>11. CASE AnswerClose("mismatch")
    <2>1. \E result \in CloseResults : AnswerClose(result)
        BY <1>11 DEF CloseResults
    <2>2. op' = NoOperation /\ answer' \in Answers
        BY <1>2, <2>1, AnswerTyped
    <2>3. WorkspaceTyped'
        BY <1>5, <1>6, <2>2 DEF WorkspaceTyped
    <2>4. OpHeld' /\ HeadSeen'
        BY <2>2, LockReturned
    <2> QED
        BY <1>9, <1>10, <2>3, <2>4 DEF CommitsKept
<1>12. CASE op' = [op EXCEPT !.at = at] /\ UNCHANGED answer
    <2>1. /\ op' \in CloseOp /\ op'.at = at /\ op'.w = w /\ op'.missing = op.missing
          /\ op'.head = op.head
        BY <1>2, <1>3, <1>12, OpMoves
    <2>2. WorkspaceTyped'
        BY <1>5, <1>6, <1>12, <2>1 DEF WorkspaceTyped
    <2>3. OpHeld'
        BY <1>1, <1>3, <1>4, <1>5, <2>1 DEF OpHeld, Present, Ats
    <2>4. op' # NoOperation
        BY <1>4, <2>1 DEF NoOperation
    <2>5. HeadSeen /\ ~op.missing => (Rescued(w))'
        <3> SUFFICES ASSUME HeadSeen, ~op.missing PROVE (Rescued(w))'
            OBVIOUS
        <3>1. op.head = tip[w] /\ tip[w] \in Commits
            BY <1>1, <1>3 DEF HeadSeen, WorkspaceTyped
        <3>2. CASE rescue' # rescue
            BY <1>5, <1>8, <3>2 DEF Rescued
        <3>3. CASE rescue' = rescue
            <4>1. op.head = Base \/ op.head = None \/ rescue[w] = op.head
                <5>1. rescue \in [Workspaces -> Commits \cup {None}]
                    BY DEF WorkspaceTyped
                <5> QED
                    BY <1>5, <2>4, <3>3, <5>1
            <4>2. op.head # None
                BY <3>1, WorkspaceAssumption DEF Commits
            <4> QED
                BY <1>5, <3>1, <3>3, <4>1, <4>2 DEF Rescued
        <3> QED
            BY <3>2, <3>3
    <2>6. HeadSeen => HeadSeen'
        BY <1>1, <1>3, <1>4, <1>5, <2>1, <2>5 DEF HeadSeen, Ats
    <2> QED
        BY <1>9, <1>10, <2>2, <2>3, <2>6 DEF CommitsKept
<1> QED
    BY <1>5, <1>11, <1>12

LEMMA CleanupKeeps ==
    ASSUME WorkspaceInv, CleanupWorkspaceCaches
    PROVE  WorkspaceInv'
<1> USE DEF WorkspaceInv
<1>1. op.at = "clean"
    BY DEF CleanupWorkspaceCaches
<1>2. op \in CloseOp
    BY <1>1, OpFields DEF Ats
<1>3. PICK w \in Workspaces : w = op.w
    BY <1>2 DEF CloseOp
<1>4. PICK at \in Ats : at = IF op.missing THEN "tombstone" ELSE "remove"
    BY DEF Ats
<1>5. /\ op' = [op EXCEPT !.at = at] /\ caches' = caches \ {w}
      /\ UNCHANGED <<record, dirs, dirty, tip, linked, rescue, source, common, active, answer>>
    BY <1>3, <1>4 DEF CleanupWorkspaceCaches
<1>6. /\ op' \in CloseOp /\ op'.at = at /\ op'.w = w /\ op'.missing = op.missing
    BY <1>2, <1>3, <1>5, OpMoves
<1>7. WorkspaceTyped'
    BY <1>5, <1>6 DEF WorkspaceTyped
<1>8. OpHeld'
    BY <1>1, <1>3, <1>4, <1>5, <1>6 DEF OpHeld, Present, Ats
<1>9. HeadSeen => HeadSeen'
    BY <1>1, <1>3, <1>4, <1>5, <1>6 DEF HeadSeen, Rescued, Ats
<1>10. /\ AuthorityAlive' /\ Grounded' /\ ClosedGone'
       /\ AbsentRescued => AbsentRescued'
    BY <1>5, QuietStep
<1> QED
    BY <1>7, <1>8, <1>9, <1>10 DEF CommitsKept

\* No open Workspace with a directory has its repository in the one that is
\* removed, and the commits of the removed one have their ref.
LEMMA RemoveTreeKeeps ==
    ASSUME WorkspaceInv, RemoveTree
    PROVE  WorkspaceInv'
<1> USE DEF WorkspaceInv
<1>1. op.at = "remove" /\ Present(op.w)
    BY DEF RemoveTree
<1>2. op \in CloseOp
    BY <1>1, OpFields DEF Ats
<1>3. PICK w \in Workspaces : w = op.w
    BY <1>2 DEF CloseOp
<1>4. PICK at \in Ats : at = "unlink"
    BY DEF Ats
<1>5. PICK inside : inside = {v \in Workspaces : common[v] = w}
    OBVIOUS
<1>6. /\ op' = [op EXCEPT !.at = at] /\ dirs' = dirs \ {w} /\ linked' = linked \ inside
      /\ rescue' = [v \in Workspaces |-> IF v \in inside THEN None ELSE rescue[v]]
      /\ UNCHANGED <<record, dirty, tip, caches, source, common, active, answer>>
    BY <1>3, <1>4, <1>5 DEF RemoveTree
<1>7. /\ op' \in CloseOp /\ op'.at = at /\ op'.w = w /\ op'.missing = op.missing
    BY <1>2, <1>3, <1>6, OpMoves
<1>8. WorkspaceTyped'
    BY <1>6, <1>7 DEF WorkspaceTyped
<1>9. \A d \in Workspaces \ {w} : record[d].state = "open" /\ Present(d) => common[d] # w
    BY <1>1, <1>3 DEF OpHeld, Ats
<1>10. record[w].state = "open" /\ w \notin caches /\ ~op.missing
    BY <1>1, <1>3 DEF OpHeld, Ats
<1>11. AuthorityAlive'
    BY <1>5, <1>6, <1>9 DEF AuthorityAlive, Present
<1>12. OpHeld'
    BY <1>4, <1>6, <1>7, <1>9, <1>10 DEF OpHeld, Present, Ats
<1>13. Grounded' /\ ClosedGone'
    BY <1>6, <1>10 DEF Grounded, ClosedGone, Present
<1>14. HeadSeen => HeadSeen'
    BY <1>1, <1>3, <1>4, <1>6, <1>7 DEF HeadSeen, Ats
<1>15. HeadSeen /\ AbsentRescued => AbsentRescued'
    <2> SUFFICES ASSUME HeadSeen, AbsentRescued, NEW v \in Workspaces, (record[v].state # "none")',
                        ~(Present(v))', (Exists(common[v]))'
                 PROVE  (Rescued(v))'
        BY DEF AbsentRescued
    <2>1. Exists(common[v]) /\ common[v] # w
        BY <1>6, WorkspaceAssumption DEF Exists, Present
    <2>2. rescue'[v] = rescue[v]
        BY <1>5, <1>6, <2>1
    <2>3. Rescued(v)
        <3>1. CASE v = w
            BY <1>1, <1>3, <1>10, <3>1 DEF HeadSeen
        <3>2. CASE v # w
            BY <1>6, <2>1, <3>2 DEF AbsentRescued, Present
        <3> QED
            BY <3>1, <3>2
    <2> QED
        BY <1>6, <2>2, <2>3 DEF Rescued
<1> QED
    BY <1>8, <1>11, <1>12, <1>13, <1>14, <1>15 DEF CommitsKept

LEMMA UnlinkKeeps ==
    ASSUME WorkspaceInv, Unlink
    PROVE  WorkspaceInv'
<1> USE DEF WorkspaceInv
<1>1. op.at = "unlink"
    BY DEF Unlink
<1>2. op \in CloseOp
    BY <1>1, OpFields DEF Ats
<1>3. PICK w \in Workspaces : w = op.w
    BY <1>2 DEF CloseOp
<1>4. PICK at \in Ats : at = "tombstone"
    BY DEF Ats
<1>5. /\ op' = [op EXCEPT !.at = at] /\ linked' = linked \ {w}
      /\ UNCHANGED <<record, dirs, dirty, tip, rescue, caches, source, common, active, answer>>
    BY <1>3, <1>4 DEF Unlink
<1>6. /\ op' \in CloseOp /\ op'.at = at /\ op'.w = w /\ op'.missing = op.missing
    BY <1>2, <1>3, <1>5, OpMoves
<1>7. WorkspaceTyped'
    BY <1>5, <1>6 DEF WorkspaceTyped
<1>8. ~Present(w)
    BY <1>1, <1>3 DEF OpHeld
<1>9. OpHeld'
    BY <1>1, <1>3, <1>4, <1>5, <1>6 DEF OpHeld, Present, Ats
<1>10. HeadSeen => HeadSeen'
    BY <1>1, <1>3, <1>4, <1>5, <1>6 DEF HeadSeen, Ats
<1>11. AuthorityAlive' /\ Grounded' /\ ClosedGone'
    BY <1>5, <1>8 DEF AuthorityAlive, Grounded, ClosedGone, Present
<1>12. AbsentRescued => AbsentRescued'
    BY <1>5 DEF AbsentRescued, Present, Exists, Rescued
<1> QED
    BY <1>7, <1>9, <1>10, <1>11, <1>12 DEF CommitsKept

LEMMA WriteClosedKeeps ==
    ASSUME WorkspaceInv, WriteClosedWorkspaceRecord
    PROVE  WorkspaceInv'
<1> USE DEF WorkspaceInv
<1>1. op.at = "tombstone"
    BY DEF WriteClosedWorkspaceRecord
<1>2. op \in CloseOp
    BY <1>1, OpFields DEF Ats
<1>3. PICK w \in Workspaces : w = op.w
    BY <1>2 DEF CloseOp
<1>4. PICK tombstone \in Records : tombstone = ClosedRecord(op.digest) /\ tombstone.state = "closed"
    BY <1>2, RecordStates DEF CloseOp
<1>5. /\ record' = [record EXCEPT ![w] = tombstone]
      /\ \E result \in CloseResults : AnswerClose(result)
      /\ UNCHANGED <<dirs, dirty, tip, linked, rescue, caches, source, common, active>>
    BY <1>3, <1>4 DEF WriteClosedWorkspaceRecord, CloseResults
<1>6. op' = NoOperation /\ answer' \in Answers
    BY <1>2, <1>5, AnswerTyped
<1>7. WorkspaceTyped'
    BY <1>5, <1>6 DEF WorkspaceTyped
<1>8. \A v \in Workspaces : record'[v] = IF v = w THEN tombstone ELSE record[v]
    BY <1>5 DEF WorkspaceTyped
<1>9. ~Present(w) /\ w \notin caches /\ record[w].state = "open"
    BY <1>1, <1>3 DEF OpHeld, Ats
<1>10. OpHeld' /\ HeadSeen'
    BY <1>6, LockReturned
<1>11. AuthorityAlive' /\ Grounded' /\ ClosedGone'
    BY <1>4, <1>5, <1>8, <1>9 DEF AuthorityAlive, Grounded, ClosedGone, Present
<1>12. AbsentRescued => AbsentRescued'
    BY <1>5, <1>8, <1>9 DEF AbsentRescued, Present, Exists, Rescued
<1> QED
    BY <1>7, <1>10, <1>11, <1>12 DEF CommitsKept

LEMMA WorkspaceStep == WorkspaceInv /\ [WorkspaceNext]_workspaceVars => WorkspaceInv'
<1> SUFFICES ASSUME WorkspaceInv, [WorkspaceNext]_workspaceVars PROVE WorkspaceInv'
    OBVIOUS
<1>1. CASE UNCHANGED workspaceVars
    <2> USE <1>1 DEF workspaceVars, WorkspaceInv
    <2>1. WorkspaceTyped' /\ OpHeld'
        BY DEF WorkspaceTyped, OpHeld, Present
    <2>2. HeadSeen => HeadSeen'
        BY DEF HeadSeen, Present, Rescued
    <2>3. /\ AuthorityAlive' /\ Grounded' /\ ClosedGone'
          /\ AbsentRescued => AbsentRescued'
        BY QuietStep
    <2> QED
        BY <2>1, <2>2, <2>3 DEF CommitsKept
<1>2. CASE \E w \in Workspaces, p \in Places, nested \in BOOLEAN : OpenAdd(w, p, nested)
    BY <1>2, OpenAddKeeps
<1>3. CASE \E w \in Workspaces : Admit(w) \/ Work(w) \/ FinishJob(w) \/ Lose(w)
    BY <1>3, AdmitKeeps, WorkKeeps, FinishJobKeeps, LoseKeeps
<1>4. CASE \E w \in Workspaces, f \in BOOLEAN, e \in Digests \cup {None} : CloseWorkspace(w, f, e)
    BY <1>4, CloseWorkspaceKeeps
<1>5. CASE OpenWriteRecord \/ OpenUndo \/ CloseCrash
    BY <1>5, OpenWriteRecordKeeps, OpenUndoKeeps, CloseCrashKeeps
<1>6. CASE CloseStep
    BY <1>6, CloseAnswersKeep, CloseMissingKeeps, ClosePresentKeeps, EnsureRescueRefKeeps,
       CleanupKeeps, RemoveTreeKeeps, UnlinkKeeps, WriteClosedKeeps DEF CloseStep
<1> QED
    BY <1>1, <1>2, <1>3, <1>4, <1>5, <1>6 DEF WorkspaceNext

\* The lock holder relies on nothing that a crash, a failed step, a Job or a
\* deleted directory could have changed since it looked.
THEOREM WorkspaceInvariant == WorkspaceSpec => []WorkspaceInv
<1>1. WorkspaceInit => WorkspaceInv
    BY WorkspaceStarts
<1>2. WorkspaceInv /\ [WorkspaceNext]_workspaceVars => WorkspaceInv'
    BY WorkspaceStep
<1> QED
    BY <1>1, <1>2, PTL DEF WorkspaceSpec

\* Records, directories and the lock holder's variables are what the code
\* writes there (records.rs, close_recovery.rs).
THEOREM WorkspaceTypes == WorkspaceSpec => []WorkspaceTypeOK
<1>1. WorkspaceInv => WorkspaceTypeOK
    BY DEF WorkspaceInv, WorkspaceTyped, WorkspaceTypeOK, Records, OpenOp, CloseOp, Answers
<1> QED
    BY <1>1, WorkspaceInvariant, PTL

\* No close takes the Git authority of an open Workspace away, for any number
\* of Workspaces opened from one another, whatever fails, crashes or is lost
\* (workspace_cleanup_dependents).
THEOREM WorkspaceAuthority == WorkspaceSpec => []AuthorityAlive
<1>1. WorkspaceInv => AuthorityAlive
    BY DEF WorkspaceInv
<1> QED
    BY <1>1, WorkspaceInvariant, PTL

\* What a tombstone says is so, for any number of Workspaces and commits,
\* whatever failed or crashed on the way, as long as nobody deletes a
\* worktree behind the Runtime's back: the recovery of a deleted one can be
\* misled by an older rescue ref, and finds nothing when the Workspace it was
\* opened from has been closed.
THEOREM WorkspaceTombstones ==
    ASSUME "lose" \notin WorkspaceFaults
    PROVE  WorkspaceSpec => []TombstoneTrue
<1>1. WorkspaceInv => TombstoneTrue
    BY DEF WorkspaceInv, CommitsKept, ClosedGone, AbsentRescued, Rescued, TombstoneTrue
<1> QED
    BY <1>1, WorkspaceInvariant, PTL

-----------------------------------------------------------------------------
(* A batch of file mutations.  The batch is written and rolled back by     *)
(* position; Expects says that what a rollback puts back is what lay there *)
(* when the batch was accepted, Touched which paths may differ from it at  *)
(* each phase, and Written what the batch knows of the files it has        *)
(* replaced, with an editor at work beside it.                             *)

Phases == {"prepare", "write", "rename", "digest", "rollback", "restore", "over"}

MutationTyped ==
    /\ files \in [Paths -> States] /\ initial \in [Paths -> States]
    /\ batch \in Seq(Mutation) /\ Len(batch) <= MaxBatch
    /\ results \in Seq(States) /\ done <= Len(batch)
    /\ \A i, j \in 1 .. Len(batch) : i # j => batch[i].path # batch[j].path
    /\ phase \in Phases /\ reply \in {"none", "applied", "refused", "incomplete"}
    /\ phase # "over" => reply = "none"
    /\ phase \in {"rename", "digest"} => done < Len(batch)
    /\ phase = "restore" => done > 0
    /\ edits \subseteq Paths /\ raced \subseteq edits

Expects ==
    phase \in {"write", "rename", "digest", "rollback", "restore"} =>
        \A i \in 1 .. Len(batch) :
            batch[i].expected = initial[batch[i].path] \/ batch[i].path \in edits

\* Files differ from what they were only where the first n mutations wrote,
\* the editor did, or, in `late', a write reported its error after the rename.
TouchedBy(n, late) ==
    \A p \in Paths : \/ p \in late \cup edits
                     \/ files[p] = initial[p]
                     \/ \E i \in 1 .. n : batch[i].path = p
Lates == {late \in SUBSET Paths :
             /\ late = {} \/ \E p \in Paths : late = {p}
             /\ late # {} => "late" \in MutationFaults}
Touched ==
    /\ phase = "prepare" => TouchedBy(0, {})
    /\ phase \in {"write", "rename"} => TouchedBy(done, {})
    /\ phase = "digest" => TouchedBy(done + 1, {})
    /\ phase \in {"rollback", "restore"} => \E late \in Lates : TouchedBy(done, late)
    /\ reply = "refused" => \E late \in Lates : TouchedBy(0, late)

Written ==
    /\ \A i \in 1 .. done :
        /\ files[batch[i].path] = batch[i].after \/ batch[i].path \in edits
        /\ results[i] = batch[i].after \/ batch[i].path \in raced
    /\ phase = "rename" => files[Current.path] = Current.expected \/ Current.path \in raced
    /\ phase = "digest" => files[Current.path] = Current.after \/ Current.path \in raced
    /\ phase = "restore" =>
          files[batch[done].path] = results[done] \/ batch[done].path \in raced

MutationInv == MutationTyped /\ Expects /\ Touched /\ Written

\* The mutations of a batch name paths and states.
LEMMA BatchFields ==
    ASSUME MutationTyped, NEW i \in 1 .. Len(batch)
    PROVE  /\ batch[i].path \in Paths /\ batch[i].expected \in States
           /\ batch[i].after \in Contents /\ batch[i].after \in States
           /\ done \in Nat
<1>1. batch[i] \in Mutation
    BY DEF MutationTyped
<1> QED
    BY <1>1 DEF Mutation, States, MutationTyped, done

\* A batch that is accepted has a position for each of its mutations.
LEMMA BatchesFields ==
    ASSUME NEW b \in Batches
    PROVE  /\ b \in Seq(Mutation) /\ Len(b) <= MaxBatch
           /\ \A i, j \in 1 .. Len(b) : i # j => b[i].path # b[j].path
<1>1. PICK m \in 0 .. MaxBatch : b \in [1 .. m -> Mutation]
    BY DEF Batches, SeqOf
<1>2. m \in Nat /\ b \in Seq(Mutation) /\ Len(b) = m /\ DOMAIN b = 1 .. m
    BY <1>1, MutationAssumption
<1>3. \A i, j \in DOMAIN b : i # j => b[i].path # b[j].path
    BY DEF Batches
<1> QED
    BY <1>1, <1>2, <1>3, MutationAssumption

LEMMA MutationStarts == MutationInit => MutationInv
<1> SUFFICES ASSUME MutationInit PROVE MutationInv
    OBVIOUS
<1>1. done = 0 /\ Len(batch) = 0
    BY DEF MutationInit, done
<1>2. MutationTyped
    BY <1>1, MutationAssumption DEF MutationInit, MutationTyped, States, Phases
<1>3. Expects /\ Touched
    BY DEF MutationInit, Expects, Touched
<1>4. Written
    BY <1>1 DEF MutationInit, Written
<1> QED
    BY <1>2, <1>3, <1>4 DEF MutationInv

LEMMA MutateKeeps ==
    ASSUME MutationInv, NEW b \in Batches, MutateWorkspace(b)
    PROVE  MutationInv'
<1> USE DEF MutationInv
<1>1. /\ batch' = b /\ results' = <<>> /\ phase' = "prepare" /\ reply' = "none"
      /\ initial' = files /\ files' = files /\ edits' = {} /\ raced' = {}
    BY DEF MutateWorkspace
<1>2. done' = 0 /\ Len(batch') \in Nat
    BY <1>1, BatchesFields DEF done
<1>3. MutationTyped'
    BY <1>1, <1>2, BatchesFields DEF MutationTyped, Phases
<1>4. Expects' /\ Touched'
    BY <1>1 DEF Expects, Touched, TouchedBy
<1>5. Written'
    BY <1>1, <1>2 DEF Written
<1> QED
    BY <1>3, <1>4, <1>5

\* A step that moves on without touching a file.
LEMMA PhaseMoves ==
    ASSUME MutationInv, UNCHANGED <<files, initial, batch, results, edits, raced>>
    PROVE  /\ done' = done /\ Current' = Current
           /\ \A n, late : TouchedBy(n, late)' = TouchedBy(n, late)
BY DEF done, Current, TouchedBy

LEMMA NoneLate == {} \in Lates
BY DEF Lates

LEMMA PrepareKeeps ==
    ASSUME MutationInv, PrepareBatch \/ PrepareRefused
    PROVE  MutationInv'
<1> USE DEF MutationInv
<1>1. /\ phase = "prepare" /\ UNCHANGED <<files, initial, batch, results, edits, raced>>
      /\ \/ /\ \A i \in DOMAIN batch : files[batch[i].path] = batch[i].expected
            /\ phase' = "write" /\ reply' = reply
         \/ phase' = "over" /\ reply' = "refused"
    BY DEF PrepareBatch, PrepareRefused
<1>2. TouchedBy(0, {}) /\ reply = "none"
    BY <1>1 DEF Touched, MutationTyped
<1>3. done' = done /\ done \in Nat /\ DOMAIN batch = 1 .. Len(batch)
    BY <1>1 DEF done, MutationTyped
<1>4. MutationTyped'
    BY <1>1, <1>3 DEF MutationTyped, Phases
<1>5. Expects'
    BY <1>1, <1>2, <1>3, BatchFields DEF Expects, TouchedBy
<1>6. Touched'
    <2>1. TouchedBy(0, {})' /\ (TouchedBy(done, {}))'
        BY <1>1, <1>2, <1>3 DEF TouchedBy
    <2> QED
        BY <1>1, <1>2, <2>1, NoneLate DEF Touched
<1>7. Written'
    BY <1>1, <1>3 DEF Written
<1> QED
    BY <1>4, <1>5, <1>6, <1>7

LEMMA WriteCheckedKeeps ==
    ASSUME MutationInv, WriteChecked
    PROVE  MutationInv'
<1> USE DEF MutationInv
<1>1. /\ phase = "write" /\ done < Len(batch) /\ files[Current.path] = Current.expected
      /\ phase' = "rename" /\ UNCHANGED <<files, initial, batch, results, reply, edits, raced>>
    BY DEF WriteChecked
<1>2. done' = done /\ Current' = Current
    BY <1>1 DEF done, Current
<1>3. MutationTyped' /\ Expects'
    BY <1>1, <1>2 DEF MutationTyped, Expects, Phases
<1>4. Touched'
    <2>1. TouchedBy(done, {}) /\ reply = "none"
        BY <1>1 DEF Touched, MutationTyped
    <2>2. (TouchedBy(done, {}))'
        BY <1>1, <1>2, <2>1 DEF TouchedBy
    <2> QED
        BY <1>1, <2>1, <2>2 DEF Touched
<1>5. Written'
    BY <1>1, <1>2 DEF Written
<1> QED
    BY <1>3, <1>4, <1>5

LEMMA WriteRenamedKeeps ==
    ASSUME MutationInv, WriteRenamed
    PROVE  MutationInv'
<1> USE DEF MutationInv
<1>1. PICK n \in 1 .. Len(batch) : n = done + 1 /\ Current = batch[n] /\ n - 1 = done
    BY DEF WriteRenamed, MutationTyped, done, Current
<1>2. /\ phase = "rename" /\ phase' = "digest"
      /\ files' = [files EXCEPT ![batch[n].path] = batch[n].after]
      /\ UNCHANGED <<initial, batch, results, reply, edits, raced>>
    BY <1>1 DEF WriteRenamed
<1>3. done' = done /\ done \in Nat /\ Current' = Current /\ done < Len(batch)
    BY <1>2 DEF done, Current, MutationTyped
<1>4. batch[n].path \in Paths /\ batch[n].after \in States
    BY BatchFields
<1>5. files' \in [Paths -> States] /\ files'[batch[n].path] = batch[n].after
      /\ \A p \in Paths : p # batch[n].path => files'[p] = files[p]
    BY <1>2, <1>4 DEF MutationTyped
<1>6. MutationTyped' /\ Expects'
    BY <1>2, <1>3, <1>5 DEF MutationTyped, Expects, Phases
<1>7. Touched'
    <2>1. TouchedBy(done, {}) /\ reply = "none"
        BY <1>2 DEF Touched, MutationTyped
    <2>2. (TouchedBy(done + 1, {}))'
        BY <1>1, <1>2, <1>3, <1>5, <2>1 DEF TouchedBy
    <2> QED
        BY <1>2, <2>1, <2>2 DEF Touched
<1>8. Written'
    <2>1. \A i \in 1 .. done : i \in 1 .. Len(batch) /\ i # n
        BY <1>1, <1>3
    <2>2. \A i \in 1 .. done : files'[batch[i].path] = files[batch[i].path]
        BY <1>5, <2>1, BatchFields DEF MutationTyped
    <2> QED
        BY <1>1, <1>2, <1>3, <1>5, <2>2 DEF Written
<1> QED
    BY <1>6, <1>7, <1>8

LEMMA WriteDigestedKeeps ==
    ASSUME MutationInv, WriteDigested
    PROVE  MutationInv'
<1> USE DEF MutationInv
<1>1. PICK n \in 1 .. Len(batch) : n = done + 1 /\ Current = batch[n] /\ n - 1 = done
    BY DEF WriteDigested, MutationTyped, done, Current
<1>2. /\ phase = "digest" /\ phase' = "write"
      /\ results' = Append(results, files[batch[n].path])
      /\ UNCHANGED <<files, initial, batch, reply, edits, raced>>
    BY <1>1 DEF WriteDigested
<1>3. batch[n].path \in Paths /\ files[batch[n].path] \in States
    BY BatchFields DEF MutationTyped
<1>4. /\ results' \in Seq(States) /\ done' = n /\ done \in Nat
      /\ results'[n] = files[batch[n].path]
      /\ \A i \in 1 .. done : results'[i] = results[i]
    BY <1>1, <1>2, <1>3 DEF MutationTyped, done
<1>5. MutationTyped' /\ Expects'
    BY <1>1, <1>2, <1>4 DEF MutationTyped, Expects, Phases
<1>6. Touched'
    <2>1. TouchedBy(n, {}) /\ reply = "none"
        BY <1>1, <1>2 DEF Touched, MutationTyped
    <2>2. (TouchedBy(done, {}))'
        BY <1>2, <1>4, <2>1 DEF TouchedBy
    <2> QED
        BY <1>2, <2>1, <2>2 DEF Touched
<1>7. Written'
    <2>1. files[batch[n].path] = batch[n].after \/ batch[n].path \in raced
        BY <1>1, <1>2 DEF Written
    <2>2. raced \subseteq edits
        BY DEF MutationTyped
    <2>3. \A i \in 1 .. n : i \in 1 .. done \/ i = n
        BY <1>1, <1>4
    <2> QED
        BY <1>2, <1>4, <2>1, <2>2, <2>3 DEF Written
<1> QED
    BY <1>5, <1>6, <1>7

\* The batch ends without a refusal: applied, incomplete, or by a crash.
LEMMA BatchEndsKeeps ==
    ASSUME MutationInv, BatchWritten \/ RollbackFails \/ MutationCrash
    PROVE  MutationInv'
<1> USE DEF MutationInv
<1>1. /\ phase # "over" /\ phase' = "over" /\ reply' \in {reply, "applied", "incomplete"}
      /\ UNCHANGED <<files, initial, batch, results, edits, raced>>
    BY DEF BatchWritten, RollbackFails, MutationCrash
<1>2. reply = "none"
    BY <1>1 DEF MutationTyped
<1>3. done' = done
    BY <1>1 DEF done
<1>4. MutationTyped' /\ Expects'
    BY <1>1, <1>2, <1>3 DEF MutationTyped, Expects, Phases
<1>5. Touched'
    BY <1>1, <1>2 DEF Touched
<1>6. Written'
    BY <1>1, <1>3 DEF Written
<1> QED
    BY <1>4, <1>5, <1>6

LEMMA WriteRefusedKeeps ==
    ASSUME MutationInv, WriteRefused
    PROVE  MutationInv'
<1> USE DEF MutationInv
<1>1. /\ phase \in {"write", "rename"} /\ phase' = "rollback"
      /\ UNCHANGED <<files, initial, batch, results, reply, edits, raced>>
    BY DEF WriteRefused
<1>2. done' = done
    BY <1>1 DEF done
<1>3. MutationTyped' /\ Expects'
    BY <1>1, <1>2 DEF MutationTyped, Expects, Phases
<1>4. Touched'
    <2>1. TouchedBy(done, {}) /\ reply = "none"
        BY <1>1 DEF Touched, MutationTyped
    <2>2. (TouchedBy(done, {}))'
        BY <1>1, <1>2, <2>1 DEF TouchedBy
    <2> QED
        BY <1>1, <2>1, <2>2, NoneLate DEF Touched
<1>5. Written'
    BY <1>1, <1>2 DEF Written
<1> QED
    BY <1>3, <1>4, <1>5

LEMMA WriteReportsLateKeeps ==
    ASSUME MutationInv, WriteReportsLate
    PROVE  MutationInv'
<1> USE DEF MutationInv
<1>1. /\ phase = "digest" /\ "late" \in MutationFaults /\ phase' = "rollback"
      /\ UNCHANGED <<files, initial, batch, results, reply, edits, raced>>
    BY DEF WriteReportsLate
<1>2. PICK n \in 1 .. Len(batch) : n = done + 1 /\ n - 1 = done
    BY <1>1 DEF MutationTyped, done
<1>3. done' = done /\ done \in Nat
    BY <1>1 DEF done, MutationTyped
<1>4. MutationTyped' /\ Expects'
    BY <1>1, <1>3 DEF MutationTyped, Expects, Phases
<1>5. Touched'
    <2>1. TouchedBy(n, {}) /\ reply = "none"
        BY <1>1, <1>2 DEF Touched, MutationTyped
    <2>2. PICK late : late = {batch[n].path}
        OBVIOUS
    <2>3. late \in Lates
        BY <1>1, <2>2, BatchFields DEF Lates
    <2>4. \A i \in 1 .. n : i \in 1 .. done \/ i = n
        BY <1>2, <1>3
    <2>5. (TouchedBy(done, late))'
        BY <1>1, <1>3, <2>1, <2>2, <2>4 DEF TouchedBy
    <2> QED
        BY <1>1, <2>1, <2>3, <2>5 DEF Touched
<1>6. Written'
    BY <1>1, <1>3 DEF Written
<1> QED
    BY <1>4, <1>5, <1>6

\* A rollback that has compared the file it is about to put back.
LEMMA RestoreCheckedKeeps ==
    ASSUME MutationInv, RestoreChecked
    PROVE  MutationInv'
<1> USE DEF MutationInv
<1>1. /\ phase = "rollback" /\ done > 0 /\ phase' = "restore"
      /\ files[batch[done].path] = Last(results)
      /\ UNCHANGED <<files, initial, batch, results, reply, edits, raced>>
    BY DEF RestoreChecked
<1>2. done' = done /\ Last(results) = results[done]
    BY <1>1 DEF done, Last
<1>3. MutationTyped' /\ Expects'
    BY <1>1, <1>2 DEF MutationTyped, Expects, Phases
<1>4. Touched'
    <2>1. reply = "none"
        BY <1>1 DEF MutationTyped
    <2>2. PICK late \in Lates : TouchedBy(done, late)
        BY <1>1 DEF Touched
    <2>3. (TouchedBy(done, late))'
        BY <1>1, <1>2, <2>2 DEF TouchedBy
    <2> QED
        BY <1>1, <2>1, <2>3 DEF Touched
<1>5. Written'
    BY <1>1, <1>2 DEF Written
<1> QED
    BY <1>3, <1>4, <1>5

\* What a rollback puts back is what lay there when the batch was accepted.
LEMMA RollbackKeeps ==
    ASSUME MutationInv, RestoreRenamed \/ RollbackRemoves
    PROVE  MutationInv'
<1> USE DEF MutationInv
<1>1. PICK n \in 1 .. Len(batch) : n = done
    BY DEF RestoreRenamed, RollbackRemoves, MutationTyped, done
<1>2. /\ phase \in {"rollback", "restore"}
      /\ files' = [files EXCEPT ![batch[n].path] = batch[n].expected]
      /\ results' = Front(results)
      /\ \/ phase' = "rollback" /\ reply' = reply
         \/ phase' = "over" /\ reply' = "incomplete"
      /\ UNCHANGED <<initial, batch, edits, raced>>
    BY <1>1 DEF RestoreRenamed, RollbackRemoves
<1>3. batch[n].path \in Paths /\ batch[n].expected \in States /\ done \in Nat
    BY BatchFields
<1>4. /\ files' \in [Paths -> States] /\ files'[batch[n].path] = batch[n].expected
      /\ \A p \in Paths : p # batch[n].path => files'[p] = files[p]
    BY <1>2, <1>3 DEF MutationTyped
<1>5. /\ results' \in Seq(States) /\ done' = n - 1
      /\ \A i \in 1 .. n - 1 : results'[i] = results[i]
    BY <1>1, <1>2 DEF MutationTyped, done, Front
<1>6. MutationTyped' /\ Expects'
    BY <1>1, <1>2, <1>3, <1>4, <1>5 DEF MutationTyped, Expects, Phases
<1>7. Touched'
    <2>1. PICK late \in Lates : TouchedBy(n, late)
        BY <1>1, <1>2 DEF Touched
    <2>2. batch[n].expected = initial[batch[n].path] \/ batch[n].path \in edits
        BY <1>2 DEF Expects
    <2>3. \A i \in 1 .. n : i \in 1 .. n - 1 \/ i = n
        OBVIOUS
    <2>4. (TouchedBy(done, late))'
        BY <1>2, <1>4, <1>5, <2>1, <2>2, <2>3 DEF TouchedBy
    <2>5. reply' \in {"none", "incomplete"}
        BY <1>2 DEF MutationTyped
    <2> QED
        BY <1>2, <2>4, <2>5 DEF Touched
<1>8. Written'
    <2>1. \A i \in 1 .. n - 1 : i \in 1 .. done /\ i \in 1 .. Len(batch) /\ i # n
        BY <1>1
    <2>2. \A i \in 1 .. n - 1 : files'[batch[i].path] = files[batch[i].path]
        BY <1>4, <2>1, BatchFields DEF MutationTyped
    <2> QED
        BY <1>1, <1>2, <1>5, <2>1, <2>2 DEF Written
<1> QED
    BY <1>6, <1>7, <1>8

LEMMA RolledBackKeeps ==
    ASSUME MutationInv, RolledBack
    PROVE  MutationInv'
<1> USE DEF MutationInv
<1>1. /\ phase = "rollback" /\ done = 0 /\ phase' = "over" /\ reply' = "refused"
      /\ UNCHANGED <<files, initial, batch, results, edits, raced>>
    BY DEF RolledBack
<1>2. done' = done
    BY <1>1 DEF done
<1>3. MutationTyped' /\ Expects'
    BY <1>1, <1>2 DEF MutationTyped, Expects, Phases
<1>4. Touched'
    <2>1. PICK late \in Lates : TouchedBy(0, late)
        BY <1>1 DEF Touched
    <2>2. (TouchedBy(0, late))'
        BY <1>1, <2>1 DEF TouchedBy
    <2> QED
        BY <1>1, <2>2 DEF Touched
<1>5. Written'
    BY <1>1, <1>2 DEF Written
<1> QED
    BY <1>3, <1>4, <1>5

LEMMA EditKeeps ==
    ASSUME MutationInv, NEW p \in Paths, Edit(p)
    PROVE  MutationInv'
<1> USE DEF MutationInv
<1>1. /\ edits = {} /\ phase # "over" /\ files' = [files EXCEPT ![p] = Edited] /\ edits' = {p}
      /\ raced' = IF \/ phase \in {"rename", "digest"} /\ Current.path = p
                     \/ phase = "restore" /\ batch[done].path = p
                  THEN {p} ELSE {}
      /\ UNCHANGED <<initial, batch, results, phase, reply>>
    BY DEF Edit
<1>2. done' = done /\ Current' = Current /\ raced = {} /\ reply = "none" /\ done \in Nat
    BY <1>1 DEF done, Current, MutationTyped
<1>3. files' \in [Paths -> States] /\ \A q \in Paths : q # p => files'[q] = files[q]
    BY <1>1 DEF MutationTyped, States
<1>4. MutationTyped' /\ Expects'
    BY <1>1, <1>2, <1>3 DEF MutationTyped, Expects
<1>5. ASSUME NEW n, NEW late, TouchedBy(n, late) PROVE TouchedBy(n, late)'
    BY <1>1, <1>3, <1>5 DEF TouchedBy
<1>6. Touched'
    <2>1. phase = "prepare" => TouchedBy(0, {})'
        BY <1>5 DEF Touched
    <2>2. PICK n : n = done
        OBVIOUS
    <2>3. phase \in {"write", "rename"} => TouchedBy(n, {})'
        BY <1>5, <2>2 DEF Touched
    <2>4. phase = "digest" => TouchedBy(n + 1, {})'
        BY <1>5, <2>2 DEF Touched
    <2>5. phase \in {"rollback", "restore"} => \E late \in Lates : TouchedBy(n, late)'
        BY <1>5, <2>2 DEF Touched
    <2>6. done' = n
        BY <1>2, <2>2
    <2> QED
        BY <1>1, <1>2, <2>1, <2>3, <2>4, <2>5, <2>6 DEF Touched
<1>7. Written'
    <2>1. \A i \in 1 .. done : i \in 1 .. Len(batch) /\ batch[i].path \in Paths
        BY <1>2, BatchFields DEF MutationTyped
    <2>2. phase \in {"rename", "digest"} => Current.path \in Paths
        <3> SUFFICES ASSUME phase \in {"rename", "digest"} PROVE Current.path \in Paths
            OBVIOUS
        <3>1. PICK n \in 1 .. Len(batch) : n = done + 1
            BY DEF MutationTyped, done
        <3> QED
            BY <3>1, BatchFields DEF Current
    <2>3. \A i \in 1 .. done : files'[batch[i].path] = batch[i].after \/ batch[i].path \in edits'
        BY <1>1, <1>3, <2>1 DEF Written
    <2>4. \A i \in 1 .. done : results[i] = batch[i].after
        BY <1>2 DEF Written
    <2>5. phase = "rename" => files'[Current.path] = Current.expected \/ Current.path \in raced'
        BY <1>1, <1>2, <1>3, <2>2 DEF Written
    <2>6. phase = "digest" => files'[Current.path] = Current.after \/ Current.path \in raced'
        BY <1>1, <1>2, <1>3, <2>2 DEF Written
    <2>7. phase = "restore" =>
              files'[batch[done].path] = results[done] \/ batch[done].path \in raced'
        <3> SUFFICES ASSUME phase = "restore"
                     PROVE  files'[batch[done].path] = results[done] \/ batch[done].path \in raced'
            OBVIOUS
        <3>1. batch[done].path \in Paths
            BY <1>2, <2>1 DEF MutationTyped
        <3> QED
            BY <1>1, <1>2, <1>3, <3>1 DEF Written
    <2> QED
        BY <1>1, <1>2, <2>3, <2>4, <2>5, <2>6, <2>7 DEF Written
<1> QED
    BY <1>4, <1>6, <1>7

LEMMA MutationStep == MutationInv /\ [MutationNext]_mutationVars => MutationInv'
<1> SUFFICES ASSUME MutationInv, [MutationNext]_mutationVars PROVE MutationInv'
    OBVIOUS
<1>1. CASE UNCHANGED mutationVars
    BY <1>1 DEF mutationVars, MutationInv, MutationTyped, Expects, Touched, TouchedBy, Written,
       done, Current
<1>2. CASE \E b \in Batches : MutateWorkspace(b)
    BY <1>2, MutateKeeps
<1>3. CASE PrepareBatch \/ PrepareRefused \/ WriteChecked \/ WriteRenamed \/ WriteDigested
    BY <1>3, PrepareKeeps, WriteCheckedKeeps, WriteRenamedKeeps, WriteDigestedKeeps
<1>4. CASE BatchWritten \/ WriteRefused \/ WriteReportsLate
    BY <1>4, BatchEndsKeeps, WriteRefusedKeeps, WriteReportsLateKeeps
<1>5. CASE \/ RestoreChecked \/ RestoreRenamed \/ RollbackRemoves \/ RollbackFails
            \/ RolledBack \/ MutationCrash
    BY <1>5, BatchEndsKeeps, RestoreCheckedKeeps, RollbackKeeps, RolledBackKeeps
<1>6. CASE \E p \in Paths : Edit(p)
    BY <1>6, EditKeeps
<1> QED
    BY <1>1, <1>2, <1>3, <1>4, <1>5, <1>6 DEF MutationNext

\* A batch knows at every statement which files it has replaced and with what.
THEOREM MutationInvariant == MutationSpec => []MutationInv
<1>1. MutationInit => MutationInv
    BY MutationStarts
<1>2. MutationInv /\ [MutationNext]_mutationVars => MutationInv'
    BY MutationStep
<1> QED
    BY <1>1, <1>2, PTL DEF MutationSpec

\* The count a rollback goes by is true: the first `done' mutations, and no
\* others, are what it has to undo.
THEOREM MutationTypes == MutationSpec => []MutationTypeOK
<1>1. MutationInv => MutationTypeOK
    <2> SUFFICES ASSUME MutationInv PROVE MutationTypeOK
        OBVIOUS
    <2> USE DEF MutationInv
    <2>1. done \in 0 .. MaxBatch /\ results \in [1 .. done -> States]
        BY MutationAssumption DEF MutationTyped, done
    <2>2. results \in SeqOf(States, MaxBatch)
        BY <2>1 DEF SeqOf
    <2> QED
        BY <2>2 DEF MutationTypeOK, MutationTyped, Written, Phases
<1> QED
    BY <1>1, MutationInvariant, PTL

\* A refusal leaves every file as it was, but for the editor's work and for
\* the one file whose write reported its error after the rename, for batches
\* of any length (write_workspace_text, the rollback of workspace.mutate).
THEOREM MutationRefusal == MutationSpec => []RefusalTouchesOneFile
<1>1. MutationInv => RefusalTouchesOneFile
    <2> SUFFICES ASSUME MutationInv, reply = "refused"
                 PROVE  \E late \in SUBSET Paths :
                            /\ Cardinality(late) <= 1
                            /\ late # {} => "late" \in MutationFaults
                            /\ \A p \in Paths \ (late \cup edits) : files[p] = initial[p]
        BY DEF RefusalTouchesOneFile
    <2>1. PICK late \in Lates : TouchedBy(0, late)
        BY DEF MutationInv, Touched
    <2>2. Cardinality(late) <= 1
        <3>1. CASE late = {}
            BY <3>1, FS_EmptySet
        <3>2. CASE \E p \in Paths : late = {p}
            <4>1. PICK p \in Paths : late = {p}
                BY <3>2
            <4>2. Cardinality(late) = 1
                BY <4>1, FS_Singleton, Zenon
            <4> QED
                BY <4>2
        <3> QED
            BY <3>1, <3>2 DEF Lates
    <2>3. \A p \in Paths \ (late \cup edits) : files[p] = initial[p]
        BY <2>1 DEF TouchedBy
    <2> QED
        BY <2>2, <2>3 DEF Lates
<1> QED
    BY <1>1, MutationInvariant, PTL

\* A foreign edit the batch did not expect is overwritten in three windows
\* only: between the steps that write its file, between a rollback's comparison
\* of the file and the rename that puts it back, and where a rollback removes a
\* file the batch created (write_workspace_text, rollback).
THEOREM MutationOverwrites == MutationSpec => EditOverwrittenOnlyRaced
<1>1. ASSUME MutationInv, MutationNext, NEW p \in Paths, files[p] = Edited, files'[p] # Edited
      PROVE  \/ p \in raced
             \/ \E i \in DOMAIN batch : batch[i].path = p /\ batch[i].expected = Edited
             \/ phase = "rollback" /\ batch[done].path = p /\ batch[done].expected = Absent
    <2> USE DEF MutationInv
    <2>1. files' # files /\ DOMAIN batch = 1 .. Len(batch) /\ done \in Nat
        BY <1>1 DEF MutationTyped, done
    <2>2. WriteRenamed \/ RestoreRenamed \/ RollbackRemoves \/ \E q \in Paths : Edit(q)
        BY <1>1, <2>1 DEF MutationNext, MutateWorkspace, PrepareBatch, PrepareRefused, WriteChecked,
           WriteDigested, BatchWritten, WriteRefused, WriteReportsLate, RestoreChecked,
           RollbackFails, RolledBack, MutationCrash
    <2>3. CASE WriteRenamed
        <3>1. PICK n \in 1 .. Len(batch) : n = done + 1 /\ Current = batch[n]
            BY <1>1, <2>3 DEF WriteRenamed, MutationTyped, done, Current
        <3>2. phase = "rename" /\ files' = [files EXCEPT ![batch[n].path] = batch[n].after]
            BY <2>3, <3>1 DEF WriteRenamed
        <3>3. p = batch[n].path
            BY <1>1, <3>2 DEF MutationTyped
        <3> QED
            BY <1>1, <2>1, <3>1, <3>2, <3>3 DEF Written
    <2>4. CASE RestoreRenamed
        <3>1. PICK n \in 1 .. Len(batch) : n = done
            BY <1>1, <2>4 DEF RestoreRenamed, MutationTyped, done
        <3>2. phase = "restore" /\ files' = [files EXCEPT ![batch[n].path] = batch[n].expected]
            BY <2>4, <3>1 DEF RestoreRenamed
        <3>3. p = batch[n].path
            BY <1>1, <3>2 DEF MutationTyped
        <3>4. batch[n].after # Edited
            BY <1>1, BatchFields, MutationAssumption
        <3> QED
            BY <1>1, <2>1, <3>1, <3>2, <3>3, <3>4 DEF Written
    <2>6. CASE RollbackRemoves
        <3>1. PICK n \in 1 .. Len(batch) : n = done
            BY <1>1, <2>6 DEF RollbackRemoves, MutationTyped, done
        <3>2. /\ phase = "rollback" /\ batch[n].expected = Absent
              /\ files' = [files EXCEPT ![batch[n].path] = Absent]
            BY <2>6, <3>1 DEF RollbackRemoves
        <3>3. p = batch[n].path
            BY <1>1, <3>2 DEF MutationTyped
        <3> QED
            BY <1>1, <3>1, <3>2, <3>3
    <2>5. CASE \E q \in Paths : Edit(q)
        BY <1>1, <2>5 DEF Edit, MutationTyped
    <2> QED
        BY <2>2, <2>3, <2>4, <2>5, <2>6
<1>2. ASSUME MutationInv, [MutationNext]_mutationVars
      PROVE  [\A p \in Paths :
                 files[p] = Edited /\ files'[p] # Edited =>
                     \/ p \in raced
                     \/ \E i \in DOMAIN batch : batch[i].path = p /\ batch[i].expected = Edited
                     \/ phase = "rollback" /\ batch[done].path = p
                        /\ batch[done].expected = Absent]_mutationVars
    BY <1>1, <1>2
<1> QED
    BY <1>2, MutationInvariant, PTL DEF MutationSpec, EditOverwrittenOnlyRaced

-----------------------------------------------------------------------------
(* Change pages.  The collector keeps a few of the keys it has seen, so    *)
(* what makes a page right is a fact about the keys it gave up: below each *)
(* of them the heap still holds more than one page can carry (ScanOK).  A  *)
(* page is then the first keys past the cursor, none skipped (VerifyOK),   *)
(* and the pages put together are what the last cursor has behind it       *)
(* (CursorOK).  Sorting and counting are proved by induction, through a    *)
(* smallest counterexample among the finite sets.                          *)

CollectorType ==
    [state : {"scan", "verify", "answered", "state_mismatch", "limit_exceeded",
              "mutation_incomplete"},
     left : Seq(Keys), limit : Nat, maxBytes : Nat, candidates : SUBSET Keys,
     oversized : SUBSET Keys, eligible : Nat, seen : SUBSET Keys, page : Seq(Keys)]
CursorType == [set : SUBSET Keys, after : Keys]

PageTyped ==
    /\ changed \subseteq Keys /\ entrySize \in [Keys -> EntrySizes]
    /\ delivered \in Seq(Keys)
    /\ cursor = <<>> \/ \E c \in CursorType : cursor = <<c>>
    /\ call = NoCall \/ call \in CollectorType

Eligible == {k \in call.seen : AfterCursor(k)}
Below(S, k) == {i \in S : i < k}
UpTo(S, k) == {i \in S : i <= k}

\* More than one page can carry.
MoreThanAPage(S, limit, maxBytes) == Cardinality(S) > limit \/ PageBytes(S) > maxBytes

\* The keys still to be read are new, and none comes twice.
LeftOK(left, seen) ==
    /\ \A i \in 1 .. Len(left) : left[i] \notin seen
    /\ \A i, j \in 1 .. Len(left) : left[i] = left[j] => i = j

\* C is the heap, O the oversized entries and E all that are eligible.
HeapOK(C, O, E, limit, maxBytes) ==
    /\ C \subseteq E /\ O \subseteq E
    /\ \A k \in C : entrySize[k] <= maxBytes
    /\ \A d \in E \ (C \cup O) : MoreThanAPage(Below(C, d), limit, maxBytes)

ScanOK ==
    call.state = "scan" =>
        /\ LeftOK(call.left, call.seen)
        /\ call.eligible = Cardinality(Eligible)
        /\ HeapOK(call.candidates, call.oversized, Eligible, call.limit, call.maxBytes)

VerifyOK ==
    call.state = "verify" =>
        /\ call.eligible = Cardinality(Eligible)
        /\ \E P \in SUBSET Eligible :
              /\ call.page = SortedKeys(P) /\ (P = {} => Eligible = {})
              /\ \A k \in P, i \in Eligible : i < k => i \in P
        /\ cursor # <<>> => cursor[1].set = call.seen

CursorOK ==
    IF cursor # <<>>
    THEN /\ cursor[1].after \in cursor[1].set
         /\ delivered = SortedKeys(UpTo(cursor[1].set, cursor[1].after))
    ELSE call.state \in {"scan", "verify"} => delivered = <<>>

PageInv == PageTyped /\ ScanOK /\ VerifyOK /\ CursorOK /\ PagesAreTheSet

\* Of the finite sets in a family, one has no other of them inside it.
LEMMA SmallestSet ==
    ASSUME NEW S, NEW F, F \subseteq FiniteSubsetsOf(S), F # {}
    PROVE  \E T \in F : \A U \in F : U \subseteq T => U = T
<1>1. \E x \in F : \A y \in F : ~ (<<y, x>> \in StrictSubsetOrdering(S))
   BY FS_StrictSubsetOrderingWellFounded, WFMin
<1> QED BY <1>1 DEF StrictSubsetOrdering, FiniteSubsetsOf

\* Every set of naturals has a least member.
LEMMA Least ==
    ASSUME NEW T, T \subseteq Nat, T # {}
    PROVE \E x \in T : \A y \in T : x <= y
<1> DEFINE F == {0 .. n : n \in T}
<1>1. F \subseteq FiniteSubsetsOf(Nat) /\ F # {}
  <2>1. ASSUME NEW n \in T PROVE 0 .. n \in FiniteSubsetsOf(Nat)
    <3>1. IsFiniteSet(0 .. n) BY FS_Interval
    <3> QED BY <3>1 DEF FiniteSubsetsOf
  <2> QED BY <2>1
<1>2. PICK I \in F : \A U \in F : U \subseteq I => U = I
  <2> HIDE DEF F
  <2> QED BY <1>1, SmallestSet
<1>3. PICK n \in T : I = 0 .. n
  OBVIOUS
<1>4. \A y \in T : n <= y
  <2> SUFFICES ASSUME NEW y \in T, ~(n <= y) PROVE FALSE OBVIOUS
  <2>1. 0 .. y \subseteq 0 .. n /\ n \in 0 .. n /\ n \notin 0 .. y
    OBVIOUS
  <2>2. 0 .. y \in F OBVIOUS
  <2> QED BY <1>2, <1>3, <2>1, <2>2
<1> QED BY <1>4

\* What an increasing sequence over a set of its own size is.
Sorts(s, S) == s \in [1 .. Cardinality(S) -> S] /\ Increasing(s)

\* It meets every member, and no member twice.
LEMMA SortsOnto ==
    ASSUME NEW S \in SUBSET Nat, IsFiniteSet(S), NEW s, Sorts(s, S)
    PROVE  /\ \A i, j \in 1 .. Cardinality(S) : s[i] = s[j] => i = j
           /\ \A k \in S : \E i \in 1 .. Cardinality(S) : s[i] = k
<1> DEFINE n == Cardinality(S)
<1>1. n \in Nat /\ s \in [1 .. n -> S] /\ \A i, j \in 1 .. n : i < j => s[i] < s[j]
  BY FS_CardinalityType DEF Sorts, Increasing
<1> HIDE DEF n
<1>2. ASSUME NEW i \in 1 .. n, NEW j \in 1 .. n, s[i] = s[j] PROVE i = j
  <2>1. s[i] \in Nat /\ s[j] \in Nat BY <1>1
  <2> QED BY <1>1, <1>2, <2>1
<1>3. s \in Injection(1 .. n, S)
  BY <1>1, <1>2 DEF Injection, IsInjective
<1>4. Cardinality(1 .. n) = n
  BY <1>1, FS_Interval
<1>5. s \in Surjection(1 .. n, S)
  BY <1>3, <1>4, FS_Injection DEF n
<1> QED
  BY <1>2, <1>5 DEF Surjection, n

\* Every finite set of naturals has one: put the least member in front of
\* the rest, which is a smaller set.
LEMMA SortsExists ==
    ASSUME NEW S \in SUBSET Nat, IsFiniteSet(S)
    PROVE  \E s : Sorts(s, S)
<1> DEFINE F == {T \in FiniteSubsetsOf(Nat) : \A s : ~Sorts(s, T)}
<1>1. SUFFICES ASSUME F # {} PROVE FALSE
  BY DEF FiniteSubsetsOf
<1>2. PICK T \in F : \A U \in F : U \subseteq T => U = T
  <2> HIDE DEF F
  <2>1. F \subseteq FiniteSubsetsOf(Nat) BY DEF F
  <2> QED BY <1>1, <2>1, SmallestSet
<1>3. T \in SUBSET Nat /\ IsFiniteSet(T) /\ \A s : ~Sorts(s, T)
  BY DEF FiniteSubsetsOf
<1>4. CASE T = {}
  <2>1. Cardinality(T) = 0 BY <1>4, FS_EmptySet
  <2> DEFINE e == [i \in 1 .. 0 |-> 0]
  <2>2. e \in [1 .. Cardinality(T) -> T] /\ DOMAIN e = {} BY <2>1
  <2> HIDE DEF e
  <2>3. Sorts(e, T) BY <2>2 DEF Sorts, Increasing
  <2> QED BY <1>3, <2>3
<1>5. CASE T # {}
  <2>1. PICK m \in T : \A y \in T : m <= y
    BY <1>3, <1>5, Least
  <2> DEFINE U == T \ {m}
             n == Cardinality(U)
  <2>2. U \in SUBSET Nat /\ IsFiniteSet(U) /\ n \in Nat /\ Cardinality(T) = n + 1
    <3>1. IsFiniteSet(U) /\ n = Cardinality(T) - 1 BY <1>3, FS_RemoveElement
    <3>2. n \in Nat /\ Cardinality(T) \in Nat BY <1>3, <3>1, FS_CardinalityType
    <3> QED BY <1>3, <3>1, <3>2
  <2>3. PICK u : Sorts(u, U)
    <3>1. U \subseteq T /\ U # T OBVIOUS
    <3>2. U \notin F BY <1>2, <3>1
    <3> QED BY <2>2, <3>2 DEF FiniteSubsetsOf
  <2>4. u \in [1 .. n -> U] /\ \A i, j \in 1 .. n : i < j => u[i] < u[j]
    BY <2>3 DEF Sorts, Increasing
  <2> DEFINE t == [i \in 1 .. n + 1 |-> IF i = 1 THEN m ELSE u[i - 1]]
  <2> HIDE DEF U, n
  <2>5. \A i \in 1 .. n + 1 : i # 1 => i - 1 \in 1 .. n /\ t[i] = u[i - 1] /\ t[i] \in U
    BY <2>2, <2>4
  <2>6. t[1] = m /\ \A y \in U : y \in Nat /\ m < y
    BY <1>3, <2>1, <2>2 DEF U
  <2>7. t \in [1 .. n + 1 -> T]
    <3>1. \A i \in 1 .. n + 1 : t[i] \in T BY <2>1, <2>5, <2>6 DEF U
    <3> QED BY <3>1
  <2>8. ASSUME NEW i \in 1 .. n + 1, NEW j \in 1 .. n + 1, i < j PROVE t[i] < t[j]
    <3> HIDE DEF t
    <3>1. j # 1 BY <2>2, <2>8
    <3>2. CASE i = 1 BY <2>5, <2>6, <3>1, <3>2
    <3>3. CASE i # 1
      <4>1. i - 1 < j - 1 BY <2>2, <2>8
      <4> QED BY <2>4, <2>5, <3>1, <3>3, <4>1
    <3> QED BY <3>2, <3>3
  <2> HIDE DEF t
  <2>9. DOMAIN t = 1 .. n + 1 BY <2>7
  <2>10. Sorts(t, T)
    BY <2>2, <2>7, <2>8, <2>9 DEF Sorts, Increasing
  <2> QED BY <1>3, <2>10
<1> QED BY <1>4, <1>5

\* And only one: where two of them first differ, the smaller key has no
\* place left in the other.
LEMMA SortsUnique ==
    ASSUME NEW S \in SUBSET Nat, IsFiniteSet(S), NEW s, NEW t, Sorts(s, S), Sorts(t, S)
    PROVE  s = t
<1> DEFINE n == Cardinality(S)
<1>1. /\ n \in Nat /\ s \in [1 .. n -> S] /\ t \in [1 .. n -> S]
      /\ \A i, j \in 1 .. n : i < j => s[i] < s[j] /\ t[i] < t[j]
  BY FS_CardinalityType DEF Sorts, Increasing
<1>2. /\ \A k \in S : \E i \in 1 .. n : s[i] = k
      /\ \A k \in S : \E i \in 1 .. n : t[i] = k
  BY SortsOnto
<1> HIDE DEF n
<1> DEFINE D == {i \in 1 .. n : s[i] # t[i]}
<1>3. SUFFICES ASSUME D # {} PROVE FALSE
  BY <1>1
<1>4. PICK i \in D : \A j \in D : i <= j
  <2>1. D \subseteq Nat BY <1>1
  <2> HIDE DEF D
  <2> QED BY <1>3, <2>1, Least
<1>5. i \in 1 .. n /\ s[i] \in S /\ t[i] \in S /\ s[i] # t[i] /\ \A j \in 1 .. n : j < i => s[j] = t[j]
  BY <1>1, <1>4
<1>6. s[i] \in Nat /\ t[i] \in Nat
  BY <1>5
<1>7. CASE s[i] < t[i]
  <2>1. PICK j \in 1 .. n : t[j] = s[i] BY <1>2, <1>5
  <2>2. CASE j < i BY <1>1, <1>5, <1>6, <2>1, <2>2
  <2>3. CASE i <= j BY <1>1, <1>5, <1>6, <1>7, <2>1, <2>3
  <2> QED BY <1>1, <2>2, <2>3
<1>8. CASE t[i] < s[i]
  <2>1. PICK j \in 1 .. n : s[j] = t[i] BY <1>2, <1>5
  <2>2. CASE j < i BY <1>1, <1>5, <1>6, <2>1, <2>2
  <2>3. CASE i <= j BY <1>1, <1>5, <1>6, <1>8, <2>1, <2>3
  <2> QED BY <1>1, <2>2, <2>3
<1> QED BY <1>5, <1>6, <1>7, <1>8

\* SortedKeys is that sequence.
LEMMA SortedKeysIs ==
    ASSUME NEW S \in SUBSET Nat, IsFiniteSet(S)
    PROVE  /\ Sorts(SortedKeys(S), S)
           /\ \A s : Sorts(s, S) => s = SortedKeys(S)
           /\ SortedKeys(S) \in Seq(S) /\ Len(SortedKeys(S)) = Cardinality(S)
<1>1. \E s \in [1 .. Cardinality(S) -> S] : Increasing(s)
  BY SortsExists DEF Sorts
<1>2. Sorts(SortedKeys(S), S)
  BY <1>1 DEF Sorts, SortedKeys
<1>3. \A s : Sorts(s, S) => s = SortedKeys(S)
  BY <1>2, SortsUnique
<1>4. SortedKeys(S) \in [1 .. Cardinality(S) -> S] /\ Cardinality(S) \in Nat
  BY <1>2, FS_CardinalityType DEF Sorts
<1> QED BY <1>2, <1>3, <1>4, IsASeq, LenProperties

\* The members of a sorted set, in sequence and as a set.
LEMMA SortedMembers ==
    ASSUME NEW S \in SUBSET Nat, IsFiniteSet(S)
    PROVE  /\ \A i, j \in 1 .. Len(SortedKeys(S)) : SortedKeys(S)[i] = SortedKeys(S)[j] => i = j
           /\ \A i \in 1 .. Len(SortedKeys(S)) : SortedKeys(S)[i] \in S
           /\ \A k \in S : \E i \in 1 .. Len(SortedKeys(S)) : SortedKeys(S)[i] = k
           /\ SortedKeys(S) = <<>> <=> S = {}
<1>1. Sorts(SortedKeys(S), S) /\ SortedKeys(S) \in Seq(S) /\ Len(SortedKeys(S)) = Cardinality(S)
  BY SortedKeysIs
<1>2. SortedKeys(S) = <<>> <=> S = {}
  BY <1>1, FS_EmptySet, EmptySeq
<1>3. \A i \in 1 .. Len(SortedKeys(S)) : SortedKeys(S)[i] \in S
  BY <1>1, ElementOfSeq
<1> QED BY <1>1, <1>2, <1>3, SortsOnto

\* Its last member is its largest.
LEMMA SortedLast ==
    ASSUME NEW S \in SUBSET Nat, IsFiniteSet(S), S # {}
    PROVE  LET s == SortedKeys(S) IN
           s[Len(s)] \in S /\ \A k \in S : k <= s[Len(s)]
<1> DEFINE s == SortedKeys(S)
           n == Cardinality(S)
<1>1. /\ n \in Nat /\ n # 0 /\ s \in [1 .. n -> S] /\ Len(s) = n
      /\ \A i, j \in 1 .. n : i < j => s[i] < s[j]
  BY SortedKeysIs, FS_CardinalityType, FS_EmptySet DEF Sorts, Increasing
<1>2. \A k \in S : \E i \in 1 .. n : s[i] = k
  BY SortedKeysIs, SortsOnto
<1> HIDE DEF s, n
<1>3. n \in 1 .. n /\ s[n] \in S /\ s[n] \in Nat
  <2>1. n \in 1 .. n BY <1>1
  <2>2. s[n] \in S BY <1>1, <2>1
  <2> QED BY <2>1, <2>2
<1>4. ASSUME NEW k \in S PROVE k <= s[n]
  <2>1. PICK i \in 1 .. n : s[i] = k BY <1>2
  <2>2. CASE i = n BY <1>3, <2>1, <2>2
  <2>3. CASE i < n BY <1>1, <1>3, <2>1, <2>3
  <2> QED BY <1>1, <2>2, <2>3
<1> QED BY <1>1, <1>3, <1>4 DEF s

\* Two sorted sets, one below the other, are sorted one after the other.
LEMMA SortedConcat ==
    ASSUME NEW S \in SUBSET Nat, IsFiniteSet(S), NEW T \in SUBSET Nat, IsFiniteSet(T),
           \A k \in S, l \in T : k < l
    PROVE  SortedKeys(S) \o SortedKeys(T) = SortedKeys(S \cup T)
<1> DEFINE s == SortedKeys(S)
           t == SortedKeys(T)
           m == Cardinality(S)
           n == Cardinality(T)
           c == s \o t
<1>1. /\ m \in Nat /\ n \in Nat /\ s \in [1 .. m -> S] /\ t \in [1 .. n -> T]
      /\ s \in Seq(S) /\ t \in Seq(T) /\ Len(s) = m /\ Len(t) = n
      /\ \A i, j \in 1 .. m : i < j => s[i] < s[j]
      /\ \A i, j \in 1 .. n : i < j => t[i] < t[j]
  BY SortedKeysIs, FS_CardinalityType DEF Sorts, Increasing
<1>2. IsFiniteSet(S \cup T) /\ Cardinality(S \cup T) = m + n
  <2>1. S \cap T = {} OBVIOUS
  <2>2. /\ IsFiniteSet(S \cup T)
        /\ Cardinality(S \cup T) = Cardinality(S) + Cardinality(T) - Cardinality(S \cap T)
    BY FS_Union
  <2>3. Cardinality(S \cap T) = 0 BY <2>1, FS_EmptySet
  <2> QED BY <1>1, <2>2, <2>3
<1> HIDE DEF s, t, m, n
<1>3. s \in Seq(S \cup T) /\ t \in Seq(S \cup T)
  BY <1>1, SeqMonotonic
<1>4. /\ c \in Seq(S \cup T) /\ Len(c) = m + n
      /\ \A i \in 1 .. m + n : c[i] = IF i <= m THEN s[i] ELSE t[i - m]
  BY <1>1, <1>3, ConcatProperties
<1> HIDE DEF c
<1>5. c \in [1 .. m + n -> S \cup T] /\ DOMAIN c = 1 .. m + n
  BY <1>4, LenProperties
<1>6. ASSUME NEW i \in 1 .. m + n, NEW j \in 1 .. m + n, i < j PROVE c[i] < c[j]
  <2>1. CASE j <= m
    <3>1. i \in 1 .. m /\ j \in 1 .. m BY <1>1, <1>6, <2>1
    <3>2. c[i] = s[i] /\ c[j] = s[j] BY <1>4, <3>1
    <3> QED BY <1>1, <1>6, <3>1, <3>2
  <2>2. CASE m < i
    <3>1. i - m \in 1 .. n /\ j - m \in 1 .. n /\ i - m < j - m /\ ~(i <= m) /\ ~(j <= m)
      BY <1>1, <1>6, <2>2
    <3>2. c[i] = t[i - m] /\ c[j] = t[j - m] BY <1>4, <3>1
    <3> QED BY <1>1, <3>1, <3>2
  <2>3. CASE i <= m /\ m < j
    <3>1. i \in 1 .. m /\ j - m \in 1 .. n /\ ~(j <= m) BY <1>1, <2>3
    <3>2. c[i] = s[i] /\ c[j] = t[j - m] BY <1>4, <2>3, <3>1
    <3>3. s[i] \in S /\ t[j - m] \in T BY <1>1, <3>1
    <3> QED BY <3>2, <3>3
  <2> QED BY <1>1, <2>1, <2>2, <2>3
<1>7. Sorts(c, S \cup T)
  BY <1>2, <1>5, <1>6 DEF Sorts, Increasing
<1> QED BY <1>2, <1>7, SortedKeysIs DEF c, s, t

-----------------------------------------------------------------------------
\* The bytes of entries, whose number PageBytes is.
EntryBytes(S) == UNION {{k} \X (1 .. entrySize[k]) : k \in S}

\* There are finitely many of them.
LEMMA EntryBytesFinite ==
    ASSUME PageTyped, NEW S \in SUBSET Keys
    PROVE  IsFiniteSet(S) /\ S \in SUBSET Nat /\ IsFiniteSet(EntryBytes(S)) /\ PageBytes(S) \in Nat
<1>1. IsFiniteSet(S) /\ S \in SUBSET Nat BY PageAssumption, FS_Subset
<1> DEFINE R == {{k} \X (1 .. entrySize[k]) : k \in S}
           f == [k \in S |-> {k} \X (1 .. entrySize[k])]
<1>2. f \in Surjection(S, R) BY DEF Surjection
<1>3. IsFiniteSet(R)
  <2> HIDE DEF f, R
  <2> QED BY <1>1, <1>2, FS_Surjection
<1>4. ASSUME NEW X \in R PROVE IsFiniteSet(X)
  <2>1. PICK k \in S : X = {k} \X (1 .. entrySize[k]) OBVIOUS
  <2>2. entrySize[k] \in Nat BY PageAssumption DEF PageTyped
  <2>3. IsFiniteSet(1 .. entrySize[k]) BY <2>2, FS_Interval
  <2>4. IsFiniteSet({k}) BY FS_Singleton
  <2> QED BY <2>1, <2>3, <2>4, FS_Product
<1>5. IsFiniteSet(UNION R)
  <2> HIDE DEF R
  <2> QED BY <1>3, <1>4, FS_UNION
<1> QED BY <1>1, <1>5, FS_CardinalityType DEF EntryBytes, PageBytes

\* Fewer entries, fewer bytes.
LEMMA PageBytesMonotone ==
    ASSUME PageTyped, NEW S \in SUBSET Keys, NEW T \in SUBSET S
    PROVE  PageBytes(T) <= PageBytes(S) /\ Cardinality(T) <= Cardinality(S)
           /\ Cardinality(T) \in Nat /\ Cardinality(S) \in Nat
<1>1. EntryBytes(T) \in SUBSET EntryBytes(S) BY DEF EntryBytes
<1>2. IsFiniteSet(EntryBytes(S)) /\ IsFiniteSet(S) /\ IsFiniteSet(T) BY EntryBytesFinite
<1>3. PageBytes(T) <= PageBytes(S)
  <2>1. Cardinality(EntryBytes(T)) <= Cardinality(EntryBytes(S)) BY <1>1, <1>2, FS_Subset
  <2> QED BY <2>1 DEF PageBytes, EntryBytes
<1> QED BY <1>2, <1>3, FS_Subset, FS_CardinalityType

\* One more entry adds its size.
LEMMA PageBytesAdd ==
    ASSUME PageTyped, NEW S \in SUBSET Keys, NEW e \in Keys, e \notin S
    PROVE  /\ PageBytes(S \cup {e}) = PageBytes(S) + entrySize[e]
           /\ Cardinality(S \cup {e}) = Cardinality(S) + 1
           /\ entrySize[e] \in Nat
<1> DEFINE B == {e} \X (1 .. entrySize[e])
<1>1. EntryBytes(S \cup {e}) = EntryBytes(S) \cup B BY DEF EntryBytes
<1>2. entrySize[e] \in Nat BY PageAssumption DEF PageTyped
<1>3. IsFiniteSet(B) /\ Cardinality(B) = entrySize[e]
  <2>1. IsFiniteSet({e}) /\ Cardinality({e}) = 1 BY FS_Singleton
  <2>2. IsFiniteSet(1 .. entrySize[e]) /\ Cardinality(1 .. entrySize[e]) = entrySize[e]
    BY <1>2, FS_Interval
  <2>3. IsFiniteSet(B) /\ Cardinality(B) = Cardinality({e}) * Cardinality(1 .. entrySize[e])
    BY <2>1, <2>2, FS_Product
  <2> QED BY <1>2, <2>1, <2>2, <2>3
<1>4. EntryBytes(S) \cap B = {} BY DEF EntryBytes
<1>5. IsFiniteSet(EntryBytes(S)) /\ PageBytes(S) \in Nat /\ IsFiniteSet(S) BY EntryBytesFinite
<1>6. Cardinality(EntryBytes(S) \cup B) = Cardinality(EntryBytes(S)) + entrySize[e]
  <2> HIDE DEF B
  <2>1. Cardinality(EntryBytes(S)) \in Nat BY <1>5, FS_CardinalityType
  <2> QED BY <1>2, <1>3, <1>4, <1>5, <2>1, FS_Union, FS_EmptySet
<1>7. PageBytes(S \cup {e}) = PageBytes(S) + entrySize[e]
  BY <1>1, <1>6 DEF PageBytes, EntryBytes
<1> QED BY <1>2, <1>5, <1>7, FS_AddElement

\* What is kept are the smallest keys.
LEMMA TrimmedPrefix ==
    ASSUME PageTyped, NEW S \in SUBSET Keys, NEW limit \in Nat, NEW maxBytes \in Nat
    PROVE  /\ Trimmed(S, limit, maxBytes) \in SUBSET S
           /\ \A k \in Trimmed(S, limit, maxBytes), i \in S :
                 i <= k => i \in Trimmed(S, limit, maxBytes)
<1>1. SUFFICES ASSUME NEW k \in S, NEW i \in S, i <= k, Within(UpTo(S, k), limit, maxBytes)
               PROVE  Within(UpTo(S, i), limit, maxBytes)
  BY DEF Trimmed, UpTo
<1> DEFINE P == UpTo(S, k)
           Q == UpTo(S, i)
<1>2. P \in SUBSET Keys /\ Q \in SUBSET P /\ i \in Q
  <2>1. S \subseteq Nat /\ i \in Nat /\ k \in Nat BY PageAssumption
  <2>2. \A x \in S : x <= i => x <= k BY <1>1, <2>1
  <2>3. i <= i BY <2>1
  <2>4. Q \subseteq P BY <2>2 DEF UpTo
  <2>5. P \subseteq Keys BY DEF UpTo
  <2>6. i \in Q BY <2>3 DEF UpTo
  <2> QED BY <2>4, <2>5, <2>6
<1> HIDE DEF P, Q
<1>3. /\ PageBytes(Q) <= PageBytes(P) /\ Cardinality(Q) <= Cardinality(P)
      /\ Cardinality(Q) \in Nat /\ Cardinality(P) \in Nat
      /\ PageBytes(Q) \in Nat /\ PageBytes(P) \in Nat /\ IsFiniteSet(Q)
  BY <1>2, PageBytesMonotone, EntryBytesFinite
<1>4. Cardinality(Q) # 0 BY <1>2, <1>3, FS_EmptySet
<1>5. Cardinality(P) <= limit + 1 /\ (PageBytes(P) <= 2 * maxBytes \/ Cardinality(P) = 1)
  BY <1>1 DEF Within, P
<1>6. Cardinality(Q) <= limit + 1 /\ (PageBytes(Q) <= 2 * maxBytes \/ Cardinality(Q) = 1)
  BY <1>3, <1>4, <1>5
<1> QED BY <1>6 DEF Within, Q

\* A key is given up only while the rest are more than a page can carry.
LEMMA TrimmedFull ==
    ASSUME PageTyped, NEW S \in SUBSET Keys, NEW limit \in Nat, NEW maxBytes \in Nat,
           \A k \in S : entrySize[k] <= maxBytes, S \ Trimmed(S, limit, maxBytes) # {}
    PROVE  MoreThanAPage(Trimmed(S, limit, maxBytes), limit, maxBytes)
<1> DEFINE T == Trimmed(S, limit, maxBytes)
<1>1. T \in SUBSET S /\ \A k \in T, i \in S : i <= k => i \in T
  BY TrimmedPrefix
<1>2. PICK e \in S \ T : \A y \in S \ T : e <= y
  <2>1. S \ T \subseteq Nat /\ S \ T # {} BY PageAssumption
  <2> HIDE DEF T
  <2> QED BY <2>1, Least
<1>3. ~Within(UpTo(S, e), limit, maxBytes)
  BY <1>2 DEF Trimmed, UpTo
<1> HIDE DEF T
<1>4. UpTo(S, e) = T \cup {e}
  <2>1. S \subseteq Nat /\ e \in Nat BY PageAssumption
  <2>2. ASSUME NEW x \in UpTo(S, e) PROVE x \in T \cup {e}
    BY <1>2, <2>1 DEF UpTo
  <2>3. ASSUME NEW x \in T \cup {e} PROVE x \in UpTo(S, e)
    BY <1>1, <1>2, <2>1 DEF UpTo
  <2> QED BY <2>2, <2>3
<1>5. T \in SUBSET Keys /\ e \in Keys /\ e \notin T BY <1>1, <1>2
<1>6. /\ PageBytes(T \cup {e}) = PageBytes(T) + entrySize[e]
      /\ Cardinality(T \cup {e}) = Cardinality(T) + 1 /\ entrySize[e] \in Nat
      /\ entrySize[e] <= maxBytes
  BY <1>2, <1>5, PageBytesAdd
<1>7. PageBytes(T) \in Nat /\ Cardinality(T) \in Nat
  BY <1>5, EntryBytesFinite, FS_CardinalityType
<1>8. Cardinality(T) + 1 > limit + 1 \/ PageBytes(T) + entrySize[e] > 2 * maxBytes
  BY <1>3, <1>4, <1>6, <1>7 DEF Within
<1>9. Cardinality(T) > limit \/ PageBytes(T) > maxBytes
  BY <1>6, <1>7, <1>8
<1> QED BY <1>9 DEF MoreThanAPage, T

\* So the heap stays crowded below every key given up, now or before.
LEMMA GivenUp ==
    ASSUME PageTyped, NEW C \in SUBSET Keys, NEW k \in Keys, NEW limit \in Nat,
           NEW maxBytes \in Nat, \A i \in C \cup {k} : entrySize[i] <= maxBytes, NEW d \in Keys,
           \/ d \in (C \cup {k}) \ Trimmed(C \cup {k}, limit, maxBytes)
           \/ MoreThanAPage(Below(C, d), limit, maxBytes)
    PROVE  MoreThanAPage(Below(Trimmed(C \cup {k}, limit, maxBytes), d), limit, maxBytes)
<1> DEFINE S == C \cup {k}
           T == Trimmed(S, limit, maxBytes)
<1>1. S \in SUBSET Keys /\ \A i \in S : entrySize[i] <= maxBytes
  OBVIOUS
<1>2. d \in S \ T \/ MoreThanAPage(Below(C, d), limit, maxBytes)
  OBVIOUS
<1>3. C \subseteq S OBVIOUS
<1> HIDE DEF S
<1>4. T \in SUBSET S /\ \A t \in T, i \in S : i <= t => i \in T
  BY <1>1, TrimmedPrefix
<1>5. CASE \E x \in S \ T : x <= d
  <2>1. PICK x \in S \ T : x <= d BY <1>5
  <2>2. Below(T, d) = T
    <3> HIDE DEF T
    <3>1. T \subseteq Nat /\ x \in Nat /\ d \in Nat BY <1>1, <1>4, PageAssumption
    <3>2. \A t \in T : ~(x <= t) BY <1>4
    <3>3. \A t \in T : t < d BY <2>1, <3>1, <3>2
    <3> QED BY <3>3 DEF Below
  <2>3. MoreThanAPage(T, limit, maxBytes) BY <1>1, <2>1, TrimmedFull
  <2> QED BY <2>2, <2>3 DEF S
<1>6. CASE ~ \E x \in S \ T : x <= d
  <2> HIDE DEF T
  <2>1. d \in Nat BY PageAssumption
  <2>2. MoreThanAPage(Below(C, d), limit, maxBytes) BY <1>2, <1>6, <2>1
  <2>3. Below(C, d) \in SUBSET Below(T, d)
    <3>1. C \subseteq Nat BY PageAssumption
    <3>2. \A x \in C : x < d => x \in T BY <1>3, <1>6, <2>1, <3>1
    <3> QED BY <3>2 DEF Below
  <2>4. Below(T, d) \in SUBSET Keys BY <1>1, <1>4 DEF Below
  <2> DEFINE A == Below(C, d)
             B == Below(T, d)
  <2>5. A \in SUBSET B /\ B \in SUBSET Keys BY <2>3, <2>4
  <2>6. Cardinality(A) > limit \/ PageBytes(A) > maxBytes BY <2>2 DEF MoreThanAPage
  <2> HIDE DEF A, B
  <2>7. /\ PageBytes(A) <= PageBytes(B) /\ Cardinality(A) <= Cardinality(B)
        /\ Cardinality(A) \in Nat /\ Cardinality(B) \in Nat
        /\ PageBytes(A) \in Nat /\ PageBytes(B) \in Nat
    BY <2>5, PageBytesMonotone, EntryBytesFinite
  <2>8. Cardinality(B) > limit \/ PageBytes(B) > maxBytes BY <2>6, <2>7
  <2> QED BY <2>8 DEF MoreThanAPage, B, T, S
<1> QED BY <1>5, <1>6

\* A page takes the first keys past the cursor and skips none of them.
LEMMA TakenPrefix ==
    ASSUME PageTyped, NEW c \in CollectorType, NEW E \in SUBSET Keys,
           HeapOK(c.candidates, c.oversized, E, c.limit, c.maxBytes)
    PROVE  /\ Taken(c) \in SUBSET E
           /\ \A k \in Taken(c), i \in E : i < k => i \in Taken(c)
<1>1. /\ c.candidates \in SUBSET E /\ c.oversized \in SUBSET E /\ c.limit \in Nat
      /\ c.maxBytes \in Nat
  BY DEF HeapOK, CollectorType
<1>2. Taken(c) \in SUBSET E BY <1>1 DEF Taken
<1>3. ASSUME NEW k \in Taken(c), NEW i \in E, i < k PROVE i \in Taken(c)
  <2>0. k \in c.candidates /\ \A j \in c.candidates : j <= k => Fits(c, j)
    BY DEF Taken
  <2>2. k \in Nat /\ i \in Nat /\ c.candidates \subseteq Nat
    BY <1>1, <1>3, <2>0, PageAssumption
  <2>1. k \in c.candidates /\ Fits(c, k) /\ \A j \in c.candidates : j <= k => Fits(c, j)
    BY <2>0, <2>2
  <2> DEFINE W == {j \in c.candidates : j < k}
  <2>3. /\ \A o \in c.oversized : k < o
        /\ Cardinality(W) < c.limit
        /\ PageBytes(W) + Cardinality(W) + entrySize[k] <= c.maxBytes
    BY <2>1 DEF Fits
  <2>4. i \notin c.oversized BY <1>3, <2>2, <2>3
  <2>5. i \in c.candidates
    <3>1. SUFFICES ASSUME i \notin c.candidates PROVE FALSE OBVIOUS
    <3>2. MoreThanAPage(Below(c.candidates, i), c.limit, c.maxBytes)
      BY <2>4, <3>1 DEF HeapOK
    <3> DEFINE A == Below(c.candidates, i)
    <3>3. A \in SUBSET W /\ W \in SUBSET Keys
      BY <1>1, <1>3, <2>2 DEF Below
    <3>4. Cardinality(A) > c.limit \/ PageBytes(A) > c.maxBytes
      BY <3>2 DEF MoreThanAPage
    <3>5. entrySize[k] \in Nat BY <1>1, <2>1, PageAssumption DEF PageTyped
    <3> HIDE DEF A, W
    <3>6. /\ PageBytes(A) <= PageBytes(W) /\ Cardinality(A) <= Cardinality(W)
          /\ Cardinality(A) \in Nat /\ Cardinality(W) \in Nat
          /\ PageBytes(A) \in Nat /\ PageBytes(W) \in Nat
      BY <3>3, PageBytesMonotone, EntryBytesFinite
    <3> QED BY <1>1, <2>3, <3>4, <3>5, <3>6
  <2>6. \A j \in c.candidates : j <= i => j <= k BY <1>3, <2>2
  <2> QED BY <2>1, <2>5, <2>6 DEF Taken
<1> QED BY <1>2, <1>3

\* Git's two listings name every key once.
LEMMA GitOrderOnce == GitOrder \in Seq(Keys) /\ LeftOK(GitOrder, {})
<1> DEFINE S == Keys \ Untracked
           T == Untracked
           s == SortedKeys(S)
           t == SortedKeys(T)
           g == s \o t
<1>1. S \in SUBSET Nat /\ IsFiniteSet(S) /\ T \in SUBSET Nat /\ IsFiniteSet(T)
      /\ S \subseteq Keys /\ T \subseteq Keys /\ S \cap T = {}
  BY PageAssumption, FS_Subset
<1> HIDE DEF S, T
<1>2. s \in Seq(S) /\ t \in Seq(T)
  BY <1>1, SortedKeysIs
<1>3. /\ \A i, j \in 1 .. Len(s) : s[i] = s[j] => i = j
      /\ \A i \in 1 .. Len(s) : s[i] \in S
      /\ \A i, j \in 1 .. Len(t) : t[i] = t[j] => i = j
      /\ \A i \in 1 .. Len(t) : t[i] \in T
  BY <1>1, SortedMembers
<1> HIDE DEF s, t
<1>4. s \in Seq(Keys) /\ t \in Seq(Keys)
  BY <1>1, <1>2, SeqMonotonic
<1>5. /\ g \in Seq(Keys) /\ Len(g) = Len(s) + Len(t) /\ Len(s) \in Nat /\ Len(t) \in Nat
      /\ \A i \in 1 .. Len(s) + Len(t) : g[i] = IF i <= Len(s) THEN s[i] ELSE t[i - Len(s)]
  BY <1>4, ConcatProperties, LenProperties
<1> HIDE DEF g
<1>6. ASSUME NEW i \in 1 .. Len(g), NEW j \in 1 .. Len(g), g[i] = g[j] PROVE i = j
  <2>1. CASE i <= Len(s) /\ j <= Len(s)
    <3>1. i \in 1 .. Len(s) /\ j \in 1 .. Len(s) BY <1>5, <2>1
    <3>2. s[i] = s[j] BY <1>5, <1>6, <2>1
    <3> QED BY <1>3, <3>1, <3>2
  <2>2. CASE ~(i <= Len(s)) /\ ~(j <= Len(s))
    <3>1. i - Len(s) \in 1 .. Len(t) /\ j - Len(s) \in 1 .. Len(t) BY <1>5, <2>2
    <3>2. t[i - Len(s)] = t[j - Len(s)] BY <1>5, <1>6, <2>2
    <3>3. i - Len(s) = j - Len(s) BY <1>3, <3>1, <3>2
    <3> QED BY <1>5, <3>3
  <2>3. CASE i <= Len(s) /\ ~(j <= Len(s))
    <3>1. i \in 1 .. Len(s) /\ j - Len(s) \in 1 .. Len(t) BY <1>5, <2>3
    <3>2. s[i] = t[j - Len(s)] BY <1>5, <1>6, <2>3
    <3> QED BY <1>1, <1>3, <3>1, <3>2
  <2>4. CASE ~(i <= Len(s)) /\ j <= Len(s)
    <3>1. j \in 1 .. Len(s) /\ i - Len(s) \in 1 .. Len(t) BY <1>5, <2>4
    <3>2. s[j] = t[i - Len(s)] BY <1>5, <1>6, <2>4
    <3> QED BY <1>1, <1>3, <3>1, <3>2
  <2> QED BY <2>1, <2>2, <2>3, <2>4
<1>7. GitOrder = g BY DEF GitOrder, g, s, t, S, T
<1> QED BY <1>5, <1>6, <1>7 DEF LeftOK

\* What the collector has said of the heap stays said while sizes stay.
LEMMA SameHeap ==
    ASSUME entrySize' = entrySize, NEW C, NEW O, NEW E, NEW limit, NEW maxBytes,
           HeapOK(C, O, E, limit, maxBytes)
    PROVE  HeapOK(C, O, E, limit, maxBytes)'
<1>1. \A S : PageBytes(S)' = PageBytes(S)
  BY DEF PageBytes
<1>2. \A S : MoreThanAPage(S, limit, maxBytes) => MoreThanAPage(S, limit, maxBytes)'
  BY <1>1 DEF MoreThanAPage
<1> QED BY <1>2 DEF HeapOK, Below

\* The keys past a cursor, of those seen.
Past(S) == {k \in S : AfterCursor(k)}

\* A call that has started has a collector.
LEMMA CallHasCollector ==
    ASSUME PageTyped, call.state # "none"
    PROVE  call \in CollectorType
BY DEF PageTyped, NoCall

\* A collector that goes on scanning keeps the invariant when its own parts do.
LEMMA ScanGoesOn ==
    ASSUME PageInv, UNCHANGED <<changed, entrySize, cursor>>, NEW c \in CollectorType, call' = c,
           c.state = "scan", LeftOK(c.left, c.seen), c.eligible = Cardinality(Past(c.seen)),
           HeapOK(c.candidates, c.oversized, Past(c.seen), c.limit, c.maxBytes),
           delivered' = delivered \/ (cursor = <<>> /\ delivered' = <<>>),
           cursor = <<>> => delivered' = <<>>
    PROVE  PageInv'
<1>1. delivered' \in Seq(Keys)
  BY EmptySeq DEF PageInv, PageTyped
<1>2. PageTyped'
  BY <1>1 DEF PageInv, PageTyped
<1>3. Eligible' = Past(c.seen)
  BY DEF Eligible, Past, AfterCursor
<1>4. PICK E : E = Past(c.seen) OBVIOUS
<1>5. PICK C, O, l, m : C = c.candidates /\ O = c.oversized /\ l = c.limit /\ m = c.maxBytes
  OBVIOUS
<1>6. HeapOK(C, O, E, l, m)'
  BY <1>4, <1>5, SameHeap
<1>7. ScanOK'
  <2>1. call'.eligible = Cardinality(E) /\ Eligible' = E BY <1>3, <1>4
  <2>2. LeftOK(call.left, call.seen)' BY DEF LeftOK
  <2>3. HeapOK(call.candidates, call.oversized, Eligible, call.limit, call.maxBytes)'
    BY <1>5, <1>6, <2>1
  <2> QED BY <2>1, <2>2, <2>3 DEF ScanOK
<1>8. VerifyOK' /\ PagesAreTheSet'
  BY DEF VerifyOK, PagesAreTheSet
<1>9. CursorOK'
  BY DEF PageInv, CursorOK, UpTo
<1> QED BY <1>2, <1>7, <1>8, <1>9 DEF PageInv

\* workspace_changes_page begins.
LEMMA PageStarts ==
    ASSUME PageInv, NEW limit \in Limits, NEW maxBytes \in ByteLimits,
           WorkspaceChangesPage(limit, maxBytes)
    PROVE  PageInv'
<1>1. PICK c : c = NewCollector(limit, maxBytes) OBVIOUS
<1>2. /\ c.state = "scan" /\ c.left = GitOrder /\ c.limit = limit /\ c.maxBytes = maxBytes
      /\ c.candidates = {} /\ c.oversized = {} /\ c.eligible = 0 /\ c.seen = {} /\ c.page = <<>>
  BY <1>1 DEF NewCollector
<1>3. GitOrder \in Seq(Keys) /\ LeftOK(GitOrder, {}) BY GitOrderOnce
<1>4. c \in CollectorType
  <2>1. limit \in Nat /\ maxBytes \in Nat BY PageAssumption
  <2>2. PICK st, pg, z : st = "scan" /\ pg = <<>> /\ z = 0 OBVIOUS
  <2>3. c = [state |-> st, left |-> GitOrder, limit |-> limit, maxBytes |-> maxBytes,
             candidates |-> {}, oversized |-> {}, eligible |-> z, seen |-> {}, page |-> pg]
    BY <1>1, <2>2 DEF NewCollector
  <2>4. st \in {"scan", "verify", "answered", "state_mismatch", "limit_exceeded",
                "mutation_incomplete"} BY <2>2
  <2>5. z \in Nat /\ pg \in Seq(Keys) BY <2>2, EmptySeq
  <2> QED BY <1>3, <2>1, <2>3, <2>4, <2>5 DEF CollectorType
<1>5. Past(c.seen) = {} BY <1>2 DEF Past
<1>6. c.eligible = Cardinality(Past(c.seen)) BY <1>2, <1>5, FS_EmptySet
<1>7. HeapOK(c.candidates, c.oversized, Past(c.seen), c.limit, c.maxBytes)
  BY <1>2, <1>5 DEF HeapOK
<1>8. LeftOK(c.left, c.seen) BY <1>2, <1>3
<1>9. /\ UNCHANGED <<changed, entrySize, cursor>> /\ call' = c
      /\ delivered' = IF cursor = <<>> THEN <<>> ELSE delivered
  BY <1>1 DEF WorkspaceChangesPage
<1>10. /\ delivered' = delivered \/ (cursor = <<>> /\ delivered' = <<>>)
       /\ cursor = <<>> => delivered' = <<>>
  BY <1>9
<1> QED BY <1>2, <1>4, <1>6, <1>7, <1>8, <1>9, <1>10, ScanGoesOn

\* Observe: an entry before the cursor, an oversized one, or a candidate.
LEMMA PageScans ==
    ASSUME PageInv, Scan
    PROVE  PageInv'
<1>1. /\ call.state = "scan" /\ call.left # <<>>
      /\ UNCHANGED <<changed, entrySize, cursor, delivered>>
  BY DEF Scan
<1>2. PageTyped /\ ScanOK /\ CursorOK BY DEF PageInv
<1>3. call \in CollectorType BY <1>1, <1>2, CallHasCollector
<1>4. PICK b : b = call OBVIOUS
<1>5. PICK k : k = Head(b.left) OBVIOUS
<1> DEFINE tail == Tail(b.left)
<1>6. /\ b.left \in Seq(Keys) /\ b.limit \in Nat /\ b.maxBytes \in Nat /\ b.candidates \in SUBSET Keys
      /\ b.oversized \in SUBSET Keys /\ b.eligible \in Nat /\ b.seen \in SUBSET Keys
      /\ b.page \in Seq(Keys) /\ b.state = "scan" /\ b.left # <<>>
      /\ b \in CollectorType
  BY <1>1, <1>3, <1>4 DEF CollectorType
<1>7. /\ k \in Keys /\ k = b.left[1] /\ tail \in Seq(Keys) /\ Len(tail) = Len(b.left) - 1
      /\ Len(b.left) \in Nat \ {0} /\ \A i \in 1 .. Len(tail) : tail[i] = b.left[i + 1]
  BY <1>5, <1>6, HeadTailProperties, EmptySeq
<1>8. /\ \A i \in 1 .. Len(b.left) : b.left[i] \notin b.seen
      /\ \A i, j \in 1 .. Len(b.left) : b.left[i] = b.left[j] => i = j
      /\ b.eligible = Cardinality(Past(b.seen))
      /\ HeapOK(b.candidates, b.oversized, Past(b.seen), b.limit, b.maxBytes)
  BY <1>1, <1>2, <1>4 DEF ScanOK, LeftOK, Eligible, Past
<1> HIDE DEF tail
<1>9. k \notin b.seen /\ LeftOK(tail, b.seen) /\ LeftOK(tail, b.seen \cup {k})
  <2>1. 1 \in 1 .. Len(b.left) BY <1>7
  <2>2. k \notin b.seen BY <1>7, <1>8, <2>1
  <2>3. ASSUME NEW i \in 1 .. Len(tail)
        PROVE  i + 1 \in 1 .. Len(b.left) /\ tail[i] \notin b.seen \cup {k} /\ i + 1 # 1
    <3>1. i + 1 \in 1 .. Len(b.left) /\ i + 1 # 1 BY <1>7
    <3>2. b.left[i + 1] # b.left[1] BY <1>8, <2>1, <3>1
    <3> QED BY <1>7, <1>8, <3>1, <3>2
  <2>4. ASSUME NEW i \in 1 .. Len(tail), NEW j \in 1 .. Len(tail), tail[i] = tail[j] PROVE i = j
    <3>1. i + 1 = j + 1 BY <1>7, <1>8, <2>3, <2>4
    <3> QED BY <1>7, <3>1
  <2> QED BY <2>2, <2>3, <2>4 DEF LeftOK
<1>10. cursor = <<>> => delivered' = <<>> BY <1>1, <1>2 DEF CursorOK
<1>11. PICK r : r = [b EXCEPT !.left = tail] OBVIOUS
<1>12. /\ r \in CollectorType /\ r.left = tail /\ r.limit = b.limit /\ r.maxBytes = b.maxBytes
       /\ r.candidates = b.candidates /\ r.oversized = b.oversized /\ r.eligible = b.eligible
       /\ r.seen = b.seen /\ r.state = "scan"
  BY <1>6, <1>7, <1>11 DEF CollectorType
<1>13. CASE k \notin changed
  <2>1. call' = r BY <1>4, <1>5, <1>11, <1>13 DEF Scan, tail
  <2> QED BY <1>1, <1>8, <1>9, <1>10, <1>12, <2>1, ScanGoesOn
<1>14. CASE k \in changed /\ ~AfterCursor(k)
  <2>1. PICK c : c = [r EXCEPT !.seen = r.seen \cup {k}] OBVIOUS
  <2>2. call' = c BY <1>4, <1>5, <1>11, <1>14, <2>1 DEF Scan, tail, Observe
  <2>3. /\ c \in CollectorType /\ c.left = tail /\ c.limit = b.limit /\ c.maxBytes = b.maxBytes
        /\ c.candidates = b.candidates /\ c.oversized = b.oversized /\ c.eligible = b.eligible
        /\ c.seen = b.seen \cup {k} /\ c.state = "scan"
    BY <1>6, <1>7, <1>12, <2>1 DEF CollectorType
  <2>4. Past(c.seen) = Past(b.seen) BY <1>14, <2>3 DEF Past
  <2> QED BY <1>1, <1>8, <1>9, <1>10, <2>2, <2>3, <2>4, ScanGoesOn
<1>15. CASE k \in changed /\ AfterCursor(k)
  <2>1. PICK E : E = Past(b.seen) OBVIOUS
  <2>2. Past(b.seen \cup {k}) = E \cup {k} /\ k \notin E /\ E \in SUBSET Keys /\ IsFiniteSet(E)
    <3>1. E \in SUBSET Keys BY <1>6, <2>1 DEF Past
    <3> QED BY <1>9, <1>15, <2>1, <3>1, PageAssumption, FS_Subset DEF Past
  <2>3. Cardinality(E \cup {k}) = b.eligible + 1
    BY <1>8, <2>1, <2>2, FS_AddElement
  <2>4. PICK u : u = [[r EXCEPT !.seen = r.seen \cup {k}] EXCEPT !.eligible = r.eligible + 1]
    OBVIOUS
  <2>5. /\ u \in CollectorType /\ u.left = tail /\ u.limit = b.limit /\ u.maxBytes = b.maxBytes
        /\ u.candidates = b.candidates /\ u.oversized = b.oversized /\ u.eligible = b.eligible + 1
        /\ u.seen = b.seen \cup {k} /\ u.state = "scan"
    <3>1. PICK v : v = [r EXCEPT !.seen = r.seen \cup {k}] OBVIOUS
    <3>2. /\ v \in CollectorType /\ v.left = tail /\ v.limit = b.limit /\ v.maxBytes = b.maxBytes
          /\ v.candidates = b.candidates /\ v.oversized = b.oversized /\ v.eligible = b.eligible
          /\ v.seen = b.seen \cup {k} /\ v.state = "scan"
      BY <1>6, <1>7, <1>12, <3>1 DEF CollectorType
    <3>3. u = [v EXCEPT !.eligible = b.eligible + 1] /\ b.eligible + 1 \in Nat
      BY <1>6, <1>12, <2>4, <3>1
    <3> QED BY <3>2, <3>3 DEF CollectorType
  <2>6. CASE entrySize[k] > b.maxBytes
    <3>1. PICK c : c = [u EXCEPT !.oversized = u.oversized \cup {k}] OBVIOUS
    <3>2. call' = c
      BY <1>4, <1>5, <1>11, <1>12, <1>15, <2>4, <2>6, <3>1 DEF Scan, tail, Observe
    <3>3. /\ c \in CollectorType /\ c.left = tail /\ c.limit = b.limit /\ c.maxBytes = b.maxBytes
          /\ c.candidates = b.candidates /\ c.oversized = b.oversized \cup {k}
          /\ c.eligible = b.eligible + 1 /\ c.seen = b.seen \cup {k} /\ c.state = "scan"
      BY <1>7, <2>5, <3>1 DEF CollectorType
    <3>4. HeapOK(b.candidates, b.oversized \cup {k}, E \cup {k}, b.limit, b.maxBytes)
      BY <1>8, <2>1 DEF HeapOK
    <3> QED BY <1>1, <1>9, <1>10, <2>2, <2>3, <3>2, <3>3, <3>4, ScanGoesOn
  <2>7. CASE ~(entrySize[k] > b.maxBytes)
    <3>0. PICK T : T = Trimmed(b.candidates \cup {k}, b.limit, b.maxBytes) OBVIOUS
    <3>1. PICK c : c = [u EXCEPT !.candidates = T] OBVIOUS
    <3>2. call' = c
      BY <1>4, <1>5, <1>11, <1>12, <1>15, <2>4, <2>5, <2>7, <3>0, <3>1 DEF Scan, tail, Observe
    <3>3. T \in SUBSET (b.candidates \cup {k}) /\ b.candidates \cup {k} \in SUBSET Keys
      BY <1>2, <1>6, <1>7, <3>0, TrimmedPrefix
    <3>4. /\ c \in CollectorType /\ c.left = tail /\ c.limit = b.limit /\ c.maxBytes = b.maxBytes
          /\ c.candidates = T /\ c.oversized = b.oversized
          /\ c.eligible = b.eligible + 1 /\ c.seen = b.seen \cup {k} /\ c.state = "scan"
      BY <1>7, <2>5, <3>1, <3>3 DEF CollectorType
    <3>5. entrySize[k] \in Nat /\ entrySize[k] <= b.maxBytes
      <4>1. entrySize[k] \in Nat BY <1>2, <1>7, PageAssumption DEF PageTyped
      <4> QED BY <1>6, <2>7, <4>1
    <3>6. HeapOK(T, b.oversized, E \cup {k}, b.limit, b.maxBytes)
      <4>1. /\ b.candidates \subseteq E /\ b.oversized \subseteq E
            /\ \A i \in b.candidates \cup {k} : entrySize[i] <= b.maxBytes
            /\ \A d \in E \ (b.candidates \cup b.oversized) :
                  MoreThanAPage(Below(b.candidates, d), b.limit, b.maxBytes)
        BY <1>8, <2>1, <3>5 DEF HeapOK
      <4>2. ASSUME NEW d \in (E \cup {k}) \ (T \cup b.oversized)
            PROVE  MoreThanAPage(Below(T, d), b.limit, b.maxBytes)
        <5>1. \/ d \in (b.candidates \cup {k}) \ T
              \/ MoreThanAPage(Below(b.candidates, d), b.limit, b.maxBytes)
          BY <4>1
        <5>2. d \in Keys BY <1>7, <2>2
        <5> QED BY <1>2, <1>6, <1>7, <3>0, <4>1, <5>1, <5>2, GivenUp
      <4> QED BY <3>3, <4>1, <4>2 DEF HeapOK
    <3> QED BY <1>1, <1>9, <1>10, <2>2, <2>3, <3>2, <3>4, <3>6, ScanGoesOn
  <2> QED BY <2>6, <2>7
<1> QED BY <1>13, <1>14, <1>15

\* A call that ended without an answer says nothing of a page.
LEMMA PageRefused ==
    ASSUME PageInv, UNCHANGED <<changed, entrySize, cursor, delivered>>,
           NEW why \in {"state_mismatch", "limit_exceeded", "mutation_incomplete"},
           call.state # "none", call' = RefusePage(why)
    PROVE  PageInv'
<1>1. PageTyped /\ CursorOK /\ call \in CollectorType
  BY CallHasCollector DEF PageInv
<1>2. PICK c, pg : c = call' /\ pg = <<>> OBVIOUS
<1>3. c = [[call EXCEPT !.state = why] EXCEPT !.page = pg]
  BY <1>1, <1>2 DEF RefusePage, CollectorType
<1>4. pg \in Seq(Keys) BY <1>2, EmptySeq
<1>5. c \in CollectorType /\ c.state = why
  BY <1>1, <1>3, <1>4 DEF CollectorType
<1>6. PageTyped' BY <1>1, <1>2, <1>5 DEF PageTyped
<1>7. why \notin {"scan", "verify", "answered"} OBVIOUS
<1>8. ScanOK' /\ VerifyOK' /\ PagesAreTheSet'
  BY <1>2, <1>5, <1>7 DEF ScanOK, VerifyOK, PagesAreTheSet
<1>9. CursorOK' BY <1>1, <1>2, <1>5, <1>7 DEF CursorOK, UpTo
<1> QED BY <1>6, <1>8, <1>9 DEF PageInv

\* Finish: refused, or the first keys past the cursor.
LEMMA PageFinishes ==
    ASSUME PageInv, FinishPage
    PROVE  PageInv'
<1>1. /\ call.state = "scan" /\ UNCHANGED <<changed, entrySize, cursor, delivered>>
  BY DEF FinishPage
<1>2. PageTyped /\ ScanOK /\ CursorOK BY DEF PageInv
<1>3. call \in CollectorType BY <1>1, <1>2, CallHasCollector
<1>4. PICK b, P : b = call /\ P = Taken(b) OBVIOUS
<1>5. PICK E : E = Eligible OBVIOUS
<1>6. /\ b \in CollectorType /\ E \in SUBSET Keys /\ b.eligible = Cardinality(E)
      /\ HeapOK(b.candidates, b.oversized, E, b.limit, b.maxBytes)
  BY <1>1, <1>2, <1>3, <1>4, <1>5 DEF ScanOK, Eligible, CollectorType
<1>7. P \in SUBSET E /\ \A k \in P, i \in E : i < k => i \in P
  BY <1>2, <1>4, <1>6, TakenPrefix
<1>8. IsFiniteSet(P) /\ P \in SUBSET Nat /\ P \in SUBSET Keys /\ IsFiniteSet(E)
  BY <1>6, <1>7, PageAssumption, FS_Subset
<1>9. SortedKeys(P) \in Seq(Keys) /\ (SortedKeys(P) = <<>> <=> P = {})
  BY <1>8, SortedKeysIs, SortedMembers, SeqMonotonic
<1>10. Take(call) = SortedKeys(P) BY <1>4 DEF Take
<1>11. CASE cursor # <<>> /\ (cursor[1].set # call.seen \/ cursor[1].after \notin call.seen)
  <2>1. call' = RefusePage("state_mismatch") BY <1>11 DEF FinishPage
  <2> QED BY <1>1, <2>1, PageRefused
<1>12. CASE /\ ~(cursor # <<>> /\ (cursor[1].set # call.seen \/ cursor[1].after \notin call.seen))
            /\ Take(call) = <<>> /\ call.eligible > 0
  <2>1. call' = RefusePage("limit_exceeded") BY <1>12 DEF FinishPage
  <2> QED BY <1>1, <2>1, PageRefused
<1>13. CASE /\ ~(cursor # <<>> /\ (cursor[1].set # call.seen \/ cursor[1].after \notin call.seen))
            /\ ~(Take(call) = <<>> /\ call.eligible > 0)
  <2>1. PICK c, st, pg, g, none :
          c = call' /\ st = "verify" /\ pg = SortedKeys(P) /\ g = GitOrder /\ none = {}
    OBVIOUS
  <2>2. c = [b EXCEPT !.state = st, !.page = pg, !.left = g, !.candidates = none]
    BY <1>4, <1>10, <1>13, <2>1 DEF FinishPage
  <2>3. g \in Seq(Keys) /\ pg \in Seq(Keys) /\ none \in SUBSET Keys
    BY <1>9, <2>1, GitOrderOnce
  <2>4. st \in {"scan", "verify", "answered", "state_mismatch", "limit_exceeded",
                "mutation_incomplete"} BY <2>1
  <2>5. /\ c \in CollectorType /\ c.state = st /\ c.page = pg /\ c.seen = b.seen
        /\ c.eligible = b.eligible
    BY <1>6, <2>2, <2>3, <2>4 DEF CollectorType
  <2>6. PageTyped' BY <1>1, <1>2, <2>1, <2>5 DEF PageTyped
  <2>7. Eligible' = E
    BY <1>1, <1>4, <1>5, <2>1, <2>5 DEF Eligible, AfterCursor
  <2>8. P = {} => E = {}
    <3>1. P = {} => Cardinality(E) = 0
      BY <1>4, <1>6, <1>8, <1>9, <1>10, <1>13, FS_CardinalityType
    <3> QED BY <1>8, <3>1, FS_EmptySet
  <2>9. VerifyOK'
    <3>1. call'.eligible = Cardinality(E) BY <1>6, <2>1, <2>5
    <3>2. call'.page = SortedKeys(P) BY <2>1, <2>5
    <3>3. (SortedKeys(P))' = SortedKeys(P) BY DEF SortedKeys, Increasing
    <3>4. cursor # <<>> => cursor[1].set = call'.seen BY <1>4, <1>13, <2>1, <2>5
    <3>5. \E Q \in SUBSET E :
             /\ call'.page = SortedKeys(Q) /\ (Q = {} => E = {})
             /\ \A k \in Q, i \in E : i < k => i \in Q
      BY <1>7, <2>8, <3>2
    <3> QED BY <1>1, <2>7, <3>1, <3>4, <3>5 DEF VerifyOK
  <2>10. ScanOK' /\ PagesAreTheSet'
    BY <2>1, <2>5 DEF ScanOK, PagesAreTheSet
  <2>11. CursorOK' BY <1>1, <1>2, <2>1, <2>5 DEF CursorOK, UpTo
  <2> QED BY <2>6, <2>9, <2>10, <2>11 DEF PageInv
<1> QED BY <1>11, <1>12, <1>13

\* The second listing leaves the page alone.
LEMMA PageRescans ==
    ASSUME PageInv, Rescan
    PROVE  PageInv'
<1>1. /\ call.state = "verify" /\ call.left # <<>>
      /\ UNCHANGED <<changed, entrySize, cursor, delivered>>
  BY DEF Rescan
<1>2. PageTyped /\ VerifyOK /\ CursorOK BY DEF PageInv
<1>3. call \in CollectorType BY <1>1, <1>2, CallHasCollector
<1>4. PICK c, lf, cd : c = call' /\ lf = Tail(call.left)
                       /\ cd = call.candidates \cup ({Head(call.left)} \cap changed)
  OBVIOUS
<1>5. lf \in Seq(Keys) /\ cd \in SUBSET Keys
  BY <1>1, <1>2, <1>3, <1>4, HeadTailProperties DEF CollectorType, PageTyped
<1>6. c = [call EXCEPT !.left = lf, !.candidates = cd] BY <1>4 DEF Rescan
<1>7. /\ c \in CollectorType /\ c.state = call.state /\ c.page = call.page /\ c.seen = call.seen
      /\ c.eligible = call.eligible
  BY <1>3, <1>5, <1>6 DEF CollectorType
<1>8. PageTyped' BY <1>1, <1>2, <1>4, <1>7 DEF PageTyped
<1>9. Eligible' = Eligible BY <1>1, <1>4, <1>7 DEF Eligible, AfterCursor
<1>10. VerifyOK' BY <1>1, <1>2, <1>4, <1>7, <1>9 DEF VerifyOK
<1>11. ScanOK' /\ PagesAreTheSet' BY <1>1, <1>4, <1>7 DEF ScanOK, PagesAreTheSet
<1>12. CursorOK' BY <1>1, <1>2, <1>4, <1>7 DEF CursorOK, UpTo
<1> QED BY <1>8, <1>10, <1>11, <1>12 DEF PageInv

\* The answer puts the page behind the pages before it.
LEMMA PageAnswers ==
    ASSUME PageInv, AnswerPage
    PROVE  PageInv'
<1>1. call.state = "verify" /\ UNCHANGED <<changed, entrySize>> BY DEF AnswerPage
<1>2. PageTyped /\ VerifyOK /\ CursorOK BY DEF PageInv
<1>3. call \in CollectorType BY <1>1, <1>2, CallHasCollector
<1>4. CASE call' = RefusePage("mutation_incomplete") /\ UNCHANGED <<cursor, delivered>>
  BY <1>1, <1>4, PageRefused
<1>5. CASE /\ call' = [call EXCEPT !.state = "answered"]
           /\ delivered' = delivered \o call.page
           /\ cursor' = IF call.eligible = Len(call.page) THEN <<>>
                        ELSE <<[set |-> call.seen, after |-> call.page[Len(call.page)]]>>
  <2>1. PICK c, st : c = call' /\ st = "answered" OBVIOUS
  <2>2. c = [call EXCEPT !.state = st] BY <1>5, <2>1
  <2>3. st \in {"scan", "verify", "answered", "state_mismatch", "limit_exceeded",
                "mutation_incomplete"} BY <2>1
  <2>4. c \in CollectorType /\ c.state = st /\ c.seen = call.seen
    BY <1>3, <2>2, <2>3 DEF CollectorType
  <2>5. PICK S, E : S = call.seen /\ E = Eligible OBVIOUS
  <2>6. PICK P \in SUBSET E :
              /\ call.page = SortedKeys(P) /\ (P = {} => E = {})
              /\ \A k \in P, i \in E : i < k => i \in P
    BY <1>1, <1>2, <2>5 DEF VerifyOK
  <2>7. /\ S \in SUBSET Keys /\ S \in SUBSET Nat /\ IsFiniteSet(S) /\ E \in SUBSET S
        /\ P \in SUBSET Nat /\ IsFiniteSet(P) /\ IsFiniteSet(E) /\ E \in SUBSET Nat
        /\ P \in SUBSET Keys
    <3>1. S \in SUBSET Keys /\ E \in SUBSET S BY <1>3, <2>5 DEF CollectorType, Eligible
    <3>2. S \in SUBSET Nat /\ E \in SUBSET Nat /\ P \in SUBSET Nat /\ P \in SUBSET Keys
      BY <3>1, PageAssumption
    <3>3. IsFiniteSet(S) BY <3>1, PageAssumption, FS_Subset
    <3>4. IsFiniteSet(E) BY <3>1, <3>3, FS_Subset
    <3>5. IsFiniteSet(P) BY <3>4, FS_Subset
    <3> QED BY <3>1, <3>2, <3>3, <3>4, <3>5
  <2>8. call.eligible = Cardinality(E) /\ Len(call.page) = Cardinality(P)
    BY <1>1, <1>2, <2>5, <2>6, <2>7, SortedKeysIs DEF VerifyOK
  \* The pages so far, the one answered included.
  <2>9. PICK D \in SUBSET S :
             /\ \A k \in S : k \in D <=> ~AfterCursor(k)
             /\ delivered = SortedKeys(D) /\ \A k \in D, i \in E : k < i
    <3>1. CASE cursor = <<>>
      <4>1. delivered = <<>> BY <1>1, <1>2, <3>1 DEF CursorOK
      <4>2. SortedKeys({}) = <<>> BY FS_EmptySet, SortedMembers
      <4>3. \A k \in S : AfterCursor(k) BY <3>1 DEF AfterCursor
      <4> QED BY <4>1, <4>2, <4>3
    <3>2. CASE cursor # <<>>
      <4>1. PICK a : a = cursor[1].after OBVIOUS
      <4>2. a \in S /\ delivered = SortedKeys(UpTo(S, a))
        BY <1>1, <1>2, <2>5, <3>2, <4>1 DEF CursorOK, VerifyOK
      <4>3. \A k \in S : AfterCursor(k) <=> k > a BY <3>2, <4>1 DEF AfterCursor
      <4>4. \A k \in S : k \in UpTo(S, a) <=> ~AfterCursor(k)
        BY <2>7, <4>2, <4>3 DEF UpTo
      <4>5. \A i \in E : i \in S /\ i > a BY <2>5, <2>7, <4>3 DEF Eligible
      <4>6. \A k \in UpTo(S, a), i \in E : k < i
        BY <2>7, <4>2, <4>5 DEF UpTo
      <4>7. UpTo(S, a) \in SUBSET S BY DEF UpTo
      <4> QED BY <4>2, <4>4, <4>6, <4>7
    <3> QED BY <3>1, <3>2
  <2>10. D \in SUBSET Nat /\ IsFiniteSet(D) /\ \A k \in D, i \in P : k < i
    BY <2>7, <2>9, FS_Subset
  <2>11. delivered' = SortedKeys(D \cup P)
    BY <1>5, <2>6, <2>7, <2>9, <2>10, SortedConcat
  <2>12. D \cup P \in SUBSET Keys /\ D \cup P \in SUBSET Nat /\ IsFiniteSet(D \cup P)
    BY <2>7, <2>9, <2>10, FS_Union
  <2>13. delivered' \in Seq(Keys)
    BY <2>11, <2>12, SortedKeysIs, SeqMonotonic
  <2>14. \A k \in S : k \in D \/ k \in E
    BY <2>5, <2>9 DEF Eligible
  <2>15. ScanOK' /\ VerifyOK'
    BY <2>1, <2>4 DEF ScanOK, VerifyOK
  <2>16. CASE call.eligible = Len(call.page)
    <3>1. cursor' = <<>> BY <1>5, <2>16
    <3>2. P = E BY <2>7, <2>8, <2>16, FS_Subset
    <3>3. D \cup P = S BY <2>7, <2>9, <2>14, <3>2
    <3>4. delivered' = SortedKeys(call'.seen) BY <2>1, <2>4, <2>5, <2>11, <3>3
    <3>5. PagesAreTheSet' BY <3>4 DEF PagesAreTheSet
    <3>6. PageTyped' BY <1>1, <1>2, <2>1, <2>4, <2>13, <3>1 DEF PageTyped
    <3>7. CursorOK' BY <2>1, <2>4, <3>1 DEF CursorOK
    <3> QED BY <2>15, <3>5, <3>6, <3>7 DEF PageInv
  <2>17. CASE call.eligible # Len(call.page)
    <3>1. PICK a, w : a = call.page[Len(call.page)] /\ w = [set |-> S, after |-> a] OBVIOUS
    <3>2. cursor' = <<w>> BY <1>5, <2>5, <2>17, <3>1
    <3>3. P # {}
      <4>1. P = {} => Cardinality(E) = Cardinality(P) BY <2>6
      <4> QED BY <2>8, <2>17, <4>1
    <3>4. a \in P /\ \A k \in P : k <= a BY <2>6, <2>7, <3>1, <3>3, SortedLast
    <3>5. UpTo(S, a) = D \cup P
      <4>1. a \in E /\ a \in Nat BY <2>7, <3>4
      <4>2. ASSUME NEW k \in D \cup P PROVE k \in S /\ k <= a
        <5>1. CASE k \in P BY <2>7, <3>4, <5>1
        <5>2. CASE k \in D BY <2>7, <2>9, <4>1, <5>2
        <5> QED BY <5>1, <5>2
      <4>3. ASSUME NEW k \in S, k <= a PROVE k \in D \cup P
        <5>1. CASE k \in D BY <5>1
        <5>2. CASE k \in E /\ k = a BY <3>4, <5>2
        <5>3. CASE k \in E /\ k < a BY <2>6, <3>4, <5>3
        <5> QED BY <2>7, <2>14, <4>1, <4>3, <5>1, <5>2, <5>3
      <4> QED BY <4>2, <4>3 DEF UpTo
    <3>6. a \in S /\ a \in Keys /\ w \in CursorType /\ w.set = S /\ w.after = a
      BY <2>7, <3>1, <3>4 DEF CursorType
    <3>7. cursor' # <<>> /\ cursor'[1] = w BY <3>2
    <3>8. PageTyped' BY <1>1, <1>2, <2>1, <2>4, <2>13, <3>2, <3>6 DEF PageTyped
    <3>9. CursorOK'
      <4>1. delivered' = SortedKeys(UpTo(S, a)) BY <2>11, <3>5
      <4> QED BY <3>6, <3>7, <4>1 DEF CursorOK
    <3>10. PagesAreTheSet' BY <3>7 DEF PagesAreTheSet
    <3> QED BY <2>15, <3>8, <3>9, <3>10 DEF PageInv
  <2> QED BY <2>16, <2>17
<1> QED BY <1>4, <1>5 DEF AnswerPage

\* The worktree changes under a listing, and clients start over.
LEMMA PageOthers ==
    ASSUME PageInv
    PROVE  /\ Restart => PageInv'
           /\ \A k \in Keys : Toggle(k) => PageInv'
           /\ UNCHANGED pageVars => PageInv'
<1>1. PageTyped /\ ScanOK /\ VerifyOK /\ CursorOK /\ PagesAreTheSet BY DEF PageInv
<1>2. ASSUME Restart PROVE PageInv'
  <2>1. /\ cursor' = <<>> /\ delivered' = <<>> /\ call' = NoCall
        /\ UNCHANGED <<changed, entrySize>> /\ call'.state = "none"
    BY <1>2 DEF Restart, NoCall
  <2>2. PageTyped' BY <1>1, <2>1, EmptySeq DEF PageTyped, NoCall
  <2> QED BY <2>1, <2>2 DEF PageInv, ScanOK, VerifyOK, CursorOK, PagesAreTheSet
<1>3. ASSUME UNCHANGED <<entrySize, cursor, delivered, call>>, changed' \subseteq Keys
      PROVE  PageInv'
  <2>1. PageTyped' BY <1>1, <1>3 DEF PageTyped, NoCall
  <2>2. Eligible' = Eligible BY <1>3 DEF Eligible, AfterCursor
  <2>3. ScanOK'
    <3>1. PICK C, O, E, l, m :
            C = call.candidates /\ O = call.oversized /\ E = Eligible /\ l = call.limit
            /\ m = call.maxBytes
      OBVIOUS
    <3>2. HeapOK(C, O, E, l, m) => HeapOK(C, O, E, l, m)' BY <1>3, SameHeap
    <3>3. call.state = "scan" => HeapOK(C, O, E, l, m)
      BY <1>1, <3>1 DEF ScanOK
    <3>4. call.state = "scan" =>
            HeapOK(call.candidates, call.oversized, Eligible, call.limit, call.maxBytes)'
      BY <1>3, <2>2, <3>1, <3>2, <3>3
    <3> QED BY <1>1, <1>3, <2>2, <3>4 DEF ScanOK, LeftOK
  <2>4. VerifyOK' /\ CursorOK' /\ PagesAreTheSet'
    BY <1>1, <1>3, <2>2 DEF VerifyOK, CursorOK, PagesAreTheSet, UpTo
  <2> QED BY <2>1, <2>3, <2>4 DEF PageInv
<1>4. ASSUME NEW k \in Keys, Toggle(k) PROVE PageInv'
  BY <1>1, <1>3, <1>4 DEF Toggle, PageTyped
<1>5. ASSUME UNCHANGED pageVars PROVE PageInv'
  BY <1>1, <1>3, <1>5 DEF pageVars, PageTyped
<1> QED BY <1>2, <1>4, <1>5

\* The collector, the pages and the cursor of every listing agree.
THEOREM PageInvHolds == PageSpec => []PageInv
<1>1. PageInit => PageInv
  <2> SUFFICES ASSUME PageInit PROVE PageInv OBVIOUS
  <2>1. /\ changed = {} /\ entrySize \in [Keys -> EntrySizes]
        /\ cursor = <<>> /\ delivered = <<>> /\ call = NoCall /\ call.state = "none"
    BY DEF PageInit, NoCall
  <2>2. PageTyped BY <2>1, EmptySeq DEF PageTyped
  <2> QED BY <2>1, <2>2 DEF PageInv, ScanOK, VerifyOK, CursorOK, PagesAreTheSet
<1>2. PageInv /\ [PageNext]_pageVars => PageInv'
  BY PageStarts, PageScans, PageFinishes, PageRescans, PageAnswers, PageOthers DEF PageNext
<1> QED BY <1>1, <1>2, PTL DEF PageSpec

\* Pages that end without a cursor are one change set, in order: nothing is
\* skipped or repeated by workspace_changes_page, whatever the number of
\* changed paths, their sizes, the limits and byte limits of each page, and
\* the changes made meanwhile.
THEOREM PagesHold == PageSpec => []PagesAreTheSet
<1>1. PageInv => PagesAreTheSet BY DEF PageInv
<1> QED BY <1>1, PageInvHolds, PTL

\* A cursor names a key of the set whose digest it carries.
THEOREM PageTypesHold == PageSpec => []PageTypeOK
<1>1. PageInv => PageTypeOK
  BY DEF PageInv, PageTypeOK, PageTyped, CursorOK, CursorType
<1> QED BY <1>1, PageInvHolds, PTL
=============================================================================
