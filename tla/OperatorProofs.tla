--------------------------- MODULE OperatorProofs ---------------------------
(***************************************************************************)
(* What an operator does to a live Runtime, for any number of releases and *)
(* of rows: the structured release that replaces the services, and the     *)
(* repair and cancellation of rows an older Runtime left.                  *)
(***************************************************************************)
EXTENDS Release, Repair, TLAPS

-----------------------------------------------------------------------------
(* The release.  The fence and the drain make one deployer at a time the   *)
(* owner of the services; its step counter says what it has changed so     *)
(* far, and as the owner it is the only one who did.  A deployer whose     *)
(* launch was reported failed is an owner nobody waits for: with one, the  *)
(* fence alone remains.                                                    *)

Fencing == {"drain", "stage", "cutover"}
Replacing == {"stage", "cutover"}
Owning == {"stage", "cutover", "failed", "rollback", "restored", "deployed", "rolled_back",
           "unrestored", "unsafe"}
DeployerPcs == Owning \cup
    {"none", "exited", "arguments", "preflight", "request", "fence", "drain"}
Results == {NoFile, "deployed", "rolled_back", "rollback_failed", "recovery_failed"}

DeployerRow ==
    [pc : DeployerPcs, step : 0 .. 8, issued : BOOLEAN, pre : Nat,
     before : [path : [Services -> Images], env : Images]]
ReceiptRow == [request : BOOLEAN, rollback : BOOLEAN, result : Results]
ServiceRow == [state : ServiceStates, image : Images]

ReleaseTyped ==
    /\ service \in [Services -> ServiceRow] /\ installed \in [Services -> Images]
    /\ envFile \in Images \cup {Torn} /\ schema \in Nat
    /\ fence \in {"free", "shared", "exclusive"} /\ candidates \subseteq Effects
    /\ jobs \in [Effects -> {"none", "submitting", "accepted", "running", "resolved"}]
    /\ deployer \in [Effects -> DeployerRow] /\ receipt \in [Effects -> ReceiptRow]
    /\ unstopped \subseteq Effects /\ unanswered \subseteq Effects

StepTyped ==
    \A e \in Effects :
        /\ deployer[e].pc = "cutover" => deployer[e].step \in 1 .. 8
        /\ deployer[e].pc = "rollback" => deployer[e].step \in 1 .. 7

\* Who holds the lock on admission.lock, and how.
Fenced ==
    /\ \A e \in Effects : jobs[e] = "submitting" => fence = "shared"
    /\ \A e \in Effects : deployer[e].pc \in Fencing => fence = "exclusive"
    /\ \A e, f \in Effects : jobs[e] = "submitting" /\ jobs[f] = "submitting" => e = f
    /\ \A e, f \in Effects : deployer[e].pc \in Fencing /\ deployer[f].pc \in Fencing => e = f

\* A deployer belongs to a running Job, or to one that was failed because the
\* answer to its launch was lost, and there is one per Job.
Tracked ==
    \A e \in Effects :
        /\ Alive(e) => jobs[e] = "running" \/ (jobs[e] = "resolved" /\ e \in unanswered)
        /\ jobs[e] \in {"none", "submitting", "accepted"} => deployer[e].pc = "none"

Alone ==
    /\ \A e \in Effects : deployer[e].pc \in Replacing => \A f \in Effects \ {e} : ~Active(f)
    /\ unanswered = {} =>
          \A e, f \in Effects : deployer[e].pc \in Owning /\ deployer[f].pc \in Owning => e = f

\* The receipt, by how far its deployer has come.
ReceiptOf(e) ==
    /\ deployer[e].pc \in {"none", "arguments", "preflight", "request"} =>
          receipt[e].result = NoFile /\ receipt[e].rollback = FALSE
    /\ deployer[e].pc \in {"fence", "drain"} \cup Owning =>
          /\ receipt[e].request = TRUE /\ receipt[e].result = NoFile
          /\ receipt[e].rollback = (deployer[e].pc = "rolled_back")
Receipts == \A e \in Effects : ReceiptOf(e)

\* From the stop to the start the Runtime is stopped.
Between(e) == /\ deployer[e].step \in 2 .. 7
              /\ deployer[e].step = 7 => deployer[e].issued = FALSE
Restarted(e) == deployer[e].step = 8 \/ (deployer[e].step = 7 /\ deployer[e].issued = TRUE)

CutoverOf(e) ==
    unanswered = {} /\ deployer[e].pc = "cutover" =>
        /\ e \in candidates
        /\ Between(e) => service["runtime"].state = "stopped"
        /\ deployer[e].step >= 4 => envFile = e
        /\ deployer[e].step >= 5 => installed["runtime"] = e
        /\ deployer[e].step >= 6 => installed["broker"] = e
        /\ Restarted(e) => service["runtime"].image = e
DeployedOf(e) ==
    unanswered = {} /\ deployer[e].pc = "deployed" =>
        /\ e \in candidates /\ envFile = e
        /\ installed["runtime"] = e /\ installed["broker"] = e
        /\ service["runtime"].image = e /\ schema <= Migrations[e]
RollbackOf(e) ==
    unanswered = {} /\ deployer[e].pc = "rollback" =>
        /\ deployer[e].step >= 4 => envFile = deployer[e].before.env
        /\ deployer[e].step >= 5 => installed["runtime"] = deployer[e].before.path["runtime"]
        /\ deployer[e].step >= 6 => installed["broker"] = deployer[e].before.path["broker"]
        /\ e \notin unstopped =>
              /\ Between(e) => service["runtime"].state = "stopped"
              /\ Restarted(e) => service["runtime"].image = deployer[e].before.path["runtime"]
RestoredOf(e) ==
    unanswered = {} /\ deployer[e].pc \in {"restored", "rolled_back"} =>
        /\ envFile = deployer[e].before.env
        /\ installed["runtime"] = deployer[e].before.path["runtime"]
        /\ installed["broker"] = deployer[e].before.path["broker"]
        /\ e \notin unstopped =>
              /\ service["runtime"].image = deployer[e].before.path["runtime"]
              /\ schema <= Migrations[service["runtime"].image]
ProgressOf(e) == CutoverOf(e) /\ DeployedOf(e) /\ RollbackOf(e) /\ RestoredOf(e)
Progress == \A e \in Effects : ProgressOf(e)

\* A Runtime that serves has opened the Registry at its own version.
OpensItsOwn == service["runtime"].state = "running" => schema = Migrations[service["runtime"].image]

Controlled == ReleaseTyped /\ StepTyped /\ Fenced /\ Tracked /\ Alone
ReleaseInv == Controlled /\ Receipts /\ Progress /\ OpensItsOwn

-----------------------------------------------------------------------------
(* Rows of a deployer.                                                     *)

Moves(e, row) == deployer' = [deployer EXCEPT ![e] = row]

LEMMA MovesRow ==
    ASSUME ReleaseTyped, NEW e \in Effects, NEW row \in DeployerRow, Moves(e, row)
    PROVE  /\ deployer' \in [Effects -> DeployerRow] /\ deployer'[e] = row
           /\ \A f \in Effects : f # e => deployer'[f] = deployer[f]
BY DEF ReleaseTyped, Moves

LEMMA GotoRow ==
    ASSUME ReleaseTyped, NEW e \in Effects, NEW pc \in DeployerPcs, DeployerGoto(e, pc)
    PROVE  \E row \in DeployerRow :
              /\ Moves(e, row) /\ row.pc = pc /\ row.step = deployer[e].step
              /\ row.issued = deployer[e].issued /\ row.before = deployer[e].before
<1>1. deployer[e] \in DeployerRow
    BY DEF ReleaseTyped
<1>2. PICK row : row = [deployer[e] EXCEPT !.pc = pc]
    OBVIOUS
<1>3. /\ row \in DeployerRow /\ row.pc = pc /\ row.step = deployer[e].step
      /\ row.issued = deployer[e].issued /\ row.before = deployer[e].before
    BY <1>1, <1>2 DEF DeployerRow
<1>4. Moves(e, row)
    BY <1>2 DEF DeployerGoto, Moves
<1> QED
    BY <1>3, <1>4

\* The statement a deployer runs tells its step.
LEMMA StatementStep ==
    ASSUME ReleaseTyped, StepTyped, NEW e \in Effects, NEW o, NEW s, Runs(e, o, s)
    PROVE  /\ deployer[e].pc \in {"cutover", "rollback"}
           /\ o = "stop" /\ s = "runtime" => deployer[e].step = 1
           /\ o = "stop" /\ s = "broker" => deployer[e].step = 2
           /\ o = "env" => deployer[e].step = 3
           /\ o = "path" /\ s = "runtime" => deployer[e].step = 4
           /\ o = "path" /\ s = "broker" => deployer[e].step = 5
           /\ o = "start" /\ s = "broker" => deployer[e].step = 6
           /\ o = "start" /\ s = "runtime" => deployer[e].step = 7
           /\ o = "check" => deployer[e].step = 8 /\ deployer[e].pc = "cutover"
<1>1. deployer[e].pc \in {"cutover", "rollback"} /\ Statement(e) = <<o, s>>
    BY DEF Runs
<1>2. deployer[e].step \in 1 .. 8 /\ (deployer[e].pc = "rollback" => deployer[e].step \in 1 .. 7)
    BY <1>1 DEF StepTyped
<1>3. Statement(e) = Cutover[deployer[e].step]
    <2>1. CASE deployer[e].pc = "cutover"
        BY <2>1 DEF Statement, DeployerAt
    <2>2. CASE deployer[e].pc = "rollback"
        <3>1. deployer[e].step \in 1 .. 7
            BY <1>2, <2>2
        <3>2. Rollback[deployer[e].step] = Cutover[deployer[e].step]
            <4>1. PICK n \in 1 .. 7 : n = deployer[e].step
                BY <3>1
            <4>2. PICK c : c = Cutover
                OBVIOUS
            <4>3. c \in Seq({"stop", "env", "path", "start", "check"} \X {"runtime", "broker", "env"})
                  /\ Len(c) = 8
                BY <4>2 DEF Cutover
            <4>4. SubSeq(c, 1, 7)[n] = c[n]
                BY <4>3
            <4> QED
                BY <4>1, <4>2, <4>4 DEF Rollback
        <3> QED
            BY <2>2, <3>2 DEF Statement, DeployerAt
    <2> QED
        BY <1>1, <2>1, <2>2
<1>4. PICK n \in 1 .. 8 : n = deployer[e].step
    BY <1>2
<1>5. Cutover[n] = <<o, s>>
    BY <1>1, <1>3, <1>4
<1>6. n = 1 \/ n = 2 \/ n = 3 \/ n = 4 \/ n = 5 \/ n = 6 \/ n = 7 \/ n = 8
    BY <1>4
<1>7. /\ Cutover[1] = <<"stop", "runtime">> /\ Cutover[2] = <<"stop", "broker">>
      /\ Cutover[3] = <<"env", "env">> /\ Cutover[4] = <<"path", "runtime">>
      /\ Cutover[5] = <<"path", "broker">> /\ Cutover[6] = <<"start", "broker">>
      /\ Cutover[7] = <<"start", "runtime">> /\ Cutover[8] = <<"check", "runtime">>
    BY DEF Cutover
<1>8. /\ o = "stop" /\ s = "runtime" => n = 1
      /\ o = "stop" /\ s = "broker" => n = 2
      /\ o = "env" => n = 3
      /\ o = "path" /\ s = "runtime" => n = 4
      /\ o = "path" /\ s = "broker" => n = 5
      /\ o = "start" /\ s = "broker" => n = 6
      /\ o = "start" /\ s = "runtime" => n = 7
      /\ o = "check" => n = 8
    BY <1>5, <1>6, <1>7
<1> QED
    BY <1>1, <1>2, <1>4, <1>8

-----------------------------------------------------------------------------
(* The fence, the drain, and who is alone.                                 *)

\* How a step of a deployer treats the fence: it keeps it, takes a free one,
\* gives it back, or has nothing to do with it.
FenceKept(e, pc) ==
    \/ pc \in Fencing /\ deployer[e].pc \in Fencing /\ fence' = fence
    \/ pc \in Fencing /\ fence = "free" /\ fence' = "exclusive"
    \/ pc \notin Fencing /\ deployer[e].pc \in Fencing /\ fence' = "free"
    \/ pc \notin Fencing /\ deployer[e].pc \notin Fencing /\ fence' = fence

LEMMA MoveControlled ==
    ASSUME Controlled, NEW e \in Effects, Alive(e), NEW row \in DeployerRow, Moves(e, row),
           UNCHANGED <<jobs, unanswered>>, row.pc # "none", FenceKept(e, row.pc),
           row.pc = "cutover" => row.step \in 1 .. 8,
           row.pc = "rollback" => row.step \in 1 .. 7,
           row.pc \in Owning => deployer[e].pc \in Owning \/ Blockers(e) = {},
           row.pc \in Replacing => deployer[e].pc \in Replacing \/ Blockers(e) = {}
    PROVE  StepTyped' /\ Fenced' /\ Tracked' /\ Alone'
<1> USE DEF Controlled
<1>1. deployer'[e] = row /\ \A f \in Effects : f # e => deployer'[f] = deployer[f]
    BY MovesRow
<1>2. jobs[e] = "running" \/ (jobs[e] = "resolved" /\ e \in unanswered)
    BY DEF Tracked
<1>3. StepTyped'
    BY <1>1 DEF StepTyped
<1>4. Tracked'
    BY <1>1, <1>2 DEF Tracked, Alive
<1>5. Fenced'
    BY <1>1 DEF Fenced, FenceKept
<1>6. unanswered = {} => \A f \in Effects : deployer[f].pc \in Owning => Active(f)
    <2> SUFFICES ASSUME unanswered = {}, NEW f \in Effects, deployer[f].pc \in Owning PROVE Active(f)
        OBVIOUS
    <2>1. Alive(f)
        BY DEF Alive, Owning
    <2> QED
        BY <2>1 DEF Tracked, Active
<1>7. Blockers(e) = {} => \A f \in Effects \ {e} : ~Active(f)
    BY DEF Blockers
<1>8. \A f \in Effects : (Active(f))' = Active(f)
    BY DEF Active
<1>9. ASSUME NEW g \in Effects, deployer'[g].pc \in Replacing, NEW f \in Effects \ {g}
      PROVE  ~(Active(f))'
    <2>1. CASE g = e
        BY <1>1, <1>7, <1>8, <1>9, <2>1 DEF Alone
    <2>2. CASE g # e
        BY <1>1, <1>8, <1>9, <2>2 DEF Alone
    <2> QED
        BY <2>1, <2>2
<1>10. ASSUME unanswered' = {}, NEW f \in Effects, NEW g \in Effects,
              deployer'[f].pc \in Owning, deployer'[g].pc \in Owning
       PROVE  f = g
    BY <1>1, <1>6, <1>7, <1>10 DEF Alone
<1> QED
    BY <1>3, <1>4, <1>5, <1>9, <1>10 DEF Alone

\* What a deployer that owns nothing yet, or nothing any more, leaves as it was.
LEMMA QuietProgress ==
    ASSUME Controlled, Progress, OpensItsOwn, NEW e \in Effects, NEW row \in DeployerRow, Moves(e, row),
           row.pc \notin {"cutover", "deployed", "rollback", "restored", "rolled_back"},
           UNCHANGED <<service, installed, envFile, schema, candidates, unanswered, unstopped>>
    PROVE  Progress' /\ OpensItsOwn'
<1> USE DEF Controlled
<1>1. deployer'[e] = row /\ \A f \in Effects : f # e => deployer'[f] = deployer[f]
    BY MovesRow
<1>2. ASSUME NEW f \in Effects PROVE ProgressOf(f)'
    <2>1. CASE f = e
        BY <1>1, <2>1 DEF ProgressOf, CutoverOf, DeployedOf, RollbackOf, RestoredOf
    <2>2. CASE f # e
        <3>1. deployer'[f] = deployer[f] /\ ProgressOf(f)
            BY <1>1, <2>2 DEF Progress
        <3> QED
            BY <3>1 DEF ProgressOf, CutoverOf, DeployedOf, RollbackOf, RestoredOf, Between, Restarted
    <2> QED
        BY <2>1, <2>2
<1> QED
    BY <1>2 DEF Progress, OpensItsOwn

\* A receipt that is not written, for a deployer that moves on.
LEMMA QuietReceipts ==
    ASSUME ReleaseInv, NEW e \in Effects, NEW row \in DeployerRow, Moves(e, row), UNCHANGED receipt,
           row.pc \in {"arguments", "preflight", "request"} =>
              deployer[e].pc \in {"none", "arguments", "preflight"},
           row.pc \in {"fence", "drain"} \cup Owning =>
              /\ deployer[e].pc \in {"fence", "drain"} \cup Owning
              /\ deployer[e].pc # "rolled_back" /\ row.pc # "rolled_back",
           row.pc # "none"
    PROVE  Receipts'
<1> USE DEF ReleaseInv, Controlled
<1>1. deployer'[e] = row /\ \A f \in Effects : f # e => deployer'[f] = deployer[f]
    BY MovesRow
<1>2. ASSUME NEW f \in Effects PROVE ReceiptOf(f)'
    <2>1. CASE f # e
        BY <1>1, <2>1 DEF Receipts, ReceiptOf
    <2>2. CASE f = e
        <3>1. ReceiptOf(e)
            BY DEF Receipts
        <3>2. row.pc \in {"arguments", "preflight", "request"} =>
                 receipt'[e].result = NoFile /\ receipt'[e].rollback = FALSE
            BY <3>1 DEF ReceiptOf
        <3>3. row.pc \in {"fence", "drain"} \cup Owning =>
                 /\ receipt'[e].request = TRUE /\ receipt'[e].result = NoFile
                 /\ receipt'[e].rollback = (row.pc = "rolled_back")
            BY <3>1 DEF ReceiptOf
        <3> QED
            BY <1>1, <2>2, <3>2, <3>3 DEF ReceiptOf
    <2> QED
        BY <2>1, <2>2
<1> QED
    BY <1>2 DEF Receipts

\* A deployer that ends without a receipt gives the fence back if it has it.
LEMMA ExitKeeps ==
    ASSUME ReleaseInv, NEW e \in Effects, Alive(e), DeployerGoto(e, "exited"),
           deployer[e].pc \in Fencing => fence' = "free",
           deployer[e].pc \notin Fencing => fence' = fence,
           UNCHANGED <<service, installed, envFile, schema, jobs, receipt, unstopped, candidates, unanswered>>
    PROVE  ReleaseInv'
<1> USE DEF ReleaseInv, Controlled
<1>1. "exited" \in DeployerPcs
    BY DEF DeployerPcs
<1>2. PICK row \in DeployerRow : Moves(e, row) /\ row.pc = "exited"
    BY <1>1, GotoRow
<1>3. fence' \in {"free", "shared", "exclusive"}
    BY DEF ReleaseTyped
<1>4. FenceKept(e, row.pc)
    BY <1>2, <1>3 DEF FenceKept, Fencing
<1>5. ReleaseTyped'
    BY <1>2, <1>3, MovesRow DEF ReleaseTyped
<1>6. StepTyped' /\ Fenced' /\ Tracked' /\ Alone'
    BY <1>2, <1>3, <1>4, MoveControlled DEF Owning, Replacing
<1>7. Receipts'
    BY <1>2, <1>3, QuietReceipts DEF Owning
<1>8. Progress' /\ OpensItsOwn'
    BY <1>2, <1>3, QuietProgress
<1> QED
    BY <1>5, <1>6, <1>7, <1>8

LEMMA ExitUnlocked ==
    ASSUME ReleaseInv, NEW e \in Effects, Alive(e), Exit(e, FALSE), deployer[e].pc \notin Fencing,
           UNCHANGED <<candidates, unanswered>>
    PROVE  ReleaseInv'
BY ExitKeeps DEF Exit

LEMMA ExitLocked ==
    ASSUME ReleaseInv, NEW e \in Effects, Alive(e), Exit(e, TRUE), deployer[e].pc \in Fencing,
           UNCHANGED <<candidates, unanswered>>
    PROVE  ReleaseInv'
BY ExitKeeps DEF Exit

-----------------------------------------------------------------------------
(* Admission, dispatch and resolution.                                     *)

\* A step of the Registry that leaves the deployers alone.
LEMMA JobProgress ==
    ASSUME ReleaseInv,
           UNCHANGED <<service, installed, envFile, schema, candidates, unanswered, deployer, receipt, unstopped>>
    PROVE  StepTyped' /\ Receipts' /\ Progress' /\ OpensItsOwn'
<1> USE DEF ReleaseInv, Controlled
<1>1. StepTyped' /\ Receipts' /\ OpensItsOwn'
    BY DEF StepTyped, Receipts, ReceiptOf, OpensItsOwn
<1>2. Progress'
    BY DEF Progress, ProgressOf, CutoverOf, DeployedOf, RollbackOf, RestoredOf, Between, Restarted
<1> QED
    BY <1>1, <1>2

LEMMA BeginAdmissionKeeps ==
    ASSUME ReleaseInv, NEW e \in Effects, BeginAdmission(e), UNCHANGED <<candidates, unanswered>>
    PROVE  ReleaseInv'
<1> USE DEF ReleaseInv, Controlled
<1>1. /\ jobs[e] = "none" /\ fence = "free" /\ fence' = "shared"
      /\ jobs' = [jobs EXCEPT ![e] = "submitting"]
      /\ UNCHANGED <<service, installed, envFile, schema, candidates, unanswered, deployer, receipt, unstopped>>
    BY DEF BeginAdmission, IsReplay
<1>2. \A f \in Effects : jobs'[f] = IF f = e THEN "submitting" ELSE jobs[f]
    BY <1>1 DEF ReleaseTyped
<1>3. ReleaseTyped'
    BY <1>1 DEF ReleaseTyped
<1>4. Fenced'
    BY <1>1, <1>2 DEF Fenced
<1>5. Tracked'
    BY <1>1, <1>2 DEF Tracked, Alive
<1>6. Alone'
    BY <1>1, <1>2 DEF Alone, Active
<1> QED
    BY <1>1, <1>3, <1>4, <1>5, <1>6, JobProgress

\* An admission that commits holds the fence shared: nobody replaces anything.
LEMMA CommitAdmissionKeeps ==
    ASSUME ReleaseInv, NEW e \in Effects, CommitAdmission(e), UNCHANGED <<candidates, unanswered>>
    PROVE  ReleaseInv'
<1> USE DEF ReleaseInv, Controlled
<1>1. PICK job \in {"accepted", "none"} : job = IF Serving THEN "accepted" ELSE "none"
    OBVIOUS
<1>2. /\ jobs[e] = "submitting" /\ fence' = "free" /\ jobs' = [jobs EXCEPT ![e] = job]
      /\ UNCHANGED <<service, installed, envFile, schema, candidates, unanswered, deployer, receipt, unstopped>>
    BY <1>1 DEF CommitAdmission
<1>3. \A f \in Effects : jobs'[f] = IF f = e THEN job ELSE jobs[f]
    BY <1>2 DEF ReleaseTyped
<1>4. fence = "shared" /\ \A f \in Effects : deployer[f].pc \notin Fencing
    BY <1>2 DEF Fenced
<1>5. ReleaseTyped'
    BY <1>2 DEF ReleaseTyped
<1>6. Fenced'
    BY <1>2, <1>3, <1>4 DEF Fenced
<1>7. Tracked'
    BY <1>2, <1>3 DEF Tracked, Alive
<1>8. Alone'
    BY <1>2, <1>3, <1>4 DEF Alone, Active, Fencing, Replacing
<1> QED
    BY <1>2, <1>5, <1>6, <1>7, <1>8, JobProgress

LEMMA ResolveReleaseKeeps ==
    ASSUME ReleaseInv, NEW e \in Effects, ResolveRelease(e), UNCHANGED <<candidates, unanswered>>
    PROVE  ReleaseInv'
<1> USE DEF ReleaseInv, Controlled
<1>1. /\ jobs[e] = "running" /\ ~Alive(e) /\ jobs' = [jobs EXCEPT ![e] = "resolved"]
      /\ UNCHANGED <<service, installed, envFile, schema, fence, candidates, unanswered, deployer, receipt, unstopped>>
    BY DEF ResolveRelease
<1>2. \A f \in Effects : jobs'[f] = IF f = e THEN "resolved" ELSE jobs[f]
    BY <1>1 DEF ReleaseTyped
<1>3. ReleaseTyped'
    BY <1>1 DEF ReleaseTyped
<1>4. Fenced'
    BY <1>1, <1>2 DEF Fenced
<1>5. Tracked'
    BY <1>1, <1>2 DEF Tracked, Alive
<1>6. Alone'
    BY <1>1, <1>2 DEF Alone, Active
<1> QED
    BY <1>1, <1>3, <1>4, <1>5, <1>6, JobProgress

LEMMA DispatchReleaseKeeps ==
    ASSUME ReleaseInv, NEW e \in Effects, DispatchRelease(e), UNCHANGED <<candidates, unanswered>>
    PROVE  ReleaseInv'
<1> USE DEF ReleaseInv, Controlled
<1>1. PICK pc \in DeployerPcs : pc = "arguments"
    BY DEF DeployerPcs
<1>2. /\ jobs[e] = "accepted" /\ jobs' = [jobs EXCEPT ![e] = "running"]
      /\ DeployerGoto(e, pc)
      /\ UNCHANGED <<service, installed, envFile, schema, fence, candidates, unanswered, receipt, unstopped>>
    BY <1>1 DEF DispatchRelease
<1>3. PICK row \in DeployerRow : Moves(e, row) /\ row.pc = pc
    BY <1>2, GotoRow
<1>4. deployer'[e] = row /\ \A f \in Effects : f # e => deployer'[f] = deployer[f]
    BY <1>3, MovesRow
<1>5. \A f \in Effects : jobs'[f] = IF f = e THEN "running" ELSE jobs[f]
    BY <1>2 DEF ReleaseTyped
<1>6. deployer[e].pc = "none"
    BY <1>2 DEF Tracked
<1>7. ReleaseTyped'
    BY <1>2, <1>3, MovesRow DEF ReleaseTyped
<1>8. StepTyped'
    BY <1>1, <1>3, <1>4 DEF StepTyped
<1>9. Fenced'
    BY <1>1, <1>2, <1>3, <1>4, <1>5 DEF Fenced, Fencing
<1>10. Tracked'
    BY <1>1, <1>3, <1>4, <1>5 DEF Tracked, Alive
<1>11. Alone'
    <2>1. \A f \in Effects : (Active(f))' = Active(f)
        BY <1>2, <1>5 DEF Active
    <2> QED
        BY <1>1, <1>3, <1>4, <2>1 DEF Alone, Owning, Replacing
<1>12. Receipts'
    BY <1>1, <1>2, <1>3, <1>6, QuietReceipts DEF Owning
<1>13. Progress' /\ OpensItsOwn'
    BY <1>1, <1>2, <1>3, QuietProgress
<1> QED
    BY <1>7, <1>8, <1>9, <1>10, <1>11, <1>12, <1>13

\* A deployer nobody knows of: from here on only the fence speaks for it.
LEMMA DispatchUnansweredKeeps ==
    ASSUME ReleaseInv, NEW e \in Effects, DispatchUnanswered(e)
    PROVE  ReleaseInv'
<1> USE DEF ReleaseInv, Controlled
<1>1. PICK pc \in DeployerPcs : pc = "arguments"
    BY DEF DeployerPcs
<1>2. /\ jobs[e] = "accepted" /\ jobs' = [jobs EXCEPT ![e] = "resolved"]
      /\ DeployerGoto(e, pc) /\ unanswered' = unanswered \cup {e}
      /\ UNCHANGED <<service, installed, envFile, schema, fence, candidates, receipt, unstopped>>
    BY <1>1 DEF DispatchUnanswered
<1>3. PICK row \in DeployerRow : Moves(e, row) /\ row.pc = pc
    BY <1>2, GotoRow
<1>4. deployer'[e] = row /\ \A f \in Effects : f # e => deployer'[f] = deployer[f]
    BY <1>3, MovesRow
<1>5. \A f \in Effects : jobs'[f] = IF f = e THEN "resolved" ELSE jobs[f]
    BY <1>2 DEF ReleaseTyped
<1>6. deployer[e].pc = "none" /\ unanswered' # {}
    BY <1>2 DEF Tracked
<1>7. ReleaseTyped'
    BY <1>2, <1>3, MovesRow DEF ReleaseTyped
<1>8. StepTyped'
    BY <1>1, <1>3, <1>4 DEF StepTyped
<1>9. Fenced'
    BY <1>1, <1>2, <1>3, <1>4, <1>5 DEF Fenced, Fencing
<1>10. Tracked'
    BY <1>1, <1>2, <1>3, <1>4, <1>5 DEF Tracked, Alive
<1>11. Alone'
    BY <1>1, <1>3, <1>4, <1>5, <1>6 DEF Alone, Owning, Replacing, Active
<1>12. Receipts'
    BY <1>1, <1>2, <1>3, <1>6, QuietReceipts DEF Owning
<1>13. Progress' /\ OpensItsOwn'
    BY <1>2, <1>6 DEF Progress, ProgressOf, CutoverOf, DeployedOf, RollbackOf, RestoredOf, OpensItsOwn
<1> QED
    BY <1>7, <1>8, <1>9, <1>10, <1>11, <1>12, <1>13

-----------------------------------------------------------------------------
(* The deployer up to its cutover.                                         *)

\* A deployer that goes on to a statement before the cutover.
LEMMA EarlyStep ==
    ASSUME ReleaseInv, NEW e \in Effects, Alive(e), NEW row \in DeployerRow, Moves(e, row),
           row.pc \in {"preflight", "request", "drain", "stage"},
           deployer[e].pc = CASE row.pc = "preflight" -> "arguments" [] row.pc = "request" -> "preflight"
                              [] row.pc = "drain" -> "fence" [] row.pc = "stage" -> "drain",
           FenceKept(e, row.pc), fence' \in {"free", "shared", "exclusive"},
           row.pc = "stage" => Blockers(e) = {},
           UNCHANGED <<service, installed, envFile, schema, jobs, receipt, unstopped, candidates, unanswered>>
    PROVE  ReleaseInv'
<1> USE DEF ReleaseInv, Controlled
<1>1. /\ row.pc = "preflight" => deployer[e].pc = "arguments"
      /\ row.pc = "request" => deployer[e].pc = "preflight"
      /\ row.pc = "drain" => deployer[e].pc = "fence"
      /\ row.pc = "stage" => deployer[e].pc = "drain"
    OBVIOUS
<1>2. ReleaseTyped'
    BY MovesRow DEF ReleaseTyped
<1>3. StepTyped' /\ Fenced' /\ Tracked' /\ Alone'
    BY MoveControlled DEF Owning, Replacing
<1>4. Receipts'
    BY <1>1, QuietReceipts DEF Owning
<1>5. Progress' /\ OpensItsOwn'
    BY QuietProgress
<1> QED
    BY <1>2, <1>3, <1>4, <1>5

LEMMA ParseArgumentsKeeps ==
    ASSUME ReleaseInv, NEW e \in Effects, ParseArguments(e), UNCHANGED <<candidates, unanswered>>
    PROVE  ReleaseInv'
<1> USE DEF ReleaseInv, Controlled
<1>1. deployer[e].pc = "arguments"
    BY DEF ParseArguments, DeployerAt
<1>2. Alive(e) /\ deployer[e].pc \notin Fencing
    BY <1>1 DEF Alive, Fencing
<1>3. CASE Exit(e, FALSE)
    BY <1>2, <1>3, ExitUnlocked
<1>4. CASE /\ DeployerGoto(e, "preflight")
           /\ UNCHANGED <<service, installed, envFile, schema, fence, jobs, receipt, unstopped>>
    <2>1. "preflight" \in DeployerPcs
        BY DEF DeployerPcs
    <2>2. PICK row \in DeployerRow : Moves(e, row) /\ row.pc = "preflight"
        BY <1>4, <2>1, GotoRow
    <2>3. FenceKept(e, row.pc)
        BY <1>2, <1>4, <2>2 DEF FenceKept, Fencing
    <2>4. fence' \in {"free", "shared", "exclusive"}
        BY <1>4 DEF ReleaseTyped
    <2> QED
        BY <1>1, <1>2, <1>4, <2>2, <2>3, <2>4, EarlyStep
<1> QED
    BY <1>3, <1>4 DEF ParseArguments

LEMMA PreflightKeeps ==
    ASSUME ReleaseInv, NEW e \in Effects, Preflight(e), UNCHANGED <<candidates, unanswered>>
    PROVE  ReleaseInv'
<1> USE DEF ReleaseInv, Controlled
<1>1. deployer[e].pc = "preflight"
    BY DEF Preflight, DeployerAt
<1>2. Alive(e) /\ deployer[e].pc \notin Fencing
    BY <1>1 DEF Alive, Fencing
<1>3. CASE Exit(e, FALSE)
    BY <1>2, <1>3, ExitUnlocked
<1>4. CASE /\ deployer' = [deployer EXCEPT ![e].pc = "request", ![e].pre = schema]
           /\ UNCHANGED <<service, installed, envFile, schema, fence, jobs, receipt, unstopped>>
    <2>1. PICK pc \in DeployerPcs : pc = "request"
        BY DEF DeployerPcs
    <2>2. deployer[e] \in DeployerRow /\ schema \in Nat
        BY DEF ReleaseTyped
    <2>3. PICK row : row = [deployer[e] EXCEPT !.pc = pc, !.pre = schema]
        OBVIOUS
    <2>4. row \in DeployerRow /\ row.pc = pc
        BY <2>2, <2>3 DEF DeployerRow
    <2>5. Moves(e, row)
        <3>1. deployer \in [Effects -> DeployerRow]
            BY DEF ReleaseTyped
        <3>2. deployer' = [deployer EXCEPT ![e].pc = pc, ![e].pre = schema]
            BY <1>4, <2>1
        <3>3. \A f \in Effects : deployer'[f] = [deployer EXCEPT ![e] = row][f]
            BY <2>3, <3>1, <3>2
        <3> QED
            BY <2>3, <3>1, <3>2, <3>3 DEF Moves
    <2>6. FenceKept(e, row.pc)
        BY <1>2, <1>4, <2>1, <2>4 DEF FenceKept, Fencing
    <2>7. fence' \in {"free", "shared", "exclusive"}
        BY <1>4 DEF ReleaseTyped
    <2> QED
        BY <1>1, <1>2, <1>4, <2>1, <2>4, <2>5, <2>6, <2>7, EarlyStep
<1> QED
    BY <1>3, <1>4 DEF Preflight, Fails

LEMMA AcquireFenceKeeps ==
    ASSUME ReleaseInv, NEW e \in Effects, AcquireAdmissionFence(e), UNCHANGED <<candidates, unanswered>>
    PROVE  ReleaseInv'
<1> USE DEF ReleaseInv, Controlled
<1>1. deployer[e].pc = "fence"
    BY DEF AcquireAdmissionFence, DeployerAt
<1>2. Alive(e) /\ deployer[e].pc \notin Fencing
    BY <1>1 DEF Alive, Fencing
<1>3. CASE Exit(e, FALSE)
    BY <1>2, <1>3, ExitUnlocked
<1>4. CASE /\ fence = "free" /\ fence' = "exclusive" /\ DeployerGoto(e, "drain")
           /\ UNCHANGED <<service, installed, envFile, schema, jobs, receipt, unstopped>>
    <2>1. "drain" \in DeployerPcs
        BY DEF DeployerPcs
    <2>2. PICK row \in DeployerRow : Moves(e, row) /\ row.pc = "drain"
        BY <1>4, <2>1, GotoRow
    <2>3. FenceKept(e, row.pc)
        BY <1>4, <2>2 DEF FenceKept, Fencing
    <2> QED
        BY <1>1, <1>2, <1>4, <2>2, <2>3, EarlyStep
<1> QED
    BY <1>3, <1>4 DEF AcquireAdmissionFence

\* The drain: nobody else's Job is left when it lets the deployer on.
LEMMA WaitForDrainKeeps ==
    ASSUME ReleaseInv, NEW e \in Effects, WaitForDrain(e), UNCHANGED <<candidates, unanswered>>
    PROVE  ReleaseInv'
<1> USE DEF ReleaseInv, Controlled
<1>1. deployer[e].pc = "drain"
    BY DEF WaitForDrain, DeployerAt
<1>2. Alive(e) /\ deployer[e].pc \in Fencing
    BY <1>1 DEF Alive, Fencing
<1>3. CASE Exit(e, TRUE)
    BY <1>2, <1>3, ExitLocked
<1>4. CASE /\ Blockers(e) = {} /\ DeployerGoto(e, "stage")
           /\ UNCHANGED <<service, installed, envFile, schema, fence, jobs, receipt, unstopped>>
    <2>1. "stage" \in DeployerPcs
        BY DEF DeployerPcs, Owning
    <2>2. PICK row \in DeployerRow : Moves(e, row) /\ row.pc = "stage"
        BY <1>4, <2>1, GotoRow
    <2>3. FenceKept(e, row.pc)
        BY <1>2, <1>4, <2>2 DEF FenceKept, Fencing
    <2>4. fence' \in {"free", "shared", "exclusive"}
        BY <1>4 DEF ReleaseTyped
    <2> QED
        BY <1>1, <1>2, <1>4, <2>2, <2>3, <2>4, EarlyStep
<1> QED
    BY <1>3, <1>4 DEF WaitForDrain

LEMMA KillDeployerKeeps ==
    ASSUME ReleaseInv, NEW e \in Effects, KillDeployer(e), UNCHANGED <<candidates, unanswered>>
    PROVE  ReleaseInv'
<1>1. CASE deployer[e].pc \in Fencing
    BY <1>1, ExitKeeps DEF KillDeployer, Exit, Fencing
<1>2. CASE deployer[e].pc \notin Fencing
    BY <1>2, ExitKeeps DEF KillDeployer, Exit, Fencing
<1> QED
    BY <1>1, <1>2

\* The request file is there from the fence on.
LEMMA WriteRequestKeeps ==
    ASSUME ReleaseInv, NEW e \in Effects, WriteRequest(e), UNCHANGED <<candidates, unanswered>>
    PROVE  ReleaseInv'
<1> USE DEF ReleaseInv, Controlled
<1>1. deployer[e].pc = "request"
    BY DEF WriteRequest, DeployerAt
<1>2. Alive(e) /\ deployer[e].pc \notin Fencing
    BY <1>1 DEF Alive, Fencing
<1>3. CASE Exit(e, FALSE)
    BY <1>2, <1>3, ExitUnlocked
<1>4. CASE /\ receipt' = [receipt EXCEPT ![e].request = TRUE] /\ DeployerGoto(e, "fence")
           /\ UNCHANGED <<service, installed, envFile, schema, fence, jobs, unstopped>>
    <2>1. "fence" \in DeployerPcs
        BY DEF DeployerPcs
    <2>2. PICK row \in DeployerRow : Moves(e, row) /\ row.pc = "fence"
        BY <1>4, <2>1, GotoRow
    <2>3. deployer'[e] = row /\ \A f \in Effects : f # e => deployer'[f] = deployer[f]
        BY <2>2, MovesRow
    <2>4. PICK told \in BOOLEAN : told = TRUE
        OBVIOUS
    <2>5. receipt[e] \in ReceiptRow /\ receipt \in [Effects -> ReceiptRow]
        BY DEF ReleaseTyped
    <2>6. PICK new : new = [receipt[e] EXCEPT !.request = told]
        OBVIOUS
    <2>7. new \in ReceiptRow /\ new.request = told /\ new.rollback = receipt[e].rollback
          /\ new.result = receipt[e].result
        BY <2>5, <2>6 DEF ReceiptRow
    <2>8. receipt' = [receipt EXCEPT ![e] = new]
        BY <1>4, <2>4, <2>6
    <2>9. /\ receipt' \in [Effects -> ReceiptRow] /\ receipt'[e] = new
          /\ \A f \in Effects : f # e => receipt'[f] = receipt[f]
        BY <2>5, <2>7, <2>8
    <2>10. ReleaseTyped'
        BY <1>4, <2>2, <2>9, MovesRow DEF ReleaseTyped
    <2>11. FenceKept(e, row.pc)
        BY <1>2, <1>4, <2>2 DEF FenceKept, Fencing
    <2>12. StepTyped' /\ Fenced' /\ Tracked' /\ Alone'
        BY <1>2, <1>4, <2>2, <2>11, MoveControlled DEF Owning, Replacing
    <2>13. ASSUME NEW f \in Effects PROVE ReceiptOf(f)'
        <3>1. CASE f # e
            BY <2>3, <2>9, <3>1 DEF Receipts, ReceiptOf
        <3>2. CASE f = e
            <4>1. receipt[e].result = NoFile /\ receipt[e].rollback = FALSE
                BY <1>1 DEF Receipts, ReceiptOf
            <4>2. receipt'[e].request = TRUE
                BY <2>4, <2>7, <2>9
            <4>3. receipt'[e].result = NoFile /\ receipt'[e].rollback = FALSE
                BY <2>7, <2>9, <4>1
            <4>4. deployer'[e].pc = "fence"
                BY <2>2, <2>3
            <4> QED
                BY <3>2, <4>2, <4>3, <4>4 DEF ReceiptOf
        <3> QED
            BY <3>1, <3>2
    <2>14. Progress' /\ OpensItsOwn'
        BY <1>4, <2>2, QuietProgress
    <2> QED
        BY <2>10, <2>12, <2>13, <2>14 DEF Receipts
<1> QED
    BY <1>3, <1>4 DEF WriteRequest, Fails

-----------------------------------------------------------------------------
(* The owner of the services.                                              *)

\* The others have no claim on the services: what the owner has changed so far
\* is all there is to say.
LEMMA OwnerKeeps ==
    ASSUME ReleaseInv, NEW e \in Effects, deployer[e].pc \in Owning, deployer[e].pc # "rolled_back",
           NEW row \in DeployerRow, Moves(e, row), row.pc \in Owning, row.pc # "rolled_back",
           row.pc = "cutover" => row.step \in 1 .. 8,
           row.pc = "rollback" => row.step \in 1 .. 7,
           row.pc \in Replacing => deployer[e].pc \in Replacing,
           FenceKept(e, row.pc), UNCHANGED <<jobs, receipt, candidates, unanswered>>,
           service' \in [Services -> ServiceRow], installed' \in [Services -> Images],
           envFile' \in Images \cup {Torn}, schema' \in Nat,
           fence' \in {"free", "shared", "exclusive"}, unstopped' \subseteq Effects,
           ProgressOf(e)', OpensItsOwn'
    PROVE  ReleaseInv'
<1> USE DEF ReleaseInv, Controlled
<1>1. deployer'[e] = row /\ \A f \in Effects : f # e => deployer'[f] = deployer[f]
    BY MovesRow
<1>2. Alive(e) /\ row.pc # "none"
    BY DEF Alive, Owning
<1>3. ReleaseTyped'
    BY MovesRow DEF ReleaseTyped
<1>4. StepTyped' /\ Fenced' /\ Tracked' /\ Alone'
    BY <1>2, MoveControlled
<1>5. Receipts'
    BY <1>2, QuietReceipts DEF Owning
<1>6. ASSUME NEW f \in Effects PROVE ProgressOf(f)'
    <2>1. CASE f # e
        <3>1. (unanswered = {} => deployer[f].pc \notin Owning) /\ deployer'[f] = deployer[f]
            BY <1>1, <2>1 DEF Alone
        <3> QED
            BY <3>1 DEF ProgressOf, CutoverOf, DeployedOf, RollbackOf, RestoredOf, Owning
    <2> QED
        BY <2>1
<1> QED
    BY <1>3, <1>4, <1>5, <1>6 DEF Progress

\* What becomes of the counter when a statement has succeeded.
Advanced(e, row) ==
    /\ row.before = deployer[e].before
    /\ \/ /\ deployer[e].pc = "cutover" /\ deployer[e].step \in 1 .. 7
          /\ row.pc = "cutover" /\ row.step = deployer[e].step + 1 /\ row.issued = FALSE
       \/ deployer[e].pc = "cutover" /\ deployer[e].step = 8 /\ row.pc = "deployed"
       \/ /\ deployer[e].pc = "rollback" /\ deployer[e].step \in 1 .. 6
          /\ row.pc = "rollback" /\ row.step = deployer[e].step + 1 /\ row.issued = FALSE
       \/ deployer[e].pc = "rollback" /\ deployer[e].step = 7 /\ row.pc = "restored"

LEMMA ClosureLengths == Len(Cutover) = 8 /\ Len(Rollback) = 7
<1>1. PICK c : c = Cutover
    OBVIOUS
<1>2. c \in Seq({"stop", "env", "path", "start", "check"} \X {"runtime", "broker", "env"})
      /\ Len(c) = 8
    BY <1>1 DEF Cutover
<1>3. Len(SubSeq(c, 1, 7)) = 7
    BY <1>2
<1> QED
    BY <1>1, <1>2, <1>3 DEF Rollback

LEMMA AdvanceRow ==
    ASSUME ReleaseInv, NEW e \in Effects, deployer[e].pc \in {"cutover", "rollback"}, Advance(e)
    PROVE  \E row \in DeployerRow :
              /\ Moves(e, row) /\ Advanced(e, row) /\ FenceKept(e, row.pc)
              /\ fence' \in {"free", "shared", "exclusive"}
<1> USE DEF ReleaseInv, Controlled
<1>1. deployer[e].pc = "cutover" => deployer[e].step \in 1 .. 8
    BY DEF StepTyped
<1>2. deployer[e].pc = "rollback" => deployer[e].step \in 1 .. 7
    BY DEF StepTyped
<1>3. fence \in {"free", "shared", "exclusive"} /\ deployer[e] \in DeployerRow
    BY DEF ReleaseTyped
<1>4. PICK last : last = IF deployer[e].pc = "cutover" THEN 8 ELSE 7
    OBVIOUS
<1>5. last = IF DeployerAt(e, "cutover") THEN Len(Cutover) ELSE Len(Rollback)
    BY <1>4, ClosureLengths DEF DeployerAt
<1>6. CASE deployer[e].step < last
    <2>1. PICK step \in 0 .. 8 : step = deployer[e].step + 1
        BY <1>1, <1>2, <1>4, <1>6
    <2>2. PICK issued \in BOOLEAN : issued = FALSE
        OBVIOUS
    <2>3. PICK pc \in DeployerPcs : pc = deployer[e].pc
        BY <1>3 DEF DeployerRow
    <2>4. step = deployer[e].step + 1 /\ issued = FALSE /\ pc = deployer[e].pc
        BY <2>1, <2>2, <2>3
    <2>5. /\ deployer' = [deployer EXCEPT ![e].step = deployer[e].step + 1, ![e].issued = FALSE]
          /\ fence' = fence
        BY <1>5, <1>6 DEF Advance
    <2>6. PICK row : row = [deployer[e] EXCEPT !.step = step, !.issued = issued]
        OBVIOUS
    <2>7. /\ row \in DeployerRow /\ row.pc = pc /\ row.step = step
          /\ row.issued = issued /\ row.before = deployer[e].before
        BY <1>3, <2>4, <2>6 DEF DeployerRow
    <2>8. Moves(e, row)
        <3>1. deployer \in [Effects -> DeployerRow]
            BY DEF ReleaseTyped
        <3>2. deployer' = [deployer EXCEPT ![e].step = step, ![e].issued = issued]
            BY <2>4, <2>5
        <3>3. \A f \in Effects : deployer'[f] = [deployer EXCEPT ![e] = row][f]
            BY <2>6, <3>1, <3>2
        <3> QED
            BY <2>6, <3>1, <3>2, <3>3 DEF Moves
    <2>9. Advanced(e, row)
        BY <1>1, <1>2, <1>4, <1>6, <2>4, <2>7 DEF Advanced
    <2>10. FenceKept(e, row.pc)
        BY <2>4, <2>5, <2>7 DEF FenceKept
    <2> QED
        BY <1>3, <2>5, <2>7, <2>8, <2>9, <2>10
<1>7. CASE ~(deployer[e].step < last) /\ deployer[e].pc = "cutover"
    <2>1. DeployerGoto(e, "deployed") /\ fence' = "free"
        BY <1>5, <1>7 DEF Advance, DeployerAt
    <2>2. "deployed" \in DeployerPcs
        BY DEF DeployerPcs, Owning
    <2>3. PICK row \in DeployerRow : Moves(e, row) /\ row.pc = "deployed" /\ row.before = deployer[e].before
        BY <2>1, <2>2, GotoRow
    <2>4. Advanced(e, row)
        BY <1>1, <1>4, <1>7, <2>3 DEF Advanced
    <2>5. FenceKept(e, row.pc)
        BY <1>7, <2>1, <2>3 DEF FenceKept, Fencing
    <2> QED
        BY <2>1, <2>3, <2>4, <2>5
<1>8. CASE ~(deployer[e].step < last) /\ deployer[e].pc = "rollback"
    <2>1. DeployerGoto(e, "restored") /\ fence' = fence
        BY <1>5, <1>8 DEF Advance, DeployerAt
    <2>2. "restored" \in DeployerPcs
        BY DEF DeployerPcs, Owning
    <2>3. PICK row \in DeployerRow : Moves(e, row) /\ row.pc = "restored" /\ row.before = deployer[e].before
        BY <2>1, <2>2, GotoRow
    <2>4. Advanced(e, row)
        BY <1>2, <1>4, <1>8, <2>3 DEF Advanced
    <2>5. FenceKept(e, row.pc)
        BY <1>8, <2>1, <2>3 DEF FenceKept, Fencing
    <2> QED
        BY <1>3, <2>1, <2>3, <2>4, <2>5
<1> QED
    BY <1>6, <1>7, <1>8

\* A statement that has succeeded, once the services are known to be as the
\* counter says.
LEMMA AdvanceKeeps ==
    ASSUME ReleaseInv, NEW e \in Effects, deployer[e].pc \in {"cutover", "rollback"},
           NEW row \in DeployerRow, Moves(e, row), Advanced(e, row), FenceKept(e, row.pc),
           fence' \in {"free", "shared", "exclusive"}, UNCHANGED <<schema, jobs, receipt, candidates, unanswered>>,
           service' \in [Services -> ServiceRow], installed' \in [Services -> Images],
           envFile' \in Images \cup {Torn}, unstopped' \subseteq Effects,
           ProgressOf(e)', OpensItsOwn'
    PROVE  ReleaseInv'
<1>1. deployer[e].pc \in Owning /\ deployer[e].pc # "rolled_back"
    BY DEF Owning
<1>2. row.pc \in Owning /\ row.pc # "rolled_back"
    BY DEF Owning, Advanced
<1>3. row.pc = "cutover" => row.step \in 1 .. 8
    BY DEF Advanced
<1>4. row.pc = "rollback" => row.step \in 1 .. 7
    BY DEF Advanced
<1>5. row.pc \in Replacing => deployer[e].pc \in Replacing
    BY DEF Advanced, Replacing
<1>6. schema' \in Nat
    BY DEF ReleaseInv, Controlled, ReleaseTyped
<1> QED
    BY <1>1, <1>2, <1>3, <1>4, <1>5, <1>6, OwnerKeeps

\* A statement that has failed: the deployer claims nothing any more.
LEMMA AbandonKeeps ==
    ASSUME ReleaseInv, NEW e \in Effects, deployer[e].pc \in {"cutover", "rollback"}, Abandon(e),
           UNCHANGED <<service, installed, envFile, schema, jobs, receipt, candidates, unanswered, unstopped>>
    PROVE  ReleaseInv'
<1> USE DEF ReleaseInv, Controlled
<1>1. PICK pc \in {"failed", "unrestored"} : pc = IF deployer[e].pc = "cutover" THEN "failed" ELSE "unrestored"
    OBVIOUS
<1>2. DeployerGoto(e, pc) /\ fence' = IF deployer[e].pc = "cutover" THEN "free" ELSE fence
    BY <1>1 DEF Abandon, DeployerAt
<1>3. pc \in DeployerPcs
    BY <1>1 DEF DeployerPcs, Owning
<1>4. PICK row \in DeployerRow : Moves(e, row) /\ row.pc = pc
    BY <1>2, <1>3, GotoRow
<1>5. FenceKept(e, row.pc)
    BY <1>1, <1>2, <1>4 DEF FenceKept, Fencing
<1>6. /\ ReleaseTyped /\ ReleaseTyped'
    BY <1>2, <1>4, MovesRow DEF ReleaseTyped
<1>7. deployer[e].pc \in Owning /\ deployer[e].pc # "rolled_back" /\ row.pc \in Owning
      /\ row.pc \notin Replacing
      /\ row.pc \notin {"cutover", "deployed", "rollback", "restored", "rolled_back"}
    BY <1>1, <1>4 DEF Owning, Replacing
<1>8. Progress' /\ OpensItsOwn'
    BY <1>4, <1>7, QuietProgress
<1>9. ProgressOf(e)'
    BY <1>8 DEF Progress
<1> QED
    BY <1>4, <1>5, <1>6, <1>7, <1>8, <1>9, OwnerKeeps DEF ReleaseTyped

\* The first half of a statement that has two.
LEMMA IssueRow ==
    ASSUME ReleaseTyped, NEW e \in Effects, Issue(e)
    PROVE  \E row \in DeployerRow :
              /\ Moves(e, row) /\ row.pc = deployer[e].pc /\ row.step = deployer[e].step
              /\ row.issued = TRUE /\ row.before = deployer[e].before
<1>1. deployer[e] \in DeployerRow
    BY DEF ReleaseTyped
<1>2. PICK issued \in BOOLEAN : issued = TRUE
    OBVIOUS
<1>3. PICK row : row = [deployer[e] EXCEPT !.issued = issued]
    OBVIOUS
<1>4. /\ row \in DeployerRow /\ row.pc = deployer[e].pc /\ row.step = deployer[e].step
      /\ row.issued = issued /\ row.before = deployer[e].before
    BY <1>1, <1>3 DEF DeployerRow
<1>5. Moves(e, row)
    BY <1>2, <1>3 DEF Issue, Moves
<1>6. row.issued = TRUE
    BY <1>2, <1>4
<1> QED
    BY <1>4, <1>5, <1>6

LEMMA IssueKeeps ==
    ASSUME ReleaseInv, NEW e \in Effects, deployer[e].pc \in {"cutover", "rollback"},
           NEW row \in DeployerRow, Moves(e, row), row.pc = deployer[e].pc, row.step = deployer[e].step,
           UNCHANGED <<installed, schema, fence, jobs, receipt, candidates, unanswered, unstopped>>,
           service' \in [Services -> ServiceRow], envFile' \in Images \cup {Torn},
           ProgressOf(e)', OpensItsOwn'
    PROVE  ReleaseInv'
<1> USE DEF ReleaseInv, Controlled
<1>1. deployer[e].pc \in Owning /\ deployer[e].pc # "rolled_back"
    BY DEF Owning
<1>2. /\ row.pc = "cutover" => row.step \in 1 .. 8
      /\ row.pc = "rollback" => row.step \in 1 .. 7
    BY DEF StepTyped
<1>3. FenceKept(e, row.pc)
    BY DEF FenceKept
<1>4. /\ installed' \in [Services -> Images] /\ schema' \in Nat
      /\ fence' \in {"free", "shared", "exclusive"} /\ unstopped' \subseteq Effects
    BY DEF ReleaseTyped
<1>5. ReleaseInv /\ row.pc \in Owning /\ row.pc # "rolled_back"
    BY <1>1
<1> HIDE DEF ReleaseInv, Controlled
<1> QED
    BY <1>1, <1>2, <1>3, <1>4, <1>5, OwnerKeeps

-----------------------------------------------------------------------------
(* The statements of the closures.                                         *)

LEMMA ServiceState ==
    ASSUME ReleaseTyped, NEW s \in Services, NEW x \in ServiceStates,
           service' = [service EXCEPT ![s].state = x]
    PROVE  /\ service' \in [Services -> ServiceRow]
           /\ service'[s].state = x /\ service'[s].image = service[s].image
           /\ \A t \in Services : t # s => service'[t] = service[t]
BY DEF ReleaseTyped, ServiceRow

LEMMA ServiceStarts ==
    ASSUME ReleaseTyped, NEW s \in Services,
           service' = [service EXCEPT ![s] = [state |-> "starting", image |-> installed[s]]]
    PROVE  /\ service' \in [Services -> ServiceRow]
           /\ service'[s].state = "starting" /\ service'[s].image = installed[s]
           /\ \A t \in Services : t # s => service'[t] = service[t]
<1>1. PICK x \in ServiceStates : x = "starting"
    BY DEF ServiceStates
<1>2. PICK new : new = [state |-> x, image |-> installed[s]]
    OBVIOUS
<1>3. new \in ServiceRow /\ new.state = x /\ new.image = installed[s]
    BY <1>2 DEF ReleaseTyped, ServiceRow
<1>4. service' = [service EXCEPT ![s] = new]
    BY <1>1, <1>2
<1> QED
    BY <1>1, <1>3, <1>4 DEF ReleaseTyped

LEMMA RuntimeAndBroker == "runtime" \in Services /\ "broker" \in Services
BY DEF Services

\* The Runtime has stopped when the cutover goes on; the rollback goes on
\* without, and says so.
LEMMA StopAdvanceKeeps ==
    ASSUME ReleaseInv, NEW e \in Effects, NEW s \in Services, Runs(e, "stop", s), Advance(e),
           UNCHANGED <<service, installed, envFile, schema, jobs, receipt, candidates, unanswered>>,
           unstopped' \subseteq Effects, unstopped \subseteq unstopped',
           s = "runtime" => \/ service[s].state = "stopped"
                            \/ deployer[e].pc = "rollback" /\ e \in unstopped'
    PROVE  ReleaseInv'
<1> USE DEF ReleaseInv, Controlled
<1>1. deployer[e].pc \in {"cutover", "rollback"} /\ deployer[e].step = IF s = "runtime" THEN 1 ELSE 2
    BY StatementStep DEF Services
<1>2. PICK row \in DeployerRow :
         /\ Moves(e, row) /\ Advanced(e, row) /\ FenceKept(e, row.pc)
         /\ fence' \in {"free", "shared", "exclusive"}
    BY <1>1, AdvanceRow
<1>3. deployer'[e] = row
    BY <1>2, MovesRow
<1>4. ProgressOf(e)
    BY DEF Progress
<1>5. /\ row.pc = deployer[e].pc /\ row.step = deployer[e].step + 1 /\ row.step \in 2 .. 3
      /\ row.before = deployer[e].before
    BY <1>1, <1>2 DEF Advanced
<1>6. s # "runtime" => Between(e)
    BY <1>1 DEF Between
<1>7. CutoverOf(e)'
    BY <1>1, <1>3, <1>4, <1>5, <1>6 DEF ProgressOf, CutoverOf, Between, Restarted
<1>8. RollbackOf(e)'
    BY <1>1, <1>3, <1>4, <1>5, <1>6 DEF ProgressOf, RollbackOf, Between, Restarted
<1>9. ProgressOf(e)'
    BY <1>1, <1>3, <1>5, <1>7, <1>8 DEF ProgressOf, DeployedOf, RestoredOf
<1>10. /\ service' \in [Services -> ServiceRow] /\ installed' \in [Services -> Images]
       /\ envFile' \in Images \cup {Torn}
    BY DEF ReleaseTyped
<1>11. OpensItsOwn' /\ ReleaseInv
    BY DEF OpensItsOwn
<1> HIDE DEF ReleaseInv, Controlled
<1> QED
    BY <1>1, <1>2, <1>9, <1>10, <1>11, AdvanceKeeps

LEMMA StopIssueKeeps ==
    ASSUME ReleaseInv, NEW e \in Effects, NEW s \in Services, Runs(e, "stop", s), Issue(e),
           service[s].state = "running", service' = [service EXCEPT ![s].state = "stopping"],
           UNCHANGED <<installed, envFile, schema, fence, jobs, receipt, candidates, unanswered, unstopped>>
    PROVE  ReleaseInv'
<1> USE DEF ReleaseInv, Controlled
<1>1. deployer[e].pc \in {"cutover", "rollback"} /\ deployer[e].step = IF s = "runtime" THEN 1 ELSE 2
    BY StatementStep DEF Services
<1>2. PICK row \in DeployerRow :
         /\ Moves(e, row) /\ row.pc = deployer[e].pc /\ row.step = deployer[e].step
         /\ row.before = deployer[e].before
    BY IssueRow
<1>3. deployer'[e] = row
    BY <1>2, MovesRow
<1>4. ProgressOf(e)
    BY DEF Progress
<1>5. PICK x \in ServiceStates : x = "stopping"
    BY DEF ServiceStates
<1>6. /\ service' \in [Services -> ServiceRow]
      /\ service'[s].state = x /\ service'[s].image = service[s].image
      /\ \A t \in Services : t # s => service'[t] = service[t]
    BY <1>5, ServiceState
<1>7. s # "runtime" => service'["runtime"] = service["runtime"]
    BY <1>6, RuntimeAndBroker
<1>8. CutoverOf(e)'
    BY <1>1, <1>2, <1>3, <1>4, <1>7 DEF ProgressOf, CutoverOf, Between, Restarted
<1>9. RollbackOf(e)'
    BY <1>1, <1>2, <1>3, <1>4, <1>7 DEF ProgressOf, RollbackOf, Between, Restarted
<1>10. ProgressOf(e)'
    BY <1>1, <1>2, <1>3, <1>8, <1>9 DEF ProgressOf, DeployedOf, RestoredOf
<1>11. OpensItsOwn'
    BY <1>5, <1>6, <1>7 DEF OpensItsOwn
<1>12. envFile' \in Images \cup {Torn} /\ ReleaseInv
    BY DEF ReleaseTyped
<1> HIDE DEF ReleaseInv, Controlled
<1> QED
    BY <1>1, <1>2, <1>6, <1>10, <1>11, <1>12, IssueKeeps

LEMMA StopKeeps ==
    ASSUME ReleaseInv, NEW e \in Effects, NEW s \in Services, Stop(e, s), UNCHANGED <<candidates, unanswered>>
    PROVE  ReleaseInv'
<1>1. Runs(e, "stop", s) /\ UNCHANGED <<installed, envFile, schema, jobs, receipt>>
    BY DEF Stop
<1>2. deployer[e].pc \in {"cutover", "rollback"} /\ unstopped \subseteq Effects
    BY <1>1 DEF Runs, ReleaseInv, Controlled, ReleaseTyped
<1>3. CASE service[s].state = "stopped" /\ Advance(e) /\ UNCHANGED <<service, unstopped>>
    BY <1>1, <1>2, <1>3, StopAdvanceKeeps
<1>4. CASE /\ service[s].state = "running" /\ service' = [service EXCEPT ![s].state = "stopping"]
           /\ Issue(e) /\ UNCHANGED <<fence, unstopped>>
    BY <1>1, <1>4, StopIssueKeeps
<1>5. CASE StopFails(e, s) /\ UNCHANGED service
    <2>1. CASE deployer[e].pc = "cutover"
        BY <1>1, <1>2, <1>5, <2>1, AbandonKeeps DEF StopFails, DeployerAt
    <2>2. CASE deployer[e].pc = "rollback"
        <3>1. /\ Advance(e)
              /\ unstopped' = IF s = "runtime" THEN unstopped \cup {e} ELSE unstopped
            BY <1>5, <2>2 DEF StopFails, DeployerAt
        <3>2. unstopped' \subseteq Effects /\ unstopped \subseteq unstopped'
              /\ (s = "runtime" => e \in unstopped')
            BY <1>2, <3>1
        <3> QED
            BY <1>1, <1>5, <2>2, <3>1, <3>2, StopAdvanceKeeps
    <2> QED
        BY <1>2, <2>1, <2>2
<1> QED
    BY <1>1, <1>3, <1>4, <1>5 DEF Stop

LEMMA WriteEnvKeeps ==
    ASSUME ReleaseInv, NEW e \in Effects, WriteEnv(e), UNCHANGED <<candidates, unanswered>>
    PROVE  ReleaseInv'
<1> USE DEF ReleaseInv, Controlled
<1>1. Runs(e, "env", "env") /\ UNCHANGED <<service, installed, schema, jobs, receipt, unstopped>>
    BY DEF WriteEnv
<1>2. deployer[e].pc \in {"cutover", "rollback"} /\ deployer[e].step = 3
    BY <1>1, StatementStep
<1>3. ProgressOf(e) /\ OpensItsOwn'
    BY <1>1 DEF Progress, OpensItsOwn
<1>4. /\ service' \in [Services -> ServiceRow] /\ installed' \in [Services -> Images]
      /\ unstopped' \subseteq Effects /\ ReleaseInv /\ deployer[e].before.env \in Images
    <2>1. deployer[e].before.env \in Images
        BY DEF ReleaseTyped, DeployerRow
    <2> QED
        BY <1>1, <2>1 DEF ReleaseTyped
<1>5. CASE envFile' = Torn /\ Issue(e) /\ UNCHANGED fence
    <2>1. PICK row \in DeployerRow :
             /\ Moves(e, row) /\ row.pc = deployer[e].pc /\ row.step = deployer[e].step
             /\ row.before = deployer[e].before
        BY <1>5, IssueRow
    <2>2. deployer'[e] = row
        BY <2>1, MovesRow
    <2>3. Between(e)
        BY <1>2 DEF Between
    <2>4. CutoverOf(e)' /\ RollbackOf(e)'
        BY <1>1, <1>2, <1>3, <2>1, <2>2, <2>3 DEF ProgressOf, CutoverOf, RollbackOf, Between, Restarted
    <2>5. ProgressOf(e)'
        BY <1>2, <2>1, <2>2, <2>4 DEF ProgressOf, DeployedOf, RestoredOf
    <2>6. envFile' \in Images \cup {Torn}
        BY <1>5
    <2> HIDE DEF ReleaseInv, Controlled
    <2> QED
        BY <1>1, <1>2, <1>3, <1>4, <1>5, <2>1, <2>5, <2>6, IssueKeeps
<1>6. CASE /\ envFile' = IF DeployerAt(e, "cutover") THEN e ELSE deployer[e].before.env
           /\ Advance(e)
    <2>1. PICK row \in DeployerRow :
             /\ Moves(e, row) /\ Advanced(e, row) /\ FenceKept(e, row.pc)
             /\ fence' \in {"free", "shared", "exclusive"}
        BY <1>2, <1>6, AdvanceRow
    <2>2. deployer'[e] = row
        BY <2>1, MovesRow
    <2>3. /\ row.pc = deployer[e].pc /\ row.step = 4 /\ row.before = deployer[e].before
        BY <1>2, <2>1 DEF Advanced
    <2>4. Between(e)
        BY <1>2 DEF Between
    <2>5. /\ deployer[e].pc = "cutover" => envFile' = e
          /\ deployer[e].pc = "rollback" => envFile' = deployer[e].before.env
        BY <1>6 DEF DeployerAt
    <2>6. CutoverOf(e)'
        BY <1>1, <1>3, <2>2, <2>3, <2>4, <2>5 DEF ProgressOf, CutoverOf, Between, Restarted
    <2>7. RollbackOf(e)'
        BY <1>1, <1>3, <2>2, <2>3, <2>4, <2>5 DEF ProgressOf, RollbackOf, Between, Restarted
    <2>8. ProgressOf(e)'
        BY <1>2, <2>2, <2>3, <2>6, <2>7 DEF ProgressOf, DeployedOf, RestoredOf
    <2>9. envFile' \in Images \cup {Torn}
        BY <1>2, <1>4, <2>5 DEF Images
    <2> HIDE DEF ReleaseInv, Controlled
    <2> QED
        BY <1>1, <1>2, <1>3, <1>4, <2>1, <2>8, <2>9, AdvanceKeeps
<1>7. CASE Abandon(e) /\ UNCHANGED envFile
    <2> HIDE DEF ReleaseInv, Controlled
    <2> QED
        BY <1>1, <1>2, <1>7, AbandonKeeps
<1> QED
    BY <1>5, <1>6, <1>7 DEF WriteEnv

LEMMA SetBinaryPathKeeps ==
    ASSUME ReleaseInv, NEW e \in Effects, NEW s \in Services, SetBinaryPath(e, s), UNCHANGED <<candidates, unanswered>>
    PROVE  ReleaseInv'
<1> USE DEF ReleaseInv, Controlled
<1>1. Runs(e, "path", s) /\ UNCHANGED <<service, envFile, schema, jobs, receipt, unstopped>>
    BY DEF SetBinaryPath
<1>2. deployer[e].pc \in {"cutover", "rollback"} /\ deployer[e].step = IF s = "runtime" THEN 4 ELSE 5
    BY <1>1, StatementStep DEF Services
<1>3. ProgressOf(e) /\ OpensItsOwn'
    BY <1>1 DEF Progress, OpensItsOwn
<1>4. /\ service' \in [Services -> ServiceRow] /\ envFile' \in Images \cup {Torn}
      /\ unstopped' \subseteq Effects /\ ReleaseInv
    BY <1>1 DEF ReleaseTyped
<1>5. CASE installed' = [installed EXCEPT ![s] = Wanted(e, s)] /\ Advance(e)
    <2>1. PICK row \in DeployerRow :
             /\ Moves(e, row) /\ Advanced(e, row) /\ FenceKept(e, row.pc)
             /\ fence' \in {"free", "shared", "exclusive"}
        BY <1>2, <1>5, AdvanceRow
    <2>2. deployer'[e] = row
        BY <2>1, MovesRow
    <2>3. /\ row.pc = deployer[e].pc /\ row.step = deployer[e].step + 1 /\ row.before = deployer[e].before
        BY <1>2, <2>1 DEF Advanced
    <2>4. deployer[e].before.path \in [Services -> Images]
        BY DEF ReleaseTyped, DeployerRow
    <2>5. PICK image \in Images : image = Wanted(e, s)
        BY <1>2, <2>4 DEF Wanted, Images
    <2>6. /\ installed' \in [Services -> Images] /\ installed'[s] = image
          /\ \A t \in Services : t # s => installed'[t] = installed[t]
        BY <1>5, <2>5 DEF ReleaseTyped
    <2>7. /\ deployer[e].pc = "cutover" => image = e
          /\ deployer[e].pc = "rollback" => image = deployer[e].before.path[s]
        BY <2>5 DEF Wanted, DeployerAt
    <2>8. Between(e)
        BY <1>2 DEF Between
    <2>9. CASE s = "runtime"
        <3>1. deployer[e].step = 4 /\ row.step = 5
            BY <1>2, <2>3, <2>9
        <3>2. CutoverOf(e)'
            BY <1>1, <1>3, <2>2, <2>3, <2>6, <2>7, <2>8, <2>9, <3>1 DEF ProgressOf, CutoverOf, Between, Restarted
        <3>3. RollbackOf(e)'
            BY <1>1, <1>3, <2>2, <2>3, <2>6, <2>7, <2>8, <2>9, <3>1 DEF ProgressOf, RollbackOf, Between, Restarted
        <3> QED
            BY <1>1, <1>2, <1>3, <1>4, <2>1, <2>2, <2>3, <2>6, <3>2, <3>3, AdvanceKeeps
               DEF ProgressOf, DeployedOf, RestoredOf
    <2>10. CASE s = "broker"
        <3>1. deployer[e].step = 5 /\ row.step = 6 /\ installed'["runtime"] = installed["runtime"]
            BY <1>2, <2>3, <2>6, <2>10, RuntimeAndBroker
        <3>2. CutoverOf(e)'
            BY <1>1, <1>3, <2>2, <2>3, <2>6, <2>7, <2>8, <2>10, <3>1 DEF ProgressOf, CutoverOf, Between, Restarted
        <3>3. RollbackOf(e)'
            BY <1>1, <1>3, <2>2, <2>3, <2>6, <2>7, <2>8, <2>10, <3>1 DEF ProgressOf, RollbackOf, Between, Restarted
        <3> QED
            BY <1>1, <1>2, <1>3, <1>4, <2>1, <2>2, <2>3, <2>6, <3>2, <3>3, AdvanceKeeps
               DEF ProgressOf, DeployedOf, RestoredOf
    <2> QED
        BY <2>9, <2>10 DEF Services
<1>6. CASE Abandon(e) /\ UNCHANGED installed
    <2> HIDE DEF ReleaseInv, Controlled
    <2> QED
        BY <1>1, <1>2, <1>6, AbandonKeeps
<1> QED
    BY <1>5, <1>6 DEF SetBinaryPath

\* A Runtime that runs at the seventh statement was started there, from the
\* path that the fourth configured, unless the rollback could not stop it.
LEMMA StartAdvanceKeeps ==
    ASSUME ReleaseInv, NEW e \in Effects, NEW s \in Services, Runs(e, "start", s), Advance(e),
           service[s].state = "running",
           UNCHANGED <<service, installed, envFile, schema, jobs, receipt, candidates, unanswered, unstopped>>
    PROVE  ReleaseInv'
<1> USE DEF ReleaseInv, Controlled
<1>1. deployer[e].pc \in {"cutover", "rollback"} /\ deployer[e].step = IF s = "runtime" THEN 7 ELSE 6
    BY StatementStep DEF Services
<1>2. ProgressOf(e) /\ OpensItsOwn' /\ ReleaseInv
    BY DEF Progress, OpensItsOwn
<1>3. PICK row \in DeployerRow :
         /\ Moves(e, row) /\ Advanced(e, row) /\ FenceKept(e, row.pc)
         /\ fence' \in {"free", "shared", "exclusive"}
    BY <1>1, AdvanceRow
<1>4. deployer'[e] = row /\ row.before = deployer[e].before
    BY <1>3, MovesRow DEF Advanced
<1>5. ProgressOf(e)'
    <2>1. CASE s = "broker"
        <3>1. /\ deployer[e].step = 6 /\ row.pc = deployer[e].pc /\ row.step = 7 /\ row.issued = FALSE
            BY <1>1, <1>3, <2>1 DEF Advanced
        <3>2. Between(e)
            BY <3>1 DEF Between
        <3>3. CutoverOf(e)'
            BY <1>2, <1>4, <3>1, <3>2 DEF ProgressOf, CutoverOf, Between, Restarted
        <3>4. RollbackOf(e)'
            BY <1>2, <1>4, <3>1, <3>2 DEF ProgressOf, RollbackOf, Between, Restarted
        <3> QED
            BY <1>1, <1>4, <3>1, <3>3, <3>4 DEF ProgressOf, DeployedOf, RestoredOf
    <2>0. CASE unanswered # {}
        BY <2>0 DEF ProgressOf, CutoverOf, DeployedOf, RollbackOf, RestoredOf
    <2>2. CASE unanswered = {} /\ s = "runtime" /\ deployer[e].pc = "cutover"
        <3>1. /\ deployer[e].step = 7 /\ row.pc = "cutover" /\ row.step = 8
            BY <1>1, <1>3, <2>2 DEF Advanced
        <3>2. ~Between(e)
            BY <1>2, <2>2 DEF ProgressOf, CutoverOf
        <3>3. Restarted(e)
            <4>1. deployer[e].issued \in BOOLEAN
                BY DEF ReleaseTyped, DeployerRow
            <4>2. deployer[e].step \in 2 .. 7
                BY <3>1
            <4>3. deployer[e].issued # FALSE
                BY <3>2, <4>2, Zenon DEF Between
            <4>4. deployer[e].issued = TRUE
                BY <4>1, <4>3
            <4> QED
                BY <3>1, <4>4 DEF Restarted
        <3>4. CutoverOf(e)'
            BY <1>2, <1>4, <2>2, <3>1, <3>3 DEF ProgressOf, CutoverOf, Between, Restarted
        <3> QED
            BY <1>4, <3>1, <3>4 DEF ProgressOf, DeployedOf, RestoredOf, RollbackOf
    <2>3. CASE unanswered = {} /\ s = "runtime" /\ deployer[e].pc = "rollback"
        <3>1. deployer[e].step = 7 /\ row.pc = "restored"
            BY <1>1, <1>3, <2>3 DEF Advanced
        <3>2. e \notin unstopped => Restarted(e)
            <4> SUFFICES ASSUME e \notin unstopped PROVE Restarted(e)
                OBVIOUS
            <4>1. deployer[e].issued \in BOOLEAN
                BY DEF ReleaseTyped, DeployerRow
            <4>2. ~Between(e)
                BY <1>2, <2>3 DEF ProgressOf, RollbackOf
            <4>3. deployer[e].step \in 2 .. 7
                BY <3>1
            <4>4. deployer[e].issued # FALSE
                BY <4>2, <4>3, Zenon DEF Between
            <4>5. deployer[e].issued = TRUE
                BY <4>1, <4>4
            <4> QED
                BY <3>1, <4>5 DEF Restarted
        <3>3. schema = Migrations[service["runtime"].image] /\ schema \in Nat
            BY <2>3 DEF OpensItsOwn, ReleaseTyped
        <3>4. RestoredOf(e)'
            BY <1>2, <1>4, <2>3, <3>1, <3>2, <3>3 DEF ProgressOf, RollbackOf, RestoredOf
        <3> QED
            BY <1>4, <3>1, <3>4 DEF ProgressOf, DeployedOf, CutoverOf, RollbackOf
    <2> QED
        BY <1>1, <2>0, <2>1, <2>2, <2>3 DEF Services
<1>6. /\ service' \in [Services -> ServiceRow] /\ installed' \in [Services -> Images]
      /\ envFile' \in Images \cup {Torn} /\ unstopped' \subseteq Effects
    BY DEF ReleaseTyped
<1> HIDE DEF ReleaseInv, Controlled
<1> QED
    BY <1>1, <1>2, <1>3, <1>5, <1>6, AdvanceKeeps

\* The Runtime the start finds stopped comes up from the configured path.
LEMMA StartIssueKeeps ==
    ASSUME ReleaseInv, NEW e \in Effects, NEW s \in Services, Runs(e, "start", s), Issue(e),
           service[s].state \in {"stopped", "starting"},
           service[s].state = "stopped" =>
              service' = [service EXCEPT ![s] = [state |-> "starting", image |-> installed[s]]],
           service[s].state = "starting" => service' = service,
           UNCHANGED <<installed, envFile, schema, fence, jobs, receipt, candidates, unanswered, unstopped>>,
           deployer[e].issued = FALSE
    PROVE  ReleaseInv'
<1> USE DEF ReleaseInv, Controlled
<1>1. deployer[e].pc \in {"cutover", "rollback"} /\ deployer[e].step = IF s = "runtime" THEN 7 ELSE 6
    BY StatementStep DEF Services
<1>2. ProgressOf(e) /\ ReleaseInv /\ Between(e)
    BY <1>1 DEF Progress, Between
<1>3. PICK row \in DeployerRow :
         /\ Moves(e, row) /\ row.pc = deployer[e].pc /\ row.step = deployer[e].step
         /\ row.issued = TRUE /\ row.before = deployer[e].before
    BY IssueRow
<1>4. deployer'[e] = row
    BY <1>3, MovesRow
<1>5. /\ service' \in [Services -> ServiceRow] /\ service'[s].state = "starting"
      /\ \A t \in Services : t # s => service'[t] = service[t]
      /\ service[s].state = "stopped" => service'[s].image = installed[s]
    <2>1. CASE service[s].state = "stopped"
        BY <2>1, ServiceStarts
    <2>2. CASE service[s].state = "starting"
        BY <2>2 DEF ReleaseTyped
    <2> QED
        BY <2>1, <2>2
<1>6. OpensItsOwn'
    BY <1>5, RuntimeAndBroker DEF OpensItsOwn
<1>7. CutoverOf(e)'
    <2>1. CASE s = "runtime"
        BY <1>1, <1>2, <1>3, <1>4, <1>5, <2>1 DEF ProgressOf, CutoverOf, Between, Restarted
    <2>2. CASE s = "broker"
        <3>1. service'["runtime"] = service["runtime"]
            BY <1>5, <2>2, RuntimeAndBroker
        <3> QED
            BY <1>1, <1>2, <1>3, <1>4, <2>2, <3>1 DEF ProgressOf, CutoverOf, Between, Restarted
    <2> QED
        BY <2>1, <2>2 DEF Services
<1>8. RollbackOf(e)'
    <2>1. CASE s = "runtime"
        BY <1>1, <1>2, <1>3, <1>4, <1>5, <2>1 DEF ProgressOf, RollbackOf, Between, Restarted
    <2>2. CASE s = "broker"
        <3>1. service'["runtime"] = service["runtime"]
            BY <1>5, <2>2, RuntimeAndBroker
        <3> QED
            BY <1>1, <1>2, <1>3, <1>4, <2>2, <3>1 DEF ProgressOf, RollbackOf, Between, Restarted
    <2> QED
        BY <2>1, <2>2 DEF Services
<1>9. ProgressOf(e)'
    BY <1>1, <1>3, <1>4, <1>7, <1>8 DEF ProgressOf, DeployedOf, RestoredOf
<1>10. envFile' \in Images \cup {Torn}
    BY DEF ReleaseTyped
<1> HIDE DEF ReleaseInv, Controlled
<1> QED
    BY <1>1, <1>2, <1>3, <1>5, <1>6, <1>9, <1>10, IssueKeeps

LEMMA StartKeeps ==
    ASSUME ReleaseInv, NEW e \in Effects, NEW s \in Services, Start(e, s), UNCHANGED <<candidates, unanswered>>
    PROVE  ReleaseInv'
<1>1. /\ Runs(e, "start", s) /\ UNCHANGED <<installed, envFile, schema, jobs, receipt, unstopped>>
      /\ deployer[e].pc \in {"cutover", "rollback"}
    BY DEF Start, Runs
<1>2. deployer[e].issued \in BOOLEAN
    BY DEF ReleaseInv, Controlled, ReleaseTyped, DeployerRow
<1>3. ~deployer[e].issued => deployer[e].issued = FALSE
    BY <1>2
<1>4. CASE service[s].state = "running" /\ Advance(e) /\ UNCHANGED service
    BY <1>1, <1>4, StartAdvanceKeeps
<1>5. CASE /\ ~deployer[e].issued /\ service[s].state = "stopped"
           /\ service' = [service EXCEPT ![s] = [state |-> "starting", image |-> installed[s]]]
           /\ Issue(e) /\ UNCHANGED fence
    BY <1>1, <1>3, <1>5, StartIssueKeeps
<1>6. CASE ~deployer[e].issued /\ service[s].state = "starting" /\ Issue(e) /\ UNCHANGED <<service, fence>>
    BY <1>1, <1>3, <1>6, StartIssueKeeps
<1>7. CASE Abandon(e) /\ UNCHANGED service
    BY <1>1, <1>7, AbandonKeeps
<1> QED
    BY <1>4, <1>5, <1>6, <1>7 DEF Start

LEMMA CheckLiveKeeps ==
    ASSUME ReleaseInv, NEW e \in Effects, CheckLive(e), UNCHANGED <<candidates, unanswered>>
    PROVE  ReleaseInv'
<1> USE DEF ReleaseInv, Controlled
<1>1. /\ Runs(e, "check", "runtime")
      /\ UNCHANGED <<service, installed, envFile, schema, jobs, receipt, unstopped>>
    BY DEF CheckLive
<1>2. deployer[e].pc = "cutover" /\ deployer[e].step = 8
    BY <1>1, StatementStep
<1>3. ProgressOf(e) /\ OpensItsOwn' /\ ReleaseInv
    BY <1>1 DEF Progress, OpensItsOwn
<1>4. CASE Abandon(e)
    <2> HIDE DEF ReleaseInv, Controlled
    <2> QED
        BY <1>1, <1>2, <1>3, <1>4, AbandonKeeps
<1>5. CASE schema <= Migrations[e] /\ Advance(e)
    <2>1. PICK row \in DeployerRow :
             /\ Moves(e, row) /\ Advanced(e, row) /\ FenceKept(e, row.pc)
             /\ fence' \in {"free", "shared", "exclusive"}
        BY <1>2, <1>5, AdvanceRow
    <2>2. deployer'[e] = row /\ row.pc = "deployed"
        BY <1>2, <2>1, MovesRow DEF Advanced
    <2>3. Restarted(e)
        BY <1>2 DEF Restarted
    <2>4. DeployedOf(e)'
        BY <1>1, <1>2, <1>3, <1>5, <2>2, <2>3 DEF ProgressOf, CutoverOf, DeployedOf
    <2>5. ProgressOf(e)'
        BY <2>2, <2>4 DEF ProgressOf, CutoverOf, RollbackOf, RestoredOf
    <2>6. /\ service' \in [Services -> ServiceRow] /\ installed' \in [Services -> Images]
          /\ envFile' \in Images \cup {Torn} /\ unstopped' \subseteq Effects
        BY <1>1 DEF ReleaseTyped
    <2> HIDE DEF ReleaseInv, Controlled
    <2> QED
        BY <1>1, <1>2, <1>3, <2>1, <2>5, <2>6, AdvanceKeeps
<1> QED
    BY <1>4, <1>5 DEF CheckLive

-----------------------------------------------------------------------------
(* Into the cutover and the rollback, and out of them.                     *)

LEMMA StageReleaseKeeps ==
    ASSUME ReleaseInv, NEW e \in Effects, StageRelease(e), UNCHANGED <<candidates, unanswered>>
    PROVE  ReleaseInv'
<1> USE DEF ReleaseInv, Controlled
<1>1. deployer[e].pc = "stage"
    BY DEF StageRelease, DeployerAt
<1>2. Alive(e) /\ deployer[e].pc \in Fencing
    BY <1>1 DEF Alive, Fencing
<1>3. CASE Exit(e, TRUE)
    BY <1>2, <1>3, ExitLocked
<1>4. CASE /\ e \in candidates /\ envFile # Torn
           /\ deployer' = [deployer EXCEPT ![e].pc = "cutover", ![e].step = 1, ![e].issued = FALSE,
                                           ![e].before = Snapshot]
           /\ UNCHANGED <<service, installed, envFile, schema, fence, jobs, receipt, unstopped>>
    <2>1. PICK pc \in DeployerPcs : pc = "cutover"
        BY DEF DeployerPcs, Owning
    <2>2. PICK issued \in BOOLEAN : issued = FALSE
        OBVIOUS
    <2>3. PICK step \in 0 .. 8 : step = 1
        OBVIOUS
    <2>4. PICK before : before = Snapshot
        OBVIOUS
    <2>5. before \in [path : [Services -> Images], env : Images]
        <3>1. installed \in [Services -> Images] /\ envFile \in Images
            BY <1>4 DEF ReleaseTyped
        <3> QED
            BY <2>4, <3>1 DEF Snapshot
    <2>6. deployer[e] \in DeployerRow
        BY DEF ReleaseTyped
    <2>7. PICK row : row = [deployer[e] EXCEPT !.pc = pc, !.step = step, !.issued = issued, !.before = before]
        OBVIOUS
    <2>8. row \in DeployerRow /\ row.pc = pc /\ row.step = step
        BY <2>5, <2>6, <2>7 DEF DeployerRow
    <2>9. Moves(e, row)
        <3>1. deployer \in [Effects -> DeployerRow]
            BY DEF ReleaseTyped
        <3>2. deployer' = [deployer EXCEPT ![e].pc = pc, ![e].step = step, ![e].issued = issued,
                                           ![e].before = before]
            BY <1>4, <2>1, <2>2, <2>3, <2>4
        <3>3. \A f \in Effects : deployer'[f] = [deployer EXCEPT ![e] = row][f]
            BY <2>7, <3>1, <3>2
        <3> QED
            BY <2>7, <3>1, <3>2, <3>3 DEF Moves
    <2>10. deployer'[e] = row
        BY <2>8, <2>9, MovesRow
    <2>11. ProgressOf(e)'
        BY <1>4, <2>1, <2>3, <2>8, <2>10
           DEF ProgressOf, CutoverOf, DeployedOf, RollbackOf, RestoredOf, Between, Restarted
    <2>12. FenceKept(e, row.pc)
        BY <1>2, <1>4, <2>1, <2>8 DEF FenceKept, Fencing
    <2>13. /\ service' \in [Services -> ServiceRow] /\ installed' \in [Services -> Images]
           /\ envFile' \in Images \cup {Torn} /\ schema' \in Nat
           /\ fence' \in {"free", "shared", "exclusive"} /\ unstopped' \subseteq Effects
        BY <1>4 DEF ReleaseTyped
    <2>14. OpensItsOwn' /\ ReleaseInv
        BY <1>4 DEF OpensItsOwn
    <2>15. /\ deployer[e].pc \in Owning /\ deployer[e].pc # "rolled_back" /\ row.pc \in Owning
           /\ row.pc # "rolled_back" /\ deployer[e].pc \in Replacing
           /\ row.pc = "cutover" /\ row.step \in 1 .. 8
        BY <1>1, <2>1, <2>3, <2>8 DEF Owning, Replacing
    <2> HIDE DEF ReleaseInv, Controlled
    <2> QED
        BY <1>4, <2>8, <2>9, <2>11, <2>12, <2>13, <2>14, <2>15, OwnerKeeps
<1> QED
    BY <1>3, <1>4 DEF StageRelease, Fails, StagedAsProven

LEMMA JudgeRollbackKeeps ==
    ASSUME ReleaseInv, NEW e \in Effects, JudgeRollback(e), UNCHANGED <<candidates, unanswered>>
    PROVE  ReleaseInv'
<1> USE DEF ReleaseInv, Controlled
<1>1. /\ deployer[e].pc = "failed"
      /\ UNCHANGED <<service, installed, envFile, schema, fence, jobs, receipt, unstopped>>
    BY DEF JudgeRollback, DeployerAt
<1>2. /\ service' \in [Services -> ServiceRow] /\ installed' \in [Services -> Images]
      /\ envFile' \in Images \cup {Torn} /\ schema' \in Nat
      /\ fence' \in {"free", "shared", "exclusive"} /\ unstopped' \subseteq Effects
    BY <1>1 DEF ReleaseTyped
<1>3. OpensItsOwn' /\ ReleaseInv
    BY <1>1 DEF OpensItsOwn
<1>4. deployer[e].pc \in Owning /\ deployer[e].pc # "rolled_back" /\ deployer[e].pc \notin Fencing
    BY <1>1 DEF Owning, Fencing
<1>5. CASE DeployerGoto(e, "unsafe")
    <2>1. "unsafe" \in DeployerPcs
        BY DEF DeployerPcs, Owning
    <2>2. PICK row \in DeployerRow : Moves(e, row) /\ row.pc = "unsafe"
        BY <1>5, <2>1, GotoRow
    <2>3. deployer'[e] = row
        BY <2>2, MovesRow
    <2>4. ProgressOf(e)'
        BY <2>2, <2>3 DEF ProgressOf, CutoverOf, DeployedOf, RollbackOf, RestoredOf
    <2>5. FenceKept(e, row.pc) /\ row.pc \in Owning /\ row.pc \notin Replacing
        BY <1>1, <1>4, <2>2 DEF FenceKept, Fencing, Owning, Replacing
    <2> HIDE DEF ReleaseInv, Controlled
    <2> QED
        BY <1>1, <1>2, <1>3, <1>4, <2>2, <2>4, <2>5, OwnerKeeps
<1>6. CASE Enter(e, "rollback")
    <2>1. PICK pc \in DeployerPcs : pc = "rollback"
        BY DEF DeployerPcs, Owning
    <2>2. PICK issued \in BOOLEAN : issued = FALSE
        OBVIOUS
    <2>3. PICK step \in 0 .. 8 : step = 1
        OBVIOUS
    <2>4. deployer[e] \in DeployerRow
        BY DEF ReleaseTyped
    <2>5. PICK row : row = [deployer[e] EXCEPT !.pc = pc, !.step = step, !.issued = issued]
        OBVIOUS
    <2>6. row \in DeployerRow /\ row.pc = pc /\ row.step = step
        BY <2>4, <2>5 DEF DeployerRow
    <2>7. Moves(e, row)
        <3>1. deployer \in [Effects -> DeployerRow]
            BY DEF ReleaseTyped
        <3>2. deployer' = [deployer EXCEPT ![e].pc = pc, ![e].step = step, ![e].issued = issued]
            BY <1>6, <2>1, <2>2, <2>3 DEF Enter
        <3>3. \A f \in Effects : deployer'[f] = [deployer EXCEPT ![e] = row][f]
            BY <2>5, <3>1, <3>2
        <3> QED
            BY <2>5, <3>1, <3>2, <3>3 DEF Moves
    <2>8. deployer'[e] = row
        BY <2>6, <2>7, MovesRow
    <2>9. ProgressOf(e)'
        BY <2>1, <2>3, <2>6, <2>8 DEF ProgressOf, CutoverOf, DeployedOf, RollbackOf, RestoredOf, Between, Restarted
    <2>10. /\ FenceKept(e, row.pc) /\ row.pc \in Owning /\ row.pc \notin Replacing
          /\ row.pc = "rollback" /\ row.step \in 1 .. 7
        BY <1>1, <1>4, <2>1, <2>3, <2>6 DEF FenceKept, Fencing, Owning, Replacing
    <2> HIDE DEF ReleaseInv, Controlled
    <2> QED
        BY <1>1, <1>2, <1>3, <1>4, <2>6, <2>7, <2>9, <2>10, OwnerKeeps
<1> QED
    BY <1>5, <1>6 DEF JudgeRollback

\* The owner writes a file of its own receipt.
LEMMA ReceiptKeeps ==
    ASSUME ReleaseInv, NEW e \in Effects, deployer[e].pc \in Owning, deployer[e].pc \notin Fencing,
           NEW row \in DeployerRow, Moves(e, row), row.pc \in {"rolled_back", "exited"},
           NEW new \in ReceiptRow, receipt' = [receipt EXCEPT ![e] = new],
           UNCHANGED <<service, installed, envFile, schema, fence, jobs, candidates, unanswered, unstopped>>,
           ReceiptOf(e)', ProgressOf(e)'
    PROVE  ReleaseInv'
<1> USE DEF ReleaseInv, Controlled
<1>1. deployer'[e] = row /\ \A f \in Effects : f # e => deployer'[f] = deployer[f]
    BY MovesRow
<1>2. /\ receipt' \in [Effects -> ReceiptRow]
      /\ \A f \in Effects : f # e => receipt'[f] = receipt[f]
    BY DEF ReleaseTyped
<1>3. ReleaseTyped'
    BY <1>2, MovesRow DEF ReleaseTyped
<1>4. Alive(e) /\ FenceKept(e, row.pc) /\ row.pc \notin Replacing /\ row.pc # "none"
    BY DEF Alive, Owning, FenceKept, Fencing, Replacing
<1>5. StepTyped' /\ Fenced' /\ Tracked' /\ Alone'
    BY <1>4, MoveControlled
<1>6. ASSUME NEW f \in Effects PROVE ReceiptOf(f)' /\ ProgressOf(f)'
    <2>1. CASE f # e
        <3>1. /\ unanswered = {} => deployer[f].pc \notin Owning
              /\ deployer'[f] = deployer[f]
              /\ receipt'[f] = receipt[f] /\ ReceiptOf(f)
            BY <1>1, <1>2, <2>1 DEF Alone, Receipts
        <3>2. ReceiptOf(f)'
            BY <3>1 DEF ReceiptOf
        <3> QED
            BY <3>1, <3>2 DEF ProgressOf, CutoverOf, DeployedOf, RollbackOf, RestoredOf, Owning
    <2> QED
        BY <2>1
<1>7. OpensItsOwn'
    BY DEF OpensItsOwn
<1> QED
    BY <1>3, <1>5, <1>6, <1>7 DEF Receipts, Progress

LEMMA WriteRollbackResultKeeps ==
    ASSUME ReleaseInv, NEW e \in Effects, WriteRollbackResult(e), UNCHANGED <<candidates, unanswered>>
    PROVE  ReleaseInv'
<1> USE DEF ReleaseInv, Controlled
<1>1. /\ deployer[e].pc = "restored"
      /\ UNCHANGED <<service, installed, envFile, schema, fence, jobs, unstopped>>
    BY DEF WriteRollbackResult, DeployerAt
<1>2. deployer[e].pc \in Owning /\ deployer[e].pc \notin Fencing /\ Alive(e) /\ ReleaseInv
    BY <1>1 DEF Owning, Fencing, Alive
<1>3. CASE DeployerGoto(e, "exited") /\ UNCHANGED receipt
    <2> HIDE DEF ReleaseInv, Controlled
    <2> QED
        BY <1>1, <1>2, <1>3, ExitKeeps
<1>4. CASE receipt' = [receipt EXCEPT ![e].rollback = TRUE] /\ DeployerGoto(e, "rolled_back")
    <2>1. "rolled_back" \in DeployerPcs
        BY DEF DeployerPcs, Owning
    <2>2. PICK row \in DeployerRow :
             Moves(e, row) /\ row.pc = "rolled_back" /\ row.before = deployer[e].before
        BY <1>4, <2>1, GotoRow
    <2>3. deployer'[e] = row
        BY <2>2, MovesRow
    <2>4. PICK undone \in BOOLEAN : undone = TRUE
        OBVIOUS
    <2>5. receipt[e] \in ReceiptRow /\ receipt \in [Effects -> ReceiptRow]
        BY DEF ReleaseTyped
    <2>6. PICK new : new = [receipt[e] EXCEPT !.rollback = undone]
        OBVIOUS
    <2>7. /\ new \in ReceiptRow /\ new.request = receipt[e].request
          /\ new.rollback = undone /\ new.result = receipt[e].result
        BY <2>5, <2>6 DEF ReceiptRow
    <2>8. receipt' = [receipt EXCEPT ![e] = new]
        BY <1>4, <2>4, <2>6
    <2>9. receipt'[e] = new
        BY <2>5, <2>8
    <2>10. ReceiptOf(e)'
        <3>1. receipt[e].request = TRUE /\ receipt[e].result = NoFile
            BY <1>2 DEF Receipts, ReceiptOf
        <3>2. receipt'[e].request = TRUE /\ receipt'[e].result = NoFile
            BY <2>7, <2>9, <3>1
        <3>3. receipt'[e].rollback = TRUE
            BY <2>4, <2>7, <2>9
        <3>4. deployer'[e].pc = "rolled_back"
            BY <2>2, <2>3
        <3> QED
            BY <3>2, <3>3, <3>4 DEF ReceiptOf
    <2>11. RestoredOf(e)
        BY DEF Progress, ProgressOf
    <2>12. ProgressOf(e)'
        BY <1>1, <2>2, <2>3, <2>11 DEF ProgressOf, CutoverOf, DeployedOf, RollbackOf, RestoredOf
    <2> HIDE DEF ReleaseInv, Controlled
    <2> QED
        BY <1>1, <1>2, <2>2, <2>7, <2>8, <2>10, <2>12, ReceiptKeeps
<1> QED
    BY <1>3, <1>4 DEF WriteRollbackResult

LEMMA StatusDomain ==
    /\ DOMAIN Statuses = {"deployed", "rolled_back", "unrestored", "unsafe"}
    /\ \A pc \in DOMAIN Statuses : Statuses[pc] \in Results \ {NoFile}
    /\ Statuses["deployed"] = "deployed" /\ Statuses["rolled_back"] = "rolled_back"
    /\ Statuses["unrestored"] = "rollback_failed" /\ Statuses["unsafe"] = "recovery_failed"
BY DEF Statuses, Results, NoFile

LEMMA WriteReceiptKeeps ==
    ASSUME ReleaseInv, NEW e \in Effects, WriteReceipt(e), UNCHANGED <<candidates, unanswered>>
    PROVE  ReleaseInv'
<1> USE DEF ReleaseInv, Controlled
<1>1. /\ deployer[e].pc \in DOMAIN Statuses /\ DeployerGoto(e, "exited")
      /\ UNCHANGED <<service, installed, envFile, schema, fence, jobs, unstopped>>
    BY DEF WriteReceipt
<1>2. deployer[e].pc \in Owning /\ deployer[e].pc \notin Fencing /\ Alive(e) /\ ReleaseInv
    BY <1>1, StatusDomain DEF Owning, Fencing, Alive
<1>3. CASE UNCHANGED receipt
    <2> HIDE DEF ReleaseInv, Controlled
    <2> QED
        BY <1>1, <1>2, <1>3, ExitKeeps
<1>4. CASE receipt' = [receipt EXCEPT ![e].result = Statuses[deployer[e].pc]]
    <2>1. "exited" \in DeployerPcs
        BY DEF DeployerPcs, Owning
    <2>2. PICK row \in DeployerRow : Moves(e, row) /\ row.pc = "exited"
        BY <1>1, <2>1, GotoRow
    <2>3. deployer'[e] = row
        BY <2>2, MovesRow
    <2>4. PICK written \in Results : written = Statuses[deployer[e].pc]
        BY <1>1, StatusDomain
    <2>5. receipt[e] \in ReceiptRow /\ receipt \in [Effects -> ReceiptRow]
        BY DEF ReleaseTyped
    <2>6. PICK new : new = [receipt[e] EXCEPT !.result = written]
        OBVIOUS
    <2>7. new \in ReceiptRow
        BY <2>5, <2>6 DEF ReceiptRow
    <2>8. receipt' = [receipt EXCEPT ![e] = new]
        BY <1>4, <2>4, <2>6
    <2>9. ReceiptOf(e)' /\ ProgressOf(e)'
        BY <2>2, <2>3 DEF ReceiptOf, ProgressOf, CutoverOf, DeployedOf, RollbackOf, RestoredOf, Owning
    <2> HIDE DEF ReleaseInv, Controlled
    <2> QED
        BY <1>1, <1>2, <2>2, <2>7, <2>8, <2>9, ReceiptKeeps
<1> QED
    BY <1>3, <1>4 DEF WriteReceipt

-----------------------------------------------------------------------------
(* The services and the candidate.                                         *)

LEMMA ServiceControlled ==
    ASSUME ReleaseInv,
           UNCHANGED <<installed, envFile, fence, jobs, deployer, receipt, unstopped, unanswered>>,
           service' \in [Services -> ServiceRow], schema' \in Nat, candidates' \subseteq Effects
    PROVE  Controlled' /\ Receipts'
<1> USE DEF ReleaseInv, Controlled
<1>1. ReleaseTyped'
    BY DEF ReleaseTyped
<1>2. StepTyped' /\ Receipts'
    BY DEF StepTyped, Receipts, ReceiptOf
<1>3. Fenced' /\ Tracked' /\ Alone'
    BY DEF Fenced, Tracked, Alone, Alive, Active
<1> QED
    BY <1>1, <1>2, <1>3

\* A migration goes no further than the Runtime that came up supports.
LEMMA MigrateKeeps ==
    ASSUME ReleaseInv, Migrate, UNCHANGED <<candidates, unanswered>>
    PROVE  ReleaseInv'
<1> USE DEF ReleaseInv, Controlled
<1>1. /\ service["runtime"].state = "starting" /\ schema < Migrations[service["runtime"].image]
      /\ schema' = schema + 1
      /\ UNCHANGED <<service, installed, envFile, fence, jobs, deployer, receipt, unstopped>>
    BY DEF Migrate
<1>2. service["runtime"].image \in Images /\ schema \in Nat
    BY RuntimeAndBroker DEF ReleaseTyped, ServiceRow
<1>3. Migrations[service["runtime"].image] \in Nat
    BY <1>2, ReleaseAssumption DEF Images
<1>4. schema' \in Nat /\ schema' <= Migrations[service["runtime"].image]
    BY <1>1, <1>2, <1>3
<1>5. Controlled' /\ Receipts'
    <2>1. service' \in [Services -> ServiceRow] /\ candidates' \subseteq Effects /\ ReleaseInv
        BY <1>1 DEF ReleaseTyped
    <2> HIDE DEF ReleaseInv, Controlled
    <2> QED
        BY <1>1, <1>4, <2>1, ServiceControlled
<1>6. ASSUME NEW e \in Effects PROVE ProgressOf(e)'
    <2>1. ProgressOf(e)
        BY DEF Progress
    <2>2. CutoverOf(e)' /\ RollbackOf(e)'
        BY <1>1, <2>1 DEF ProgressOf, CutoverOf, RollbackOf, Between, Restarted
    <2>3. DeployedOf(e)' /\ RestoredOf(e)'
        BY <1>1, <1>4, <2>1 DEF ProgressOf, DeployedOf, RestoredOf
    <2> QED
        BY <2>2, <2>3 DEF ProgressOf
<1>7. OpensItsOwn'
    BY <1>1 DEF OpensItsOwn
<1> QED
    BY <1>5, <1>6, <1>7 DEF Progress

\* A service reports: what it runs does not change, and one that is down stays
\* down.
LEMMA ReportKeeps ==
    ASSUME ReleaseInv, NEW s \in Services, NEW x \in {"running", "stopped"},
           service[s].state \in {"starting", "stopping"},
           service' = [service EXCEPT ![s].state = x],
           x = "running" /\ s = "runtime" => schema = Migrations[service[s].image],
           UNCHANGED <<installed, envFile, schema, fence, jobs, deployer, receipt, unstopped, candidates, unanswered>>
    PROVE  ReleaseInv'
<1> USE DEF ReleaseInv, Controlled
<1>1. x \in ServiceStates
    BY DEF ServiceStates
<1>2. /\ service' \in [Services -> ServiceRow]
      /\ service'[s].state = x /\ service'[s].image = service[s].image
      /\ \A t \in Services : t # s => service'[t] = service[t]
    BY <1>1, ServiceState
<1>3. Controlled' /\ Receipts'
    <2>1. schema' \in Nat /\ candidates' \subseteq Effects /\ ReleaseInv
        BY DEF ReleaseTyped
    <2> HIDE DEF ReleaseInv, Controlled
    <2> QED
        BY <1>2, <2>1, ServiceControlled
<1>4. /\ service'["runtime"].image = service["runtime"].image
      /\ service["runtime"].state = "stopped" => service'["runtime"].state = "stopped"
      /\ service'["runtime"].state = "running" => schema = Migrations[service["runtime"].image]
    <2>1. CASE s = "runtime"
        BY <1>2, <2>1
    <2>2. CASE s # "runtime"
        <3>1. service'["runtime"] = service["runtime"]
            BY <1>2, <2>2, RuntimeAndBroker
        <3> QED
            BY <3>1 DEF OpensItsOwn
    <2> QED
        BY <2>1, <2>2
<1>5. ASSUME NEW e \in Effects PROVE ProgressOf(e)'
    <2>1. ProgressOf(e)
        BY DEF Progress
    <2>2. CutoverOf(e)'
        BY <1>4, <2>1 DEF ProgressOf, CutoverOf, Between, Restarted
    <2>3. RollbackOf(e)'
        BY <1>4, <2>1 DEF ProgressOf, RollbackOf, Between, Restarted
    <2>4. DeployedOf(e)' /\ RestoredOf(e)'
        BY <1>4, <2>1 DEF ProgressOf, DeployedOf, RestoredOf
    <2> QED
        BY <2>2, <2>3, <2>4 DEF ProgressOf
<1> QED
    BY <1>3, <1>4, <1>5 DEF Progress, OpensItsOwn

\* Nobody starts a service by hand while a deployer is alive.
LEMMA StartByHandKeeps ==
    ASSUME ReleaseInv, NEW s \in Services, StartByHand(s), UNCHANGED <<candidates, unanswered>>
    PROVE  ReleaseInv'
<1> USE DEF ReleaseInv, Controlled
<1>1. /\ \A e \in Effects : ~Alive(e) /\ service[s].state = "stopped"
      /\ service' = [service EXCEPT ![s] = [state |-> "starting", image |-> installed[s]]]
      /\ UNCHANGED <<installed, envFile, schema, fence, jobs, deployer, receipt, unstopped>>
    BY DEF StartByHand
<1>2. /\ service' \in [Services -> ServiceRow] /\ service'[s].state = "starting"
      /\ \A t \in Services : t # s => service'[t] = service[t]
    BY <1>1, ServiceStarts
<1>3. Controlled' /\ Receipts'
    <2>1. schema' \in Nat /\ candidates' \subseteq Effects /\ ReleaseInv
        BY <1>1 DEF ReleaseTyped
    <2> HIDE DEF ReleaseInv, Controlled
    <2> QED
        BY <1>1, <1>2, <2>1, ServiceControlled
<1>4. ASSUME NEW e \in Effects PROVE ProgressOf(e)'
    BY <1>1 DEF Alive, ProgressOf, CutoverOf, DeployedOf, RollbackOf, RestoredOf
<1>5. OpensItsOwn'
    BY <1>1, <1>2, RuntimeAndBroker DEF OpensItsOwn
<1> QED
    BY <1>3, <1>4, <1>5 DEF Progress

LEMMA SwapCandidateKeeps ==
    ASSUME ReleaseInv, NEW e \in Effects, SwapCandidate(e)
    PROVE  ReleaseInv'
<1> USE DEF ReleaseInv, Controlled
<1>1. /\ deployer[e].pc \in {"none", "arguments", "preflight", "request", "fence", "drain", "stage"}
      /\ candidates' = candidates \ {e}
      /\ UNCHANGED <<service, installed, envFile, schema, fence, jobs, deployer, receipt, unstopped, unanswered>>
    BY DEF SwapCandidate
<1>2. Controlled' /\ Receipts'
    <2>1. service' \in [Services -> ServiceRow] /\ schema' \in Nat /\ candidates' \subseteq Effects /\ ReleaseInv
        BY <1>1 DEF ReleaseTyped
    <2> HIDE DEF ReleaseInv, Controlled
    <2> QED
        BY <1>1, <2>1, ServiceControlled
<1>3. ASSUME NEW f \in Effects PROVE ProgressOf(f)'
    <2>1. ProgressOf(f) /\ (deployer[f].pc \in {"cutover", "deployed"} => f # e)
        BY <1>1 DEF Progress
    <2>2. CutoverOf(f)' /\ DeployedOf(f)'
        BY <1>1, <2>1 DEF ProgressOf, CutoverOf, DeployedOf, Between, Restarted
    <2>3. RollbackOf(f)' /\ RestoredOf(f)'
        BY <1>1, <2>1 DEF ProgressOf, RollbackOf, RestoredOf, Between, Restarted
    <2> QED
        BY <2>2, <2>3 DEF ProgressOf
<1> QED
    BY <1>1, <1>2, <1>3 DEF Progress, OpensItsOwn

-----------------------------------------------------------------------------
(* The release, proved.                                                    *)

LEMMA ReleaseStarts == ReleaseInit => ReleaseInv
<1> SUFFICES ASSUME ReleaseInit PROVE ReleaseInv
    OBVIOUS
<1> USE DEF ReleaseInit
<1>1. /\ NoDeployment \in DeployerRow /\ NoDeployment.pc = "none"
    <2>1. PICK pc \in DeployerPcs, issued \in BOOLEAN : pc = "none" /\ issued = FALSE
        BY Zenon DEF DeployerPcs
    <2>2. PICK path : path = [s \in Services |-> OldImage]
        OBVIOUS
    <2>3. path \in [Services -> Images] /\ OldImage \in Images
        BY <2>2 DEF Images
    <2>4. PICK before : before = [path |-> path, env |-> OldImage]
        OBVIOUS
    <2>5. before \in [path : [Services -> Images], env : Images]
        BY <2>3, <2>4
    <2>6. PICK zero \in Nat : zero = 0
        OBVIOUS
    <2>7. NoDeployment = [pc |-> pc, step |-> zero, issued |-> issued, pre |-> zero, before |-> before]
        BY <2>1, <2>2, <2>4, <2>6 DEF NoDeployment
    <2>8. zero \in 0 .. 8
        BY <2>6
    <2> QED
        BY <2>1, <2>5, <2>7, <2>8 DEF DeployerRow
<1>2. NoReceipt \in ReceiptRow /\ NoReceipt.result = NoFile /\ NoReceipt.rollback = FALSE
    BY DEF NoReceipt, ReceiptRow, Results
<1>3. schema \in Nat
    BY ReleaseAssumption
<1>4. service \in [Services -> ServiceRow]
    <2>1. PICK x \in ServiceStates : x = "running"
        BY DEF ServiceStates
    <2>2. [state |-> x, image |-> OldImage] \in ServiceRow
        BY DEF ServiceRow, Images
    <2> QED
        BY <2>1, <2>2
<1>5. ReleaseTyped
    BY <1>1, <1>2, <1>3, <1>4 DEF ReleaseTyped, Images
<1>6. \A e \in Effects : deployer[e].pc = "none" /\ jobs[e] = "none" /\ receipt[e] = NoReceipt
    BY <1>1
<1>7. StepTyped /\ Fenced /\ Tracked /\ Alone
    BY <1>6 DEF StepTyped, Fenced, Fencing, Tracked, Alive, Alone, Active, Owning, Replacing
<1>8. Receipts
    BY <1>2, <1>6 DEF Receipts, ReceiptOf, Owning
<1>9. Progress
    BY <1>6 DEF Progress, ProgressOf, CutoverOf, DeployedOf, RollbackOf, RestoredOf
<1>10. OpensItsOwn
    <2>1. service["runtime"].image = OldImage
        BY RuntimeAndBroker
    <2> QED
        BY <2>1 DEF OpensItsOwn
<1> QED
    BY <1>5, <1>7, <1>8, <1>9, <1>10 DEF ReleaseInv, Controlled

LEMMA ReleaseKept == ReleaseInv /\ [ReleaseNext]_releaseVars => ReleaseInv'
<1>1. CASE ReleaseInv /\ UNCHANGED releaseVars
    <2> USE <1>1 DEF ReleaseInv, Controlled, releaseVars
    <2>1. ReleaseTyped' /\ Fenced' /\ Tracked' /\ Alone'
        BY DEF ReleaseTyped, Fenced, Tracked, Alone, Alive, Active
    <2>2. ReleaseInv /\ UNCHANGED <<service, installed, envFile, schema, candidates, unanswered, deployer, receipt, unstopped>>
        OBVIOUS
    <2>3. StepTyped' /\ Receipts' /\ Progress' /\ OpensItsOwn'
        BY <2>2, JobProgress
    <2> QED
        BY <2>1, <2>3
<1>2. ASSUME ReleaseInv, NEW e \in Effects, SwapCandidate(e) PROVE ReleaseInv'
    BY <1>2, SwapCandidateKeeps
<1>4. ASSUME ReleaseInv, NEW e \in Effects, DispatchUnanswered(e) PROVE ReleaseInv'
    BY <1>4, DispatchUnansweredKeeps
<1>3. ASSUME ReleaseInv, ReleaseStep, UNCHANGED <<candidates, unanswered>> PROVE ReleaseInv'
    <2> USE <1>3
    <2>1. CASE Migrate
        BY <2>1, MigrateKeeps
    <2>2. ASSUME NEW s \in Services, ReportRunning(s) PROVE ReleaseInv'
        BY <2>2, ReportKeeps DEF ReportRunning
    <2>3. ASSUME NEW s \in Services, ReportStopped(s) PROVE ReleaseInv'
        BY <2>3, ReportKeeps DEF ReportStopped
    <2>4. ASSUME NEW s \in Services, StartByHand(s) PROVE ReleaseInv'
        BY <2>4, StartByHandKeeps
    <2>5. ASSUME NEW e \in Effects, NEW s \in Services, Stop(e, s) \/ SetBinaryPath(e, s) \/ Start(e, s)
          PROVE  ReleaseInv'
        BY <2>5, StopKeeps, SetBinaryPathKeeps, StartKeeps
    <2>6. ASSUME NEW e \in Effects,
                 \/ BeginAdmission(e) \/ CommitAdmission(e) \/ DispatchRelease(e)
                 \/ ResolveRelease(e) \/ ParseArguments(e) \/ Preflight(e) \/ WriteRequest(e)
                 \/ AcquireAdmissionFence(e) \/ WaitForDrain(e) \/ StageRelease(e)
          PROVE  ReleaseInv'
        BY <2>6, BeginAdmissionKeeps, CommitAdmissionKeeps, DispatchReleaseKeeps, ResolveReleaseKeeps,
           ParseArgumentsKeeps, PreflightKeeps, WriteRequestKeeps, AcquireFenceKeeps, WaitForDrainKeeps,
           StageReleaseKeeps
    <2>7. ASSUME NEW e \in Effects,
                 \/ WriteEnv(e) \/ CheckLive(e) \/ JudgeRollback(e)
                 \/ WriteRollbackResult(e) \/ WriteReceipt(e) \/ KillDeployer(e)
          PROVE  ReleaseInv'
        BY <2>7, WriteEnvKeeps, CheckLiveKeeps, JudgeRollbackKeeps, WriteRollbackResultKeeps,
           WriteReceiptKeeps, KillDeployerKeeps
    <2> QED
        BY <2>1, <2>2, <2>3, <2>4, <2>5, <2>6, <2>7 DEF ReleaseStep
<1> QED
    BY <1>1, <1>2, <1>3, <1>4 DEF ReleaseNext

\* The inductive invariant: the fence and the drain leave one owner of the
\* services, whose step counter says which of them it has changed.
THEOREM ReleaseInvariant == ReleaseSpec => []ReleaseInv
<1>1. ReleaseInit => ReleaseInv
    BY ReleaseStarts
<1>2. ReleaseInv /\ [ReleaseNext]_releaseVars => ReleaseInv'
    BY ReleaseKept
<1> QED
    BY <1>1, <1>2, PTL DEF ReleaseSpec

\* Every deployer is at a known statement and every receipt file has a known
\* writer (bin/ordivon-runtime-windows-deploy.rs: execute).
THEOREM ReleaseTypes == ReleaseSpec => []ReleaseTypeOK
<1>1. ReleaseInv => ReleaseTypeOK
    <2> SUFFICES ASSUME ReleaseInv PROVE ReleaseTypeOK
        OBVIOUS
    <2> USE DEF ReleaseInv, Controlled
    <2>1. ASSUME NEW e \in Effects
          PROVE  /\ deployer[e].pc \in DeployerPcs /\ deployer[e].step \in 0 .. 8
                 /\ receipt[e] \in ReceiptRow
        BY DEF ReleaseTyped, DeployerRow
    <2>2. DeployerPcs \subseteq DOMAIN Statuses \cup
             {"none", "exited", "arguments", "preflight", "request", "fence", "drain",
              "stage", "cutover", "failed", "rollback", "restored"}
        BY StatusDomain DEF DeployerPcs, Owning
    <2>3. Results = {NoFile} \cup {Statuses[p] : p \in DOMAIN Statuses}
        <3>1. {Statuses[p] : p \in DOMAIN Statuses}
                 = {"deployed", "rolled_back", "rollback_failed", "recovery_failed"}
            BY StatusDomain
        <3> QED
            BY <3>1 DEF Results
    <2>4. ReceiptRow = [request : BOOLEAN, rollback : BOOLEAN,
                        result : {NoFile} \cup {Statuses[p] : p \in DOMAIN Statuses}]
        BY <2>3 DEF ReceiptRow
    <2>5. /\ candidates \subseteq Effects
          /\ service \in [Services -> [state : ServiceStates, image : Images]]
          /\ installed \in [Services -> Images] /\ envFile \in Images \cup {Torn}
          /\ schema \in Nat /\ fence \in {"free", "shared", "exclusive"}
          /\ jobs \in [Effects -> {"none", "submitting", "accepted", "running", "resolved"}]
          /\ unstopped \subseteq Effects /\ unanswered \subseteq Effects
        BY DEF ReleaseTyped, ServiceRow
    <2> QED
        BY <2>1, <2>2, <2>4, <2>5, ClosureLengths DEF ReleaseTypeOK
<1> QED
    BY <1>1, ReleaseInvariant, PTL

\* A cutover is alone: no other deployer holds the fence, no Job it would cut
\* off has been admitted, and no other deployer is alive but one whose launch
\* was reported failed (acquire_admission_fence before wait_for_drain).
THEOREM ReleaseOneCutover == ReleaseSpec => []OneCutover
<1>1. ReleaseInv => OneCutover
    <2> SUFFICES ASSUME ReleaseInv, NEW e \in Effects, deployer[e].pc = "cutover", NEW f \in Effects \ {e}
                 PROVE  /\ ~Active(f) /\ deployer[f].pc \notin {"drain", "stage", "cutover"}
                        /\ Alive(f) => f \in unanswered
        BY DEF OneCutover
    <2>1. ~Active(f)
        BY DEF ReleaseInv, Controlled, Alone, Replacing
    <2>2. Alive(f) => f \in unanswered
        BY <2>1 DEF ReleaseInv, Controlled, Tracked, Active
    <2>3. deployer[f].pc \notin {"drain", "stage", "cutover"}
        BY DEF ReleaseInv, Controlled, Fenced, Fencing
    <2> QED
        BY <2>1, <2>2, <2>3
<1> QED
    BY <1>1, ReleaseInvariant, PTL

\* Only the files of the receipt change what release.get answers about the end
\* of a release, and only its deployer writes them.
LEMMA ReceiptWriters ==
    ASSUME ReleaseInv, ReleaseNext, NEW e \in Effects, receipt'[e] # receipt[e]
    PROVE  WriteRequest(e) \/ WriteRollbackResult(e) \/ WriteReceipt(e)
<1>1. receipt \in [Effects -> ReceiptRow] /\ receipt' # receipt
    BY DEF ReleaseInv, Controlled, ReleaseTyped
<1>2. PICK f \in Effects : WriteRequest(f) \/ WriteRollbackResult(f) \/ WriteReceipt(f)
    BY <1>1 DEF ReleaseNext, ReleaseStep, SwapCandidate, DispatchUnanswered, BeginAdmission, CommitAdmission, DispatchRelease,
       ResolveRelease, ParseArguments, Preflight, AcquireAdmissionFence, WaitForDrain, StageRelease,
       WriteEnv, CheckLive, JudgeRollback, KillDeployer, Stop, SetBinaryPath, Start, Migrate,
       ReportRunning, ReportStopped, StartByHand, Exit, Fails
<1>3. f = e
    BY <1>1, <1>2 DEF WriteRequest, WriteRollbackResult, WriteReceipt, Fails, Exit
<1> QED
    BY <1>2, <1>3

\* An answer that names an end comes from the result file.
Concludes(r, d) == /\ r.request = TRUE /\ r.result # NoFile
                   /\ \/ r.rollback = TRUE /\ d = "rolled_back"
                      \/ r.rollback = FALSE /\ r.result = d

Answer(r, pending) ==
    IF ~r.request \/ r.result = NoFile THEN pending
    ELSE IF r.rollback THEN "rolled_back"
    ELSE IF r.result \in {"deployed", "rolled_back"} THEN r.result
    ELSE "reconciliation_required"

LEMMA AnswerEnds ==
    ASSUME NEW r \in ReceiptRow, NEW d \in {"deployed", "rolled_back"}, NEW pending, pending # d
    PROVE  (Answer(r, pending) = d) <=> Concludes(r, d)
<1>1. r.request \in BOOLEAN /\ r.rollback \in BOOLEAN
    BY DEF ReceiptRow
<1>2. CASE r.request = FALSE \/ r.result = NoFile
    BY <1>1, <1>2 DEF Answer, Concludes
<1>3. CASE r.request = TRUE /\ r.result # NoFile /\ r.rollback = TRUE
    <2>1. Answer(r, pending) = "rolled_back"
        BY <1>3 DEF Answer
    <2>2. Concludes(r, d) <=> d = "rolled_back"
        BY <1>3, Zenon DEF Concludes
    <2> QED
        BY <2>1, <2>2
<1>4. CASE r.request = TRUE /\ r.result # NoFile /\ r.rollback = FALSE
    <2>1. Answer(r, pending) = IF r.result \in {"deployed", "rolled_back"} THEN r.result
                               ELSE "reconciliation_required"
        BY <1>4 DEF Answer
    <2>2. Concludes(r, d) <=> r.result = d
        BY <1>4, Zenon DEF Concludes
    <2> QED
        BY <2>1, <2>2
<1> QED
    BY <1>1, <1>2, <1>3, <1>4

\* A step after which release.get names an end it did not name before: the
\* deployer, at that end, writes the result file.
LEMMA AnswerBecomes ==
    ASSUME ReleaseInv, [ReleaseNext]_releaseVars, NEW e \in Effects, NEW d \in {"deployed", "rolled_back"},
           Projection(e) # d, Projection(e)' = d
    PROVE  deployer[e].pc = d
<1> USE DEF ReleaseInv, Controlled
<1>1. receipt[e] \in ReceiptRow /\ receipt \in [Effects -> ReceiptRow]
    BY DEF ReleaseTyped
<1>2. ReleaseInv'
    BY ReleaseKept
<1>3. receipt'[e] \in ReceiptRow
    BY <1>2 DEF ReleaseTyped
<1>4. /\ Projection(e) = Answer(receipt[e], Pending(e))
      /\ Projection(e)' = Answer(receipt'[e], Pending(e)')
    BY DEF Projection, Answer
<1>5. Pending(e) # d /\ Pending(e)' # d
    BY DEF Pending
<1>6. ~Concludes(receipt[e], d)
    BY <1>1, <1>4, <1>5, AnswerEnds
<1>7. Concludes(receipt'[e], d)
    <2>1. PICK r, pending : r \in ReceiptRow /\ r = receipt'[e] /\ pending = Pending(e)'
        BY <1>3
    <2>2. Answer(r, pending) = d /\ pending # d
        BY <1>4, <1>5, <2>1
    <2>3. Concludes(r, d)
        BY <2>1, <2>2, AnswerEnds
    <2> QED
        BY <2>1, <2>3
<1>8. receipt'[e] # receipt[e]
    BY <1>6, <1>7
<1>9. ReleaseNext
    BY <1>8 DEF releaseVars
<1>10. receipt'[e].result # NoFile
    BY <1>7 DEF Concludes
<1>11. ReceiptOf(e)
    BY DEF Receipts
<1>12. CASE WriteRequest(e)
    <2>1. receipt[e].result = NoFile
        BY <1>11, <1>12 DEF ReceiptOf, WriteRequest, DeployerAt
    <2>2. receipt' = [receipt EXCEPT ![e].request = TRUE]
        BY <1>8, <1>12 DEF WriteRequest, Fails, Exit
    <2>3. receipt'[e].result = receipt[e].result
        BY <1>1, <2>2 DEF ReceiptRow
    <2> QED
        BY <1>10, <2>1, <2>3
<1>13. CASE WriteRollbackResult(e)
    <2>1. receipt[e].result = NoFile
        BY <1>11, <1>13 DEF ReceiptOf, WriteRollbackResult, DeployerAt, Owning
    <2>2. receipt' = [receipt EXCEPT ![e].rollback = TRUE]
        BY <1>8, <1>13 DEF WriteRollbackResult
    <2>3. receipt'[e].result = receipt[e].result
        BY <1>1, <2>2 DEF ReceiptRow
    <2> QED
        BY <1>10, <2>1, <2>3
<1>14. CASE WriteReceipt(e)
    <2>1. /\ deployer[e].pc \in DOMAIN Statuses
          /\ receipt' = [receipt EXCEPT ![e].result = Statuses[deployer[e].pc]]
        BY <1>8, <1>14 DEF WriteReceipt
    <2>2. PICK written \in Results : written = Statuses[deployer[e].pc]
        BY <2>1, StatusDomain
    <2>3. receipt'[e] = [receipt[e] EXCEPT !.result = written]
        BY <1>1, <2>1, <2>2
    <2>4. receipt'[e].result = written /\ receipt'[e].rollback = receipt[e].rollback
        BY <1>1, <2>3 DEF ReceiptRow
    <2>5. deployer[e].pc \in Owning
        BY <2>1, StatusDomain DEF Owning
    <2>6. receipt[e].rollback = (deployer[e].pc = "rolled_back")
        BY <1>11, <2>5 DEF ReceiptOf
    <2>7. CASE deployer[e].pc = "rolled_back"
        <3>1. receipt'[e].rollback = TRUE
            BY <2>4, <2>6, <2>7
        <3>2. d = "rolled_back"
            BY <1>7, <3>1, Zenon DEF Concludes
        <3> QED
            BY <2>7, <3>2
    <2>8. CASE deployer[e].pc # "rolled_back"
        <3>1. receipt'[e].rollback = FALSE
            BY <2>4, <2>6, <2>8
        <3>2. receipt'[e].result = d
            BY <1>7, <3>1, Zenon DEF Concludes
        <3> QED
            BY <2>1, <2>2, <2>4, <2>8, <3>2, StatusDomain
    <2> QED
        BY <2>7, <2>8
<1> QED
    BY <1>8, <1>9, <1>12, <1>13, <1>14, ReceiptWriters

\* What release.get answers is true at the step that makes it the answer, as
\* long as no deployer runs whose launch was reported failed
\* (inspect_runtime_release_receipt over the files of write_receipt).
THEOREM ReleaseReceipt == ReleaseSpec => ReceiptTrue
<1>1. ASSUME ReleaseInv, [ReleaseNext]_releaseVars, unanswered = {}, NEW e \in Effects
      PROVE  /\ Projection(e) # "deployed" /\ Projection(e)' = "deployed" =>
                   /\ service["runtime"].image = e /\ envFile = e /\ installed = [s \in Services |-> e]
                   /\ schema <= Migrations[e] /\ e \in candidates
             /\ Projection(e) # "rolled_back" /\ Projection(e)' = "rolled_back" =>
                   /\ envFile = deployer[e].before.env /\ installed = deployer[e].before.path
                   /\ \/ e \in unstopped
                      \/ /\ service["runtime"].image = deployer[e].before.path["runtime"]
                         /\ schema <= Migrations[service["runtime"].image]
    <2> USE <1>1
    <2>1. ProgressOf(e)
        BY DEF ReleaseInv, Progress
    <2>2. installed \in [Services -> Images] /\ deployer[e].before.path \in [Services -> Images]
        BY DEF ReleaseInv, Controlled, ReleaseTyped, DeployerRow
    <2>3. ASSUME Projection(e) # "deployed", Projection(e)' = "deployed"
          PROVE  /\ service["runtime"].image = e /\ envFile = e /\ installed = [s \in Services |-> e]
                 /\ schema <= Migrations[e] /\ e \in candidates
        <3>1. deployer[e].pc = "deployed"
            BY <2>3, AnswerBecomes
        <3>2. DeployedOf(e)
            BY <2>1 DEF ProgressOf
        <3>3. installed = [s \in Services |-> e]
            BY <2>2, <3>1, <3>2 DEF DeployedOf, Services
        <3> QED
            BY <3>1, <3>2, <3>3 DEF DeployedOf
    <2>4. ASSUME Projection(e) # "rolled_back", Projection(e)' = "rolled_back"
          PROVE  /\ envFile = deployer[e].before.env /\ installed = deployer[e].before.path
                 /\ \/ e \in unstopped
                    \/ /\ service["runtime"].image = deployer[e].before.path["runtime"]
                       /\ schema <= Migrations[service["runtime"].image]
        <3>1. deployer[e].pc = "rolled_back"
            BY <2>4, AnswerBecomes
        <3>2. RestoredOf(e)
            BY <2>1 DEF ProgressOf
        <3>3. installed = deployer[e].before.path
            BY <2>2, <3>1, <3>2 DEF RestoredOf, Services
        <3> QED
            BY <3>1, <3>2, <3>3 DEF RestoredOf
    <2> QED
        BY <2>3, <2>4
<1>2. ReleaseInv /\ [ReleaseNext]_releaseVars =>
         [unanswered = {} => \A e \in Effects :
            LET becomes(d) == Projection(e) # d /\ Projection(e)' = d
                up == service["runtime"].image
                old == deployer[e].before IN
            /\ becomes("deployed") =>
                  /\ up = e /\ envFile = e /\ installed = [s \in Services |-> e]
                  /\ schema <= Migrations[e] /\ e \in candidates
            /\ becomes("rolled_back") =>
                  /\ envFile = old.env
                  /\ installed = old.path
                  /\ \/ e \in unstopped
                     \/ up = old.path["runtime"] /\ schema <= Migrations[up]
         ]_releaseVars
    BY <1>1
<1> QED
    BY <1>2, ReleaseInvariant, PTL DEF ReleaseSpec, ReceiptTrue

-----------------------------------------------------------------------------
(* The repair.  The rows it planned on carry their version; whoever gives a *)
(* verdict in the operator's name knows that no result can come any more.  *)

CancelRow == [pc : {"idle", "probe", "request", "reread", "reprobe", "commit", "clear"},
              of : Cases \cup {Nothing}, rv : Nat]

RepairTyped ==
    /\ rows \in [Cases -> CaseRow] /\ unit \in [Cases -> Units]
    /\ result \in [Cases -> RepairResults] /\ unlooked \subseteq Cases
    /\ canceller \in CancelRow /\ (canceller.pc # "idle" => canceller.of \in Cases)
    /\ repairer.pc \in {"idle", "planned"}
    /\ repairer.pc = "planned" => DOMAIN repairer.plan \subseteq Cases

\* No result is there, and nobody is left to write one.
Silent(a) == unit[a] = "gone" /\ result[a] = "none"

LostIsGone == \A a \in Cases : rows[a].state = "lost" => unit[a] = "gone"
AdminIsSilent == \A a \in Cases : rows[a].digest = "admin" => Silent(a) \/ a \in unlooked

\* A row that was `old' once: an unchanged version means an unchanged verdict.
Later(old, new) ==
    /\ new.rv >= old.rv /\ new.jv >= old.jv
    /\ new.rv = old.rv /\ new.jv = old.jv =>
          new.state = old.state /\ new.digest = old.digest /\ new.resolution = old.resolution

PlannedOf(a) ==
    LET case == repairer.plan[a] IN
    /\ backup[a][1] = Compared(case.row)
    /\ case.row.rv \in Nat /\ case.row.jv \in Nat /\ Later(case.row, rows[a])
    /\ case.proposal = "release" => case.row.reservation # ReservationTarget(case.row.state)
    /\ case.proposal \notin {"release", "recover"} => Silent(a)
Planned == repairer.pc = "planned" => \A a \in DOMAIN repairer.plan : PlannedOf(a)

CancellingOf(a) ==
    /\ canceller.pc \in {"request", "reread", "reprobe", "commit"} => unit[a] = "gone" \/ a \in unlooked
    /\ canceller.pc \in {"reprobe", "commit"} => Silent(a) \/ a \in unlooked
    /\ canceller.pc = "clear" =>
          rows[a].state = "cancelled" /\ rows[a].reservation = "released" /\ rows[a].by # "repair"
Cancelling == canceller.pc # "idle" => CancellingOf(canceller.of)

RepairInv == RepairTyped /\ LostIsGone /\ AdminIsSilent /\ Planned /\ Cancelling

-----------------------------------------------------------------------------
(* Transactions on one row.                                                *)

LEMMA RowsMove ==
    ASSUME RepairTyped, NEW a \in Cases, NEW new \in CaseRow, rows' = [rows EXCEPT ![a] = new]
    PROVE  /\ rows' \in [Cases -> CaseRow] /\ rows'[a] = new
           /\ \A b \in Cases : b # a => rows'[b] = rows[b]
BY DEF RepairTyped

LEMMA LaterTransitive ==
    ASSUME NEW old, NEW mid, NEW new, old.rv \in Nat, old.jv \in Nat, mid.rv \in Nat, mid.jv \in Nat,
           new.rv \in Nat, new.jv \in Nat, Later(old, mid), Later(mid, new)
    PROVE  Later(old, new)
BY DEF Later

\* What a transaction on one row owes to a plan, to the Lost rows and to the
\* operator's verdicts.
LEMMA RowKeeps ==
    ASSUME RepairInv, NEW a \in Cases, NEW new \in CaseRow, rows' = [rows EXCEPT ![a] = new],
           Later(rows[a], new), UNCHANGED <<unit, result, backup, repairer, unlooked>>,
           new.state = "lost" => rows[a].state = "lost",
           new.digest = "admin" => rows[a].digest = "admin" \/ Silent(a) \/ a \in unlooked
    PROVE  LostIsGone' /\ AdminIsSilent' /\ Planned'
<1> USE DEF RepairInv
<1>1. /\ rows'[a] = new /\ rows[a] \in CaseRow
      /\ \A b \in Cases : b # a => rows'[b] = rows[b]
    BY RowsMove DEF RepairTyped
<1>2. LostIsGone'
    BY <1>1 DEF LostIsGone
<1>3. AdminIsSilent'
    BY <1>1 DEF AdminIsSilent, Silent
<1>4. ASSUME repairer.pc = "planned", NEW b \in DOMAIN repairer.plan PROVE PlannedOf(b)'
    <2>1. PlannedOf(b) /\ b \in Cases
        BY <1>4 DEF Planned, RepairTyped
    <2>2. CASE b # a
        BY <1>1, <2>1, <2>2 DEF PlannedOf, Silent
    <2>3. CASE b = a
        <3>1. PICK old : old = repairer.plan[a].row
            OBVIOUS
        <3>2. old.rv \in Nat /\ old.jv \in Nat /\ Later(old, rows[a])
            BY <2>1, <2>3, <3>1 DEF PlannedOf
        <3>3. /\ rows[a].rv \in Nat /\ rows[a].jv \in Nat /\ new.rv \in Nat /\ new.jv \in Nat
            BY <1>1 DEF CaseRow
        <3>4. PICK mid : mid = rows[a]
            OBVIOUS
        <3>5. Later(old, new)
            BY <3>2, <3>3, <3>4, LaterTransitive
        <3> QED
            BY <1>1, <2>1, <2>3, <3>1, <3>5 DEF PlannedOf, Silent
    <2> QED
        BY <2>2, <2>3
<1> QED
    BY <1>2, <1>3, <1>4 DEF Planned

LEMMA RuntimeWrites ==
    ASSUME RepairInv, NEW a \in Cases, NEW r \in CaseRow, Writes(a, r), Later(rows[a], r),
           r.state = "lost" => rows[a].state = "lost",
           r.digest = "admin" => rows[a].digest = "admin",
           rows[a].state = "cancelled" /\ rows[a].reservation = "released" =>
              r.state = "cancelled" /\ r.reservation = "released"
    PROVE  RepairInv'
<1> USE DEF RepairInv
<1>1. PICK by \in {"runtime", "repair", "cancel"} : by = "runtime"
    OBVIOUS
<1>2. PICK new : new = [r EXCEPT !.by = by]
    OBVIOUS
<1>3. new \in CaseRow /\ new.by = by
    BY <1>2 DEF CaseRow
<1>4. /\ new.state = r.state /\ new.digest = r.digest /\ new.resolution = r.resolution
      /\ new.reservation = r.reservation /\ new.rv = r.rv /\ new.jv = r.jv
    BY <1>2 DEF CaseRow
<1>5. /\ rows' = [rows EXCEPT ![a] = new]
      /\ UNCHANGED <<unit, result, backup, repairer, canceller, unlooked>>
    BY <1>1, <1>2 DEF Writes
<1>6. Later(rows[a], new)
    BY <1>4 DEF Later
<1>7. RepairInv /\ RepairTyped
    OBVIOUS
<1>8. LostIsGone' /\ AdminIsSilent' /\ Planned'
    <2> HIDE DEF RepairInv
    <2> QED
        BY <1>3, <1>4, <1>5, <1>6, <1>7, RowKeeps
<1>9. RepairTyped'
    BY <1>3, <1>5, RowsMove DEF RepairTyped
<1>10. Cancelling'
    <2> SUFFICES ASSUME canceller.pc # "idle" PROVE CancellingOf(canceller.of)'
        BY <1>5 DEF Cancelling
    <2>1. PICK c \in Cases : c = canceller.of
        BY DEF RepairTyped
    <2>2. CancellingOf(c)
        BY <2>1 DEF Cancelling
    <2>3. /\ rows'[a] = new /\ \A b \in Cases : b # a => rows'[b] = rows[b]
        BY <1>3, <1>5, RowsMove
    <2>4. CancellingOf(c)'
        BY <1>1, <1>3, <1>4, <1>5, <2>2, <2>3 DEF CancellingOf, Silent
    <2> QED
        BY <1>5, <2>1, <2>4
<1> QED
    BY <1>8, <1>9, <1>10

LEMMA BindIdentityKeeps ==
    ASSUME RepairInv, NEW a \in Cases, BindIdentity(a)
    PROVE  RepairInv'
<1>1. rows[a] \in CaseRow /\ rows[a].state = "starting"
    BY DEF RepairInv, RepairTyped, BindIdentity
<1>2. PICK state \in OpenStates \cup ClosedStates, bound \in BOOLEAN : state = "running" /\ bound = TRUE
    BY Zenon DEF OpenStates
<1>3. PICK rv \in Nat : rv = rows[a].rv + 1
    BY <1>1 DEF CaseRow
<1>4. PICK r : r = [rows[a] EXCEPT !.state = state, !.bound = bound, !.rv = rv]
    OBVIOUS
<1>5. r \in CaseRow
    BY <1>1, <1>4 DEF CaseRow
<1>6. r.state = state /\ r.digest = rows[a].digest /\ r.rv = rv /\ r.jv = rows[a].jv
    BY <1>1, <1>4 DEF CaseRow
<1>7. Writes(a, r)
    BY <1>2, <1>3, <1>4 DEF BindIdentity
<1>8. Later(rows[a], r)
    BY <1>1, <1>3, <1>6 DEF Later, CaseRow
<1> QED
    BY <1>1, <1>2, <1>5, <1>6, <1>7, <1>8, RuntimeWrites

LEMMA CommitRunnerResultKeeps ==
    ASSUME RepairInv, NEW a \in Cases, CommitRunnerResult(a)
    PROVE  RepairInv'
<1>1. rows[a] \in CaseRow /\ rows[a].state \in OpenStates
    BY DEF RepairInv, RepairTyped, CommitRunnerResult
<1>2. PICK state \in ClosedStates : state = "succeeded"
    BY DEF ClosedStates, RunnerStates
<1>3. PICK digest \in {"control", "runner", "admin", Nothing} : digest = "runner"
    OBVIOUS
<1>4. PICK current \in BOOLEAN : current = FALSE
    OBVIOUS
<1>5. PICK reservation \in {"active", "held_orphaned", "released"} : reservation = "released"
    OBVIOUS
<1>6. PICK rv \in Nat, jv \in Nat : rv = rows[a].rv + 1 /\ jv = rows[a].jv + 1
    BY <1>1 DEF CaseRow
<1>7. PICK r : r = [rows[a] EXCEPT !.state = state, !.digest = digest, !.resolution = state,
                        !.current = current, !.reservation = reservation, !.rv = rv, !.jv = jv]
    OBVIOUS
<1>8. r \in CaseRow
    BY <1>1, <1>7 DEF CaseRow
<1>9. r.state = state /\ r.digest = digest /\ r.rv = rv /\ r.jv = jv
    BY <1>1, <1>7 DEF CaseRow
<1>10. Writes(a, r)
    BY <1>2, <1>3, <1>4, <1>5, <1>6, <1>7 DEF CommitRunnerResult
<1>11. Later(rows[a], r)
    BY <1>1, <1>6, <1>9 DEF Later, CaseRow
<1>12. rows[a].state # "cancelled" /\ r.state # "lost" /\ r.digest # "admin"
    BY <1>1, <1>2, <1>3, <1>9 DEF OpenStates
<1> QED
    BY <1>8, <1>10, <1>11, <1>12, RuntimeWrites

LEMMA RecoverOrphanedKeeps ==
    ASSUME RepairInv, NEW a \in Cases, RecoverOrphanedTerminal(a)
    PROVE  RepairInv'
<1>1. rows[a] \in CaseRow /\ rows[a].state = "orphaned"
    BY DEF RepairInv, RepairTyped, RecoverOrphanedTerminal
<1>2. PICK state \in ClosedStates : state = "succeeded"
    BY DEF ClosedStates, RunnerStates
<1>3. PICK digest \in {"control", "runner", "admin", Nothing} : digest = "runner"
    OBVIOUS
<1>4. PICK reservation \in {"active", "held_orphaned", "released"} : reservation = "released"
    OBVIOUS
<1>5. PICK rv \in Nat, jv \in Nat : rv = rows[a].rv + 1 /\ jv = rows[a].jv + 1
    BY <1>1 DEF CaseRow
<1>6. PICK r : r = [rows[a] EXCEPT !.state = state, !.digest = digest, !.resolution = state,
                        !.reservation = reservation, !.rv = rv, !.jv = jv]
    OBVIOUS
<1>7. r \in CaseRow
    BY <1>1, <1>6 DEF CaseRow
<1>8. r.state = state /\ r.digest = digest /\ r.rv = rv /\ r.jv = jv
    BY <1>1, <1>6 DEF CaseRow
<1>9. Writes(a, r)
    BY <1>2, <1>3, <1>4, <1>5, <1>6 DEF RecoverOrphanedTerminal
<1>10. Later(rows[a], r)
    BY <1>1, <1>5, <1>8 DEF Later, CaseRow
<1>11. rows[a].state # "cancelled" /\ r.state # "lost" /\ r.digest # "admin"
    BY <1>1, <1>2, <1>3, <1>8
<1> QED
    BY <1>7, <1>9, <1>10, <1>11, RuntimeWrites

LEMMA TargetIsReservation ==
    ASSUME NEW state
    PROVE  /\ ReservationTarget(state) \in {"active", "held_orphaned", "released"}
           /\ state = "cancelled" => ReservationTarget(state) = "released"
BY DEF ReservationTarget

LEMMA ConvergeReservationKeeps ==
    ASSUME RepairInv, NEW a \in Cases, ConvergeTerminalReservation(a)
    PROVE  RepairInv'
<1>1. rows[a] \in CaseRow
    BY DEF RepairInv, RepairTyped
<1>2. PICK reservation \in {"active", "held_orphaned", "released"} :
         reservation = ReservationTarget(rows[a].state)
    BY TargetIsReservation
<1>3. PICK r : r = [rows[a] EXCEPT !.reservation = reservation]
    OBVIOUS
<1>4. r \in CaseRow
    BY <1>1, <1>3 DEF CaseRow
<1>5. /\ r.state = rows[a].state /\ r.digest = rows[a].digest /\ r.resolution = rows[a].resolution
      /\ r.rv = rows[a].rv /\ r.jv = rows[a].jv /\ r.reservation = reservation
    BY <1>1, <1>3 DEF CaseRow
<1>6. Writes(a, r)
    BY <1>2, <1>3 DEF ConvergeTerminalReservation
<1>7. Later(rows[a], r)
    BY <1>1, <1>5 DEF Later, CaseRow
<1>8. rows[a].state = "cancelled" => reservation = "released"
    BY <1>2, TargetIsReservation
<1> QED
    BY <1>4, <1>5, <1>6, <1>7, <1>8, RuntimeWrites

LEMMA FlagKeeps ==
    ASSUME RepairInv, NEW a \in Cases, NEW flag \in BOOLEAN, Writes(a, [rows[a] EXCEPT !.flag = flag])
    PROVE  RepairInv'
<1>1. rows[a] \in CaseRow
    BY DEF RepairInv, RepairTyped
<1>2. PICK r : r = [rows[a] EXCEPT !.flag = flag]
    OBVIOUS
<1>3. r \in CaseRow
    BY <1>1, <1>2 DEF CaseRow
<1>4. /\ r.state = rows[a].state /\ r.digest = rows[a].digest /\ r.resolution = rows[a].resolution
      /\ r.rv = rows[a].rv /\ r.jv = rows[a].jv /\ r.reservation = rows[a].reservation
    BY <1>1, <1>2 DEF CaseRow
<1>5. Writes(a, r)
    BY <1>2
<1>6. Later(rows[a], r)
    BY <1>1, <1>4 DEF Later, CaseRow
<1> QED
    BY <1>3, <1>4, <1>5, <1>6, RuntimeWrites

LEMMA RecordFailureKeeps ==
    ASSUME RepairInv, NEW a \in Cases, RecordReconciliationFailure(a)
    PROVE  RepairInv'
<1>1. PICK flag \in BOOLEAN : flag = TRUE
    OBVIOUS
<1>2. Writes(a, [rows[a] EXCEPT !.flag = flag])
    BY <1>1 DEF RecordReconciliationFailure
<1> QED
    BY <1>2, FlagKeeps

LEMMA ClearFailureKeeps ==
    ASSUME RepairInv, NEW a \in Cases, ClearReconciliationFailure(a)
    PROVE  RepairInv'
<1>1. PICK flag \in BOOLEAN : flag = FALSE
    OBVIOUS
<1>2. Writes(a, [rows[a] EXCEPT !.flag = flag])
    BY <1>1 DEF ClearReconciliationFailure
<1> QED
    BY <1>2, FlagKeeps

-----------------------------------------------------------------------------
(* The host.                                                               *)

\* The host never breaks a silence.
LEMMA HostKeeps ==
    ASSUME RepairInv, UNCHANGED <<rows, backup, repairer, canceller, unlooked>>,
           unit' \in [Cases -> Units], result' \in [Cases -> RepairResults],
           \A b \in Cases : unit[b] = "gone" => unit'[b] = "gone" /\ result'[b] = result[b]
    PROVE  RepairInv'
<1> USE DEF RepairInv
<1>1. RepairTyped'
    BY DEF RepairTyped
<1>2. \A b \in Cases : Silent(b) => Silent(b)'
    BY DEF Silent
<1>3. LostIsGone' /\ AdminIsSilent'
    BY <1>2 DEF LostIsGone, AdminIsSilent
<1>4. ASSUME repairer.pc = "planned", NEW b \in DOMAIN repairer.plan PROVE PlannedOf(b)'
    <2>1. PlannedOf(b) /\ b \in Cases
        BY <1>4 DEF Planned, RepairTyped
    <2> QED
        BY <1>2, <2>1 DEF PlannedOf
<1>5. Cancelling'
    <2> SUFFICES ASSUME canceller.pc # "idle" PROVE CancellingOf(canceller.of)'
        BY DEF Cancelling
    <2>1. PICK c \in Cases : c = canceller.of
        BY DEF RepairTyped
    <2>2. CancellingOf(c)
        BY <2>1 DEF Cancelling
    <2>3. CancellingOf(c)'
        BY <1>2, <2>2 DEF CancellingOf
    <2> QED
        BY <2>1, <2>3
<1> QED
    BY <1>1, <1>3, <1>4, <1>5 DEF Planned

LEMMA RunnerWritesResultKeeps ==
    ASSUME RepairInv, NEW a \in Cases, RunnerWritesResult(a)
    PROVE  RepairInv'
<1>1. PICK file \in RepairResults : result' = [result EXCEPT ![a] = file]
    BY DEF RunnerWritesResult
<1>2. unit[a] # "gone" /\ UNCHANGED <<rows, unit, backup, repairer, canceller, unlooked>>
    BY DEF RunnerWritesResult
<1>3. unit' \in [Cases -> Units] /\ result \in [Cases -> RepairResults]
    BY <1>2 DEF RepairInv, RepairTyped
<1> QED
    BY <1>1, <1>2, <1>3, HostKeeps

LEMMA UnitStopsKeeps ==
    ASSUME RepairInv, NEW a \in Cases, UnitStops(a)
    PROVE  RepairInv'
<1>1. PICK next \in Units : next = IF unit[a] = "active" THEN "deactivating" ELSE "gone"
    BY DEF Units
<1>2. /\ unit[a] # "gone" /\ unit' = [unit EXCEPT ![a] = next]
      /\ UNCHANGED <<rows, result, backup, repairer, canceller, unlooked>>
    BY <1>1 DEF UnitStops
<1>3. unit \in [Cases -> Units] /\ result' \in [Cases -> RepairResults]
    BY <1>2 DEF RepairInv, RepairTyped
<1> QED
    BY <1>1, <1>2, <1>3, HostKeeps

-----------------------------------------------------------------------------
(* cancel-stale: it looks at the tree, commits the intent, and looks again. *)

LEMMA CancelMoves ==
    ASSUME RepairInv, UNCHANGED <<rows, unit, result, backup, repairer>>,
           unlooked \subseteq unlooked', unlooked' \subseteq Cases, canceller' \in CancelRow,
           canceller'.pc # "idle" => canceller'.of \in Cases, Cancelling'
    PROVE  RepairInv'
<1> USE DEF RepairInv
<1>1. RepairTyped'
    BY DEF RepairTyped
<1>2. LostIsGone' /\ AdminIsSilent'
    BY DEF LostIsGone, AdminIsSilent, Silent
<1>3. Planned'
    BY DEF Planned, PlannedOf, Silent
<1> QED
    BY <1>1, <1>2, <1>3

LEMMA CancelGoto ==
    ASSUME RepairTyped, NEW pc \in {"idle", "probe", "request", "reread", "reprobe", "commit", "clear"},
           Cancel(pc)
    PROVE  /\ canceller' \in CancelRow /\ canceller'.pc = pc
           /\ canceller'.of = canceller.of /\ canceller'.rv = canceller.rv
BY DEF RepairTyped, CancelRow, Cancel

LEMMA CancelRefusedKeeps ==
    ASSUME RepairInv, CancelRefused
    PROVE  RepairInv'
<1>1. /\ canceller' = Uncancelled
      /\ UNCHANGED <<rows, unit, result, backup, repairer, unlooked>>
    BY DEF CancelRefused
<1>2. Uncancelled \in CancelRow /\ Uncancelled.pc = "idle"
    BY DEF Uncancelled, CancelRow
<1>3. Cancelling'
    BY <1>1, <1>2 DEF Cancelling
<1>4. unlooked \subseteq unlooked' /\ unlooked' \subseteq Cases
    BY <1>1 DEF RepairInv, RepairTyped
<1> QED
    BY <1>1, <1>2, <1>3, <1>4, CancelMoves

LEMMA BeginStaleCancelKeeps ==
    ASSUME RepairInv, NEW a \in Cases, BeginStaleCancel(a)
    PROVE  RepairInv'
<1>1. /\ canceller' = [pc |-> "probe", of |-> a, rv |-> 0]
      /\ UNCHANGED <<rows, unit, result, backup, repairer, unlooked>>
    BY DEF BeginStaleCancel
<1>2. canceller' \in CancelRow /\ canceller'.pc = "probe" /\ canceller'.of = a
    BY <1>1 DEF CancelRow
<1>3. Cancelling'
    BY <1>2 DEF Cancelling, CancellingOf
<1>4. unlooked \subseteq unlooked' /\ unlooked' \subseteq Cases
    BY <1>1 DEF RepairInv, RepairTyped
<1> QED
    BY <1>1, <1>2, <1>3, <1>4, CancelMoves

\* A look at the tree that lets the command on finds it gone, or is remembered
\* as one that could not see.
LEMMA ProbeKeeps ==
    ASSUME RepairInv, NEW a \in Cases, canceller.of = a, TargetAbsent(a), Probed(a),
           NEW pc \in {"request", "commit"}, Cancel(pc),
           canceller.pc = "probe" => pc = "request", canceller.pc = "reprobe" => pc = "commit",
           canceller.pc \in {"probe", "reprobe"},
           UNCHANGED <<rows, unit, result, backup, repairer>>
    PROVE  RepairInv'
<1>1. RepairTyped
    BY DEF RepairInv
<1>2. /\ canceller' \in CancelRow /\ canceller'.pc = pc /\ canceller'.of = a
    BY <1>1, CancelGoto
<1>3. unlooked \subseteq unlooked' /\ unlooked' \subseteq Cases /\ (unit[a] = "gone" \/ a \in unlooked')
    BY <1>1 DEF RepairTyped, Probed
<1>4. CancellingOf(a)
    BY DEF RepairInv, Cancelling
<1>5. CancellingOf(a)'
    BY <1>2, <1>3, <1>4 DEF CancellingOf, Silent
<1>6. Cancelling'
    BY <1>2, <1>5 DEF Cancelling
<1> QED
    BY <1>2, <1>3, <1>6, CancelMoves

LEMMA ProbeTargetKeeps ==
    ASSUME RepairInv, NEW a \in Cases, ProbeTarget(a)
    PROVE  RepairInv'
<1>1. CASE TargetAbsent(a)
    BY <1>1, ProbeKeeps DEF ProbeTarget
<1>2. CASE ~TargetAbsent(a)
    BY <1>2, CancelRefusedKeeps DEF ProbeTarget
<1> QED
    BY <1>1, <1>2

LEMMA ReprobeTargetKeeps ==
    ASSUME RepairInv, NEW a \in Cases, ReprobeTarget(a)
    PROVE  RepairInv'
<1>1. CASE TargetAbsent(a)
    BY <1>1, ProbeKeeps DEF ReprobeTarget
<1>2. CASE ~TargetAbsent(a)
    BY <1>2, CancelRefusedKeeps DEF ReprobeTarget
<1> QED
    BY <1>1, <1>2

\* The second look at the bundle: with the tree gone, no result is none for ever.
LEMMA RereadTargetKeeps ==
    ASSUME RepairInv, NEW a \in Cases, RereadTarget(a)
    PROVE  RepairInv'
<1>1. canceller.pc = "reread" /\ canceller.of = a
    BY DEF RereadTarget
<1>2. CASE CancelRefused
    BY <1>2, CancelRefusedKeeps
<1>3. CASE /\ result[a] = "none"
           /\ canceller' = [canceller EXCEPT !.pc = "reprobe", !.rv = rows[a].rv]
           /\ UNCHANGED <<rows, unit, result, backup, repairer, unlooked>>
    <2>1. PICK pc \in {"idle", "probe", "request", "reread", "reprobe", "commit", "clear"} : pc = "reprobe"
        OBVIOUS
    <2>2. canceller \in CancelRow /\ rows[a].rv \in Nat /\ unlooked \subseteq Cases
        BY DEF RepairInv, RepairTyped, CaseRow
    <2>3. canceller' = [canceller EXCEPT !.pc = pc, !.rv = rows[a].rv]
        BY <1>3, <2>1
    <2>4. canceller' \in CancelRow /\ canceller'.pc = pc /\ canceller'.of = a
        BY <1>1, <2>2, <2>3 DEF CancelRow
    <2>5. CancellingOf(a)
        BY <1>1 DEF RepairInv, Cancelling
    <2>6. CancellingOf(a)'
        BY <1>1, <1>3, <2>1, <2>4, <2>5 DEF CancellingOf, Silent
    <2>7. Cancelling'
        BY <2>4, <2>6 DEF Cancelling
    <2> QED
        BY <1>3, <2>2, <2>4, <2>7, CancelMoves
<1> QED
    BY <1>2, <1>3 DEF RereadTarget

\* A step of the command that writes its target's row.
LEMMA CancelWrites ==
    ASSUME RepairInv, NEW a \in Cases, NEW new \in CaseRow, rows' = [rows EXCEPT ![a] = new],
           Later(rows[a], new), UNCHANGED <<unit, result, backup, repairer, unlooked>>,
           new.state = "lost" => rows[a].state = "lost",
           new.digest = "admin" => rows[a].digest = "admin" \/ Silent(a) \/ a \in unlooked,
           canceller' \in CancelRow, canceller'.pc # "idle" => canceller'.of \in Cases, Cancelling'
    PROVE  RepairInv'
<1>1. LostIsGone' /\ AdminIsSilent' /\ Planned'
    BY RowKeeps
<1>2. RepairTyped
    BY DEF RepairInv
<1>3. RepairTyped'
    BY <1>2, RowsMove DEF RepairTyped
<1> QED
    BY <1>1, <1>3 DEF RepairInv

LEMMA RequestStaleCancelKeeps ==
    ASSUME RepairInv, NEW a \in Cases, RequestStaleCancel(a)
    PROVE  RepairInv'
<1>1. canceller.pc = "request" /\ canceller.of = a
    BY DEF RequestStaleCancel
<1>2. RepairTyped /\ rows[a] \in CaseRow /\ rows \in [Cases -> CaseRow] /\ unlooked \subseteq Cases
    BY DEF RepairInv, RepairTyped
<1>3. unit[a] = "gone" \/ a \in unlooked
    BY <1>1 DEF RepairInv, Cancelling, CancellingOf
<1>4. CASE CancelRefused
    BY <1>4, CancelRefusedKeeps
<1>5. ASSUME Cancel("reread"), UNCHANGED <<unit, unlooked>>
      PROVE  canceller' \in CancelRow /\ canceller'.of = a /\ Cancelling'
    <2>1. canceller' \in CancelRow /\ canceller'.pc = "reread" /\ canceller'.of = a
        BY <1>1, <1>2, <1>5, CancelGoto
    <2>2. CancellingOf(a)'
        BY <1>3, <1>5, <2>1 DEF CancellingOf
    <2> QED
        BY <2>1, <2>2 DEF Cancelling
<1>6. CASE Cancel("reread") /\ UNCHANGED <<rows, unit, result, backup, repairer, unlooked>>
    BY <1>2, <1>5, <1>6, CancelMoves
<1>7. CASE /\ rows' = [rows EXCEPT ![a].jv = @ + 1,
                            ![a].rv = IF rows[a].state = "stopping" THEN @ ELSE @ + 1,
                            ![a].state = "stopping", ![a].by = "runtime"]
           /\ Cancel("reread") /\ UNCHANGED <<unit, result, backup, repairer, unlooked>>
    <2>1. PICK jv \in Nat : jv = rows[a].jv + 1
        BY <1>2 DEF CaseRow
    <2>2. PICK rv \in Nat : rv = IF rows[a].state = "stopping" THEN rows[a].rv ELSE rows[a].rv + 1
        BY <1>2 DEF CaseRow
    <2>3. PICK state \in OpenStates : state = "stopping"
        BY DEF OpenStates
    <2>4. PICK by \in {"runtime", "repair", "cancel"} : by = "runtime"
        OBVIOUS
    <2>5. PICK new : new = [rows[a] EXCEPT !.jv = jv, !.rv = rv, !.state = state, !.by = by]
        OBVIOUS
    <2>6. new \in CaseRow
        BY <1>2, <2>5 DEF CaseRow
    <2>7. new.state = state /\ new.digest = rows[a].digest /\ new.jv = jv /\ new.rv = rv
        BY <1>2, <2>5 DEF CaseRow
    <2>8. rows' = [rows EXCEPT ![a] = new]
        <3>1. rows' = [rows EXCEPT ![a].jv = jv, ![a].rv = rv, ![a].state = state, ![a].by = by]
            BY <1>7, <2>1, <2>2, <2>3, <2>4
        <3>2. \A b \in Cases : rows'[b] = [rows EXCEPT ![a] = new][b]
            BY <1>2, <2>5, <3>1
        <3> QED
            BY <1>2, <2>5, <3>1, <3>2
    <2>9. Later(rows[a], new)
        BY <1>2, <2>1, <2>2, <2>7 DEF Later, CaseRow
    <2>10. new.state # "lost"
        BY <2>3, <2>7
    <2> QED
        BY <1>5, <1>7, <2>6, <2>7, <2>8, <2>9, <2>10, CancelWrites
<1> QED
    BY <1>4, <1>6, <1>7 DEF RequestStaleCancel

\* The verdict is given of a tree that is gone and a bundle without a result.
LEMMA CommitStaleCancelKeeps ==
    ASSUME RepairInv, NEW a \in Cases, CommitStaleCancel(a)
    PROVE  RepairInv'
<1>1. canceller.pc = "commit" /\ canceller.of = a
    BY DEF CommitStaleCancel
<1>2. RepairTyped /\ rows[a] \in CaseRow /\ rows \in [Cases -> CaseRow]
    BY DEF RepairInv, RepairTyped
<1>3. Silent(a) \/ a \in unlooked
    BY <1>1 DEF RepairInv, Cancelling, CancellingOf
<1>4. CASE CancelRefused
    BY <1>4, CancelRefusedKeeps
<1>5. CASE /\ rows' = [rows EXCEPT ![a].state = "cancelled", ![a].digest = "admin",
                            ![a].resolution = "cancelled", ![a].current = FALSE,
                            ![a].reservation = "released", ![a].rv = @ + 1,
                            ![a].jv = @ + 1, ![a].by = "cancel"]
           /\ Cancel("clear") /\ UNCHANGED <<unit, result, backup, repairer, unlooked>>
    <2>1. PICK jv \in Nat, rv \in Nat : jv = rows[a].jv + 1 /\ rv = rows[a].rv + 1
        BY <1>2 DEF CaseRow
    <2>2. PICK state \in ClosedStates : state = "cancelled"
        BY DEF ClosedStates
    <2>3. PICK digest \in {"control", "runner", "admin", Nothing} : digest = "admin"
        OBVIOUS
    <2>4. PICK current \in BOOLEAN : current = FALSE
        OBVIOUS
    <2>5. PICK reservation \in {"active", "held_orphaned", "released"} : reservation = "released"
        OBVIOUS
    <2>6. PICK by \in {"runtime", "repair", "cancel"} : by = "cancel"
        OBVIOUS
    <2>7. PICK new : new = [rows[a] EXCEPT !.state = state, !.digest = digest, !.resolution = state,
                                !.current = current, !.reservation = reservation, !.rv = rv, !.jv = jv,
                                !.by = by]
        OBVIOUS
    <2>8. new \in CaseRow
        BY <1>2, <2>7 DEF CaseRow
    <2>9. new.state = state /\ new.reservation = reservation /\ new.jv = jv /\ new.rv = rv /\ new.by = by
        BY <1>2, <2>7 DEF CaseRow
    <2>10. rows' = [rows EXCEPT ![a] = new]
        <3>1. rows' = [rows EXCEPT ![a].state = state, ![a].digest = digest, ![a].resolution = state,
                            ![a].current = current, ![a].reservation = reservation, ![a].rv = rv,
                            ![a].jv = jv, ![a].by = by]
            BY <1>5, <2>1, <2>2, <2>3, <2>4, <2>5, <2>6
        <3>2. \A b \in Cases : rows'[b] = [rows EXCEPT ![a] = new][b]
            BY <1>2, <2>7, <3>1
        <3> QED
            BY <1>2, <2>7, <3>1, <3>2
    <2>11. Later(rows[a], new)
        BY <1>2, <2>1, <2>9 DEF Later, CaseRow
    <2>12. new.state = "cancelled" /\ new.reservation = "released" /\ new.by # "repair"
        BY <2>2, <2>5, <2>6, <2>9
    <2>13. canceller' \in CancelRow /\ canceller'.pc = "clear" /\ canceller'.of = a
        BY <1>1, <1>2, <1>5, CancelGoto
    <2>14. rows'[a] = new
        BY <1>2, <2>8, <2>10, RowsMove
    <2>15. Cancelling'
        BY <2>12, <2>13, <2>14 DEF Cancelling, CancellingOf
    <2>16. new.state # "lost"
        BY <2>12
    <2> QED
        BY <1>3, <1>5, <2>8, <2>10, <2>11, <2>13, <2>15, <2>16, CancelWrites
<1> QED
    BY <1>4, <1>5 DEF CommitStaleCancel

LEMMA ClearStaleFlagKeeps ==
    ASSUME RepairInv, NEW a \in Cases, ClearStaleFlag(a)
    PROVE  RepairInv'
<1>1. rows[a] \in CaseRow
    BY DEF RepairInv, RepairTyped
<1>2. PICK flag \in BOOLEAN : flag = FALSE
    OBVIOUS
<1>3. PICK new : new = [rows[a] EXCEPT !.flag = flag]
    OBVIOUS
<1>4. new \in CaseRow
    BY <1>1, <1>3 DEF CaseRow
<1>5. /\ new.state = rows[a].state /\ new.digest = rows[a].digest /\ new.resolution = rows[a].resolution
      /\ new.rv = rows[a].rv /\ new.jv = rows[a].jv
    BY <1>1, <1>3 DEF CaseRow
<1>6. /\ rows' = [rows EXCEPT ![a] = new] /\ canceller' = Uncancelled
      /\ UNCHANGED <<unit, result, backup, repairer, unlooked>>
    BY <1>2, <1>3 DEF ClearStaleFlag
<1>7. Later(rows[a], new)
    BY <1>1, <1>5 DEF Later, CaseRow
<1>8. Uncancelled \in CancelRow /\ Uncancelled.pc = "idle"
    BY DEF Uncancelled, CancelRow
<1>9. Cancelling'
    BY <1>6, <1>8 DEF Cancelling
<1> QED
    BY <1>4, <1>5, <1>6, <1>7, <1>8, <1>9, CancelWrites

-----------------------------------------------------------------------------
(* apply: the plan and its one transaction.                                *)

LEMMA TakeBackupKeeps ==
    ASSUME RepairInv, TakeBackup
    PROVE  RepairInv'
<1> USE DEF RepairInv
<1>1. repairer.pc = "idle" /\ UNCHANGED <<rows, unit, result, repairer, canceller, unlooked>>
    BY DEF TakeBackup
<1>2. RepairTyped' /\ LostIsGone' /\ AdminIsSilent'
    BY <1>1 DEF RepairTyped, LostIsGone, AdminIsSilent, Silent
<1>3. Planned' /\ Cancelling'
    BY <1>1 DEF Planned, Cancelling, CancellingOf, Silent
<1> QED
    BY <1>2, <1>3

\* What the Doctor proposes, and of which rows.
LEMMA Proposals ==
    ASSUME NEW r, NEW file \in RepairResults
    PROVE  /\ ProposeRepair(r, file) \in {"review", "none", "release", "recover"}
           /\ ProposeRepair(r, file) = "release" => r.reservation # ReservationTarget(r.state)
<1>1. CASE file = "valid"
    BY <1>1 DEF ProposeRepair
<1>2. CASE file = "invalid"
    BY <1>2 DEF ProposeRepair
<1>3. CASE file = "none"
    BY <1>3 DEF ProposeRepair
<1> QED
    BY <1>1, <1>2, <1>3 DEF RepairResults

\* A case copies its row, up to what its fingerprint leaves out.
LEMMA CaseFields ==
    ASSUME RepairTyped, NEW a \in Cases
    PROVE  /\ DoctorCase(a).file = result[a]
           /\ DoctorCase(a).proposal = ProposeRepair(rows[a], result[a])
           /\ DoctorCase(a).row.state = rows[a].state
           /\ DoctorCase(a).row.digest = rows[a].digest
           /\ DoctorCase(a).row.resolution = rows[a].resolution
           /\ DoctorCase(a).row.reservation = rows[a].reservation
           /\ DoctorCase(a).row.rv = rows[a].rv /\ DoctorCase(a).row.jv = rows[a].jv
<1>1. rows[a] \in CaseRow
    BY DEF RepairTyped
<1>2. PICK flag \in BOOLEAN, by \in {"runtime", "repair", "cancel"} : flag = FALSE /\ by = "runtime"
    BY Zenon
<1>3. PICK row : row = [rows[a] EXCEPT !.flag = flag, !.bound = flag, !.by = by]
    OBVIOUS
<1>4. /\ row.state = rows[a].state /\ row.digest = rows[a].digest /\ row.resolution = rows[a].resolution
      /\ row.reservation = rows[a].reservation /\ row.rv = rows[a].rv /\ row.jv = rows[a].jv
    BY <1>1, <1>3 DEF CaseRow
<1>5. DoctorCase(a) = [row |-> row, file |-> result[a], proposal |-> ProposeRepair(rows[a], result[a])]
    BY <1>2, <1>3 DEF DoctorCase
<1> QED
    BY <1>4, <1>5

LEMMA BeginRepairKeeps ==
    ASSUME RepairInv, BeginRepair
    PROVE  RepairInv'
<1> USE DEF RepairInv
<1>1. PICK cases : cases = [a \in Violating(rows) |-> DoctorCase(a)]
    OBVIOUS
<1>2. /\ repairer' = [pc |-> "planned", plan |-> cases]
      /\ \A a \in DOMAIN cases :
            /\ cases[a].proposal # "none"
            /\ cases[a].proposal = "review" => Lost(cases[a])
      /\ VerifySnapshotCases(cases)
      /\ UNCHANGED <<rows, unit, result, backup, canceller, unlooked>>
    BY <1>1 DEF BeginRepair
<1>3. repairer'.pc = "planned" /\ repairer'.plan = cases
    BY <1>2
<1>4. DOMAIN cases \subseteq Cases /\ \A a \in DOMAIN cases : cases[a] = DoctorCase(a)
    BY <1>1 DEF Violating
<1>5. RepairTyped'
    BY <1>2, <1>3, <1>4 DEF RepairTyped
<1>6. LostIsGone' /\ AdminIsSilent' /\ Cancelling'
    BY <1>2 DEF LostIsGone, AdminIsSilent, Silent, Cancelling, CancellingOf
<1>7. ASSUME NEW a \in DOMAIN cases PROVE PlannedOf(a)'
    <2>1. PICK case : case = cases[a]
        OBVIOUS
    <2>2. a \in Cases /\ case = DoctorCase(a)
        BY <1>4, <2>1
    <2>3. /\ case.file = result[a] /\ case.proposal = ProposeRepair(rows[a], result[a])
          /\ case.row.state = rows[a].state /\ case.row.digest = rows[a].digest
          /\ case.row.resolution = rows[a].resolution /\ case.row.reservation = rows[a].reservation
          /\ case.row.rv = rows[a].rv /\ case.row.jv = rows[a].jv
        BY <2>2, CaseFields
    <2>4. backup[a][1] = Compared(case.row)
        BY <1>2, <2>1 DEF VerifySnapshotCases
    <2>5. case.row.rv \in Nat /\ case.row.jv \in Nat /\ Later(case.row, rows[a])
        <3>1. rows[a].rv \in Nat /\ rows[a].jv \in Nat
            BY <2>2 DEF RepairTyped, CaseRow
        <3> QED
            BY <2>3, <3>1 DEF Later
    <2>6. result[a] \in RepairResults
        BY <2>2 DEF RepairTyped
    <2>7. /\ case.proposal \in {"review", "none", "release", "recover"}
          /\ case.proposal = "release" => rows[a].reservation # ReservationTarget(rows[a].state)
        BY <2>3, <2>6, Proposals
    <2>8. case.proposal = "release" => case.row.reservation # ReservationTarget(case.row.state)
        BY <2>3, <2>7
    <2>9. case.proposal \notin {"release", "recover"} => Silent(a)
        <3>1. case.proposal \notin {"release", "recover"} => Lost(case)
            BY <1>2, <2>1, <2>7
        <3> QED
            BY <2>2, <2>3, <3>1 DEF Lost, LostIsGone, Silent
    <2> QED
        BY <1>2, <1>3, <2>1, <2>4, <2>5, <2>8, <2>9 DEF PlannedOf, Silent
<1>8. Planned'
    BY <1>3, <1>7 DEF Planned
<1> QED
    BY <1>5, <1>6, <1>8

LEMMA TerminalFields ==
    ASSUME NEW r \in CaseRow, NEW verdict, verdict.state \in ClosedStates,
           verdict.digest \in {"runner", "admin"}
    PROVE  /\ RepairTerminal(r, verdict) \in CaseRow
           /\ RepairTerminal(r, verdict).state = verdict.state
           /\ RepairTerminal(r, verdict).digest = verdict.digest
<1>1. PICK state \in ClosedStates : state = verdict.state
    OBVIOUS
<1>2. PICK digest \in {"control", "runner", "admin", Nothing} : digest = verdict.digest
    OBVIOUS
<1>3. PICK no \in BOOLEAN : no = FALSE
    OBVIOUS
<1>4. PICK reservation \in {"active", "held_orphaned", "released"} : reservation = "released"
    OBVIOUS
<1>5. PICK by \in {"runtime", "repair", "cancel"} : by = "repair"
    OBVIOUS
<1>6. PICK rv \in Nat, jv \in Nat : rv = r.rv + 1 /\ jv = r.jv + 1
    BY DEF CaseRow
<1>7. PICK new : new = [r EXCEPT !.state = state, !.digest = digest, !.resolution = state, !.current = no,
                            !.reservation = reservation, !.rv = rv, !.jv = jv, !.flag = no, !.by = by]
    OBVIOUS
<1>8. new \in CaseRow
    BY <1>7 DEF CaseRow
<1>9. new.state = state /\ new.digest = digest
    BY <1>7 DEF CaseRow
<1>10. RepairTerminal(r, verdict) = new
    BY <1>1, <1>2, <1>3, <1>4, <1>5, <1>6, <1>7 DEF RepairTerminal
<1> QED
    BY <1>1, <1>2, <1>8, <1>9, <1>10

LEMMA ReservationFields ==
    ASSUME NEW r \in CaseRow
    PROVE  /\ RepairReservation(r) \in CaseRow
           /\ RepairReservation(r).state = r.state /\ RepairReservation(r).digest = r.digest
<1>1. PICK reservation \in {"active", "held_orphaned", "released"} : reservation = ReservationTarget(r.state)
    BY TargetIsReservation
<1>2. PICK by \in {"runtime", "repair", "cancel"} : by = "repair"
    OBVIOUS
<1>3. PICK new : new = [r EXCEPT !.reservation = reservation, !.by = by]
    OBVIOUS
<1>4. new \in CaseRow /\ new.state = r.state /\ new.digest = r.digest
    BY <1>3 DEF CaseRow
<1>5. RepairReservation(r) = new
    BY <1>1, <1>2, <1>3 DEF RepairReservation
<1> QED
    BY <1>4, <1>5

\* A case whose operation applies is, in all that is compared, what it was.
LEMMA UnmovedIsCompared ==
    ASSUME RepairInv, repairer.pc = "planned", NEW a \in DOMAIN repairer.plan, Unmoved(a, repairer.plan[a])
    PROVE  /\ rows[a].state = repairer.plan[a].row.state
           /\ rows[a].reservation = repairer.plan[a].row.reservation
           /\ Compared(rows[a]) = Compared(repairer.plan[a].row)
<1>1. PICK row : row = repairer.plan[a].row
    OBVIOUS
<1>2. /\ rows[a].rv = row.rv /\ rows[a].jv = row.jv /\ rows[a].current = row.current
      /\ rows[a].reservation = row.reservation
    BY <1>1 DEF Unmoved
<1>3. Later(row, rows[a])
    BY <1>1 DEF RepairInv, Planned, PlannedOf
<1>4. rows[a].state = row.state /\ rows[a].digest = row.digest /\ rows[a].resolution = row.resolution
    BY <1>2, <1>3 DEF Later
<1> QED
    BY <1>1, <1>2, <1>4 DEF Compared

LEMMA RepairBatchKeeps ==
    ASSUME RepairInv, RepairAdminBatch
    PROVE  RepairInv'
<1> USE DEF RepairInv
<1>1. /\ repairer.pc = "planned" /\ repairer' = Planless
      /\ UNCHANGED <<unit, result, backup, canceller, unlooked>>
    BY DEF RepairAdminBatch
<1>2. Planless.pc = "idle"
    BY DEF Planless
<1>3. PICK plan : plan = repairer.plan
    OBVIOUS
<1>4. DOMAIN plan \subseteq Cases
    BY <1>1, <1>3 DEF RepairTyped
<1>5. CASE rows' = rows
    <2>1. RepairTyped' /\ LostIsGone' /\ AdminIsSilent'
        BY <1>1, <1>2, <1>5 DEF RepairTyped, LostIsGone, AdminIsSilent, Silent
    <2>2. Planned' /\ Cancelling'
        BY <1>1, <1>2, <1>5 DEF Planned, Cancelling, CancellingOf, Silent
    <2> QED
        BY <2>1, <2>2
<1>6. CASE rows' = Repaired(plan) /\ \A a \in DOMAIN plan : OperationApplies(a, plan[a])
    <2>1. ASSUME NEW a \in Cases
          PROVE  /\ rows'[a] \in CaseRow
                 /\ rows'[a].state = "lost" => unit[a] = "gone"
                 /\ rows'[a].digest = "admin" => Silent(a) \/ a \in unlooked
        <3>1. rows[a] \in CaseRow
            BY DEF RepairTyped
        <3>2. CASE a \notin DOMAIN plan
            <4>1. rows'[a] = rows[a]
                BY <1>6, <3>2 DEF Repaired
            <4> QED
                BY <3>1, <4>1 DEF LostIsGone, AdminIsSilent
        <3>3. CASE a \in DOMAIN plan /\ plan[a].proposal = "release"
            <4>1. rows'[a] = RepairReservation(rows[a])
                BY <1>6, <3>3 DEF Repaired
            <4>2. /\ rows'[a] \in CaseRow /\ rows'[a].state = rows[a].state
                  /\ rows'[a].digest = rows[a].digest
                BY <3>1, <4>1, ReservationFields
            <4> QED
                BY <4>2 DEF LostIsGone, AdminIsSilent
        <3>4. CASE a \in DOMAIN plan /\ plan[a].proposal # "release"
            <4>1. rows'[a] = RepairTerminal(rows[a], Verdict(plan[a]))
                BY <1>6, <3>4 DEF Repaired
            <4>2. PICK verdict : verdict = Verdict(plan[a])
                OBVIOUS
            <4>3. CASE plan[a].proposal = "recover"
                <5>1. verdict.state = "succeeded" /\ verdict.digest = "runner"
                    BY <4>2, <4>3 DEF Verdict, RunnerVerdict
                <5>2. verdict.state \in ClosedStates /\ verdict.digest \in {"runner", "admin"}
                    BY <5>1 DEF ClosedStates, RunnerStates
                <5>3. rows'[a] \in CaseRow /\ rows'[a].state = verdict.state /\ rows'[a].digest = verdict.digest
                    BY <3>1, <4>1, <4>2, <5>2, TerminalFields
                <5> QED
                    BY <5>1, <5>3
            <4>4. CASE plan[a].proposal # "recover"
                <5>1. verdict.state = "lost" /\ verdict.digest = "admin"
                    BY <4>2, <4>4 DEF Verdict, FinalLost
                <5>2. verdict.state \in ClosedStates /\ verdict.digest \in {"runner", "admin"}
                    BY <5>1 DEF ClosedStates
                <5>3. rows'[a] \in CaseRow
                    BY <3>1, <4>1, <4>2, <5>2, TerminalFields
                <5>4. Silent(a)
                    BY <1>1, <1>3, <3>4, <4>4 DEF Planned, PlannedOf
                <5> QED
                    BY <5>3, <5>4 DEF Silent
            <4> QED
                BY <4>3, <4>4
        <3> QED
            BY <3>2, <3>3, <3>4
    <2>2. rows' \in [Cases -> CaseRow]
        <3>1. rows' = [a \in Cases |-> rows'[a]]
            BY <1>6 DEF Repaired
        <3> QED
            BY <2>1, <3>1
    <2>3. RepairTyped'
        BY <1>1, <1>2, <2>2 DEF RepairTyped
    <2>4. LostIsGone' /\ AdminIsSilent' /\ Planned'
        BY <1>1, <1>2, <2>1 DEF LostIsGone, AdminIsSilent, Silent, Planned
    <2>5. Cancelling'
        <3> SUFFICES ASSUME canceller.pc # "idle" PROVE CancellingOf(canceller.of)'
            BY <1>1 DEF Cancelling
        <3>1. PICK c \in Cases : c = canceller.of
            BY DEF RepairTyped
        <3>2. CancellingOf(c)
            BY <3>1 DEF Cancelling
        <3>3. canceller.pc = "clear" => c \notin DOMAIN plan
            <4> SUFFICES ASSUME canceller.pc = "clear", c \in DOMAIN plan PROVE FALSE
                OBVIOUS
            <4>1. rows[c].state = "cancelled" /\ rows[c].reservation = "released"
                BY <3>2 DEF CancellingOf
            <4>2. OperationApplies(c, plan[c])
                BY <1>6
            <4>3. plan[c].proposal = "release" /\ Unmoved(c, plan[c])
                BY <4>1, <4>2 DEF OperationApplies, TerminalAllowed
            <4>4. /\ rows[c].state = plan[c].row.state /\ rows[c].reservation = plan[c].row.reservation
                <5>1. RepairInv
                    OBVIOUS
                <5> HIDE DEF RepairInv
                <5> QED
                    BY <1>1, <1>3, <4>3, <5>1, UnmovedIsCompared
            <4>5. plan[c].row.reservation # ReservationTarget(plan[c].row.state)
                BY <1>1, <1>3, <4>3 DEF Planned, PlannedOf
            <4> QED
                BY <4>1, <4>4, <4>5, TargetIsReservation
        <3>4. canceller.pc = "clear" => rows'[c] = rows[c]
            BY <1>6, <3>3 DEF Repaired
        <3>5. CancellingOf(c)'
            BY <1>1, <3>2, <3>4 DEF CancellingOf, Silent
        <3> QED
            BY <1>1, <3>1, <3>5
    <2> QED
        BY <2>3, <2>4, <2>5
<1> QED
    BY <1>3, <1>5, <1>6 DEF RepairAdminBatch

-----------------------------------------------------------------------------
(* The repair, proved.                                                     *)

LEMMA UnresolvedRow ==
    ASSUME NEW state \in OpenStates, NEW flag \in BOOLEAN, NEW bound \in BOOLEAN
    PROVE  /\ Unresolved(state, flag, bound) \in CaseRow
           /\ Unresolved(state, flag, bound).state = state
           /\ Unresolved(state, flag, bound).digest = Nothing
<1>1. PICK yes \in BOOLEAN : yes = TRUE
    OBVIOUS
<1>2. PICK reservation \in {"active", "held_orphaned", "released"} : reservation = "active"
    OBVIOUS
<1>3. PICK by \in {"runtime", "repair", "cancel"} : by = "runtime"
    OBVIOUS
<1>4. Unresolved(state, flag, bound) =
         [state |-> state, digest |-> Nothing, resolution |-> Nothing, current |-> yes,
          reservation |-> reservation, rv |-> 0, jv |-> 0, flag |-> flag, bound |-> bound, by |-> by]
    BY <1>1, <1>2, <1>3 DEF Unresolved
<1> QED
    BY <1>4 DEF CaseRow

LEMMA ResolvedRow ==
    ASSUME NEW state \in ClosedStates, NEW digest \in {"control", Nothing}, NEW current \in BOOLEAN
    PROVE  /\ Resolved(state, digest, current, "active") \in CaseRow
           /\ Resolved(state, digest, current, "active").state = state
           /\ Resolved(state, digest, current, "active").digest = digest
<1>1. PICK yes \in BOOLEAN : yes = TRUE
    OBVIOUS
<1>2. PICK no \in BOOLEAN : no = FALSE
    OBVIOUS
<1>3. PICK reservation \in {"active", "held_orphaned", "released"} : reservation = "active"
    OBVIOUS
<1>4. PICK by \in {"runtime", "repair", "cancel"} : by = "runtime"
    OBVIOUS
<1>5. Resolved(state, digest, current, "active") =
         [state |-> state, digest |-> digest, resolution |-> state, current |-> current,
          reservation |-> reservation, rv |-> 0, jv |-> 0, flag |-> no, bound |-> yes, by |-> by]
    BY <1>1, <1>2, <1>3, <1>4 DEF Resolved
<1>6. digest \in {"control", "runner", "admin", Nothing}
    OBVIOUS
<1> QED
    BY <1>5, <1>6 DEF CaseRow

LEMMA ShapeRow ==
    ASSUME NEW shape \in Shapes
    PROVE  shape \in CaseRow /\ shape.digest # "admin"
<1>1. CASE shape = Unresolved("starting", TRUE, FALSE) \/ shape = Unresolved("running", TRUE, TRUE)
    <2>1. PICK state \in OpenStates, flag \in BOOLEAN, bound \in BOOLEAN : shape = Unresolved(state, flag, bound)
        BY <1>1, Zenon DEF OpenStates
    <2>2. shape \in CaseRow /\ shape.digest = Nothing
        BY <2>1, UnresolvedRow
    <2> QED
        BY <2>2, RepairAssumption
<1>2. CASE \/ shape = Resolved("lost", Nothing, TRUE, "active")
           \/ shape = Resolved("orphaned", "control", FALSE, "active")
           \/ shape = Resolved("failed", "control", FALSE, "active")
    <2>1. PICK state \in ClosedStates, digest \in {"control", Nothing}, current \in BOOLEAN :
             shape = Resolved(state, digest, current, "active")
        BY <1>2, Zenon DEF ClosedStates, RunnerStates
    <2>2. shape \in CaseRow /\ shape.digest = digest
        BY <2>1, ResolvedRow
    <2> QED
        BY <2>2, RepairAssumption
<1> QED
    BY <1>1, <1>2 DEF Shapes

LEMMA RepairStarts == RepairInit => RepairInv
<1> SUFFICES ASSUME RepairInit PROVE RepairInv
    OBVIOUS
<1>1. PICK shape \in [Cases -> {s \in Shapes : s.state \in Found}] :
         /\ rows = shape /\ unit \in [Cases -> Units] /\ result \in [Cases -> RepairResults]
         /\ \A a \in Cases : shape[a].state \in {"lost", "failed"} => unit[a] = "gone"
    BY DEF RepairInit
<1>2. repairer = Planless /\ canceller = Uncancelled /\ unlooked = {}
    BY DEF RepairInit
<1>3. \A a \in Cases : rows[a] \in CaseRow /\ rows[a].digest # "admin"
    BY <1>1, ShapeRow
<1>4. rows \in [Cases -> CaseRow]
    BY <1>1, <1>3
<1>5. Planless.pc = "idle" /\ Uncancelled.pc = "idle" /\ Uncancelled \in CancelRow
    BY DEF Planless, Uncancelled, CancelRow
<1>6. RepairTyped
    BY <1>1, <1>2, <1>4, <1>5 DEF RepairTyped
<1>7. LostIsGone /\ AdminIsSilent
    BY <1>1, <1>3 DEF LostIsGone, AdminIsSilent
<1>8. Planned /\ Cancelling
    BY <1>2, <1>5 DEF Planned, Cancelling
<1> QED
    BY <1>6, <1>7, <1>8 DEF RepairInv

LEMMA RepairKept == RepairInv /\ [RepairNext]_repairVars => RepairInv'
<1> SUFFICES ASSUME RepairInv, [RepairNext]_repairVars PROVE RepairInv'
    OBVIOUS
<1>1. CASE UNCHANGED repairVars
    BY <1>1 DEF repairVars, RepairInv, RepairTyped, LostIsGone, AdminIsSilent, Silent, Planned, PlannedOf,
       Cancelling, CancellingOf
<1>2. CASE TakeBackup \/ BeginRepair \/ RepairAdminBatch
    BY <1>2, TakeBackupKeeps, BeginRepairKeeps, RepairBatchKeeps
<1>3. ASSUME NEW a \in Cases, StaleCancel(a) PROVE RepairInv'
    BY <1>3, BeginStaleCancelKeeps, ProbeTargetKeeps, RequestStaleCancelKeeps, RereadTargetKeeps,
       ReprobeTargetKeeps, CommitStaleCancelKeeps, ClearStaleFlagKeeps DEF StaleCancel
<1>4. ASSUME NEW a \in Cases, Elsewhere(a) PROVE RepairInv'
    BY <1>4, BindIdentityKeeps, CommitRunnerResultKeeps, RecoverOrphanedKeeps, ConvergeReservationKeeps,
       RecordFailureKeeps, ClearFailureKeeps, RunnerWritesResultKeeps, UnitStopsKeeps DEF Elsewhere
<1> QED
    BY <1>1, <1>2, <1>3, <1>4 DEF RepairNext

\* The inductive invariant: what a plan rests on is tied to row versions, and a
\* verdict in the operator's name to a tree that is gone.
THEOREM RepairInvariant == RepairSpec => []RepairInv
<1>1. RepairInit => RepairInv
    BY RepairStarts
<1>2. RepairInv /\ [RepairNext]_repairVars => RepairInv'
    BY RepairKept
<1> QED
    BY <1>1, <1>2, PTL DEF RepairSpec

\* No verdict an operator gives stands over a Runner result, however the live
\* Runtime and the host interleave (cancel_stale_recovery_required_attempt,
\* repair_terminal_admin_transaction).
THEOREM RepairNoVerdict == RepairSpec => []NoVerdictOverResult
<1>1. RepairInv => NoVerdictOverResult
    BY DEF RepairInv, AdminIsSilent, Silent, NoVerdictOverResult
<1> QED
    BY <1>1, RepairInvariant, PTL

\* A repair changes only rows that are what the backup holds, and leaves no
\* violation (verify_snapshot_cases, repair_admin_batch).
THEOREM RepairBackedUp == RepairSpec => RepairFromBackup
<1>1. ASSUME RepairInv, RepairNext, NEW a \in Cases, rows'[a] # rows[a], rows'[a].by = "repair"
      PROVE  backup[a][1] = Compared(rows[a]) /\ Violating(rows') = {}
    <2> USE <1>1
    <2>1. CASE RepairAdminBatch
        <3>1. repairer.pc = "planned"
            BY <2>1 DEF RepairAdminBatch
        <3>2. PICK plan : plan = repairer.plan
            OBVIOUS
        <3>3. rows' # rows
            OBVIOUS
        <3>4. /\ rows' = Repaired(plan) /\ Violating(Repaired(plan)) = {}
              /\ \A b \in DOMAIN plan : OperationApplies(b, plan[b])
            BY <2>1, <3>2, <3>3 DEF RepairAdminBatch
        <3>5. a \in DOMAIN plan
            BY <3>4 DEF Repaired
        <3>6. Unmoved(a, plan[a])
            BY <3>4, <3>5 DEF OperationApplies
        <3>7. Compared(rows[a]) = Compared(plan[a].row)
            BY <3>1, <3>2, <3>5, <3>6, UnmovedIsCompared
        <3>8. backup[a][1] = Compared(plan[a].row)
            BY <3>1, <3>2, <3>5 DEF RepairInv, Planned, PlannedOf
        <3>9. Violating(rows') = {}
            BY <3>4
        <3> QED
            BY <3>7, <3>8, <3>9
    <2>2. CASE TakeBackup \/ BeginRepair
        BY <2>2 DEF TakeBackup, BeginRepair
    <2>3. ASSUME NEW b \in Cases, StaleCancel(b) PROVE FALSE
        <3>1. rows \in [Cases -> CaseRow] /\ rows[b] \in CaseRow /\ rows' # rows
            BY DEF RepairInv, RepairTyped
        <3>2. RequestStaleCancel(b) \/ CommitStaleCancel(b) \/ ClearStaleFlag(b)
            BY <2>3, <3>1 DEF StaleCancel, BeginStaleCancel, ProbeTarget, RereadTarget, ReprobeTarget,
               CancelRefused
        <3>3. a = b
            BY <3>1, <3>2 DEF RequestStaleCancel, CommitStaleCancel, ClearStaleFlag, CancelRefused
        <3>4. CASE RequestStaleCancel(b)
            <4>1. rows'[b].by = "runtime"
                BY <3>1, <3>4 DEF RequestStaleCancel, CancelRefused, CaseRow
            <4> QED
                BY <3>3, <4>1
        <3>5. CASE CommitStaleCancel(b)
            <4>1. rows'[b].by = "cancel"
                BY <3>1, <3>5 DEF CommitStaleCancel, CancelRefused, CaseRow
            <4> QED
                BY <3>3, <4>1
        <3>6. CASE ClearStaleFlag(b)
            <4>1. rows'[b].by = rows[b].by
                BY <3>1, <3>6 DEF ClearStaleFlag, CaseRow
            <4>2. rows[b].by # "repair"
                BY <3>6 DEF ClearStaleFlag, RepairInv, Cancelling, CancellingOf
            <4> QED
                BY <3>3, <4>1, <4>2
        <3> QED
            BY <3>2, <3>4, <3>5, <3>6
    <2>4. ASSUME NEW b \in Cases, Elsewhere(b) PROVE FALSE
        <3>1. rows \in [Cases -> CaseRow] /\ rows' # rows
            BY DEF RepairInv, RepairTyped
        <3>2. rows[b] \in CaseRow
            BY <3>1
        <3>3. PICK r : Writes(b, r) /\ "by" \in DOMAIN r
            <4>1. "by" \in DOMAIN rows[b]
                BY <3>2 DEF CaseRow
            <4>2. CASE BindIdentity(b)
                <5>1. PICK r : r = [rows[b] EXCEPT !.state = "running", !.bound = TRUE, !.rv = @ + 1]
                    OBVIOUS
                <5>2. Writes(b, r)
                    BY <4>2, <5>1 DEF BindIdentity
                <5>3. DOMAIN r = DOMAIN rows[b]
                    BY <5>1
                <5> QED
                    BY <4>1, <5>2, <5>3
            <4>3. CASE CommitRunnerResult(b)
                <5>1. PICK r : r = [rows[b] EXCEPT !.state = "succeeded", !.digest = "runner",
                                                 !.resolution = "succeeded", !.current = FALSE,
                                                 !.reservation = "released", !.rv = @ + 1, !.jv = @ + 1]
                    OBVIOUS
                <5>2. Writes(b, r)
                    BY <4>3, <5>1 DEF CommitRunnerResult
                <5>3. DOMAIN r = DOMAIN rows[b]
                    BY <5>1
                <5> QED
                    BY <4>1, <5>2, <5>3
            <4>4. CASE RecoverOrphanedTerminal(b)
                <5>1. PICK r : r = [rows[b] EXCEPT !.state = "succeeded", !.digest = "runner",
                                                 !.resolution = "succeeded", !.reservation = "released",
                                                 !.rv = @ + 1, !.jv = @ + 1]
                    OBVIOUS
                <5>2. Writes(b, r)
                    BY <4>4, <5>1 DEF RecoverOrphanedTerminal
                <5>3. DOMAIN r = DOMAIN rows[b]
                    BY <5>1
                <5> QED
                    BY <4>1, <5>2, <5>3
            <4>5. CASE ConvergeTerminalReservation(b)
                <5>1. PICK r : r = [rows[b] EXCEPT !.reservation = ReservationTarget(rows[b].state)]
                    OBVIOUS
                <5>2. Writes(b, r)
                    BY <4>5, <5>1 DEF ConvergeTerminalReservation
                <5>3. DOMAIN r = DOMAIN rows[b]
                    BY <5>1
                <5> QED
                    BY <4>1, <5>2, <5>3
            <4>6. CASE RecordReconciliationFailure(b)
                <5>1. PICK r : r = [rows[b] EXCEPT !.flag = TRUE]
                    OBVIOUS
                <5>2. Writes(b, r)
                    BY <4>6, <5>1 DEF RecordReconciliationFailure
                <5>3. DOMAIN r = DOMAIN rows[b]
                    BY <5>1
                <5> QED
                    BY <4>1, <5>2, <5>3
            <4>7. CASE ClearReconciliationFailure(b)
                <5>1. PICK r : r = [rows[b] EXCEPT !.flag = FALSE]
                    OBVIOUS
                <5>2. Writes(b, r)
                    BY <4>7, <5>1 DEF ClearReconciliationFailure
                <5>3. DOMAIN r = DOMAIN rows[b]
                    BY <5>1
                <5> QED
                    BY <4>1, <5>2, <5>3
            <4>8. ~RunnerWritesResult(b) /\ ~UnitStops(b)
                BY <3>1 DEF RunnerWritesResult, UnitStops
            <4> QED
                BY <2>4, <4>2, <4>3, <4>4, <4>5, <4>6, <4>8, <4>7 DEF Elsewhere
        <3>4. rows' = [rows EXCEPT ![b] = [r EXCEPT !.by = "runtime"]]
            BY <3>3 DEF Writes
        <3>5. a = b /\ rows'[b] = [r EXCEPT !.by = "runtime"]
            BY <3>1, <3>4
        <3>6. [r EXCEPT !.by = "runtime"].by = "runtime"
            BY <3>3
        <3> QED
            BY <3>5, <3>6
    <2> QED
        BY <2>1, <2>2, <2>3, <2>4 DEF RepairNext
<1>2. RepairInv /\ [RepairNext]_repairVars =>
         [\A a \in Cases :
             (rows'[a] # rows[a] /\ rows'[a].by = "repair") =>
                 backup[a][1] = Compared(rows[a]) /\ Violating(rows') = {}]_repairVars
    BY <1>1 DEF repairVars
<1> QED
    BY <1>2, RepairInvariant, PTL DEF RepairSpec, RepairFromBackup

\* What a command holds names rows of the table.
HeldOK ==
    /\ backup = Nothing \/ DOMAIN backup = Cases
    /\ DOMAIN repairer.plan \subseteq Cases

\* The rows keep the shape of their tables, and a backup and a plan are about
\* the Attempts there are (TakeBackup, BeginRepair).
THEOREM RepairTypes == RepairSpec => []RepairTypeOK
<1>1. RepairInit => HeldOK
    BY DEF RepairInit, HeldOK, Planless
<1>2. HeldOK /\ [RepairNext]_repairVars => HeldOK'
    <2> SUFFICES ASSUME HeldOK, [RepairNext]_repairVars PROVE HeldOK'
        OBVIOUS
    <2>1. CASE UNCHANGED <<backup, repairer>>
        BY <2>1 DEF HeldOK
    <2>2. CASE TakeBackup
        BY <2>2 DEF TakeBackup, HeldOK
    <2>3. CASE BeginRepair
        <3>1. PICK cases : cases = [a \in Violating(rows) |-> DoctorCase(a)]
            OBVIOUS
        <3>2. DOMAIN cases \subseteq Cases
            BY <3>1 DEF Violating
        <3>3. repairer'.plan = cases /\ backup' = backup
            BY <2>3, <3>1 DEF BeginRepair
        <3> QED
            BY <3>2, <3>3 DEF HeldOK
    <2>4. CASE RepairAdminBatch
        BY <2>4 DEF RepairAdminBatch, HeldOK, Planless
    <2>5. ASSUME NEW a \in Cases, StaleCancel(a) PROVE UNCHANGED <<backup, repairer>>
        BY <2>5 DEF StaleCancel, BeginStaleCancel, ProbeTarget, RequestStaleCancel, RereadTarget,
           ReprobeTarget, CommitStaleCancel, ClearStaleFlag, CancelRefused
    <2>6. ASSUME NEW a \in Cases, Elsewhere(a) PROVE UNCHANGED <<backup, repairer>>
        BY <2>6 DEF Elsewhere, BindIdentity, CommitRunnerResult, RecoverOrphanedTerminal,
           ConvergeTerminalReservation, RecordReconciliationFailure, ClearReconciliationFailure,
           RunnerWritesResult, UnitStops, Writes
    <2> QED
        BY <2>1, <2>2, <2>3, <2>4, <2>5, <2>6 DEF RepairNext, repairVars
<1>3. RepairInv /\ HeldOK => RepairTypeOK
    BY DEF RepairInv, RepairTyped, HeldOK, RepairTypeOK, CancelRow
<1> QED
    BY <1>1, <1>2, <1>3, RepairInvariant, PTL DEF RepairSpec
=============================================================================
