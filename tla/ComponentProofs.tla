-------------------------- MODULE ComponentProofs --------------------------
(***************************************************************************)
(* The parts of the MCP server, for any number of calls, host files and    *)
(* open Attempts, and all the components side by side: what is proved of   *)
(* each of them alone holds of the composition that TLC checks.            *)
(***************************************************************************)
EXTENDS MCComponents, FileProofs, AttemptProofs, StorageProofs, OperatorProofs

-----------------------------------------------------------------------------
(* The ingress.  Only verified bytes reach an input authority.  The        *)
(* inductive invariant says where the verification of a staged source is   *)
(* remembered: a call about to publish holds good bytes of its own, and    *)
(* while a call is about to commit the shared source is good or has been   *)
(* taken away, never bad.                                                  *)


PublishesGood == \A c \in IngressCalls : CallAt(c, "publish") => ingress[c].part = "good"
CommitsVerified == \A c \in IngressCalls : CallAt(c, "commit") => stage # "bad"

IngressInv ==
    /\ IngressTypeOK
    /\ PublishesGood
    /\ CommitsVerified
    /\ IngestedBytesVerified

\* What a step does to the calls: one of them gets a new place and part.
IngressMoves(c, pc, part) ==
    /\ ingress' \in [IngressCalls -> [pc : Steps, file : HostFiles, part : FileBytes]]
    /\ \A d \in IngressCalls \ {c} : ingress'[d] = ingress[d]
    /\ ingress'[c].pc = pc /\ ingress'[c].part = part

\* The two ways in which the steps rewrite a call are moves.
LEMMA GotoMoves ==
    ASSUME IngressTypeOK, NEW c \in IngressCalls, NEW pc \in Steps,
           ingress' = [ingress EXCEPT ![c].pc = pc]
    PROVE  IngressMoves(c, pc, ingress[c].part)
  BY DEF IngressTypeOK, IngressMoves

LEMMA PartMoves ==
    ASSUME IngressTypeOK, NEW c \in IngressCalls, NEW pc \in Steps, NEW part \in FileBytes,
           \/ ingress' = [ingress EXCEPT ![c].pc = pc, ![c].part = part]
           \/ ingress' = [ingress EXCEPT ![c].part = part, ![c].pc = pc]
    PROVE  IngressMoves(c, pc, part)
  BY DEF IngressTypeOK, IngressMoves

\* The state a fresh server process starts in.
LEMMA RestingTyped ==
    /\ IngressResting \in [pc : Steps, file : HostFiles, part : FileBytes]
    /\ IngressResting.pc = "idle"
  <1>1. (CHOOSE f \in HostFiles : TRUE) \in HostFiles
    BY HostFilesAssumption
  <1>2. QED
    BY <1>1 DEF IngressResting, Steps, Over, FileBytes, NoBytes

LEMMA IngressInitial == IngressInit => IngressInv
  BY RestingTyped
     DEF IngressInit, IngressInv, IngressTypeOK, PublishesGood, CommitsVerified,
         IngestedBytesVerified, CallAt, FileBytes, NoBytes

\* A step of one call that leaves the shared bytes alone keeps the invariant
\* when the place it goes to is one the bytes justify.
LEMMA MoveStep ==
    ASSUME IngressInv, NEW c \in IngressCalls,
           NEW pc \in Steps, NEW part \in FileBytes, IngressMoves(c, pc, part),
           stage' \in FileBytes, stage' = "bad" => stage = "bad",
           authority' \in FileBytes, authority = "good" => authority' = "good",
           authority' # "bad",
           requestFile' \in {AbsentRequest} \cup {TornBy(d) : d \in IngressCalls}
                            \cup {RequestOf(h) : h \in HostFiles},
           pc = "publish" => part = "good",
           pc = "commit" => stage' # "bad",
           pc \in {"clean_stage", "clean_request", "answered"} => authority' = "good"
    PROVE  IngressInv'
  <1>1. IngressTypeOK'
    BY DEF IngressMoves, IngressTypeOK
  <1>2. /\ \A d \in IngressCalls \ {c} : ingress'[d] = ingress[d]
        /\ ingress'[c].pc = pc /\ ingress'[c].part = part
    BY DEF IngressMoves
  <1>3. PublishesGood'
    BY <1>2 DEF IngressInv, PublishesGood, CallAt
  <1>4. CommitsVerified'
    BY <1>2 DEF IngressInv, CommitsVerified, CallAt
  <1>5. IngestedBytesVerified'
    BY <1>2 DEF IngressInv, IngestedBytesVerified
  <1>6. QED
    BY <1>1, <1>3, <1>4, <1>5 DEF IngressInv

\* The same for a step that only moves its call on.
LEMMA GotoStep ==
    ASSUME IngressInv, NEW c \in IngressCalls, NEW pc \in Steps, CallGoto(c, pc),
           stage' \in FileBytes, stage' = "bad" => stage = "bad",
           authority' \in FileBytes, authority = "good" => authority' = "good",
           authority' # "bad",
           requestFile' \in {AbsentRequest} \cup {TornBy(d) : d \in IngressCalls}
                            \cup {RequestOf(h) : h \in HostFiles},
           pc # "publish",
           pc = "commit" => stage' # "bad",
           pc \in {"clean_stage", "clean_request", "answered"} => authority' = "good"
    PROVE  IngressInv'
  <1>1. IngressTypeOK /\ ingress[c].part \in FileBytes
    BY DEF IngressInv, IngressTypeOK
  <1>2. IngressMoves(c, pc, ingress[c].part)
    BY <1>1, GotoMoves DEF CallGoto
  <1>3. QED
    BY <1>1, <1>2, MoveStep

LEMMA IngressStep == IngressInv /\ [IngressNext]_ingressVars => IngressInv'
  <1> SUFFICES ASSUME IngressInv, [IngressNext]_ingressVars PROVE IngressInv'
    OBVIOUS
  <1> DEFINE Requests == {AbsentRequest} \cup {TornBy(d) : d \in IngressCalls}
                         \cup {RequestOf(h) : h \in HostFiles}
  <1>t. /\ IngressTypeOK /\ PublishesGood /\ CommitsVerified /\ IngestedBytesVerified
        /\ stage \in FileBytes /\ authority \in FileBytes /\ authority # "bad"
        /\ requestFile \in Requests
    BY DEF IngressInv, IngressTypeOK, IngestedBytesVerified
  <1>s. /\ {"idle", "answered", "refused", "request", "write", "reconcile", "check", "discard",
            "download", "publish", "commit", "recover", "build", "clean_stage",
            "clean_request"} = Steps
        /\ FileBytes = {"none", "good", "bad"} /\ NoBytes = "none"
    BY DEF Steps, Over, FileBytes, NoBytes
  <1>1. ASSUME NEW c \in IngressCalls, IngressCall(c) PROVE IngressInv'
    <2>c. /\ ingress[c].file \in HostFiles /\ ingress[c].part \in FileBytes
      BY <1>t DEF IngressTypeOK
    <2>1. CASE Ingest(c)
      <3>1. PICK f \in HostFiles :
              ingress' = [ingress EXCEPT ![c] = [pc |-> "request", file |-> f, part |-> NoBytes]]
        BY <2>1 DEF Ingest
      <3>2. "request" \in Steps /\ NoBytes \in FileBytes
        BY <1>s
      <3>3. UNCHANGED <<requestFile, stage, authority>>
        BY <2>1 DEF Ingest
      <3>4. IngressMoves(c, "request", NoBytes)
        BY <1>t, <3>1, <3>2 DEF IngressTypeOK, IngressMoves
      <3>5. QED
        BY <1>t, <3>2, <3>3, <3>4, MoveStep
    <2>2. CASE RetainRequest(c)
      <3>1. PICK pc \in {"write", "reconcile", "refused"} : CallGoto(c, pc)
        BY <2>2 DEF RetainRequest
      <3>2. requestFile' \in Requests /\ UNCHANGED <<stage, authority>>
        BY <1>t, <2>2 DEF RetainRequest
      <3>3. pc \in Steps /\ pc \notin {"publish", "commit", "clean_stage", "clean_request", "answered"}
        BY <1>s, <3>1
      <3>4. QED
        BY <1>t, <3>1, <3>2, <3>3, GotoStep
    <2>3. CASE WriteRequestFile(c)
      <3>1. PICK pc \in {"reconcile", "refused"} : CallGoto(c, pc)
        BY <2>3 DEF WriteRequestFile
      <3>2. requestFile' \in Requests /\ UNCHANGED <<stage, authority>>
        BY <1>t, <2>3, <2>c DEF WriteRequestFile
      <3>3. pc \in Steps /\ pc \notin {"publish", "commit", "clean_stage", "clean_request", "answered"}
        BY <1>s, <3>1
      <3>4. QED
        BY <1>t, <3>1, <3>2, <3>3, GotoStep
    <2>4. CASE ReconcileIngress(c)
      <3>1. PICK pc \in {"refused", "check", "build"} : CallGoto(c, pc)
        BY <2>4 DEF ReconcileIngress
      <3>2. UNCHANGED <<requestFile, stage, authority>>
        BY <2>4 DEF ReconcileIngress
      <3>3. pc \in Steps /\ pc \notin {"publish", "commit", "clean_stage", "clean_request", "answered"}
        BY <1>s, <3>1
      <3>4. QED
        BY <1>t, <3>1, <3>2, <3>3, GotoStep
    <2>5. CASE CheckStage(c)
      <3>1. PICK pc \in {"download", "commit", "discard"} :
              CallGoto(c, pc) /\ (pc = "commit" => stage = "good")
        BY <1>s, <1>t, <2>5 DEF CheckStage
      <3>2. UNCHANGED <<requestFile, stage, authority>>
        BY <2>5 DEF CheckStage
      <3>3. pc \in Steps /\ pc \notin {"publish", "clean_stage", "clean_request", "answered"}
        BY <1>s, <3>1
      <3>4. QED
        BY <1>t, <3>1, <3>2, <3>3, GotoStep
    <2>6. CASE DiscardStage(c)
      <3>1. /\ CallGoto(c, "download") /\ "download" \in Steps
            /\ stage' \in FileBytes /\ (stage' = "bad" => stage = "bad")
            /\ UNCHANGED <<requestFile, authority>>
        BY <1>s, <1>t, <2>6 DEF DiscardStage
      <3>2. QED
        BY <1>t, <3>1, GotoStep
    <2>7. CASE Download(c)
      <3>1. PICK pc \in {"publish", "refused"}, part \in FileBytes :
              /\ ingress' = [ingress EXCEPT ![c].pc = pc, ![c].part = part]
              /\ pc = "publish" => part = "good"
        BY <1>s, <2>7 DEF Download
      <3>2. UNCHANGED <<requestFile, stage, authority>> /\ pc \in Steps
            /\ pc \notin {"commit", "clean_stage", "clean_request", "answered"}
        BY <1>s, <2>7, <3>1 DEF Download
      <3>3. IngressMoves(c, pc, part)
        BY <1>t, <3>1, <3>2, PartMoves
      <3>4. QED
        BY <1>t, <3>1, <3>2, <3>3, MoveStep
    <2>8. CASE PublishStage(c)
      <3>1. ingress[c].part = "good"
        BY <1>t, <2>8 DEF PublishStage, PublishesGood
      <3>2. PICK pc \in {"commit", "refused"} :
              /\ ingress' = [ingress EXCEPT ![c].part = NoBytes, ![c].pc = pc]
              /\ pc = "commit" => stage' = "good"
        BY <2>8 DEF PublishStage
      <3>3. /\ stage' \in FileBytes /\ (stage' = "bad" => stage = "bad")
            /\ UNCHANGED <<requestFile, authority>>
        BY <1>s, <1>t, <2>8, <3>1 DEF PublishStage
      <3>4. pc \in Steps /\ NoBytes \in FileBytes
            /\ pc \notin {"publish", "clean_stage", "clean_request", "answered"}
        BY <1>s, <3>2
      <3>5. IngressMoves(c, pc, NoBytes)
        BY <1>t, <3>2, <3>4, PartMoves
      <3>6. QED
        BY <1>t, <3>2, <3>3, <3>4, <3>5, MoveStep
    <2>9. CASE CommitIngress(c)
      <3>1. PICK pc \in {"build", "recover", "refused"} : CallGoto(c, pc)
        BY <2>9 DEF CommitIngress
      <3>2. stage # "bad"
        BY <1>t, <2>9 DEF CommitIngress, CommitsVerified
      <3>3. /\ authority' \in FileBytes /\ authority' # "bad"
            /\ (authority = "good" => authority' = "good")
            /\ UNCHANGED <<requestFile, stage>>
        BY <1>s, <1>t, <2>9, <3>2 DEF CommitIngress
      <3>4. pc \in Steps /\ pc \notin {"publish", "commit", "clean_stage", "clean_request", "answered"}
        BY <1>s, <3>1
      <3>5. QED
        BY <1>t, <3>1, <3>3, <3>4, GotoStep
    <2>10. CASE RecoverIngress(c)
      <3>1. PICK pc \in {"refused", "build"} : CallGoto(c, pc)
        BY <2>10 DEF RecoverIngress
      <3>2. UNCHANGED <<requestFile, stage, authority>>
        BY <2>10 DEF RecoverIngress
      <3>3. pc \in Steps /\ pc \notin {"publish", "commit", "clean_stage", "clean_request", "answered"}
        BY <1>s, <3>1
      <3>4. QED
        BY <1>t, <3>1, <3>2, <3>3, GotoStep
    <2>11. CASE BuildResult(c)
      <3>1. PICK pc \in {"clean_stage", "refused"} :
              CallGoto(c, pc) /\ (pc = "clean_stage" => authority = "good")
        BY <2>11 DEF BuildResult
      <3>2. UNCHANGED <<requestFile, stage, authority>>
        BY <2>11 DEF BuildResult
      <3>3. pc \in Steps /\ pc \notin {"publish", "commit", "clean_request", "answered"}
        BY <1>s, <3>1
      <3>4. QED
        BY <1>t, <3>1, <3>2, <3>3, GotoStep
    <2>12. CASE CleanStage(c)
      <3>1. /\ CallGoto(c, "clean_request") /\ "clean_request" \in Steps
            /\ stage' \in FileBytes /\ (stage' = "bad" => stage = "bad")
            /\ UNCHANGED <<requestFile, authority>> /\ authority = "good"
        BY <1>s, <1>t, <2>12 DEF CleanStage, CallAt, IngestedBytesVerified
      <3>2. QED
        BY <1>t, <3>1, GotoStep
    <2>13. CASE CleanRequest(c)
      <3>1. /\ CallGoto(c, "answered") /\ "answered" \in Steps
            /\ requestFile' \in Requests
            /\ UNCHANGED <<stage, authority>> /\ authority = "good"
        BY <1>s, <1>t, <2>13 DEF CleanRequest, CallAt, IngestedBytesVerified
      <3>2. QED
        BY <1>t, <3>1, GotoStep
    <2>14. QED
      BY <1>1, <2>1, <2>2, <2>3, <2>4, <2>5, <2>6, <2>7, <2>8, <2>9, <2>10,
         <2>11, <2>12, <2>13 DEF IngressCall
  <1>2. CASE ServerDies
    BY <1>2, <1>t, RestingTyped
       DEF ServerDies, IngressInv, IngressTypeOK, PublishesGood, CommitsVerified,
           IngestedBytesVerified, CallAt
  <1>3. CASE StageDecays
    BY <1>3, <1>t, <1>s
       DEF StageDecays, Over, IngressInv, IngressTypeOK, PublishesGood,
           CommitsVerified, IngestedBytesVerified, CallAt
  <1>4. CASE UNCHANGED ingressVars
    BY <1>4, <1>t
       DEF ingressVars, IngressInv, IngressTypeOK, PublishesGood,
           CommitsVerified, IngestedBytesVerified, CallAt
  <1>5. QED
    BY <1>1, <1>2, <1>3, <1>4 DEF IngressNext

\* Whatever an earlier process staged, whichever calls of an identity run
\* together and wherever the server dies, no unverified byte reaches an input
\* authority and an answered call's bytes are there (perform_input_ingress).
THEOREM IngressVerified == IngressSpec => []IngestedBytesVerified
  <1>1. IngressInv => IngestedBytesVerified
    BY DEF IngressInv
  <1>2. QED
    BY <1>1, IngressInitial, IngressStep, PTL DEF IngressSpec

\* Every file of the ingress is absent, torn or whole, and every call is at a
\* known step (perform_input_ingress).
THEOREM IngressTypes == IngressSpec => []IngressTypeOK
  <1>1. IngressInv => IngressTypeOK
    BY DEF IngressInv
  <1>2. QED
    BY <1>1, IngressInitial, IngressStep, PTL DEF IngressSpec

-----------------------------------------------------------------------------
(* The maintenance task.                                                   *)

USE MaintenanceAssumption

LEMMA OpenCount == Cardinality(OpenAttempts) \in Nat
BY FS_CardinalityType

\* The Attempt admitted last goes to the end, and those behind its old place
\* move up: still no two in one place.
LEMMA AdmissionOrders ==
    ASSUME MaintenanceTypeOK, NEW a \in OpenAttempts, AdmitAttempt(a)
    PROVE  arrival' \in Orders
<1> DEFINE N == Cardinality(OpenAttempts)
<1>1. N \in Nat /\ Positions = 1 .. N
  BY OpenCount DEF Positions
<1>2. /\ arrival \in [OpenAttempts -> Positions]
      /\ \A b, c \in OpenAttempts : arrival[b] = arrival[c] => b = c
  BY DEF MaintenanceTypeOK, Orders
<1>3. arrival' = [b \in OpenAttempts |->
                    IF b = a THEN N
                    ELSE IF arrival[b] > arrival[a] THEN arrival[b] - 1 ELSE arrival[b]]
  BY DEF AdmitAttempt
<1> HIDE DEF N
<1>4. arrival' \in [OpenAttempts -> Positions]
  BY <1>1, <1>2, <1>3
<1>5. ASSUME NEW b \in OpenAttempts, NEW c \in OpenAttempts, arrival'[b] = arrival'[c]
      PROVE  b = c
  BY <1>1, <1>2, <1>3, <1>5
<1> QED
  BY <1>4, <1>5 DEF Orders

\* A batch is a short sequence of Attempts.
LEMMA BatchTyped ==
    ASSUME NEW listed \in ListMaintenanceAttempts
    PROVE  listed \in Seq(OpenAttempts) /\ Len(listed) <= BatchSize
<1>1. PICK n \in 0 .. BatchSize : listed \in [1 .. n -> Listed]
  BY DEF ListMaintenanceAttempts
<1>2. Listed \subseteq OpenAttempts
  BY DEF Listed
<1>3. listed \in [1 .. n -> OpenAttempts]
  BY <1>1, <1>2
<1>4. n \in Nat
  OBVIOUS
<1> QED
  BY <1>1, <1>3, <1>4

\* A tick looks at a bounded number of Attempts that are there, whatever is
\* admitted, flagged and concluded in the meantime, and the order of admission
\* stays one (list_maintenance_attempts_bounded).
THEOREM MaintenanceTypes == MaintenanceSpec => []MaintenanceTypeOK
<1>1. MaintenanceInit => MaintenanceTypeOK
  BY DEF MaintenanceInit, MaintenanceTypeOK, Standings, Blocking
<1>2. MaintenanceTypeOK /\ [MaintenanceNext]_maintenanceVars => MaintenanceTypeOK'
  <2> SUFFICES ASSUME MaintenanceTypeOK, [MaintenanceNext]_maintenanceVars
               PROVE  MaintenanceTypeOK'
    OBVIOUS
  <2>1. CASE UNCHANGED maintenanceVars
    BY <2>1 DEF maintenanceVars, MaintenanceTypeOK, Orders, Positions
  <2>2. CASE Tick
    BY <2>2, BatchTyped DEF Tick, MaintenanceTypeOK, Orders, Positions
  <2>3. CASE ReconcileCandidate
    <3>1. PICK a \in OpenAttempts : a = Head(tick)
      BY <2>3 DEF ReconcileCandidate, MaintenanceTypeOK
    <3>2. tick' \in Seq(OpenAttempts) /\ Len(tick') <= BatchSize
      BY <2>3 DEF ReconcileCandidate, MaintenanceTypeOK
    <3>3. standing' \in [OpenAttempts -> Standings]
      BY <2>3, <3>1 DEF ReconcileCandidate, MaintenanceTypeOK, Standings
    <3>4. flagged' \subseteq OpenAttempts
      BY <2>3, <3>1 DEF ReconcileCandidate, MaintenanceTypeOK
    <3> QED
      BY <2>3, <3>2, <3>3, <3>4
      DEF ReconcileCandidate, MaintenanceTypeOK, Orders, Positions
  <2>4. CASE FatalError
    BY <2>4 DEF FatalError, MaintenanceTypeOK, Orders, Positions
  <2>5. ASSUME NEW a \in OpenAttempts, ObserveJob(a) PROVE MaintenanceTypeOK'
    BY <2>5 DEF ObserveJob, MaintenanceTypeOK, Orders, Positions, Standings
  <2>6. ASSUME NEW a \in OpenAttempts, AdmitAttempt(a) PROVE MaintenanceTypeOK'
    <3>1. arrival' \in Orders
      BY <2>6, AdmissionOrders
    <3> QED
      BY <2>6, <3>1 DEF AdmitAttempt, MaintenanceTypeOK, Standings, Blocking
  <2>7. ASSUME NEW a \in OpenAttempts, Changes(a) PROVE MaintenanceTypeOK'
    BY <2>7 DEF Changes, MaintenanceTypeOK, Orders, Positions, Standings, Blocking
  <2> QED
    BY <2>1, <2>2, <2>3, <2>4, <2>5, <2>6, <2>7 DEF MaintenanceNext
<1> QED
  BY <1>1, <1>2, PTL DEF MaintenanceSpec

-----------------------------------------------------------------------------
(* The components side by side.  Every behaviour of the composition is a   *)
(* behaviour of each component: of the one that runs, by its own steps,    *)
(* and of the others by standing still.                                    *)

LEMMA ComponentsRun ==
    ComponentSpec =>
        /\ WorkspaceSpec /\ MutationSpec /\ PageSpec /\ SetSpec /\ NativeSpec /\ ReleaseSpec
        /\ StorageSpec /\ RepairSpec /\ IngressSpec /\ MaintenanceSpec /\ RunnerSpec
<1>1. ComponentInit =>
        /\ WorkspaceInit /\ MutationInit /\ PageInit /\ SetInit /\ NativeInit /\ ReleaseInit
        /\ StorageInit /\ RepairInit /\ IngressInit /\ MaintenanceInit /\ RunnerInit
  BY DEF ComponentInit
<1>2. [ComponentNext]_allVars =>
        /\ [WorkspaceNext]_workspaceVars /\ [MutationNext]_mutationVars /\ [PageNext]_pageVars
        /\ [SetNext]_setVars /\ [NativeNext]_nativeVars /\ [ReleaseNext]_releaseVars
        /\ [StorageNext]_storageVars /\ [RepairNext]_repairVars /\ [IngressNext]_ingressVars
        /\ [MaintenanceNext]_maintenanceVars /\ [RunnerNext]_runnerVars
  BY DEF ComponentNext, allVars
<1> QED
  BY <1>1, <1>2, PTL
  DEF ComponentSpec, WorkspaceSpec, MutationSpec, PageSpec, SetSpec, NativeSpec, ReleaseSpec,
      StorageSpec, RepairSpec, IngressSpec, MaintenanceSpec, RunnerSpec

\* Whichever component runs is in a state of its type: the type invariant of
\* every component, for every value of its constants.
THEOREM ComponentsTyped == ComponentSpec => []ComponentTypeOK
<1>1. ComponentSpec => [](component \in Components)
  <2>1. ComponentInit => component \in Components
    BY DEF ComponentInit
  <2>2. component \in Components /\ [ComponentNext]_allVars => (component \in Components)'
    BY DEF ComponentNext, allVars
  <2> QED
    BY <2>1, <2>2, PTL DEF ComponentSpec
<1>2. /\ component \in Components
      /\ WorkspaceTypeOK /\ MutationTypeOK /\ PageTypeOK /\ SetTypeOK /\ NativeTypeOK
      /\ ReleaseTypeOK /\ StorageTypeOK /\ RepairTypeOK /\ IngressTypeOK
      /\ MaintenanceTypeOK /\ RunnerTypeOK
      => ComponentTypeOK
  BY DEF ComponentTypeOK
<1> QED
  BY <1>1, <1>2, ComponentsRun, WorkspaceTypes, MutationTypes, PageTypesHold, SetTypes,
     NativeTypes, ReleaseTypes, StorageTyped, RepairTypes, IngressTypes, MaintenanceTypes,
     RunnerTyped, PTL

\* What is checked of the composition on a small instance holds of it for every
\* value of the constants: the safety properties of all the components.
THEOREM ComponentsSafe ==
    ComponentSpec =>
        /\ [](AuthorityAlive /\ RefusalTouchesOneFile /\ PagesAreTheSet /\ BytesOutliveCommit)
        /\ [](AnswersTrue /\ VerdictAfterTree /\ ResultStands /\ OneCutover)
        /\ [](SchemaExact /\ IngestedBytesVerified /\ CompletedIsRealized)
        /\ EditOverwrittenOnlyRaced /\ LaunchFindsBytes /\ ReceiptTrue /\ RepairFromBackup
BY ComponentsRun, WorkspaceAuthority, MutationRefusal, PagesHold, SetBytes, SetAnswers,
   NativeVerdictAfterTree, NativeResultStands, ReleaseOneCutover, SchemaIsExact,
   IngressVerified, RunnerRealized, MutationOverwrites, SetLaunches, ReleaseReceipt,
   RepairBackedUp, PTL
=============================================================================
