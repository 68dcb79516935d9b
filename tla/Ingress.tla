------------------------------ MODULE Ingress ------------------------------
(***************************************************************************)
(* input.ingest: bytes the caller's host offers under a URL are downloaded *)
(* into a private staging directory, verified, and handed to the           *)
(* Workstation, which alone may add them to an input authority.  Calls of  *)
(* one durable identity (request, authority, object, digest, size) share   *)
(* their staged source and request file, run concurrently, and may be cut  *)
(* short by the death of the server.                                       *)
(*                                                                         *)
(* Sources: mcp/src/server/server_state.rs, mcp/src/server/                *)
(* input_ingress.rs, mcp/src/server/tools.rs.  The Workstation tool is     *)
(* external: it is trusted to be idempotent, not to verify the bytes.      *)
(***************************************************************************)
EXTENDS FiniteSets

CONSTANTS
    IngressCalls,   \* concurrent calls of one identity
    HostFiles       \* host file references a call may carry

ASSUME HostFilesAssumption == HostFiles # {}

VARIABLES
    requestFile,    \* <key>.request.json: absent, torn by a call, or of a file
    stage,          \* <key>.source
    authority,      \* what the Workstation has committed
    ingress         \* per call: where it is, its file, its own .part file

ingressVars == <<requestFile, stage, authority, ingress>>

NoBytes == "none"
FileBytes == {NoBytes, "good", "bad"}       \* good: the expected size and digest
AbsentRequest == [is |-> "absent"]
TornBy(c) == [is |-> "torn", by |-> c]
RequestOf(f) == [is |-> "whole", file |-> f]

Over == {"idle", "answered", "refused"}
Steps == Over \cup {"request", "write", "reconcile", "check", "discard",
                    "download", "publish", "commit", "recover", "build",
                    "clean_stage", "clean_request"}
IngressResting == [pc |-> "idle", file |-> CHOOSE f \in HostFiles : TRUE, part |-> NoBytes]

(* A source may have been staged by an earlier process, and have decayed.  *)
IngressInit ==
    /\ requestFile = AbsentRequest
    /\ stage \in FileBytes /\ authority = NoBytes
    /\ ingress = [c \in IngressCalls |-> IngressResting]

CallAt(c, pc) == ingress[c].pc = pc
CallGoto(c, pc) == ingress' = [ingress EXCEPT ![c].pc = pc]

(* perform_input_ingress up to the identity: the authority, the digest,    *)
(* the size, the object name and the host of the URL are admissible.       *)
Ingest(c) ==
    /\ ingress[c].pc \in Over
    /\ \E f \in HostFiles :
          ingress' = [ingress EXCEPT ![c] = [pc |-> "request", file |-> f, part |-> NoBytes]]
    /\ UNCHANGED <<requestFile, stage, authority>>

(* A retained request must be byte for byte this call's, the file          *)
(* reference included, which the identity does not cover; otherwise the    *)
(* file is created, and written next.                                      *)
RetainRequest(c) ==
    /\ CallAt(c, "request")
    /\ IF requestFile = AbsentRequest
       THEN requestFile' = TornBy(c) /\ CallGoto(c, "write")
       ELSE /\ CallGoto(c, IF requestFile = RequestOf(ingress[c].file) THEN "reconcile"
                       ELSE "refused")
            /\ UNCHANGED requestFile
    /\ UNCHANGED <<stage, authority>>

(* Another call's clean-up may have unlinked the file meanwhile; an error  *)
(* leaves it torn.                                                         *)
WriteRequestFile(c) ==
    /\ CallAt(c, "write")
    /\ \/ /\ requestFile' = IF requestFile = TornBy(c) THEN RequestOf(ingress[c].file)
                            ELSE requestFile
          /\ CallGoto(c, "reconcile")
       \/ UNCHANGED requestFile /\ CallGoto(c, "refused")
    /\ UNCHANGED <<stage, authority>>

(* run_workstation(true): nothing is changed; without a whole request the  *)
(* tool fails, and it may fail anyway.                                     *)
ReconcileIngress(c) ==
    /\ CallAt(c, "reconcile")
    /\ \/ CallGoto(c, "refused")
       \/ requestFile.is = "whole" /\ CallGoto(c, IF authority = NoBytes THEN "check" ELSE "build")
    /\ UNCHANGED <<requestFile, stage, authority>>

(* A staged source is taken for what it says it is.                        *)
CheckStageUnread(c) ==
    /\ CallAt(c, "check")
    /\ CallGoto(c, IF stage = NoBytes THEN "download" ELSE "commit")
    /\ UNCHANGED <<requestFile, stage, authority>>

(* ingress_stage_size_digest of a source an earlier call left.             *)
CheckStage(c) ==
    /\ CallAt(c, "check")
    /\ CallGoto(c, CASE stage = NoBytes -> "download"
                 [] stage = "good" -> "commit"
                 [] stage = "bad" -> "discard")
    /\ UNCHANGED <<requestFile, stage, authority>>

(* The removal comes after the look, and takes whatever is there by then.  *)
DiscardStage(c) ==
    /\ CallAt(c, "discard")
    /\ stage' \in {NoBytes, stage} /\ CallGoto(c, "download")
    /\ UNCHANGED <<requestFile, authority>>

(* The stream is written to the call's own file and verified there: an     *)
(* error of the transport leaves it behind, a wrong length or digest       *)
(* removes it.                                                             *)
Download(c) ==
    /\ CallAt(c, "download")
    /\ \/ ingress' = [ingress EXCEPT ![c].pc = "publish", ![c].part = "good"]
       \/ \E left \in {NoBytes, "bad"} :
             ingress' = [ingress EXCEPT ![c].pc = "refused", ![c].part = left]
    /\ UNCHANGED <<requestFile, stage, authority>>

(* hard_link: a source published meanwhile is verified and used instead.   *)
PublishStage(c) ==
    /\ CallAt(c, "publish")
    /\ \/ /\ stage' = IF stage = NoBytes THEN ingress[c].part ELSE stage
          /\ ingress' = [ingress EXCEPT ![c].part = NoBytes,
                            ![c].pc = IF stage' = "good" THEN "commit" ELSE "refused"]
       \/ /\ UNCHANGED stage
          /\ ingress' = [ingress EXCEPT ![c].part = NoBytes, ![c].pc = "refused"]
    /\ UNCHANGED <<requestFile, authority>>

(* run_workstation(false): the source is committed once; the answer, or    *)
(* the whole run, may be lost.                                             *)
CommitIngress(c) ==
    /\ CallAt(c, "commit")
    /\ \/ /\ requestFile.is = "whole" /\ (authority # NoBytes \/ stage # NoBytes)
          /\ authority' = IF authority = NoBytes THEN stage ELSE authority
          /\ \E pc \in {"build", "recover", "refused"} : CallGoto(c, pc)
       \/ UNCHANGED authority /\ \E pc \in {"recover", "refused"} : CallGoto(c, pc)
    /\ UNCHANGED <<requestFile, stage>>

RecoverIngress(c) ==
    /\ CallAt(c, "recover")
    /\ \/ CallGoto(c, "refused")
       \/ requestFile.is = "whole" /\ authority # NoBytes /\ CallGoto(c, "build")
    /\ UNCHANGED <<requestFile, stage, authority>>

(* build_result compares the receipt's size and digest; only then is the   *)
(* staging cleaned up, the source first; a removal may fail unnoticed.     *)
BuildResult(c) ==
    /\ CallAt(c, "build")
    /\ CallGoto(c, IF authority = "good" THEN "clean_stage" ELSE "refused")
    /\ UNCHANGED <<requestFile, stage, authority>>

CleanStage(c) ==
    /\ CallAt(c, "clean_stage")
    /\ stage' \in {NoBytes, stage} /\ CallGoto(c, "clean_request")
    /\ UNCHANGED <<requestFile, authority>>

CleanRequest(c) ==
    /\ CallAt(c, "clean_request")
    /\ requestFile' \in {AbsentRequest, requestFile} /\ CallGoto(c, "answered")
    /\ UNCHANGED <<stage, authority>>

(* The server dies: every call is gone, every file stays as it is.         *)
ServerDies ==
    /\ \E c \in IngressCalls : ingress[c].pc \notin Over
    /\ ingress' = [c \in IngressCalls |-> IngressResting]
    /\ UNCHANGED <<requestFile, stage, authority>>

(* Storage decays while nobody uses it.                                    *)
StageDecays ==
    /\ \A c \in IngressCalls : ingress[c].pc \in Over
    /\ stage = "good" /\ stage' = "bad"
    /\ UNCHANGED <<requestFile, authority, ingress>>

IngressCall(c) ==
    \/ Ingest(c) \/ RetainRequest(c) \/ WriteRequestFile(c) \/ ReconcileIngress(c)
    \/ CheckStage(c) \/ DiscardStage(c) \/ Download(c) \/ PublishStage(c)
    \/ CommitIngress(c) \/ RecoverIngress(c) \/ BuildResult(c)
    \/ CleanStage(c) \/ CleanRequest(c)

IngressNext == (\E c \in IngressCalls : IngressCall(c)) \/ ServerDies \/ StageDecays

IngressSpec == IngressInit /\ [][IngressNext]_ingressVars

-----------------------------------------------------------------------------
\* Every file is absent, torn or whole, and every call is at a known step.
IngressTypeOK ==
    /\ requestFile \in {AbsentRequest} \cup {TornBy(c) : c \in IngressCalls}
                       \cup {RequestOf(f) : f \in HostFiles}
    /\ stage \in FileBytes /\ authority \in FileBytes
    /\ ingress \in [IngressCalls -> [pc : Steps, file : HostFiles, part : FileBytes]]

\* Only verified bytes reach an input authority, and a call that answers has
\* its bytes there: whatever earlier processes staged, whichever calls of
\* the identity run together and discard or clean up each other's files,
\* and wherever the server dies (server_state.rs, perform_input_ingress).
IngestedBytesVerified ==
    /\ authority # "bad"
    /\ \A c \in IngressCalls :
          ingress[c].pc \in {"clean_stage", "clean_request", "answered"} => authority = "good"
=============================================================================
