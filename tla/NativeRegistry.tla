--------------------------- MODULE NativeRegistry ---------------------------
(***************************************************************************)
(* NativeAttempt follows one row through the threads of the Runtime and    *)
(* writes it in short; Registry has the same transactions in full.  Here   *)
(* the row of a native Attempt is read as the Registry's tables for one    *)
(* Job, admitted, with its bundle bound and its dispatch issued: row       *)
(* version 2.  The verdict's source stands for the digest of its evidence. *)
(***************************************************************************)
EXTENDS NativeAttempt

Attempt == "attempt"
Null == "null"

CapacityView ==
    IF nativeRow.state = "orphaned" THEN "held_orphaned"
    ELSE IF nativeRow.state \in NativeConclusive THEN "released" ELSE "active"

OwnerView == IF nativeRow.bound THEN "launcher" ELSE Null
EvidenceView == IF nativeRow.by = "none" THEN Null ELSE nativeRow.by

AttemptView ==
    [state |-> nativeRow.state, intent |-> nativeRow.intent, bundle |-> "bundle",
     owner |-> OwnerView, digest |-> EvidenceView, rv |-> nativeRow.rv + 2, recovery |-> 0]

\* A desired cancellation and a stop intent are committed together, except
\* by a cancellation that finds the outer deadline's stop already there.
DesiredView == IF nativeRow.intent = "stop_requested" THEN "cancelled" ELSE "run"
ResolutionView == IF nativeRow.state \in NativeTerminal THEN nativeRow.state ELSE Null
CurrentView == IF nativeRow.state \in NativeTerminal THEN Null ELSE Attempt

JobView ==
    [key |-> "key", op |-> "request", limit |-> 1, desired |-> DesiredView,
     resolution |-> ResolutionView, current |-> CurrentView]

Table == INSTANCE Registry WITH
    Jobs <- {Attempt}, None <- Null, Keys <- {"key"}, Operations <- {"request"},
    Workspaces <- {"workspace"}, WorkspaceOf <- [op \in {"request"} |-> "workspace"],
    Limits <- {1}, Owners <- {"launcher"}, Digests <- {"control", "result"}, Kinds <- {},
    RowVersions <- 0 .. 7,
    jobs <- [j \in {Attempt} |-> JobView],
    attempts <- [j \in {Attempt} |-> AttemptView],
    reservations <- [j \in {Attempt} |-> CapacityView],
    keys <- [k \in {"key"} |-> Attempt], artifacts <- {}, fence <- FALSE

\* Whatever the threads of the Runtime do to the row of a native Attempt is
\* one of the Registry's transactions, under the row version it has.
NativeTransactions == [][Table!Next]_(Table!registryVars)

\* A conclusive verdict is the last thing written to the row, and a committed
\* stop is only followed by a verdict.
NativeVerdictFinal ==
    [][/\ nativeRow.state \in NativeConclusive => UNCHANGED nativeRow
       /\ nativeRow.state = "orphaned" => nativeRow'.state \in NativeTerminal
       /\ nativeRow.state = "stopping" =>
             nativeRow'.state \in {"stopping"} \cup NativeTerminal
             /\ nativeRow'.intent = nativeRow.intent]_nativeVars
=============================================================================
