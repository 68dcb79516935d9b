-------------------------- MODULE RegistryContract --------------------------
(***************************************************************************)
(* The Registry implements JobContract.  The Workspace of a Job is read    *)
(* from its committed request; a Job occupies it exactly while its         *)
(* reservation counts against the limits.                                  *)
(***************************************************************************)
EXTENDS Registry

\* While the reservation is held the client sees no verdict or "orphaned";
\* the conclusive resolution is published with the released reservation.
PlaceOf(j) == IF Admitted(j) THEN WorkspaceOf[jobs[j].op] ELSE None
VerdictOf(j) ==
    CASE reservations[j] = "held_orphaned" -> "orphaned"
      [] reservations[j] = "released"      -> jobs[j].resolution
      [] OTHER                             -> None

Contract == INSTANCE JobContract WITH
    place    <- [j \in Jobs |-> PlaceOf(j)],
    verdict  <- [j \in Jobs |-> VerdictOf(j)],
    Verdicts <- Conclusive

\* Every transaction of the Registry is a step of the client contract or
\* invisible to it (submit_preallocated, request_cancel, commit_terminal and
\* recover_orphaned_terminal are the visible ones).
ImplementsContract == Contract!Spec
=============================================================================
